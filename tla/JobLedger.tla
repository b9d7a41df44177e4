------------------------------ MODULE JobLedger ------------------------------
(* The compile jobs of one served workspace: the append-only ledger file, the *)
(* ledger in memory, and the queue that runs the jobs one after another       *)
(* (internal/serve/jobs.go, and the part of server.go that stops the queue).  *)
(* A member of Queues is one assembly, that is one OpenLedger and NewQueue;   *)
(* a restart or a reassembly is another.  A definition that is named after a  *)
(* mistake (Requeued, Unsettled, ...) precedes the one it is a mistake of and *)
(* is used by no specification.                                               *)
EXTENDS Integers, FiniteSets

CONSTANTS
  Queues,        \* assemblies
  MaxJobs,       \* bound: jobs ever submitted, numbered in order of creation
  MaxBacklog,    \* maxBacklog
  MaxCompiles,   \* --max-concurrent-compiles, the gate that assemblies share
  JobFaults,     \* faults that may happen, see JobFault
  MaxJobFaults   \* bound: how many of them

ASSUME JobAssumption ==
  /\ MaxJobs \in Nat /\ MaxBacklog \in Nat /\ MaxCompiles \in Nat /\ MaxJobFaults \in Nat
  /\ JobFaults \subseteq {"lost", "kept", "torn", "crash", "linger", "late"}

Jobs     == 1..MaxJobs
Verdicts == {"done", "failed", "interrupted"}
Statuses == {"none", "pending", "running"} \union Verdicts

VARIABLES
  ledger,     \* jobs.jsonl: the last status recorded of each job
  torn,       \* jobs.jsonl holds a partial line
  mem,        \* Ledger.jobs of each assembly
  jpc, job,   \* where Queue.Run stands, and the job it took
  wake,       \* the wake channel holds its token
  nudge,      \* submitters between Ledger.Submit and the send on wake
  stopped,    \* stopCh is closed
  expired,    \* Stop ran out of its budget and cancelled the context
  shut,       \* Stop has returned although Run has not
  sigterm,    \* the process's context, parent of every queue's, is cancelled
  accounted,  \* queueDepthAccounted of the ledger's path
  jobFaults,  \* faults so far
  accepted,   \* history: jobs whose Submit succeeded
  runs        \* history: how often each job's compile was started

jobFile   == <<ledger, torn>>
queueVars == <<mem, jpc, job, wake, nudge, stopped, expired, shut>>
jobVars   == <<jobFile, queueVars, sigterm, accounted, jobFaults, accepted, runs>>

NoJobs == [j \in Jobs |-> "none"]

LedgerInit ==
  /\ ledger = NoJobs /\ torn = FALSE
  /\ mem = [q \in Queues |-> NoJobs]
  /\ jpc = [q \in Queues |-> "absent"] /\ job = [q \in Queues |-> 0]
  /\ wake = [q \in Queues |-> FALSE] /\ nudge = [q \in Queues |-> 0]
  /\ stopped = [q \in Queues |-> FALSE] /\ expired = [q \in Queues |-> FALSE]
  /\ shut = [q \in Queues |-> FALSE]
  /\ sigterm = FALSE /\ accounted = 0 /\ jobFaults = 0
  /\ accepted = {} /\ runs = [j \in Jobs |-> 0]

-----------------------------------------------------------------------------
(* lost, kept, torn: an append fails and leaves no line, its line (the fsync  *)
(* failed), a part of it.  linger: a compile ignores its context for longer   *)
(* than Stop waits.  late: the goroutine of Run is scheduled after Stop saw   *)
(* that it had not begun.                                                     *)
JobFault(k) ==
  /\ k \in JobFaults /\ jobFaults < MaxJobFaults
  /\ jobFaults' = jobFaults + 1

Unsettled(q) == {j \in Jobs : mem[q][j] \in {"pending", "interrupted"}}
Pending(q) == {j \in Jobs : mem[q][j] = "pending"}
Backlog(q) == {j \in Jobs : mem[q][j] \in {"pending", "running"}}
Fresh(j)   == ledger[j] = "none" /\ \A q \in Queues : mem[q][j] = "none"

Cancelled(q) == sigterm \/ expired[q]
Compiling    == {q \in Queues : jpc[q] = "exec"}

Recorded(j, s) == ledger' = [ledger EXCEPT ![j] = s] /\ UNCHANGED <<torn, jobFaults>>

NotRecorded(j, s) ==
  \/ JobFault("lost") /\ UNCHANGED jobFile
  \/ JobFault("kept") /\ ledger' = [ledger EXCEPT ![j] = s] /\ UNCHANGED torn
  \/ JobFault("torn") /\ torn' = TRUE /\ UNCHANGED ledger

Goto(q, l) == jpc' = [jpc EXCEPT ![q] = l]

TransitionAsCancelled(q, j, s) ==
  mem' = [mem EXCEPT ![q][j] = IF s = "interrupted" THEN "cancelled" ELSE s]

\* transition: memory first, then the file, whose error only the start of a job heeds.
Transition(q, j, s) == mem' = [mem EXCEPT ![q][j] = s]

-----------------------------------------------------------------------------
(* Opening.  A job left running is settled before anything else.             *)

Requeued(f) == [j \in Jobs |-> IF f[j] = "running" THEN "pending" ELSE f[j]]
Replayed(f) == [j \in Jobs |-> IF f[j] = "running" THEN "interrupted" ELSE f[j]]

OpenLedger(q) ==
  /\ jpc[q] = "absent" /\ ~torn
  /\ ledger' = Replayed(ledger)
  /\ mem' = [mem EXCEPT ![q] = Replayed(ledger)]
  /\ Goto(q, "opened")
  /\ UNCHANGED <<torn, job, wake, nudge, stopped, expired, shut, sigterm, accounted,
                 jobFaults, accepted, runs>>

\* An append fails on the way: the assembly fails, what was settled stays settled.
OpenFails(q) ==
  /\ jpc[q] = "absent" /\ ~torn
  /\ \E i \in Jobs, k \in {"lost", "kept", "torn"} :
       /\ ledger[i] = "running" /\ JobFault(k)
       /\ torn' = (k = "torn")
       /\ ledger' = [j \in Jobs |-> IF j < i \/ (j = i /\ k = "kept")
                                    THEN Replayed(ledger)[j] ELSE ledger[j]]
  /\ UNCHANGED <<queueVars, sigterm, accounted, accepted, runs>>

-----------------------------------------------------------------------------
(* Submitting.                                                               *)

SubmitMemoryFirst(q) ==
  \E j \in Jobs :
    /\ Fresh(j) /\ \A i \in 1..(j - 1) : ~Fresh(i)
    /\ jpc[q] # "absent" /\ ~shut[q] /\ Cardinality(Backlog(q)) < MaxBacklog
    /\ mem' = [mem EXCEPT ![q][j] = "pending"]
    /\ accepted' = accepted \union {j}
    /\ accounted' = accounted + 1
    /\ nudge' = [nudge EXCEPT ![q] = @ + 1]
    /\ Recorded(j, "pending") \/ NotRecorded(j, "pending")
    /\ UNCHANGED <<jpc, job, wake, stopped, expired, shut, sigterm, runs>>

Submit(q) ==
  \E j \in Jobs :
    /\ Fresh(j) /\ \A i \in 1..(j - 1) : ~Fresh(i)
    /\ jpc[q] # "absent" /\ ~shut[q] /\ Cardinality(Backlog(q)) < MaxBacklog
    /\ \/ /\ Recorded(j, "pending")
          /\ mem' = [mem EXCEPT ![q][j] = "pending"]
          /\ accepted' = accepted \union {j}
          /\ accounted' = accounted + 1
          /\ nudge' = [nudge EXCEPT ![q] = @ + 1]
       \/ NotRecorded(j, "pending") /\ UNCHANGED <<mem, accepted, accounted, nudge>>
    /\ UNCHANGED <<jpc, job, wake, stopped, expired, shut, sigterm, runs>>

\* The send on wake does not block: a token that is there already is enough.
Nudge(q) ==
  /\ nudge[q] > 0
  /\ nudge' = [nudge EXCEPT ![q] = @ - 1]
  /\ wake' = [wake EXCEPT ![q] = TRUE]
  /\ UNCHANGED <<jobFile, mem, jpc, job, stopped, expired, shut, sigterm, accounted,
                 jobFaults, accepted, runs>>

-----------------------------------------------------------------------------
(* The queue.                                                                *)

\* Run: the gauge is brought to what is pending, then the backlog is drained.
Run(q) ==
  /\ jpc[q] = "opened"
  /\ IF shut[q] THEN JobFault("late") ELSE UNCHANGED jobFaults
  /\ accounted' = Cardinality(Pending(q))
  /\ Goto(q, "drain")
  /\ UNCHANGED <<jobFile, mem, job, wake, nudge, stopped, expired, shut, sigterm,
                 accepted, runs>>

\* drainOnce takes the oldest pending job, unless the queue was stopped; a cancelled
\* context and the free slot of sem are two ready cases of one select.
Drain(q) ==
  /\ jpc[q] = "drain"
  /\ \/ /\ Pending(q) = {} \/ stopped[q] \/ Cancelled(q)
        /\ Goto(q, "select") /\ UNCHANGED job
     \/ /\ ~stopped[q]
        /\ \E oldest \in Pending(q) :
             /\ \A j \in Pending(q) : oldest <= j
             /\ job' = [job EXCEPT ![q] = oldest]
        /\ Goto(q, "start")
  /\ UNCHANGED <<jobFile, mem, wake, nudge, stopped, expired, shut, sigterm, accounted,
                 jobFaults, accepted, runs>>

Select(q) ==
  /\ jpc[q] = "select"
  /\ \/ Cancelled(q) /\ Goto(q, "gone") /\ UNCHANGED wake
     \/ stopped[q] /\ Goto(q, "gone") /\ UNCHANGED wake
     \/ wake[q] /\ wake' = [wake EXCEPT ![q] = FALSE] /\ Goto(q, "drain")
  /\ UNCHANGED <<jobFile, mem, job, nudge, stopped, expired, shut, sigterm, accounted,
                 jobFaults, accepted, runs>>

\* A start that cannot be recorded is not executed: the job stays running in memory.
Start(q) ==
  /\ jpc[q] = "start"
  /\ Transition(q, job[q], "running")
  /\ \/ Recorded(job[q], "running") /\ Goto(q, "started")
     \/ NotRecorded(job[q], "running") /\ Goto(q, "stranded")
  /\ UNCHANGED <<job, wake, nudge, stopped, expired, shut, sigterm, accounted,
                 accepted, runs>>

Account(q) ==
  /\ jpc[q] \in {"started", "stranded"}
  /\ accounted' = accounted - 1
  /\ Goto(q, IF jpc[q] = "started" THEN "gate" ELSE "drain")
  /\ UNCHANGED <<jobFile, mem, job, wake, nudge, stopped, expired, shut, sigterm,
                 jobFaults, accepted, runs>>

\* semaphoreWrap: the compile waits for a slot of the shared gate.
Gate(q) ==
  /\ jpc[q] = "gate" /\ Cardinality(Compiling) < MaxCompiles
  /\ runs' = [runs EXCEPT ![job[q]] = @ + 1]
  /\ Goto(q, "exec")
  /\ UNCHANGED <<jobFile, mem, job, wake, nudge, stopped, expired, shut, sigterm,
                 accounted, jobFaults, accepted>>

FinishThenWait(q) ==
  /\ \E v \in Verdicts :
       /\ \/ jpc[q] = "exec" /\ (v = "interrupted" => Cancelled(q))
          \/ jpc[q] = "gate" /\ v = "interrupted" /\ Cancelled(q)
       /\ Transition(q, job[q], v)
       /\ Recorded(job[q], v) \/ NotRecorded(job[q], v)
  /\ Goto(q, "select")
  /\ UNCHANGED <<job, wake, nudge, stopped, expired, shut, sigterm, accounted,
                 accepted, runs>>

\* The compile returns, fails, panics, or gives up with its context.  An append that
\* fails now is ignored.
Finish(q) ==
  /\ \E v \in Verdicts :
       /\ \/ jpc[q] = "exec" /\ (v = "interrupted" => Cancelled(q))
          \/ jpc[q] = "gate" /\ v = "interrupted" /\ Cancelled(q)
       /\ Transition(q, job[q], v)
       /\ Recorded(job[q], v) \/ NotRecorded(job[q], v)
  /\ Goto(q, "drain")
  /\ UNCHANGED <<job, wake, nudge, stopped, expired, shut, sigterm, accounted,
                 accepted, runs>>

-----------------------------------------------------------------------------
(* Stopping.                                                                 *)

\* What is left of an assembly that was closed, when its goroutine has returned.
Forgotten(q) ==
  /\ mem' = [mem EXCEPT ![q] = NoJobs]
  /\ jpc' = [jpc EXCEPT ![q] = "absent"] /\ job' = [job EXCEPT ![q] = 0]
  /\ wake' = [wake EXCEPT ![q] = FALSE] /\ nudge' = [nudge EXCEPT ![q] = 0]
  /\ stopped' = [stopped EXCEPT ![q] = FALSE]
  /\ expired' = [expired EXCEPT ![q] = FALSE]
  /\ shut' = [shut EXCEPT ![q] = FALSE]

\* Stop before Run has begun has nothing to drain, and does not close stopCh.
StopUnstarted(q) ==
  /\ jpc[q] = "opened" /\ ~shut[q]
  /\ shut' = [shut EXCEPT ![q] = TRUE]
  /\ UNCHANGED <<jobFile, mem, jpc, job, wake, nudge, stopped, expired, sigterm,
                 accounted, jobFaults, accepted, runs>>

Started(q) == jpc[q] \notin {"absent", "opened"}

StopSignal(q) ==
  /\ Started(q) /\ ~stopped[q]
  /\ stopped' = [stopped EXCEPT ![q] = TRUE]
  /\ UNCHANGED <<jobFile, mem, jpc, job, wake, nudge, expired, shut, sigterm, accounted,
                 jobFaults, accepted, runs>>

StopExpires(q) ==
  /\ Started(q) /\ stopped[q] /\ ~expired[q] /\ ~shut[q] /\ jpc[q] # "gone"
  /\ expired' = [expired EXCEPT ![q] = TRUE]
  /\ UNCHANGED <<jobFile, mem, jpc, job, wake, nudge, stopped, shut, sigterm, accounted,
                 jobFaults, accepted, runs>>

StopReturns(q) ==
  /\ stopped[q] /\ ~shut[q]
  /\ \/ jpc[q] = "gone" /\ Forgotten(q) /\ UNCHANGED jobFaults
     \/ /\ expired[q] /\ jpc[q] = "exec" /\ JobFault("linger")
        /\ shut' = [shut EXCEPT ![q] = TRUE]
        /\ UNCHANGED <<mem, jpc, job, wake, nudge, stopped, expired>>
  /\ UNCHANGED <<jobFile, sigterm, accounted, accepted, runs>>

\* The process is told to stop; every queue's context is a child of its context.
Sigterm ==
  /\ ~sigterm /\ sigterm' = TRUE
  /\ UNCHANGED <<jobFile, queueVars, accounted, jobFaults, accepted, runs>>

MemoryLost ==
  /\ mem' = [q \in Queues |-> NoJobs]
  /\ jpc' = [q \in Queues |-> "absent"] /\ job' = [q \in Queues |-> 0]
  /\ wake' = [q \in Queues |-> FALSE] /\ nudge' = [q \in Queues |-> 0]
  /\ stopped' = [q \in Queues |-> FALSE] /\ expired' = [q \in Queues |-> FALSE]
  /\ shut' = [q \in Queues |-> FALSE]
  /\ sigterm' = FALSE /\ accounted' = 0

Exit ==
  /\ sigterm /\ \A q \in Queues : jpc[q] = "absent" \/ shut[q]
  /\ MemoryLost
  /\ UNCHANGED <<jobFile, jobFaults, accepted, runs>>

Crash ==
  /\ \E q \in Queues : jpc[q] # "absent"
  /\ JobFault("crash")
  /\ MemoryLost
  /\ UNCHANGED <<jobFile, accepted, runs>>

-----------------------------------------------------------------------------
QueueStep(q) ==
  \/ Run(q) \/ Drain(q) \/ Select(q) \/ Start(q) \/ Account(q) \/ Gate(q) \/ Finish(q)
  \/ Nudge(q)

Stop(q) == StopUnstarted(q) \/ StopSignal(q) \/ StopExpires(q) \/ StopReturns(q)

\* The workspace lock is taken before the ledger is opened, and released after Stop.
LockFree == \A q \in Queues : jpc[q] = "absent" \/ shut[q]

LedgerNext ==
  \/ \E q \in Queues :
       \/ LockFree /\ (OpenLedger(q) \/ OpenFails(q))
       \/ Submit(q) \/ QueueStep(q) \/ Stop(q)
  \/ Sigterm \/ Exit \/ Crash

LedgerSpec == LedgerInit /\ [][LedgerNext]_jobVars

\* The goroutines of a queue and of its submitters run, and compiles end; nothing is
\* assumed of requests, of restarts and of Stop.
LedgerFairSpec == LedgerSpec /\ \A q \in Queues : WF_jobVars(QueueStep(q))

-----------------------------------------------------------------------------
LedgerTypeOK ==
  /\ ledger \in [Jobs -> Statuses] /\ torn \in BOOLEAN
  /\ mem \in [Queues -> [Jobs -> Statuses]]
  /\ jpc \in [Queues -> {"absent", "opened", "drain", "select", "start", "started",
                         "stranded", "gate", "exec", "gone"}]
  /\ job \in [Queues -> 0..MaxJobs]
  /\ wake \in [Queues -> BOOLEAN] /\ nudge \in [Queues -> Nat]
  /\ stopped \in [Queues -> BOOLEAN] /\ expired \in [Queues -> BOOLEAN]
  /\ shut \in [Queues -> BOOLEAN]
  /\ sigterm \in BOOLEAN /\ accounted \in Int /\ jobFaults \in 0..MaxJobFaults
  /\ accepted \subseteq Jobs /\ runs \in [Jobs -> Nat]

\* No restart, lost append or reassembly makes a job's compile start a second time.
StartedOnce == \A j \in Jobs : runs[j] <= 1

\* A job that was accepted is in the file, whatever happens to the process.
AcceptedIsRecorded == \A j \in accepted : ledger[j] # "none"

\* The gauge's share of this ledger is the number of jobs pending in it, across
\* restarts and reassemblies, except between a transition and its Dec.
GaugeIsExact ==
  \A q \in Queues :
    Started(q) /\ ~shut[q] /\ jpc[q] \notin {"started", "stranded"}
      => accounted = Cardinality(Pending(q))

\* Every accepted job is accounted for: in the file, and in the gauge while it is pending.
AcceptedIsAccounted == AcceptedIsRecorded /\ GaugeIsExact

\* A verdict in the file is never changed, except by a compile that outlived its Stop.
VerdictIsFinal ==
  [][\A j \in Jobs :
       ledger[j] \in Verdicts
         => ledger'[j] = ledger[j] \/ \E q \in Queues : shut[q] /\ job[q] = j]_jobVars

\* A queue that is neither stopped nor cancelled takes every job it has accepted.
PendingIsTaken ==
  \A q \in Queues, j \in Jobs :
    mem[q][j] = "pending" ~> (mem[q][j] # "pending" \/ stopped[q] \/ shut[q] \/ sigterm)

\* No job of the backlog is started while the server shuts down.
BacklogIsKept ==
  [][\A q \in Queues : Cancelled(q) /\ jpc[q] = "drain" => jpc'[q] # "start"]_jobVars
=============================================================================
