--------------------------- MODULE JobLedgerProofs ---------------------------
(***************************************************************************)
(* Proofs about JobLedger, for any number of assemblies, jobs, compiles    *)
(* and faults: a job's compile is started once, its verdict in the file is *)
(* final, and what was accepted is in the file and in the gauge.           *)
(***************************************************************************)
EXTENDS JobLedger, FiniteSetTheorems, TLAPS

Places == {"absent", "opened", "drain", "select", "start", "started", "stranded", "gate",
           "exec", "gone"}

JobShape ==
  /\ ledger \in [Jobs -> Statuses] /\ mem \in [Queues -> [Jobs -> Statuses]]
  /\ jpc \in [Queues -> Places] /\ job \in [Queues -> Int]
  /\ stopped \in [Queues -> BOOLEAN] /\ shut \in [Queues -> BOOLEAN]
  /\ runs \in [Jobs -> Nat] /\ accounted \in Int /\ accepted \subseteq Jobs

Assembled(q) == jpc[q] # "absent" /\ ~shut[q]
AtJob == {"start", "started", "stranded", "gate", "exec"}

\* One assembly serves the workspace.  Another may be left over: Stop returned before its
\* Run began, or while its compile went on; it takes no job any more.
OneServes ==
  /\ \A p, q \in Queues : Assembled(p) /\ Assembled(q) => p = q
  /\ \A q \in Queues :
       shut[q] => jpc[q] = "opened" \/ (stopped[q] /\ jpc[q] \in {"exec", "drain", "select", "gone"})
  /\ \A q \in Queues : jpc[q] \in AtJob => job[q] \in Jobs

\* What the serving assembly has pending is pending in the file.
PendingIsFiled ==
  /\ \A q \in Queues, j \in Jobs : Assembled(q) /\ mem[q][j] = "pending" => ledger[j] = "pending"
  /\ \A q \in Queues : jpc[q] = "start" => mem[q][job[q]] = "pending"

\* From its start to its verdict a job is running in the file, and its compile is started
\* on the way.
StartIsFiled ==
  /\ \A j \in Jobs : runs[j] # 0 => ledger[j] \notin {"none", "pending"}
  /\ \A q \in Queues : jpc[q] \in {"started", "gate"} => runs[job[q]] = 0 /\ ledger[job[q]] = "running"
  /\ \A q \in Queues : jpc[q] = "exec" => /\ runs[job[q]] # 0
                                          /\ ~shut[q] => ledger[job[q]] = "running"
  /\ \A p, q \in Queues : jpc[p] = "exec" /\ jpc[q] = "exec" /\ p # q => job[p] # job[q]

\* The share of the gauge of the assembly that serves.
GaugeFollows ==
  \A q \in Queues :
    Started(q) /\ ~shut[q] =>
      accounted = Cardinality(Pending(q)) + (IF jpc[q] \in {"started", "stranded"} THEN 1 ELSE 0)

\* VerdictIsFinal, of one step.
VerdictKept ==
  \A j \in Jobs :
    ledger[j] \in Verdicts
      => ledger'[j] = ledger[j] \/ \E q \in Queues : shut[q] /\ job[q] = j

LedgerInv == JobShape /\ OneServes /\ PendingIsFiled /\ StartIsFiled /\ StartedOnce
             /\ AcceptedIsRecorded /\ GaugeFollows

-----------------------------------------------------------------------------
(* What the actions that write the file, move the queue or take a job do,  *)
(* said element by element.                                                *)

MemSets(q, j, s) ==
  /\ mem' \in [Queues -> [Jobs -> Statuses]]
  /\ \A p \in Queues, i \in Jobs : mem'[p][i] = IF p = q /\ i = j THEN s ELSE mem[p][i]

FileSets(j, s) ==
  /\ ledger' \in [Jobs -> Statuses]
  /\ \A i \in Jobs : ledger'[i] = IF i = j THEN s ELSE ledger[i]

Moves(q, l) ==
  /\ jpc' \in [Queues -> Places]
  /\ \A p \in Queues : jpc'[p] = IF p = q THEN l ELSE jpc[p]

LEMMA Setting ==
  ASSUME JobShape, NEW q \in Queues, NEW j \in Jobs, NEW s \in Statuses, NEW l \in Places
  PROVE  /\ mem' = [mem EXCEPT ![q][j] = s] => MemSets(q, j, s)
         /\ ledger' = [ledger EXCEPT ![j] = s] => FileSets(j, s)
         /\ Goto(q, l) => Moves(q, l)
<1>1. ASSUME mem' = [mem EXCEPT ![q][j] = s] PROVE MemSets(q, j, s)
  <2>1. mem' = [mem EXCEPT ![q] = [mem[q] EXCEPT ![j] = s]]
    BY <1>1
  <2>2. [mem[q] EXCEPT ![j] = s] \in [Jobs -> Statuses]
    BY DEF JobShape
  <2> QED BY <2>1, <2>2 DEF JobShape, MemSets
<1>2. ASSUME ledger' = [ledger EXCEPT ![j] = s] PROVE FileSets(j, s)
  BY <1>2 DEF JobShape, FileSets
<1>3. ASSUME Goto(q, l) PROVE Moves(q, l)
  BY <1>3 DEF JobShape, Goto, Moves
<1> QED BY <1>1, <1>2, <1>3

LEMMA SubmitEffect ==
  ASSUME JobShape, NEW q \in Queues, Submit(q)
  PROVE  \E j \in Jobs :
           /\ ledger[j] = "none" /\ mem[q][j] = "none" /\ Assembled(q)
           /\ UNCHANGED <<jpc, job, stopped, shut, runs>>
           /\ \/ /\ FileSets(j, "pending") /\ MemSets(q, j, "pending")
                 /\ accepted' = accepted \union {j} /\ accounted' = accounted + 1
              \/ /\ UNCHANGED <<mem, accepted, accounted>>
                 /\ ledger' = ledger \/ FileSets(j, "pending")
<1>1. PICK j \in Jobs :
        /\ ledger[j] = "none" /\ mem[q][j] = "none" /\ Assembled(q)
        /\ UNCHANGED <<jpc, job, stopped, shut, runs>>
        /\ \/ /\ ledger' = [ledger EXCEPT ![j] = "pending"]
              /\ mem' = [mem EXCEPT ![q][j] = "pending"]
              /\ accepted' = accepted \union {j} /\ accounted' = accounted + 1
           \/ /\ UNCHANGED <<mem, accepted, accounted>>
              /\ ledger' = ledger \/ ledger' = [ledger EXCEPT ![j] = "pending"]
  BY DEF Submit, Fresh, Recorded, NotRecorded, jobFile, Assembled
<1>2. "pending" \in Statuses /\ "absent" \in Places
  BY DEF Statuses, Places
<1> QED BY <1>1, <1>2, Setting

LEMMA StartEffect ==
  ASSUME JobShape, OneServes, NEW q \in Queues, Start(q)
  PROVE  /\ jpc[q] = "start" /\ job[q] \in Jobs /\ MemSets(q, job[q], "running")
         /\ UNCHANGED <<job, stopped, shut, runs, accounted, accepted>>
         /\ \/ Moves(q, "started") /\ FileSets(job[q], "running")
            \/ Moves(q, "stranded") /\ (ledger' = ledger \/ FileSets(job[q], "running"))
<1>1. /\ jpc[q] = "start" /\ mem' = [mem EXCEPT ![q][job[q]] = "running"]
      /\ UNCHANGED <<job, stopped, shut, runs, accounted, accepted>>
      /\ \/ Goto(q, "started") /\ ledger' = [ledger EXCEPT ![job[q]] = "running"]
         \/ /\ Goto(q, "stranded")
            /\ ledger' = ledger \/ ledger' = [ledger EXCEPT ![job[q]] = "running"]
  BY DEF Start, Recorded, NotRecorded, jobFile, Transition
<1>2. job[q] \in Jobs
  BY <1>1 DEF OneServes, AtJob
<1>3. "running" \in Statuses /\ "started" \in Places /\ "stranded" \in Places
  BY DEF Statuses, Places
<1> QED BY <1>1, <1>2, <1>3, Setting

LEMMA FinishEffect ==
  ASSUME JobShape, OneServes, NEW q \in Queues, Finish(q)
  PROVE  /\ jpc[q] \in {"exec", "gate"} /\ job[q] \in Jobs /\ Moves(q, "drain")
         /\ UNCHANGED <<job, stopped, shut, runs, accounted, accepted>>
         /\ \E v \in Verdicts : /\ MemSets(q, job[q], v)
                                /\ ledger' = ledger \/ FileSets(job[q], v)
<1>1. /\ jpc[q] \in {"exec", "gate"} /\ Goto(q, "drain")
      /\ UNCHANGED <<job, stopped, shut, runs, accounted, accepted>>
  BY DEF Finish
<1>2. PICK v \in Verdicts :
        /\ mem' = [mem EXCEPT ![q][job[q]] = v]
        /\ ledger' = ledger \/ ledger' = [ledger EXCEPT ![job[q]] = v]
  BY DEF Finish, Recorded, NotRecorded, jobFile, Transition
<1>3. job[q] \in Jobs
  BY <1>1 DEF OneServes, AtJob
<1>4. v \in Statuses /\ "drain" \in Places
  BY DEF Statuses, Places
<1> QED BY <1>1, <1>2, <1>3, <1>4, Setting

LEMMA DrainEffect ==
  ASSUME JobShape, NEW q \in Queues, Drain(q)
  PROVE  /\ jpc[q] = "drain"
         /\ UNCHANGED <<ledger, mem, stopped, shut, runs, accounted, accepted>>
         /\ \/ Moves(q, "select") /\ UNCHANGED job
            \/ /\ ~stopped[q] /\ Moves(q, "start") /\ job' \in [Queues -> Int]
               /\ \E j \in Jobs :
                    /\ mem[q][j] = "pending"
                    /\ \A p \in Queues : job'[p] = IF p = q THEN j ELSE job[p]
<1>1. /\ jpc[q] = "drain"
      /\ UNCHANGED <<ledger, mem, stopped, shut, runs, accounted, accepted>>
  BY DEF Drain, jobFile
<1>2. "select" \in Places /\ "start" \in Places
  BY DEF Places
<1>3. CASE Goto(q, "select") /\ UNCHANGED job
  <2>1. Moves(q, "select")
    BY <1>2, <1>3 DEF JobShape, Goto, Moves
  <2> QED BY <1>1, <1>3, <2>1
<1>4. CASE ~(Goto(q, "select") /\ UNCHANGED job)
  <2>1. PICK j \in Pending(q) : job' = [job EXCEPT ![q] = j]
    BY <1>4 DEF Drain
  <2>2. ~stopped[q] /\ Goto(q, "start")
    BY <1>4 DEF Drain
  <2>3. Moves(q, "start")
    BY <1>2, <2>2 DEF JobShape, Goto, Moves
  <2>4. j \in Jobs /\ mem[q][j] = "pending" /\ j \in Int
    BY DEF Pending, Jobs
  <2>5. job' \in [Queues -> Int] /\ \A p \in Queues : job'[p] = IF p = q THEN j ELSE job[p]
    BY <2>1, <2>4 DEF JobShape
  <2> QED BY <1>1, <2>2, <2>3, <2>4, <2>5
<1> QED BY <1>3, <1>4

LEMMA OpenEffect ==
  ASSUME JobShape, NEW q \in Queues, LockFree, OpenLedger(q) \/ OpenFails(q)
  PROVE  /\ jpc[q] = "absent" /\ \A p \in Queues : ~Assembled(p)
         /\ UNCHANGED <<job, stopped, shut, runs, accounted, accepted>>
         /\ ledger' \in [Jobs -> Statuses]
         /\ \A j \in Jobs : \/ ledger'[j] = ledger[j]
                            \/ ledger[j] = "running" /\ ledger'[j] = "interrupted"
         /\ \/ UNCHANGED <<mem, jpc>>
            \/ /\ Moves(q, "opened") /\ mem' \in [Queues -> [Jobs -> Statuses]]
               /\ \A p \in Queues : mem'[p] = IF p = q THEN ledger' ELSE mem[p]
<1>1. /\ Replayed(ledger) \in [Jobs -> Statuses]
      /\ \A j \in Jobs : \/ Replayed(ledger)[j] = ledger[j]
                         \/ ledger[j] = "running" /\ Replayed(ledger)[j] = "interrupted"
  BY DEF JobShape, Replayed, Statuses, Verdicts
<1>2. CASE OpenLedger(q)
  <2>1. "opened" \in Places
    BY DEF Places
  <2>2. Moves(q, "opened")
    BY <1>2, <2>1 DEF JobShape, OpenLedger, Goto, Moves
  <2>3. ledger' = Replayed(ledger) /\ mem' = [mem EXCEPT ![q] = ledger']
    BY <1>2 DEF OpenLedger
  <2>4. /\ mem' \in [Queues -> [Jobs -> Statuses]]
        /\ \A p \in Queues : mem'[p] = IF p = q THEN ledger' ELSE mem[p]
    BY <1>1, <2>3 DEF JobShape
  <2> QED BY <1>1, <1>2, <2>2, <2>3, <2>4 DEF OpenLedger, LockFree, Assembled
<1>3. CASE OpenFails(q)
  <2>1. PICK i \in Jobs, kept \in BOOLEAN :
          ledger' = [j \in Jobs |-> IF j < i \/ (j = i /\ kept)
                                    THEN Replayed(ledger)[j] ELSE ledger[j]]
    BY <1>3 DEF OpenFails
  <2>2. /\ ledger' \in [Jobs -> Statuses]
        /\ \A j \in Jobs : \/ ledger'[j] = ledger[j]
                           \/ ledger[j] = "running" /\ ledger'[j] = "interrupted"
    BY <1>1, <2>1 DEF JobShape
  <2> QED BY <1>3, <2>2 DEF OpenFails, LockFree, Assembled, queueVars
<1> QED BY <1>2, <1>3

LEMMA StopReturnsEffect ==
  ASSUME JobShape, NEW q \in Queues, StopReturns(q)
  PROVE  /\ stopped[q] /\ ~shut[q] /\ UNCHANGED <<ledger, runs, accounted, accepted>>
         /\ stopped' \in [Queues -> BOOLEAN] /\ shut' \in [Queues -> BOOLEAN]
         /\ \/ /\ jpc[q] = "gone" /\ Moves(q, "absent")
               /\ mem' \in [Queues -> [Jobs -> Statuses]] /\ job' \in [Queues -> Int]
               /\ \A p \in Queues :
                    IF p = q THEN ~shut'[p]
                    ELSE /\ mem'[p] = mem[p] /\ job'[p] = job[p]
                         /\ stopped'[p] = stopped[p] /\ shut'[p] = shut[p]
            \/ /\ jpc[q] = "exec" /\ UNCHANGED <<mem, jpc, job, stopped>>
               /\ \A p \in Queues : shut'[p] = (p = q \/ shut[p])
<1>1. "absent" \in Places /\ NoJobs \in [Jobs -> Statuses]
  BY DEF Places, NoJobs, Statuses
<1>2. /\ stopped[q] /\ ~shut[q] /\ UNCHANGED <<ledger, runs, accounted, accepted>>
      /\ \/ /\ jpc[q] = "gone" /\ Goto(q, "absent")
            /\ mem' = [mem EXCEPT ![q] = NoJobs] /\ job' = [job EXCEPT ![q] = 0]
            /\ stopped' = [stopped EXCEPT ![q] = FALSE] /\ shut' = [shut EXCEPT ![q] = FALSE]
         \/ /\ jpc[q] = "exec" /\ shut' = [shut EXCEPT ![q] = TRUE]
            /\ UNCHANGED <<mem, jpc, job, stopped>>
  BY DEF StopReturns, Forgotten, jobFile, Goto
<1>3. Goto(q, "absent") => Moves(q, "absent")
  BY <1>1 DEF JobShape, Goto, Moves
<1>4. CASE jpc[q] = "exec" /\ shut' = [shut EXCEPT ![q] = TRUE] /\ UNCHANGED <<mem, jpc, job, stopped>>
  BY <1>2, <1>4 DEF JobShape
<1>5. CASE /\ jpc[q] = "gone" /\ Goto(q, "absent")
           /\ mem' = [mem EXCEPT ![q] = NoJobs] /\ job' = [job EXCEPT ![q] = 0]
           /\ stopped' = [stopped EXCEPT ![q] = FALSE] /\ shut' = [shut EXCEPT ![q] = FALSE]
  <2>1. /\ mem' \in [Queues -> [Jobs -> Statuses]]
        /\ \A p \in Queues : p # q => mem'[p] = mem[p]
    BY <1>1, <1>5 DEF JobShape
  <2>2. /\ job' \in [Queues -> Int] /\ stopped' \in [Queues -> BOOLEAN] /\ shut' \in [Queues -> BOOLEAN]
        /\ \A p \in Queues : IF p = q THEN ~shut'[p]
             ELSE job'[p] = job[p] /\ stopped'[p] = stopped[p] /\ shut'[p] = shut[p]
    BY <1>5 DEF JobShape
  <2> QED BY <1>2, <1>3, <1>5, <2>1, <2>2
<1> QED BY <1>2, <1>4, <1>5

LEMMA GateEffect ==
  ASSUME JobShape, OneServes, NEW q \in Queues, Gate(q)
  PROVE  /\ jpc[q] = "gate" /\ job[q] \in Jobs /\ Moves(q, "exec")
         /\ UNCHANGED <<ledger, mem, job, stopped, shut, accounted, accepted>>
         /\ runs' \in [Jobs -> Nat]
         /\ \A j \in Jobs : runs'[j] = IF j = job[q] THEN runs[j] + 1 ELSE runs[j]
<1>1. /\ jpc[q] = "gate" /\ Goto(q, "exec") /\ runs' = [runs EXCEPT ![job[q]] = @ + 1]
      /\ UNCHANGED <<ledger, mem, job, stopped, shut, accounted, accepted>>
  BY DEF Gate, jobFile
<1>2. job[q] \in Jobs
  BY <1>1 DEF OneServes, AtJob
<1>3. Moves(q, "exec")
  BY <1>1 DEF JobShape, Goto, Moves, Places
<1> QED BY <1>1, <1>2, <1>3 DEF JobShape

LEMMA Counted == \A q \in Queues : IsFiniteSet(Pending(q)) /\ Cardinality(Pending(q)) \in Nat
<1>1. IsFiniteSet(Jobs)
  BY JobAssumption, FS_Interval DEF Jobs
<1> QED BY <1>1, FS_Subset, FS_CardinalityType DEF Pending

LEMMA OneMore ==
  ASSUME NEW q \in Queues, NEW j \in Jobs, mem[q][j] # "pending", MemSets(q, j, "pending")
  PROVE  Cardinality(Pending(q)') = Cardinality(Pending(q)) + 1
<1>1. Pending(q)' = Pending(q) \union {j} /\ j \notin Pending(q)
  BY DEF Pending, MemSets
<1> QED BY <1>1, Counted, FS_AddElement

LEMMA OneLess ==
  ASSUME NEW q \in Queues, NEW j \in Jobs, mem[q][j] = "pending", MemSets(q, j, "running")
  PROVE  Cardinality(Pending(q)') = Cardinality(Pending(q)) - 1
<1>1. Pending(q)' = Pending(q) \ {j} /\ j \in Pending(q)
  BY DEF Pending, MemSets
<1> QED BY <1>1, Counted, FS_RemoveElement

LEMMA RunEffect ==
  ASSUME "late" \notin JobFaults, JobShape, NEW q \in Queues, Run(q)
  PROVE  /\ jpc[q] = "opened" /\ ~shut[q] /\ Moves(q, "drain")
         /\ UNCHANGED <<ledger, mem, job, stopped, shut, runs, accepted>>
         /\ accounted' = Cardinality(Pending(q)) /\ accounted' \in Int
<1>1. /\ jpc[q] = "opened" /\ ~shut[q] /\ Goto(q, "drain")
      /\ UNCHANGED <<ledger, mem, job, stopped, shut, runs, accepted>>
      /\ accounted' = Cardinality(Pending(q))
  BY DEF Run, JobFault, jobFile
<1>2. Moves(q, "drain")
  BY <1>1 DEF JobShape, Goto, Moves, Places
<1> QED BY <1>1, <1>2, Counted

-----------------------------------------------------------------------------
LEMMA ShapeNext == "late" \notin JobFaults /\ LedgerInv /\ [LedgerNext]_jobVars => JobShape'
<1> SUFFICES ASSUME "late" \notin JobFaults, LedgerInv, [LedgerNext]_jobVars PROVE JobShape'
  OBVIOUS
<1> USE DEF LedgerInv, JobShape, MemSets, FileSets, Moves
<1>1. ASSUME NEW q \in Queues, LockFree, OpenLedger(q) \/ OpenFails(q) PROVE JobShape'
  BY <1>1, OpenEffect
<1>2. ASSUME NEW q \in Queues, Submit(q) PROVE JobShape'
  BY <1>2, SubmitEffect
<1>3. ASSUME NEW q \in Queues, Run(q) PROVE JobShape'
  BY <1>3, RunEffect
<1>4. ASSUME NEW q \in Queues, Drain(q) PROVE JobShape'
  BY <1>4, DrainEffect
<1>5. ASSUME NEW q \in Queues, Select(q) PROVE JobShape'
  BY <1>5 DEF Select, Goto, jobFile, Places, Statuses
<1>6. ASSUME NEW q \in Queues, Start(q) PROVE JobShape'
  BY <1>6, StartEffect
<1>7. ASSUME NEW q \in Queues, Account(q) PROVE JobShape'
  BY <1>7 DEF Account, Goto, jobFile, Places, Statuses
<1>8. ASSUME NEW q \in Queues, Gate(q) PROVE JobShape'
  BY <1>8, GateEffect
<1>9. ASSUME NEW q \in Queues, Finish(q) PROVE JobShape'
  BY <1>9, FinishEffect
<1>10. ASSUME NEW q \in Queues, Nudge(q) PROVE JobShape'
  BY <1>10 DEF Nudge, jobFile, Places, Statuses
<1>11. ASSUME NEW q \in Queues, StopUnstarted(q) PROVE JobShape'
  BY <1>11 DEF StopUnstarted, jobFile, Places, Statuses
<1>12. ASSUME NEW q \in Queues, StopSignal(q) PROVE JobShape'
  BY <1>12 DEF StopSignal, Started, jobFile, Places, Statuses
<1>13. ASSUME NEW q \in Queues, StopExpires(q) PROVE JobShape'
  BY <1>13 DEF StopExpires, jobFile, Places, Statuses
<1>14. ASSUME NEW q \in Queues, StopReturns(q) PROVE JobShape'
  BY <1>14, StopReturnsEffect
<1>15. ASSUME Sigterm PROVE JobShape'
  BY <1>15 DEF Sigterm, queueVars, jobFile, Places, Statuses
<1>16. ASSUME Exit PROVE JobShape'
  BY <1>16 DEF Exit, MemoryLost, NoJobs, jobFile, Places, Statuses
<1>17. ASSUME Crash PROVE JobShape'
  BY <1>17 DEF Crash, MemoryLost, NoJobs, jobFile, Places, Statuses
<1>18. ASSUME UNCHANGED jobVars PROVE JobShape'
  BY <1>18 DEF jobVars, queueVars, jobFile, Pending, Started, Places, Statuses
<1> QED
   BY ONLY [LedgerNext]_jobVars, <1>1, <1>2, <1>3, <1>4, <1>5, <1>6, <1>7, <1>8, <1>9, <1>10,
     <1>11, <1>12, <1>13, <1>14, <1>15, <1>16, <1>17, <1>18 DEF LedgerNext, QueueStep, Stop

LEMMA OneServesNext == "late" \notin JobFaults /\ LedgerInv /\ [LedgerNext]_jobVars => OneServes'
<1> SUFFICES ASSUME "late" \notin JobFaults, LedgerInv, [LedgerNext]_jobVars
             PROVE OneServes'
  OBVIOUS
<1> USE DEF LedgerInv, JobShape, OneServes, Assembled, AtJob, MemSets, FileSets, Moves
<1>1. ASSUME NEW q \in Queues, LockFree, OpenLedger(q) \/ OpenFails(q) PROVE OneServes'
  BY <1>1, OpenEffect
<1>2. ASSUME NEW q \in Queues, Submit(q) PROVE OneServes'
  BY <1>2, SubmitEffect
<1>3. ASSUME NEW q \in Queues, Run(q) PROVE OneServes'
  BY <1>3, RunEffect
<1>4. ASSUME NEW q \in Queues, Drain(q) PROVE OneServes'
  <2>1. jpc[q] = "drain" /\ UNCHANGED <<stopped, shut>>
    BY <1>4, DrainEffect
  <2>2. CASE Moves(q, "select") /\ UNCHANGED job
    BY <2>1, <2>2
  <2>3. CASE /\ ~stopped[q] /\ Moves(q, "start")
             /\ \E j \in Jobs : \A p \in Queues : job'[p] = IF p = q THEN j ELSE job[p]
    <3>1. PICK j \in Jobs : \A p \in Queues : job'[p] = IF p = q THEN j ELSE job[p]
      BY <2>3
    <3>2. ~shut[q]
      BY <2>1, <2>3
    <3> QED BY <2>1, <2>3, <3>1, <3>2
  <2>4. \/ Moves(q, "select") /\ UNCHANGED job
        \/ /\ ~stopped[q] /\ Moves(q, "start")
           /\ \E j \in Jobs : \A p \in Queues : job'[p] = IF p = q THEN j ELSE job[p]
    BY <1>4, DrainEffect
  <2> QED BY <2>2, <2>3, <2>4
<1>5. ASSUME NEW q \in Queues, Select(q) PROVE OneServes'
  BY <1>5 DEF Select, Goto, jobFile
<1>6. ASSUME NEW q \in Queues, Start(q) PROVE OneServes'
  <2>1. PICK l \in {"started", "stranded"} : Moves(q, l)
    BY <1>6, StartEffect
  <2>2. jpc[q] = "start" /\ job[q] \in Jobs /\ UNCHANGED <<job, stopped, shut>>
    BY <1>6, StartEffect
  <2> QED BY <2>1, <2>2
<1>7. ASSUME NEW q \in Queues, Account(q) PROVE OneServes'
  BY <1>7 DEF Account, Goto, jobFile
<1>8. ASSUME NEW q \in Queues, Gate(q) PROVE OneServes'
  BY <1>8, GateEffect
<1>9. ASSUME NEW q \in Queues, Finish(q) PROVE OneServes'
  <2>1. jpc[q] \in {"exec", "gate"} /\ Moves(q, "drain") /\ UNCHANGED <<job, stopped, shut>>
    BY <1>9, FinishEffect
  <2> QED BY <2>1
<1>10. ASSUME NEW q \in Queues, Nudge(q) PROVE OneServes'
  BY <1>10 DEF Nudge, jobFile
<1>11. ASSUME NEW q \in Queues, StopUnstarted(q) PROVE OneServes'
  BY <1>11 DEF StopUnstarted, jobFile
<1>12. ASSUME NEW q \in Queues, StopSignal(q) PROVE OneServes'
  BY <1>12 DEF StopSignal, Started, jobFile
<1>13. ASSUME NEW q \in Queues, StopExpires(q) PROVE OneServes'
  BY <1>13 DEF StopExpires, jobFile
<1>14. ASSUME NEW q \in Queues, StopReturns(q) PROVE OneServes'
  <2>1. \A p \in Queues : \/ /\ jpc'[p] = jpc[p] /\ job'[p] = job[p] /\ stopped'[p] = stopped[p]
                             /\ shut'[p] = shut[p] \/ (shut'[p] /\ stopped[p] /\ jpc[p] = "exec")
                          \/ jpc'[p] = "absent" /\ ~shut'[p]
    BY <1>14, StopReturnsEffect
  <2> QED BY <2>1
<1>15. ASSUME Sigterm PROVE OneServes'
  BY <1>15 DEF Sigterm, queueVars, jobFile
<1>16. ASSUME Exit PROVE OneServes'
  BY <1>16 DEF Exit, MemoryLost, NoJobs, jobFile
<1>17. ASSUME Crash PROVE OneServes'
  BY <1>17 DEF Crash, MemoryLost, NoJobs, jobFile
<1>18. ASSUME UNCHANGED jobVars PROVE OneServes'
  BY <1>18 DEF jobVars, queueVars, jobFile, Pending, Started
<1> QED
   BY ONLY [LedgerNext]_jobVars, <1>1, <1>2, <1>3, <1>4, <1>5, <1>6, <1>7, <1>8, <1>9, <1>10,
     <1>11, <1>12, <1>13, <1>14, <1>15, <1>16, <1>17, <1>18 DEF LedgerNext, QueueStep, Stop

LEMMA PendingNext == "late" \notin JobFaults /\ LedgerInv /\ [LedgerNext]_jobVars => PendingIsFiled'
<1> SUFFICES ASSUME "late" \notin JobFaults, LedgerInv, [LedgerNext]_jobVars
             PROVE PendingIsFiled'
  OBVIOUS
<1> USE DEF LedgerInv, JobShape, OneServes, PendingIsFiled, StartIsFiled, Assembled, AtJob,
   MemSets, FileSets, Moves, NoJobs, Verdicts
<1>1. ASSUME NEW q \in Queues, LockFree, OpenLedger(q) \/ OpenFails(q) PROVE PendingIsFiled'
  BY <1>1, OpenEffect
<1>2. ASSUME NEW q \in Queues, Submit(q) PROVE PendingIsFiled'
  BY <1>2, SubmitEffect
<1>3. ASSUME NEW q \in Queues, Run(q) PROVE PendingIsFiled'
  BY <1>3, RunEffect
<1>4. ASSUME NEW q \in Queues, Drain(q) PROVE PendingIsFiled'
  <2>1. jpc[q] = "drain" /\ ledger' = ledger /\ mem' = mem /\ shut' = shut
    BY <1>4, DrainEffect
  <2>2. \/ Moves(q, "select") /\ UNCHANGED job
        \/ Moves(q, "start") /\ \E j \in Jobs : /\ mem[q][j] = "pending"
                                                /\ \A p \in Queues : job'[p] = IF p = q THEN j ELSE job[p]
    BY <1>4, DrainEffect
  <2>3. \A p \in Queues : jpc'[p] = "start" => mem[p][job'[p]] = "pending"
    BY <2>1, <2>2
  <2>4. \A p \in Queues : Assembled(p)' => Assembled(p)
    BY <2>1, <2>2
  <2> QED BY <2>1, <2>3, <2>4
<1>5. ASSUME NEW q \in Queues, Select(q) PROVE PendingIsFiled'
  BY <1>5 DEF Select, Goto, jobFile
<1>6. ASSUME NEW q \in Queues, Start(q) PROVE PendingIsFiled'
  <2>1. PICK l \in {"started", "stranded"} : Moves(q, l)
    BY <1>6, StartEffect
  <2>2. /\ jpc[q] = "start" /\ job[q] \in Jobs /\ MemSets(q, job[q], "running")
        /\ (ledger' = ledger \/ FileSets(job[q], "running")) /\ UNCHANGED <<job, shut>>
    BY <1>6, StartEffect
  <2>3. \A p \in Queues, i \in Jobs :
          /\ mem'[p][i] = "pending" => mem[p][i] = "pending" /\ (p = q => i # job[q])
          /\ p # q => mem'[p][i] = mem[p][i]
    BY <2>2
  <2>4. \A i \in Jobs : ledger'[i] = ledger[i] \/ i = job[q]
    BY <2>2
  <2>5. \A p \in Queues : jpc'[p] = IF p = q THEN l ELSE jpc[p]
    BY <2>1
  <2>6. \A p \in Queues : Assembled(p)' => Assembled(p) /\ p = q
    <3>1. Assembled(q)
      BY <2>2
    <3>2. \A p \in Queues : Assembled(p)' => Assembled(p)
      BY <2>2, <2>5
    <3> QED BY <3>1, <3>2
  <2> HIDE DEF MemSets, FileSets, Moves, Assembled
  <2>7. \A p \in Queues, j \in Jobs : Assembled(p)' /\ mem'[p][j] = "pending" => ledger'[j] = "pending"
    BY <2>3, <2>4, <2>6
  <2>8. \A p \in Queues : jpc'[p] = "start" => mem'[p][job'[p]] = "pending"
    BY <2>2, <2>3, <2>5
  <2> QED BY <2>7, <2>8
<1>7. ASSUME NEW q \in Queues, Account(q) PROVE PendingIsFiled'
  BY <1>7 DEF Account, Goto, jobFile
<1>8. ASSUME NEW q \in Queues, Gate(q) PROVE PendingIsFiled'
  BY <1>8, GateEffect
<1>9. ASSUME NEW q \in Queues, Finish(q) PROVE PendingIsFiled'
  <2>1. PICK v \in Verdicts : MemSets(q, job[q], v) /\ (ledger' = ledger \/ FileSets(job[q], v))
    BY <1>9, FinishEffect
  <2>2. /\ jpc[q] \in {"exec", "gate"} /\ job[q] \in Jobs /\ Moves(q, "drain")
        /\ UNCHANGED <<job, shut>> /\ v # "pending"
    BY <1>9, FinishEffect
  <2>3. ledger[job[q]] # "pending"
    BY <2>2
  <2>4. \A i \in Jobs : ledger'[i] = ledger[i] \/ ledger[i] # "pending"
    BY <2>1, <2>3
  <2>5. \A p \in Queues, i \in Jobs :
          /\ mem'[p][i] = "pending" => mem[p][i] = "pending"
          /\ p # q => mem'[p][i] = mem[p][i]
    BY <2>1, <2>2
  <2>6. \A p \in Queues : jpc'[p] = IF p = q THEN "drain" ELSE jpc[p]
    BY <2>2
  <2>7. \A p \in Queues : Assembled(p)' => Assembled(p)
    BY <2>2, <2>6
  <2> HIDE DEF MemSets, FileSets, Moves, Assembled
  <2>8. \A p \in Queues, j \in Jobs : Assembled(p)' /\ mem'[p][j] = "pending" => ledger'[j] = "pending"
    BY <2>4, <2>5, <2>7
  <2>9. \A p \in Queues : jpc'[p] = "start" => mem'[p][job'[p]] = "pending"
    BY <2>2, <2>5, <2>6
  <2> QED BY <2>8, <2>9
<1>10. ASSUME NEW q \in Queues, Nudge(q) PROVE PendingIsFiled'
  BY <1>10 DEF Nudge, jobFile
<1>11. ASSUME NEW q \in Queues, StopUnstarted(q) PROVE PendingIsFiled'
  BY <1>11 DEF StopUnstarted, jobFile
<1>12. ASSUME NEW q \in Queues, StopSignal(q) PROVE PendingIsFiled'
  BY <1>12 DEF StopSignal, Started, jobFile
<1>13. ASSUME NEW q \in Queues, StopExpires(q) PROVE PendingIsFiled'
  BY <1>13 DEF StopExpires, jobFile
<1>14. ASSUME NEW q \in Queues, StopReturns(q) PROVE PendingIsFiled'
  <2>1. /\ UNCHANGED <<ledger>>
        /\ \A p \in Queues : /\ jpc'[p] = jpc[p] /\ job'[p] = job[p] /\ (shut[p] => shut'[p])
                                /\ mem'[p] = mem[p]
                             \/ jpc'[p] = "absent"
    BY <1>14, StopReturnsEffect
  <2> QED BY <2>1
<1>15. ASSUME Sigterm PROVE PendingIsFiled'
  BY <1>15 DEF Sigterm, queueVars, jobFile
<1>16. ASSUME Exit PROVE PendingIsFiled'
  BY <1>16 DEF Exit, MemoryLost, NoJobs, jobFile
<1>17. ASSUME Crash PROVE PendingIsFiled'
  BY <1>17 DEF Crash, MemoryLost, NoJobs, jobFile
<1>18. ASSUME UNCHANGED jobVars PROVE PendingIsFiled'
  BY <1>18 DEF jobVars, queueVars, jobFile, Pending, Started
<1> QED
   BY ONLY [LedgerNext]_jobVars, <1>1, <1>2, <1>3, <1>4, <1>5, <1>6, <1>7, <1>8, <1>9, <1>10,
     <1>11, <1>12, <1>13, <1>14, <1>15, <1>16, <1>17, <1>18 DEF LedgerNext, QueueStep, Stop

LEMMA StartNext == "late" \notin JobFaults /\ LedgerInv /\ [LedgerNext]_jobVars => (StartIsFiled /\ StartedOnce)'
<1> SUFFICES ASSUME "late" \notin JobFaults, LedgerInv, [LedgerNext]_jobVars
             PROVE (StartIsFiled /\ StartedOnce)'
  OBVIOUS
<1> USE DEF LedgerInv, JobShape, OneServes, PendingIsFiled, StartIsFiled, StartedOnce,
   Assembled, AtJob, MemSets, FileSets, Moves, Verdicts
<1>1. ASSUME NEW q \in Queues, LockFree, OpenLedger(q) \/ OpenFails(q)
      PROVE (StartIsFiled /\ StartedOnce)'
  <2>1. /\ \A p \in Queues : ~Assembled(p)
        /\ UNCHANGED <<job, shut, runs>> /\ jpc[q] = "absent"
        /\ \A j \in Jobs : \/ ledger'[j] = ledger[j]
                           \/ ledger[j] = "running" /\ ledger'[j] = "interrupted"
        /\ UNCHANGED jpc \/ Moves(q, "opened")
    BY <1>1, OpenEffect
  <2>2. \A p \in Queues : jpc[p] \notin {"started", "gate"} /\ (jpc[p] = "exec" => shut[p])
    BY <2>1
  <2>3. \A p \in Queues : jpc'[p] = jpc[p] \/ jpc'[p] = "opened"
    BY <2>1
  <2> QED BY <2>1, <2>2, <2>3
<1>2. ASSUME NEW q \in Queues, Submit(q) PROVE (StartIsFiled /\ StartedOnce)'
  BY <1>2, SubmitEffect
<1>3. ASSUME NEW q \in Queues, Run(q) PROVE (StartIsFiled /\ StartedOnce)'
  BY <1>3, RunEffect
<1>4. ASSUME NEW q \in Queues, Drain(q) PROVE (StartIsFiled /\ StartedOnce)'
  <2>1. /\ jpc[q] = "drain" /\ UNCHANGED <<ledger, shut, runs>>
        /\ \A p \in Queues : p # q => jpc'[p] = jpc[p] /\ job'[p] = job[p]
        /\ jpc'[q] \in {"select", "start"}
    BY <1>4, DrainEffect
  <2>2. \A p \in Queues : jpc'[p] \in {"started", "gate", "exec"} =>
          jpc'[p] = jpc[p] /\ job'[p] = job[p]
    BY <2>1
  <2>3. ledger' = ledger /\ runs' = runs /\ shut' = shut
    BY <2>1
  <2> QED BY <2>2, <2>3
<1>5. ASSUME NEW q \in Queues, Select(q) PROVE (StartIsFiled /\ StartedOnce)'
  <2>1. ledger' = ledger /\ runs' = runs /\ job' = job /\ shut' = shut
    BY <1>5 DEF Select, jobFile
  <2>2. \A p \in Queues : jpc'[p] \in {"started", "gate", "exec"} => jpc'[p] = jpc[p]
    BY <1>5 DEF Select, Goto
  <2> QED BY <2>1, <2>2
<1>6. ASSUME NEW q \in Queues, Start(q) PROVE (StartIsFiled /\ StartedOnce)'
  <2>1. PICK l \in {"started", "stranded"} :
          Moves(q, l) /\ (l = "started" => FileSets(job[q], "running"))
    BY <1>6, StartEffect
  <2>2. /\ jpc[q] = "start" /\ job[q] \in Jobs
        /\ (ledger' = ledger \/ FileSets(job[q], "running")) /\ UNCHANGED <<job, shut, runs>>
    BY <1>6, StartEffect
  <2>3. ledger[job[q]] = "pending" /\ runs[job[q]] = 0
    BY <2>2
  <2>4. \A p \in Queues : jpc[p] \in {"started", "gate", "exec"} => job[p] # job[q]
    BY <2>2, <2>3
  <2>5. \A j \in Jobs : ledger'[j] = ledger[j] \/ (j = job[q] /\ ledger'[j] = "running")
    BY <2>2
  <2>6. l = "started" => ledger'[job[q]] = "running"
    BY <2>1, <2>2
  <2>7. \A p \in Queues : jpc'[p] = IF p = q THEN l ELSE jpc[p]
    BY <2>1
  <2> HIDE DEF FileSets, Moves
  <2>8. runs' = runs /\ job' = job /\ shut' = shut
    BY <2>2
  <2>9. \A j \in Jobs : runs'[j] # 0 => ledger'[j] \notin {"none", "pending"}
    BY <2>5, <2>8
  <2>10. \A p \in Queues : jpc'[p] \in {"started", "gate"} =>
           runs'[job'[p]] = 0 /\ ledger'[job'[p]] = "running"
    BY <2>3, <2>5, <2>6, <2>7, <2>8
  <2>11. \A p \in Queues : jpc'[p] = "exec" => jpc[p] = "exec"
    BY <2>7
  <2>12. \A p \in Queues : jpc'[p] = "exec" =>
           runs'[job'[p]] # 0 /\ (~shut'[p] => ledger'[job'[p]] = "running")
    BY <2>5, <2>8, <2>11
  <2> QED BY <2>8, <2>9, <2>10, <2>11, <2>12
<1>7. ASSUME NEW q \in Queues, Account(q) PROVE (StartIsFiled /\ StartedOnce)'
  BY <1>7 DEF Account, Goto, jobFile
<1>8. ASSUME NEW q \in Queues, Gate(q) PROVE (StartIsFiled /\ StartedOnce)'
  <2>1. /\ jpc[q] = "gate" /\ job[q] \in Jobs /\ Moves(q, "exec")
        /\ UNCHANGED <<ledger, job, shut>>
        /\ \A j \in Jobs : runs'[j] = IF j = job[q] THEN runs[j] + 1 ELSE runs[j]
    BY <1>8, GateEffect
  <2>2. runs[job[q]] = 0 /\ ledger[job[q]] = "running"
    BY <2>1
  <2>3. \A p \in Queues : p # q => ~(jpc[p] \in {"started", "gate"})
    BY <2>1
  <2>4. \A p \in Queues : jpc[p] = "exec" => job[p] # job[q]
    BY <2>1, <2>2
  <2>5. \A p \in Queues : jpc'[p] = IF p = q THEN "exec" ELSE jpc[p]
    BY <2>1
  <2>6. \A j \in Jobs : runs'[j] = IF j = job[q] THEN 1 ELSE runs[j]
    BY <2>1, <2>2
  <2> HIDE DEF Moves
  <2>7. StartedOnce'
    BY <2>6
  <2>8. StartIsFiled'
    BY <2>1, <2>2, <2>3, <2>4, <2>5, <2>6
  <2> QED BY <2>7, <2>8
<1>9. ASSUME NEW q \in Queues, Finish(q) PROVE (StartIsFiled /\ StartedOnce)'
  <2>1. PICK v \in Verdicts : ledger' = ledger \/ FileSets(job[q], v)
    BY <1>9, FinishEffect
  <2>2. /\ jpc[q] \in {"exec", "gate"} /\ job[q] \in Jobs /\ Moves(q, "drain")
        /\ UNCHANGED <<job, shut, runs>> /\ v \notin {"none", "pending"}
    BY <1>9, FinishEffect
  <2>3. \A j \in Jobs : ledger'[j] = ledger[j] \/ (j = job[q] /\ ledger'[j] = v)
    BY <2>1
  <2>4. \A p \in Queues : p # q /\ jpc[p] \in {"started", "gate", "exec"} => job[p] # job[q]
    <3>1. CASE jpc[q] = "exec"
      BY <3>1
    <3>2. CASE jpc[q] = "gate"
      <4>1. \A p \in Queues : p # q => jpc[p] \notin {"started", "gate"}
        BY <3>2
      <4> QED BY <3>2, <4>1
    <3> QED BY <2>2, <3>1, <3>2
  <2>5. \A p \in Queues : jpc'[p] = IF p = q THEN "drain" ELSE jpc[p]
    BY <2>2
  <2>6. \A p \in Queues : shut[p] => jpc[p] \notin {"started", "gate"}
    OBVIOUS
  <2> HIDE DEF Moves, FileSets
  <2> QED BY <2>2, <2>3, <2>4, <2>5, <2>6
<1>10. ASSUME NEW q \in Queues, Nudge(q) PROVE (StartIsFiled /\ StartedOnce)'
  BY <1>10 DEF Nudge, jobFile
<1>11. ASSUME NEW q \in Queues, StopUnstarted(q) PROVE (StartIsFiled /\ StartedOnce)'
  BY <1>11 DEF StopUnstarted, jobFile
<1>12. ASSUME NEW q \in Queues, StopSignal(q) PROVE (StartIsFiled /\ StartedOnce)'
  BY <1>12 DEF StopSignal, Started, jobFile
<1>13. ASSUME NEW q \in Queues, StopExpires(q) PROVE (StartIsFiled /\ StartedOnce)'
  BY <1>13 DEF StopExpires, jobFile
<1>14. ASSUME NEW q \in Queues, StopReturns(q) PROVE (StartIsFiled /\ StartedOnce)'
  <2>1. ledger' = ledger /\ runs' = runs
    BY <1>14, StopReturnsEffect
  <2>2. \A p \in Queues : jpc'[p] \in {"started", "gate", "exec"} =>
          jpc'[p] = jpc[p] /\ job'[p] = job[p] /\ (shut[p] => shut'[p])
    BY <1>14, StopReturnsEffect
  <2> QED BY <2>1, <2>2
<1>15. ASSUME Sigterm PROVE (StartIsFiled /\ StartedOnce)'
  BY <1>15 DEF Sigterm, queueVars, jobFile
<1>16. ASSUME Exit PROVE (StartIsFiled /\ StartedOnce)'
  BY <1>16 DEF Exit, MemoryLost, NoJobs, jobFile
<1>17. ASSUME Crash PROVE (StartIsFiled /\ StartedOnce)'
  BY <1>17 DEF Crash, MemoryLost, NoJobs, jobFile
<1>18. ASSUME UNCHANGED jobVars PROVE (StartIsFiled /\ StartedOnce)'
  BY <1>18 DEF jobVars, queueVars, jobFile, Pending, Started
<1> QED
   BY ONLY [LedgerNext]_jobVars, <1>1, <1>2, <1>3, <1>4, <1>5, <1>6, <1>7, <1>8, <1>9, <1>10,
     <1>11, <1>12, <1>13, <1>14, <1>15, <1>16, <1>17, <1>18 DEF LedgerNext, QueueStep, Stop

LEMMA AcceptedNext == "late" \notin JobFaults /\ LedgerInv /\ [LedgerNext]_jobVars => AcceptedIsRecorded'
<1> SUFFICES ASSUME "late" \notin JobFaults, LedgerInv, [LedgerNext]_jobVars
             PROVE AcceptedIsRecorded'
  OBVIOUS
<1> USE DEF LedgerInv, JobShape, AcceptedIsRecorded, FileSets, Verdicts
<1>1. ASSUME NEW q \in Queues, LockFree, OpenLedger(q) \/ OpenFails(q)
      PROVE AcceptedIsRecorded'
  <2>1. \A j \in Jobs : ledger'[j] = ledger[j] \/ ledger'[j] = "interrupted"
    BY <1>1, OpenEffect
  <2>2. accepted' = accepted
    BY <1>1, OpenEffect
  <2> QED BY <2>1, <2>2
<1>2. ASSUME NEW q \in Queues, Submit(q) PROVE AcceptedIsRecorded'
  <2>1. PICK j \in Jobs :
          \/ FileSets(j, "pending") /\ accepted' = accepted \union {j}
          \/ accepted' = accepted /\ (ledger' = ledger \/ FileSets(j, "pending"))
    BY <1>2, SubmitEffect
  <2> QED BY <2>1
<1>3. ASSUME NEW q \in Queues, Run(q) PROVE AcceptedIsRecorded'
  BY <1>3, RunEffect
<1>4. ASSUME NEW q \in Queues, Drain(q) PROVE AcceptedIsRecorded'
  BY <1>4, DrainEffect
<1>5. ASSUME NEW q \in Queues, Select(q) PROVE AcceptedIsRecorded'
  BY <1>5 DEF Select, Goto, jobFile
<1>6. ASSUME NEW q \in Queues, Start(q) PROVE AcceptedIsRecorded'
  <2>1. accepted' = accepted /\ (ledger' = ledger \/ FileSets(job[q], "running"))
    BY <1>6, StartEffect
  <2> QED BY <2>1
<1>7. ASSUME NEW q \in Queues, Account(q) PROVE AcceptedIsRecorded'
  BY <1>7 DEF Account, Goto, jobFile
<1>8. ASSUME NEW q \in Queues, Gate(q) PROVE AcceptedIsRecorded'
  BY <1>8, GateEffect
<1>9. ASSUME NEW q \in Queues, Finish(q) PROVE AcceptedIsRecorded'
  <2>1. accepted' = accepted
    BY <1>9, FinishEffect
  <2>2. PICK v \in Verdicts : ledger' = ledger \/ FileSets(job[q], v)
    BY <1>9, FinishEffect
  <2>3. v # "none"
    OBVIOUS
  <2> QED BY <2>1, <2>2, <2>3
<1>10. ASSUME NEW q \in Queues, Nudge(q) PROVE AcceptedIsRecorded'
  BY <1>10 DEF Nudge, jobFile
<1>11. ASSUME NEW q \in Queues, StopUnstarted(q) PROVE AcceptedIsRecorded'
  BY <1>11 DEF StopUnstarted, jobFile
<1>12. ASSUME NEW q \in Queues, StopSignal(q) PROVE AcceptedIsRecorded'
  BY <1>12 DEF StopSignal, Started, jobFile
<1>13. ASSUME NEW q \in Queues, StopExpires(q) PROVE AcceptedIsRecorded'
  BY <1>13 DEF StopExpires, jobFile
<1>14. ASSUME NEW q \in Queues, StopReturns(q) PROVE AcceptedIsRecorded'
  BY <1>14, StopReturnsEffect
<1>15. ASSUME Sigterm PROVE AcceptedIsRecorded'
  BY <1>15 DEF Sigterm, queueVars, jobFile
<1>16. ASSUME Exit PROVE AcceptedIsRecorded'
  BY <1>16 DEF Exit, MemoryLost, NoJobs, jobFile
<1>17. ASSUME Crash PROVE AcceptedIsRecorded'
  BY <1>17 DEF Crash, MemoryLost, NoJobs, jobFile
<1>18. ASSUME UNCHANGED jobVars PROVE AcceptedIsRecorded'
  BY <1>18 DEF jobVars, queueVars, jobFile, Pending, Started
<1> QED
   BY ONLY [LedgerNext]_jobVars, <1>1, <1>2, <1>3, <1>4, <1>5, <1>6, <1>7, <1>8, <1>9, <1>10,
     <1>11, <1>12, <1>13, <1>14, <1>15, <1>16, <1>17, <1>18 DEF LedgerNext, QueueStep, Stop

LEMMA GaugeNext == "late" \notin JobFaults /\ LedgerInv /\ [LedgerNext]_jobVars => GaugeFollows'
<1> SUFFICES ASSUME "late" \notin JobFaults, LedgerInv, [LedgerNext]_jobVars
             PROVE GaugeFollows'
  OBVIOUS
<1> USE DEF LedgerInv, JobShape, OneServes, GaugeFollows, Assembled, Started, AtJob, MemSets,
   Moves
<1>1. ASSUME NEW q \in Queues, LockFree, OpenLedger(q) \/ OpenFails(q) PROVE GaugeFollows'
  <2>1. /\ \A p \in Queues : ~Assembled(p)
        /\ UNCHANGED shut /\ (UNCHANGED jpc \/ Moves(q, "opened"))
    BY <1>1, OpenEffect
  <2>2. \A p \in Queues : Started(p)' => shut'[p]
    BY <2>1
  <2> QED BY <2>2
<1>2. ASSUME NEW q \in Queues, Submit(q) PROVE GaugeFollows'
  <2>1. PICK j \in Jobs :
          /\ mem[q][j] = "none" /\ Assembled(q) /\ UNCHANGED <<jpc, shut>>
          /\ \/ MemSets(q, j, "pending") /\ accounted' = accounted + 1
             \/ UNCHANGED <<mem, accounted>>
    BY <1>2, SubmitEffect
  <2>2. CASE UNCHANGED <<mem, accounted>>
    <3>1. \A p \in Queues : Pending(p)' = Pending(p)
      BY <2>2 DEF Pending
    <3> QED BY <2>1, <2>2, <3>1
  <2>3. CASE MemSets(q, j, "pending") /\ accounted' = accounted + 1
    <3>1. Cardinality(Pending(q)') = Cardinality(Pending(q)) + 1
      BY <2>1, <2>3, OneMore
    <3>2. \A p \in Queues : Assembled(p) => p = q
      BY <2>1
    <3>3. ASSUME Started(q)
          PROVE  accounted' = Cardinality(Pending(q)')
                                + (IF jpc[q] \in {"started", "stranded"} THEN 1 ELSE 0)
      <4> DEFINE owed == IF jpc[q] \in {"started", "stranded"} THEN 1 ELSE 0
      <4>1. accounted = Cardinality(Pending(q)) + owed
        BY <2>1, <3>3
      <4>2. owed \in Nat /\ Cardinality(Pending(q)) \in Nat
        BY Counted
      <4> HIDE DEF owed
      <4>3. accounted' = Cardinality(Pending(q)') + owed
        BY <2>3, <3>1, <4>1, <4>2
      <4> QED BY <4>3 DEF owed
    <3> QED BY <2>1, <3>2, <3>3
  <2> QED BY <2>1, <2>2, <2>3
<1>3. ASSUME NEW q \in Queues, Run(q) PROVE GaugeFollows'
  <2>1. /\ jpc[q] = "opened" /\ ~shut[q] /\ Moves(q, "drain") /\ UNCHANGED <<mem, shut>>
        /\ accounted' = Cardinality(Pending(q))
    BY <1>3, RunEffect
  <2>2. \A p \in Queues : Started(p)' /\ ~shut'[p] => p = q
    BY <2>1
  <2>3. Pending(q)' = Pending(q)
    BY <2>1 DEF Pending
  <2>4. accounted' = Cardinality(Pending(q)) + 0
    BY <2>1, Counted
  <2> QED BY <2>1, <2>2, <2>3, <2>4
<1>4. ASSUME NEW q \in Queues, Drain(q) PROVE GaugeFollows'
  <2>1. /\ jpc[q] = "drain" /\ UNCHANGED <<mem, shut, accounted>>
        /\ \E l \in {"select", "start"} : Moves(q, l)
    BY <1>4, DrainEffect
  <2>2. \A p \in Queues : Pending(p)' = Pending(p)
    BY <2>1 DEF Pending
  <2> QED BY <2>1, <2>2
<1>5. ASSUME NEW q \in Queues, Select(q) PROVE GaugeFollows'
  <2>1. /\ jpc[q] = "select" /\ UNCHANGED <<mem, shut, accounted>>
        /\ \E l \in {"gone", "drain"} : Moves(q, l)
    <3>1. Moves(q, "gone") \/ Moves(q, "drain")
      BY <1>5 DEF Select, Goto, JobShape, Moves, Places
    <3> QED BY <1>5, <3>1 DEF Select, jobFile
  <2>2. \A p \in Queues : Pending(p)' = Pending(p)
    BY <2>1 DEF Pending
  <2> QED BY <2>1, <2>2
<1>6. ASSUME NEW q \in Queues, Start(q) PROVE GaugeFollows'
  <2>1. PICK l \in {"started", "stranded"} : Moves(q, l)
    BY <1>6, StartEffect
  <2>2. /\ jpc[q] = "start" /\ job[q] \in Jobs /\ MemSets(q, job[q], "running")
        /\ UNCHANGED <<shut, accounted>>
    BY <1>6, StartEffect
  <2>3. Cardinality(Pending(q)') = Cardinality(Pending(q)) - 1
    <3>1. mem[q][job[q]] = "pending"
      BY <2>2 DEF PendingIsFiled
    <3> QED BY <2>2, <3>1, OneLess
  <2>4. accounted = Cardinality(Pending(q)) + 0
    BY <2>2
  <2>5. accounted' = Cardinality(Pending(q)') + 1
    BY <2>2, <2>3, <2>4, Counted
  <2>6. Assembled(q)
    BY <2>2
  <2>7. \A p \in Queues : Started(p)' /\ ~shut'[p] => p = q
    BY <2>1, <2>2, <2>6
  <2> QED BY <2>1, <2>5, <2>7
<1>7. ASSUME NEW q \in Queues, Account(q) PROVE GaugeFollows'
  <2>1. /\ jpc[q] \in {"started", "stranded"} /\ UNCHANGED <<mem, shut>>
        /\ accounted' = accounted - 1 /\ \E l \in {"gate", "drain"} : Moves(q, l)
    <3>1. Moves(q, "gate") \/ Moves(q, "drain")
      BY <1>7 DEF Account, Goto, JobShape, Moves, Places
    <3> QED BY <1>7, <3>1 DEF Account, jobFile
  <2>2. \A p \in Queues : Pending(p)' = Pending(p)
    BY <2>1 DEF Pending
  <2>3. accounted = Cardinality(Pending(q)) + 1
    BY <2>1
  <2>4. accounted' = Cardinality(Pending(q)) + 0
    BY <2>1, <2>3, Counted
  <2>5. \A p \in Queues : Started(p)' /\ ~shut'[p] => p = q
    BY <2>1
  <2> QED BY <2>1, <2>2, <2>4, <2>5
<1>8. ASSUME NEW q \in Queues, Gate(q) PROVE GaugeFollows'
  <2>1. jpc[q] = "gate" /\ UNCHANGED <<mem, shut, accounted>> /\ Moves(q, "exec")
    BY <1>8, GateEffect
  <2>2. \A p \in Queues : Pending(p)' = Pending(p)
    BY <2>1 DEF Pending
  <2> QED BY <2>1, <2>2
<1>9. ASSUME NEW q \in Queues, Finish(q) PROVE GaugeFollows'
  <2>1. PICK v \in Verdicts : MemSets(q, job[q], v) /\ (ledger' = ledger \/ FileSets(job[q], v))
    BY <1>9, FinishEffect
  <2>2. /\ jpc[q] \in {"exec", "gate"} /\ job[q] \in Jobs /\ Moves(q, "drain")
        /\ UNCHANGED <<shut, accounted>> /\ v # "pending"
    BY <1>9, FinishEffect DEF Verdicts
  <2>3. ~shut[q] => mem[q][job[q]] # "pending"
    BY <2>2 DEF PendingIsFiled, StartIsFiled
  <2>4. \A p \in Queues : ~shut[p] => Pending(p)' = Pending(p)
    BY <2>1, <2>2, <2>3 DEF Pending
  <2> QED BY <2>2, <2>4
<1>10. ASSUME NEW q \in Queues, Nudge(q) PROVE GaugeFollows'
  BY <1>10 DEF Nudge, jobFile, Pending
<1>11. ASSUME NEW q \in Queues, StopUnstarted(q) PROVE GaugeFollows'
  BY <1>11 DEF StopUnstarted, jobFile, Pending
<1>12. ASSUME NEW q \in Queues, StopSignal(q) PROVE GaugeFollows'
  BY <1>12 DEF StopSignal, jobFile, Pending
<1>13. ASSUME NEW q \in Queues, StopExpires(q) PROVE GaugeFollows'
  BY <1>13 DEF StopExpires, jobFile, Pending
<1>14. ASSUME NEW q \in Queues, StopReturns(q) PROVE GaugeFollows'
  <2>1. accounted' = accounted
    BY <1>14, StopReturnsEffect
  <2>2. \A p \in Queues : Started(p)' /\ ~shut'[p] =>
          jpc'[p] = jpc[p] /\ ~shut[p] /\ mem'[p] = mem[p]
    BY <1>14, StopReturnsEffect
  <2>3. \A p \in Queues : mem'[p] = mem[p] => Pending(p)' = Pending(p)
    BY DEF Pending
  <2> QED BY <2>1, <2>2, <2>3
<1>15. ASSUME Sigterm PROVE GaugeFollows'
  BY <1>15 DEF Sigterm, queueVars, jobFile, Pending
<1>16. ASSUME Exit PROVE GaugeFollows'
  BY <1>16 DEF Exit, MemoryLost, NoJobs, jobFile, Pending
<1>17. ASSUME Crash PROVE GaugeFollows'
  BY <1>17 DEF Crash, MemoryLost, NoJobs, jobFile, Pending
<1>18. ASSUME UNCHANGED jobVars PROVE GaugeFollows'
  BY <1>18 DEF jobVars, queueVars, jobFile, Pending
<1> QED
   BY ONLY [LedgerNext]_jobVars, <1>1, <1>2, <1>3, <1>4, <1>5, <1>6, <1>7, <1>8, <1>9, <1>10,
     <1>11, <1>12, <1>13, <1>14, <1>15, <1>16, <1>17, <1>18 DEF LedgerNext, QueueStep, Stop

LEMMA VerdictNext == "late" \notin JobFaults /\ LedgerInv /\ [LedgerNext]_jobVars => VerdictKept
<1> SUFFICES ASSUME "late" \notin JobFaults, LedgerInv, [LedgerNext]_jobVars
             PROVE VerdictKept
  OBVIOUS
<1> USE DEF LedgerInv, JobShape, OneServes, PendingIsFiled, StartIsFiled, VerdictKept,
   Assembled, AtJob, MemSets, FileSets, Moves, Verdicts
<1>1. ASSUME NEW q \in Queues, LockFree, OpenLedger(q) \/ OpenFails(q) PROVE VerdictKept
  BY <1>1, OpenEffect
<1>2. ASSUME NEW q \in Queues, Submit(q) PROVE VerdictKept
  BY <1>2, SubmitEffect
<1>3. ASSUME NEW q \in Queues, Run(q) PROVE VerdictKept
  BY <1>3, RunEffect
<1>4. ASSUME NEW q \in Queues, Drain(q) PROVE VerdictKept
  BY <1>4, DrainEffect
<1>5. ASSUME NEW q \in Queues, Select(q) PROVE VerdictKept
  BY <1>5 DEF Select, Goto, jobFile
<1>6. ASSUME NEW q \in Queues, Start(q) PROVE VerdictKept
  <2>1. /\ jpc[q] = "start" /\ job[q] \in Jobs
        /\ ledger' = ledger \/ FileSets(job[q], "running")
    BY <1>6, StartEffect
  <2>2. ledger[job[q]] = "pending"
    BY <2>1
  <2> QED BY <2>1, <2>2
<1>7. ASSUME NEW q \in Queues, Account(q) PROVE VerdictKept
  BY <1>7 DEF Account, Goto, jobFile
<1>8. ASSUME NEW q \in Queues, Gate(q) PROVE VerdictKept
  BY <1>8, GateEffect
<1>9. ASSUME NEW q \in Queues, Finish(q) PROVE VerdictKept
  <2>1. PICK v \in Verdicts : ledger' = ledger \/ FileSets(job[q], v)
    BY <1>9, FinishEffect
  <2>2. jpc[q] \in {"exec", "gate"} /\ job[q] \in Jobs
    BY <1>9, FinishEffect
  <2>3. shut[q] \/ ledger[job[q]] = "running"
    BY <2>2
  <2> QED BY <2>1, <2>2, <2>3
<1>10. ASSUME NEW q \in Queues, Nudge(q) PROVE VerdictKept
  BY <1>10 DEF Nudge, jobFile
<1>11. ASSUME NEW q \in Queues, StopUnstarted(q) PROVE VerdictKept
  BY <1>11 DEF StopUnstarted, jobFile
<1>12. ASSUME NEW q \in Queues, StopSignal(q) PROVE VerdictKept
  BY <1>12 DEF StopSignal, Started, jobFile
<1>13. ASSUME NEW q \in Queues, StopExpires(q) PROVE VerdictKept
  BY <1>13 DEF StopExpires, jobFile
<1>14. ASSUME NEW q \in Queues, StopReturns(q) PROVE VerdictKept
  BY <1>14, StopReturnsEffect
<1>15. ASSUME Sigterm PROVE VerdictKept
  BY <1>15 DEF Sigterm, queueVars, jobFile
<1>16. ASSUME Exit PROVE VerdictKept
  BY <1>16 DEF Exit, MemoryLost, NoJobs, jobFile
<1>17. ASSUME Crash PROVE VerdictKept
  BY <1>17 DEF Crash, MemoryLost, NoJobs, jobFile
<1>18. ASSUME UNCHANGED jobVars PROVE VerdictKept
  BY <1>18 DEF jobVars, queueVars, jobFile, Pending, Started
<1> QED
   BY ONLY [LedgerNext]_jobVars, <1>1, <1>2, <1>3, <1>4, <1>5, <1>6, <1>7, <1>8, <1>9, <1>10,
     <1>11, <1>12, <1>13, <1>14, <1>15, <1>16, <1>17, <1>18 DEF LedgerNext, QueueStep, Stop

LEMMA LedgerInitOK == LedgerInit => LedgerInv
  BY DEF LedgerInit, LedgerInv, JobShape, OneServes, PendingIsFiled, StartIsFiled, StartedOnce,
     AcceptedIsRecorded, GaugeFollows, NoJobs, Statuses, Places, Assembled, AtJob, Started

LEMMA LedgerNextOK == "late" \notin JobFaults /\ LedgerInv /\ [LedgerNext]_jobVars => LedgerInv'
  BY ShapeNext, OneServesNext, PendingNext, StartNext, AcceptedNext, GaugeNext DEF LedgerInv

-----------------------------------------------------------------------------
(* The types, of every fault.                                              *)

LedgerTypes == LedgerTypeOK /\ \A q \in Queues : jpc[q] \in AtJob => job[q] \in Jobs

LEMMA LedgerTypesNext == LedgerTypes /\ [LedgerNext]_jobVars => LedgerTypes'
<1> SUFFICES ASSUME LedgerTypes, [LedgerNext]_jobVars PROVE LedgerTypes'
  OBVIOUS
<1>0. JobShape /\ LedgerTypeOK /\ Jobs = 1..MaxJobs /\ MaxJobs \in Nat
  BY JobAssumption DEF LedgerTypes, LedgerTypeOK, JobShape, Places, Jobs
<1>a. ASSUME NEW k, JobFault(k) PROVE jobFaults' \in 0..MaxJobFaults
  BY <1>0, <1>a, JobAssumption DEF JobFault, LedgerTypeOK
<1>b. ASSUME MemoryLost
      PROVE  /\ mem' \in [Queues -> [Jobs -> Statuses]]
             /\ jpc' \in [Queues -> Places] /\ job' \in [Queues -> 0..MaxJobs]
             /\ wake' \in [Queues -> BOOLEAN] /\ nudge' \in [Queues -> Nat]
             /\ stopped' \in [Queues -> BOOLEAN] /\ expired' \in [Queues -> BOOLEAN]
             /\ shut' \in [Queues -> BOOLEAN] /\ sigterm' \in BOOLEAN /\ accounted' \in Int
             /\ \A p \in Queues : jpc'[p] \notin AtJob
  <2>1. NoJobs \in [Jobs -> Statuses]
    BY DEF NoJobs, Statuses
  <2>2. 0 \in 0..MaxJobs /\ 0 \in Nat /\ 0 \in Int
    BY <1>0
  <2> QED BY ONLY <1>b, <2>1, <2>2 DEF MemoryLost, Places, AtJob
<1> USE DEF LedgerTypes, LedgerTypeOK, AtJob, Places
<1>1. ASSUME NEW q \in Queues, LockFree, OpenLedger(q) \/ OpenFails(q) PROVE LedgerTypes'
  <2>1. /\ UNCHANGED <<job, stopped, shut, runs, accounted, accepted, wake, nudge, expired, sigterm>>
        /\ ledger' \in [Jobs -> Statuses] /\ torn' \in BOOLEAN
        /\ \/ UNCHANGED <<mem, jpc>>
           \/ Moves(q, "opened") /\ mem' \in [Queues -> [Jobs -> Statuses]]
    BY <1>0, <1>1, OpenEffect DEF OpenLedger, OpenFails, queueVars
  <2>2. jobFaults' \in 0..MaxJobFaults
    BY <1>a, <1>1 DEF OpenLedger, OpenFails
  <2> QED BY <1>0, <2>1, <2>2 DEF Moves
<1>2. ASSUME NEW q \in Queues, Submit(q) PROVE LedgerTypes'
  <2>1. PICK j \in Jobs :
          /\ Recorded(j, "pending") \/ NotRecorded(j, "pending")
          /\ accounted' = accounted + 1 \/ accounted' = accounted
          /\ accepted' = accepted \union {j} \/ accepted' = accepted
          /\ nudge' = [nudge EXCEPT ![q] = @ + 1] \/ nudge' = nudge
          /\ UNCHANGED <<jpc, job, wake, stopped, expired, shut, sigterm, runs>>
    BY <1>2 DEF Submit
  <2>2. mem' \in [Queues -> [Jobs -> Statuses]] /\ ledger' \in [Jobs -> Statuses]
    BY <1>0, <1>2, SubmitEffect DEF MemSets, FileSets
  <2>3. torn' \in BOOLEAN /\ jobFaults' \in 0..MaxJobFaults
    BY <1>a, <2>1 DEF Recorded, NotRecorded, jobFile
  <2>4. accounted' \in Int /\ accepted' \subseteq Jobs
    <3>1. accounted \in Int /\ accepted \subseteq Jobs
      BY <1>0
    <3> QED BY ONLY <2>1, <3>1, j \in Jobs
  <2>5. nudge' \in [Queues -> Nat]
    <3>1. nudge \in [Queues -> Nat]
      BY <1>0
    <3> QED BY ONLY <2>1, <3>1
  <2> QED BY <1>0, <2>1, <2>2, <2>3, <2>4, <2>5
<1>3. ASSUME NEW q \in Queues, Run(q) PROVE LedgerTypes'
  <2>1. accounted' \in Int /\ jobFaults' \in 0..MaxJobFaults
    BY <1>a, <1>3, Counted DEF Run
  <2> QED BY <1>0, <1>3, <2>1 DEF Run, Goto, jobFile
<1>4. ASSUME NEW q \in Queues, Drain(q) PROVE LedgerTypes'
  <2>1. \/ Goto(q, "select") /\ UNCHANGED job
        \/ Goto(q, "start") /\ \E j \in Jobs : job' = [job EXCEPT ![q] = j]
    BY <1>4 DEF Drain, Pending
  <2>2. UNCHANGED <<ledger, torn, mem, wake, nudge, stopped, expired, shut, sigterm, accounted,
                    jobFaults, accepted, runs>>
    BY <1>4 DEF Drain, jobFile
  <2>3. /\ jpc' \in [Queues -> Places] /\ job' \in [Queues -> 0..MaxJobs]
        /\ \A p \in Queues : jpc'[p] \in AtJob => job'[p] \in Jobs
    <3>1. /\ jpc \in [Queues -> Places] /\ job \in [Queues -> 0..MaxJobs]
          /\ \A j \in Jobs : j \in 0..MaxJobs
          /\ \A p \in Queues : jpc[p] \in AtJob => job[p] \in Jobs
      BY <1>0
    <3> QED BY ONLY <2>1, <3>1, q \in Queues DEF Goto, Places, AtJob
  <2> QED BY <1>0, <2>2, <2>3
<1>5. ASSUME NEW q \in Queues, Select(q) PROVE LedgerTypes'
  BY <1>0, <1>5 DEF Select, Goto, jobFile
<1>6. ASSUME NEW q \in Queues, Start(q) PROVE LedgerTypes'
  <2>1. /\ jpc[q] = "start" /\ mem' = [mem EXCEPT ![q][job[q]] = "running"]
        /\ UNCHANGED <<job, wake, nudge, stopped, expired, shut, sigterm, accounted, accepted, runs>>
        /\ Goto(q, "started") \/ Goto(q, "stranded")
        /\ Recorded(job[q], "running") \/ NotRecorded(job[q], "running")
    BY <1>6 DEF Start, Transition
  <2>2. torn' \in BOOLEAN /\ jobFaults' \in 0..MaxJobFaults
        /\ (ledger' = ledger \/ ledger' = [ledger EXCEPT ![job[q]] = "running"])
    BY <1>a, <2>1 DEF Recorded, NotRecorded, jobFile
  <2>3. job[q] \in Jobs /\ "running" \in Statuses
    BY <2>1 DEF Statuses
  <2>4. MemSets(q, job[q], "running") /\ ledger' \in [Jobs -> Statuses]
    BY <1>0, <2>1, <2>2, <2>3, Setting DEF FileSets
  <2>5. /\ jpc' \in [Queues -> Places] /\ mem' \in [Queues -> [Jobs -> Statuses]]
        /\ \A p \in Queues : jpc'[p] \in AtJob => job'[p] \in Jobs
    BY <1>0, <2>1, <2>3, <2>4 DEF Goto, MemSets
  <2> QED BY <1>0, <2>1, <2>2, <2>4, <2>5
<1>7. ASSUME NEW q \in Queues, Account(q) PROVE LedgerTypes'
  BY <1>0, <1>7 DEF Account, Goto, jobFile
<1>8. ASSUME NEW q \in Queues, Gate(q) PROVE LedgerTypes'
  <2>1. /\ jpc' \in [Queues -> Places] /\ job[q] \in Jobs
        /\ \A p \in Queues : jpc'[p] \in AtJob => job[p] \in Jobs
    BY <1>0, <1>8 DEF Gate, Goto
  <2>2. /\ runs' = [runs EXCEPT ![job[q]] = @ + 1]
        /\ UNCHANGED <<ledger, torn, mem, job, wake, nudge, stopped, expired, shut, sigterm,
                       accounted, jobFaults, accepted>>
    BY <1>8 DEF Gate, jobFile
  <2>3. runs' \in [Jobs -> Nat]
    BY <1>0, <2>1, <2>2
  <2> QED BY <1>0, <2>1, <2>2, <2>3
<1>9. ASSUME NEW q \in Queues, Finish(q) PROVE LedgerTypes'
  <2>1. PICK v \in Verdicts :
          /\ jpc[q] \in {"exec", "gate"} /\ mem' = [mem EXCEPT ![q][job[q]] = v]
          /\ Recorded(job[q], v) \/ NotRecorded(job[q], v)
    BY <1>9 DEF Finish, Transition
  <2>2. /\ UNCHANGED <<job, wake, nudge, stopped, expired, shut, sigterm, accounted, accepted, runs>>
        /\ Goto(q, "drain")
    BY <1>9 DEF Finish
  <2>3. torn' \in BOOLEAN /\ jobFaults' \in 0..MaxJobFaults
        /\ (ledger' = ledger \/ ledger' = [ledger EXCEPT ![job[q]] = v])
    BY <1>a, <2>1 DEF Recorded, NotRecorded, jobFile
  <2>4. job[q] \in Jobs /\ v \in Statuses
    BY <2>1 DEF Statuses
  <2>5. MemSets(q, job[q], v) /\ ledger' \in [Jobs -> Statuses]
    BY <1>0, <2>1, <2>3, <2>4, Setting DEF FileSets
  <2> QED BY <1>0, <2>2, <2>3, <2>4, <2>5 DEF Goto, MemSets
<1>10. ASSUME NEW q \in Queues, Nudge(q) PROVE LedgerTypes'
  BY <1>0, <1>10 DEF Nudge, jobFile
<1>11. ASSUME NEW q \in Queues, StopUnstarted(q) PROVE LedgerTypes'
  BY <1>0, <1>11 DEF StopUnstarted, jobFile
<1>12. ASSUME NEW q \in Queues, StopSignal(q) PROVE LedgerTypes'
  BY <1>0, <1>12 DEF StopSignal, jobFile
<1>13. ASSUME NEW q \in Queues, StopExpires(q) PROVE LedgerTypes'
  BY <1>0, <1>13 DEF StopExpires, jobFile
<1>14. ASSUME NEW q \in Queues, StopReturns(q) PROVE LedgerTypes'
  <2>1. UNCHANGED <<ledger, torn, sigterm, accounted, accepted, runs>>
    BY <1>14 DEF StopReturns, jobFile
  <2>2. CASE jpc[q] = "gone" /\ Forgotten(q) /\ UNCHANGED jobFaults
    <3>1. NoJobs \in [Jobs -> Statuses]
      BY DEF NoJobs, Statuses
    <3> QED BY <1>0, <2>1, <2>2, <3>1 DEF Forgotten
  <2>3. CASE JobFault("linger") /\ shut' = [shut EXCEPT ![q] = TRUE]
             /\ UNCHANGED <<mem, jpc, job, wake, nudge, stopped, expired>>
    <3>1. jobFaults' \in 0..MaxJobFaults
      BY <1>a, <2>3
    <3> QED BY <1>0, <2>1, <2>3, <3>1
  <2> QED BY <1>14, <2>2, <2>3 DEF StopReturns
<1>15. ASSUME Sigterm PROVE LedgerTypes'
  BY <1>0, <1>15 DEF Sigterm, queueVars, jobFile
<1>16. ASSUME Exit PROVE LedgerTypes'
  BY <1>0, <1>b, <1>16 DEF Exit, jobFile
<1>17. ASSUME Crash PROVE LedgerTypes'
  <2>1. jobFaults' \in 0..MaxJobFaults
    BY <1>a, <1>17 DEF Crash
  <2> QED BY <1>0, <1>b, <1>17, <2>1 DEF Crash, jobFile
<1>18. ASSUME UNCHANGED jobVars PROVE LedgerTypes'
  BY <1>0, <1>18 DEF jobVars, queueVars, jobFile
<1> QED
   BY ONLY [LedgerNext]_jobVars, <1>1, <1>2, <1>3, <1>4, <1>5, <1>6, <1>7, <1>8, <1>9, <1>10,
     <1>11, <1>12, <1>13, <1>14, <1>15, <1>16, <1>17, <1>18 DEF LedgerNext, QueueStep, Stop

LEMMA LedgerTypesInit == LedgerInit => LedgerTypes
<1> SUFFICES ASSUME LedgerInit PROVE LedgerTypes
  OBVIOUS
<1>1. NoJobs \in [Jobs -> Statuses]
  BY DEF NoJobs, Statuses
<1>2. 0 \in 0..MaxJobs /\ 0 \in 0..MaxJobFaults
  BY JobAssumption
<1>3. /\ ledger \in [Jobs -> Statuses] /\ torn \in BOOLEAN /\ mem \in [Queues -> [Jobs -> Statuses]]
      /\ sigterm \in BOOLEAN
  BY ONLY <1>1, LedgerInit DEF LedgerInit
<1>5. accounted \in Int /\ jobFaults \in 0..MaxJobFaults /\ accepted \subseteq Jobs
  BY <1>2 DEF LedgerInit
<1>6. runs \in [Jobs -> Nat]
  BY ONLY LedgerInit DEF LedgerInit
<1>4. /\ jpc = [q \in Queues |-> "absent"] /\ job \in [Queues -> 0..MaxJobs]
      /\ wake \in [Queues -> BOOLEAN] /\ nudge \in [Queues -> Nat]
      /\ stopped \in [Queues -> BOOLEAN] /\ expired \in [Queues -> BOOLEAN]
      /\ shut \in [Queues -> BOOLEAN]
  BY ONLY <1>2, LedgerInit DEF LedgerInit
<1> QED BY ONLY <1>3, <1>4, <1>5, <1>6 DEF LedgerTypes, LedgerTypeOK, AtJob

LEMMA LedgerTypesHold == LedgerSpec => []LedgerTypes
  BY LedgerTypesInit, LedgerTypesNext, PTL DEF LedgerSpec

\* What the theorems below follow from.
LEMMA LedgerHolds == ASSUME "late" \notin JobFaults PROVE LedgerSpec => []LedgerInv
  BY LedgerInitOK, LedgerNextOK, PTL DEF LedgerSpec

\* When no compile ignores its context, Stop leaves nothing behind that will ever compile.
NoneLingers == \A q \in Queues : shut[q] => jpc[q] = "opened"

LEMMA NoneLingersNext ==
  ASSUME {"linger", "late"} \intersect JobFaults = {}, JobShape, NoneLingers, [LedgerNext]_jobVars
  PROVE  NoneLingers'
<1>1. ASSUME UNCHANGED <<jpc, shut>> PROVE NoneLingers'
  BY <1>1 DEF NoneLingers
<1>2. ASSUME NEW q \in Queues, jpc[q] # "opened" \/ ~shut[q], UNCHANGED shut,
             NEW l, jpc' = [jpc EXCEPT ![q] = l]
      PROVE  NoneLingers'
  BY <1>2 DEF NoneLingers, JobShape
<1>3. ASSUME NEW q \in Queues, OpenLedger(q) \/ OpenFails(q) \/ Submit(q) \/ Nudge(q)
      PROVE NoneLingers'
  <2>1. OpenFails(q) \/ Submit(q) \/ Nudge(q) => UNCHANGED <<jpc, shut>>
    BY DEF OpenFails, Submit, Nudge, queueVars
  <2>2. OpenLedger(q) => jpc[q] # "opened" /\ UNCHANGED shut /\ jpc' = [jpc EXCEPT ![q] = "opened"]
    BY DEF OpenLedger, Goto
  <2> QED BY <1>1, <1>2, <1>3, <2>1, <2>2
<1>4. ASSUME NEW q \in Queues, Run(q) PROVE NoneLingers'
  BY <1>2, <1>4 DEF Run, Goto, JobFault
<1>5. ASSUME NEW q \in Queues, Drain(q) \/ Select(q) \/ Gate(q) PROVE NoneLingers'
  <2>1. jpc[q] # "opened" /\ UNCHANGED shut /\ \E l : jpc' = [jpc EXCEPT ![q] = l]
    BY <1>5 DEF Drain, Select, Gate, Goto
  <2> QED BY <1>2, <2>1
<1>6. ASSUME NEW q \in Queues, Start(q) \/ Account(q) \/ Finish(q) PROVE NoneLingers'
  <2>1. jpc[q] # "opened" /\ UNCHANGED shut /\ \E l : jpc' = [jpc EXCEPT ![q] = l]
    BY <1>6 DEF Start, Account, Finish, Goto
  <2> QED BY <1>2, <2>1
<1>7. ASSUME NEW q \in Queues, Stop(q) PROVE NoneLingers'
  <2>1. StopSignal(q) \/ StopExpires(q) => UNCHANGED <<jpc, shut>>
    BY DEF StopSignal, StopExpires
  <2>2. StopUnstarted(q) => NoneLingers'
    BY DEF StopUnstarted, NoneLingers, JobShape
  <2>3. StopReturns(q) => NoneLingers'
    BY DEF StopReturns, Forgotten, JobFault, NoneLingers, JobShape
  <2> QED BY <1>1, <1>7, <2>1, <2>2, <2>3 DEF Stop
<1>8. ASSUME Sigterm \/ Exit \/ Crash PROVE NoneLingers'
  BY <1>8 DEF Sigterm, Exit, Crash, MemoryLost, queueVars, NoneLingers
<1>9. UNCHANGED jobVars => UNCHANGED <<jpc, shut>>
  BY DEF jobVars, queueVars
<1> QED BY <1>1, <1>3, <1>4, <1>5, <1>6, <1>7, <1>8, <1>9 DEF LedgerNext, QueueStep

LEMMA LingersHolds ==
  ASSUME {"linger", "late"} \intersect JobFaults = {} PROVE LedgerSpec => []NoneLingers
<1>1. LedgerInit => NoneLingers
  BY DEF LedgerInit, NoneLingers
<1>2. LedgerTypes => JobShape
  BY JobAssumption DEF LedgerTypes, LedgerTypeOK, JobShape, Places, Jobs
<1>3. LedgerTypes /\ NoneLingers /\ [LedgerNext]_jobVars => NoneLingers'
  BY <1>2, NoneLingersNext
<1> QED BY <1>1, <1>3, LedgerTypesHold, PTL DEF LedgerSpec

\* The variables of the ledger and of its queues stay in their ranges, whatever fails.
THEOREM TypeCorrect == LedgerSpec => []LedgerTypeOK
<1>1. LedgerTypes => LedgerTypeOK
  BY DEF LedgerTypes
<1> QED BY <1>1, LedgerTypesHold, PTL

\* No restart, lost append or reassembly starts a job's compile a second time (jobs.go:
\* OpenLedger, runOne), if the goroutine of Run never comes after a Stop that did not see it.
THEOREM JobsStartOnce == ASSUME "late" \notin JobFaults PROVE LedgerSpec => []StartedOnce
<1>1. LedgerInv => StartedOnce
  BY DEF LedgerInv
<1> QED BY <1>1, LedgerHolds, PTL

\* A verdict in jobs.jsonl is not changed, except by a compile that outlived its Stop.
THEOREM VerdictsAreFinal == ASSUME "late" \notin JobFaults PROVE LedgerSpec => VerdictIsFinal
<1>1. LedgerInv /\ [LedgerNext]_jobVars => [VerdictKept]_jobVars
  BY VerdictNext
<1>2. VerdictIsFinal <=> [][VerdictKept]_jobVars
  BY PTL DEF VerdictIsFinal, VerdictKept
<1> QED BY <1>1, <1>2, LedgerInitOK, LedgerNextOK, PTL DEF LedgerSpec

\* A job whose Submit succeeded is in the file, and the gauge's share of the ledger is the
\* number of jobs pending in it.
THEOREM AcceptedJobsAreAccounted ==
  ASSUME "late" \notin JobFaults PROVE LedgerSpec => []AcceptedIsAccounted
<1>1. LedgerInv => AcceptedIsAccounted
  BY Counted DEF LedgerInv, GaugeFollows, AcceptedIsAccounted, GaugeIsExact
<1> QED BY <1>1, LedgerInitOK, LedgerNextOK, PTL DEF LedgerSpec
=============================================================================
