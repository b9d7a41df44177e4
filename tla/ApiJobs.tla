------------------------------- MODULE ApiJobs -------------------------------
(* The in-memory jobs of the HTTP API (internal/api/jobs.go and               *)
(* handlers_jobs.go): clients that submit with an Idempotency-Key and delete, *)
(* a bounded store, and one goroutine for each job.                           *)
EXTENDS Integers, FiniteSets, FiniteSetsExt

CONSTANTS
  Submitters,    \* concurrent POST /v1/jobs/{kind} requests
  Kinds,         \* the kinds that are submitted
  Keys, NoKey,   \* Idempotency-Keys, and a request without one
  MaxApiJobs,    \* bound: jobs ever created, numbered in order of creation
  StoreMax,      \* jobStoreMax
  HasRunner,     \* is a job runner configured?
  KeyRace        \* may two requests with one key be under way at once?

ASSUME ApiJobAssumption ==
  /\ Kinds \subseteq {"compile", "compile_topic", "lint"}
  /\ MaxApiJobs \in Nat /\ StoreMax \in Nat \ {0}
  /\ HasRunner \in BOOLEAN /\ KeyRace \in BOOLEAN /\ NoKey \notin Keys

ApiJobIds == 1..MaxApiJobs
Gated     == {"compile", "compile_topic"}   \* activeJobKinds
Final     == {"done", "failed", "cancelled"}

VARIABLES
  created,   \* jobs created so far
  status,    \* Job.Status; a job that left the store is still its goroutine's
  kind,      \* Job.Kind
  stored,    \* jobStore.order and jobs
  idem,      \* jobStore.idem: a kind and a key to a job, or 0
  task,      \* runJob: none, spawned, running, over
  done,      \* the jobs whose context is cancelled or has expired
  client,    \* each request: where it stands, its kind, key and job
  keyed      \* history: the key each job was submitted with

apiVars == <<created, status, kind, stored, idem, task, done, client, keyed>>

NoSubmit == [at |-> "idle", kind |-> "none", key |-> NoKey, id |-> 0]

ApiInit ==
  /\ created = 0 /\ stored = {} /\ done = {}
  /\ status = [j \in ApiJobIds |-> "pending"]
  /\ kind = [j \in ApiJobIds |-> "none"]
  /\ idem = [k \in Kinds \X Keys |-> 0]
  /\ task = [j \in ApiJobIds |-> "none"]
  /\ client = [c \in Submitters |-> NoSubmit]
  /\ keyed = [j \in ApiJobIds |-> NoKey]

-----------------------------------------------------------------------------
ActiveWhenRunning(j) == status[j] = "running"
Active(j)   == status[j] \in {"pending", "running"}
Finished(j) == status[j] \in Final

\* The hypothesis under which a client sends a key again only when it has the answer.
KeyFree(k, key) ==
  \/ KeyRace \/ key = NoKey
  \/ \A c \in Submitters : client[c].at # "idle" => <<client[c].kind, client[c].key>> # <<k, key>>

\* handleJobSubmit looks the key up: a job that is still stored is replayed.
Lookup(c) ==
  /\ client[c].at = "idle"
  /\ \E k \in Kinds, key \in Keys \union {NoKey} :
       /\ KeyFree(k, key)
       /\ key # NoKey => idem[<<k, key>>] \notin stored
       /\ client' = [client EXCEPT ![c] = [at |-> "admit", kind |-> k, key |-> key, id |-> 0]]
  /\ UNCHANGED <<created, status, kind, stored, idem, task, done, keyed>>

\* tryCreateOrGetActive: a stored compile that is active turns a compile away.
Conflict(c) ==
  /\ client[c].at = "admit" /\ client[c].kind \in Gated
  /\ \E j \in stored : kind[j] \in Gated /\ Active(j)
  /\ client' = [client EXCEPT ![c] = NoSubmit]
  /\ UNCHANGED <<created, status, kind, stored, idem, task, done, keyed>>

\* createLocked: the new job, and the oldest one evicted with its keys.
Create(c) ==
  LET j == created + 1
      kept == IF Cardinality(stored) < StoreMax THEN stored ELSE stored \ {Min(stored)} IN
  /\ client[c].at = "admit" /\ j \in ApiJobIds
  /\ client[c].kind \in Gated => \A i \in stored : ~(kind[i] \in Gated /\ Active(i))
  /\ created' = j
  /\ kind' = [kind EXCEPT ![j] = client[c].kind]
  /\ stored' = kept \union {j}
  /\ idem' = [k \in DOMAIN idem |-> IF idem[k] \in stored \ kept THEN 0 ELSE idem[k]]
  /\ keyed' = [keyed EXCEPT ![j] = client[c].key]
  /\ client' = [client EXCEPT ![c].at = "launch", ![c].id = j]
  /\ UNCHANGED <<status, task, done>>

LaunchKeyless(c) ==
  /\ client[c].at = "launch"
  /\ task' = [task EXCEPT ![client[c].id] = "spawned"]
  /\ client' = [client EXCEPT ![c] = NoSubmit]
  /\ UNCHANGED <<created, status, kind, stored, idem, done, keyed>>

\* storeIdemKey, the 202, and the goroutine.
Launch(c) ==
  /\ client[c].at = "launch"
  /\ idem' = IF client[c].key = NoKey THEN idem
             ELSE [idem EXCEPT ![<<client[c].kind, client[c].key>>] = client[c].id]
  /\ task' = [task EXCEPT ![client[c].id] = "spawned"]
  /\ client' = [client EXCEPT ![c] = NoSubmit]
  /\ UNCHANGED <<created, status, kind, stored, done, keyed>>

-----------------------------------------------------------------------------
BeginAnyway(j) ==
  /\ task[j] = "spawned"
  /\ task' = [task EXCEPT ![j] = "running"]
  /\ status' = [status EXCEPT ![j] = "running"]
  /\ UNCHANGED <<created, kind, stored, idem, done, client, keyed>>

\* runJob: a job that was deleted before its goroutine ran is not resurrected.
Begin(j) ==
  /\ task[j] = "spawned"
  /\ IF status[j] = "cancelled"
     THEN task' = [task EXCEPT ![j] = "over"] /\ UNCHANGED status
     ELSE /\ task' = [task EXCEPT ![j] = "running"]
          /\ status' = [status EXCEPT ![j] = "running"]
  /\ UNCHANGED <<created, kind, stored, idem, done, client, keyed>>

\* The deadline of contextWithJobTimeout.
Deadline(j) ==
  /\ task[j] = "running" /\ j \notin done
  /\ done' = done \union {j}
  /\ UNCHANGED <<created, status, kind, stored, idem, task, client, keyed>>

\* What the runner's return makes of the job: a success leaves a cancelled one alone.
Outcome(j) ==
  IF ~HasRunner THEN {"failed"}
  ELSE {IF j \in done THEN "cancelled" ELSE "failed",
        IF status[j] = "cancelled" THEN "cancelled" ELSE "done"}

Return(j) ==
  /\ task[j] = "running"
  /\ \E s \in Outcome(j) : status' = [status EXCEPT ![j] = s]
  /\ task' = [task EXCEPT ![j] = "over"]
  /\ UNCHANGED <<created, kind, stored, idem, done, client, keyed>>

\* handleJobDelete: the context is cancelled once there is one; the status is, at once.
Delete(j) ==
  /\ j \in stored /\ ~Finished(j)
  /\ status' = [status EXCEPT ![j] = "cancelled"]
  /\ done' = IF task[j] = "running" THEN done \union {j} ELSE done
  /\ UNCHANGED <<created, kind, stored, idem, task, client, keyed>>

-----------------------------------------------------------------------------
ApiNext ==
  \/ \E c \in Submitters : Lookup(c) \/ Conflict(c) \/ Create(c) \/ Launch(c)
  \/ \E j \in ApiJobIds : Begin(j) \/ Deadline(j) \/ Return(j) \/ Delete(j)

ApiSpec == ApiInit /\ [][ApiNext]_apiVars

-----------------------------------------------------------------------------
ApiTypeOK ==
  /\ created \in 0..MaxApiJobs /\ stored \subseteq 1..created
  /\ status \in [ApiJobIds -> {"pending", "running"} \union Final]
  /\ kind \in [ApiJobIds -> Kinds \union {"none"}]
  /\ idem \in [Kinds \X Keys -> 0..MaxApiJobs]
  /\ task \in [ApiJobIds -> {"none", "spawned", "running", "over"}]
  /\ done \subseteq ApiJobIds
  /\ client \in [Submitters -> [at : {"idle", "admit", "launch"},
                                kind : Kinds \union {"none"},
                                key : Keys \union {NoKey}, id : 0..MaxApiJobs]]
  /\ keyed \in [ApiJobIds -> Keys \union {NoKey}]

\* Of the jobs the store still knows, at most one compile runs that was not told to stop.
GateIsExclusive ==
  Cardinality({j \in stored : kind[j] \in Gated /\ task[j] = "running"
                                /\ j \notin done}) <= 1

\* The verdict a client has seen stands: neither a late goroutine nor a late return
\* of the runner changes the status of a finished job.
VerdictStands ==
  [][\A j \in ApiJobIds : Finished(j) => status'[j] = status[j]]_apiVars

\* A key that is sent again starts no second job while the first is remembered.
OneJobPerKey ==
  \A i, j \in stored :
    i # j /\ kind[i] = kind[j] /\ keyed[i] = keyed[j] => keyed[i] = NoKey
=============================================================================
