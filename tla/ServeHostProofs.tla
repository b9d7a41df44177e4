--------------------------- MODULE ServeHostProofs ----------------------------
(***************************************************************************)
(* Proofs about ServeHost, for any number of workspaces, requests and       *)
(* threads: the stack that a request is served with is up; every open       *)
(* engine has an owner; a workspace's compile runs under its lock; and the  *)
(* jobs of a workspace follow JobLedger.                                    *)
(***************************************************************************)
EXTENDS ServeHost, JobLedgerProofs, SequenceTheorems

-----------------------------------------------------------------------------
(* The references of a stack are the requests that it serves.              *)

Serving(s) == {t \in Requests : req[t].pc = "serve" /\ req[t].st = s}

\* A request that has a stack of its own, which is not registered yet.
HasStack(t) == req[t].pc \in {"reopen", "relock", "reinsert", "register"}

StackType == [name : Names \union {Nil}, ws : Handles \union {Nil}, refs : Int,
              stage : {"none", "live", "closing", "stopped"}]
ReqType   == [pc : {"idle", "open", "lock", "insert", "assemble",
                    "reopen", "relock", "reinsert", "register", "serve"},
              name : Names \union {Nil}, ws : Handles \union {Nil}, st : Queues \union {Nil}]

EvictType == [stage : {"none", "hook", "wait"}, name : Names \union {Nil},
              ws : Handles \union {Nil}, st : Queues \union {Nil}]

HostShape ==
  /\ cache \in [Names -> Handles \union {Nil}] /\ recent \in Seq(Names)
  /\ registry \in [Names -> Queues \union {Nil}]
  /\ stack \in [Queues -> StackType] /\ req \in [Requests -> ReqType]
  /\ evict \in [Threads -> EvictType]
  /\ \A e \in Threads : evict[e].stage = "hook" => evict[e].name \in Names

Registered ==
  \A n \in Names : registry[n] # Nil =>
    stack[registry[n]].stage = "live" /\ stack[registry[n]].name = n

RequestsMatch ==
  \A t \in Requests :
    /\ req[t].pc # "idle" => req[t].name \in Names
    /\ req[t].pc \in {"open", "lock", "insert", "assemble"} => req[t].st = Nil
    /\ req[t].pc = "serve" => req[t].st \in Queues
    /\ HasStack(t) =>
         /\ req[t].st \in Queues /\ registry[req[t].name] # req[t].st
         /\ stack[req[t].st].stage = "live" /\ stack[req[t].st].refs = 0
         /\ stack[req[t].st].name = req[t].name
         /\ \A u \in Requests : HasStack(u) /\ u # t => req[u].st # req[t].st

RefsCount ==
  \A s \in Queues :
    /\ IsFiniteSet(Serving(s)) /\ stack[s].refs = Cardinality(Serving(s))
    /\ stack[s].stage \in {"none", "stopped"} => stack[s].refs = 0

HostInv == HostShape /\ Registered /\ RequestsMatch /\ RefsCount
LEMMA NothingOK ==
  /\ NoRequest \in ReqType /\ NoRequest.pc = "idle"
  /\ NoStack \in StackType /\ NoStack.stage = "none" /\ NoStack.refs = 0
  BY DEF NoRequest, ReqType, NoStack, StackType

LEMMA OthersType == ASSUME recent \in Seq(Names), NEW n \in Names PROVE Others(n) \in Seq(Names)
<1>1. CASE n \notin ToSet(recent)
  BY <1>1 DEF Others
<1>2. CASE n \in ToSet(recent)
  <2> DEFINE i == CHOOSE j \in DOMAIN recent : recent[j] = n
  <2>1. i \in 1..Len(recent) /\ Len(recent) \in Nat
    BY <1>2 DEF ToSet
  <2>2. Others(n) = RemoveAt(recent, i)
    BY <1>2 DEF Others
  <2> HIDE DEF i
  <2>3. \A j \in 1..Len(recent) : recent[j] \in Names
    OBVIOUS
  <2>4. SubSeq(recent, 1, i - 1) \in Seq(Names) /\ SubSeq(recent, i + 1, Len(recent)) \in Seq(Names)
    <3>1. \A j \in 1..(i - 1) : recent[j] \in Names
      BY <2>1, <2>3
    <3>2. \A j \in (i + 1)..Len(recent) : recent[j] \in Names
      BY <2>1, <2>3
    <3>3. i - 1 \in Int /\ i + 1 \in Int /\ Len(recent) \in Int /\ 1 \in Int
      BY <2>1
    <3> QED BY <3>1, <3>2, <3>3, SubSeqProperties
  <2> QED BY <2>2, <2>4, ConcatProperties DEF RemoveAt
<1> QED BY <1>1, <1>2

LEMMA NewestType == ASSUME recent \in Seq(Names), NEW n \in Names PROVE Touched(n) \in Seq(Names)
  BY OthersType DEF Touched

\* What each step does to the request that takes it, to its stack and to the registry.
LEMMA AcquireHitEffect ==
  ASSUME HostInv, NEW t \in Requests, NEW n \in Names, AcquireHit(t, n)
  PROVE  \E r \in ReqType, s \in Queues, q \in StackType :
           /\ req[t].pc = "idle" /\ req' = [req EXCEPT ![t] = r]
           /\ r.pc = "serve" /\ r.st = s /\ r.name = n
           /\ stack[s].stage = "live" /\ s = registry[n] /\ stack' = [stack EXCEPT ![s] = q]
           /\ q.refs = stack[s].refs + 1 /\ q.name = stack[s].name /\ q.stage = "live"
           /\ recent' \in Seq(Names) /\ UNCHANGED <<registry, cache, evict>>
<1> DEFINE s == registry[n]
           r == [pc |-> "serve", name |-> n, ws |-> Nil, st |-> s]
           q == [stack[s] EXCEPT !.refs = @ + 1]
<1>1. /\ req[t].pc = "idle" /\ s # Nil /\ stack[s].stage = "live"
      /\ stack' = [stack EXCEPT ![s].refs = @ + 1] /\ req' = [req EXCEPT ![t] = r]
      /\ recent' = (IF ~mclosed /\ cache[n] # Nil THEN Touched(n) ELSE recent)
      /\ UNCHANGED <<registry, cache, evict>>
  BY DEF AcquireHit
<1>2. s \in Queues /\ stack[s] \in StackType
  BY <1>1 DEF HostInv, HostShape
<1>3. q \in StackType /\ q.refs = stack[s].refs + 1 /\ q.name = stack[s].name /\ q.stage = "live"
  BY <1>1, <1>2 DEF StackType
<1>4. stack' = [stack EXCEPT ![s] = q]
  BY <1>1 DEF HostInv, HostShape
<1>5. r \in ReqType /\ r.pc = "serve" /\ r.st = s /\ r.name = n
  BY <1>2 DEF ReqType
<1>6. recent' \in Seq(Names)
  BY <1>1, NewestType DEF HostInv, HostShape
<1> HIDE DEF r, q
<1> QED BY <1>1, <1>2, <1>3, <1>4, <1>5, <1>6

LEMMA AcquireMissEffect ==
  ASSUME HostInv, NEW t \in Requests, NEW n \in Names, AcquireMiss(t, n)
  PROVE  \E r \in ReqType :
           /\ req[t].pc = "idle" /\ req' = [req EXCEPT ![t] = r]
           /\ r.pc = "open" /\ r.st = Nil /\ r.name = n
           /\ UNCHANGED <<registry, stack, cache, recent, evict>>
<1> DEFINE r == [pc |-> "open", name |-> n, ws |-> Nil, st |-> Nil]
<1>1. r \in ReqType /\ r.pc = "open" /\ r.st = Nil /\ r.name = n
  BY DEF ReqType
<1>2. /\ req[t].pc = "idle" /\ req' = [req EXCEPT ![t] = r]
      /\ UNCHANGED <<registry, stack, cache, recent, evict>>
  BY DEF AcquireMiss
<1> HIDE DEF r
<1> QED BY <1>1, <1>2

\* A request gives up: what it had assembled is torn down.
GivenUp(t) ==
  /\ req[t].pc \in {"open", "lock", "insert", "reopen", "relock", "reinsert"}
  /\ req' = [req EXCEPT ![t] = NoRequest]
  /\ \/ req[t].st = Nil /\ UNCHANGED stack
     \/ \E q \in StackType :
          /\ HasStack(t) /\ stack' = [stack EXCEPT ![req[t].st] = q]
          /\ q.refs = stack[req[t].st].refs /\ q.name = stack[req[t].st].name
          /\ q.stage = "closing"

\* A request gets on with its handle.
GotOn(t) ==
  \E r \in ReqType :
    /\ req' = [req EXCEPT ![t] = r] /\ r.name = req[t].name /\ r.st = req[t].st /\ UNCHANGED stack
    /\ \/ req[t].pc \in {"open", "lock", "insert"} /\ r.pc \in {"lock", "insert", "assemble"}
       \/ /\ req[t].pc \in {"reopen", "relock", "reinsert"}
          /\ r.pc \in {"relock", "reinsert", "register"}

LEMMA AbandonEffect ==
  ASSUME HostInv, NEW t \in Requests, Abandon(t),
         req[t].pc \in {"open", "lock", "insert", "reopen", "relock", "reinsert"}
  PROVE  GivenUp(t)
<1> DEFINE s == req[t].st
           q == [stack[s] EXCEPT !.ws = Nil, !.stage = "closing"]
<1>1. CASE s = Nil
  BY <1>1 DEF Abandon, GivenUp
<1>2. CASE s # Nil
  <2>1. HasStack(t) /\ s \in Queues
    BY <1>2 DEF HostInv, RequestsMatch, HasStack
  <2>2. stack[s] \in StackType
    BY <2>1 DEF HostInv, HostShape
  <2>3. q \in StackType /\ q.refs = stack[s].refs /\ q.name = stack[s].name /\ q.stage = "closing"
    BY <2>2 DEF StackType
  <2>4. stack' = [stack EXCEPT ![s] = q]
    BY <1>2, <2>1 DEF Abandon, HostInv, HostShape
  <2> HIDE DEF q
  <2> QED BY <2>1, <2>3, <2>4 DEF Abandon, GivenUp
<1> QED BY <1>1, <1>2

LEMMA GetsOn ==
  ASSUME HostInv, NEW t \in Requests, NEW pc, NEW h \in Handles \union {Nil},
         \/ req[t].pc \in {"open", "lock", "insert"} /\ pc \in {"lock", "insert", "assemble"}
         \/ /\ req[t].pc \in {"reopen", "relock", "reinsert"}
            /\ pc \in {"relock", "reinsert", "register"},
         req' = [req EXCEPT ![t].pc = pc, ![t].ws = h], UNCHANGED stack
  PROVE  GotOn(t)
<1> DEFINE r == [req[t] EXCEPT !.pc = pc, !.ws = h]
<1>1. req[t] \in ReqType
  BY DEF HostInv, HostShape
<1>2. r \in ReqType /\ r.name = req[t].name /\ r.st = req[t].st /\ r.pc = pc
  BY <1>1 DEF ReqType
<1>3. req' = [req EXCEPT ![t] = r]
  BY DEF HostInv, HostShape
<1> HIDE DEF r
<1> QED BY <1>2, <1>3 DEF GotOn

LEMMA WorkspaceEffect ==
  ASSUME HostInv, NEW t \in Requests, Workspace(t) \/ OpenWorkspace(t)
  PROVE  /\ GivenUp(t) \/ GotOn(t)
         /\ recent' \in Seq(Names) /\ UNCHANGED <<registry, cache, evict>>
<1> DEFINE n == req[t].name
<1>0. /\ req[t].pc \in {"open", "lock", "reopen", "relock"} /\ n \in Names
      /\ UNCHANGED <<registry, cache, evict>> /\ req[t] \in ReqType
  BY DEF Workspace, OpenWorkspace, HostInv, RequestsMatch, HostShape
<1>1. CASE /\ req' = [req EXCEPT ![t].pc = After(@), ![t].ws = cache[n]]
           /\ recent' = Touched(n) /\ UNCHANGED stack
  <2>1. req' = [req EXCEPT ![t].pc = After(req[t].pc), ![t].ws = cache[n]]
    BY <1>1 DEF HostInv, HostShape
  <2>2. cache[n] \in Handles \union {Nil} /\ recent' \in Seq(Names)
    BY <1>0, <1>1, NewestType DEF HostInv, HostShape
  <2> QED BY <1>0, <1>1, <2>1, <2>2, GetsOn DEF After
<1>2. CASE /\ req[t].pc \in {"open", "reopen"}
           /\ req' = [req EXCEPT ![t].pc = IF @ = "open" THEN "lock" ELSE "relock"]
           /\ UNCHANGED <<recent, stack>>
  <2> DEFINE pc == IF req[t].pc = "open" THEN "lock" ELSE "relock"
  <2>1. req' = [req EXCEPT ![t].pc = pc, ![t].ws = req[t].ws] /\ req[t].ws \in Handles \union {Nil}
    BY <1>0, <1>2 DEF HostInv, HostShape, ReqType
  <2> HIDE DEF pc
  <2>2. \/ req[t].pc \in {"open", "lock", "insert"} /\ pc \in {"lock", "insert", "assemble"}
        \/ /\ req[t].pc \in {"reopen", "relock", "reinsert"}
           /\ pc \in {"relock", "reinsert", "register"}
    BY <1>2 DEF pc
  <2>3. GotOn(t)
    BY <1>2, <2>1, <2>2, GetsOn
  <2> QED BY <1>0, <1>2, <2>3 DEF HostInv, HostShape
<1>3. CASE /\ req[t].pc \in {"lock", "relock"}
           /\ \E h \in Handles :
                req' = [req EXCEPT ![t].pc = IF @ = "lock" THEN "insert" ELSE "reinsert",
                                   ![t].ws = h]
           /\ UNCHANGED <<recent, stack>>
  <2>1. PICK h \in Handles :
          req' = [req EXCEPT ![t].pc = IF req[t].pc = "lock" THEN "insert" ELSE "reinsert",
                             ![t].ws = h]
    BY <1>3 DEF HostInv, HostShape
  <2> QED BY <1>0, <1>3, <2>1, GetsOn DEF HostInv, HostShape
<1>4. CASE Abandon(t) /\ UNCHANGED recent
  BY <1>0, <1>4, AbandonEffect DEF HostInv, HostShape
<1> QED BY <1>0, <1>1, <1>2, <1>3, <1>4 DEF Workspace, OpenWorkspace

LEMMA InsertEffect ==
  ASSUME HostInv, NEW t \in Requests, Insert(t)
  PROVE  /\ GivenUp(t) \/ GotOn(t)
         /\ recent' \in Seq(Names) /\ UNCHANGED registry
         /\ cache' \in [Names -> Handles \union {Nil}]
         /\ \/ UNCHANGED evict
            \/ \E x \in EvictType : evict' = [evict EXCEPT ![t] = x] /\ x.name \in Names
<1> DEFINE n == req[t].name
           h == req[t].ws
           next == IF req[t].pc = "insert" THEN "assemble" ELSE "register"
<1>0. /\ req[t].pc \in {"insert", "reinsert"} /\ n \in Names /\ UNCHANGED registry
      /\ h \in Handles \union {Nil}
  BY DEF Insert, HostInv, RequestsMatch, HostShape, ReqType
<1>1. CASE mclosed /\ Abandon(t) /\ UNCHANGED <<cache, recent, evict>>
  BY <1>0, <1>1, AbandonEffect DEF HostInv, HostShape
<1>2. ASSUME req' = [req EXCEPT ![t].pc = next], UNCHANGED stack PROVE GotOn(t)
  <2>1. req' = [req EXCEPT ![t].pc = next, ![t].ws = h]
    <3>1. req[t] \in ReqType
      BY DEF HostInv, HostShape
    <3> QED BY <1>2, <3>1 DEF HostInv, HostShape, ReqType
  <2> HIDE DEF next
  <2> QED BY <1>0, <1>2, <2>1, GetsOn DEF next
<1>3. CASE /\ ~mclosed /\ cache[n] = Nil /\ Len(recent) < MaxOpen
           /\ cache' = [cache EXCEPT ![n] = h] /\ recent' = Touched(n)
           /\ req' = [req EXCEPT ![t].pc = next]
           /\ UNCHANGED <<engine, stack, evict>>
  BY <1>0, <1>2, <1>3, NewestType DEF HostInv, HostShape
<1>4. CASE /\ ~mclosed /\ cache[n] = Nil /\ Len(recent) >= MaxOpen
           /\ LET v == Head(recent) IN
                /\ Evictable(v)
                /\ cache' = [cache EXCEPT ![v] = Nil, ![n] = h]
                /\ recent' = Append(Tail(recent), n)
                /\ evict' = [evict EXCEPT ![t] =
                               [stage |-> "hook", name |-> v, ws |-> cache[v], st |-> Nil]]
           /\ req' = [req EXCEPT ![t].pc = next]
           /\ UNCHANGED <<engine, stack>>
  <2> DEFINE v == Head(recent)
             x == [stage |-> "hook", name |-> v, ws |-> cache[v], st |-> Nil]
  <2>1. recent \in Seq(Names) /\ recent # <<>>
    BY <1>4, HostAssumption DEF HostInv, HostShape
  <2>2. v \in Names /\ Tail(recent) \in Seq(Names)
    BY <2>1
  <2>3. evict' = [evict EXCEPT ![t] = x] /\ x \in EvictType /\ x.name \in Names
    BY <1>4, <2>2 DEF EvictType, HostInv, HostShape
  <2>4. recent' \in Seq(Names) /\ cache' \in [Names -> Handles \union {Nil}]
    BY <1>0, <1>4, <2>2 DEF HostInv, HostShape
  <2>5. GotOn(t)
    BY <1>2, <1>4
  <2> HIDE DEF x
  <2> QED BY <1>0, <2>3, <2>4, <2>5
<1>5. CASE /\ ~mclosed /\ cache[n] # Nil
           /\ req' = [req EXCEPT ![t].pc = next, ![t].ws = cache[n]]
           /\ recent' = Touched(n)
           /\ UNCHANGED <<stack, cache, evict>>
  <2>1. cache[n] \in Handles \union {Nil} /\ recent' \in Seq(Names)
    BY <1>0, <1>5, NewestType DEF HostInv, HostShape
  <2>2. next \in {"assemble", "register"} /\ (req[t].pc = "insert" <=> next = "assemble")
    OBVIOUS
  <2> HIDE DEF next
  <2>3. GotOn(t)
    BY <1>0, <1>5, <2>1, <2>2, GetsOn
  <2> QED BY <1>0, <1>5, <2>1, <2>3 DEF HostInv, HostShape
<1> HIDE DEF next
<1> QED BY <1>1, <1>3, <1>4, <1>5 DEF Insert, next

LEMMA AssembleEffect ==
  ASSUME HostInv, NEW t \in Requests, Assemble(t)
  PROVE  /\ UNCHANGED <<registry, cache, recent, evict>> /\ req[t].pc = "assemble"
         /\ \/ req' = [req EXCEPT ![t] = NoRequest] /\ UNCHANGED stack
            \/ \E s \in Queues, q \in StackType, r \in ReqType :
                 /\ stack[s].stage = "none" /\ stack' = [stack EXCEPT ![s] = q]
                 /\ q.refs = 0 /\ q.name = req[t].name /\ q.stage = "live"
                 /\ req' = [req EXCEPT ![t] = r]
                 /\ r.pc = "reopen" /\ r.st = s /\ r.name = req[t].name
<1>0. /\ req[t].pc = "assemble" /\ UNCHANGED <<registry, cache, recent, evict>>
      /\ req[t] \in ReqType
  BY DEF Assemble, HostInv, HostShape
<1>1. PICK s \in Queues :
        /\ Unused(s)
        /\ \/ /\ stack' = [stack EXCEPT ![s] = [name |-> req[t].name, ws |-> req[t].ws,
                                                refs |-> 0, stage |-> "live"]]
              /\ req' = [req EXCEPT ![t].pc = "reopen", ![t].st = s]
           \/ /\ req' = [req EXCEPT ![t] = NoRequest]
              /\ UNCHANGED stack
  BY DEF Assemble
<1> DEFINE q == [name |-> req[t].name, ws |-> req[t].ws, refs |-> 0, stage |-> "live"]
           r == [req[t] EXCEPT !.pc = "reopen", !.st = s]
<1>2. q \in StackType /\ q.refs = 0 /\ q.name = req[t].name /\ q.stage = "live"
  BY <1>0 DEF ReqType, StackType
<1>3. r \in ReqType /\ r.pc = "reopen" /\ r.st = s /\ r.name = req[t].name
  BY <1>0 DEF ReqType
<1>4. CASE /\ stack' = [stack EXCEPT ![s] = q]
           /\ req' = [req EXCEPT ![t].pc = "reopen", ![t].st = s]
  <2>1. req' = [req EXCEPT ![t] = r]
    BY <1>4 DEF HostInv, HostShape
  <2>2. stack[s].stage = "none" /\ stack' = [stack EXCEPT ![s] = q]
    BY <1>1, <1>4 DEF Unused
  <2> HIDE DEF q, r
  <2> QED BY <1>0, <1>2, <1>3, <2>1, <2>2
<1>5. CASE req' = [req EXCEPT ![t] = NoRequest] /\ UNCHANGED stack
  BY <1>0, <1>5
<1> QED BY <1>1, <1>4, <1>5

LEMMA RegisterEffect ==
  ASSUME HostInv, NEW t \in Requests, Register(t)
  PROVE  /\ UNCHANGED <<cache, recent, evict>> /\ req[t].pc = "register" /\ req[t].st \in Queues
         /\ \E r \in ReqType, q \in StackType :
              /\ req' = [req EXCEPT ![t] = r] /\ r.pc = "serve" /\ r.name = req[t].name
              /\ q.name = stack[req[t].st].name
              /\ \/ \E p \in StackType, f \in Queues :
                      /\ r.st = f /\ f = registry[req[t].name] /\ f # req[t].st
                      /\ stack[f].stage = "live"
                      /\ stack' = [stack EXCEPT ![f] = p, ![req[t].st] = q]
                      /\ p.refs = stack[f].refs + 1 /\ p.stage = "live" /\ p.name = stack[f].name
                      /\ q.refs = stack[req[t].st].refs /\ q.stage = "closing"
                      /\ UNCHANGED registry
                 \/ /\ r.st = req[t].st /\ registry[req[t].name] = Nil
                    /\ stack' = [stack EXCEPT ![req[t].st] = q] /\ q.refs = 1 /\ q.stage = "live"
                    /\ registry' = [registry EXCEPT ![req[t].name] = req[t].st]
<1> DEFINE n == req[t].name
           s == req[t].st
           f == registry[n]
<1>0. /\ req[t].pc = "register" /\ UNCHANGED <<cache, recent, evict>> /\ req[t] \in ReqType
  BY DEF Register, HostInv, HostShape
<1>1. /\ n \in Names /\ s \in Queues /\ f # s /\ stack[s] \in StackType
      /\ stack[s].stage = "live" /\ f \in Queues \union {Nil}
  BY <1>0 DEF HostInv, HostShape, RequestsMatch, HasStack
<1>2. CASE f # Nil /\ stack[f].stage = "live"
  <2> DEFINE r == [req[t] EXCEPT !.pc = "serve", !.ws = Nil, !.st = f]
             p == [stack[f] EXCEPT !.refs = @ + 1]
             q == [stack[s] EXCEPT !.ws = Nil, !.stage = "closing"]
  <2>1. f \in Queues /\ stack[f] \in StackType
    BY <1>1, <1>2 DEF HostInv, HostShape
  <2>2. r \in ReqType /\ r.pc = "serve" /\ r.name = n /\ r.st = f
    BY <1>0, <2>1 DEF ReqType
  <2>3. p \in StackType /\ p.refs = stack[f].refs + 1 /\ p.stage = "live" /\ p.name = stack[f].name
    BY <1>2, <2>1 DEF StackType
  <2>4. q \in StackType /\ q.refs = stack[s].refs /\ q.stage = "closing" /\ q.name = stack[s].name
    BY <1>1 DEF StackType
  <2>5. /\ req' = [req EXCEPT ![t] = r] /\ stack' = [stack EXCEPT ![f] = p, ![s] = q]
        /\ UNCHANGED registry
    BY <1>1, <1>2, <2>1 DEF Register, HostInv, HostShape
  <2> HIDE DEF r, p, q
  <2> QED BY <1>0, <1>1, <1>2, <2>1, <2>2, <2>3, <2>4, <2>5
<1>3. CASE ~(f # Nil /\ stack[f].stage = "live")
  <2> DEFINE r == [req[t] EXCEPT !.pc = "serve", !.ws = Nil]
             q == [stack[s] EXCEPT !.ws = req[t].ws, !.refs = 1]
  <2>1. f = Nil
    BY <1>1, <1>3 DEF HostInv, Registered
  <2>2. r \in ReqType /\ r.pc = "serve" /\ r.name = n /\ r.st = s
    BY <1>0 DEF ReqType
  <2>3. q \in StackType /\ q.refs = 1 /\ q.stage = "live" /\ q.name = stack[s].name
    <3>1. req[t].ws \in Handles \union {Nil}
      BY <1>0 DEF ReqType
    <3>2. stack[s] \in StackType /\ stack[s].stage = "live"
      BY <1>1
    <3>3. \A x : x = [stack[s] EXCEPT !.ws = req[t].ws, !.refs = 1] =>
            x \in StackType /\ x.refs = 1 /\ x.stage = "live" /\ x.name = stack[s].name
      <4> TAKE x
      <4> HAVE x = [stack[s] EXCEPT !.ws = req[t].ws, !.refs = 1]
      <4>1. x \in StackType /\ x.refs = 1 /\ x.stage = stack[s].stage /\ x.name = stack[s].name
        <5>1. PICK i \in Int : i = 1
          OBVIOUS
        <5>2. x = [stack[s] EXCEPT !.ws = req[t].ws, !.refs = i]
          BY <5>1
        <5>3. x \in StackType /\ x.refs = i /\ x.stage = stack[s].stage /\ x.name = stack[s].name
          BY ONLY <3>1, <3>2, <5>2, i \in Int DEF StackType
        <5> QED BY ONLY <5>1, <5>3
      <4> QED BY <3>2, <4>1
    <3> QED BY <3>3, Zenon
  <2>4. /\ req' = [req EXCEPT ![t] = r] /\ stack' = [stack EXCEPT ![s] = q]
        /\ registry' = [registry EXCEPT ![n] = s]
    BY <1>1, <1>3 DEF Register, HostInv, HostShape
  <2> HIDE DEF r, q
  <2> QED BY <1>0, <1>1, <2>1, <2>2, <2>3, <2>4
<1> QED BY <1>2, <1>3

LEMMA ReleaseEffect ==
  ASSUME HostInv, NEW t \in Requests, ReleaseRef(t)
  PROVE  /\ UNCHANGED <<registry, cache, recent, evict>> /\ req[t].pc = "serve"
         /\ req[t].st \in Queues /\ req' = [req EXCEPT ![t] = NoRequest]
         /\ \E q \in StackType :
              /\ stack' = [stack EXCEPT ![req[t].st] = q] /\ q.refs = stack[req[t].st].refs - 1
              /\ q.stage = stack[req[t].st].stage /\ q.name = stack[req[t].st].name
<1> DEFINE s == req[t].st
           q == [stack[s] EXCEPT !.refs = @ - 1]
<1>1. /\ UNCHANGED <<registry, cache, recent, evict>> /\ req[t].pc = "serve"
      /\ req' = [req EXCEPT ![t] = NoRequest]
  BY DEF ReleaseRef
<1>2. s \in Queues /\ stack[s] \in StackType
  BY <1>1 DEF HostInv, HostShape, RequestsMatch
<1>3. /\ q \in StackType /\ q.refs = stack[s].refs - 1 /\ q.stage = stack[s].stage
      /\ q.name = stack[s].name
  BY <1>2 DEF StackType
<1>4. stack' = [stack EXCEPT ![s] = q]
  BY <1>2 DEF ReleaseRef, HostInv, HostShape
<1> HIDE DEF q
<1> QED BY <1>1, <1>2, <1>3, <1>4

\* The steps of eviction and of teardown change no request.
LEMMA HookEffect ==
  ASSUME HostInv, NEW e \in Threads, Hook(e)
  PROVE  /\ UNCHANGED <<req, cache, recent>>
         /\ \E n \in Names :
              /\ registry' = [registry EXCEPT ![n] = Nil]
              /\ \/ registry[n] = Nil /\ UNCHANGED stack
                 \/ \E q \in StackType :
                      /\ registry[n] \in Queues /\ stack' = [stack EXCEPT ![registry[n]] = q]
                      /\ q.refs = stack[registry[n]].refs /\ q.name = n /\ q.stage = "closing"
         /\ \E x \in EvictType : evict' = [evict EXCEPT ![e] = x] /\ x.stage # "hook"
<1> DEFINE n == evict[e].name
           s == registry[n]
           q == [stack[s] EXCEPT !.stage = "closing"]
<1>1. /\ evict[e].stage = "hook" /\ n \in Names /\ UNCHANGED <<req, cache, recent>>
      /\ registry' = [registry EXCEPT ![n] = Nil]
  BY DEF Hook, HostInv, HostShape
<1>2. CASE s = Nil
  <2>1. /\ evict' = [evict EXCEPT ![e] = NoEvict] /\ UNCHANGED stack
        /\ NoEvict \in EvictType /\ NoEvict.stage # "hook"
    BY <1>2 DEF Hook, NoEvict, EvictType
  <2> QED BY <1>1, <1>2, <2>1
<1>3. CASE s # Nil
  <2>1. s \in Queues /\ stack[s] \in StackType /\ stack[s].name = n
    BY <1>1, <1>3 DEF HostInv, HostShape, Registered
  <2>2. q \in StackType /\ q.refs = stack[s].refs /\ q.name = n /\ q.stage = "closing"
    BY <2>1 DEF StackType
  <2>3. stack' = [stack EXCEPT ![s] = q]
    BY <1>3, <2>1 DEF Hook, HostInv, HostShape
  <2>4. \E x \in EvictType : evict' = [evict EXCEPT ![e] = x] /\ x.stage # "hook"
    <3> DEFINE x == [evict[e] EXCEPT !.stage = "wait", !.st = s]
    <3>1. evict' = [evict EXCEPT ![e].stage = "wait", ![e].st = s]
      BY <1>3 DEF Hook
    <3>2. evict' = [evict EXCEPT ![e] = x]
      BY <3>1 DEF HostInv, HostShape
    <3>3. x \in EvictType /\ x.stage # "hook"
      <4>1. evict[e] \in EvictType
        BY DEF HostInv, HostShape
      <4> QED BY <2>1, <4>1 DEF EvictType
    <3> HIDE DEF x
    <3> QED BY <3>2, <3>3
  <2> HIDE DEF q
  <2> QED BY <1>1, <2>1, <2>2, <2>3, <2>4
<1> QED BY <1>2, <1>3

LEMMA IdleOrCloseEffect ==
  ASSUME HostInv, Idle \/ CloseHandle
  PROVE  /\ UNCHANGED <<req, registry, stack>> /\ recent' \in Seq(Names)
         /\ cache' \in [Names -> Handles \union {Nil}]
         /\ \E e \in Threads, x \in EvictType :
              evict' = [evict EXCEPT ![e] = x] /\ x.name \in Names
<1>1. PICK n \in Names, e \in {"idle", "root"} :
        /\ cache[n] # Nil
        /\ cache' = [cache EXCEPT ![n] = Nil] /\ recent' = Others(n)
        /\ evict' = [evict EXCEPT ![e] =
                       [stage |-> "hook", name |-> n, ws |-> cache[n], st |-> Nil]]
  BY DEF Idle, CloseHandle
<1> DEFINE x == [stage |-> "hook", name |-> n, ws |-> cache[n], st |-> Nil]
<1>2. x \in EvictType /\ x.name \in Names /\ cache' \in [Names -> Handles \union {Nil}]
      /\ recent' \in Seq(Names)
  BY <1>1, OthersType DEF EvictType, HostInv, HostShape
<1>3. UNCHANGED <<req, registry, stack>>
  BY DEF Idle, CloseHandle
<1>4. evict' = [evict EXCEPT ![e] = x] /\ e \in Threads
  BY <1>1 DEF Threads
<1> HIDE DEF x
<1> QED BY <1>2, <1>3, <1>4

LEMMA TeardownEffect ==
  ASSUME HostInv, NEW s \in Queues, Teardown(s)
  PROVE  /\ UNCHANGED <<req, registry, cache, recent, evict>>
         /\ stack[s].stage = "closing" /\ stack[s].refs = 0
         /\ \E q \in StackType :
              /\ stack' = [stack EXCEPT ![s] = q] /\ q.refs = 0 /\ q.stage = "stopped"
              /\ q.name = stack[s].name
<1> DEFINE q == [stack[s] EXCEPT !.stage = "stopped"]
<1>1. /\ UNCHANGED <<req, registry, cache, recent, evict>> /\ stack[s] \in StackType
      /\ stack[s].stage = "closing" /\ stack[s].refs = 0
  BY DEF Teardown, HostInv, HostShape
<1>2. q \in StackType /\ q.refs = 0 /\ q.stage = "stopped" /\ q.name = stack[s].name
  BY <1>1 DEF StackType
<1>3. stack' = [stack EXCEPT ![s] = q]
  BY DEF Teardown, HostInv, HostShape
<1> HIDE DEF q
<1> QED BY <1>1, <1>2, <1>3

LEMMA DisposeEffect ==
  ASSUME HostInv, NEW s \in Queues, Dispose(s)
  PROVE  /\ UNCHANGED <<req, registry, cache, recent>> /\ stack[s].stage = "stopped"
         /\ stack' = [stack EXCEPT ![s] = NoStack]
         /\ evict' \in [Threads -> EvictType]
         /\ \A e \in Threads : evict'[e].stage = "hook" => evict'[e].name \in Names
<1>1. NoEvict \in EvictType /\ NoEvict.stage = "none"
  BY DEF NoEvict, EvictType
<1> QED BY <1>1 DEF Dispose, HostInv, HostShape

LEMMA CloseAllEffect ==
  ASSUME HostInv, CloseAll
  PROVE  /\ UNCHANGED <<req, cache, recent, evict>>
         /\ registry' = [n \in Names |-> Nil]
         /\ stack' \in [Queues -> StackType]
         /\ \A s \in Queues :
              /\ stack'[s].refs = stack[s].refs /\ stack'[s].name = stack[s].name
              /\ \/ stack'[s].stage = stack[s].stage
                 \/ stack'[s].stage = "closing" /\ \E n \in Names : registry[n] = s
<1> DEFINE all == {registry[n] : n \in Names} \ {Nil}
<1>1. /\ UNCHANGED <<req, cache, recent, evict>> /\ registry' = [n \in Names |-> Nil]
      /\ stack' = [s \in Queues |-> IF s \in all THEN [stack[s] EXCEPT !.stage = "closing"]
                                    ELSE stack[s]]
  BY DEF CloseAll
<1>2. ASSUME NEW s \in Queues
      PROVE  /\ stack'[s] \in StackType
             /\ stack'[s].refs = stack[s].refs /\ stack'[s].name = stack[s].name
             /\ \/ stack'[s].stage = stack[s].stage
                \/ stack'[s].stage = "closing" /\ \E n \in Names : registry[n] = s
  <2>1. stack[s] \in StackType
    BY DEF HostInv, HostShape
  <2>2. CASE s \in all
    <3>1. stack'[s] = [stack[s] EXCEPT !.stage = "closing"]
      BY <1>1, <2>2
    <3>2. \E n \in Names : registry[n] = s
      BY <2>2
    <3> QED BY <2>1, <3>1, <3>2 DEF StackType
  <2>3. CASE s \notin all
    BY <1>1, <2>1, <2>3
  <2> QED BY <2>2, <2>3
<1>3. stack' \in [Queues -> StackType]
  <2>1. DOMAIN stack' = Queues /\ stack' = [s \in Queues |-> stack'[s]]
    BY <1>1
  <2> QED BY <1>2, <2>1
<1> QED BY <1>1, <1>2, <1>3

-----------------------------------------------------------------------------
\* What is left to the other steps.
Elsewhere ==
  \/ \E t \in Requests : Serve(t)
  \/ \E s \in Queues : StopQueue(s) \/ (QueueStep(s) /\ UNCHANGED hostVars)
  \/ Signal \/ CloseManager

LEMMA ElsewhereEffect == Elsewhere => UNCHANGED <<req, registry, stack, cache, recent, evict>>
  BY DEF Elsewhere, Serve, StopQueue, Signal, CloseManager, hostVars

LEMMA HostSteps ==
  ASSUME HostNext, NEW G,
         \A t \in Requests, n \in Names : AcquireHit(t, n) => G,
         \A t \in Requests, n \in Names : AcquireMiss(t, n) => G,
         \A t \in Requests : Workspace(t) \/ OpenWorkspace(t) \/ Insert(t) => G,
         \A t \in Requests : Assemble(t) => G,
         \A t \in Requests : Register(t) => G,
         \A t \in Requests : ReleaseRef(t) => G,
         \A e \in Threads : Hook(e) => G,
         \A s \in Queues : Teardown(s) => G,
         \A s \in Queues : Dispose(s) => G,
         CloseAll => G, Idle \/ CloseHandle => G, Elsewhere => G
  PROVE  G
  BY DEF HostNext, RequestStep, Elsewhere

LEMMA HostShapeNext == HostInv /\ HostNext => HostShape'
<1> SUFFICES ASSUME HostInv, HostNext PROVE HostShape'
  OBVIOUS
<1> USE DEF HostInv, HostShape
<1>1. ASSUME NEW t \in Requests, NEW n \in Names, AcquireHit(t, n) PROVE HostShape'
  <2>1. PICK r \in ReqType, s \in Queues, q \in StackType :
          /\ req' = [req EXCEPT ![t] = r] /\ stack' = [stack EXCEPT ![s] = q]
          /\ recent' \in Seq(Names) /\ UNCHANGED <<registry, cache, evict>>
    BY <1>1, AcquireHitEffect
  <2> QED BY <2>1
<1>2. ASSUME NEW t \in Requests, NEW n \in Names, AcquireMiss(t, n) PROVE HostShape'
  BY <1>2, AcquireMissEffect
<1>3. ASSUME NEW t \in Requests, Workspace(t) \/ OpenWorkspace(t) \/ Insert(t) PROVE HostShape'
  <2>1. /\ GivenUp(t) \/ GotOn(t)
        /\ recent' \in Seq(Names) /\ UNCHANGED registry
        /\ cache' \in [Names -> Handles \union {Nil}]
        /\ \/ UNCHANGED evict
           \/ \E x \in EvictType : evict' = [evict EXCEPT ![t] = x] /\ x.name \in Names
    BY <1>3, WorkspaceEffect, InsertEffect
  <2>2. req' \in [Requests -> ReqType] /\ stack' \in [Queues -> StackType]
    BY <2>1, NothingOK DEF GivenUp, GotOn
  <2> QED BY <2>1, <2>2
<1>4. ASSUME NEW t \in Requests, Assemble(t) PROVE HostShape'
  BY <1>4, AssembleEffect, NothingOK
<1>5. ASSUME NEW t \in Requests, Register(t) PROVE HostShape'
  BY <1>5, RegisterEffect
<1>6. ASSUME NEW t \in Requests, ReleaseRef(t) PROVE HostShape'
  BY <1>6, ReleaseEffect, NothingOK
<1>7. ASSUME NEW e \in Threads, Hook(e) PROVE HostShape'
  BY <1>7, HookEffect
<1>8. ASSUME NEW s \in Queues, Teardown(s) PROVE HostShape'
  BY <1>8, TeardownEffect
<1>9. ASSUME NEW s \in Queues, Dispose(s) PROVE HostShape'
  BY <1>9, DisposeEffect, NothingOK
<1>10. ASSUME CloseAll PROVE HostShape'
  BY <1>10, CloseAllEffect
<1>11. ASSUME Idle \/ CloseHandle PROVE HostShape'
  BY <1>11, IdleOrCloseEffect
<1>12. ASSUME Elsewhere PROVE HostShape'
  BY <1>12, ElsewhereEffect
<1> QED
   BY ONLY HostNext, HostSteps, <1>1, <1>2, <1>3, <1>4, <1>5, <1>6, <1>7, <1>8, <1>9, <1>10,
           <1>11, <1>12

LEMMA RegisteredNext == HostInv /\ HostNext => Registered'
<1> SUFFICES ASSUME HostInv, HostNext PROVE Registered'
  OBVIOUS
<1>0. /\ stack \in [Queues -> StackType] /\ registry \in [Names -> Queues \union {Nil}]
      /\ req \in [Requests -> ReqType] /\ Registered /\ RequestsMatch /\ RefsCount
      /\ Nil \notin Queues
  BY HostAssumption DEF HostInv, HostShape
<1> USE DEF Registered
<1>1. ASSUME NEW t \in Requests, NEW n \in Names, AcquireHit(t, n) PROVE Registered'
  <2>1. PICK s \in Queues, q \in StackType :
          /\ stack[s].stage = "live" /\ stack' = [stack EXCEPT ![s] = q]
          /\ q.name = stack[s].name /\ q.stage = "live" /\ UNCHANGED registry
    BY <1>1, AcquireHitEffect
  <2> QED BY <1>0, <2>1
<1>2. ASSUME NEW t \in Requests, NEW n \in Names, AcquireMiss(t, n) PROVE Registered'
  BY <1>0, <1>2, AcquireMissEffect
<1>3. ASSUME NEW t \in Requests, Workspace(t) \/ OpenWorkspace(t) \/ Insert(t) PROVE Registered'
  <2>1. (GivenUp(t) \/ GotOn(t)) /\ UNCHANGED registry
    BY <1>3, WorkspaceEffect, InsertEffect
  <2>2. \/ UNCHANGED stack
        \/ \E q \in StackType : HasStack(t) /\ stack' = [stack EXCEPT ![req[t].st] = q]
    BY <2>1 DEF GivenUp, GotOn
  <2>3. HasStack(t) => \A n \in Names : registry[n] # req[t].st
    BY <1>0 DEF RequestsMatch
  <2> QED BY <1>0, <2>1, <2>2, <2>3
<1>4. ASSUME NEW t \in Requests, Assemble(t) PROVE Registered'
  <2>1. /\ UNCHANGED registry
        /\ \/ UNCHANGED stack
           \/ \E s \in Queues, q \in StackType :
                stack[s].stage = "none" /\ stack' = [stack EXCEPT ![s] = q]
    BY <1>4, AssembleEffect
  <2> QED BY <1>0, <2>1
<1>5. ASSUME NEW t \in Requests, Register(t) PROVE Registered'
  <2> DEFINE s == req[t].st
             n == req[t].name
  <2>1. /\ n \in Names /\ s \in Queues /\ stack[s].name = n /\ stack[s].stage = "live"
        /\ \A m \in Names : registry[m] # s
    BY <1>0, <1>5, RegisterEffect DEF RequestsMatch, HasStack
  <2>2. PICK q \in StackType :
          /\ q.name = stack[s].name
          /\ \/ \E p \in StackType, f \in Queues :
                  /\ stack' = [stack EXCEPT ![f] = p, ![s] = q]
                  /\ p.stage = "live" /\ p.name = stack[f].name /\ UNCHANGED registry
             \/ /\ stack' = [stack EXCEPT ![s] = q] /\ q.stage = "live"
                /\ registry' = [registry EXCEPT ![n] = s]
    BY <1>5, RegisterEffect
  <2> HIDE DEF s, n
  <2> QED BY <1>0, <2>1, <2>2
<1>6. ASSUME NEW t \in Requests, ReleaseRef(t) PROVE Registered'
  BY <1>0, <1>6, ReleaseEffect
<1>7. ASSUME NEW e \in Threads, Hook(e) PROVE Registered'
  BY <1>0, <1>7, HookEffect
<1>8. ASSUME NEW s \in Queues, Teardown(s) PROVE Registered'
  BY <1>0, <1>8, TeardownEffect
<1>9. ASSUME NEW s \in Queues, Dispose(s) PROVE Registered'
  BY <1>0, <1>9, DisposeEffect
<1>10. ASSUME CloseAll PROVE Registered'
  BY <1>0, <1>10, CloseAllEffect
<1>11. ASSUME Idle \/ CloseHandle PROVE Registered'
  BY <1>0, <1>11, IdleOrCloseEffect
<1>12. ASSUME Elsewhere PROVE Registered'
  BY <1>0, <1>12, ElsewhereEffect
<1> QED
   BY ONLY HostNext, HostSteps, <1>1, <1>2, <1>3, <1>4, <1>5, <1>6, <1>7, <1>8, <1>9, <1>10,
           <1>11, <1>12

LEMMA RequestsMatchNext == HostInv /\ HostNext => RequestsMatch'
<1> SUFFICES ASSUME HostInv, HostNext PROVE RequestsMatch'
  OBVIOUS
<1>0. /\ stack \in [Queues -> StackType] /\ registry \in [Names -> Queues \union {Nil}]
      /\ req \in [Requests -> ReqType] /\ Registered /\ RequestsMatch /\ RefsCount
      /\ Nil \notin Queues
  BY HostAssumption DEF HostInv, HostShape
<1> USE DEF RequestsMatch, HasStack
<1>1. ASSUME NEW t \in Requests, NEW n \in Names, AcquireHit(t, n) PROVE RequestsMatch'
  <2>1. PICK r \in ReqType, s \in Queues, q \in StackType :
          /\ req' = [req EXCEPT ![t] = r] /\ r.pc = "serve" /\ r.st = s /\ r.name = n
          /\ s = registry[n] /\ stack' = [stack EXCEPT ![s] = q]
          /\ q.name = stack[s].name /\ q.stage = "live" /\ UNCHANGED registry
          /\ stack[s].name = n
    BY <1>0, <1>1, AcquireHitEffect DEF Registered
  <2>2. \A u \in Requests : HasStack(u) => req[u].st # s
    BY <1>0, <2>1 DEF Registered
  <2> QED BY <1>0, <2>1, <2>2
<1>2. ASSUME NEW t \in Requests, NEW n \in Names, AcquireMiss(t, n) PROVE RequestsMatch'
  BY <1>0, <1>2, AcquireMissEffect
<1>3. ASSUME NEW t \in Requests, Workspace(t) \/ OpenWorkspace(t) \/ Insert(t) PROVE RequestsMatch'
  <2>1. (GivenUp(t) \/ GotOn(t)) /\ UNCHANGED registry
    BY <1>3, WorkspaceEffect, InsertEffect
  <2>2. CASE GivenUp(t)
    BY <1>0, <2>1, <2>2, NothingOK DEF GivenUp
  <2>3. CASE GotOn(t)
    BY <1>0, <2>1, <2>3 DEF GotOn
  <2> QED BY <2>1, <2>2, <2>3
<1>4. ASSUME NEW t \in Requests, Assemble(t) PROVE RequestsMatch'
  <2>1. CASE req' = [req EXCEPT ![t] = NoRequest] /\ UNCHANGED <<stack, registry>>
    BY <1>0, <2>1, NothingOK
  <2>2. CASE \E s \in Queues, q \in StackType, r \in ReqType :
               /\ stack[s].stage = "none" /\ stack' = [stack EXCEPT ![s] = q]
               /\ q.refs = 0 /\ q.name = req[t].name /\ q.stage = "live"
               /\ req' = [req EXCEPT ![t] = r]
               /\ r.pc = "reopen" /\ r.st = s /\ r.name = req[t].name
               /\ UNCHANGED registry /\ req[t].pc = "assemble"
    <3>1. PICK s \in Queues, q \in StackType, r \in ReqType :
            /\ stack[s].stage = "none" /\ stack' = [stack EXCEPT ![s] = q]
            /\ q.refs = 0 /\ q.name = req[t].name /\ q.stage = "live"
            /\ req' = [req EXCEPT ![t] = r]
            /\ r.pc = "reopen" /\ r.st = s /\ r.name = req[t].name
            /\ UNCHANGED registry /\ req[t].pc = "assemble"
      BY <2>2
    <3>2. req[t].name \in Names /\ registry[req[t].name] # s
      BY <1>0, <3>1 DEF Registered
    <3>3. \A u \in Requests : HasStack(u) => req[u].st # s
      BY <1>0, <3>1
    <3> QED BY <1>0, <3>1, <3>2, <3>3
  <2> QED BY <1>4, <2>1, <2>2, AssembleEffect
<1>5. ASSUME NEW t \in Requests, Register(t) PROVE RequestsMatch'
  <2> DEFINE s == req[t].st
             n == req[t].name
  <2>1. /\ req[t].pc = "register" /\ n \in Names /\ s \in Queues
        /\ stack[s].name = n /\ \A u \in Requests : HasStack(u) /\ u # t => req[u].st # s
    BY <1>0, <1>5, RegisterEffect
  <2>2. PICK r \in ReqType, q \in StackType :
          /\ req' = [req EXCEPT ![t] = r] /\ r.pc = "serve" /\ r.name = n
          /\ \/ \E p \in StackType, f \in Queues :
                  /\ r.st = f /\ f = registry[n]
                  /\ stack' = [stack EXCEPT ![f] = p, ![s] = q] /\ UNCHANGED registry
             \/ /\ r.st = s /\ stack' = [stack EXCEPT ![s] = q]
                /\ registry' = [registry EXCEPT ![n] = s]
    BY <1>5, RegisterEffect
  <2>3. \A u \in Requests : HasStack(u) => req[u].st # registry[n]
    BY <1>0, <2>1 DEF Registered
  <2> HIDE DEF s, n
  <2>4. \A u \in Requests : HasStack(u)' => HasStack(u) /\ u # t /\ req'[u] = req[u]
    BY <1>0, <2>2
  <2> QED BY <1>0, <2>1, <2>2, <2>3, <2>4
<1>6. ASSUME NEW t \in Requests, ReleaseRef(t) PROVE RequestsMatch'
  <2>1. /\ UNCHANGED registry /\ req[t].pc = "serve"
        /\ req[t].st \in Queues /\ req' = [req EXCEPT ![t] = NoRequest]
        /\ \E q \in StackType :
             stack' = [stack EXCEPT ![req[t].st] = q] /\ q.refs = stack[req[t].st].refs - 1
    BY <1>6, ReleaseEffect
  <2>2. \A u \in Requests : HasStack(u) => req[u].st # req[t].st
    <3>1. stack[req[t].st].refs # 0
      <4>1. t \in Serving(req[t].st)
        BY <2>1 DEF Serving
      <4> QED BY <1>0, <2>1, <4>1, FS_EmptySet DEF RefsCount
    <3> QED BY <1>0, <3>1
  <2> QED BY <1>0, <2>1, <2>2, NothingOK
<1>7. ASSUME NEW e \in Threads, Hook(e) PROVE RequestsMatch'
  <2>1. PICK n \in Names :
          /\ registry' = [registry EXCEPT ![n] = Nil] /\ UNCHANGED req
          /\ \/ UNCHANGED stack
             \/ \E q \in StackType : /\ registry[n] \in Queues
                                     /\ stack' = [stack EXCEPT ![registry[n]] = q]
    BY <1>7, HookEffect
  <2>2. \A u \in Requests : HasStack(u) => req[u].st # registry[n]
    BY <1>0, <2>1 DEF Registered
  <2> QED BY <1>0, <2>1, <2>2
<1>8. ASSUME NEW s \in Queues, Teardown(s) PROVE RequestsMatch'
  BY <1>0, <1>8, TeardownEffect
<1>9. ASSUME NEW s \in Queues, Dispose(s) PROVE RequestsMatch'
  BY <1>0, <1>9, DisposeEffect
<1>10. ASSUME CloseAll PROVE RequestsMatch'
  <2>1. \A u \in Requests, n \in Names : HasStack(u) => req[u].st # registry[n]
    BY <1>0 DEF Registered
  <2>2. \A u \in Requests : HasStack(u) =>
          /\ stack'[req[u].st].stage = "live" /\ stack'[req[u].st].refs = stack[req[u].st].refs
          /\ stack'[req[u].st].name = stack[req[u].st].name
    BY <1>0, <1>10, <2>1, CloseAllEffect
  <2> QED BY <1>0, <1>10, <2>2, CloseAllEffect
<1>11. ASSUME Idle \/ CloseHandle PROVE RequestsMatch'
  BY <1>0, <1>11, IdleOrCloseEffect
<1>12. ASSUME Elsewhere PROVE RequestsMatch'
  BY <1>0, <1>12, ElsewhereEffect
<1> QED
   BY ONLY HostNext, HostSteps, <1>1, <1>2, <1>3, <1>4, <1>5, <1>6, <1>7, <1>8, <1>9, <1>10,
           <1>11, <1>12

-----------------------------------------------------------------------------
\* A request that moves is served by the stack it holds, and by no other.
LEMMA ServingMoves ==
  ASSUME req \in [Requests -> ReqType], NEW t \in Requests, NEW r, NEW s,
         req' = [req EXCEPT ![t] = r]
  PROVE  Serving(s)' = IF r.pc = "serve" /\ r.st = s THEN Serving(s) \union {t}
                       ELSE Serving(s) \ {t}
  BY DEF Serving

Recounts(s) ==
  /\ \/ Serving(s)' = Serving(s) /\ stack'[s].refs = stack[s].refs
     \/ \E t \in Requests :
          /\ t \notin Serving(s) /\ Serving(s)' = Serving(s) \union {t}
          /\ stack'[s].refs = stack[s].refs + 1
     \/ \E t \in Requests :
          /\ t \in Serving(s) /\ Serving(s)' = Serving(s) \ {t}
          /\ stack'[s].refs = stack[s].refs - 1
  /\ stack'[s].stage \in {"none", "stopped"} => stack'[s].refs = 0

LEMMA Recounted ==
  ASSUME NEW S, NEW T, NEW j, NEW k, IsFiniteSet(S), j = Cardinality(S),
         \/ T = S /\ k = j
         \/ \E t \in Requests : t \notin S /\ T = S \union {t} /\ k = j + 1
         \/ \E t \in Requests : t \in S /\ T = S \ {t} /\ k = j - 1
  PROVE  IsFiniteSet(T) /\ k = Cardinality(T)
  BY FS_AddElement, FS_RemoveElement

LEMMA RefsCountNext == HostInv /\ HostNext => RefsCount'
<1> SUFFICES ASSUME HostInv, HostNext PROVE \A s \in Queues : Recounts(s)
  <2>1. ASSUME HostInv, NEW s \in Queues, Recounts(s)
        PROVE  IsFiniteSet(Serving(s)') /\ stack'[s].refs = Cardinality(Serving(s)')
    <3>1. /\ IsFiniteSet(Serving(s)) /\ stack[s].refs = Cardinality(Serving(s))
      BY <2>1 DEF HostInv, RefsCount
    <3> DEFINE S == Serving(s)
               T == Serving(s)'
    <3>2. \/ T = S /\ stack'[s].refs = stack[s].refs
          \/ \E t \in Requests : t \notin S /\ T = S \union {t} /\ stack'[s].refs = stack[s].refs + 1
          \/ \E t \in Requests : t \in S /\ T = S \ {t} /\ stack'[s].refs = stack[s].refs - 1
      BY <2>1 DEF Recounts
    <3> HIDE DEF S, T
    <3>3. IsFiniteSet(S) /\ stack[s].refs = Cardinality(S)
      BY <3>1 DEF S
    <3>4. IsFiniteSet(T) /\ stack'[s].refs = Cardinality(T)
      BY ONLY <3>2, <3>3, Recounted
    <3> QED BY <3>4 DEF T
  <2> QED BY <2>1 DEF Recounts, RefsCount
<1> TAKE s \in Queues
<1>0. /\ stack \in [Queues -> StackType] /\ registry \in [Names -> Queues \union {Nil}]
      /\ req \in [Requests -> ReqType] /\ Registered /\ RequestsMatch
      /\ Nil \notin Queues
      /\ stack[s].stage \in {"none", "stopped"} => stack[s].refs = 0
      /\ stack[s].refs = 0 => Serving(s) = {}
  BY HostAssumption, FS_EmptySet DEF HostInv, HostShape, RefsCount
<1>a. ASSUME UNCHANGED req PROVE Serving(s)' = Serving(s)
  BY <1>a DEF Serving
<1>b. ASSUME NEW t \in Requests, req[t].pc # "serve" PROVE t \notin Serving(s)
  BY <1>b DEF Serving
<1> USE DEF Recounts
<1>1. ASSUME NEW t \in Requests, NEW n \in Names, AcquireHit(t, n) PROVE Recounts(s)
  <2>1. PICK r \in ReqType, z \in Queues, q \in StackType :
          /\ req[t].pc = "idle" /\ req' = [req EXCEPT ![t] = r] /\ r.pc = "serve" /\ r.st = z
          /\ stack' = [stack EXCEPT ![z] = q] /\ q.refs = stack[z].refs + 1 /\ q.stage = "live"
    BY <1>1, AcquireHitEffect
  <2>2. t \notin Serving(s)
    BY <1>b, <2>1
  <2>3. Serving(s)' = IF z = s THEN Serving(s) \union {t} ELSE Serving(s) \ {t}
    BY <1>0, <2>1, ServingMoves
  <2> QED BY <1>0, <2>1, <2>2, <2>3
<1>2. ASSUME NEW t \in Requests, NEW n \in Names, AcquireMiss(t, n) PROVE Recounts(s)
  <2>1. PICK r \in ReqType :
          /\ req[t].pc = "idle" /\ req' = [req EXCEPT ![t] = r] /\ r.pc = "open"
          /\ UNCHANGED stack
    BY <1>2, AcquireMissEffect
  <2>2. t \notin Serving(s)
    BY <1>b, <2>1
  <2>3. Serving(s)' = Serving(s) \ {t}
    BY <1>0, <2>1, ServingMoves
  <2> QED BY <1>0, <2>1, <2>2, <2>3
<1>3. ASSUME NEW t \in Requests, Workspace(t) \/ OpenWorkspace(t) \/ Insert(t) PROVE Recounts(s)
  <2>1. GivenUp(t) \/ GotOn(t)
    BY <1>3, WorkspaceEffect, InsertEffect
  <2>2. PICK r : req' = [req EXCEPT ![t] = r] /\ r.pc # "serve" /\ req[t].pc # "serve"
    BY <2>1, NothingOK DEF GivenUp, GotOn
  <2>3. t \notin Serving(s)
    BY <1>b, <2>2
  <2>4. Serving(s)' = Serving(s) \ {t}
    BY <1>0, <2>2, ServingMoves
  <2>5. /\ stack'[s].refs = stack[s].refs
        /\ (stack'[s].stage = stack[s].stage \/ stack'[s].stage = "closing")
    BY <1>0, <2>1 DEF GivenUp, GotOn
  <2> QED BY <1>0, <2>3, <2>4, <2>5
<1>4. ASSUME NEW t \in Requests, Assemble(t) PROVE Recounts(s)
  <2>1. req[t].pc = "assemble"
        /\ \E r : req' = [req EXCEPT ![t] = r] /\ r.pc # "serve"
    BY <1>4, AssembleEffect, NothingOK
  <2>2. t \notin Serving(s)
    BY <1>b, <2>1
  <2>3. Serving(s)' = Serving(s) \ {t}
    BY <1>0, <2>1, ServingMoves
  <2>4. \/ UNCHANGED stack
        \/ \E z \in Queues, q \in StackType :
          /\ stack[z].stage = "none" /\ stack' = [stack EXCEPT ![z] = q]
          /\ q.refs = 0 /\ q.stage = "live"
    BY <1>4, AssembleEffect
  <2> QED BY <1>0, <2>2, <2>3, <2>4
<1>5. ASSUME NEW t \in Requests, Register(t) PROVE Recounts(s)
  <2> DEFINE z == req[t].st
             f == registry[req[t].name]
  <2>1. /\ req[t].pc = "register" /\ z \in Queues /\ stack[z].refs = 0
    BY <1>0, <1>5, RegisterEffect DEF RequestsMatch, HasStack
  <2>2. t \notin Serving(s)
    BY <1>b, <2>1
  <2>3. PICK r \in ReqType, q \in StackType :
          /\ req' = [req EXCEPT ![t] = r] /\ r.pc = "serve"
          /\ \/ \E p \in StackType :
                  /\ f \in Queues /\ r.st = f /\ f # z
                  /\ stack' = [stack EXCEPT ![f] = p, ![z] = q]
                  /\ p.refs = stack[f].refs + 1 /\ p.stage = "live"
                  /\ q.refs = stack[z].refs /\ q.stage = "closing"
             \/ /\ r.st = z /\ stack' = [stack EXCEPT ![z] = q] /\ q.refs = 1
                /\ q.stage = "live"
    BY <1>5, RegisterEffect
  <2>4. Serving(s)' = IF r.st = s THEN Serving(s) \union {t} ELSE Serving(s) \ {t}
    <3>1. req' = [req EXCEPT ![t] = r] /\ r.pc = "serve"
      BY <2>3
    <3> QED BY ONLY <1>0, <3>1, ServingMoves, t \in Requests
  <2> HIDE DEF z, f
  <2>5. CASE r.st = z
    BY <1>0, <2>1, <2>2, <2>3, <2>4, <2>5
  <2>6. CASE r.st # z
    BY <1>0, <2>1, <2>2, <2>3, <2>4, <2>6
  <2> QED BY <2>5, <2>6
<1>6. ASSUME NEW t \in Requests, ReleaseRef(t) PROVE Recounts(s)
  <2> DEFINE z == req[t].st
  <2>1. PICK q \in StackType :
          /\ req[t].pc = "serve" /\ z \in Queues /\ req' = [req EXCEPT ![t] = NoRequest]
          /\ stack' = [stack EXCEPT ![z] = q] /\ q.refs = stack[z].refs - 1
          /\ q.stage = stack[z].stage
    BY <1>6, ReleaseEffect
  <2>2. Serving(s)' = Serving(s) \ {t}
    BY <1>0, <2>1, ServingMoves, NothingOK
  <2>3. t \in Serving(s) <=> s = z
    BY <2>1 DEF Serving
  <2> HIDE DEF z
  <2>4. CASE s = z
    BY <1>0, <2>1, <2>2, <2>3, <2>4
  <2>5. CASE s # z
    BY <1>0, <2>1, <2>2, <2>3, <2>5
  <2> QED BY <2>4, <2>5
<1>7. ASSUME NEW e \in Threads, Hook(e) PROVE Recounts(s)
  BY <1>0, <1>7, <1>a, HookEffect
<1>8. ASSUME NEW z \in Queues, Teardown(z) PROVE Recounts(s)
  BY <1>0, <1>8, <1>a, TeardownEffect
<1>9. ASSUME NEW z \in Queues, Dispose(z) PROVE Recounts(s)
  <2>1. /\ UNCHANGED req /\ stack' = [stack EXCEPT ![z] = NoStack] /\ stack[z].stage = "stopped"
    BY <1>9, DisposeEffect
  <2> QED BY <1>0, <1>a, <2>1, NothingOK
<1>10. ASSUME CloseAll PROVE Recounts(s)
  BY <1>0, <1>10, <1>a, CloseAllEffect
<1>11. ASSUME Idle \/ CloseHandle PROVE Recounts(s)
  BY <1>0, <1>11, <1>a, IdleOrCloseEffect
<1>12. ASSUME Elsewhere PROVE Recounts(s)
  BY <1>0, <1>12, <1>a, ElsewhereEffect
<1> QED
   BY ONLY HostNext, HostSteps, <1>1, <1>2, <1>3, <1>4, <1>5, <1>6, <1>7, <1>8, <1>9, <1>10,
           <1>11, <1>12

LEMMA HostInvInit == HostInit => HostInv
<1> SUFFICES ASSUME HostInit PROVE HostInv
  OBVIOUS
<1> USE DEF HostInit
<1>1. NoEvict \in EvictType /\ NoEvict.stage = "none"
  BY DEF NoEvict, EvictType
<1>2. HostShape
  BY <1>1, NothingOK DEF HostShape
<1>3. Registered
  BY DEF Registered
<1>4. RequestsMatch
  BY NothingOK DEF RequestsMatch, HasStack
<1>5. RefsCount
  <2>1. \A s : Serving(s) = {}
    BY NothingOK DEF Serving
  <2> QED BY <2>1, NothingOK, FS_EmptySet DEF RefsCount
<1> QED BY <1>2, <1>3, <1>4, <1>5 DEF HostInv

LEMMA HostInvStutters == HostInv /\ UNCHANGED serveVars => HostInv'
<1> SUFFICES ASSUME HostInv, UNCHANGED serveVars PROVE HostInv'
  OBVIOUS
<1>1. UNCHANGED <<req, registry, stack, cache, recent, evict>>
  BY DEF serveVars, hostVars
<1>2. \A s : Serving(s)' = Serving(s)
  BY <1>1 DEF Serving
<1>3. HostShape' /\ Registered'
  BY <1>1 DEF HostInv, HostShape, Registered
<1>4. RequestsMatch'
  BY <1>1 DEF HostInv, RequestsMatch, HasStack
<1>5. RefsCount'
  BY <1>1, <1>2 DEF HostInv, RefsCount
<1> QED BY <1>3, <1>4, <1>5 DEF HostInv

LEMMA HostInvHolds == HostSpec => []HostInv
<1>1. HostInv /\ HostNext => HostInv'
  BY HostShapeNext, RegisteredNext, RequestsMatchNext, RefsCountNext DEF HostInv
<1> QED BY <1>1, HostInvInit, HostInvStutters, PTL DEF HostSpec

LEMMA CountedIsUp == HostInv => ServedStackIsUp
<1> SUFFICES ASSUME HostInv, NEW t \in Requests, req[t].pc = "serve"
             PROVE  stack[req[t].st].stage \in {"live", "closing"}
  BY DEF ServedStackIsUp
<1>1. req[t].st \in Queues /\ t \in Serving(req[t].st)
  BY DEF HostInv, RequestsMatch, Serving
<1>2. stack[req[t].st].refs # 0
  BY <1>1, FS_EmptySet DEF HostInv, RefsCount
<1>3. stack[req[t].st] \in StackType
  BY <1>1 DEF HostInv, HostShape
<1> QED BY <1>1, <1>2, <1>3 DEF HostInv, RefsCount, StackType

\* The stack whose services a request uses is not stopped before the request has let go of
\* it, whatever evictions, shutdowns and other requests do meanwhile (release and close in
\* internal/serve/stack.go): no interleaving that the code allows is excluded.
THEOREM ServedStacksAreUp == HostSpec => []ServedStackIsUp
  BY HostInvHolds, CountedIsUp, PTL

-----------------------------------------------------------------------------
(* The order of use: each cached workspace is in it once.                  *)

Listed(q, m) == \E i \in 1..Len(q) : q[i] = m
Once(q) == \A i, j \in 1..Len(q) : q[i] = q[j] => i = j

\* A name that is put last, a first one that is taken away, one that is removed.
LEMMA PutLast ==
  ASSUME NEW q \in Seq(Names), NEW n \in Names, Once(q), ~Listed(q, n)
  PROVE  /\ Once(Append(q, n)) /\ Len(Append(q, n)) = Len(q) + 1
         /\ \A m : Listed(Append(q, n), m) <=> Listed(q, m) \/ m = n
<1>1. /\ Len(q) \in Nat /\ Len(Append(q, n)) = Len(q) + 1
      /\ \A i \in 1..(Len(q) + 1) :
           Append(q, n)[i] = IF i <= Len(q) THEN q[i] ELSE n
  OBVIOUS
<1> DEFINE p == Append(q, n)
<1>2. /\ Len(p) = Len(q) + 1
      /\ \A i \in 1..Len(q) : i \in 1..Len(p) /\ p[i] = q[i]
      /\ Len(p) \in 1..Len(p) /\ p[Len(p)] = n
      /\ \A i \in 1..Len(p) : i = Len(p) \/ i \in 1..Len(q)
  BY <1>1
<1> HIDE DEF p
<1>3. \A i \in 1..Len(q) : q[i] # n
  BY DEF Listed
<1>4. Once(p)
  BY <1>2, <1>3 DEF Once
<1>5. ASSUME NEW m PROVE Listed(p, m) <=> Listed(q, m) \/ m = n
  BY <1>2 DEF Listed
<1> QED BY <1>2, <1>4, <1>5 DEF p

LEMMA TakeFirst ==
  ASSUME NEW q \in Seq(Names), Once(q), Len(q) # 0
  PROVE  /\ Head(q) \in Names /\ Listed(q, Head(q)) /\ Tail(q) \in Seq(Names)
         /\ Once(Tail(q)) /\ Len(Tail(q)) = Len(q) - 1
         /\ \A m : Listed(Tail(q), m) <=> Listed(q, m) /\ m # Head(q)
<1> DEFINE p == Tail(q)
<1>1. /\ Len(q) \in Nat \ {0} /\ Len(p) = Len(q) - 1 /\ Head(q) = q[1] /\ q[1] \in Names
      /\ p \in Seq(Names)
      /\ \A i \in 1..Len(p) : p[i] = q[i + 1]
  OBVIOUS
<1> HIDE DEF p
<1>2. /\ \A i \in 1..Len(p) : i + 1 \in 1..Len(q) /\ i + 1 # 1
      /\ \A i \in 1..Len(q) : i = 1 \/ (i - 1 \in 1..Len(p) /\ p[i - 1] = q[i])
      /\ 1 \in 1..Len(q)
  <2>1. \A i \in 1..Len(q) : i # 1 => i - 1 \in 1..Len(p) /\ (i - 1) + 1 = i
    BY <1>1
  <2> QED BY <1>1, <2>1
<1>3. Once(p)
  <2> SUFFICES ASSUME NEW i \in 1..Len(p), NEW j \in 1..Len(p), p[i] = p[j] PROVE i = j
    BY DEF Once
  <2>1. i + 1 = j + 1
    BY <1>1, <1>2 DEF Once
  <2> QED BY <1>1, <2>1
<1>4. ASSUME NEW m PROVE Listed(p, m) <=> Listed(q, m) /\ m # q[1]
  BY <1>1, <1>2 DEF Listed, Once
<1> QED BY <1>1, <1>2, <1>3, <1>4 DEF p, Listed

LEMMA TakeOut ==
  ASSUME recent \in Seq(Names), Once(recent), NEW n \in Names
  PROVE  /\ Others(n) \in Seq(Names) /\ Once(Others(n))
         /\ Len(Others(n)) = IF Listed(recent, n) THEN Len(recent) - 1 ELSE Len(recent)
         /\ \A m : Listed(Others(n), m) <=> Listed(recent, m) /\ m # n
<1>0. Others(n) \in Seq(Names) /\ Len(recent) \in Nat
  BY OthersType
<1>a. n \in ToSet(recent) <=> Listed(recent, n)
  BY DEF ToSet, Listed
<1>1. CASE ~Listed(recent, n)
  <2>1. Others(n) = recent
    BY <1>1, <1>a DEF Others
  <2> QED BY <1>0, <1>1, <2>1 DEF Listed
<1>2. CASE Listed(recent, n)
  <2> DEFINE k == CHOOSE j \in DOMAIN recent : recent[j] = n
             p == RemoveAt(recent, k)
  <2>1. k \in 1..Len(recent) /\ recent[k] = n /\ Others(n) = p
    BY <1>2, <1>a DEF Listed, Others
  <2> HIDE DEF k
  <2> DEFINE a == SubSeq(recent, 1, k - 1)
             b == SubSeq(recent, k + 1, Len(recent))
  <2>2. p = a \o b
    BY DEF RemoveAt
  <2>3. /\ a \in Seq(Names) /\ b \in Seq(Names)
        /\ Len(a) = k - 1 /\ Len(b) = Len(recent) - k
        /\ \A i \in 1..(k - 1) : a[i] = recent[i]
        /\ \A i \in 1..(Len(recent) - k) : b[i] = recent[k + i]
    <3>1. k \in Int /\ Len(recent) \in Int /\ k >= 1 /\ k <= Len(recent)
      BY <1>0, <2>1
    <3>2. \A i \in 1..(k - 1) : recent[i] \in Names
      BY <3>1
    <3>3. \A i \in (k + 1)..Len(recent) : recent[i] \in Names
      BY <3>1
    <3>4. /\ a \in Seq(Names) /\ Len(a) = k - 1
          /\ \A i \in 1..(k - 1) : a[i] = recent[1 + i - 1]
      BY <3>1, <3>2, SubSeqProperties
    <3>5. /\ b \in Seq(Names) /\ Len(b) = Len(recent) - (k + 1) + 1
          /\ \A i \in 1..(Len(recent) - (k + 1) + 1) : b[i] = recent[(k + 1) + i - 1]
      BY <3>1, <3>3, SubSeqProperties
    <3> HIDE DEF a, b
    <3> QED BY <3>1, <3>4, <3>5
  <2>4. /\ Len(p) = Len(recent) - 1
        /\ \A i \in 1..Len(p) : p[i] = IF i < k THEN recent[i] ELSE recent[i + 1]
    <3> HIDE DEF a, b, p
    <3>1. Len(p) = Len(a) + Len(b)
          /\ \A i \in 1..(Len(a) + Len(b)) : p[i] = IF i <= Len(a) THEN a[i] ELSE b[i - Len(a)]
      BY <2>2, <2>3, ConcatProperties
    <3>2. Len(p) = Len(recent) - 1
      BY <1>0, <2>1, <2>3, <3>1
    <3>3. ASSUME NEW i \in 1..Len(p) PROVE p[i] = IF i < k THEN recent[i] ELSE recent[i + 1]
      <4>1. CASE i < k
        BY <1>0, <2>1, <2>3, <3>1, <3>2, <4>1
      <4>2. CASE ~(i < k)
        <5>1. i - (k - 1) \in 1..(Len(recent) - k) /\ k + (i - (k - 1)) = i + 1 /\ ~(i <= Len(a))
          BY <1>0, <2>1, <2>3, <3>2, <4>2
        <5> QED BY <1>0, <2>1, <2>3, <3>1, <3>2, <4>2, <5>1
      <4> QED BY <4>1, <4>2
    <3> QED BY <3>2, <3>3
  <2> HIDE DEF a, b, p
  <2>5. /\ \A i \in 1..Len(p) : /\ i < k => i \in 1..Len(recent) /\ i # k
                                /\ ~(i < k) => i + 1 \in 1..Len(recent) /\ i + 1 # k
        /\ \A i \in 1..Len(recent) : \/ i = k
                                     \/ i < k /\ i \in 1..Len(p) /\ p[i] = recent[i]
                                     \/ i - 1 \in 1..Len(p) /\ p[i - 1] = recent[i]
    BY <1>0, <2>1, <2>4
  <2>6. Once(p)
    <3> SUFFICES ASSUME NEW i \in 1..Len(p), NEW j \in 1..Len(p), p[i] = p[j] PROVE i = j
      BY DEF Once
    <3>1. PICK u \in 1..Len(recent), v \in 1..Len(recent) :
            /\ u = (IF i < k THEN i ELSE i + 1) /\ v = (IF j < k THEN j ELSE j + 1)
            /\ recent[u] = p[i] /\ recent[v] = p[j]
      BY <2>4, <2>5
    <3>2. u = v
      BY <3>1 DEF Once
    <3> QED BY <1>0, <2>1, <3>1, <3>2
  <2>7. ASSUME NEW m PROVE Listed(p, m) <=> Listed(recent, m) /\ m # n
    <3>1. ASSUME Listed(p, m) PROVE Listed(recent, m) /\ m # n
      BY <2>1, <2>4, <2>5, <3>1 DEF Listed, Once
    <3>2. ASSUME Listed(recent, m), m # n PROVE Listed(p, m)
      BY <2>1, <2>5, <3>2 DEF Listed
    <3> QED BY <3>1, <3>2
  <2> QED BY <1>0, <1>2, <2>1, <2>4, <2>6, <2>7
<1> QED BY <1>1, <1>2

LEMMA MoveLast ==
  ASSUME recent \in Seq(Names), Once(recent), NEW n \in Names
  PROVE  /\ Touched(n) \in Seq(Names) /\ Once(Touched(n))
         /\ Len(Touched(n)) = IF Listed(recent, n) THEN Len(recent) ELSE Len(recent) + 1
         /\ \A m : Listed(Touched(n), m) <=> Listed(recent, m) \/ m = n
<1>1. /\ Others(n) \in Seq(Names) /\ Once(Others(n)) /\ Len(recent) \in Nat
      /\ Len(Others(n)) = (IF Listed(recent, n) THEN Len(recent) - 1 ELSE Len(recent))
      /\ \A m : Listed(Others(n), m) <=> Listed(recent, m) /\ m # n
  BY TakeOut
<1>2. /\ Once(Append(Others(n), n)) /\ Len(Append(Others(n), n)) = Len(Others(n)) + 1
      /\ \A m : Listed(Append(Others(n), n), m) <=> Listed(Others(n), m) \/ m = n
  BY <1>1, PutLast
<1> QED BY <1>1, <1>2, NewestType DEF Touched

-----------------------------------------------------------------------------
(* What each step does to the handles and to those who hold them, said     *)
(* element by element.                                                     *)

Inserting(t)  == req[t].pc \in {"insert", "reinsert"}
Inserts(t, n) == Inserting(t) /\ req[t].name = n
Hooked(e, n)  == evict[e].stage = "hook" /\ evict[e].name = n
Torn(s, n)    == /\ stack[s].name = n /\ stack[s].ws # Nil
                 /\ stack[s].stage \in {"closing", "stopped"}

EngineShape == engine \in [Handles -> [name : Names \union {Nil}, open : BOOLEAN]]

ReqIs(t, pc, n, h, s) ==
  /\ \A u \in Requests : u # t => req'[u] = req[u]
  /\ req'[t].pc = pc /\ req'[t].name = n /\ req'[t].ws = h /\ req'[t].st = s

StackAs(r) == /\ stack'[r].name = stack[r].name /\ stack'[r].ws = stack[r].ws
              /\ stack'[r].stage = stack[r].stage
StackKept == \A r \in Queues : StackAs(r)

StackIs(s, n, h, stage) ==
  /\ \A r \in Queues : r # s => StackAs(r)
  /\ stack'[s].name = n /\ stack'[s].ws = h /\ stack'[s].stage = stage

EvictIs(e, stage, n, h, s) ==
  /\ \A f \in Threads : f # e => evict'[f] = evict[f]
  /\ evict'[e].stage = stage /\ evict'[e].name = n /\ evict'[e].ws = h /\ evict'[e].st = s

EngineIs(h, n, open) ==
  /\ \A g \in Handles : g # h => engine'[g] = engine[g]
  /\ engine'[h].name = n /\ engine'[h].open = open

CacheIs(n, h) == \A m \in Names : cache'[m] = IF m = n THEN h ELSE cache[m]

Server == <<host, mclosed, swept>>

Hits(t, n) ==
  /\ req[t].pc = "idle" /\ registry[n] \in Queues /\ ReqIs(t, "serve", n, Nil, registry[n])
  /\ StackKept
  /\ recent' = IF ~mclosed /\ cache[n] # Nil THEN Touched(n) ELSE recent
  /\ UNCHANGED <<engine, cache, registry, evict, Server>>

Misses(t, n) ==
  /\ req[t].pc = "idle" /\ host = "up" /\ registry[n] = Nil /\ AssemblyFree(n)
  /\ ReqIs(t, "open", n, Nil, Nil) /\ StackKept
  /\ UNCHANGED <<engine, cache, recent, registry, evict, Server>>

\* Manager.Workspace: the handle was cached, is to be opened, was opened, or neither.
Gets(t) ==
  /\ req[t].pc \in {"open", "lock", "reopen", "relock"} /\ cache[req[t].name] # Nil
  /\ ReqIs(t, After(req[t].pc), req[t].name, cache[req[t].name], req[t].st) /\ StackKept
  /\ recent' = Touched(req[t].name)
  /\ UNCHANGED <<engine, cache, registry, evict, Server>>

Seeks(t) ==
  /\ req[t].pc \in {"open", "reopen"} /\ cache[req[t].name] = Nil /\ StackKept
  /\ ReqIs(t, IF req[t].pc = "open" THEN "lock" ELSE "relock", req[t].name, req[t].ws, req[t].st)
  /\ UNCHANGED <<engine, recent, cache, registry, evict, Server>>

Opens(t, h) ==
  /\ req[t].pc \in {"lock", "relock"} /\ ~Locked(req[t].name)
  /\ ~Known(h) /\ EngineIs(h, req[t].name, TRUE) /\ StackKept
  /\ ReqIs(t, IF req[t].pc = "lock" THEN "insert" ELSE "reinsert", req[t].name, h, req[t].st)
  /\ UNCHANGED <<recent, cache, registry, evict, Server>>

GivesUp(t) ==
  /\ ReqIs(t, "idle", Nil, Nil, Nil)
  /\ \/ req[t].st = Nil /\ StackKept
     \/ req[t].st # Nil /\ StackIs(req[t].st, req[t].name, Nil, "closing")

Fails(t) ==
  /\ req[t].pc \in {"open", "lock", "reopen", "relock"} /\ GivesUp(t)
  /\ UNCHANGED <<engine, recent, cache, registry, evict, Server>>

\* put: the manager was closed meanwhile; another's handle is there; there is room; the
\* oldest handle makes room.
Forgoes(t) ==
  /\ Inserting(t) /\ mclosed /\ GivesUp(t) /\ EngineIs(req[t].ws, engine[req[t].ws].name, FALSE)
  /\ UNCHANGED <<recent, cache, registry, evict, Server>>

Onward(pc) == IF pc = "insert" THEN "assemble" ELSE "register"

Joins(t) ==
  /\ Inserting(t) /\ cache[req[t].name] # Nil /\ recent' = Touched(req[t].name) /\ StackKept
  /\ EngineIs(req[t].ws, engine[req[t].ws].name, FALSE)
  /\ ReqIs(t, Onward(req[t].pc), req[t].name, cache[req[t].name], req[t].st)
  /\ UNCHANGED <<cache, registry, evict, Server>>

Puts(t) ==
  /\ Inserting(t) /\ cache[req[t].name] = Nil /\ Len(recent) < MaxOpen
  /\ CacheIs(req[t].name, req[t].ws)
  /\ recent' = Touched(req[t].name) /\ StackKept
  /\ ReqIs(t, Onward(req[t].pc), req[t].name, req[t].ws, req[t].st)
  /\ UNCHANGED <<engine, registry, evict, Server>>

Replaces(t, v) ==
  /\ Inserting(t) /\ cache[req[t].name] = Nil /\ Len(recent) >= MaxOpen /\ v = Head(recent)
  /\ Evictable(v) /\ StackKept
  /\ \A m \in Names : cache'[m] = IF m = req[t].name THEN req[t].ws
                                  ELSE IF m = v THEN Nil ELSE cache[m]
  /\ recent' = Append(Tail(recent), req[t].name)
  /\ EvictIs(t, "hook", v, cache[v], Nil)
  /\ ReqIs(t, Onward(req[t].pc), req[t].name, req[t].ws, req[t].st)
  /\ UNCHANGED <<engine, registry, Server>>

Builds(t, s) ==
  /\ req[t].pc = "assemble" /\ evict[t].stage = "none" /\ stack[s].stage = "none"
  /\ StackIs(s, req[t].name, req[t].ws, "live")
  /\ ReqIs(t, "reopen", req[t].name, req[t].ws, s)
  /\ UNCHANGED <<engine, cache, recent, registry, evict, Server>>

Drops(t) ==
  /\ req[t].pc = "assemble" /\ evict[t].stage = "none" /\ StackKept
  /\ ReqIs(t, "idle", Nil, Nil, Nil)
  /\ UNCHANGED <<engine, cache, recent, registry, evict, Server>>

Adopts(t) ==
  /\ req[t].pc = "register" /\ evict[t].stage = "none" /\ registry[req[t].name] \in Queues
  /\ StackIs(req[t].st, req[t].name, Nil, "closing")
  /\ ReqIs(t, "serve", req[t].name, Nil, registry[req[t].name])
  /\ UNCHANGED <<engine, cache, recent, registry, evict, Server>>

Enters(t) ==
  /\ req[t].pc = "register" /\ evict[t].stage = "none" /\ registry[req[t].name] = Nil
  /\ StackIs(req[t].st, req[t].name, req[t].ws, "live")
  /\ ReqIs(t, "serve", req[t].name, Nil, req[t].st)
  /\ registry' = [registry EXCEPT ![req[t].name] = req[t].st]
  /\ UNCHANGED <<engine, cache, recent, evict, Server>>

Lets(t) ==
  /\ req[t].pc = "serve" /\ ReqIs(t, "idle", Nil, Nil, Nil) /\ StackKept
  /\ UNCHANGED <<engine, cache, recent, registry, evict, Server>>

Detaches(e, n) ==
  /\ e \notin Requests /\ evict[e].stage = "none" /\ cache[n] # Nil /\ Evictable(n)
  /\ CacheIs(n, Nil) /\ recent' = Others(n)
  /\ EvictIs(e, "hook", n, cache[n], Nil)
  /\ UNCHANGED <<engine, registry, stack, req, Server>>

ClosesOnly(e) ==
  /\ evict[e].stage = "hook" /\ registry[evict[e].name] = Nil
  /\ EngineIs(evict[e].ws, engine[evict[e].ws].name, FALSE)
  /\ EvictIs(e, "none", Nil, Nil, Nil)
  /\ UNCHANGED <<cache, recent, registry, stack, req, Server>>

ClosesStack(e, s) ==
  /\ evict[e].stage = "hook" /\ registry[evict[e].name] = s
  /\ StackIs(s, stack[s].name, stack[s].ws, "closing")
  /\ EvictIs(e, "wait", evict[e].name, evict[e].ws, s)
  /\ registry' = [registry EXCEPT ![evict[e].name] = Nil]
  /\ UNCHANGED <<engine, cache, recent, req, Server>>

Halts(s) ==
  /\ stack[s].stage = "closing" /\ StackIs(s, stack[s].name, stack[s].ws, "stopped")
  /\ UNCHANGED <<engine, cache, recent, registry, req, evict, Server>>

Disposes(s) ==
  /\ stack[s].stage = "stopped" /\ StackIs(s, Nil, Nil, "none")
  /\ \/ stack[s].ws = Nil /\ UNCHANGED engine
     \/ stack[s].ws # Nil /\ EngineIs(stack[s].ws, engine[stack[s].ws].name, FALSE)
  /\ \A e \in Threads : IF evict[e].st = s THEN evict'[e] = NoEvict ELSE evict'[e] = evict[e]
  /\ swept' = swept \ {s}
  /\ UNCHANGED <<cache, recent, registry, req, host, mclosed>>

Sweeps ==
  /\ host = "http" /\ host' = "stacks"
  /\ "sweep" \in HostRaces \/ \A e \in Threads : evict[e].stage # "hook"
  /\ \A s \in Queues : s \in swept' <=> \E n \in Names : registry[n] = s
  /\ swept' \subseteq Queues
  /\ \A n \in Names : registry'[n] = Nil
  /\ \A s \in Queues : stack'[s].name = stack[s].name /\ stack'[s].ws = stack[s].ws
  /\ \A s \in Queues : stack'[s].stage = IF s \in swept' THEN "closing" ELSE stack[s].stage
  /\ UNCHANGED <<engine, cache, recent, mclosed, req, evict>>

Rests ==
  /\ UNCHANGED <<engine, cache, recent, registry, stack, req, evict>>
  /\ \/ UNCHANGED Server
     \/ host = "up" /\ host' = "http" /\ UNCHANGED <<mclosed, swept>>
     \/ host = "stacks" /\ swept = {} /\ host' = "manager" /\ mclosed' = TRUE /\ UNCHANGED swept

-----------------------------------------------------------------------------
(* Who holds a handle, and when.                                           *)

WithHandle == {"insert", "assemble", "reopen", "relock", "reinsert", "register"}

HoldersInv ==
  /\ EngineShape
  /\ \A t \in Requests :
       /\ req[t].pc \in WithHandle => req[t].ws \in Handles
       /\ req[t].pc \notin WithHandle => req[t].ws = Nil
       /\ evict[t].stage # "none" => req[t].pc \in {"assemble", "register"}
  /\ \A e \in Threads :
       /\ evict[e].stage = "none" => evict[e].ws = Nil
       /\ evict[e].stage # "wait" => evict[e].st = Nil
       /\ evict[e].stage = "hook" => evict[e].ws \in Handles
       /\ evict[e].stage # "none" => evict[e].name \in Names
  /\ \A s \in Queues :
       /\ stack[s].stage = "none" => stack[s].ws = Nil
       /\ stack[s].stage # "none" => stack[s].name \in Names

LEMMA Records ==
  ASSUME HostInv
  PROVE  /\ \A t \in Requests : req[t] \in ReqType
         /\ \A s \in Queues : stack[s] \in StackType
         /\ \A e \in Threads : evict[e] \in EvictType
  BY DEF HostInv, HostShape

LEMMA ReqSets ==
  ASSUME HostInv, NEW t \in Requests, NEW r, req' = [req EXCEPT ![t] = r]
  PROVE  ReqIs(t, r.pc, r.name, r.ws, r.st)
  BY DEF HostInv, HostShape, ReqIs

LEMMA StackSets ==
  ASSUME HostInv, NEW s \in Queues, NEW q, stack' = [stack EXCEPT ![s] = q]
  PROVE  StackIs(s, q.name, q.ws, q.stage)
  BY DEF HostInv, HostShape, StackIs, StackAs

LEMMA EvictSets ==
  ASSUME HostInv, NEW e \in Threads, NEW x, evict' = [evict EXCEPT ![e] = x]
  PROVE  EvictIs(e, x.stage, x.name, x.ws, x.st)
  BY DEF HostInv, HostShape, EvictIs

LEMMA EngineSets ==
  ASSUME HoldersInv, NEW h \in Handles, engine' = [engine EXCEPT ![h].open = FALSE]
  PROVE  EngineIs(h, engine[h].name, FALSE)
  BY DEF HoldersInv, EngineShape, EngineIs

LEMMA NothingHeld ==
  /\ NoRequest.pc = "idle" /\ NoRequest.name = Nil /\ NoRequest.ws = Nil /\ NoRequest.st = Nil
  /\ NoStack.stage = "none" /\ NoStack.name = Nil /\ NoStack.ws = Nil
  /\ NoEvict.stage = "none" /\ NoEvict.name = Nil /\ NoEvict.ws = Nil /\ NoEvict.st = Nil
  BY DEF NoRequest, NoStack, NoEvict

LEMMA HitsSteps ==
  ASSUME HostInv, NEW t \in Requests, NEW n \in Names, AcquireHit(t, n) PROVE Hits(t, n)
<1> DEFINE s == registry[n]
           r == [pc |-> "serve", name |-> n, ws |-> Nil, st |-> s]
           q == [stack[s] EXCEPT !.refs = @ + 1]
<1>1. /\ req[t].pc = "idle" /\ s # Nil /\ req' = [req EXCEPT ![t] = r]
      /\ stack' = [stack EXCEPT ![s].refs = @ + 1]
      /\ recent' = (IF ~mclosed /\ cache[n] # Nil THEN Touched(n) ELSE recent)
      /\ UNCHANGED <<engine, cache, registry, evict, Server>>
  BY DEF AcquireHit, Server
<1>2. s \in Queues
  BY <1>1 DEF HostInv, HostShape
<1>3. stack' = [stack EXCEPT ![s] = q] /\ stack[s] \in StackType
  BY <1>1, <1>2 DEF HostInv, HostShape
<1>4. q.name = stack[s].name /\ q.ws = stack[s].ws /\ q.stage = stack[s].stage
  BY <1>3 DEF StackType
<1>5. ReqIs(t, "serve", n, Nil, s)
  <2>1. r.pc = "serve" /\ r.name = n /\ r.ws = Nil /\ r.st = s
    OBVIOUS
  <2> HIDE DEF r
  <2> QED BY <1>1, <2>1, ReqSets
<1>6. StackKept
  <2> HIDE DEF q
  <2> QED BY <1>2, <1>3, <1>4, StackSets DEF StackIs, StackKept, StackAs
<1> QED BY <1>1, <1>2, <1>5, <1>6 DEF Hits

LEMMA MissesSteps ==
  ASSUME HostInv, NEW t \in Requests, NEW n \in Names, AcquireMiss(t, n) PROVE Misses(t, n)
<1> DEFINE r == [pc |-> "open", name |-> n, ws |-> Nil, st |-> Nil]
<1>1. /\ req' = [req EXCEPT ![t] = r] /\ r.pc = "open" /\ r.name = n /\ r.ws = Nil /\ r.st = Nil
  BY DEF AcquireMiss
<1> HIDE DEF r
<1>2. ReqIs(t, "open", n, Nil, Nil)
  BY <1>1, ReqSets
<1> QED BY <1>2 DEF AcquireMiss, Misses, StackKept, StackAs, Server

LEMMA AbandonSteps ==
  ASSUME HostInv, NEW t \in Requests, Abandon(t),
         req[t].pc \in {"open", "lock", "insert", "reopen", "relock", "reinsert"}
  PROVE  GivesUp(t)
<1> DEFINE s == req[t].st
           q == [stack[s] EXCEPT !.ws = Nil, !.stage = "closing"]
<1>1. ReqIs(t, "idle", Nil, Nil, Nil)
  <2>1. req' = [req EXCEPT ![t] = NoRequest]
    BY DEF Abandon
  <2>2. ReqIs(t, NoRequest.pc, NoRequest.name, NoRequest.ws, NoRequest.st)
    BY <2>1, ReqSets
  <2> QED BY <2>2, NothingHeld
<1>2. CASE s = Nil
  BY <1>1, <1>2 DEF Abandon, GivesUp, StackKept, StackAs
<1>3. CASE s # Nil
  <2>1. s \in Queues /\ stack[s].name = req[t].name
    BY <1>3 DEF HostInv, RequestsMatch, HasStack
  <2>2. stack[s] \in StackType /\ stack' = [stack EXCEPT ![s] = q]
    BY <1>3, <2>1 DEF Abandon, HostInv, HostShape
  <2>3. q.name = req[t].name /\ q.ws = Nil /\ q.stage = "closing"
    BY <2>1, <2>2 DEF StackType
  <2>4. StackIs(s, req[t].name, Nil, "closing")
    <3> HIDE DEF q
    <3> QED BY <2>1, <2>2, <2>3, StackSets
  <2> QED BY <1>1, <1>3, <2>4 DEF GivesUp
<1> QED BY <1>2, <1>3

\* A request goes on with a handle.
LEMMA GoesOn ==
  ASSUME HostInv, NEW t \in Requests, NEW pc, NEW h,
         req' = [req EXCEPT ![t].pc = pc, ![t].ws = h]
  PROVE  ReqIs(t, pc, req[t].name, h, req[t].st)
<1> DEFINE r == [req[t] EXCEPT !.pc = pc, !.ws = h]
<1>1. req[t] \in ReqType /\ req' = [req EXCEPT ![t] = r]
  BY DEF HostInv, HostShape
<1>2. r.pc = pc /\ r.name = req[t].name /\ r.ws = h /\ r.st = req[t].st
  BY <1>1 DEF ReqType
<1> HIDE DEF r
<1> QED BY <1>1, <1>2, ReqSets

LEMMA WorkspaceSteps ==
  ASSUME HostInv, HoldersInv, NEW t \in Requests, Workspace(t) \/ OpenWorkspace(t)
  PROVE  Gets(t) \/ Seeks(t) \/ (\E h \in Handles : Opens(t, h)) \/ Fails(t)
<1> DEFINE n == req[t].name
<1>0. /\ req[t].pc \in {"open", "lock", "reopen", "relock"} /\ n \in Names
      /\ UNCHANGED <<cache, registry, evict, Server>> /\ req[t] \in ReqType
  BY DEF Workspace, OpenWorkspace, HostInv, RequestsMatch, HostShape, Server
<1>1. CASE /\ cache[n] # Nil
           /\ req' = [req EXCEPT ![t].pc = After(@), ![t].ws = cache[n]]
           /\ recent' = Touched(n) /\ UNCHANGED <<engine, stack>>
  <2>1. req' = [req EXCEPT ![t].pc = After(req[t].pc), ![t].ws = cache[n]]
    BY <1>1 DEF HostInv, HostShape
  <2>2. ReqIs(t, After(req[t].pc), req[t].name, cache[n], req[t].st)
    BY <2>1, GoesOn
  <2> QED BY <1>0, <1>1, <2>2 DEF Gets, StackKept, StackAs
<1>2. CASE /\ req[t].pc \in {"open", "reopen"} /\ cache[n] = Nil
           /\ req' = [req EXCEPT ![t].pc = IF @ = "open" THEN "lock" ELSE "relock"]
           /\ UNCHANGED <<engine, recent, stack>>
  <2> DEFINE pc == IF req[t].pc = "open" THEN "lock" ELSE "relock"
  <2>1. req' = [req EXCEPT ![t].pc = pc, ![t].ws = req[t].ws]
    BY <1>0, <1>2 DEF HostInv, HostShape, ReqType
  <2>2. ReqIs(t, pc, req[t].name, req[t].ws, req[t].st)
    <3> HIDE DEF pc
    <3> QED BY <2>1, GoesOn
  <2> QED BY <1>0, <1>2, <2>2 DEF Seeks, StackKept, StackAs
<1>3. CASE /\ req[t].pc \in {"lock", "relock"} /\ ~Locked(n)
           /\ \E h \in Handles :
                /\ ~Known(h) /\ ~engine[h].open
                /\ engine' = [engine EXCEPT ![h] = [name |-> n, open |-> TRUE]]
                /\ req' = [req EXCEPT ![t].pc = IF @ = "lock" THEN "insert" ELSE "reinsert",
                                      ![t].ws = h]
           /\ UNCHANGED <<recent, stack>>
  <2>1. PICK h \in Handles :
          /\ ~Known(h) /\ engine' = [engine EXCEPT ![h] = [name |-> n, open |-> TRUE]]
          /\ req' = [req EXCEPT ![t].pc = IF req[t].pc = "lock" THEN "insert" ELSE "reinsert",
                                ![t].ws = h]
    BY <1>3 DEF HostInv, HostShape
  <2>2. ReqIs(t, IF req[t].pc = "lock" THEN "insert" ELSE "reinsert", req[t].name, h, req[t].st)
    BY <2>1, GoesOn
  <2>3. EngineIs(h, n, TRUE)
    BY <2>1 DEF EngineIs, HoldersInv, EngineShape
  <2>4. Opens(t, h)
    BY <1>0, <1>3, <2>1, <2>2, <2>3 DEF Opens, StackKept, StackAs
  <2> QED BY <2>4
<1>4. CASE Abandon(t) /\ UNCHANGED <<engine, recent>>
  BY <1>0, <1>4, AbandonSteps DEF Fails
<1> QED BY <1>0, <1>1, <1>2, <1>3, <1>4 DEF Workspace, OpenWorkspace

LEMMA InsertSteps ==
  ASSUME HostInv, HoldersInv, NEW t \in Requests, Insert(t)
  PROVE  Forgoes(t) \/ Joins(t) \/ Puts(t) \/ \E v \in Names : Replaces(t, v)
<1> DEFINE n == req[t].name
           h == req[t].ws
           next == IF req[t].pc = "insert" THEN "assemble" ELSE "register"
<1>0. /\ req[t].pc \in {"insert", "reinsert"} /\ n \in Names /\ h \in Handles
      /\ UNCHANGED <<registry, Server>>
  BY DEF Insert, HostInv, RequestsMatch, Server, HoldersInv, WithHandle
<1>1. CASE mclosed /\ engine' = [engine EXCEPT ![h].open = FALSE] /\ Abandon(t)
           /\ UNCHANGED <<cache, recent, evict>>
  BY <1>0, <1>1, AbandonSteps, EngineSets DEF Forgoes, Inserting
<1>2. ASSUME req' = [req EXCEPT ![t].pc = next] PROVE ReqIs(t, Onward(req[t].pc), n, h, req[t].st)
  <2>1. req' = [req EXCEPT ![t].pc = next, ![t].ws = h]
    BY <1>2, Records DEF HostInv, HostShape, ReqType
  <2> HIDE DEF next
  <2> QED BY <1>0, <2>1, GoesOn DEF next, Onward
<1>3. CASE /\ ~mclosed /\ cache[n] = Nil /\ Len(recent) < MaxOpen
           /\ cache' = [cache EXCEPT ![n] = h] /\ recent' = Touched(n)
           /\ req' = [req EXCEPT ![t].pc = next]
           /\ UNCHANGED <<engine, stack, evict>>
  <2>1. CacheIs(n, h) /\ StackKept
    BY <1>0, <1>3 DEF CacheIs, HostInv, HostShape, StackKept, StackAs
  <2> QED BY <1>0, <1>2, <1>3, <2>1 DEF Puts, Inserting
<1>4. CASE /\ ~mclosed /\ cache[n] = Nil /\ Len(recent) >= MaxOpen
           /\ LET v == Head(recent) IN
                /\ Evictable(v)
                /\ cache' = [cache EXCEPT ![v] = Nil, ![n] = h]
                /\ recent' = Append(Tail(recent), n)
                /\ evict' = [evict EXCEPT ![t] =
                               [stage |-> "hook", name |-> v, ws |-> cache[v], st |-> Nil]]
           /\ req' = [req EXCEPT ![t].pc = next]
           /\ UNCHANGED <<engine, stack>>
  <2> DEFINE v == Head(recent)
             x == [stage |-> "hook", name |-> v, ws |-> cache[v], st |-> Nil]
  <2>1. x.stage = "hook" /\ x.name = v /\ x.ws = cache[v] /\ x.st = Nil
    OBVIOUS
  <2>2. evict' = [evict EXCEPT ![t] = x] /\ t \in Threads
    BY <1>4 DEF Threads
  <2>3. EvictIs(t, "hook", v, cache[v], Nil)
    <3> HIDE DEF x
    <3> QED BY <2>1, <2>2, EvictSets
  <2>4. \A m \in Names : cache'[m] = IF m = n THEN h ELSE IF m = v THEN Nil ELSE cache[m]
    BY <1>4 DEF HostInv, HostShape
  <2>5. ReqIs(t, Onward(req[t].pc), n, h, req[t].st)
    BY <1>2, <1>4
  <2>6. v \in Names
    <3>1. recent \in Seq(Names) /\ recent # <<>>
      BY <1>4, HostAssumption DEF HostInv, HostShape
    <3> QED BY <3>1
  <2> HIDE DEF next
  <2> QED BY <1>0, <1>4, <2>3, <2>4, <2>5, <2>6 DEF Replaces, Inserting, StackKept, StackAs
<1>5. CASE /\ ~mclosed /\ cache[n] # Nil
           /\ engine' = [engine EXCEPT ![h].open = FALSE]
           /\ req' = [req EXCEPT ![t].pc = next, ![t].ws = cache[n]]
           /\ recent' = Touched(n)
           /\ UNCHANGED <<stack, cache, evict>>
  <2>1. next = Onward(req[t].pc)
    BY DEF Onward
  <2> HIDE DEF next
  <2>2. ReqIs(t, Onward(req[t].pc), n, cache[n], req[t].st)
    BY <1>5, <2>1, GoesOn
  <2> QED BY <1>0, <1>5, <2>2, EngineSets DEF Joins, Inserting, StackKept, StackAs
<1> HIDE DEF next
<1> QED BY <1>1, <1>3, <1>4, <1>5 DEF Insert, next

LEMMA AssembleSteps ==
  ASSUME HostInv, NEW t \in Requests, Assemble(t)
  PROVE  (\E s \in Queues : Builds(t, s)) \/ Drops(t)
<1>0. /\ req[t].pc = "assemble" /\ evict[t].stage = "none"
      /\ UNCHANGED <<engine, cache, recent, registry, evict, Server>> /\ req[t] \in ReqType
  BY Records DEF Assemble, Server
<1>1. PICK s \in Queues :
        /\ stack[s].stage = "none"
        /\ \/ /\ stack' = [stack EXCEPT ![s] = [name |-> req[t].name, ws |-> req[t].ws,
                                                refs |-> 0, stage |-> "live"]]
              /\ req' = [req EXCEPT ![t].pc = "reopen", ![t].st = s]
           \/ /\ req' = [req EXCEPT ![t] = NoRequest]
              /\ UNCHANGED stack
  BY DEF Assemble, Unused
<1>2. CASE /\ stack' = [stack EXCEPT ![s] = [name |-> req[t].name, ws |-> req[t].ws,
                                             refs |-> 0, stage |-> "live"]]
           /\ req' = [req EXCEPT ![t].pc = "reopen", ![t].st = s]
  <2> DEFINE r == [req[t] EXCEPT !.pc = "reopen", !.st = s]
             q == [name |-> req[t].name, ws |-> req[t].ws, refs |-> 0, stage |-> "live"]
  <2>1. r.pc = "reopen" /\ r.name = req[t].name /\ r.ws = req[t].ws /\ r.st = s
    BY <1>0 DEF ReqType
  <2>2. q.name = req[t].name /\ q.ws = req[t].ws /\ q.stage = "live"
    OBVIOUS
  <2>3. req' = [req EXCEPT ![t] = r] /\ stack' = [stack EXCEPT ![s] = q]
    BY <1>2 DEF HostInv, HostShape
  <2> HIDE DEF r, q
  <2>4. ReqIs(t, "reopen", req[t].name, req[t].ws, s)
    BY <2>1, <2>3, ReqSets
  <2>5. StackIs(s, req[t].name, req[t].ws, "live")
    BY <2>2, <2>3, StackSets
  <2> QED BY <1>0, <1>1, <2>4, <2>5 DEF Builds
<1>3. CASE req' = [req EXCEPT ![t] = NoRequest] /\ UNCHANGED stack
  <2>1. ReqIs(t, NoRequest.pc, NoRequest.name, NoRequest.ws, NoRequest.st)
    BY <1>3, ReqSets
  <2> QED BY <1>0, <1>3, <2>1, NothingHeld DEF Drops, StackKept, StackAs
<1> QED BY <1>1, <1>2, <1>3

LEMMA RegisterSteps ==
  ASSUME HostInv, NEW t \in Requests, Register(t) PROVE Adopts(t) \/ Enters(t)
<1> DEFINE n == req[t].name
           s == req[t].st
           f == registry[n]
<1>0. /\ req[t].pc = "register" /\ evict[t].stage = "none"
      /\ UNCHANGED <<engine, cache, recent, evict, Server>> /\ req[t] \in ReqType
  BY Records DEF Register, Server
<1>1. /\ n \in Names /\ s \in Queues /\ f # s /\ stack[s] \in StackType /\ s # Nil
      /\ stack[s].name = n /\ stack[s].stage = "live" /\ f \in Queues \union {Nil}
  BY <1>0, HostAssumption DEF HostInv, HostShape, RequestsMatch, HasStack
<1>2. CASE f # Nil
  <2> DEFINE r == [req[t] EXCEPT !.pc = "serve", !.ws = Nil, !.st = f]
             p == [stack[f] EXCEPT !.refs = @ + 1]
             q == [stack[s] EXCEPT !.ws = Nil, !.stage = "closing"]
  <2>1. f \in Queues /\ stack[f].stage = "live" /\ stack[f] \in StackType
    BY <1>1, <1>2 DEF HostInv, HostShape, Registered
  <2>2. /\ stack' = [stack EXCEPT ![f].refs = @ + 1, ![s].ws = Nil, ![s].stage = "closing"]
        /\ req' = [req EXCEPT ![t].pc = "serve", ![t].ws = Nil, ![t].st = f]
        /\ UNCHANGED registry
    BY <1>2, <2>1 DEF Register
  <2>3. /\ stack' = [stack EXCEPT ![f] = p, ![s] = q] /\ req' = [req EXCEPT ![t] = r]
    BY <1>1, <2>1, <2>2 DEF HostInv, HostShape
  <2>4. /\ p.name = stack[f].name /\ p.ws = stack[f].ws /\ p.stage = stack[f].stage
        /\ q.name = n /\ q.ws = Nil /\ q.stage = "closing"
        /\ r.pc = "serve" /\ r.name = n /\ r.ws = Nil /\ r.st = f
    BY <1>0, <1>1, <2>1 DEF StackType, ReqType
  <2> HIDE DEF p, q, r
  <2>5. ReqIs(t, "serve", n, Nil, f)
    BY <2>3, <2>4, ReqSets
  <2>6. StackIs(s, n, Nil, "closing")
    BY <1>1, <2>1, <2>3, <2>4 DEF StackIs, StackAs, HostInv, HostShape
  <2> QED BY <1>0, <2>1, <2>2, <2>5, <2>6 DEF Adopts
<1>3. CASE f = Nil
  <2> DEFINE r == [req[t] EXCEPT !.pc = "serve", !.ws = Nil]
             q == [stack[s] EXCEPT !.ws = req[t].ws, !.refs = 1]
  <2>1. /\ stack' = [stack EXCEPT ![s].ws = req[t].ws, ![s].refs = 1]
        /\ registry' = [registry EXCEPT ![n] = s]
        /\ req' = [req EXCEPT ![t].pc = "serve", ![t].ws = Nil]
    BY <1>3 DEF Register
  <2>2. stack' = [stack EXCEPT ![s] = q] /\ req' = [req EXCEPT ![t] = r]
    BY <2>1 DEF HostInv, HostShape
  <2>3. /\ q.name = n /\ q.ws = req[t].ws /\ q.stage = "live"
        /\ r.pc = "serve" /\ r.name = n /\ r.ws = Nil /\ r.st = s
    BY <1>0, <1>1 DEF StackType, ReqType
  <2> HIDE DEF q, r
  <2>4. ReqIs(t, "serve", n, Nil, s)
    BY <2>2, <2>3, ReqSets
  <2>5. StackIs(s, n, req[t].ws, "live")
    BY <1>1, <2>2, <2>3, StackSets
  <2> QED BY <1>0, <1>3, <2>1, <2>4, <2>5 DEF Enters
<1> QED BY <1>2, <1>3

LEMMA ReleaseSteps ==
  ASSUME HostInv, NEW t \in Requests, ReleaseRef(t) PROVE Lets(t)
<1> DEFINE s == req[t].st
           q == [stack[s] EXCEPT !.refs = @ - 1]
<1>1. /\ UNCHANGED <<engine, cache, recent, registry, evict, Server>> /\ req[t].pc = "serve"
      /\ req' = [req EXCEPT ![t] = NoRequest]
  BY DEF ReleaseRef, Server
<1>2. s \in Queues /\ stack[s] \in StackType
  BY <1>1 DEF HostInv, HostShape, RequestsMatch
<1>3. q.name = stack[s].name /\ q.ws = stack[s].ws /\ q.stage = stack[s].stage
  BY <1>2 DEF StackType
<1>4. stack' = [stack EXCEPT ![s] = q]
  BY <1>2 DEF ReleaseRef, HostInv, HostShape
<1> HIDE DEF q
<1>5. ReqIs(t, NoRequest.pc, NoRequest.name, NoRequest.ws, NoRequest.st)
  BY <1>1, ReqSets
<1>6. StackKept
  BY <1>2, <1>3, <1>4, StackSets DEF StackIs, StackKept, StackAs
<1> QED BY <1>1, <1>5, <1>6, NothingHeld DEF Lets

LEMMA HookMoves ==
  ASSUME HostInv, HoldersInv, NEW e \in Threads, Hook(e)
  PROVE  ClosesOnly(e) \/ \E s \in Queues : ClosesStack(e, s)
<1> DEFINE n == evict[e].name
           s == registry[n]
           h == evict[e].ws
<1>1. /\ evict[e].stage = "hook" /\ n \in Names /\ h \in Handles
      /\ UNCHANGED <<cache, recent, req, Server>>
      /\ registry' = [registry EXCEPT ![n] = Nil] /\ evict[e] \in EvictType
  BY Records DEF Hook, HoldersInv, Server
<1>2. CASE s = Nil
  <2>1. /\ evict' = [evict EXCEPT ![e] = NoEvict] /\ UNCHANGED stack
        /\ engine' = [engine EXCEPT ![h].open = FALSE]
    BY <1>2 DEF Hook
  <2>2. EvictIs(e, NoEvict.stage, NoEvict.name, NoEvict.ws, NoEvict.st)
    BY <2>1, EvictSets
  <2>3. UNCHANGED registry
    BY <1>1, <1>2 DEF HostInv, HostShape
  <2> QED BY <1>1, <1>2, <2>1, <2>2, <2>3, NothingHeld, EngineSets DEF ClosesOnly
<1>3. CASE s # Nil
  <2> DEFINE q == [stack[s] EXCEPT !.stage = "closing"]
             x == [evict[e] EXCEPT !.stage = "wait", !.st = s]
  <2>1. s \in Queues /\ stack[s] \in StackType
    BY <1>1, <1>3 DEF HostInv, HostShape
  <2>2. /\ stack' = [stack EXCEPT ![s] = q] /\ evict' = [evict EXCEPT ![e] = x]
        /\ UNCHANGED engine
    BY <1>3, <2>1 DEF Hook, HostInv, HostShape
  <2>3. /\ q.name = stack[s].name /\ q.ws = stack[s].ws /\ q.stage = "closing"
        /\ x.stage = "wait" /\ x.name = n /\ x.ws = h /\ x.st = s
    BY <1>1, <2>1 DEF StackType, EvictType
  <2> HIDE DEF q, x
  <2>4. EvictIs(e, "wait", n, h, s)
    BY <2>2, <2>3, EvictSets
  <2>5. StackIs(s, stack[s].name, stack[s].ws, "closing")
    BY <2>1, <2>2, <2>3, StackSets
  <2> QED BY <1>1, <1>3, <2>1, <2>2, <2>4, <2>5 DEF ClosesStack
<1> QED BY <1>2, <1>3

LEMMA TeardownSteps ==
  ASSUME HostInv, NEW s \in Queues, Teardown(s) PROVE Halts(s)
<1> DEFINE q == [stack[s] EXCEPT !.stage = "stopped"]
<1>1. /\ UNCHANGED <<engine, cache, recent, registry, req, evict, Server>>
      /\ stack[s] \in StackType /\ stack[s].stage = "closing"
      /\ stack' = [stack EXCEPT ![s] = q]
  BY DEF Teardown, HostInv, HostShape, Server
<1>2. q.name = stack[s].name /\ q.ws = stack[s].ws /\ q.stage = "stopped"
  BY <1>1 DEF StackType
<1> HIDE DEF q
<1> QED BY <1>1, <1>2, StackSets DEF Halts

LEMMA DisposeSteps ==
  ASSUME HostInv, HoldersInv, NEW s \in Queues, Dispose(s) PROVE Disposes(s)
<1>1. /\ stack[s].stage = "stopped" /\ stack' = [stack EXCEPT ![s] = NoStack]
      /\ swept' = swept \ {s} /\ UNCHANGED <<cache, recent, registry, req, host, mclosed>>
      /\ stack[s].ws \in Handles \union {Nil}
  BY DEF Dispose, HostInv, HostShape, StackType
<1>2. StackIs(s, NoStack.name, NoStack.ws, NoStack.stage)
  BY <1>1, StackSets
<1>3. \A e \in Threads : IF evict[e].st = s THEN evict'[e] = NoEvict ELSE evict'[e] = evict[e]
  BY DEF Dispose
<1>4. \/ stack[s].ws = Nil /\ UNCHANGED engine
      \/ stack[s].ws # Nil /\ EngineIs(stack[s].ws, engine[stack[s].ws].name, FALSE)
  BY <1>1, EngineSets DEF Dispose
<1> QED BY <1>1, <1>2, <1>3, <1>4, NothingHeld DEF Disposes

LEMMA SweepSteps == ASSUME HostInv, CloseAll PROVE Sweeps
<1> DEFINE all == {registry[n] : n \in Names} \ {Nil}
<1>1. /\ UNCHANGED <<engine, cache, recent, mclosed, req, evict>>
      /\ registry' = [n \in Names |-> Nil] /\ swept' = all
      /\ stack' = [s \in Queues |-> IF s \in all THEN [stack[s] EXCEPT !.stage = "closing"]
                                    ELSE stack[s]]
  BY DEF CloseAll
<1>2. \A s \in Queues : s \in all <=> \E n \in Names : registry[n] = s
  BY HostAssumption
<1>3. all \subseteq Queues
  BY DEF HostInv, HostShape
<1>4. ASSUME NEW s \in Queues
      PROVE  /\ stack'[s].name = stack[s].name /\ stack'[s].ws = stack[s].ws
             /\ stack'[s].stage = IF s \in all THEN "closing" ELSE stack[s].stage
  <2>1. stack[s] \in StackType
    BY DEF HostInv, HostShape
  <2>2. stack'[s] = IF s \in all THEN [stack[s] EXCEPT !.stage = "closing"] ELSE stack[s]
    BY <1>1
  <2> QED BY <2>1, <2>2 DEF StackType
<1> HIDE DEF all
<1> QED BY <1>1, <1>2, <1>3, <1>4 DEF Sweeps, CloseAll

LEMMA DetachSteps ==
  ASSUME HostInv, Idle \/ CloseHandle
  PROVE  \E e \in Threads, n \in Names : Detaches(e, n)
<1>1. PICK n \in Names, e \in {"idle", "root"} :
        /\ cache[n] # Nil /\ evict[e].stage = "none" /\ Evictable(n)
        /\ cache' = [cache EXCEPT ![n] = Nil] /\ recent' = Others(n)
        /\ evict' = [evict EXCEPT ![e] =
                       [stage |-> "hook", name |-> n, ws |-> cache[n], st |-> Nil]]
  BY DEF Idle, CloseHandle
<1> DEFINE x == [stage |-> "hook", name |-> n, ws |-> cache[n], st |-> Nil]
<1>2. /\ x.stage = "hook" /\ x.name = n /\ x.ws = cache[n] /\ x.st = Nil
      /\ evict' = [evict EXCEPT ![e] = x] /\ e \in Threads /\ e \notin Requests
  BY <1>1, HostAssumption DEF Threads
<1> HIDE DEF x
<1>3. EvictIs(e, "hook", n, cache[n], Nil)
  BY <1>2, EvictSets
<1>4. CacheIs(n, Nil)
  BY <1>1 DEF CacheIs, HostInv, HostShape
<1>5. UNCHANGED <<engine, registry, stack, req, Server>>
  BY DEF Idle, CloseHandle, Server
<1> QED BY <1>1, <1>2, <1>3, <1>4, <1>5 DEF Detaches

LEMMA RestSteps == Elsewhere => Rests
  BY DEF Elsewhere, Serve, StopQueue, Signal, CloseManager, hostVars, Rests, Server

\* A step of the server, case by case, as the invariants below see it.
LEMMA HolderSteps ==
  ASSUME HostInv, HoldersInv, HostNext, NEW G,
         \A t \in Requests, n \in Names : Hits(t, n) => G,
         \A t \in Requests, n \in Names : Misses(t, n) => G,
         \A t \in Requests : Gets(t) => G,
         \A t \in Requests : Seeks(t) => G,
         \A t \in Requests, h \in Handles : Opens(t, h) => G,
         \A t \in Requests : Fails(t) => G,
         \A t \in Requests : Forgoes(t) => G,
         \A t \in Requests : Joins(t) => G,
         \A t \in Requests : Puts(t) => G,
         \A t \in Requests, v \in Names : Replaces(t, v) => G,
         \A t \in Requests, s \in Queues : Builds(t, s) => G,
         \A t \in Requests : Drops(t) => G,
         \A t \in Requests : Adopts(t) => G,
         \A t \in Requests : Enters(t) => G,
         \A t \in Requests : Lets(t) => G,
         \A e \in Threads, n \in Names : Detaches(e, n) => G,
         \A e \in Threads : ClosesOnly(e) => G,
         \A e \in Threads, s \in Queues : ClosesStack(e, s) => G,
         \A s \in Queues : Halts(s) => G,
         \A s \in Queues : Disposes(s) => G,
         Sweeps => G, Rests => G
  PROVE  G
<1>1. \A t \in Requests, n \in Names : AcquireHit(t, n) => G
  BY HitsSteps
<1>2. \A t \in Requests, n \in Names : AcquireMiss(t, n) => G
  BY MissesSteps
<1>3. \A t \in Requests : Workspace(t) \/ OpenWorkspace(t) \/ Insert(t) => G
  BY WorkspaceSteps, InsertSteps
<1>4. \A t \in Requests : Assemble(t) => G
  BY AssembleSteps
<1>5. \A t \in Requests : Register(t) => G
  BY RegisterSteps
<1>6. \A t \in Requests : ReleaseRef(t) => G
  BY ReleaseSteps
<1>7. \A e \in Threads : Hook(e) => G
  BY HookMoves
<1>8. \A s \in Queues : Teardown(s) => G
  BY TeardownSteps
<1>9. \A s \in Queues : Dispose(s) => G
  BY DisposeSteps
<1>10. CloseAll => G
  BY SweepSteps
<1>11. Idle \/ CloseHandle => G
  BY DetachSteps
<1>12. Elsewhere => G
  BY RestSteps
<1> QED BY ONLY HostNext, HostSteps, <1>1, <1>2, <1>3, <1>4, <1>5, <1>6, <1>7, <1>8, <1>9,
              <1>10, <1>11, <1>12

-----------------------------------------------------------------------------
(* The manager's order of use follows its cache, whoever refers to a handle  *)
(* means the workspace it was opened for, and a handle that is on its way    *)
(* into the cache is known to one request only.                              *)

CacheFollows ==
  /\ Once(recent) /\ Len(recent) <= MaxOpen
  /\ \A n \in Names : cache[n] # Nil <=> Listed(recent, n)

Named ==
  /\ \A n \in Names : cache[n] # Nil => engine[cache[n]].name = n
  /\ \A t \in Requests : req[t].ws # Nil => engine[req[t].ws].name = req[t].name
  /\ \A e \in Threads : evict[e].ws # Nil => engine[evict[e].ws].name = evict[e].name
  /\ \A s \in Queues : stack[s].ws # Nil => engine[stack[s].ws].name = stack[s].name

Private ==
  \A t \in Requests : Inserting(t) =>
    /\ engine[req[t].ws].open /\ \A n \in Names : cache[n] # req[t].ws
    /\ \A s \in Queues : stack[s].ws # req[t].ws
    /\ \A e \in Threads : evict[e].ws # req[t].ws
    /\ \A u \in Requests : u # t => req[u].ws # req[t].ws
    /\ \A u \in Requests : Inserts(u, req[t].name) => u = t

BaseInv == HoldersInv /\ CacheFollows /\ Named /\ Private

\* The values that the elements of the shape range over.
LEMMA Ranges ==
  ASSUME HostInv
  PROVE  /\ \A n \in Names : cache[n] \in Handles \union {Nil}
         /\ \A n \in Names : registry[n] \in Queues \union {Nil}
         /\ \A t \in Requests : req[t].ws \in Handles \union {Nil}
         /\ \A t \in Requests : req[t].st \in Queues \union {Nil}
         /\ \A t \in Requests : req[t].pc # "idle" => req[t].name \in Names
         /\ \A e \in Threads : evict[e].ws \in Handles \union {Nil}
         /\ \A s \in Queues : stack[s].ws \in Handles \union {Nil}
         /\ Nil \notin Handles /\ Nil \notin Queues /\ Nil \notin Names
         /\ Requests \subseteq Threads
<1>1. \A n \in Names : cache[n] \in Handles \union {Nil} /\ registry[n] \in Queues \union {Nil}
  BY DEF HostInv, HostShape
<1>2. \A t \in Requests : req[t].ws \in Handles \union {Nil} /\ req[t].st \in Queues \union {Nil}
  BY Records DEF ReqType
<1>3. \A t \in Requests : req[t].pc # "idle" => req[t].name \in Names
  BY DEF HostInv, RequestsMatch
<1>4. /\ \A e \in Threads : evict[e].ws \in Handles \union {Nil}
      /\ \A s \in Queues : stack[s].ws \in Handles \union {Nil}
  BY Records DEF EvictType, StackType
<1> QED BY <1>1, <1>2, <1>3, <1>4, HostAssumption DEF Threads

\* The engines stay what they are when one of them is opened or closed.
LEMMA EngineMoves == EngineShape /\ HostInv /\ HostNext => EngineShape'
<1> SUFFICES ASSUME EngineShape, HostInv, HostNext PROVE EngineShape'
  OBVIOUS
<1>1. /\ \A t \in Requests, n \in Names : AcquireHit(t, n) => EngineShape'
      /\ \A t \in Requests, n \in Names : AcquireMiss(t, n) => EngineShape'
      /\ \A t \in Requests : Assemble(t) => EngineShape'
      /\ \A t \in Requests : Register(t) => EngineShape'
      /\ \A t \in Requests : ReleaseRef(t) => EngineShape'
      /\ \A s \in Queues : Teardown(s) => EngineShape'
      /\ CloseAll => EngineShape'
      /\ Idle \/ CloseHandle => EngineShape'
  BY DEF AcquireHit, AcquireMiss, Assemble, Register, ReleaseRef, Teardown, CloseAll, Idle,
         CloseHandle, EngineShape
<1>2. ASSUME NEW h, engine' = [engine EXCEPT ![h].open = FALSE] PROVE EngineShape'
  BY <1>2 DEF EngineShape
<1>3. ASSUME NEW t \in Requests, Workspace(t) \/ OpenWorkspace(t) PROVE EngineShape'
  <2>1. \/ UNCHANGED engine
        \/ \E h \in Handles : engine' = [engine EXCEPT ![h] = [name |-> req[t].name, open |-> TRUE]]
    BY <1>3 DEF Workspace, OpenWorkspace
  <2>2. req[t].name \in Names \union {Nil}
    BY Records DEF ReqType
  <2> DEFINE x == [name |-> req[t].name, open |-> TRUE]
  <2>3. x \in [name : Names \union {Nil}, open : BOOLEAN]
    BY <2>2
  <2> HIDE DEF x
  <2>4. UNCHANGED engine \/ \E h \in Handles : engine' = [engine EXCEPT ![h] = x]
    BY <2>1 DEF x
  <2> QED BY <2>3, <2>4 DEF EngineShape
<1>4. ASSUME NEW t \in Requests, Insert(t) PROVE EngineShape'
  <2>1. UNCHANGED engine \/ engine' = [engine EXCEPT ![req[t].ws].open = FALSE]
    BY <1>4 DEF Insert
  <2> QED BY <1>2, <2>1 DEF EngineShape
<1>5. ASSUME NEW e \in Threads, Hook(e) PROVE EngineShape'
  <2>1. UNCHANGED engine \/ engine' = [engine EXCEPT ![evict[e].ws].open = FALSE]
    BY <1>5 DEF Hook
  <2> QED BY <1>2, <2>1 DEF EngineShape
<1>6. ASSUME NEW s \in Queues, Dispose(s) PROVE EngineShape'
  <2>1. UNCHANGED engine \/ engine' = [engine EXCEPT ![stack[s].ws].open = FALSE]
    BY <1>6 DEF Dispose
  <2> QED BY <1>2, <2>1 DEF EngineShape
<1>7. Elsewhere => EngineShape'
  BY DEF Elsewhere, Serve, StopQueue, Signal, CloseManager, hostVars, EngineShape
<1> QED BY ONLY HostNext, HostSteps, <1>1, <1>3, <1>4, <1>5, <1>6, <1>7

\* When the cache is full, its least recently used workspace is one of its own.
LEMMA OldestCached ==
  ASSUME HostInv, CacheFollows, Len(recent) >= MaxOpen
  PROVE  /\ Head(recent) \in Names /\ cache[Head(recent)] \in Handles
         /\ Tail(recent) \in Seq(Names) /\ Once(Tail(recent))
         /\ Len(Tail(recent)) = Len(recent) - 1 /\ Len(recent) = MaxOpen
         /\ \A m : Listed(Tail(recent), m) <=> Listed(recent, m) /\ m # Head(recent)
<1>1. recent \in Seq(Names) /\ Len(recent) # 0 /\ Once(recent) /\ Len(recent) = MaxOpen
  BY HostAssumption DEF HostInv, HostShape, CacheFollows
<1>2. /\ Head(recent) \in Names /\ Listed(recent, Head(recent)) /\ Tail(recent) \in Seq(Names)
      /\ Once(Tail(recent)) /\ Len(Tail(recent)) = Len(recent) - 1
      /\ \A m : Listed(Tail(recent), m) <=> Listed(recent, m) /\ m # Head(recent)
  BY <1>1, TakeFirst
<1>3. cache[Head(recent)] # Nil
  BY <1>2 DEF CacheFollows
<1> QED BY <1>1, <1>2, <1>3, Ranges

LEMMA NamedNext ==
  ASSUME HostInv, HoldersInv, BaseInv, HostNext
  PROVE  Named'
<1>r. /\ HoldersInv /\ Named /\ Private
      /\ \A n \in Names : cache[n] \in Handles \union {Nil}
      /\ Nil \notin Handles /\ Nil \notin Queues /\ Nil \notin Names
      /\ \A t \in Requests : req[t].pc # "idle" => req[t].name \in Names
      /\ \A t \in Requests : req[t].st \in Queues \union {Nil} /\ req[t].ws \in Handles \union {Nil}
      /\ \A e \in Threads : evict[e].ws \in Handles \union {Nil}
      /\ \A s \in Queues : stack[s].ws \in Handles \union {Nil}
      /\ Requests \subseteq Threads
  BY Ranges DEF BaseInv
<1>1. ASSUME NEW t \in Requests, NEW n \in Names, Hits(t, n) PROVE Named'
  BY <1>1, <1>r DEF Hits, ReqIs, StackKept, StackAs, Named
<1>2. ASSUME NEW t \in Requests, NEW n \in Names, Misses(t, n) PROVE Named'
  BY <1>2, <1>r DEF Misses, ReqIs, StackKept, StackAs, Named
<1>3. ASSUME NEW t \in Requests, Gets(t) PROVE Named'
  BY <1>3, <1>r DEF Gets, ReqIs, StackKept, StackAs, Named
<1>4. ASSUME NEW t \in Requests, NEW h \in Handles, Opens(t, h) PROVE Named'
  BY <1>4, <1>r DEF Opens, EngineIs, ReqIs, StackKept, StackAs, Named, Known
<1>5. ASSUME NEW t \in Requests, Fails(t) PROVE Named'
  BY <1>5, <1>r DEF Fails, GivesUp, ReqIs, StackKept, StackIs, StackAs, Named
<1>6. ASSUME NEW t \in Requests, Forgoes(t) PROVE Named'
  BY <1>6, <1>r DEF Forgoes, GivesUp, EngineIs, ReqIs, StackKept, StackIs, StackAs, Named
<1>7. ASSUME NEW t \in Requests, Puts(t) PROVE Named'
  BY <1>7, <1>r DEF Puts, CacheIs, StackKept, StackAs, ReqIs, Named
<1>8. ASSUME NEW t \in Requests, NEW v \in Names, Replaces(t, v) PROVE Named'
  BY <1>8, <1>r DEF Replaces, StackKept, StackAs, ReqIs, EvictIs, Named
<1>9. ASSUME NEW t \in Requests, NEW s \in Queues, Builds(t, s) PROVE Named'
  BY <1>9, <1>r DEF Builds, StackIs, StackAs, ReqIs, Named
<1>10. ASSUME NEW t \in Requests, Drops(t) PROVE Named'
  BY <1>10, <1>r DEF Drops, StackKept, StackAs, ReqIs, Named
<1>11. ASSUME NEW t \in Requests, Adopts(t) PROVE Named'
  BY <1>11, <1>r DEF Adopts, StackIs, StackAs, ReqIs, Named
<1>12. ASSUME NEW t \in Requests, Enters(t) PROVE Named'
  BY <1>12, <1>r DEF Enters, StackIs, StackAs, ReqIs, Named
<1>13. ASSUME NEW t \in Requests, Lets(t) PROVE Named'
  BY <1>13, <1>r DEF Lets, StackKept, StackAs, ReqIs, Named
<1>14. ASSUME NEW e \in Threads, NEW n \in Names, Detaches(e, n) PROVE Named'
  BY <1>14, <1>r DEF Detaches, CacheIs, EvictIs, Named
<1>15. ASSUME NEW e \in Threads, ClosesOnly(e) PROVE Named'
  BY <1>15, <1>r DEF ClosesOnly, EngineIs, EvictIs, Named
<1>16. ASSUME NEW e \in Threads, NEW s \in Queues, ClosesStack(e, s) PROVE Named'
  BY <1>16, <1>r DEF ClosesStack, StackIs, StackAs, EvictIs, Named
<1>17. ASSUME NEW s \in Queues, Halts(s) PROVE Named'
  BY <1>17, <1>r DEF Halts, StackIs, StackAs, Named
<1>18. ASSUME NEW s \in Queues, Disposes(s) PROVE Named'
  BY <1>18, <1>r, NothingHeld DEF Disposes, StackIs, StackAs, EngineIs, Named
<1>19. ASSUME Sweeps PROVE Named'
  BY <1>19, <1>r DEF Sweeps, Named
<1>20. ASSUME Rests PROVE Named'
  BY <1>20, <1>r DEF Rests, Named
<1>21. ASSUME NEW t \in Requests, Seeks(t) PROVE Named'
  BY <1>21, <1>r DEF Seeks, ReqIs, StackKept, StackAs, Named
<1>22. ASSUME NEW t \in Requests, Joins(t) PROVE Named'
  BY <1>22, <1>r DEF Joins, Inserting, EngineIs, ReqIs, StackKept, StackAs, Named
<1> QED BY ONLY HostInv, HoldersInv, HostNext, HolderSteps, <1>1, <1>2, <1>3, <1>4, <1>5, <1>6,
                <1>7, <1>8, <1>9, <1>10, <1>11, <1>12, <1>13, <1>14, <1>15, <1>16, <1>17, <1>18,
                <1>19, <1>20, <1>21, <1>22

LEMMA HoldersNext ==
  ASSUME HostInv, HoldersInv, BaseInv, HostNext
  PROVE  HoldersInv'
<1>r. /\ HoldersInv /\ Named /\ Private
      /\ \A n \in Names : cache[n] \in Handles \union {Nil}
      /\ Nil \notin Handles /\ Nil \notin Queues /\ Nil \notin Names
      /\ \A t \in Requests : req[t].pc # "idle" => req[t].name \in Names
      /\ \A t \in Requests : req[t].st \in Queues \union {Nil} /\ req[t].ws \in Handles \union {Nil}
      /\ \A e \in Threads : evict[e].ws \in Handles \union {Nil}
      /\ \A s \in Queues : stack[s].ws \in Handles \union {Nil}
      /\ Requests \subseteq Threads
  BY Ranges DEF BaseInv
<1>o. Len(recent) >= MaxOpen => Head(recent) \in Names /\ cache[Head(recent)] \in Handles
  BY OldestCached DEF BaseInv
<1>e. EngineShape'
  BY EngineMoves DEF HoldersInv
<1>1. ASSUME NEW t \in Requests, NEW n \in Names, Hits(t, n) PROVE HoldersInv'
  BY <1>1, <1>e DEF Hits, ReqIs, StackKept, StackAs, HoldersInv, WithHandle
<1>2. ASSUME NEW t \in Requests, NEW n \in Names, Misses(t, n) PROVE HoldersInv'
  BY <1>2, <1>e DEF Misses, ReqIs, StackKept, StackAs, HoldersInv, WithHandle
<1>3. ASSUME NEW t \in Requests, Gets(t) PROVE HoldersInv'
  BY <1>3, <1>e, <1>r DEF Gets, ReqIs, StackKept, StackAs, After, HoldersInv, WithHandle
<1>4. ASSUME NEW t \in Requests, NEW h \in Handles, Opens(t, h) PROVE HoldersInv'
  BY <1>4, <1>e DEF Opens, ReqIs, StackKept, StackAs, HoldersInv, WithHandle
<1>5. ASSUME NEW t \in Requests, Fails(t) PROVE HoldersInv'
  BY <1>5, <1>e, <1>r DEF Fails, GivesUp, ReqIs, StackKept, StackIs, StackAs, HoldersInv,
     WithHandle
<1>6. ASSUME NEW t \in Requests, Forgoes(t) PROVE HoldersInv'
  BY <1>6, <1>e, <1>r DEF Forgoes, Inserting, GivesUp, ReqIs, StackKept, StackIs, StackAs,
     HoldersInv, WithHandle
<1>7. ASSUME NEW t \in Requests, Puts(t) PROVE HoldersInv'
  BY <1>7, <1>e DEF Puts, Inserting, StackKept, StackAs, ReqIs, Onward, HoldersInv, WithHandle
<1>8. ASSUME NEW t \in Requests, NEW v \in Names, Replaces(t, v) PROVE HoldersInv'
  BY <1>8, <1>e, <1>r, <1>o DEF Replaces, Inserting, StackKept, StackAs, ReqIs, Onward, EvictIs,
     HoldersInv, WithHandle
<1>9. ASSUME NEW t \in Requests, NEW s \in Queues, Builds(t, s) PROVE HoldersInv'
  BY <1>9, <1>e, <1>r DEF Builds, StackIs, StackAs, ReqIs, HoldersInv, WithHandle
<1>10. ASSUME NEW t \in Requests, Drops(t) PROVE HoldersInv'
  BY <1>10, <1>e DEF Drops, StackKept, StackAs, ReqIs, HoldersInv, WithHandle
<1>11. ASSUME NEW t \in Requests, Adopts(t) PROVE HoldersInv'
  BY <1>11, <1>e, <1>r DEF Adopts, StackIs, StackAs, ReqIs, HoldersInv, WithHandle
<1>12. ASSUME NEW t \in Requests, Enters(t) PROVE HoldersInv'
  BY <1>12, <1>e, <1>r DEF Enters, StackIs, StackAs, ReqIs, HoldersInv, WithHandle
<1>13. ASSUME NEW t \in Requests, Lets(t) PROVE HoldersInv'
  BY <1>13, <1>e DEF Lets, StackKept, StackAs, ReqIs, HoldersInv, WithHandle
<1>14. ASSUME NEW e \in Threads, NEW n \in Names, Detaches(e, n) PROVE HoldersInv'
  BY <1>14, <1>e, <1>r DEF Detaches, EvictIs, HoldersInv
<1>15. ASSUME NEW e \in Threads, ClosesOnly(e) PROVE HoldersInv'
  BY <1>15, <1>e, <1>r DEF ClosesOnly, EvictIs, HoldersInv
<1>16. ASSUME NEW e \in Threads, NEW s \in Queues, ClosesStack(e, s) PROVE HoldersInv'
  BY <1>16, <1>e, <1>r DEF ClosesStack, StackIs, StackAs, EvictIs, HoldersInv, HostInv, Registered
<1>17. ASSUME NEW s \in Queues, Halts(s) PROVE HoldersInv'
  BY <1>17, <1>e DEF Halts, StackIs, StackAs, HoldersInv
<1>18. ASSUME NEW s \in Queues, Disposes(s) PROVE HoldersInv'
  BY <1>18, <1>e, <1>r, NothingHeld DEF Disposes, StackIs, StackAs, HoldersInv
<1>19. ASSUME Sweeps PROVE HoldersInv'
  BY <1>19, <1>e, <1>r DEF Sweeps, HoldersInv, HostInv, Registered
<1>20. ASSUME Rests PROVE HoldersInv'
  BY <1>20, <1>e DEF Rests, HoldersInv
<1>21. ASSUME NEW t \in Requests, Seeks(t) PROVE HoldersInv'
  BY <1>21, <1>e DEF Seeks, ReqIs, StackKept, StackAs, HoldersInv, WithHandle
<1>22. ASSUME NEW t \in Requests, Joins(t) PROVE HoldersInv'
  BY <1>22, <1>e, <1>r DEF Joins, Inserting, ReqIs, StackKept, StackAs, Onward, HoldersInv,
     WithHandle
<1> QED BY ONLY HostInv, HoldersInv, HostNext, HolderSteps, <1>1, <1>2, <1>3, <1>4, <1>5, <1>6,
                <1>7, <1>8, <1>9, <1>10, <1>11, <1>12, <1>13, <1>14, <1>15, <1>16, <1>17, <1>18,
                <1>19, <1>20, <1>21, <1>22

LEMMA PrivateNext ==
  ASSUME HostInv, HoldersInv, BaseInv, HostNext
  PROVE  Private'
<1>r. /\ HoldersInv /\ Named /\ Private
      /\ \A n \in Names : cache[n] \in Handles \union {Nil}
      /\ Nil \notin Handles /\ Nil \notin Queues /\ Nil \notin Names
      /\ \A t \in Requests : req[t].pc # "idle" => req[t].name \in Names
      /\ \A t \in Requests : req[t].st \in Queues \union {Nil} /\ req[t].ws \in Handles \union {Nil}
      /\ \A e \in Threads : evict[e].ws \in Handles \union {Nil}
      /\ \A s \in Queues : stack[s].ws \in Handles \union {Nil}
      /\ Requests \subseteq Threads
  BY Ranges DEF BaseInv
<1>1. ASSUME NEW t \in Requests, NEW n \in Names, Hits(t, n) PROVE Private'
  BY <1>1, <1>r DEF Hits, ReqIs, StackKept, StackAs, Private, Inserts, Inserting, HoldersInv
<1>2. ASSUME NEW t \in Requests, NEW n \in Names, Misses(t, n) PROVE Private'
  BY <1>2, <1>r DEF Misses, ReqIs, StackKept, StackAs, Private, Inserts, Inserting, HoldersInv
<1>3. ASSUME NEW t \in Requests, Gets(t) PROVE Private'
  BY <1>3, <1>r DEF Gets, ReqIs, StackKept, StackAs, After, Private, Inserts, Inserting, Named
<1>4. ASSUME NEW t \in Requests, NEW h \in Handles, Opens(t, h) PROVE Private'
  BY <1>4, <1>r DEF Opens, EngineIs, ReqIs, StackKept, StackAs, Private, Inserts, Inserting,
     HoldersInv, Known, Locked, Named
<1>5. ASSUME NEW t \in Requests, Fails(t) PROVE Private'
  BY <1>5, <1>r DEF Fails, GivesUp, ReqIs, StackKept, StackIs, StackAs, Private, Inserts,
     Inserting, HoldersInv
<1>6. ASSUME NEW t \in Requests, Forgoes(t) PROVE Private'
  BY <1>6, <1>r DEF Forgoes, Inserting, GivesUp, EngineIs, ReqIs, StackKept, StackIs, StackAs,
     Private, Inserts, Inserting, HoldersInv
<1>7. ASSUME NEW t \in Requests, Puts(t) PROVE Private'
  BY <1>7, <1>r DEF Puts, Inserting, CacheIs, StackKept, StackAs, ReqIs, Onward, Private,
     Inserts, Inserting
<1>8. ASSUME NEW t \in Requests, NEW v \in Names, Replaces(t, v) PROVE Private'
  <2> SUFFICES ASSUME NEW u \in Requests, Inserting(u)'
               PROVE  /\ engine'[req'[u].ws].open /\ \A k \in Names : cache'[k] # req'[u].ws
                      /\ \A s \in Queues : stack'[s].ws # req'[u].ws
                      /\ \A e \in Threads : evict'[e].ws # req'[u].ws
                      /\ \A w \in Requests : w # u => req'[w].ws # req'[u].ws
                      /\ \A w \in Requests : Inserting(w)' /\ req'[w].name = req'[u].name => w = u
    BY DEF Private, Inserts
  <2>1. /\ u # t /\ req'[u] = req[u] /\ Inserting(u) /\ Inserting(t)
        /\ \A w \in Requests : w # t => req'[w] = req[w]
        /\ req'[t].ws = req[t].ws /\ ~Inserting(t)'
    BY <1>8 DEF Replaces, ReqIs, Inserting, Onward
  <2>2. /\ req[u].name # req[t].name /\ req[u].ws # Nil
        /\ \A k \in Names : cache[k] # req[u].ws /\ engine[req[u].ws].open /\ \A s \in Queues : stack[s].ws # req[u].ws
        /\ \A e \in Threads : evict[e].ws # req[u].ws
        /\ \A w \in Requests : w # u => req[w].ws # req[u].ws
        /\ \A w \in Requests : Inserts(w, req[u].name) => w = u
    BY <1>r, <2>1 DEF Private, Inserts, HoldersInv, Inserting
  <2>3. cache[v] # req[u].ws
    BY <2>2
  <2>4. \A e \in Threads : evict'[e].ws # req'[u].ws
    BY <1>8, <2>1, <2>2, <2>3 DEF Replaces, EvictIs
  <2>5. \A k \in Names : cache'[k] # req'[u].ws
    BY <1>8, <2>1, <2>2 DEF Replaces
  <2>6. \A w \in Requests : Inserting(w)' /\ req'[w].name = req'[u].name => w = u
    BY <2>1, <2>2 DEF Inserts, Inserting
  <2> QED BY <1>8, <2>1, <2>2, <2>4, <2>5, <2>6 DEF Replaces, StackKept, StackAs
<1>9. ASSUME NEW t \in Requests, NEW s \in Queues, Builds(t, s) PROVE Private'
  BY <1>9, <1>r DEF Builds, StackIs, StackAs, ReqIs, Private, Inserts, Inserting
<1>10. ASSUME NEW t \in Requests, Drops(t) PROVE Private'
  BY <1>10, <1>r DEF Drops, StackKept, StackAs, ReqIs, Private, Inserts, Inserting, HoldersInv
<1>11. ASSUME NEW t \in Requests, Adopts(t) PROVE Private'
  BY <1>11, <1>r DEF Adopts, StackIs, StackAs, ReqIs, Private, Inserts, Inserting, HoldersInv
<1>12. ASSUME NEW t \in Requests, Enters(t) PROVE Private'
  BY <1>12, <1>r DEF Enters, StackIs, StackAs, ReqIs, Private, Inserts, Inserting, HoldersInv
<1>13. ASSUME NEW t \in Requests, Lets(t) PROVE Private'
  BY <1>13, <1>r DEF Lets, StackKept, StackAs, ReqIs, Private, Inserts, Inserting, HoldersInv
<1>14. ASSUME NEW e \in Threads, NEW n \in Names, Detaches(e, n) PROVE Private'
  <2>1. /\ \A k \in Names : cache'[k] = Nil \/ cache'[k] = cache[k]
        /\ \A f \in Threads : evict'[f].ws = evict[f].ws \/ evict'[f].ws = cache[n]
    BY <1>14 DEF Detaches, CacheIs, EvictIs
  <2> QED BY <1>14, <1>r, <2>1 DEF Detaches, Private, Inserts, Inserting, HoldersInv, WithHandle
<1>15. ASSUME NEW e \in Threads, ClosesOnly(e) PROVE Private'
  BY <1>15, <1>r DEF ClosesOnly, EngineIs, EvictIs, Private, Inserts, Inserting, HoldersInv
<1>16. ASSUME NEW e \in Threads, NEW s \in Queues, ClosesStack(e, s) PROVE Private'
  BY <1>16, <1>r DEF ClosesStack, StackIs, StackAs, EvictIs, Private, Inserts, Inserting
<1>17. ASSUME NEW s \in Queues, Halts(s) PROVE Private'
  BY <1>17, <1>r DEF Halts, StackIs, StackAs, Private, Inserts, Inserting
<1>18. ASSUME NEW s \in Queues, Disposes(s) PROVE Private'
  BY <1>18, <1>r, NothingHeld DEF Disposes, StackIs, StackAs, EngineIs, Private, Inserts,
     Inserting, HoldersInv
<1>19. ASSUME Sweeps PROVE Private'
  BY <1>19, <1>r DEF Sweeps, Private, Inserts, Inserting
<1>20. ASSUME Rests PROVE Private'
  BY <1>20, <1>r DEF Rests, Private, Inserts, Inserting
<1>21. ASSUME NEW t \in Requests, Seeks(t) PROVE Private'
  BY <1>21, <1>r DEF Seeks, ReqIs, StackKept, StackAs, Private, Inserts, Inserting, HoldersInv
<1>22. ASSUME NEW t \in Requests, Joins(t) PROVE Private'
  BY <1>22, <1>r DEF Joins, Inserting, EngineIs, ReqIs, StackKept, StackAs, Onward, Private,
     Inserts, HoldersInv
<1> QED BY ONLY HostInv, HoldersInv, HostNext, HolderSteps, <1>1, <1>2, <1>3, <1>4, <1>5, <1>6,
                <1>7, <1>8, <1>9, <1>10, <1>11, <1>12, <1>13, <1>14, <1>15, <1>16, <1>17, <1>18,
                <1>19, <1>20, <1>21, <1>22

LEMMA CacheNext ==
  ASSUME HostInv, HoldersInv, BaseInv, HostNext
  PROVE  CacheFollows'
<1>r. /\ HoldersInv /\ Named /\ Private
      /\ \A n \in Names : cache[n] \in Handles \union {Nil}
      /\ Nil \notin Handles /\ Nil \notin Queues /\ Nil \notin Names
      /\ \A t \in Requests : req[t].pc # "idle" => req[t].name \in Names
      /\ \A t \in Requests : req[t].st \in Queues \union {Nil} /\ req[t].ws \in Handles \union {Nil}
      /\ \A e \in Threads : evict[e].ws \in Handles \union {Nil}
      /\ \A s \in Queues : stack[s].ws \in Handles \union {Nil}
      /\ Requests \subseteq Threads
  BY Ranges DEF BaseInv
<1>c. recent \in Seq(Names) /\ Once(recent) /\ CacheFollows
  BY DEF BaseInv, CacheFollows, HostInv, HostShape
<1>k. ASSUME UNCHANGED <<cache, recent>> PROVE CacheFollows'
  BY <1>c, <1>k DEF CacheFollows, Once, Listed
<1>1. ASSUME NEW t \in Requests, NEW n \in Names, Hits(t, n) PROVE CacheFollows'
  <2>1. CASE ~mclosed /\ cache[n] # Nil
    <3>1. recent' = Touched(n) /\ Listed(recent, n) /\ UNCHANGED cache
      BY <1>1, <1>c, <2>1 DEF Hits, CacheFollows
    <3> QED BY <1>c, <3>1, MoveLast DEF CacheFollows
  <2>2. CASE mclosed \/ cache[n] = Nil
    BY <1>1, <1>k, <2>2 DEF Hits
  <2> QED BY <2>1, <2>2
<1>2. ASSUME NEW t \in Requests, NEW n \in Names, Misses(t, n) PROVE CacheFollows'
  BY <1>2, <1>k DEF Misses
<1>3. ASSUME NEW t \in Requests, Gets(t) PROVE CacheFollows'
  <2> DEFINE n == req[t].name
  <2>1. /\ n \in Names /\ recent' = Touched(n) /\ Listed(recent, n) /\ UNCHANGED cache
    BY <1>3, <1>c, <1>r DEF Gets, CacheFollows
  <2> QED BY <1>c, <2>1, MoveLast DEF CacheFollows
<1>4. ASSUME NEW t \in Requests, NEW h \in Handles, Opens(t, h) PROVE CacheFollows'
  BY <1>4, <1>k DEF Opens
<1>5. ASSUME NEW t \in Requests, Fails(t) PROVE CacheFollows'
  BY <1>5, <1>k DEF Fails
<1>6. ASSUME NEW t \in Requests, Forgoes(t) PROVE CacheFollows'
  BY <1>6, <1>k DEF Forgoes
<1>7. ASSUME NEW t \in Requests, Puts(t) PROVE CacheFollows'
  <2> DEFINE n == req[t].name
  <2>1. /\ n \in Names /\ recent' = Touched(n) /\ CacheIs(n, req[t].ws) /\ cache[n] = Nil
        /\ Len(recent) < MaxOpen /\ req[t].ws # Nil /\ ~Listed(recent, n)
    BY <1>7, <1>c, <1>r DEF Puts, CacheFollows, Private, Inserting, HoldersInv, WithHandle
  <2>2. /\ Once(recent') /\ Len(recent') = Len(recent) + 1 /\ Len(recent) \in Nat
        /\ \A m : Listed(recent', m) <=> Listed(recent, m) \/ m = n
    BY <1>c, <2>1, MoveLast
  <2>3. Len(recent') <= MaxOpen
    BY <2>1, <2>2, HostAssumption
  <2>4. \A m \in Names : cache'[m] # Nil <=> Listed(recent', m)
    BY <1>c, <2>1, <2>2 DEF CacheFollows, CacheIs
  <2> QED BY <2>2, <2>3, <2>4 DEF CacheFollows
<1>8. ASSUME NEW t \in Requests, NEW v \in Names, Replaces(t, v) PROVE CacheFollows'
  <2> DEFINE n == req[t].name
  <2>1. /\ n \in Names /\ v = Head(recent) /\ recent' = Append(Tail(recent), n)
        /\ cache[n] = Nil /\ Len(recent) >= MaxOpen /\ req[t].ws # Nil /\ ~Listed(recent, n)
        /\ \A m \in Names : cache'[m] = IF m = n THEN req[t].ws
                                        ELSE IF m = v THEN Nil ELSE cache[m]
    BY <1>8, <1>c, <1>r DEF Replaces, CacheFollows, Private, Inserting, HoldersInv, WithHandle
  <2>2. /\ Tail(recent) \in Seq(Names) /\ Once(Tail(recent))
        /\ Len(Tail(recent)) = Len(recent) - 1 /\ Len(recent) = MaxOpen
        /\ \A m : Listed(Tail(recent), m) <=> Listed(recent, m) /\ m # v
    BY <1>c, <2>1, OldestCached
  <2>3. /\ Once(recent') /\ Len(recent') = Len(Tail(recent)) + 1
        /\ \A m : Listed(recent', m) <=> Listed(Tail(recent), m) \/ m = n
    BY <2>1, <2>2, PutLast
  <2>4. Len(recent') <= MaxOpen
    BY <2>2, <2>3, HostAssumption
  <2>5. \A m \in Names : cache'[m] # Nil <=> Listed(recent', m)
    BY <1>c, <2>1, <2>2, <2>3 DEF CacheFollows
  <2> QED BY <2>3, <2>4, <2>5 DEF CacheFollows
<1>9. ASSUME NEW t \in Requests, NEW s \in Queues, Builds(t, s) PROVE CacheFollows'
  BY <1>9, <1>k DEF Builds
<1>10. ASSUME NEW t \in Requests, Drops(t) PROVE CacheFollows'
  BY <1>10, <1>k DEF Drops
<1>11. ASSUME NEW t \in Requests, Adopts(t) PROVE CacheFollows'
  BY <1>11, <1>k DEF Adopts
<1>12. ASSUME NEW t \in Requests, Enters(t) PROVE CacheFollows'
  BY <1>12, <1>k DEF Enters
<1>13. ASSUME NEW t \in Requests, Lets(t) PROVE CacheFollows'
  BY <1>13, <1>k DEF Lets
<1>14. ASSUME NEW e \in Threads, NEW n \in Names, Detaches(e, n) PROVE CacheFollows'
  <2>1. recent' = Others(n) /\ CacheIs(n, Nil) /\ Listed(recent, n)
    BY <1>14, <1>c DEF Detaches, CacheFollows
  <2>2. /\ Once(recent') /\ Len(recent') = Len(recent) - 1 /\ Len(recent) \in Nat
        /\ \A m : Listed(recent', m) <=> Listed(recent, m) /\ m # n
    BY <1>c, <2>1, TakeOut
  <2>3. Len(recent') <= MaxOpen
    BY <1>c, <2>2, HostAssumption DEF CacheFollows
  <2>4. \A m \in Names : cache'[m] # Nil <=> Listed(recent', m)
    BY <1>c, <2>1, <2>2 DEF CacheFollows, CacheIs
  <2> QED BY <2>2, <2>3, <2>4 DEF CacheFollows
<1>15. ASSUME NEW e \in Threads, ClosesOnly(e) PROVE CacheFollows'
  BY <1>15, <1>k DEF ClosesOnly
<1>16. ASSUME NEW e \in Threads, NEW s \in Queues, ClosesStack(e, s) PROVE CacheFollows'
  BY <1>16, <1>k DEF ClosesStack
<1>17. ASSUME NEW s \in Queues, Halts(s) PROVE CacheFollows'
  BY <1>17, <1>k DEF Halts
<1>18. ASSUME NEW s \in Queues, Disposes(s) PROVE CacheFollows'
  BY <1>18, <1>k DEF Disposes
<1>19. ASSUME Sweeps PROVE CacheFollows'
  BY <1>19, <1>k DEF Sweeps
<1>20. ASSUME Rests PROVE CacheFollows'
  BY <1>20, <1>k DEF Rests
<1>21. ASSUME NEW t \in Requests, Seeks(t) PROVE CacheFollows'
  BY <1>21, <1>k DEF Seeks
<1>22. ASSUME NEW t \in Requests, Joins(t) PROVE CacheFollows'
  <2> DEFINE n == req[t].name
  <2>1. /\ n \in Names /\ recent' = Touched(n) /\ Listed(recent, n) /\ UNCHANGED cache
    BY <1>22, <1>c, <1>r DEF Joins, Inserting, CacheFollows
  <2> QED BY <1>c, <2>1, MoveLast DEF CacheFollows
<1> QED BY ONLY HostInv, HoldersInv, HostNext, HolderSteps, <1>1, <1>2, <1>3, <1>4, <1>5, <1>6,
                <1>7, <1>8, <1>9, <1>10, <1>11, <1>12, <1>13, <1>14, <1>15, <1>16, <1>17, <1>18,
                <1>19, <1>20, <1>21, <1>22

LEMMA BaseNext == HostInv /\ BaseInv /\ HostNext => BaseInv'
  BY HoldersNext, CacheNext, NamedNext, PrivateNext DEF BaseInv

LEMMA BaseInit == HostInit => BaseInv
<1> SUFFICES ASSUME HostInit PROVE BaseInv
  OBVIOUS
<1>1. /\ engine = [h \in Handles |-> NoEngine] /\ cache = [n \in Names |-> Nil] /\ recent = <<>>
      /\ stack = [s \in Queues |-> NoStack] /\ req = [t \in Requests |-> NoRequest]
      /\ evict = [e \in Threads |-> NoEvict]
  BY DEF HostInit
<1>2. /\ \A t \in Requests : req[t].pc = "idle" /\ req[t].ws = Nil
      /\ \A e \in Threads : evict[e].stage = "none" /\ evict[e].ws = Nil /\ evict[e].st = Nil
      /\ \A s \in Queues : stack[s].stage = "none" /\ stack[s].ws = Nil
      /\ \A n \in Names : cache[n] = Nil
  BY <1>1, NothingHeld
<1>3. EngineShape
  BY <1>1 DEF EngineShape, NoEngine
<1>4. HoldersInv /\ Named /\ Private
  BY <1>2, <1>3, HostAssumption DEF HoldersInv, Named, Private, WithHandle, Inserting, Threads
<1>5. CacheFollows
  BY <1>1, <1>2, HostAssumption DEF CacheFollows, Once, Listed
<1> QED BY <1>4, <1>5 DEF BaseInv

LEMMA BaseStutters == BaseInv /\ UNCHANGED serveVars => BaseInv'
  BY DEF serveVars, hostVars, BaseInv, HoldersInv, EngineShape, CacheFollows, Once, Listed, Named,
         Private, Inserts, Inserting

LEMMA BaseHolds == HostSpec => []BaseInv
<1>1. HostInit => BaseInv
  BY BaseInit
<1>2. HostInv /\ BaseInv /\ [HostNext]_serveVars => BaseInv'
  BY BaseNext, BaseStutters
<1> QED BY <1>1, <1>2, HostInvHolds, PTL DEF HostSpec

-----------------------------------------------------------------------------
(* The engines of a workspace: at most one is open, and its owner is the one *)
(* who will close it: a request that puts it into the cache, the cache, the  *)
(* thread that detached it, or the stack that is torn down with it.          *)

CachedAlone(n) ==
  cache[n] # Nil => /\ engine[cache[n]].open
                    /\ \A e \in Threads : ~Hooked(e, n)
                    /\ \A s \in Queues : ~Torn(s, n)
                    /\ \A t \in Requests : ~Inserts(t, n)

HookedAlone(n) ==
  \A e \in Threads : Hooked(e, n) =>
    /\ engine[evict[e].ws].open
    /\ \A f \in Threads : Hooked(f, n) => e = f
    /\ \A s \in Queues : ~Torn(s, n)
    /\ \A t \in Requests : ~Inserts(t, n)

TornAlone(n) ==
  \A s \in Queues : Torn(s, n) =>
    /\ engine[stack[s].ws].open
    /\ \A r \in Queues : Torn(r, n) => s = r
    /\ \A t \in Requests : ~Inserts(t, n)

RegistersCached(n) ==
  \A t \in Requests : req[t].pc = "register" /\ req[t].name = n => cache[n] = req[t].ws

RegistryHeld(n) ==
  registry[n] # Nil =>
    /\ stack[registry[n]].ws # Nil
    /\ \/ cache[n] = stack[registry[n]].ws
       \/ \E e \in Threads : Hooked(e, n) /\ evict[e].ws = stack[registry[n]].ws

OwnedBy(h, n) ==
  \/ \E t \in Requests : Inserts(t, n) /\ req[t].ws = h
  \/ cache[n] = h
  \/ \E e \in Threads : Hooked(e, n) /\ evict[e].ws = h
  \/ \E s \in Queues : Torn(s, n) /\ stack[s].ws = h

Owned(n) == \A h \in Handles : engine[h].open /\ engine[h].name = n => OwnedBy(h, n)

Sound(n) == /\ CachedAlone(n) /\ HookedAlone(n) /\ TornAlone(n)
            /\ RegistersCached(n) /\ RegistryHeld(n) /\ Owned(n)

\* A step that leaves the owners of m's engines what they are.
Quiet(m) ==
  /\ UNCHANGED engine /\ cache'[m] = cache[m] /\ registry'[m] = registry[m]
  /\ \A e \in Threads : /\ Hooked(e, m)' <=> Hooked(e, m)
                        /\ Hooked(e, m) => evict'[e].ws = evict[e].ws
  /\ \A t \in Requests :
       /\ Inserts(t, m)' <=> Inserts(t, m)
       /\ Inserts(t, m) => req'[t].ws = req[t].ws
       /\ req'[t].pc = "register" /\ req'[t].name = m => cache[m] = req'[t].ws
  /\ \A s \in Queues :
       /\ Torn(s, m)' <=> Torn(s, m)
       /\ Torn(s, m) \/ s = registry[m] => stack'[s].ws = stack[s].ws

LEMMA Undisturbed ==
  ASSUME HostInv, NEW m \in Names, Sound(m), Quiet(m)
  PROVE  Sound(m)'
<1>0. registry[m] \in Queues \union {Nil} /\ UNCHANGED engine
      /\ cache'[m] = cache[m] /\ registry'[m] = registry[m]
  BY Ranges DEF Quiet
<1>1. CachedAlone(m)' /\ HookedAlone(m)'
  BY <1>0 DEF Sound, CachedAlone, HookedAlone, Quiet
<1>2. TornAlone(m)'
  BY <1>0 DEF Sound, TornAlone, Quiet
<1>3. RegistersCached(m)' /\ RegistryHeld(m)'
  BY <1>0 DEF Sound, RegistersCached, RegistryHeld, Quiet
<1>4. Owned(m)'
  <2> SUFFICES ASSUME NEW h \in Handles, engine[h].open, engine[h].name = m PROVE OwnedBy(h, m)'
    BY <1>0 DEF Owned
  <2>1. OwnedBy(h, m)
    BY DEF Sound, Owned
  <2> QED BY <1>0, <2>1 DEF OwnedBy, Quiet
<1> QED BY <1>1, <1>2, <1>3, <1>4 DEF Sound

LEMMA SoundNext ==
  ASSUME HostInv, HoldersInv, BaseInv, HostRaces = {}, NEW m \in Names, Sound(m),
         Sweeps => registry[m] = Nil, HostNext
  PROVE  Sound(m)'
<1>r. /\ HoldersInv /\ Named /\ Private /\ cache \in [Names -> Handles \union {Nil}]
      /\ registry \in [Names -> Queues \union {Nil}] /\ Requests \subseteq Threads
      /\ Nil \notin Handles /\ Nil \notin Queues
      /\ \A t \in Requests : req[t].pc # "idle" => req[t].name \in Names
      /\ \A s \in Queues : stack[s].ws \in Handles \union {Nil}
  BY Ranges DEF BaseInv, HostInv, HostShape
<1>m. \A t \in Requests :
        /\ req[t].pc \in {"open", "lock", "insert"} => req[t].st = Nil
        /\ HasStack(t) => /\ req[t].st \in Queues /\ stack[req[t].st].name = req[t].name
                          /\ stack[req[t].st].stage = "live"
                          /\ registry[req[t].name] # req[t].st
  BY DEF HostInv, RequestsMatch
<1>g. \A n \in Names : registry[n] # Nil =>
        /\ registry[n] \in Queues /\ stack[registry[n]].stage = "live"
        /\ stack[registry[n]].name = n
  BY DEF HostInv, HostShape, Registered
<1>1. ASSUME NEW t \in Requests, NEW n \in Names, Hits(t, n) PROVE Sound(m)'
  <2>1. Quiet(m)
    BY <1>1 DEF Hits, ReqIs, StackKept, StackAs, Quiet, Hooked, Inserts, Inserting, Torn, Sound,
       RegistersCached
  <2> QED BY <2>1, Undisturbed
<1>2. ASSUME NEW t \in Requests, NEW n \in Names, Misses(t, n) PROVE Sound(m)'
  <2>1. Quiet(m)
    BY <1>2 DEF Misses, ReqIs, StackKept, StackAs, Quiet, Hooked, Inserts, Inserting, Torn,
       Sound, RegistersCached
  <2> QED BY <2>1, Undisturbed
<1>3. ASSUME NEW t \in Requests, Gets(t) PROVE Sound(m)'
  <2>1. Quiet(m)
    BY <1>3 DEF Gets, ReqIs, StackKept, StackAs, After, Quiet, Hooked, Inserts, Inserting, Torn,
       Sound, RegistersCached
  <2> QED BY <2>1, Undisturbed
<1>4. ASSUME NEW t \in Requests, NEW h \in Handles, Opens(t, h) PROVE Sound(m)'
  <2>1. CachedAlone(m)'
    <3>1. req[t].name # m \/ cache[m] = Nil
      BY <1>4, <1>r DEF Opens, Sound, CachedAlone, Locked, Named
    <3> QED BY <1>4, <1>r, <3>1 DEF Opens, EngineIs, ReqIs, StackKept, StackAs, Sound,
               CachedAlone, Hooked, Torn, Inserts, Inserting
  <2>2. HookedAlone(m)'
    BY <1>4, <1>r DEF Opens, EngineIs, ReqIs, StackKept, StackAs, Sound, HookedAlone, Hooked,
       Torn, Inserts, Inserting, Named, HoldersInv, Locked
  <2>3. TornAlone(m)'
    BY <1>4, <1>r DEF Opens, EngineIs, ReqIs, StackKept, StackAs, Sound, TornAlone, Torn,
       Inserts, Inserting, Named, Locked
  <2>4. RegistersCached(m)'
    BY <1>4 DEF Opens, ReqIs, Sound, RegistersCached
  <2>5. RegistryHeld(m)'
    BY <1>4, <1>g DEF Opens, StackKept, StackAs, Sound, RegistryHeld, Hooked
  <2>6. Owned(m)'
    BY <1>4 DEF Opens, EngineIs, ReqIs, StackKept, StackAs, Sound, Owned, OwnedBy, Hooked, Torn,
       Inserts, Inserting
  <2> QED BY <2>1, <2>2, <2>3, <2>4, <2>5, <2>6 DEF Sound
<1>5. ASSUME NEW t \in Requests, Fails(t) PROVE Sound(m)'
  <2>1. Quiet(m)
    BY <1>5, <1>m, <1>g DEF Fails, GivesUp, ReqIs, StackKept, StackIs, StackAs, Quiet, Hooked,
       Inserts, Inserting, Torn, Sound, RegistersCached, HasStack
  <2> QED BY <2>1, Undisturbed
<1>6. ASSUME NEW t \in Requests, Forgoes(t) PROVE Sound(m)'
  <2>1. CachedAlone(m)'
    <3>1. \A u \in Requests : Inserts(u, m)' => Inserts(u, m)
      BY <1>6 DEF Forgoes, GivesUp, ReqIs, Inserts, Inserting
    <3>2. \A s \in Queues : Torn(s, m)' => Torn(s, m)
      BY <1>6 DEF Forgoes, GivesUp, StackKept, StackIs, StackAs, Torn
    <3> QED BY <1>6, <1>r, <3>1, <3>2 DEF Forgoes, EngineIs, Sound, CachedAlone, Hooked, Private
  <2>2. HookedAlone(m)'
    BY <1>6, <1>r DEF Forgoes, Inserting, GivesUp, EngineIs, ReqIs, StackKept, StackIs, StackAs,
       Sound, HookedAlone, Hooked, Torn, Inserts, Private, HoldersInv
  <2>3. TornAlone(m)'
    BY <1>6, <1>r DEF Forgoes, Inserting, GivesUp, EngineIs, ReqIs, StackKept, StackIs, StackAs,
       Sound, TornAlone, Torn, Inserts, Private
  <2>4. RegistersCached(m)'
    BY <1>6 DEF Forgoes, GivesUp, ReqIs, Sound, RegistersCached
  <2>5. RegistryHeld(m)'
    BY <1>6, <1>m, <1>g DEF Forgoes, Inserting, GivesUp, StackKept, StackIs, StackAs, Sound,
       RegistryHeld, Hooked, HasStack
  <2>6. Owned(m)'
    BY <1>6, <1>m DEF Forgoes, Inserting, GivesUp, EngineIs, ReqIs, StackKept, StackIs, StackAs,
       Sound, Owned, OwnedBy, Hooked, Torn, Inserts, HasStack
  <2> QED BY <2>1, <2>2, <2>3, <2>4, <2>5, <2>6 DEF Sound
<1>7. ASSUME NEW t \in Requests, Puts(t) PROVE Sound(m)'
  <2>1. CachedAlone(m)'
    <3>1. \A u \in Requests : Inserts(u, m)' => Inserts(u, m) /\ req[t].name # m
      BY <1>7, <1>r DEF Puts, ReqIs, Onward, Inserts, Inserting, Private
    <3> QED BY <1>7, <1>r, <3>1 DEF Puts, CacheIs, StackKept, StackAs, Sound, CachedAlone,
               HookedAlone, TornAlone, Hooked, Torn, Inserts, Private
  <2>2. HookedAlone(m)'
    BY <1>7 DEF Puts, Inserting, StackKept, StackAs, ReqIs, Sound, HookedAlone, Hooked, Torn,
       Inserts
  <2>3. TornAlone(m)'
    BY <1>7 DEF Puts, Inserting, StackKept, StackAs, ReqIs, Sound, TornAlone, Torn, Inserts
  <2>4. RegistersCached(m)'
    BY <1>7, <1>r DEF Puts, CacheIs, ReqIs, Sound, RegistersCached, Private, HoldersInv,
       WithHandle
  <2>5. RegistryHeld(m)'
    BY <1>7, <1>r DEF Puts, CacheIs, StackKept, StackAs, Sound, RegistryHeld, Hooked, Private
  <2>6. Owned(m)'
    BY <1>7, <1>r DEF Puts, Inserting, CacheIs, StackKept, StackAs, ReqIs, Sound, Owned,
       OwnedBy, Hooked, Torn, Inserts, Private
  <2> QED BY <2>1, <2>2, <2>3, <2>4, <2>5, <2>6 DEF Sound
<1>8. ASSUME NEW t \in Requests, NEW v \in Names, Replaces(t, v) PROVE Sound(m)'
  <2>0. PICK n \in Names, h \in Handles : n = req[t].name /\ h = req[t].ws
    BY <1>8, <1>r DEF Replaces, Inserting, HoldersInv, WithHandle
  <2>1. /\ cache[n] = Nil /\ cache[v] \in Handles /\ Inserts(t, n)
        /\ \A u \in Requests : Inserts(u, n) => u = t
    BY <1>8, <2>0, OldestCached DEF Replaces, BaseInv, Private, Inserts
  <2>2. /\ n # v /\ cache'[n] = h /\ cache'[v] = Nil
        /\ \A k \in Names : k # n /\ k # v => cache'[k] = cache[k]
        /\ UNCHANGED <<engine, registry>> /\ Evictable(v)
        /\ \A s \in Queues : StackAs(s)
    BY <1>8, <1>r, <2>0, <2>1 DEF Replaces, StackKept
  <2>3. /\ \A u \in Requests : u # t => req'[u] = req[u]
        /\ req'[t].name = n /\ req'[t].ws = h /\ ~Inserting(t)' /\ req'[t].pc # "open"
        /\ evict[t].stage = "none"
    BY <1>8, <2>0 DEF Replaces, ReqIs, Onward, Inserting, HoldersInv
  <2>4. /\ \A e \in Threads : e # t => evict'[e] = evict[e]
        /\ evict'[t].stage = "hook" /\ evict'[t].name = v /\ evict'[t].ws = cache[v]
        /\ t \in Threads
    BY <1>8, <1>r DEF Replaces, EvictIs
  <2>5. \A s \in Queues : stack'[s].ws = stack[s].ws /\ \A k : Torn(s, k)' <=> Torn(s, k)
    BY <2>2 DEF Torn, StackAs
  <2>6. CASE m = n
    <3>0. /\ \A e \in Threads : ~Hooked(e, n)
          /\ \A s \in Queues : ~Torn(s, n)
      BY <2>1, <2>6 DEF Sound, HookedAlone, TornAlone
    <3>1. /\ \A e \in Threads : ~Hooked(e, n)'
          /\ \A s \in Queues : ~Torn(s, n)'
      BY <2>2, <2>4, <2>5, <3>0 DEF Hooked
    <3>2. CachedAlone(n)' /\ HookedAlone(n)' /\ TornAlone(n)'
      <4>1. \A u \in Requests : ~Inserts(u, n)'
        BY <2>1, <2>3 DEF Inserts, Inserting
      <4> QED BY <1>r, <2>0, <2>1, <2>2, <3>1, <4>1 DEF CachedAlone, HookedAlone, TornAlone,
                 Private, Inserts
    <3>3. RegistersCached(n)'
      BY <1>r, <2>1, <2>2, <2>3, <2>6 DEF Sound, RegistersCached, HoldersInv, WithHandle
    <3>4. RegistryHeld(n)' /\ Owned(n)'
      BY <1>r, <2>0, <2>1, <2>2, <2>3, <2>6, <3>0, <3>1 DEF Sound, RegistryHeld, Owned, OwnedBy
    <3> QED BY <2>6, <3>2, <3>3, <3>4 DEF Sound
  <2>7. CASE m = v
    <3>0. /\ \A e \in Threads : ~Hooked(e, v)
          /\ \A s \in Queues : ~Torn(s, v)
          /\ engine[cache[v]].open
      BY <1>r, <2>1, <2>7 DEF Sound, CachedAlone
    <3>1. /\ \A e \in Threads : Hooked(e, v)' => e = t
          /\ \A s \in Queues : ~Torn(s, v)'
          /\ Hooked(t, v)' /\ engine[cache[v]].open
      BY <2>4, <2>5, <3>0 DEF Hooked
    <3>2. \A u \in Requests : ~Inserts(u, v) /\ ~Inserts(u, v)'
      BY <1>r, <2>1, <2>2, <2>3, <2>7 DEF Sound, CachedAlone, Inserts, Inserting
    <3>3. CachedAlone(v)' /\ HookedAlone(v)' /\ TornAlone(v)'
      BY <2>2, <2>4, <3>1, <3>2 DEF CachedAlone, HookedAlone, TornAlone
    <3>4. RegistersCached(v)'
      BY <2>2, <2>3 DEF RegistersCached, Evictable
    <3>5. RegistryHeld(v)'
      BY <1>g, <2>2, <2>4, <2>5, <2>7, <3>0, <3>1 DEF Sound, RegistryHeld
    <3>6. Owned(v)'
      BY <2>1, <2>2, <2>4, <2>7, <3>0, <3>1, <3>2 DEF Sound, Owned, OwnedBy
    <3> QED BY <2>7, <3>3, <3>4, <3>5, <3>6 DEF Sound
  <2>8. CASE m # n /\ m # v
    <3>1. Quiet(m)
      BY <2>0, <2>1, <2>2, <2>3, <2>4, <2>5, <2>8 DEF Quiet, Hooked, Inserts, Inserting, Sound,
         RegistersCached
    <3> QED BY <3>1, Undisturbed
  <2> QED BY <2>6, <2>7, <2>8
<1>9. ASSUME NEW t \in Requests, NEW s \in Queues, Builds(t, s) PROVE Sound(m)'
  <2>1. Quiet(m)
    BY <1>9, <1>r, <1>g DEF Builds, StackIs, StackAs, ReqIs, Quiet, Hooked, Inserts, Inserting,
       Torn, Sound, RegistersCached
  <2> QED BY <2>1, Undisturbed
<1>10. ASSUME NEW t \in Requests, Drops(t) PROVE Sound(m)'
  <2>1. Quiet(m)
    BY <1>10 DEF Drops, StackKept, StackAs, ReqIs, Quiet, Hooked, Inserts, Inserting, Torn,
       Sound, RegistersCached
  <2> QED BY <2>1, Undisturbed
<1>11. ASSUME NEW t \in Requests, Adopts(t) PROVE Sound(m)'
  <2>1. Quiet(m)
    BY <1>11, <1>r, <1>m, <1>g DEF Adopts, StackIs, StackAs, ReqIs, Quiet, Hooked, Inserts,
       Inserting, Torn, Sound, RegistersCached, HasStack
  <2> QED BY <2>1, Undisturbed
<1>12. ASSUME NEW t \in Requests, Enters(t) PROVE Sound(m)'
  <2>1. CachedAlone(m)'
    BY <1>12 DEF Enters, StackIs, StackAs, ReqIs, Sound, CachedAlone, Hooked, Torn, Inserts,
       Inserting
  <2>2. HookedAlone(m)'
    BY <1>12 DEF Enters, StackIs, StackAs, ReqIs, Sound, HookedAlone, Hooked, Torn, Inserts,
       Inserting
  <2>3. TornAlone(m)'
    BY <1>12 DEF Enters, StackIs, StackAs, ReqIs, Sound, TornAlone, Torn, Inserts, Inserting
  <2>4. RegistersCached(m)'
    BY <1>12 DEF Enters, ReqIs, Sound, RegistersCached
  <2>5. RegistryHeld(m)'
    BY <1>12, <1>r, <1>m, <1>g DEF Enters, StackIs, StackAs, Sound, RegistersCached,
       RegistryHeld, Hooked, HoldersInv, WithHandle, HasStack
  <2>6. Owned(m)'
    BY <1>12, <1>m DEF Enters, StackIs, StackAs, ReqIs, Sound, Owned, OwnedBy, Hooked, Torn,
       Inserts, Inserting, HasStack
  <2> QED BY <2>1, <2>2, <2>3, <2>4, <2>5, <2>6 DEF Sound
<1>13. ASSUME NEW t \in Requests, Lets(t) PROVE Sound(m)'
  <2>1. Quiet(m)
    BY <1>13 DEF Lets, StackKept, StackAs, ReqIs, Quiet, Hooked, Inserts, Inserting, Torn,
       Sound, RegistersCached
  <2> QED BY <2>1, Undisturbed
<1>14. ASSUME NEW e \in Threads, NEW n \in Names, Detaches(e, n) PROVE Sound(m)'
  <2>1. CachedAlone(m)'
    BY <1>14 DEF Detaches, CacheIs, EvictIs, Sound, CachedAlone, Hooked, Torn, Inserts,
       Inserting
  <2>2. HookedAlone(m)'
    BY <1>14, <1>r DEF Detaches, EvictIs, Sound, CachedAlone, HookedAlone, Hooked, Torn,
       Inserts, Inserting, Private
  <2>3. TornAlone(m)'
    BY <1>14 DEF Detaches, Sound, TornAlone, Torn, Inserts, Inserting
  <2>4. RegistersCached(m)'
    BY <1>14 DEF Detaches, CacheIs, Sound, RegistersCached, Evictable
  <2>5. RegistryHeld(m)'
    BY <1>14 DEF Detaches, CacheIs, EvictIs, Sound, RegistryHeld, Hooked
  <2>6. Owned(m)'
    BY <1>14 DEF Detaches, CacheIs, EvictIs, Sound, Owned, OwnedBy, Hooked, Torn, Inserts,
       Inserting
  <2> QED BY <2>1, <2>2, <2>3, <2>4, <2>5, <2>6 DEF Sound
<1>15. ASSUME NEW e \in Threads, ClosesOnly(e) PROVE Sound(m)'
  <2>1. CachedAlone(m)'
    BY <1>15, <1>r DEF ClosesOnly, EngineIs, EvictIs, Sound, CachedAlone, Hooked, Torn, Named,
       Inserts, Inserting
  <2>2. HookedAlone(m)'
    BY <1>15, <1>r DEF ClosesOnly, EngineIs, EvictIs, Sound, HookedAlone, Hooked, Torn, Inserts,
       Inserting, Named, HoldersInv
  <2>3. TornAlone(m)'
    BY <1>15, <1>r DEF ClosesOnly, EngineIs, Sound, HookedAlone, TornAlone, Hooked, Torn,
       Inserts, Inserting, Named
  <2>4. RegistersCached(m)'
    BY <1>15 DEF ClosesOnly, Sound, RegistersCached
  <2>5. RegistryHeld(m)'
    BY <1>15 DEF ClosesOnly, EvictIs, Sound, RegistryHeld, Hooked
  <2>6. Owned(m)'
    BY <1>15 DEF ClosesOnly, EngineIs, EvictIs, Sound, Owned, OwnedBy, Hooked, Torn, Inserts,
       Inserting
  <2> QED BY <2>1, <2>2, <2>3, <2>4, <2>5, <2>6 DEF Sound
<1>16. ASSUME NEW e \in Threads, NEW s \in Queues, ClosesStack(e, s) PROVE Sound(m)'
  <2>1. CachedAlone(m)'
    BY <1>16, <1>r, <1>g DEF ClosesStack, StackIs, StackAs, EvictIs, Sound, CachedAlone, Hooked,
       Torn, HoldersInv, Inserts, Inserting
  <2>2. HookedAlone(m)'
    BY <1>16, <1>r, <1>g DEF ClosesStack, StackIs, StackAs, EvictIs, Sound, HookedAlone, Hooked,
       Torn, Inserts, Inserting, HoldersInv
  <2>3. TornAlone(m)'
    BY <1>16, <1>r, <1>g DEF ClosesStack, StackIs, StackAs, Sound, CachedAlone, HookedAlone,
       TornAlone, RegistryHeld, Torn, Inserts, Inserting, Private, HoldersInv
  <2>4. RegistersCached(m)'
    BY <1>16 DEF ClosesStack, Sound, RegistersCached
  <2>5. RegistryHeld(m)'
    BY <1>16, <1>r DEF ClosesStack, StackIs, StackAs, EvictIs, Sound, RegistryHeld, Hooked
  <2>6. Owned(m)'
    BY <1>16, <1>r DEF ClosesStack, StackIs, StackAs, EvictIs, Sound, CachedAlone, HookedAlone,
       RegistryHeld, Owned, OwnedBy, Hooked, Torn, Inserts, Inserting, Named
  <2> QED BY <2>1, <2>2, <2>3, <2>4, <2>5, <2>6 DEF Sound
<1>17. ASSUME NEW s \in Queues, Halts(s) PROVE Sound(m)'
  <2>1. Quiet(m)
    BY <1>17 DEF Halts, StackIs, StackAs, Quiet, Hooked, Inserts, Inserting, Torn, Sound,
       RegistersCached
  <2> QED BY <2>1, Undisturbed
<1>18. ASSUME NEW s \in Queues, Disposes(s) PROVE Sound(m)'
  <2>1. CachedAlone(m)'
    BY <1>18, <1>r, NothingHeld DEF Disposes, StackIs, StackAs, EngineIs, Sound, CachedAlone,
       Hooked, Torn, Named, Inserts, Inserting
  <2>2. HookedAlone(m)'
    BY <1>18, <1>r, NothingHeld DEF Disposes, StackIs, StackAs, EngineIs, Sound, HookedAlone,
       Hooked, Torn, Inserts, Inserting, Named, HoldersInv
  <2>3. TornAlone(m)'
    BY <1>18, <1>r DEF Disposes, StackIs, StackAs, EngineIs, Sound, TornAlone, Torn, Inserts,
       Inserting, Named
  <2>4. RegistersCached(m)'
    BY <1>18 DEF Disposes, Sound, RegistersCached
  <2>5. RegistryHeld(m)'
    BY <1>18, <1>r, <1>g DEF Disposes, StackIs, StackAs, Sound, RegistryHeld, Hooked, HoldersInv
  <2>6. Owned(m)'
    BY <1>18, <1>r DEF Disposes, StackIs, StackAs, EngineIs, Sound, Owned, OwnedBy, Hooked,
       Torn, Inserts, Inserting, HoldersInv
  <2> QED BY <2>1, <2>2, <2>3, <2>4, <2>5, <2>6 DEF Sound
<1>19. ASSUME Sweeps PROVE Sound(m)'
  <2>1. CachedAlone(m)'
    BY <1>19, <1>r, <1>g DEF Sweeps, Sound, CachedAlone, Hooked, Torn, Inserts, Inserting
  <2>2. HookedAlone(m)'
    BY <1>19 DEF Sweeps, HookedAlone, Hooked
  <2>3. TornAlone(m)'
    BY <1>19, <1>r, <1>g DEF Sweeps, Sound, TornAlone, Torn, Inserts, Inserting
  <2>4. RegistersCached(m)'
    BY <1>19 DEF Sweeps, Sound, RegistersCached
  <2>5. RegistryHeld(m)'
    BY <1>19 DEF Sweeps, RegistryHeld
  <2>6. Owned(m)'
    BY <1>19 DEF Sweeps, Sound, Owned, OwnedBy, Hooked, Torn, Inserts, Inserting
  <2> QED BY <2>1, <2>2, <2>3, <2>4, <2>5, <2>6 DEF Sound
<1>20. ASSUME Rests PROVE Sound(m)'
  <2>1. Quiet(m)
    BY <1>20 DEF Rests, Quiet, Hooked, Inserts, Inserting, Torn, Sound, RegistersCached
  <2> QED BY <2>1, Undisturbed
<1>21. ASSUME NEW t \in Requests, Seeks(t) PROVE Sound(m)'
  <2>1. Quiet(m)
    BY <1>21 DEF Seeks, ReqIs, StackKept, StackAs, Quiet, Hooked, Inserts, Inserting, Torn,
       Sound, RegistersCached
  <2> QED BY <2>1, Undisturbed
<1>22. ASSUME NEW t \in Requests, Joins(t) PROVE Sound(m)'
  <2>0. req[t].name # m /\ req[t].name \in Names
    BY <1>22, <1>r DEF Joins, Inserting, Inserts, Sound, CachedAlone
  <2>1. CachedAlone(m)'
    BY <1>22, <1>r, <2>0 DEF Joins, Inserting, EngineIs, ReqIs, StackKept, StackAs, Onward,
       Sound, CachedAlone, Hooked, Torn, Inserts, Named, Private
  <2>2. HookedAlone(m)'
    BY <1>22, <1>r, <2>0 DEF Joins, Inserting, EngineIs, ReqIs, StackKept, StackAs, Onward,
       Sound, HookedAlone, Hooked, Torn, Inserts, Private, HoldersInv
  <2>3. TornAlone(m)'
    BY <1>22, <1>r, <2>0 DEF Joins, Inserting, EngineIs, ReqIs, StackKept, StackAs, Onward,
       Sound, TornAlone, Torn, Inserts, Private
  <2>4. RegistersCached(m)'
    BY <1>22, <2>0 DEF Joins, ReqIs, Sound, RegistersCached
  <2>5. RegistryHeld(m)'
    BY <1>22, <1>g DEF Joins, StackKept, StackAs, Sound, RegistryHeld, Hooked
  <2>6. Owned(m)'
    BY <1>22, <1>r, <2>0 DEF Joins, Inserting, EngineIs, ReqIs, StackKept, StackAs, Sound, Owned,
       OwnedBy, Hooked, Torn, Inserts
  <2> QED BY <2>1, <2>2, <2>3, <2>4, <2>5, <2>6 DEF Sound
<1> QED BY ONLY HostInv, HoldersInv, HostNext, HolderSteps, <1>1, <1>2, <1>3, <1>4, <1>5, <1>6,
                <1>7, <1>8, <1>9, <1>10, <1>11, <1>12, <1>13, <1>14, <1>15, <1>16, <1>17, <1>18,
                <1>19, <1>20, <1>21, <1>22

-----------------------------------------------------------------------------
(* Until the stacks are closed, the engines of every workspace are owned.    *)

Early == host \in {"up", "http"}

EarlyInv == Early => ~mclosed /\ swept = {} /\ \A n \in Names : Sound(n)

\* The server does not go back, and what it sweeps it sweeps when its listener has closed.
ServerGoesOn ==
  Early' => Early /\ UNCHANGED mclosed /\ (swept = {} => swept' = {}) /\ ~Sweeps

LEMMA ServerMoves ==
  ASSUME HostInv, HoldersInv, HostNext
  PROVE  ServerGoesOn
<1>1. ASSUME NEW t \in Requests, NEW n \in Names, Hits(t, n) PROVE ServerGoesOn
  BY <1>1 DEF ServerGoesOn, Hits, Server, Early, Sweeps
<1>2. ASSUME NEW t \in Requests, NEW n \in Names, Misses(t, n) PROVE ServerGoesOn
  BY <1>2 DEF ServerGoesOn, Misses, Server, Early, Sweeps
<1>3. ASSUME NEW t \in Requests, Gets(t) PROVE ServerGoesOn
  BY <1>3 DEF ServerGoesOn, Gets, Server, Early, Sweeps
<1>4. ASSUME NEW t \in Requests, NEW h \in Handles, Opens(t, h) PROVE ServerGoesOn
  BY <1>4 DEF ServerGoesOn, Opens, Server, Early, Sweeps
<1>5. ASSUME NEW t \in Requests, Fails(t) PROVE ServerGoesOn
  BY <1>5 DEF ServerGoesOn, Fails, Server, Early, Sweeps
<1>6. ASSUME NEW t \in Requests, Forgoes(t) PROVE ServerGoesOn
  BY <1>6 DEF ServerGoesOn, Forgoes, Server, Early, Sweeps
<1>7. ASSUME NEW t \in Requests, Puts(t) PROVE ServerGoesOn
  BY <1>7 DEF ServerGoesOn, Puts, Server, Early, Sweeps
<1>8. ASSUME NEW t \in Requests, NEW v \in Names, Replaces(t, v) PROVE ServerGoesOn
  BY <1>8 DEF ServerGoesOn, Replaces, Server, Early, Sweeps
<1>9. ASSUME NEW t \in Requests, NEW s \in Queues, Builds(t, s) PROVE ServerGoesOn
  BY <1>9 DEF ServerGoesOn, Builds, Server, Early, Sweeps
<1>10. ASSUME NEW t \in Requests, Drops(t) PROVE ServerGoesOn
  BY <1>10 DEF ServerGoesOn, Drops, Server, Early, Sweeps
<1>11. ASSUME NEW t \in Requests, Adopts(t) PROVE ServerGoesOn
  BY <1>11 DEF ServerGoesOn, Adopts, Server, Early, Sweeps
<1>12. ASSUME NEW t \in Requests, Enters(t) PROVE ServerGoesOn
  BY <1>12 DEF ServerGoesOn, Enters, Server, Early, Sweeps
<1>13. ASSUME NEW t \in Requests, Lets(t) PROVE ServerGoesOn
  BY <1>13 DEF ServerGoesOn, Lets, Server, Early, Sweeps
<1>14. ASSUME NEW e \in Threads, NEW n \in Names, Detaches(e, n) PROVE ServerGoesOn
  BY <1>14 DEF ServerGoesOn, Detaches, Server, Early, Sweeps
<1>15. ASSUME NEW e \in Threads, ClosesOnly(e) PROVE ServerGoesOn
  BY <1>15 DEF ServerGoesOn, ClosesOnly, Server, Early, Sweeps
<1>16. ASSUME NEW e \in Threads, NEW s \in Queues, ClosesStack(e, s) PROVE ServerGoesOn
  BY <1>16 DEF ServerGoesOn, ClosesStack, Server, Early, Sweeps
<1>17. ASSUME NEW s \in Queues, Halts(s) PROVE ServerGoesOn
  BY <1>17 DEF ServerGoesOn, Halts, Server, Early, Sweeps
<1>18. ASSUME NEW s \in Queues, Disposes(s) PROVE ServerGoesOn
  BY <1>18 DEF ServerGoesOn, Disposes, Server, Early, Sweeps
<1>19. ASSUME Sweeps PROVE ServerGoesOn
  BY <1>19 DEF ServerGoesOn, Sweeps, Server, Early
<1>20. ASSUME Rests PROVE ServerGoesOn
  BY <1>20 DEF ServerGoesOn, Rests, Server, Early, Sweeps
<1>21. ASSUME NEW t \in Requests, Seeks(t) PROVE ServerGoesOn
  BY <1>21 DEF ServerGoesOn, Seeks, Server, Early, Sweeps
<1>22. ASSUME NEW t \in Requests, Joins(t) PROVE ServerGoesOn
  BY <1>22 DEF ServerGoesOn, Joins, Server, Early, Sweeps
<1> QED BY ONLY HostInv, HoldersInv, HostNext, HolderSteps, <1>1, <1>2, <1>3, <1>4, <1>5, <1>6,
                <1>7, <1>8, <1>9, <1>10, <1>11, <1>12, <1>13, <1>14, <1>15, <1>16, <1>17, <1>18,
                <1>19, <1>20, <1>21, <1>22

LEMMA EarlyNext ==
  ASSUME HostInv, HoldersInv, BaseInv, EarlyInv, HostRaces = {}, HostNext
  PROVE  EarlyInv'
<1> SUFFICES ASSUME Early' PROVE (~mclosed /\ swept = {} /\ \A n \in Names : Sound(n))'
  BY DEF EarlyInv
<1>1. Early /\ UNCHANGED mclosed /\ (swept = {} => swept' = {}) /\ ~Sweeps
  BY ServerMoves DEF ServerGoesOn
<1>2. ASSUME NEW n \in Names PROVE Sound(n)'
  BY <1>1, SoundNext DEF EarlyInv
<1> QED BY <1>1, <1>2 DEF EarlyInv

-----------------------------------------------------------------------------
(* The stacks of Home are assembled one after the other, and the engine that *)
(* a stack of Home was assembled with is open until the stack is disposed of,*)
(* whatever becomes of the other workspaces while the server shuts down.     *)

HomeStack(s) == stack[s].name = Home /\ stack[s].stage # "none"

HomeAlone ==
  \A t \in Requests : Assembling(t, Home) =>
    /\ \A u \in Requests : Assembling(u, Home) => u = t
    /\ registry[Home] = Nil
    /\ \A s \in Queues : HomeStack(s) /\ s # req[t].st =>
         req[t].pc \in {"open", "lock"} /\ Torn(s, Home)

HomeLive ==
  \A s \in Queues : HomeStack(s) /\ stack[s].stage = "live" =>
    registry[Home] = s \/ \E t \in Requests : Assembling(t, Home) /\ req[t].st = s

\* closeAll waits for the stack, and nobody evicts the workspace meanwhile.
HomeSwept ==
  /\ ~Early /\ registry[Home] = Nil
  /\ \A t \in Requests : ~Assembling(t, Home)
  /\ \A s \in Queues : HomeStack(s) /\ stack[s].ws # Nil =>
       /\ stack[s].stage \in {"closing", "stopped"} /\ s \in swept
       /\ engine[stack[s].ws].open /\ cache[Home] = stack[s].ws
       /\ \A e \in Threads : ~Hooked(e, Home)
       /\ \A r \in Queues : HomeStack(r) /\ stack[r].ws # Nil => r = s

HomeInv == HomeAlone /\ HomeLive /\ (Sound(Home) \/ HomeSwept)

LEMMA HomeAloneNext ==
  ASSUME HostInv, HoldersInv, BaseInv, HostRaces = {}, HomeInv, HostNext
  PROVE  HomeAlone'
<1>r. /\ HoldersInv /\ Named /\ Private /\ registry \in [Names -> Queues \union {Nil}]
      /\ cache \in [Names -> Handles \union {Nil}] /\ Requests \subseteq Threads
      /\ Nil \notin Handles /\ Nil \notin Queues /\ Nil \notin Names /\ Home \in Names
      /\ \A t \in Requests : req[t].pc # "idle" => req[t].name \in Names
      /\ \A s \in Queues : stack[s].ws \in Handles \union {Nil}
      /\ \A s \in Queues : stack[s].stage \in {"none", "live", "closing", "stopped"}
      /\ \A e \in Threads : evict[e].ws \in Handles \union {Nil}
  BY Ranges, HostAssumption DEF BaseInv, HostInv, HostShape, StackType
<1>m. \A t \in Requests :
        /\ req[t].pc \in {"open", "lock", "insert", "assemble"} => req[t].st = Nil
        /\ HasStack(t) => /\ req[t].st \in Queues /\ stack[req[t].st].name = req[t].name
                          /\ stack[req[t].st].stage = "live"
                          /\ registry[req[t].name] # req[t].st
                          /\ \A u \in Requests : HasStack(u) /\ u # t => req[u].st # req[t].st
  BY DEF HostInv, RequestsMatch
<1>g. \A n \in Names : registry[n] # Nil =>
        /\ registry[n] \in Queues /\ stack[registry[n]].stage = "live"
        /\ stack[registry[n]].name = n
  BY DEF HostInv, HostShape, Registered
<1>h. HomeAlone /\ HomeLive /\ (Sound(Home) \/ HomeSwept)
  BY DEF HomeInv
<1>1. ASSUME NEW t \in Requests, NEW n \in Names, Hits(t, n) PROVE HomeAlone'
  BY <1>1, <1>h DEF Hits, ReqIs, StackKept, StackAs, HomeAlone, Assembling, HomeStack, Torn
<1>2. ASSUME NEW t \in Requests, NEW n \in Names, Misses(t, n) PROVE HomeAlone'
  BY <1>2, <1>r, <1>h DEF Misses, ReqIs, StackKept, StackAs, HomeAlone, Assembling, HomeStack,
     Torn, AssemblyFree, HomeLive, Discarded
<1>3. ASSUME NEW t \in Requests, Gets(t) PROVE HomeAlone'
  BY <1>3, <1>h DEF Gets, ReqIs, StackKept, StackAs, HomeAlone, Assembling, HomeStack, Torn,
     Sound, CachedAlone, HomeSwept
<1>4. ASSUME NEW t \in Requests, NEW h \in Handles, Opens(t, h) PROVE HomeAlone'
  BY <1>4, <1>r, <1>h DEF Opens, ReqIs, StackKept, StackAs, HomeAlone, Assembling, HomeStack,
     Torn, Sound, TornAlone, HomeSwept, Locked, Named
<1>5. ASSUME NEW t \in Requests, Fails(t) PROVE HomeAlone'
  BY <1>5, <1>h DEF Fails, GivesUp, ReqIs, StackKept, StackIs, StackAs, HomeAlone, Assembling,
     HomeStack, Torn
<1>6. ASSUME NEW t \in Requests, Forgoes(t) PROVE HomeAlone'
  BY <1>6, <1>h DEF Forgoes, Inserting, GivesUp, ReqIs, StackKept, StackIs, StackAs, HomeAlone,
     Assembling, HomeStack, Torn
<1>7. ASSUME NEW t \in Requests, Puts(t) PROVE HomeAlone'
  BY <1>7, <1>h DEF Puts, Inserting, StackKept, StackAs, ReqIs, HomeAlone, Assembling,
     HomeStack, Torn
<1>8. ASSUME NEW t \in Requests, NEW v \in Names, Replaces(t, v) PROVE HomeAlone'
  BY <1>8, <1>h DEF Replaces, Inserting, StackKept, StackAs, ReqIs, HomeAlone, Assembling,
     HomeStack, Torn
<1>9. ASSUME NEW t \in Requests, NEW s \in Queues, Builds(t, s) PROVE HomeAlone'
  BY <1>9, <1>r, <1>m, <1>h DEF Builds, StackIs, StackAs, ReqIs, HomeAlone, Assembling,
     HomeStack, Torn
<1>10. ASSUME NEW t \in Requests, Drops(t) PROVE HomeAlone'
  BY <1>10, <1>h DEF Drops, StackKept, StackAs, ReqIs, HomeAlone, Assembling, HomeStack, Torn
<1>11. ASSUME NEW t \in Requests, Adopts(t) PROVE HomeAlone'
  BY <1>11, <1>h DEF Adopts, StackIs, StackAs, ReqIs, HomeAlone, Assembling, HomeStack, Torn
<1>12. ASSUME NEW t \in Requests, Enters(t) PROVE HomeAlone'
  BY <1>12, <1>h DEF Enters, StackIs, StackAs, ReqIs, HomeAlone, Assembling, HomeStack, Torn
<1>13. ASSUME NEW t \in Requests, Lets(t) PROVE HomeAlone'
  BY <1>13, <1>h DEF Lets, StackKept, StackAs, ReqIs, HomeAlone, Assembling, HomeStack, Torn
<1>14. ASSUME NEW e \in Threads, NEW n \in Names, Detaches(e, n) PROVE HomeAlone'
  BY <1>14, <1>h DEF Detaches, HomeAlone, Assembling, HomeStack, Torn
<1>15. ASSUME NEW e \in Threads, ClosesOnly(e) PROVE HomeAlone'
  BY <1>15, <1>h DEF ClosesOnly, HomeAlone, Assembling, HomeStack, Torn
<1>16. ASSUME NEW e \in Threads, NEW s \in Queues, ClosesStack(e, s) PROVE HomeAlone'
  BY <1>16, <1>r, <1>g, <1>h DEF ClosesStack, StackIs, StackAs, HomeAlone, Assembling,
     HomeStack, Torn, HoldersInv
<1>17. ASSUME NEW s \in Queues, Halts(s) PROVE HomeAlone'
  BY <1>17, <1>h DEF Halts, StackIs, StackAs, HomeAlone, Assembling, HomeStack, Torn
<1>18. ASSUME NEW s \in Queues, Disposes(s) PROVE HomeAlone'
  BY <1>18, <1>h DEF Disposes, StackIs, StackAs, HomeAlone, Assembling, HomeStack, Torn
<1>19. ASSUME Sweeps PROVE HomeAlone'
  BY <1>19, <1>r, <1>g, <1>h DEF Sweeps, HomeAlone, Assembling, HomeStack, Torn
<1>20. ASSUME Rests PROVE HomeAlone'
  BY <1>20, <1>h DEF Rests, HomeAlone, Assembling, HomeStack, Torn
<1>21. ASSUME NEW t \in Requests, Seeks(t) PROVE HomeAlone'
  BY <1>21, <1>h DEF Seeks, ReqIs, StackKept, StackAs, HomeAlone, Assembling, HomeStack, Torn
<1>22. ASSUME NEW t \in Requests, Joins(t) PROVE HomeAlone'
  BY <1>22, <1>h DEF Joins, Inserting, Onward, StackKept, StackAs, ReqIs, HomeAlone, Assembling,
     HomeStack, Torn
<1> QED BY ONLY HostInv, HoldersInv, HostNext, HolderSteps, <1>1, <1>2, <1>3, <1>4, <1>5, <1>6,
                <1>7, <1>8, <1>9, <1>10, <1>11, <1>12, <1>13, <1>14, <1>15, <1>16, <1>17, <1>18,
                <1>19, <1>20, <1>21, <1>22

LEMMA HomeLiveNext ==
  ASSUME HostInv, HoldersInv, BaseInv, HostRaces = {}, HomeInv, HostNext
  PROVE  HomeLive'
<1>r. /\ HoldersInv /\ Named /\ Private /\ registry \in [Names -> Queues \union {Nil}]
      /\ cache \in [Names -> Handles \union {Nil}] /\ Requests \subseteq Threads
      /\ Nil \notin Handles /\ Nil \notin Queues /\ Nil \notin Names /\ Home \in Names
      /\ \A t \in Requests : req[t].pc # "idle" => req[t].name \in Names
      /\ \A s \in Queues : stack[s].ws \in Handles \union {Nil}
      /\ \A s \in Queues : stack[s].stage \in {"none", "live", "closing", "stopped"}
      /\ \A e \in Threads : evict[e].ws \in Handles \union {Nil}
  BY Ranges, HostAssumption DEF BaseInv, HostInv, HostShape, StackType
<1>m. \A t \in Requests :
        /\ req[t].pc \in {"open", "lock", "insert", "assemble"} => req[t].st = Nil
        /\ HasStack(t) => /\ req[t].st \in Queues /\ stack[req[t].st].name = req[t].name
                          /\ stack[req[t].st].stage = "live"
                          /\ registry[req[t].name] # req[t].st
                          /\ \A u \in Requests : HasStack(u) /\ u # t => req[u].st # req[t].st
  BY DEF HostInv, RequestsMatch
<1>h. HomeAlone /\ HomeLive
  BY DEF HomeInv
<1>1. ASSUME NEW t \in Requests, NEW n \in Names, Hits(t, n) PROVE HomeLive'
  BY <1>1, <1>h DEF Hits, ReqIs, StackKept, StackAs, HomeLive, Assembling, HomeStack
<1>2. ASSUME NEW t \in Requests, NEW n \in Names, Misses(t, n) PROVE HomeLive'
  BY <1>2, <1>h DEF Misses, ReqIs, StackKept, StackAs, HomeLive, Assembling, HomeStack
<1>3. ASSUME NEW t \in Requests, Gets(t) PROVE HomeLive'
  BY <1>3, <1>h DEF Gets, ReqIs, StackKept, StackAs, After, HomeLive, Assembling, HomeStack
<1>4. ASSUME NEW t \in Requests, NEW h \in Handles, Opens(t, h) PROVE HomeLive'
  BY <1>4, <1>h DEF Opens, ReqIs, StackKept, StackAs, HomeLive, Assembling, HomeStack
<1>5. ASSUME NEW t \in Requests, Fails(t) PROVE HomeLive'
  BY <1>5, <1>h DEF Fails, GivesUp, ReqIs, StackKept, StackIs, StackAs, HomeLive, HomeAlone,
     Assembling, HomeStack
<1>6. ASSUME NEW t \in Requests, Forgoes(t) PROVE HomeLive'
  BY <1>6, <1>h DEF Forgoes, GivesUp, ReqIs, StackKept, StackIs, StackAs, HomeLive, HomeAlone,
     Assembling, HomeStack
<1>7. ASSUME NEW t \in Requests, Puts(t) PROVE HomeLive'
  BY <1>7, <1>h DEF Puts, StackKept, StackAs, ReqIs, Onward, HomeLive, Assembling, HomeStack
<1>8. ASSUME NEW t \in Requests, NEW v \in Names, Replaces(t, v) PROVE HomeLive'
  BY <1>8, <1>h DEF Replaces, Inserting, StackKept, StackAs, ReqIs, Onward, HomeLive,
     Assembling, HomeStack
<1>9. ASSUME NEW t \in Requests, NEW s \in Queues, Builds(t, s) PROVE HomeLive'
  BY <1>9, <1>r, <1>m, <1>h DEF Builds, StackIs, StackAs, ReqIs, HomeLive, Assembling, HomeStack
<1>10. ASSUME NEW t \in Requests, Drops(t) PROVE HomeLive'
  BY <1>10, <1>r, <1>m, <1>h DEF Drops, StackKept, StackAs, ReqIs, HomeLive, Assembling, HomeStack
<1>11. ASSUME NEW t \in Requests, Adopts(t) PROVE HomeLive'
  BY <1>11, <1>h DEF Adopts, StackIs, StackAs, ReqIs, HomeLive, Assembling, HomeStack
<1>12. ASSUME NEW t \in Requests, Enters(t) PROVE HomeLive'
  BY <1>12, <1>r, <1>h DEF Enters, StackIs, StackAs, ReqIs, HomeLive, Assembling, HomeStack
<1>13. ASSUME NEW t \in Requests, Lets(t) PROVE HomeLive'
  BY <1>13, <1>h DEF Lets, StackKept, StackAs, ReqIs, HomeLive, Assembling, HomeStack
<1>14. ASSUME NEW e \in Threads, NEW n \in Names, Detaches(e, n) PROVE HomeLive'
  BY <1>14, <1>h DEF Detaches, HomeLive, Assembling, HomeStack
<1>15. ASSUME NEW e \in Threads, ClosesOnly(e) PROVE HomeLive'
  BY <1>15, <1>h DEF ClosesOnly, HomeLive, Assembling, HomeStack
<1>16. ASSUME NEW e \in Threads, NEW s \in Queues, ClosesStack(e, s) PROVE HomeLive'
  BY <1>16, <1>h DEF ClosesStack, StackIs, StackAs, HomeLive, Assembling, HomeStack
<1>17. ASSUME NEW s \in Queues, Halts(s) PROVE HomeLive'
  BY <1>17, <1>h DEF Halts, StackIs, StackAs, HomeLive, Assembling, HomeStack
<1>18. ASSUME NEW s \in Queues, Disposes(s) PROVE HomeLive'
  BY <1>18, <1>h DEF Disposes, StackIs, StackAs, HomeLive, Assembling, HomeStack
<1>19. ASSUME Sweeps PROVE HomeLive'
  BY <1>19, <1>r, <1>h DEF Sweeps, HomeLive, Assembling, HomeStack
<1>20. ASSUME Rests PROVE HomeLive'
  BY <1>20, <1>h DEF Rests, HomeLive, Assembling, HomeStack
<1>21. ASSUME NEW t \in Requests, Seeks(t) PROVE HomeLive'
  BY <1>21, <1>h DEF Seeks, ReqIs, StackKept, StackAs, HomeLive, Assembling, HomeStack
<1>22. ASSUME NEW t \in Requests, Joins(t) PROVE HomeLive'
  BY <1>22, <1>h DEF Joins, StackKept, StackAs, ReqIs, Onward, HomeLive, Assembling, HomeStack
<1> QED BY ONLY HostInv, HoldersInv, HostNext, HolderSteps, <1>1, <1>2, <1>3, <1>4, <1>5, <1>6,
                <1>7, <1>8, <1>9, <1>10, <1>11, <1>12, <1>13, <1>14, <1>15, <1>16, <1>17, <1>18,
                <1>19, <1>20, <1>21, <1>22

LEMMA HomeSweptNext ==
  ASSUME HostInv, HoldersInv, BaseInv, HostRaces = {}, HomeInv, HomeSwept, HostNext
  PROVE  HomeSwept'
<1>r. /\ HoldersInv /\ Named /\ Private /\ registry \in [Names -> Queues \union {Nil}]
      /\ cache \in [Names -> Handles \union {Nil}] /\ Requests \subseteq Threads
      /\ Nil \notin Handles /\ Nil \notin Queues /\ Nil \notin Names /\ Home \in Names
      /\ \A t \in Requests : req[t].pc # "idle" => req[t].name \in Names
      /\ \A s \in Queues : stack[s].ws \in Handles \union {Nil}
      /\ \A s \in Queues : stack[s].stage \in {"none", "live", "closing", "stopped"}
      /\ \A e \in Threads : evict[e].ws \in Handles \union {Nil}
  BY Ranges, HostAssumption DEF BaseInv, HostInv, HostShape, StackType
<1>m. \A t \in Requests :
        /\ req[t].pc \in {"open", "lock", "insert", "assemble"} => req[t].st = Nil
        /\ HasStack(t) => /\ req[t].st \in Queues /\ stack[req[t].st].name = req[t].name
                          /\ stack[req[t].st].stage = "live"
                          /\ registry[req[t].name] # req[t].st
                          /\ \A u \in Requests : HasStack(u) /\ u # t => req[u].st # req[t].st
  BY DEF HostInv, RequestsMatch
<1>g. \A n \in Names : registry[n] # Nil =>
        /\ registry[n] \in Queues /\ stack[registry[n]].stage = "live"
        /\ stack[registry[n]].name = n
  BY DEF HostInv, HostShape, Registered
<1>h. HomeSwept /\ ~Early'
  BY ServerMoves DEF ServerGoesOn, HomeSwept
<1>1. ASSUME NEW t \in Requests, NEW n \in Names, Hits(t, n) PROVE HomeSwept'
  BY <1>1, <1>h DEF Hits, ReqIs, StackKept, StackAs, HomeSwept, HomeStack, Assembling, Hooked,
     Server
<1>2. ASSUME NEW t \in Requests, NEW n \in Names, Misses(t, n) PROVE HomeSwept'
  BY <1>2 DEF Misses, HomeSwept, Early
<1>3. ASSUME NEW t \in Requests, Gets(t) PROVE HomeSwept'
  BY <1>3, <1>h DEF Gets, ReqIs, StackKept, StackAs, HomeSwept, HomeStack, Assembling, Hooked,
     Server
<1>4. ASSUME NEW t \in Requests, NEW h \in Handles, Opens(t, h) PROVE HomeSwept'
  BY <1>4, <1>r, <1>h DEF Opens, EngineIs, ReqIs, StackKept, StackAs, HomeSwept, HomeStack,
     Assembling, Hooked, Server
<1>5. ASSUME NEW t \in Requests, Fails(t) PROVE HomeSwept'
  BY <1>5, <1>h DEF Fails, GivesUp, ReqIs, StackKept, StackIs, StackAs, HomeSwept, HomeStack,
     Assembling, Hooked, Server
<1>6. ASSUME NEW t \in Requests, Forgoes(t) PROVE HomeSwept'
  BY <1>6, <1>r, <1>h DEF Forgoes, GivesUp, EngineIs, ReqIs, StackKept, StackIs, StackAs,
     HomeSwept, HomeStack, Assembling, Hooked, Server, Named, WithHandle, HoldersInv
<1>7. ASSUME NEW t \in Requests, Puts(t) PROVE HomeSwept'
  BY <1>7, <1>r, <1>h DEF Puts, Inserting, CacheIs, StackKept, StackAs, ReqIs, HomeSwept,
     HomeStack, Assembling, Hooked, Server
<1>8. ASSUME NEW t \in Requests, NEW v \in Names, Replaces(t, v) PROVE HomeSwept'
  <2>0. /\ \A s \in Queues : StackAs(s)
        /\ \A k \in Names : k # req[t].name /\ k # v => cache'[k] = cache[k]
        /\ UNCHANGED <<engine, registry, Server>> /\ cache[req[t].name] = Nil /\ Evictable(v)
        /\ \A e \in Threads : Hooked(e, Home)' => Hooked(e, Home) \/ v = Home
    BY <1>8, <1>r DEF Replaces, StackKept, EvictIs, Hooked
  <2>1. \A u \in Requests : ~Assembling(u, Home)'
    BY <1>8, <1>r, <1>m, <1>g, <1>h DEF Replaces, Inserting, StackKept, StackAs, ReqIs, Onward,
       HomeSwept, Assembling, HasStack
  <2>2. \A s \in Queues : HomeStack(s)' => HomeStack(s)
    BY <2>0 DEF HomeStack, StackAs
  <2>3. \A s \in Queues : HomeStack(s) /\ stack[s].ws # Nil => v # Home /\ req[t].name # Home
    BY <1>h, <2>0 DEF HomeSwept, HomeStack, Evictable
  <2>4. ~Early' /\ registry'[Home] = Nil
    BY <1>h, <2>0 DEF HomeSwept
  <2> QED BY <1>r, <1>h, <2>0, <2>1, <2>2, <2>3, <2>4 DEF HomeSwept, StackAs, Server
<1>9. ASSUME NEW t \in Requests, NEW s \in Queues, Builds(t, s) PROVE HomeSwept'
  BY <1>9, <1>h DEF Builds, StackIs, StackAs, ReqIs, HomeSwept, HomeStack, Assembling, Hooked,
     Server
<1>10. ASSUME NEW t \in Requests, Drops(t) PROVE HomeSwept'
  BY <1>10, <1>h DEF Drops, StackKept, StackAs, ReqIs, HomeSwept, HomeStack, Assembling, Hooked,
     Server
<1>11. ASSUME NEW t \in Requests, Adopts(t) PROVE HomeSwept'
  BY <1>11, <1>h DEF Adopts, StackIs, StackAs, ReqIs, HomeSwept, HomeStack, Assembling, Hooked,
     Server
<1>12. ASSUME NEW t \in Requests, Enters(t) PROVE HomeSwept'
  BY <1>12, <1>h DEF Enters, StackIs, StackAs, ReqIs, HomeSwept, HomeStack, Assembling, Hooked,
     Server
<1>13. ASSUME NEW t \in Requests, Lets(t) PROVE HomeSwept'
  BY <1>13, <1>h DEF Lets, StackKept, StackAs, ReqIs, HomeSwept, HomeStack, Assembling, Hooked,
     Server
<1>14. ASSUME NEW e \in Threads, NEW n \in Names, Detaches(e, n) PROVE HomeSwept'
  BY <1>14, <1>r, <1>h DEF Detaches, CacheIs, EvictIs, HomeSwept, HomeStack, Assembling, Hooked,
     Server, Evictable
<1>15. ASSUME NEW e \in Threads, ClosesOnly(e) PROVE HomeSwept'
  BY <1>15, <1>r, <1>h DEF ClosesOnly, EngineIs, EvictIs, HomeSwept, HomeStack, Assembling,
     Hooked, Server, Named
<1>16. ASSUME NEW e \in Threads, NEW s \in Queues, ClosesStack(e, s) PROVE HomeSwept'
  BY <1>16, <1>h DEF ClosesStack, StackIs, StackAs, EvictIs, HomeSwept, HomeStack, Assembling,
     Hooked, Server, HoldersInv
<1>17. ASSUME NEW s \in Queues, Halts(s) PROVE HomeSwept'
  BY <1>17, <1>h DEF Halts, StackIs, StackAs, HomeSwept, HomeStack, Assembling, Hooked, Server
<1>18. ASSUME NEW s \in Queues, Disposes(s) PROVE HomeSwept'
  BY <1>18, <1>r, <1>h, NothingHeld DEF Disposes, StackIs, StackAs, EngineIs, HomeSwept,
     HomeStack, Assembling, Hooked, Named
<1>19. ASSUME Sweeps PROVE HomeSwept'
  BY <1>19 DEF Sweeps, HomeSwept, Early
<1>20. ASSUME Rests PROVE HomeSwept'
  BY <1>20, <1>h DEF Rests, HomeSwept, HomeStack, Assembling, Hooked, Server
<1>21. ASSUME NEW t \in Requests, Seeks(t) PROVE HomeSwept'
  BY <1>21, <1>h DEF Seeks, ReqIs, StackKept, StackAs, HomeSwept, HomeStack, Assembling, Hooked,
     Server
<1>22. ASSUME NEW t \in Requests, Joins(t) PROVE HomeSwept'
  BY <1>22, <1>r, <1>h DEF Joins, Inserting, EngineIs, StackKept, StackAs, ReqIs, HomeSwept,
     HomeStack, Assembling, Hooked, Server, Private
<1> QED BY ONLY HostInv, HoldersInv, HostNext, HolderSteps, <1>1, <1>2, <1>3, <1>4, <1>5, <1>6,
                <1>7, <1>8, <1>9, <1>10, <1>11, <1>12, <1>13, <1>14, <1>15, <1>16, <1>17, <1>18,
                <1>19, <1>20, <1>21, <1>22

LEMMA SweptStarts ==
  ASSUME HostInv, HoldersInv, BaseInv, HomeInv, HostRaces = {}, Sound(Home), Sweeps,
         registry[Home] # Nil
  PROVE  HomeSwept'
<1>r. /\ HoldersInv /\ Named /\ Private /\ registry \in [Names -> Queues \union {Nil}]
      /\ cache \in [Names -> Handles \union {Nil}] /\ Requests \subseteq Threads
      /\ Nil \notin Handles /\ Nil \notin Queues /\ Nil \notin Names /\ Home \in Names
      /\ \A t \in Requests : req[t].pc # "idle" => req[t].name \in Names
      /\ \A s \in Queues : stack[s].ws \in Handles \union {Nil}
      /\ \A s \in Queues : stack[s].stage \in {"none", "live", "closing", "stopped"}
      /\ \A e \in Threads : evict[e].ws \in Handles \union {Nil}
  BY Ranges, HostAssumption DEF BaseInv, HostInv, HostShape, StackType
<1>g. \A n \in Names : registry[n] # Nil =>
        /\ registry[n] \in Queues /\ stack[registry[n]].stage = "live"
        /\ stack[registry[n]].name = n
  BY DEF HostInv, HostShape, Registered
<1>1. /\ \A t \in Requests : ~Assembling(t, Home)
      /\ \A s \in Queues : HomeStack(s) /\ stack[s].stage = "live" => registry[Home] = s
  BY DEF HomeInv, HomeAlone, HomeLive
<1>2. /\ \A e \in Threads : evict[e].stage # "hook"
      /\ stack[registry[Home]].ws = cache[Home] /\ cache[Home] # Nil
  BY DEF Sweeps, Sound, RegistryHeld, Hooked
<1>3. /\ engine[cache[Home]].open /\ \A s \in Queues : ~Torn(s, Home)
  BY <1>2 DEF Sound, CachedAlone
<1>4. \A s \in Queues : HomeStack(s) /\ stack[s].ws # Nil => s = registry[Home]
  BY <1>1, <1>3, Records DEF HomeStack, Torn, StackType
<1>5. /\ \A t \in Requests : ~Assembling(t, Home)'
      /\ ~Early' /\ registry'[Home] = Nil /\ UNCHANGED <<engine, cache, evict>>
      /\ registry[Home] \in swept' /\ stack'[registry[Home]].stage = "closing"
      /\ \A s \in Queues : HomeStack(s)' /\ stack'[s].ws # Nil => HomeStack(s) /\ stack[s].ws # Nil
      /\ \A s \in Queues : stack'[s].ws = stack[s].ws
  BY <1>1, <1>g, <1>r DEF Sweeps, Early, Assembling, HomeStack
<1> QED BY <1>2, <1>3, <1>4, <1>5 DEF HomeSwept, Hooked

LEMMA HomeNext ==
  ASSUME HostInv, HoldersInv, BaseInv, HomeInv, HostRaces = {}, HostNext
  PROVE  HomeInv'
<1>1. HomeAlone' /\ HomeLive'
  BY HomeAloneNext, HomeLiveNext
<1>2. CASE HomeSwept
  BY <1>1, <1>2, HomeSweptNext DEF HomeInv
<1>3. CASE Sound(Home) /\ Sweeps /\ registry[Home] # Nil
  BY <1>1, <1>3, SweptStarts DEF HomeInv
<1>4. CASE Sound(Home) /\ (Sweeps => registry[Home] = Nil)
  BY <1>1, <1>4, SoundNext, HostAssumption DEF HomeInv
<1> QED BY <1>2, <1>3, <1>4 DEF HomeInv

-----------------------------------------------------------------------------
(* The ledger of Home is opened with no other assembly of it in the way.     *)

\* A queue that is not stopped belongs to a stack of Home.
JobsHeld ==
  \A q \in Queues : Assembled(q) => stack[q].name = Home /\ stack[q].stage \in {"live", "closing"}

OwnInv == /\ HostInv /\ BaseInv /\ EarlyInv /\ HomeInv
          /\ JobsHeld /\ LedgerTypes

LEMMA JobsKept ==
  ASSUME JobShape, NEW q \in Queues, Submit(q) \/ QueueStep(q) \/ StopSignal(q) \/ StopExpires(q)
  PROVE  \A p \in Queues : Assembled(p)' <=> Assembled(p)
<1>1. UNCHANGED shut
  BY DEF Submit, QueueStep, Run, Drain, Select, Start, Account, Gate, Finish, Nudge, StopSignal,
         StopExpires
<1>2. \/ UNCHANGED jpc
      \/ jpc[q] # "absent" /\ \E l : l # "absent" /\ jpc' = [jpc EXCEPT ![q] = l]
  <2>1. Submit(q) \/ StopSignal(q) \/ StopExpires(q) \/ Nudge(q) => UNCHANGED jpc
    BY DEF Submit, StopSignal, StopExpires, Nudge
  <2>2. ASSUME Run(q) \/ Drain(q) \/ Select(q) \/ Gate(q)
        PROVE  jpc[q] # "absent" /\ \E l : l # "absent" /\ jpc' = [jpc EXCEPT ![q] = l]
    BY <2>2 DEF Run, Drain, Select, Gate, Goto
  <2>3. ASSUME Start(q) \/ Account(q) \/ Finish(q)
        PROVE  jpc[q] # "absent" /\ \E l : l # "absent" /\ jpc' = [jpc EXCEPT ![q] = l]
    BY <2>3 DEF Start, Account, Finish, Goto
  <2> QED BY <2>1, <2>2, <2>3 DEF QueueStep
<1> QED BY <1>1, <1>2 DEF JobShape, Assembled

LEMMA JobsStopped ==
  ASSUME JobShape, NEW q \in Queues, StopUnstarted(q) \/ StopReturns(q)
  PROVE  ~Assembled(q)' /\ \A p \in Queues : Assembled(p)' => Assembled(p)
<1>1. CASE StopUnstarted(q)
  BY <1>1 DEF StopUnstarted, JobShape, Assembled
<1>2. CASE StopReturns(q)
  BY <1>2 DEF StopReturns, Forgotten, JobShape, Assembled
<1> QED BY <1>1, <1>2

LEMMA JobsIdle ==
  ASSUME JobsHeld, UNCHANGED jobVars,
         \A q \in Queues : stack[q].name = Home /\ stack[q].stage \in {"live", "closing"} =>
           stack'[q].name = Home /\ stack'[q].stage \in {"live", "closing"}
  PROVE  JobsHeld'
  BY DEF JobsHeld, Assembled, jobVars, queueVars

\* The jobs of Home step as their specification says, and belong to a stack of Home.
LEMMA HostLedger ==
  ASSUME OwnInv, HostRaces = {}, HostNext
  PROVE  [LedgerNext]_jobVars /\ JobsHeld'
<1>i. /\ HostInv /\ BaseInv /\ HoldersInv /\ HomeInv /\ JobsHeld /\ JobShape
      /\ \A s \in Queues : stack[s].stage \in {"none", "live", "closing", "stopped"}
  BY Records DEF OwnInv, BaseInv, LedgerTypes, LedgerTypeOK, JobShape, Places, StackType
<1>m. \A t \in Requests :
        /\ req[t].pc \in {"open", "lock", "insert", "assemble"} => req[t].st = Nil
        /\ HasStack(t) => /\ req[t].st \in Queues /\ stack[req[t].st].name = req[t].name
                          /\ stack[req[t].st].stage = "live"
  BY <1>i DEF HostInv, RequestsMatch
<1>k. UNCHANGED jobVars => [LedgerNext]_jobVars
  OBVIOUS
<1> DEFINE G == [LedgerNext]_jobVars /\ JobsHeld'
<1>1. ASSUME NEW t \in Requests, NEW n \in Names, AcquireHit(t, n) PROVE G
  <2>1. UNCHANGED jobVars /\ StackKept
    BY <1>1, <1>i, HitsSteps DEF AcquireHit, Hits
  <2> QED BY <1>i, <2>1, JobsIdle DEF StackKept, StackAs
<1>2. ASSUME NEW t \in Requests, NEW n \in Names, AcquireMiss(t, n) PROVE G
  <2>1. UNCHANGED jobVars /\ StackKept
    BY <1>2, <1>i, MissesSteps DEF AcquireMiss, Misses
  <2> QED BY <1>i, <2>1, JobsIdle DEF StackKept, StackAs
<1>3. ASSUME NEW t \in Requests, Workspace(t) \/ OpenWorkspace(t) \/ Insert(t) PROVE G
  <2>1. UNCHANGED jobVars
        /\ req[t].pc \in {"open", "lock", "insert", "reopen", "relock", "reinsert"}
    BY <1>3 DEF Workspace, OpenWorkspace, Insert
  <2>2. StackKept \/ GivesUp(t)
    BY <1>3, <1>i, WorkspaceSteps, InsertSteps
       DEF Gets, Seeks, Opens, Fails, Forgoes, Joins, Puts, Replaces
  <2> QED BY <1>i, <1>m, <2>1, <2>2, JobsIdle DEF StackKept, GivesUp, StackIs, StackAs, HasStack
<1>4. ASSUME NEW t \in Requests, Assemble(t) PROVE G
  <2>1. PICK s \in Queues :
          /\ Unused(s) /\ req[t].pc = "assemble"
          /\ \/ /\ IF req[t].name = Home THEN OpenLedger(s) ELSE UNCHANGED jobVars
                /\ stack' = [stack EXCEPT ![s] = [name |-> req[t].name, ws |-> req[t].ws,
                                                  refs |-> 0, stage |-> "live"]]
             \/ (UNCHANGED jobVars \/ (req[t].name = Home /\ OpenFails(s))) /\ UNCHANGED stack
    BY <1>4 DEF Assemble
  <2>2. req[t].name = Home => LockFree
    <3> SUFFICES ASSUME req[t].name = Home, NEW q \in Queues, Assembled(q) PROVE FALSE
      BY DEF LockFree, Assembled
    <3>1. HomeStack(q)
      BY <1>i DEF JobsHeld, HomeStack
    <3>2. Assembling(t, Home) /\ q # req[t].st
      BY <1>m, <2>1, HostAssumption DEF Assembling
    <3> QED BY <1>i, <2>1, <3>1, <3>2 DEF HomeInv, HomeAlone
  <2>3. \A q \in Queues : q # s => stack'[q] = stack[q]
    BY <1>i, <2>1 DEF HostInv, HostShape
  <2>4. CASE req[t].name = Home /\ OpenLedger(s)
             /\ stack' = [stack EXCEPT ![s] = [name |-> req[t].name, ws |-> req[t].ws,
                                               refs |-> 0, stage |-> "live"]]
    <3>1. [LedgerNext]_jobVars
      BY <2>2, <2>4 DEF LedgerNext
    <3>2. /\ \A q \in Queues : Assembled(q)' => q = s \/ Assembled(q)
      BY <2>4 DEF OpenLedger, Goto, Assembled
    <3>3. stack'[s].name = Home /\ stack'[s].stage = "live"
      BY <1>i, <2>4 DEF HostInv, HostShape
    <3> QED BY <1>i, <2>3, <3>1, <3>2, <3>3 DEF JobsHeld
  <2>5. CASE req[t].name = Home /\ OpenFails(s) /\ UNCHANGED stack
    <3>1. [LedgerNext]_jobVars
      BY <2>2, <2>5 DEF LedgerNext
    <3> QED BY <1>i, <2>5, <3>1 DEF JobsHeld, Assembled, OpenFails, queueVars
  <2>6. CASE UNCHANGED jobVars
    BY <1>i, <2>1, <2>3, <2>6, JobsIdle DEF Unused
  <2> QED BY <2>1, <2>4, <2>5, <2>6
<1>5. ASSUME NEW t \in Requests, Register(t) PROVE G
  <2>1. UNCHANGED jobVars /\ (Adopts(t) \/ Enters(t)) /\ HasStack(t)
    BY <1>5, <1>i, RegisterSteps DEF Register, HasStack
  <2> QED BY <1>i, <1>m, <2>1, JobsIdle DEF Adopts, Enters, StackIs, StackAs
<1>6. ASSUME NEW t \in Requests, ReleaseRef(t) PROVE G
  <2>1. UNCHANGED jobVars /\ StackKept
    BY <1>6, <1>i, ReleaseSteps DEF ReleaseRef, Lets
  <2> QED BY <1>i, <2>1, JobsIdle DEF StackKept, StackAs
<1>7. ASSUME NEW e \in Threads, Hook(e) PROVE G
  <2>1. UNCHANGED jobVars /\ (ClosesOnly(e) \/ \E s \in Queues : ClosesStack(e, s))
    BY <1>7, <1>i, HookMoves DEF Hook
  <2> QED BY <1>i, <1>k, <2>1, JobsIdle DEF ClosesOnly, ClosesStack, StackIs, StackAs
<1>8. ASSUME NEW s \in Queues, Teardown(s) PROVE G
  <2>1. Halts(s)
    BY <1>8, <1>i, TeardownSteps
  <2>2. \/ UNCHANGED jobVars /\ stack[s].name # Home
        \/ StopUnstarted(s) \/ StopReturns(s)
    BY <1>8 DEF Teardown
  <2>3. \A q \in Queues : Assembled(q)' => Assembled(q) /\ q # s
    BY <1>i, <2>2, JobsStopped DEF JobsHeld, Assembled, jobVars, queueVars
  <2>4. [LedgerNext]_jobVars
    BY <2>2 DEF LedgerNext, Stop
  <2> QED BY <1>i, <2>1, <2>3, <2>4 DEF JobsHeld, Halts, StackIs, StackAs
<1>9. ASSUME NEW s \in Queues, Dispose(s) PROVE G
  <2>1. UNCHANGED jobVars /\ Disposes(s)
    BY <1>9, <1>i, DisposeSteps DEF Dispose
  <2> QED BY <1>i, <2>1, JobsIdle DEF Disposes, StackIs, StackAs
<1>10. ASSUME CloseAll PROVE G
  <2>1. UNCHANGED jobVars /\ Sweeps
    BY <1>10, <1>i, SweepSteps DEF CloseAll
  <2> QED BY <1>i, <2>1, JobsIdle DEF Sweeps
<1>11. ASSUME Idle \/ CloseHandle PROVE G
  <2>1. UNCHANGED jobVars /\ UNCHANGED stack
    BY <1>11 DEF Idle, CloseHandle
  <2> QED BY <1>i, <2>1, JobsIdle
<1>12. ASSUME Elsewhere PROVE G
  <2>1. CASE \E s \in Queues : /\ Submit(s) \/ QueueStep(s) \/ StopSignal(s) \/ StopExpires(s)
                               /\ UNCHANGED stack
    <3>1. PICK s \in Queues : /\ Submit(s) \/ QueueStep(s) \/ StopSignal(s) \/ StopExpires(s)
                              /\ UNCHANGED stack
      BY <2>1
    <3>2. [LedgerNext]_jobVars
      BY <3>1 DEF LedgerNext, Stop
    <3>3. \A q \in Queues : Assembled(q)' <=> Assembled(q)
      BY <1>i, <3>1, JobsKept
    <3> QED BY <1>i, <3>1, <3>2, <3>3 DEF JobsHeld
  <2>2. CASE Signal
    <3>1. Sigterm \/ UNCHANGED jobVars
      BY <2>2 DEF Signal, Sigterm, jobVars
    <3>2. UNCHANGED <<jpc, shut, stack>> /\ [LedgerNext]_jobVars
      BY <2>2, <3>1 DEF Signal, queueVars, LedgerNext
    <3> QED BY <1>i, <3>2 DEF JobsHeld, Assembled
  <2>3. CASE CloseManager
    BY <1>i, <2>3, JobsIdle DEF CloseManager
  <2>4. ASSUME NEW t \in Requests, Serve(t)
        PROVE  \E s \in Queues : /\ Submit(s) \/ QueueStep(s) \/ StopSignal(s) \/ StopExpires(s)
                                 /\ UNCHANGED stack
    BY <1>i, <2>4 DEF Serve, hostVars, HostInv, RequestsMatch
  <2>5. \A s \in Queues :
          /\ StopQueue(s) => (StopSignal(s) \/ StopExpires(s)) /\ UNCHANGED stack
          /\ UNCHANGED hostVars => UNCHANGED stack
    BY DEF StopQueue, hostVars
  <2> QED BY <1>12, <2>1, <2>2, <2>3, <2>4, <2>5 DEF Elsewhere
<1> HIDE DEF G
<1>13. G
  BY ONLY HostNext, HostSteps, <1>1, <1>2, <1>3, <1>4, <1>5, <1>6, <1>7, <1>8, <1>9, <1>10,
          <1>11, <1>12
<1> QED BY <1>13 DEF G

\* The rest of the types: an open engine is a workspace's.
RestTypes ==
  /\ mclosed \in BOOLEAN /\ host \in {"up", "http", "stacks", "manager"} /\ swept \subseteq Queues
  /\ \A h \in Handles : engine[h].open => engine[h].name \in Names

LEMMA RestNext ==
  ASSUME HostInv, HoldersInv, RestTypes, HostNext
  PROVE  RestTypes'
<1>r. /\ \A t \in Requests : req[t].pc # "idle" => req[t].name \in Names
      /\ \A t \in Requests : Inserting(t) => req[t].ws \in Handles
      /\ \A e \in Threads : evict[e].stage = "hook" => evict[e].ws \in Handles
      /\ \A s \in Queues : stack[s].ws \in Handles \union {Nil}
  BY Ranges DEF HoldersInv, Inserting, WithHandle
<1>1. ASSUME NEW t \in Requests, NEW n \in Names, Hits(t, n) PROVE RestTypes'
  BY <1>1 DEF Hits, Server, RestTypes
<1>2. ASSUME NEW t \in Requests, NEW n \in Names, Misses(t, n) PROVE RestTypes'
  BY <1>2 DEF Misses, Server, RestTypes
<1>3. ASSUME NEW t \in Requests, Gets(t) PROVE RestTypes'
  BY <1>3 DEF Gets, Server, RestTypes
<1>4. ASSUME NEW t \in Requests, NEW h \in Handles, Opens(t, h) PROVE RestTypes'
  BY <1>4, <1>r DEF Opens, Server, RestTypes, EngineIs
<1>5. ASSUME NEW t \in Requests, Fails(t) PROVE RestTypes'
  BY <1>5 DEF Fails, Server, RestTypes
<1>6. ASSUME NEW t \in Requests, Forgoes(t) PROVE RestTypes'
  BY <1>6 DEF Forgoes, Server, RestTypes, EngineIs
<1>7. ASSUME NEW t \in Requests, Puts(t) PROVE RestTypes'
  BY <1>7 DEF Puts, Server, RestTypes
<1>8. ASSUME NEW t \in Requests, NEW v \in Names, Replaces(t, v) PROVE RestTypes'
  BY <1>8 DEF Replaces, Server, RestTypes
<1>9. ASSUME NEW t \in Requests, NEW s \in Queues, Builds(t, s) PROVE RestTypes'
  BY <1>9 DEF Builds, Server, RestTypes
<1>10. ASSUME NEW t \in Requests, Drops(t) PROVE RestTypes'
  BY <1>10 DEF Drops, Server, RestTypes
<1>11. ASSUME NEW t \in Requests, Adopts(t) PROVE RestTypes'
  BY <1>11 DEF Adopts, Server, RestTypes
<1>12. ASSUME NEW t \in Requests, Enters(t) PROVE RestTypes'
  BY <1>12 DEF Enters, Server, RestTypes
<1>13. ASSUME NEW t \in Requests, Lets(t) PROVE RestTypes'
  BY <1>13 DEF Lets, Server, RestTypes
<1>14. ASSUME NEW e \in Threads, NEW n \in Names, Detaches(e, n) PROVE RestTypes'
  BY <1>14 DEF Detaches, Server, RestTypes
<1>15. ASSUME NEW e \in Threads, ClosesOnly(e) PROVE RestTypes'
  BY <1>15 DEF ClosesOnly, Server, RestTypes, EngineIs
<1>16. ASSUME NEW e \in Threads, NEW s \in Queues, ClosesStack(e, s) PROVE RestTypes'
  BY <1>16 DEF ClosesStack, Server, RestTypes
<1>17. ASSUME NEW s \in Queues, Halts(s) PROVE RestTypes'
  BY <1>17 DEF Halts, Server, RestTypes
<1>18. ASSUME NEW s \in Queues, Disposes(s) PROVE RestTypes'
  BY <1>18 DEF Disposes, RestTypes, EngineIs
<1>19. ASSUME Sweeps PROVE RestTypes'
  BY <1>19 DEF Sweeps, Server, RestTypes
<1>20. ASSUME Rests PROVE RestTypes'
  BY <1>20, <1>r DEF Rests, Server, RestTypes
<1>21. ASSUME NEW t \in Requests, Seeks(t) PROVE RestTypes'
  BY <1>21 DEF Seeks, Server, RestTypes
<1>22. ASSUME NEW t \in Requests, Joins(t) PROVE RestTypes'
  BY <1>22 DEF Joins, Server, RestTypes, EngineIs
<1> QED BY ONLY HostInv, HoldersInv, HostNext, HolderSteps, <1>1, <1>2, <1>3, <1>4, <1>5, <1>6,
                <1>7, <1>8, <1>9, <1>10, <1>11, <1>12, <1>13, <1>14, <1>15, <1>16, <1>17, <1>18,
                <1>19, <1>20, <1>21, <1>22

LEMMA OwnInit == HostInit => OwnInv /\ RestTypes
<1> SUFFICES ASSUME HostInit PROVE OwnInv /\ RestTypes
  OBVIOUS
<1>1. /\ HostInv /\ BaseInv /\ LedgerInit
  BY HostInvInit, BaseInit DEF HostInit
<1>2. /\ engine = [h \in Handles |-> NoEngine] /\ cache = [n \in Names |-> Nil]
      /\ registry = [n \in Names |-> Nil] /\ stack = [s \in Queues |-> NoStack]
      /\ req = [t \in Requests |-> NoRequest] /\ evict = [e \in Threads |-> NoEvict]
      /\ host = "up" /\ swept = {} /\ mclosed = FALSE
      /\ jpc = [q \in Queues |-> "absent"]
  BY DEF HostInit, LedgerInit
<1>3. /\ \A t \in Requests : req[t].pc = "idle"
      /\ \A e \in Threads : evict[e].stage = "none"
      /\ \A s \in Queues : stack[s].stage = "none" /\ stack[s].ws = Nil
      /\ \A n \in Names : cache[n] = Nil /\ registry[n] = Nil
      /\ \A h \in Handles : ~engine[h].open
  BY <1>2, NothingHeld DEF NoEngine
<1>4. \A n \in Names : Sound(n)
  BY <1>3 DEF Sound, CachedAlone, HookedAlone, TornAlone, RegistersCached, RegistryHeld, Owned,
     Hooked, Torn
<1>5. EarlyInv /\ HomeInv
  BY <1>2, <1>3, <1>4, HostAssumption DEF EarlyInv, HomeInv, HomeAlone, HomeLive, Assembling,
     HomeStack
<1>6. JobsHeld /\ LedgerTypes
  BY <1>1, <1>2, LedgerTypesInit DEF JobsHeld, Assembled
<1>7. RestTypes
  BY <1>2, <1>3 DEF RestTypes
<1> QED BY <1>1, <1>5, <1>6, <1>7 DEF OwnInv

LEMMA OwnNext ==
  ASSUME HostRaces = {}, OwnInv, RestTypes, [HostNext]_serveVars
  PROVE  [LedgerNext]_jobVars /\ (OwnInv /\ RestTypes)'
<1>1. CASE HostNext
  <2>1. HostInv /\ BaseInv /\ HoldersInv /\ EarlyInv /\ HomeInv /\ LedgerTypes
    BY DEF OwnInv, BaseInv
  <2>2. [LedgerNext]_jobVars /\ JobsHeld'
    BY <1>1, HostLedger
  <2>3. HostInv'
    BY <1>1, <2>1, HostShapeNext, RegisteredNext, RequestsMatchNext, RefsCountNext DEF HostInv
  <2>4. BaseInv' /\ EarlyInv' /\ HomeInv' /\ RestTypes'
    BY <1>1, <2>1, BaseNext, EarlyNext, HomeNext, RestNext
  <2>5. LedgerTypes'
    BY <2>1, <2>2, LedgerTypesNext
  <2> QED BY <2>2, <2>3, <2>4, <2>5 DEF OwnInv
<1>2. CASE UNCHANGED serveVars
  <2>1. HostInv' /\ BaseInv'
    BY <1>2, HostInvStutters, BaseStutters DEF OwnInv
  <2>2. UNCHANGED hostVars /\ UNCHANGED jobVars
    BY <1>2 DEF serveVars
  <2>3. LedgerTypes' /\ JobsHeld'
    BY <2>2, LedgerTypesNext DEF OwnInv, JobsHeld, Assembled, hostVars, jobVars, queueVars
  <2>4. /\ UNCHANGED <<engine, cache, registry, stack, req, evict, host, swept, mclosed>>
    BY <2>2 DEF hostVars
  <2>5. \A n \in Names : Sound(n) => Sound(n)'
    BY <2>4 DEF Sound, CachedAlone, HookedAlone, TornAlone, RegistersCached, RegistryHeld,
       Owned, OwnedBy, Hooked, Torn, Inserts, Inserting
  <2>6. EarlyInv' /\ RestTypes'
    BY <2>4, <2>5 DEF OwnInv, EarlyInv, Early, RestTypes
  <2>7. HomeInv'
    BY <2>4, <2>5, HostAssumption DEF OwnInv, HomeInv, HomeAlone, HomeLive, HomeSwept,
       Assembling, HomeStack,
       Torn, Hooked, Early
  <2> QED BY <2>1, <2>2, <2>3, <2>6, <2>7 DEF OwnInv
<1> QED BY <1>1, <1>2

LEMMA OwnHolds == ASSUME HostRaces = {} PROVE HostSpec => [](OwnInv /\ RestTypes)
  BY OwnInit, OwnNext, PTL DEF HostSpec

\* No more workspaces are cached than are in the order of use.
LEMMA CachedFit ==
  ASSUME HostInv, CacheFollows
  PROVE  Cardinality({n \in Names : cache[n] # Nil}) <= MaxOpen
<1> DEFINE C == {n \in Names : cache[n] # Nil}
           f == [i \in 1..Len(recent) |-> recent[i]]
<1>1. /\ Len(recent) \in Nat /\ Len(recent) <= MaxOpen
      /\ \A i \in 1..Len(recent) : recent[i] \in Names
  BY DEF HostInv, HostShape, CacheFollows
<1>2. f \in Surjection(1..Len(recent), C)
  BY <1>1 DEF Surjection, CacheFollows, Listed
<1>3. IsFiniteSet(1..Len(recent)) /\ Cardinality(1..Len(recent)) = Len(recent)
  BY <1>1, FS_Interval
<1> HIDE DEF C, f
<1>4. IsFiniteSet(C) /\ Cardinality(C) <= Len(recent)
  BY <1>2, <1>3, FS_Surjection
<1>5. Cardinality(C) \in Nat
  BY <1>4, FS_CardinalityType
<1>6. Cardinality(C) <= MaxOpen
  BY <1>1, <1>4, <1>5, HostAssumption
<1> QED BY <1>6 DEF C

LEMMA OwnTypes == ASSUME OwnInv, RestTypes PROVE HostTypeOK
<1>1. /\ HostInv /\ HoldersInv /\ CacheFollows /\ LedgerTypeOK
  BY DEF OwnInv, BaseInv, LedgerTypes
<1>2. ToSet(recent) \subseteq Names /\ IsInjective(recent)
  BY <1>1 DEF HostInv, HostShape, CacheFollows, Once, ToSet, IsInjective
<1>3. stack \in [Queues -> [name : Names \union {Nil}, ws : Handles \union {Nil},
                            refs : Nat, stage : {"none", "live", "closing", "stopped"}]]
  <2>1. \A s \in Queues : stack[s] \in StackType /\ stack[s].refs \in Nat
    BY <1>1, Records, FS_CardinalityType DEF HostInv, RefsCount
  <2> QED BY <1>1, <2>1 DEF StackType, HostInv, HostShape
<1>4. /\ \A t \in Requests :
           req[t].pc \in {"idle", "open", "lock", "insert", "assemble", "reopen", "relock", "reinsert",
                          "register", "serve"}
      /\ \A e \in Threads : evict[e].stage \in {"none", "hook", "wait"}
  BY <1>1, Records DEF ReqType, EvictType
<1> QED BY <1>1, <1>2, <1>3, <1>4 DEF HostTypeOK, HoldersInv, EngineShape, HostInv, HostShape,
           RestTypes

LEMMA OwnersKnown == ASSUME OwnInv, RestTypes PROVE EnginesAreOwned
<1>1. Cardinality({n \in Names : cache[n] # Nil}) <= MaxOpen
  BY CachedFit DEF OwnInv, BaseInv
<1>2. ASSUME Early, NEW h \in Handles, engine[h].open PROVE Known(h)
  <2>1. engine[h].name \in Names /\ Sound(engine[h].name)
    BY <1>2 DEF RestTypes, OwnInv, EarlyInv
  <2>2. OwnedBy(h, engine[h].name)
    BY <1>2, <2>1 DEF Sound, Owned
  <2> QED BY <2>1, <2>2 DEF OwnedBy, Known
<1> QED BY <1>1, <1>2 DEF EnginesAreOwned, Early

\* The engine of a stack of Home that is served or torn down is open, and Home's.
LEMMA EngineHeld ==
  ASSUME OwnInv, NEW s \in Queues, Assembled(s), stack[s].ws # Nil,
         \A t \in Requests : req[t].st = s => req[t].pc = "serve"
  PROVE  engine[stack[s].ws] = [name |-> Home, open |-> TRUE]
<1>1. /\ stack[s].name = Home /\ stack[s].stage \in {"live", "closing"} /\ HomeStack(s)
      /\ stack[s].ws \in Handles
  BY Ranges DEF OwnInv, JobsHeld, HomeStack
<1>2. engine[stack[s].ws].name = Home /\ EngineShape
  BY <1>1 DEF OwnInv, BaseInv, Named, HoldersInv
<1>3. engine[stack[s].ws].open
  <2>1. CASE stack[s].stage = "closing"
    BY <1>1, <2>1 DEF OwnInv, HomeInv, HomeSwept, Sound, TornAlone, Torn
  <2>2. CASE stack[s].stage = "live"
    <3>1. registry[Home] = s /\ s # Nil
      BY <1>1, <2>2, HostAssumption DEF OwnInv, HomeInv, HomeLive, Assembling
    <3>2. Sound(Home)
      BY <3>1 DEF OwnInv, HomeInv, HomeSwept
    <3> QED BY <3>1, <3>2 DEF Sound, RegistryHeld, CachedAlone, HookedAlone
  <2> QED BY <1>1, <2>1, <2>2
<1> DEFINE x == engine[stack[s].ws]
<1>4. x \in [name : Names \union {Nil}, open : BOOLEAN] /\ x.name = Home /\ x.open
  BY <1>1, <1>2, <1>3 DEF EngineShape
<1> HIDE DEF x
<1>5. x = [name |-> Home, open |-> TRUE]
  BY <1>4
<1> QED BY <1>5 DEF x

\* Without compiles that outlive their Stop, one queue at most compiles.
LEMMA OneCompiles ==
  ASSUME OneServes, NoneLingers PROVE Cardinality(Compiling) <= 1
<1>1. \A p, q \in Compiling : p = q
  BY DEF Compiling, OneServes, NoneLingers, Assembled
<1>2. CASE Compiling = {}
  BY <1>2, FS_EmptySet
<1>3. CASE \E q : Compiling = {q}
  BY <1>3, FS_Singleton
<1>4. Compiling = {} \/ \E q : Compiling = {q}
  BY <1>1
<1> QED BY <1>2, <1>3, <1>4

-----------------------------------------------------------------------------
\* In the server the jobs of a workspace behave as JobLedger says: a ledger is only opened
\* when the workspace has no other assembly (acquire and assemble in internal/serve, which
\* JobLedger stands in for with LockFree), and only its own operations touch it.  Hence what
\* is proved of the ledger holds in the server.
THEOREM JobsFollowTheLedger == ASSUME HostRaces = {} PROVE HostSpec => LedgerSpec
<1>1. HostInit => LedgerInit
  BY DEF HostInit
<1> QED BY <1>1, OwnHolds, OwnNext, PTL DEF HostSpec, LedgerSpec

\* Hence, in the server: no job's compile is started a second time, an accepted job stays in
\* the file and in the gauge, and a verdict is final (as in JobLedger, but for every eviction,
\* assembly and shutdown that internal/serve/stack.go and pkg/engine/manager.go allow).
THEOREM ServersJobsAreSafe ==
  ASSUME HostRaces = {}, "late" \notin JobFaults
  PROVE  HostSpec => []StartedOnce /\ []AcceptedIsAccounted /\ VerdictIsFinal
<1>1. LedgerSpec => []StartedOnce /\ []AcceptedIsAccounted /\ VerdictIsFinal
  BY JobsStartOnce, AcceptedJobsAreAccounted, VerdictsAreFinal
<1> QED BY <1>1, JobsFollowTheLedger

\* What the manager and the registry keep: their types, no more cached workspaces than
\* MaxOpen, and an owner for every open engine until the stacks are closed (Workspace, put,
\* evaluateIdle, evict): one that puts it into the cache, the cache, the thread that detached
\* it, or the stack that is torn down with it.
THEOREM EnginesHaveOwners == ASSUME HostRaces = {} PROVE HostSpec => []OwnershipInv
<1>1. OwnInv /\ RestTypes => OwnershipInv
  BY OwnTypes, OwnersKnown DEF OwnershipInv
<1> QED BY <1>1, OwnHolds, PTL

\* One compile runs at a time in a workspace, and the workspace's lock is held for its stack
\* (stack.go: close stops the queue before it closes the engine; closeAll before Manager.Close).
THEOREM CompilesHoldTheLock ==
  ASSUME HostRaces = {}, {"linger", "late"} \intersect JobFaults = {}
  PROVE  HostSpec => []CompilesUnderLock
<1>1. OwnInv /\ OneServes /\ NoneLingers => CompilesUnderLock
  <2> SUFFICES ASSUME OwnInv, OneServes, NoneLingers PROVE CompilesUnderLock
    OBVIOUS
  <2>1. \A s \in Queues : jpc[s] = "exec" => Assembled(s)
    BY DEF NoneLingers, Assembled
  <2> QED BY <2>1, OneCompiles, EngineHeld DEF CompilesUnderLock
<1>2. LedgerSpec => [](OneServes /\ NoneLingers)
  <2>1. LedgerInv => OneServes
    BY DEF LedgerInv
  <2>2. LedgerSpec => []LedgerInv
    BY LedgerHolds
  <2>3. LedgerSpec => []NoneLingers
    BY LingersHolds
  <2> QED BY <2>1, <2>2, <2>3, PTL
<1> QED BY <1>1, <1>2, OwnHolds, JobsFollowTheLedger, PTL

=============================================================================
