------------------------------ MODULE ServeHost ------------------------------
(* The multi-workspace server: the engine manager with its LRU and idle       *)
(* eviction (pkg/engine/manager.go), the registry of workspace stacks whose   *)
(* requests hold references (internal/serve/stack.go, multi.go), and, for the *)
(* workspace Home, the job queue of each of its stacks (JobLedger).           *)
EXTENDS JobLedger, Sequences, SequencesExt

CONSTANTS
  Names, Home,   \* the workspaces; the one whose jobs are followed
  Requests,      \* concurrent requests
  Handles,       \* engine handles, a slot is used again once nobody knows it
  MaxOpen,       \* WithMaxOpen
  IdleClose,     \* is there an idle loop?
  HostRaces,     \* "assembly": two requests may assemble Home at once;
                 \* "window": a workspace may be evicted when it is about to be registered;
                 \* "sweep": closeAll may empty the registry under an eviction
  Nil

ASSUME HostAssumption ==
  /\ MaxOpen \in Nat \ {0} /\ Home \in Names /\ IdleClose \in BOOLEAN
  /\ HostRaces \subseteq {"assembly", "window", "sweep"}
  /\ Nil \notin Names \union Handles \union Queues
  /\ Requests \intersect {"idle", "root"} = {}

VARIABLES
  engine,    \* each handle: its workspace, and whether it is open (holds the lock)
  cache,     \* Manager.handles
  recent,    \* the cached workspaces, least recently used first
  mclosed,   \* Manager.closed
  registry,  \* stackRegistry.stacks
  stack,     \* each stack: workspace, engine handle, references, stage
  req,       \* each request: where it stands, what it holds
  evict,     \* each thread that closes a handle: see Hook
  host,      \* the root server: up, or a stage of its Shutdown
  swept      \* the stacks closeAll has still to see closed

hostVars == <<engine, cache, recent, mclosed, registry, stack, req, evict, host, swept>>
serveVars == <<hostVars, jobVars>>

NoEngine  == [name |-> Nil, open |-> FALSE]
NoStack   == [name |-> Nil, ws |-> Nil, refs |-> 0, stage |-> "none"]
NoRequest == [pc |-> "idle", name |-> Nil, ws |-> Nil, st |-> Nil]
NoEvict   == [stage |-> "none", name |-> Nil, ws |-> Nil, st |-> Nil]
Threads   == Requests \union {"idle", "root"}

HostInit ==
  /\ LedgerInit
  /\ engine = [h \in Handles |-> NoEngine]
  /\ cache = [n \in Names |-> Nil] /\ recent = <<>> /\ mclosed = FALSE
  /\ registry = [n \in Names |-> Nil] /\ stack = [s \in Queues |-> NoStack]
  /\ req = [t \in Requests |-> NoRequest] /\ evict = [e \in Threads |-> NoEvict]
  /\ host = "up" /\ swept = {}

-----------------------------------------------------------------------------
Locked(n) == \E h \in Handles : engine[h].open /\ engine[h].name = n

Known(h) ==
  \/ \E n \in Names : cache[n] = h
  \/ \E s \in Queues : stack[s].ws = h
  \/ \E t \in Requests : req[t].ws = h
  \/ \E e \in Threads : evict[e].ws = h

Unused(s) == stack[s].stage = "none" /\ jpc[s] = "absent"

\* The cached workspaces without n, and with n used last.
Others(n) ==
  IF n \in ToSet(recent) THEN RemoveAt(recent, CHOOSE i \in DOMAIN recent : recent[i] = n)
                         ELSE recent
Touched(n) == Append(Others(n), n)

Assembling(t, n) == req[t].name = n /\ req[t].pc \notin {"idle", "serve"}

\* A stack that never was registered, being torn down without its engine.
Discarded(s, n) == stack[s].name = n /\ stack[s].stage # "none" /\ stack[s].ws = Nil

\* The hypothesis under which the stacks of Home are assembled one at a time.
AssemblyFree(n) ==
  \/ "assembly" \in HostRaces \/ n # Home
  \/ /\ \A t \in Requests : ~Assembling(t, n)
     /\ \A s \in Queues : ~Discarded(s, n)

\* The hypotheses under which a workspace is not evicted between the second look at its
\* handle and its registration, or while closeAll waits for its stack.
Evictable(n) ==
  /\ "window" \in HostRaces \/ \A t \in Requests : ~(req[t].name = n /\ req[t].pc = "register")
  /\ "sweep" \in HostRaces \/ \A s \in swept : stack[s].name # n

\* Where the call of Manager.Workspace returns to.
After(pc) == IF pc \in {"reopen", "relock"} THEN "register" ELSE "assemble"

-----------------------------------------------------------------------------
(* A request: stackRegistry.acquire, then the handler, then release.         *)

AcquireHit(t, n) ==
  LET s == registry[n] IN
  /\ req[t].pc = "idle" /\ host = "up" /\ s # Nil /\ stack[s].stage = "live"
  /\ stack' = [stack EXCEPT ![s].refs = @ + 1]
  /\ req' = [req EXCEPT ![t] = [pc |-> "serve", name |-> n, ws |-> Nil, st |-> s]]
  /\ recent' = IF ~mclosed /\ cache[n] # Nil THEN Touched(n) ELSE recent
  /\ UNCHANGED <<engine, cache, mclosed, registry, evict, host, swept, jobVars>>

AcquireMiss(t, n) ==
  /\ req[t].pc = "idle" /\ host = "up"
  /\ registry[n] = Nil
  /\ AssemblyFree(n)
  /\ req' = [req EXCEPT ![t] = [pc |-> "open", name |-> n, ws |-> Nil, st |-> Nil]]
  /\ UNCHANGED <<engine, cache, recent, mclosed, registry, stack, evict, host, swept,
                 jobVars>>

\* The request's failure path: a stack that was assembled is torn down without its engine.
Abandon(t) ==
  /\ req' = [req EXCEPT ![t] = NoRequest]
  /\ stack' = IF req[t].st = Nil THEN stack
              ELSE [stack EXCEPT ![req[t].st].ws = Nil, ![req[t].st].stage = "closing"]

\* Manager.Workspace looks for a cached handle.
Workspace(t) ==
  LET n == req[t].name IN
  /\ req[t].pc \in {"open", "reopen"}
  /\ \/ /\ ~mclosed /\ cache[n] # Nil
        /\ req' = [req EXCEPT ![t].pc = After(@), ![t].ws = cache[n]]
        /\ recent' = Touched(n) /\ UNCHANGED stack
     \/ /\ ~mclosed /\ cache[n] = Nil
        /\ req' = [req EXCEPT ![t].pc = IF @ = "open" THEN "lock" ELSE "relock"]
        /\ UNCHANGED <<recent, stack>>
     \/ mclosed /\ Abandon(t) /\ UNCHANGED recent
  /\ UNCHANGED <<engine, cache, mclosed, registry, evict, host, swept, jobVars>>

\* It found none, and opens one.  While another has the workspace's lock it looks again,
\* until the attempts are used up; the engine may refuse for other reasons.
OpenWorkspace(t) ==
  LET n == req[t].name IN
  /\ req[t].pc \in {"lock", "relock"}
  /\ \/ /\ ~Locked(n)
        /\ \E h \in Handles :
             /\ ~Known(h) /\ ~engine[h].open
             /\ engine' = [engine EXCEPT ![h] = [name |-> n, open |-> TRUE]]
             /\ req' = [req EXCEPT ![t].pc = IF @ = "lock" THEN "insert" ELSE "reinsert",
                                   ![t].ws = h]
        /\ UNCHANGED <<recent, stack>>
     \/ /\ ~mclosed /\ cache[n] # Nil
        /\ req' = [req EXCEPT ![t].pc = After(@), ![t].ws = cache[n]]
        /\ recent' = Touched(n) /\ UNCHANGED <<engine, stack>>
     \/ Abandon(t) /\ UNCHANGED <<engine, recent>>
  /\ UNCHANGED <<cache, mclosed, registry, evict, host, swept, jobVars>>

UnclosedInsert(t) ==
  LET n == req[t].name  h == req[t].ws IN
  /\ req[t].pc \in {"insert", "reinsert"} /\ ~mclosed
  /\ cache' = [m \in Names |-> IF m = n THEN h
                               ELSE IF Len(recent) >= MaxOpen /\ m = Head(recent) THEN Nil
                               ELSE cache[m]]
  /\ recent' = Append(IF Len(recent) >= MaxOpen THEN Tail(recent) ELSE recent, n)
  /\ req' = [req EXCEPT ![t].pc = IF @ = "insert" THEN "assemble" ELSE "register"]
  /\ UNCHANGED <<engine, evict, stack, mclosed, registry, host, swept, jobVars>>

\* The new handle enters the cache; the least recently used one leaves it if need be.  When
\* another's handle is there already, that one is used, and the new one closed.
Insert(t) ==
  LET n == req[t].name  h == req[t].ws  next == IF req[t].pc = "insert" THEN "assemble"
                                                ELSE "register" IN
  /\ req[t].pc \in {"insert", "reinsert"}
  /\ \/ /\ mclosed
        /\ engine' = [engine EXCEPT ![h].open = FALSE]
        /\ Abandon(t) /\ UNCHANGED <<cache, recent, evict>>
     \/ /\ ~mclosed /\ cache[n] # Nil
        /\ engine' = [engine EXCEPT ![h].open = FALSE]
        /\ req' = [req EXCEPT ![t].pc = next, ![t].ws = cache[n]]
        /\ recent' = Touched(n)
        /\ UNCHANGED <<stack, cache, evict>>
     \/ /\ ~mclosed /\ cache[n] = Nil /\ Len(recent) < MaxOpen
        /\ cache' = [cache EXCEPT ![n] = h] /\ recent' = Touched(n)
        /\ req' = [req EXCEPT ![t].pc = next]
        /\ UNCHANGED <<engine, stack, evict>>
     \/ /\ ~mclosed /\ cache[n] = Nil /\ Len(recent) >= MaxOpen
        /\ LET v == Head(recent) IN
             /\ Evictable(v)
             /\ cache' = [cache EXCEPT ![v] = Nil, ![n] = h]
             /\ recent' = Append(Tail(recent), n)
             /\ evict' = [evict EXCEPT ![t] =
                            [stage |-> "hook", name |-> v, ws |-> cache[v], st |-> Nil]]
        /\ req' = [req EXCEPT ![t].pc = next]
        /\ UNCHANGED <<engine, stack>>
  /\ UNCHANGED <<mclosed, registry, host, swept, jobVars>>

\* assemble: the stack around the handle; the ledger of Home is opened, its queue started.
\* It fails when the workspace has to be upgraded, or a part of the stack cannot be made;
\* the handle stays in the cache.
Assemble(t) ==
  LET n == req[t].name IN
  /\ req[t].pc = "assemble" /\ evict[t].stage = "none"
  /\ \E s \in Queues :
       /\ Unused(s)
       /\ \/ /\ IF n = Home THEN OpenLedger(s) ELSE UNCHANGED jobVars
             /\ stack' = [stack EXCEPT ![s] = [name |-> n, ws |-> req[t].ws, refs |-> 0,
                                               stage |-> "live"]]
             /\ req' = [req EXCEPT ![t].pc = "reopen", ![t].st = s]
          \/ /\ UNCHANGED jobVars \/ (n = Home /\ OpenFails(s))
             /\ req' = [req EXCEPT ![t] = NoRequest]
             /\ UNCHANGED stack
  /\ UNCHANGED <<engine, cache, recent, mclosed, registry, evict, host, swept>>

\* The second call's handle replaces one that was evicted meanwhile; a stack that came
\* first is adopted, and the duplicate torn down without its engine.
Register(t) ==
  LET n == req[t].name  s == req[t].st  first == registry[n] IN
  /\ req[t].pc = "register" /\ evict[t].stage = "none"
  /\ IF first # Nil /\ stack[first].stage = "live"
     THEN /\ stack' = [stack EXCEPT ![first].refs = @ + 1,
                                    ![s].ws = Nil, ![s].stage = "closing"]
          /\ req' = [req EXCEPT ![t].pc = "serve", ![t].ws = Nil, ![t].st = first]
          /\ UNCHANGED registry
     ELSE /\ stack' = [stack EXCEPT ![s].ws = req[t].ws, ![s].refs = 1]
          /\ registry' = [registry EXCEPT ![n] = s]
          /\ req' = [req EXCEPT ![t].pc = "serve", ![t].ws = Nil]
  /\ UNCHANGED <<engine, cache, recent, mclosed, evict, host, swept, jobVars>>

\* POST /compile, by a request that holds a reference to a stack of Home.
Serve(t) ==
  /\ req[t].pc = "serve" /\ req[t].name = Home
  /\ Submit(req[t].st)
  /\ UNCHANGED hostVars

ReleaseRef(t) ==
  /\ req[t].pc = "serve"
  /\ stack' = [stack EXCEPT ![req[t].st].refs = @ - 1]
  /\ req' = [req EXCEPT ![t] = NoRequest]
  /\ UNCHANGED <<engine, cache, recent, mclosed, registry, evict, host, swept, jobVars>>

-----------------------------------------------------------------------------
(* Eviction and teardown.                                                    *)

\* evaluateIdle detaches a handle that was not used for a while.
Idle ==
  /\ IdleClose /\ ~mclosed /\ evict["idle"].stage = "none"
  /\ \E n \in Names :
       /\ cache[n] # Nil /\ Evictable(n)
       /\ cache' = [cache EXCEPT ![n] = Nil] /\ recent' = Others(n)
       /\ evict' = [evict EXCEPT !["idle"] =
                      [stage |-> "hook", name |-> n, ws |-> cache[n], st |-> Nil]]
  /\ UNCHANGED <<engine, mclosed, registry, stack, req, host, swept, jobVars>>

HookClosesEngine(e) ==
  LET n == evict[e].name  s == registry[n]  h == evict[e].ws IN
  /\ evict[e].stage = "hook"
  /\ registry' = [registry EXCEPT ![n] = Nil]
  /\ engine' = [engine EXCEPT ![h].open = FALSE]
  /\ IF s = Nil
     THEN /\ evict' = [evict EXCEPT ![e] = NoEvict] /\ UNCHANGED stack
     ELSE /\ stack' = [stack EXCEPT ![s].stage = "closing"]
          /\ evict' = [evict EXCEPT ![e].stage = "wait", ![e].st = s]
  /\ UNCHANGED <<cache, recent, mclosed, req, host, swept, jobVars>>

\* stackRegistry.evict: the stack, when there is one, is closed with its engine;
\* otherwise the engine alone.
Hook(e) ==
  LET n == evict[e].name  s == registry[n]  h == evict[e].ws IN
  /\ evict[e].stage = "hook"
  /\ registry' = [registry EXCEPT ![n] = Nil]
  /\ IF s = Nil
     THEN /\ engine' = [engine EXCEPT ![h].open = FALSE]
          /\ evict' = [evict EXCEPT ![e] = NoEvict]
          /\ UNCHANGED stack
     ELSE /\ stack' = [stack EXCEPT ![s].stage = "closing"]
          /\ evict' = [evict EXCEPT ![e].stage = "wait", ![e].st = s]
          /\ UNCHANGED engine
  /\ UNCHANGED <<cache, recent, mclosed, req, host, swept, jobVars>>

DrainlessTeardown(s) ==
  /\ stack[s].stage = "closing"
  /\ \/ stack[s].name # Home /\ UNCHANGED jobVars
     \/ stack[s].name = Home /\ (StopUnstarted(s) \/ StopReturns(s))
  /\ stack' = [stack EXCEPT ![s].stage = "stopped"]
  /\ UNCHANGED <<engine, cache, recent, mclosed, registry, req, evict, host, swept>>

UnstoppedTeardown(s) ==
  /\ stack[s].stage = "closing" /\ stack[s].refs = 0
  /\ stack' = [stack EXCEPT ![s].stage = "stopped"]
  /\ UNCHANGED <<engine, cache, recent, mclosed, registry, req, evict, host, swept,
                 jobVars>>

\* close: no new references, the last one is awaited, then the queue is stopped.
Teardown(s) ==
  /\ stack[s].stage = "closing" /\ stack[s].refs = 0
  /\ \/ stack[s].name # Home /\ UNCHANGED jobVars
     \/ stack[s].name = Home /\ (StopUnstarted(s) \/ StopReturns(s))
  /\ stack' = [stack EXCEPT ![s].stage = "stopped"]
  /\ UNCHANGED <<engine, cache, recent, mclosed, registry, req, evict, host, swept>>

StopQueue(s) ==
  /\ stack[s].stage = "closing" /\ stack[s].refs = 0 /\ stack[s].name = Home
  /\ StopSignal(s) \/ StopExpires(s)
  /\ UNCHANGED hostVars

\* The workspace's lock is released last; whoever waited for the teardown goes on.
Dispose(s) ==
  /\ stack[s].stage = "stopped"
  /\ engine' = IF stack[s].ws = Nil THEN engine
               ELSE [engine EXCEPT ![stack[s].ws].open = FALSE]
  /\ stack' = [stack EXCEPT ![s] = NoStack]
  /\ evict' = [e \in Threads |-> IF evict[e].st = s THEN NoEvict ELSE evict[e]]
  /\ swept' = swept \ {s}
  /\ UNCHANGED <<cache, recent, mclosed, registry, req, host, jobVars>>

-----------------------------------------------------------------------------
(* Shutdown of the root server: requests, stacks, manager.                   *)

\* The signal, which is the parent of every queue's context as well.
Signal ==
  /\ host = "up"
  /\ host' = "http" /\ sigterm' = TRUE
  /\ UNCHANGED <<engine, cache, recent, mclosed, registry, stack, req, evict, swept,
                 jobFile, queueVars, accounted, jobFaults, accepted, runs>>

\* The drain of the listener ends, with its requests or without them.
CloseAll ==
  LET all == {registry[n] : n \in Names} \ {Nil} IN
  /\ host = "http"
  /\ "sweep" \in HostRaces \/ \A e \in Threads : evict[e].stage # "hook"
  /\ host' = "stacks" /\ swept' = all
  /\ registry' = [n \in Names |-> Nil]
  /\ stack' = [s \in Queues |-> IF s \in all THEN [stack[s] EXCEPT !.stage = "closing"]
                                ELSE stack[s]]
  /\ UNCHANGED <<engine, cache, recent, mclosed, req, evict, jobVars>>

CloseManager ==
  /\ host = "stacks" /\ swept = {}
  /\ host' = "manager" /\ mclosed' = TRUE
  /\ UNCHANGED <<engine, cache, recent, registry, stack, req, evict, swept, jobVars>>

\* Manager.Close, one handle after the other, when the idle loop has ended.
CloseHandle ==
  /\ host = "manager" /\ evict["idle"].stage = "none" /\ evict["root"].stage = "none"
  /\ \E n \in Names :
       /\ cache[n] # Nil /\ Evictable(n)
       /\ cache' = [cache EXCEPT ![n] = Nil] /\ recent' = Others(n)
       /\ evict' = [evict EXCEPT !["root"] =
                      [stage |-> "hook", name |-> n, ws |-> cache[n], st |-> Nil]]
  /\ UNCHANGED <<engine, mclosed, registry, stack, req, host, swept, jobVars>>

-----------------------------------------------------------------------------
RequestStep(t) ==
  \/ Workspace(t) \/ OpenWorkspace(t) \/ Insert(t) \/ Assemble(t) \/ Register(t)
  \/ ReleaseRef(t)

HostNext ==
  \/ \E t \in Requests :
       \/ \E n \in Names : AcquireHit(t, n) \/ AcquireMiss(t, n)
       \/ RequestStep(t) \/ Serve(t)
  \/ \E e \in Threads : Hook(e)
  \/ \E s \in Queues :
       \/ Teardown(s) \/ StopQueue(s) \/ Dispose(s)
       \/ QueueStep(s) /\ UNCHANGED hostVars
  \/ Idle \/ Signal \/ CloseAll \/ CloseManager \/ CloseHandle

HostSpec == HostInit /\ [][HostNext]_serveVars

-----------------------------------------------------------------------------
\* The host's variables, and those of its job queues, stay in their ranges.
HostTypeOK ==
  /\ LedgerTypeOK
  /\ engine \in [Handles -> [name : Names \union {Nil}, open : BOOLEAN]]
  /\ cache \in [Names -> Handles \union {Nil}]
  /\ ToSet(recent) \subseteq Names /\ IsInjective(recent) /\ mclosed \in BOOLEAN
  /\ registry \in [Names -> Queues \union {Nil}]
  /\ stack \in [Queues -> [name : Names \union {Nil}, ws : Handles \union {Nil},
                           refs : Nat, stage : {"none", "live", "closing", "stopped"}]]
  /\ \A t \in Requests :
       req[t].pc \in {"idle", "open", "lock", "insert", "assemble",
                      "reopen", "relock", "reinsert", "register", "serve"}
  /\ \A e \in Threads : evict[e].stage \in {"none", "hook", "wait"}
  /\ host \in {"up", "http", "stacks", "manager"}
  /\ swept \subseteq Queues

\* A request never works on a stack that is being shut down under it.
ServedStackIsUp ==
  \A t \in Requests :
    req[t].pc = "serve" => stack[req[t].st].stage \in {"live", "closing"}

\* One compile runs at a time in a workspace, and only while the workspace's lock is held
\* for its stack, except in a stack that is still being assembled, or was never used.
CompilesUnderLock ==
  /\ Cardinality(Compiling) <= 1
  /\ \A s \in Queues :
       /\ jpc[s] = "exec" /\ stack[s].ws # Nil
       /\ \A t \in Requests : req[t].st = s => req[t].pc = "serve"
       => engine[stack[s].ws] = [name |-> Home, open |-> TRUE]

\* No more workspaces are cached than MaxOpen, and every open engine has an owner that will
\* close it, until the stacks are closed: requests that outlive the listener's drain then
\* find closed engines in the cache, and what they open last only the process's end closes.
EnginesAreOwned ==
  /\ Cardinality({n \in Names : cache[n] # Nil}) <= MaxOpen
  /\ host \in {"up", "http"} => \A h \in Handles : engine[h].open => Known(h)

\* What the manager and the registry keep: their types, and that no engine is lost.
OwnershipInv == HostTypeOK /\ EnginesAreOwned
=============================================================================
