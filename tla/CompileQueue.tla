---------------------------- MODULE CompileQueue ----------------------------
(***************************************************************************)
(* sage-wiki's durable compile queue (the compile_items table,             *)
(* src/internal/compiler/items.go) and what drains it: one worker per      *)
(* serve process (worker.go, worker_cycle.go, index.go, fullpipeline.go)   *)
(* and, in the same process, on-demand compiles (ondemand.go) behind the   *)
(* compile coordinator.  Processes share the table and the manifest.       *)
(*                                                                         *)
(* A worker's cycle is a sequence of steps (pc), one per transaction or    *)
(* file access: scan and upsert, claim per tier, read and apply per pass,  *)
(* release per item, finish.  Between them users edit files, other         *)
(* processes run their cycles, leases lapse, and processes die.            *)
(*                                                                         *)
(* Content is its version number: version v of a source also has hash v.   *)
(***************************************************************************)
EXTENDS Integers, FiniteSets, Functions

CONSTANTS
  Sources, Workers,
  Nobody, Gone,      \* no lease owner; the token of a process that died
  DefaultTier,       \* what ResolveTier answers: [Sources -> Tiers]
  MaxAttempts,       \* cfg max_attempts
  Popular,           \* the sources that queries hit often (none: cfg
                     \*   auto_promote is off)
  OnDemand,          \* the sources that on-demand compiles ask for
  MaxEdits,          \* bound: edits of the sources
  MaxErrs,           \* bound: errors recorded on one row
  MaxRequests,       \* bound: on-demand compiles
  Faults,            \* which of "crash", "stall", and a failed "claim", "read",
                     \*   "save" and "embed" there may be
  MaxFaults          \* bound: faults

Tiers == {0, 1, 3}

ASSUME QueueAssumption ==
  /\ Nobody \notin Workers /\ Gone \notin Workers /\ Nobody # Gone
  /\ DefaultTier \in [Sources -> Tiers] /\ OnDemand \subseteq Sources
  /\ Popular \subseteq Sources
  /\ MaxAttempts \in Nat \ {0}
  /\ MaxEdits \in Nat /\ MaxErrs \in Nat /\ MaxFaults \in Nat
  /\ MaxRequests \in Nat

VARIABLES
  disk,              \* version of each source file
  manifest,          \* the version .manifest.json records, 0 if none
  row,               \* the compile_items table
  raw, vec, summary, \* version behind "src:" entry, chunk vectors, summary entry
  pc, todo,          \* a worker's step, and the items the step is still to do
  claims,            \* what it claimed, per tier: the rows as they then were
  got,               \* the versions it read from disk, 0 when not read
  ours,              \* the versions its copy of the manifest was given
  errored, unread, incomplete,
  od,                \* the on-demand compile of each process
  faults, asked,     \* history: how many faults and on-demand requests there were
  lost,              \* history: items whose lease lapsed, or whose row was
                     \*   reset for new content, under a worker
  failed             \* history: attempts that failed in a row on a row's
                     \*   content, counted up to MaxAttempts

table   == <<row, raw, vec, summary>>
files   == <<disk, manifest>>
cycle   == <<pc, todo, claims, got, ours, errored, unread, incomplete>>
history == <<faults, asked, lost, failed>>
vars    == <<files, table, cycle, od, history>>

Pass == [t \in Tiers |-> IF t = 0 THEN "indexed" ELSE IF t = 1 THEN "embedded"
                         ELSE "written"]   \* the three LLM passes are one

NoRow == [hash |-> 0, tier |-> 0, flags |-> {}, status |-> "pending",
          owner |-> Nobody, lapsed |-> FALSE, attempts |-> 0, errs |-> 0,
          hot |-> FALSE]

NoClaims  == [t \in Tiers |-> [s \in {} |-> NoRow]]
NoVersion == [s \in Sources |-> 0]
NoRequest == [pc |-> "none", src |-> Nobody, hash |-> 0, got |-> 0]

Init ==
  /\ disk = [s \in Sources |-> 1] /\ manifest = NoVersion
  /\ row = [s \in Sources |-> NoRow]
  /\ raw = NoVersion /\ vec = NoVersion /\ summary = NoVersion
  /\ pc = [w \in Workers |-> "idle"] /\ todo = [w \in Workers |-> {}]
  /\ claims = [w \in Workers |-> NoClaims]
  /\ got = [w \in Workers |-> NoVersion] /\ ours = [w \in Workers |-> NoVersion]
  /\ errored = [w \in Workers |-> {}] /\ unread = [w \in Workers |-> {}]
  /\ incomplete = [w \in Workers |-> FALSE]
  /\ od = [w \in Workers |-> NoRequest]
  /\ faults = 0 /\ asked = 0 /\ lost = [w \in Workers |-> {}] /\ failed = NoVersion

-----------------------------------------------------------------------------
(* The table's operations, on one row.  The definitions named after a wrong  *)
(* variant (Sticky..., Unfenced..., ...) are mistakes the runs must notice;   *)
(* the specification does not use them.                                      *)

PendingAtOwnTier(t, r) == r.hash # 0 /\ r.tier = t /\ Pass[t] \notin r.flags

\* pendingWhere: tier t has a pass to do on the row.
Pending(t, r) == r.hash # 0 /\ r.tier >= t /\ Pass[t] \notin r.flags

Owes(r) == \E t \in Tiers : Pending(t, r)

\* A tier-3 row needs no vectors to be complete.
TierComplete(r) ==
  /\ "indexed" \in r.flags
  /\ r.tier = 1 => "embedded" \in r.flags
  /\ r.tier = 3 => "written" \in r.flags

StickyFlags(r, h, t) ==
  IF r.hash = h THEN [r EXCEPT !.tier = t, !.errs = 0]
  ELSE [NoRow EXCEPT !.hash = h, !.tier = t, !.hot = r.hot, !.flags = r.flags]
StickyLease(r, h, t) ==
  IF r.hash = h THEN [r EXCEPT !.tier = t, !.errs = 0]
  ELSE [NoRow EXCEPT !.hash = h, !.tier = t, !.hot = r.hot, !.owner = r.owner]
StickyAttempts(r, h, t) ==
  IF r.hash = h THEN [r EXCEPT !.tier = t, !.errs = 0]
  ELSE [NoRow EXCEPT !.hash = h, !.tier = t, !.hot = r.hot, !.attempts = r.attempts]

\* New content: a fresh row; the same content: tier and errors are reset.
Upserted(r, h, t) ==
  IF r.hash = h THEN [r EXCEPT !.tier = t, !.errs = 0]
  ELSE [NoRow EXCEPT !.hash = h, !.tier = t, !.hot = r.hot]

UnfencedClaimable(r, t, w) == Pending(t, r) /\ r.status # "failed"

Claimable(r, t, w) ==
  /\ Pending(t, r) /\ r.status # "failed"
  /\ r.owner = Nobody \/ r.lapsed \/ r.owner = w

Leased(r, w) == [r EXCEPT !.status = "leased", !.owner = w, !.lapsed = FALSE]

Unleased(r, st) == [r EXCEPT !.status = st, !.owner = Nobody, !.lapsed = FALSE]

UnfencedReleased(r, w, outcome) ==
  IF outcome = "done" THEN Unleased(r, IF TierComplete(r) THEN "done" ELSE "pending")
  ELSE [Unleased(r, IF outcome = "retry" THEN "pending" ELSE "failed") EXCEPT !.attempts = @ + 1]

UncountedReleased(r, w, outcome) ==
  IF r.owner # w THEN r
  ELSE Unleased(r, IF outcome = "failed" THEN "failed"
                   ELSE IF outcome = "done" /\ TierComplete(r) THEN "done" ELSE "pending")

\* Release matches on the lease's owner: a stale holder changes nothing.
Released(r, w, outcome) ==
  IF r.owner # w THEN r
  ELSE IF outcome = "retry"
       THEN [Unleased(r, "pending") EXCEPT !.attempts = @ + 1]
       ELSE [Unleased(r, IF outcome = "failed" THEN "failed"
                         ELSE IF TierComplete(r) THEN "done" ELSE "pending")
               EXCEPT !.attempts = 0]

Requeued(r) ==
  IF r.status = "leased" /\ r.lapsed THEN Unleased(r, "pending") ELSE r

\* MarkPass and MarkError do not ask who holds the lease.
Marked(r, pass) == [r EXCEPT !.flags = @ \cup {pass}]
Erred(r)        == [r EXCEPT !.errs = @ + 1]

-----------------------------------------------------------------------------
(* A worker's cycle. *)

Passes == {"index0", "index1", "embed", "llm"}
InPass == Passes \cup {"mark", "release"}

TierOf(stage) == IF stage = "index0" THEN 0 ELSE IF stage \in {"index1", "embed"} THEN 1 ELSE 3

Claimed(w) == UNION {DOMAIN claims[w][t] : t \in Tiers}

\* The items a stage works on: the claim's snapshot tells what is already done.
Work(w, stage) ==
  {s \in DOMAIN claims[w][TierOf(stage)] :
     stage = "index1" => "indexed" \notin claims[w][1][s].flags}

\* The coordinator's semaphore is taken by the cycle, or by an on-demand compile.
Compiling(w) == pc[w] \notin {"idle", "again"} \/ od[w].pc = "run"

\* Process w goes on with stage st of its cycle.
Enter(w, st, todos) ==
  /\ pc' = [pc EXCEPT ![w] = st] /\ todo' = [todo EXCEPT ![w] = todos]
  /\ got' = [got EXCEPT ![w] = NoVersion]

\* The cycle is over; what it held is dropped.
Leave(w, st) ==
  /\ Enter(w, st, {})
  /\ claims' = [claims EXCEPT ![w] = NoClaims]
  /\ ours' = [ours EXCEPT ![w] = NoVersion]
  /\ errored' = [errored EXCEPT ![w] = {}] /\ unread' = [unread EXCEPT ![w] = {}]
  /\ incomplete' = [incomplete EXCEPT ![w] = FALSE]
  /\ lost' = [lost EXCEPT ![w] = {}]

\* Scans and claims are in the order of the paths: a fixed one.
First(S) == CHOOSE s \in S : TRUE

Fault(kind) == kind \in Faults /\ faults < MaxFaults /\ faults' = faults + 1

Requeue == row' = [s \in Sources |-> Requeued(row[s])]

\* Sweep the lapsed leases, take the semaphore, compare the files with the
\* manifest.  Only the full pipeline puts a source into the manifest.
Begin(w) ==
  /\ pc[w] \in {"idle", "again"} /\ ~Compiling(w)
  /\ Requeue
  /\ pc' = [pc EXCEPT ![w] = "upsert"]
  /\ todo' = [todo EXCEPT ![w] = {s \in Sources : disk[s] # manifest[s]}]
  /\ got' = [got EXCEPT ![w] = disk]
  /\ UNCHANGED <<files, raw, vec, summary, claims, ours, errored, unread,
                 incomplete, od, history>>

\* TryCompile finds the semaphore taken: sleep.
Skip(w) ==
  /\ pc[w] \in {"idle", "again"} /\ Compiling(w)
  /\ Requeue
  /\ pc' = [pc EXCEPT ![w] = "idle"]
  /\ UNCHANGED <<files, raw, vec, summary, todo, claims, got, ours, errored,
                 unread, incomplete, od, history>>

Upsert(w, s) ==
  LET fresh == row[s].hash # got[w][s] IN
  /\ pc[w] = "upsert" /\ todo[w] # {} /\ s = First(todo[w])
  /\ row' = [row EXCEPT ![s] = Upserted(@, got[w][s], DefaultTier[s])]
  /\ todo' = [todo EXCEPT ![w] = @ \ {s}]
  /\ failed' = [failed EXCEPT ![s] = IF fresh THEN 0 ELSE @]
  /\ lost' = [u \in Workers |-> IF fresh /\ s \in Claimed(u) THEN lost[u] \cup {s}
                                ELSE lost[u]]
  /\ UNCHANGED <<files, raw, vec, summary, pc, claims, got, ours, errored,
                 unread, incomplete, od, faults, asked>>

ClaimStep(t) == IF t = 0 THEN "upsert" ELSE IF t = 1 THEN "claim1" ELSE "claim3"

Claim(w, t) ==
  LET items == {s \in Sources : Claimable(row[s], t, w)} IN
  /\ pc[w] = ClaimStep(t) /\ (t = 0 => todo[w] = {})
  /\ row' = [s \in Sources |-> IF s \in items THEN Leased(row[s], w) ELSE row[s]]
  /\ \/ /\ t # 3
        /\ claims' = [claims EXCEPT ![w][t] = [s \in items |-> Leased(row[s], w)]]
        /\ Enter(w, ClaimStep(IF t = 0 THEN 1 ELSE 3), {})
        /\ UNCHANGED <<ours, errored, unread, incomplete, lost>>
     \/ /\ t = 3 /\ items \cup Claimed(w) # {}
        /\ claims' = [claims EXCEPT ![w][3] = [s \in items |-> Leased(row[s], w)]]
        /\ Enter(w, "index0", Work(w, "index0"))
        /\ UNCHANGED <<ours, errored, unread, incomplete, lost>>
     \/ /\ t = 3 /\ items \cup Claimed(w) = {}
        /\ Leave(w, "idle")
  /\ UNCHANGED <<files, raw, vec, summary, od, faults, asked, failed>>

\* An error ends the cycle; leases of the tiers claimed before stay.
ClaimFails(w, t) ==
  /\ pc[w] = ClaimStep(t) /\ (t = 0 => todo[w] = {})
  /\ Fault("claim") /\ Leave(w, "idle")
  /\ UNCHANGED <<files, table, od, asked, failed>>

Read(w) ==
  /\ pc[w] \in Passes /\ todo[w] # {} /\ got[w] = NoVersion
  /\ got' = [got EXCEPT ![w] = [s \in Sources |-> IF s \in todo[w] THEN disk[s] ELSE 0]]
  /\ UNCHANGED <<files, table, pc, todo, claims, ours, errored, unread,
                 incomplete, od, history>>

\* The stage deals with its next item, s.
Item(w, s) ==
  /\ todo[w] # {} /\ s = First(todo[w]) /\ got[w][s] # 0
  /\ todo' = [todo EXCEPT ![w] = @ \ {s}]
  /\ UNCHANGED <<files, summary, pc, claims, got, ours, errored, unread,
                 incomplete, od, asked, lost, failed>>

\* A source with a summary entry is not indexed again, whatever its version.
Index(w, s) ==
  /\ pc[w] \in {"index0", "index1"} /\ Item(w, s)
  /\ row' = [row EXCEPT ![s] = Marked(@, "indexed")]
  /\ raw' = [raw EXCEPT ![s] = IF summary[s] # 0 THEN @ ELSE got[w][s]]
  /\ UNCHANGED <<vec, faults>>

Embed(w, s) ==
  /\ pc[w] = "embed" /\ Item(w, s)
  /\ row' = [row EXCEPT ![s] = Marked(@, "embedded")]
  /\ vec' = [vec EXCEPT ![s] = got[w][s]]
  /\ UNCHANGED <<raw, faults>>

\* The file cannot be extracted, or its chunks not stored.
PassFails(w, s) ==
  /\ pc[w] \in {"index0", "index1", "embed"} /\ Item(w, s)
  /\ pc[w] # "embed" => summary[s] = 0
  /\ row[s].errs < MaxErrs
  /\ row' = [row EXCEPT ![s] = Erred(@)]
  /\ UNCHANGED <<raw, vec, faults>>

\* The embedder fails on a chunk: its vectors have a gap; neither mark nor error.
EmbedFails(w, s) ==
  /\ pc[w] = "embed" /\ Item(w, s) /\ Fault("embed")
  /\ vec' = [vec EXCEPT ![s] = 0]
  /\ UNCHANGED <<row, raw>>

After(stage) == IF stage = "index0" THEN "index1" ELSE IF stage = "index1" THEN "embed" ELSE "llm"

\* On to stage st, or, when nothing is claimed for the pipeline, to the releases.
Advance(w, st, skipped) ==
  IF st = "llm" /\ DOMAIN claims[w][3] = {}
  THEN Enter(w, "release", Claimed(w) \ skipped)
  ELSE Enter(w, st, Work(w, st))

\* After the pass each item's row is read again: a new error means it failed.
\* A row that cannot be read (set U) is left to its lease.
PassDone(w) ==
  LET t == TierOf(pc[w]) IN
  /\ pc[w] \in {"index0", "index1", "embed"} /\ todo[w] = {}
  /\ \E U \in SUBSET DOMAIN claims[w][t] :
       LET hidden == IF pc[w] = "index1" THEN unread[w] ELSE unread[w] \cup U
           bad    == {s \in DOMAIN claims[w][t] \ U : row[s].errs > claims[w][t][s].errs} IN
       /\ \/ U = {} /\ UNCHANGED faults
          \/ U # {} /\ pc[w] # "index1" /\ Fault("read")
       /\ unread' = [unread EXCEPT ![w] = hidden]
       /\ errored' = [errored EXCEPT ![w] = IF pc[w] = "index1" THEN @ ELSE @ \cup bad]
       /\ Advance(w, After(pc[w]), hidden)
  /\ UNCHANGED <<files, table, claims, ours, incomplete, od, asked, lost, failed>>

\* A panic in a tier's pass fails every item of the tier.
Panic(w) ==
  /\ pc[w] \in {"index0", "index1", "embed"} /\ todo[w] # {}
  /\ errored' = [errored EXCEPT ![w] = @ \cup DOMAIN claims[w][TierOf(pc[w])]]
  /\ Advance(w, IF pc[w] = "index0" THEN "index1" ELSE "llm", unread[w])
  /\ UNCHANGED <<files, table, claims, ours, unread, incomplete, od, history>>

\* The first LLM pass succeeds for the sources of Ok: their summaries enter
\* the index, and the copy of the manifest, under the hash that was claimed.
Summarize(w) ==
  /\ pc[w] = "llm" /\ got[w] # NoVersion
  /\ \E Ok \in SUBSET todo[w] :
       /\ summary' = [s \in Sources |-> IF s \in Ok THEN got[w][s] ELSE summary[s]]
       /\ ours' = [ours EXCEPT ![w] = [s \in Sources |-> IF s \in Ok THEN claims[w][3][s].hash
                                                         ELSE @[s]]]
       /\ Enter(w, "mark", Ok)
  /\ UNCHANGED <<files, row, raw, vec, claims, errored, unread, incomplete, od, history>>

\* Extraction and writing complete: the summarised sources are marked.
Complete(w) ==
  /\ pc[w] = "mark" /\ todo[w] # {}
  /\ row' = [s \in Sources |-> IF s \in todo[w] THEN Marked(row[s], "written") ELSE row[s]]
  /\ errored' = [errored EXCEPT ![w] = @ \cup (DOMAIN claims[w][3] \ todo[w])]
  /\ Enter(w, "release", Claimed(w) \ unread[w])
  /\ UNCHANGED <<files, raw, vec, summary, claims, ours, unread, incomplete, od, history>>

\* They fail, panic, or have nothing to do: none is marked.
Incomplete(w) ==
  /\ pc[w] \in {"llm", "mark"}
  /\ errored' = [errored EXCEPT ![w] = @ \cup DOMAIN claims[w][3]]
  /\ incomplete' = [incomplete EXCEPT ![w] = TRUE]
  /\ Enter(w, "release", Claimed(w) \ unread[w])
  /\ UNCHANGED <<files, table, claims, ours, unread, od, history>>

\* The budget is the claim's: of one of the tiers the item was claimed for.
Outcome(w, s, t) ==
  IF s \notin errored[w] THEN "done"
  ELSE IF claims[w][t][s].attempts + 1 >= MaxAttempts THEN "failed" ELSE "retry"

Release(w, s) ==
  /\ pc[w] = "release" /\ s \in todo[w]
  /\ \E t \in Tiers :
       /\ s \in DOMAIN claims[w][t]
       /\ row' = [row EXCEPT ![s] = Released(@, w, Outcome(w, s, t))]
       /\ failed' = [failed EXCEPT ![s] = IF row[s].owner # w THEN @
                                          ELSE IF Outcome(w, s, t) = "done" THEN 0
                                          ELSE IF @ < MaxAttempts THEN @ + 1 ELSE @]
  /\ todo' = [todo EXCEPT ![w] = @ \ {s}]
  /\ UNCHANGED <<files, raw, vec, summary, pc, claims, got, ours, errored,
                 unread, incomplete, od, faults, asked, lost>>

Promoted(r) == IF r.hot /\ r.tier < 3 THEN [r EXCEPT !.tier = 3] ELSE r

\* The streak, the promotion sweep, and the manifest: what this cycle changed
\* is merged into what is there now, unless the pipeline was incomplete.
Finish(w) ==
  /\ pc[w] = "release" /\ todo[w] = {}
  /\ row' = [s \in Sources |-> Promoted(row[s])]
  /\ manifest' = [s \in Sources |-> IF incomplete[w] \/ ours[w][s] = 0 THEN manifest[s]
                                    ELSE ours[w][s]]
  /\ Leave(w, "again")
  /\ UNCHANGED <<disk, raw, vec, summary, od, faults, asked, failed>>

SaveFails(w) ==
  /\ pc[w] = "release" /\ todo[w] = {} /\ ~incomplete[w]
  /\ Fault("save")
  /\ row' = [s \in Sources |-> Promoted(row[s])]
  /\ Leave(w, "idle")
  /\ UNCHANGED <<files, raw, vec, summary, od, asked, failed>>

-----------------------------------------------------------------------------
(* On-demand compiles, in the process of worker w. *)

\* A search finds s not fully compiled: it is promoted at once, outside the
\* coordinator and without a lease.
OdPick(w, s) ==
  /\ s \in OnDemand /\ asked < MaxRequests /\ asked' = asked + 1
  /\ od[w].pc = "none" /\ row[s].hash # 0
  /\ ~(row[s].tier = 3 /\ "written" \in row[s].flags)
  /\ od' = [od EXCEPT ![w] = [pc |-> "wait", src |-> s, hash |-> row[s].hash, got |-> 0]]
  /\ row' = [row EXCEPT ![s].tier = 3]
  /\ UNCHANGED <<files, raw, vec, summary, cycle, faults, lost, failed>>

OdStart(w) ==
  /\ od[w].pc = "wait" /\ ~Compiling(w)
  /\ od' = [od EXCEPT ![w].pc = "run", ![w].got = disk[od[w].src]]
  /\ UNCHANGED <<files, table, cycle, history>>

OdTimeout(w) ==
  /\ od[w].pc = "wait"
  /\ od' = [od EXCEPT ![w] = NoRequest]
  /\ UNCHANGED <<files, table, cycle, history>>

OdComplete(w) ==
  LET s == od[w].src IN
  /\ od[w].pc = "run"
  /\ summary' = [summary EXCEPT ![s] = od[w].got]
  /\ row' = [row EXCEPT ![s] = Marked(@, "written")]
  /\ \/ manifest' = [manifest EXCEPT ![s] = od[w].hash] /\ UNCHANGED faults
     \/ UNCHANGED manifest /\ Fault("save")
  /\ od' = [od EXCEPT ![w] = NoRequest]
  /\ UNCHANGED <<disk, raw, vec, cycle, asked, lost, failed>>

\* The pipeline stops before or after the summary entered the index.
OdIncomplete(w) ==
  LET s == od[w].src IN
  /\ od[w].pc = "run"
  /\ \E v \in {summary[s], od[w].got} : summary' = [summary EXCEPT ![s] = v]
  /\ od' = [od EXCEPT ![w] = NoRequest]
  /\ UNCHANGED <<files, row, raw, vec, cycle, history>>

-----------------------------------------------------------------------------
(* What happens beside the workers. *)

Edit(s) ==
  /\ SumFunction(disk) < Cardinality(Sources) + MaxEdits
  /\ disk' = [disk EXCEPT ![s] = @ + 1]
  /\ UNCHANGED <<manifest, table, cycle, od, history>>

\* Queries reach the promotion threshold.
Hit(s) ==
  /\ s \in Popular /\ row[s].hash # 0 /\ ~row[s].hot
  /\ row' = [row EXCEPT ![s].hot = TRUE]
  /\ UNCHANGED <<files, raw, vec, summary, cycle, od, history>>

\* Leases are heartbeated while the passes run.
Attended(s) == \E w \in Workers : row[s].owner = w /\ pc[w] \in InPass /\ s \in Claimed(w)

Lapse(s) ==
  /\ row[s].status = "leased" /\ ~row[s].lapsed
  /\ row' = [row EXCEPT ![s].lapsed = TRUE]
  /\ lost' = [w \in Workers |-> IF row[s].owner = w /\ s \in Claimed(w) THEN lost[w] \cup {s}
                                ELSE lost[w]]
  /\ UNCHANGED <<files, raw, vec, summary, cycle, od, asked, failed>>

Expire(s) == ~Attended(s) /\ Lapse(s) /\ UNCHANGED faults

\* The machine sleeps, or the heartbeat's writes fail, for a whole TTL.
Stall(s) == Attended(s) /\ Lapse(s) /\ Fault("stall")

Heartbeat(w) ==
  /\ pc[w] \in InPass
  /\ \E s \in Claimed(w) : row[s].owner = w /\ row[s].lapsed
  /\ row' = [s \in Sources |-> IF s \in Claimed(w) /\ row[s].owner = w
                              THEN [row[s] EXCEPT !.lapsed = FALSE] ELSE row[s]]
  /\ UNCHANGED <<files, raw, vec, summary, cycle, od, history>>

\* The process dies and is started again: it has a new lease token.
Crash(w) ==
  /\ Compiling(w) \/ od[w].pc # "none"
  /\ Fault("crash") /\ Leave(w, "idle")
  /\ row' = [s \in Sources |-> IF row[s].owner = w THEN [row[s] EXCEPT !.owner = Gone]
                              ELSE row[s]]
  /\ od' = [od EXCEPT ![w] = NoRequest]
  /\ UNCHANGED <<files, raw, vec, summary, asked, failed>>

-----------------------------------------------------------------------------
\* What a worker does by itself.
Worker(w) ==
  \/ Begin(w) \/ Skip(w) \/ Read(w) \/ PassDone(w) \/ Summarize(w)
  \/ Complete(w) \/ Incomplete(w) \/ Finish(w) \/ Heartbeat(w) \/ Panic(w)
  \/ \E t \in Tiers : Claim(w, t)
  \/ \E s \in Sources : \/ Upsert(w, s) \/ Index(w, s) \/ Embed(w, s)
                         \/ PassFails(w, s) \/ Release(w, s)

Answer(w) == OdStart(w) \/ OdTimeout(w) \/ OdComplete(w) \/ OdIncomplete(w)

Client(w) == Answer(w) \/ \E s \in Sources : OdPick(w, s)

Trouble(w) ==
  \/ SaveFails(w) \/ Crash(w)
  \/ \E t \in Tiers : ClaimFails(w, t)
  \/ \E s \in Sources : EmbedFails(w, s)

Next ==
  \/ \E w \in Workers : Worker(w) \/ Client(w) \/ Trouble(w)
  \/ \E s \in Sources : Edit(s) \/ Hit(s) \/ Expire(s) \/ Stall(s)

Spec == Init /\ [][Next]_vars

\* Every worker is scheduled, on-demand compiles end, and time passes for the
\* leases nobody renews.
Fairness ==
  /\ \A w \in Workers : WF_vars(Worker(w)) /\ WF_vars(Answer(w))
  /\ \A s \in Sources : WF_vars(Expire(s))

FairSpec == Spec /\ Fairness

-----------------------------------------------------------------------------
(* Properties. *)

RowType ==
  [hash: Nat, tier: Tiers, flags: SUBSET {Pass[t] : t \in Tiers},
   status: {"pending", "leased", "done", "failed"},
   owner: Workers \cup {Nobody, Gone}, lapsed: BOOLEAN, attempts: Nat,
   errs: 0..MaxErrs, hot: BOOLEAN]

Steps == {"idle", "again", "upsert", "claim1", "claim3"} \cup InPass

RequestType ==
  {NoRequest} \cup [pc: {"wait", "run"}, src: Sources, hash: Nat, got: Nat]

FilesOK ==
  /\ disk \in [Sources -> Nat] /\ manifest \in [Sources -> Nat]
  /\ raw \in [Sources -> Nat] /\ vec \in [Sources -> Nat] /\ summary \in [Sources -> Nat]

RowsOK ==
  /\ row \in [Sources -> RowType]
  /\ \A s \in Sources : (row[s].status = "leased") <=> (row[s].owner # Nobody)

CyclesOK ==
  /\ pc \in [Workers -> Steps] /\ todo \in [Workers -> SUBSET Sources]
  /\ got \in [Workers -> [Sources -> Nat]] /\ ours \in [Workers -> [Sources -> Nat]]
  /\ errored \in [Workers -> SUBSET Sources] /\ unread \in [Workers -> SUBSET Sources]
  /\ incomplete \in [Workers -> BOOLEAN] /\ lost \in [Workers -> SUBSET Sources]
  /\ \A w \in Workers : pc[w] \in {"llm", "mark"} => todo[w] \subseteq DOMAIN claims[w][3]

ClaimsOK ==
  /\ claims = [w \in Workers |-> [t \in Tiers |-> claims[w][t]]]
  /\ \A w \in Workers : \A t \in Tiers :
       /\ DOMAIN claims[w][t] \subseteq Sources
       /\ claims[w][t] \in [DOMAIN claims[w][t] -> RowType]

RequestsOK == od \in [Workers -> RequestType]

\* Types; a row has an owner exactly while it is leased; the LLM pipeline works
\* only on what was claimed for it.
TypeOK == FilesOK /\ RowsOK /\ CyclesOK /\ ClaimsOK /\ RequestsOK

\* Only a lapse of its lease, or new content, takes an item from the worker that
\* claimed it: no other worker, no on-demand compile, no stale holder's release.
HolderOwns ==
  \A w \in Workers : \A s \in Claimed(w) \ lost[w] :
    (pc[w] # "release" \/ s \in todo[w]) => row[s].owner = w

\* A dead-lettered row comes back to the queue only with new content: not by a
\* claim, a sweep, or the release of a worker that lost its lease.
DeadLettersStay ==
  [][\A s \in Sources : row[s].status = "failed" =>
       row'[s].status = "failed" \/ row'[s].hash # row[s].hash]_vars

\* An item is dead-lettered only after MaxAttempts failed attempts in a row on
\* its present content ("a fresh attempt budget").
DeadLetterOnlyAfterBudget ==
  \A s \in Sources : row[s].status = "failed" => failed[s] >= MaxAttempts

\* What owes no pass was processed in its present version or a later one: its
\* text is searchable, from tier 1 on by vector, at tier 3 as a summary.
SettledMeansCurrent ==
  \A s \in Sources : (row[s].hash # 0 /\ ~Owes(row[s])) =>
    /\ raw[s] >= row[s].hash \/ summary[s] >= row[s].hash
    /\ row[s].tier >= 1 => vec[s] >= row[s].hash
    /\ row[s].tier = 3 => summary[s] >= row[s].hash

\* What was promoted to tier 3 is compiled in the end, or dead-lettered.
PromotedIsCompiled ==
  \A s \in Sources : row[s].tier = 3 ~> "written" \in row[s].flags \/ row[s].status = "failed"

\* In the end the queue knows every file's last version, and each is processed
\* for good or dead-lettered.
Settled(s) ==
  /\ row[s].hash = disk[s]
  /\ row[s].status = "failed" \/ ~Owes(row[s])

Settles == <>[](\A s \in Sources : Settled(s))
=============================================================================
