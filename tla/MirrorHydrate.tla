----------------------------- MODULE MirrorHydrate -----------------------------
(* Restoring a mirrored workspace (internal/mirror/hydrate.go): the restore   *)
(* point is selected from the live state or from a sealed generation, the     *)
(* phases write the database, the documents and the vectors, and a --partial  *)
(* run that was interrupted is resumed, while the mirror goes on publishing,  *)
(* rotating and pruning.  A component's content is the number of the pass     *)
(* that published it.                                                         *)
EXTENDS Integers, Sequences, FiniteSets, FiniteSetsExt

CONSTANTS
  MaxPasses,     \* bound: published states
  RetainGens,    \* retain_generations
  MaxRuns,       \* bound: hydrate runs
  HydrateRaces   \* "second": two states carry the same second;
                 \* "oldmeta": a generation is sealed without its object maps

ASSUME HydrateAssumption ==
  /\ MaxPasses \in Nat \ {0} /\ RetainGens \in Nat \ {0} /\ MaxRuns \in Nat
  /\ HydrateRaces \subseteq {"second", "oldmeta"}

VARIABLES
  states,     \* what was published: each state's generation and second (State.UpdatedAt)
  mapless,    \* the generations whose meta.json has no maps
  target,     \* the directory: the pass that each phase's content is from; 0 is none
  progress,   \* .sage/hydrate-state.json: the selection and the phases that are complete
  restore,    \* the run: where it stands, its selection
  runs        \* runs so far

hydVars == <<states, mapless, target, progress, restore, runs>>

Phases == {"db", "markdown", "vectors"}
NoPick == [gen |-> 0, from |-> 0, src |-> "none", upd |-> 0,
           content |-> [f \in Phases |-> 0]]
NoRun  == [at |-> "idle", partial |-> FALSE, pick |-> NoPick, done |-> {}]
NoProgress == [pick |-> NoPick, done |-> {}]

HydInit ==
  /\ states = <<[gen |-> 1, sec |-> 1]>> /\ mapless = {}
  /\ target = [f \in Phases |-> 0] /\ progress = NoProgress
  /\ restore = NoRun /\ runs = 0

Live    == states[Len(states)]
Of(g)   == {i \in DOMAIN states : states[i].gen = g}
Seal(g) == Max(Of(g))                      \* the last state of a generation
Kept(g) == g > Live.gen - RetainGens       \* pruneGenerations

-----------------------------------------------------------------------------
(* The mirror (MirrorShip models how it publishes).                          *)

Publish(gen) ==
  /\ Len(states) < MaxPasses
  /\ \E sec \in {Live.sec + 1} \union (IF "second" \in HydrateRaces THEN {Live.sec} ELSE {}) :
       states' = Append(states, [gen |-> gen, sec |-> sec])

ShipPass ==
  /\ Publish(Live.gen)
  /\ UNCHANGED <<mapless, target, progress, restore, runs>>

\* A rotation seals the live generation with its object maps.
SealGeneration ==
  /\ Publish(Live.gen + 1)
  /\ mapless' \in {mapless} \union
                  (IF "oldmeta" \in HydrateRaces THEN {mapless \union {Live.gen}} ELSE {})
  /\ UNCHANGED <<target, progress, restore, runs>>

-----------------------------------------------------------------------------
(* selectRestorePoint.                                                       *)

Pick(g, from, db, docs, src, upd) ==
  [gen |-> g, from |-> from, src |-> src, upd |-> upd,
   content |-> [db |-> db, markdown |-> docs, vectors |-> docs]]

\* The newest state, or --generation of the live one.
PickLive == Pick(Live.gen, 0, Len(states), Len(states), "live", Live.sec)

\* applyMetaMaps: a meta without maps falls back to the live ones.
PickSealed(g, from, db, upd) ==
  IF g \in mapless THEN Pick(g, from, db, Len(states), "fallback", upd)
  ELSE Pick(g, from, db, Seal(g), "meta", upd)

\* --at: the segments sealed by then, of the live generation when it had begun, else of the
\* newest sealed one that had.
PickAt(t) ==
  LET begun == {g \in 1..Live.gen : Kept(g) /\ states[Min(Of(g))].sec <= t} IN
  IF begun = {} THEN {}
  ELSE LET g  == Max(begun)
           db == Max({i \in Of(g) : states[i].sec <= t}) IN
       {IF g = Live.gen THEN Pick(g, t, db, Len(states), "live", Live.sec)
        ELSE PickSealed(g, t, db, states[Seal(g)].sec)}

Selectable ==
  {PickLive}
    \union {PickSealed(g, 0, Seal(g), 0) : g \in {h \in 1..(Live.gen - 1) : Kept(h)}}
    \union UNION {PickAt(t) : t \in 1..Live.sec}

-----------------------------------------------------------------------------
SelectsSameGeneration(pick) ==
  progress.done # {} => pick.gen = progress.pick.gen /\ pick.from = progress.pick.from

\* checkSelection: a resumed run must select what the interrupted one did.
CheckSelection(pick) ==
  progress.done # {} =>
    /\ pick.gen = progress.pick.gen /\ pick.from = progress.pick.from
    /\ pick.src = progress.pick.src
    /\ pick.src = "live" => pick.upd = progress.pick.upd

\* A run needs an empty directory, a --partial one may find the progress of another.
StartHydrate ==
  /\ restore.at = "idle" /\ runs < MaxRuns
  /\ runs' = runs + 1
  /\ \E pick \in Selectable, partial \in BOOLEAN :
       /\ target # [f \in Phases |-> 0] => partial /\ progress.done # {}
       /\ CheckSelection(pick)
       /\ restore' = [at |-> "db", partial |-> partial, pick |-> pick,
                      done |-> IF partial THEN progress.done ELSE {}]
  /\ UNCHANGED <<states, mapless, target, progress>>

Following(phase) == CASE phase = "db" -> "markdown" [] phase = "markdown" -> "vectors"
                      [] phase = "vectors" -> "valid"

\* A phase downloads, verifies and writes.  A generation that was pruned meanwhile fails
\* the run.
RunPhase ==
  /\ restore.at \in Phases \ restore.done
  /\ restore.at = "db" => Kept(restore.pick.gen)
  /\ target' = [target EXCEPT ![restore.at] = restore.pick.content[restore.at]]
  /\ restore' = [restore EXCEPT !.done = @ \union {restore.at}]
  /\ UNCHANGED <<states, mapless, progress, runs>>

\* A vector file that cannot be had is left to a rebuild.
LeaveVectors ==
  /\ restore.at = "vectors" /\ restore.at \notin restore.done
  /\ restore' = [restore EXCEPT !.done = @ \union {restore.at}]
  /\ UNCHANGED <<states, mapless, target, progress, runs>>

\* phases.complete: the progress file is replaced in one step.
CompletePhase ==
  /\ restore.at \in restore.done
  /\ progress' = IF restore.partial THEN [pick |-> restore.pick, done |-> restore.done]
                 ELSE progress
  /\ restore' = [restore EXCEPT !.at = Following(restore.at)]
  /\ UNCHANGED <<states, mapless, target, runs>>

\* The run fails, or its process dies; what it wrote of a phase stays.
Interrupted ==
  /\ restore.at \in Phases
  /\ restore' = NoRun
  /\ target' \in {target, [target EXCEPT ![restore.at] = restore.pick.content[restore.at]]}
  /\ UNCHANGED <<states, mapless, progress, runs>>

\* The report is printed; the directory is served, or emptied for another restore.
Finish ==
  /\ restore.at = "valid" \/ (restore.at = "idle" /\ target # [f \in Phases |-> 0])
  /\ restore' = NoRun /\ target' = [f \in Phases |-> 0] /\ progress' = NoProgress
  /\ UNCHANGED <<states, mapless, runs>>

-----------------------------------------------------------------------------
HydNext ==
  \/ ShipPass \/ SealGeneration
  \/ StartHydrate \/ RunPhase \/ LeaveVectors \/ CompletePhase \/ Interrupted \/ Finish

HydSpec == HydInit /\ [][HydNext]_hydVars

-----------------------------------------------------------------------------
HydTypeOK ==
  /\ states \in Seq([gen : 1..MaxPasses, sec : 1..MaxPasses]) /\ Len(states) <= MaxPasses
  /\ mapless \subseteq 1..MaxPasses
  /\ target \in [Phases -> 0..MaxPasses]
  /\ progress.done \subseteq Phases /\ restore.done \subseteq Phases
  /\ restore.at \in Phases \union {"idle", "valid"} /\ runs \in 0..MaxRuns

\* A restore that reports Valid is of one restore point: every component is the one of the
\* point that the last run selected, however many runs it took and whatever was published,
\* rotated and pruned between them.  Vectors may be missing.
OneRestorePoint ==
  restore.at = "valid" =>
    \A f \in Phases : \/ target[f] = restore.pick.content[f]
                      \/ f = "vectors" /\ target[f] = 0
=============================================================================
