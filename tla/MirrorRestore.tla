--------------------------- MODULE MirrorRestore ---------------------------
(***************************************************************************)
(* What a restore of the committed chain yields (src/internal/mirror/      *)
(* hydrate.go: the snapshot, and beside it one WAL file made of the        *)
(* concatenated segments, which SQLite replays), and what a ship pass that *)
(* reported success has promised.  `began` and `reported` are history.     *)
(***************************************************************************)
EXTENDS MirrorShip, SequencesExt

VARIABLES
  began,      \* transactions committed when the running pass began
  reported    \* the largest `began` of a pass that returned success, caught up

history == <<began, reported>>

\* The WAL file hydrate writes: the segments' bytes, in the order of the list.
HydratedWal(s) == FlattenSeq([k \in 1..Len(s.wal) |-> s.wal[k].sha])

\* Frames SQLite replays: from the header, while salts and order continue (a
\* frame's checksum covers all the frames before it).
Replayed(f) ==
  IF f = <<>> \/ f[1][2] # 0 THEN {}
  ELSE {f[i][2] : i \in {j \in 2..Len(f) :
          \A k \in 2..j : f[k] = <<f[1][1], f[1][1] + k - 2>>}}

\* The transactions a database restored from committed state s contains.
Restored(s) == (1..s.snap) \cup Replayed(HydratedWal(s))

\* Without a gap: a state the source database once had.
NoGap(T) == T = 1..Cardinality(T)

-----------------------------------------------------------------------------
RInit == Init /\ began = 0 /\ reported = 0

Ending == pc' \in {"idle", "quiesce"}

\* The pass returns no error, and has put nothing off to a later pass.
Returns ==
  /\ Ending /\ pc \in (ShipSteps \cup RotateSteps) \ {"seal"}
  /\ ~local'.pend

RNext ==
  \/ Application /\ UNCHANGED history
  \/ Failure /\ began' = 0 /\ UNCHANGED reported
  \/ /\ Shipper
     /\ began' = IF pc = "idle" THEN last ELSE IF Ending THEN 0 ELSE began
     /\ reported' = IF Returns /\ began > reported THEN began ELSE reported

RSpec == RInit /\ [][RNext]_<<vars, history>>

-----------------------------------------------------------------------------
(* Properties. *)

\* The WAL beside the snapshot begins at or below the snapshot's end (a WAL
\* that was restarted, or folded, between the snapshot and its adoption does
\* not: deviation 2 of the README).
Attached(s) == HydratedWal(s) # <<>> => Salt(HydratedWal(s)) <= s.snap + 1

\* The replay never takes pages back below the snapshot.
ReachesSnapshot(s) ==
  HydratedWal(s) # <<>> => \E n \in Replayed(HydratedWal(s)) : n >= s.snap

\* A database restored from the committed state is one the source once had: no
\* transaction is missing below one that is there, and the WAL that replaces
\* pages of the snapshot is not older than it - whatever the application does
\* between the steps, and however often SQLite restarts the WAL.
RestoreConsistent ==
  state.gen # 0 /\ Attached(state) =>
    NoGap(Restored(state)) /\ ReachesSnapshot(state)

\* The chain's segments are all of the WAL that is there now.
OneIncarnation ==
  \A i \in 1..Len(HydratedWal(state)) : HydratedWal(state)[i][1] = Salt(wal)

\* As long as the WAL has not been restarted since the generation's first
\* segment, a pass that returned success (and deferred nothing) has made
\* restorable whatever was committed when it began.
ShipCoversWrites ==
  state.wal # <<>> /\ Attached(state) /\ OneIncarnation =>
    1..reported \subseteq Restored(state)

\* "Induced loss loses at most ship_interval of writes" (README.md:686): what
\* was committed when the last successful pass began is restorable.
LossIsBounded == state.gen # 0 => 1..reported \subseteq Restored(state)
=============================================================================
