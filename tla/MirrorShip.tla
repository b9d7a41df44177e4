----------------------------- MODULE MirrorShip -----------------------------
(***************************************************************************)
(* The shipper of sage-wiki's mirror (src/internal/mirror): one machine    *)
(* copies its SQLite database to an object store as a chain                *)
(*                                                                         *)
(*    snapshot of generation g  +  WAL segments 1, 2, ... of generation g  *)
(*                                                                         *)
(* and publishes the chain in mirror-state.json, the commit pointer.       *)
(* The module interleaves, step by step,                                   *)
(*   - the application that writes the database (transactions, automatic   *)
(*     checkpoints, in-place WAL restarts, the close-fold, a kill);        *)
(*   - one ship pass, forced rotation, enable, or serve drain at a time    *)
(*     (the ship-mutex), each file read and each PUT being its own step;   *)
(*   - a crash, or a failed or lost request, at the steps of CrashPoints.  *)
(*                                                                         *)
(* Data is abstracted: transaction n is the number n and one WAL frame; a  *)
(* database file is the length of the prefix of transactions folded into   *)
(* it, which is also its hash; an object's sha256 is its content.          *)
(***************************************************************************)
EXTENDS Integers, Sequences, FiniteSets

CONSTANTS
  MaxWrites,     \* bound: transactions the application commits
  MaxGen,        \* bound: generations a rotation may open
  MaxSeg,        \* bound: segments sealed into one generation
  Retain,        \* cfg.RetainGenerations
  AppEvents,     \* which of "close", "kill" the application does
  CrashPoints    \* the steps of a pass at which it may be cut short

ASSUME BoundsAssumption ==
  /\ MaxWrites \in Nat /\ MaxGen \in Nat \ {0} /\ MaxSeg \in Nat \ {0}
  /\ Retain \in Nat \ {0}

Gens == 1..MaxGen
Seqs == 1..MaxSeg
Nil  == -1         \* an absent snapshot object; the empty last_db_sha256

\* A WAL file is a sequence of cells: a header <<salt, 0>>, then frames
\* <<salt, n>>.  The salt of an incarnation is the number of its first frame.
Cell == Nat \X Nat

LocalStates == [gen: Nat, salt: Nat, off: Nat, hash: Nat \cup {Nil},
                seq: Nat, pend: BOOLEAN]
SegmentRefs == [seq: Nat, sha: Seq(Cell)]
States      == [gen: Nat, snap: Nat \cup {Nil}, wal: Seq(SegmentRefs)]

FreshLocal == [gen |-> 0, salt |-> 0, off |-> 0, hash |-> Nil,
               seq |-> 0, pend |-> FALSE]
NoState    == [gen |-> 0, snap |-> Nil, wal |-> <<>>]
NotSeen    == [salt |-> 0, size |-> 0, sealed |-> FALSE]

VARIABLES
  last, db, wal, open,          \* the workspace: wiki.db, wiki.db-wal
  local,                        \* .sage/mirror-local.json
  state, snaps, segs, metas,    \* the bucket (state = mirror-state.json)
  pc, op, L, seen               \* the running pass, its LocalState and the
                                \* WAL identity it read

workspace == <<last, db, wal, open>>
bucket    == <<state, snaps, segs, metas>>
pass      == <<pc, op, L, seen>>
vars      == <<workspace, local, bucket, pass>>

ShipSteps == {"reconcile", "recAdopt", "recSave", "entry", "seal", "putState",
              "segSave", "classify", "adopt"}
RotateSteps == {"rotTail", "rotPutState", "rotMeta", "rotCheckpoint",
                "rotSnapshot", "rotCommit", "rotAdopt", "rotSave", "rotPrune"}
BootSteps  == {"bootSnapshot", "bootCommit", "bootSave"}
DrainSteps == {"quiesce", "quiesceSave"}
Steps == ShipSteps \cup RotateSteps \cup BootSteps \cup DrainSteps
Ops   == {"ship", "final", "snapshot", "enable"}

\* Between a segment's state PUT and the local save that records it (in a
\* rotation: the one after the new generation's commit).
Lagging == {"segSave", "rotMeta", "rotCheckpoint", "rotSnapshot", "rotCommit"}

Init ==
  /\ last = 0 /\ db = 0 /\ wal = <<>> /\ open = FALSE
  /\ local = FreshLocal
  /\ state = NoState
  /\ snaps = [g \in Gens |-> Nil]
  /\ segs = [g \in Gens |-> [i \in Seqs |-> <<>>]]
  /\ metas = [g \in Gens |-> NoState]
  /\ pc = "idle" /\ op = "none" /\ L = FreshLocal /\ seen = NotSeen

-----------------------------------------------------------------------------
(* The application and SQLite. *)

Salt(f) == IF f = <<>> THEN 0 ELSE f[1][1]

\* Cell i of the file is overwritten, or the file grows by one cell.
PutCell(f, i, c) == IF i \in 1..Len(f) THEN [f EXCEPT ![i] = c] ELSE Append(f, c)

OpenApp ==
  /\ ~open
  /\ open' = TRUE
  /\ UNCHANGED <<last, db, wal, local, bucket, pass>>

\* A transaction: into a new WAL; after the last valid frame; or, when every
\* frame is checkpointed, over the head of the same file under a new salt.
\* SQLite does the last whenever it can: not while a reader uses the WAL, nor
\* before a checkpoint has looked at a WAL recovered after a kill.
Write ==
  LET n == last + 1 IN
  /\ open /\ last < MaxWrites
  /\ last' = n
  /\ \/ /\ wal = <<>>
        /\ wal' = <<<<n, 0>>, <<n, n>>>>
     \/ /\ wal # <<>>
        /\ wal' = PutCell(wal, n - Salt(wal) + 2, <<Salt(wal), n>>)
     \/ /\ wal # <<>> /\ db = last
        /\ wal' = PutCell(PutCell(wal, 1, <<n, 0>>), 2, <<n, n>>)
  /\ UNCHANGED <<db, open, local, bucket, pass>>

\* SQLite's automatic PASSIVE checkpoint, complete or partial.
AutoCheckpoint ==
  /\ open
  /\ \E n \in (db + 1)..last : db' = n
  /\ UNCHANGED <<last, wal, open, local, bucket, pass>>

\* The last connection closes: everything is folded, the WAL is deleted.
CloseApp ==
  /\ open /\ "close" \in AppEvents
  /\ open' = FALSE /\ db' = last /\ wal' = <<>>
  /\ UNCHANGED <<last, local, bucket, pass>>

KillApp ==
  /\ open /\ "kill" \in AppEvents
  /\ open' = FALSE
  /\ UNCHANGED <<last, db, wal, local, bucket, pass>>

\* The shipper opens and closes a connection of its own: folds if it is the
\* only one.
ConnectAndClose ==
  IF open THEN UNCHANGED <<db, wal>> ELSE db' = last /\ wal' = <<>>

\* A checkpoint over such a connection.  SQLITE_BUSY is not an error there, so
\* beside the application it may fold any part of the frames.
CheckpointOverOwnConnection ==
  IF open THEN (\E n \in db..last : db' = n) /\ UNCHANGED wal
          ELSE db' = last /\ wal' = <<>>

-----------------------------------------------------------------------------
(* The pass: its bookkeeping. *)

Goto(step) == pc' = step /\ UNCHANGED <<op, seen>>

SaveLocal(l) == local' = l /\ L' = l

\* The mutex is released; the drain goes on to Quiesce (which reloads local).
Return(l) ==
  /\ L' = l
  /\ seen' = NotSeen
  /\ IF op = "final" THEN pc' = "quiesce" /\ UNCHANGED op
                     ELSE pc' = "idle" /\ op' = "none"

\* Mutant of Adopted: the offset taken is the file's size, not its head.
AdoptedAtEnd(l) == [l EXCEPT !.salt = Salt(wal), !.off = Len(wal)]

Adopted(l) == [l EXCEPT !.salt = Salt(wal), !.off = 0]

ContiguousFromOne(refs) == \A k \in 1..Len(refs) : refs[k].seq = k

\* State.Validate, as far as a shipper can break it.
Valid(s) == ContiguousFromOne(s.wal)

\* remoteState under the ship-mutex.  Only the holder of the mutex writes the
\* bucket, so the pass's copy of the committed state is the object itself.
Begin(o) ==
  /\ pc = "idle"
  /\ op' = o /\ L' = local /\ seen' = NotSeen
  /\ \/ /\ state.gen # 0 /\ Valid(state) /\ o # "enable"
        /\ pc' = "reconcile"
     \/ /\ state.gen = 0 /\ o # "snapshot"
        /\ pc' = "bootSnapshot"
  /\ UNCHANGED <<workspace, local, bucket>>

-----------------------------------------------------------------------------
(* Generation 1: bootstrapGeneration1Locked. *)

BootSnapshot ==
  /\ pc = "bootSnapshot"
  /\ ConnectAndClose
  /\ snaps' = [snaps EXCEPT ![1] = last]
  /\ Goto("bootCommit")
  /\ UNCHANGED <<last, open, local, state, segs, metas, L>>

BootCommit ==
  /\ pc = "bootCommit"
  /\ state' = [gen |-> 1, snap |-> snaps[1], wal |-> <<>>]
  /\ Goto("bootSave")
  /\ UNCHANGED <<workspace, local, snaps, segs, metas, L>>

\* A ship pass reloads the state and goes on (nothing is left to reconcile).
BootSave ==
  LET l == [FreshLocal EXCEPT !.gen = 1, !.hash = db] IN
  /\ pc = "bootSave"
  /\ local' = l
  /\ IF op = "enable" THEN Return(l) ELSE L' = l /\ Goto("reconcile")
  /\ UNCHANGED <<workspace, bucket>>

-----------------------------------------------------------------------------
(* reconcileWalBookkeeping. *)

AfterReconcile == IF op = "snapshot" THEN "rotTail" ELSE "entry"

\* Total raw length of the committed segments after the first `from`.
ChainTailLength(from) ==
  Cardinality(UNION {{k} \X (1..Len(segs[state.gen][state.wal[k].seq])) :
                       k \in (from + 1)..Len(state.wal)})

\* (ii)(b): the rotation committed, its local save was lost, and the WAL is
\* newer than the bookkeeping: adopt it from its header.
ReconcileFresh ==
  /\ pc = "reconcile" /\ L.gen # state.gen
  /\ wal # <<>> /\ L.salt # 0 /\ Salt(wal) # L.salt
  /\ L' = Adopted([L EXCEPT !.gen = state.gen, !.seq = Len(state.wal)])
  /\ Goto("recSave")
  /\ UNCHANGED <<workspace, local, bucket>>

\* (ii)(a)/unknown: fold the stale incarnation first.
ReconcileStale ==
  /\ pc = "reconcile" /\ L.gen # state.gen
  /\ wal = <<>> \/ L.salt = 0 \/ Salt(wal) = L.salt
  /\ CheckpointOverOwnConnection
  /\ L' = [L EXCEPT !.gen = state.gen, !.seq = Len(state.wal)]
  /\ Goto("recAdopt")
  /\ UNCHANGED <<last, open, local, bucket>>

RecAdopt ==
  /\ pc = "recAdopt"
  /\ L' = Adopted(L)
  /\ Goto("recSave")
  /\ UNCHANGED <<workspace, local, bucket>>

\* The pending rotation is this one; the hash reference is the file of now.
RecSave ==
  /\ pc = "recSave"
  /\ SaveLocal([L EXCEPT !.pend = FALSE, !.hash = db])
  /\ Goto(AfterReconcile)
  /\ UNCHANGED <<workspace, bucket>>

\* (i): the tail was committed, its local save was lost.
LostTail == L.seq # Len(state.wal) /\ wal # <<>> /\ Salt(wal) = L.salt

\* Mutant of Realign: the lost tail's length is taken off the offset.
RealignBackwards ==
  /\ pc = "reconcile" /\ L.gen = state.gen /\ LostTail
  /\ SaveLocal([L EXCEPT !.off = @ - ChainTailLength(L.seq),
                         !.seq = Len(state.wal)])
  /\ Goto(AfterReconcile)
  /\ UNCHANGED <<workspace, bucket>>

Realign ==
  /\ pc = "reconcile" /\ L.gen = state.gen /\ LostTail
  /\ SaveLocal([L EXCEPT !.off = @ + ChainTailLength(L.seq),
                         !.seq = Len(state.wal)])
  /\ Goto(AfterReconcile)
  /\ UNCHANGED <<workspace, bucket>>

InAgreement ==
  /\ pc = "reconcile" /\ L.gen = state.gen /\ ~LostTail
  /\ Goto(AfterReconcile)
  /\ UNCHANGED <<workspace, local, bucket, L>>

-----------------------------------------------------------------------------
(* shipPass after reconciliation: seal, then the fold rules. *)

\* A pending rotation rotates once the debounce elapsed, else ends the pass.
Pending ==
  /\ pc = "entry" /\ L.pend
  /\ \/ Goto("rotTail") /\ UNCHANGED L
     \/ Return(L)
  /\ UNCHANGED <<workspace, local, bucket>>

\* The pass reads the WAL's identity; an unknown incarnation is adopted.
Entry ==
  LET l == IF wal # <<>> /\ L.salt = 0 THEN Adopted(L) ELSE L IN
  /\ pc = "entry" /\ ~L.pend
  /\ seen' = [salt |-> Salt(wal), size |-> Len(wal), sealed |-> FALSE]
  /\ L' = l
  /\ pc' = IF wal # <<>> /\ Salt(wal) = l.salt /\ Len(wal) > l.off
             THEN "seal" ELSE "classify"
  /\ UNCHANGED <<workspace, local, bucket, op>>

\* Mutant of PutTail: the error of the segment's PUT is dropped.
PutTailUnchecked == UNCHANGED segs

\* SealWALSegment and the segment's PUT: everything from the offset to the end
\* of the file.  (The file and the bucket are independent: one step.)
PutTail ==
  segs' = [segs EXCEPT ![state.gen][L.seq + 1] = SubSeq(wal, L.off + 1, Len(wal))]

\* Mutant of Seal: the bookkeeping is saved before the state is committed.
SealSavedEarly ==
  /\ pc = "seal" /\ wal # <<>> /\ Salt(wal) = L.salt /\ Len(wal) > L.off
  /\ L.seq < MaxSeg
  /\ PutTail
  /\ local' = [L EXCEPT !.seq = @ + 1]
  /\ Goto("putState")
  /\ UNCHANGED <<workspace, state, snaps, metas, L>>

Seal ==
  /\ pc = "seal" /\ wal # <<>> /\ Salt(wal) = L.salt /\ Len(wal) > L.off
  /\ L.seq < MaxSeg
  /\ PutTail
  /\ Goto("putState")
  /\ UNCHANGED <<workspace, local, state, snaps, metas, L>>

\* The WAL was reset since the identity was read: the next pass classifies it.
SealMismatch ==
  /\ pc = "seal" /\ wal # <<>> /\ Salt(wal) # L.salt
  /\ Return(local)
  /\ UNCHANGED <<workspace, local, bucket>>

\* The WAL is gone: an error, nothing saved.
SealGone ==
  /\ pc = "seal" /\ wal = <<>>
  /\ pc' = "idle" /\ op' = "none" /\ L' = local /\ seen' = NotSeen
  /\ UNCHANGED <<workspace, local, bucket>>

\* commitSegment's state PUT.
ExtendState ==
  state' = [state EXCEPT !.wal =
              Append(@, [seq |-> L.seq + 1, sha |-> segs[state.gen][L.seq + 1]])]

\* Mutants of SealedLocal: the segment is not counted; the offset stays.
SealedLocalSameSeq == [L EXCEPT !.off = @ + Len(segs[state.gen][L.seq + 1])]
SealedLocalSameOffset == [L EXCEPT !.seq = @ + 1]

SealedLocal == [L EXCEPT !.seq = @ + 1,
                         !.off = @ + Len(segs[state.gen][L.seq + 1])]

PutState ==
  /\ pc = "putState"
  /\ ExtendState
  /\ Goto("segSave")
  /\ UNCHANGED <<workspace, local, snaps, segs, metas, L>>

SegSave ==
  /\ pc = "segSave"
  /\ SaveLocal(SealedLocal)
  /\ seen' = [seen EXCEPT !.sealed = TRUE]
  /\ pc' = "classify"
  /\ UNCHANGED <<workspace, bucket, op>>

IdentityChanged ==
  /\ L.salt # 0
  /\ seen.salt # L.salt          \* 0: the WAL was absent

CertainIdle ==
  /\ seen.salt # 0 /\ seen.salt = L.salt
  /\ seen.size = L.off /\ ~seen.sealed

Idle ==
  /\ pc = "classify" /\ CertainIdle
  /\ Return(local)
  /\ UNCHANGED <<workspace, local, bucket>>

\* (a) content beyond the committed state and no WAL covers it: rotate, or
\* remember to.
Folded ==
  /\ pc = "classify" /\ ~CertainIdle
  /\ db # L.hash /\ (IdentityChanged \/ seen.salt = 0)
  /\ \/ Goto("rotTail") /\ UNCHANGED <<local, L>>
     \/ LET l == [L EXCEPT !.pend = TRUE] IN local' = l /\ Return(l)
  /\ UNCHANGED <<workspace, bucket>>

\* (b) benign fold: adopt the new incarnation.
BenignFold ==
  /\ pc = "classify" /\ ~CertainIdle
  /\ db = L.hash /\ IdentityChanged
  /\ Goto("adopt")
  /\ UNCHANGED <<workspace, local, bucket, L>>

AdoptSave ==
  /\ pc = "adopt"
  /\ local' = Adopted(L)
  /\ Return(Adopted(L))
  /\ UNCHANGED <<workspace, bucket>>

\* (c) same identity: the WAL chain is taken to cover the content.
Covered ==
  LET l == [L EXCEPT !.hash = db] IN
  /\ pc = "classify" /\ ~CertainIdle
  /\ db # L.hash /\ ~IdentityChanged /\ seen.salt # 0
  /\ local' = l
  /\ Return(l)
  /\ UNCHANGED <<workspace, bucket>>

Unchanged ==
  /\ pc = "classify" /\ ~CertainIdle
  /\ db = L.hash /\ ~IdentityChanged
  /\ Return(local)
  /\ UNCHANGED <<workspace, local, bucket>>

-----------------------------------------------------------------------------
(* rotate. *)

RotTail ==
  LET unsealed == L.salt # 0 /\ Salt(wal) = L.salt /\ Len(wal) > L.off IN
  /\ pc = "rotTail" /\ state.gen < MaxGen
  /\ \/ /\ unsealed /\ L.seq < MaxSeg
        /\ PutTail
        /\ Goto("rotPutState")
     \/ /\ ~unsealed
        /\ Goto("rotMeta") /\ UNCHANGED segs
  /\ UNCHANGED <<workspace, local, state, snaps, metas, L>>

RotPutState ==
  /\ pc = "rotPutState"
  /\ ExtendState
  /\ L' = SealedLocal
  /\ Goto("rotMeta")
  /\ UNCHANGED <<workspace, local, snaps, segs, metas>>

\* Mutant of RotMeta: the outgoing generation's record is not written.
RotMetaSkipped ==
  /\ pc = "rotMeta"
  /\ Goto("rotCheckpoint")
  /\ UNCHANGED <<workspace, local, bucket, L>>

RotMeta ==
  /\ pc = "rotMeta"
  /\ metas' = [metas EXCEPT ![state.gen] = state]
  /\ Goto("rotCheckpoint")
  /\ UNCHANGED <<workspace, local, state, snaps, segs, L>>

\* wal_checkpoint(RESTART): if it completes, the next Write may restart the WAL
\* under a new salt; that it did not complete is no error (SQLite reports it in
\* the result's row, which is not read).
RotCheckpoint ==
  /\ pc = "rotCheckpoint"
  /\ CheckpointOverOwnConnection
  /\ Goto("rotSnapshot")
  /\ UNCHANGED <<last, open, local, bucket, L>>

RotSnapshot ==
  /\ pc = "rotSnapshot"
  /\ ConnectAndClose
  /\ snaps' = [snaps EXCEPT ![state.gen + 1] = last]
  /\ Goto("rotCommit")
  /\ UNCHANGED <<last, open, local, state, segs, metas, L>>

\* The checkpoint, or the snapshot's fallback, fails: the rotation is deferred
\* and the bookkeeping, which counts the tail just committed, is saved.
RotDefer ==
  /\ pc \in {"rotCheckpoint", "rotSnapshot"}
  /\ ConnectAndClose
  /\ SaveLocal(L)
  /\ pc' = "idle" /\ op' = "none" /\ seen' = NotSeen
  /\ UNCHANGED <<last, open, bucket>>

RotCommit ==
  /\ pc = "rotCommit"
  /\ state' = [gen |-> state.gen + 1, snap |-> snaps[state.gen + 1], wal |-> <<>>]
  /\ Goto("rotAdopt")
  /\ UNCHANGED <<workspace, local, snaps, segs, metas, L>>

RotAdopt ==
  /\ pc = "rotAdopt"
  /\ L' = Adopted([L EXCEPT !.gen = state.gen, !.seq = 0])
  /\ Goto("rotSave")
  /\ UNCHANGED <<workspace, local, bucket>>

RotSave ==
  /\ pc = "rotSave"
  /\ SaveLocal([L EXCEPT !.pend = FALSE, !.hash = db])
  /\ Goto("rotPrune")
  /\ UNCHANGED <<workspace, bucket>>

\* Mutant of Floor: one generation less is retained.
FloorTooHigh == IF state.gen - Retain + 2 < 1 THEN 1 ELSE state.gen - Retain + 2

\* pruneGenerations: a failed DELETE is only a warning, so any part of what is
\* below the floor goes.
Floor == IF state.gen - Retain + 1 < 1 THEN 1 ELSE state.gen - Retain + 1

Pruned(g) == g < Floor /\ g < state.gen

RotPrune ==
  /\ pc = "rotPrune"
  /\ \E kinds \in SUBSET {"snap", "segs", "meta"} :
       /\ snaps' = [g \in Gens |->
            IF Pruned(g) /\ "snap" \in kinds THEN Nil ELSE snaps[g]]
       /\ segs' = [g \in Gens |-> [i \in Seqs |->
            IF Pruned(g) /\ "segs" \in kinds THEN <<>> ELSE segs[g][i]]]
       /\ metas' = [g \in Gens |->
            IF Pruned(g) /\ "meta" \in kinds THEN NoState ELSE metas[g]]
  /\ Return(L)
  /\ UNCHANGED <<workspace, local, state>>

-----------------------------------------------------------------------------
(* The serve drain: Quiesce, after a final Ship that returned no error. *)

Quiesce ==
  /\ pc = "quiesce"
  /\ CheckpointOverOwnConnection
  /\ Goto("quiesceSave")
  /\ UNCHANGED <<last, open, local, bucket, L>>

QuiesceSave ==
  /\ pc = "quiesceSave"
  /\ SaveLocal([L EXCEPT !.hash = db])
  /\ pc' = "idle" /\ op' = "none" /\ UNCHANGED seen
  /\ UNCHANGED <<workspace, bucket>>

-----------------------------------------------------------------------------
\* The process of the pass dies, its budget ends, or a request fails (done or
\* not: the step before or after it).  What it held in memory is lost.
Crash ==
  /\ pc \in CrashPoints
  /\ pc' = "idle" /\ op' = "none" /\ L' = local /\ seen' = NotSeen
  /\ UNCHANGED <<workspace, local, bucket>>

Application == OpenApp \/ Write \/ AutoCheckpoint \/ CloseApp \/ KillApp

Boot == BootSnapshot \/ BootCommit \/ BootSave

Reconcile == ReconcileFresh \/ ReconcileStale \/ RecAdopt \/ RecSave
             \/ Realign \/ InAgreement

ShipPass == Pending \/ Entry \/ Seal \/ SealMismatch \/ PutState \/ SegSave
            \/ Idle \/ Folded \/ BenignFold \/ AdoptSave \/ Covered \/ Unchanged

Rotate == RotTail \/ RotPutState \/ RotMeta \/ RotCheckpoint \/ RotSnapshot
          \/ RotCommit \/ RotAdopt \/ RotSave \/ RotPrune

Drain == Quiesce \/ QuiesceSave

Shipper == (\E o \in Ops : Begin(o)) \/ Boot \/ Reconcile \/ ShipPass \/ Rotate
           \/ Drain

Failure == Crash \/ SealGone \/ RotDefer

Next == Application \/ Shipper \/ Failure

Spec == Init /\ [][Next]_vars

-----------------------------------------------------------------------------
(* Properties. *)

\* Every variable keeps its type; a pass that is not running holds nothing.
TypeOK ==
  /\ last \in Nat /\ db \in Nat /\ wal \in Seq(Cell) /\ open \in BOOLEAN
  /\ local \in LocalStates /\ L \in LocalStates
  /\ state \in States
  /\ snaps \in [Gens -> Nat \cup {Nil}]
  /\ segs \in [Gens -> [Seqs -> Seq(Cell)]]
  /\ metas \in [Gens -> States]
  /\ pc \in Steps \cup {"idle"} /\ op \in Ops \cup {"none"}
  /\ seen \in [salt: Nat, size: Nat, sealed: BOOLEAN]

\* Every object that record s refers to is in the bucket.
Durable(s) ==
  /\ s.gen \in Gens /\ snaps[s.gen] # Nil /\ snaps[s.gen] = s.snap
  /\ \A k \in 1..Len(s.wal) :
       s.wal[k].seq \in Seqs /\ segs[s.gen][s.wal[k].seq] # <<>>

\* The commit pointer is written last: whatever it refers to is uploaded.
CommittedRefsPresent == state.gen # 0 => Durable(state)

\* ... and so is what the record of each retained generation refers to; the
\* record itself is there (what `mirror verify` demands of a rotation).
RetainedGenerationsPresent ==
  \A g \in Gens : (g < state.gen /\ g > state.gen - Retain) =>
    metas[g].gen = g /\ Durable(metas[g])

\* The local bookkeeping never runs ahead of the remote chain: the "manual
\* inspection required" error of chainTailLength is unreachable.
LocalNeverAhead ==
  /\ local.gen <= state.gen
  /\ local.gen = state.gen => local.seq <= Len(state.wal)

\* The committed chain is one mirror-state.json that every reader accepts:
\* contiguous from 1, each segment's bytes those whose hash was recorded.
CommittedChainReadable ==
  /\ Valid(state)
  /\ \A k \in 1..Len(state.wal) :
       segs[state.gen][state.wal[k].seq] = state.wal[k].sha

-----------------------------------------------------------------------------
(* The bucket seen as CommitPointer: a segment list that Validate accepts is
   its length. *)
records == [g \in Gens |-> IF metas[g].gen = 0 THEN Nil ELSE Len(metas[g].wal)]

Publication == INSTANCE CommitPointer WITH
  snap <- snaps, seg <- segs, meta <- records,
  gen <- state.gen, len <- Len(state.wal)

\* The shipper implements CommitPointer.
PublishesLast == Publication!Spec

=============================================================================
