-------------------------- MODULE MirrorShipProofs --------------------------
(***************************************************************************)
(* Proofs about MirrorShip, for every value of its constants: its types,   *)
(* what it keeps in the bucket (the committed state and the retained       *)
(* generations refer to uploaded objects only), and that the local         *)
(* bookkeeping never runs ahead of the committed chain.                    *)
(***************************************************************************)
EXTENDS MirrorShip, FiniteSetTheorems, SequenceTheorems, Functions, TLAPS

-----------------------------------------------------------------------------
(* Lemmas about the operators. *)

\* The salt read from a WAL file is a number (0 when there is no file).
LEMMA SaltType ==
  ASSUME NEW f \in Seq(Cell)
  PROVE  Salt(f) \in Nat
<1>1. CASE f = <<>>
  BY <1>1 DEF Salt
<1>2. CASE f # <<>>
  <2>1. f[1] \in Cell
    BY <1>2
  <2> QED BY <1>2, <2>1 DEF Salt, Cell
<1> QED BY <1>1, <1>2

\* Writing one cell of a WAL file, or growing it by one, leaves a WAL file.
LEMMA PutCellType ==
  ASSUME NEW f \in Seq(Cell), NEW i \in Int, NEW c \in Cell
  PROVE  PutCell(f, i, c) \in Seq(Cell)
  BY ExceptSeq, AppendProperties DEF PutCell

\* Adopting a WAL keeps the bookkeeping well formed.
LEMMA AdoptedType ==
  ASSUME wal \in Seq(Cell), NEW l \in LocalStates
  PROVE  Adopted(l) \in LocalStates
  BY SaltType DEF Adopted, LocalStates

-----------------------------------------------------------------------------
(* Type correctness.  What a step may index depends on where the pass is:
   TypeInv adds to TypeOK the range of the generation and of the segment
   number at the steps that use them. *)

InGeneration == Steps \ {"bootSnapshot", "bootCommit"}
Sealing  == {"putState", "segSave", "rotPutState"}
Rotating == {"rotPutState", "rotMeta", "rotCheckpoint", "rotSnapshot", "rotCommit"}

WorkspaceType == last \in Nat /\ db \in Nat /\ wal \in Seq(Cell) /\ open \in BOOLEAN

BucketType ==
  /\ state \in States
  /\ snaps \in [Gens -> Nat \cup {Nil}]
  /\ segs \in [Gens -> [Seqs -> Seq(Cell)]]
  /\ metas \in [Gens -> States]
  /\ state.gen \in 0..MaxGen
  /\ \A k \in 1..Len(state.wal) : state.wal[k].seq \in Seqs

LocalType == local \in LocalStates /\ L \in LocalStates

PassType ==
  /\ pc \in Steps \cup {"idle"} /\ op \in Ops \cup {"none"}
  /\ seen \in [salt: Nat, size: Nat, sealed: BOOLEAN]

Control ==
  /\ pc \in InGeneration => state.gen \in Gens
  /\ pc \in {"bootSnapshot", "bootCommit"} => state.gen = 0
  /\ pc \in Sealing => L.seq + 1 \in Seqs
  /\ pc \in Rotating => state.gen + 1 \in Gens

TypeInv == WorkspaceType /\ BucketType /\ LocalType /\ PassType /\ Control

\* The length a realignment adds is a number: the segments are finitely many
\* and of finite length.
LEMMA ChainTailLengthType ==
  ASSUME TypeInv, state.gen \in Gens, NEW from \in Nat
  PROVE  ChainTailLength(from) \in Nat
<1> DEFINE Part(k) == {k} \X (1..Len(segs[state.gen][state.wal[k].seq]))
           Indices == (from + 1)..Len(state.wal)
           Parts == {Part(k) : k \in Indices}
<1>1. ASSUME NEW k \in Indices
      PROVE  IsFiniteSet(Part(k))
  <2>1. Len(segs[state.gen][state.wal[k].seq]) \in Int
    BY DEF TypeInv, BucketType, States
  <2> DEFINE n == Len(segs[state.gen][state.wal[k].seq])
  <2>2. IsFiniteSet(1..n)
    <3> n \in Int
      BY <2>1
    <3> HIDE DEF n
    <3> QED BY FS_Interval
  <2>3. IsFiniteSet({k})
    BY FS_Singleton
  <2> QED BY <2>2, <2>3, FS_Product
<1>2. IsFiniteSet(Indices)
  BY FS_Interval DEF TypeInv, BucketType, States
<1>3. IsFiniteSet(Parts)
  <2> DEFINE F == [k \in Indices |-> Part(k)]
  <2>1. F \in Surjection(Indices, Parts)
    BY DEF Surjection
  <2> QED BY <1>2, <2>1, FS_Surjection
<1>4. \A T \in Parts : IsFiniteSet(T)
  BY <1>1
<1>5. IsFiniteSet(UNION Parts)
  <2> HIDE DEF Parts
  <2> QED BY <1>3, <1>4, FS_UNION
<1>6. Cardinality(UNION Parts) \in Nat
  BY <1>5, FS_CardinalityType
<1> QED BY <1>6 DEF ChainTailLength

\* The empty sequence is a WAL file (an absent one).
LEMMA NoWal ==
  <<>> \in Seq(Cell)
  OBVIOUS

\* A header or a frame is a pair of numbers.
LEMMA CellPair ==
  ASSUME NEW s \in Nat, NEW n \in Nat
  PROVE  <<s, n>> \in Cell
  BY DEF Cell

\* What the shipper's own connections leave of the database files.
LEMMA FoldType ==
  ASSUME WorkspaceType, ConnectAndClose \/ CheckpointOverOwnConnection
  PROVE  db' \in Nat /\ wal' \in Seq(Cell)
<1>1. last \in Nat /\ db \in Nat /\ wal \in Seq(Cell) /\ db..last \subseteq Nat
  BY DEF WorkspaceType
<1>2. db' \in db..last \/ db' = db \/ db' = last
  BY DEF ConnectAndClose, CheckpointOverOwnConnection
<1>3. wal' = wal \/ wal' = <<>>
  BY DEF ConnectAndClose, CheckpointOverOwnConnection
<1> QED BY <1>1, <1>2, <1>3, NoWal

\* Updates of the bookkeeping keep its type.
LEMMA LocalUpdateType ==
  ASSUME NEW l \in LocalStates, NEW n \in Nat, NEW m \in Nat, NEW b \in BOOLEAN
  PROVE  /\ [l EXCEPT !.hash = n] \in LocalStates
         /\ [l EXCEPT !.pend = b] \in LocalStates
         /\ [l EXCEPT !.pend = b, !.hash = n] \in LocalStates
         /\ [l EXCEPT !.gen = n, !.seq = m] \in LocalStates
         /\ [l EXCEPT !.off = n, !.seq = m] \in LocalStates
         /\ [l EXCEPT !.seq = m, !.off = n] \in LocalStates
  BY DEF LocalStates

\* The fields of a bookkeeping record are numbers.
LEMMA LocalFieldType ==
  ASSUME NEW l \in LocalStates
  PROVE  l.seq \in Nat /\ l.off \in Nat /\ l.gen \in Nat /\ l.salt \in Nat
  BY DEF LocalStates

\* What lies beyond an offset of a longer file is a non-empty file.
LEMMA TailNonEmpty ==
  ASSUME NEW f \in Seq(Cell), NEW n \in Nat, Len(f) > n
  PROVE  SubSeq(f, n + 1, Len(f)) \in Seq(Cell) /\ SubSeq(f, n + 1, Len(f)) # <<>>
<1>1. SubSeq(f, n + 1, Len(f)) \in Seq(Cell)
  BY SubSeqProperties
<1>2. Len(SubSeq(f, n + 1, Len(f))) > 0
  BY SubSeqProperties
<1> DEFINE t == SubSeq(f, n + 1, Len(f))
<1>3. t \in Seq(Cell) /\ Len(t) > 0
  BY <1>1, <1>2
<1> HIDE DEF t
<1>4. t # <<>>
  BY <1>3, EmptySeq
<1> QED BY <1>3, <1>4 DEF t

\* The tail's PUT changes one segment of one generation.
LEMMA PutTailType ==
  ASSUME WorkspaceType, BucketType, LocalType, PutTail, Len(wal) > L.off,
         state.gen \in Gens, L.seq + 1 \in Seqs
  PROVE  /\ segs' \in [Gens -> [Seqs -> Seq(Cell)]]
         /\ segs'[state.gen][L.seq + 1] # <<>>
         /\ \A g \in Gens, i \in Seqs :
              <<g, i>> # <<state.gen, L.seq + 1>> => segs'[g][i] = segs[g][i]
<1> DEFINE tail == SubSeq(wal, L.off + 1, Len(wal))
<1>1. tail \in Seq(Cell) /\ tail # <<>>
  BY TailNonEmpty, LocalFieldType DEF WorkspaceType, LocalType
<1>2. segs' = [segs EXCEPT ![state.gen][L.seq + 1] = tail]
  BY DEF PutTail
<1> HIDE DEF tail
<1> QED BY <1>1, <1>2 DEF BucketType

\* A state with one more segment.
LEMMA ExtendStateType ==
  ASSUME BucketType, LocalType, ExtendState, state.gen \in Gens, L.seq + 1 \in Seqs
  PROVE  /\ state' \in States
         /\ state'.gen = state.gen /\ state'.snap = state.snap
         /\ Len(state'.wal) = Len(state.wal) + 1
         /\ state'.wal[Len(state.wal) + 1].seq = L.seq + 1
         /\ \A k \in 1..Len(state.wal) : state'.wal[k] = state.wal[k]
<1> DEFINE ref == [seq |-> L.seq + 1, sha |-> segs[state.gen][L.seq + 1]]
<1>1. ref \in SegmentRefs
  BY LocalFieldType DEF BucketType, LocalType, SegmentRefs
<1>2. state' = [state EXCEPT !.wal = Append(state.wal, ref)]
  BY DEF ExtendState
<1>3. state \in States /\ state.wal \in Seq(SegmentRefs)
  BY DEF BucketType, States
<1>4. ref.seq = L.seq + 1
  OBVIOUS
<1> HIDE DEF ref
<1>5. Append(state.wal, ref) \in Seq(SegmentRefs)
  BY <1>1, <1>3, AppendProperties
<1>6. state' \in States /\ state'.wal = Append(state.wal, ref)
      /\ state'.gen = state.gen /\ state'.snap = state.snap
  BY <1>2, <1>3, <1>5 DEF States
<1> QED BY <1>1, <1>3, <1>4, <1>6, AppendProperties

\* The application's steps keep the types: they touch the database files only.
LEMMA ApplicationTypeStep ==
  ASSUME TypeInv, Application
  PROVE  TypeInv'
<1>1. ASSUME OpenApp PROVE TypeInv'
  <2>1. WorkspaceType'
    BY <1>1 DEF TypeInv, WorkspaceType, OpenApp, bucket, pass
  <2>2. BucketType'
    BY <1>1 DEF TypeInv, BucketType, OpenApp, bucket, pass
  <2>3. LocalType'
    BY <1>1, AdoptedType DEF TypeInv, WorkspaceType, LocalType, OpenApp, bucket,
           pass
  <2>4. PassType'
    BY <1>1 DEF TypeInv, PassType, OpenApp, bucket, pass
  <2>5. Control'
    BY <1>1 DEF TypeInv, Control, OpenApp, bucket, pass
  <2> QED BY <2>1, <2>2, <2>3, <2>4, <2>5 DEF TypeInv
<1>2. ASSUME Write PROVE TypeInv'
  <2>1. WorkspaceType'
    <3>1. last' \in Nat /\ db' \in Nat /\ open' \in BOOLEAN
      BY <1>2 DEF TypeInv, WorkspaceType, Write
    <3>2. wal' \in Seq(Cell)
      <4>1. last + 1 \in Nat /\ Salt(wal) \in Nat /\ wal \in Seq(Cell)
        BY SaltType DEF TypeInv, WorkspaceType
      <4>2. <<last + 1, 0>> \in Cell /\ <<last + 1, last + 1>> \in Cell
            /\ <<Salt(wal), last + 1>> \in Cell
        BY <4>1, CellPair
      <4>3. CASE wal' = <<<<last + 1, 0>>, <<last + 1, last + 1>>>>
        BY <4>2, <4>3
      <4>4. CASE wal' = PutCell(wal, (last + 1) - Salt(wal) + 2, <<Salt(wal), last + 1>>)
        BY <4>1, <4>2, <4>4, PutCellType
      <4>5. CASE wal' = PutCell(PutCell(wal, 1, <<last + 1, 0>>), 2, <<last + 1, last + 1>>)
        BY <4>1, <4>2, <4>5, PutCellType
      <4> QED BY <1>2, <4>3, <4>4, <4>5 DEF Write
    <3> QED BY <3>1, <3>2 DEF WorkspaceType
  <2>2. BucketType'
    BY <1>2 DEF TypeInv, BucketType, Write, bucket, pass
  <2>3. LocalType'
    BY <1>2, AdoptedType DEF TypeInv, WorkspaceType, LocalType, Write, bucket, pass
  <2>4. PassType'
    BY <1>2 DEF TypeInv, PassType, Write, bucket, pass
  <2>5. Control'
    BY <1>2 DEF TypeInv, Control, Write, bucket, pass
  <2> QED BY <2>1, <2>2, <2>3, <2>4, <2>5 DEF TypeInv
<1>3. ASSUME AutoCheckpoint PROVE TypeInv'
  <2>1. WorkspaceType'
    BY <1>3 DEF TypeInv, WorkspaceType, AutoCheckpoint, bucket, pass
  <2>2. BucketType'
    BY <1>3 DEF TypeInv, BucketType, AutoCheckpoint, bucket, pass
  <2>3. LocalType'
    BY <1>3, AdoptedType DEF TypeInv, WorkspaceType, LocalType, AutoCheckpoint,
           bucket, pass
  <2>4. PassType'
    BY <1>3 DEF TypeInv, PassType, AutoCheckpoint, bucket, pass
  <2>5. Control'
    BY <1>3 DEF TypeInv, Control, AutoCheckpoint, bucket, pass
  <2> QED BY <2>1, <2>2, <2>3, <2>4, <2>5 DEF TypeInv
<1>4. ASSUME CloseApp PROVE TypeInv'
  <2>1. WorkspaceType'
    BY <1>4, NoWal DEF TypeInv, WorkspaceType, CloseApp
  <2>2. BucketType'
    BY <1>4 DEF TypeInv, BucketType, CloseApp, bucket, pass
  <2>3. LocalType'
    BY <1>4, AdoptedType DEF TypeInv, WorkspaceType, LocalType, CloseApp, bucket,
           pass
  <2>4. PassType'
    BY <1>4 DEF TypeInv, PassType, CloseApp, bucket, pass
  <2>5. Control'
    BY <1>4 DEF TypeInv, Control, CloseApp, bucket, pass
  <2> QED BY <2>1, <2>2, <2>3, <2>4, <2>5 DEF TypeInv
<1>5. ASSUME KillApp PROVE TypeInv'
  <2>1. WorkspaceType'
    BY <1>5 DEF TypeInv, WorkspaceType, KillApp, bucket, pass
  <2>2. BucketType'
    BY <1>5 DEF TypeInv, BucketType, KillApp, bucket, pass
  <2>3. LocalType'
    BY <1>5, AdoptedType DEF TypeInv, WorkspaceType, LocalType, KillApp, bucket,
           pass
  <2>4. PassType'
    BY <1>5 DEF TypeInv, PassType, KillApp, bucket, pass
  <2>5. Control'
    BY <1>5 DEF TypeInv, Control, KillApp, bucket, pass
  <2> QED BY <2>1, <2>2, <2>3, <2>4, <2>5 DEF TypeInv
<1> QED BY <1>1, <1>2, <1>3, <1>4, <1>5 DEF Application

\* A pass begins in a committed generation, or on an empty bucket.
LEMMA BeginTypeStep ==
  ASSUME TypeInv, NEW o \in Ops, Begin(o)
  PROVE  TypeInv'
<1>1. WorkspaceType'
  BY DEF TypeInv, WorkspaceType, Begin, workspace
<1>2. BucketType'
  BY DEF TypeInv, BucketType, Begin, bucket
<1>3. LocalType'
  BY DEF TypeInv, LocalType, Begin
<1>4. PassType'
  BY DEF TypeInv, PassType, Begin, NotSeen, Steps, ShipSteps, BootSteps
<1>5. Control'
  <2>1. state' = state /\ state.gen \in 0..MaxGen
    BY DEF TypeInv, BucketType, Begin, bucket
  <2>2. \/ state.gen # 0 /\ pc' = "reconcile"
        \/ state.gen = 0 /\ pc' = "bootSnapshot"
    BY DEF Begin
  <2> QED BY <2>1, <2>2, BoundsAssumption DEF Control, InGeneration, Sealing,
                 Rotating, Gens
<1> QED BY <1>1, <1>2, <1>3, <1>4, <1>5 DEF TypeInv

\* The bootstrap of generation 1 keeps the types.
LEMMA BootTypeStep ==
  ASSUME TypeInv, Boot
  PROVE  TypeInv'
<1>1. ASSUME BootSnapshot PROVE TypeInv'
  <2>1. WorkspaceType'
    BY <1>1, FoldType DEF TypeInv, WorkspaceType, BootSnapshot
  <2>2. BucketType'
    <3>1. last \in Nat /\ state' = state /\ segs' = segs /\ metas' = metas
      BY <1>1 DEF TypeInv, WorkspaceType, BootSnapshot
    <3>2. snaps' = [snaps EXCEPT ![1] = last]
      BY <1>1 DEF BootSnapshot
    <3> QED BY <3>1, <3>2 DEF TypeInv, BucketType
  <2>3. LocalType'
    BY <1>1, AdoptedType DEF TypeInv, WorkspaceType, LocalType, BootSnapshot,
           Goto, ConnectAndClose
  <2>4. PassType'
    BY <1>1 DEF TypeInv, PassType, BootSnapshot, Goto, ConnectAndClose, Steps,
           ShipSteps, RotateSteps, BootSteps, DrainSteps
  <2>5. Control'
    BY <1>1 DEF TypeInv, Control, BootSnapshot, Goto, ConnectAndClose,
           InGeneration, Sealing, Rotating, Steps, ShipSteps, RotateSteps,
           BootSteps, DrainSteps
  <2> QED BY <2>1, <2>2, <2>3, <2>4, <2>5 DEF TypeInv
<1>2. ASSUME BootCommit PROVE TypeInv'
  <2>1. WorkspaceType'
    BY <1>2 DEF TypeInv, WorkspaceType, BootCommit, Goto, workspace
  <2>2. BucketType'
    <3>1. 1 \in Gens
      BY BoundsAssumption DEF Gens
    <3>2. state' = [gen |-> 1, snap |-> snaps[1], wal |-> <<>>]
      BY <1>2 DEF BootCommit
    <3>3. snaps[1] \in Nat \cup {Nil} /\ <<>> \in Seq(SegmentRefs)
      BY <3>1 DEF TypeInv, BucketType
    <3>4. state' \in States
      BY <3>2, <3>3 DEF States
    <3>5. state'.gen \in 0..MaxGen /\ Len(state'.wal) = 0
      BY <3>1, <3>2 DEF Gens
    <3> QED BY <1>2, <3>4, <3>5 DEF TypeInv, BucketType, BootCommit
  <2>3. LocalType'
    BY <1>2, AdoptedType DEF TypeInv, WorkspaceType, LocalType, BootCommit, Goto,
           workspace
  <2>4. PassType'
    BY <1>2 DEF TypeInv, PassType, BootCommit, Goto, workspace, Steps, ShipSteps,
           RotateSteps, BootSteps, DrainSteps
  <2>5. Control'
    BY <1>2, BoundsAssumption DEF TypeInv, Control, Gens, BootCommit, Goto,
           workspace, InGeneration, Sealing, Rotating, Steps, ShipSteps,
           RotateSteps, BootSteps, DrainSteps
  <2> QED BY <2>1, <2>2, <2>3, <2>4, <2>5 DEF TypeInv
<1>3. ASSUME BootSave PROVE TypeInv'
  <2>1. WorkspaceType'
    BY <1>3 DEF TypeInv, WorkspaceType, BootSave, Goto, Return, NotSeen,
           workspace, bucket
  <2>2. BucketType'
    BY <1>3 DEF TypeInv, BucketType, BootSave, Goto, Return, NotSeen, workspace,
           bucket
  <2>3. LocalType'
    <3>1. [FreshLocal EXCEPT !.gen = 1, !.hash = db] \in LocalStates
      BY DEF TypeInv, WorkspaceType, FreshLocal, LocalStates
    <3> QED BY <1>3, <3>1 DEF TypeInv, LocalType, BootSave, Return, Goto
  <2>4. PassType'
    <3>1. /\ pc' \in {"reconcile", "quiesce", "idle"}
          /\ op' \in {op, "none"} /\ seen' \in {seen, NotSeen}
      BY <1>3 DEF BootSave, Goto, Return
    <3>2. {"reconcile", "quiesce", "idle"} \subseteq Steps \cup {"idle"}
      BY DEF Steps, ShipSteps, RotateSteps, DrainSteps
    <3>3. NotSeen \in [salt: Nat, size: Nat, sealed: BOOLEAN]
      BY DEF NotSeen
    <3> QED BY <3>1, <3>2, <3>3 DEF TypeInv, PassType
  <2>5. Control'
    BY <1>3 DEF TypeInv, Control, BootSave, Goto, Return, NotSeen, workspace,
           bucket, InGeneration, Sealing, Rotating, Steps, ShipSteps, RotateSteps,
           BootSteps, DrainSteps
  <2> QED BY <2>1, <2>2, <2>3, <2>4, <2>5 DEF TypeInv
<1> QED BY <1>1, <1>2, <1>3 DEF Boot

\* Reconciliation keeps the types; it copies the generation and the sequence
\* number of a committed state.
LEMMA ReconcileTypeStep ==
  ASSUME TypeInv, Reconcile
  PROVE  TypeInv'
<1>1. ASSUME ReconcileFresh PROVE TypeInv'
  <2>1. WorkspaceType'
    BY <1>1 DEF TypeInv, WorkspaceType, ReconcileFresh, Goto, workspace, bucket
  <2>2. BucketType'
    BY <1>1 DEF TypeInv, BucketType, ReconcileFresh, Goto, workspace, bucket
  <2>3. LocalType'
    <3>1. state.gen \in Nat /\ Len(state.wal) \in Nat
      BY DEF TypeInv, BucketType, States
    <3>2. [L EXCEPT !.gen = state.gen, !.seq = Len(state.wal)] \in LocalStates
      BY <3>1, LocalUpdateType DEF TypeInv, LocalType
    <3> QED BY <1>1, <3>2, AdoptedType DEF TypeInv, WorkspaceType, LocalType,
                   ReconcileFresh
  <2>4. PassType'
    BY <1>1 DEF TypeInv, PassType, ReconcileFresh, Goto, workspace, bucket, Steps,
           ShipSteps, RotateSteps, BootSteps, DrainSteps
  <2>5. Control'
    BY <1>1 DEF TypeInv, Control, ReconcileFresh, Goto, workspace, bucket,
           InGeneration, Sealing, Rotating, Steps, ShipSteps, RotateSteps,
           BootSteps, DrainSteps
  <2> QED BY <2>1, <2>2, <2>3, <2>4, <2>5 DEF TypeInv
<1>2. ASSUME ReconcileStale PROVE TypeInv'
  <2>1. WorkspaceType'
    BY <1>2, FoldType DEF TypeInv, WorkspaceType, ReconcileStale
  <2>2. BucketType'
    BY <1>2 DEF TypeInv, BucketType, ReconcileStale, Goto,
           CheckpointOverOwnConnection, bucket
  <2>3. LocalType'
    <3>1. state.gen \in Nat /\ Len(state.wal) \in Nat
      BY DEF TypeInv, BucketType, States
    <3>2. [L EXCEPT !.gen = state.gen, !.seq = Len(state.wal)] \in LocalStates
      BY <3>1, LocalUpdateType DEF TypeInv, LocalType
    <3> QED BY <1>2, <3>2 DEF TypeInv, LocalType, ReconcileStale
  <2>4. PassType'
    BY <1>2 DEF TypeInv, PassType, ReconcileStale, Goto,
           CheckpointOverOwnConnection, bucket, Steps, ShipSteps, RotateSteps,
           BootSteps, DrainSteps
  <2>5. Control'
    BY <1>2 DEF TypeInv, Control, ReconcileStale, Goto,
           CheckpointOverOwnConnection, bucket, InGeneration, Sealing, Rotating,
           Steps, ShipSteps, RotateSteps, BootSteps, DrainSteps
  <2> QED BY <2>1, <2>2, <2>3, <2>4, <2>5 DEF TypeInv
<1>3. ASSUME RecAdopt PROVE TypeInv'
  <2>1. WorkspaceType'
    BY <1>3 DEF TypeInv, WorkspaceType, RecAdopt, Goto, workspace, bucket
  <2>2. BucketType'
    BY <1>3 DEF TypeInv, BucketType, RecAdopt, Goto, workspace, bucket
  <2>3. LocalType'
    BY <1>3, AdoptedType DEF TypeInv, WorkspaceType, LocalType, RecAdopt, Goto,
           workspace, bucket
  <2>4. PassType'
    BY <1>3 DEF TypeInv, PassType, RecAdopt, Goto, workspace, bucket, Steps,
           ShipSteps, RotateSteps, BootSteps, DrainSteps
  <2>5. Control'
    BY <1>3 DEF TypeInv, Control, RecAdopt, Goto, workspace, bucket, InGeneration,
           Sealing, Rotating, Steps, ShipSteps, RotateSteps, BootSteps, DrainSteps
  <2> QED BY <2>1, <2>2, <2>3, <2>4, <2>5 DEF TypeInv
<1>4. ASSUME RecSave PROVE TypeInv'
  <2>1. WorkspaceType'
    BY <1>4 DEF TypeInv, WorkspaceType, RecSave, Goto, SaveLocal, AfterReconcile,
           workspace, bucket
  <2>2. BucketType'
    BY <1>4 DEF TypeInv, BucketType, RecSave, Goto, SaveLocal, AfterReconcile,
           workspace, bucket
  <2>3. LocalType'
    <3>1. db \in Nat /\ local \in LocalStates /\ L \in LocalStates
      BY DEF TypeInv, WorkspaceType, LocalType
    <3>2. /\ [L EXCEPT !.hash = db] \in LocalStates
          /\ [L EXCEPT !.pend = TRUE] \in LocalStates
          /\ [L EXCEPT !.pend = FALSE, !.hash = db] \in LocalStates
      BY <3>1, LocalUpdateType
    <3> QED BY <1>4, <3>1, <3>2 DEF LocalType, RecSave, Goto, SaveLocal,
                   AfterReconcile, workspace, bucket
  <2>4. PassType'
    BY <1>4 DEF TypeInv, PassType, RecSave, Goto, SaveLocal, AfterReconcile,
           workspace, bucket, Steps, ShipSteps, RotateSteps, BootSteps, DrainSteps
  <2>5. Control'
    BY <1>4 DEF TypeInv, Control, RecSave, Goto, SaveLocal, AfterReconcile,
           workspace, bucket, InGeneration, Sealing, Rotating, Steps, ShipSteps,
           RotateSteps, BootSteps, DrainSteps
  <2> QED BY <2>1, <2>2, <2>3, <2>4, <2>5 DEF TypeInv
<1>5. ASSUME Realign PROVE TypeInv'
  <2>1. WorkspaceType'
    BY <1>5 DEF TypeInv, WorkspaceType, Realign, Goto, SaveLocal, AfterReconcile,
           workspace, bucket
  <2>2. BucketType'
    BY <1>5 DEF TypeInv, BucketType, Realign, Goto, SaveLocal, AfterReconcile,
           workspace, bucket
  <2>3. LocalType'
    <3>1. state.gen \in Gens
      BY <1>5 DEF TypeInv, Control, InGeneration, Steps, ShipSteps, Realign
    <3>2a. L.seq \in Nat /\ L.off \in Nat
      BY LocalFieldType DEF TypeInv, LocalType
    <3>2b. ChainTailLength(L.seq) \in Nat
      BY <3>1, <3>2a, ChainTailLengthType DEF TypeInv
    <3>2c. Len(state.wal) \in Nat
      BY DEF TypeInv, BucketType, States
    <3>2. L.off + ChainTailLength(L.seq) \in Nat /\ Len(state.wal) \in Nat
      BY <3>2a, <3>2b, <3>2c
    <3>3. [L EXCEPT !.off = @ + ChainTailLength(L.seq), !.seq = Len(state.wal)] \in LocalStates
      BY <3>2, LocalUpdateType DEF TypeInv, LocalType
    <3> QED BY <1>5, <3>3 DEF LocalType, Realign, SaveLocal
  <2>4. PassType'
    BY <1>5 DEF TypeInv, PassType, Realign, Goto, SaveLocal, AfterReconcile,
           workspace, bucket, Steps, ShipSteps, RotateSteps, BootSteps, DrainSteps
  <2>5. Control'
    BY <1>5 DEF TypeInv, Control, Realign, Goto, SaveLocal, AfterReconcile,
           workspace, bucket, InGeneration, Sealing, Rotating, Steps, ShipSteps,
           RotateSteps, BootSteps, DrainSteps
  <2> QED BY <2>1, <2>2, <2>3, <2>4, <2>5 DEF TypeInv
<1>6. ASSUME InAgreement PROVE TypeInv'
  <2>1. WorkspaceType'
    BY <1>6 DEF TypeInv, WorkspaceType, InAgreement, Goto, AfterReconcile,
           workspace, bucket
  <2>2. BucketType'
    BY <1>6 DEF TypeInv, BucketType, InAgreement, Goto, AfterReconcile, workspace,
           bucket
  <2>3. LocalType'
    BY <1>6, AdoptedType DEF TypeInv, WorkspaceType, LocalType, InAgreement, Goto,
           AfterReconcile, workspace, bucket
  <2>4. PassType'
    BY <1>6 DEF TypeInv, PassType, InAgreement, Goto, AfterReconcile, workspace,
           bucket, Steps, ShipSteps, RotateSteps, BootSteps, DrainSteps
  <2>5. Control'
    BY <1>6 DEF TypeInv, Control, InAgreement, Goto, AfterReconcile, workspace,
           bucket, InGeneration, Sealing, Rotating, Steps, ShipSteps, RotateSteps,
           BootSteps, DrainSteps
  <2> QED BY <2>1, <2>2, <2>3, <2>4, <2>5 DEF TypeInv
<1> QED BY <1>1, <1>2, <1>3, <1>4, <1>5, <1>6 DEF Reconcile

\* A ship pass keeps the types; it seals only below the bound of a generation.
LEMMA ShipPassTypeStep ==
  ASSUME TypeInv, ShipPass
  PROVE  TypeInv'
<1>1. ASSUME Pending PROVE TypeInv'
  <2>1. WorkspaceType'
    BY <1>1 DEF TypeInv, WorkspaceType, Pending, Goto, Return, NotSeen, workspace,
           bucket
  <2>2. BucketType'
    BY <1>1 DEF TypeInv, BucketType, Pending, Goto, Return, NotSeen, workspace,
           bucket
  <2>3. LocalType'
    BY <1>1, AdoptedType DEF TypeInv, WorkspaceType, LocalType, Pending, Goto,
           Return, NotSeen, workspace, bucket
  <2>4. PassType'
    <3>1. /\ pc' \in {"rotTail", "quiesce", "idle"}
          /\ op' \in {op, "none"} /\ seen' \in {seen, NotSeen}
      BY <1>1 DEF Pending, Goto, Return
    <3>2. {"rotTail", "quiesce", "idle"} \subseteq Steps \cup {"idle"}
      BY DEF Steps, ShipSteps, RotateSteps, DrainSteps
    <3>3. NotSeen \in [salt: Nat, size: Nat, sealed: BOOLEAN]
      BY DEF NotSeen
    <3> QED BY <3>1, <3>2, <3>3 DEF TypeInv, PassType
  <2>5. Control'
    BY <1>1 DEF TypeInv, Control, Pending, Goto, Return, NotSeen, workspace,
           bucket, InGeneration, Sealing, Rotating, Steps, ShipSteps, RotateSteps,
           BootSteps, DrainSteps
  <2> QED BY <2>1, <2>2, <2>3, <2>4, <2>5 DEF TypeInv
<1>2. ASSUME Entry PROVE TypeInv'
  <2>1. WorkspaceType'
    BY <1>2 DEF TypeInv, WorkspaceType, Entry, workspace, bucket
  <2>2. BucketType'
    BY <1>2 DEF TypeInv, BucketType, Entry, workspace, bucket
  <2>3. LocalType'
    BY <1>2, AdoptedType DEF TypeInv, WorkspaceType, LocalType, Entry, workspace,
           bucket
  <2>4. PassType'
    <3>1. Salt(wal) \in Nat /\ Len(wal) \in Nat
      BY SaltType DEF TypeInv, WorkspaceType
    <3> QED BY <1>2, <3>1 DEF TypeInv, PassType, Entry, Steps, ShipSteps
  <2>5. Control'
    BY <1>2 DEF TypeInv, Control, Entry, workspace, bucket, InGeneration, Sealing,
           Rotating, Steps, ShipSteps, RotateSteps, BootSteps, DrainSteps
  <2> QED BY <2>1, <2>2, <2>3, <2>4, <2>5 DEF TypeInv
<1>3. ASSUME Seal PROVE TypeInv'
  <2>1. WorkspaceType'
    BY <1>3 DEF TypeInv, WorkspaceType, Seal, Goto, PutTail, workspace
  <2>2. BucketType'
    <3>1. state.gen \in Gens
      BY <1>3 DEF TypeInv, Control, InGeneration, Steps, ShipSteps, RotateSteps,
             Seal
    <3>2. L.seq < MaxSeg => L.seq + 1 \in Seqs
      BY LocalFieldType, BoundsAssumption DEF TypeInv, LocalType, Seqs
    <3> QED BY <1>3, <3>1, <3>2, PutTailType DEF TypeInv, BucketType, Seal
  <2>3. LocalType'
    BY <1>3, AdoptedType DEF TypeInv, WorkspaceType, LocalType, Seal, Goto,
           PutTail, workspace
  <2>4. PassType'
    BY <1>3 DEF TypeInv, PassType, Seal, Goto, PutTail, workspace, Steps,
           ShipSteps, RotateSteps, BootSteps, DrainSteps
  <2>5. Control'
    <3>1. state.gen \in Gens
      BY <1>3 DEF TypeInv, Control, InGeneration, Steps, ShipSteps, RotateSteps,
             Seal
    <3>2. L.seq < MaxSeg => L.seq + 1 \in Seqs
      BY LocalFieldType, BoundsAssumption DEF TypeInv, LocalType, Seqs
    <3> QED BY <1>3, <3>1, <3>2 DEF Control, Seal, Goto, InGeneration, Sealing,
                   Rotating
  <2> QED BY <2>1, <2>2, <2>3, <2>4, <2>5 DEF TypeInv
<1>4. ASSUME SealMismatch PROVE TypeInv'
  <2>1. WorkspaceType'
    BY <1>4 DEF TypeInv, WorkspaceType, SealMismatch, Return, NotSeen, workspace,
           bucket
  <2>2. BucketType'
    BY <1>4 DEF TypeInv, BucketType, SealMismatch, Return, NotSeen, workspace,
           bucket
  <2>3. LocalType'
    BY <1>4, AdoptedType DEF TypeInv, WorkspaceType, LocalType, SealMismatch,
           Return, NotSeen, workspace, bucket
  <2>4. PassType'
    BY <1>4 DEF TypeInv, PassType, SealMismatch, Return, NotSeen, workspace,
           bucket, Steps, ShipSteps, RotateSteps, BootSteps, DrainSteps
  <2>5. Control'
    BY <1>4 DEF TypeInv, Control, SealMismatch, Return, NotSeen, workspace,
           bucket, InGeneration, Sealing, Rotating, Steps, ShipSteps, RotateSteps,
           BootSteps, DrainSteps
  <2> QED BY <2>1, <2>2, <2>3, <2>4, <2>5 DEF TypeInv
<1>5. ASSUME PutState PROVE TypeInv'
  <2>1. WorkspaceType'
    BY <1>5 DEF TypeInv, WorkspaceType, PutState, Goto, ExtendState, workspace
  <2>2. BucketType'
    <3>1. state.gen \in Gens
      BY <1>5 DEF TypeInv, Control, InGeneration, Steps, ShipSteps, RotateSteps,
             PutState
    <3>2. L.seq + 1 \in Seqs
      BY <1>5 DEF TypeInv, Control, Sealing, PutState
    <3>3. ExtendState /\ UNCHANGED <<snaps, segs, metas>>
      BY <1>5 DEF PutState
    <3>4. \A k \in 1..Len(state'.wal) : state'.wal[k].seq \in Seqs
      <4>1. Len(state.wal) \in Nat /\ \A k \in 1..Len(state.wal) : state.wal[k].seq \in Seqs
        BY DEF TypeInv, BucketType, States
      <4>2. /\ Len(state'.wal) = Len(state.wal) + 1
            /\ state'.wal[Len(state.wal) + 1].seq = L.seq + 1
            /\ \A k \in 1..Len(state.wal) : state'.wal[k] = state.wal[k]
        BY <3>1, <3>2, <3>3, ExtendStateType DEF TypeInv
      <4>3. TAKE k \in 1..Len(state'.wal)
      <4>4. k \in 1..Len(state.wal) \/ k = Len(state.wal) + 1
        BY <4>1, <4>2
      <4> QED BY <3>2, <4>1, <4>2, <4>4
    <3> QED BY <3>1, <3>2, <3>3, <3>4, ExtendStateType DEF TypeInv, BucketType
  <2>3. LocalType'
    BY <1>5, AdoptedType DEF TypeInv, WorkspaceType, LocalType, PutState, Goto,
           ExtendState, workspace
  <2>4. PassType'
    BY <1>5 DEF TypeInv, PassType, PutState, Goto, ExtendState, workspace, Steps,
           ShipSteps, RotateSteps, BootSteps, DrainSteps
  <2>5. Control'
    BY <1>5 DEF TypeInv, Control, PutState, Goto, ExtendState, workspace,
           InGeneration, Sealing, Rotating, Steps, ShipSteps, RotateSteps,
           BootSteps, DrainSteps
  <2> QED BY <2>1, <2>2, <2>3, <2>4, <2>5 DEF TypeInv
<1>6. ASSUME SegSave PROVE TypeInv'
  <2>1. WorkspaceType'
    BY <1>6 DEF TypeInv, WorkspaceType, SegSave, SaveLocal, SealedLocal,
           workspace, bucket
  <2>2. BucketType'
    BY <1>6 DEF TypeInv, BucketType, SegSave, SaveLocal, SealedLocal, workspace,
           bucket
  <2>3. LocalType'
    <3>1. state.gen \in Gens
      BY <1>6 DEF TypeInv, Control, InGeneration, Steps, ShipSteps, RotateSteps,
             SegSave
    <3>2. L.seq + 1 \in Seqs
      BY <1>6 DEF TypeInv, Control, Sealing, SegSave
    <3>3a. segs[state.gen][L.seq + 1] \in Seq(Cell)
      BY <3>1, <3>2 DEF TypeInv, BucketType
    <3>3b. L.seq \in Nat /\ L.off \in Nat
      BY LocalFieldType DEF TypeInv, LocalType
    <3>3. L.seq + 1 \in Nat /\ L.off + Len(segs[state.gen][L.seq + 1]) \in Nat
      BY <3>3a, <3>3b, LenProperties
    <3>4. SealedLocal \in LocalStates
      BY <3>3, LocalUpdateType DEF TypeInv, LocalType, SealedLocal
    <3> QED BY <1>6, <3>4 DEF LocalType, SegSave, SaveLocal
  <2>4. PassType'
    BY <1>6 DEF TypeInv, PassType, SegSave, SaveLocal, SealedLocal, workspace,
           bucket, Steps, ShipSteps, RotateSteps, BootSteps, DrainSteps
  <2>5. Control'
    BY <1>6 DEF TypeInv, Control, SegSave, SaveLocal, SealedLocal, workspace,
           bucket, InGeneration, Sealing, Rotating, Steps, ShipSteps, RotateSteps,
           BootSteps, DrainSteps
  <2> QED BY <2>1, <2>2, <2>3, <2>4, <2>5 DEF TypeInv
<1>7. ASSUME Idle PROVE TypeInv'
  <2>1. WorkspaceType'
    BY <1>7 DEF TypeInv, WorkspaceType, Idle, Return, NotSeen, workspace, bucket
  <2>2. BucketType'
    BY <1>7 DEF TypeInv, BucketType, Idle, Return, NotSeen, workspace, bucket
  <2>3. LocalType'
    BY <1>7, AdoptedType DEF TypeInv, WorkspaceType, LocalType, Idle, Return,
           NotSeen, workspace, bucket
  <2>4. PassType'
    BY <1>7 DEF TypeInv, PassType, Idle, Return, NotSeen, workspace, bucket,
           Steps, ShipSteps, RotateSteps, BootSteps, DrainSteps
  <2>5. Control'
    BY <1>7 DEF TypeInv, Control, Idle, Return, NotSeen, workspace, bucket,
           InGeneration, Sealing, Rotating, Steps, ShipSteps, RotateSteps,
           BootSteps, DrainSteps
  <2> QED BY <2>1, <2>2, <2>3, <2>4, <2>5 DEF TypeInv
<1>8. ASSUME Folded PROVE TypeInv'
  <2>1. WorkspaceType'
    BY <1>8 DEF TypeInv, WorkspaceType, Folded, Goto, Return, NotSeen, workspace,
           bucket
  <2>2. BucketType'
    BY <1>8 DEF TypeInv, BucketType, Folded, Goto, Return, NotSeen, workspace,
           bucket
  <2>3. LocalType'
    <3>1. db \in Nat /\ local \in LocalStates /\ L \in LocalStates
      BY DEF TypeInv, WorkspaceType, LocalType
    <3>2. /\ [L EXCEPT !.hash = db] \in LocalStates
          /\ [L EXCEPT !.pend = TRUE] \in LocalStates
          /\ [L EXCEPT !.pend = FALSE, !.hash = db] \in LocalStates
      BY <3>1, LocalUpdateType
    <3> QED BY <1>8, <3>1, <3>2 DEF LocalType, Folded, Goto, Return, NotSeen,
                   workspace, bucket
  <2>4. PassType'
    <3>1. /\ pc' \in {"rotTail", "quiesce", "idle"}
          /\ op' \in {op, "none"} /\ seen' \in {seen, NotSeen}
      BY <1>8 DEF Folded, Goto, Return
    <3>2. {"rotTail", "quiesce", "idle"} \subseteq Steps \cup {"idle"}
      BY DEF Steps, ShipSteps, RotateSteps, DrainSteps
    <3>3. NotSeen \in [salt: Nat, size: Nat, sealed: BOOLEAN]
      BY DEF NotSeen
    <3> QED BY <3>1, <3>2, <3>3 DEF TypeInv, PassType
  <2>5. Control'
    BY <1>8 DEF TypeInv, Control, Folded, Goto, Return, NotSeen, workspace,
           bucket, InGeneration, Sealing, Rotating, Steps, ShipSteps, RotateSteps,
           BootSteps, DrainSteps
  <2> QED BY <2>1, <2>2, <2>3, <2>4, <2>5 DEF TypeInv
<1>9. ASSUME BenignFold PROVE TypeInv'
  <2>1. WorkspaceType'
    BY <1>9 DEF TypeInv, WorkspaceType, BenignFold, Goto, workspace, bucket
  <2>2. BucketType'
    BY <1>9 DEF TypeInv, BucketType, BenignFold, Goto, workspace, bucket
  <2>3. LocalType'
    BY <1>9, AdoptedType DEF TypeInv, WorkspaceType, LocalType, BenignFold, Goto,
           workspace, bucket
  <2>4. PassType'
    BY <1>9 DEF TypeInv, PassType, BenignFold, Goto, workspace, bucket, Steps,
           ShipSteps, RotateSteps, BootSteps, DrainSteps
  <2>5. Control'
    BY <1>9 DEF TypeInv, Control, BenignFold, Goto, workspace, bucket,
           InGeneration, Sealing, Rotating, Steps, ShipSteps, RotateSteps,
           BootSteps, DrainSteps
  <2> QED BY <2>1, <2>2, <2>3, <2>4, <2>5 DEF TypeInv
<1>10. ASSUME AdoptSave PROVE TypeInv'
  <2>1. WorkspaceType'
    BY <1>10 DEF TypeInv, WorkspaceType, AdoptSave, Return, NotSeen, workspace,
           bucket
  <2>2. BucketType'
    BY <1>10 DEF TypeInv, BucketType, AdoptSave, Return, NotSeen, workspace, bucket
  <2>3. LocalType'
    BY <1>10, AdoptedType DEF TypeInv, WorkspaceType, LocalType, AdoptSave,
           Return, NotSeen, workspace, bucket
  <2>4. PassType'
    BY <1>10 DEF TypeInv, PassType, AdoptSave, Return, NotSeen, workspace, bucket,
           Steps, ShipSteps, RotateSteps, BootSteps, DrainSteps
  <2>5. Control'
    BY <1>10 DEF TypeInv, Control, AdoptSave, Return, NotSeen, workspace, bucket,
           InGeneration, Sealing, Rotating, Steps, ShipSteps, RotateSteps,
           BootSteps, DrainSteps
  <2> QED BY <2>1, <2>2, <2>3, <2>4, <2>5 DEF TypeInv
<1>11. ASSUME Covered PROVE TypeInv'
  <2>1. WorkspaceType'
    BY <1>11 DEF TypeInv, WorkspaceType, Covered, Return, NotSeen, workspace, bucket
  <2>2. BucketType'
    BY <1>11 DEF TypeInv, BucketType, Covered, Return, NotSeen, workspace, bucket
  <2>3. LocalType'
    <3>1. db \in Nat /\ local \in LocalStates /\ L \in LocalStates
      BY DEF TypeInv, WorkspaceType, LocalType
    <3>2. /\ [L EXCEPT !.hash = db] \in LocalStates
          /\ [L EXCEPT !.pend = TRUE] \in LocalStates
          /\ [L EXCEPT !.pend = FALSE, !.hash = db] \in LocalStates
      BY <3>1, LocalUpdateType
    <3> QED BY <1>11, <3>1, <3>2 DEF LocalType, Covered, Return, NotSeen,
                   workspace, bucket
  <2>4. PassType'
    BY <1>11 DEF TypeInv, PassType, Covered, Return, NotSeen, workspace, bucket,
           Steps, ShipSteps, RotateSteps, BootSteps, DrainSteps
  <2>5. Control'
    BY <1>11 DEF TypeInv, Control, Covered, Return, NotSeen, workspace, bucket,
           InGeneration, Sealing, Rotating, Steps, ShipSteps, RotateSteps,
           BootSteps, DrainSteps
  <2> QED BY <2>1, <2>2, <2>3, <2>4, <2>5 DEF TypeInv
<1>12. ASSUME Unchanged PROVE TypeInv'
  <2>1. WorkspaceType'
    BY <1>12 DEF TypeInv, WorkspaceType, Unchanged, Return, NotSeen, workspace,
           bucket
  <2>2. BucketType'
    BY <1>12 DEF TypeInv, BucketType, Unchanged, Return, NotSeen, workspace, bucket
  <2>3. LocalType'
    BY <1>12, AdoptedType DEF TypeInv, WorkspaceType, LocalType, Unchanged,
           Return, NotSeen, workspace, bucket
  <2>4. PassType'
    BY <1>12 DEF TypeInv, PassType, Unchanged, Return, NotSeen, workspace, bucket,
           Steps, ShipSteps, RotateSteps, BootSteps, DrainSteps
  <2>5. Control'
    BY <1>12 DEF TypeInv, Control, Unchanged, Return, NotSeen, workspace, bucket,
           InGeneration, Sealing, Rotating, Steps, ShipSteps, RotateSteps,
           BootSteps, DrainSteps
  <2> QED BY <2>1, <2>2, <2>3, <2>4, <2>5 DEF TypeInv
<1> QED BY <1>1, <1>2, <1>3, <1>4, <1>5, <1>6, <1>7, <1>8, <1>9, <1>10, <1>11,
           <1>12 DEF ShipPass

\* A rotation keeps the types; the generation it opens is in range.
LEMMA RotateTypeStep ==
  ASSUME TypeInv, Rotate
  PROVE  TypeInv'
<1>1. ASSUME RotTail PROVE TypeInv'
  <2>1. WorkspaceType'
    BY <1>1 DEF TypeInv, WorkspaceType, RotTail, Goto, PutTail, workspace
  <2>2. BucketType'
    <3>1. state.gen \in Gens
      BY <1>1 DEF TypeInv, Control, InGeneration, Steps, ShipSteps, RotateSteps,
             RotTail
    <3>2. L.seq < MaxSeg => L.seq + 1 \in Seqs
      BY LocalFieldType, BoundsAssumption DEF TypeInv, LocalType, Seqs
    <3>3. segs' \in [Gens -> [Seqs -> Seq(Cell)]]
      BY <1>1, <3>1, <3>2, PutTailType DEF TypeInv, BucketType, RotTail
    <3> QED BY <1>1, <3>3 DEF TypeInv, BucketType, RotTail
  <2>3. LocalType'
    BY <1>1, AdoptedType DEF TypeInv, WorkspaceType, LocalType, RotTail, Goto,
           PutTail, workspace
  <2>4. PassType'
    BY <1>1 DEF TypeInv, PassType, RotTail, Goto, PutTail, workspace, Steps,
           ShipSteps, RotateSteps, BootSteps, DrainSteps
  <2>5. Control'
    <3>1. state.gen \in Gens
      BY <1>1 DEF TypeInv, Control, InGeneration, Steps, ShipSteps, RotateSteps,
             RotTail
    <3>2. L.seq < MaxSeg => L.seq + 1 \in Seqs
      BY LocalFieldType, BoundsAssumption DEF TypeInv, LocalType, Seqs
    <3>3. state.gen + 1 \in Gens
      BY <1>1, <3>1, BoundsAssumption DEF Gens, RotTail
    <3> QED BY <1>1, <3>1, <3>2, <3>3 DEF Control, RotTail, Goto, InGeneration,
                   Sealing, Rotating
  <2> QED BY <2>1, <2>2, <2>3, <2>4, <2>5 DEF TypeInv
<1>2. ASSUME RotPutState PROVE TypeInv'
  <2>1. WorkspaceType'
    BY <1>2 DEF TypeInv, WorkspaceType, RotPutState, Goto, ExtendState,
           SealedLocal, workspace
  <2>2. BucketType'
    <3>1. state.gen \in Gens
      BY <1>2 DEF TypeInv, Control, InGeneration, Steps, ShipSteps, RotateSteps,
             RotPutState
    <3>2. L.seq + 1 \in Seqs
      BY <1>2 DEF TypeInv, Control, Sealing, RotPutState
    <3>3. ExtendState /\ UNCHANGED <<snaps, segs, metas>>
      BY <1>2 DEF RotPutState
    <3>4. \A k \in 1..Len(state'.wal) : state'.wal[k].seq \in Seqs
      <4>1. Len(state.wal) \in Nat /\ \A k \in 1..Len(state.wal) : state.wal[k].seq \in Seqs
        BY DEF TypeInv, BucketType, States
      <4>2. /\ Len(state'.wal) = Len(state.wal) + 1
            /\ state'.wal[Len(state.wal) + 1].seq = L.seq + 1
            /\ \A k \in 1..Len(state.wal) : state'.wal[k] = state.wal[k]
        BY <3>1, <3>2, <3>3, ExtendStateType DEF TypeInv
      <4>3. TAKE k \in 1..Len(state'.wal)
      <4>4. k \in 1..Len(state.wal) \/ k = Len(state.wal) + 1
        BY <4>1, <4>2
      <4> QED BY <3>2, <4>1, <4>2, <4>4
    <3> QED BY <3>1, <3>2, <3>3, <3>4, ExtendStateType DEF TypeInv, BucketType
  <2>3. LocalType'
    <3>1. state.gen \in Gens
      BY <1>2 DEF TypeInv, Control, InGeneration, Steps, ShipSteps, RotateSteps,
             RotPutState
    <3>2. L.seq + 1 \in Seqs
      BY <1>2 DEF TypeInv, Control, Sealing, RotPutState
    <3>3a. segs[state.gen][L.seq + 1] \in Seq(Cell)
      BY <3>1, <3>2 DEF TypeInv, BucketType
    <3>3b. L.seq \in Nat /\ L.off \in Nat
      BY LocalFieldType DEF TypeInv, LocalType
    <3>3. L.seq + 1 \in Nat /\ L.off + Len(segs[state.gen][L.seq + 1]) \in Nat
      BY <3>3a, <3>3b, LenProperties
    <3>4. SealedLocal \in LocalStates
      BY <3>3, LocalUpdateType DEF TypeInv, LocalType, SealedLocal
    <3> QED BY <1>2, <3>4 DEF TypeInv, LocalType, RotPutState
  <2>4. PassType'
    BY <1>2 DEF TypeInv, PassType, RotPutState, Goto, ExtendState, SealedLocal,
           workspace, Steps, ShipSteps, RotateSteps, BootSteps, DrainSteps
  <2>5. Control'
    BY <1>2 DEF TypeInv, Control, RotPutState, Goto, ExtendState, SealedLocal,
           workspace, InGeneration, Sealing, Rotating, Steps, ShipSteps,
           RotateSteps, BootSteps, DrainSteps
  <2> QED BY <2>1, <2>2, <2>3, <2>4, <2>5 DEF TypeInv
<1>3. ASSUME RotMeta PROVE TypeInv'
  <2>1. WorkspaceType'
    BY <1>3 DEF TypeInv, WorkspaceType, RotMeta, Goto, workspace
  <2>2. BucketType'
    BY <1>3 DEF TypeInv, BucketType, RotMeta, Goto, workspace
  <2>3. LocalType'
    BY <1>3, AdoptedType DEF TypeInv, WorkspaceType, LocalType, RotMeta, Goto,
           workspace
  <2>4. PassType'
    BY <1>3 DEF TypeInv, PassType, RotMeta, Goto, workspace, Steps, ShipSteps,
           RotateSteps, BootSteps, DrainSteps
  <2>5. Control'
    BY <1>3 DEF TypeInv, Control, RotMeta, Goto, workspace, InGeneration, Sealing,
           Rotating, Steps, ShipSteps, RotateSteps, BootSteps, DrainSteps
  <2> QED BY <2>1, <2>2, <2>3, <2>4, <2>5 DEF TypeInv
<1>4. ASSUME RotCheckpoint PROVE TypeInv'
  <2>1. WorkspaceType'
    BY <1>4, FoldType DEF TypeInv, WorkspaceType, RotCheckpoint
  <2>2. BucketType'
    BY <1>4 DEF TypeInv, BucketType, RotCheckpoint, Goto,
           CheckpointOverOwnConnection, bucket
  <2>3. LocalType'
    BY <1>4, AdoptedType DEF TypeInv, WorkspaceType, LocalType, RotCheckpoint,
           Goto, CheckpointOverOwnConnection, bucket
  <2>4. PassType'
    BY <1>4 DEF TypeInv, PassType, RotCheckpoint, Goto,
           CheckpointOverOwnConnection, bucket, Steps, ShipSteps, RotateSteps,
           BootSteps, DrainSteps
  <2>5. Control'
    BY <1>4 DEF TypeInv, Control, RotCheckpoint, Goto,
           CheckpointOverOwnConnection, bucket, InGeneration, Sealing, Rotating,
           Steps, ShipSteps, RotateSteps, BootSteps, DrainSteps
  <2> QED BY <2>1, <2>2, <2>3, <2>4, <2>5 DEF TypeInv
<1>5. ASSUME RotSnapshot PROVE TypeInv'
  <2>1. WorkspaceType'
    BY <1>5, FoldType DEF TypeInv, WorkspaceType, RotSnapshot
  <2>2. BucketType'
    <3>1. last \in Nat /\ state' = state /\ segs' = segs /\ metas' = metas
      BY <1>5 DEF TypeInv, WorkspaceType, RotSnapshot
    <3>2. snaps' = [snaps EXCEPT ![state.gen + 1] = last]
      BY <1>5 DEF RotSnapshot
    <3> QED BY <3>1, <3>2 DEF TypeInv, BucketType
  <2>3. LocalType'
    BY <1>5, AdoptedType DEF TypeInv, WorkspaceType, LocalType, RotSnapshot, Goto,
           ConnectAndClose
  <2>4. PassType'
    BY <1>5 DEF TypeInv, PassType, RotSnapshot, Goto, ConnectAndClose, Steps,
           ShipSteps, RotateSteps, BootSteps, DrainSteps
  <2>5. Control'
    BY <1>5 DEF TypeInv, Control, RotSnapshot, Goto, ConnectAndClose,
           InGeneration, Sealing, Rotating, Steps, ShipSteps, RotateSteps,
           BootSteps, DrainSteps
  <2> QED BY <2>1, <2>2, <2>3, <2>4, <2>5 DEF TypeInv
<1>6. ASSUME RotCommit PROVE TypeInv'
  <2>1. WorkspaceType'
    BY <1>6 DEF TypeInv, WorkspaceType, RotCommit, Goto, workspace
  <2>2. BucketType'
    <3>1. state.gen + 1 \in Gens
      BY <1>6 DEF TypeInv, Control, Rotating, RotCommit
    <3>2. state' = [gen |-> state.gen + 1, snap |-> snaps[state.gen + 1], wal |-> <<>>]
      BY <1>6 DEF RotCommit
    <3>3. snaps[state.gen + 1] \in Nat \cup {Nil} /\ <<>> \in Seq(SegmentRefs)
      BY <3>1 DEF TypeInv, BucketType
    <3>4. state' \in States
      BY <3>1, <3>2, <3>3 DEF States, Gens
    <3>5. state'.gen \in 0..MaxGen /\ Len(state'.wal) = 0
      BY <3>1, <3>2 DEF Gens
    <3> QED BY <1>6, <3>4, <3>5 DEF TypeInv, BucketType, RotCommit
  <2>3. LocalType'
    BY <1>6, AdoptedType DEF TypeInv, WorkspaceType, LocalType, RotCommit, Goto,
           workspace
  <2>4. PassType'
    BY <1>6 DEF TypeInv, PassType, RotCommit, Goto, workspace, Steps, ShipSteps,
           RotateSteps, BootSteps, DrainSteps
  <2>5. Control'
    BY <1>6 DEF TypeInv, Control, RotCommit, Goto, workspace, InGeneration,
           Sealing, Rotating, Steps, ShipSteps, RotateSteps, BootSteps, DrainSteps
  <2> QED BY <2>1, <2>2, <2>3, <2>4, <2>5 DEF TypeInv
<1>7. ASSUME RotAdopt PROVE TypeInv'
  <2>1. WorkspaceType'
    BY <1>7 DEF TypeInv, WorkspaceType, RotAdopt, Goto, workspace, bucket
  <2>2. BucketType'
    BY <1>7 DEF TypeInv, BucketType, RotAdopt, Goto, workspace, bucket
  <2>3. LocalType'
    <3>1. state.gen \in Nat /\ 0 \in Nat
      BY DEF TypeInv, BucketType, States
    <3>2. [L EXCEPT !.gen = state.gen, !.seq = 0] \in LocalStates
      BY <3>1, LocalUpdateType DEF TypeInv, LocalType
    <3> QED BY <1>7, <3>2, AdoptedType DEF TypeInv, WorkspaceType, LocalType,
                   RotAdopt
  <2>4. PassType'
    BY <1>7 DEF TypeInv, PassType, RotAdopt, Goto, workspace, bucket, Steps,
           ShipSteps, RotateSteps, BootSteps, DrainSteps
  <2>5. Control'
    BY <1>7 DEF TypeInv, Control, RotAdopt, Goto, workspace, bucket, InGeneration,
           Sealing, Rotating, Steps, ShipSteps, RotateSteps, BootSteps, DrainSteps
  <2> QED BY <2>1, <2>2, <2>3, <2>4, <2>5 DEF TypeInv
<1>8. ASSUME RotSave PROVE TypeInv'
  <2>1. WorkspaceType'
    BY <1>8 DEF TypeInv, WorkspaceType, RotSave, Goto, SaveLocal, workspace, bucket
  <2>2. BucketType'
    BY <1>8 DEF TypeInv, BucketType, RotSave, Goto, SaveLocal, workspace, bucket
  <2>3. LocalType'
    <3>1. db \in Nat /\ local \in LocalStates /\ L \in LocalStates
      BY DEF TypeInv, WorkspaceType, LocalType
    <3>2. /\ [L EXCEPT !.hash = db] \in LocalStates
          /\ [L EXCEPT !.pend = TRUE] \in LocalStates
          /\ [L EXCEPT !.pend = FALSE, !.hash = db] \in LocalStates
      BY <3>1, LocalUpdateType
    <3> QED BY <1>8, <3>1, <3>2 DEF LocalType, RotSave, Goto, SaveLocal,
                   workspace, bucket
  <2>4. PassType'
    BY <1>8 DEF TypeInv, PassType, RotSave, Goto, SaveLocal, workspace, bucket,
           Steps, ShipSteps, RotateSteps, BootSteps, DrainSteps
  <2>5. Control'
    BY <1>8 DEF TypeInv, Control, RotSave, Goto, SaveLocal, workspace, bucket,
           InGeneration, Sealing, Rotating, Steps, ShipSteps, RotateSteps,
           BootSteps, DrainSteps
  <2> QED BY <2>1, <2>2, <2>3, <2>4, <2>5 DEF TypeInv
<1>9. ASSUME RotPrune PROVE TypeInv'
  <2>1. WorkspaceType'
    BY <1>9 DEF TypeInv, WorkspaceType, RotPrune, Return, NotSeen, workspace
  <2>2. BucketType'
    <3>1. NoState \in States /\ <<>> \in Seq(Cell)
      BY DEF NoState, States
    <3>2. PICK kinds \in SUBSET {"snap", "segs", "meta"} :
            /\ snaps' = [g \in Gens |->
                 IF Pruned(g) /\ "snap" \in kinds THEN Nil ELSE snaps[g]]
            /\ segs' = [g \in Gens |-> [i \in Seqs |->
                 IF Pruned(g) /\ "segs" \in kinds THEN <<>> ELSE segs[g][i]]]
            /\ metas' = [g \in Gens |->
                 IF Pruned(g) /\ "meta" \in kinds THEN NoState ELSE metas[g]]
      BY <1>9 DEF RotPrune
    <3>3. snaps' \in [Gens -> Nat \cup {Nil}]
      BY <3>2 DEF TypeInv, BucketType
    <3>4. segs' \in [Gens -> [Seqs -> Seq(Cell)]]
      BY <3>1, <3>2 DEF TypeInv, BucketType
    <3>5. metas' \in [Gens -> States]
      BY <3>1, <3>2 DEF TypeInv, BucketType
    <3> QED BY <1>9, <3>3, <3>4, <3>5 DEF TypeInv, BucketType, RotPrune
  <2>3. LocalType'
    BY <1>9, AdoptedType DEF TypeInv, WorkspaceType, LocalType, RotPrune, Return,
           NotSeen, workspace
  <2>4. PassType'
    BY <1>9 DEF TypeInv, PassType, RotPrune, Return, NotSeen, workspace, Steps,
           ShipSteps, RotateSteps, BootSteps, DrainSteps
  <2>5. Control'
    BY <1>9 DEF TypeInv, Control, RotPrune, Return, NotSeen, workspace,
           InGeneration, Sealing, Rotating, Steps, ShipSteps, RotateSteps,
           BootSteps, DrainSteps
  <2> QED BY <2>1, <2>2, <2>3, <2>4, <2>5 DEF TypeInv
<1> QED BY <1>1, <1>2, <1>3, <1>4, <1>5, <1>6, <1>7, <1>8, <1>9 DEF Rotate

\* The drain's Quiesce keeps the types.
LEMMA DrainTypeStep ==
  ASSUME TypeInv, Drain
  PROVE  TypeInv'
<1>1. ASSUME Quiesce PROVE TypeInv'
  <2>1. WorkspaceType'
    BY <1>1, FoldType DEF TypeInv, WorkspaceType, Quiesce
  <2>2. BucketType'
    BY <1>1 DEF TypeInv, BucketType, Quiesce, Goto, CheckpointOverOwnConnection,
           bucket
  <2>3. LocalType'
    BY <1>1, AdoptedType DEF TypeInv, WorkspaceType, LocalType, Quiesce, Goto,
           CheckpointOverOwnConnection, bucket
  <2>4. PassType'
    BY <1>1 DEF TypeInv, PassType, Quiesce, Goto, CheckpointOverOwnConnection,
           bucket, Steps, ShipSteps, RotateSteps, BootSteps, DrainSteps
  <2>5. Control'
    BY <1>1 DEF TypeInv, Control, Quiesce, Goto, CheckpointOverOwnConnection,
           bucket, InGeneration, Sealing, Rotating, Steps, ShipSteps, RotateSteps,
           BootSteps, DrainSteps
  <2> QED BY <2>1, <2>2, <2>3, <2>4, <2>5 DEF TypeInv
<1>2. ASSUME QuiesceSave PROVE TypeInv'
  <2>1. WorkspaceType'
    BY <1>2 DEF TypeInv, WorkspaceType, QuiesceSave, SaveLocal, workspace, bucket
  <2>2. BucketType'
    BY <1>2 DEF TypeInv, BucketType, QuiesceSave, SaveLocal, workspace, bucket
  <2>3. LocalType'
    <3>1. db \in Nat /\ local \in LocalStates /\ L \in LocalStates
      BY DEF TypeInv, WorkspaceType, LocalType
    <3>2. /\ [L EXCEPT !.hash = db] \in LocalStates
          /\ [L EXCEPT !.pend = TRUE] \in LocalStates
          /\ [L EXCEPT !.pend = FALSE, !.hash = db] \in LocalStates
      BY <3>1, LocalUpdateType
    <3> QED BY <1>2, <3>1, <3>2 DEF LocalType, QuiesceSave, SaveLocal, workspace,
                   bucket
  <2>4. PassType'
    BY <1>2 DEF TypeInv, PassType, QuiesceSave, SaveLocal, workspace, bucket,
           Steps, ShipSteps, RotateSteps, BootSteps, DrainSteps
  <2>5. Control'
    BY <1>2 DEF TypeInv, Control, QuiesceSave, SaveLocal, workspace, bucket,
           InGeneration, Sealing, Rotating, Steps, ShipSteps, RotateSteps,
           BootSteps, DrainSteps
  <2> QED BY <2>1, <2>2, <2>3, <2>4, <2>5 DEF TypeInv
<1> QED BY <1>1, <1>2 DEF Drain

\* A crash forgets the pass, which keeps the types.
LEMMA FailureTypeStep ==
  ASSUME TypeInv, Failure
  PROVE  TypeInv'
<1>1. ASSUME Crash PROVE TypeInv'
  <2>1. WorkspaceType'
    BY <1>1 DEF TypeInv, WorkspaceType, Crash, NotSeen, workspace, bucket
  <2>2. BucketType'
    BY <1>1 DEF TypeInv, BucketType, Crash, NotSeen, workspace, bucket
  <2>3. LocalType'
    BY <1>1, AdoptedType DEF TypeInv, WorkspaceType, LocalType, Crash, NotSeen,
           workspace, bucket
  <2>4. PassType'
    BY <1>1 DEF TypeInv, PassType, Crash, NotSeen, workspace, bucket, Steps,
           ShipSteps, RotateSteps, BootSteps, DrainSteps
  <2>5. Control'
    BY <1>1 DEF TypeInv, Control, Crash, NotSeen, workspace, bucket, InGeneration,
           Sealing, Rotating, Steps, ShipSteps, RotateSteps, BootSteps, DrainSteps
  <2> QED BY <2>1, <2>2, <2>3, <2>4, <2>5 DEF TypeInv
<1>2. ASSUME SealGone PROVE TypeInv'
  <2>1. WorkspaceType'
    BY <1>2 DEF TypeInv, WorkspaceType, SealGone, NotSeen, workspace, bucket
  <2>2. BucketType'
    BY <1>2 DEF TypeInv, BucketType, SealGone, NotSeen, workspace, bucket
  <2>3. LocalType'
    BY <1>2, AdoptedType DEF TypeInv, WorkspaceType, LocalType, SealGone, NotSeen,
           workspace, bucket
  <2>4. PassType'
    BY <1>2 DEF TypeInv, PassType, SealGone, NotSeen, workspace, bucket, Steps,
           ShipSteps, RotateSteps, BootSteps, DrainSteps
  <2>5. Control'
    BY <1>2 DEF TypeInv, Control, SealGone, NotSeen, workspace, bucket,
           InGeneration, Sealing, Rotating, Steps, ShipSteps, RotateSteps,
           BootSteps, DrainSteps
  <2> QED BY <2>1, <2>2, <2>3, <2>4, <2>5 DEF TypeInv
<1>3. ASSUME RotDefer PROVE TypeInv'
  <2>1. WorkspaceType'
    BY <1>3, FoldType DEF TypeInv, WorkspaceType, RotDefer
  <2>2. BucketType'
    BY <1>3 DEF TypeInv, BucketType, RotDefer, bucket
  <2>3. LocalType'
    BY <1>3 DEF TypeInv, LocalType, RotDefer, SaveLocal
  <2>4. PassType'
    BY <1>3 DEF TypeInv, PassType, RotDefer, NotSeen, Steps, ShipSteps,
           RotateSteps, BootSteps, DrainSteps
  <2>5. Control'
    BY <1>3 DEF TypeInv, Control, RotDefer, SaveLocal, bucket, InGeneration,
           Sealing, Rotating, Steps, ShipSteps, RotateSteps, BootSteps, DrainSteps
  <2> QED BY <2>1, <2>2, <2>3, <2>4, <2>5 DEF TypeInv
<1> QED BY <1>1, <1>2, <1>3 DEF Failure

\* The program starts in a state of these types.
LEMMA TypeInit ==
  Init => TypeInv
<1> SUFFICES ASSUME Init PROVE TypeInv
  OBVIOUS
<1>1. WorkspaceType
  BY NoWal DEF Init, WorkspaceType
<1>2. BucketType
  <2>1. NoState \in States /\ NoState.gen = 0 /\ NoState.wal = <<>>
    BY DEF NoState, States
  <2>2. /\ snaps \in [Gens -> Nat \cup {Nil}]
        /\ segs \in [Gens -> [Seqs -> Seq(Cell)]]
        /\ metas \in [Gens -> States]
    BY <2>1, NoWal DEF Init
  <2>3. state = NoState /\ 0 \in 0..MaxGen
    BY BoundsAssumption DEF Init
  <2> QED BY <2>1, <2>2, <2>3 DEF BucketType
<1>3. LocalType
  BY DEF Init, LocalType, LocalStates, FreshLocal
<1>4. PassType
  BY DEF Init, PassType, NotSeen
<1>5. Control
  BY DEF Init, Control, InGeneration, Sealing, Rotating, Steps, ShipSteps,
         RotateSteps, BootSteps, DrainSteps
<1> QED BY <1>1, <1>2, <1>3, <1>4, <1>5 DEF TypeInv

\* Every step, and every stutter, keeps the types.
LEMMA TypeNext ==
  TypeInv /\ [Next]_vars => TypeInv'
<1> SUFFICES ASSUME TypeInv, [Next]_vars PROVE TypeInv'
  OBVIOUS
<1>1. CASE Application
  BY <1>1, ApplicationTypeStep
<1>2. CASE Shipper
  <2>1. CASE \E o \in Ops : Begin(o)
    <3>1. PICK o \in Ops : Begin(o)
      BY <2>1
    <3> QED BY <3>1, BeginTypeStep
  <2> QED BY <1>2, <2>1, BootTypeStep, ReconcileTypeStep, ShipPassTypeStep,
             RotateTypeStep, DrainTypeStep DEF Shipper
<1>3. CASE Failure
  BY <1>3, FailureTypeStep
<1>4. CASE UNCHANGED vars
  BY <1>4 DEF vars, workspace, bucket, pass, TypeInv, WorkspaceType, BucketType,
              LocalType, PassType, Control
<1> QED BY <1>1, <1>2, <1>3, <1>4 DEF Next

\* TypeInv is an invariant of the program.
LEMMA TypeInvariant ==
  Spec => []TypeInv
  BY TypeInit, TypeNext, PTL DEF Spec

\* Every variable of a running shipper keeps its type, whatever the bounds, the
\* application's events and the points at which passes are cut short.
THEOREM TypeCorrect ==
  Spec => []TypeOK
<1>1. TypeInv => TypeOK
  BY DEF TypeInv, TypeOK, WorkspaceType, BucketType, LocalType, PassType
<1> QED BY <1>1, TypeInvariant, PTL

-----------------------------------------------------------------------------
(* Durability.  The two invariants are not inductive: a commit is safe because
   of what the pass did just before it.  RefsInv adds what an earlier step of
   the running pass left in the bucket for the commit to refer to. *)

Uploaded ==
  /\ pc = "bootCommit" => snaps[1] # Nil
  /\ pc \in {"putState", "rotPutState"} => segs[state.gen][L.seq + 1] # <<>>
  /\ pc \in {"rotCheckpoint", "rotSnapshot", "rotCommit"} => metas[state.gen] = state
  /\ pc = "rotCommit" => snaps[state.gen + 1] # Nil

RefsInv == CommittedRefsPresent /\ RetainedGenerationsPresent /\ Uploaded

\* The steps at which Uploaded says something.
Committing == {"bootCommit", "putState", "rotPutState", "rotCheckpoint",
               "rotSnapshot", "rotCommit"}

\* A step that leaves the bucket alone, and does not arrive where an upload is
\* assumed, keeps the invariant.
LEMMA QuietStep ==
  ASSUME RefsInv, UNCHANGED bucket,
         \/ UNCHANGED <<pc, L>>
         \/ pc' \notin Committing
         \/ pc = "rotCheckpoint" /\ pc' = "rotSnapshot"
  PROVE  RefsInv'
<1>1. UNCHANGED <<state, snaps, segs, metas>>
  BY DEF bucket
<1>2. CommittedRefsPresent' /\ RetainedGenerationsPresent'
  BY <1>1 DEF RefsInv, CommittedRefsPresent, RetainedGenerationsPresent, Durable
<1>3. Uploaded'
  BY <1>1 DEF RefsInv, Uploaded, Committing
<1> QED BY <1>2, <1>3 DEF RefsInv

\* BootSnapshot uploads into a bucket that has no committed state.
LEMMA BootSnapshotRefs ==
  ASSUME TypeInv, RefsInv, BootSnapshot
  PROVE  RefsInv'
<1>1. state.gen = 0 /\ 1 \in Gens
  BY BoundsAssumption DEF TypeInv, Control, BootSnapshot, Gens
<1>2. /\ state' = state /\ segs' = segs /\ metas' = metas /\ pc' = "bootCommit"
      /\ snaps' = [snaps EXCEPT ![1] = last]
  BY DEF BootSnapshot, Goto
<1>3. CommittedRefsPresent' /\ RetainedGenerationsPresent'
  BY <1>1, <1>2 DEF CommittedRefsPresent, RetainedGenerationsPresent, Gens
<1>4. Uploaded'
  <2>1. snaps'[1] = last /\ last # Nil
    BY <1>1, <1>2 DEF TypeInv, WorkspaceType, BucketType, Nil
  <2> QED BY <1>2, <2>1 DEF Uploaded
<1> QED BY <1>3, <1>4 DEF RefsInv

\* BootCommit publishes the snapshot the step before it uploaded.
LEMMA BootCommitRefs ==
  ASSUME TypeInv, RefsInv, BootCommit
  PROVE  RefsInv'
<1>1. 1 \in Gens /\ snaps[1] # Nil
  BY BoundsAssumption DEF RefsInv, Uploaded, BootCommit, Gens
<1>2. /\ state' = [gen |-> 1, snap |-> snaps[1], wal |-> <<>>]
      /\ UNCHANGED <<snaps, segs, metas>> /\ pc' = "bootSave"
  BY DEF BootCommit, Goto
<1>3. state'.gen = 1 /\ state'.snap = snaps[1] /\ Len(state'.wal) = 0
  BY <1>2
<1>4. CommittedRefsPresent'
  BY <1>1, <1>2, <1>3 DEF CommittedRefsPresent, Durable
<1>5. RetainedGenerationsPresent'
  BY <1>3 DEF RetainedGenerationsPresent, Gens
<1>6. Uploaded'
  BY <1>2 DEF Uploaded
<1> QED BY <1>4, <1>5, <1>6 DEF RefsInv

\* The tail's PUT makes one segment of the live generation present; it takes
\* nothing away.
LEMMA PutTailRefs ==
  ASSUME TypeInv, RefsInv, PutTail, Len(wal) > L.off, L.seq < MaxSeg,
         state.gen \in Gens, UNCHANGED <<state, snaps, metas, L>>,
         pc' \in {"putState", "rotPutState"}
  PROVE  RefsInv'
<1>1. L.seq + 1 \in Seqs
  BY LocalFieldType, BoundsAssumption DEF TypeInv, LocalType, Seqs
<1>2. /\ segs'[state.gen][L.seq + 1] # <<>>
      /\ \A g \in Gens, i \in Seqs : segs[g][i] # <<>> => segs'[g][i] # <<>>
  <2>1. /\ segs'[state.gen][L.seq + 1] # <<>>
        /\ \A g \in Gens, i \in Seqs :
             <<g, i>> # <<state.gen, L.seq + 1>> => segs'[g][i] = segs[g][i]
    BY <1>1, PutTailType DEF TypeInv
  <2> QED BY <2>1
<1>3. CommittedRefsPresent' /\ RetainedGenerationsPresent'
  BY <1>2 DEF RefsInv, CommittedRefsPresent, RetainedGenerationsPresent, Durable
<1>4. Uploaded'
  BY <1>2 DEF Uploaded
<1> QED BY <1>3, <1>4 DEF RefsInv

\* The state's PUT refers to one more segment, which is there.
LEMMA ExtendRefs ==
  ASSUME TypeInv, RefsInv, ExtendState, UNCHANGED <<snaps, segs, metas>>,
         pc \in {"putState", "rotPutState"}, pc' \in {"segSave", "rotMeta"}
  PROVE  RefsInv'
<1>1. state.gen \in Gens /\ L.seq + 1 \in Seqs
  BY DEF TypeInv, Control, InGeneration, Sealing, Steps, ShipSteps, RotateSteps
<1>2. /\ state'.gen = state.gen /\ state'.snap = state.snap
      /\ Len(state'.wal) = Len(state.wal) + 1
      /\ state'.wal[Len(state.wal) + 1].seq = L.seq + 1
      /\ \A k \in 1..Len(state.wal) : state'.wal[k] = state.wal[k]
  BY <1>1, ExtendStateType DEF TypeInv
<1>3. segs[state.gen][L.seq + 1] # <<>>
  BY DEF RefsInv, Uploaded
<1>4. state.gen # 0 /\ Len(state.wal) \in Nat
  BY <1>1 DEF Gens, TypeInv, BucketType, States
<1>5. CommittedRefsPresent'
  <2>1. Durable(state)
    BY <1>4 DEF RefsInv, CommittedRefsPresent
  <2>2. /\ state'.gen \in Gens /\ snaps'[state'.gen] # Nil
        /\ snaps'[state'.gen] = state'.snap
    BY <1>2, <2>1 DEF Durable
  <2>3. ASSUME NEW k \in 1..Len(state'.wal)
        PROVE  state'.wal[k].seq \in Seqs /\ segs'[state'.gen][state'.wal[k].seq] # <<>>
    <3>1. k \in 1..Len(state.wal) \/ k = Len(state.wal) + 1
      BY <1>2, <1>4
    <3> QED BY <1>1, <1>2, <1>3, <2>1, <3>1 DEF Durable
  <2> QED BY <2>2, <2>3 DEF CommittedRefsPresent, Durable
<1>6. RetainedGenerationsPresent'
  BY <1>2 DEF RefsInv, RetainedGenerationsPresent, Durable
<1>7. Uploaded'
  BY DEF Uploaded
<1> QED BY <1>5, <1>6, <1>7 DEF RefsInv

\* RotMeta writes the record of the live generation, which is not retained yet.
LEMMA RotMetaRefs ==
  ASSUME TypeInv, RefsInv, RotMeta
  PROVE  RefsInv'
<1>1. state.gen \in Gens
  BY DEF TypeInv, Control, InGeneration, Steps, RotateSteps, RotMeta
<1>2. /\ metas' = [metas EXCEPT ![state.gen] = state]
      /\ UNCHANGED <<state, snaps, segs>> /\ pc' = "rotCheckpoint"
  BY DEF RotMeta, Goto
<1>3. metas \in [Gens -> States] /\ state.gen \in Nat
  BY <1>1 DEF TypeInv, BucketType, Gens
<1>4. /\ metas'[state.gen] = state
      /\ \A g \in Gens : g < state.gen => metas'[g] = metas[g]
  BY <1>1, <1>2, <1>3
<1>5. CommittedRefsPresent' /\ RetainedGenerationsPresent'
  BY <1>2, <1>4 DEF RefsInv, CommittedRefsPresent, RetainedGenerationsPresent,
         Durable
<1>6. Uploaded'
  BY <1>2, <1>4 DEF Uploaded
<1> QED BY <1>5, <1>6 DEF RefsInv

\* RotSnapshot writes the snapshot of a generation nothing refers to yet.
LEMMA RotSnapshotRefs ==
  ASSUME TypeInv, RefsInv, RotSnapshot
  PROVE  RefsInv'
<1>1. state.gen + 1 \in Gens /\ state.gen \in Nat
  BY DEF TypeInv, Control, Rotating, RotSnapshot, BucketType, States
<1>2. /\ snaps' = [snaps EXCEPT ![state.gen + 1] = last]
      /\ UNCHANGED <<state, segs, metas>> /\ pc = "rotSnapshot" /\ pc' = "rotCommit"
  BY DEF RotSnapshot, Goto
<1>3. /\ snaps'[state.gen + 1] = last /\ last # Nil
      /\ \A g \in Gens : g <= state.gen => snaps'[g] = snaps[g]
  BY <1>1, <1>2 DEF TypeInv, WorkspaceType, BucketType, Nil
<1>4. CommittedRefsPresent' /\ RetainedGenerationsPresent'
  <2>1. state.gen # 0 => Durable(state)'
    BY <1>1, <1>2, <1>3 DEF RefsInv, CommittedRefsPresent, Durable
  <2>2. ASSUME NEW g \in Gens, g < state.gen, g > state.gen - Retain
        PROVE  metas[g].gen = g /\ Durable(metas[g])'
    <3>1. metas[g].gen = g /\ Durable(metas[g])
      BY <2>2 DEF RefsInv, RetainedGenerationsPresent
    <3>2. snaps'[g] = snaps[g]
      BY <1>1, <1>3, <2>2 DEF Gens
    <3> QED BY <1>2, <3>1, <3>2 DEF Durable
  <2> QED BY <1>2, <2>1, <2>2 DEF CommittedRefsPresent,
                 RetainedGenerationsPresent, Durable
<1>5. Uploaded'
  BY <1>2, <1>3 DEF RefsInv, Uploaded
<1> QED BY <1>4, <1>5 DEF RefsInv

\* RotCommit publishes the new snapshot; the generation it leaves is retained,
\* and its record is what was committed for it.
LEMMA RotCommitRefs ==
  ASSUME TypeInv, RefsInv, RotCommit
  PROVE  RefsInv'
<1>1. state.gen + 1 \in Gens /\ state.gen \in Gens /\ state.gen \in Nat
  BY DEF TypeInv, Control, Rotating, InGeneration, Steps, RotateSteps, RotCommit,
         BucketType, States
<1>2. /\ state' = [gen |-> state.gen + 1, snap |-> snaps[state.gen + 1], wal |-> <<>>]
      /\ UNCHANGED <<snaps, segs, metas>> /\ pc = "rotCommit" /\ pc' = "rotAdopt"
  BY DEF RotCommit, Goto
<1>3. /\ state'.gen = state.gen + 1 /\ state'.snap = snaps[state.gen + 1]
      /\ Len(state'.wal) = 0
  BY <1>2
<1>4. snaps[state.gen + 1] # Nil /\ metas[state.gen] = state
  BY <1>2 DEF RefsInv, Uploaded
<1>5. CommittedRefsPresent'
  BY <1>1, <1>2, <1>3, <1>4 DEF CommittedRefsPresent, Durable
<1>6. Durable(state) /\ Retain \in Nat
  BY <1>1, BoundsAssumption DEF RefsInv, CommittedRefsPresent, Gens
<1>7. ASSUME NEW g \in Gens, g < state.gen + 1, g > state.gen + 1 - Retain
      PROVE  metas[g].gen = g /\ Durable(metas[g])
  <2>1. CASE g = state.gen
    BY <1>4, <1>6, <2>1
  <2>2. CASE g # state.gen
    <3>1. g < state.gen /\ g > state.gen - Retain
      BY <1>1, <1>6, <1>7, <2>2 DEF Gens
    <3> QED BY <3>1 DEF RefsInv, RetainedGenerationsPresent
  <2> QED BY <2>1, <2>2
<1>8. RetainedGenerationsPresent'
  <2>1. ASSUME NEW g \in Gens, g < state'.gen, g > state'.gen - Retain
        PROVE  metas'[g].gen = g /\ Durable(metas[g])'
    <3>1. metas[g].gen = g /\ Durable(metas[g])
      <4>1. g < state.gen + 1 /\ g > state.gen + 1 - Retain
        BY <1>1, <1>3, <1>6, <2>1 DEF Gens
      <4> QED BY <1>7, <4>1
    <3>2. metas' = metas /\ snaps' = snaps /\ segs' = segs
      BY <1>2
    <3> QED BY <3>1, <3>2 DEF Durable
  <2> QED BY <2>1 DEF RetainedGenerationsPresent
<1>9. Uploaded'
  BY <1>2 DEF Uploaded
<1> QED BY <1>5, <1>8, <1>9 DEF RefsInv

\* The floor of pruning is below the live generation and the retained ones.
LEMMA KeptNotPruned ==
  ASSUME TypeInv
  PROVE  \A g \in Gens : g = state.gen \/ g > state.gen - Retain => ~Pruned(g)
<1>1. SUFFICES ASSUME NEW g \in Gens, g = state.gen \/ g > state.gen - Retain
               PROVE  ~Pruned(g)
  OBVIOUS
<1>2. g \in Nat /\ g \geq 1 /\ state.gen \in Nat /\ Retain \in Nat
  BY BoundsAssumption DEF TypeInv, BucketType, States, Gens
<1>3. CASE g = state.gen
  BY <1>2, <1>3 DEF Pruned
<1>4. CASE g > state.gen - Retain
  <2>1. ~(g < Floor)
    BY <1>2, <1>4 DEF Floor
  <2> QED BY <2>1 DEF Pruned
<1> QED BY <1>1, <1>3, <1>4

\* RotPrune deletes below the floor only: neither the live generation nor a
\* retained one.
LEMMA RotPruneRefs ==
  ASSUME TypeInv, RefsInv, RotPrune
  PROVE  RefsInv'
<1>1. state.gen \in Nat /\ Retain \in Nat /\ Gens \subseteq Nat
  BY BoundsAssumption DEF TypeInv, BucketType, States, Gens
<1>2. PICK kinds \in SUBSET {"snap", "segs", "meta"} :
        /\ snaps' = [g \in Gens |->
             IF Pruned(g) /\ "snap" \in kinds THEN Nil ELSE snaps[g]]
        /\ segs' = [g \in Gens |-> [i \in Seqs |->
             IF Pruned(g) /\ "segs" \in kinds THEN <<>> ELSE segs[g][i]]]
        /\ metas' = [g \in Gens |->
             IF Pruned(g) /\ "meta" \in kinds THEN NoState ELSE metas[g]]
  BY DEF RotPrune
<1>3. \A g \in Gens : g = state.gen \/ g > state.gen - Retain => ~Pruned(g)
  BY KeptNotPruned
<1>4. \A g \in Gens : ~Pruned(g) =>
        /\ snaps'[g] = snaps[g] /\ metas'[g] = metas[g]
        /\ \A i \in Seqs : segs'[g][i] = segs[g][i]
  BY <1>2
<1>5. state' = state /\ pc' \in {"idle", "quiesce"}
  BY DEF RotPrune, Return
<1>6. CommittedRefsPresent'
  BY <1>3, <1>4, <1>5 DEF RefsInv, CommittedRefsPresent, Durable
<1>7. ASSUME NEW g \in Gens, g < state.gen, g > state.gen - Retain
      PROVE  metas'[g].gen = g /\ Durable(metas[g])'
  <2>1. metas[g].gen = g /\ Durable(metas[g])
    BY <1>7 DEF RefsInv, RetainedGenerationsPresent
  <2>2. ~Pruned(g)
    BY <1>3, <1>7
  <2>3. metas'[g] = metas[g] /\ snaps'[g] = snaps[g]
        /\ \A i \in Seqs : segs'[g][i] = segs[g][i]
    BY <1>4, <2>2
  <2> QED BY <2>1, <2>3 DEF Durable
<1>8. RetainedGenerationsPresent'
  BY <1>5, <1>7 DEF RetainedGenerationsPresent
<1>9. Uploaded'
  BY <1>5 DEF Uploaded
<1> QED BY <1>6, <1>8, <1>9 DEF RefsInv

\* The application does not touch the bucket.
LEMMA ApplicationRefs ==
  ASSUME TypeInv, RefsInv, Application
  PROVE  RefsInv'
<1>1. CASE OpenApp
  BY <1>1, QuietStep DEF OpenApp, bucket, pass, Committing
<1>2. CASE Write
  BY <1>2, QuietStep DEF Write, bucket, pass, Committing
<1>3. CASE AutoCheckpoint
  BY <1>3, QuietStep DEF AutoCheckpoint, bucket, pass, Committing
<1>4. CASE CloseApp
  BY <1>4, QuietStep DEF CloseApp, bucket, pass, Committing
<1>5. CASE KillApp
  BY <1>5, QuietStep DEF KillApp, bucket, pass, Committing
<1> QED BY <1>1, <1>2, <1>3, <1>4, <1>5 DEF Application

\* The bootstrap uploads before it commits.
LEMMA BootRefs ==
  ASSUME TypeInv, RefsInv, Boot
  PROVE  RefsInv'
<1>1. CASE BootSnapshot
  BY <1>1, BootSnapshotRefs
<1>2. CASE BootCommit
  BY <1>2, BootCommitRefs
<1>3. CASE BootSave
  BY <1>3, QuietStep DEF BootSave, Goto, Return, NotSeen, workspace, bucket,
         Committing
<1> QED BY <1>1, <1>2, <1>3 DEF Boot

\* Reconciliation touches no object.
LEMMA ReconcileRefs ==
  ASSUME TypeInv, RefsInv, Reconcile
  PROVE  RefsInv'
<1>1. CASE ReconcileFresh
  BY <1>1, QuietStep DEF ReconcileFresh, Goto, workspace, bucket, Committing
<1>2. CASE ReconcileStale
  BY <1>2, QuietStep DEF ReconcileStale, Goto, CheckpointOverOwnConnection,
         bucket, Committing
<1>3. CASE RecAdopt
  BY <1>3, QuietStep DEF RecAdopt, Goto, workspace, bucket, Committing
<1>4. CASE RecSave
  BY <1>4, QuietStep DEF RecSave, Goto, SaveLocal, AfterReconcile, workspace,
         bucket, Committing
<1>5. CASE Realign
  BY <1>5, QuietStep DEF Realign, Goto, SaveLocal, AfterReconcile, workspace,
         bucket, Committing
<1>6. CASE InAgreement
  BY <1>6, QuietStep DEF InAgreement, Goto, AfterReconcile, workspace, bucket,
         Committing
<1> QED BY <1>1, <1>2, <1>3, <1>4, <1>5, <1>6 DEF Reconcile

\* A ship pass uploads a segment before the state that refers to it.
LEMMA ShipPassRefs ==
  ASSUME TypeInv, RefsInv, ShipPass
  PROVE  RefsInv'
<1>1. CASE Pending
  BY <1>1, QuietStep DEF Pending, Goto, Return, NotSeen, workspace, bucket,
         Committing
<1>2. CASE Entry
  BY <1>2, QuietStep DEF Entry, workspace, bucket, Committing
<1>3. CASE Seal
  <2>1. state.gen \in Gens
    BY <1>3 DEF TypeInv, Control, InGeneration, Steps, ShipSteps, RotateSteps, Seal
  <2> QED BY <1>3, <2>1, PutTailRefs DEF Seal, Goto
<1>4. CASE SealMismatch
  BY <1>4, QuietStep DEF SealMismatch, Return, NotSeen, workspace, bucket,
         Committing
<1>5. CASE PutState
  BY <1>5, ExtendRefs DEF PutState, Goto
<1>6. CASE SegSave
  BY <1>6, QuietStep DEF SegSave, SaveLocal, SealedLocal, workspace, bucket,
         Committing
<1>7. CASE Idle
  BY <1>7, QuietStep DEF Idle, Return, NotSeen, workspace, bucket, Committing
<1>8. CASE Folded
  BY <1>8, QuietStep DEF Folded, Goto, Return, NotSeen, workspace, bucket,
         Committing
<1>9. CASE BenignFold
  BY <1>9, QuietStep DEF BenignFold, Goto, workspace, bucket, Committing
<1>10. CASE AdoptSave
  BY <1>10, QuietStep DEF AdoptSave, Return, NotSeen, workspace, bucket, Committing
<1>11. CASE Covered
  BY <1>11, QuietStep DEF Covered, Return, NotSeen, workspace, bucket, Committing
<1>12. CASE Unchanged
  BY <1>12, QuietStep DEF Unchanged, Return, NotSeen, workspace, bucket, Committing
<1> QED BY <1>1, <1>2, <1>3, <1>4, <1>5, <1>6, <1>7, <1>8, <1>9, <1>10, <1>11,
           <1>12 DEF ShipPass

\* A rotation uploads the record and the snapshot before it commits, and prunes
\* what is neither live nor retained.
LEMMA RotateRefs ==
  ASSUME TypeInv, RefsInv, Rotate
  PROVE  RefsInv'
<1>1. CASE RotTail
  <2>1. state.gen \in Gens
    BY <1>1 DEF TypeInv, Control, InGeneration, Steps, ShipSteps, RotateSteps,
           RotTail
  <2>2. CASE pc' = "rotPutState"
    BY <1>1, <2>1, <2>2, PutTailRefs DEF RotTail, Goto
  <2>3. CASE pc' # "rotPutState"
    BY <1>1, <2>3, QuietStep DEF RotTail, Goto, bucket, Committing
  <2> QED BY <2>2, <2>3
<1>2. CASE RotPutState
  BY <1>2, ExtendRefs DEF RotPutState, Goto
<1>3. CASE RotMeta
  BY <1>3, RotMetaRefs
<1>4. CASE RotCheckpoint
  BY <1>4, QuietStep DEF RotCheckpoint, Goto, CheckpointOverOwnConnection, bucket,
         Committing
<1>5. CASE RotSnapshot
  BY <1>5, RotSnapshotRefs
<1>6. CASE RotCommit
  BY <1>6, RotCommitRefs
<1>7. CASE RotAdopt
  BY <1>7, QuietStep DEF RotAdopt, Goto, workspace, bucket, Committing
<1>8. CASE RotSave
  BY <1>8, QuietStep DEF RotSave, Goto, SaveLocal, workspace, bucket, Committing
<1>9. CASE RotPrune
  BY <1>9, RotPruneRefs
<1> QED BY <1>1, <1>2, <1>3, <1>4, <1>5, <1>6, <1>7, <1>8, <1>9 DEF Rotate

\* Quiesce touches no object.
LEMMA DrainRefs ==
  ASSUME TypeInv, RefsInv, Drain
  PROVE  RefsInv'
<1>1. CASE Quiesce
  BY <1>1, QuietStep DEF Quiesce, Goto, CheckpointOverOwnConnection, bucket,
         Committing
<1>2. CASE QuiesceSave
  BY <1>2, QuietStep DEF QuiesceSave, SaveLocal, workspace, bucket, Committing
<1> QED BY <1>1, <1>2 DEF Drain

\* A pass that is cut short touches no object.
LEMMA FailureRefs ==
  ASSUME TypeInv, RefsInv, Failure
  PROVE  RefsInv'
<1>1. CASE Crash
  BY <1>1, QuietStep DEF Crash, NotSeen, workspace, bucket, Committing
<1>2. CASE SealGone
  BY <1>2, QuietStep DEF SealGone, NotSeen, workspace, bucket, Committing
<1>3. CASE RotDefer
  BY <1>3, QuietStep DEF RotDefer, bucket, Committing
<1> QED BY <1>1, <1>2, <1>3 DEF Failure

\* Beginning a pass touches no object.
LEMMA BeginRefs ==
  ASSUME RefsInv, NEW o \in Ops, Begin(o)
  PROVE  RefsInv'
  BY QuietStep DEF Begin, Committing

LEMMA RefsInit ==
  Init => RefsInv
  BY DEF Init, NoState, RefsInv, CommittedRefsPresent, RetainedGenerationsPresent,
         Uploaded, Gens

LEMMA RefsNext ==
  TypeInv /\ RefsInv /\ [Next]_vars => RefsInv'
<1> SUFFICES ASSUME TypeInv, RefsInv, [Next]_vars PROVE RefsInv'
  OBVIOUS
<1>1. CASE Application
  BY <1>1, ApplicationRefs
<1>2. CASE Shipper
  BY <1>2, BeginRefs, BootRefs, ReconcileRefs, ShipPassRefs, RotateRefs, DrainRefs
     DEF Shipper
<1>3. CASE Failure
  BY <1>3, FailureRefs
<1>4. CASE UNCHANGED vars
  BY <1>4, QuietStep DEF vars, pass
<1> QED BY <1>1, <1>2, <1>3, <1>4 DEF Next

\* The commit pointer is written last: in every state of every execution the
\* committed state refers to a snapshot and to segments that are uploaded, and
\* so does the record of each generation that retention keeps.
THEOREM ReferencesPresent ==
  Spec => [](CommittedRefsPresent /\ RetainedGenerationsPresent)
<1>1. Init => RefsInv
  BY RefsInit
<1>2. TypeInv /\ RefsInv /\ [Next]_vars => RefsInv'
  BY RefsNext
<1>3. RefsInv => CommittedRefsPresent /\ RetainedGenerationsPresent
  BY DEF RefsInv
<1> QED BY <1>1, <1>2, <1>3, TypeInvariant, PTL DEF Spec

\* Every generation that retention promises to keep can be restored from the
\* bucket on its own: its record, its snapshot and the segments the record
\* lists are there, whatever is pruned and wherever a rotation is cut short.
THEOREM RetainedGenerationsStay ==
  Spec => []RetainedGenerationsPresent
<1> QED BY ReferencesPresent, PTL

-----------------------------------------------------------------------------
(* The bookkeeping.  LocalNeverAhead is about the file; a pass works on a copy
   and saves it after its commits, so the invariant is about both, and about
   what the pass has just committed when it saves. *)

Behind(l) ==
  /\ l.gen <= state.gen
  /\ l.gen = state.gen => l.seq <= Len(state.wal)

\* The steps between reconciliation and the pass's last seal.
Aligned == {"recAdopt", "recSave", "entry", "seal", "putState", "segSave",
            "classify", "adopt", "rotTail", "rotPutState"}

BehindInv ==
  /\ Behind(local) /\ Behind(L)
  /\ pc \in Aligned => L.gen = state.gen
  /\ pc = "segSave" => L.seq < Len(state.wal)
  /\ pc = "bootSave" => state.gen = 1

\* The bookkeeping of a step that commits nothing: the pass keeps its copy, or
\* drops it for the file's, or saves one that has the same position.
LEMMA SamePosition ==
  ASSUME BehindInv, UNCHANGED state,
         L' = local \/ (L'.gen = L.gen /\ L'.seq = L.seq),
         local' \in {local, L'},
         \/ pc' = pc /\ L' = L
         \/ pc' \notin Aligned \cup {"bootSave"}
         \/ pc' \in Aligned \ {"segSave"} /\ pc \in Aligned /\ L'.gen = L.gen
  PROVE  BehindInv'
<1>1. Behind(L') /\ Behind(local')
  BY DEF BehindInv, Behind
<1>2. (pc \in Aligned => L.gen = state.gen) /\ (pc' \in Aligned => L'.gen = state.gen)
  BY DEF BehindInv, Aligned
<1> QED BY <1>1, <1>2 DEF BehindInv, Behind, Aligned

\* The positions compared are numbers.
LEMMA Positions ==
  ASSUME TypeInv
  PROVE  /\ state.gen \in Nat /\ Len(state.wal) \in Nat
         /\ L.gen \in Nat /\ L.seq \in Nat /\ local.gen \in Nat /\ local.seq \in Nat
  BY LocalFieldType DEF TypeInv, BucketType, LocalType, States

\* Adopting a WAL moves no position.
LEMMA AdoptedPosition ==
  ASSUME NEW l \in LocalStates
  PROVE  Adopted(l).gen = l.gen /\ Adopted(l).seq = l.seq
  BY DEF Adopted, LocalStates

\* The application does not touch the bookkeeping.
LEMMA ApplicationBehind ==
  ASSUME TypeInv, BehindInv, Application
  PROVE  BehindInv'
<1>1. CASE OpenApp
  BY <1>1, SamePosition DEF TypeInv, LocalType, LocalStates, OpenApp, bucket,
         pass, Aligned
<1>2. CASE Write
  BY <1>2, SamePosition DEF TypeInv, LocalType, LocalStates, Write, bucket, pass,
         Aligned
<1>3. CASE AutoCheckpoint
  BY <1>3, SamePosition DEF TypeInv, LocalType, LocalStates, AutoCheckpoint,
         bucket, pass, Aligned
<1>4. CASE CloseApp
  BY <1>4, SamePosition DEF TypeInv, LocalType, LocalStates, CloseApp, bucket,
         pass, Aligned
<1>5. CASE KillApp
  BY <1>5, SamePosition DEF TypeInv, LocalType, LocalStates, KillApp, bucket,
         pass, Aligned
<1> QED BY <1>1, <1>2, <1>3, <1>4, <1>5 DEF Application

\* The bootstrap starts the bookkeeping of generation 1.
LEMMA BootBehind ==
  ASSUME TypeInv, BehindInv, Boot
  PROVE  BehindInv'
<1>1. CASE BootSnapshot
  BY <1>1, SamePosition DEF TypeInv, LocalType, LocalStates, BootSnapshot, Goto,
         ConnectAndClose, bucket, Aligned
<1>2. CASE BootCommit
  <2>1. state'.gen = 1 /\ state.gen = 0 /\ UNCHANGED <<local, L>> /\ pc' = "bootSave"
    BY <1>2 DEF TypeInv, Control, BootCommit, Goto
  <2> QED BY <2>1, Positions DEF BehindInv, Behind, Aligned
<1>3. CASE BootSave
  <2> DEFINE l == [FreshLocal EXCEPT !.gen = 1, !.hash = db]
  <2>1. l.gen = 1 /\ l.seq = 0
    BY DEF FreshLocal
  <2>2. L' = l /\ local' = l /\ state' = state /\ pc' \in {"reconcile", "idle", "quiesce"}
    BY <1>3 DEF BootSave, Return, Goto, bucket
  <2>3. state.gen = 1
    BY <1>3 DEF BehindInv, BootSave
  <2> HIDE DEF l
  <2> QED BY <2>1, <2>2, <2>3, Positions DEF BehindInv, Behind, Aligned
<1> QED BY <1>1, <1>2, <1>3 DEF Boot

\* Reconciliation moves the bookkeeping to the committed position, never past it.
LEMMA ReconcileBehind ==
  ASSUME TypeInv, BehindInv, Reconcile
  PROVE  BehindInv'
<1>1. CASE ReconcileFresh
  <2>1. [L EXCEPT !.gen = state.gen, !.seq = Len(state.wal)] \in LocalStates
    BY Positions, LocalUpdateType DEF TypeInv, LocalType
  <2>2. L' = Adopted([L EXCEPT !.gen = state.gen, !.seq = Len(state.wal)])
    BY <1>1 DEF ReconcileFresh
  <2>3. L'.gen = state.gen /\ L'.seq = Len(state.wal)
    BY <2>1, <2>2, AdoptedPosition DEF TypeInv, LocalType, LocalStates
  <2>4. UNCHANGED <<state, local>> /\ pc' \in {"recSave", "recAdopt"}
    BY <1>1 DEF ReconcileFresh, Goto, bucket
  <2> QED BY <2>3, <2>4, Positions DEF BehindInv, Behind, Aligned
<1>2. CASE ReconcileStale
  <2>1. [L EXCEPT !.gen = state.gen, !.seq = Len(state.wal)] \in LocalStates
    BY Positions, LocalUpdateType DEF TypeInv, LocalType
  <2>2. L' = [L EXCEPT !.gen = state.gen, !.seq = Len(state.wal)]
    BY <1>2 DEF ReconcileStale
  <2>3. L'.gen = state.gen /\ L'.seq = Len(state.wal)
    BY <2>1, <2>2, AdoptedPosition DEF TypeInv, LocalType, LocalStates
  <2>4. UNCHANGED <<state, local>> /\ pc' \in {"recSave", "recAdopt"}
    BY <1>2 DEF ReconcileStale, Goto, bucket
  <2> QED BY <2>3, <2>4, Positions DEF BehindInv, Behind, Aligned
<1>3. CASE RecAdopt
  <2>1. L' \in {L, Adopted(L)} /\ L \in LocalStates
    BY <1>3 DEF TypeInv, LocalType, RecAdopt, Return
  <2>2. L'.gen = L.gen /\ L'.seq = L.seq
    BY <2>1, AdoptedPosition
  <2> QED BY <1>3, <2>2, SamePosition DEF RecAdopt, Goto, bucket, Aligned
<1>4. CASE RecSave
  BY <1>4, SamePosition DEF TypeInv, LocalType, LocalStates, RecSave, Goto,
         SaveLocal, AfterReconcile, workspace, bucket, Aligned
<1>5. CASE Realign
  <2>1. /\ L' = [L EXCEPT !.off = @ + ChainTailLength(L.seq), !.seq = Len(state.wal)]
        /\ local' = L' /\ state' = state /\ L.gen = state.gen /\ pc' # "bootSave" /\ pc' # "segSave"
    BY <1>5 DEF Realign, SaveLocal, Goto, AfterReconcile, bucket
  <2>2. L'.gen = state.gen /\ L'.seq = Len(state.wal)
    BY <2>1 DEF TypeInv, LocalType, LocalStates
  <2> QED BY <2>1, <2>2, Positions DEF BehindInv, Behind, Aligned
<1>6. CASE InAgreement
  <2>1. UNCHANGED <<state, local, L>> /\ L.gen = state.gen /\ pc' \in {"rotTail", "entry"}
    BY <1>6 DEF InAgreement, Goto, AfterReconcile, bucket
  <2> QED BY <2>1, Positions DEF BehindInv, Behind, Aligned
<1> QED BY <1>1, <1>2, <1>3, <1>4, <1>5, <1>6 DEF Reconcile

\* A ship pass commits a segment before it counts it.
LEMMA ShipPassBehind ==
  ASSUME TypeInv, BehindInv, ShipPass
  PROVE  BehindInv'
<1>1. CASE Pending
  BY <1>1, SamePosition DEF TypeInv, LocalType, LocalStates, Pending, Goto,
         Return, NotSeen, workspace, bucket, Aligned
<1>2. CASE Entry
  <2>1. L' \in {L, Adopted(L)} /\ L \in LocalStates
    BY <1>2 DEF TypeInv, LocalType, Entry, Return
  <2>2. L'.gen = L.gen /\ L'.seq = L.seq
    BY <2>1, AdoptedPosition
  <2> QED BY <1>2, <2>2, SamePosition DEF Entry, bucket, Aligned
<1>3. CASE Seal
  BY <1>3, SamePosition DEF TypeInv, LocalType, LocalStates, Seal, Goto, PutTail,
         workspace, bucket, Aligned
<1>4. CASE SealMismatch
  BY <1>4, SamePosition DEF TypeInv, LocalType, LocalStates, SealMismatch, Return,
         NotSeen, workspace, bucket, Aligned
<1>5. CASE PutState
  <2>1. state.gen \in Gens /\ L.seq + 1 \in Seqs /\ L.gen = state.gen
    BY <1>5 DEF TypeInv, Control, InGeneration, Sealing, Steps, ShipSteps,
           RotateSteps, 
              BehindInv, Aligned, PutState
  <2>2. state'.gen = state.gen /\ Len(state'.wal) = Len(state.wal) + 1
    BY <1>5, <2>1, ExtendStateType DEF TypeInv, PutState
  <2>3. UNCHANGED <<local, L>> /\ pc' = "segSave"
    BY <1>5 DEF PutState, Goto
  <2> QED BY <2>1, <2>2, <2>3, Positions DEF BehindInv, Behind, Aligned
<1>6. CASE SegSave
  <2>1. L' = SealedLocal /\ local' = L' /\ state' = state /\ pc' = "classify"
    BY <1>6 DEF SegSave, SaveLocal, bucket
  <2>2. L'.gen = L.gen /\ L'.seq = L.seq + 1
    BY <2>1 DEF TypeInv, LocalType, LocalStates, SealedLocal
  <2>3. L.gen = state.gen /\ L.seq < Len(state.wal)
    BY <1>6 DEF BehindInv, Aligned, SegSave
  <2> QED BY <2>1, <2>2, <2>3, Positions DEF BehindInv, Behind, Aligned
<1>7. CASE Idle
  BY <1>7, SamePosition DEF TypeInv, LocalType, LocalStates, Idle, Return,
         NotSeen, workspace, bucket, Aligned
<1>8. CASE Folded
  BY <1>8, SamePosition DEF TypeInv, LocalType, LocalStates, Folded, Goto, Return,
         NotSeen, workspace, bucket, Aligned
<1>9. CASE BenignFold
  BY <1>9, SamePosition DEF TypeInv, LocalType, LocalStates, BenignFold, Goto,
         workspace, bucket, Aligned
<1>10. CASE AdoptSave
  <2>1. L' \in {L, Adopted(L)} /\ L \in LocalStates
    BY <1>10 DEF TypeInv, LocalType, AdoptSave, Return
  <2>2. L'.gen = L.gen /\ L'.seq = L.seq
    BY <2>1, AdoptedPosition
  <2> QED BY <1>10, <2>2, SamePosition DEF AdoptSave, Return, bucket, Aligned
<1>11. CASE Covered
  BY <1>11, SamePosition DEF TypeInv, LocalType, LocalStates, Covered, Return,
         NotSeen, workspace, bucket, Aligned
<1>12. CASE Unchanged
  BY <1>12, SamePosition DEF TypeInv, LocalType, LocalStates, Unchanged, Return,
         NotSeen, workspace, bucket, Aligned
<1> QED BY <1>1, <1>2, <1>3, <1>4, <1>5, <1>6, <1>7, <1>8, <1>9, <1>10, <1>11,
           <1>12 DEF ShipPass

\* A rotation commits the generation before the bookkeeping enters it.
LEMMA RotateBehind ==
  ASSUME TypeInv, BehindInv, Rotate
  PROVE  BehindInv'
<1>1. CASE RotTail
  BY <1>1, SamePosition DEF TypeInv, LocalType, LocalStates, RotTail, Goto,
         PutTail, workspace, bucket, Aligned
<1>2. CASE RotPutState
  <2>1. state.gen \in Gens /\ L.seq + 1 \in Seqs /\ L.gen = state.gen
    BY <1>2 DEF TypeInv, Control, InGeneration, Sealing, Steps, ShipSteps,
           RotateSteps, 
              BehindInv, Aligned, RotPutState
  <2>2. state'.gen = state.gen /\ Len(state'.wal) = Len(state.wal) + 1
    BY <1>2, <2>1, ExtendStateType DEF TypeInv, RotPutState
  <2>3. L' = SealedLocal /\ local' = local /\ pc' = "rotMeta"
    BY <1>2 DEF RotPutState, Goto
  <2>4. L'.gen = L.gen /\ L'.seq = L.seq + 1
    BY <2>3 DEF TypeInv, LocalType, LocalStates, SealedLocal
  <2> QED BY <2>1, <2>2, <2>3, <2>4, Positions DEF BehindInv, Behind, Aligned
<1>3. CASE RotMeta
  BY <1>3, SamePosition DEF TypeInv, LocalType, LocalStates, RotMeta, Goto,
         workspace, bucket, Aligned
<1>4. CASE RotCheckpoint
  BY <1>4, SamePosition DEF TypeInv, LocalType, LocalStates, RotCheckpoint, Goto,
         CheckpointOverOwnConnection, bucket, Aligned
<1>5. CASE RotSnapshot
  BY <1>5, SamePosition DEF TypeInv, LocalType, LocalStates, RotSnapshot, Goto,
         ConnectAndClose, bucket, Aligned
<1>6. CASE RotCommit
  <2>1. state' = [gen |-> state.gen + 1, snap |-> snaps[state.gen + 1], wal |-> <<>>]
    BY <1>6 DEF RotCommit
  <2>2. state'.gen = state.gen + 1 /\ UNCHANGED <<local, L>> /\ pc' = "rotAdopt"
    BY <1>6, <2>1 DEF RotCommit, Goto
  <2> QED BY <2>2, Positions DEF BehindInv, Behind, Aligned
<1>7. CASE RotAdopt
  <2>1. [L EXCEPT !.gen = state.gen, !.seq = 0] \in LocalStates
    BY Positions, LocalUpdateType DEF TypeInv, LocalType
  <2>2. /\ L' = Adopted([L EXCEPT !.gen = state.gen, !.seq = 0])
        /\ UNCHANGED <<state, local>> /\ pc' = "rotSave"
    BY <1>7 DEF RotAdopt, Goto, bucket
  <2>3. L'.gen = state.gen /\ L'.seq = 0
    BY <2>1, <2>2, AdoptedPosition DEF TypeInv, LocalType, LocalStates
  <2> QED BY <2>2, <2>3, Positions DEF BehindInv, Behind, Aligned
<1>8. CASE RotSave
  BY <1>8, SamePosition DEF TypeInv, LocalType, LocalStates, RotSave, Goto,
         SaveLocal, workspace, bucket, Aligned
<1>9. CASE RotPrune
  BY <1>9, SamePosition DEF TypeInv, LocalType, LocalStates, RotPrune, Return,
         NotSeen, workspace, bucket, Aligned
<1> QED BY <1>1, <1>2, <1>3, <1>4, <1>5, <1>6, <1>7, <1>8, <1>9 DEF Rotate

\* Quiesce moves no position.
LEMMA DrainBehind ==
  ASSUME TypeInv, BehindInv, Drain
  PROVE  BehindInv'
<1>1. CASE Quiesce
  BY <1>1, SamePosition DEF TypeInv, LocalType, LocalStates, Quiesce, Goto,
         CheckpointOverOwnConnection, bucket, Aligned
<1>2. CASE QuiesceSave
  BY <1>2, SamePosition DEF TypeInv, LocalType, LocalStates, QuiesceSave,
         SaveLocal, workspace, bucket, Aligned
<1> QED BY <1>1, <1>2 DEF Drain

\* A crash falls back to the file, which is behind; a deferral saves a copy
\* that is.
LEMMA FailureBehind ==
  ASSUME TypeInv, BehindInv, Failure
  PROVE  BehindInv'
<1>1. CASE Crash
  BY <1>1, SamePosition DEF TypeInv, LocalType, LocalStates, Crash, NotSeen,
         workspace, bucket, Aligned
<1>2. CASE SealGone
  BY <1>2, SamePosition DEF TypeInv, LocalType, LocalStates, SealGone, NotSeen,
         workspace, bucket, Aligned
<1>3. CASE RotDefer
  BY <1>3, SamePosition DEF RotDefer, SaveLocal, bucket, Aligned
<1> QED BY <1>1, <1>2, <1>3 DEF Failure

\* A pass begins from the file.
LEMMA BeginBehind ==
  ASSUME TypeInv, BehindInv, NEW o \in Ops, Begin(o)
  PROVE  BehindInv'
  BY SamePosition DEF Begin, bucket, Aligned

LEMMA BehindInit ==
  Init => BehindInv
  BY DEF Init, NoState, FreshLocal, BehindInv, Behind, Aligned

LEMMA BehindNext ==
  TypeInv /\ BehindInv /\ [Next]_vars => BehindInv'
<1> SUFFICES ASSUME TypeInv, BehindInv, [Next]_vars PROVE BehindInv'
  OBVIOUS
<1>1. CASE Application
  BY <1>1, ApplicationBehind
<1>2. CASE Shipper
  BY <1>2, BeginBehind, BootBehind, ReconcileBehind, ShipPassBehind, RotateBehind,
     DrainBehind DEF Shipper
<1>3. CASE Failure
  BY <1>3, FailureBehind
<1>4. CASE UNCHANGED vars
  BY <1>4, SamePosition DEF vars, pass, bucket
<1> QED BY <1>1, <1>2, <1>3, <1>4 DEF Next

\* The local bookkeeping never runs ahead of the committed chain, whatever is
\* lost and wherever a pass is cut short: reconciliation only ever catches up.
THEOREM BookkeepingNeverAhead ==
  Spec => []LocalNeverAhead
<1>1. BehindInv => LocalNeverAhead
  BY DEF BehindInv, Behind, LocalNeverAhead
<1> QED BY <1>1, BehindInit, BehindNext, TypeInvariant, PTL DEF Spec

=============================================================================
