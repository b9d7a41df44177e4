---------------------- MODULE MirrorRefinementProofs ----------------------
(***************************************************************************)
(* MirrorShip implements CommitPointer when no pass is cut short between a *)
(* commit and the local save that records it: each commit is a step of the *)
(* pointer, each upload and deletion a Store, everything else a stutter.   *)
(* (With such a cut the refinement fails: run mirror_wedge.)               *)
(*                                                                         *)
(* On top of it, what a restore yields (MirrorRestore), whatever the       *)
(* application does and however often SQLite restarts its WAL.  The chain  *)
(* replays from its snapshot on (Opens); while all of it is of the WAL's   *)
(* present incarnation (Live) it is the head of the WAL, up to the         *)
(* bookkeeping's offset, and covers what the passes have reported.         *)
(***************************************************************************)
EXTENDS MirrorShipProofs, MirrorRestore, NaturalsInduction, WellFoundedInduction

\* The bookkeeping counts the committed segments of the generation it is of.
InStep(l) == l.gen = state.gen => l.seq = Len(state.wal)

RetainedContiguous ==
  \A g \in Gens : (g < state.gen /\ g > state.gen - Retain) =>
    ContiguousFromOne(metas[g].wal)

\* Sealing numbers segments from the bookkeeping, and overwrites nothing that
\* is committed as long as the bookkeeping is in step.
InStepInv ==
  /\ CommittedChainReadable
  /\ RetainedContiguous
  /\ state.gen = 0 => Len(state.wal) = 0
  /\ pc \notin Lagging => InStep(local)
  /\ pc # "segSave" => InStep(L)
  /\ pc = "segSave" => L.seq + 1 = Len(state.wal)
  /\ pc \in {"bootSave", "rotAdopt"} => Len(state.wal) = 0

Inv == TypeInv /\ RefsInv /\ BehindInv /\ InStepInv

\* A committed chain is its length: its segments are 1 to Len, all in range.
LEMMA ChainIsItsLength ==
  ASSUME NEW w \in Seq(SegmentRefs), ContiguousFromOne(w),
         \A k \in 1..Len(w) : w[k].seq \in Seqs
  PROVE  \A i \in 1..Len(w) : i \in Seqs /\ w[i].seq = i
  BY DEF ContiguousFromOne

-----------------------------------------------------------------------------
(* Stutters: the steps that leave the bucket alone. *)

\* A quiet step keeps the bookkeeping in step if it keeps a copy that was, or
\* the file's.
LEMMA QuietInStep ==
  ASSUME InStepInv, UNCHANGED bucket,
         \/ UNCHANGED <<local, L, pc>>
         \/ pc # "segSave" /\ pc' \in Lagging \ {"segSave"} /\ L' = L
         \/ pc # "segSave" /\ pc' = "idle" /\ local' = L /\ L' = L
         \/ /\ pc \notin Lagging /\ pc' \notin {"segSave", "bootSave", "rotAdopt"}
            /\ local' \in {local, L'}
            /\ L' = local \/ (L'.gen = L.gen /\ L'.seq = L.seq) \/ InStep(L')
  PROVE  InStepInv'
<1>1. UNCHANGED <<state, snaps, segs, metas>>
  BY DEF bucket
<1>2. CommittedChainReadable'
  BY <1>1 DEF InStepInv, CommittedChainReadable, Valid
<1>3. RetainedContiguous' /\ (state'.gen = 0 => Len(state'.wal) = 0)
  BY <1>1 DEF InStepInv, RetainedContiguous
<1>4. (pc' \notin Lagging => InStep(local)') /\ (pc' # "segSave" => InStep(L)')
      /\ (pc' = "segSave" => L'.seq + 1 = Len(state'.wal))
      /\ (pc' \in {"bootSave", "rotAdopt"} => Len(state'.wal) = 0)
  BY <1>1 DEF InStepInv, InStep, Lagging
<1> QED BY <1>2, <1>3, <1>4 DEF InStepInv

-----------------------------------------------------------------------------
(* Uploads and deletions: Store. *)

\* What a retained generation's record counts: segments in range.
LEMMA RetainedCount ==
  ASSUME Inv, NEW g \in Gens, g < state.gen, g > state.gen - Retain
  PROVE  /\ records[g] = Len(metas[g].wal)
         /\ \A i \in 1..Len(metas[g].wal) : i \in Seqs
<1>1. metas[g].gen = g /\ Durable(metas[g]) /\ ContiguousFromOne(metas[g].wal)
  BY DEF Inv, RefsInv, RetainedGenerationsPresent, InStepInv,
         RetainedContiguous
<1>2. g # 0 /\ metas[g].wal \in Seq(SegmentRefs)
  BY DEF Gens, Inv, TypeInv, BucketType, States
<1>3. \A i \in 1..Len(metas[g].wal) : i \in Seqs
  BY <1>1, <1>2, ChainIsItsLength DEF Durable
<1> QED BY <1>1, <1>2, <1>3 DEF records

\* A step that leaves the live chain and the retained generations alone is a
\* Store, and what was committed stays readable.
LEMMA StoreStep ==
  ASSUME Inv, UNCHANGED state,
         state.gen # 0 =>
           /\ snaps'[state.gen] = snaps[state.gen]
           /\ \A i \in 1..Len(state.wal) : segs'[state.gen][i] = segs[state.gen][i],
         \A g \in Gens : (g < state.gen /\ g > state.gen - Retain) =>
           /\ snaps'[g] = snaps[g] /\ metas'[g] = metas[g]
           /\ \A i \in Seqs : segs'[g][i] = segs[g][i]
  PROVE  Publication!Store /\ CommittedChainReadable' /\ RetainedContiguous'
<1>1. \A g \in Publication!Retained :
        g \in Gens /\ g < state.gen /\ g > state.gen - Retain
  BY DEF Publication!Retained, Publication!Gens, Gens
<1>2. ASSUME NEW g \in Publication!Retained
      PROVE  Publication!Kept(g, records[g]) /\ records'[g] = records[g]
  <2>1. g \in Gens /\ g < state.gen /\ g > state.gen - Retain
    BY <1>1
  <2>2. /\ records[g] = Len(metas[g].wal)
        /\ \A i \in 1..Len(metas[g].wal) : i \in Seqs
    BY <2>1, RetainedCount
  <2>3. metas'[g] = metas[g] /\ snaps'[g] = snaps[g]
        /\ \A i \in Seqs : segs'[g][i] = segs[g][i]
    BY <2>1
  <2>4. records'[g] = records[g]
    BY <2>1, <2>3 DEF records
  <2> QED BY <2>2, <2>3, <2>4 DEF Publication!Kept
<1>3. state.gen # 0 => Publication!Kept(state.gen, Len(state.wal))
  BY DEF Publication!Kept
<1>4. Publication!Store
  BY <1>2, <1>3 DEF Publication!Store, Publication!pointer
<1>5. CommittedChainReadable'
  <2>1. CommittedChainReadable
    BY DEF Inv, InStepInv
  <2>2. CASE state.gen = 0
    <3>1. Len(state.wal) = 0
      BY <2>2 DEF Inv, InStepInv
    <3> QED BY <2>1, <3>1 DEF CommittedChainReadable, Valid, ContiguousFromOne
  <2>3. CASE state.gen # 0
    BY <2>1, <2>3 DEF CommittedChainReadable, Valid, ContiguousFromOne
  <2> QED BY <2>2, <2>3
<1>6. RetainedContiguous'
  BY DEF Inv, InStepInv, RetainedContiguous
<1> QED BY <1>4, <1>5, <1>6

\* The live generation of a pass that seals, and its next segment number.
LEMMA NextSegment ==
  ASSUME Inv, pc \in {"seal", "rotTail", "putState", "rotPutState"}
  PROVE  /\ state.gen \in Gens /\ state.gen # 0
         /\ L.gen = state.gen /\ L.seq = Len(state.wal) /\ L.seq \in Nat
         /\ \A i \in 1..Len(state.wal) : i # L.seq + 1
<1>1. state.gen \in Gens /\ L.gen = state.gen
  BY DEF Inv, TypeInv, Control, InGeneration, Steps, ShipSteps, RotateSteps,
         BehindInv, Aligned
<1>2. L.seq = Len(state.wal)
  BY <1>1 DEF Inv, InStepInv, InStep, Lagging
<1>3. L.seq \in Nat
  BY Positions DEF Inv
<1> QED BY <1>1, <1>2, <1>3 DEF Gens

\* The tail's PUT writes the segment after the last committed one.
LEMMA PutTailStores ==
  ASSUME Inv, PutTail, Len(wal) > L.off, L.seq < MaxSeg, pc \in {"seal", "rotTail"},
         UNCHANGED <<state, snaps, metas, L, local>>,
         pc' \in {"putState", "rotPutState"}
  PROVE  InStepInv' /\ Publication!Store
<1>1. /\ state.gen \in Gens /\ state.gen # 0 /\ L.seq \in Nat
      /\ \A i \in 1..Len(state.wal) : i # L.seq + 1
  BY NextSegment
<1>2. L.seq + 1 \in Seqs
  BY <1>1, BoundsAssumption DEF Seqs
<1>3. segs' = [segs EXCEPT ![state.gen][L.seq + 1] = SubSeq(wal, L.off + 1, Len(wal))]
  BY DEF PutTail
<1>4. segs \in [Gens -> [Seqs -> Seq(Cell)]]
  BY DEF Inv, TypeInv, BucketType
<1>5. \A i \in 1..Len(state.wal) : segs'[state.gen][i] = segs[state.gen][i]
  BY <1>1, <1>3, <1>4
<1>6. \A g \in Gens : g < state.gen => \A i \in Seqs : segs'[g][i] = segs[g][i]
  <2>1. \A g \in Gens : g < state.gen => g # state.gen
    BY <1>1 DEF Gens
  <2> QED BY <1>1, <1>3, <1>4, <2>1
<1>7. Publication!Store /\ CommittedChainReadable' /\ RetainedContiguous'
  BY <1>5, <1>6, StoreStep
<1>8. InStepInv'
  BY <1>7 DEF Inv, InStepInv, InStep, RetainedContiguous, Lagging
<1> QED BY <1>7, <1>8

\* BootSnapshot uploads into an empty bucket.
LEMMA BootSnapshotStores ==
  ASSUME Inv, BootSnapshot
  PROVE  InStepInv' /\ Publication!Store
<1>1. state.gen = 0 /\ UNCHANGED <<state, local, L>> /\ pc = "bootSnapshot" /\ pc' = "bootCommit"
  BY DEF Inv, TypeInv, Control, BootSnapshot, Goto
<1>2. Publication!Store /\ CommittedChainReadable' /\ RetainedContiguous'
  BY <1>1, StoreStep DEF Gens
<1> QED BY <1>1, <1>2 DEF Inv, InStepInv, InStep, Lagging

\* RotMeta writes the record of the live generation, RotSnapshot the snapshot
\* of the next one.
LEMMA RotateStores ==
  ASSUME Inv, RotMeta \/ RotSnapshot
  PROVE  InStepInv' /\ Publication!Store
<1>1. state.gen \in Gens /\ state.gen \in Nat
  BY DEF Inv, TypeInv, Control, InGeneration, Steps, RotateSteps, RotMeta,
         RotSnapshot, 
         BucketType, States
<1>2. /\ UNCHANGED <<state, local, L, segs>>
      /\ pc # "segSave" /\ pc' \in {"rotCheckpoint", "rotCommit"}
      /\ metas' = metas \/ metas' = [metas EXCEPT ![state.gen] = state]
      /\ snaps' = snaps \/ snaps' = [snaps EXCEPT ![state.gen + 1] = last]
  BY DEF RotMeta, RotSnapshot, Goto
<1>3. metas \in [Gens -> States] /\ snaps \in [Gens -> Nat \cup {Nil}]
  BY DEF Inv, TypeInv, BucketType
<1>4. \A g \in Gens : (g < state.gen => metas'[g] = metas[g])
                      /\ (g <= state.gen => snaps'[g] = snaps[g])
  <2>1. \A g \in Gens : (g < state.gen => g # state.gen)
                        /\ (g <= state.gen => g # state.gen + 1)
    BY <1>1 DEF Gens
  <2> QED BY <1>2, <1>3, <2>1
<1>5. snaps'[state.gen] = snaps[state.gen] /\ \A g \in Gens : g < state.gen => g <= state.gen
  BY <1>1, <1>4 DEF Gens
<1>6. Publication!Store /\ CommittedChainReadable' /\ RetainedContiguous'
  BY <1>2, <1>4, <1>5, StoreStep
<1> QED BY <1>2, <1>6 DEF Inv, InStepInv, InStep, Lagging

\* RotPrune deletes what neither the live chain nor a retained one needs.
LEMMA RotPruneStores ==
  ASSUME Inv, RotPrune
  PROVE  InStepInv' /\ Publication!Store
<1>1. state.gen \in Nat /\ Retain \in Nat /\ Retain > 0 /\ Gens \subseteq Nat
  BY BoundsAssumption DEF Inv, TypeInv, BucketType, States, Gens
<1>2. PICK kinds \in SUBSET {"snap", "segs", "meta"} :
        /\ snaps' = [g \in Gens |->
             IF Pruned(g) /\ "snap" \in kinds THEN Nil ELSE snaps[g]]
        /\ segs' = [g \in Gens |-> [i \in Seqs |->
             IF Pruned(g) /\ "segs" \in kinds THEN <<>> ELSE segs[g][i]]]
        /\ metas' = [g \in Gens |->
             IF Pruned(g) /\ "meta" \in kinds THEN NoState ELSE metas[g]]
  BY DEF RotPrune
<1>3. \A g \in Gens : g = state.gen \/ g > state.gen - Retain => ~Pruned(g)
  BY KeptNotPruned DEF Inv
<1>4. \A g \in Gens : ~Pruned(g) =>
        /\ snaps'[g] = snaps[g] /\ metas'[g] = metas[g]
        /\ \A i \in Seqs : segs'[g][i] = segs[g][i]
  BY <1>2
<1>5. state' = state /\ local' = local /\ L' = L /\ pc = "rotPrune" /\ pc' \in {"idle", "quiesce"}
  BY DEF RotPrune, Return
<1>6. state.gen \in Gens /\ \A i \in 1..Len(state.wal) : i \in Seqs
  <2>1. state.gen \in Gens
    BY <1>5 DEF Inv, TypeInv, Control, InGeneration, Steps, RotateSteps
  <2>2. state.wal \in Seq(SegmentRefs) /\ \A k \in 1..Len(state.wal) : state.wal[k].seq \in Seqs
    BY DEF Inv, TypeInv, BucketType, States
  <2> QED BY <2>1, <2>2, ChainIsItsLength DEF Inv, InStepInv,
                 CommittedChainReadable, Valid
<1>7. Publication!Store /\ CommittedChainReadable' /\ RetainedContiguous'
  BY <1>3, <1>4, <1>5, <1>6, StoreStep
<1> QED BY <1>5, <1>7 DEF Inv, InStepInv, InStep, Lagging

-----------------------------------------------------------------------------
(* Commits: Publish, Extend, Advance. *)

\* The first state PUT publishes generation 1.
LEMMA BootCommitPublishes ==
  ASSUME Inv, BootCommit
  PROVE  InStepInv' /\ Publication!Publish
<1>1. /\ state' = [gen |-> 1, snap |-> snaps[1], wal |-> <<>>]
      /\ UNCHANGED <<snaps, segs, metas, local, L>> /\ pc = "bootCommit" /\ pc' = "bootSave"
  BY DEF BootCommit, Goto
<1>2. state'.gen = 1 /\ state'.wal = <<>> /\ Len(state'.wal) = 0
  BY <1>1
<1>3. state.gen = 0 /\ snaps[1] # Nil
  BY <1>1 DEF Inv, TypeInv, Control, RefsInv, Uploaded
<1>4. Publication!Publish
  <2>1. 1 \in Publication!Gens
    BY BoundsAssumption DEF Publication!Gens
  <2>2. Publication!Present(1, 0)
    BY <1>3 DEF Publication!Present, Publication!Absent, Nil
  <2>3. UNCHANGED Publication!objects
    BY <1>1 DEF Publication!objects, records
  <2> QED BY <1>2, <1>3, <2>1, <2>2, <2>3 DEF Publication!Publish
<1>5. CommittedChainReadable' /\ RetainedContiguous'
  BY <1>2 DEF CommittedChainReadable, Valid, ContiguousFromOne,
         RetainedContiguous, Gens
<1>6. InStep(local)' /\ InStep(L)'
  <2>1. local.gen \in Nat /\ L.gen \in Nat /\ local.gen <= 0 /\ L.gen <= 0
    BY <1>3, Positions DEF Inv, BehindInv, Behind
  <2> QED BY <1>1, <1>2, <2>1 DEF InStep
<1> QED BY <1>1, <1>2, <1>4, <1>5, <1>6 DEF InStepInv

\* A segment's state PUT extends the live generation by one.
LEMMA ExtendStateExtends ==
  ASSUME Inv, PutState \/ RotPutState
  PROVE  InStepInv' /\ Publication!Extend
<1>1. /\ pc \in {"putState", "rotPutState"} /\ pc' \in {"segSave", "rotMeta"}
      /\ ExtendState /\ UNCHANGED <<snaps, segs, metas, local>>
      /\ pc' = "segSave" => L' = L
  BY DEF PutState, RotPutState, Goto
<1>2. /\ state.gen \in Gens /\ state.gen # 0
      /\ L.gen = state.gen /\ L.seq = Len(state.wal) /\ L.seq \in Nat
  BY <1>1, NextSegment
<1>3. L.seq + 1 \in Seqs
  BY <1>1 DEF Inv, TypeInv, Control, Sealing
<1>4. state' = [state EXCEPT !.wal =
                  Append(@, [seq |-> L.seq + 1, sha |-> segs[state.gen][L.seq + 1]])]
  BY <1>1 DEF ExtendState
<1>5. /\ state'.gen = state.gen
      /\ state'.wal = Append(state.wal, [seq |-> L.seq + 1, sha |-> segs[state.gen][L.seq + 1]])
  BY <1>4 DEF Inv, TypeInv, BucketType, States
<1>6. Len(state'.wal) = Len(state.wal) + 1
  BY <1>1, <1>2, <1>3, ExtendStateType DEF Inv, TypeInv
<1>7. state'.wal[L.seq + 1] = [seq |-> L.seq + 1, sha |-> segs[state.gen][L.seq + 1]]
      /\ \A k \in 1..Len(state.wal) : state'.wal[k] = state.wal[k]
  <2> DEFINE ref == [seq |-> L.seq + 1, sha |-> segs[state.gen][L.seq + 1]]
  <2>1. ref \in SegmentRefs /\ state.wal \in Seq(SegmentRefs)
    BY <1>2, <1>3 DEF Inv, TypeInv, BucketType, States, SegmentRefs
  <2>2. state'.wal = Append(state.wal, ref)
    BY <1>5
  <2> HIDE DEF ref
  <2>3. state'.wal[L.seq + 1] = ref /\ \A k \in 1..Len(state.wal) : state'.wal[k] = state.wal[k]
    BY <1>2, <2>1, <2>2, AppendProperties
  <2> QED BY <2>3 DEF ref
<1>8. \A k \in 1..Len(state'.wal) : k \in 1..Len(state.wal) \/ k = L.seq + 1
  BY <1>2, <1>6
<1>9. CommittedChainReadable'
  <2>1. CommittedChainReadable
    BY DEF Inv, InStepInv
  <2>2. ASSUME NEW k \in 1..Len(state'.wal)
        PROVE  state'.wal[k].seq = k /\ segs'[state'.gen][state'.wal[k].seq] = state'.wal[k].sha
    <3>1. CASE k \in 1..Len(state.wal)
      BY <1>1, <1>5, <1>7, <2>1, <3>1 DEF CommittedChainReadable, Valid,
             ContiguousFromOne
    <3>2. CASE k = L.seq + 1
      BY <1>1, <1>5, <1>7, <3>2
    <3> QED BY <1>8, <3>1, <3>2
  <2> QED BY <2>2 DEF CommittedChainReadable, Valid, ContiguousFromOne
<1>10. RetainedContiguous'
  BY <1>1, <1>5 DEF Inv, InStepInv, RetainedContiguous
<1>11. InStepInv'
  <2>1. pc' # "segSave" => L'.seq = L.seq + 1
    BY <1>1 DEF PutState, RotPutState, Goto, Inv, TypeInv, LocalType, LocalStates,
           SealedLocal
  <2> QED BY <1>1, <1>2, <1>5, <1>6, <1>9, <1>10, <2>1 DEF InStepInv, InStep,
             Lagging
<1>12. Publication!Extend
  <2>1. segs[state.gen][L.seq + 1] # <<>>
    BY <1>1 DEF Inv, RefsInv, Uploaded
  <2>2. Len(state.wal) + 1 \in Publication!Seqs
    BY <1>2, <1>3 DEF Publication!Seqs, Seqs
  <2>3. UNCHANGED Publication!objects
    BY <1>1 DEF Publication!objects, records
  <2> QED BY <1>2, <1>5, <1>6, <2>1, <2>2, <2>3 DEF Publication!Extend
<1> QED BY <1>11, <1>12

\* A rotation's state PUT moves to the next generation.
LEMMA RotCommitAdvances ==
  ASSUME Inv, RotCommit
  PROVE  InStepInv' /\ Publication!Advance
<1>1. /\ state' = [gen |-> state.gen + 1, snap |-> snaps[state.gen + 1], wal |-> <<>>]
      /\ UNCHANGED <<snaps, segs, metas, local, L>> /\ pc = "rotCommit" /\ pc' = "rotAdopt"
  BY DEF RotCommit, Goto
<1>2. state'.gen = state.gen + 1 /\ state'.wal = <<>> /\ Len(state'.wal) = 0
  BY <1>1
<1>3. state.gen \in Gens /\ state.gen + 1 \in Gens /\ state.gen \in Nat /\ state.gen # 0
  BY <1>1 DEF Inv, TypeInv, Control, InGeneration, Rotating, Steps, RotateSteps,
         Gens
<1>4. snaps[state.gen + 1] # Nil /\ metas[state.gen] = state
  BY <1>1 DEF Inv, RefsInv, Uploaded
<1>5. Publication!Advance
  <2>1. state.gen + 1 \in Publication!Gens
    BY <1>3 DEF Publication!Gens, Gens
  <2>2. Publication!Present(state.gen + 1, 0)
    BY <1>4 DEF Publication!Present, Publication!Absent, Nil
  <2>3. UNCHANGED Publication!objects
    BY <1>1 DEF Publication!objects, records
  <2>4. records[state.gen] = Len(state.wal)
    BY <1>3, <1>4 DEF records
  <2> QED BY <1>2, <1>3, <2>1, <2>2, <2>3, <2>4 DEF Publication!Advance
<1>6. CommittedChainReadable'
  BY <1>2 DEF CommittedChainReadable, Valid, ContiguousFromOne
<1>7. RetainedContiguous'
  <2>1. ContiguousFromOne(state.wal) /\ RetainedContiguous /\ Retain \in Nat
    BY BoundsAssumption DEF Inv, InStepInv, CommittedChainReadable, Valid
  <2>2. ASSUME NEW g \in Gens, g < state'.gen, g > state'.gen - Retain
        PROVE  ContiguousFromOne(metas'[g].wal)
    <3>1. g \in Nat /\ g < state.gen + 1 /\ g > state.gen + 1 - Retain
      BY <1>2, <1>3, <2>1, <2>2 DEF Gens
    <3>2. g = state.gen \/ (g < state.gen /\ g > state.gen - Retain)
      BY <1>3, <2>1, <3>1
    <3> QED BY <1>1, <1>4, <2>1, <3>2 DEF RetainedContiguous
  <2> QED BY <2>2 DEF RetainedContiguous, ContiguousFromOne
<1>8. InStep(local)' /\ InStep(L)'
  <2>1. /\ local.gen \in Nat /\ L.gen \in Nat /\ local.gen <= state.gen /\ L.gen <= state.gen
    BY Positions DEF Inv, BehindInv, Behind
  <2> QED BY <1>1, <1>2, <1>3, <2>1 DEF InStep
<1> QED BY <1>1, <1>2, <1>3, <1>5, <1>6, <1>7, <1>8 DEF InStepInv

-----------------------------------------------------------------------------
(* Every step is a step of the pointer, or a stutter. *)

PointerStep == [Publication!Next]_<<Publication!objects, Publication!pointer>>

\* The ways a step of the shipper is a step of the pointer.
LEMMA PointerSteps ==
  ASSUME \/ UNCHANGED bucket
         \/ Publication!Store \/ Publication!Publish
         \/ Publication!Extend \/ Publication!Advance
  PROVE  PointerStep
<1>1. CASE UNCHANGED bucket
  BY <1>1 DEF PointerStep, Publication!objects, Publication!pointer, records, bucket
<1> QED BY <1>1 DEF PointerStep, Publication!Next

\* The application's steps are stutters.
LEMMA ApplicationRefines ==
  ASSUME Inv, Application
  PROVE  InStepInv' /\ PointerStep
<1>1. CASE OpenApp
  <2>1. InStepInv'
    BY <1>1, QuietInStep DEF Inv, TypeInv, LocalType, LocalStates, OpenApp, pass,
           Lagging
  <2>2. UNCHANGED bucket
    BY <1>1 DEF OpenApp
  <2> QED BY <2>1, <2>2, PointerSteps
<1>2. CASE Write
  <2>1. InStepInv'
    BY <1>2, QuietInStep DEF Inv, TypeInv, LocalType, LocalStates, Write, pass,
           Lagging
  <2>2. UNCHANGED bucket
    BY <1>2 DEF Write
  <2> QED BY <2>1, <2>2, PointerSteps
<1>3. CASE AutoCheckpoint
  <2>1. InStepInv'
    BY <1>3, QuietInStep DEF Inv, TypeInv, LocalType, LocalStates, AutoCheckpoint,
           pass, Lagging
  <2>2. UNCHANGED bucket
    BY <1>3 DEF AutoCheckpoint
  <2> QED BY <2>1, <2>2, PointerSteps
<1>4. CASE CloseApp
  <2>1. InStepInv'
    BY <1>4, QuietInStep DEF Inv, TypeInv, LocalType, LocalStates, CloseApp, pass,
           Lagging
  <2>2. UNCHANGED bucket
    BY <1>4 DEF CloseApp
  <2> QED BY <2>1, <2>2, PointerSteps
<1>5. CASE KillApp
  <2>1. InStepInv'
    BY <1>5, QuietInStep DEF Inv, TypeInv, LocalType, LocalStates, KillApp, pass,
           Lagging
  <2>2. UNCHANGED bucket
    BY <1>5 DEF KillApp
  <2> QED BY <2>1, <2>2, PointerSteps
<1> QED BY <1>1, <1>2, <1>3, <1>4, <1>5 DEF Application

\* Generation 1: a Store, a Publish, and a local save.
LEMMA BootRefines ==
  ASSUME Inv, Boot
  PROVE  InStepInv' /\ PointerStep
<1>1. CASE BootSnapshot
  BY <1>1, BootSnapshotStores, PointerSteps
<1>2. CASE BootCommit
  BY <1>2, BootCommitPublishes, PointerSteps
<1>3. CASE BootSave
  <2> DEFINE l == [FreshLocal EXCEPT !.gen = 1, !.hash = db]
  <2>1. l.gen = 1 /\ l.seq = 0
    BY DEF FreshLocal
  <2>2. L' = l /\ local' = l /\ UNCHANGED bucket /\ pc' \in {"reconcile", "idle", "quiesce"}
    BY <1>3 DEF BootSave, Return, Goto
  <2>3. pc \notin Lagging /\ pc' \notin Lagging
    BY <1>3, <2>2 DEF BootSave, Lagging
  <2>4. state.gen = 1 /\ Len(state.wal) = 0
    BY <1>3 DEF Inv, BehindInv, InStepInv, BootSave
  <2> HIDE DEF l
  <2>5. InStepInv'
    BY <2>1, <2>2, <2>3, <2>4, QuietInStep DEF Inv, InStep, bucket, Lagging
  <2>6. UNCHANGED bucket
    BY <1>3 DEF BootSave
  <2> QED BY <2>5, <2>6, PointerSteps
<1> QED BY <1>1, <1>2, <1>3 DEF Boot

\* Reconciliation is a stutter.
LEMMA ReconcileRefines ==
  ASSUME Inv, Reconcile
  PROVE  InStepInv' /\ PointerStep
<1>1. CASE ReconcileFresh
  <2>1. [L EXCEPT !.gen = state.gen, !.seq = Len(state.wal)] \in LocalStates
    BY Positions, LocalUpdateType DEF Inv, TypeInv, LocalType
  <2>2. /\ L' = Adopted([L EXCEPT !.gen = state.gen, !.seq = Len(state.wal)])
        /\ UNCHANGED <<local, bucket>>
        /\ pc = "reconcile" /\ pc' \in {"recSave", "recAdopt"}
    BY <1>1 DEF ReconcileFresh, Goto
  <2>3. L'.gen = state.gen /\ L'.seq = Len(state.wal)
    BY <2>1, <2>2, AdoptedPosition DEF Inv, TypeInv, LocalType, LocalStates
  <2>4. InStepInv'
    BY <2>2, <2>3, QuietInStep DEF Inv, InStep, bucket, Lagging
  <2>5. UNCHANGED bucket
    BY <1>1 DEF ReconcileFresh
  <2> QED BY <2>4, <2>5, PointerSteps
<1>2. CASE ReconcileStale
  <2>1. [L EXCEPT !.gen = state.gen, !.seq = Len(state.wal)] \in LocalStates
    BY Positions, LocalUpdateType DEF Inv, TypeInv, LocalType
  <2>2. L' = [L EXCEPT !.gen = state.gen, !.seq = Len(state.wal)] /\ UNCHANGED <<local, bucket>>
        /\ pc = "reconcile" /\ pc' \in {"recSave", "recAdopt"}
    BY <1>2 DEF ReconcileStale, Goto
  <2>3. L'.gen = state.gen /\ L'.seq = Len(state.wal)
    BY <2>1, <2>2, AdoptedPosition DEF Inv, TypeInv, LocalType, LocalStates
  <2>4. InStepInv'
    BY <2>2, <2>3, QuietInStep DEF Inv, InStep, bucket, Lagging
  <2>5. UNCHANGED bucket
    BY <1>2 DEF ReconcileStale
  <2> QED BY <2>4, <2>5, PointerSteps
<1>3. CASE RecAdopt
  <2>1. L' \in {L, Adopted(L)} /\ L \in LocalStates
    BY <1>3 DEF Inv, TypeInv, LocalType, RecAdopt, Return
  <2>2. L'.gen = L.gen /\ L'.seq = L.seq
    BY <2>1, AdoptedPosition
  <2>3. InStepInv'
    BY <1>3, <2>2, QuietInStep DEF Inv, RecAdopt, Goto, Lagging
  <2>4. UNCHANGED bucket
    BY <1>3 DEF RecAdopt
  <2> QED BY <2>3, <2>4, PointerSteps
<1>4. CASE RecSave
  <2>1. InStepInv'
    BY <1>4, QuietInStep DEF Inv, TypeInv, LocalType, LocalStates, RecSave, Goto,
           SaveLocal, AfterReconcile, Lagging
  <2>2. UNCHANGED bucket
    BY <1>4 DEF RecSave
  <2> QED BY <2>1, <2>2, PointerSteps
<1>5. CASE Realign
  <2>1. /\ L' = [L EXCEPT !.off = @ + ChainTailLength(L.seq), !.seq = Len(state.wal)]
        /\ local' = L' /\ UNCHANGED bucket /\ pc = "reconcile" /\ pc' \in {"rotTail", "entry"}
    BY <1>5 DEF Realign, SaveLocal, Goto, AfterReconcile
  <2>2. L'.seq = Len(state.wal)
    BY <2>1 DEF Inv, TypeInv, LocalType, LocalStates
  <2>3. InStepInv'
    BY <2>1, <2>2, QuietInStep DEF Inv, InStep, bucket, Lagging
  <2>4. UNCHANGED bucket
    BY <1>5 DEF Realign
  <2> QED BY <2>3, <2>4, PointerSteps
<1>6. CASE InAgreement
  <2>1. InStepInv'
    BY <1>6, QuietInStep DEF Inv, TypeInv, LocalType, LocalStates, InAgreement,
           Goto, AfterReconcile, Lagging
  <2>2. UNCHANGED bucket
    BY <1>6 DEF InAgreement
  <2> QED BY <2>1, <2>2, PointerSteps
<1> QED BY <1>1, <1>2, <1>3, <1>4, <1>5, <1>6 DEF Reconcile

\* A seal is a Store and an Extend; the fold rules are stutters.
LEMMA ShipPassRefines ==
  ASSUME Inv, ShipPass
  PROVE  InStepInv' /\ PointerStep
<1>1. CASE Pending
  <2>1. InStepInv'
    BY <1>1, QuietInStep DEF Inv, TypeInv, LocalType, LocalStates, Pending, Goto,
           Return, NotSeen, Lagging
  <2>2. UNCHANGED bucket
    BY <1>1 DEF Pending
  <2> QED BY <2>1, <2>2, PointerSteps
<1>2. CASE Entry
  <2>1. L' \in {L, Adopted(L)} /\ L \in LocalStates
    BY <1>2 DEF Inv, TypeInv, LocalType, Entry, Return
  <2>2. L'.gen = L.gen /\ L'.seq = L.seq
    BY <2>1, AdoptedPosition
  <2>3. InStepInv'
    BY <1>2, <2>2, QuietInStep DEF Inv, Entry, Lagging
  <2>4. UNCHANGED bucket
    BY <1>2 DEF Entry
  <2> QED BY <2>3, <2>4, PointerSteps
<1>3. CASE Seal
  <2>1. state.gen \in Gens
    BY <1>3 DEF Inv, TypeInv, Control, InGeneration, Steps, ShipSteps,
           RotateSteps, Seal
  <2> QED BY <1>3, PutTailStores, PointerSteps DEF Seal, Goto
<1>4. CASE SealMismatch
  <2>1. InStepInv'
    BY <1>4, QuietInStep DEF Inv, TypeInv, LocalType, LocalStates, SealMismatch,
           Return, NotSeen, Lagging
  <2>2. UNCHANGED bucket
    BY <1>4 DEF SealMismatch
  <2> QED BY <2>1, <2>2, PointerSteps
<1>5. CASE PutState
  BY <1>5, ExtendStateExtends, PointerSteps
<1>6. CASE SegSave
  <2>1. L' = SealedLocal /\ local' = L' /\ UNCHANGED bucket /\ pc = "segSave" /\ pc' = "classify"
    BY <1>6 DEF SegSave, SaveLocal
  <2>2. L'.seq = L.seq + 1 /\ L.seq + 1 = Len(state.wal)
    BY <2>1 DEF Inv, InStepInv, TypeInv, LocalType, LocalStates, SealedLocal
  <2>3. UNCHANGED <<state, snaps, segs, metas>>
    BY <2>1 DEF bucket
  <2>4. InStepInv'
    BY <2>1, <2>2, <2>3 DEF Inv, InStepInv, InStep, CommittedChainReadable, Valid,
              RetainedContiguous, Lagging
  <2>5. UNCHANGED bucket
    BY <1>6 DEF SegSave, bucket
  <2> QED BY <2>4, <2>5, PointerSteps
<1>7. CASE Idle
  <2>1. InStepInv'
    BY <1>7, QuietInStep DEF Inv, TypeInv, LocalType, LocalStates, Idle, Return,
           NotSeen, Lagging
  <2>2. UNCHANGED bucket
    BY <1>7 DEF Idle
  <2> QED BY <2>1, <2>2, PointerSteps
<1>8. CASE Folded
  <2>1. InStepInv'
    BY <1>8, QuietInStep DEF Inv, TypeInv, LocalType, LocalStates, Folded, Goto,
           Return, NotSeen, Lagging
  <2>2. UNCHANGED bucket
    BY <1>8 DEF Folded
  <2> QED BY <2>1, <2>2, PointerSteps
<1>9. CASE BenignFold
  <2>1. InStepInv'
    BY <1>9, QuietInStep DEF Inv, TypeInv, LocalType, LocalStates, BenignFold,
           Goto, Lagging
  <2>2. UNCHANGED bucket
    BY <1>9 DEF BenignFold
  <2> QED BY <2>1, <2>2, PointerSteps
<1>10. CASE AdoptSave
  <2>1. L' \in {L, Adopted(L)} /\ L \in LocalStates
    BY <1>10 DEF Inv, TypeInv, LocalType, AdoptSave, Return
  <2>2. L'.gen = L.gen /\ L'.seq = L.seq
    BY <2>1, AdoptedPosition
  <2>3. InStepInv'
    BY <1>10, <2>2, QuietInStep DEF Inv, AdoptSave, Return, Lagging
  <2>4. UNCHANGED bucket
    BY <1>10 DEF AdoptSave
  <2> QED BY <2>3, <2>4, PointerSteps
<1>11. CASE Covered
  <2>1. InStepInv'
    BY <1>11, QuietInStep DEF Inv, TypeInv, LocalType, LocalStates, Covered,
           Return, NotSeen, Lagging
  <2>2. UNCHANGED bucket
    BY <1>11 DEF Covered
  <2> QED BY <2>1, <2>2, PointerSteps
<1>12. CASE Unchanged
  <2>1. InStepInv'
    BY <1>12, QuietInStep DEF Inv, TypeInv, LocalType, LocalStates, Unchanged,
           Return, NotSeen, Lagging
  <2>2. UNCHANGED bucket
    BY <1>12 DEF Unchanged
  <2> QED BY <2>1, <2>2, PointerSteps
<1> QED BY <1>1, <1>2, <1>3, <1>4, <1>5, <1>6, <1>7, <1>8, <1>9, <1>10, <1>11,
           <1>12 DEF ShipPass

\* A rotation is a seal, Stores, one Advance, and a prune (a Store).
LEMMA RotateRefines ==
  ASSUME Inv, Rotate
  PROVE  InStepInv' /\ PointerStep
<1>1. CASE RotTail
  <2>1. CASE pc' = "rotPutState"
    BY <1>1, <2>1, PutTailStores, PointerSteps DEF RotTail, Goto
  <2>2. CASE pc' # "rotPutState"
    <3>1. pc = "rotTail" /\ pc' = "rotMeta" /\ UNCHANGED <<local, L, bucket>>
      BY <1>1, <2>2 DEF RotTail, Goto, bucket
    <3> QED BY <3>1, QuietInStep, PointerSteps DEF Inv, Lagging
  <2> QED BY <2>1, <2>2
<1>2. CASE RotPutState
  BY <1>2, ExtendStateExtends, PointerSteps
<1>3. CASE RotMeta
  BY <1>3, RotateStores, PointerSteps
<1>4. CASE RotCheckpoint
  <2>1. pc = "rotCheckpoint" /\ pc' = "rotSnapshot" /\ UNCHANGED <<local, L, bucket>>
    BY <1>4 DEF RotCheckpoint, Goto
  <2>2. InStepInv'
    BY <2>1, QuietInStep DEF Inv, Lagging
  <2>3. UNCHANGED bucket
    BY <1>4 DEF RotCheckpoint
  <2> QED BY <2>2, <2>3, PointerSteps
<1>5. CASE RotSnapshot
  BY <1>5, RotateStores, PointerSteps
<1>6. CASE RotCommit
  BY <1>6, RotCommitAdvances, PointerSteps
<1>7. CASE RotAdopt
  <2>1. [L EXCEPT !.gen = state.gen, !.seq = 0] \in LocalStates
    BY Positions, LocalUpdateType DEF Inv, TypeInv, LocalType
  <2>2. /\ L' = Adopted([L EXCEPT !.gen = state.gen, !.seq = 0])
        /\ UNCHANGED <<local, bucket>> /\ pc = "rotAdopt" /\ pc' = "rotSave"
    BY <1>7 DEF RotAdopt, Goto
  <2>3. L'.seq = 0
    BY <2>1, <2>2, AdoptedPosition DEF Inv, TypeInv, LocalType, LocalStates
  <2>4. Len(state.wal) = 0
    BY <1>7 DEF Inv, InStepInv, RotAdopt
  <2>5. InStepInv'
    BY <2>2, <2>3, <2>4, QuietInStep DEF Inv, InStep, bucket, Lagging
  <2>6. UNCHANGED bucket
    BY <1>7 DEF RotAdopt
  <2> QED BY <2>5, <2>6, PointerSteps
<1>8. CASE RotSave
  <2>1. InStepInv'
    BY <1>8, QuietInStep DEF Inv, TypeInv, LocalType, LocalStates, RotSave, Goto,
           SaveLocal, Lagging
  <2>2. UNCHANGED bucket
    BY <1>8 DEF RotSave
  <2> QED BY <2>1, <2>2, PointerSteps
<1>9. CASE RotPrune
  BY <1>9, RotPruneStores, PointerSteps
<1> QED BY <1>1, <1>2, <1>3, <1>4, <1>5, <1>6, <1>7, <1>8, <1>9 DEF Rotate

\* Quiesce is a stutter.
LEMMA DrainRefines ==
  ASSUME Inv, Drain
  PROVE  InStepInv' /\ PointerStep
<1>1. CASE Quiesce
  <2>1. InStepInv'
    BY <1>1, QuietInStep DEF Inv, TypeInv, LocalType, LocalStates, Quiesce, Goto,
           CheckpointOverOwnConnection, Lagging
  <2>2. UNCHANGED bucket
    BY <1>1 DEF Quiesce
  <2> QED BY <2>1, <2>2, PointerSteps
<1>2. CASE QuiesceSave
  <2>1. InStepInv'
    BY <1>2, QuietInStep DEF Inv, TypeInv, LocalType, LocalStates, QuiesceSave,
           SaveLocal, Lagging
  <2>2. UNCHANGED bucket
    BY <1>2 DEF QuiesceSave
  <2> QED BY <2>1, <2>2, PointerSteps
<1> QED BY <1>1, <1>2 DEF Drain

\* A crash is a stutter; it finds the bookkeeping in step because no pass is cut
\* short while it lags.
LEMMA FailureRefines ==
  ASSUME Inv, Failure, CrashPoints \cap Lagging = {}
  PROVE  InStepInv' /\ PointerStep
<1>1. CASE Crash
  <2>1. pc \in CrashPoints /\ pc' = "idle" /\ L' = local /\ UNCHANGED <<local, bucket>>
    BY <1>1 DEF Crash
  <2>2. InStepInv'
    BY <2>1, QuietInStep DEF Inv, Lagging
  <2>3. UNCHANGED bucket
    BY <1>1 DEF Crash
  <2> QED BY <2>2, <2>3, PointerSteps
<1>2. CASE SealGone
  <2>1. InStepInv'
    BY <1>2, QuietInStep DEF Inv, TypeInv, LocalType, LocalStates, SealGone,
           NotSeen, Lagging
  <2>2. UNCHANGED bucket
    BY <1>2 DEF SealGone
  <2> QED BY <2>1, <2>2, PointerSteps
<1>3. CASE RotDefer
  <2>1. InStepInv'
    BY <1>3, QuietInStep DEF Inv, RotDefer, SaveLocal, Lagging
  <2>2. UNCHANGED bucket
    BY <1>3 DEF RotDefer
  <2> QED BY <2>1, <2>2, PointerSteps
<1> QED BY <1>1, <1>2, <1>3 DEF Failure

\* Beginning a pass is a stutter.
LEMMA BeginRefines ==
  ASSUME Inv, NEW o \in Ops, Begin(o)
  PROVE  InStepInv' /\ PointerStep
<1>1. /\ UNCHANGED <<local, bucket>> /\ L' = local /\ pc = "idle"
      /\ pc' \in {"reconcile", "bootSnapshot"}
  BY DEF Begin
<1> QED BY <1>1, QuietInStep, PointerSteps DEF Inv, Lagging

\* Every step of the program is a step of the pointer, or a stutter.
LEMMA RefinementNext ==
  ASSUME CrashPoints \cap Lagging = {}, Inv, [Next]_vars
  PROVE  InStepInv' /\ PointerStep
<1>1. CASE Application
  BY <1>1, ApplicationRefines
<1>2. CASE Shipper
  BY <1>2, BeginRefines, BootRefines, ReconcileRefines, ShipPassRefines,
     RotateRefines, DrainRefines DEF Shipper
<1>3. CASE Failure
  BY <1>3, FailureRefines
<1>4. CASE UNCHANGED vars
  BY <1>4, QuietInStep, PointerSteps DEF vars, pass, Inv
<1> QED BY <1>1, <1>2, <1>3, <1>4 DEF Next

\* An empty bucket is where the pointer starts.
LEMMA RefinementInit ==
  Init => InStepInv /\ Publication!Init
<1> SUFFICES ASSUME Init PROVE InStepInv /\ Publication!Init
  OBVIOUS
<1>1. state.gen = 0 /\ state.wal = <<>> /\ Len(state.wal) = 0
  BY DEF Init, NoState
<1>2. InStepInv
  BY <1>1 DEF Init, FreshLocal, InStepInv, InStep, CommittedChainReadable, Valid,
     ContiguousFromOne, RetainedContiguous, Gens
<1>3. Publication!Init
  BY <1>1 DEF Init, NoState, records, Publication!Init, Publication!Gens,
     Publication!Seqs, Publication!Absent, Gens, Seqs, Nil
<1> QED BY <1>2, <1>3

\* The inductive invariant behind the two theorems below.
LEMMA InStepInvariant ==
  ASSUME CrashPoints \cap Lagging = {}
  PROVE  Spec => []Inv
<1>1. Init => Inv
  BY TypeInit, RefsInit, BehindInit, RefinementInit DEF Inv
<1>2. Inv /\ [Next]_vars => Inv'
  BY TypeNext, RefsNext, BehindNext, RefinementNext DEF Inv
<1> QED BY <1>1, <1>2, PTL DEF Spec

\* When no pass is cut short between a commit and the local save after it, the
\* committed chain is one that every reader accepts and whose segments are the
\* bytes that were committed.
THEOREM ChainReadable ==
  ASSUME CrashPoints \cap Lagging = {}
  PROVE  Spec => []CommittedChainReadable
<1>1. Inv => CommittedChainReadable
  BY DEF Inv, InStepInv
<1> QED BY <1>1, InStepInvariant, PTL

\* ... and then the shipper implements the commit pointer: its state PUTs
\* publish, extend or advance it, its other requests store or delete what the
\* pointer does not need, and nothing else touches it.
THEOREM ShipperImplementsCommitPointer ==
  ASSUME CrashPoints \cap Lagging = {}
  PROVE  Spec => PublishesLast
<1>1. Init => Publication!Init
  BY RefinementInit
<1>2. Inv /\ [Next]_vars => [Publication!Next]_<<Publication!objects, Publication!pointer>>
  BY RefinementNext DEF PointerStep
<1> QED BY <1>1, <1>2, InStepInvariant, PTL DEF Spec, PublishesLast,
               Publication!Spec

-----------------------------------------------------------------------------
(* Concatenation of a list of sequences. *)

\* A non-empty set of numbers has a least one.
LEMMA LeastNat ==
  ASSUME NEW T \in SUBSET Nat, T # {}
  PROVE  \E m \in T : \A n \in T : m <= n
<1>1. PICK m \in T : \A y \in T : ~(<<y, m>> \in OpToRel(<, Nat))
  BY NatLessThanWellFounded, WFMin
<1>2. \A y \in T : ~(y < m)
  BY <1>1 DEF OpToRel
<1> QED BY <1>2

\* f[i] is the concatenation of the first i sequences of ss, as FlattenSeq has it.
Glued(ss, n, f) ==
  f = [i \in 1..n |-> IF i = 1 THEN ss[i] ELSE f[i - 1] \o ss[i]]

\* FlattenSeq is the last value of that function.
LEMMA FlattenIsGlued ==
  ASSUME NEW ss, Len(ss) # 0
  PROVE  FlattenSeq(ss) = (CHOOSE f : Glued(ss, Len(ss), f))[Len(ss)]
  BY DEF FlattenSeq, Glued

\* It starts with the first sequence ...
LEMMA GluedFirst ==
  ASSUME NEW ss, NEW n \in Nat, n # 0, NEW f, Glued(ss, n, f)
  PROVE  f[1] = ss[1]
<1>1. 1 \in 1..n
  OBVIOUS
<1> QED BY <1>1 DEF Glued

\* ... and goes on with the next one.
LEMMA GluedNext ==
  ASSUME NEW ss, NEW n \in Nat, NEW f, Glued(ss, n, f), NEW i \in 1..n, i # 1
  PROVE  f[i] = f[i - 1] \o ss[i]
<1>1. f[i] = IF i = 1 THEN ss[i] ELSE f[i - 1] \o ss[i]
  BY Zenon DEF Glued
<1> QED BY <1>1, Zenon

Alike(ss, tt, n) == \A i \in 1..n : ss[i] = tt[i]

\* Lists with a common beginning are glued alike as far as it goes.
LEMMA GluedAlike ==
  ASSUME NEW ss, NEW tt, NEW n \in Nat, NEW m \in Nat, n <= m,
         Alike(ss, tt, n),
         NEW f, Glued(ss, n, f), NEW g, Glued(tt, m, g)
  PROVE  Alike(f, g, n)
<1> DEFINE T == {i \in 1..n : f[i] # g[i]}
<1>1. SUFFICES ASSUME T # {} PROVE FALSE
  BY DEF Alike
<1>2. PICK i \in T : \A j \in T : i <= j
  <2>1. T \in SUBSET Nat
    OBVIOUS
  <2> HIDE DEF T
  <2> QED BY <1>1, <2>1, LeastNat
<1>3. i \in 1..n /\ i \in 1..m /\ f[i] # g[i] /\ ss[i] = tt[i]
  BY <1>2 DEF Alike
<1>4. CASE i = 1
  <2>1. n # 0 /\ m # 0
    BY <1>3
  <2>2. f[1] = ss[1] /\ g[1] = tt[1]
    BY <2>1, GluedFirst
  <2> QED BY <1>3, <1>4, <2>2
<1>5. CASE i # 1
  <2>1. i - 1 \in 1..n /\ i - 1 \in 1..m /\ i - 1 \notin T
    BY <1>2, <1>3, <1>5
  <2>2. f[i - 1] = g[i - 1]
    BY <2>1
  <2>3. f[i] = f[i - 1] \o ss[i] /\ g[i] = g[i - 1] \o tt[i]
    BY <1>3, <1>5, GluedNext, Zenon
  <2> QED BY <2>2, <2>3, <1>3
<1> QED BY <1>4, <1>5

\* Every beginning of a list can be glued.
LEMMA GluedExists ==
  ASSUME NEW ss, NEW n \in Nat
  PROVE  \E f : Glued(ss, n, f)
<1> DEFINE T == {m \in Nat : ~\E f : Glued(ss, m, f)}
<1>1. SUFFICES ASSUME T # {} PROVE FALSE
  OBVIOUS
<1>2. PICK m \in T : \A j \in T : m <= j
  <2>1. T \in SUBSET Nat
    OBVIOUS
  <2> HIDE DEF T
  <2> QED BY <1>1, <2>1, LeastNat
<1>3. m \in Nat /\ ~\E f : Glued(ss, m, f)
  BY <1>2
<1>4. m # 0
  <2> DEFINE e == [i \in 1..0 |-> ss[i]]
  <2>1. Glued(ss, 0, e)
    BY DEF Glued
  <2> HIDE DEF e
  <2> QED BY <2>1, <1>3
<1>5. m - 1 \in Nat /\ m - 1 \notin T
  BY <1>2, <1>3, <1>4
<1>6. PICK g : Glued(ss, m - 1, g)
  BY <1>5
<1> DEFINE f == [i \in 1..m |-> IF i \in 1..(m - 1) THEN g[i]
                                ELSE IF i = 1 THEN ss[i] ELSE g[i - 1] \o ss[i]]
<1>7. \A i \in 1..m : f[i] = IF i = 1 THEN ss[i] ELSE f[i - 1] \o ss[i]
  <2> SUFFICES ASSUME NEW i \in 1..m
               PROVE  f[i] = IF i = 1 THEN ss[i] ELSE f[i - 1] \o ss[i]
    OBVIOUS
  <2>1. i # 1 => i - 1 \in 1..(m - 1) /\ f[i - 1] = g[i - 1]
    BY <1>3
  <2>2. CASE i \in 1..(m - 1)
    <3>1. f[i] = g[i]
      BY <2>2, <1>3
    <3>2. g[i] = IF i = 1 THEN ss[i] ELSE g[i - 1] \o ss[i]
      BY <1>6, <2>2, Zenon DEF Glued
    <3> QED BY <3>1, <3>2, <2>1
  <2>3. CASE i \notin 1..(m - 1)
    BY <2>1, <2>3
  <2> QED BY <2>2, <2>3
<1>8. Glued(ss, m, f)
  <2>1. f = [i \in 1..m |-> f[i]]
    OBVIOUS
  <2>2. [i \in 1..m |-> f[i]] = [i \in 1..m |-> IF i = 1 THEN ss[i] ELSE f[i - 1] \o ss[i]]
    <3> HIDE DEF f
    <3> QED BY <1>7
  <2> HIDE DEF f
  <2> QED BY <2>1, <2>2 DEF Glued
<1> HIDE DEF f
<1> QED BY <1>3, <1>8

\* What is glued from sequences over a set is one.
LEMMA GluedType ==
  ASSUME NEW S, NEW n \in Nat, NEW ss, \A i \in 1..n : ss[i] \in Seq(S),
         NEW f, Glued(ss, n, f)
  PROVE  \A i \in 1..n : f[i] \in Seq(S)
<1> DEFINE T == {i \in 1..n : f[i] \notin Seq(S)}
<1>1. SUFFICES ASSUME T # {} PROVE FALSE
  OBVIOUS
<1>2. PICK i \in T : \A j \in T : i <= j
  <2>1. T \in SUBSET Nat
    OBVIOUS
  <2> HIDE DEF T
  <2> QED BY <1>1, <2>1, LeastNat
<1>3. i \in 1..n /\ f[i] \notin Seq(S) /\ ss[i] \in Seq(S)
  BY <1>2
<1>4. CASE i = 1
  <2>1. n # 0
    BY <1>3
  <2>2. f[1] = ss[1]
    BY <2>1, GluedFirst
  <2> QED BY <1>3, <1>4, <2>2
<1>5. CASE i # 1
  <2>1. i - 1 \in 1..n /\ i - 1 \notin T
    BY <1>2, <1>3, <1>5
  <2>2. f[i - 1] \in Seq(S)
    BY <2>1
  <2>3. f[i] = f[i - 1] \o ss[i]
    BY <1>3, <1>5, GluedNext, Zenon
  <2> QED BY <2>2, <2>3, <1>3, ConcatProperties
<1> QED BY <1>4, <1>5

\* FlattenSeq of a longer list: the last sequence goes to the end.
LEMMA FlattenAppend ==
  ASSUME NEW S, NEW ss \in Seq(Seq(S)), NEW s \in Seq(S)
  PROVE  FlattenSeq(Append(ss, s)) = FlattenSeq(ss) \o s
<1> DEFINE n == Len(ss)
           tt == Append(ss, s)
<1>1. /\ n \in Nat /\ tt \in Seq(Seq(S)) /\ Len(tt) = n + 1 /\ tt[n + 1] = s
      /\ \A i \in 1..n : ss[i] = tt[i] /\ ss[i] \in Seq(S)
  BY AppendProperties, LenProperties, ElementOfSeq
<1> HIDE DEF tt
<1> DEFINE g == CHOOSE h : Glued(tt, n + 1, h)
<1>2. Glued(tt, n + 1, g)
  <2>1. n + 1 \in Nat
    BY <1>1
  <2>2. \E h : Glued(tt, n + 1, h)
    BY <2>1, GluedExists, Zenon
  <2> QED BY <2>2, Zenon
<1>3. FlattenSeq(tt) = g[n + 1]
  BY <1>1, FlattenIsGlued
<1> HIDE DEF g
<1>4. CASE n = 0
  <2>1. ss = <<>> /\ FlattenSeq(ss) = ss
    BY <1>4, EmptySeq DEF FlattenSeq
  <2>2. g[n + 1] = s
    <3>1. g[1] = tt[1]
      BY <1>1, <1>2, <1>4, GluedFirst
    <3> QED BY <1>1, <1>4, <3>1
  <2>3. <<>> \o s = s
    BY ConcatEmptySeq
  <2> QED BY <1>3, <2>1, <2>2, <2>3 DEF tt
<1>5. CASE n # 0
  <2> DEFINE f == CHOOSE h : Glued(ss, n, h)
  <2>1. Glued(ss, n, f)
    BY <1>1, GluedExists
  <2>2. FlattenSeq(ss) = f[n]
    BY <1>1, <1>5, FlattenIsGlued
  <2> HIDE DEF f
  <2>3. f[n] = g[n]
    <3>1. n + 1 \in Nat /\ n <= n + 1 /\ n \in 1..n
      BY <1>1, <1>5
    <3>2. Alike(ss, tt, n)
      BY <1>1 DEF Alike
    <3>3. Alike(f, g, n)
      <4>1. n \in Nat
        BY <1>1
      <4> QED BY <4>1, <1>2, <2>1, <3>1, <3>2, GluedAlike
    <3> QED BY <3>1, <3>3 DEF Alike
  <2>4. g[n + 1] = g[n] \o tt[n + 1]
    <3>1. n + 1 \in 1..(n + 1) /\ n + 1 # 1 /\ n + 1 \in Nat /\ (n + 1) - 1 = n
      BY <1>1, <1>5
    <3>2. g[n + 1] = g[(n + 1) - 1] \o tt[n + 1]
      BY <1>2, <3>1, GluedNext, Zenon
    <3> QED BY <3>1, <3>2
  <2> QED BY <1>1, <1>3, <2>2, <2>3, <2>4 DEF tt
<1> QED BY <1>4, <1>5

-----------------------------------------------------------------------------
\* The segments of the chain are bytes of WAL files.
LEMMA SegmentTypes ==
  ASSUME NEW w \in Seq(SegmentRefs)
  PROVE  [k \in 1..Len(w) |-> w[k].sha] \in Seq(Seq(Cell))
<1>1. \A k \in 1..Len(w) : w[k] \in SegmentRefs
  BY ElementOfSeq
<1>2. \A k \in 1..Len(w) : w[k].sha \in Seq(Cell)
  BY <1>1 DEF SegmentRefs
<1>3. Len(w) \in Nat
  BY LenProperties
<1> QED BY <1>2, <1>3

\* One more segment puts its bytes at the end of the WAL file a restore replays.
LEMMA HydratedGrows ==
  ASSUME NEW s, NEW t, NEW w \in Seq(SegmentRefs), NEW r \in SegmentRefs,
         s.wal = w, t.wal = Append(w, r)
  PROVE  HydratedWal(t) = HydratedWal(s) \o r.sha
<1> DEFINE ss == [k \in 1..Len(w) |-> w[k].sha]
           tt == [k \in 1..Len(t.wal) |-> t.wal[k].sha]
<1>1. ss \in Seq(Seq(Cell)) /\ r.sha \in Seq(Cell) /\ Len(ss) = Len(w)
  <2>1. ss \in Seq(Seq(Cell))
    BY SegmentTypes
  <2>2. Len(w) \in Nat /\ r.sha \in Seq(Cell)
    BY LenProperties DEF SegmentRefs
  <2> QED BY <2>1, <2>2
<1>2. /\ Append(w, r) \in Seq(SegmentRefs) /\ Len(Append(w, r)) = Len(w) + 1
      /\ \A k \in 1..Len(w) : Append(w, r)[k] = w[k]
      /\ Append(w, r)[Len(w) + 1] = r
  BY AppendProperties
<1>3. tt \in Seq(Seq(Cell)) /\ Len(tt) = Len(w) + 1 /\ Len(w) \in Nat
  <2>1. t.wal \in Seq(SegmentRefs) /\ Len(t.wal) = Len(w) + 1 /\ Len(w) \in Nat
    BY <1>2, LenProperties
  <2>2. tt \in Seq(Seq(Cell))
    BY <2>1, SegmentTypes
  <2> QED BY <2>1, <2>2
<1>4. /\ Append(ss, r.sha) \in Seq(Seq(Cell)) /\ Len(Append(ss, r.sha)) = Len(w) + 1
      /\ \A k \in 1..Len(w) : Append(ss, r.sha)[k] = ss[k]
      /\ Append(ss, r.sha)[Len(w) + 1] = r.sha
  BY <1>1, AppendProperties
<1>5. \A k \in 1..(Len(w) + 1) : tt[k] = Append(ss, r.sha)[k]
  <2> SUFFICES ASSUME NEW k \in 1..(Len(w) + 1) PROVE tt[k] = Append(ss, r.sha)[k]
    OBVIOUS
  <2>1. tt[k] = Append(w, r)[k].sha
    BY <1>2, <1>3
  <2>2. CASE k \in 1..Len(w)
    BY <1>2, <1>4, <2>1, <2>2
  <2>3. CASE k \notin 1..Len(w)
    <3>1. k = Len(w) + 1
      BY <1>3, <2>3
    <3> QED BY <1>2, <1>4, <2>1, <3>1
  <2> QED BY <2>2, <2>3
<1>6. HydratedWal(t) = FlattenSeq(tt) /\ HydratedWal(s) = FlattenSeq(ss)
  BY DEF HydratedWal
<1> HIDE DEF ss, tt
<1>7. tt = Append(ss, r.sha)
  <2> DEFINE aa == Append(ss, r.sha)
  <2>1. /\ aa \in Seq(Seq(Cell)) /\ Len(aa) = Len(tt)
        /\ \A k \in 1..Len(tt) : tt[k] = aa[k]
    BY <1>3, <1>4, <1>5
  <2> HIDE DEF aa
  <2>2. tt = aa
    BY <1>3, <2>1, SeqEqual
  <2> QED BY <2>2 DEF aa
<1> QED BY <1>1, <1>6, <1>7, FlattenAppend

\* A chain without segments is no WAL file.
LEMMA HydratedEmpty ==
  ASSUME NEW s, s.wal = <<>>
  PROVE  HydratedWal(s) = <<>>
<1> DEFINE e == [k \in 1..Len(s.wal) |-> s.wal[k].sha]
<1>1. e = <<>> /\ Len(e) = 0
  OBVIOUS
<1> HIDE DEF e
<1>2. FlattenSeq(e) = e
  BY <1>1 DEF FlattenSeq
<1> QED BY <1>1, <1>2 DEF HydratedWal, e

-----------------------------------------------------------------------------
(* A WAL that SQLite restarts, appends to, and removes. *)

\* How many cells of the file belong to its present incarnation.
Valids(w, n) == n - Salt(w) + 2

\* The file after transaction n: a header, the frames since it, and what is left
\* of earlier incarnations.
IsWal(w, n) ==
  w # <<>> =>
    /\ Salt(w) \in 1..n /\ w[1] = <<Salt(w), 0>> /\ Valids(w, n) <= Len(w)
    /\ \A i \in 2..Valids(w, n) : w[i] = <<Salt(w), Salt(w) + i - 2>>
    /\ \A i \in (Valids(w, n) + 1)..Len(w) : w[i][1] \in 1..(Salt(w) - 1)

\* From file w after n to file v after m: removed, as it was or longer, or of a
\* new incarnation.
Moves(w, n, v, m) ==
  /\ n <= m
  /\ v # <<>> =>
       \/ /\ w # <<>> /\ Salt(v) = Salt(w) /\ Len(w) <= Len(v)
          /\ \A i \in 1..Valids(w, n) : v[i] = w[i]
       \/ Salt(v) > n

\* Salt b is not of the future; it is of the past for good.
Past(b, w, n) == b <= n /\ (w # <<>> => b <= Salt(w))
Gone(b, w) == w # <<>> => Salt(w) > b

\* g begins with a header and the frames up to m, in order; it does so for some
\* m from the snapshot on.
Holds(g, m) ==
  /\ g # <<>> /\ g[1][2] = 0 /\ g[1][1] \in 1..m /\ m - g[1][1] + 2 <= Len(g)
  /\ \A i \in 2..(m - g[1][1] + 2) : g[i] = <<g[1][1], g[1][1] + i - 2>>
Opens(g, k, n) == \E m \in k..n : Holds(g, m)

\* Cells of incarnations known; of one incarnation, that of w; the head of w.
Salted(g, n) == \A i \in 1..Len(g) : g[i][1] \in 1..n
Pure(g, w) == g # <<>> /\ \A i \in 1..Len(g) : g[i][1] = Salt(w)
HeadOf(g, w) == Len(g) <= Len(w) /\ \A i \in 1..Len(g) : g[i] = w[i]

\* What is shipped of an incarnation holds its transactions up to b.
Covers(b, g, w) == b <= Salt(w) + Len(g) - 2

\* The salt of a file is that of its first cell.
LEMMA SaltOf ==
  ASSUME NEW w \in Seq(Cell)
  PROVE  /\ Salt(w) \in Nat /\ (w = <<>> <=> Len(w) = 0) /\ Len(w) \in Nat
         /\ w = <<>> => Salt(w) = 0
         /\ w # <<>> => Salt(w) = w[1][1]
<1>1. Salt(w) \in Nat
  BY SaltType
<1>2. (w = <<>> <=> Len(w) = 0) /\ Len(w) \in Nat
  BY EmptySeq, LenProperties
<1> QED BY <1>1, <1>2 DEF Salt

\* A salt that is not of the future stays so.
LEMMA PastMoves ==
  ASSUME NEW b \in Nat, NEW w \in Seq(Cell), NEW v \in Seq(Cell), NEW n \in Nat,
         NEW m \in Nat, Moves(w, n, v, m), Past(b, w, n)
  PROVE  Past(b, v, m)
<1>1. Salt(w) \in Nat /\ Salt(v) \in Nat
  BY SaltType
<1> QED BY <1>1 DEF Moves, Past

\* ... and, once of the past, stays of the past.
LEMMA GoneMoves ==
  ASSUME NEW b \in Nat, NEW w \in Seq(Cell), NEW v \in Seq(Cell), NEW n \in Nat,
         NEW m \in Nat, Moves(w, n, v, m), Past(b, w, n), Gone(b, w)
  PROVE  Gone(b, v)
<1>1. Salt(w) \in Nat /\ Salt(v) \in Nat
  BY SaltType
<1> QED BY <1>1 DEF Moves, Past, Gone

\* Bytes of the incarnation there is now were of the one before a move: it is the
\* same incarnation.
LEMMA PureMoves ==
  ASSUME NEW g \in Seq(Cell), NEW w \in Seq(Cell), NEW v \in Seq(Cell),
         NEW n \in Nat, NEW m \in Nat, IsWal(w, n), Moves(w, n, v, m),
         Salted(g, n), Pure(g, v)
  PROVE  /\ Pure(g, w) /\ Salt(v) = Salt(w) /\ w # <<>> /\ v # <<>>
         /\ HeadOf(g, w) => HeadOf(g, v)
<1>1. g # <<>> /\ Len(g) \in Nat /\ 1 \in 1..Len(g)
  BY SaltOf DEF Pure
<1>2. g[1][1] = Salt(v) /\ g[1][1] \in 1..n
  BY <1>1 DEF Pure, Salted
<1>3. v # <<>>
  BY <1>2, SaltOf
<1>4. w # <<>> /\ Salt(v) = Salt(w) /\ Len(w) <= Len(v)
      /\ \A i \in 1..Valids(w, n) : v[i] = w[i]
  BY <1>2, <1>3 DEF Moves
<1>5. Pure(g, w)
  BY <1>4 DEF Pure
<1>6. ASSUME HeadOf(g, w) PROVE HeadOf(g, v)
  <2>1. Len(w) \in Nat /\ Len(v) \in Nat /\ Salt(w) \in Nat /\ Valids(w, n) \in Int
    BY SaltOf DEF Valids
  <2>2. Len(g) <= Len(w) /\ \A i \in 1..Len(g) : g[i] = w[i]
    BY <1>6 DEF HeadOf
  <2>3. ASSUME NEW i \in 1..Len(g) PROVE v[i] = g[i]
    <3>1. w[i][1] = Salt(w) /\ i \in 1..Len(w)
      BY <1>1, <1>5, <2>1, <2>2 DEF Pure
    <3>2. i \notin (Valids(w, n) + 1)..Len(w)
      BY <1>4, <2>1, <3>1 DEF IsWal
    <3>3. i \in 1..Valids(w, n)
      BY <2>1, <3>1, <3>2
    <3> QED BY <1>4, <2>2, <3>3
  <2> QED BY <1>1, <1>4, <2>1, <2>2, <2>3 DEF HeadOf
<1> QED BY <1>3, <1>4, <1>5, <1>6

\* A WAL file replays up to the last transaction.
LEMMA WalHolds ==
  ASSUME NEW w \in Seq(Cell), NEW n \in Nat, w # <<>>, IsWal(w, n)
  PROVE  Holds(w, n) /\ Salted(w, n)
<1>1. Salt(w) \in Nat /\ Salt(w) = w[1][1] /\ Len(w) \in Nat
  BY SaltOf
<1>2. Valids(w, n) = n - Salt(w) + 2
  BY DEF Valids
<1>3. /\ Salt(w) \in 1..n /\ w[1] = <<Salt(w), 0>> /\ Valids(w, n) <= Len(w)
      /\ \A i \in 2..Valids(w, n) : w[i] = <<Salt(w), Salt(w) + i - 2>>
      /\ \A i \in (Valids(w, n) + 1)..Len(w) : w[i][1] \in 1..(Salt(w) - 1)
  BY DEF IsWal
<1>4. Holds(w, n)
  BY <1>1, <1>2, <1>3 DEF Holds
<1>5. ASSUME NEW i \in 1..Len(w) PROVE w[i][1] \in 1..n
  <2>1. CASE i = 1
    BY <1>1, <1>3, <2>1
  <2>2. CASE i \in 2..Valids(w, n)
    BY <1>3, <2>2
  <2>3. CASE i \in (Valids(w, n) + 1)..Len(w)
    <3>1. \A k \in (Valids(w, n) + 1)..Len(w) : w[k][1] \in 1..(Salt(w) - 1)
      BY Zenon DEF IsWal
    <3>2. w[i][1] \in 1..(Salt(w) - 1)
      BY <2>3, <3>1
    <3>3. Salt(w) \in 1..n
      BY <1>3
    <3> QED BY <1>1, <3>2, <3>3
  <2> QED BY <1>1, <1>2, <1>3, <2>1, <2>2, <2>3
<1> QED BY <1>4, <1>5 DEF Salted

\* Bytes put behind a file take nothing from what it replays.
LEMMA OpensMore ==
  ASSUME NEW g \in Seq(Cell), NEW h \in Seq(Cell), NEW k \in Int, NEW n \in Nat,
         NEW m \in Nat, n <= m, Opens(g, k, n)
  PROVE  Opens(g \o h, k, m)
<1>1. PICK j \in k..n : Holds(g, j)
  BY DEF Opens
<1>2. /\ g # <<>> /\ g[1][2] = 0 /\ g[1][1] \in 1..j /\ j - g[1][1] + 2 <= Len(g)
      /\ \A i \in 2..(j - g[1][1] + 2) : g[i] = <<g[1][1], g[1][1] + i - 2>>
  BY <1>1 DEF Holds
<1>3. Len(g) \in Nat /\ Len(g) # 0 /\ Len(h) \in Nat
  BY <1>2, SaltOf
<1>4. /\ g \o h \in Seq(Cell) /\ Len(g \o h) = Len(g) + Len(h)
      /\ \A i \in 1..Len(g) : (g \o h)[i] = g[i]
  BY ConcatProperties
<1>5. (g \o h)[1] = g[1] /\ g \o h # <<>>
  BY <1>3, <1>4, SaltOf
<1>6. \A i \in 2..(j - g[1][1] + 2) : (g \o h)[i] = g[i]
  BY <1>2, <1>3, <1>4
<1>7. Holds(g \o h, j)
  <2> DEFINE f == g \o h
  <2>1. /\ f # <<>> /\ f[1] = g[1] /\ Len(f) = Len(g) + Len(h)
        /\ \A i \in 2..(j - g[1][1] + 2) : f[i] = g[i]
    BY <1>4, <1>5, <1>6
  <2> HIDE DEF f
  <2>2. \A i \in 2..(j - f[1][1] + 2) : f[i] = <<f[1][1], f[1][1] + i - 2>>
    BY <1>2, <2>1
  <2>3. f[1][2] = 0 /\ f[1][1] \in 1..j /\ j - f[1][1] + 2 <= Len(f)
    BY <1>2, <1>3, <2>1
  <2>4. Holds(f, j)
    BY <2>1, <2>2, <2>3, Zenon DEF Holds
  <2> QED BY <2>4 DEF f
<1>8. j \in k..m
  BY <1>1
<1> QED BY <1>7, <1>8 DEF Opens

\* Two parts of known incarnations.
LEMMA SaltedConcat ==
  ASSUME NEW g \in Seq(Cell), NEW h \in Seq(Cell), NEW n \in Nat,
         Salted(g, n), Salted(h, n)
  PROVE  Salted(g \o h, n)
<1>1. /\ Len(g) \in Nat /\ Len(h) \in Nat /\ Len(g \o h) = Len(g) + Len(h)
      /\ \A i \in 1..(Len(g) + Len(h)) :
           (g \o h)[i] = IF i <= Len(g) THEN g[i] ELSE h[i - Len(g)]
  BY ConcatProperties, LenProperties
<1> SUFFICES ASSUME NEW i \in 1..(Len(g) + Len(h)) PROVE (g \o h)[i][1] \in 1..n
  BY <1>1 DEF Salted
<1>2. CASE i <= Len(g)
  BY <1>1, <1>2 DEF Salted
<1>3. CASE ~(i <= Len(g))
  <2>1. i - Len(g) \in 1..Len(h)
    BY <1>1, <1>3
  <2> QED BY <1>1, <1>3, <2>1 DEF Salted
<1> QED BY <1>2, <1>3

\* The first of two parts of one incarnation is of that incarnation.
LEMMA PureConcat ==
  ASSUME NEW g \in Seq(Cell), NEW h \in Seq(Cell), NEW w \in Seq(Cell), g # <<>>,
         Pure(g \o h, w)
  PROVE  Pure(g, w)
<1>1. /\ Len(g) \in Nat /\ Len(h) \in Nat /\ Len(g \o h) = Len(g) + Len(h)
      /\ \A i \in 1..Len(g) : (g \o h)[i] = g[i]
  BY ConcatProperties, LenProperties
<1> QED BY <1>1 DEF Pure

\* A transaction into a new file.
LEMMA NewWal ==
  ASSUME NEW n \in Nat, NEW w, NEW v, v = <<<<n + 1, 0>>, <<n + 1, n + 1>>>>
  PROVE  IsWal(v, n + 1) /\ Moves(w, n, v, n + 1)
<1>1. Len(v) = 2 /\ v # <<>> /\ v[1] = <<n + 1, 0>> /\ v[2] = <<n + 1, n + 1>>
  OBVIOUS
<1>2. Salt(v) = n + 1
  BY <1>1 DEF Salt
<1>3. Valids(v, n + 1) = 2
  BY <1>2 DEF Valids
<1>4. IsWal(v, n + 1)
  BY <1>1, <1>2, <1>3 DEF IsWal
<1>5. Moves(w, n, v, n + 1)
  BY <1>2 DEF Moves
<1> QED BY <1>4, <1>5

\* A cell put into a file, or right behind it: every other cell stays.
LEMMA PutCellAt ==
  ASSUME NEW w \in Seq(Cell), NEW i \in Nat, 1 <= i, i <= Len(w) + 1, NEW c \in Cell,
         NEW v, v = PutCell(w, i, c)
  PROVE  /\ v \in Seq(Cell) /\ v[i] = c
         /\ i <= Len(w) => Len(v) = Len(w)
         /\ ~(i <= Len(w)) => Len(v) = i
         /\ \A k \in 1..Len(w) : k # i => v[k] = w[k]
<1>1. Len(w) \in Nat
  BY LenProperties
<1>2. CASE i <= Len(w)
  <2>1. i \in 1..Len(w)
    BY <1>1, <1>2
  <2>2. PutCell(w, i, c) = [w EXCEPT ![i] = c]
    BY <2>1 DEF PutCell
  <2> QED BY <1>2, <2>1, <2>2, ExceptSeq
<1>3. CASE ~(i <= Len(w))
  <2>1. i \notin 1..Len(w) /\ i = Len(w) + 1
    BY <1>1, <1>3
  <2>2. PutCell(w, i, c) = Append(w, c)
    BY <2>1 DEF PutCell
  <2>3. /\ Append(w, c) \in Seq(Cell) /\ Len(Append(w, c)) = Len(w) + 1
        /\ Append(w, c)[Len(w) + 1] = c
        /\ \A k \in 1..Len(w) : Append(w, c)[k] = w[k]
    BY AppendProperties
  <2> QED BY <1>3, <2>1, <2>2, <2>3
<1> QED BY <1>2, <1>3

\* The same, for a file that is not named.
LEMMA PutCellElse ==
  ASSUME NEW w \in Seq(Cell), NEW i \in Nat, 1 <= i, i <= Len(w) + 1, NEW c \in Cell
  PROVE  \A k \in 1..Len(w) : k # i => PutCell(w, i, c)[k] = w[k]
  BY PutCellAt

\* v is file w with transaction n + 1: after the frames of its incarnation, or at
\* the head of a new one.
Lengthens(v, w, n) == v = PutCell(w, (n + 1) - Salt(w) + 2, <<Salt(w), n + 1>>)
Restarts(v, w, n) ==
  v = PutCell(PutCell(w, 1, <<n + 1, 0>>), 2, <<n + 1, n + 1>>)

\* A transaction after the frames of the incarnation ...
LEMMA LongerWal ==
  ASSUME NEW n \in Nat, NEW w \in Seq(Cell), IsWal(w, n), w # <<>>,
         NEW v, Lengthens(v, w, n)
  PROVE  IsWal(v, n + 1) /\ Moves(w, n, v, n + 1)
<1> DEFINE s == Salt(w)
           i == (n + 1) - s + 2
           c == <<s, n + 1>>
<1>1. s \in 1..n /\ w[1] = <<s, 0>> /\ n - s + 2 <= Len(w) /\ s \in Nat /\ Len(w) \in Nat
  BY SaltOf DEF IsWal, Valids
<1>2. \A k \in 2..(n - s + 2) : w[k] = <<s, s + k - 2>>
  BY DEF IsWal, Valids
<1>3. \A k \in (n - s + 2 + 1)..Len(w) : w[k][1] \in 1..(s - 1)
  BY Zenon DEF IsWal, Valids
<1>4. i \in Nat /\ 1 <= i /\ i <= Len(w) + 1 /\ c \in Cell /\ i = n - s + 2 + 1 /\ i > 2
  BY <1>1, CellPair
<1>5. v = PutCell(w, i, c)
  BY DEF Lengthens
<1> HIDE DEF s, i, c
<1>6. /\ v \in Seq(Cell) /\ v[i] = c
      /\ i <= Len(w) => Len(v) = Len(w)
      /\ ~(i <= Len(w)) => Len(v) = i
      /\ \A k \in 1..Len(w) : k # i => v[k] = w[k]
  <2>1. v \in Seq(Cell)
    BY <1>4, <1>5, PutCellAt
  <2>2. v[i] = c
    BY <1>4, <1>5, PutCellAt
  <2>3. i <= Len(w) => Len(v) = Len(w)
    BY <1>4, <1>5, PutCellAt
  <2>4. ~(i <= Len(w)) => Len(v) = i
    BY <1>4, <1>5, PutCellAt
  <2>5. \A k \in 1..Len(w) : k # i => v[k] = w[k]
    BY <1>4, <1>5, PutCellElse
  <2> QED BY <2>1, <2>2, <2>3, <2>4, <2>5
<1>7. v # <<>> /\ v[1] = w[1] /\ Salt(v) = s
  <2>1. 1 \in 1..Len(w) /\ 1 # i
    BY <1>1, <1>4
  <2>2. v[1] = w[1]
    BY <1>6, <2>1
  <2>3. v \in Seq(Cell) /\ Len(v) # 0
    BY <1>1, <1>4, <1>6
  <2>4. v # <<>>
    BY <2>3, SaltOf
  <2> QED BY <1>1, <2>2, <2>4 DEF Salt
<1>8. \A k \in 2..((n + 1) - s + 2) : v[k] = <<s, s + k - 2>>
  <2> SUFFICES ASSUME NEW k \in 2..((n + 1) - s + 2) PROVE v[k] = <<s, s + k - 2>>
    OBVIOUS
  <2>1. CASE k = i
    <3>1. s + k - 2 = n + 1
      BY <1>1, <1>4, <2>1
    <3>2. v[k] = <<s, n + 1>>
      BY <1>6, <2>1 DEF c
    <3> QED BY <3>1, <3>2
  <2>2. CASE k # i
    <3>1. k \in 2..(n - s + 2) /\ k \in 1..Len(w)
      BY <1>1, <1>4, <2>2
    <3> QED BY <1>2, <1>6, <2>2, <3>1
  <2> QED BY <2>1, <2>2
<1>9. \A k \in ((n + 1) - s + 2 + 1)..Len(v) : v[k][1] \in 1..(s - 1)
  <2> SUFFICES ASSUME NEW k \in ((n + 1) - s + 2 + 1)..Len(v) PROVE v[k][1] \in 1..(s - 1)
    OBVIOUS
  <2>1. k # i /\ k \in 1..Len(w) /\ k \in (n - s + 2 + 1)..Len(w)
    BY <1>1, <1>4, <1>6
  <2>2. v[k] = w[k]
    BY <1>6, <2>1
  <2>3. w[k][1] \in 1..(s - 1)
    BY <1>3, <2>1
  <2> QED BY <2>2, <2>3
<1>10. IsWal(v, n + 1)
  <2>1. s \in 1..(n + 1) /\ (n + 1) - s + 2 <= Len(v)
    BY <1>1, <1>4, <1>6
  <2>2. Valids(v, n + 1) = (n + 1) - s + 2
    BY <1>7 DEF Valids
  <2>3. v[1] = <<s, 0>>
    BY <1>1, <1>7
  <2> QED BY <1>7, <1>8, <1>9, <2>1, <2>2, <2>3, Zenon DEF IsWal
<1>11. Moves(w, n, v, n + 1)
  <2>1. Len(w) <= Len(v)
    BY <1>1, <1>4, <1>6
  <2>2. \A k \in 1..Valids(w, n) : v[k] = w[k]
    <3>1. Valids(w, n) = n - s + 2
      BY DEF Valids, s
    <3>2. \A k \in 1..(n - s + 2) : k \in 1..Len(w) /\ k # i
      BY <1>1, <1>4
    <3> QED BY <1>6, <3>1, <3>2
  <2>3. Salt(v) = Salt(w)
    BY <1>7 DEF s
  <2>4. n <= n + 1
    OBVIOUS
  <2> QED BY <2>1, <2>2, <2>3, <2>4 DEF Moves
<1> QED BY <1>10, <1>11

\* A cell of a file overwritten.
LEMMA Overwritten ==
  ASSUME NEW w \in Seq(Cell), NEW i \in 1..Len(w), NEW c \in Cell,
         NEW v, v = [w EXCEPT ![i] = c]
  PROVE  /\ v \in Seq(Cell) /\ Len(v) = Len(w) /\ v[i] = c
         /\ \A k \in 1..Len(w) : k # i => v[k] = w[k]
  BY ExceptSeq

\* ... and one over its head, under a new salt.
LEMMA RestartedWal ==
  ASSUME NEW n \in Nat, NEW w \in Seq(Cell), IsWal(w, n), w # <<>>,
         NEW v, Restarts(v, w, n)
  PROVE  IsWal(v, n + 1) /\ Moves(w, n, v, n + 1)
<1> DEFINE h == <<n + 1, 0>>
           f == <<n + 1, n + 1>>
           u == PutCell(w, 1, h)
<1>1. Salt(w) \in 1..n /\ Valids(w, n) <= Len(w) /\ Len(w) \in Nat /\ Len(w) >= 2
  <2>1. Salt(w) \in 1..n /\ Valids(w, n) <= Len(w) /\ Len(w) \in Nat
    BY SaltOf DEF IsWal
  <2> QED BY <2>1 DEF Valids
<1>2. h \in Cell /\ f \in Cell
  BY CellPair
<1>3. v = PutCell(u, 2, f)
  BY DEF Restarts
<1>4. u = [w EXCEPT ![1] = h] /\ 1 \in 1..Len(w)
  BY <1>1 DEF PutCell
<1> HIDE DEF u, h, f
<1>5. /\ u \in Seq(Cell) /\ Len(u) = Len(w) /\ u[1] = h
      /\ \A k \in 1..Len(w) : k # 1 => u[k] = w[k]
  BY <1>2, <1>4, ExceptSeq
<1>51. u \in Seq(Cell) /\ Len(u) \in Nat /\ 2 \in 1..Len(u)
  BY <1>1, <1>5
<1>6. v = [u EXCEPT ![2] = f]
  BY <1>3, <1>51 DEF PutCell
<1>60. PICK i \in 1..Len(u) : i = 2
  BY <1>51
<1>600. v = [u EXCEPT ![i] = f]
  BY <1>6, <1>60
<1>61. v \in Seq(Cell) /\ Len(v) = Len(u) /\ v[i] = f
  BY <1>2, <1>51, <1>600, Overwritten
<1>62. \A k \in 1..Len(u) : k # i => v[k] = u[k]
  BY <1>2, <1>51, <1>600, Overwritten
<1>63. v # <<>> /\ v[1] = h /\ Len(v) = Len(w) /\ v[2] = f
  <2>1. 1 \in 1..Len(u) /\ 1 # i /\ Len(v) = Len(w) /\ Len(v) # 0
    BY <1>1, <1>5, <1>60, <1>61
  <2>2. v[1] = h
    BY <1>5, <1>62, <2>1
  <2>3. v # <<>>
    BY <1>61, <2>1, SaltOf
  <2> QED BY <1>60, <1>61, <2>1, <2>2, <2>3
<1>7. Salt(v) = n + 1
  BY <1>63 DEF Salt, h
<1>8. Valids(v, n + 1) = 2
  BY <1>7 DEF Valids
<1>9. \A k \in 3..Len(v) : v[k][1] \in 1..n
  <2> SUFFICES ASSUME NEW k \in 3..Len(v) PROVE v[k][1] \in 1..n
    OBVIOUS
  <2>1. k \in 1..Len(w) /\ k # 1 /\ k # i
    BY <1>1, <1>60, <1>63
  <2>2. v[k] = w[k]
    BY <1>5, <1>62, <2>1
  <2> QED BY <2>1, <2>2, WalHolds DEF Salted
<1>10. IsWal(v, n + 1)
  <2>1. n + 1 \in 1..(n + 1) /\ 2 <= Len(v) /\ (n + 1) - 1 = n /\ 2 + 1 = 3
    BY <1>1, <1>63
  <2>2. \A k \in 2..2 : v[k] = <<n + 1, (n + 1) + k - 2>>
    <3>1. (n + 1) + 2 - 2 = n + 1
      OBVIOUS
    <3>2. \A k \in 2..2 : k = 2
      OBVIOUS
    <3> QED BY <1>63, <3>1, <3>2 DEF f
  <2>3. v # <<>> /\ v[1] = <<n + 1, 0>>
    BY <1>63 DEF h
  <2> QED BY <2>3, <1>7, <1>8, <1>9, <2>1, <2>2 DEF IsWal
<1>11. Moves(w, n, v, n + 1)
  BY <1>7 DEF Moves
<1> QED BY <1>10, <1>11

\* A file that is left alone or removed.
LEMMA SameWal ==
  ASSUME NEW n \in Nat, NEW w \in Seq(Cell), IsWal(w, n),
         NEW v \in Seq(Cell), v = w \/ v = <<>>
  PROVE  IsWal(v, n) /\ Moves(w, n, v, n)
<1>1. Len(w) \in Nat
  BY LenProperties
<1> QED BY <1>1 DEF IsWal, Moves

\* The file holds at most what has been written, and every step moves it so.
WalInv == db <= last /\ IsWal(wal, last)
WalMoves == last' \in Nat /\ Moves(wal, last, wal', last')

\* Every step moves the WAL so, and the database file holds at most what has been
\* written.
LEMMA ApplicationMoves ==
  ASSUME TypeInv, TypeInv', WalInv, Application
  PROVE  WalInv' /\ WalMoves
<1>1. last \in Nat /\ wal \in Seq(Cell) /\ wal' \in Seq(Cell) /\ db \in Nat /\ last' \in Nat
  BY DEF TypeInv, WorkspaceType
<1>2. IsWal(wal, last) /\ db <= last
  BY DEF WalInv
<1>3. CASE Write
  <2>1. last' = last + 1 /\ db' = db
    BY <1>3 DEF Write
  <2>2. IsWal(wal', last + 1) /\ Moves(wal, last, wal', last + 1)
    <3>1. CASE wal' = <<<<last + 1, 0>>, <<last + 1, last + 1>>>>
      BY <1>1, <3>1, NewWal
    <3>2. CASE /\ wal # <<>>
               /\ wal' = PutCell(wal, (last + 1) - Salt(wal) + 2, <<Salt(wal), last + 1>>)
      BY <1>1, <1>2, <3>2, LongerWal DEF Lengthens
    <3>3. CASE /\ wal # <<>>
               /\ wal' = PutCell(PutCell(wal, 1, <<last + 1, 0>>), 2, <<last + 1, last + 1>>)
      BY <1>1, <1>2, <3>3, RestartedWal DEF Restarts
    <3> QED BY <1>3, <3>1, <3>2, <3>3 DEF Write
  <2> QED BY <1>1, <1>2, <2>1, <2>2 DEF WalInv, WalMoves
<1>4. CASE OpenApp \/ AutoCheckpoint \/ CloseApp \/ KillApp
  <2>1. last' = last /\ (wal' = wal \/ wal' = <<>>) /\ db' <= last
    BY <1>1, <1>2, <1>4 DEF OpenApp, AutoCheckpoint, CloseApp, KillApp
  <2>2. IsWal(wal', last) /\ Moves(wal, last, wal', last)
    BY <1>1, <1>2, <2>1, SameWal
  <2> QED BY <1>1, <2>1, <2>2 DEF WalInv, WalMoves
<1> QED BY <1>3, <1>4 DEF Application

\* The shipper removes the file at most, and writes no transaction.
LEMMA ShipperMoves ==
  ASSUME TypeInv, TypeInv', WalInv, Shipper \/ Failure \/ UNCHANGED vars
  PROVE  WalInv' /\ WalMoves /\ UNCHANGED last
<1>1. last \in Nat /\ wal \in Seq(Cell) /\ wal' \in Seq(Cell) /\ db \in Nat
  BY DEF TypeInv, WorkspaceType
<1>2. IsWal(wal, last) /\ db <= last
  BY DEF WalInv
<1> DEFINE Goal == last' = last /\ (wal' = wal \/ wal' = <<>>) /\ db' <= last
<1>3. ASSUME UNCHANGED workspace PROVE Goal
  BY <1>2, <1>3 DEF workspace
<1>4. ASSUME UNCHANGED last, ConnectAndClose \/ CheckpointOverOwnConnection
      PROVE  Goal
  BY <1>1, <1>2, <1>4 DEF ConnectAndClose, CheckpointOverOwnConnection
<1> HIDE DEF Goal
<1>5. ASSUME \E o \in Ops : Begin(o) PROVE Goal
  BY <1>3, <1>5 DEF Begin
<1>6. ASSUME Boot PROVE Goal
  BY <1>3, <1>4, <1>6 DEF Boot, BootSnapshot, BootCommit, BootSave
<1>7. ASSUME Reconcile PROVE Goal
  BY <1>3, <1>4, <1>7 DEF Reconcile, ReconcileFresh, ReconcileStale, RecAdopt,
     RecSave, Realign, InAgreement
<1>8. ASSUME ShipPass PROVE Goal
  BY <1>3, <1>8 DEF ShipPass, Pending, Entry, Seal, SealMismatch, PutState,
     SegSave, Idle, Folded, BenignFold, AdoptSave, Covered, Unchanged
<1>9. ASSUME Rotate PROVE Goal
  BY <1>3, <1>4, <1>9 DEF Rotate, RotTail, RotPutState, RotMeta, RotCheckpoint,
     RotSnapshot, RotCommit, RotAdopt, RotSave, RotPrune
<1>10. ASSUME Drain PROVE Goal
  BY <1>3, <1>4, <1>10 DEF Drain, Quiesce, QuiesceSave
<1>11. ASSUME Failure PROVE Goal
  BY <1>3, <1>4, <1>11 DEF Failure, Crash, SealGone, RotDefer
<1>12. ASSUME UNCHANGED vars PROVE Goal
  BY <1>3, <1>12 DEF vars
<1>13. Goal
  BY <1>5, <1>6, <1>7, <1>8, <1>9, <1>10, <1>11, <1>12 DEF Shipper
<1>14. IsWal(wal', last) /\ Moves(wal, last, wal', last)
  BY <1>1, <1>2, <1>13, SameWal DEF Goal
<1> QED BY <1>1, <1>13, <1>14 DEF Goal, WalInv, WalMoves

\* The segments' bytes make a WAL file.
LEMMA FlattenType ==
  ASSUME NEW S, NEW ss \in Seq(Seq(S))
  PROVE  FlattenSeq(ss) \in Seq(S)
<1> DEFINE n == Len(ss)
<1>1. n \in Nat /\ \A i \in 1..n : ss[i] \in Seq(S)
  BY LenProperties, ElementOfSeq
<1>2. CASE n = 0
  <2>1. ss = <<>> /\ FlattenSeq(ss) = ss
    BY <1>2, EmptySeq DEF FlattenSeq
  <2>2. <<>> \in Seq(S)
    BY EmptySeq
  <2> QED BY <2>1, <2>2
<1>3. CASE n # 0
  <2> DEFINE f == CHOOSE h : Glued(ss, n, h)
  <2>1. Glued(ss, n, f)
    BY <1>1, GluedExists
  <2>2. FlattenSeq(ss) = f[n]
    BY <1>1, <1>3, FlattenIsGlued
  <2> HIDE DEF f
  <2>3. \A i \in 1..n : f[i] \in Seq(S)
    BY <1>1, <2>1, GluedType
  <2> QED BY <1>1, <1>3, <2>2, <2>3
<1> QED BY <1>2, <1>3

\* A restore writes a WAL file.
LEMMA HydratedType ==
  ASSUME NEW s \in States
  PROVE  HydratedWal(s) \in Seq(Cell)
<1>1. s.wal \in Seq(SegmentRefs)
  BY DEF States
<1>2. [k \in 1..Len(s.wal) |-> s.wal[k].sha] \in Seq(Seq(Cell))
  BY <1>1, SegmentTypes
<1> QED BY <1>2, FlattenType DEF HydratedWal

-----------------------------------------------------------------------------
(* The chain, its next segment, and the bookkeeping, beside a WAL. *)

\* The committed chain is of the WAL's present incarnation.
Live(st, w) == st.wal # <<>> /\ Pure(HydratedWal(st), w)

\* The chain replays from its snapshot on; if it is live, it is the WAL's head.
Chained(st, w, n) ==
  st.wal # <<>> =>
    /\ Salted(HydratedWal(st), n) /\ Opens(HydratedWal(st), st.snap, n)
    /\ Pure(HydratedWal(st), w) => HeadOf(HydratedWal(st), w)

\* So it does with segment s put behind it.
Extends(s, st, w, n) ==
  /\ s # <<>> /\ Salted(s, n)
  /\ st.wal = <<>> => Opens(s, st.snap, n)
  /\ Pure(HydratedWal(st) \o s, w) => HeadOf(HydratedWal(st) \o s, w)

\* Bookkeeping l is at the start of an empty chain, and at the end of a live one.
Recorded(l, st, w) ==
  /\ st.wal = <<>> /\ l.gen = st.gen => l.off = 0
  /\ st.wal # <<>> => l.gen = st.gen
  /\ Live(st, w) => l.salt = Salt(w) /\ l.off = Len(HydratedWal(st))

\* Two records that put the shipper at the same place.
At(l, m) == l.gen = m.gen /\ l.salt = m.salt /\ l.off = m.off

\* A live chain was live before the WAL moved.
LEMMA LiveBefore ==
  ASSUME NEW st \in States, NEW w \in Seq(Cell), NEW v \in Seq(Cell),
         NEW n \in Nat, NEW m \in Nat, IsWal(w, n), Moves(w, n, v, m),
         Chained(st, w, n), Live(st, v)
  PROVE  Live(st, w) /\ Salt(v) = Salt(w) /\ HeadOf(HydratedWal(st), v)
<1>1. HydratedWal(st) \in Seq(Cell)
  BY HydratedType
<1>2. st.wal # <<>> /\ Salted(HydratedWal(st), n) /\ Pure(HydratedWal(st), v)
      /\ (Pure(HydratedWal(st), w) => HeadOf(HydratedWal(st), w))
  BY DEF Chained, Live
<1>3. Pure(HydratedWal(st), w) /\ Salt(v) = Salt(w)
      /\ (HeadOf(HydratedWal(st), w) => HeadOf(HydratedWal(st), v))
  BY <1>1, <1>2, PureMoves
<1> QED BY <1>2, <1>3 DEF Live

\* What holds of a later number.
LEMMA SaltedLater ==
  ASSUME NEW g \in Seq(Cell), NEW n \in Nat, NEW m \in Nat, n <= m, Salted(g, n)
  PROVE  Salted(g, m)
  BY DEF Salted

\* ... and so does what it replays.
LEMMA OpensLater ==
  ASSUME NEW g, NEW k \in Int, NEW n \in Nat, NEW m \in Nat, n <= m, Opens(g, k, n)
  PROVE  Opens(g, k, m)
<1>1. PICK j \in k..n : Holds(g, j)
  BY DEF Opens
<1>2. j \in k..m
  BY <1>1
<1> QED BY <1>1, <1>2 DEF Opens

\* The snapshot of a committed state is a number.
LEMMA SnapType ==
  ASSUME NEW st \in States
  PROVE  st.snap \in Int /\ st.wal \in Seq(SegmentRefs)
  BY DEF States, Nil

\* A chain stays one when the WAL moves ...
LEMMA ChainedMoves ==
  ASSUME NEW st \in States, NEW w \in Seq(Cell), NEW v \in Seq(Cell),
         NEW n \in Nat, NEW m \in Nat, IsWal(w, n), Moves(w, n, v, m),
         Chained(st, w, n)
  PROVE  Chained(st, v, m)
<1> SUFFICES ASSUME st.wal # <<>>
             PROVE  /\ Salted(HydratedWal(st), m) /\ Opens(HydratedWal(st), st.snap, m)
                    /\ Pure(HydratedWal(st), v) => HeadOf(HydratedWal(st), v)
  BY DEF Chained
<1>1. HydratedWal(st) \in Seq(Cell) /\ st.snap \in Int /\ n <= m
  BY HydratedType, SnapType DEF Moves
<1>2. Salted(HydratedWal(st), n) /\ Opens(HydratedWal(st), st.snap, n)
  BY DEF Chained
<1>3. Salted(HydratedWal(st), m)
  BY <1>1, <1>2, SaltedLater
<1>4. Opens(HydratedWal(st), st.snap, m)
  BY <1>1, <1>2, OpensLater
<1>5. ASSUME Pure(HydratedWal(st), v) PROVE HeadOf(HydratedWal(st), v)
  <2>1. Live(st, v)
    BY <1>5 DEF Live
  <2> QED BY <2>1, LiveBefore
<1> QED BY <1>3, <1>4, <1>5

\* ... and the bookkeeping stays at its end ...
LEMMA RecordedMoves ==
  ASSUME NEW st \in States, NEW w \in Seq(Cell), NEW v \in Seq(Cell),
         NEW n \in Nat, NEW m \in Nat, IsWal(w, n), Moves(w, n, v, m),
         Chained(st, w, n), NEW l, NEW k, At(k, l), Recorded(l, st, w)
  PROVE  Recorded(k, st, v)
<1>1. ASSUME Live(st, v)
      PROVE  k.salt = Salt(v) /\ k.off = Len(HydratedWal(st))
  <2>1. Live(st, w) /\ Salt(v) = Salt(w)
    BY <1>1, LiveBefore
  <2> QED BY <2>1 DEF Recorded, At
<1> QED BY <1>1 DEF Recorded, At

\* The chain and its next segment.
LEMMA JoinSalted ==
  ASSUME NEW st \in States, NEW w, NEW n \in Nat, Chained(st, w, n),
         NEW s \in Seq(Cell), Salted(s, n)
  PROVE  /\ HydratedWal(st) \o s \in Seq(Cell) /\ Salted(HydratedWal(st) \o s, n)
         /\ st.wal = <<>> => HydratedWal(st) \o s = s
         /\ Len(HydratedWal(st) \o s) = Len(HydratedWal(st)) + Len(s)
<1>1. HydratedWal(st) \in Seq(Cell)
  BY HydratedType
<1>2. HydratedWal(st) \o s \in Seq(Cell)
      /\ Len(HydratedWal(st) \o s) = Len(HydratedWal(st)) + Len(s)
  BY <1>1, ConcatProperties
<1>3. CASE st.wal = <<>>
  <2>1. HydratedWal(st) = <<>>
    BY <1>3, HydratedEmpty
  <2>2. HydratedWal(st) \o s = s
    BY <2>1, ConcatEmptySeq
  <2> QED BY <1>2, <2>2
<1>4. CASE st.wal # <<>>
  <2>1. Salted(HydratedWal(st), n)
    BY <1>4 DEF Chained
  <2> QED BY <1>1, <1>2, <1>4, <2>1, SaltedConcat
<1> QED BY <1>3, <1>4

\* ... and a segment that was sealed still extends it.
LEMMA ExtendsMoves ==
  ASSUME NEW st \in States, NEW w \in Seq(Cell), NEW v \in Seq(Cell),
         NEW n \in Nat, NEW m \in Nat, IsWal(w, n), Moves(w, n, v, m),
         Chained(st, w, n), NEW s \in Seq(Cell), Extends(s, st, w, n)
  PROVE  /\ Extends(s, st, v, m)
         /\ Pure(HydratedWal(st) \o s, v) =>
              Pure(HydratedWal(st) \o s, w) /\ Salt(v) = Salt(w)
<1>1. s # <<>> /\ Salted(s, n) /\ (st.wal = <<>> => Opens(s, st.snap, n))
      /\ (Pure(HydratedWal(st) \o s, w) => HeadOf(HydratedWal(st) \o s, w))
  BY DEF Extends
<1>2. n <= m /\ st.snap \in Int
  BY SnapType DEF Moves
<1>3. Salted(s, m)
  BY <1>1, <1>2, SaltedLater
<1>4. st.wal = <<>> => Opens(s, st.snap, m)
  BY <1>1, <1>2, OpensLater
<1>5. HydratedWal(st) \o s \in Seq(Cell) /\ Salted(HydratedWal(st) \o s, n)
  BY <1>1, JoinSalted
<1>6. ASSUME Pure(HydratedWal(st) \o s, v)
      PROVE  /\ HeadOf(HydratedWal(st) \o s, v) /\ Pure(HydratedWal(st) \o s, w)
             /\ Salt(v) = Salt(w)
  BY <1>1, <1>5, <1>6, PureMoves
<1> QED BY <1>1, <1>3, <1>4, <1>6 DEF Extends

\* The chain that ends where a WAL goes on, and the rest of that WAL.
LEMMA HeadAndTail ==
  ASSUME NEW g \in Seq(Cell), NEW w \in Seq(Cell), HeadOf(g, w), Len(w) > Len(g)
  PROVE  /\ SubSeq(w, Len(g) + 1, Len(w)) \in Seq(Cell)
         /\ g \o SubSeq(w, Len(g) + 1, Len(w)) = w
<1> DEFINE s == SubSeq(w, Len(g) + 1, Len(w))
<1>1. Len(g) \in Nat /\ Len(w) \in Nat /\ \A i \in 1..Len(g) : g[i] = w[i]
  BY LenProperties DEF HeadOf
<1>2. /\ s \in Seq(Cell) /\ Len(s) = Len(w) - Len(g)
      /\ \A i \in 1..(Len(w) - Len(g)) : s[i] = w[Len(g) + i]
  <2>1. \A i \in (Len(g) + 1)..Len(w) : i \in 1..Len(w)
    BY <1>1
  <2>2. s \in Seq(Cell)
    BY <1>1, <2>1, SubSeqProperties
  <2>3. Len(s) = Len(w) - Len(g)
    BY <1>1, <2>1, SubSeqProperties
  <2>4. \A i \in 1..(Len(w) - Len(g)) : s[i] = w[Len(g) + i]
    BY <1>1, <2>1, SubSeqProperties
  <2> QED BY <2>2, <2>3, <2>4
<1> HIDE DEF s
<1>3. /\ g \o s \in Seq(Cell) /\ Len(g \o s) = Len(g) + Len(s)
      /\ \A i \in 1..(Len(g) + Len(s)) :
           (g \o s)[i] = IF i <= Len(g) THEN g[i] ELSE s[i - Len(g)]
  BY <1>2, ConcatProperties
<1>4. Len(g \o s) = Len(w)
  BY <1>1, <1>2, <1>3
<1>5. \A i \in 1..Len(w) : (g \o s)[i] = w[i]
  <2> SUFFICES ASSUME NEW i \in 1..Len(w) PROVE (g \o s)[i] = w[i]
    OBVIOUS
  <2>1. CASE i <= Len(g)
    BY <1>1, <1>2, <1>3, <2>1
  <2>2. CASE ~(i <= Len(g))
    <3>1. i - Len(g) \in 1..(Len(w) - Len(g)) /\ Len(g) + (i - Len(g)) = i
      BY <1>1, <2>2
    <3>2. s[i - Len(g)] = w[i]
      BY <1>2, <3>1
    <3> QED BY <1>1, <1>2, <1>3, <2>2, <3>2
  <2> QED BY <2>1, <2>2
<1>6. g \o s = w
  BY <1>3, <1>4, <1>5, SeqEqual
<1> QED BY <1>2, <1>6 DEF s

\* s is what WAL w holds behind offset k; t is state st with segment s.
TailOf(s, w, k) == s = SubSeq(w, k + 1, Len(w))
Appends(t, st, i, s) ==
  /\ t.wal = Append(st.wal, [seq |-> i, sha |-> s])
  /\ t.snap = st.snap /\ t.gen = st.gen

\* The rest of a WAL behind the bookkeeping's offset is the chain's next segment.
LEMMA TailExtends ==
  ASSUME NEW st \in States, NEW w \in Seq(Cell), NEW n \in Nat, IsWal(w, n),
         Chained(st, w, n), st.snap <= n, w # <<>>,
         NEW l, l.off \in Nat, l.gen = st.gen, Recorded(l, st, w), Len(w) > l.off,
         NEW s, TailOf(s, w, l.off), NEW b \in 0..n
  PROVE  /\ s \in Seq(Cell) /\ Extends(s, st, w, n)
         /\ Pure(HydratedWal(st) \o s, w) =>
              l.off = Len(HydratedWal(st)) /\ Covers(b, HydratedWal(st) \o s, w)
<1> DEFINE g == HydratedWal(st)
<1>1. /\ g \in Seq(Cell) /\ Len(w) \in Nat /\ Len(g) \in Nat /\ Salt(w) \in Nat
      /\ st.snap \in Int
  BY HydratedType, SaltOf, SnapType
<1>2. Holds(w, n) /\ Salted(w, n)
  BY WalHolds
<1>3. /\ s \in Seq(Cell) /\ Len(s) = Len(w) - l.off
      /\ \A i \in 1..(Len(w) - l.off) : s[i] = w[l.off + i]
  <2>1. \A i \in (l.off + 1)..Len(w) : i \in 1..Len(w)
    BY <1>1
  <2>2. s \in Seq(Cell)
    BY <1>1, <2>1, SubSeqProperties DEF TailOf
  <2>3. Len(s) = Len(w) - l.off
    BY <1>1, <2>1, SubSeqProperties DEF TailOf
  <2>4. \A i \in 1..(Len(w) - l.off) : s[i] = w[l.off + i]
    BY <1>1, <2>1, SubSeqProperties DEF TailOf
  <2> QED BY <2>2, <2>3, <2>4
<1>4. s # <<>> /\ Len(s) \in Nat
  BY <1>1, <1>3, SaltOf
<1>5. Salted(s, n)
  <2> SUFFICES ASSUME NEW i \in 1..Len(s) PROVE s[i][1] \in 1..n
    BY DEF Salted
  <2>1. s[i] = w[l.off + i] /\ l.off + i \in 1..Len(w)
    BY <1>1, <1>3
  <2> QED BY <1>2, <2>1 DEF Salted
<1>6. Covers(b, w, w)
  <2>1. n - Salt(w) + 2 <= Len(w)
    BY DEF IsWal, Valids
  <2> QED BY <1>1, <2>1 DEF Covers
<1>7. HeadOf(w, w)
  BY <1>1 DEF HeadOf
<1>8. CASE st.wal = <<>>
  <2>1. l.off = 0
    BY <1>8 DEF Recorded
  <2>2. g = <<>> /\ Len(g) = 0
    BY <1>8, HydratedEmpty
  <2>3. HeadOf(g, w)
    BY <1>1, <2>2 DEF HeadOf
  <2>4. g \o SubSeq(w, Len(g) + 1, Len(w)) = w
    BY <1>1, <2>1, <2>2, <2>3, HeadAndTail
  <2>5. g \o s = w
    BY <2>1, <2>2, <2>4 DEF TailOf
  <2>6. g \o s = s
    BY <1>3, <2>2, ConcatEmptySeq
  <2>7. Opens(s, st.snap, n)
    <3>1. n \in st.snap..n
      BY <1>1
    <3> QED BY <1>2, <2>5, <2>6, <3>1 DEF Opens
  <2> HIDE DEF g
  <2> QED BY <1>3, <1>4, <1>5, <1>6, <1>7, <2>1, <2>2, <2>5, <2>7 DEF Extends, g
<1>9. CASE st.wal # <<>>
  <2>1. Opens(g, st.snap, n)
    BY <1>9 DEF Chained
  <2>2. g # <<>>
    BY <2>1 DEF Opens, Holds
  <2>3. ASSUME Pure(g \o s, w) PROVE l.off = Len(g) /\ g \o s = w
    <3>1. Pure(g, w)
      BY <1>1, <1>3, <2>2, <2>3, PureConcat
    <3>2. l.off = Len(g) /\ HeadOf(g, w)
      BY <1>9, <3>1 DEF Recorded, Chained, Live
    <3>3. g \o SubSeq(w, Len(g) + 1, Len(w)) = w
      BY <1>1, <3>2, HeadAndTail
    <3> QED BY <3>2, <3>3 DEF TailOf
  <2> HIDE DEF g
  <2> QED BY <1>3, <1>4, <1>5, <1>6, <1>7, <1>9, <2>3 DEF Extends, g
<1> QED BY <1>8, <1>9

\* The chain with that segment.
LEMMA ExtendedChain ==
  ASSUME NEW st \in States, NEW t \in States, NEW w \in Seq(Cell), NEW n \in Nat,
         Chained(st, w, n), NEW s \in Seq(Cell), Extends(s, st, w, n),
         NEW i \in Nat, Appends(t, st, i, s)
  PROVE  /\ HydratedWal(t) = HydratedWal(st) \o s
         /\ Chained(t, w, n) /\ t.wal # <<>>
         /\ Len(HydratedWal(t)) = Len(HydratedWal(st)) + Len(s)
<1> DEFINE r == [seq |-> i, sha |-> s]
<1>1. r \in SegmentRefs /\ r.sha = s
  BY DEF SegmentRefs
<1>2. st.wal \in Seq(SegmentRefs) /\ st.snap \in Int
  BY SnapType
<1>3. t.wal = Append(st.wal, r) /\ t.snap = st.snap
  BY DEF Appends
<1> HIDE DEF r
<1>4. HydratedWal(t) = HydratedWal(st) \o s
  BY <1>1, <1>2, <1>3, HydratedGrows
<1>5. t.wal # <<>>
  <2>1. Len(Append(st.wal, r)) = Len(st.wal) + 1 /\ Len(st.wal) \in Nat
    BY <1>1, <1>2, AppendProperties, LenProperties
  <2>2. Len(t.wal) # 0
    BY <1>3, <2>1
  <2> QED BY <2>2
<1>6. s # <<>> /\ Salted(s, n) /\ (st.wal = <<>> => Opens(s, st.snap, n))
      /\ (Pure(HydratedWal(st) \o s, w) => HeadOf(HydratedWal(st) \o s, w))
  BY DEF Extends
<1>7. /\ Salted(HydratedWal(st) \o s, n) /\ (st.wal = <<>> => HydratedWal(st) \o s = s)
      /\ Len(HydratedWal(st) \o s) = Len(HydratedWal(st)) + Len(s)
  BY <1>6, JoinSalted
<1>8. Opens(HydratedWal(st) \o s, st.snap, n)
  <2>1. CASE st.wal = <<>>
    BY <1>6, <1>7, <2>1
  <2>2. CASE st.wal # <<>>
    <3>1. Opens(HydratedWal(st), st.snap, n) /\ HydratedWal(st) \in Seq(Cell) /\ n <= n
      BY <2>2, HydratedType DEF Chained
    <3> QED BY <1>2, <3>1, OpensMore
  <2> QED BY <2>1, <2>2
<1> QED BY <1>3, <1>4, <1>5, <1>6, <1>7, <1>8 DEF Chained

-----------------------------------------------------------------------------
(* The bookkeeping and the chain. *)

\* A new hash or a pending rotation moves no place.
LEMMA UpdateAt ==
  ASSUME NEW l \in LocalStates, NEW n, NEW b
  PROVE  /\ At(l, l)
         /\ At([l EXCEPT !.hash = n], l)
         /\ At([l EXCEPT !.pend = b], l)
         /\ At([l EXCEPT !.pend = b, !.hash = n], l)
  BY DEF At, LocalStates

\* The steps of a pass that has just started a chain, or catches up with it.
Emptied == {"recAdopt", "recSave", "rotAdopt", "rotSave", "rotPrune"}

Bookkept ==
  /\ pc \notin Lagging => Recorded(local, state, wal)
  /\ pc \notin {"recAdopt", "segSave"} => Recorded(L, state, wal)
  /\ pc = "segSave" => Recorded(SealedLocal, state, wal)
  /\ pc \in Emptied => state.wal = <<>>
  /\ pc \in {"reconcile", "entry"} => L.pend = local.pend

\* What every step preserves and moves.
Ground == TypeInv /\ WalInv /\ Chained(state, wal, last)
Moving == TypeInv' /\ WalMoves

\* RecordedMoves for a step of the system.
LEMMA RecordedAfter ==
  ASSUME Ground, Moving, UNCHANGED state, NEW l, NEW k, At(k, l),
         Recorded(l, state, wal)
  PROVE  Recorded(k, state', wal')
<1>1. /\ state \in States /\ wal \in Seq(Cell) /\ wal' \in Seq(Cell)
      /\ last \in Nat /\ last' \in Nat
  BY DEF Ground, Moving, TypeInv, WorkspaceType, BucketType
<1>2. IsWal(wal, last) /\ Moves(wal, last, wal', last') /\ Chained(state, wal, last)
  BY DEF Ground, Moving, WalInv, WalMoves
<1>3. Recorded(k, state, wal')
  BY <1>1, <1>2, RecordedMoves
<1> QED BY <1>3

\* ChainedMoves for a step of the system.
LEMMA ChainedAfter ==
  ASSUME Ground, Moving, UNCHANGED state
  PROVE  Chained(state, wal, last)'
<1>1. /\ state \in States /\ wal \in Seq(Cell) /\ wal' \in Seq(Cell)
      /\ last \in Nat /\ last' \in Nat
  BY DEF Ground, Moving, TypeInv, WorkspaceType, BucketType
<1>2. IsWal(wal, last) /\ Moves(wal, last, wal', last') /\ Chained(state, wal, last)
  BY DEF Ground, Moving, WalInv, WalMoves
<1>3. Chained(state, wal', last')
  BY <1>1, <1>2, ChainedMoves
<1> QED BY <1>3

\* A step that commits nothing keeps places that were recorded.
LEMMA BookkeptSame ==
  ASSUME Bookkept, Ground, Moving, UNCHANGED state,
         \/ pc' \in Lagging
         \/ At(local', local) /\ pc \notin Lagging
         \/ At(local', L) /\ pc \notin {"recAdopt", "segSave"},
         \/ At(L', L) /\ pc \notin {"recAdopt", "segSave"}
         \/ At(L', local) /\ pc \notin Lagging,
         pc' # "segSave", pc' \in Emptied => pc \in Emptied,
         pc' \in {"reconcile", "entry"} => L'.pend = local'.pend
  PROVE  Bookkept'
<1>1. ASSUME pc' \notin Lagging PROVE Recorded(local, state, wal)'
  <2>1. \/ At(local', local) /\ Recorded(local, state, wal)
        \/ At(local', L) /\ Recorded(L, state, wal)
    BY <1>1 DEF Bookkept
  <2>2. Recorded(local', state', wal')
    BY <2>1, RecordedAfter
  <2> QED BY <2>2
<1>2. Recorded(L, state, wal)'
  <2>1. \/ At(L', local) /\ Recorded(local, state, wal)
        \/ At(L', L) /\ Recorded(L, state, wal)
    BY DEF Bookkept
  <2>2. Recorded(L', state', wal')
    BY <2>1, RecordedAfter
  <2> QED BY <2>2
<1>3. pc' \in Emptied => state'.wal = <<>>
  BY DEF Bookkept
<1> QED BY <1>1, <1>2, <1>3 DEF Bookkept

\* The file and the copy stand where they did.
LEMMA BookkeptQuiet ==
  ASSUME Bookkept, Ground, Moving, UNCHANGED <<state, local, L>>,
         pc # "segSave", pc # "recAdopt", pc' # "segSave",
         pc' \in Emptied => pc \in Emptied,
         pc \in Lagging => pc' \in Lagging,
         pc' \in {"reconcile", "entry"} => L'.pend = local'.pend
  PROVE  Bookkept'
<1>1. At(local', local) /\ At(L', L)
  BY UpdateAt DEF Ground, TypeInv, LocalType
<1> QED BY <1>1, BookkeptSame

\* The copy is dropped for the file.
LEMMA BookkeptDrop ==
  ASSUME Bookkept, Ground, Moving, UNCHANGED <<state, local>>, L' = local,
         pc \notin Lagging, pc' \notin Emptied, pc' # "segSave"
  PROVE  Bookkept'
<1>1. At(local', local) /\ At(L', local)
  BY UpdateAt DEF Ground, TypeInv, LocalType
<1> QED BY <1>1, BookkeptSame

\* The copy is saved, at the same place.
LEMMA BookkeptSave ==
  ASSUME Bookkept, Ground, Moving, UNCHANGED state, local' = L', At(L', L),
         pc \notin {"recAdopt", "segSave"}, pc' # "segSave",
         pc' \in Emptied => pc \in Emptied
  PROVE  Bookkept'
<1>1. At(local', L)
  OBVIOUS
<1> QED BY <1>1, BookkeptSame

\* The application moves no place.
LEMMA ApplicationBookkept ==
  ASSUME Bookkept, Ground, Moving, UNCHANGED <<local, bucket, pass>>
  PROVE  Bookkept'
<1>1. UNCHANGED <<local, state, segs, pc, L>>
  BY DEF bucket, pass
<1>2. /\ Recorded(local, state, wal) => Recorded(local, state, wal)'
      /\ Recorded(L, state, wal) => Recorded(L, state, wal)'
  <2>1. At(local, local) /\ At(L, L)
    BY UpdateAt DEF Ground, TypeInv, LocalType
  <2>2. Recorded(local, state, wal) => Recorded(local, state', wal')
    BY <1>1, <2>1, RecordedAfter
  <2>3. Recorded(L, state, wal) => Recorded(L, state', wal')
    BY <1>1, <2>1, RecordedAfter
  <2> QED BY <1>1, <2>2, <2>3
<1>3. Recorded(SealedLocal, state, wal) => Recorded(SealedLocal, state, wal)'
  <2>1. SealedLocal' = SealedLocal /\ At(SealedLocal, SealedLocal)
    BY <1>1 DEF SealedLocal, At
  <2>2. Recorded(SealedLocal, state, wal) => Recorded(SealedLocal, state', wal')
    BY <1>1, <2>1, RecordedAfter
  <2> QED BY <2>1, <2>2
<1> QED BY <1>1, <1>2, <1>3 DEF Bookkept

\* A pass begins with the file's bookkeeping.
LEMMA BeginBookkept ==
  ASSUME Bookkept, Ground, Moving, NEW o \in Ops, Begin(o)
  PROVE  Bookkept'
<1>1. /\ UNCHANGED <<state, local>> /\ L' = local /\ pc = "idle"
      /\ pc' \in {"reconcile", "bootSnapshot"}
  BY DEF Begin, bucket
<1> QED BY <1>1, BookkeptDrop DEF Lagging, Emptied

\* The segment that the pass is committing, or has just committed.
Segment == segs[state.gen][L.seq + 1]

\* A segment that was put goes on with the chain; if the two are of one
\* incarnation, from the bookkeeping's offset and past what any pass found.
SealedInv ==
  pc \in {"putState", "rotPutState"} =>
    /\ Extends(Segment, state, wal, last)
    /\ Pure(HydratedWal(state) \o Segment, wal) =>
         /\ L.salt = Salt(wal) /\ L.off = Len(HydratedWal(state))
         /\ Covers(began, HydratedWal(state) \o Segment, wal)
         /\ Covers(reported, HydratedWal(state) \o Segment, wal)

\* A pass that saw another incarnation than the one it knows: that one is gone.
SeenInv ==
  /\ pc \in {"seal", "putState", "segSave"} => seen.salt = L.salt
  /\ pc \in {"classify", "adopt"} /\ L.salt # 0 /\ seen.salt # L.salt =>
       Gone(L.salt, wal)
  /\ pc = "adopt" => L.salt # 0 /\ seen.salt # L.salt

\* Every bookkeeping at the WAL's start is recorded by an empty chain.
LEMMA EmptyRecorded ==
  ASSUME NEW st, NEW w, NEW l, st.wal = <<>>, l.gen = st.gen => l.off = 0
  PROVE  Recorded(l, st, w)
  BY DEF Recorded, Live

\* The WAL of a live chain is there.
LEMMA LiveWal ==
  ASSUME NEW st \in States, NEW w \in Seq(Cell), NEW n \in Nat, Chained(st, w, n),
         Live(st, w)
  PROVE  w # <<>> /\ Salt(w) # 0
<1>1. /\ HydratedWal(st) # <<>> /\ Salted(HydratedWal(st), n)
      /\ \A i \in 1..Len(HydratedWal(st)) : HydratedWal(st)[i][1] = Salt(w)
  BY DEF Live, Chained, Pure
<1>2. HydratedWal(st) \in Seq(Cell)
  BY HydratedType
<1>3. 1 \in 1..Len(HydratedWal(st))
  BY <1>1, <1>2, SaltOf
<1>4. Salt(w) \in 1..n
  BY <1>1, <1>3 DEF Salted
<1> QED BY <1>4, SaltOf

\* The bootstrap starts a chain without segments, at the WAL's start.
LEMMA BootBookkept ==
  ASSUME Bookkept, Ground, Moving, Inv, Inv', Boot
  PROVE  Bookkept'
<1>1. CASE BootSnapshot
  <2>1. UNCHANGED <<state, local, L>> /\ pc = "bootSnapshot" /\ pc' = "bootCommit"
    BY <1>1 DEF BootSnapshot, Goto
  <2> QED BY <2>1, BookkeptQuiet DEF Lagging, Emptied
<1>2. CASE BootCommit
  <2>1. /\ UNCHANGED <<local, L>> /\ pc = "bootCommit" /\ pc' = "bootSave"
        /\ state'.gen = 1 /\ state'.wal = <<>>
    BY <1>2 DEF BootCommit, Goto
  <2>2. state.gen = 0
    BY <2>1 DEF Inv, TypeInv, Control
  <2>3. local.gen # 1 /\ L.gen # 1
    BY <2>2, Positions DEF Inv, BehindInv, Behind
  <2>4. Recorded(local, state, wal)' /\ Recorded(L, state, wal)'
    BY <2>1, <2>3 DEF Recorded, Live
  <2> QED BY <2>1, <2>4 DEF Bookkept, Emptied
<1>3. CASE BootSave
  <2>1. /\ UNCHANGED <<state>> /\ pc = "bootSave" /\ local' = L'
        /\ pc' \in {"idle", "quiesce", "reconcile"}
        /\ L' = [FreshLocal EXCEPT !.gen = 1, !.hash = db]
    BY <1>3 DEF BootSave, Return, Goto, bucket
  <2>2. L'.off = 0
    BY <2>1 DEF FreshLocal
  <2>3. state.wal = <<>>
    <3>1. Len(state.wal) = 0 /\ state.wal \in Seq(SegmentRefs)
      BY <2>1 DEF Inv, InStepInv, TypeInv, BucketType, States
    <3> QED BY <3>1, EmptySeq
  <2>4. Recorded(L, state, wal)' /\ Recorded(local, state, wal)'
    BY <2>1, <2>2, <2>3 DEF Recorded, Live
  <2> QED BY <2>1, <2>3, <2>4 DEF Bookkept, Emptied
<1> QED BY <1>1, <1>2, <1>3 DEF Boot

\* Adopting the WAL puts a bookkeeping at its start.
LEMMA AdoptedAt ==
  ASSUME NEW l \in LocalStates
  PROVE  /\ Adopted(l).gen = l.gen /\ Adopted(l).salt = Salt(wal) /\ Adopted(l).off = 0
         /\ Adopted(l).pend = l.pend
  BY DEF Adopted, LocalStates

\* Reconciliation adopts the WAL for a generation without segments; a lost tail
\* does not happen here.
LEMMA ReconcileBookkept ==
  ASSUME Bookkept, Ground, Moving, Inv, Inv', Reconcile
  PROVE  Bookkept'
<1>0. L \in LocalStates /\ local \in LocalStates
  BY DEF Inv, TypeInv, LocalType
<1>1. CASE ReconcileFresh
  <2> DEFINE m == [L EXCEPT !.gen = state.gen, !.seq = Len(state.wal)]
  <2>1. /\ pc = "reconcile" /\ L.gen # state.gen /\ UNCHANGED <<state, local, wal>>
        /\ L' = Adopted(m) /\ pc' = "recSave"
    BY <1>1 DEF ReconcileFresh, Goto, workspace, bucket
  <2>2. m \in LocalStates
    BY <1>0, Positions, LocalUpdateType DEF Inv
  <2> HIDE DEF m
  <2>3. L'.off = 0
    BY <2>1, <2>2, AdoptedAt
  <2>4. state.wal = <<>>
    BY <2>1 DEF Bookkept, Recorded
  <2>5. Recorded(L, state, wal)' /\ Recorded(local, state, wal)'
    BY <2>1, <2>3, <2>4 DEF Recorded, Live, Bookkept, Lagging
  <2> QED BY <2>1, <2>4, <2>5 DEF Bookkept, Emptied
<1>2. CASE ReconcileStale
  <2>1. /\ pc = "reconcile" /\ pc' = "recAdopt" /\ UNCHANGED <<state, local>>
        /\ L.gen # state.gen
    BY <1>2 DEF ReconcileStale, Goto, bucket
  <2>2. state.wal = <<>>
    BY <2>1 DEF Bookkept, Recorded
  <2>3. Recorded(local, state, wal)'
    BY <2>1, <2>2 DEF Recorded, Live, Bookkept, Lagging
  <2> QED BY <2>1, <2>2, <2>3 DEF Bookkept, Emptied
<1>3. CASE RecAdopt
  <2>1. /\ pc = "recAdopt" /\ pc' = "recSave" /\ UNCHANGED <<state, local, wal>>
        /\ L' = Adopted(L)
    BY <1>3 DEF RecAdopt, Goto, workspace, bucket
  <2>2. L'.off = 0
    BY <1>0, <2>1, AdoptedAt
  <2>3. state'.wal = <<>>
    BY <2>1 DEF Bookkept, Emptied
  <2>4. Recorded(L, state, wal)' /\ Recorded(local, state, wal)'
    BY <2>1, <2>2, <2>3 DEF Recorded, Live, Bookkept, Lagging
  <2> QED BY <2>1, <2>3, <2>4 DEF Bookkept, Emptied
<1>4. CASE RecSave
  <2>1. /\ pc = "recSave" /\ pc' \in {"rotTail", "entry"} /\ UNCHANGED state
        /\ local' = L' /\ L' = [L EXCEPT !.pend = FALSE, !.hash = db]
    BY <1>4 DEF RecSave, Goto, SaveLocal, AfterReconcile, bucket
  <2> QED BY <1>0, <2>1, UpdateAt, BookkeptSave DEF Emptied
<1>5. ~Realign
  <2>1. SUFFICES ASSUME Realign PROVE FALSE
    OBVIOUS
  <2>2. pc = "reconcile" /\ L.gen = state.gen /\ L.seq # Len(state.wal)
    BY <2>1 DEF Realign, LostTail
  <2> QED BY <2>2 DEF Inv, InStepInv, InStep
<1>6. CASE InAgreement
  <2>1. /\ pc = "reconcile" /\ pc' \in {"rotTail", "entry"}
        /\ UNCHANGED <<state, local, L>>
    BY <1>6 DEF InAgreement, Goto, AfterReconcile, bucket
  <2>2. L'.pend = local'.pend
    BY <2>1 DEF Bookkept
  <2> QED BY <2>1, <2>2, BookkeptQuiet DEF Lagging, Emptied
<1> QED BY <1>1, <1>2, <1>3, <1>4, <1>5, <1>6 DEF Reconcile

\* A segment counted: the offset is where the chain now ends.
LEMMA SealedAt ==
  ASSUME NEW l \in LocalStates, l = L
  PROVE  /\ SealedLocal.gen = L.gen /\ SealedLocal.salt = L.salt
         /\ SealedLocal.off = L.off + Len(Segment)
  BY DEF SealedLocal, LocalStates, Segment

\* A segment's state PUT.
LEMMA SegmentCommitted ==
  ASSUME SealedInv, Ground, Inv, pc \in {"putState", "rotPutState"}, ExtendState,
         state' \in States
  PROVE  /\ state'.gen = state.gen /\ state'.snap = state.snap /\ state'.wal # <<>>
         /\ HydratedWal(state') = HydratedWal(state) \o Segment
         /\ Chained(state', wal, last) /\ Recorded(SealedLocal, state', wal)
<1>1. /\ state \in States /\ wal \in Seq(Cell) /\ last \in Nat
      /\ L \in LocalStates /\ L.seq \in Nat
  BY LocalFieldType DEF Ground, TypeInv, WorkspaceType, BucketType, LocalType
<1>2. L.gen = state.gen /\ state.gen \in Gens /\ L.seq + 1 \in Seqs
  BY DEF Inv, BehindInv, Aligned, TypeInv, Control, InGeneration, Sealing, Steps,
     ShipSteps, RotateSteps
<1>3. Segment \in Seq(Cell) /\ L.seq + 1 \in Nat
  BY <1>1, <1>2 DEF Segment, Ground, TypeInv, BucketType
<1>4. Appends(state', state, L.seq + 1, Segment)
  <2>1. state' = [state EXCEPT !.wal =
                    Append(@, [seq |-> L.seq + 1, sha |-> Segment])]
    BY DEF ExtendState, Segment
  <2> HIDE DEF Segment
  <2> QED BY <1>1, <2>1 DEF States, Appends
<1>5. /\ Extends(Segment, state, wal, last)
      /\ Pure(HydratedWal(state) \o Segment, wal) =>
           L.salt = Salt(wal) /\ L.off = Len(HydratedWal(state))
  BY DEF SealedInv
<1>6. Chained(state, wal, last)
  BY DEF Ground
<1>7. /\ HydratedWal(state') = HydratedWal(state) \o Segment
      /\ Chained(state', wal, last) /\ state'.wal # <<>>
      /\ Len(HydratedWal(state')) = Len(HydratedWal(state)) + Len(Segment)
  BY <1>1, <1>3, <1>4, <1>5, <1>6, ExtendedChain
<1>8. state'.gen = state.gen /\ state'.snap = state.snap
  BY <1>4 DEF Appends
<1>9. /\ SealedLocal.gen = L.gen /\ SealedLocal.salt = L.salt
      /\ SealedLocal.off = L.off + Len(Segment)
  BY <1>1, SealedAt
<1>10. Recorded(SealedLocal, state', wal)
  BY <1>2, <1>5, <1>7, <1>8, <1>9 DEF Recorded, Live
<1> QED BY <1>7, <1>8, <1>10

\* A ship pass moves the offset by what it has put into the chain.
LEMMA ShipPassBookkept ==
  ASSUME Bookkept, SealedInv, SeenInv, Ground, Moving, Inv, Inv', ShipPass
  PROVE  Bookkept'
<1>0. L \in LocalStates /\ local \in LocalStates /\ state' \in States
  BY DEF Inv, TypeInv, LocalType, BucketType
<1>00. ASSUME Live(state, wal)
       PROVE  wal # <<>> /\ Salt(wal) # 0
  <2>1. state \in States /\ wal \in Seq(Cell) /\ last \in Nat /\ Chained(state, wal, last)
    BY DEF Ground, TypeInv, WorkspaceType, BucketType
  <2> QED BY <1>00, <2>1, LiveWal
<1>1. CASE Pending
  <2>1. /\ pc = "entry" /\ pc' \in {"idle", "quiesce", "rotTail"}
        /\ UNCHANGED <<state, local, L>>
    BY <1>1 DEF Pending, Goto, Return, bucket
  <2> QED BY <2>1, BookkeptQuiet DEF Lagging, Emptied
<1>2. CASE Entry
  <2>1. /\ pc = "entry" /\ pc' \in {"seal", "classify"} /\ UNCHANGED <<state, local, wal>>
        /\ L' = IF wal # <<>> /\ L.salt = 0 THEN Adopted(L) ELSE L
    BY <1>2 DEF Entry, workspace, bucket
  <2>2. CASE wal # <<>> /\ L.salt = 0
    <3>1. L'.gen = L.gen /\ L'.off = 0
      BY <1>0, <2>1, <2>2, AdoptedAt
    <3>2. Recorded(L, state, wal) /\ Recorded(local, state, wal)
      BY <2>1 DEF Bookkept, Lagging
    <3>3. ~Live(state, wal)
      BY <1>00, <2>2, <3>2 DEF Recorded
    <3>4. Recorded(L, state, wal)' /\ Recorded(local, state, wal)'
      BY <2>1, <3>1, <3>2, <3>3 DEF Recorded
    <3> QED BY <2>1, <3>4 DEF Bookkept, Emptied
  <2>3. CASE ~(wal # <<>> /\ L.salt = 0)
    BY <2>1, <2>3, BookkeptQuiet DEF Lagging, Emptied
  <2> QED BY <2>2, <2>3
<1>3. CASE Seal
  <2>1. pc = "seal" /\ pc' = "putState" /\ UNCHANGED <<state, local, L>>
    BY <1>3 DEF Seal, Goto
  <2> QED BY <2>1, BookkeptQuiet DEF Lagging, Emptied
<1>4. CASE SealMismatch \/ Idle \/ Unchanged
  <2>1. /\ pc \in {"seal", "classify"} /\ pc' \in {"idle", "quiesce"} /\ L' = local
        /\ UNCHANGED <<state, local>>
    BY <1>4 DEF SealMismatch, Idle, Unchanged, Return, bucket
  <2> QED BY <2>1, BookkeptDrop DEF Lagging, Emptied
<1>5. CASE PutState
  <2>1. /\ pc = "putState" /\ pc' = "segSave" /\ UNCHANGED <<wal, local, L, segs>>
        /\ ExtendState
    BY <1>5 DEF PutState, Goto, workspace
  <2>2. state'.gen = state.gen /\ Recorded(SealedLocal, state', wal)
    BY <1>0, <2>1, SegmentCommitted
  <2>3. SealedLocal' = SealedLocal
    BY <2>1, <2>2 DEF SealedLocal
  <2>4. Recorded(SealedLocal, state, wal)'
    BY <2>1, <2>2, <2>3
  <2> QED BY <2>1, <2>4 DEF Bookkept, Lagging, Emptied
<1>6. CASE SegSave
  <2>1. /\ pc = "segSave" /\ pc' = "classify" /\ UNCHANGED <<state, wal>>
        /\ local' = SealedLocal /\ L' = SealedLocal
    BY <1>6 DEF SegSave, SaveLocal, workspace, bucket
  <2>2. Recorded(SealedLocal, state, wal)
    BY <2>1 DEF Bookkept
  <2>3. Recorded(L, state, wal)' /\ Recorded(local, state, wal)'
    BY <2>1, <2>2
  <2> QED BY <2>1, <2>3 DEF Bookkept, Emptied
<1>7. CASE Folded
  <2>1. /\ pc = "classify" /\ UNCHANGED state
        /\ \/ pc' = "rotTail" /\ UNCHANGED <<local, L>>
           \/ /\ pc' \in {"idle", "quiesce"} /\ local' = L'
              /\ L' = [L EXCEPT !.pend = TRUE]
    BY <1>7 DEF Folded, Goto, Return, bucket
  <2>2. CASE pc' = "rotTail" /\ UNCHANGED <<local, L>>
    BY <2>1, <2>2, BookkeptQuiet DEF Lagging, Emptied
  <2>3. CASE /\ pc' \in {"idle", "quiesce"} /\ local' = L'
             /\ L' = [L EXCEPT !.pend = TRUE]
    BY <1>0, <2>1, <2>3, UpdateAt, BookkeptSave DEF Emptied
  <2> QED BY <2>1, <2>2, <2>3
<1>8. CASE BenignFold
  <2>1. pc = "classify" /\ pc' = "adopt" /\ UNCHANGED <<state, local, L>>
    BY <1>8 DEF BenignFold, Goto, bucket
  <2> QED BY <2>1, BookkeptQuiet DEF Lagging, Emptied
<1>9. CASE AdoptSave
  <2>1. /\ pc = "adopt" /\ pc' \in {"idle", "quiesce"} /\ UNCHANGED <<state, wal>>
        /\ local' = Adopted(L) /\ L' = Adopted(L)
    BY <1>9 DEF AdoptSave, Return, workspace, bucket
  <2>2. Adopted(L).gen = L.gen /\ Adopted(L).off = 0
    BY <1>0, AdoptedAt
  <2>3. Recorded(L, state, wal)
    BY <2>1 DEF Bookkept
  <2>4. ~Live(state, wal)
    <3>1. L.salt # 0 /\ seen.salt # L.salt /\ Gone(L.salt, wal)
      BY <2>1 DEF SeenInv
    <3>2. L.salt \in Nat /\ Salt(wal) \in Nat
      BY <1>0, LocalFieldType, SaltType DEF Ground, TypeInv, WorkspaceType
    <3>3. Live(state, wal) => Salt(wal) = L.salt
      BY <2>3 DEF Recorded
    <3> QED BY <1>00, <3>1, <3>2, <3>3 DEF Gone
  <2>5. Recorded(Adopted(L), state, wal)
    BY <2>2, <2>3, <2>4 DEF Recorded
  <2>6. Recorded(L, state, wal)' /\ Recorded(local, state, wal)'
    BY <2>1, <2>5
  <2> QED BY <2>1, <2>6 DEF Bookkept, Emptied
<1>10. CASE Covered
  <2>1. /\ pc = "classify" /\ UNCHANGED state /\ pc' \in {"idle", "quiesce"}
        /\ local' = L' /\ L' = [L EXCEPT !.hash = db]
    BY <1>10 DEF Covered, Return, bucket
  <2> QED BY <1>0, <2>1, UpdateAt, BookkeptSave DEF Emptied
<1> QED BY <1>1, <1>2, <1>3, <1>4, <1>5, <1>6, <1>7, <1>8, <1>9, <1>10 DEF ShipPass

\* A rotation does so too, then starts a chain without segments.
LEMMA RotateBookkept ==
  ASSUME Bookkept, SealedInv, Ground, Moving, Inv, Inv', Rotate
  PROVE  Bookkept'
<1>0. L \in LocalStates /\ local \in LocalStates /\ state' \in States
  BY DEF Inv, TypeInv, LocalType, BucketType
<1>1. CASE RotTail
  <2>1. /\ pc = "rotTail" /\ pc' \in {"rotPutState", "rotMeta"}
        /\ UNCHANGED <<state, local, L>>
    BY <1>1 DEF RotTail, Goto
  <2> QED BY <2>1, BookkeptQuiet DEF Lagging, Emptied
<1>2. CASE RotPutState
  <2>1. /\ pc = "rotPutState" /\ pc' = "rotMeta" /\ UNCHANGED <<wal, local>>
        /\ L' = SealedLocal /\ ExtendState
    BY <1>2 DEF RotPutState, Goto, workspace
  <2>2. Recorded(SealedLocal, state', wal)
    BY <1>0, <2>1, SegmentCommitted
  <2>3. Recorded(L, state, wal)'
    BY <2>1, <2>2
  <2> QED BY <2>1, <2>3 DEF Bookkept, Lagging, Emptied
<1>3. CASE RotMeta \/ RotCheckpoint \/ RotSnapshot
  <2>1. /\ pc \in {"rotMeta", "rotCheckpoint", "rotSnapshot"}
        /\ pc' \in {"rotCheckpoint", "rotSnapshot", "rotCommit"}
        /\ UNCHANGED <<state, local, L>>
    BY <1>3 DEF RotMeta, RotCheckpoint, RotSnapshot, Goto, bucket
  <2> QED BY <2>1, BookkeptQuiet DEF Lagging, Emptied
<1>4. CASE RotCommit
  <2>1. /\ UNCHANGED <<local, L>> /\ pc = "rotCommit" /\ pc' = "rotAdopt"
        /\ state'.gen = state.gen + 1 /\ state'.wal = <<>>
    BY <1>4 DEF RotCommit, Goto
  <2>2. local.gen # state'.gen /\ L.gen # state'.gen
    BY <2>1, Positions DEF Inv, BehindInv, Behind
  <2>3. Recorded(local, state, wal)' /\ Recorded(L, state, wal)'
    BY <2>1, <2>2 DEF Recorded, Live
  <2> QED BY <2>1, <2>3 DEF Bookkept, Emptied
<1>5. CASE RotAdopt
  <2> DEFINE m == [L EXCEPT !.gen = state.gen, !.seq = 0]
  <2>1. /\ pc = "rotAdopt" /\ pc' = "rotSave" /\ UNCHANGED <<state, local, wal>>
        /\ L' = Adopted(m)
    BY <1>5 DEF RotAdopt, Goto, workspace, bucket
  <2>2. m \in LocalStates
    BY <1>0, Positions, LocalUpdateType DEF Inv
  <2> HIDE DEF m
  <2>3. L'.off = 0
    BY <2>1, <2>2, AdoptedAt
  <2>4. state.wal = <<>>
    BY <2>1 DEF Bookkept, Emptied
  <2>5. Recorded(L, state, wal)' /\ Recorded(local, state, wal)'
    BY <2>1, <2>3, <2>4 DEF Recorded, Live, Bookkept, Lagging
  <2> QED BY <2>1, <2>4, <2>5 DEF Bookkept, Emptied
<1>6. CASE RotSave
  <2>1. /\ pc = "rotSave" /\ pc' = "rotPrune" /\ UNCHANGED state
        /\ local' = L' /\ L' = [L EXCEPT !.pend = FALSE, !.hash = db]
    BY <1>6 DEF RotSave, Goto, SaveLocal, bucket
  <2> QED BY <1>0, <2>1, UpdateAt, BookkeptSave DEF Emptied
<1>7. CASE RotPrune
  <2>1. /\ pc = "rotPrune" /\ pc' \in {"idle", "quiesce"}
        /\ UNCHANGED <<state, local, L>>
    BY <1>7 DEF RotPrune, Return
  <2> QED BY <2>1, BookkeptQuiet DEF Lagging, Emptied
<1> QED BY <1>1, <1>2, <1>3, <1>4, <1>5, <1>6, <1>7 DEF Rotate

\* The drain moves no place.
LEMMA DrainBookkept ==
  ASSUME Bookkept, Ground, Moving, Drain
  PROVE  Bookkept'
<1>0. L \in LocalStates
  BY DEF Ground, TypeInv, LocalType
<1>1. CASE Quiesce
  <2>1. pc = "quiesce" /\ pc' = "quiesceSave" /\ UNCHANGED <<state, local, L>>
    BY <1>1 DEF Quiesce, Goto, bucket
  <2> QED BY <2>1, BookkeptQuiet DEF Lagging, Emptied
<1>2. CASE QuiesceSave
  <2>1. /\ pc = "quiesceSave" /\ pc' = "idle" /\ UNCHANGED state
        /\ local' = L' /\ L' = [L EXCEPT !.hash = db]
    BY <1>2 DEF QuiesceSave, SaveLocal, bucket
  <2> QED BY <1>0, <2>1, UpdateAt, BookkeptSave DEF Emptied
<1> QED BY <1>1, <1>2 DEF Drain

\* A pass that is cut short leaves the bookkeeping of its last save; a deferred
\* rotation saves the tail it has committed.
LEMMA FailureBookkept ==
  ASSUME CrashPoints \cap Lagging = {}, Bookkept, Ground, Moving, Failure
  PROVE  Bookkept'
<1>0. L \in LocalStates
  BY DEF Ground, TypeInv, LocalType
<1>1. CASE Crash \/ SealGone
  <2>1. /\ pc \notin Lagging /\ pc' = "idle" /\ L' = local /\ UNCHANGED <<state, local>>
    BY <1>1 DEF Crash, SealGone, Lagging, bucket
  <2> QED BY <2>1, BookkeptDrop DEF Emptied
<1>2. CASE RotDefer
  <2>1. /\ pc \in {"rotCheckpoint", "rotSnapshot"} /\ pc' = "idle"
        /\ UNCHANGED state /\ local' = L' /\ L' = L
    BY <1>2 DEF RotDefer, SaveLocal, bucket
  <2> QED BY <1>0, <2>1, UpdateAt, BookkeptSave DEF Emptied
<1> QED BY <1>1, <1>2 DEF Failure

\* Between passes, or in one, nothing happens.
LEMMA StutterBookkept ==
  ASSUME Bookkept, Ground, Moving, UNCHANGED vars
  PROVE  Bookkept'
  BY ApplicationBookkept DEF vars

\* Every step keeps the places recorded.
LEMMA BookkeptNext ==
  ASSUME CrashPoints \cap Lagging = {}, Bookkept, SealedInv, SeenInv, Ground, Moving,
         Inv, Inv', [Next]_vars
  PROVE  Bookkept'
<1>1. CASE Application
  <2>1. UNCHANGED <<local, bucket, pass>>
    BY <1>1 DEF Application, OpenApp, Write, AutoCheckpoint, CloseApp, KillApp
  <2> QED BY <2>1, ApplicationBookkept
<1>2. CASE Shipper
  BY <1>2, BeginBookkept, BootBookkept, ReconcileBookkept, ShipPassBookkept,
     RotateBookkept, DrainBookkept DEF Shipper
<1>3. CASE Failure
  BY <1>3, FailureBookkept
<1>4. CASE UNCHANGED vars
  BY <1>4, StutterBookkept
<1> QED BY <1>1, <1>2, <1>3, <1>4 DEF Next

-----------------------------------------------------------------------------
(* What is known of numbers and salts. *)

\* Snapshots and salts are not of the future.
Bounds ==
  /\ state.snap <= last /\ \A g \in Gens : snaps[g] <= last
  /\ Past(local.salt, wal, last) /\ Past(L.salt, wal, last)
  /\ began \in 0..last /\ reported \in 0..last

\* What a pass reported, and what it has shipped, is in a live chain.
Kept ==
  Live(state, wal) =>
    /\ Covers(reported, HydratedWal(state), wal)
    /\ pc \in {"segSave", "classify"} => Covers(began, HydratedWal(state), wal)

\* What a step of the shipper does to the two history variables.
ShipperHistory ==
  /\ began' = IF pc = "idle" THEN last ELSE IF Ending THEN 0 ELSE began
  /\ reported' = IF Returns /\ began > reported THEN began ELSE reported

\* What any step does to them.
History ==
  \/ (Application \/ UNCHANGED vars) /\ UNCHANGED history
  \/ Failure /\ began' = 0 /\ UNCHANGED reported
  \/ Shipper /\ ShipperHistory

\* Where the salts of the bookkeeping come from.
SaltFrom(l) ==
  \/ l.salt = local.salt \/ l.salt = L.salt \/ l.salt = 0
  \/ l.salt = Salt(wal) /\ wal' = wal

\* A step takes the salts of the bookkeeping from there, or from the WAL.
LEMMA SaltsCome ==
  ASSUME TypeInv, [Next]_vars
  PROVE  SaltFrom(local') /\ SaltFrom(L')
<1>0. L \in LocalStates /\ local \in LocalStates
  BY DEF TypeInv, LocalType
<1>1. ASSUME local' = local \/ local' = L, L' = local \/ L' = L
      PROVE  SaltFrom(local') /\ SaltFrom(L')
  BY <1>1 DEF SaltFrom
<1>2. CASE Application \/ UNCHANGED vars
  BY <1>1, <1>2 DEF Application, OpenApp, Write, AutoCheckpoint, CloseApp, KillApp,
     vars, pass
<1>3. ASSUME NEW o \in Ops, Begin(o) PROVE SaltFrom(local') /\ SaltFrom(L')
  BY <1>1, <1>3 DEF Begin
<1>4. CASE Failure
  BY <1>1, <1>4 DEF Failure, Crash, SealGone, RotDefer, SaveLocal
<1>5. CASE Boot
  <2>1. CASE BootSnapshot \/ BootCommit
    BY <1>1, <2>1 DEF BootSnapshot, BootCommit
  <2>2. CASE BootSave
    BY <2>2 DEF BootSave, Return, SaltFrom, FreshLocal
  <2> QED BY <1>5, <2>1, <2>2 DEF Boot
<1>6. CASE Reconcile
  <2>1. CASE ReconcileFresh
    BY <1>0, <2>1 DEF ReconcileFresh, workspace, Adopted, SaltFrom, LocalStates
  <2>2. CASE ReconcileStale
    BY <1>0, <2>2 DEF ReconcileStale, SaltFrom, LocalStates
  <2>3. CASE RecAdopt
    BY <1>0, <2>3 DEF RecAdopt, workspace, Adopted, SaltFrom, LocalStates
  <2>4. CASE RecSave \/ Realign
    BY <1>0, <2>4 DEF RecSave, Realign, SaveLocal, SaltFrom, LocalStates
  <2>5. CASE InAgreement
    BY <1>1, <2>5 DEF InAgreement
  <2> QED BY <1>6, <2>1, <2>2, <2>3, <2>4, <2>5 DEF Reconcile
<1>7. CASE ShipPass
  <2>1. CASE Pending \/ Seal \/ PutState \/ BenignFold \/ SealMismatch \/ Idle \/ Unchanged
    BY <1>1, <2>1 DEF Pending, Seal, PutState, BenignFold, SealMismatch, Idle,
       Unchanged, Return
  <2>2. CASE Entry
    BY <1>0, <2>2 DEF Entry, workspace, Adopted, SaltFrom, LocalStates
  <2>3. CASE SegSave
    BY <1>0, <2>3 DEF SegSave, SaveLocal, SealedLocal, SaltFrom, LocalStates
  <2>4. CASE Folded
    BY <1>0, <2>4 DEF Folded, Return, SaltFrom, LocalStates
  <2>5. CASE AdoptSave
    BY <1>0, <2>5 DEF AdoptSave, Return, workspace, Adopted, SaltFrom, LocalStates
  <2>6. CASE Covered
    BY <1>0, <2>6 DEF Covered, Return, SaltFrom, LocalStates
  <2> QED BY <1>7, <2>1, <2>2, <2>3, <2>4, <2>5, <2>6 DEF ShipPass
<1>8. CASE Rotate
  <2>1. CASE RotTail \/ RotMeta \/ RotCheckpoint \/ RotSnapshot \/ RotCommit \/ RotPrune
    BY <1>1, <2>1 DEF RotTail, RotMeta, RotCheckpoint, RotSnapshot, RotCommit,
       RotPrune, Return
  <2>2. CASE RotPutState
    BY <1>0, <2>2 DEF RotPutState, SealedLocal, SaltFrom, LocalStates
  <2>3. CASE RotAdopt
    BY <1>0, <2>3 DEF RotAdopt, workspace, Adopted, SaltFrom, LocalStates
  <2>4. CASE RotSave
    BY <1>0, <2>4 DEF RotSave, SaveLocal, SaltFrom, LocalStates
  <2> QED BY <1>8, <2>1, <2>2, <2>3, <2>4 DEF Rotate
<1>9. CASE Drain
  BY <1>0, <1>9 DEF Drain, Quiesce, QuiesceSave, SaveLocal, SaltFrom, LocalStates
<1> QED BY <1>2, <1>3, <1>4, <1>5, <1>6, <1>7, <1>8, <1>9 DEF Next, Shipper

\* Where snapshots come from.
LEMMA SnapsCome ==
  ASSUME TypeInv, Bounds, [Next]_vars
  PROVE  state'.snap <= last /\ \A g \in Gens : snaps'[g] <= last
<1> DEFINE Goal == state'.snap <= last /\ \A g \in Gens : snaps'[g] <= last
<1>0. /\ last \in Nat /\ state \in States /\ snaps \in [Gens -> Nat \cup {Nil}]
      /\ state.snap <= last /\ (\A g \in Gens : snaps[g] <= last) /\ -1 <= last
  BY DEF TypeInv, WorkspaceType, BucketType, Bounds
<1>1. ASSUME UNCHANGED <<state, snaps>> PROVE Goal
  BY <1>0, <1>1
<1>2. ASSUME UNCHANGED snaps, ExtendState PROVE Goal
  <2>1. state'.snap = state.snap
    BY <1>0, <1>2 DEF ExtendState, States
  <2> QED BY <1>0, <1>2, <2>1
<1>3. ASSUME UNCHANGED state, NEW g \in Gens, snaps' = [snaps EXCEPT ![g] = last]
      PROVE  Goal
  BY <1>0, <1>3
<1>4. ASSUME BootCommit PROVE Goal
  <2>1. state'.snap = snaps[1] /\ snaps' = snaps /\ 1 \in Gens
    BY <1>4, BoundsAssumption DEF BootCommit, Gens
  <2> QED BY <1>0, <2>1
<1>5. ASSUME RotCommit PROVE Goal
  <2>1. state'.snap = snaps[state.gen + 1] /\ snaps' = snaps /\ state.gen + 1 \in Gens
    BY <1>5 DEF RotCommit, TypeInv, Control, Rotating
  <2> QED BY <1>0, <2>1
<1>6. ASSUME RotPrune PROVE Goal
  <2>1. state' = state /\ \A g \in Gens : snaps'[g] \in {Nil, snaps[g]}
    BY <1>6 DEF RotPrune
  <2> QED BY <1>0, <2>1 DEF Nil
<1>7. ASSUME BootSnapshot PROVE Goal
  <2>1. 1 \in Gens /\ state' = state /\ snaps' = [snaps EXCEPT ![1] = last]
    BY <1>7, BoundsAssumption DEF BootSnapshot, Gens
  <2> QED BY <1>3, <2>1
<1>8. ASSUME RotSnapshot PROVE Goal
  <2>1. /\ state.gen + 1 \in Gens /\ state' = state
        /\ snaps' = [snaps EXCEPT ![state.gen + 1] = last]
    BY <1>8 DEF RotSnapshot, TypeInv, Control, Rotating
  <2> QED BY <1>3, <2>1
<1> HIDE DEF Goal
<1>9. ASSUME Application \/ UNCHANGED vars PROVE Goal
  BY <1>1, <1>9 DEF Application, OpenApp, Write, AutoCheckpoint, CloseApp, KillApp,
     vars, bucket
<1>10. ASSUME \E o \in Ops : Begin(o) PROVE Goal
  BY <1>1, <1>10 DEF Begin, bucket
<1>11. ASSUME Failure PROVE Goal
  BY <1>1, <1>11 DEF Failure, Crash, SealGone, RotDefer, bucket
<1>12. ASSUME Boot PROVE Goal
  BY <1>1, <1>4, <1>7, <1>12 DEF Boot, BootSave, bucket
<1>13. ASSUME Reconcile PROVE Goal
  BY <1>1, <1>13 DEF Reconcile, ReconcileFresh, ReconcileStale, RecAdopt, RecSave,
     Realign, InAgreement, bucket
<1>14. ASSUME ShipPass PROVE Goal
  BY <1>1, <1>2, <1>14 DEF ShipPass, Pending, Entry, Seal, SealMismatch, PutState,
     SegSave, Idle, Folded, BenignFold, AdoptSave, Covered, Unchanged, bucket
<1>15. ASSUME Rotate PROVE Goal
  BY <1>1, <1>2, <1>5, <1>6, <1>8, <1>15 DEF Rotate, RotTail, RotPutState, RotMeta,
     RotCheckpoint, RotAdopt, RotSave, bucket
<1>16. ASSUME Drain PROVE Goal
  BY <1>1, <1>16 DEF Drain, Quiesce, QuiesceSave, bucket
<1> QED BY <1>9, <1>10, <1>11, <1>12, <1>13, <1>14, <1>15, <1>16
           DEF Next, Shipper, Goal

\* Every step keeps the bounds.
LEMMA BoundsNext ==
  ASSUME Bounds, Ground, Moving, [Next]_vars, History
  PROVE  Bounds'
<1>1. /\ last \in Nat /\ last' \in Nat /\ last <= last' /\ wal \in Seq(Cell)
      /\ wal' \in Seq(Cell) /\ state' \in States
      /\ snaps' \in [Gens -> Nat \cup {Nil}]
      /\ Moves(wal, last, wal', last')
  BY DEF Ground, Moving, WalMoves, Moves, TypeInv, WorkspaceType, BucketType
<1>2. state'.snap <= last' /\ \A g \in Gens : snaps'[g] <= last'
  <2>1. state'.snap <= last /\ \A g \in Gens : snaps'[g] <= last
    BY SnapsCome DEF Ground
  <2>2. state'.snap \in Int /\ \A g \in Gens : snaps'[g] \in Int
    BY <1>1, SnapType DEF Nil
  <2> QED BY <1>1, <2>1, <2>2
<1>3. ASSUME NEW l, SaltFrom(l) PROVE Past(l.salt, wal', last')
  <2>1. /\ local.salt \in Nat /\ L.salt \in Nat /\ Salt(wal) \in Nat
        /\ 0 \in Nat /\ Salt(wal') \in Nat
    BY <1>1, LocalFieldType, SaltType DEF Ground, TypeInv, LocalType
  <2>2. CASE l.salt = local.salt \/ l.salt = L.salt
    BY <1>1, <2>1, <2>2, PastMoves DEF Bounds
  <2>3. CASE l.salt = 0
    BY <1>1, <2>1, <2>3 DEF Past
  <2>4. CASE l.salt = Salt(wal) /\ wal' = wal
    <3>1. Salt(wal) <= last
      BY <1>1, SaltOf DEF Ground, WalInv, IsWal
    <3> QED BY <1>1, <2>1, <2>4, <3>1 DEF Past
  <2> QED BY <1>3, <2>2, <2>3, <2>4 DEF SaltFrom
<1>4. Past(local'.salt, wal', last') /\ Past(L'.salt, wal', last')
  BY <1>3, SaltsCome DEF Ground
<1>5. began' \in 0..last' /\ reported' \in 0..last'
  <2>1. began \in 0..last /\ reported \in 0..last
    BY DEF Bounds
  <2>2. /\ began' \in {began, last, 0}
        /\ reported' \in {began, reported}
    BY DEF History, history, ShipperHistory
  <2> QED BY <1>1, <2>1, <2>2
<1> QED BY <1>2, <1>4, <1>5 DEF Bounds

-----------------------------------------------------------------------------
(* The chain, and the segment on its way into it. *)

\* The commits.
LEMMA StateChanges ==
  ASSUME [Next]_vars
  PROVE  UNCHANGED state \/ BootCommit \/ PutState \/ RotPutState \/ RotCommit
<1>1. CASE Application \/ UNCHANGED vars
  BY <1>1 DEF Application, OpenApp, Write, AutoCheckpoint, CloseApp, KillApp, vars,
     bucket
<1>2. CASE \E o \in Ops : Begin(o)
  BY <1>2 DEF Begin, bucket
<1>3. CASE Failure
  BY <1>3 DEF Failure, Crash, SealGone, RotDefer, bucket
<1>4. CASE Boot
  BY <1>4 DEF Boot, BootSnapshot, BootSave, bucket
<1>5. CASE Reconcile
  BY <1>5 DEF Reconcile, ReconcileFresh, ReconcileStale, RecAdopt, RecSave, Realign,
     InAgreement, bucket
<1>6. CASE ShipPass
  BY <1>6 DEF ShipPass, Pending, Entry, Seal, SealMismatch, SegSave, Idle, Folded,
     BenignFold, AdoptSave, Covered, Unchanged, bucket
<1>7. CASE Rotate
  BY <1>7 DEF Rotate, RotTail, RotMeta, RotCheckpoint, RotSnapshot, RotAdopt,
     RotSave, RotPrune, bucket
<1>8. CASE Drain
  BY <1>8 DEF Drain, Quiesce, QuiesceSave, bucket
<1> QED BY <1>1, <1>2, <1>3, <1>4, <1>5, <1>6, <1>7, <1>8 DEF Next, Shipper

\* Every commit leaves a chain that replays from its snapshot on.
LEMMA ChainedNext ==
  ASSUME SealedInv, Ground, Moving, Inv, [Next]_vars
  PROVE  Chained(state, wal, last)'
<1>0. state' \in States
  BY DEF Moving, TypeInv, BucketType
<1>1. CASE UNCHANGED state
  BY <1>1, ChainedAfter
<1>2. CASE BootCommit \/ RotCommit
  BY <1>2 DEF BootCommit, RotCommit, Chained
<1>3. CASE PutState \/ RotPutState
  <2>1. /\ pc \in {"putState", "rotPutState"} /\ UNCHANGED <<wal, last>> /\ ExtendState
    BY <1>3 DEF PutState, RotPutState, workspace
  <2>2. Chained(state', wal, last)
    BY <1>0, <2>1, SegmentCommitted
  <2> QED BY <2>1, <2>2
<1> QED BY <1>1, <1>2, <1>3, StateChanges

\* A segment is put.
LEMMA SegmentPut ==
  ASSUME Bookkept, Bounds, Ground, Inv, pc \in {"seal", "rotTail"},
         wal # <<>>, Salt(wal) = L.salt, Len(wal) > L.off, L.seq < MaxSeg, PutTail,
         UNCHANGED <<wal, last, state, L, began, reported>>
  PROVE  /\ Extends(Segment, state, wal, last)'
         /\ (Pure(HydratedWal(state) \o Segment, wal) =>
              /\ L.salt = Salt(wal) /\ L.off = Len(HydratedWal(state))
              /\ Covers(began, HydratedWal(state) \o Segment, wal)
              /\ Covers(reported, HydratedWal(state) \o Segment, wal))'
<1>1. /\ state \in States /\ wal \in Seq(Cell) /\ last \in Nat /\ L.off \in Nat
      /\ L.seq \in Nat /\ IsWal(wal, last) /\ Chained(state, wal, last)
      /\ state.snap <= last /\ began \in 0..last /\ reported \in 0..last
  BY LocalFieldType DEF Ground, TypeInv, WorkspaceType, BucketType, LocalType, WalInv,
     Bounds
<1>2. L.gen = state.gen /\ state.gen \in Gens /\ Recorded(L, state, wal)
  BY DEF Inv, BehindInv, Aligned, TypeInv, Control, InGeneration, Steps, ShipSteps,
     RotateSteps, Bookkept
<1>3. L.seq + 1 \in Seqs
  BY <1>1, BoundsAssumption DEF Seqs
<1>4. TailOf(Segment', wal, L.off)
  <2> DEFINE s == SubSeq(wal, L.off + 1, Len(wal))
  <2>1. segs' = [segs EXCEPT ![state.gen][L.seq + 1] = s]
    BY DEF PutTail
  <2> HIDE DEF s
  <2>2. segs'[state.gen][L.seq + 1] = s
    BY <1>2, <1>3, <2>1 DEF Ground, TypeInv, BucketType
  <2>3. Segment' = s
    BY <2>2 DEF Segment
  <2> QED BY <2>3 DEF TailOf, s
<1>5. Extends(Segment', state, wal, last)
  BY <1>1, <1>2, <1>4, TailExtends
<1>6. Pure(HydratedWal(state) \o Segment', wal) =>
        L.off = Len(HydratedWal(state)) /\ Covers(began, HydratedWal(state) \o Segment', wal)
  BY <1>1, <1>2, <1>4, TailExtends
<1>7. Pure(HydratedWal(state) \o Segment', wal) =>
        Covers(reported, HydratedWal(state) \o Segment', wal)
  BY <1>1, <1>2, <1>4, TailExtends
<1> QED BY <1>5, <1>6, <1>7

\* The application does not change that it goes on with the chain.
LEMMA SegmentStays ==
  ASSUME SealedInv, Ground, Moving, UNCHANGED <<bucket, pass, history>>
  PROVE  SealedInv'
<1> SUFFICES ASSUME pc \in {"putState", "rotPutState"}
             PROVE  /\ Extends(Segment, state, wal', last')
                    /\ Pure(HydratedWal(state) \o Segment, wal') =>
                         /\ L.salt = Salt(wal') /\ L.off = Len(HydratedWal(state))
                         /\ Covers(began, HydratedWal(state) \o Segment, wal')
                         /\ Covers(reported, HydratedWal(state) \o Segment, wal')
  <2>1. UNCHANGED <<segs, state, pc, L, began, reported>>
    BY DEF bucket, pass, history
  <2>2. Segment' = Segment
    BY <2>1 DEF Segment
  <2> QED BY <2>1, <2>2 DEF SealedInv
<1>1. /\ state \in States /\ wal \in Seq(Cell) /\ wal' \in Seq(Cell) /\ last \in Nat
      /\ last' \in Nat /\ IsWal(wal, last) /\ Moves(wal, last, wal', last')
      /\ Chained(state, wal, last)
  BY DEF Ground, Moving, WalMoves, TypeInv, WorkspaceType, BucketType, WalInv
<1>2. Segment \in Seq(Cell)
  <2>1. state.gen \in Gens /\ L.seq + 1 \in Seqs
    BY DEF Ground, TypeInv, Control, InGeneration, Sealing, Steps, ShipSteps,
       RotateSteps
  <2> QED BY <2>1 DEF Segment, Ground, TypeInv, BucketType
<1>3. /\ Extends(Segment, state, wal, last)
      /\ Pure(HydratedWal(state) \o Segment, wal) =>
           /\ L.salt = Salt(wal) /\ L.off = Len(HydratedWal(state))
           /\ Covers(began, HydratedWal(state) \o Segment, wal)
           /\ Covers(reported, HydratedWal(state) \o Segment, wal)
  BY DEF SealedInv
<1>4. /\ Extends(Segment, state, wal', last')
      /\ Pure(HydratedWal(state) \o Segment, wal') =>
           Pure(HydratedWal(state) \o Segment, wal) /\ Salt(wal') = Salt(wal)
  BY <1>1, <1>2, <1>3, ExtendsMoves
<1> QED BY <1>3, <1>4 DEF Covers

\* What a seal or a rotation's tail puts goes on with the chain.
LEMMA SealedNext ==
  ASSUME SealedInv, Bookkept, Bounds, Ground, Moving, Inv, [Next]_vars, History
  PROVE  SealedInv'
<1>1. CASE pc' \notin {"putState", "rotPutState"}
  BY <1>1 DEF SealedInv
<1>2. CASE (Application \/ UNCHANGED vars) /\ UNCHANGED history
  <2>1. UNCHANGED <<bucket, pass>>
    BY <1>2 DEF Application, OpenApp, Write, AutoCheckpoint, CloseApp, KillApp, vars
  <2> QED BY <1>2, <2>1, SegmentStays
<1>3. CASE Seal /\ ShipperHistory
  <2>1. /\ pc = "seal" /\ pc' = "putState" /\ UNCHANGED <<wal, last, state, L>>
        /\ PutTail /\ L.seq < MaxSeg
        /\ wal # <<>> /\ Salt(wal) = L.salt /\ Len(wal) > L.off
    BY <1>3 DEF Seal, Goto, workspace
  <2>2. UNCHANGED <<began, reported>>
    BY <1>3, <2>1 DEF ShipperHistory, Ending, Returns
  <2> QED BY <2>1, <2>2, SegmentPut DEF SealedInv
<1>4. CASE RotTail /\ pc' = "rotPutState" /\ ShipperHistory
  <2>1. /\ pc = "rotTail" /\ pc' = "rotPutState" /\ UNCHANGED <<wal, last, state, L>>
        /\ PutTail /\ L.seq < MaxSeg
        /\ L.salt # 0 /\ Salt(wal) = L.salt /\ Len(wal) > L.off
    BY <1>4 DEF RotTail, Goto, workspace
  <2>2. UNCHANGED <<began, reported>>
    BY <1>4, <2>1 DEF ShipperHistory, Ending, Returns
  <2>3. wal # <<>>
    BY <2>1 DEF Salt
  <2> QED BY <2>1, <2>2, <2>3, SegmentPut DEF SealedInv
<1>5. ASSUME pc' \in {"putState", "rotPutState"}, Shipper
      PROVE  Seal \/ (RotTail /\ pc' = "rotPutState")
  <2>1. ~(\E o \in Ops : Begin(o))
    BY <1>5 DEF Begin
  <2>2. ~Boot /\ ~Drain
    BY <1>5 DEF Boot, BootSnapshot, BootCommit, BootSave, Drain, Quiesce,
       QuiesceSave, Goto, Return
  <2>3. ~Reconcile
    BY <1>5 DEF Reconcile, ReconcileFresh, ReconcileStale, RecAdopt, RecSave, Realign,
       InAgreement, Goto, AfterReconcile
  <2>4. ASSUME ShipPass PROVE Seal
    BY <1>5, <2>4 DEF ShipPass, Pending, Entry, SealMismatch, PutState, SegSave, Idle,
       Folded, BenignFold, AdoptSave, Covered, Unchanged, Goto, Return
  <2>5. ASSUME Rotate PROVE RotTail /\ pc' = "rotPutState"
    BY <1>5, <2>5 DEF Rotate, RotTail, RotPutState, RotMeta, RotCheckpoint,
       RotSnapshot, RotCommit, RotAdopt, RotSave, RotPrune, Goto, Return
  <2> QED BY <1>5, <2>1, <2>2, <2>3, <2>4, <2>5 DEF Shipper
<1>6. Failure => pc' = "idle"
  BY DEF Failure, Crash, SealGone, RotDefer
<1> QED BY <1>1, <1>2, <1>3, <1>4, <1>5, <1>6 DEF History

-----------------------------------------------------------------------------
(* What the pass has seen. *)

\* The steps that SeenInv is about.
Looking == {"seal", "putState", "segSave", "classify", "adopt"}

\* A pass that looks at a WAL knows its incarnation, or that its own is gone.
LEMMA SeenNext ==
  ASSUME SeenInv, Bounds, Ground, Moving, [Next]_vars
  PROVE  SeenInv'
<1>0. /\ L \in LocalStates /\ L.salt \in Nat /\ last \in Nat /\ last' \in Nat
      /\ wal \in Seq(Cell) /\ wal' \in Seq(Cell) /\ Salt(wal) \in Nat
      /\ Moves(wal, last, wal', last') /\ Past(L.salt, wal, last)
  BY LocalFieldType, SaltType DEF Ground, TypeInv, LocalType, WorkspaceType, Moving,
     WalMoves, Bounds
<1>1. Gone(L.salt, wal) => Gone(L.salt, wal')
  BY <1>0, GoneMoves
<1>2. CASE pc' \notin Looking
  BY <1>2 DEF SeenInv, Looking
<1>3. CASE /\ UNCHANGED <<L, seen>>
           /\ pc' = pc \/ (pc \in {"seal", "putState"} /\ pc' \in {"putState", "segSave"})
  BY <1>1, <1>3 DEF SeenInv
<1>4. CASE Entry
  <2>1. /\ L' = IF wal # <<>> /\ L.salt = 0 THEN Adopted(L) ELSE L
        /\ seen' = [salt |-> Salt(wal), size |-> Len(wal), sealed |-> FALSE]
        /\ UNCHANGED wal /\ pc' \in {"seal", "classify"}
        /\ pc' = "seal" => Salt(wal) = L'.salt
    BY <1>4 DEF Entry, workspace
  <2>2. seen'.salt = Salt(wal)
    BY <2>1
  <2>3. L'.salt = Salt(wal) \/ L'.salt = L.salt
    BY <1>0, <2>1, AdoptedAt
  <2>4. L'.salt # Salt(wal) => Gone(L'.salt, wal')
    BY <1>0, <2>1, <2>3 DEF Gone, Past
  <2> QED BY <2>1, <2>2, <2>4 DEF SeenInv
<1>5. CASE SegSave
  <2>1. /\ pc = "segSave" /\ pc' = "classify" /\ L' = SealedLocal
        /\ seen' = [seen EXCEPT !.sealed = TRUE]
    BY <1>5 DEF SegSave, SaveLocal
  <2>2. L'.salt = L.salt
    BY <1>0, <2>1, SealedAt
  <2>3. seen'.salt = seen.salt
    BY <2>1 DEF Ground, TypeInv, PassType
  <2> QED BY <2>1, <2>2, <2>3 DEF SeenInv
<1>6. CASE BenignFold
  <2>1. /\ pc = "classify" /\ pc' = "adopt" /\ UNCHANGED <<L, seen>>
        /\ L.salt # 0 /\ seen.salt # L.salt
    BY <1>6 DEF BenignFold, IdentityChanged, Goto
  <2> QED BY <1>1, <2>1 DEF SeenInv
<1>7. ASSUME pc' \in Looking, Shipper
      PROVE  Seal \/ PutState \/ Entry \/ SegSave \/ BenignFold
  <2>1. ~(\E o \in Ops : Begin(o))
    BY <1>7 DEF Begin, Looking
  <2>2. ~Boot /\ ~Drain
    BY <1>7 DEF Boot, BootSnapshot, BootCommit, BootSave, Drain, Quiesce,
       QuiesceSave, Goto, Return, Looking
  <2>3. ~Reconcile
    BY <1>7 DEF Reconcile, ReconcileFresh, ReconcileStale, RecAdopt, RecSave, Realign,
       InAgreement, Goto, AfterReconcile, Looking
  <2>4. ASSUME ShipPass PROVE Seal \/ PutState \/ Entry \/ SegSave \/ BenignFold
    BY <1>7, <2>4 DEF ShipPass, Pending, SealMismatch, Idle, Folded,
       AdoptSave, Covered, Unchanged, Goto, Return, Looking
  <2>5. ~Rotate
    BY <1>7 DEF Rotate, RotTail, RotPutState, RotMeta, RotCheckpoint,
       RotSnapshot, RotCommit, RotAdopt, RotSave, RotPrune, Goto, Return, Looking
  <2> QED BY <1>7, <2>1, <2>2, <2>3, <2>4, <2>5 DEF Shipper
<1>8. Seal \/ PutState =>
        UNCHANGED <<L, seen>> /\ pc \in {"seal", "putState"} /\ pc' \in {"putState", "segSave"}
  BY DEF Seal, PutState, Goto
<1>9. Application \/ UNCHANGED vars => UNCHANGED <<L, seen, pc>>
  BY DEF Application, OpenApp, Write, AutoCheckpoint, CloseApp, KillApp, vars, pass
<1>10. Failure => pc' \notin Looking
  BY DEF Failure, Crash, SealGone, RotDefer, Looking
<1> QED BY <1>2, <1>3, <1>4, <1>5, <1>6, <1>7, <1>8, <1>9, <1>10 DEF Next

-----------------------------------------------------------------------------
(* What the passes have reported. *)

\* A live chain of before: its incarnation, and what it covers, is the same.
LEMMA LiveStays ==
  ASSUME Ground, Moving, UNCHANGED state, Live(state, wal')
  PROVE  Live(state, wal) /\ Salt(wal') = Salt(wal)
<1>1. /\ state \in States /\ wal \in Seq(Cell) /\ wal' \in Seq(Cell) /\ last \in Nat
      /\ last' \in Nat /\ IsWal(wal, last) /\ Moves(wal, last, wal', last')
      /\ Chained(state, wal, last)
  BY DEF Ground, Moving, WalMoves, TypeInv, WorkspaceType, BucketType, WalInv
<1> QED BY <1>1, LiveBefore

\* A pass reports success after it has classified what it saw, or without a chain.
LEMMA ReturnsCovered ==
  ASSUME Kept, Bookkept, SeenInv, Ground, Inv, Shipper, Returns, Live(state, wal)
  PROVE  Covers(began, HydratedWal(state), wal)
<1>0. /\ L \in LocalStates /\ local \in LocalStates /\ state \in States
      /\ wal \in Seq(Cell) /\ last \in Nat /\ Chained(state, wal, last)
      /\ Salt(wal) \in Nat /\ L.salt \in Nat
  BY SaltType, LocalFieldType DEF Ground, TypeInv, WorkspaceType, BucketType, LocalType
<1>1. /\ pc # "idle" /\ pc' \in {"idle", "quiesce"}
      /\ pc \in ShipSteps \cup RotateSteps /\ pc # "seal"
  BY DEF Returns, Ending, ShipSteps, RotateSteps
<1>2. pc # "entry"
  <2> SUFFICES ASSUME pc = "entry" PROVE FALSE
    OBVIOUS
  <2>1. Pending
    <3>1. ~(\E o \in Ops : Begin(o)) /\ ~Boot /\ ~Reconcile /\ ~Rotate /\ ~Drain
      BY DEF Begin, Boot, BootSnapshot, BootCommit, BootSave, Reconcile, ReconcileFresh,
         ReconcileStale, RecAdopt, RecSave, Realign, InAgreement, Rotate, RotTail,
         RotPutState, RotMeta, RotCheckpoint, RotSnapshot, RotCommit, RotAdopt, RotSave,
         RotPrune, Drain, Quiesce, QuiesceSave
    <3>2. ~Entry
      BY <1>1 DEF Entry
    <3> QED BY <3>1, <3>2 DEF Shipper, ShipPass, Seal, SealMismatch, PutState, SegSave,
            Idle, Folded, BenignFold, AdoptSave, Covered, Unchanged
  <2>2. L.pend /\ local' = local /\ L.pend = local.pend
    BY <2>1 DEF Pending, Bookkept
  <2> QED BY <2>2 DEF Returns
<1>3. pc # "adopt"
  <2> SUFFICES ASSUME pc = "adopt" PROVE FALSE
    OBVIOUS
  <2>1. Gone(L.salt, wal) /\ Recorded(L, state, wal)
    BY DEF SeenInv, Bookkept
  <2>2. wal # <<>> /\ L.salt = Salt(wal)
    BY <1>0, <2>1, LiveWal DEF Recorded
  <2> QED BY <1>0, <2>1, <2>2 DEF Gone
<1>4. pc \notin Emptied
  BY DEF Bookkept, Live
<1>5. pc = "classify"
  <2>1. ~(\E o \in Ops : Begin(o)) /\ ~Boot /\ ~Reconcile /\ ~Drain
    BY <1>1, <1>2, <1>3, <1>4 DEF Begin, Boot, BootSnapshot, BootCommit, BootSave,
       Reconcile, ReconcileFresh, ReconcileStale, RecAdopt, RecSave, Realign,
       InAgreement, Drain, Quiesce, QuiesceSave, ShipSteps, RotateSteps, Goto,
       AfterReconcile
  <2>2. ~Rotate
    BY <1>1, <1>4 DEF Rotate, RotTail, RotPutState, RotMeta, RotCheckpoint, RotSnapshot,
       RotCommit, RotAdopt, RotSave, RotPrune, Goto, Emptied
  <2>3. ShipPass
    BY <2>1, <2>2 DEF Shipper
  <2> QED BY <1>1, <1>2, <1>3, <2>3 DEF ShipPass, Pending, Entry, Seal, SealMismatch,
          PutState, SegSave, Idle, Folded, BenignFold, AdoptSave, Covered, Unchanged, Goto
<1> QED BY <1>5 DEF Kept

\* A pass that finds nothing behind its offset finds everything in a live chain.
LEMMA EntryCovered ==
  ASSUME Bookkept, Bounds, Ground, Entry, pc' = "classify", Live(state, wal)
  PROVE  Covers(began, HydratedWal(state), wal)
<1>0. /\ L \in LocalStates /\ state \in States /\ wal \in Seq(Cell) /\ last \in Nat
      /\ Chained(state, wal, last) /\ Salt(wal) \in Nat /\ Len(wal) \in Nat
      /\ HydratedWal(state) \in Seq(Cell) /\ IsWal(wal, last)
  BY SaltOf, HydratedType DEF Ground, TypeInv, WorkspaceType, BucketType, LocalType,
     WalInv
<1>1. wal # <<>> /\ Salt(wal) # 0
  BY <1>0, LiveWal
<1>2. L.salt = Salt(wal) /\ L.off = Len(HydratedWal(state)) /\ HeadOf(HydratedWal(state), wal)
  BY <1>0 DEF Entry, Bookkept, Recorded, Chained, Live
<1>3. ~(Len(wal) > L.off)
  BY <1>1, <1>2 DEF Entry
<1>4. Len(HydratedWal(state)) \in Nat /\ Len(HydratedWal(state)) <= Len(wal)
  BY <1>0, <1>2, LenProperties DEF HeadOf
<1>5. last - Salt(wal) + 2 <= Len(wal) /\ began \in 0..last
  BY <1>1, <1>0 DEF IsWal, Valids, Bounds
<1> QED BY <1>0, <1>2, <1>3, <1>4, <1>5 DEF Covers

\* Every step keeps it.
LEMMA KeptNext ==
  ASSUME Kept, Bookkept, SealedInv, SeenInv, Bounds, Ground, Moving, Inv, [Next]_vars,
         History
  PROVE  Kept'
<1>0. state' \in States
  BY DEF Moving, TypeInv, BucketType
<1>1. CASE BootCommit \/ RotCommit
  BY <1>1 DEF BootCommit, RotCommit, Kept, Live
<1>2. CASE PutState \/ RotPutState
  <2> SUFFICES ASSUME Live(state', wal')
               PROVE  /\ Covers(reported', HydratedWal(state'), wal')
                      /\ Covers(began', HydratedWal(state'), wal')
    BY DEF Kept
  <2>1. /\ pc \in {"putState", "rotPutState"} /\ UNCHANGED <<wal, last>> /\ ExtendState
        /\ pc' \in {"segSave", "rotMeta"}
    BY <1>2 DEF PutState, RotPutState, workspace, Goto
  <2>2. HydratedWal(state') = HydratedWal(state) \o Segment
    BY <1>0, <2>1, SegmentCommitted
  <2>3. Covers(began, HydratedWal(state'), wal) /\ Covers(reported, HydratedWal(state'), wal)
    BY <2>1, <2>2 DEF SealedInv, Live
  <2>4. UNCHANGED <<began, reported>>
    <3>1. ~Failure /\ ~(UNCHANGED vars) /\ ~Application
      BY <2>1 DEF Failure, Crash, SealGone, RotDefer, vars, pass, Application, OpenApp,
         Write, AutoCheckpoint, CloseApp, KillApp
    <3>2. ShipperHistory
      BY <3>1 DEF History
    <3> QED BY <2>1, <3>2 DEF ShipperHistory, Ending, Returns
  <2> QED BY <2>1, <2>3, <2>4
<1>3. CASE UNCHANGED state
  <2> SUFFICES ASSUME Live(state, wal')
               PROVE  /\ Covers(reported', HydratedWal(state), wal')
                      /\ pc' \in {"segSave", "classify"} =>
                           Covers(began', HydratedWal(state), wal')
    BY <1>3 DEF Kept
  <2>1. Live(state, wal) /\ Salt(wal') = Salt(wal)
    BY <1>3, LiveStays
  <2>2. /\ Covers(reported, HydratedWal(state), wal)
        /\ pc \in {"segSave", "classify"} => Covers(began, HydratedWal(state), wal)
    BY <2>1 DEF Kept
  <2>3. /\ Covers(reported', HydratedWal(state), wal)
        /\ pc' \in {"segSave", "classify"} => Covers(began', HydratedWal(state), wal)
    <3>1. CASE (Application \/ UNCHANGED vars) /\ UNCHANGED history
      <4>1. pc' = pc
        BY <3>1 DEF Application, OpenApp, Write, AutoCheckpoint, CloseApp, KillApp, vars,
           pass
      <4> QED BY <2>2, <3>1, <4>1 DEF history
    <3>2. CASE Failure /\ began' = 0 /\ UNCHANGED reported
      <4>1. pc' = "idle"
        BY <3>2 DEF Failure, Crash, SealGone, RotDefer
      <4> QED BY <2>2, <3>2, <4>1
    <3>3. CASE Shipper /\ ShipperHistory
      <4>1. Covers(reported', HydratedWal(state), wal)
        <5>1. CASE Returns
          BY <2>1, <2>2, <3>3, <5>1, ReturnsCovered DEF ShipperHistory
        <5>2. CASE ~Returns
          BY <2>2, <3>3, <5>2 DEF ShipperHistory
        <5> QED BY <5>1, <5>2
      <4>2. ASSUME pc' \in {"segSave", "classify"}
            PROVE  Covers(began', HydratedWal(state), wal)
        <5>1. PutState \/ Entry \/ SegSave
          <6>1. ~(\E o \in Ops : Begin(o)) /\ ~Boot /\ ~Drain /\ ~Reconcile /\ ~Rotate
            BY <4>2 DEF Begin, Boot, BootSnapshot, BootCommit, BootSave, Drain, Quiesce,
               QuiesceSave, Reconcile, ReconcileFresh, ReconcileStale, RecAdopt, RecSave,
               Realign, InAgreement, AfterReconcile, Rotate, RotTail, RotPutState,
               RotMeta, RotCheckpoint, RotSnapshot, RotCommit, RotAdopt, RotSave,
               RotPrune, Goto, Return
          <6> QED BY <3>3, <4>2, <6>1 DEF Shipper, ShipPass, Pending, Seal, SealMismatch,
                  Idle, Folded, BenignFold, AdoptSave, Covered, Unchanged, Goto, Return
        <5>2. ~PutState
          <6> SUFFICES ASSUME PutState PROVE FALSE
            OBVIOUS
          <6>1. L.seq = Len(state.wal) /\ L.gen = state.gen /\ Len(state.wal) \in Nat
            BY Positions DEF PutState, Inv, InStepInv, InStep, BehindInv, Aligned
          <6>2. state.wal \in Seq(SegmentRefs) /\ ExtendState /\ L.seq + 1 \in Seqs
            BY DEF Inv, TypeInv, BucketType, States, PutState, Control, Sealing
          <6>3. state'.gen = state.gen /\ Len(state'.wal) = Len(state.wal) + 1
            BY <6>2, ExtendStateExtends DEF Publication!Extend
          <6> QED BY <1>3, <6>1, <6>3
        <5>3. began' = began
          BY <3>3, <4>2, <5>1 DEF ShipperHistory, Ending, Entry, SegSave, PutState
        <5>4. CASE Entry
          <6>1. pc' = "classify"
            BY <4>2, <5>4 DEF Entry
          <6> QED BY <2>1, <5>3, <5>4, <6>1, EntryCovered
        <5>5. CASE SegSave
          BY <2>2, <5>3, <5>5 DEF SegSave
        <5> QED BY <5>1, <5>2, <5>4, <5>5
      <4> QED BY <4>1, <4>2
    <3> QED BY <3>1, <3>2, <3>3 DEF History
  <2> QED BY <2>1, <2>3 DEF Covers
<1> QED BY <1>1, <1>2, <1>3, StateChanges

-----------------------------------------------------------------------------
(* The invariant, and what a restore yields. *)

\* The inductive strengthening of the theorems below.
ChainInv ==
  /\ WalInv /\ Chained(state, wal, last)
  /\ Bookkept /\ Bounds /\ SealedInv /\ SeenInv /\ Kept

\* It holds of an empty bucket ...
LEMMA ChainInit ==
  RInit => Inv /\ ChainInv
<1> SUFFICES ASSUME RInit PROVE Inv /\ ChainInv
  OBVIOUS
<1>1. Init /\ began = 0 /\ reported = 0
  BY DEF RInit
<1>2. Inv
  BY <1>1, TypeInit, RefsInit, BehindInit, RefinementInit DEF Inv
<1>3. /\ last = 0 /\ db = 0 /\ wal = <<>> /\ pc = "idle" /\ local = FreshLocal
      /\ L = FreshLocal /\ state = NoState /\ snaps = [g \in Gens |-> Nil]
  BY <1>1 DEF Init
<1>4. state.wal = <<>> /\ state.gen = 0 /\ state.snap <= 0
  BY <1>3 DEF NoState, Nil
<1>5. local.salt = 0 /\ local.off = 0 /\ local.gen = 0 /\ L = local
  BY <1>3 DEF FreshLocal
<1>6. WalInv /\ Chained(state, wal, last)
  BY <1>3, <1>4 DEF WalInv, IsWal, Chained
<1>7. Recorded(local, state, wal)
  BY <1>4, <1>5, EmptyRecorded
<1>8. Bookkept
  BY <1>3, <1>4, <1>5, <1>7 DEF Bookkept
<1>9. Bounds
  <2>1. Past(local.salt, wal, last) /\ Past(L.salt, wal, last)
    BY <1>3, <1>5 DEF Past
  <2>2. \A g \in Gens : snaps[g] <= last
    BY <1>3 DEF Nil
  <2> QED BY <1>1, <1>3, <1>4, <2>1, <2>2 DEF Bounds
<1>10. SealedInv /\ SeenInv /\ Kept
  BY <1>3, <1>4 DEF SealedInv, SeenInv, Kept, Live
<1> QED BY <1>2, <1>6, <1>8, <1>9, <1>10 DEF ChainInv

\* ... and every step keeps it.
LEMMA ChainNext ==
  ASSUME CrashPoints \cap Lagging = {}, Inv, Inv', ChainInv, [RNext]_<<vars, history>>
  PROVE  ChainInv'
<1>0. TypeInv /\ TypeInv'
  BY DEF Inv
<1>1. /\ WalInv /\ Chained(state, wal, last)
      /\ Bookkept /\ Bounds /\ SealedInv /\ SeenInv /\ Kept
  BY DEF ChainInv
<1>2. [Next]_vars /\ History
  BY DEF RNext, Next, History, ShipperHistory
<1>3. WalInv' /\ WalMoves
  BY <1>0, <1>1, <1>2, ApplicationMoves, ShipperMoves DEF Next
<1>4. Ground /\ Moving
  BY <1>0, <1>1, <1>3 DEF Ground, Moving
<1>5. Chained(state, wal, last)'
  BY <1>1, <1>2, <1>4, ChainedNext
<1>6. Bookkept'
  BY <1>1, <1>2, <1>4, BookkeptNext
<1>7. Bounds'
  BY <1>1, <1>2, <1>4, BoundsNext
<1>8. SealedInv'
  BY <1>1, <1>2, <1>4, SealedNext
<1>9. SeenInv'
  BY <1>1, <1>2, <1>4, SeenNext
<1>10. Kept'
  BY <1>1, <1>2, <1>4, KeptNext
<1> QED BY <1>3, <1>5, <1>6, <1>7, <1>8, <1>9, <1>10 DEF ChainInv

\* The inductive invariant behind the theorems below.
LEMMA ChainInvariant ==
  ASSUME CrashPoints \cap Lagging = {}
  PROVE  RSpec => [](Inv /\ ChainInv)
<1>1. RSpec => []Inv
  <2>1. RInit => Init
    BY DEF RInit
  <2>2. [RNext]_<<vars, history>> => [Next]_vars
    BY DEF RNext, Next
  <2>3. Spec => []Inv
    BY InStepInvariant
  <2> QED BY <2>1, <2>2, <2>3, PTL DEF RSpec, Spec
<1>2. RInit => ChainInv
  BY ChainInit
<1>3. Inv /\ Inv' /\ ChainInv /\ [RNext]_<<vars, history>> => ChainInv'
  BY ChainNext
<1> QED BY <1>1, <1>2, <1>3, PTL DEF RSpec

\* A WAL file is replayed up to the first frame that is not the next one of its
\* header's incarnation.
LEMMA ReplayOf ==
  ASSUME NEW g \in Seq(Cell), NEW m \in Nat, Holds(g, m)
  PROVE  \E n \in Nat : n >= m /\ Replayed(g) = g[1][1]..n
<1> DEFINE S == g[1][1]
           Follows(k) == g[k] = <<S, S + k - 2>>
           Stops == {j \in 2..(Len(g) + 1) : j = Len(g) + 1 \/ ~Follows(j)}
<1>1. /\ g # <<>> /\ g[1][2] = 0 /\ S \in 1..m /\ m - S + 2 <= Len(g)
      /\ \A i \in 2..(m - S + 2) : Follows(i)
  BY DEF Holds
<1>2. Len(g) \in Nat /\ S \in Nat
  BY <1>1, LenProperties
<1>3. Len(g) + 1 \in Stops /\ Stops \in SUBSET Nat
  BY <1>1, <1>2
<1>4. PICK e \in Stops : \A j \in Stops : e <= j
  BY <1>3, LeastNat
<1>5. e \in 2..(Len(g) + 1) /\ (e = Len(g) + 1 \/ ~Follows(e))
  BY <1>4
<1>6. \A j \in 2..Len(g) : j < e => Follows(j)
  <2> SUFFICES ASSUME NEW j \in 2..Len(g), j < e, ~Follows(j) PROVE FALSE
    OBVIOUS
  <2>1. j \in Stops
    BY <1>2
  <2> QED BY <1>2, <1>4, <1>5, <2>1
<1>7. e > m - S + 2
  BY <1>1, <1>2, <1>5
<1> DEFINE T == {j \in 2..Len(g) : \A k \in 2..j : Follows(k)}
<1>8. \A j \in 2..Len(g) : j \in T <=> j < e
  <2> SUFFICES ASSUME NEW j \in 2..Len(g) PROVE j \in T <=> j < e
    OBVIOUS
  <2>1. ASSUME j < e PROVE \A k \in 2..j : Follows(k)
    BY <1>2, <1>5, <1>6, <2>1
  <2>2. ASSUME ~(j < e), \A k \in 2..j : Follows(k) PROVE FALSE
    <3>1. e \in 2..j /\ e # Len(g) + 1
      BY <1>2, <1>5, <2>2
    <3> QED BY <1>5, <2>2, <3>1
  <2> QED BY <2>1, <2>2
<1>9. T = 2..(e - 1)
  BY <1>2, <1>5, <1>8
<1>10. Replayed(g) = {g[i][2] : i \in T}
  BY <1>1 DEF Replayed
<1>11. \A i \in 2..(e - 1) : g[i][2] = S + i - 2
  <2> SUFFICES ASSUME NEW i \in 2..(e - 1) PROVE g[i][2] = S + i - 2
    OBVIOUS
  <2>1. Follows(i)
    BY <1>2, <1>5, <1>6
  <2> QED BY <2>1
<1> HIDE DEF T, Follows, Stops
<1>12. Replayed(g) = {g[i][2] : i \in 2..(e - 1)}
  BY <1>9, <1>10
<1>13. Replayed(g) = S..(S + e - 3)
  <2>1. \A x \in Replayed(g) : x \in S..(S + e - 3)
    BY <1>2, <1>5, <1>11, <1>12
  <2>2. \A x \in S..(S + e - 3) : x \in Replayed(g)
    <3> SUFFICES ASSUME NEW x \in S..(S + e - 3) PROVE x \in Replayed(g)
      OBVIOUS
    <3>1. x - S + 2 \in 2..(e - 1) /\ S + (x - S + 2) - 2 = x
      BY <1>2, <1>5
    <3>2. g[x - S + 2][2] = x
      BY <1>11, <3>1
    <3> QED BY <1>12, <3>1, <3>2
  <2> QED BY <2>1, <2>2
<1> QED BY <1>1, <1>2, <1>5, <1>7, <1>13

\* A live chain, the head of the WAL, is replayed whole.
LEMMA LiveHolds ==
  ASSUME NEW g \in Seq(Cell), NEW w \in Seq(Cell), NEW n \in Nat, NEW k \in Int,
         IsWal(w, n), HeadOf(g, w), Pure(g, w), Opens(g, k, n)
  PROVE  /\ Salt(w) + Len(g) - 2 \in Nat
         /\ Holds(g, Salt(w) + Len(g) - 2)
<1>1. /\ Len(g) \in Nat /\ Len(w) \in Nat /\ Salt(w) \in Nat /\ g # <<>>
      /\ Len(g) <= Len(w) /\ (\A i \in 1..Len(g) : g[i] = w[i])
      /\ \A i \in 1..Len(g) : g[i][1] = Salt(w)
  BY SaltOf DEF HeadOf, Pure
<1>2. PICK m \in k..n : Holds(g, m)
  BY DEF Opens
<1>3. /\ g[1][2] = 0 /\ g[1][1] \in 1..m /\ m - g[1][1] + 2 <= Len(g) /\ m \in Int
      /\ 1 \in 1..Len(g)
  BY <1>1, <1>2, SaltOf DEF Holds
<1>4. g[1][1] = Salt(w) /\ Len(g) >= 2 /\ w # <<>>
  BY <1>1, <1>3, SaltOf
<1>5. /\ Salt(w) \in 1..n
      /\ \A i \in 2..Valids(w, n) : w[i] = <<Salt(w), Salt(w) + i - 2>>
      /\ \A i \in (Valids(w, n) + 1)..Len(w) : w[i][1] \in 1..(Salt(w) - 1)
  BY <1>4 DEF IsWal
<1>6. Valids(w, n) = n - Salt(w) + 2
  BY DEF Valids
<1>7. Len(g) <= Valids(w, n)
  <2> SUFFICES ASSUME Len(g) > Valids(w, n) PROVE FALSE
    BY <1>1, <1>5, <1>6
  <2>1. Len(g) \in (Valids(w, n) + 1)..Len(w) /\ Len(g) \in 1..Len(g)
    BY <1>1, <1>4, <1>5, <1>6
  <2>2. g[Len(g)][1] = Salt(w) /\ g[Len(g)][1] \in 1..(Salt(w) - 1)
    BY <1>1, <1>5, <2>1
  <2> QED BY <1>1, <2>2
<1>8. \A i \in 2..Len(g) : g[i] = <<Salt(w), Salt(w) + i - 2>>
  <2> SUFFICES ASSUME NEW i \in 2..Len(g) PROVE g[i] = <<Salt(w), Salt(w) + i - 2>>
    OBVIOUS
  <2>1. i \in 2..Valids(w, n) /\ i \in 1..Len(g)
    BY <1>1, <1>5, <1>6, <1>7
  <2> QED BY <1>1, <1>5, <2>1
<1>9. (Salt(w) + Len(g) - 2) - Salt(w) + 2 = Len(g)
  BY <1>1
<1>10. Salt(w) + Len(g) - 2 \in Nat /\ Salt(w) \in 1..(Salt(w) + Len(g) - 2)
  BY <1>1, <1>4, <1>5
<1> QED BY <1>1, <1>3, <1>4, <1>8, <1>9, <1>10 DEF Holds

\* What a restore of a chain with segments yields.
LEMMA ChainOpens ==
  ASSUME Inv, ChainInv, HydratedWal(state) # <<>>
  PROVE  \E m \in Nat : m >= state.snap /\ Holds(HydratedWal(state), m)
<1>1. state.wal # <<>>
  BY HydratedEmpty
<1>2. /\ state \in States /\ last \in Nat /\ state.snap \in Int
      /\ HydratedWal(state) \in Seq(Cell)
  BY HydratedType, SnapType DEF Inv, TypeInv, BucketType, WorkspaceType
<1>3. PICK m \in state.snap..last : Holds(HydratedWal(state), m)
  BY <1>1 DEF ChainInv, Chained, Opens
<1>4. HydratedWal(state)[1][1] \in 1..m /\ m \in Int
  BY <1>2, <1>3 DEF Holds
<1> QED BY <1>2, <1>3, <1>4

\* Whatever the application does, and however often SQLite restarts its WAL, a
\* database restored from the committed chain is one the source once had, and not
\* older than its snapshot - when no pass was cut short between a commit and the
\* save that records it, and the chain's first frame follows its snapshot.
THEOREM RestoresAreStates ==
  ASSUME CrashPoints \cap Lagging = {}
  PROVE  RSpec => []RestoreConsistent
<1>1. Inv /\ ChainInv => RestoreConsistent
  <2> SUFFICES ASSUME Inv, ChainInv, state.gen # 0, Attached(state)
               PROVE  NoGap(Restored(state)) /\ ReachesSnapshot(state)
    BY DEF RestoreConsistent
  <2>1. state.snap \in Int /\ state \in States
    BY SnapType DEF Inv, TypeInv, BucketType
  <2>2. ASSUME NEW m \in Nat PROVE Cardinality(1..m) = m
    BY FS_Interval
  <2>3. \E m \in Nat : 1..state.snap = 1..m
    <3>1. state.snap \in Nat \/ 1..state.snap = 1..0
      BY <2>1
    <3> QED BY <3>1
  <2>4. CASE HydratedWal(state) = <<>>
    <3>1. Restored(state) = 1..state.snap
      BY <2>4 DEF Restored, Replayed
    <3> QED BY <2>2, <2>3, <2>4, <3>1 DEF NoGap, ReachesSnapshot
  <2>5. CASE HydratedWal(state) # <<>>
    <3> DEFINE g == HydratedWal(state)
    <3>1. g \in Seq(Cell) /\ Salt(g) = g[1][1]
      BY <2>1, <2>5, HydratedType, SaltOf
    <3>2. PICK m \in Nat : m >= state.snap /\ Holds(g, m)
      BY <2>5, ChainOpens
    <3>3. PICK n \in Nat : n >= m /\ Replayed(g) = g[1][1]..n
      BY <3>1, <3>2, ReplayOf
    <3>4. g[1][1] \in 1..m /\ g[1][1] <= state.snap + 1
      BY <2>5, <3>1, <3>2 DEF Holds, Attached
    <3>5. Restored(state) = (1..state.snap) \cup (g[1][1]..n)
      BY <3>3 DEF Restored
    <3> HIDE DEF g
    <3>6. Restored(state) = 1..n
      BY <2>1, <3>2, <3>3, <3>4, <3>5
    <3>7. n \in Replayed(g) /\ n >= state.snap
      BY <2>1, <3>2, <3>3, <3>4
    <3> QED BY <2>2, <3>6, <3>7 DEF NoGap, ReachesSnapshot, g
  <2> QED BY <2>4, <2>5
<1> QED BY <1>1, ChainInvariant, PTL

\* ... and as long as the WAL has not been restarted since the generation's first
\* segment, what was committed when a pass that returned success (and deferred
\* nothing) began is restored.
THEOREM ShippedIsRestorable ==
  ASSUME CrashPoints \cap Lagging = {}
  PROVE  RSpec => []ShipCoversWrites
<1>1. Inv /\ ChainInv => ShipCoversWrites
  <2> SUFFICES ASSUME Inv, ChainInv, state.wal # <<>>, Attached(state), OneIncarnation,
                      NEW k \in 1..reported
               PROVE  k \in Restored(state)
    BY DEF ShipCoversWrites
  <2> DEFINE g == HydratedWal(state)
  <2>1. /\ state \in States /\ state.snap \in Int /\ last \in Nat /\ wal \in Seq(Cell)
        /\ IsWal(wal, last) /\ g \in Seq(Cell)
    BY SnapType, HydratedType DEF Inv, TypeInv, BucketType, WorkspaceType, ChainInv, WalInv
  <2>2. Opens(g, state.snap, last) /\ (Pure(g, wal) => HeadOf(g, wal)) /\ g # <<>>
    BY DEF ChainInv, Chained, Opens, Holds
  <2>3. Pure(g, wal) /\ Live(state, wal)
    BY <2>2 DEF OneIncarnation, Pure, Live
  <2>4. reported <= Salt(wal) + Len(g) - 2 /\ reported \in 0..last
    BY <2>3 DEF ChainInv, Kept, Covers, Bounds
  <2>5. Salt(wal) + Len(g) - 2 \in Nat /\ Holds(g, Salt(wal) + Len(g) - 2)
    BY <2>1, <2>2, <2>3, LiveHolds
  <2>6. PICK n \in Nat : n >= Salt(wal) + Len(g) - 2 /\ Replayed(g) = g[1][1]..n
    BY <2>1, <2>5, ReplayOf
  <2>7. g[1][1] <= state.snap + 1 /\ g[1][1] \in Nat
    BY <2>1, <2>2, <2>5, SaltOf DEF Attached, Holds
  <2>8. Restored(state) = (1..state.snap) \cup (g[1][1]..n)
    BY <2>6 DEF Restored
  <2> HIDE DEF g
  <2>9. k \in Nat /\ 1 <= k /\ k <= n
    BY <2>1, <2>4, <2>5, <2>6
  <2> QED BY <2>1, <2>6, <2>7, <2>8, <2>9
<1> QED BY <1>1, ChainInvariant, PTL
=============================================================================
