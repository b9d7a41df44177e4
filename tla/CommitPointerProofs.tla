------------------------ MODULE CommitPointerProofs ------------------------
(***************************************************************************)
(* What CommitPointer promises, whatever its constants: Restorable is an   *)
(* invariant.  The strengthening says that the pointer counts: an absent   *)
(* record is not the length of a generation.                               *)
(***************************************************************************)
EXTENDS CommitPointer, TLAPS

PointerInv == gen \in Nat /\ len \in Nat /\ Restorable

\* At first nothing is committed and nothing is retained.
LEMMA PointerInit ==
  ASSUME Retain \in Nat, Init
  PROVE  PointerInv
  BY DEF Init, PointerInv, Restorable, Retained, Gens

\* Uploads, overwrites and deletions keep what the pointer needs.
LEMMA StoreKeeps ==
  ASSUME PointerInv, Store
  PROVE  PointerInv'
<1>1. gen' = gen /\ len' = len /\ Retained' = Retained
  BY DEF Store, pointer, Retained
<1>2. gen # 0 => Present(gen, len)'
  BY <1>1 DEF PointerInv, Restorable, Store, Kept, Present
<1>3. ASSUME NEW g \in Retained
      PROVE  meta'[g] # Absent /\ Present(g, meta[g])'
  <2>1. /\ meta[g] # Absent /\ Present(g, meta[g])
        /\ Kept(g, meta[g]) /\ meta'[g] = meta[g]
    BY DEF PointerInv, Restorable, Store
  <2> QED BY <2>1 DEF Kept, Present
<1> QED BY <1>1, <1>2, <1>3 DEF PointerInv, Restorable

\* The first generation is published complete.
LEMMA PublishKeeps ==
  ASSUME PointerInv, Publish, Retain \in Nat
  PROVE  PointerInv'
<1>1. gen' = 1 /\ len' = 0 /\ UNCHANGED <<snap, seg, meta>> /\ Present(1, 0)
  BY DEF Publish, objects
<1>2. Retained' = {}
  BY <1>1 DEF Retained, Gens
<1> QED BY <1>1, <1>2 DEF PointerInv, Restorable, Present

\* One segment more, which is there.
LEMMA ExtendKeeps ==
  ASSUME PointerInv, Extend
  PROVE  PointerInv'
<1>1. /\ gen' = gen /\ len' = len + 1 /\ UNCHANGED <<snap, seg, meta>>
      /\ gen # 0 /\ seg[gen][len + 1] # <<>> /\ len \in Nat
  BY DEF Extend, objects, PointerInv
<1>2. Retained' = Retained
  BY <1>1 DEF Retained
<1>3. Present(gen, len)'
  <2>1. Present(gen, len)
    BY <1>1 DEF PointerInv, Restorable
  <2>2. \A i \in 1..(len + 1) : i \in 1..len \/ i = len + 1
    BY <1>1
  <2> QED BY <1>1, <2>1, <2>2 DEF Present
<1> QED BY <1>1, <1>2, <1>3 DEF PointerInv, Restorable, Present

\* The generation left behind is retained, and its record says what it was.
LEMMA AdvanceKeeps ==
  ASSUME PointerInv, Advance, Retain \in Nat
  PROVE  PointerInv'
<1>1. /\ gen' = gen + 1 /\ len' = 0 /\ UNCHANGED <<snap, seg, meta>>
      /\ gen # 0 /\ Present(gen + 1, 0) /\ meta[gen] = len /\ gen \in Nat /\ len \in Nat
  BY DEF Advance, objects, PointerInv
<1>2. ASSUME NEW g \in Retained'
      PROVE  meta[g] # Absent /\ Present(g, meta[g])
  <2>1. g \in Gens /\ g < gen + 1 /\ g > gen + 1 - Retain
    BY <1>1 DEF Retained
  <2>2. CASE g = gen
    BY <1>1, <2>2 DEF PointerInv, Restorable, Absent
  <2>3. CASE g # gen
    <3>1. g \in Retained
      BY <1>1, <2>1, <2>3 DEF Retained, Gens
    <3> QED BY <3>1 DEF PointerInv, Restorable
  <2> QED BY <2>2, <2>3
<1>3. Present(gen, len)'
  BY <1>1 DEF Present
<1> QED BY <1>1, <1>2, <1>3 DEF PointerInv, Restorable, Present

\* The live generation and every retained one can be restored: each object
\* their chains refer to is there, at any time and in any order of uploads,
\* deletions and commits.
THEOREM AlwaysRestorable ==
  ASSUME Retain \in Nat
  PROVE  Spec => []Restorable
<1>1. Init => PointerInv
  BY PointerInit
<1>2. PointerInv /\ [Next]_<<objects, pointer>> => PointerInv'
  <2> SUFFICES ASSUME PointerInv, [Next]_<<objects, pointer>> PROVE PointerInv'
    OBVIOUS
  <2>1. CASE Next
    BY <2>1, StoreKeeps, PublishKeeps, ExtendKeeps, AdvanceKeeps DEF Next
  <2>2. CASE UNCHANGED <<objects, pointer>>
    BY <2>2 DEF objects, pointer, PointerInv, Restorable, Retained, Present
  <2> QED BY <2>1, <2>2
<1>3. PointerInv => Restorable
  BY DEF PointerInv
<1> QED BY <1>1, <1>2, <1>3, PTL DEF Spec

=============================================================================
