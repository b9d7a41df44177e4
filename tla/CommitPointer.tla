--------------------------- MODULE CommitPointer ---------------------------
(***************************************************************************)
(* What the mirror promises of its bucket, apart from SQLite and from the  *)
(* shipper's bookkeeping: objects are uploaded and deleted at will, one    *)
(* commit pointer says which of them make up the live generation and the   *)
(* retained ones, and                                                      *)
(*   - the pointer moves only to objects that are already there;           *)
(*   - what it needs is never overwritten and never deleted;               *)
(*   - it moves by one segment, or to the next generation once the old     *)
(*     one's record says what it was.                                      *)
(* A snapshot is a number, a segment a sequence, a record the number of    *)
(* segments its generation had.                                            *)
(***************************************************************************)
EXTENDS Integers

CONSTANTS MaxGen, MaxSeg, Retain

VARIABLES
  snap, seg, meta,   \* the objects, by generation (and segment number)
  gen, len           \* the commit pointer: live generation, its segments

objects == <<snap, seg, meta>>
pointer == <<gen, len>>

Absent == -1
Gens == 1..MaxGen
Seqs == 1..MaxSeg

Init ==
  /\ snap = [g \in Gens |-> Absent]
  /\ seg = [g \in Gens |-> [i \in Seqs |-> <<>>]]
  /\ meta = [g \in Gens |-> Absent]
  /\ gen = 0 /\ len = 0

Retained == {g \in Gens : g < gen /\ g > gen - Retain}

Present(g, n) == snap[g] # Absent /\ \A i \in 1..n : seg[g][i] # <<>>

Kept(g, n) ==
  snap'[g] = snap[g] /\ \A i \in 1..n : seg'[g][i] = seg[g][i]

\* Uploads, overwrites and deletions of what the pointer does not need.
Store ==
  /\ gen # 0 => Kept(gen, len)
  /\ \A g \in Retained : Kept(g, meta[g]) /\ meta'[g] = meta[g]
  /\ UNCHANGED pointer

Publish ==
  /\ gen = 0 /\ 1 \in Gens /\ Present(1, 0)
  /\ gen' = 1 /\ len' = 0
  /\ UNCHANGED objects

Extend ==
  /\ gen # 0 /\ len + 1 \in Seqs
  /\ seg[gen][len + 1] # <<>>
  /\ len' = len + 1
  /\ UNCHANGED <<objects, gen>>

Advance ==
  /\ gen # 0 /\ gen + 1 \in Gens
  /\ Present(gen + 1, 0) /\ meta[gen] = len
  /\ gen' = gen + 1 /\ len' = 0
  /\ UNCHANGED objects

Next == Store \/ Publish \/ Extend \/ Advance

Spec == Init /\ [][Next]_<<objects, pointer>>

\* A restore of the live generation, or of a retained one, finds every object
\* it needs.
Restorable ==
  /\ gen # 0 => Present(gen, len)
  /\ \A g \in Retained : meta[g] # Absent /\ Present(g, meta[g])
=============================================================================
