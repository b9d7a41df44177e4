--------------------------- MODULE MCCompileQueue ---------------------------
(* Instances of CompileQueue: a source that is only indexed and embedded, one *)
(* that the LLM pipeline compiles.                                            *)
EXTENDS CompileQueue, TLC

CONSTANTS w1, w2, note, paper

AllDrafts == [s \in Sources |-> 0]
AllNotes  == [s \in Sources |-> 1]
AllPapers == [s \in Sources |-> 3]
Mixed     == [s \in Sources |-> IF s = note THEN 1 ELSE 3]
Processes == Permutations({w1, w2})
=============================================================================
