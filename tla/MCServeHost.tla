----------------------------- MODULE MCServeHost -----------------------------
(* Instances of the multi-workspace server: wiki, whose jobs are followed, and *)
(* another workspace that competes with it for the engines that may be open.   *)
EXTENDS ServeHost, TLC

CONSTANTS wiki, other, r1, r2, s1, s2, h1, h2

Interchangeable ==
  Permutations(Requests) \union Permutations(Handles) \union Permutations(Queues)
=============================================================================
