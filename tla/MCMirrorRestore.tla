-------------------------- MODULE MCMirrorRestore --------------------------
(* Instances of MirrorRestore: an application that writes, or writes and       *)
(* closes; passes never cut short, or only before their commits.               *)
EXTENDS MirrorRestore

NoSteps == {}
BeforeCommit == Steps \ Lagging
EvNone == {}
EvClose == {"close"}
=============================================================================
