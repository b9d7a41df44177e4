---------------------------- MODULE MCMirrorShip ----------------------------
(* Instances of MirrorShip: passes cut short anywhere, or only while the     *)
(* local bookkeeping does not lag behind the commits.                        *)
EXTENDS MirrorShip

AllSteps == Steps
BeforeCommit == Steps \ Lagging
AllEvents == {"close", "kill"}
=============================================================================
