------------------------------- MODULE MCSurfaces ------------------------------
(* Four components of the serve process that share no state: the API's jobs,   *)
(* its idempotency store, the event bus with its webhooks, and the outputs     *)
(* that queries file.  Each is explored alone, the others resting in their     *)
(* initial states.                                                             *)
EXTENDS ApiJobs, IdemStore, EventBus, TrustOutputs, TLC

VARIABLE machine   \* the component that runs

surfVars == <<apiVars, idemVars, busVars, trustVars, machine>>

SurfInit ==
  /\ machine \in {"jobs", "idem", "bus", "trust"}
  /\ ApiInit /\ IdemInit /\ BusInit /\ TrustInit

JobsRun   == machine = "jobs" /\ ApiNext
             /\ UNCHANGED <<idemVars, busVars, trustVars, machine>>
IdemRuns  == machine = "idem" /\ IdemNext
             /\ UNCHANGED <<apiVars, busVars, trustVars, machine>>
BusRuns   == machine = "bus" /\ BusNext
             /\ UNCHANGED <<apiVars, idemVars, trustVars, machine>>
TrustRuns == machine = "trust" /\ TrustNext
             /\ UNCHANGED <<apiVars, idemVars, busVars, machine>>

SurfNext == JobsRun \/ IdemRuns \/ BusRuns \/ TrustRuns
SurfSpec == SurfInit /\ [][SurfNext]_surfVars

MCSymmetry == Permutations(Submitters)

\* Each component's variables stay in their ranges.
SurfacesTypeOK == ApiTypeOK /\ IdemTypeOK /\ BusTypeOK /\ TrustTypeOK

\* The types, and the compile gate that is argued from them: one compile is active at
\* a time, and one that nobody cancelled never runs beside another.
GateInv == SurfacesTypeOK /\ GateIsExclusive
=============================================================================
