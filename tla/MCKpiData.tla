----------------------------- MODULE MCKpiData ------------------------------
(***************************************************************************)
(* What KpiData makes of a drive and of the sensors.  The two share no     *)
(* state: a behaviour exercises one of them.                               *)
(***************************************************************************)
EXTENDS MCDriveState, MCSensorHealth

VARIABLE part  \* the one exercised: "drive" or "sensors"

kpiVars == <<part, vars, sensorVars>>

KpiInit ==
  /\ part \in {"drive", "sensors"}
  /\ Init
  /\ SensorInit
  /\ part = "sensors" => ~client

\* Bound: a report that would only say again what it said is sent once.
SentOnce == dirty' \cap reported \cap {"behavior", "planning", "perception"} \subseteq dirty

\* Bound: on a client, which counts missions alone, three changes of state do.
FewChanges == client => changes' <= 3

\* Bound: of the modes the vehicle knows it names two.
TwoModes == located' => locMode' # "INIT"

KpiNext ==
  \/ part = "drive" /\ Next /\ SentOnce /\ FewChanges /\ UNCHANGED <<part, sensorVars>>
  \/ part = "sensors" /\ SensorNext /\ TwoModes /\ UNCHANGED <<part, vars>>

KpiSpec == KpiInit /\ [][KpiNext]_kpiVars

=============================================================================
