------------------------------ MODULE MCSafety ------------------------------
(***************************************************************************)
(* The two safety functions, side by side.  They share no state, so that   *)
(* interleaving them would add nothing: a behaviour exercises one, and the *)
(* other rests.                                                            *)
(***************************************************************************)
EXTENDS FailsafeLevel, EmergencyStop

VARIABLE part  \* the one exercised: "failsafe" or "estop"

safetyVars == <<part, vars, estopVars>>

SafetyInit ==
  /\ part \in {"failsafe", "estop"}
  /\ Init
  /\ EStopInit
  /\ part = "failsafe" => ~remote

SafetyNext ==
  \/ part = "failsafe" /\ Next /\ UNCHANGED <<part, estopVars>>
  \/ part = "estop" /\ EStopNext /\ UNCHANGED <<part, vars>>

SafetySpec ==
  /\ SafetyInit /\ [][SafetyNext]_safetyVars
  /\ \/ part = "failsafe" /\ Fairness
     \/ part = "estop" /\ EStopFairness

=============================================================================
