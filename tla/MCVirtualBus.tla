---------------------------- MODULE MCVirtualBus ----------------------------
(***************************************************************************)
(* Both sides of the virtual bus: where frames come from, and the mission  *)
(* it simulates.  The mission is that of a bus that keeps running, and     *)
(* shares no state with the link: a behaviour exercises one of the two.    *)
(***************************************************************************)
EXTENDS CanLink, DemoMission

VARIABLE part  \* the one exercised: "link" or "mission"

busVars == <<part, vars, demoVars>>

BusInit ==
  /\ part \in {"link", "mission"}
  /\ Init
  /\ DemoInit
  /\ IF part = "link" THEN ui.opt = sel.opt /\ ui.model = sel.model ELSE plugged

BusNext ==
  \/ part = "link" /\ Next /\ UNCHANGED <<part, demoVars>>
  \/ part = "mission" /\ DemoNext /\ UNCHANGED <<part, vars>>

BusSpec ==
  /\ BusInit /\ [][BusNext]_busVars
  /\ \/ part = "link" /\ Fairness
     \/ part = "mission" /\ DemoFairness

=============================================================================
