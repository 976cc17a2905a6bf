--------------------------- MODULE EmergencyStop ----------------------------
(***************************************************************************)
(* The E-stop request, from the operator's button to the frames the        *)
(* vehicle hears.  The button latches estopEngaged in the QML and calls    *)
(* sendEStop(), a hold resets it and calls clearEStop().  Next to the CAN  *)
(* hardware the call is posted to the CAN worker; from a remote client it  *)
(* is one UDP command datagram that the bridge turns into the same call.   *)
(* The worker sends one UI_Command frame at once and a burst of three more *)
(* from m_estopRepeat; other UI commands use the same frame, with          *)
(* Estop_Command = 0.                                                      *)
(*                                                                         *)
(* A frame is abstracted to Estop_Command: the DBC makes it the sole       *)
(* E-stop signal of a UI_Command, so that the vehicle has nothing else to  *)
(* tell a request (1) from its release (0) by, whatever command the frame  *)
(* carries besides.  The vehicle is only the last value it heard.          *)
(***************************************************************************)
EXTENDS Integers, Sequences, SequencesExt

CONSTANTS
  BusLoss,   \* bound: frames the CAN bus loses per E-stop call served
  MaxPress,  \* bound: operator actions
  MaxQueued  \* bound: calls on their way to the worker

ASSUME EStopAssumption ==
  /\ BusLoss \in Nat
  /\ MaxPress \in Nat
  /\ MaxQueued \in Nat \ {0}

VARIABLES
  remote,    \* the operator sits at a client: its calls are UDP datagrams
  engaged,   \* estopEngaged of the QML: what the operator is shown
  pressed,   \* how many operator actions there have been
  calls,     \* command datagrams under way and calls posted to the worker
  latched,   \* m_estopLatched
  repeat,    \* m_estopRepeat is active
  burst,     \* m_estopBurst
  lost,      \* frames lost since the worker served an E-stop call
  heard,     \* history: the last Estop_Command the vehicle heard
  others     \* history: another command was sent since that E-stop call

workerVars == <<latched, repeat, burst>>
estopVars == <<remote, engaged, pressed, calls, workerVars, lost, heard, others>>

Call == {"sendEStop", "clearEStop", "command"}

BurstLength == 3

EStopTypeOK ==
  /\ remote \in BOOLEAN
  /\ engaged \in BOOLEAN
  /\ pressed \in 0..MaxPress
  /\ calls \in Seq(Call) /\ Len(calls) <= MaxQueued
  /\ latched \in BOOLEAN
  /\ repeat \in BOOLEAN
  /\ burst \in 0..BurstLength
  /\ lost \in 0..BusLoss
  /\ heard \in 0..1
  /\ others \in BOOLEAN

EStopInit ==
  /\ remote \in BOOLEAN
  /\ engaged = FALSE
  /\ pressed = 0
  /\ calls = <<>>
  /\ latched = FALSE
  /\ repeat = FALSE
  /\ burst = 0
  /\ lost = 0
  /\ heard = 0
  /\ others = FALSE

-----------------------------------------------------------------------------
(* The operator.                                                            *)

\* A call leaves the UI: posted to the worker, or sent as one datagram.
Issue(c) ==
  /\ Len(calls) < MaxQueued
  /\ pressed < MaxPress
  /\ pressed' = pressed + 1
  /\ calls' = Append(calls, c)
  /\ UNCHANGED <<remote, workerVars, lost, heard, others>>

\* onClicked and onPressAndHold of the E-STOP button.
Click == ~engaged /\ engaged' = TRUE /\ Issue("sendEStop")

Hold == engaged /\ engaged' = FALSE /\ Issue("clearEStop")

\* Any other button that sends a UI_Command.
PressOther == Issue("command") /\ UNCHANGED engaged

-----------------------------------------------------------------------------
(* The network between client and bridge.                                   *)

LoseCall ==
  /\ remote
  /\ \E i \in DOMAIN calls : calls' = RemoveAt(calls, i)
  /\ UNCHANGED <<remote, engaged, pressed, workerVars, lost, heard, others>>

ReorderCalls ==
  /\ remote
  /\ Len(calls) >= 2
  /\ calls' = Tail(calls) \o <<Head(calls)>>
  /\ UNCHANGED <<remote, engaged, pressed, workerVars, lost, heard, others>>

-----------------------------------------------------------------------------
(* The CAN worker.                                                          *)

\* sendUiCommandImpl(): one frame on the bus, heard or lost.
Send(estop, sofar) ==
  \/ /\ heard' = estop
     /\ lost' = sofar
  \/ /\ sofar < BusLoss
     /\ lost' = sofar + 1
     /\ UNCHANGED heard

Serve(c) ==
  /\ calls # <<>> /\ Head(calls) = c
  /\ calls' = Tail(calls)
  /\ UNCHANGED <<remote, engaged, pressed>>

Estop(flag) == IF flag THEN 1 ELSE 0

\* Seeded fault: a burst that is still running is not started afresh.
StartBurst_KeepsRunning ==
  /\ repeat' = TRUE
  /\ burst' = IF repeat THEN burst ELSE BurstLength

\* Seeded fault: the counter is added to, not set.
StartBurst_Adds ==
  /\ repeat' = TRUE
  /\ burst' = burst + BurstLength

\* A burst starts afresh, also in the middle of another one.
StartBurst ==
  /\ repeat' = TRUE
  /\ burst' = BurstLength

\* The body of sendEStop().
SendEStop ==
  /\ Serve("sendEStop")
  /\ latched' = TRUE
  /\ Send(1, 0)
  /\ others' = FALSE
  /\ StartBurst

\* Seeded fault: the release leaves the latch to the end of the burst.
ClearEStop_LatchStays ==
  /\ Serve("clearEStop")
  /\ UNCHANGED latched
  /\ Send(0, 0)
  /\ others' = FALSE
  /\ StartBurst

\* The body of clearEStop().
ClearEStop ==
  /\ Serve("clearEStop")
  /\ latched' = FALSE
  /\ Send(0, 0)
  /\ others' = FALSE
  /\ StartBurst

\* The body of another command, e.g. setPrecision(): Estop_Command is 0, whether
\* a stop is latched or not.
Command ==
  /\ Serve("command")
  /\ Send(0, lost)
  /\ others' = TRUE
  /\ UNCHANGED workerVars

\* The timeout of m_estopRepeat.
Repeat ==
  /\ repeat
  /\ Send(Estop(latched), lost)
  /\ burst' = burst - 1
  /\ repeat' = (burst > 1)
  /\ UNCHANGED <<remote, engaged, pressed, calls, latched, others>>

EStopNext ==
  \/ Click
  \/ Hold
  \/ PressOther
  \/ LoseCall
  \/ ReorderCalls
  \/ SendEStop
  \/ ClearEStop
  \/ Command
  \/ Repeat

EStopSpec == EStopInit /\ [][EStopNext]_estopVars

\* The worker's event loop serves its calls and its timer.
EStopFairness == WF_estopVars(SendEStop \/ ClearEStop \/ Command) /\ WF_estopVars(Repeat)

EStopFairSpec == EStopSpec /\ EStopFairness

-----------------------------------------------------------------------------
\* Next to the hardware, nothing the worker still sends contradicts the UI once
\* every call has been served: the latch is what the operator sees.
LatchFollowsUi == ~remote /\ calls = <<>> => latched = engaged

\* Next to the hardware, every request and every release on its way to the
\* worker is heard by the vehicle, or withdrawn, if no more frames are lost after
\* it than the burst repeats.
ReachesVehicle ==
  /\ (~remote /\ engaged /\ Contains(calls, "sendEStop")) ~> (heard = 1 \/ ~engaged)
  /\ (~remote /\ ~engaged /\ Contains(calls, "clearEStop")) ~> (heard = 0 \/ engaged)

\* After the last click or hold, also from a client whose datagrams may be lost
\* or overtaken, the burst ends, "NOT a continuous stream" (CanBridge.cpp at
\* m_estopRepeat).  Then a released stop is not requested any more, and a latched
\* one has been heard last, unless another command was sent after it.
VehicleAgrees ==
  <>[](/\ ~repeat
       /\ heard <= Estop(latched)
       /\ ~others => heard = Estop(latched))

-----------------------------------------------------------------------------
(* What comments of the code say, and the code does not do.                 *)

\* KpiDashboardApp.qml, at estopEngaged: an engaged stop "STAYS engaged (the worker
\* keeps re-asserting Estop_Command=1 so the vehicle holds the stop)" until it is
\* reset by a hold.  So next to the hardware the vehicle hears the stop again and
\* again while it is engaged for good, whatever else it is sent.
StopHeld == (~remote /\ <>[]engaged) => []<>(heard = 1)

=============================================================================
