----------------------------- MODULE DemoMission -----------------------------
(***************************************************************************)
(* The simulated mission of the virtual bus.  Buttons of the GUI thread    *)
(* change KpiData at once and post a command to the CAN worker; the worker *)
(* keeps its own goal, driving state and selection, drives towards the     *)
(* goal in 20 ms ticks and reports state and selection with Vehicle_Status *)
(* frames of its own, which the poll applies to KpiData.  (Names that      *)
(* CanLink has too carry the prefix Demo: MCVirtualBus checks the two      *)
(* together.)                                                              *)
(***************************************************************************)
EXTENDS Integers, Sequences

CONSTANTS
  MaxDist,   \* bound: ticks a drive takes
  MaxGoals,  \* bound: goals sent
  MaxPicks,  \* bound: clicks on the precision and model buttons
  MaxQueue   \* bound: commands posted and not yet served

ASSUME DemoAssumption ==
  MaxDist \in Nat /\ MaxGoals \in Nat /\ MaxPicks \in Nat /\ MaxQueue \in Nat \ {0}

VARIABLES
  drive,   \* worker m_vDriveState
  goal,    \* worker m_vGoalValid
  dist,    \* ticks from the simulated car to m_vGoalX, m_vGoalY
  sel,     \* worker m_currentOptMode, m_currentYoloModel
  snap,    \* m_latest, the fields of Vehicle_Status and vehicleDirty
  posted,  \* commands posted to the worker, oldest first
  ui,      \* KpiData and the map panel's pending goal
  goals,   \* bound: goals sent so far
  picks    \* bound: selections so far

missionVars == <<drive, goal, dist>>
demoVars == <<missionVars, sel, snap, posted, ui, goals, picks>>

Opt == {"FP32", "FP16", "INT8"}
Model == {"YOLO26s", "YOLO26n"}
Selection == [opt: Opt, model: Model]

Command == [kind: {"goal"}, dist: 0..MaxDist] \cup [kind: {"cancel"}]
             \cup [kind: {"precision"}, opt: Opt] \cup [kind: {"model"}, model: Model]

DemoTypeOK ==
  /\ drive \in {"IDLE", "AUTO"}
  /\ goal \in BOOLEAN
  /\ dist \in 0..MaxDist
  /\ sel \in Selection
  /\ snap \in [drive: {"none", "IDLE", "AUTO"}, sel: Selection, dirty: BOOLEAN]
  /\ posted \in Seq(Command)
  /\ ui \in [drive: {"none", "IDLE", "AUTO"}, goalActive: BOOLEAN, pending: BOOLEAN,
             opt: Opt, model: Model, chosen: BOOLEAN]
  /\ goals \in 0..MaxGoals
  /\ picks \in 0..MaxPicks

\* The dashboard starts with the selection of config.json, the worker with its
\* own.  (chosen, history: the operator has clicked a precision button.)
DemoInit ==
  /\ drive = "IDLE" /\ goal = FALSE /\ dist = 0
  /\ sel = [opt |-> "INT8", model |-> "YOLO26s"]
  /\ snap = [drive |-> "none", sel |-> sel, dirty |-> FALSE]
  /\ posted = <<>>
  /\ \E s \in Selection :
       ui = [drive |-> "none", goalActive |-> FALSE, pending |-> FALSE,
             opt |-> s.opt, model |-> s.model, chosen |-> FALSE]
  /\ goals = 0 /\ picks = 0

-----------------------------------------------------------------------------
(* The GUI thread.                                                          *)

PostCommand(c) == Len(posted) < MaxQueue /\ posted' = Append(posted, c)

\* A click on the map: goalUnlocked, no driving state known or IDLE shown.
PickGoal ==
  /\ ui.drive \in {"none", "IDLE"} /\ ~ui.pending /\ goals < MaxGoals
  /\ ui' = [ui EXCEPT !.pending = TRUE]
  /\ UNCHANGED <<missionVars, sel, snap, posted, goals, picks>>

\* "Send goal": the lock was looked at when the goal was picked, not now.
SendGoal(d) ==
  /\ ui.pending /\ goals < MaxGoals
  /\ ui' = [ui EXCEPT !.pending = FALSE, !.goalActive = TRUE]
  /\ PostCommand([kind |-> "goal", dist |-> d])
  /\ goals' = goals + 1
  /\ UNCHANGED <<missionVars, sel, snap, picks>>

\* "Clear goal": a goal that was sent is cancelled on the vehicle, one that was
\* only picked is forgotten.
CancelGoal ==
  /\ ui.goalActive \/ ui.pending
  /\ ui' = [ui EXCEPT !.pending = FALSE, !.goalActive = FALSE]
  /\ IF ui.goalActive THEN PostCommand([kind |-> "cancel"]) ELSE UNCHANGED posted
  /\ UNCHANGED <<missionVars, sel, snap, goals, picks>>

\* The precision and model buttons.
SetPrecision(o) ==
  /\ picks < MaxPicks /\ picks' = picks + 1
  /\ ui' = [ui EXCEPT !.opt = o, !.chosen = TRUE]
  /\ PostCommand([kind |-> "precision", opt |-> o])
  /\ UNCHANGED <<missionVars, sel, snap, goals>>

SetModel(m) ==
  /\ picks < MaxPicks /\ picks' = picks + 1
  /\ ui' = [ui EXCEPT !.model = m]
  /\ PostCommand([kind |-> "model", model |-> m])
  /\ UNCHANGED <<missionVars, sel, snap, goals>>

\* Seeded fault: the precision of the echo is applied like the model.
ApplyVehicleStatus_AllOfIt ==
  ui' = [ui EXCEPT !.drive = snap.drive, !.model = snap.sel.model, !.opt = snap.sel.opt]

ApplyVehicleStatus == ui' = [ui EXCEPT !.drive = snap.drive, !.model = snap.sel.model]

\* uiPoll, standalone: takeLatest() and apply.
Poll ==
  /\ snap.dirty
  /\ ApplyVehicleStatus
  /\ snap' = [snap EXCEPT !.dirty = FALSE]
  /\ UNCHANGED <<missionVars, sel, posted, goals, picks>>

-----------------------------------------------------------------------------
(* The worker.                                                              *)

\* Seeded fault: a cancel forgets the goal and lets the car drive.
AbortMission_GoalOnly == goal' = FALSE /\ UNCHANGED <<drive, dist>>

\* No device took the frame: the simulation serves it itself.
StartMission(d) == goal' = TRUE /\ drive' = "AUTO" /\ dist' = d

AbortMission == goal' = FALSE /\ drive' = "IDLE" /\ UNCHANGED dist

\* The oldest posted command: sendGoalPoseImpl(), sendCancelGoalImpl() and
\* sendUiCommandImpl() on the virtual bus.
ServeCommand ==
  /\ posted # <<>>
  /\ LET c == Head(posted) IN
       \/ c.kind = "goal" /\ StartMission(c.dist) /\ UNCHANGED sel
       \/ c.kind = "cancel" /\ AbortMission /\ UNCHANGED sel
       \/ c.kind = "precision" /\ sel' = [sel EXCEPT !.opt = c.opt]
                               /\ UNCHANGED missionVars
       \/ c.kind = "model" /\ sel' = [sel EXCEPT !.model = c.model]
                           /\ UNCHANGED missionVars
  /\ posted' = Tail(posted)
  /\ UNCHANGED <<snap, ui, goals, picks>>

\* Seeded fault: a mode the echo cannot name is taken over as it is.
Echoed_AnyMode(s) == [s EXCEPT !.model = IF s.opt = "INT8" THEN s.model ELSE "LiDAR"]

\* The Yolo_Mode byte, encoded and decoded again: it has no code for YOLO26n
\* but with INT8.
Echoed(s) ==
  [s EXCEPT !.model = IF s.opt = "INT8" THEN s.model ELSE "YOLO26s"]

\* Seeded fault: the car passes the goal and drives on.
Arrive_DrivesOn == UNCHANGED missionVars

Arrive == drive' = "IDLE" /\ goal' = FALSE /\ UNCHANGED dist

Advance == dist' = dist - 1 /\ UNCHANGED <<drive, goal>>

\* virtualTick20(): a step towards the goal, then Vehicle_Status is built,
\* decoded, and the echo becomes the worker's own selection.  (In AUTO the car
\* never stands still: its speed is adjusted before the step.)
Tick20 ==
  /\ \/ drive = "AUTO" /\ goal /\ dist = 0 /\ Arrive
     \/ drive = "AUTO" /\ goal /\ dist > 0 /\ Advance
     \/ ~(drive = "AUTO" /\ goal) /\ UNCHANGED missionVars
  /\ sel' = Echoed(sel)
  /\ snap' = [drive |-> drive', sel |-> sel', dirty |-> TRUE]
  /\ UNCHANGED <<posted, ui, goals, picks>>

Operator ==
  \/ PickGoal
  \/ \E d \in 0..MaxDist : SendGoal(d)
  \/ CancelGoal
  \/ \E o \in Opt : SetPrecision(o)
  \/ \E m \in Model : SetModel(m)

DemoNext == Operator \/ Poll \/ ServeCommand \/ Tick20

\* The timers of both threads keep firing and the worker serves its queue; the
\* operator need not do anything.
DemoFairness ==
  WF_demoVars(Poll) /\ WF_demoVars(ServeCommand) /\ WF_demoVars(Tick20)

DemoSpec == DemoInit /\ [][DemoNext]_demoVars /\ DemoFairness

-----------------------------------------------------------------------------
Waiting(kinds) == \E i \in 1..Len(posted) : posted[i].kind \in kinds

\* The car does not drive without a goal on the map: as soon as the commands
\* posted are served, in whatever order the operator gave them (sendCancelGoalImpl:
\* "drop the goal and return to IDLE").
CancelledStops ==
  ~ui.goalActive /\ ~Waiting({"goal", "cancel"}) => drive = "IDLE"

\* The goal lock of a mission is released again: by arrival or by a cancel the
\* screen returns to IDLE (virtualTick20: "so a goal behind the car is reached
\* and the lock releases").
LockReleases == ui.drive = "AUTO" ~> ui.drive = "IDLE"

\* The precision the operator chose last is the one in use once the command is
\* served, and no echo, new or old, resets the button (applyVehicleStatus).
PrecisionKept ==
  ui.chosen /\ ~Waiting({"precision"}) => ui.opt = sel.opt

=============================================================================
