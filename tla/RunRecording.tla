---------------------------- MODULE RunRecording ----------------------------
(***************************************************************************)
(* Recording a run while the same program can replay one.  The CAN worker  *)
(* decodes live frames and, during a replay, the rows of a recorded file   *)
(* through the same processFrame(); every frame is queued to the recorder  *)
(* on the main thread, and so are the changes of the replay state and the  *)
(* goal of a replayed run.  The recorder's run boundaries come from        *)
(* KpiData, which the UI poll fills from the snapshot: replay state first, *)
(* then the KPI values, then the driving state.                            *)
(* The main thread empties its queue before it turns to timers and input;  *)
(* what is queued after that waits for the next round.                     *)
(*                                                                         *)
(* A frame is abstracted to where it comes from, live or replay, a driving *)
(* state to whether it is AUTO, and the frames in a file to what became of *)
(* the last one delivered.  KPI samples and their means, file names and    *)
(* the list of runs are left out.                                          *)
(***************************************************************************)
EXTENDS Integers, Sequences, SequencesExt

CONSTANTS
  MaxQueued,  \* bound: events waiting for the main thread
  MaxFailed   \* bound: attempts to open a run file that fail

ASSUME RecordingAssumption ==
  /\ MaxQueued \in Nat \ {0}
  /\ MaxFailed \in Nat

VARIABLES
  replaying,   \* CanBridge m_replaying and m_latest.replaying
  snap,        \* m_latest: driving state, the origin of its frame, vehicleDirty
  queue,       \* signals queued from the worker to the main thread
  draining,    \* the main thread is in the middle of its queue
  pc,          \* the next statement of uiPoll, "idle" between two polls
  v,           \* the poll's copy of the snapshot
  kpi,         \* KpiData: m_replaying, m_driveState and its origin, m_goalActive
  armed,       \* m_armed
  manual,      \* m_manual
  inRun,       \* m_inRun
  goalWritten, \* m_goalWritten
  goalLines,   \* history: "# goal" lines in the open or last file
  taped,       \* history: what the last frame delivered left in the open file
  unspent,     \* history: m_armed has been raised since a run was opened
  failed       \* history: failed attempts to open a run file

recVars == <<armed, manual, inRun, goalWritten, goalLines, unspent, failed>>
vars == <<replaying, snap, queue, draining, pc, v, kpi, recVars, taped>>

Origin == {"live", "replay"}
Signal == {"liveFrame", "replayFrame", "replayOn", "replayOff", "goalLoaded"}
Drive == [auto: BOOLEAN, origin: Origin, fresh: BOOLEAN]
NoDrive == [auto |-> FALSE, origin |-> "live", fresh |-> FALSE]

TypeOK ==
  /\ replaying \in BOOLEAN
  /\ snap \in Drive
  /\ queue \in Seq(Signal) /\ Len(queue) <= MaxQueued
  /\ draining \in BOOLEAN
  /\ pc \in {"idle", "kpi", "vehicle"}
  /\ v \in [drive: Drive, replaying: BOOLEAN]
  /\ kpi \in [replaying: BOOLEAN, auto: BOOLEAN, origin: Origin, goal: BOOLEAN]
  /\ armed \in BOOLEAN
  /\ manual \in BOOLEAN
  /\ inRun \in BOOLEAN
  /\ goalWritten \in BOOLEAN
  /\ goalLines \in 0..1
  /\ unspent \in BOOLEAN
  /\ failed \in 0..MaxFailed
  /\ taped \in Origin \cup {"nothing"}

Init ==
  /\ replaying = FALSE
  /\ snap = NoDrive
  /\ queue = <<>>
  /\ draining = FALSE
  /\ pc = "idle"
  /\ v = [drive |-> NoDrive, replaying |-> FALSE]
  /\ kpi = [replaying |-> FALSE, auto |-> FALSE, origin |-> "live", goal |-> FALSE]
  /\ armed = FALSE
  /\ manual = FALSE
  /\ inRun = FALSE
  /\ goalWritten = FALSE
  /\ goalLines = 0
  /\ unspent = FALSE
  /\ failed = 0
  /\ taped = "nothing"

-----------------------------------------------------------------------------
(* The CAN worker.                                                          *)

Emit(signals) ==
  /\ Len(queue) + Len(signals) <= MaxQueued
  /\ queue' = queue \o signals

\* processFrame() of a Vehicle_Status frame, from the virtual bus, which a
\* replay pauses, or from a replayed row.
LiveFrame(auto) ==
  /\ ~replaying
  /\ Emit(<<"liveFrame">>)
  /\ snap' = [auto |-> auto, origin |-> "live", fresh |-> TRUE]
  /\ UNCHANGED <<replaying, draining, pc, v, kpi, recVars, taped>>

ReplayFrame(auto) ==
  /\ replaying
  /\ Emit(<<"replayFrame">>)
  /\ snap' = [auto |-> auto, origin |-> "replay", fresh |-> TRUE]
  /\ UNCHANGED <<replaying, draining, pc, v, kpi, recVars, taped>>

\* startReplayImpl() of a file with or without a "# goal" line, and
\* stopReplayImpl(), by the operator or after the last row.
StartReplay ==
  /\ ~replaying
  /\ replaying' = TRUE
  /\ Emit(<<"replayOn">>) \/ Emit(<<"replayOn", "goalLoaded">>)
  /\ UNCHANGED <<snap, draining, pc, v, kpi, recVars, taped>>

StopReplay ==
  /\ replaying
  /\ replaying' = FALSE
  /\ Emit(<<"replayOff">>)
  /\ UNCHANGED <<snap, draining, pc, v, kpi, recVars, taped>>

-----------------------------------------------------------------------------
(* RunRecorder.                                                             *)

\* startRun(): opens a new file, or fails to, in both directories.
StartRun ==
  \/ /\ inRun' = TRUE
     /\ unspent' = FALSE
     /\ goalWritten' = kpi.goal
     /\ goalLines' = IF kpi.goal THEN 1 ELSE 0
     /\ UNCHANGED failed
  \/ /\ failed < MaxFailed
     /\ failed' = failed + 1
     /\ unspent' = (unspent \/ ~armed)
     /\ UNCHANGED <<inRun, goalWritten, goalLines>>

\* Seeded fault: the run ends, the arming stays.
FinalizeRun_StaysArmed ==
  /\ inRun' = FALSE
  /\ manual' = FALSE
  /\ UNCHANGED <<armed, goalWritten, goalLines, unspent, failed>>

\* Seeded fault: the run forgets to leave manual mode.
FinalizeRun_KeepsManual ==
  /\ inRun' = FALSE
  /\ armed' = FALSE
  /\ UNCHANGED <<manual, goalWritten, goalLines, unspent, failed>>

\* finalizeRun().
FinalizeRun ==
  /\ inRun' = FALSE
  /\ armed' = FALSE
  /\ manual' = FALSE
  /\ UNCHANGED <<goalWritten, goalLines, unspent, failed>>

\* Seeded fault: a manual run ends with the AUTO drive.
MustEnd_ManualToo(k) == inRun /\ (k.replaying \/ ~k.auto)

MayStart(k) == armed /\ ~manual /\ ~k.replaying /\ ~inRun /\ k.auto
MustEnd(k) == inRun /\ (k.replaying \/ (~manual /\ ~k.auto))

\* onKpiTick() with KpiData as k.
OnKpiTick(k) ==
  \/ MayStart(k) /\ StartRun /\ UNCHANGED <<armed, manual>>
  \/ MustEnd(k) /\ FinalizeRun
  \/ ~MayStart(k) /\ ~MustEnd(k) /\ UNCHANGED recVars

\* Seeded fault: the goal line is written whenever a goal is set.
OnGoalSet_EveryTime(k) ==
  /\ IF inRun /\ k.goal
     THEN goalWritten' = TRUE /\ goalLines' = goalLines + 1
     ELSE UNCHANGED <<goalWritten, goalLines>>
  /\ armed' = TRUE
  /\ unspent' = (unspent \/ ~armed)
  /\ UNCHANGED <<manual, inRun, failed>>

\* onGoalSet(), the slot of goalChanged: whatever the change was.
OnGoalSet(k) ==
  /\ IF inRun /\ ~goalWritten /\ k.goal
     THEN goalWritten' = TRUE /\ goalLines' = goalLines + 1
     ELSE UNCHANGED <<goalWritten, goalLines>>
  /\ armed' = TRUE
  /\ unspent' = (unspent \/ ~armed)
  /\ UNCHANGED <<manual, inRun, failed>>

\* The main thread turns to a timer or to the operator.
MainFree == pc = "idle" /\ ~draining

\* toggleRecording(), the REC button, between two polls.
ToggleOff ==
  /\ MainFree
  /\ \/ inRun /\ FinalizeRun
     \/ /\ armed /\ ~inRun
        /\ armed' = FALSE
        /\ UNCHANGED <<manual, inRun, goalWritten, goalLines, unspent, failed>>
  /\ UNCHANGED <<replaying, snap, queue, draining, pc, v, kpi, taped>>

ToggleOn ==
  /\ MainFree
  /\ ~inRun /\ ~armed /\ ~kpi.replaying
  /\ manual' = TRUE
  /\ armed' = TRUE
  /\ StartRun
  /\ UNCHANGED <<replaying, snap, queue, draining, pc, v, kpi, taped>>

-----------------------------------------------------------------------------
(* The main thread: queued signals, the operator's goal, the UI poll.       *)

\* KpiData::setGoal() and clearGoal().
ChangeGoal(goal) ==
  /\ kpi' = [kpi EXCEPT !.goal = goal]
  /\ OnGoalSet(kpi')

SetGoal ==
  /\ MainFree
  /\ ChangeGoal(TRUE)
  /\ UNCHANGED <<replaying, snap, queue, draining, pc, v, taped>>

ClearGoal ==
  /\ MainFree
  /\ kpi.goal
  /\ ChangeGoal(FALSE)
  /\ UNCHANGED <<replaying, snap, queue, draining, pc, v, taped>>

Receive(signal) ==
  /\ pc = "idle"
  /\ queue # <<>> /\ Head(queue) = signal
  /\ queue' = Tail(queue)
  /\ draining' = (Tail(queue) # <<>>)
  /\ UNCHANGED <<replaying, snap, pc, v>>


\* RunRecorder::onFrame(): the frame goes into the open file, unless a replay runs
\* as far as KpiData knows.
OnFrame(signal, origin) ==
  /\ Receive(signal)
  /\ taped' = IF ~kpi.replaying /\ inRun THEN origin ELSE "nothing"
  /\ UNCHANGED <<kpi, recVars>>

\* KpiData::setReplaying() by CanBridge::replayingChanged.
OnReplaying(signal, on) ==
  /\ Receive(signal)
  /\ kpi' = [kpi EXCEPT !.replaying = on]
  /\ UNCHANGED <<recVars, taped>>

\* CanBridge::replayGoalLoaded.
OnGoalLoaded == Receive("goalLoaded") /\ ChangeGoal(TRUE) /\ UNCHANGED taped

\* takeLatest() and setReplaying().
PollTake ==
  /\ MainFree
  /\ v' = [drive |-> snap, replaying |-> replaying]
  /\ snap' = [snap EXCEPT !.fresh = FALSE]
  /\ kpi' = [kpi EXCEPT !.replaying = replaying]
  /\ pc' = "kpi"
  /\ UNCHANGED <<replaying, queue, draining, recVars, taped>>

\* applyRealtimeKpi() and the others that may emit kpiChanged before the
\* driving state is applied.
PollKpi ==
  /\ pc = "kpi"
  /\ pc' = "vehicle"
  /\ UNCHANGED recVars \/ OnKpiTick(kpi)
  /\ UNCHANGED <<replaying, snap, queue, draining, v, kpi, taped>>

\* applyVehicleStatus(), if the domain is fresh; kpiChanged if a value changed.
PollVehicle ==
  /\ pc = "vehicle"
  /\ pc' = "idle"
  /\ kpi' = IF v.drive.fresh
            THEN [kpi EXCEPT !.auto = v.drive.auto, !.origin = v.drive.origin]
            ELSE kpi
  /\ \/ kpi'.auto = kpi.auto /\ UNCHANGED recVars
     \/ v.drive.fresh /\ OnKpiTick(kpi')
  /\ v' = [drive |-> NoDrive, replaying |-> FALSE]
  /\ UNCHANGED <<replaying, snap, queue, draining, taped>>

Next ==
  \/ \E auto \in BOOLEAN : LiveFrame(auto)
  \/ \E auto \in BOOLEAN : ReplayFrame(auto)
  \/ StartReplay
  \/ StopReplay
  \/ ToggleOff
  \/ ToggleOn
  \/ SetGoal
  \/ ClearGoal
  \/ OnFrame("liveFrame", "live")
  \/ OnFrame("replayFrame", "replay")
  \/ OnReplaying("replayOn", TRUE)
  \/ OnReplaying("replayOff", FALSE)
  \/ OnGoalLoaded
  \/ PollTake
  \/ PollKpi
  \/ PollVehicle

Spec == Init /\ [][Next]_vars

Drain ==
  \/ OnFrame("liveFrame", "live")
  \/ OnFrame("replayFrame", "replay")
  \/ OnReplaying("replayOn", TRUE)
  \/ OnReplaying("replayOff", FALSE)
  \/ OnGoalLoaded

\* The main thread serves its queue, is fast enough to empty it again and
\* again, and polls; the KPI values it polls keep changing.
Fairness ==
  /\ WF_vars(Drain)
  /\ SF_vars(Drain /\ queue' = <<>>)
  /\ SF_vars(PollTake)
  /\ WF_vars(PollKpi \/ PollVehicle)
  /\ SF_vars(PollKpi /\ OnKpiTick(kpi))

FairSpec == Spec /\ Fairness

-----------------------------------------------------------------------------
\* Recording is one-shot: a run opens only if the recorder has been armed, by
\* a goal or by the REC button, since the last one was opened.
OneRunPerArming == [][~inRun /\ inRun' => unspent \/ ~armed]_vars

\* A manual run is not cut by the end of the AUTO drive: only the REC button,
\* pressed between two polls, or a replay ends it.
ManualRunKept ==
  [][inRun /\ manual /\ ~inRun' => pc = "idle" \/ kpi'.replaying]_vars

\* As long as every file could be opened, an AUTO drive to a goal that meets an
\* armed recorder is recorded: onKpiTick() does not miss it for good.
AutoDriveCaptured ==
  [](([](kpi.goal /\ armed /\ kpi.auto /\ ~kpi.replaying /\ failed = 0)) => <>inRun)

\* A signal is delivered in this step.
Delivered(signal) == queue # <<>> /\ Head(queue) = signal /\ queue' = Tail(queue)


-----------------------------------------------------------------------------
(* What comments of the code say, and the code does not do.                 *)

\* RunRecorder.cpp, above onKpiTick(): recording never starts from a replay,
\* "otherwise playing back a CSV would record a duplicate run (bug)".
NoDuplicateRun == [][~inRun /\ inRun' /\ ~manual' => kpi'.origin = "live"]_vars

=============================================================================
