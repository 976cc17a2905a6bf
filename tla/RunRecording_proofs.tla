------------------------- MODULE RunRecording_proofs -------------------------
(***************************************************************************)
(* Proofs about recording: type correctness, which says that a file has at *)
(* most one goal line, that a run opens once per arming, and that a manual *)
(* run is kept, for every length of the main thread's queue and number of  *)
(* files that cannot be opened.                                            *)
(***************************************************************************)
EXTENDS RunRecording, SequenceTheorems, TLAPS

\* A run that has not written its goal has no goal line.
GoalLineInv == inRun /\ ~goalWritten => goalLines = 0

\* Between two runs an armed recorder has been armed since the last one was
\* opened: finalizeRun() has disarmed it.
ArmingInv == armed /\ ~inRun => unspent

RecInv == GoalLineInv /\ ArmingInv

\* The types of the recorder's own variables.
RecTypeOK ==
  /\ armed \in BOOLEAN /\ manual \in BOOLEAN /\ inRun \in BOOLEAN
  /\ goalWritten \in BOOLEAN /\ unspent \in BOOLEAN
  /\ goalLines \in 0..1
  /\ failed \in 0..MaxFailed

-----------------------------------------------------------------------------
(* The recorder.                                                            *)

\* startRun() called by an armed recorder, or by toggleRecording().
LEMMA StartRunKeeps ==
  ASSUME RecTypeOK, RecInv, kpi.goal \in BOOLEAN, ~inRun, armed' = TRUE, manual' \in BOOLEAN,
         StartRun
  PROVE  RecTypeOK' /\ RecInv'
<1>1. CASE inRun' = TRUE /\ unspent' = FALSE /\ goalWritten' = kpi.goal /\ UNCHANGED failed
           /\ goalLines' = IF kpi.goal THEN 1 ELSE 0
  <2>1. goalLines' \in 0..1 /\ (~goalWritten' => goalLines' = 0)
    BY <1>1
  <2>2. failed' \in 0..MaxFailed
    BY <1>1 DEF RecTypeOK
  <2>3. goalWritten' \in BOOLEAN /\ unspent' \in BOOLEAN /\ inRun' \in BOOLEAN
    BY <1>1
  <2>. QED
    BY <1>1, <2>1, <2>2, <2>3 DEF RecTypeOK, RecInv, GoalLineInv, ArmingInv
<1>2. CASE /\ failed < MaxFailed /\ failed' = failed + 1
           /\ unspent' = (unspent \/ ~armed)
           /\ UNCHANGED <<inRun, goalWritten, goalLines>>
  <2>1. failed' \in 0..MaxFailed
    BY <1>2, RecordingAssumption DEF RecTypeOK, RecordingAssumption
  <2>2. unspent' = TRUE
    BY <1>2 DEF RecTypeOK, RecInv, ArmingInv
  <2>. QED
    BY <1>2, <2>1, <2>2 DEF RecTypeOK, RecInv, GoalLineInv, ArmingInv
<1>. QED
  BY <1>1, <1>2 DEF StartRun

\* finalizeRun().
LEMMA FinalizeRunKeeps ==
  ASSUME RecTypeOK, RecInv, FinalizeRun
  PROVE  RecTypeOK' /\ RecInv'
  BY DEF FinalizeRun, RecTypeOK, RecInv, GoalLineInv, ArmingInv

\* Leaving the recorder alone.
LEMMA RecorderSame ==
  ASSUME RecTypeOK, RecInv, UNCHANGED recVars
  PROVE  RecTypeOK' /\ RecInv'
  BY DEF recVars, RecTypeOK, RecInv, GoalLineInv, ArmingInv

\* onKpiTick().
LEMMA OnKpiTickKeeps ==
  ASSUME RecTypeOK, RecInv, kpi.goal \in BOOLEAN, NEW k, OnKpiTick(k)
  PROVE  RecTypeOK' /\ RecInv'
<1>1. CASE MayStart(k) /\ StartRun /\ UNCHANGED <<armed, manual>>
  BY <1>1, StartRunKeeps DEF MayStart, RecTypeOK
<1>2. CASE FinalizeRun
  BY <1>2, FinalizeRunKeeps
<1>3. CASE UNCHANGED recVars
  BY <1>3, RecorderSame
<1>. QED
  BY <1>1, <1>2, <1>3 DEF OnKpiTick

\* onGoalSet(): the goal line of the open run is written once.
LEMMA OnGoalSetKeeps ==
  ASSUME RecTypeOK, RecInv, NEW k, OnGoalSet(k)
  PROVE  RecTypeOK' /\ RecInv'
<1>1. /\ goalLines' \in 0..1 /\ goalWritten' \in BOOLEAN
      /\ inRun /\ ~goalWritten' => goalLines' = 0
  <2>1. CASE inRun /\ ~goalWritten /\ k.goal
    BY <2>1 DEF OnGoalSet, RecTypeOK, RecInv, GoalLineInv
  <2>2. CASE ~(inRun /\ ~goalWritten /\ k.goal)
    BY <2>2 DEF OnGoalSet, RecTypeOK, RecInv, GoalLineInv
  <2>. QED
    BY <2>1, <2>2
<1>2. ~inRun => unspent'
  BY DEF OnGoalSet, RecTypeOK, RecInv, ArmingInv
<1>3. armed' \in BOOLEAN /\ unspent' \in BOOLEAN /\ UNCHANGED <<manual, inRun, failed>>
  BY DEF OnGoalSet, RecTypeOK
<1>. QED
  BY <1>1, <1>2, <1>3 DEF RecTypeOK, RecInv, GoalLineInv, ArmingInv

\* The recorder in every step of the program.
LEMMA RecorderStep ==
  ASSUME TypeOK, RecInv, [Next]_vars
  PROVE  RecTypeOK' /\ RecInv'
<1>. USE DEF ChangeGoal
<1>1. RecTypeOK /\ kpi.goal \in BOOLEAN
  BY DEF TypeOK, RecTypeOK
<1>2. CASE \E auto \in BOOLEAN : LiveFrame(auto) \/ ReplayFrame(auto)
  BY <1>1, <1>2, RecorderSame DEF LiveFrame, ReplayFrame
<1>3. CASE StartReplay \/ StopReplay \/ PollTake
           \/ OnFrame("liveFrame", "live") \/ OnFrame("replayFrame", "replay")
  BY <1>1, <1>3, RecorderSame DEF StartReplay, StopReplay, OnFrame, PollTake
<1>4. CASE OnReplaying("replayOn", TRUE) \/ OnReplaying("replayOff", FALSE)
  BY <1>1, <1>4, RecorderSame DEF OnReplaying
<1>5. CASE ToggleOff
  <2>1. CASE FinalizeRun
    BY <1>1, <2>1, FinalizeRunKeeps
  <2>2. CASE /\ armed' = FALSE
             /\ UNCHANGED <<manual, inRun, goalWritten, goalLines, unspent, failed>>
    BY <1>1, <2>2 DEF RecTypeOK, RecInv, GoalLineInv, ArmingInv
  <2>. QED
    BY <1>5, <2>1, <2>2 DEF ToggleOff
<1>6. CASE ToggleOn
  BY <1>1, <1>6, StartRunKeeps DEF ToggleOn
<1>7. CASE SetGoal \/ ClearGoal \/ OnGoalLoaded
  BY <1>1, <1>7, OnGoalSetKeeps DEF SetGoal, ClearGoal, OnGoalLoaded
<1>8. CASE PollKpi \/ PollVehicle
  BY <1>1, <1>8, RecorderSame, OnKpiTickKeeps DEF PollKpi, PollVehicle
<1>9. CASE UNCHANGED vars
  BY <1>1, <1>9, RecorderSame DEF vars
<1>. QED
  BY <1>2, <1>3, <1>4, <1>5, <1>6, <1>7, <1>8, <1>9 DEF Next

-----------------------------------------------------------------------------
(* The types of the worker, the queue and the poll.                         *)

\* The worker's signals fit in the queue.
LEMMA EmitKeeps ==
  ASSUME queue \in Seq(Signal), NEW s \in Seq(Signal), Emit(s)
  PROVE  queue' \in Seq(Signal) /\ Len(queue') <= MaxQueued
  BY ConcatProperties DEF Emit

\* What the worker emits are signals.
LEMMA SignalLists ==
  /\ <<"liveFrame">> \in Seq(Signal) /\ <<"replayFrame">> \in Seq(Signal)
  /\ <<"replayOn">> \in Seq(Signal)
  /\ <<"replayOff">> \in Seq(Signal) /\ <<"replayOn", "goalLoaded">> \in Seq(Signal)
<1>1. "liveFrame" \in Signal /\ "replayFrame" \in Signal /\ "replayOn" \in Signal /\ "replayOff" \in Signal
      /\ "goalLoaded" \in Signal
  BY DEF Signal
<1>. QED
  BY <1>1

\* A delivered signal leaves the queue.
LEMMA ReceiveKeeps ==
  ASSUME TypeOK, NEW signal, Receive(signal)
  PROVE  queue' \in Seq(Signal) /\ Len(queue') <= MaxQueued /\ draining' \in BOOLEAN
<1>1. queue \in Seq(Signal) /\ queue # <<>> /\ Len(queue) <= MaxQueued
  BY DEF TypeOK, Receive
<1>2. queue' \in Seq(Signal) /\ Len(queue') = Len(queue) - 1 /\ Len(queue) \in Nat
  BY <1>1, HeadTailProperties, LenProperties DEF Receive
<1>3. MaxQueued \in Nat
  BY RecordingAssumption DEF RecordingAssumption
<1>. QED
  BY <1>1, <1>2, <1>3 DEF Receive

\* Everything but the recorder keeps its type.
LEMMA RestStep ==
  ASSUME TypeOK, [Next]_vars
  PROVE  /\ replaying' \in BOOLEAN /\ snap' \in Drive
         /\ queue' \in Seq(Signal) /\ Len(queue') <= MaxQueued
         /\ draining' \in BOOLEAN
         /\ pc' \in {"idle", "kpi", "vehicle"}
         /\ v' \in [drive: Drive, replaying: BOOLEAN]
         /\ kpi' \in [replaying: BOOLEAN, auto: BOOLEAN, origin: Origin, goal: BOOLEAN]
<1>. DEFINE KPI == [replaying: BOOLEAN, auto: BOOLEAN, origin: Origin, goal: BOOLEAN]
<1>. DEFINE Poll == [drive: Drive, replaying: BOOLEAN]
<1>1. \A auto \in BOOLEAN : LiveFrame(auto) \/ ReplayFrame(auto) =>
        /\ snap' \in Drive
        /\ queue' \in Seq(Signal) /\ Len(queue') <= MaxQueued
        /\ UNCHANGED <<replaying, draining, pc, v, kpi>>
  <2>. SUFFICES ASSUME NEW auto \in BOOLEAN, LiveFrame(auto) \/ ReplayFrame(auto)
                PROVE  /\ snap' \in Drive
                       /\ queue' \in Seq(Signal) /\ Len(queue') <= MaxQueued
                       /\ UNCHANGED <<replaying, draining, pc, v, kpi>>
    OBVIOUS
  <2>1. snap' \in Drive
    <3>1. snap' = [auto |-> auto, origin |-> "live", fresh |-> TRUE]
          \/ snap' = [auto |-> auto, origin |-> "replay", fresh |-> TRUE]
      BY DEF LiveFrame, ReplayFrame
    <3>2. "live" \in Origin /\ "replay" \in Origin
      BY DEF Origin
    <3>3. CASE snap' = [auto |-> auto, origin |-> "live", fresh |-> TRUE]
      BY <3>2, <3>3 DEF Drive
    <3>4. CASE snap' = [auto |-> auto, origin |-> "replay", fresh |-> TRUE]
      BY <3>2, <3>4 DEF Drive
    <3>. QED
      BY <3>1, <3>3, <3>4
  <2>2. /\ Emit(<<"liveFrame">>) \/ Emit(<<"replayFrame">>)
        /\ UNCHANGED <<replaying, draining, pc, v, kpi>>
    BY DEF LiveFrame, ReplayFrame
  <2>3. queue' \in Seq(Signal) /\ Len(queue') <= MaxQueued
    BY <2>2, SignalLists, EmitKeeps DEF TypeOK
  <2>. QED
    BY <2>1, <2>2, <2>3
<1>2. StartReplay \/ StopReplay =>
        /\ replaying' \in BOOLEAN
        /\ queue' \in Seq(Signal) /\ Len(queue') <= MaxQueued
        /\ UNCHANGED <<snap, draining, pc, v, kpi>>
  BY SignalLists, EmitKeeps DEF TypeOK, StartReplay, StopReplay
<1>3. ToggleOff \/ ToggleOn => UNCHANGED <<replaying, snap, queue, draining, pc, v, kpi>>
  BY DEF ToggleOff, ToggleOn
<1>4. \A goal \in BOOLEAN : ChangeGoal(goal) => kpi' \in KPI
  BY DEF TypeOK, ChangeGoal
<1>5. SetGoal \/ ClearGoal =>
        kpi' \in KPI /\ UNCHANGED <<replaying, snap, queue, draining, pc, v>>
  BY <1>4 DEF SetGoal, ClearGoal
<1>6. \A signal : Receive(signal) =>
        /\ queue' \in Seq(Signal) /\ Len(queue') <= MaxQueued /\ draining' \in BOOLEAN
        /\ UNCHANGED <<replaying, snap, pc, v>>
  BY ReceiveKeeps DEF Receive
<1>7. OnReplaying("replayOn", TRUE) \/ OnReplaying("replayOff", FALSE) => kpi' \in KPI
  BY DEF TypeOK, OnReplaying
<1>8. PollTake =>
        /\ snap' \in Drive /\ v' \in Poll /\ kpi' \in KPI /\ pc' = "kpi"
        /\ UNCHANGED <<replaying, queue, draining>>
  <2>. SUFFICES ASSUME PollTake
                PROVE  /\ snap' \in Drive /\ v' \in Poll /\ kpi' \in KPI /\ pc' = "kpi"
                       /\ UNCHANGED <<replaying, queue, draining>>
    OBVIOUS
  <2>1. snap' \in Drive
    BY DEF TypeOK, PollTake, Drive
  <2>2. v' \in Poll
    BY DEF TypeOK, PollTake
  <2>3. kpi' \in KPI
    BY DEF TypeOK, PollTake
  <2>. QED
    BY <2>1, <2>2, <2>3 DEF PollTake
<1>9. PollKpi => pc' = "vehicle" /\ UNCHANGED <<replaying, snap, queue, draining, v, kpi>>
  BY DEF PollKpi
<1>10. PollVehicle =>
         /\ v' \in Poll /\ kpi' \in KPI /\ pc' = "idle"
         /\ UNCHANGED <<replaying, snap, queue, draining>>
  <2>. SUFFICES ASSUME PollVehicle
                PROVE  /\ v' \in Poll /\ kpi' \in KPI /\ pc' = "idle"
                       /\ UNCHANGED <<replaying, snap, queue, draining>>
    OBVIOUS
  <2>1. NoDrive \in Drive
    BY DEF NoDrive, Drive, Origin
  <2>2. v' \in Poll
    BY <2>1 DEF PollVehicle
  <2>3. v.drive.auto \in BOOLEAN /\ v.drive.origin \in Origin /\ kpi \in KPI
    BY DEF TypeOK, Drive
  <2>4. kpi' \in KPI
    <3>1. CASE kpi' = [kpi EXCEPT !.auto = v.drive.auto, !.origin = v.drive.origin]
      BY <2>3, <3>1
    <3>. QED
      BY <2>3, <3>1 DEF PollVehicle
  <2>. QED
    BY <2>2, <2>4 DEF PollVehicle
<1>11. UNCHANGED vars => UNCHANGED <<replaying, snap, queue, draining, pc, v, kpi>>
  BY DEF vars
<1>. HIDE DEF KPI, Poll
<1>12. /\ replaying \in BOOLEAN /\ snap \in Drive
       /\ queue \in Seq(Signal) /\ Len(queue) <= MaxQueued
       /\ draining \in BOOLEAN
       /\ pc \in {"idle", "kpi", "vehicle"}
       /\ v \in Poll /\ kpi \in KPI
  BY DEF TypeOK, Poll, KPI
<1>13. /\ replaying' \in BOOLEAN /\ snap' \in Drive
       /\ queue' \in Seq(Signal) /\ Len(queue') <= MaxQueued
       /\ draining' \in BOOLEAN
       /\ pc' \in {"idle", "kpi", "vehicle"}
       /\ v' \in Poll /\ kpi' \in KPI
  <2>1. CASE \E auto \in BOOLEAN : LiveFrame(auto) \/ ReplayFrame(auto)
    BY <1>1, <1>12, <2>1
  <2>2. CASE StartReplay \/ StopReplay
    BY <1>2, <1>12, <2>2
  <2>3. CASE ToggleOff \/ ToggleOn \/ PollKpi \/ UNCHANGED vars
    BY <1>3, <1>9, <1>11, <1>12, <2>3
  <2>4. CASE SetGoal \/ ClearGoal
    BY <1>5, <1>12, <2>4
  <2>5. CASE OnFrame("liveFrame", "live") \/ OnFrame("replayFrame", "replay")
    BY <1>6, <1>12, <2>5 DEF OnFrame
  <2>6. CASE OnReplaying("replayOn", TRUE) \/ OnReplaying("replayOff", FALSE)
    BY <1>6, <1>7, <1>12, <2>6 DEF OnReplaying
  <2>7. CASE OnGoalLoaded
    BY <1>4, <1>6, <1>12, <2>7 DEF OnGoalLoaded
  <2>8. CASE PollTake \/ PollVehicle
    BY <1>8, <1>10, <1>12, <2>8
  <2>. QED
    BY <2>1, <2>2, <2>3, <2>4, <2>5, <2>6, <2>7, <2>8 DEF Next
<1>. QED
  BY <1>13 DEF Poll, KPI

\* What onFrame() leaves in the file has an origin.
LEMMA TapedStep ==
  ASSUME TypeOK, [Next]_vars
  PROVE  taped' \in Origin \cup {"nothing"}
<1>1. taped \in Origin \cup {"nothing"} /\ "live" \in Origin /\ "replay" \in Origin
  BY DEF TypeOK, Origin
<1>2. CASE OnFrame("liveFrame", "live") \/ OnFrame("replayFrame", "replay")
  BY <1>1, <1>2 DEF OnFrame
<1>3. CASE \E auto \in BOOLEAN : LiveFrame(auto) \/ ReplayFrame(auto)
  BY <1>1, <1>3 DEF LiveFrame, ReplayFrame
<1>4. CASE StartReplay \/ StopReplay \/ ToggleOff \/ ToggleOn \/ SetGoal \/ ClearGoal
  BY <1>1, <1>4 DEF StartReplay, StopReplay, ToggleOff, ToggleOn, SetGoal, ClearGoal
<1>5. CASE OnReplaying("replayOn", TRUE) \/ OnReplaying("replayOff", FALSE) \/ OnGoalLoaded
  BY <1>1, <1>5 DEF OnReplaying, OnGoalLoaded
<1>6. CASE PollTake \/ PollKpi \/ PollVehicle \/ UNCHANGED vars
  BY <1>1, <1>6 DEF PollTake, PollKpi, PollVehicle, vars
<1>. QED
  BY <1>2, <1>3, <1>4, <1>5, <1>6 DEF Next

-----------------------------------------------------------------------------
(* The theorems.                                                            *)

\* The recorder's invariant holds in every behaviour, with the types.
THEOREM RecInvHolds == Spec => [](TypeOK /\ RecInv)
<1>1. Init => TypeOK /\ RecInv
  <2>1. MaxQueued \in Nat /\ MaxFailed \in Nat
    BY RecordingAssumption DEF RecordingAssumption
  <2>2. Len(<<>>) = 0 /\ <<>> \in Seq(Signal)
    BY EmptySeq
  <2>. SUFFICES ASSUME Init PROVE TypeOK /\ RecInv
    OBVIOUS
  <2>3. "live" \in Origin
    BY DEF Origin
  <2>4. NoDrive \in Drive
    BY <2>3 DEF NoDrive, Drive
  <2>5. /\ v \in [drive: Drive, replaying: BOOLEAN]
        /\ kpi \in [replaying: BOOLEAN, auto: BOOLEAN, origin: Origin, goal: BOOLEAN]
    BY <2>3, <2>4 DEF Init
  <2>6. queue \in Seq(Signal) /\ Len(queue) <= MaxQueued
    BY <2>1, <2>2 DEF Init
  <2>7. goalLines \in 0..1 /\ failed \in 0..MaxFailed
    BY <2>1 DEF Init
  <2>. QED
    BY <2>4, <2>5, <2>6, <2>7 DEF Init, TypeOK, RecInv, GoalLineInv, ArmingInv
<1>2. TypeOK /\ RecInv /\ [Next]_vars => (TypeOK /\ RecInv)'
  BY RecorderStep, RestStep, TapedStep DEF TypeOK, RecTypeOK
<1>. QED
  BY <1>1, <1>2, PTL DEF Spec

\* Every variable keeps its type; in particular onGoalSet() and startRun()
\* together write at most one goal line to a file.
THEOREM TypeCorrect == Spec => []TypeOK
  BY RecInvHolds, PTL

\* A run opens only once per arming.
THEOREM OneShot == Spec => OneRunPerArming
<1>1. TypeOK /\ RecInv /\ [Next]_vars => [~inRun /\ inRun' => unspent \/ ~armed]_vars
  BY DEF TypeOK, RecInv, ArmingInv
<1>. QED
  BY <1>1, RecInvHolds, PTL DEF Spec, OneRunPerArming

\* Whatever ends a run is the REC button, or onKpiTick() of a poll that may
\* end a manual run only in a replay.
THEOREM ManualRunIsKept == Spec => ManualRunKept
<1>1. ASSUME TypeOK, Next, inRun, manual, ~inRun'
      PROVE  pc = "idle" \/ kpi'.replaying
  <2>1. CASE PollKpi
    <3>1. OnKpiTick(kpi) /\ MustEnd(kpi) /\ kpi' = kpi
      BY <1>1, <2>1 DEF PollKpi, OnKpiTick, MayStart, recVars
    <3>. QED
      BY <1>1, <3>1 DEF MustEnd
  <2>2. CASE PollVehicle
    <3>1. OnKpiTick(kpi') /\ MustEnd(kpi')
      BY <1>1, <2>2 DEF PollVehicle, OnKpiTick, MayStart, recVars
    <3>. QED
      BY <1>1, <3>1 DEF MustEnd
  <2>3. CASE ToggleOff \/ ToggleOn \/ SetGoal \/ ClearGoal \/ PollTake
    BY <2>3 DEF ToggleOff, ToggleOn, SetGoal, ClearGoal, PollTake, MainFree
  <2>4. CASE \/ OnFrame("liveFrame", "live") \/ OnFrame("replayFrame", "replay")
             \/ OnReplaying("replayOn", TRUE) \/ OnReplaying("replayOff", FALSE)
             \/ OnGoalLoaded
    BY <2>4 DEF OnFrame, OnReplaying, OnGoalLoaded, Receive
  <2>5. CASE \E auto \in BOOLEAN : LiveFrame(auto) \/ ReplayFrame(auto)
    BY <1>1, <2>5 DEF LiveFrame, ReplayFrame, recVars
  <2>6. CASE StartReplay \/ StopReplay
    BY <1>1, <2>6 DEF StartReplay, StopReplay, recVars
  <2>. QED
    BY <1>1, <2>1, <2>2, <2>3, <2>4, <2>5, <2>6 DEF Next
<1>2. TypeOK /\ [Next]_vars => [inRun /\ manual /\ ~inRun' => pc = "idle" \/ kpi'.replaying]_vars
  BY <1>1
<1>. QED
  BY <1>2, TypeCorrect, PTL DEF Spec, ManualRunKept

=============================================================================
