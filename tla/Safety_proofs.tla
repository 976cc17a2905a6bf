---------------------------- MODULE Safety_proofs ----------------------------
(***************************************************************************)
(* Proofs about the two safety functions of the panel.  The displayed      *)
(* fail-safe level, for every dwell and every set of level bytes: type     *)
(* correctness, the two invariants of the stopwatches, and that the level  *)
(* is never lowered before its dwell.  The E-stop request, for every bound *)
(* on presses, queued calls and lost frames: type correctness, and that    *)
(* next to the hardware the latch follows the button.                      *)
(*                                                                         *)
(* The two share no state.                                                 *)
(***************************************************************************)
EXTENDS FailsafeLevel, EmergencyStop, SequenceTheorems, TLAPS

\* The pending level is the one proposed last, and while it is lower than the
\* shown one its stopwatch shows for how long nothing else has been proposed.
DwellMeasuresRun ==
  /\ pending = run.level
  /\ pending < level => pendingAge = run.age

IInv == TypeOK /\ DwellRuns /\ TriggerOnlyFromNormal /\ DwellMeasuresRun

-----------------------------------------------------------------------------
(* The proposal of a level, common to both messages.                        *)

\* Everything a proposal may change keeps its type.
kpiTypeOK ==
  /\ level \in Level
  /\ pending \in Level
  /\ pendingAge \in {NotStarted} \cup 0..Dwell
  /\ trigger \in BOOLEAN
  /\ lastMs \in 0..MaxLatency
  /\ maxMs \in 0..MaxLatency
  /\ run \in [level: Level, age: 0..Dwell]

\* The invariant, apart from the parts a proposal leaves alone.
proposeInv == kpiTypeOK /\ DwellRuns /\ TriggerOnlyFromNormal /\ DwellMeasuresRun

\* A proposal preserves the invariant.
LEMMA ProposeInv ==
  ASSUME NEW l, proposeInv, triggerAge \in 0..MaxLatency, Propose(l)
  PROVE  proposeInv'
<1>. USE FailsafeAssumption DEF proposeInv, kpiTypeOK, Level
<1>1. CASE l \notin Level
  BY <1>1 DEF Propose, KeepLevel, DwellRuns, TriggerOnlyFromNormal, DwellMeasuresRun
<1>2. CASE l \in Level
  <2>1. /\ Reach(l) \/ NewTarget(l) \/ SameTarget(l)
        /\ Note(l)
    BY <1>2 DEF Propose
  <2>2. run' \in [level: Level, age: 0..Dwell] /\ run'.level = l
    BY <1>2, <2>1 DEF Note
  <2>3. CASE Reach(l)
    <3>1. level' = l /\ pending' = l /\ pendingAge' = pendingAge /\ ~(pending' < level')
      BY <1>2, <2>3 DEF Reach, Commit
    <3>2. lastMs' \in 0..MaxLatency /\ maxMs' \in 0..MaxLatency
      BY <2>3 DEF Reach, Commit
    <3>3. trigger' \in BOOLEAN /\ (trigger' => trigger /\ l = level)
      BY <2>3 DEF Reach, Commit
    <3>. QED
      BY <1>2, <2>2, <3>1, <3>2, <3>3 DEF DwellRuns, TriggerOnlyFromNormal, DwellMeasuresRun
  <2>4. CASE NewTarget(l)
    <3>1. run' = [level |-> l, age |-> 0]
      BY <2>1, <2>4 DEF Note, NewTarget, DwellMeasuresRun
    <3>. QED
      BY <1>2, <2>2, <2>4, <3>1
      DEF NewTarget, KeepLevel, DwellRuns, TriggerOnlyFromNormal, DwellMeasuresRun, NotStarted
  <2>5. CASE SameTarget(l)
    <3>1. run' = run
      BY <2>1, <2>5 DEF Note, SameTarget, DwellMeasuresRun
    <3>. QED
      BY <1>2, <2>2, <2>5, <3>1
      DEF SameTarget, Commit, KeepLevel, DwellRuns, TriggerOnlyFromNormal, DwellMeasuresRun
  <2>. QED
    BY <2>1, <2>3, <2>4, <2>5
<1>. QED
  BY <1>1, <1>2

\* A proposal lowers the level only to one that has been proposed alone for a
\* whole dwell.
LEMMA ProposeHeld ==
  ASSUME NEW l, proposeInv, Propose(l), level' < level
  PROVE  run.level = level' /\ run.age = Dwell
<1>. USE FailsafeAssumption DEF proposeInv, kpiTypeOK, Level
<1>1. SameTarget(l) /\ level' = l
  BY DEF Propose, Reach, NewTarget, SameTarget, Commit, KeepLevel
<1>2. pending < level /\ pending = l /\ (pendingAge = NotStarted \/ pendingAge >= Dwell)
  BY <1>1 DEF SameTarget, Commit, KeepLevel
<1>. QED
  BY <1>1, <1>2 DEF DwellRuns, DwellMeasuresRun, NotStarted

-----------------------------------------------------------------------------
(* The invariant is inductive.                                              *)

LEMMA IInvInit == Init => IInv
<1>. SUFFICES ASSUME Init PROVE IInv
  OBVIOUS
<1>. USE FailsafeAssumption DEF Init
<1>1. snap \in SnapRecord /\ v \in CopyRecord
  BY DEF Level, SnapRecord, CopyRecord, NoCopy, NoLevel
<1>2. run \in [level: Level, age: 0..Dwell]
  BY DEF Level
<1>3. triggerAge \in 0..MaxLatency /\ lastMs \in 0..MaxLatency /\ maxMs \in 0..MaxLatency
  OBVIOUS
<1>4. DwellRuns /\ TriggerOnlyFromNormal /\ DwellMeasuresRun
  BY DEF DwellRuns, TriggerOnlyFromNormal, DwellMeasuresRun
<1>. QED
  BY <1>1, <1>2, <1>3, <1>4 DEF IInv, TypeOK, Level

LEMMA IInvStep == IInv /\ [Next]_vars => IInv'
<1>. SUFFICES ASSUME IInv, [Next]_vars PROVE IInv'
  OBVIOUS
<1>. USE FailsafeAssumption
<1>t. TypeOK /\ proposeInv /\ triggerAge \in 0..MaxLatency
  BY DEF IInv, TypeOK, proposeInv, kpiTypeOK
\* An action that leaves KpiData alone preserves everything but the types.
<1>k. ASSUME UNCHANGED kpiVars, truth' \in Level, snap' \in SnapRecord,
             pc' \in {"idle", "kpi", "obstacle", "event"}, v' \in CopyRecord
      PROVE  IInv'
  BY <1>k DEF IInv, TypeOK, kpiVars, DwellRuns, TriggerOnlyFromNormal, DwellMeasuresRun
<1>1. CASE ChangeLevel
  BY <1>1, <1>k, <1>t DEF ChangeLevel, TypeOK
<1>2. ASSUME NEW raw \in RawLevel, DecodeObstacle(raw) PROVE IInv'
  <2>1. snap' \in SnapRecord
    BY <1>2, <1>t DEF DecodeObstacle, Recorded, TypeOK, SnapRecord
  <2>. QED
    BY <1>2, <1>k, <1>t, <2>1 DEF DecodeObstacle, TypeOK
<1>3. ASSUME NEW raw \in RawLevel, DecodeFailsafeEvent(raw) PROVE IInv'
  <2>1. snap' \in SnapRecord
    BY <1>3, <1>t DEF DecodeFailsafeEvent, Recorded, TypeOK, SnapRecord
  <2>. QED
    BY <1>3, <1>k, <1>t, <2>1 DEF DecodeFailsafeEvent, TypeOK
<1>4. CASE DecodeRealtimeKpi
  <2>1. snap' \in SnapRecord
    BY <1>4, <1>t DEF DecodeRealtimeKpi, TypeOK, SnapRecord
  <2>. QED
    BY <1>4, <1>k, <1>t, <2>1 DEF DecodeRealtimeKpi, TypeOK
<1>5. CASE PollTake
  <2>1. snap' \in SnapRecord
    BY <1>5, <1>t DEF PollTake, TypeOK, SnapRecord
  <2>2. v' \in CopyRecord
    BY <1>5, <1>t DEF PollTake, TypeOK, SnapRecord, CopyRecord
  <2>. QED
    BY <1>5, <1>k, <1>t, <2>1, <2>2 DEF PollTake, TypeOK
<1>6. CASE ApplyRealtimeKpi
  <2>1. v' \in CopyRecord
    BY <1>6, <1>t DEF ApplyRealtimeKpi, TypeOK, CopyRecord
  <2>2. triggerAge' \in 0..MaxLatency /\ trigger' \in BOOLEAN
        /\ (trigger' => trigger \/ level = 1)
    <3>1. CASE trigger' = TRUE /\ triggerAge' = 0 /\ level = 1
      BY <3>1
    <3>2. CASE trigger' = trigger /\ triggerAge' = triggerAge
      BY <3>2, <1>t DEF TypeOK
    <3>. QED
      BY <1>6, <3>1, <3>2 DEF ApplyRealtimeKpi
  <2>. QED
    BY <1>6, <2>1, <2>2
    DEF ApplyRealtimeKpi, IInv, TypeOK, DwellRuns, TriggerOnlyFromNormal, DwellMeasuresRun
<1>7. CASE ApplyObstacle
  <2>1. proposeInv'
    BY <1>7, <1>t, ProposeInv DEF ApplyObstacle
  <2>2. v' \in CopyRecord
    BY <1>7, <1>t DEF ApplyObstacle, TypeOK, CopyRecord, NoLevel
  <2>. QED
    BY <1>7, <1>t, <2>1, <2>2 DEF ApplyObstacle, IInv, TypeOK, proposeInv, kpiTypeOK
<1>8. CASE ApplyFailsafeEvent
  <2>1. proposeInv'
    BY <1>8, <1>t, ProposeInv DEF ApplyFailsafeEvent
  <2>2. v' \in CopyRecord
    BY <1>8 DEF ApplyFailsafeEvent, CopyRecord, NoCopy, NoLevel
  <2>. QED
    BY <1>8, <1>t, <2>1, <2>2 DEF ApplyFailsafeEvent, IInv, TypeOK, proposeInv, kpiTypeOK
<1>9. CASE Tick
  <2>1. run' \in [level: Level, age: 0..Dwell] /\ run'.level = run.level
        /\ run'.age = UpTo(run.age, Dwell)
    BY <1>9, <1>t DEF Tick, UpTo, TypeOK
  <2>2. pendingAge' \in {NotStarted} \cup 0..Dwell /\ triggerAge' \in 0..MaxLatency
    BY <1>9, <1>t DEF Tick, UpTo, TypeOK, NotStarted
  <2>3. (pending < level => pendingAge' = run'.age) /\ (pending < level => pendingAge' # NotStarted)
    BY <1>9, <1>t, <2>1 DEF Tick, UpTo, TypeOK, NotStarted, proposeInv, DwellRuns, DwellMeasuresRun
  <2>. QED
    BY <1>9, <1>t, <2>1, <2>2, <2>3
    DEF Tick, IInv, TypeOK, proposeInv, DwellRuns, TriggerOnlyFromNormal, DwellMeasuresRun
<1>10. CASE UNCHANGED vars
  BY <1>10, <1>k, <1>t DEF vars, TypeOK
<1>. QED
  BY <1>1, <1>2, <1>3, <1>4, <1>5, <1>6, <1>7, <1>8, <1>9, <1>10 DEF Next

-----------------------------------------------------------------------------
(* Theorems.                                                                *)

\* The strengthened invariant holds in every behaviour.
THEOREM IInvHolds == Spec => []IInv
BY IInvInit, IInvStep, PTL DEF Spec

\* Every variable keeps its type, so the level shown is one of the four
\* whatever byte a frame carries.
THEOREM FailsafeTypeCorrect == Spec => []TypeOK
<1>1. IInv => TypeOK
  BY DEF IInv
<1>. QED
  BY <1>1, IInvHolds, PTL

\* A pending lower level has its dwell running in every reachable state.
THEOREM DwellIsRunning == Spec => []DwellRuns
<1>1. IInv => DwellRuns
  BY DEF IInv
<1>. QED
  BY <1>1, IInvHolds, PTL

\* The latency stopwatch of applyRealtimeKpi() runs only while level 1 is
\* shown.
THEOREM StopwatchFromNormal == Spec => []TriggerOnlyFromNormal
<1>1. IInv => TriggerOnlyFromNormal
  BY DEF IInv
<1>. QED
  BY <1>1, IInvHolds, PTL

\* The display is never lowered to a level that has not been the only one
\* proposed for a whole dwell.
THEOREM LoweringIsHeld == Spec => HeldBeforeLowering
<1>1. IInv /\ [Next]_vars => [level' < level => run.level = level' /\ run.age = Dwell]_vars
  <2>. SUFFICES ASSUME IInv, Next, level' < level
                PROVE  run.level = level' /\ run.age = Dwell
    OBVIOUS
  <2>1. proposeInv /\ level \in Level
    BY DEF IInv, TypeOK, proposeInv, kpiTypeOK
  <2>2. CASE ApplyObstacle
    BY <2>1, <2>2, ProposeHeld DEF ApplyObstacle
  <2>3. CASE ApplyFailsafeEvent
    BY <2>1, <2>3, ProposeHeld DEF ApplyFailsafeEvent
  <2>4. CASE ~(ApplyObstacle \/ ApplyFailsafeEvent)
    <3>1. level' = level
      BY <2>4 DEF Next, ChangeLevel, DecodeObstacle, DecodeFailsafeEvent, DecodeRealtimeKpi,
                  PollTake, ApplyRealtimeKpi, Tick, kpiVars
    <3>. QED
      BY <2>1, <3>1 DEF Level
  <2>. QED
    BY <2>2, <2>3, <2>4
<1>. QED
  BY <1>1, IInvHolds, PTL DEF Spec, HeldBeforeLowering

-----------------------------------------------------------------------------
(* The E-stop request.                                                      *)

\* The timer of a burst runs while frames are left to send.
BurstInv == repeat <=> burst > 0

\* From call i on there is neither a request nor a release.
OnlyCommands(i) == \A j \in i..Len(calls) : calls[j] = "command"

\* Next to the hardware, the last request or release under way is what the
\* operator sees; with none under way, what the worker has latched is.
LastCallInv ==
  ~remote =>
    /\ OnlyCommands(1) => (latched <=> engaged)
    /\ \A i \in 1..Len(calls) : OnlyCommands(i + 1) =>
         /\ calls[i] = "sendEStop" => engaged
         /\ calls[i] = "clearEStop" => ~engaged

EStopInv == EStopTypeOK /\ BurstInv /\ LastCallInv

\* A call lost or overtaken leaves a queue of calls.
LEMMA LostCall ==
  ASSUME calls \in Seq(Call), NEW i \in DOMAIN calls, calls' = RemoveAt(calls, i)
  PROVE  calls' \in Seq(Call) /\ Len(calls') = Len(calls) - 1
<1>1. Len(calls) \in Nat /\ i \in Int /\ 1 <= i /\ i <= Len(calls) /\ Len(calls) \in Int
  BY LenProperties
<1>2. \A k \in 1..Len(calls) : calls[k] \in Call
  BY ElementOfSeq
<1>3. PICK a, b : a = SubSeq(calls, 1, i - 1) /\ b = SubSeq(calls, i + 1, Len(calls))
  OBVIOUS
<1>4. a \in Seq(Call) /\ Len(a) = i - 1
  <2>1. 1 \in Int /\ i - 1 \in Int /\ \A k \in 1..(i - 1) : calls[k] \in Call
    BY <1>1, <1>2
  <2>2. a \in Seq(Call) /\ Len(a) = IF 1 <= i - 1 THEN i - 1 - 1 + 1 ELSE 0
    BY <1>3, <2>1, SubSeqProperties
  <2>. QED
    BY <1>1, <2>2
<1>5. b \in Seq(Call) /\ Len(b) = Len(calls) - i
  <2>1. i + 1 \in Int /\ \A k \in (i + 1)..Len(calls) : calls[k] \in Call
    BY <1>1, <1>2
  <2>2. b \in Seq(Call)
        /\ Len(b) = IF i + 1 <= Len(calls) THEN Len(calls) - (i + 1) + 1 ELSE 0
    BY <1>1, <1>3, <2>1, SubSeqProperties
  <2>. QED
    BY <1>1, <2>2
<1>6. calls' = a \o b
  BY <1>3 DEF RemoveAt
<1>. QED
  BY <1>1, <1>4, <1>5, <1>6, ConcatProperties

\* What a call that is issued does to the queue.
LEMMA IssueEffect ==
  ASSUME calls \in Seq(Call), NEW c \in Call, Issue(c)
  PROVE  /\ calls' \in Seq(Call) /\ Len(calls) \in Nat
         /\ Len(calls') = Len(calls) + 1
         /\ \A i \in 1..Len(calls) : calls'[i] = calls[i]
         /\ calls'[Len(calls) + 1] = c
  BY AppendProperties, LenProperties DEF Issue

\* What a call that is served does to it.
LEMMA ServeEffect ==
  ASSUME calls \in Seq(Call), NEW c, Serve(c)
  PROVE  /\ calls' \in Seq(Call) /\ Len(calls) \in Nat /\ Len(calls) > 0
         /\ Len(calls') = Len(calls) - 1
         /\ \A i \in 1..Len(calls') : calls'[i] = calls[i + 1]
         /\ calls[1] = c
<1>1. calls # <<>>
  BY DEF Serve
<1>2. /\ Len(calls) \in Nat /\ Len(calls) > 0
      /\ Tail(calls) \in Seq(Call) /\ Len(Tail(calls)) = Len(calls) - 1
      /\ \A i \in 1..(Len(calls) - 1) : Tail(calls)[i] = calls[i + 1]
      /\ Head(calls) = calls[1]
  BY <1>1, HeadTailProperties, LenProperties, EmptySeq
<1>. QED
  BY <1>2 DEF Serve

\* A frame is sent, and heard or lost.
LEMMA SendKeeps ==
  ASSUME EStopTypeOK, NEW e \in 0..1, NEW sofar \in 0..BusLoss, Send(e, sofar)
  PROVE  lost' \in 0..BusLoss /\ heard' \in 0..1
<1>1. heard \in 0..1 /\ BusLoss \in Nat
  BY EStopAssumption DEF EStopTypeOK, EStopAssumption
<1>2. lost' \in 0..BusLoss
  BY <1>1 DEF Send
<1>3. heard' \in 0..1
  BY <1>1 DEF Send
<1>. QED
  BY <1>2, <1>3

\* Every step keeps the types, and the timer beside its counter.
LEMMA EStopTypes ==
  ASSUME EStopTypeOK, BurstInv, [EStopNext]_estopVars
  PROVE  EStopTypeOK' /\ BurstInv'
<1>0. BusLoss \in Nat /\ MaxPress \in Nat /\ MaxQueued \in Nat
  BY EStopAssumption DEF EStopAssumption
<1>1. /\ calls \in Seq(Call) /\ Len(calls) <= MaxQueued /\ Len(calls) \in Nat
      /\ 0 \in 0..BusLoss /\ lost \in 0..BusLoss /\ pressed \in 0..MaxPress
      /\ burst \in 0..3 /\ repeat \in BOOLEAN /\ latched \in BOOLEAN /\ engaged \in BOOLEAN
  BY <1>0, LenProperties DEF EStopTypeOK, BurstLength
<1>2. ASSUME NEW c \in Call, Issue(c), engaged' \in BOOLEAN
      PROVE  EStopTypeOK' /\ BurstInv'
  <2>1. calls' \in Seq(Call) /\ Len(calls') <= MaxQueued
    BY <1>0, <1>1, <1>2, IssueEffect DEF Issue
  <2>2. pressed' \in 0..MaxPress
    BY <1>0, <1>1, <1>2 DEF Issue
  <2>. QED
    BY <1>2, <2>1, <2>2 DEF EStopTypeOK, Issue, workerVars, BurstInv
<1>3. CASE Click \/ Hold \/ PressOther
  BY <1>1, <1>2, <1>3 DEF Click, Hold, PressOther, Call
<1>4. CASE LoseCall \/ ReorderCalls
  <2>1. calls' \in Seq(Call) /\ Len(calls') <= MaxQueued
    <3>1. CASE LoseCall
      BY <1>0, <1>1, <3>1, LostCall DEF LoseCall
    <3>2. CASE ReorderCalls
      <4>1. /\ Tail(calls) \in Seq(Call) /\ Len(Tail(calls)) = Len(calls) - 1
            /\ Head(calls) \in Call
        <5>1. calls # <<>>
          BY <1>1, <3>2, EmptySeq DEF ReorderCalls
        <5>. QED
          BY <1>1, <5>1, HeadTailProperties
      <4>2. <<Head(calls)>> \in Seq(Call) /\ Len(<<Head(calls)>>) = 1
        BY <4>1
      <4>3. PICK s, t : s = Tail(calls) /\ t = <<Head(calls)>>
        OBVIOUS
      <4>4. /\ s \in Seq(Call) /\ Len(s) = Len(calls) - 1
            /\ t \in Seq(Call) /\ Len(t) = 1
        BY <4>1, <4>2, <4>3
      <4>5. calls' = s \o t
        BY <3>2, <4>3 DEF ReorderCalls
      <4>6. calls' \in Seq(Call) /\ Len(calls') = Len(s) + Len(t)
        BY <4>4, <4>5, ConcatProperties
      <4>. QED
        BY <1>0, <1>1, <4>4, <4>6
    <3>. QED
      BY <1>4, <3>1, <3>2
  <2>. QED
    BY <1>4, <2>1
    DEF LoseCall, ReorderCalls, EStopTypeOK, workerVars, BurstInv
<1>5. ASSUME NEW c, Serve(c)
      PROVE  /\ calls' \in Seq(Call) /\ Len(calls') <= MaxQueued
             /\ UNCHANGED <<remote, engaged, pressed>>
  BY <1>0, <1>1, <1>5, ServeEffect DEF Serve
<1>6. CASE SendEStop \/ ClearEStop
  <2>1. lost' \in 0..BusLoss /\ heard' \in 0..1
    BY <1>1, <1>6, SendKeeps DEF SendEStop, ClearEStop
  <2>2. repeat' = TRUE /\ burst' = 3 /\ latched' \in BOOLEAN /\ others' \in BOOLEAN
    BY <1>6 DEF SendEStop, ClearEStop, StartBurst, BurstLength
  <2>3. /\ calls' \in Seq(Call) /\ Len(calls') <= MaxQueued
        /\ UNCHANGED <<remote, engaged, pressed>>
    BY <1>5, <1>6 DEF SendEStop, ClearEStop
  <2>4. burst' \in 0..BurstLength /\ BurstInv'
    BY <2>2 DEF BurstLength, BurstInv
  <2>. QED
    BY <2>1, <2>2, <2>3, <2>4 DEF EStopTypeOK
<1>7. CASE Command
  <2>1. lost' \in 0..BusLoss /\ heard' \in 0..1
    BY <1>1, <1>7, SendKeeps DEF Command
  <2>2. /\ calls' \in Seq(Call) /\ Len(calls') <= MaxQueued
        /\ UNCHANGED <<remote, engaged, pressed, latched, repeat, burst>>
        /\ others' \in BOOLEAN
    BY <1>5, <1>7 DEF Command, workerVars
  <2>. QED
    BY <2>1, <2>2 DEF EStopTypeOK, BurstInv
<1>8. CASE Repeat
  <2>1. Estop(latched) \in 0..1
    BY DEF Estop
  <2>2. lost' \in 0..BusLoss /\ heard' \in 0..1
    BY <1>1, <1>8, <2>1, SendKeeps DEF Repeat
  <2>3. burst > 0 /\ burst' = burst - 1 /\ repeat' = (burst > 1)
    BY <1>8 DEF Repeat, BurstInv
  <2>4. burst' \in 0..BurstLength
    BY <1>1, <2>3 DEF BurstLength
  <2>5. repeat' \in BOOLEAN /\ BurstInv'
    <3>1. burst' > 0 <=> burst > 1
      BY <1>1, <2>3
    <3>2. repeat' \in BOOLEAN
      BY <1>1, <2>3
    <3>3. repeat' <=> burst > 1
      BY <1>1, <2>3
    <3>. QED
      BY <3>1, <3>2, <3>3 DEF BurstInv
  <2>. QED
    BY <1>8, <2>2, <2>4, <2>5 DEF Repeat, EStopTypeOK
<1>9. CASE UNCHANGED estopVars
  BY <1>9 DEF estopVars, workerVars, EStopTypeOK, BurstInv
<1>. QED
  BY <1>3, <1>4, <1>6, <1>7, <1>8, <1>9 DEF EStopNext

\* A call issued by the operator is the last one.
LEMMA LastCallIssued ==
  ASSUME EStopTypeOK, LastCallInv, NEW c \in Call, Issue(c),
         c = "sendEStop" => engaged', c = "clearEStop" => ~engaged',
         c = "command" => UNCHANGED engaged
  PROVE  LastCallInv'
<1>1. /\ Len(calls) \in Nat /\ Len(calls') = Len(calls) + 1
      /\ \A i \in 1..Len(calls) : calls'[i] = calls[i]
      /\ calls'[Len(calls) + 1] = c
  BY IssueEffect DEF EStopTypeOK
<1>2. UNCHANGED <<remote, latched>>
  BY DEF Issue, workerVars
<1>3. CASE c # "command"
  <2>1. \A i \in 1..(Len(calls) + 1) : ~OnlyCommands(i)'
    BY <1>1, <1>3 DEF OnlyCommands
  <2>2. ~OnlyCommands(1)'
    BY <1>1, <2>1
  <2>3. \A i \in 1..Len(calls) : ~OnlyCommands(i + 1)'
    BY <1>1, <2>1
  <2>. QED
    BY <1>1, <2>2, <2>3 DEF LastCallInv
<1>4. CASE c = "command"
  <2>1. \A i \in 1..(Len(calls) + 1) : OnlyCommands(i)' => OnlyCommands(i)
    BY <1>1 DEF OnlyCommands
  <2>2. OnlyCommands(1)' => OnlyCommands(1)
    BY <1>1, <2>1
  <2>3. \A i \in 1..Len(calls) : OnlyCommands(i + 1)' => OnlyCommands(i + 1)
    BY <1>1, <2>1
  <2>. QED
    BY <1>1, <1>2, <1>4, <2>2, <2>3 DEF LastCallInv
<1>. QED
  BY <1>3, <1>4

\* The oldest call is served: a request or a release that was the last one is
\* what the worker has latched now.
LEMMA LastCallServed ==
  ASSUME EStopTypeOK, LastCallInv, NEW c \in Call, Serve(c),
         c = "sendEStop" => latched' = TRUE, c = "clearEStop" => latched' = FALSE,
         c = "command" => UNCHANGED latched
  PROVE  LastCallInv'
<1>1. /\ Len(calls) \in Nat /\ Len(calls) > 0 /\ Len(calls') = Len(calls) - 1
      /\ \A i \in 1..Len(calls') : calls'[i] = calls[i + 1]
      /\ calls[1] = c
  BY ServeEffect DEF EStopTypeOK
<1>2. UNCHANGED <<remote, engaged>>
  BY DEF Serve
<1>3. \A i \in 1..Len(calls) : OnlyCommands(i)' => OnlyCommands(i + 1)
  <2>. SUFFICES ASSUME NEW i \in 1..Len(calls), OnlyCommands(i)'
                PROVE  OnlyCommands(i + 1)
    OBVIOUS
  <2>1. \A j \in (i + 1)..Len(calls) : j - 1 \in i..Len(calls') /\ j - 1 \in 1..Len(calls')
                                       /\ (j - 1) + 1 = j
    BY <1>1
  <2>. QED
    BY <1>1, <2>1 DEF OnlyCommands
<1>4. \A i \in 1..Len(calls') : OnlyCommands(i + 1)' => OnlyCommands((i + 1) + 1)
  BY <1>1, <1>3
<1>5. ASSUME ~remote, OnlyCommands(1)' PROVE latched' <=> engaged'
  <2>1. OnlyCommands(2) /\ 1 \in 1..Len(calls)
    BY <1>1, <1>3, <1>5
  <2>2. (c = "sendEStop" => engaged) /\ (c = "clearEStop" => ~engaged)
    BY <1>1, <1>5, <2>1 DEF LastCallInv
  <2>3. CASE c = "sendEStop" \/ c = "clearEStop"
    BY <1>2, <2>2, <2>3
  <2>4. CASE c = "command"
    <3>1. OnlyCommands(1)
      <4>1. \A j \in 1..Len(calls) : j = 1 \/ j \in 2..Len(calls)
        BY <1>1
      <4>. QED
        BY <1>1, <2>1, <2>4, <4>1 DEF OnlyCommands
    <3>. QED
      BY <1>2, <1>5, <2>4, <3>1 DEF LastCallInv
  <2>. QED
    BY <2>3, <2>4 DEF Call
<1>6. ASSUME ~remote, NEW i \in 1..Len(calls'), OnlyCommands(i + 1)'
      PROVE  /\ calls'[i] = "sendEStop" => engaged'
             /\ calls'[i] = "clearEStop" => ~engaged'
  <2>1. OnlyCommands((i + 1) + 1) /\ i + 1 \in 1..Len(calls) /\ calls'[i] = calls[i + 1]
    BY <1>1, <1>4, <1>6
  <2>. QED
    BY <1>2, <1>6, <2>1 DEF LastCallInv
<1>. QED
  BY <1>2, <1>5, <1>6 DEF LastCallInv

\* Every step keeps the last call in agreement with the button.
LEMMA LastCallStep ==
  ASSUME EStopTypeOK, LastCallInv, [EStopNext]_estopVars
  PROVE  LastCallInv'
<1>0. "sendEStop" \in Call /\ "clearEStop" \in Call /\ "command" \in Call
  BY DEF Call
<1>1. CASE Click \/ Hold \/ PressOther
  BY <1>0, <1>1, LastCallIssued DEF Click, Hold, PressOther
<1>2. CASE LoseCall \/ ReorderCalls
  BY <1>2 DEF LoseCall, ReorderCalls, LastCallInv
<1>3. CASE SendEStop \/ ClearEStop \/ Command
  BY <1>0, <1>3, LastCallServed
  DEF SendEStop, ClearEStop, Command, workerVars
<1>4. CASE Repeat
  BY <1>4 DEF Repeat, LastCallInv, OnlyCommands
<1>5. CASE UNCHANGED estopVars
  BY <1>5 DEF estopVars, workerVars, LastCallInv, OnlyCommands
<1>. QED
  BY <1>1, <1>2, <1>3, <1>4, <1>5 DEF EStopNext

\* The invariant of the E-stop path holds in every behaviour.
THEOREM EStopInvHolds == EStopSpec => []EStopInv
<1>1. EStopInit => EStopInv
  <2>. SUFFICES ASSUME EStopInit PROVE EStopInv
    OBVIOUS
  <2>1. BusLoss \in Nat /\ MaxPress \in Nat /\ MaxQueued \in Nat
    BY EStopAssumption DEF EStopAssumption
  <2>2. calls \in Seq(Call) /\ Len(calls) = 0
    BY EmptySeq DEF EStopInit
  <2>3. pressed \in 0..MaxPress /\ lost \in 0..BusLoss /\ burst \in 0..BurstLength
    BY <2>1 DEF EStopInit, BurstLength
  <2>5. EStopTypeOK
    <3>1. /\ remote \in BOOLEAN /\ engaged \in BOOLEAN /\ latched \in BOOLEAN
          /\ repeat \in BOOLEAN /\ others \in BOOLEAN
      BY DEF EStopInit
    <3>2. Len(calls) <= MaxQueued
      BY <2>1, <2>2
    <3>3. heard \in 0..1
      BY DEF EStopInit
    <3>. QED
      BY <2>2, <2>3, <3>1, <3>2, <3>3 DEF EStopTypeOK
  <2>6. ~repeat /\ burst = 0 /\ latched = FALSE /\ engaged = FALSE
    BY DEF EStopInit
  <2>7. BurstInv /\ LastCallInv
    BY <2>2, <2>6 DEF BurstInv, LastCallInv
  <2>. QED
    BY <2>5, <2>7 DEF EStopInv
<1>2. EStopInv /\ [EStopNext]_estopVars => EStopInv'
  BY EStopTypes, LastCallStep DEF EStopInv
<1>. QED
  BY <1>1, <1>2, PTL DEF EStopSpec

\* Every variable of the E-stop path keeps its type.
THEOREM EStopTypeCorrect == EStopSpec => []EStopTypeOK
<1>1. EStopInv => EStopTypeOK
  BY DEF EStopInv
<1>. QED
  BY <1>1, EStopInvHolds, PTL

\* Next to the hardware, once every call has been served, the worker has
\* latched what the operator sees.
THEOREM LatchIsTheButton == EStopSpec => []LatchFollowsUi
<1>1. EStopInv => LatchFollowsUi
  <2>. SUFFICES ASSUME EStopInv, ~remote, calls = <<>>
                PROVE  latched = engaged
    BY DEF LatchFollowsUi
  <2>1. OnlyCommands(1)
    BY EmptySeq DEF OnlyCommands
  <2>2. latched <=> engaged
    BY <2>1 DEF EStopInv, LastCallInv
  <2>. QED
    BY <2>2 DEF EStopInv, EStopTypeOK
<1>. QED
  BY <1>1, EStopInvHolds, PTL

==============================================================================
