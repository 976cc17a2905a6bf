---------------------------- MODULE FailsafeLevel ----------------------------
(***************************************************************************)
(* The displayed fail-safe level.  Two CAN messages carry a level: the     *)
(* periodic Obstacle_Detection and the one-shot Fail_Safe_Event; the       *)
(* decoders write it into the snapshot, the GUI's uiPoll takes the         *)
(* snapshot and hands the levels to KpiData::proposeFailsafeLevel(), which *)
(* escalates at once and de-escalates after a dwell.  Realtime_KPI starts  *)
(* the stopwatch of the fail-safe transition latency.                      *)
(*                                                                         *)
(* Time is a Tick action; a QElapsedTimer is the age it shows, saturating  *)
(* at the largest value the code tells apart.                              *)
(***************************************************************************)
EXTENDS Integers

CONSTANTS
  Dwell,       \* m_failsafeDwellMs, in ticks
  RawLevel,    \* what the level byte of a frame may hold
  MaxLatency   \* bound: the transition latency stops counting here

\* The levels the decoders and proposeFailsafeLevel() accept.
Level == 1..4

ASSUME FailsafeAssumption ==
  /\ Dwell \in Nat
  /\ RawLevel \subseteq 0..255
  /\ MaxLatency \in Nat

VARIABLES
  truth,       \* the level the vehicle is in: what its frames report
  snap,        \* the snapshot fields of m_latest used here
  pc,          \* the next statement of uiPoll, "idle" between two polls
  v,           \* the poll's copy of the snapshot
  level,       \* KpiData m_failsafeLevel
  pending,     \* m_pendingFailsafeLevel
  pendingAge,  \* m_failsafePendingSince: NotStarted, or its age up to Dwell
  trigger,     \* m_failsafeTriggerActive
  triggerAge,  \* m_failsafeTriggerTimer, up to MaxLatency
  lastMs,      \* m_failsafeLastTransitionMs
  maxMs,       \* m_failsafeMaxTransitionMs
  run          \* history: the last level proposed, and for how long only it was

kpiVars == <<level, pending, pendingAge, trigger, triggerAge, lastMs, maxMs, run>>
vars == <<truth, snap, pc, v, kpiVars>>

NotStarted == -1

\* No level: a frame not received, or one whose level byte is not valid.
NoLevel == 0

\* The snapshot keeps the level field between polls; an event's level and the
\* overload condition matter only while their flags are up.
SnapRecord == [level: Level, obstacleDirty: BOOLEAN,
               event: Level \cup {NoLevel}, overload: BOOLEAN]

CopyRecord == [obstacle: Level \cup {NoLevel},
               event: Level \cup {NoLevel}, overload: BOOLEAN]

NoCopy == [obstacle |-> NoLevel, event |-> NoLevel, overload |-> FALSE]

TypeOK ==
  /\ truth \in Level
  /\ snap \in SnapRecord
  /\ pc \in {"idle", "kpi", "obstacle", "event"}
  /\ v \in CopyRecord
  /\ level \in Level
  /\ pending \in Level
  /\ pendingAge \in {NotStarted} \cup 0..Dwell
  /\ trigger \in BOOLEAN
  /\ triggerAge \in 0..MaxLatency
  /\ lastMs \in 0..MaxLatency
  /\ maxMs \in 0..MaxLatency
  /\ run \in [level: Level, age: 0..Dwell]

Init ==
  /\ truth = 1
  /\ snap = [level |-> 1, obstacleDirty |-> FALSE, event |-> NoLevel, overload |-> FALSE]
  /\ pc = "idle"
  /\ v = NoCopy
  /\ level = 1
  /\ pending = 1
  /\ pendingAge = NotStarted
  /\ trigger = FALSE
  /\ triggerAge = 0
  /\ lastMs = 0
  /\ maxMs = 0
  /\ run = [level |-> 1, age |-> 0]

-----------------------------------------------------------------------------
(* The vehicle and the CAN worker.                                          *)

\* The vehicle changes its fail-safe level.
ChangeLevel ==
  /\ truth' \in Level \cap RawLevel
  /\ UNCHANGED <<snap, pc, v, kpiVars>>

\* The levels the vehicle's frames may carry.
Sent == {l \in RawLevel : l \in Level => l = truth}

\* Seeded fault: the level byte is recorded unchecked.
Recorded_Unchecked(raw) == raw

\* A level byte outside 1..4 leaves the snapshot's level field alone.
Recorded(raw) == IF raw \in Level THEN raw ELSE snap.level

\* decodeObstacle().
DecodeObstacle(raw) ==
  /\ raw \in Sent
  /\ snap' = [snap EXCEPT !.level = Recorded(raw), !.obstacleDirty = TRUE]
  /\ UNCHANGED <<truth, pc, v, kpiVars>>

\* decodeFailsafeEvent(): the edge, and the same level field.
DecodeFailsafeEvent(raw) ==
  /\ raw \in Sent
  /\ snap' = [snap EXCEPT !.event = IF raw \in Level THEN raw ELSE NoLevel,
                          !.level = Recorded(raw)]
  /\ UNCHANGED <<truth, pc, v, kpiVars>>

\* decodeRealtimeKpi(): only whether GPU load and latency are beyond the
\* thresholds matters here.
DecodeRealtimeKpi ==
  /\ \E o \in BOOLEAN : snap' = [snap EXCEPT !.overload = o]
  /\ UNCHANGED <<truth, pc, v, kpiVars>>

-----------------------------------------------------------------------------
(* uiPoll and KpiData.                                                      *)

\* takeLatest(): copy, and lower the flags.
PollTake ==
  /\ pc = "idle"
  /\ v' = [obstacle |-> IF snap.obstacleDirty THEN snap.level ELSE NoLevel,
           event |-> snap.event, overload |-> snap.overload]
  /\ snap' = [snap EXCEPT !.obstacleDirty = FALSE, !.event = NoLevel,
                          !.overload = FALSE]
  /\ pc' = "kpi"
  /\ UNCHANGED <<truth, kpiVars>>

\* Seeded fault: the stopwatch starts in any level.
ApplyRealtimeKpi_AnyLevel ==
  /\ pc = "kpi"
  /\ pc' = "obstacle"
  /\ v' = [v EXCEPT !.overload = FALSE]
  /\ IF v.overload /\ ~trigger
     THEN trigger' = TRUE /\ triggerAge' = 0
     ELSE UNCHANGED <<trigger, triggerAge>>
  /\ UNCHANGED <<truth, snap, level, pending, pendingAge, lastMs, maxMs, run>>

\* applyRealtimeKpi(): an overload while level 1 is shown starts the stopwatch.
ApplyRealtimeKpi ==
  /\ pc = "kpi"
  /\ pc' = "obstacle"
  /\ v' = [v EXCEPT !.overload = FALSE]
  /\ IF v.overload /\ ~trigger /\ level = 1
     THEN trigger' = TRUE /\ triggerAge' = 0
     ELSE UNCHANGED <<trigger, triggerAge>>
  /\ UNCHANGED <<truth, snap, level, pending, pendingAge, lastMs, maxMs, run>>

\* commitFailsafeLevel(): a change stops a running stopwatch.
Commit(l) ==
  /\ level' = l
  /\ IF trigger /\ l # level
     THEN /\ lastMs' = triggerAge
          /\ maxMs' = IF triggerAge > maxMs THEN triggerAge ELSE maxMs
          /\ trigger' = FALSE
     ELSE UNCHANGED <<lastMs, maxMs, trigger>>

KeepLevel == UNCHANGED <<level, lastMs, maxMs, trigger>>

\* History: how long nothing but level l has been proposed.
Note(l) == run' = IF run.level = l THEN run ELSE [level |-> l, age |-> 0]

\* Escalation or reaffirmation: at once, and the target of the dwell with it.
Reach(l) ==
  /\ l >= level
  /\ pending' = l
  /\ UNCHANGED pendingAge
  /\ Commit(l)

\* Seeded faults: the dwell of the new target is not started, or it goes on
\* counting from the old target.
NewTarget_NotStarted(l) ==
  /\ l < level /\ l # pending
  /\ pending' = l
  /\ UNCHANGED pendingAge
  /\ KeepLevel

NewTarget_Continues(l) ==
  /\ l < level /\ l # pending
  /\ pending' = l
  /\ pendingAge' = IF pendingAge = NotStarted THEN 0 ELSE pendingAge
  /\ KeepLevel

\* A new lower target: its dwell starts.
NewTarget(l) ==
  /\ l < level /\ l # pending
  /\ pending' = l
  /\ pendingAge' = 0
  /\ KeepLevel

\* Seeded fault: every proposal of the target restarts its dwell before it is
\* looked at.
SameTarget_Restarts(l) ==
  /\ l < level /\ l = pending
  /\ pendingAge' = 0
  /\ IF Dwell = 0 THEN Commit(l) ELSE KeepLevel
  /\ UNCHANGED pending

\* The lower target again: shown when its dwell is over.
SameTarget(l) ==
  /\ l < level /\ l = pending
  /\ IF pendingAge = NotStarted \/ pendingAge >= Dwell THEN Commit(l) ELSE KeepLevel
  /\ UNCHANGED <<pending, pendingAge>>

\* Seeded fault: the range check is one short.
Propose_RangeShort(l) ==
  IF l \in 1..3
  THEN /\ Reach(l) \/ NewTarget(l) \/ SameTarget(l)
       /\ Note(l)
  ELSE KeepLevel /\ UNCHANGED <<pending, pendingAge, run>>

\* proposeFailsafeLevel().
Propose(l) ==
  IF l \in Level
  THEN /\ Reach(l) \/ NewTarget(l) \/ SameTarget(l)
       /\ Note(l)
  ELSE KeepLevel /\ UNCHANGED <<pending, pendingAge, run>>

\* applyObstacle() and applyFailsafeEvent(), as far as the level goes; without
\* a fresh frame they are not called.
ApplyObstacle ==
  /\ pc = "obstacle"
  /\ pc' = "event"
  /\ Propose(v.obstacle)
  /\ v' = [v EXCEPT !.obstacle = NoLevel]
  /\ UNCHANGED <<truth, snap, triggerAge>>

ApplyFailsafeEvent ==
  /\ pc = "event"
  /\ pc' = "idle"
  /\ Propose(v.event)
  /\ v' = NoCopy
  /\ UNCHANGED <<truth, snap, triggerAge>>

-----------------------------------------------------------------------------
\* Time passes for every running stopwatch.
UpTo(n, bound) == IF n < bound THEN n + 1 ELSE n

Tick ==
  /\ pendingAge' = IF pendingAge = NotStarted THEN NotStarted ELSE UpTo(pendingAge, Dwell)
  /\ triggerAge' = IF trigger THEN UpTo(triggerAge, MaxLatency) ELSE triggerAge
  /\ run' = [run EXCEPT !.age = UpTo(@, Dwell)]
  /\ UNCHANGED <<truth, snap, pc, v, level, pending, trigger, lastMs, maxMs>>

Poll == PollTake \/ ApplyRealtimeKpi \/ ApplyObstacle \/ ApplyFailsafeEvent

Next ==
  \/ ChangeLevel
  \/ \E raw \in RawLevel : DecodeObstacle(raw)
  \/ \E raw \in RawLevel : DecodeFailsafeEvent(raw)
  \/ DecodeRealtimeKpi
  \/ PollTake
  \/ ApplyRealtimeKpi
  \/ ApplyObstacle
  \/ ApplyFailsafeEvent
  \/ Tick

Spec == Init /\ [][Next]_vars

\* The poll timer fires, time passes, and the LiDAR frame, which is periodic,
\* keeps coming with the vehicle's level.
Fairness ==
  /\ WF_vars(Poll)
  /\ WF_vars(Tick)
  /\ SF_vars(DecodeObstacle(truth))

FairSpec == Spec /\ Fairness

-----------------------------------------------------------------------------
\* De-escalation is held: the shown level drops only to a level that has been
\* the only one proposed for a whole dwell.
HeldBeforeLowering ==
  [][level' < level => run.level = level' /\ run.age = Dwell]_vars

\* A pending lower level always has its dwell running, so the test for a
\* stopwatch never started cannot let a lower level through at once.
DwellRuns == pending < level => pendingAge # NotStarted

\* The latency stopwatch runs only from a level-1 display: the number it yields
\* is the time from an overload to the first level shown after it.
TriggerOnlyFromNormal == trigger => level = 1

\* The display settles: when the vehicle stays in a level, the display ends up
\* in it, whatever was proposed before.
Settles == \A l \in Level : <>[](truth = l) => <>[](level = l)

\* No escalation is overlooked: a level in the snapshot is shown, or a worse
\* one, unless a later frame replaces it before the next poll takes it.
EscalationShown ==
  \A l \in Level :
    (snap.obstacleDirty /\ snap.level = l) ~> (level >= l \/ snap.level # l)

=============================================================================
