----------------------------- MODULE DriveState ------------------------------
(***************************************************************************)
(* The dashboard's view of a drive: KpiData counts missions, plans and     *)
(* detections from the edges of the driving state it is shown, and derives *)
(* a behaviour from driving state and obstacle until the vehicle reports   *)
(* one.  The vehicle's frames reach it through the snapshot: standalone    *)
(* the poll takes what is new; a client applies the whole of the last      *)
(* datagram on every poll.  (Lost and reordered datagrams are BridgeLink's *)
(* subject; here datagrams are only skipped.)                              *)
(***************************************************************************)
EXTENDS Integers

CONSTANTS
  DriveName,    \* the names drivingStateName() gives the state byte
  Distance,     \* obstacle distances as recomputeBehavior() tells them apart
  Behavior,     \* the behaviours a 0x10B frame may report
  Reports,      \* what 0x106 and 0x107 report: pairs <<successes, total>>
  MaxChanges,   \* bound: changes of the driving state
  MaxSightings  \* bound: obstacle frames with a confidence above 50 %

ASSUME DriveAssumption ==
  /\ {"IDLE", "AUTO", "AVOID", "STOP", "ERROR"} \subseteq DriveName
  /\ DriveName \subseteq STRING \ {"none"}
  /\ Distance \subseteq {"near", "mid", "far"} /\ Distance # {}
  /\ Behavior \subseteq STRING
  /\ Reports \subseteq {r \in Nat \X Nat : r[1] <= r[2]}
  /\ MaxChanges \in Nat
  /\ MaxSightings \in Nat

VARIABLES
  client,   \* which program shows the drive: a client, or the standalone one
  latest,   \* m_latest, the fields of the five messages
  dirty,    \* their ...Dirty flags
  have,     \* the client's m_haveSnapshot
  link,     \* the client's m_latest, the last datagram
  ui,       \* the fields of KpiData
  changes,  \* bound: changes so far
  drives,   \* history: how often the vehicle went into AUTO
  sightings, \* history: how many obstacle frames said "sure"
  reported  \* history: which messages it has sent, but for Vehicle_Status

busVars == <<changes, drives, sightings, reported>>
vars == <<client, latest, dirty, have, link, ui, busVars>>

One(condition) == IF condition THEN 1 ELSE 0

\* The messages: Vehicle_Status, Obstacle_Detection, Behavior_State,
\* Planning_Status and Perception_Validation.
Message == {"vehicle", "obstacle", "behavior", "planning", "perception"}

\* The defaults of the snapshot: no driving state, distance 0, counters 0 and,
\* for behaviour, mode 0.
Latest == [drive: DriveName \cup {"none"}, distance: Distance \cup {"near"},
           sure: BOOLEAN, behavior: Behavior \cup {"LANE_FOLLOW"},
           plan: Reports \cup {<<0, 0>>}, seen: Reports \cup {<<0, 0>>}]

NothingReceived == [drive |-> "none", distance |-> "near", sure |-> FALSE,
                    behavior |-> "LANE_FOLLOW", plan |-> <<0, 0>>, seen |-> <<0, 0>>]

KpiFields == [drive: DriveName \cup {"none"}, distance: Distance \cup {"near", "none"},
              success: Nat, total: Nat,
              planOk: Nat, planTotal: Nat, planning: BOOLEAN, hasPlan: BOOLEAN,
              detected: Nat, seenTotal: Nat, detecting: BOOLEAN,
              behavior: Behavior \cup {"OBSTACLE_STOP", "NUDGE", "LANE_FOLLOW", "STANDBY"},
              fromCan: BOOLEAN]

TypeOK ==
  /\ client \in BOOLEAN
  /\ latest \in Latest
  /\ dirty \subseteq Message
  /\ have \in BOOLEAN
  /\ link \in Latest
  /\ ui \in KpiFields
  /\ changes \in Nat
  /\ drives \in Nat
  /\ sightings \in Nat
  /\ reported \subseteq Message

Init ==
  /\ client \in BOOLEAN
  /\ latest = NothingReceived
  /\ dirty = {}
  /\ have = FALSE
  /\ link = NothingReceived
  /\ ui = [drive |-> "none", distance |-> "none", success |-> 0, total |-> 0,
           planOk |-> 0, planTotal |-> 0, planning |-> FALSE, hasPlan |-> FALSE,
           detected |-> 0, seenTotal |-> 0, detecting |-> FALSE,
           behavior |-> "LANE_FOLLOW", fromCan |-> FALSE]
  /\ changes = 0
  /\ drives = 0
  /\ sightings = 0
  /\ reported = {}

-----------------------------------------------------------------------------
(* The worker: each decoder writes its fields and its flag.                 *)

DecodeVehicleStatus(s) ==
  /\ s # latest.drive => changes < MaxChanges
  /\ changes' = IF s # latest.drive THEN changes + 1 ELSE changes
  /\ drives' = IF s = "AUTO" /\ latest.drive # "AUTO" THEN drives + 1 ELSE drives
  /\ latest' = [latest EXCEPT !.drive = s]
  /\ dirty' = dirty \cup {"vehicle"}
  /\ UNCHANGED <<client, have, link, ui, sightings, reported>>

\* The lock section of the other decoders.
Decode(m, new) ==
  /\ latest' = new
  /\ dirty' = dirty \cup {m}
  /\ reported' = reported \cup {m}
  /\ UNCHANGED <<client, have, link, ui, changes, drives>>

\* "sure": the confidence is above 50 %.
DecodeObstacle(d, sure) ==
  /\ sure => sightings < MaxSightings
  /\ sightings' = sightings + One(sure)
  /\ Decode("obstacle", [latest EXCEPT !.distance = d, !.sure = sure])

DecodeBehaviorState(b) ==
  Decode("behavior", [latest EXCEPT !.behavior = b]) /\ UNCHANGED sightings

DecodePlanningStatus(r) ==
  Decode("planning", [latest EXCEPT !.plan = r]) /\ UNCHANGED sightings

DecodePerceptionValidation(r) ==
  Decode("perception", [latest EXCEPT !.seen = r]) /\ UNCHANGED sightings

-----------------------------------------------------------------------------
(* KpiData: what the apply...() methods make of the fields u.               *)

\* The behaviour recomputeBehavior() derives.  It looks for a state "AVOIDANCE",
\* and drivingStateName() names none so: AVOID, too, falls to the last line
\* (AvoidanceNudges, below).
Derived(u) ==
  IF u.drive = "STOP" \/ (u.drive = "AUTO" /\ u.distance = "near") THEN "OBSTACLE_STOP"
  ELSE IF u.drive = "AVOIDANCE" \/ (u.drive = "AUTO" /\ u.distance = "mid") THEN "NUDGE"
  ELSE IF u.drive = "AUTO" THEN "LANE_FOLLOW"
  ELSE "STANDBY"

RecomputeBehavior(u) ==
  IF u.fromCan THEN u ELSE [u EXCEPT !.behavior = Derived(u)]

\* Seeded fault: every frame counts, whether the state changed or not.
ApplyVehicleStatus_EveryFrame(u, s) ==
  RecomputeBehavior(
    [u EXCEPT !.drive = s,
              !.success = @ + One(s = "STOP"),
              !.total = @ + One(s \in {"STOP", "ERROR"})])

\* Seeded fault: an ERROR takes the success of the last mission back.
ApplyVehicleStatus_TakesBack(u, s) ==
  RecomputeBehavior(
    [u EXCEPT !.drive = s,
              !.success = @ + One(u.drive = "AUTO" /\ s = "STOP")
                            - One(u.drive # "ERROR" /\ s = "ERROR")])

\* Seeded fault: the detection of a run is counted, and kept.
ApplyVehicleStatus_KeepsDetection(u, s) ==
  LET left == s # u.drive /\ u.drive = "AUTO"
  IN RecomputeBehavior([u EXCEPT !.drive = s, !.detected = @ + One(left /\ u.detecting)])

\* 0x101.  Leaving AUTO for STOP or ERROR ends a mission; leaving it for any state
\* counts the run's detection (DetectedRunsAreRuns, below).  Planning is what happens between IDLE or STOP and AUTO or ERROR; an
\* AUTO that was entered unseen counts as one plan, once.
ApplyVehicleStatus(u, s) ==
  LET moved    == s # u.drive
      left     == moved /\ u.drive = "AUTO"
      begins   == moved /\ s \in {"IDLE", "STOP"}
      planned  == moved /\ s = "AUTO" /\ u.planning
      failed   == moved /\ s = "ERROR" /\ u.planning
      attached == moved /\ s = "AUTO" /\ ~u.planning /\ ~u.hasPlan
  IN RecomputeBehavior(
       [u EXCEPT !.drive = s,
                 !.success = @ + One(left /\ s = "STOP"),
                 !.total = @ + One(left /\ s \in {"STOP", "ERROR"}),
                 !.detected = @ + One(left /\ u.detecting),
                 !.detecting = @ /\ ~left,
                 !.planOk = @ + One(planned \/ attached),
                 !.planTotal = @ + One(planned \/ failed \/ attached),
                 !.planning = begins \/ (@ /\ ~planned /\ ~failed),
                 !.hasPlan = @ \/ planned \/ failed \/ attached])

\* Seeded fault: the behaviour is not derived again.
ApplyObstacle_NoRecompute(u, d, sure) ==
  [u EXCEPT !.distance = d, !.detecting = @ \/ (u.drive = "AUTO" /\ sure)]

\* 0x100, but for the fail-safe level (FailsafeLevel) and the sensor stopwatch
\* (SensorHealth).
ApplyObstacle(u, d, sure) ==
  RecomputeBehavior(
    [u EXCEPT !.distance = d, !.detecting = @ \/ (u.drive = "AUTO" /\ sure)])

\* 0x10B: from now on the vehicle's own report counts.
ApplyBehaviorState(u, b) == [u EXCEPT !.fromCan = TRUE, !.behavior = b]

\* 0x106: the firmware's counters replace the dashboard's own.
ApplyPlanningStatus(u, r) ==
  [u EXCEPT !.planOk = r[1], !.planTotal = r[2], !.hasPlan = TRUE]

\* 0x107.
ApplyPerceptionValidation(u, r) ==
  [u EXCEPT !.detected = r[1], !.seenTotal = r[2]]

\* The five apply statements of uiPoll, for the messages in flags.
Applied(u, snap, flags) ==
  LET u1 == IF "vehicle" \in flags THEN ApplyVehicleStatus(u, snap.drive) ELSE u
      u2 == IF "obstacle" \in flags
            THEN ApplyObstacle(u1, snap.distance, snap.sure) ELSE u1
      u3 == IF "behavior" \in flags THEN ApplyBehaviorState(u2, snap.behavior) ELSE u2
      u4 == IF "planning" \in flags THEN ApplyPlanningStatus(u3, snap.plan) ELSE u3
  IN IF "perception" \in flags THEN ApplyPerceptionValidation(u4, snap.seen) ELSE u4

-----------------------------------------------------------------------------
(* The polls.                                                               *)

\* uiPoll, standalone: takeLatest() and apply.
StandalonePoll ==
  /\ ~client
  /\ ui' = Applied(ui, latest, dirty)
  /\ dirty' = {}
  /\ UNCHANGED <<client, latest, have, link, busVars>>

\* The bridge's tick peeks the snapshot and the datagram arrives.
Forward ==
  /\ client
  /\ have' = TRUE
  /\ link' = latest
  /\ UNCHANGED <<client, latest, dirty, ui, busVars>>

\* uiPoll, client: every flag of the last datagram is up, however often it was
\* applied before.
ClientPoll ==
  /\ client
  /\ have
  /\ ui' = Applied(ui, link, Message)
  /\ UNCHANGED <<client, latest, dirty, have, link, busVars>>

Frame ==
  \/ \E s \in DriveName : DecodeVehicleStatus(s)
  \/ \E d \in Distance, sure \in BOOLEAN : DecodeObstacle(d, sure)
  \/ \E b \in Behavior : DecodeBehaviorState(b)
  \/ \E r \in Reports : DecodePlanningStatus(r) \/ DecodePerceptionValidation(r)

Next == Frame \/ StandalonePoll \/ Forward \/ ClientPoll

Spec == Init /\ [][Next]_vars

-----------------------------------------------------------------------------
\* Missions are counted on edges: although a client applies the same state over
\* and over, no more missions end than the vehicle began, and no more succeed
\* than end (KpiData::applyVehicleStatus).
MissionsCountedOnce == ui.success <= ui.total /\ ui.total <= drives

\* Standalone, until the firmware counts, a detection is counted once and for one
\* drive: every counted one needs an obstacle frame of its own, so that what is
\* remembered of a drive never counts for the next.
DetectionsCountedOnce ==
  ~client /\ "perception" \notin reported => ui.detected <= sightings

\* Planning is in progress in IDLE and STOP and never in AUTO or ERROR: no plan is
\* counted in the middle of a drive.
PlanningFitsState ==
  /\ ui.drive \in {"IDLE", "STOP"} => ui.planning
  /\ ui.drive \in {"AUTO", "ERROR"} => ~ui.planning

\* Whoever counts the plans, the dashboard or the firmware, and whenever one
\* replaces the other: no more succeed than were made.
PlansAddUp == ui.planOk <= ui.planTotal

\* Standalone, the dashboard derives a behaviour until the vehicle reports its
\* own, not longer and not shorter, and the derived one is never older than the
\* driving state and the obstacle it is derived from, which two messages bring.
\* (On a client the forced flags let the default of the snapshot pass for a
\* report.)  What an avoiding vehicle shows is AvoidanceNudges' question.
BehaviorFollows ==
  ~client =>
    /\ ui.fromCan => "behavior" \in reported
    /\ ~ui.fromCan /\ (ui.drive # "none" \/ ui.distance # "none") /\ ui.drive # "AVOID"
         => ui.behavior = Derived(ui)

-----------------------------------------------------------------------------
(* What comments of the code say, and the code does not do.                 *)

\* KpiData.h, at perceptionDetectedRuns: a run with a detection is "counted on each
\* AUTO -> STOP/ERROR transition", as a mission is.  So, until the firmware counts,
\* no more runs have one than there were (their ratio is perceptionDetectRatePct).
DetectedRunsAreRuns ==
  ~client /\ "perception" \notin reported => ui.detected <= ui.total

\* KpiData.cpp, recomputeBehavior(): avoidance is shown as NUDGE, and STANDBY is for
\* "IDLE / MANUAL / ERROR".
AvoidanceNudges == ~ui.fromCan /\ ui.drive = "AVOID" => ui.behavior = "NUDGE"

=============================================================================
