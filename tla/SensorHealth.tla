---------------------------- MODULE SensorHealth -----------------------------
(***************************************************************************)
(* The "online" pills and the localization mode.  CAN frames, the BNO055   *)
(* on I2C and the GPS receiver leave what they hear in snapshots; the UI   *)
(* poll drains them, restarts one stopwatch per sensor, and a watchdog     *)
(* every 500 ms calls a sensor online whose stopwatch is below its limit.  *)
(* The IMU pill has two sources, the localization mode two as well.  This  *)
(* is the standalone program; a client restarts its stopwatches on every   *)
(* poll, because peekLatest() raises every flag.  (Names that DriveState   *)
(* has too carry the prefix Sensor: MCKpiData checks the two together.)    *)
(***************************************************************************)
EXTENDS Integers

CONSTANTS
  Sensor,      \* lidar, imu, encoder, ego, lane
  CanSource,   \* the CAN messages 0x100, 0x21, 0x20, 0x10D, 0x10A
  Imu,         \* the BNO055, sampled over I2C
  Feeds,       \* the sensor a source is the heartbeat of
  Loc,         \* of the CAN messages, 0x10A Localization_Status
  LocMode,     \* the localization modes it names
  Stale,       \* m_lidarStaleMs, m_imuStaleMs, ... in units of time
  PollPeriod,  \* longest time between two runs of uiPoll
  WatchPeriod  \* ... and between two runs of the watchdog

Source == CanSource \cup {Imu}

ASSUME SensorAssumption ==
  /\ Imu \notin CanSource
  /\ Feeds \in [Source -> Sensor]
  /\ Loc \in CanSource
  /\ LocMode \subseteq STRING
  /\ {"INIT", "GPS"} \subseteq LocMode
  /\ PollPeriod \in Nat \ {0}
  /\ WatchPeriod \in Nat \ {0}
  /\ Stale \in [Sensor -> Nat]
  /\ \A s \in Sensor : Stale[s] > PollPeriod

VARIABLES
  fresh,      \* the sources whose dirty flag is up
  locMode,    \* m_latest.locMode
  gps,        \* m_latest of the GPS bridge: hasFix and dirty
  stopwatch,  \* m_last...RxTimer.elapsed(), up to the limit; never started: the limit
  ok,         \* m_lidarOk, m_imuOk, m_encoderOk, m_egoOk, m_piLaneOk
  locUi,      \* m_gpsHasFix, m_locFromCan and m_locMode
  pollAge,    \* time since the last poll
  watchAge,   \* ... and since the last run of the watchdog
  heard,      \* history: time since a source of the sensor was last heard
  steady,     \* history: for how long it has been heard often enough
  located     \* history: 0x10A has been received

feedVars == <<fresh, locMode, gps>>
pillVars == <<stopwatch, ok, locUi>>
timeVars == <<pollAge, watchAge, heard, steady, located>>
sensorVars == <<feedVars, pillVars, timeVars>>

\* A sensor is called online at most this long after it fell silent.
Notice(s) == Stale[s] + PollPeriod + WatchPeriod

\* A sensor heard again within this time never lets its stopwatch run out, and
\* after so long it must be called online.
OftenEnough(s) == Stale[s] - PollPeriod
LongEnough == PollPeriod + WatchPeriod + 1

SensorTypeOK ==
  /\ fresh \subseteq Source
  /\ locMode \in LocMode
  /\ gps \in [fix: BOOLEAN, dirty: BOOLEAN]
  /\ stopwatch \in [Sensor -> Nat]
  /\ \A s \in Sensor : stopwatch[s] <= Stale[s]
  /\ ok \in [Sensor -> BOOLEAN]
  /\ locUi \in [fix: BOOLEAN, fromCan: BOOLEAN, mode: LocMode]
  /\ pollAge \in 0..PollPeriod
  /\ watchAge \in 0..WatchPeriod
  /\ heard \in [Sensor -> Nat]
  /\ \A s \in Sensor : heard[s] <= Notice(s)
  /\ steady \in [Sensor -> 0..LongEnough]
  /\ located \in BOOLEAN

SensorInit ==
  /\ fresh = {}
  /\ locMode = "INIT"
  /\ gps = [fix |-> FALSE, dirty |-> FALSE]
  /\ stopwatch = Stale
  /\ ok = [s \in Sensor |-> FALSE]
  /\ locUi = [fix |-> FALSE, fromCan |-> FALSE, mode |-> "INIT"]
  /\ pollAge = 0
  /\ watchAge = 0
  /\ heard = [s \in Sensor |-> Notice(s)]
  /\ steady = [s \in Sensor |-> 0]
  /\ located = FALSE

-----------------------------------------------------------------------------
(* The worker threads: each writes its snapshot in one lock section.        *)

Hear(c) ==
  /\ fresh' = fresh \cup {c}
  /\ heard' = [heard EXCEPT ![Feeds[c]] = 0]
  /\ UNCHANGED <<gps, pillVars, pollAge, watchAge, steady>>

\* decodeObstacle(), decodeStm32Imu(), decodeStm32Encoder(), decodeEgoPose(): the
\* values of a heartbeat are beside the point.
DecodeHeartbeat(c) == Hear(c) /\ UNCHANGED <<locMode, located>>

DecodeLocalizationStatus(mode) ==
  /\ locMode' = mode
  /\ located' = TRUE
  /\ Hear(Loc)

\* I2cImuBridge::sampleTick() with a successful read; a failed one changes
\* nothing.
SampleTick == Hear(Imu) /\ UNCHANGED <<locMode, located>>

\* parseRMC() with status A or V, parseGGA() with quality 1.. or 0.
ParseSentence(fix) ==
  /\ gps' = [fix |-> fix, dirty |-> TRUE]
  /\ UNCHANGED <<fresh, locMode, pillVars, timeVars>>

-----------------------------------------------------------------------------
(* The UI thread.                                                           *)

\* Seeded fault: any source restarts every stopwatch.
Restarted_All(sources) ==
  [s \in Sensor |-> IF sources # {} THEN 0 ELSE stopwatch[s]]

\* applyObstacle(), applyImuFromCan(), applyImu(), applyEncoder(), applyEgoPose(),
\* applyLocalizationStatus(): m_last...RxTimer.start().
Restarted(sources) ==
  [s \in Sensor |-> IF \E c \in sources : Feeds[c] = s THEN 0 ELSE stopwatch[s]]

ApplyLocalizationStatus(u, mode) == [u EXCEPT !.fromCan = TRUE, !.mode = mode]

\* Seeded fault: the GPS overrules the vehicle.
RecomputeLocalization_Always(u) ==
  [u EXCEPT !.mode = IF u.fix THEN "GPS" ELSE "INIT"]

RecomputeLocalization(u) ==
  IF u.fromCan THEN u ELSE [u EXCEPT !.mode = IF u.fix THEN "GPS" ELSE "INIT"]

ApplyGps(u, fix) == RecomputeLocalization([u EXCEPT !.fix = fix])

\* uiPoll: 0x10A is applied before the GPS.
Poll ==
  LET afterCan ==
        IF Loc \in fresh THEN ApplyLocalizationStatus(locUi, locMode) ELSE locUi IN
  /\ stopwatch' = Restarted(fresh)
  /\ locUi' = IF gps.dirty THEN ApplyGps(afterCan, gps.fix) ELSE afterCan
  /\ fresh' = {}
  /\ gps' = [gps EXCEPT !.dirty = FALSE]
  /\ pollAge' = 0
  /\ UNCHANGED <<locMode, ok, watchAge, heard, steady, located>>

\* Seeded fault: a sensor is called online only in its first half.
Watchdog_Hasty ==
  /\ ok' = [s \in Sensor |-> 2 * stopwatch[s] < Stale[s]]
  /\ watchAge' = 0
  /\ UNCHANGED <<feedVars, stopwatch, locUi, pollAge, heard, steady, located>>

\* The timeout of m_sensorWatchdog.
Watchdog ==
  /\ ok' = [s \in Sensor |-> stopwatch[s] < Stale[s]]
  /\ watchAge' = 0
  /\ UNCHANGED <<feedVars, stopwatch, locUi, pollAge, heard, steady, located>>

\* Time passes; both timers of the UI thread keep their periods.
Older(age, s) == IF age < Notice(s) THEN age + 1 ELSE age

Tick ==
  /\ pollAge < PollPeriod /\ watchAge < WatchPeriod
  /\ pollAge' = pollAge + 1
  /\ watchAge' = watchAge + 1
  /\ stopwatch' = [s \in Sensor |->
       IF stopwatch[s] < Stale[s] THEN stopwatch[s] + 1 ELSE stopwatch[s]]
  /\ heard' = [s \in Sensor |-> Older(heard[s], s)]
  /\ steady' = [s \in Sensor |->
       IF Older(heard[s], s) >= OftenEnough(s) THEN 0
       ELSE IF steady[s] < LongEnough THEN steady[s] + 1 ELSE steady[s]]
  /\ UNCHANGED <<feedVars, ok, locUi, located>>

SensorNext ==
  \/ \E c \in CanSource \ {Loc} : DecodeHeartbeat(c)
  \/ \E mode \in LocMode : DecodeLocalizationStatus(mode)
  \/ SampleTick
  \/ \E fix \in BOOLEAN : ParseSentence(fix)
  \/ Poll
  \/ Watchdog
  \/ Tick

SensorSpec == SensorInit /\ [][SensorNext]_sensorVars

-----------------------------------------------------------------------------
\* An online pill tells that the sensor was heard of
\* lately, by one of its sources: no delay of the poll or the watchdog within
\* their periods keeps a dead sensor online for longer.
OkMeansHeard == \A s \in Sensor : ok[s] => heard[s] < Notice(s)

\* A sensor that keeps reporting is never called offline, however its frames,
\* the poll and the watchdog fall.
SteadyIsOk ==
  \A s \in Sensor : steady[s] = LongEnough => ok[s]

\* Once the poll has drained both sources, the mode shown is the vehicle's last
\* report, and before there is one it follows the last GPS sentence.
ModeFollows ==
  Loc \notin fresh /\ ~gps.dirty =>
    locUi.mode = IF located THEN locMode ELSE IF gps.fix THEN "GPS" ELSE "INIT"

=============================================================================
