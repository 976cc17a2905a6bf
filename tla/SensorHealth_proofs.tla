------------------------- MODULE SensorHealth_proofs -------------------------
(***************************************************************************)
(* Proofs about the "online" pills and the localization mode, for any      *)
(* sensors and sources, any limits above the poll's period and any periods *)
(* of the two timers.                                                      *)
(***************************************************************************)
EXTENDS SensorHealth, TLAPS

\* What is heard waits for the poll for less than its period; a stopwatch is at
\* most the poll's period ahead of what was heard, and never behind it unless a
\* flag is up.
Waits == \A c \in fresh : heard[Feeds[c]] <= pollAge

NotYoung == \A s \in Sensor :
  stopwatch[s] < Stale[s] => heard[s] <= stopwatch[s] + PollPeriod

NotOld == \A s \in Sensor :
  (\E c \in fresh : Feeds[c] = s) \/ stopwatch[s] <= heard[s]

\* A pill that is on was right when the watchdog last ran.
Judged == \A s \in Sensor :
  ok[s] => heard[s] < Stale[s] + PollPeriod + watchAge

\* A sensor that has reported often enough for a while has been heard lately;
\* once a poll has seen it, its stopwatch is low; once the watchdog has, it is on.
Steadily == \A s \in Sensor :
  /\ steady[s] >= 1 => heard[s] < OftenEnough(s)
  /\ steady[s] >= 1 + pollAge => stopwatch[s] < OftenEnough(s) + pollAge
  /\ steady[s] >= 1 + PollPeriod + watchAge => ok[s]

\* What the mode shown is made of.
Modes ==
  /\ locUi.fromCan => located
  /\ Loc \notin fresh /\ located => locUi.fromCan /\ locUi.mode = locMode
  /\ Loc \in fresh => located
  /\ ~gps.dirty => locUi.fix = gps.fix
  /\ ~locUi.fromCan => locUi.mode = IF locUi.fix THEN "GPS" ELSE "INIT"

IInv == SensorTypeOK /\ Waits /\ NotYoung /\ NotOld /\ Judged /\ Steadily /\ Modes

-----------------------------------------------------------------------------
LEMMA Limits ==
  /\ \A s \in Sensor : /\ Stale[s] \in Nat /\ Stale[s] > PollPeriod
                       /\ Notice(s) \in Nat /\ Notice(s) = Stale[s] + PollPeriod + WatchPeriod
                       /\ OftenEnough(s) \in Nat /\ OftenEnough(s) = Stale[s] - PollPeriod
  /\ PollPeriod \in Nat /\ WatchPeriod \in Nat
  /\ LongEnough \in Nat /\ LongEnough = PollPeriod + WatchPeriod + 1
  /\ PollPeriod >= 1 /\ WatchPeriod >= 1
  BY SensorAssumption DEF Notice, OftenEnough, LongEnough

LEMMA InitOK == SensorInit => IInv
<1>. SUFFICES ASSUME SensorInit PROVE IInv
  OBVIOUS
<1>1. SensorTypeOK
  <2>1. stopwatch \in [Sensor -> Nat] /\ (\A s \in Sensor : stopwatch[s] <= Stale[s])
    BY Limits, SensorAssumption DEF SensorInit
  <2>2. heard \in [Sensor -> Nat] /\ (\A s \in Sensor : heard[s] <= Notice(s))
    BY Limits DEF SensorInit
  <2>3. steady \in [Sensor -> 0..LongEnough] /\ ok \in [Sensor -> BOOLEAN]
    BY Limits DEF SensorInit
  <2>4. locUi \in [fix: BOOLEAN, fromCan: BOOLEAN, mode: LocMode]
        /\ gps \in [fix: BOOLEAN, dirty: BOOLEAN] /\ locMode \in LocMode
    BY SensorAssumption DEF SensorInit
  <2>5. fresh \subseteq Source /\ located \in BOOLEAN
    BY DEF SensorInit
  <2>6. pollAge \in 0..PollPeriod /\ watchAge \in 0..WatchPeriod
    <3>1. pollAge = 0 /\ watchAge = 0
      BY DEF SensorInit
    <3>. QED
      BY <3>1, Limits
  <2>. QED
    BY <2>1, <2>2, <2>3, <2>4, <2>5, <2>6 DEF SensorTypeOK
<1>2. Waits /\ NotYoung /\ NotOld
  BY Limits DEF SensorInit, Waits, NotYoung, NotOld
<1>3. Judged /\ Steadily
  BY Limits DEF SensorInit, Judged, Steadily
<1>4. Modes
  BY DEF SensorInit, Modes
<1>. QED
  BY <1>1, <1>2, <1>3, <1>4 DEF IInv

-----------------------------------------------------------------------------
(* The worker threads.                                                      *)

\* Hearing a source makes its sensor's age zero and lets its flag wait.
LEMMA HearOK ==
  ASSUME IInv, NEW c \in Source, Hear(c)
  PROVE  Waits' /\ NotYoung' /\ NotOld' /\ Judged' /\ Steadily'
<1>1. Feeds[c] \in Sensor
  BY SensorAssumption
<1>2. \A d \in Source : Feeds[d] \in Sensor
  BY SensorAssumption
<1>3. heard \in [Sensor -> Nat] /\ stopwatch \in [Sensor -> Nat] /\ fresh \subseteq Source
      /\ pollAge \in Nat /\ watchAge \in Nat
  BY Limits DEF IInv, SensorTypeOK
<1>4. \A s \in Sensor : heard'[s] = IF s = Feeds[c] THEN 0 ELSE heard[s]
  BY <1>1, <1>3 DEF Hear
<1>5. Waits'
  BY <1>2, <1>3, <1>4 DEF IInv, Waits, Hear
<1>6. NotYoung'
  BY <1>3, <1>4, Limits DEF IInv, NotYoung, Hear, pillVars
<1>7. NotOld'
  BY <1>3, <1>4 DEF IInv, NotOld, Hear, pillVars
<1>8. Judged'
  BY <1>3, <1>4, Limits DEF IInv, Judged, Hear, pillVars
<1>9. Steadily'
  <2>. SUFFICES ASSUME NEW s \in Sensor
       PROVE  /\ steady'[s] >= 1 => heard'[s] < OftenEnough(s)
              /\ steady'[s] >= 1 + pollAge' => stopwatch'[s] < OftenEnough(s) + pollAge'
              /\ steady'[s] >= 1 + PollPeriod + watchAge' => ok'[s]
    BY DEF Steadily, OftenEnough
  <2>1. /\ steady[s] >= 1 => heard[s] < OftenEnough(s)
        /\ steady[s] >= 1 + pollAge => stopwatch[s] < OftenEnough(s) + pollAge
        /\ steady[s] >= 1 + PollPeriod + watchAge => ok[s]
    BY DEF IInv, Steadily
  <2>2. steady' = steady /\ stopwatch' = stopwatch /\ ok' = ok
        /\ pollAge' = pollAge /\ watchAge' = watchAge
    BY DEF Hear, pillVars
  <2>3. heard'[s] <= heard[s] /\ heard'[s] \in Nat /\ heard[s] \in Nat
    BY <1>3, <1>4
  <2>. QED
    BY <2>1, <2>2, <2>3, Limits
<1>. QED
  BY <1>5, <1>6, <1>7, <1>8, <1>9

LEMMA HearTypes ==
  ASSUME SensorTypeOK, NEW c \in Source, Hear(c), locMode' \in LocMode, located' \in BOOLEAN
  PROVE  SensorTypeOK'
<1>1. Feeds[c] \in Sensor
  BY SensorAssumption
<1>2. heard' \in [Sensor -> Nat] /\ (\A s \in Sensor : heard'[s] <= Notice(s))
  BY <1>1, Limits DEF SensorTypeOK, Hear
<1>. QED
  BY <1>2 DEF SensorTypeOK, Hear, pillVars, Notice

\* A message other than 0x10A leaves the localization alone.
LEMMA HeartbeatOK ==
  ASSUME IInv, NEW c \in Source \ {Loc}, Hear(c), UNCHANGED <<locMode, located>>
  PROVE  IInv'
<1>1. SensorTypeOK'
  BY HearTypes DEF IInv, SensorTypeOK
<1>2. Modes'
  BY DEF IInv, Modes, Hear, pillVars
<1>. QED
  BY <1>1, <1>2, HearOK DEF IInv

LEMMA LocalizationOK ==
  ASSUME IInv, NEW mode \in LocMode, DecodeLocalizationStatus(mode)
  PROVE  IInv'
<1>1. Loc \in Source
  BY SensorAssumption DEF Source
<1>2. SensorTypeOK'
  BY <1>1, HearTypes DEF IInv, DecodeLocalizationStatus
<1>3. Modes'
  BY DEF IInv, Modes, DecodeLocalizationStatus, Hear, pillVars
<1>. QED
  BY <1>1, <1>2, <1>3, HearOK DEF IInv, DecodeLocalizationStatus

LEMMA SentenceOK ==
  ASSUME IInv, NEW fix \in BOOLEAN, ParseSentence(fix)
  PROVE  IInv'
<1>1. SensorTypeOK'
  BY DEF IInv, SensorTypeOK, ParseSentence, pillVars, timeVars
<1>2. Waits' /\ NotYoung' /\ NotOld' /\ Judged' /\ Steadily'
  BY DEF IInv, Waits, NotYoung, NotOld, Judged, Steadily, ParseSentence, pillVars, timeVars
<1>3. Modes'
  BY DEF IInv, Modes, ParseSentence, pillVars, timeVars
<1>. QED
  BY <1>1, <1>2, <1>3 DEF IInv

-----------------------------------------------------------------------------
(* The UI thread.                                                           *)

\* The fields the poll gives the localization.
LEMMA PollFields ==
  ASSUME IInv, Poll
  PROVE  /\ locUi'.fix = IF gps.dirty THEN gps.fix ELSE locUi.fix
         /\ locUi'.fromCan = (Loc \in fresh \/ locUi.fromCan)
         /\ locUi'.mode = IF Loc \in fresh THEN locMode
                       ELSE IF locUi.fromCan \/ ~gps.dirty THEN locUi.mode
                       ELSE IF gps.fix THEN "GPS" ELSE "INIT"
         /\ locUi' \in [fix: BOOLEAN, fromCan: BOOLEAN, mode: LocMode]
<1>. DEFINE UI == [fix: BOOLEAN, fromCan: BOOLEAN, mode: LocMode]
<1>1. locUi \in UI /\ gps \in [fix: BOOLEAN, dirty: BOOLEAN] /\ locMode \in LocMode
  BY DEF IInv, SensorTypeOK
<1>2. "INIT" \in LocMode /\ "GPS" \in LocMode
  BY SensorAssumption
<1>3. PICK u \in UI :
        /\ u.fix = locUi.fix /\ u.fromCan = (Loc \in fresh \/ locUi.fromCan)
        /\ u.mode = IF Loc \in fresh THEN locMode ELSE locUi.mode
        /\ locUi' = IF gps.dirty THEN ApplyGps(u, gps.fix) ELSE u
  <2>1. CASE Loc \in fresh
    BY <2>1, <1>1 DEF Poll, ApplyLocalizationStatus
  <2>2. CASE Loc \notin fresh
    BY <2>2, <1>1 DEF Poll
  <2>. QED
    BY <2>1, <2>2
<1>4. CASE ~gps.dirty
  BY <1>1, <1>3, <1>4
<1>5. CASE gps.dirty /\ u.fromCan
  BY <1>1, <1>3, <1>5 DEF ApplyGps, RecomputeLocalization
<1>6. CASE gps.dirty /\ ~u.fromCan
  BY <1>1, <1>2, <1>3, <1>6 DEF ApplyGps, RecomputeLocalization
<1>. QED
  BY <1>1, <1>4, <1>5, <1>6

LEMMA PollOK == ASSUME IInv, Poll PROVE IInv'
<1>1. stopwatch \in [Sensor -> Nat] /\ heard \in [Sensor -> Nat] /\ pollAge \in Nat
  BY Limits DEF IInv, SensorTypeOK
<1>2. stopwatch' \in [Sensor -> Nat]
      /\ (\A s \in Sensor : stopwatch'[s] = IF \E c \in fresh : Feeds[c] = s THEN 0
                                             ELSE stopwatch[s])
  BY <1>1 DEF Poll, Restarted
<1>3. SensorTypeOK'
  <2>1. \A s \in Sensor : stopwatch'[s] <= Stale[s]
    BY <1>2, Limits DEF IInv, SensorTypeOK
  <2>2. locUi' \in [fix: BOOLEAN, fromCan: BOOLEAN, mode: LocMode]
    BY PollFields
  <2>3. gps' \in [fix: BOOLEAN, dirty: BOOLEAN]
    BY DEF IInv, SensorTypeOK, Poll
  <2>4. fresh' \subseteq Source /\ pollAge' \in 0..PollPeriod
    BY Limits DEF Poll
  <2>. QED
    BY <1>2, <2>1, <2>2, <2>3, <2>4 DEF IInv, SensorTypeOK, Poll
<1>4. Waits' /\ Judged'
  BY DEF IInv, Waits, Judged, Poll
<1>5. NotYoung'
  <2>1. \A s \in Sensor : (\E c \in fresh : Feeds[c] = s) => heard[s] <= PollPeriod
    BY <1>1, Limits DEF IInv, SensorTypeOK, Waits
  <2>. QED
    BY <1>1, <1>2, <2>1, Limits DEF IInv, NotYoung, Poll
<1>6. NotOld'
  BY <1>1, <1>2 DEF IInv, NotOld, Poll
<1>7. Steadily'
  <2>. SUFFICES ASSUME NEW s \in Sensor
       PROVE  /\ steady'[s] >= 1 => heard'[s] < OftenEnough(s)
              /\ steady'[s] >= 1 + pollAge' => stopwatch'[s] < OftenEnough(s) + pollAge'
              /\ steady'[s] >= 1 + PollPeriod + watchAge' => ok'[s]
    BY DEF Steadily, OftenEnough
  <2>1. steady' = steady /\ heard' = heard /\ ok' = ok /\ watchAge' = watchAge /\ pollAge' = 0
    BY DEF Poll
  <2>2. /\ steady[s] >= 1 => heard[s] < OftenEnough(s)
        /\ steady[s] >= 1 + PollPeriod + watchAge => ok[s]
    BY DEF IInv, Steadily
  <2>3. stopwatch'[s] = 0 \/ stopwatch'[s] <= heard[s]
    BY <1>1, <1>2 DEF IInv, NotOld
  <2>4. heard[s] \in Nat /\ stopwatch'[s] \in Nat
    BY <1>1, <1>2
  <2>. QED
    BY <2>1, <2>2, <2>3, <2>4, Limits
<1>8. Modes'
  BY PollFields DEF IInv, SensorTypeOK, Modes, Poll
<1>. QED
  BY <1>3, <1>4, <1>5, <1>6, <1>7, <1>8 DEF IInv

LEMMA WatchdogOK == ASSUME IInv, Watchdog PROVE IInv'
<1>1. stopwatch \in [Sensor -> Nat] /\ heard \in [Sensor -> Nat]
      /\ pollAge \in Nat /\ pollAge <= PollPeriod
  BY Limits DEF IInv, SensorTypeOK
<1>2. ok' \in [Sensor -> BOOLEAN] /\ (\A s \in Sensor : ok'[s] = (stopwatch[s] < Stale[s]))
  BY DEF Watchdog
<1>3. watchAge' = 0
  BY DEF Watchdog
<1>4. SensorTypeOK'
  BY <1>2, <1>3, Limits DEF IInv, SensorTypeOK, Watchdog, feedVars
<1>5. Waits' /\ NotYoung' /\ NotOld' /\ Modes'
  BY DEF IInv, Waits, NotYoung, NotOld, Modes, Watchdog, feedVars
<1>6. Judged'
  <2>. SUFFICES ASSUME NEW s \in Sensor, ok'[s]
       PROVE  heard[s] < Stale[s] + PollPeriod
    BY <1>1, <1>3, Limits DEF Judged, Watchdog
  <2>1. stopwatch[s] < Stale[s]
    BY <1>2
  <2>2. heard[s] <= stopwatch[s] + PollPeriod
    BY <2>1 DEF IInv, NotYoung
  <2>. QED
    BY <1>1, <2>1, <2>2, Limits
<1>7. Steadily'
  <2>. SUFFICES ASSUME NEW s \in Sensor
       PROVE  /\ steady'[s] >= 1 => heard'[s] < OftenEnough(s)
              /\ steady'[s] >= 1 + pollAge' => stopwatch'[s] < OftenEnough(s) + pollAge'
              /\ steady'[s] >= 1 + PollPeriod + watchAge' => ok'[s]
    BY DEF Steadily, OftenEnough
  <2>1. steady' = steady /\ heard' = heard /\ stopwatch' = stopwatch /\ pollAge' = pollAge
    BY DEF Watchdog
  <2>2. /\ steady[s] >= 1 => heard[s] < OftenEnough(s)
        /\ steady[s] >= 1 + pollAge => stopwatch[s] < OftenEnough(s) + pollAge
    BY DEF IInv, Steadily
  <2>3. steady[s] \in Nat /\ stopwatch[s] \in Nat
    BY <1>1, Limits DEF IInv, SensorTypeOK
  <2>4. steady[s] >= 1 + PollPeriod => stopwatch[s] < Stale[s]
    BY <1>1, <2>2, <2>3, Limits
  <2>5. steady[s] >= 1 + PollPeriod => ok'[s]
    BY <1>2, <2>4
  <2>. QED
    BY <1>3, <2>1, <2>2, <2>5, Limits
<1>. QED
  BY <1>4, <1>5, <1>6, <1>7 DEF IInv

LEMMA TickOK == ASSUME IInv, Tick PROVE IInv'
<1>1. /\ stopwatch \in [Sensor -> Nat] /\ heard \in [Sensor -> Nat] /\ steady \in [Sensor -> Nat]
      /\ pollAge \in Nat /\ pollAge < PollPeriod /\ watchAge \in Nat /\ watchAge < WatchPeriod
      /\ \A s \in Sensor : heard[s] <= Notice(s) /\ stopwatch[s] <= Stale[s]
                           /\ steady[s] <= LongEnough
  BY Limits DEF IInv, SensorTypeOK, Tick
<1>2. pollAge' = pollAge + 1 /\ watchAge' = watchAge + 1
      /\ UNCHANGED <<fresh, locMode, gps, ok, locUi, located>>
  BY DEF Tick, feedVars
<1>3. stopwatch' \in [Sensor -> Nat]
      /\ \A s \in Sensor : stopwatch'[s] = IF stopwatch[s] < Stale[s] THEN stopwatch[s] + 1
                                             ELSE stopwatch[s]
  BY <1>1 DEF Tick
<1>4. heard' \in [Sensor -> Nat]
      /\ \A s \in Sensor : heard'[s] = IF heard[s] < Notice(s) THEN heard[s] + 1 ELSE heard[s]
  BY <1>1 DEF Tick, Older
<1>5. /\ steady' \in [Sensor -> Nat]
      /\ \A s \in Sensor : steady'[s] = IF heard'[s] >= OftenEnough(s) THEN 0
                                         ELSE IF steady[s] < LongEnough THEN steady[s] + 1
                                         ELSE steady[s]
  BY <1>1, <1>4 DEF Tick, Older
<1>6. SensorTypeOK'
  <2>1. \A s \in Sensor : stopwatch'[s] <= Stale[s] /\ heard'[s] <= Notice(s)
    BY <1>1, <1>3, <1>4, Limits
  <2>2. \A s \in Sensor : steady'[s] <= LongEnough
    BY <1>1, <1>5, Limits
  <2>3. steady' \in [Sensor -> 0..LongEnough]
    BY <1>5, <2>2, Limits
  <2>4. pollAge' \in 0..PollPeriod /\ watchAge' \in 0..WatchPeriod
    BY <1>1, <1>2, Limits
  <2>. QED
    BY <1>2, <1>3, <1>4, <2>1, <2>3, <2>4, Limits DEF IInv, SensorTypeOK, Notice
<1>7. Waits'
  <2>1. \A c \in fresh : Feeds[c] \in Sensor
    BY SensorAssumption DEF IInv, SensorTypeOK
  <2>2. \A c \in fresh : heard[Feeds[c]] <= pollAge
    BY DEF IInv, Waits
  <2>3. \A c \in fresh : heard'[Feeds[c]] <= pollAge + 1
    BY <1>1, <1>4, <2>1, <2>2, Limits
  <2>. QED
    BY <1>2, <2>3 DEF Waits
<1>8. NotYoung'
  BY <1>1, <1>3, <1>4, Limits DEF IInv, NotYoung
<1>9. NotOld'
  BY <1>1, <1>2, <1>3, <1>4, Limits DEF IInv, NotOld
<1>10. Judged'
  BY <1>1, <1>2, <1>4, Limits DEF IInv, Judged
<1>11. Steadily'
  <2>. SUFFICES ASSUME NEW s \in Sensor
       PROVE  /\ steady'[s] >= 1 => heard'[s] < OftenEnough(s)
              /\ steady'[s] >= 1 + pollAge' => stopwatch'[s] < OftenEnough(s) + pollAge'
              /\ steady'[s] >= 1 + PollPeriod + watchAge' => ok'[s]
    BY DEF Steadily, OftenEnough
  <2>1. /\ steady[s] >= 1 + pollAge => stopwatch[s] < OftenEnough(s) + pollAge
        /\ steady[s] >= 1 + PollPeriod + watchAge => ok[s]
    BY DEF IInv, Steadily
  <2>2. steady'[s] >= 1 => heard'[s] < OftenEnough(s)
    BY <1>4, <1>5, Limits
  <2>3. steady'[s] >= 2 + pollAge => steady[s] >= 1 + pollAge
    BY <1>1, <1>5, Limits
  <2>4. steady'[s] >= 2 + PollPeriod + watchAge => steady[s] >= 1 + PollPeriod + watchAge
    BY <1>1, <1>5, Limits
  <2>5. stopwatch'[s] <= stopwatch[s] + 1 /\ stopwatch'[s] \in Nat /\ stopwatch[s] \in Nat
    BY <1>1, <1>3
  <2>6. steady'[s] >= 1 + pollAge' => stopwatch'[s] < OftenEnough(s) + pollAge'
    BY <1>1, <1>2, <1>5, <2>1, <2>3, <2>5, Limits
  <2>7. steady'[s] >= 1 + PollPeriod + watchAge' => ok'[s]
    BY <1>1, <1>2, <1>5, <2>1, <2>4, Limits
  <2>. QED
    BY <2>2, <2>6, <2>7
<1>12. Modes'
  BY <1>2 DEF IInv, Modes
<1>. QED
  BY <1>6, <1>7, <1>8, <1>9, <1>10, <1>11, <1>12 DEF IInv

-----------------------------------------------------------------------------
\* The invariant is inductive: every action of the workers, the poll, the
\* watchdog and time keeps it.
THEOREM Inductive == IInv /\ [SensorNext]_sensorVars => IInv'
<1>. SUFFICES ASSUME IInv, [SensorNext]_sensorVars PROVE IInv'
  OBVIOUS
<1>1. ASSUME NEW c \in CanSource \ {Loc}, DecodeHeartbeat(c) PROVE IInv'
  BY <1>1, HeartbeatOK DEF DecodeHeartbeat, Source
<1>2. ASSUME NEW mode \in LocMode, DecodeLocalizationStatus(mode) PROVE IInv'
  BY <1>2, LocalizationOK
<1>3. CASE SampleTick
  BY <1>3, HeartbeatOK, SensorAssumption DEF SampleTick, Source
<1>4. ASSUME NEW fix \in BOOLEAN, ParseSentence(fix) PROVE IInv'
  BY <1>4, SentenceOK
<1>5. CASE Poll
  BY <1>5, PollOK
<1>6. CASE Watchdog
  BY <1>6, WatchdogOK
<1>7. CASE Tick
  BY <1>7, TickOK
<1>8. CASE UNCHANGED sensorVars
  BY <1>8 DEF IInv, SensorTypeOK, Waits, NotYoung, NotOld, Judged, Steadily, Modes,
              sensorVars, feedVars, pillVars, timeVars
<1>. QED
  BY <1>1, <1>2, <1>3, <1>4, <1>5, <1>6, <1>7, <1>8 DEF SensorNext

LEMMA Invariance == SensorSpec => []IInv
  BY InitOK, Inductive, PTL DEF SensorSpec

\* Every variable keeps its type: no age runs past its limit.
THEOREM TypeCorrect == SensorSpec => []SensorTypeOK
<1>1. IInv => SensorTypeOK
  BY DEF IInv
<1>. QED
  BY <1>1, Invariance, PTL

\* A pill is never on for longer than limit, poll and watchdog allow.
THEOREM OnlineIsHeard == SensorSpec => []OkMeansHeard
<1>1. IInv => OkMeansHeard
  <2>1. ASSUME IInv, NEW s \in Sensor, ok[s] PROVE heard[s] < Notice(s)
    <3>1. watchAge \in Nat /\ watchAge <= WatchPeriod /\ heard[s] \in Nat
      BY <2>1, Limits DEF IInv, SensorTypeOK
    <3>2. heard[s] < Stale[s] + PollPeriod + watchAge
      BY <2>1 DEF IInv, Judged
    <3>. QED
      BY <3>1, <3>2, Limits
  <2>. QED
    BY <2>1 DEF OkMeansHeard
<1>. QED
  BY <1>1, Invariance, PTL

\* A sensor that keeps reporting is never called offline.
THEOREM SteadyIsOnline == SensorSpec => []SteadyIsOk
<1>1. IInv => SteadyIsOk
  <2>1. ASSUME IInv, NEW s \in Sensor, steady[s] = LongEnough PROVE ok[s]
    <3>1. watchAge \in Nat /\ watchAge <= WatchPeriod
      BY <2>1, Limits DEF IInv, SensorTypeOK
    <3>2. steady[s] >= 1 + PollPeriod + watchAge
      BY <2>1, <3>1, Limits
    <3>. QED
      BY <2>1, <3>2 DEF IInv, Steadily
  <2>. QED
    BY <2>1 DEF SteadyIsOk
<1>. QED
  BY <1>1, Invariance, PTL

\* The mode shown is the vehicle's, and the receiver's before there is one.
THEOREM ModeIsFollowed == SensorSpec => []ModeFollows
<1>1. IInv => ModeFollows
  BY DEF IInv, Modes, ModeFollows
<1>. QED
  BY <1>1, Invariance, PTL

=============================================================================
