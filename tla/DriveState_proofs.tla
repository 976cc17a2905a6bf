-------------------------- MODULE DriveState_proofs --------------------------
(***************************************************************************)
(* Proofs about the dashboard's view of a drive, for any driving states,   *)
(* any reports of the vehicle and any number of changes: the counters, the *)
(* planning window, and the derived behaviour.                             *)
(***************************************************************************)
EXTENDS DriveState, TLAPS

\* The derived behaviour of u is up to date, unless the vehicle reports its own.
Up2Date(u) ==
  ~u.fromCan /\ (u.drive # "none" \/ u.distance # "none") => u.behavior = Derived(u)

\* What every apply...() method preserves.
KpiOK(u) ==
  /\ u \in KpiFields
  /\ u.success <= u.total
  /\ u.planOk <= u.planTotal
  /\ u.drive \in {"IDLE", "STOP"} => u.planning
  /\ u.drive \in {"AUTO", "ERROR"} => ~u.planning
  /\ Up2Date(u)

\* The AUTO drives that are still to be counted: those among the states shown,
\* under way and received, read one after the other.
Drives(shown, under, received) ==
  One(shown = "AUTO") + One(shown # "AUTO" /\ under = "AUTO")
                      + One(under # "AUTO" /\ received = "AUTO")

UnderWay == IF client THEN link.drive ELSE ui.drive

\* The obstacle frames u has used up: for detections counted, and for the one that
\* is remembered of the drive under way.
Used(u) == u.detected + One(u.detecting)

\* The one a standalone poll may still use.
Pending == One("obstacle" \in dirty /\ latest.sure)

\* A flag that is up has been raised by a message.
FlagsReported == \A m \in {"behavior", "perception"} : m \in dirty => m \in reported

IInv ==
  /\ TypeOK
  /\ KpiOK(ui)
  /\ ui.total + Drives(ui.drive, UnderWay, latest.drive) <= drives
  /\ FlagsReported
  /\ ~client /\ ui.fromCan => "behavior" \in reported
  /\ ~client /\ "perception" \notin reported => Used(ui) + Pending <= sightings

-----------------------------------------------------------------------------
(* The methods of KpiData.                                                  *)

\* Only the behaviour is derived again, and then it is up to date.
LEMMA RecomputeOK ==
  ASSUME NEW u \in KpiFields
  PROVE  /\ RecomputeBehavior(u) \in KpiFields
         /\ \A f \in DOMAIN u \ {"behavior"} : RecomputeBehavior(u)[f] = u[f]
         /\ Up2Date(RecomputeBehavior(u))
<1>1. Derived(u) \in {"OBSTACLE_STOP", "NUDGE", "LANE_FOLLOW", "STANDBY"}
  BY DEF Derived
<1>2. CASE u.fromCan
  BY <1>2 DEF RecomputeBehavior, Up2Date
<1>3. CASE ~u.fromCan
  <2>. DEFINE w == [u EXCEPT !.behavior = Derived(u)]
  <2>1. RecomputeBehavior(u) = w
    BY <1>3 DEF RecomputeBehavior
  <2>2. w \in KpiFields /\ (\A f \in DOMAIN u \ {"behavior"} : w[f] = u[f])
    BY <1>1 DEF KpiFields
  <2>3. w.behavior = Derived(u) /\ w.drive = u.drive /\ w.distance = u.distance
    BY DEF KpiFields
  <2>4. Derived(w) = Derived(u)
    BY <2>3 DEF Derived
  <2>. QED
    BY <2>1, <2>2, <2>3, <2>4 DEF Up2Date
<1>. QED
  BY <1>2, <1>3

\* The fields of a record of KpiData that is derived again.
LEMMA RecomputeFields ==
  ASSUME NEW u \in KpiFields
  PROVE  LET w == RecomputeBehavior(u) IN
         /\ w \in KpiFields /\ Up2Date(w)
         /\ w.drive = u.drive /\ w.fromCan = u.fromCan
         /\ w.success = u.success /\ w.total = u.total
         /\ w.planOk = u.planOk /\ w.planTotal = u.planTotal
         /\ w.planning = u.planning /\ w.detecting = u.detecting /\ w.detected = u.detected
<1>1. {"drive", "fromCan", "success", "total", "planOk", "planTotal", "planning",
       "detecting", "detected"} \subseteq DOMAIN u \ {"behavior"}
  BY DEF KpiFields
<1>. QED
  BY <1>1, RecomputeOK

\* u with state s, new windows, and its counters raised.
Counted(u, s, a, b, c, d, e, detects, plans, known) ==
  [u EXCEPT !.drive = s, !.success = @ + a, !.total = @ + b,
            !.detected = @ + c, !.detecting = detects,
            !.planOk = @ + d, !.planTotal = @ + e,
            !.planning = plans, !.hasPlan = known]

\* A mission is counted only when AUTO is left, and once; a detection that is counted
\* is not remembered any more.
LEMMA VehicleOK ==
  ASSUME NEW u, KpiOK(u), NEW s \in DriveName \cup {"none"}
  PROVE  LET w == ApplyVehicleStatus(u, s) IN
         /\ KpiOK(w)
         /\ w.drive = s
         /\ w.fromCan = u.fromCan
         /\ w.total <= u.total + One(u.drive = "AUTO" /\ s # "AUTO")
         /\ Used(w) <= Used(u)
<1>. DEFINE moved    == s # u.drive
            left     == moved /\ u.drive = "AUTO"
            begins   == moved /\ s \in {"IDLE", "STOP"}
            planned  == moved /\ s = "AUTO" /\ u.planning
            failed   == moved /\ s = "ERROR" /\ u.planning
            attached == moved /\ s = "AUTO" /\ ~u.planning /\ ~u.hasPlan
<1>2. /\ u \in KpiFields
      /\ u.success <= u.total /\ u.planOk <= u.planTotal
      /\ u.detecting \in BOOLEAN
      /\ u.drive \in {"IDLE", "STOP"} => u.planning
      /\ u.drive \in {"AUTO", "ERROR"} => ~u.planning
  BY DEF KpiOK, KpiFields
<1>3. /\ u.success \in Nat /\ u.total \in Nat /\ u.detected \in Nat
      /\ u.planOk \in Nat /\ u.planTotal \in Nat
  BY <1>2 DEF KpiFields
<1>4. PICK a \in {0, 1}, b \in {0, 1}, d \in {0, 1}, e \in {0, 1}, f \in {0, 1} :
        /\ a = One(left /\ s = "STOP")
        /\ b = One(left /\ s \in {"STOP", "ERROR"})
        /\ d = One(planned \/ attached)
        /\ e = One(planned \/ failed \/ attached)
        /\ f = One(u.drive = "AUTO" /\ s # "AUTO")
  BY Zenon DEF One
<1>5. PICK c \in {0, 1} : c = One(left /\ u.detecting)
  BY Zenon DEF One
<1>6. PICK detects \in BOOLEAN, plans \in BOOLEAN, known \in BOOLEAN :
        /\ detects = (u.detecting /\ ~left)
        /\ plans = (begins \/ (u.planning /\ ~planned /\ ~failed))
        /\ known = (u.hasPlan \/ planned \/ failed \/ attached)
  BY Zenon
<1>7. a <= b /\ b <= f /\ d <= e
  <2>1. a = 1 => b = 1
    BY <1>4, Zenon DEF One
  <2>2. b = 1 => f = 1
    BY <1>4, Zenon DEF One
  <2>3. d = 1 => e = 1
    BY <1>4, Zenon DEF One
  <2>. QED
    BY <2>1, <2>2, <2>3
<1>8. /\ s \in {"IDLE", "STOP"} => plans
      /\ s \in {"AUTO", "ERROR"} => ~plans
  BY <1>2, <1>6
<1>9. PICK x : x = Counted(u, s, a, b, c, d, e, detects, plans, known)
  OBVIOUS
<1>. DEFINE w == RecomputeBehavior(x)
<1>10. ApplyVehicleStatus(u, s) = w
  BY <1>4, <1>5, <1>6, <1>9, Zenon DEF ApplyVehicleStatus, Counted
<1>. HIDE DEF w
<1>11. /\ x \in KpiFields
       /\ x.drive = s /\ x.fromCan = u.fromCan
       /\ x.success = u.success + a /\ x.total = u.total + b
       /\ x.planOk = u.planOk + d /\ x.planTotal = u.planTotal + e
       /\ x.planning = plans /\ x.detecting = detects /\ x.detected = u.detected + c
  <2>1. /\ u.success + a \in Nat /\ u.total + b \in Nat /\ u.detected + c \in Nat
        /\ u.planOk + d \in Nat /\ u.planTotal + e \in Nat
    BY <1>3
  <2>. DEFINE x1 == [u EXCEPT !.drive = s, !.success = @ + a, !.total = @ + b]
              x2 == [x1 EXCEPT !.detected = @ + c, !.detecting = detects, !.planOk = @ + d]
              x3 == [x2 EXCEPT !.planTotal = @ + e, !.planning = plans, !.hasPlan = known]
  <2>2. /\ x1 \in KpiFields
        /\ x1.drive = s /\ x1.success = u.success + a /\ x1.total = u.total + b
        /\ x1.fromCan = u.fromCan /\ x1.detected = u.detected
        /\ x1.planOk = u.planOk /\ x1.planTotal = u.planTotal
    BY <1>2, <2>1 DEF KpiFields
  <2>. HIDE DEF x1
  <2>3. /\ x2 \in KpiFields
        /\ x2.drive = s /\ x2.success = u.success + a /\ x2.total = u.total + b
        /\ x2.fromCan = u.fromCan /\ x2.detecting = detects /\ x2.detected = u.detected + c
        /\ x2.planOk = u.planOk + d /\ x2.planTotal = u.planTotal
    BY <2>1, <2>2 DEF KpiFields
  <2>. HIDE DEF x2
  <2>4. /\ x3 \in KpiFields
        /\ x3.drive = s /\ x3.success = u.success + a /\ x3.total = u.total + b
        /\ x3.fromCan = u.fromCan /\ x3.detecting = detects
        /\ x3.planOk = u.planOk + d /\ x3.planTotal = u.planTotal + e
        /\ x3.planning = plans /\ x3.detected = u.detected + c
    BY <2>1, <2>3 DEF KpiFields
  <2>. HIDE DEF x3
  <2>5. x3 = x
    BY <1>2, <1>9, Zenon DEF Counted, x1, x2, x3, KpiFields
  <2>. QED
    BY <2>4, <2>5
<1>12. /\ w \in KpiFields /\ Up2Date(w)
       /\ w.drive = x.drive /\ w.fromCan = x.fromCan
       /\ w.success = x.success /\ w.total = x.total
       /\ w.planOk = x.planOk /\ w.planTotal = x.planTotal
       /\ w.planning = x.planning /\ w.detecting = x.detecting /\ w.detected = x.detected
  BY <1>11, RecomputeFields DEF w
<1>13. w.success <= w.total /\ w.total <= u.total + f /\ w.planOk <= w.planTotal
  BY <1>2, <1>3, <1>7, <1>11, <1>12
<1>14. KpiOK(w) /\ w.drive = s /\ w.fromCan = u.fromCan
  BY <1>8, <1>11, <1>12, <1>13 DEF KpiOK
<1>15. Used(w) <= Used(u)
  <2>1. PICK g \in {0, 1}, h \in {0, 1} : g = One(u.detecting) /\ h = One(detects)
    BY Zenon DEF One
  <2>2. c = 1 => g = 1 /\ h = 0
    BY <1>5, <1>6, <2>1, Zenon DEF One
  <2>3. h = 1 => g = 1
    BY <1>6, <2>1, Zenon DEF One
  <2>4. Used(w) = u.detected + c + h /\ Used(u) = u.detected + g
    BY <1>11, <1>12, <2>1 DEF Used
  <2>. QED
    BY <1>3, <2>2, <2>3, <2>4
<1>. QED
  BY <1>4, <1>10, <1>13, <1>14, <1>15

LEMMA ObstacleOK ==
  ASSUME NEW u, KpiOK(u), NEW d \in Distance \cup {"near"}, NEW sure \in BOOLEAN
  PROVE  LET w == ApplyObstacle(u, d, sure) IN
         /\ KpiOK(w) /\ w.drive = u.drive /\ w.total = u.total /\ w.fromCan = u.fromCan
         /\ Used(w) <= Used(u) + One(sure)
<1>. DEFINE x == [u EXCEPT !.distance = d, !.detecting = @ \/ (u.drive = "AUTO" /\ sure)]
<1>1. ApplyObstacle(u, d, sure) = RecomputeBehavior(x)
  BY DEF ApplyObstacle
<1>2. /\ x \in KpiFields
      /\ x.drive = u.drive /\ x.fromCan = u.fromCan
      /\ x.success = u.success /\ x.total = u.total
      /\ x.planOk = u.planOk /\ x.planTotal = u.planTotal
      /\ x.planning = u.planning
      /\ x.detecting = (u.detecting \/ (u.drive = "AUTO" /\ sure))
      /\ x.detected = u.detected /\ u.detected \in Nat
  BY DEF KpiOK, KpiFields
<1>. HIDE DEF x
<1>. DEFINE w == RecomputeBehavior(x)
<1>3. /\ w \in KpiFields /\ Up2Date(w)
      /\ w.drive = x.drive /\ w.fromCan = x.fromCan
      /\ w.success = x.success /\ w.total = x.total
      /\ w.planOk = x.planOk /\ w.planTotal = x.planTotal
      /\ w.planning = x.planning /\ w.detecting = x.detecting /\ w.detected = x.detected
  BY <1>2, RecomputeFields
<1>. HIDE DEF w
<1>4. KpiOK(w) /\ w.drive = u.drive /\ w.total = u.total /\ w.fromCan = u.fromCan
  BY <1>2, <1>3 DEF KpiOK
<1>5. Used(w) <= Used(u) + One(sure)
  <2>1. PICK f \in {0, 1}, g \in {0, 1}, h \in {0, 1} :
          f = One(sure) /\ g = One(u.detecting) /\ h = One(w.detecting)
    BY Zenon DEF One
  <2>2. h = 1 => f = 1 \/ g = 1
    BY <1>2, <1>3, <2>1, Zenon DEF One
  <2>3. Used(w) = u.detected + h /\ Used(u) = u.detected + g
    BY <1>2, <1>3, <2>1 DEF Used
  <2>. QED
    BY <1>2, <2>1, <2>2, <2>3
<1>. QED
  BY <1>1, <1>4, <1>5 DEF w

LEMMA BehaviorOK ==
  ASSUME NEW u, KpiOK(u), NEW b \in Behavior \cup {"LANE_FOLLOW"}
  PROVE  LET w == ApplyBehaviorState(u, b) IN
         KpiOK(w) /\ w.drive = u.drive /\ w.total = u.total /\ Used(w) = Used(u)
  BY DEF ApplyBehaviorState, KpiOK, KpiFields, Up2Date, Used

\* What the firmware reports adds up.
LEMMA ReportType ==
  ASSUME NEW r \in Reports \cup {<<0, 0>>}
  PROVE  r[1] \in Nat /\ r[2] \in Nat /\ r[1] <= r[2]
<1>1. CASE r \in Reports
  BY <1>1, DriveAssumption
<1>2. CASE r = <<0, 0>>
  BY <1>2
<1>. QED
  BY <1>1, <1>2

LEMMA PlanningOK ==
  ASSUME NEW u, KpiOK(u), NEW r \in Reports \cup {<<0, 0>>}
  PROVE  LET w == ApplyPlanningStatus(u, r) IN
         /\ KpiOK(w) /\ w.drive = u.drive /\ w.total = u.total /\ w.fromCan = u.fromCan
         /\ Used(w) = Used(u)
<1>. DEFINE w == ApplyPlanningStatus(u, r)
<1>1. r[1] \in Nat /\ r[2] \in Nat /\ r[1] <= r[2]
  BY ReportType
<1>2. /\ w \in KpiFields
      /\ w.planOk = r[1] /\ w.planTotal = r[2]
      /\ w.drive = u.drive /\ w.distance = u.distance
      /\ w.behavior = u.behavior /\ w.fromCan = u.fromCan
      /\ w.success = u.success /\ w.total = u.total
      /\ w.planning = u.planning /\ w.detecting = u.detecting /\ w.detected = u.detected
  BY <1>1 DEF ApplyPlanningStatus, KpiOK, KpiFields
<1>. HIDE DEF w
<1>3. Up2Date(w)
  BY <1>2 DEF KpiOK, Up2Date, Derived
<1>4. KpiOK(w) /\ w.drive = u.drive /\ w.total = u.total /\ w.fromCan = u.fromCan
  BY <1>1, <1>2, <1>3 DEF KpiOK
<1>5. Used(w) = Used(u)
  BY <1>2 DEF Used
<1>. QED
  BY <1>4, <1>5 DEF w

LEMMA PerceptionOK ==
  ASSUME NEW u, KpiOK(u), NEW r \in Reports \cup {<<0, 0>>}
  PROVE  LET w == ApplyPerceptionValidation(u, r) IN
         KpiOK(w) /\ w.drive = u.drive /\ w.total = u.total /\ w.fromCan = u.fromCan
<1>. DEFINE w == ApplyPerceptionValidation(u, r)
<1>1. r[1] \in Nat /\ r[2] \in Nat
  BY ReportType
<1>2. /\ w \in KpiFields
      /\ w.planOk = u.planOk /\ w.planTotal = u.planTotal
      /\ w.drive = u.drive /\ w.distance = u.distance
      /\ w.behavior = u.behavior /\ w.fromCan = u.fromCan
      /\ w.success = u.success /\ w.total = u.total
      /\ w.planning = u.planning /\ w.detecting = u.detecting
  BY <1>1 DEF ApplyPerceptionValidation, KpiOK, KpiFields
<1>. HIDE DEF w
<1>3. Up2Date(w)
  BY <1>2 DEF KpiOK, Up2Date, Derived
<1>4. KpiOK(w) /\ w.drive = u.drive /\ w.total = u.total /\ w.fromCan = u.fromCan
  BY <1>2, <1>3 DEF KpiOK
<1>. QED
  BY <1>4 DEF w

\* A poll shows the snapshot's driving state or keeps the one shown, counts at
\* most the drive that ends with it, takes a behaviour only from the vehicle, and,
\* as long as the firmware does not count, uses at most one obstacle frame.
LEMMA AppliedOK ==
  ASSUME NEW u, KpiOK(u), NEW snap \in Latest, NEW flags \in SUBSET Message
  PROVE  LET w == Applied(u, snap, flags) IN
         /\ KpiOK(w)
         /\ w.drive = IF "vehicle" \in flags THEN snap.drive ELSE u.drive
         /\ w.total <= u.total + One(u.drive = "AUTO" /\ w.drive # "AUTO")
         /\ w.fromCan => u.fromCan \/ "behavior" \in flags
         /\ "perception" \notin flags =>
              Used(w) <= Used(u) + One("obstacle" \in flags /\ snap.sure)
<1>. DEFINE u1 == IF "vehicle" \in flags THEN ApplyVehicleStatus(u, snap.drive) ELSE u
            u2 == IF "obstacle" \in flags
                  THEN ApplyObstacle(u1, snap.distance, snap.sure) ELSE u1
            u3 == IF "behavior" \in flags THEN ApplyBehaviorState(u2, snap.behavior) ELSE u2
            u4 == IF "planning" \in flags THEN ApplyPlanningStatus(u3, snap.plan) ELSE u3
            w  == IF "perception" \in flags
                  THEN ApplyPerceptionValidation(u4, snap.seen) ELSE u4
<1>1. Applied(u, snap, flags) = w
  BY DEF Applied
<1>2. /\ snap.drive \in DriveName \cup {"none"}
      /\ snap.distance \in Distance \cup {"near"} /\ snap.sure \in BOOLEAN
      /\ snap.behavior \in Behavior \cup {"LANE_FOLLOW"}
      /\ snap.plan \in Reports \cup {<<0, 0>>} /\ snap.seen \in Reports \cup {<<0, 0>>}
  BY DriveAssumption DEF Latest
<1>3. u.total \in Nat
  BY DEF KpiOK, KpiFields
<1>4. /\ KpiOK(u1)
      /\ u1.drive = IF "vehicle" \in flags THEN snap.drive ELSE u.drive
      /\ u1.total <= u.total + One(u.drive = "AUTO" /\ u1.drive # "AUTO")
      /\ u1.fromCan = u.fromCan
  BY <1>2, <1>3, VehicleOK DEF One
<1>a. Used(u1) <= Used(u)
  <2>1. Used(u) \in Int
    BY DEF Used, One, KpiOK, KpiFields
  <2>. QED
    BY <1>2, <2>1, VehicleOK
<1>. HIDE DEF u1
<1>5. KpiOK(u2) /\ u2.drive = u1.drive /\ u2.total = u1.total /\ u2.fromCan = u1.fromCan
  BY <1>2, <1>4, ObstacleOK
<1>b. Used(u2) <= Used(u1) + One("obstacle" \in flags /\ snap.sure)
  <2>1. Used(u1) \in Int
    BY <1>4 DEF Used, One, KpiOK, KpiFields
  <2>2. CASE "obstacle" \in flags
    <3>1. One("obstacle" \in flags /\ snap.sure) = One(snap.sure)
      BY <2>2 DEF One
    <3>. QED
      BY <1>2, <1>4, <2>2, <3>1, ObstacleOK
  <2>3. CASE "obstacle" \notin flags
    <3>1. One("obstacle" \in flags /\ snap.sure) = 0 /\ u2 = u1
      BY <2>3 DEF One
    <3>. QED
      BY <2>1, <3>1
  <2>. QED
    BY <2>2, <2>3
<1>. HIDE DEF u2
<1>6. /\ KpiOK(u3) /\ u3.drive = u2.drive /\ u3.total = u2.total
      /\ u3.fromCan => u2.fromCan \/ "behavior" \in flags
      /\ Used(u3) = Used(u2)
  BY <1>2, <1>5, BehaviorOK
<1>. HIDE DEF u3
<1>7. /\ KpiOK(u4) /\ u4.drive = u3.drive /\ u4.total = u3.total /\ u4.fromCan = u3.fromCan
      /\ Used(u4) = Used(u3)
  BY <1>2, <1>6, PlanningOK
<1>. HIDE DEF u4
<1>8. KpiOK(w) /\ w.drive = u4.drive /\ w.total = u4.total /\ w.fromCan = u4.fromCan
  BY <1>2, <1>7, PerceptionOK
<1>9. "perception" \notin flags =>
        Used(w) <= Used(u) + One("obstacle" \in flags /\ snap.sure)
  <2>. SUFFICES ASSUME "perception" \notin flags
                PROVE  Used(w) <= Used(u) + One("obstacle" \in flags /\ snap.sure)
    OBVIOUS
  <2>1. w = u4
    OBVIOUS
  <2>2. Used(w) = Used(u2)
    BY <1>6, <1>7, <2>1
  <2>3. Used(u) \in Int /\ Used(u1) \in Int /\ Used(u2) \in Int
    BY <1>4, <1>5 DEF Used, One, KpiOK, KpiFields
  <2>4. One("obstacle" \in flags /\ snap.sure) \in Int
    BY DEF One
  <2>. QED
    BY <1>a, <1>b, <2>2, <2>3, <2>4
<1>. HIDE DEF w
<1>. QED
  BY <1>1, <1>4, <1>5, <1>6, <1>7, <1>8, <1>9

-----------------------------------------------------------------------------
(* The invariant is inductive.                                              *)

LEMMA IInvInit == Init => IInv
<1>. SUFFICES ASSUME Init PROVE IInv
  OBVIOUS
<1>1. NothingReceived \in Latest
  BY DEF NothingReceived, Latest
<1>2. KpiOK(ui)
  BY DEF Init, KpiOK, KpiFields, Up2Date
<1>3. ui.total + Drives(ui.drive, UnderWay, latest.drive) <= drives
  BY DEF Init, NothingReceived, Drives, UnderWay, One
<1>4. Used(ui) = 0 /\ Pending = 0 /\ sightings = 0
  BY DEF Init, Used, Pending, One
<1>5. FlagsReported
  BY DEF Init, FlagsReported
<1>6. TypeOK
  BY <1>1, <1>2 DEF Init, TypeOK, KpiOK
<1>7. ~ui.fromCan
  BY DEF Init
<1>. QED
  BY <1>2, <1>3, <1>4, <1>5, <1>6, <1>7 DEF IInv

LEMMA IInvStep == IInv /\ [Next]_vars => IInv'
<1>. SUFFICES ASSUME IInv, [Next]_vars PROVE IInv'
  OBVIOUS
<1>t. /\ client \in BOOLEAN /\ latest \in Latest /\ dirty \subseteq Message
      /\ link \in Latest /\ KpiOK(ui) /\ ui.total \in Nat /\ changes \in Nat
      /\ drives \in Nat /\ reported \subseteq Message /\ have \in BOOLEAN
      /\ sightings \in Nat
  BY DEF IInv, TypeOK, KpiOK, KpiFields
<1>d. ui.total + Drives(ui.drive, UnderWay, latest.drive) <= drives
  BY DEF IInv
<1>f. FlagsReported /\ (~client /\ ui.fromCan => "behavior" \in reported)
  BY DEF IInv
<1>u. /\ Used(ui) \in Nat /\ Pending \in Nat
      /\ ~client /\ "perception" \notin reported => Used(ui) + Pending <= sightings
  BY <1>t DEF IInv, Used, Pending, One, KpiOK, KpiFields
\* A decoder that leaves the driving state alone.
<1>k. ASSUME NEW m \in Message, NEW new \in Latest, new.drive = latest.drive, Decode(m, new),
             sightings' \in Nat,
             ~client /\ "perception" \notin reported => Used(ui) + Pending' <= sightings'
      PROVE  IInv'
  <2>1. UnderWay' = UnderWay
    BY <1>k DEF Decode, UnderWay
  <2>2. FlagsReported' /\ (~client' /\ ui'.fromCan => "behavior" \in reported')
    BY <1>k, <1>f DEF Decode, FlagsReported
  <2>3. ~client' /\ "perception" \notin reported' => Used(ui)' + Pending' <= sightings'
    BY <1>k DEF Decode, Used
  <2>. QED
    BY <1>k, <1>t, <1>d, <2>1, <2>2, <2>3 DEF Decode, IInv, TypeOK
\* One that leaves the obstacle alone, too.
<1>o. ASSUME NEW m \in Message, NEW new \in Latest, new.drive = latest.drive,
             new.sure = latest.sure, m # "obstacle", Decode(m, new), UNCHANGED sightings
      PROVE  IInv'
  <2>1. Pending' = Pending
    BY <1>o DEF Decode, Pending
  <2>. QED
    BY <1>o, <1>k, <1>t, <1>u, <2>1
<1>1. ASSUME NEW s \in DriveName, DecodeVehicleStatus(s) PROVE IInv'
  <2>1. latest' \in Latest /\ latest'.drive = s /\ latest'.sure = latest.sure
    BY <1>1, <1>t DEF DecodeVehicleStatus, Latest
  <2>2. UnderWay' = UnderWay /\ ui' = ui
    BY <1>1 DEF DecodeVehicleStatus, UnderWay
  <2>3. ui'.total + Drives(ui'.drive, UnderWay', latest'.drive) <= drives'
    BY <1>1, <1>t, <1>d, <2>1, <2>2 DEF DecodeVehicleStatus, Drives, One
  <2>4. changes' \in Nat /\ drives' \in Nat /\ dirty' \subseteq Message
    BY <1>1, <1>t DEF DecodeVehicleStatus, Message
  <2>5. FlagsReported' /\ (~client' /\ ui'.fromCan => "behavior" \in reported')
    BY <1>1, <1>f DEF DecodeVehicleStatus, FlagsReported
  <2>6. Pending' = Pending
    BY <1>1, <2>1 DEF DecodeVehicleStatus, Pending
  <2>7. ~client' /\ "perception" \notin reported' => Used(ui)' + Pending' <= sightings'
    BY <1>1, <1>u, <2>6 DEF DecodeVehicleStatus, Used
  <2>. QED
    BY <1>1, <1>t, <2>1, <2>3, <2>4, <2>5, <2>7 DEF DecodeVehicleStatus, IInv, TypeOK
<1>2. ASSUME NEW d \in Distance, NEW sure \in BOOLEAN, DecodeObstacle(d, sure) PROVE IInv'
  <2>. DEFINE new == [latest EXCEPT !.distance = d, !.sure = sure]
  <2>1. new \in Latest /\ new.drive = latest.drive /\ new.sure = sure
    BY <1>t DEF Latest
  <2>2. Decode("obstacle", new) /\ latest' = new /\ "obstacle" \in Message
    BY <1>2 DEF DecodeObstacle, Decode, Message
  <2>3. Pending' = One(sure) /\ One(sure) \in Nat /\ sightings' = sightings + One(sure)
    BY <1>2, <2>1, <2>2 DEF DecodeObstacle, Decode, Pending, One
  <2>4. ~client /\ "perception" \notin reported => Used(ui) + Pending' <= sightings'
    BY <1>t, <1>u, <2>3
  <2>5. sightings' \in Nat
    BY <1>t, <2>3
  <2>. HIDE DEF new
  <2>. QED
    BY <1>k, <2>1, <2>2, <2>4, <2>5
<1>3. ASSUME NEW b \in Behavior, DecodeBehaviorState(b) PROVE IInv'
  <2>. DEFINE new == [latest EXCEPT !.behavior = b]
  <2>1. new \in Latest /\ new.drive = latest.drive /\ new.sure = latest.sure
    BY <1>t DEF Latest
  <2>. QED
    BY <1>3, <1>o, <2>1 DEF DecodeBehaviorState, Message
<1>4. ASSUME NEW r \in Reports, DecodePlanningStatus(r) PROVE IInv'
  <2>. DEFINE new == [latest EXCEPT !.plan = r]
  <2>1. new \in Latest /\ new.drive = latest.drive /\ new.sure = latest.sure
    BY <1>t DEF Latest
  <2>. QED
    BY <1>4, <1>o, <2>1 DEF DecodePlanningStatus, Message
<1>5. ASSUME NEW r \in Reports, DecodePerceptionValidation(r) PROVE IInv'
  <2>. DEFINE new == [latest EXCEPT !.seen = r]
  <2>1. new \in Latest /\ new.drive = latest.drive /\ new.sure = latest.sure
    BY <1>t DEF Latest
  <2>. QED
    BY <1>5, <1>o, <2>1 DEF DecodePerceptionValidation, Message
<1>6. CASE StandalonePoll
  <2>1. /\ KpiOK(ui')
        /\ ui'.drive = IF "vehicle" \in dirty THEN latest.drive ELSE ui.drive
        /\ ui'.total <= ui.total + One(ui.drive = "AUTO" /\ ui'.drive # "AUTO")
        /\ ui'.fromCan => ui.fromCan \/ "behavior" \in dirty
        /\ "perception" \notin dirty => Used(ui') <= Used(ui) + Pending
    BY <1>6, <1>t, AppliedOK DEF StandalonePoll, Pending
  <2>2. ui'.total \in Nat /\ ui' \in KpiFields /\ Used(ui') \in Nat
    BY <2>1 DEF KpiOK, KpiFields, Used, One
  <2>3. UnderWay = ui.drive /\ UnderWay' = ui'.drive
    BY <1>6 DEF StandalonePoll, UnderWay
  <2>4. /\ ~client /\ client' = client /\ latest' = latest /\ dirty' = {}
        /\ have' = have /\ link' = link /\ changes' = changes
        /\ drives' = drives /\ reported' = reported /\ sightings' = sightings
    BY <1>6 DEF StandalonePoll, busVars
  <2>5. ui'.total + Drives(ui'.drive, UnderWay', latest'.drive) <= drives'
    BY <1>t, <1>d, <2>1, <2>2, <2>3, <2>4 DEF Drives, One
  <2>6. FlagsReported' /\ (ui'.fromCan => "behavior" \in reported')
    BY <1>f, <2>1, <2>4 DEF FlagsReported
  <2>7. Pending' = 0
    BY <2>4 DEF Pending, One
  <2>8. "perception" \notin reported' => Used(ui') + Pending' <= sightings'
    BY <1>f, <1>t, <1>u, <2>1, <2>2, <2>4, <2>7 DEF FlagsReported
  <2>. QED
    BY <1>t, <2>1, <2>2, <2>4, <2>5, <2>6, <2>8 DEF IInv, TypeOK, Used
<1>7. CASE Forward
  <2>1. UnderWay = link.drive /\ UnderWay' = latest.drive /\ ui' = ui
    BY <1>7 DEF Forward, UnderWay
  <2>2. ui'.total + Drives(ui'.drive, UnderWay', latest'.drive) <= drives'
    BY <1>7, <1>t, <1>d, <2>1 DEF Forward, busVars, Drives, One
  <2>3. client' /\ FlagsReported'
    BY <1>7, <1>f DEF Forward, busVars, FlagsReported
  <2>. QED
    BY <1>7, <1>t, <2>2, <2>3 DEF Forward, busVars, IInv, TypeOK
<1>8. CASE ClientPoll
  <2>1. /\ KpiOK(ui')
        /\ ui'.drive = link.drive
        /\ ui'.total <= ui.total + One(ui.drive = "AUTO" /\ ui'.drive # "AUTO")
    <3>1. "vehicle" \in Message
      BY DEF Message
    <3>. QED
      BY <1>8, <1>t, <3>1, AppliedOK DEF ClientPoll
  <2>2. ui'.total \in Nat /\ ui' \in KpiFields
    BY <2>1 DEF KpiOK, KpiFields
  <2>3. UnderWay = link.drive /\ UnderWay' = link.drive
    BY <1>8 DEF ClientPoll, UnderWay
  <2>4. /\ client /\ client' = client /\ latest' = latest /\ dirty' = dirty
        /\ have' = have /\ link' = link /\ changes' = changes
        /\ drives' = drives /\ reported' = reported /\ sightings' = sightings
    BY <1>8 DEF ClientPoll, busVars
  <2>5. ui'.total + Drives(ui'.drive, UnderWay', latest'.drive) <= drives'
    BY <1>t, <1>d, <2>1, <2>2, <2>3, <2>4 DEF Drives, One
  <2>6. FlagsReported'
    BY <1>f, <2>4 DEF FlagsReported
  <2>. QED
    BY <1>t, <2>1, <2>2, <2>4, <2>5, <2>6 DEF IInv, TypeOK
<1>9. CASE UNCHANGED vars
  <2>1. UnderWay' = UnderWay /\ FlagsReported' /\ Pending' = Pending /\ Used(ui)' = Used(ui)
    BY <1>9, <1>f DEF vars, busVars, UnderWay, FlagsReported, Pending, Used
  <2>. QED
    BY <1>9, <2>1 DEF vars, busVars, IInv, TypeOK
<1>. QED
  BY <1>1, <1>2, <1>3, <1>4, <1>5, <1>6, <1>7, <1>8, <1>9 DEF Next, Frame

LEMMA IInvAlways == Spec => []IInv
  BY IInvInit, IInvStep, PTL DEF Spec

-----------------------------------------------------------------------------
\* Every variable keeps its type (the fields of KpiData and CanBridge).
THEOREM TypeCorrect == Spec => []TypeOK
<1>1. IInv => TypeOK
  BY DEF IInv
<1>. QED
  BY <1>1, IInvAlways, PTL

\* No drive is counted twice and no success without a mission, however often a
\* client applies the same datagram (KpiData::applyVehicleStatus).
THEOREM MissionsAreCountedOnce == Spec => []MissionsCountedOnce
<1>1. IInv => MissionsCountedOnce
  <2>. SUFFICES ASSUME IInv PROVE MissionsCountedOnce
    OBVIOUS
  <2>1. Drives(ui.drive, UnderWay, latest.drive) \in Nat
    BY DEF Drives, One
  <2>2. ui.total \in Nat /\ drives \in Nat /\ ui.success <= ui.total
    BY DEF IInv, KpiOK, KpiFields, TypeOK
  <2>3. ui.total + Drives(ui.drive, UnderWay, latest.drive) <= drives
    BY DEF IInv
  <2>. QED
    BY <2>1, <2>2, <2>3 DEF MissionsCountedOnce
<1>. QED
  BY <1>1, IInvAlways, PTL

\* A detection is counted once and for one drive: no more than the obstacle frames
\* that said so (KpiData::applyVehicleStatus and applyObstacle).
THEOREM DetectionsAreCountedOnce == Spec => []DetectionsCountedOnce
<1>1. IInv => DetectionsCountedOnce
  <2>. SUFFICES ASSUME IInv, ~client, "perception" \notin reported
                PROVE  ui.detected <= sightings
    BY DEF DetectionsCountedOnce
  <2>1. ui.detected \in Nat /\ sightings \in Nat
    BY DEF IInv, KpiOK, KpiFields, TypeOK
  <2>2. One(ui.detecting) \in Nat /\ Pending \in Nat
    BY DEF One, Pending
  <2>3. ui.detected + One(ui.detecting) + Pending <= sightings
    BY DEF IInv, Used
  <2>. QED
    BY <2>1, <2>2, <2>3
<1>. QED
  BY <1>1, IInvAlways, PTL

\* The planning window fits the driving state shown (KpiData::applyVehicleStatus).
THEOREM PlanningFits == Spec => []PlanningFitsState
<1>1. IInv => PlanningFitsState
  BY DEF IInv, KpiOK, PlanningFitsState
<1>. QED
  BY <1>1, IInvAlways, PTL

\* No more plans succeed than were made, whoever counts them.
THEOREM PlansDoAddUp == Spec => []PlansAddUp
<1>1. IInv => PlansAddUp
  BY DEF IInv, KpiOK, PlansAddUp
<1>. QED
  BY <1>1, IInvAlways, PTL

\* Standalone, the shown behaviour is the vehicle's once it reported one, and
\* the derived one, never an old one, before (KpiData::recomputeBehavior).
THEOREM BehaviorDoesFollow == Spec => []BehaviorFollows
<1>1. IInv => BehaviorFollows
  BY DEF IInv, KpiOK, Up2Date, BehaviorFollows
<1>. QED
  BY <1>1, IInvAlways, PTL

=============================================================================
