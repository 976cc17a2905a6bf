------------------------- MODULE StandaloneUi_proofs -------------------------
(***************************************************************************)
(* Proofs about the standalone path: type correctness, the two invariants  *)
(* that relate the screen to the snapshot buffer, and the refinement of    *)
(* LatestValue, for every set of domains, queue capacity and bound.        *)
(***************************************************************************)
EXTENDS StandaloneUi, SequenceTheorems, TLAPS

-----------------------------------------------------------------------------
(* Types.                                                                   *)

\* The queue never leaves Seq(Nat), whatever its length and capacity.
LEMMA NewestType == ASSUME NEW q \in Seq(Nat) PROVE Newest(q) \in Seq(Nat)
<1>1. CASE Len(q) > MaxQueue
  <2>1. Len(q) - MaxQueue + 1 \in 1..(Len(q) + 1) /\ Len(q) \in 0..Len(q)
    BY <1>1, SnapAssumption, LenProperties
  <2>2. SubSeq(q, Len(q) - MaxQueue + 1, Len(q)) \in Seq(Nat)
    BY <2>1, SubSeqProperties
  <2>. QED
    BY <1>1, <2>2 DEF Newest
<1>2. CASE ~(Len(q) > MaxQueue)
  BY <1>2 DEF Newest
<1>. QED
  BY <1>1, <1>2

\* What a handler leaves to do consists of worker steps.
LEMMA EntriesType ==
  ASSUME NEW n \in Nat PROVE Entries(n) \o <<"tail">> \in Seq(WorkerStep)
<1>1. Entries(n) \in Seq(WorkerStep)
  BY IsASeq DEF Entries, WorkerStep
<1>2. <<"tail">> \in Seq(WorkerStep)
  BY DEF WorkerStep
<1>. QED
  BY <1>1, <1>2, ConcatProperties

\* The worker never leaves the types of the buffer.
LEMMA WorkerType == ASSUME SnapTypeOK, Worker PROVE SnapTypeOK'
<1>. USE SnapAssumption DEF SnapTypeOK
<1>1. ASSUME NEW d \in Domain \ {BusStats}, DecodeState(d) PROVE SnapTypeOK'
  <2>1. PICK n \in 0..LogsOf[d] : Begin(Entries(n) \o <<"tail">>, n)
    BY <1>1 DEF DecodeState
  <2>2. n \in Nat
    OBVIOUS
  <2>3. worker' = Entries(n) \o <<"tail">>
    BY <2>1 DEF Begin
  <2>4. worker' \in Seq(WorkerStep)
    BY <2>2, <2>3, EntriesType, Zenon
  <2>. QED
    BY <1>1, <2>4 DEF DecodeState, WriteDomain
<1>2. CASE DecodeFailsafeEvent
  <2>1. PICK n \in 0..1 : Begin(Entries(n) \o <<"tail">>, n)
    BY <1>2 DEF DecodeFailsafeEvent
  <2>2. n \in Nat
    OBVIOUS
  <2>3. worker' = Entries(n) \o <<"tail">>
    BY <2>1 DEF Begin
  <2>4. worker' \in Seq(WorkerStep)
    BY <2>2, <2>3, EntriesType, Zenon
  <2>. QED
    BY <1>2, <2>4 DEF DecodeFailsafeEvent
<1>3. CASE SendUiCommand
  <2>1. worker' \in {<<"stats", "log">>, <<"stats">>, <<"log">>}
    BY <1>3 DEF SendUiCommand, Begin
  <2>2. /\ <<"stats", "log">> \in Seq({"log", "stats", "tail"})
        /\ <<"stats">> \in Seq({"log", "stats", "tail"})
        /\ <<"log">> \in Seq({"log", "stats", "tail"})
    OBVIOUS
  <2>3. worker' \in Seq(WorkerStep)
    BY <2>1, <2>2, Zenon DEF WorkerStep
  <2>. QED
    BY <1>3, <2>3 DEF SendUiCommand
<1>4. CASE QueueLog
  <2>1. Append(pendingLogs, logged + 1) \in Seq(Nat)
    BY AppendProperties
  <2>2. pendingLogs' \in Seq(Nat)
    BY <1>4, <2>1, NewestType DEF QueueLog
  <2>3. worker' \in Seq(WorkerStep)
    BY <1>4, HeadTailProperties DEF QueueLog
  <2>. QED
    BY <1>4, <2>2, <2>3 DEF QueueLog
<1>5. CASE PublishBusStats
  <2>1. worker' \in Seq(WorkerStep)
    BY <1>5, HeadTailProperties DEF PublishBusStats
  <2>. QED
    BY <1>5, <2>1 DEF PublishBusStats, WriteDomain
<1>6. CASE SkipBusStats
  <2>1. worker' \in Seq(WorkerStep)
    BY <1>6, HeadTailProperties DEF SkipBusStats
  <2>. QED
    BY <1>6, <2>1 DEF SkipBusStats
<1>. QED
  BY <1>1, <1>2, <1>3, <1>4, <1>5, <1>6 DEF Worker

\* Every reachable state of the standalone dashboard is well typed.
THEOREM TypeCorrect == Spec => []TypeOK
<1>1. Init => TypeOK
  <2>. SUFFICES ASSUME Init PROVE TypeOK
    OBVIOUS
  <2>1. NoSnapshot \in Snapshot
    BY DEF NoSnapshot, Snapshot
  <2>2. <<>> \in Seq(Nat) /\ <<>> \in Seq(WorkerStep)
    BY EmptySeq
  <2>3. SnapTypeOK
    BY <2>2 DEF Init, SnapInit, SnapTypeOK
  <2>. QED
    BY <2>1, <2>2, <2>3 DEF Init, TypeOK
<1>2. TypeOK /\ [Next]_vars => TypeOK'
  <2>. SUFFICES ASSUME TypeOK, [Next]_vars PROVE TypeOK'
    OBVIOUS
  <2>1. CASE Worker /\ UNCHANGED uiVars
    BY <2>1, WorkerType DEF TypeOK, uiVars
  <2>2. CASE PollTake
    BY <2>2 DEF PollTake, TakeLatest, TakeResult, TypeOK, SnapTypeOK, Snapshot
  <2>3. CASE PollApply
    <3>1. SnapTypeOK'
      BY <2>3 DEF PollApply, TakePendingLogs, TypeOK, SnapTypeOK
    <3>2. shown' \in [Domain -> Nat] /\ has' \subseteq Domain
      BY <2>3 DEF PollApply, Applied, TypeOK, Snapshot
    <3>3. applied' \in Seq(Nat)
      BY <2>3, AppendProperties DEF PollApply, AppliedEdge, TypeOK, Snapshot
    <3>4. panel' \in Seq(Nat)
      BY <2>3, ConcatProperties DEF PollApply, TypeOK, SnapTypeOK
    <3>5. v' \in Snapshot /\ poll' \in {"idle", "apply"}
      BY <2>3 DEF PollApply, NoSnapshot, Snapshot
    <3>. QED
      BY <3>1, <3>2, <3>3, <3>4, <3>5 DEF TypeOK
  <2>4. CASE UNCHANGED vars
    BY <2>4 DEF vars, snapVars, uiVars, TypeOK, SnapTypeOK
  <2>. QED
    BY <2>1, <2>2, <2>3, <2>4 DEF Next
<1>. QED
  BY <1>1, <1>2, PTL DEF Spec

-----------------------------------------------------------------------------
(* No lost update, no phantom data.                                         *)

\* While the copy is being applied it is no newer than the buffer, and it was
\* made for domains that have a frame.
CopySound ==
  /\ poll = "apply" => \A d \in Domain : v.val[d] <= latest[d]
  /\ \A d \in dirty : latest[d] > 0
  /\ poll = "apply" => \A d \in v.dirty : v.val[d] > 0

\* The screen is never ahead of the copy it waits for, nor of the buffer.
ScreenSound ==
  /\ \A d \in Domain : shown[d] <= latest[d]
  /\ poll = "apply" => \A d \in v.dirty : shown[d] <= v.val[d]

\* The inductive invariant.
IInv == CopySound /\ ScreenSound /\ NoLostUpdate /\ NoPhantomData

\* What the worker does to the values and the flags.
WorkerWrites ==
  \/ \E d \in Domain : WriteDomain(d)
  \/ UNCHANGED <<latest, dirty>>

\* Every step of the worker writes at most one domain.
LEMMA WorkerEffect == ASSUME SnapTypeOK, Worker PROVE WorkerWrites
  BY SnapAssumption DEF Worker, WorkerWrites, DecodeState, DecodeFailsafeEvent,
     SendUiCommand, QueueLog, PublishBusStats, SkipBusStats

\* The inductive invariant is kept by every step.
LEMMA IInvStep == ASSUME TypeOK, IInv, [Next]_vars PROVE IInv'
<1>. USE DEF IInv
<1>t. /\ latest \in [Domain -> Nat] /\ shown \in [Domain -> Nat]
      /\ v.val \in [Domain -> Nat] /\ v.dirty \subseteq Domain
      /\ dirty \subseteq Domain /\ has \subseteq Domain
  BY DEF TypeOK, SnapTypeOK, Snapshot
<1>1. CASE Worker /\ UNCHANGED uiVars
  <2>1. WorkerWrites
    BY <1>1, WorkerEffect DEF TypeOK
  <2>2. poll' = poll /\ v' = v /\ shown' = shown /\ has' = has
    BY <1>1 DEF uiVars
  <2>3. ASSUME NEW d \in Domain, WriteDomain(d) PROVE IInv'
    <3>1. /\ \A e \in Domain : latest'[e] = IF e = d THEN latest[e] + 1 ELSE latest[e]
          /\ \A e \in Domain : latest[e] \in Nat
          /\ dirty' = dirty \cup {d}
      BY <1>t, <2>3 DEF WriteDomain
    <3>2. CopySound'
      <4>1. CopySound
        OBVIOUS
      <4>2. \A e \in Domain : v.val[e] \in Nat
        BY <1>t
      <4>3. poll = "apply" => \A e \in Domain : v.val[e] <= latest'[e]
        BY <3>1, <4>1, <4>2 DEF CopySound
      <4>4. \A e \in dirty \cup {d} : latest'[e] > 0
        BY <1>t, <3>1, <4>1 DEF CopySound
      <4>. QED
        BY <2>2, <3>1, <4>1, <4>3, <4>4 DEF CopySound
    <3>3. ScreenSound'
      <4>1. \A e \in Domain : shown[e] \in Nat
        BY <1>t
      <4>2. \A e \in Domain : shown[e] <= latest'[e]
        BY <3>1, <4>1 DEF ScreenSound
      <4>. QED
        BY <2>2, <4>2 DEF ScreenSound
    <3>4. NoLostUpdate'
      BY <2>2, <3>1 DEF NoLostUpdate
    <3>5. NoPhantomData'
      <4>1. \A e \in has : latest'[e] > 0
        BY <1>t, <3>1 DEF NoPhantomData
      <4>. QED
        BY <2>2, <4>1 DEF NoPhantomData
    <3>. QED
      BY <3>2, <3>3, <3>4, <3>5
  <2>4. CASE UNCHANGED <<latest, dirty>>
    BY <2>2, <2>4 DEF CopySound, ScreenSound, NoLostUpdate, NoPhantomData
  <2>. QED
    BY <2>1, <2>3, <2>4 DEF WorkerWrites
<1>2. CASE PollTake
  <2>1. /\ poll' = "apply" /\ v'.val = latest /\ v'.dirty = dirty /\ dirty' = {}
        /\ UNCHANGED <<latest, shown, has>> /\ poll = "idle"
    BY <1>2 DEF PollTake, TakeLatest, TakeResult
  <2>2. CopySound'
    BY <1>t, <2>1 DEF CopySound
  <2>3. ScreenSound'
    BY <1>t, <2>1 DEF ScreenSound
  <2>4. NoLostUpdate'
    BY <2>1 DEF NoLostUpdate
  <2>5. NoPhantomData'
    BY <2>1 DEF NoPhantomData
  <2>. QED
    BY <2>2, <2>3, <2>4, <2>5
<1>3. CASE PollApply
  <2>1. /\ poll = "apply" /\ poll' = "idle" /\ UNCHANGED <<latest, dirty>>
        /\ has' = has \cup v.dirty
        /\ \A d \in Domain : shown'[d] = IF d \in v.dirty THEN v.val[d] ELSE shown[d]
    BY <1>t, <1>3 DEF PollApply, Applied, TakePendingLogs
  <2>2. CopySound'
    BY <2>1 DEF CopySound
  <2>3. ScreenSound'
    BY <1>t, <2>1 DEF ScreenSound, CopySound
  <2>4. NoLostUpdate'
    BY <2>1 DEF NoLostUpdate
  <2>5. \A d \in v.dirty : latest[d] > 0
    BY <1>t, <2>1 DEF CopySound
  <2>6. NoPhantomData'
    BY <2>1, <2>5 DEF NoPhantomData
  <2>. QED
    BY <2>2, <2>3, <2>4, <2>6
<1>4. CASE UNCHANGED vars
  BY <1>4 DEF vars, snapVars, uiVars, CopySound, ScreenSound, NoLostUpdate, NoPhantomData
<1>. QED
  BY <1>1, <1>2, <1>3, <1>4 DEF Next

\* The inductive invariant holds in every reachable state.
THEOREM IInvHolds == Spec => []IInv
<1>1. Init => IInv
  BY DEF Init, SnapInit, IInv, CopySound, ScreenSound, NoLostUpdate, NoPhantomData
<1>2. TypeOK /\ IInv /\ [Next]_vars => IInv'
  BY IInvStep
<1>. QED
  BY <1>1, <1>2, TypeCorrect, PTL DEF Spec

\* No update is lost between the worker and the screen, whatever the timing.
THEOREM UpdatesAreNotLost == Spec => []NoLostUpdate
<1>1. IInv => NoLostUpdate
  BY DEF IInv
<1>. QED
  BY <1>1, IInvHolds, PTL

\* The standalone dashboard reports only domains of which a frame was decoded.
THEOREM DataIsNotPhantom == Spec => []NoPhantomData
<1>1. IInv => NoPhantomData
  BY DEF IInv
<1>. QED
  BY <1>1, IInvHolds, PTL

-----------------------------------------------------------------------------
(* The one-shot edges of Fail_Safe_Event.                                   *)

\* The inductive invariant: an edge that waits, in the buffer or in the copy of
\* the poll, is newer than all that were applied, and the one in the buffer is
\* newer than the one in the copy.
EdgeInv ==
  /\ \A i \in 1..Len(applied) : applied[i] <= event
  /\ eventDirty => \A i \in 1..Len(applied) : applied[i] < event
  /\ poll = "apply" /\ v.eventDirty =>
       /\ v.event <= event
       /\ eventDirty => v.event < event
       /\ \A i \in 1..Len(applied) : applied[i] < v.event
  /\ EdgeOnceAndKept

\* Every step of the worker publishes at most one edge.
LEMMA WorkerEdge ==
  ASSUME Worker
  PROVE  \/ event' = event + 1 /\ eventDirty' = TRUE
         \/ UNCHANGED <<event, eventDirty>>
  BY DEF Worker, DecodeState, DecodeFailsafeEvent, SendUiCommand, QueueLog,
     PublishBusStats, SkipBusStats

\* The edge invariant is kept by every step.
LEMMA EdgeInvStep == ASSUME TypeOK, EdgeInv, [Next]_vars PROVE EdgeInv'
<1>t. /\ event \in Nat /\ eventDirty \in BOOLEAN /\ applied \in Seq(Nat)
      /\ v.event \in Nat /\ v.eventDirty \in BOOLEAN
      /\ Len(applied) \in Nat /\ \A i \in 1..Len(applied) : applied[i] \in Nat
  BY LenProperties DEF TypeOK, SnapTypeOK, Snapshot
<1>1. CASE Worker /\ UNCHANGED uiVars
  <2>1. UNCHANGED <<poll, v, applied>>
    BY <1>1 DEF uiVars
  <2>2. CASE event' = event + 1 /\ eventDirty' = TRUE
    BY <1>t, <2>1, <2>2 DEF EdgeInv, EdgeOnceAndKept, Increasing
  <2>3. CASE UNCHANGED <<event, eventDirty>>
    BY <2>1, <2>3 DEF EdgeInv, EdgeOnceAndKept, Increasing
  <2>. QED
    BY <1>1, <2>2, <2>3, WorkerEdge
<1>2. CASE PollTake
  <2>1. /\ poll = "idle" /\ poll' = "apply" /\ UNCHANGED <<event, applied>>
        /\ v'.event = event /\ v'.eventDirty = eventDirty /\ eventDirty' = FALSE
    BY <1>2 DEF PollTake, TakeLatest, TakeResult
  <2>. QED
    BY <1>t, <2>1 DEF EdgeInv, EdgeOnceAndKept, Increasing
<1>3. CASE PollApply
  <2>1. /\ poll = "apply" /\ poll' = "idle" /\ UNCHANGED <<event, eventDirty>>
        /\ applied' = AppliedEdge(v, applied)
    BY <1>3 DEF PollApply, TakePendingLogs
  <2>2. CASE v.eventDirty
    <3>1. /\ Len(applied') = Len(applied) + 1
          /\ \A i \in 1..Len(applied) : applied'[i] = applied[i]
          /\ applied'[Len(applied) + 1] = v.event
      BY <1>t, <2>1, <2>2, AppendProperties DEF AppliedEdge
    <3>2. Increasing(applied')
      <4>1. ASSUME NEW i \in 1..(Len(applied) + 1), NEW j \in 1..(Len(applied) + 1), i < j
            PROVE  applied'[i] < applied'[j]
        <5>1. i \in 1..Len(applied) /\ applied'[i] = applied[i]
          BY <1>t, <3>1, <4>1
        <5>2. CASE j = Len(applied) + 1
          BY <2>1, <2>2, <3>1, <5>1, <5>2 DEF EdgeInv
        <5>3. CASE j # Len(applied) + 1
          <6>1. j \in 1..Len(applied) /\ applied'[j] = applied[j]
            BY <1>t, <3>1, <5>3
          <6>. QED
            BY <4>1, <5>1, <6>1 DEF EdgeInv, EdgeOnceAndKept, Increasing
        <5>. QED
          BY <5>2, <5>3
      <4>. QED
        BY <3>1, <4>1 DEF Increasing
    <3>3. applied' # <<>>
      BY <1>t, <3>1
    <3>4. /\ \A i \in 1..Len(applied') : applied'[i] <= event
          /\ eventDirty => \A i \in 1..Len(applied') : applied'[i] < event
      BY <1>t, <2>1, <2>2, <3>1 DEF EdgeInv
    <3>5. event > 0 => eventDirty \/ applied'[Len(applied')] = event
      BY <1>t, <2>1, <2>2, <3>1 DEF EdgeInv, EdgeOnceAndKept
    <3>. QED
      BY <2>1, <3>2, <3>3, <3>4, <3>5 DEF EdgeInv, EdgeOnceAndKept
  <2>3. CASE ~v.eventDirty
    BY <2>1, <2>3 DEF AppliedEdge, EdgeInv, EdgeOnceAndKept, Increasing
  <2>. QED
    BY <2>2, <2>3
<1>4. CASE UNCHANGED vars
  BY <1>4 DEF vars, snapVars, uiVars, EdgeInv, EdgeOnceAndKept, Increasing
<1>. QED
  BY <1>1, <1>2, <1>3, <1>4 DEF Next

\* Every Fail_Safe_Event edge is applied once and in order, and the last one is
\* never lost, however the worker and the poll interleave.
THEOREM EdgesAreKept == Spec => []EdgeOnceAndKept
<1>1. Init => EdgeInv
  BY EmptySeq DEF Init, SnapInit, EdgeInv, EdgeOnceAndKept, Increasing
<1>2. TypeOK /\ EdgeInv /\ [Next]_vars => EdgeInv'
  BY EdgeInvStep
<1>3. EdgeInv => EdgeOnceAndKept
  BY DEF EdgeInv
<1>. QED
  BY <1>1, <1>2, <1>3, TypeCorrect, PTL DEF Spec

-----------------------------------------------------------------------------
(* The log queue.                                                           *)

\* A queue that holds the newest entries without holes still does after one more
\* entry, and only a full queue drops any.
LEMMA NewestContiguous ==
  ASSUME NEW q \in Seq(Nat), NEW last \in Nat, Len(q) <= MaxQueue,
         \A i \in 1..Len(q) : q[i] = last - Len(q) + i,
         NEW r, r = Newest(Append(q, last + 1))
  PROVE  /\ \A i \in 1..Len(r) : r[i] = last + 1 - Len(r) + i
         /\ Len(r) <= MaxQueue
         /\ Len(r) < MaxQueue => Len(r) = Len(q) + 1
<1>. DEFINE a == Append(q, last + 1)
<1>1. /\ Len(q) \in Nat /\ MaxQueue \in Nat /\ MaxQueue > 0
  BY LenProperties, SnapAssumption
<1>2. /\ a \in Seq(Nat) /\ Len(a) = Len(q) + 1
      /\ \A i \in 1..Len(q) : a[i] = q[i]
      /\ a[Len(q) + 1] = last + 1
  BY AppendProperties
<1>3. \A i \in 1..Len(a) : a[i] = last - Len(q) + i
  BY <1>1, <1>2
<1>. HIDE DEF a
<1>4. CASE Len(a) > MaxQueue
  <2>0. r = SubSeq(a, Len(a) - MaxQueue + 1, Len(a))
    BY <1>4 DEF Newest, a
  <2>1. r = SubSeq(a, 2, Len(a)) /\ Len(q) = MaxQueue
    <3>1. Len(q) = MaxQueue
      BY <1>1, <1>2, <1>4
    <3>2. Len(a) - MaxQueue + 1 = 2
      BY <1>1, <1>2, <3>1
    <3>. QED
      BY <2>0, <3>1, <3>2
  <2>2. 2 \in 1..(Len(a) + 1) /\ Len(a) \in 1..Len(a)
    BY <1>1, <1>2, <1>4
  <2>3. Len(r) = Len(a) - 1 /\ \A i \in 1..(Len(a) - 1) : r[i] = a[i + 1]
    <3>1. /\ Len(r) = IF 2 <= Len(a) THEN Len(a) - 2 + 1 ELSE 0
          /\ \A i \in 1..(Len(a) - 2 + 1) : r[i] = a[2 + i - 1]
      BY <1>2, <2>1, <2>2, SubSeqProperties
    <3>. QED
      BY <1>1, <1>2, <2>2, <3>1
  <2>. QED
    BY <1>1, <1>2, <1>3, <2>1, <2>3
<1>5. CASE ~(Len(a) > MaxQueue)
  <2>1. r = a
    BY <1>5 DEF Newest, a
  <2>2. \A i \in 1..Len(a) : a[i] = last + 1 - Len(a) + i
    BY <1>1, <1>2, <1>3
  <2>3. Len(a) <= MaxQueue
    BY <1>1, <1>2, <1>5
  <2>. QED
    BY <1>2, <2>1, <2>2, <2>3
<1>. QED
  BY <1>4, <1>5

\* A worker step that is not queueLog() leaves the queue alone.
LEMMA WorkerLog ==
  ASSUME Worker PROVE QueueLog \/ UNCHANGED <<pendingLogs, logged>>
  BY DEF Worker, DecodeState, DecodeFailsafeEvent, SendUiCommand,
     PublishBusStats, SkipBusStats

\* LogsContiguous is inductive on typed states.
LEMMA LogsStep == ASSUME TypeOK, LogsContiguous, [Next]_vars PROVE LogsContiguous'
<1>t. /\ pendingLogs \in Seq(Nat) /\ logged \in Nat /\ panel \in Seq(Nat)
      /\ Len(pendingLogs) \in Nat /\ Len(panel) \in Nat
      /\ MaxQueue \in Nat /\ MaxQueue > 0
  BY LenProperties, SnapAssumption DEF TypeOK, SnapTypeOK
<1>1. CASE Worker /\ UNCHANGED uiVars
  <2>1. panel' = panel /\ LastShown' = LastShown
    BY <1>1 DEF uiVars, LastShown
  <2>2. CASE QueueLog
    <3>0. logged' = logged + 1
      BY <2>2 DEF QueueLog
    <3>1. pendingLogs' = Newest(Append(pendingLogs, logged + 1))
      BY <2>2 DEF QueueLog
    <3>2. /\ \A i \in 1..Len(pendingLogs) : pendingLogs[i] = logged - Len(pendingLogs) + i
          /\ Len(pendingLogs) <= MaxQueue
          /\ Len(pendingLogs) < MaxQueue => LastShown = logged - Len(pendingLogs)
      BY DEF LogsContiguous
    <3>3. /\ \A i \in 1..Len(pendingLogs') :
               pendingLogs'[i] = logged + 1 - Len(pendingLogs') + i
          /\ Len(pendingLogs') <= MaxQueue
          /\ Len(pendingLogs') < MaxQueue => Len(pendingLogs') = Len(pendingLogs) + 1
      BY <1>t, <3>1, <3>2, NewestContiguous
    <3>4. Len(pendingLogs') < MaxQueue => LastShown = logged + 1 - Len(pendingLogs')
      BY <1>t, <3>2, <3>3
    <3>5. \A i \in 1..Len(pendingLogs') :
            pendingLogs'[i] = logged' - Len(pendingLogs') + i
      BY <1>t, <3>0, <3>3
    <3>6. Len(pendingLogs') < MaxQueue => LastShown' = logged' - Len(pendingLogs')
      BY <1>t, <2>1, <3>0, <3>4
    <3>. QED
      BY <3>3, <3>5, <3>6 DEF LogsContiguous
  <2>3. CASE UNCHANGED <<pendingLogs, logged>>
    BY <2>1, <2>3 DEF LogsContiguous
  <2>. QED
    BY <1>1, <2>2, <2>3, WorkerLog
<1>2. CASE PollTake
  BY <1>2 DEF PollTake, TakeLatest, LogsContiguous, LastShown
<1>3. CASE PollApply
  <2>1. panel' = panel \o pendingLogs /\ pendingLogs' = <<>> /\ logged' = logged
    BY <1>3 DEF PollApply, TakePendingLogs
  <2>2. LastShown' = logged
    <3>1. CASE pendingLogs = <<>>
      <4>1. panel' = panel
        BY <1>t, <2>1, <3>1, ConcatEmptySeq
      <4>2. LastShown = logged
        BY <1>t, <3>1 DEF LogsContiguous
      <4>. QED
        BY <4>1, <4>2 DEF LastShown
    <3>2. CASE pendingLogs # <<>>
      <4>1. Len(pendingLogs) > 0
        BY <1>t, <3>2, EmptySeq
      <4>2. /\ panel' \in Seq(Nat)
            /\ Len(panel') = Len(panel) + Len(pendingLogs)
            /\ panel'[Len(panel) + Len(pendingLogs)] = pendingLogs[Len(pendingLogs)]
        BY <1>t, <2>1, <4>1, ConcatProperties
      <4>3. pendingLogs[Len(pendingLogs)] = logged
        BY <1>t, <4>1 DEF LogsContiguous
      <4>4. panel' # <<>>
        BY <1>t, <4>1, <4>2
      <4>. QED
        BY <4>2, <4>3, <4>4 DEF LastShown
    <3>. QED
      BY <3>1, <3>2
  <2>. QED
    BY <1>t, <2>1, <2>2 DEF LogsContiguous
<1>4. CASE UNCHANGED vars
  BY <1>4 DEF vars, snapVars, uiVars, LogsContiguous, LastShown
<1>. QED
  BY <1>1, <1>2, <1>3, <1>4 DEF Next

\* The queue holds the newest entries without holes, and the panel misses some
\* only after the queue was full, for every capacity.
THEOREM LogsHaveNoHoles == Spec => []LogsContiguous
<1>1. Init => LogsContiguous
  <2>. SUFFICES ASSUME Init PROVE LogsContiguous
    OBVIOUS
  <2>1. Len(pendingLogs) = 0 /\ LastShown = 0 /\ logged = 0
    BY EmptySeq DEF Init, SnapInit, LastShown
  <2>. QED
    BY <2>1, SnapAssumption DEF LogsContiguous
<1>2. TypeOK /\ LogsContiguous /\ [Next]_vars => LogsContiguous'
  BY LogsStep
<1>. QED
  BY <1>1, <1>2, TypeCorrect, PTL DEF Spec
-----------------------------------------------------------------------------
(* The refinement.                                                          *)

\* The initial states map to the initial state of LatestValue.
LEMMA RefinesInit == Init => LV!Init
  BY DEF Init, SnapInit, LV!Init

\* Every step maps to a step of LatestValue or leaves its variables alone.
LEMMA RefinesStep == ASSUME TypeOK, IInv, [Next]_vars PROVE [LV!Next]_(LV!vars)
<1>. USE DEF TypeOK, SnapTypeOK, Snapshot
<1>1. CASE Worker /\ UNCHANGED uiVars
  <2>1. WorkerWrites
    BY <1>1, WorkerEffect
  <2>2. ASSUME NEW d \in Domain, WriteDomain(d) PROVE LV!Produce(d)
    BY <1>1, <2>2 DEF WriteDomain, LV!Produce, uiVars
  <2>3. CASE UNCHANGED <<latest, dirty>>
    BY <1>1, <2>3 DEF uiVars, LV!vars
  <2>. QED
    BY <2>1, <2>2, <2>3 DEF WorkerWrites, LV!Next
<1>2. CASE PollTake
  BY <1>2 DEF PollTake, TakeLatest, LV!vars
<1>3. CASE PollApply
  <2>1. /\ poll = "apply" /\ UNCHANGED latest
        /\ shown' = [d \in Domain |-> IF d \in v.dirty THEN v.val[d] ELSE shown[d]]
    BY <1>3 DEF PollApply, Applied, TakePendingLogs
  <2>2. shown' \in [Domain -> Nat]
    BY <2>1
  <2>3. \A d \in Domain : shown[d] <= shown'[d] /\ shown'[d] <= latest[d]
    BY <2>1 DEF IInv, CopySound, ScreenSound
  <2>4. LV!Observe
    BY <2>1, <2>2, <2>3 DEF LV!Observe
  <2>. QED
    BY <2>4 DEF LV!Next
<1>4. CASE UNCHANGED vars
  BY <1>4 DEF vars, snapVars, uiVars, LV!vars
<1>. QED
  BY <1>1, <1>2, <1>3, <1>4 DEF Next

\* The standalone path implements LatestValue: what the screen shows was decoded
\* and never goes back.
THEOREM Refinement == Spec => ImplementsLatestValue
<1>1. TypeOK /\ IInv /\ [Next]_vars => [LV!Next]_(LV!vars)
  BY RefinesStep
<1>. QED
  BY <1>1, RefinesInit, TypeCorrect, IInvHolds, PTL
     DEF Spec, ImplementsLatestValue, LV!Spec

=============================================================================
