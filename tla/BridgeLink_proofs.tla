-------------------------- MODULE BridgeLink_proofs --------------------------
(***************************************************************************)
(* Proofs about bridge and client: type correctness on every network, and  *)
(* on one that only loses datagrams the order of edges and log entries and *)
(* the refinement of LatestValue, for every set of domains, queue capacity *)
(* and number of datagrams in flight.                                      *)
(***************************************************************************)
EXTENDS BridgeLink, SequenceTheorems, TLAPS
LOCAL INSTANCE SequencesExt

-----------------------------------------------------------------------------
(* Sequences.                                                               *)

\* What is left of a sequence without its element i, and in which order.
LEMMA RemoveEffect ==
  ASSUME NEW S, NEW s \in Seq(S), NEW i \in 1..Len(s)
  PROVE  /\ RemoveAt(s, i) \in Seq(S)
         /\ Len(s) \in Nat
         /\ Len(RemoveAt(s, i)) = Len(s) - 1
         /\ \A k \in 1..(Len(s) - 1) :
              RemoveAt(s, i)[k] = IF k < i THEN s[k] ELSE s[k + 1]
<1>. DEFINE a == SubSeq(s, 1, i - 1)
            b == SubSeq(s, i + 1, Len(s))
<1>0. Len(s) \in Nat /\ i \in Int /\ 1 <= i /\ i <= Len(s)
  BY LenProperties
<1>1. \A k \in 1..Len(s) : s[k] \in S
  BY ElementOfSeq
<1>2. a \in Seq(S) /\ Len(a) = i - 1 /\ \A k \in 1..(i - 1) : a[k] = s[k]
  <2>1. 1 \in Int /\ i - 1 \in Int /\ \A k \in 1..(i - 1) : s[k] \in S
    BY <1>0, <1>1
  <2>2. /\ a \in Seq(S)
        /\ Len(a) = IF 1 <= i - 1 THEN i - 1 - 1 + 1 ELSE 0
        /\ \A k \in 1..(i - 1 - 1 + 1) : a[k] = s[1 + k - 1]
    BY <2>1, SubSeqProperties
  <2>. HIDE DEF a
  <2>. QED
    BY <1>0, <2>2
<1>3. b \in Seq(S) /\ Len(b) = Len(s) - i /\ \A k \in 1..(Len(s) - i) : b[k] = s[i + k]
  <2>1. i + 1 \in Int /\ Len(s) \in Int /\ \A k \in (i + 1)..Len(s) : s[k] \in S
    BY <1>0, <1>1
  <2>2. /\ b \in Seq(S)
        /\ Len(b) = IF i + 1 <= Len(s) THEN Len(s) - (i + 1) + 1 ELSE 0
        /\ \A k \in 1..(Len(s) - (i + 1) + 1) : b[k] = s[(i + 1) + k - 1]
    BY <2>1, SubSeqProperties
  <2>. HIDE DEF b
  <2>. QED
    BY <1>0, <2>2
<1>4. RemoveAt(s, i) = a \o b
  BY DEF RemoveAt
<1>. HIDE DEF a, b
<1>5. /\ a \o b \in Seq(S)
      /\ Len(a \o b) = Len(a) + Len(b)
      /\ \A k \in 1..(Len(a) + Len(b)) :
           (a \o b)[k] = IF k <= Len(a) THEN a[k] ELSE b[k - Len(a)]
  BY <1>2, <1>3, ConcatProperties
<1>6. \A k \in 1..(Len(s) - 1) : (a \o b)[k] = IF k < i THEN s[k] ELSE s[k + 1]
  <2>. TAKE k \in 1..(Len(s) - 1)
  <2>1. CASE k < i
    BY <1>0, <1>2, <1>3, <1>5, <2>1
  <2>2. CASE ~(k < i)
    <3>1. k - (i - 1) \in 1..(Len(s) - i) /\ i + (k - (i - 1)) = k + 1
      BY <1>0, <2>2
    <3>2. (a \o b)[k] = b[k - (i - 1)]
      BY <1>0, <1>2, <1>3, <1>5, <2>2
    <3>. QED
      BY <1>0, <1>3, <2>2, <3>1, <3>2
  <2>. QED
    BY <2>1, <2>2
<1>. QED
  BY <1>0, <1>2, <1>3, <1>4, <1>5, <1>6

\* The queue never leaves Seq(Nat), and holds a suffix of what it was given.
LEMMA NewestSuffix ==
  ASSUME NEW q \in Seq(Nat)
  PROVE  /\ Newest(q) \in Seq(Nat)
         /\ \E c \in Nat : \A i \in 1..Len(Newest(q)) :
              i + c \in 1..Len(q) /\ Newest(q)[i] = q[i + c]
<1>0. Len(q) \in Nat /\ MaxQueue \in Nat /\ MaxQueue > 0
  BY LenProperties, SnapAssumption
<1>1. CASE Len(q) > MaxQueue
  <2>. DEFINE m == Len(q) - MaxQueue + 1
              r == SubSeq(q, m, Len(q))
  <2>0. m \in Int /\ m >= 2 /\ m <= Len(q) /\ m - 1 \in Nat
    BY <1>0, <1>1
  <2>1. \A i \in m..Len(q) : q[i] \in Nat
    BY <1>0, <2>0, ElementOfSeq
  <2>2. /\ r \in Seq(Nat)
        /\ Len(r) = IF m <= Len(q) THEN Len(q) - m + 1 ELSE 0
        /\ \A i \in 1..(Len(q) - m + 1) : r[i] = q[m + i - 1]
    BY <1>0, <2>0, <2>1, SubSeqProperties
  <2>3. Newest(q) = r
    BY <1>1 DEF Newest
  <2>. HIDE DEF m, r
  <2>4. \A i \in 1..Len(r) : i + (m - 1) \in 1..Len(q) /\ r[i] = q[i + (m - 1)]
    BY <1>0, <2>0, <2>2
  <2>. QED
    BY <2>0, <2>2, <2>3, <2>4
<1>2. CASE ~(Len(q) > MaxQueue)
  <2>1. Newest(q) = q
    BY <1>2 DEF Newest
  <2>2. 0 \in Nat /\ \A i \in 1..Len(q) : i + 0 \in 1..Len(q) /\ q[i] = q[i + 0]
    BY <1>0
  <2>. QED
    BY <2>1, <2>2
<1>. QED
  BY <1>1, <1>2

-----------------------------------------------------------------------------
(* Types.                                                                   *)

\* What a handler leaves to do consists of worker steps.
LEMMA EntriesType ==
  ASSUME NEW n \in Nat PROVE Entries(n) \o <<"tail">> \in Seq(WorkerStep)
<1>1. Entries(n) \in Seq(WorkerStep)
  BY IsASeq DEF Entries, WorkerStep
<1>2. <<"tail">> \in Seq(WorkerStep)
  BY DEF WorkerStep
<1>. QED
  BY <1>1, <1>2, ConcatProperties

\* The worker never leaves the types of the buffer.
LEMMA WorkerType == ASSUME SnapTypeOK, Worker PROVE SnapTypeOK'
<1>. USE SnapAssumption DEF SnapTypeOK
<1>1. ASSUME NEW d \in Domain \ {BusStats}, DecodeState(d) PROVE SnapTypeOK'
  <2>1. PICK n \in 0..LogsOf[d] : Begin(Entries(n) \o <<"tail">>, n)
    BY <1>1 DEF DecodeState
  <2>2. n \in Nat /\ worker' = Entries(n) \o <<"tail">>
    BY <2>1 DEF Begin
  <2>3. worker' \in Seq(WorkerStep)
    BY <2>2, EntriesType, Zenon
  <2>. QED
    BY <1>1, <2>3 DEF DecodeState, WriteDomain
<1>2. CASE DecodeFailsafeEvent
  <2>1. PICK n \in 0..1 : Begin(Entries(n) \o <<"tail">>, n)
    BY <1>2 DEF DecodeFailsafeEvent
  <2>2. n \in Nat /\ worker' = Entries(n) \o <<"tail">>
    BY <2>1 DEF Begin
  <2>3. worker' \in Seq(WorkerStep)
    BY <2>2, EntriesType, Zenon
  <2>. QED
    BY <1>2, <2>3 DEF DecodeFailsafeEvent
<1>3. CASE SendUiCommand
  <2>1. worker' \in {<<"stats", "log">>, <<"stats">>, <<"log">>}
    BY <1>3 DEF SendUiCommand, Begin
  <2>2. /\ <<"stats", "log">> \in Seq({"log", "stats", "tail"})
        /\ <<"stats">> \in Seq({"log", "stats", "tail"})
        /\ <<"log">> \in Seq({"log", "stats", "tail"})
    OBVIOUS
  <2>3. worker' \in Seq(WorkerStep)
    BY <2>1, <2>2, Zenon DEF WorkerStep
  <2>. QED
    BY <1>3, <2>3 DEF SendUiCommand
<1>4. CASE QueueLog
  <2>1. Append(pendingLogs, logged + 1) \in Seq(Nat)
    BY AppendProperties
  <2>2. pendingLogs' \in Seq(Nat)
    BY <1>4, <2>1, NewestSuffix DEF QueueLog
  <2>3. worker' \in Seq(WorkerStep)
    BY <1>4, HeadTailProperties DEF QueueLog
  <2>. QED
    BY <1>4, <2>2, <2>3 DEF QueueLog
<1>5. CASE PublishBusStats
  <2>1. worker' \in Seq(WorkerStep)
    BY <1>5, HeadTailProperties DEF PublishBusStats
  <2>. QED
    BY <1>5, <2>1 DEF PublishBusStats, WriteDomain
<1>6. CASE SkipBusStats
  <2>1. worker' \in Seq(WorkerStep)
    BY <1>6, HeadTailProperties DEF SkipBusStats
  <2>. QED
    BY <1>6, <2>1 DEF SkipBusStats
<1>. QED
  BY <1>1, <1>2, <1>3, <1>4, <1>5, <1>6 DEF Worker

\* The types of the snapshots that go from the buffer to the client.
LEMMA SnapshotTypes ==
  /\ NoSnapshot \in Snapshot
  /\ SnapTypeOK => TakeResult \in Snapshot /\ PeekResult \in Snapshot
  /\ \A s \in Snapshot : [s EXCEPT !.eventDirty = FALSE] \in Snapshot
  BY DEF NoSnapshot, Snapshot, SnapTypeOK, TakeResult, PeekResult

\* A datagram in flight carries a snapshot and log entries.
LEMMA NetSnaps ==
  ASSUME net \in Seq(Datagram)
  PROVE  \A k \in 1..Len(net) : net[k].snap \in Snapshot /\ net[k].logs \in Seq(Nat)
<1>. TAKE k \in 1..Len(net)
<1>1. net[k] \in Datagram
  BY ElementOfSeq
<1>. QED
  BY <1>1 DEF Datagram

\* What the client's KpiData and its history are after a snapshot was applied.
LEMMA AppliedTypes ==
  ASSUME NEW s \in Snapshot, NEW old \in [Domain -> Nat], NEW edges \in Seq(Nat)
  PROVE  /\ Applied(s, old) \in [Domain -> Nat]
         /\ AppliedEdge(s, edges) \in Seq(Nat)
  BY AppendProperties DEF Applied, AppliedEdge, Snapshot

\* A datagram that arrives is well typed.
LEMMA ReceiveType ==
  ASSUME NEW dg \in Datagram, clientLogs \in Seq(Nat), Receive(dg)
  PROVE  clientV' \in Snapshot /\ clientLogs' \in Seq(Nat) /\ have' = TRUE
  BY ConcatProperties DEF Receive, Datagram

\* Typing is kept by every step, restarts and changes of address included.
LEMMA TypeStep == ASSUME TypeOK, [Next]_vars PROVE TypeOK'
<1>t. SnapTypeOK /\ net \in Seq(Datagram) /\ clientLogs \in Seq(Nat) /\ cuts \in 0..MaxCuts
  BY DEF TypeOK
<1>1. CASE Worker /\ UNCHANGED <<bridgeVars, envVars, net, clientVars>>
  <2>1. SnapTypeOK'
    BY <1>t, <1>1, WorkerType
  <2>. QED
    BY <1>1, <2>1 DEF TypeOK, bridgeVars, envVars, clientVars
<1>2. CASE Hello
  BY <1>2 DEF Hello, TypeOK, SnapTypeOK, snapVars, envVars, clientVars
<1>3. CASE BridgePoll
  BY <1>3 DEF BridgePoll, PeekLatest, TypeOK, SnapTypeOK, bridgeVars, envVars, clientVars
<1>4. CASE TickPeek
  <2>1. tickV' \in Snapshot
    BY <1>t, <1>4, SnapshotTypes DEF TickPeek
  <2>. QED
    BY <1>4, <2>1 DEF TickPeek, PeekLatest, TypeOK, SnapTypeOK, envVars, clientVars
<1>5. CASE TickSend
  <2>1. [snap |-> tickV, logs |-> pendingLogs] \in Datagram
    BY DEF TypeOK, SnapTypeOK, Datagram
  <2>2. net' \in Seq(Datagram)
    BY <1>t, <1>5, <2>1, AppendProperties DEF TickSend
  <2>3. SnapTypeOK'
    BY <1>t, <1>5 DEF TickSend, TakePendingLogs, SnapTypeOK
  <2>. QED
    BY <1>5, <2>2, <2>3, SnapshotTypes DEF TickSend, TypeOK, envVars, clientVars
<1>6. CASE Lose
  <2>1. net' \in Seq(Datagram)
    BY <1>t, <1>6, RemoveEffect DEF Lose
  <2>. QED
    BY <1>t, <1>6, <2>1 DEF Lose, TypeOK, SnapTypeOK, snapVars, bridgeVars, envVars, clientVars
<1>7. ASSUME NEW i \in 1..MaxNet, Deliver(i) PROVE TypeOK'
  <2>1. i \in 1..Len(net)
    BY <1>7 DEF Deliver, Deliverable
  <2>2. net[i] \in Datagram
    BY <1>t, <2>1, ElementOfSeq
  <2>3. net' \in Seq(Datagram)
    BY <1>t, <1>7, <2>1, RemoveEffect DEF Deliver
  <2>4. clientV' \in Snapshot /\ clientLogs' \in Seq(Nat) /\ have' = TRUE
    BY <1>t, <1>7, <2>2, ReceiveType DEF Deliver
  <2>5. SnapTypeOK'
    BY <1>7 DEF Deliver, TypeOK, SnapTypeOK, snapVars
  <2>. QED
    BY <1>7, <2>3, <2>4, <2>5 DEF Deliver, Receive, TypeOK, bridgeVars, envVars
<1>8. CASE DeliverCopy
  <2>1. PICK i \in Deliverable : Receive(net[i])
    BY <1>8 DEF DeliverCopy
  <2>2. i \in 1..Len(net)
    BY DEF Deliverable
  <2>3. net[i] \in Datagram
    BY <1>t, <2>2, ElementOfSeq
  <2>4. clientV' \in Snapshot /\ clientLogs' \in Seq(Nat) /\ have' = TRUE
    BY <1>t, <2>1, <2>3, ReceiveType
  <2>5. SnapTypeOK'
    BY <1>8 DEF DeliverCopy, TypeOK, SnapTypeOK, snapVars
  <2>. QED
    BY <1>8, <2>1, <2>4, <2>5 DEF DeliverCopy, Receive, TypeOK, bridgeVars, envVars
<1>9. CASE ClientPoll
  <2>. DEFINE s == IF have THEN clientV ELSE NoSnapshot
  <2>1. s \in Snapshot
    BY SnapshotTypes DEF TypeOK
  <2>2. shown' = Applied(s, shown) /\ applied' = AppliedEdge(s, applied)
    BY <1>9 DEF ClientPoll
  <2>. HIDE DEF s
  <2>3. shown' \in [Domain -> Nat] /\ applied' \in Seq(Nat)
    BY <2>1, <2>2, AppliedTypes DEF TypeOK
  <2>4. clientV' \in Snapshot
    BY <1>9, SnapshotTypes DEF ClientPoll, TypeOK
  <2>5. panel' \in Seq(Nat) /\ clientLogs' \in Seq(Nat)
    BY <1>9, ConcatProperties, EmptySeq DEF ClientPoll, TypeOK
  <2>6. SnapTypeOK'
    BY <1>9 DEF ClientPoll, TypeOK, SnapTypeOK, snapVars
  <2>. QED
    BY <1>9, <2>3, <2>4, <2>5, <2>6 DEF ClientPoll, TypeOK, bridgeVars, envVars
<1>c. ASSUME Cut PROVE cuts' \in 0..MaxCuts /\ faults' = faults
  BY <1>t, <1>c, LinkAssumption DEF Cut
<1>10. CASE BridgeRestart
  <2>1. SnapTypeOK'
    BY <1>t, <1>10, EmptySeq DEF BridgeRestart, SnapReset, SnapTypeOK
  <2>. QED
    BY <1>c, <1>10, <2>1, SnapshotTypes DEF BridgeRestart, TypeOK, clientVars
<1>11. CASE ClientRestart
  <2>1. SnapTypeOK'
    BY <1>t, <1>11 DEF ClientRestart, SnapTypeOK, snapVars
  <2>2. shown' \in [Domain -> Nat] /\ <<>> \in Seq(Nat)
    BY <1>11, EmptySeq DEF ClientRestart
  <2>. QED
    BY <1>c, <1>11, <2>1, <2>2, SnapshotTypes DEF ClientRestart, TypeOK, bridgeVars
<1>12. CASE ClientMoves
  <2>1. SnapTypeOK'
    BY <1>t, <1>12 DEF ClientMoves, SnapTypeOK, snapVars
  <2>2. net' \in Seq(Datagram)
    BY <1>12, EmptySeq DEF ClientMoves
  <2>. QED
    BY <1>c, <1>12, <2>1, <2>2 DEF ClientMoves, TypeOK, clientVars
<1>13. CASE UNCHANGED vars
  BY <1>13 DEF vars, snapVars, bridgeVars, envVars, clientVars, TypeOK, SnapTypeOK
<1>. QED
  BY <1>1, <1>2, <1>3, <1>4, <1>5, <1>6, <1>7, <1>8, <1>9, <1>10, <1>11, <1>12, <1>13
     DEF Next

\* Every reachable state of bridge and client is well typed.
THEOREM TypeCorrect == Spec => []TypeOK
<1>1. Init => TypeOK
  <2>. SUFFICES ASSUME Init PROVE TypeOK
    OBVIOUS
  <2>1. SnapTypeOK
    BY EmptySeq DEF Init, SnapInit, SnapTypeOK
  <2>2. net \in Seq(Datagram) /\ <<>> \in Seq(Nat) /\ shown \in [Domain -> Nat]
    BY EmptySeq DEF Init
  <2>3. cuts \in 0..MaxCuts
    BY LinkAssumption DEF Init
  <2>. QED
    BY <2>1, <2>2, <2>3, SnapshotTypes DEF Init, TypeOK
<1>2. TypeOK /\ [Next]_vars => TypeOK'
  BY TypeStep
<1>. QED
  BY <1>1, <1>2, PTL DEF Spec

-----------------------------------------------------------------------------
(* A network that only loses datagrams.                                     *)

\* What such a network and two programs that do not restart can do.
LEMMA StepInOrder ==
  ASSUME TypeOK, InOrder, [Next]_vars
  PROVE  /\ InOrder'
         /\ \/ Worker /\ UNCHANGED <<bridgeVars, envVars, net, clientVars>>
            \/ Hello
            \/ BridgePoll
            \/ TickPeek
            \/ TickSend
            \/ Lose
            \/ Deliver(1) /\ 1 \in 1..Len(net)
            \/ ClientPoll
            \/ UNCHANGED vars
<1>1. /\ ~DeliverCopy /\ ~BridgeRestart /\ ~ClientRestart /\ ~ClientMoves
      /\ \A i : Deliver(i) => i = 1 /\ 1 \in 1..Len(net)
  BY DEF InOrder, DeliverCopy, BridgeRestart, ClientRestart, ClientMoves, Cut, Deliver,
     Deliverable
<1>2. \/ Worker /\ UNCHANGED <<bridgeVars, envVars, net, clientVars>>
      \/ Hello
      \/ BridgePoll
      \/ TickPeek
      \/ TickSend
      \/ Lose
      \/ Deliver(1) /\ 1 \in 1..Len(net)
      \/ ClientPoll
      \/ UNCHANGED vars
  BY <1>1 DEF Next
<1>3. faults' = faults
  BY <1>2 DEF Hello, BridgePoll, TickPeek, TickSend, Lose, Deliver, ClientPoll, envVars, vars
<1>. QED
  BY <1>2, <1>3 DEF InOrder

-----------------------------------------------------------------------------
(* Values and edges.                                                        *)

\* Snapshot s was made before t: its values are not newer, and it does not carry
\* the edge that t carries.
Older(s, t) ==
  /\ \A d \in Domain : s.val[d] <= t.val[d]
  /\ s.event <= t.event
  /\ s.eventDirty /\ t.eventDirty => s.event < t.event

\* The screen sh with the edges ap was filled from snapshots made before t.
Behind(sh, ap, t) ==
  /\ \A d \in Domain : sh[d] <= t.val[d]
  /\ \A i \in 1..Len(ap) : ap[i] <= t.event
  /\ t.eventDirty => \A i \in 1..Len(ap) : ap[i] < t.event

\* The inductive invariant: from the screen over the client's copy, the datagrams
\* in flight and the tick's copy to the buffer, snapshots only get newer, and no
\* two of them carry the same edge.
ChainInv ==
  /\ Increasing(applied)
  /\ Behind(shown, applied, TakeResult)
  /\ have => Behind(shown, applied, clientV) /\ Older(clientV, TakeResult)
  /\ tick = "send" => Behind(shown, applied, tickV) /\ Older(tickV, TakeResult)
  /\ have /\ tick = "send" => Older(clientV, tickV)
  /\ \A k \in 1..Len(net) :
       /\ Behind(shown, applied, net[k].snap)
       /\ Older(net[k].snap, TakeResult)
       /\ have => Older(clientV, net[k].snap)
       /\ tick = "send" => Older(net[k].snap, tickV)
  /\ \A k, l \in 1..Len(net) : k < l => Older(net[k].snap, net[l].snap)

\* The buffer only gets newer while the worker runs.
LEMMA WorkerAdvances ==
  ASSUME SnapTypeOK, Worker
  PROVE  /\ \A d \in Domain : latest[d] <= latest'[d]
         /\ \/ event' = event + 1 /\ eventDirty' = TRUE
            \/ UNCHANGED <<event, eventDirty>>
<1>1. \/ \E d \in Domain : WriteDomain(d)
      \/ UNCHANGED latest
  BY SnapAssumption DEF Worker, DecodeState, DecodeFailsafeEvent, SendUiCommand, QueueLog,
     PublishBusStats, SkipBusStats
<1>2. \A d \in Domain : latest[d] <= latest'[d]
  BY <1>1 DEF WriteDomain, SnapTypeOK
<1>3. \/ event' = event + 1 /\ eventDirty' = TRUE
      \/ UNCHANGED <<event, eventDirty>>
  BY DEF Worker, DecodeState, DecodeFailsafeEvent, SendUiCommand, QueueLog,
     PublishBusStats, SkipBusStats
<1>. QED
  BY <1>2, <1>3

\* So what was made before the buffer's state was made before its next one, be it
\* the worker that moved it or a reader that consumed the edge.
LEMMA StaysBehind ==
  ASSUME SnapTypeOK, SnapTypeOK',
         \/ Worker
         \/ UNCHANGED <<latest, event>> /\ eventDirty' \in {eventDirty, FALSE},
         NEW sh \in [Domain -> Nat], NEW ap \in Seq(Nat)
  PROVE  /\ \A s \in Snapshot : Older(s, TakeResult) => Older(s, TakeResult')
         /\ Behind(sh, ap, TakeResult) => Behind(sh, ap, TakeResult')
<1>1. /\ \A d \in Domain : latest[d] <= latest'[d]
      /\ \/ event' = event + 1 /\ eventDirty' = TRUE
         \/ event' = event /\ (eventDirty' => eventDirty)
  <2>1. CASE Worker
    BY <2>1, WorkerAdvances DEF SnapTypeOK
  <2>2. CASE UNCHANGED <<latest, event>> /\ eventDirty' \in {eventDirty, FALSE}
    <3>1. eventDirty' => eventDirty
      BY <2>2
    <3>2. \A d \in Domain : latest[d] <= latest'[d]
      BY <2>2 DEF SnapTypeOK
    <3>. QED
      BY <2>2, <3>1, <3>2
  <2>. QED
    BY <2>1, <2>2
<1>2. /\ latest \in [Domain -> Nat] /\ latest' \in [Domain -> Nat]
      /\ event \in Nat /\ event' \in Nat
  BY DEF SnapTypeOK
<1>3. ASSUME NEW s \in Snapshot, Older(s, TakeResult) PROVE Older(s, TakeResult')
  <2>1. s.val \in [Domain -> Nat] /\ s.event \in Nat
    BY DEF Snapshot
  <2>. QED
    BY <1>1, <1>2, <1>3, <2>1 DEF Older, TakeResult
<1>4. ASSUME Behind(sh, ap, TakeResult) PROVE Behind(sh, ap, TakeResult')
  <2>1. \A i \in 1..Len(ap) : ap[i] \in Nat
    BY ElementOfSeq
  <2>. QED
    BY <1>1, <1>2, <1>4, <2>1 DEF Behind, TakeResult
<1>. QED
  BY <1>3, <1>4

\* The chain is kept when only the buffer moves, and when nothing does.
LEMMA ChainSource ==
  ASSUME TypeOK, TypeOK', ChainInv,
         \/ Worker
         \/ UNCHANGED <<latest, event>> /\ eventDirty' \in {eventDirty, FALSE},
         UNCHANGED <<tick, tickV, net, have, clientV, shown, applied>>
  PROVE  ChainInv'
<1>1. /\ SnapTypeOK /\ SnapTypeOK' /\ tickV \in Snapshot /\ clientV \in Snapshot
      /\ net \in Seq(Datagram) /\ shown \in [Domain -> Nat] /\ applied \in Seq(Nat)
  BY DEF TypeOK
<1>2. \A k \in 1..Len(net) : net[k].snap \in Snapshot
  BY <1>1, NetSnaps
<1>3. \A s \in Snapshot : Older(s, TakeResult) => Older(s, TakeResult')
  BY <1>1, StaysBehind
<1>4. Behind(shown, applied, TakeResult) => Behind(shown, applied, TakeResult')
  BY <1>1, StaysBehind
<1>. QED
  BY <1>1, <1>2, <1>3, <1>4 DEF ChainInv

\* A copy made by peekLatest(), which consumes the edge, is the newest link.
LEMMA ChainPeek == ASSUME TypeOK, TypeOK', ChainInv, TickPeek PROVE ChainInv'
<1>1. /\ SnapTypeOK /\ SnapTypeOK' /\ clientV \in Snapshot
      /\ net \in Seq(Datagram) /\ shown \in [Domain -> Nat] /\ applied \in Seq(Nat)
  BY DEF TypeOK
<1>2. \A k \in 1..Len(net) : net[k].snap \in Snapshot
  BY <1>1, NetSnaps
<1>3. /\ tick' = "send" /\ tickV' = PeekResult /\ eventDirty' = FALSE
      /\ UNCHANGED <<latest, event, net, have, clientV, shown, applied>>
  BY DEF TickPeek, PeekLatest, clientVars
<1>4. /\ \A s \in Snapshot : Older(s, TakeResult) => Older(s, TakeResult')
      /\ Behind(shown, applied, TakeResult) => Behind(shown, applied, TakeResult')
  BY <1>1, <1>3, StaysBehind
<1>5. /\ \A s \in Snapshot : Older(s, TakeResult) => Older(s, tickV')
      /\ Behind(shown, applied, TakeResult) => Behind(shown, applied, tickV')
  BY <1>3 DEF Older, Behind, TakeResult, PeekResult
<1>6. Older(tickV', TakeResult')
  BY <1>1, <1>3 DEF Older, TakeResult, PeekResult, SnapTypeOK
<1>. QED
  BY <1>1, <1>2, <1>3, <1>4, <1>5, <1>6 DEF ChainInv

\* Sending puts the tick's copy behind the datagrams in flight, or drops it.
LEMMA ChainSend == ASSUME TypeOK, ChainInv, TickSend PROVE ChainInv'
<1>1. /\ tick = "send" /\ tick' = "idle" /\ net \in Seq(Datagram) /\ Len(net) \in Nat
      /\ UNCHANGED <<latest, dirty, event, eventDirty, have, clientV, shown, applied>>
  BY LenProperties DEF TickSend, TakePendingLogs, clientVars, TypeOK
<1>2. TakeResult' = TakeResult
  BY <1>1 DEF TakeResult
<1>3. CASE net' = net
  BY <1>1, <1>2, <1>3 DEF ChainInv
<1>4. CASE net' = Append(net, [snap |-> tickV, logs |-> pendingLogs])
  <2>1. /\ Len(net') = Len(net) + 1
        /\ \A k \in 1..Len(net) : net'[k] = net[k]
        /\ net'[Len(net) + 1].snap = tickV
    BY <1>1, <1>4, AppendProperties
  <2>2. \A k \in 1..Len(net') : k \in 1..Len(net) \/ k = Len(net) + 1
    BY <1>1, <2>1
  <2>3. \A k \in 1..Len(net') :
          /\ Behind(shown, applied, net'[k].snap)
          /\ Older(net'[k].snap, TakeResult)
          /\ have => Older(clientV, net'[k].snap)
    BY <1>1, <2>1, <2>2 DEF ChainInv
  <2>4. ASSUME NEW k \in 1..Len(net'), NEW l \in 1..Len(net'), k < l
        PROVE  Older(net'[k].snap, net'[l].snap)
    <3>1. k \in 1..Len(net)
      BY <1>1, <2>1, <2>4
    <3>2. CASE l \in 1..Len(net)
      BY <2>1, <2>4, <3>1, <3>2 DEF ChainInv
    <3>3. CASE l = Len(net) + 1
      BY <1>1, <2>1, <3>1, <3>3 DEF ChainInv
    <3>. QED
      BY <2>2, <3>2, <3>3
  <2>. QED
    BY <1>1, <1>2, <2>3, <2>4 DEF ChainInv
<1>. QED
  BY <1>3, <1>4 DEF TickSend

\* What is in flight without one datagram is still in order.
LEMMA ChainThinned ==
  ASSUME TypeOK, ChainInv, NEW i \in 1..Len(net), net' = RemoveAt(net, i),
         UNCHANGED <<latest, dirty, event, eventDirty, tick, tickV, have, clientV, shown,
                     applied>>
  PROVE  ChainInv'
<1>1. net \in Seq(Datagram)
  BY DEF TypeOK
<1>2. /\ Len(net) \in Nat
      /\ Len(net') = Len(net) - 1
      /\ \A k \in 1..(Len(net) - 1) : net'[k] = IF k < i THEN net[k] ELSE net[k + 1]
  BY <1>1, RemoveEffect
<1>3. TakeResult' = TakeResult
  BY DEF TakeResult
<1>4. \A k \in 1..Len(net') :
        /\ Behind(shown, applied, net'[k].snap)
        /\ Older(net'[k].snap, TakeResult)
        /\ have => Older(clientV, net'[k].snap)
        /\ tick = "send" => Older(net'[k].snap, tickV)
  BY <1>2 DEF ChainInv
<1>5. \A k, l \in 1..Len(net') : k < l => Older(net'[k].snap, net'[l].snap)
  <2>1. \A k, l \in 1..Len(net) : k < l => Older(net[k].snap, net[l].snap)
    BY DEF ChainInv
  <2>2. ASSUME NEW k \in 1..Len(net'), NEW l \in 1..Len(net'), k < l
        PROVE  Older(net'[k].snap, net'[l].snap)
    <3>. DEFINE a == IF k < i THEN k ELSE k + 1
                b == IF l < i THEN l ELSE l + 1
    <3>1. a \in 1..Len(net) /\ b \in 1..Len(net) /\ a < b
      BY <1>2, <2>2
    <3>2. net'[k] = net[a] /\ net'[l] = net[b]
      BY <1>2
    <3>. HIDE DEF a, b
    <3>. QED
      BY <2>1, <3>1, <3>2
  <2>. QED
    BY <2>2
<1>. QED
  BY <1>3, <1>4, <1>5 DEF ChainInv

\* The oldest datagram becomes the client's copy.
LEMMA ChainDeliver ==
  ASSUME TypeOK, ChainInv, Deliver(1), 1 \in 1..Len(net)
  PROVE  ChainInv'
<1>1. net \in Seq(Datagram)
  BY DEF TypeOK
<1>2. /\ clientV' = net[1].snap /\ have' = TRUE /\ net' = RemoveAt(net, 1)
      /\ UNCHANGED <<latest, dirty, event, eventDirty, tick, tickV, shown, applied>>
  BY DEF Deliver, Receive, snapVars, bridgeVars
<1>3. /\ Len(net) \in Nat
      /\ Len(net') = Len(net) - 1
      /\ \A k \in 1..(Len(net) - 1) : net'[k] = IF k < 1 THEN net[k] ELSE net[k + 1]
  BY <1>1, <1>2, RemoveEffect
<1>4. \A k \in 1..Len(net') : net'[k] = net[k + 1] /\ k + 1 \in 1..Len(net) /\ 1 < k + 1
  BY <1>3
<1>5. TakeResult' = TakeResult
  BY <1>2 DEF TakeResult
<1>6. \A k, l \in 1..Len(net) : k < l => Older(net[k].snap, net[l].snap)
  BY DEF ChainInv
<1>7. \A k \in 1..Len(net') :
        /\ Behind(shown, applied, net'[k].snap)
        /\ Older(net'[k].snap, TakeResult)
        /\ Older(clientV', net'[k].snap)
        /\ tick = "send" => Older(net'[k].snap, tickV)
  BY <1>2, <1>4, <1>6 DEF ChainInv
<1>8. \A k, l \in 1..Len(net') : k < l => Older(net'[k].snap, net'[l].snap)
  <2>. TAKE k, l \in 1..Len(net')
  <2>1. k < l => k + 1 < l + 1
    BY <1>3
  <2>. QED
    BY <1>4, <1>6, <2>1
<1>. QED
  BY <1>2, <1>5, <1>7, <1>8 DEF ChainInv

\* The screen catches up with the client's copy and consumes its edge.
LEMMA ChainClientPoll == ASSUME TypeOK, ChainInv, ClientPoll PROVE ChainInv'
<1>1. /\ clientV \in Snapshot /\ tickV \in Snapshot /\ TakeResult \in Snapshot
      /\ net \in Seq(Datagram) /\ shown \in [Domain -> Nat] /\ applied \in Seq(Nat)
      /\ Len(applied) \in Nat
  BY SnapshotTypes, LenProperties DEF TypeOK
<1>2. \A k \in 1..Len(net) : net[k].snap \in Snapshot
  BY <1>1, NetSnaps
<1>3. /\ UNCHANGED <<latest, dirty, event, eventDirty, tick, tickV, net, have>>
      /\ TakeResult' = TakeResult
  BY DEF ClientPoll, snapVars, bridgeVars, TakeResult
<1>4. CASE ~have
  <2>1. UNCHANGED <<clientV, shown, applied>>
    BY <1>1, <1>4 DEF ClientPoll, NoSnapshot, Applied, AppliedEdge
  <2>. QED
    BY <1>3, <2>1 DEF ChainInv
<1>5. CASE have
  <2>1. /\ clientV' = [clientV EXCEPT !.eventDirty = FALSE]
        /\ shown' = Applied(clientV, shown)
        /\ applied' = AppliedEdge(clientV, applied)
    BY <1>5 DEF ClientPoll
  <2>2. \A i \in 1..Len(applied) : applied[i] \in Nat
    BY <1>1, ElementOfSeq
  <2>3. clientV.event \in Nat /\ clientV.val \in [Domain -> Nat] /\ clientV.eventDirty \in BOOLEAN
    BY <1>1 DEF Snapshot
  <2>4. \/ clientV.eventDirty /\ Len(applied') = Len(applied) + 1
           /\ (\A i \in 1..Len(applied) : applied'[i] = applied[i])
           /\ applied'[Len(applied) + 1] = clientV.event
        \/ ~clientV.eventDirty /\ applied' = applied
    BY <1>1, <2>1, <2>3, AppendProperties DEF AppliedEdge
  <2>5. Behind(shown, applied, clientV) /\ Older(clientV, TakeResult)
    BY <1>5 DEF ChainInv
  <2>6. Increasing(applied')
    <3>1. CASE ~clientV.eventDirty
      BY <2>4, <3>1 DEF ChainInv
    <3>2. CASE clientV.eventDirty
      <4>1. Increasing(applied) /\ \A i \in 1..Len(applied) : applied[i] < clientV.event
        BY <2>5, <3>2 DEF ChainInv, Behind
      <4>2. ASSUME NEW i \in 1..Len(applied'), NEW j \in 1..Len(applied'), i < j
            PROVE  applied'[i] < applied'[j]
        <5>1. i \in 1..Len(applied) /\ applied'[i] = applied[i]
          BY <1>1, <2>4, <3>2, <4>2
        <5>2. CASE j = Len(applied) + 1
          BY <2>4, <3>2, <4>1, <5>1, <5>2
        <5>3. CASE j # Len(applied) + 1
          <6>1. j \in 1..Len(applied) /\ applied'[j] = applied[j]
            BY <1>1, <2>4, <3>2, <5>3
          <6>. QED
            BY <4>1, <4>2, <5>1, <6>1 DEF Increasing
        <5>. QED
          BY <5>2, <5>3
      <4>. QED
        BY <4>2 DEF Increasing
    <3>. QED
      BY <3>1, <3>2
  <2>7. \A d \in Domain : shown'[d] = IF d \in clientV.dirty THEN clientV.val[d] ELSE shown[d]
    BY <2>1 DEF Applied
  <2>8. ASSUME NEW t \in Snapshot, Older(clientV, t), Behind(shown, applied, t)
        PROVE  Behind(shown', applied', t) /\ Older(clientV', t)
    <3>1. t.event \in Nat /\ t.val \in [Domain -> Nat]
      BY DEF Snapshot
    <3>2. Older(clientV', t)
      BY <1>1, <2>1, <2>8 DEF Older, Snapshot
    <3>3. \A d \in Domain : shown'[d] <= t.val[d]
      BY <2>7, <2>8 DEF Older, Behind
    <3>4. \A i \in 1..Len(applied') : applied'[i] <= t.event
      BY <1>1, <2>4, <2>8 DEF Older, Behind
    <3>5. t.eventDirty => \A i \in 1..Len(applied') : applied'[i] < t.event
      BY <1>1, <2>4, <2>8 DEF Older, Behind
    <3>. QED
      BY <3>2, <3>3, <3>4, <3>5 DEF Behind
  <2>9. Behind(shown', applied', clientV')
    <3>1. /\ clientV'.val = clientV.val /\ clientV'.event = clientV.event
          /\ clientV'.eventDirty = FALSE
      BY <1>1, <2>1 DEF Snapshot
    <3>2. \A d \in Domain : shown'[d] <= clientV.val[d]
      BY <2>3, <2>5, <2>7 DEF Behind
    <3>3. \A i \in 1..Len(applied') : applied'[i] <= clientV.event
      BY <1>1, <2>3, <2>4, <2>5 DEF Behind
    <3>. QED
      BY <3>1, <3>2, <3>3 DEF Behind
  <2>10. Behind(shown', applied', TakeResult) /\ Older(clientV', TakeResult)
    BY <1>1, <2>5, <2>8 DEF ChainInv
  <2>11. tick = "send" => Behind(shown', applied', tickV) /\ Older(clientV', tickV)
    BY <1>1, <1>5, <2>8 DEF ChainInv
  <2>12. \A k \in 1..Len(net) :
           Behind(shown', applied', net[k].snap) /\ Older(clientV', net[k].snap)
    BY <1>2, <1>5, <2>8 DEF ChainInv
  <2>. QED
    BY <1>3, <2>6, <2>9, <2>10, <2>11, <2>12 DEF ChainInv
<1>. QED
  BY <1>4, <1>5

\* On a network that keeps the order the chain is kept by every step.
LEMMA ChainStep ==
  ASSUME TypeOK, TypeOK', InOrder, ChainInv, [Next]_vars PROVE ChainInv'
<1>1. CASE Worker /\ UNCHANGED <<bridgeVars, envVars, net, clientVars>>
  BY <1>1, ChainSource DEF bridgeVars, clientVars
<1>2. CASE Hello
  BY <1>2, ChainSource DEF Hello, snapVars, clientVars
<1>3. CASE BridgePoll
  BY <1>3, ChainSource DEF BridgePoll, PeekLatest, bridgeVars, clientVars
<1>4. CASE TickPeek
  BY <1>4, ChainPeek
<1>5. CASE TickSend
  BY <1>5, ChainSend
<1>6. CASE Lose
  BY <1>6, ChainThinned DEF Lose, snapVars, bridgeVars, clientVars
<1>7. CASE Deliver(1) /\ 1 \in 1..Len(net)
  BY <1>7, ChainDeliver
<1>8. CASE ClientPoll
  BY <1>8, ChainClientPoll
<1>9. CASE UNCHANGED vars
  BY <1>9, ChainSource DEF vars, snapVars, bridgeVars, clientVars
<1>. QED
  BY <1>1, <1>2, <1>3, <1>4, <1>5, <1>6, <1>7, <1>8, <1>9, StepInOrder

\* The chain holds in every reachable state of such a network.
THEOREM ChainHolds == Spec => [](InOrder => ChainInv)
<1>1. Init => ChainInv
  BY EmptySeq DEF Init, SnapInit, ChainInv, Increasing, Behind, TakeResult
<1>2. TypeOK /\ TypeOK' /\ (InOrder => ChainInv) /\ [Next]_vars => (InOrder => ChainInv)'
  <2>1. [Next]_vars /\ InOrder' => InOrder
    BY DEF InOrder, Next, vars, envVars, Hello, BridgePoll, TickPeek, TickSend, Lose, Deliver,
       DeliverCopy, ClientPoll, BridgeRestart, ClientRestart, ClientMoves, Cut
  <2>. QED
    BY <2>1, ChainStep
<1>. QED
  BY <1>1, <1>2, TypeCorrect, PTL DEF Spec

\* The client applies a Fail_Safe_Event edge at most once and in order, although
\* every snapshot is applied again on every poll.
THEOREM EdgesAreNotRepeated == Spec => []EdgeAtMostOnce
<1>1. (InOrder => ChainInv) => EdgeAtMostOnce
  BY DEF ChainInv, EdgeAtMostOnce
<1>. QED
  BY <1>1, ChainHolds, PTL

-----------------------------------------------------------------------------
(* The refinement.                                                          *)

\* Every step of such a network maps to a step of LatestValue or leaves its
\* variables alone.
LEMMA RefinesStep ==
  ASSUME TypeOK, TypeOK', InOrder, ChainInv, [Next]_vars
  PROVE  [LV!Next]_(LV!vars)
<1>1. CASE Worker /\ UNCHANGED <<bridgeVars, envVars, net, clientVars>>
  <2>1. \/ \E d \in Domain : WriteDomain(d)
        \/ UNCHANGED latest
    BY <1>1, SnapAssumption DEF Worker, DecodeState, DecodeFailsafeEvent, SendUiCommand,
       QueueLog, PublishBusStats, SkipBusStats
  <2>2. UNCHANGED shown
    BY <1>1 DEF clientVars
  <2>3. ASSUME NEW d \in Domain, WriteDomain(d) PROVE LV!Produce(d)
    BY <2>2, <2>3 DEF WriteDomain, LV!Produce
  <2>. QED
    BY <2>1, <2>2, <2>3 DEF LV!Next, LV!vars
<1>2. CASE ClientPoll
  <2>1. UNCHANGED latest /\ shown' \in [Domain -> Nat]
    BY <1>2 DEF ClientPoll, snapVars, TypeOK
  <2>2. \A d \in Domain : shown[d] <= shown'[d]
    <3>1. CASE have
      <4>1. shown' = Applied(clientV, shown)
        BY <1>2, <3>1 DEF ClientPoll
      <4>2. Behind(shown, applied, clientV)
        BY <3>1 DEF ChainInv
      <4>. QED
        BY <4>1, <4>2 DEF Applied, Behind, TypeOK
    <3>2. CASE ~have
      <4>1. shown' = Applied(NoSnapshot, shown)
        BY <1>2, <3>2 DEF ClientPoll
      <4>. QED
        BY <4>1 DEF Applied, NoSnapshot, TypeOK
    <3>. QED
      BY <3>1, <3>2
  <2>3. \A d \in Domain : shown'[d] <= latest[d]
    <3>1. ChainInv'
      BY <1>2, ChainClientPoll
    <3>2. Behind(shown', applied', TakeResult')
      BY <3>1 DEF ChainInv
    <3>. QED
      BY <2>1, <3>2 DEF Behind, TakeResult
  <2>. QED
    BY <2>1, <2>2, <2>3 DEF LV!Observe, LV!Next
<1>3. CASE Hello \/ BridgePoll \/ TickPeek \/ TickSend
  BY <1>3 DEF Hello, BridgePoll, TickPeek, TickSend, PeekLatest, TakePendingLogs, snapVars,
     clientVars, LV!vars
<1>4. CASE Lose \/ Deliver(1)
  BY <1>4 DEF Lose, Deliver, Receive, snapVars, clientVars, LV!vars
<1>5. CASE UNCHANGED vars
  BY <1>5 DEF vars, snapVars, clientVars, LV!vars
<1>. QED
  BY <1>1, <1>2, <1>3, <1>4, <1>5, StepInOrder

\* The remote path implements LatestValue as long as nothing reorders, copies or
\* restarts: the client shows decoded values and never goes back.
THEOREM Refinement == Spec => ImplementsLatestValue
<1>1. Init => LV!Init
  BY DEF Init, SnapInit, LV!Init
<1>2. TypeOK /\ TypeOK' /\ (InOrder => ChainInv) /\ [Next]_vars
        => [InOrder => [LV!Next]_(LV!vars)]_vars
  BY RefinesStep
<1>. QED
  BY <1>1, <1>2, TypeCorrect, ChainHolds, PTL DEF Spec, ImplementsLatestValue

-----------------------------------------------------------------------------
(* The log entries.                                                         *)

\* No entry of s is newer than the nth given to queueLog().
AtMost(s, n) == \A i \in 1..Len(s) : s[i] <= n

\* The inductive invariant: LogsInOrder stage by stage, and no entry is newer than
\* the last one queued.
LogsInv ==
  /\ Increasing(panel) /\ AtMost(panel, logged)
  /\ Increasing(clientLogs) /\ AtMost(clientLogs, logged)
  /\ Increasing(pendingLogs) /\ AtMost(pendingLogs, logged)
  /\ Before(panel, clientLogs) /\ Before(panel, pendingLogs)
  /\ Before(clientLogs, pendingLogs)
  /\ \A k \in 1..Len(net) :
       /\ Increasing(net[k].logs) /\ AtMost(net[k].logs, logged)
       /\ Before(panel, net[k].logs) /\ Before(clientLogs, net[k].logs)
       /\ Before(net[k].logs, pendingLogs)
  /\ \A k, l \in 1..Len(net) : k < l => Before(net[k].logs, net[l].logs)

\* An empty stage is in order with every other.
LEMMA EmptyStage ==
  /\ Increasing(<<>>)
  /\ \A n : AtMost(<<>>, n)
  /\ \A s : Before(s, <<>>) /\ Before(<<>>, s)
  BY EmptySeq DEF Increasing, AtMost, Before

\* Two stages in order can be joined.
LEMMA JoinStages ==
  ASSUME NEW s \in Seq(Nat), NEW t \in Seq(Nat),
         Increasing(s), Increasing(t), Before(s, t)
  PROVE  /\ Increasing(s \o t)
         /\ \A n : AtMost(s, n) /\ AtMost(t, n) => AtMost(s \o t, n)
         /\ \A u : Before(s, u) /\ Before(t, u) => Before(s \o t, u)
<1>1. /\ Len(s) \in Nat /\ Len(t) \in Nat /\ Len(s \o t) = Len(s) + Len(t)
      /\ \A i \in 1..(Len(s) + Len(t)) :
           (s \o t)[i] = IF i <= Len(s) THEN s[i] ELSE t[i - Len(s)]
  BY ConcatProperties, LenProperties
<1>2. \A i \in 1..(Len(s) + Len(t)) :
        \/ i \in 1..Len(s) /\ (s \o t)[i] = s[i]
        \/ i - Len(s) \in 1..Len(t) /\ i > Len(s) /\ (s \o t)[i] = t[i - Len(s)]
  BY <1>1
<1>3. Increasing(s \o t)
  <2>1. ASSUME NEW i \in 1..(Len(s) + Len(t)), NEW j \in 1..(Len(s) + Len(t)), i < j
        PROVE  (s \o t)[i] < (s \o t)[j]
    <3>1. CASE i \in 1..Len(s) /\ j \in 1..Len(s)
      BY <1>1, <2>1, <3>1 DEF Increasing
    <3>2. CASE i \in 1..Len(s) /\ j > Len(s)
      <4>1. (s \o t)[i] = s[i] /\ (s \o t)[j] = t[j - Len(s)] /\ j - Len(s) \in 1..Len(t)
        BY <1>1, <3>2
      <4>. QED
        BY <3>2, <4>1 DEF Before
    <3>3. CASE i > Len(s)
      <4>1. /\ (s \o t)[i] = t[i - Len(s)] /\ i - Len(s) \in 1..Len(t)
            /\ (s \o t)[j] = t[j - Len(s)] /\ j - Len(s) \in 1..Len(t)
            /\ i - Len(s) < j - Len(s)
        BY <1>1, <2>1, <3>3
      <4>. QED
        BY <4>1 DEF Increasing
    <3>. QED
      BY <1>1, <2>1, <3>1, <3>2, <3>3
  <2>. QED
    BY <1>1, <2>1 DEF Increasing
<1>4. ASSUME NEW n, AtMost(s, n), AtMost(t, n) PROVE AtMost(s \o t, n)
  BY <1>1, <1>2, <1>4 DEF AtMost
<1>5. ASSUME NEW u, Before(s, u), Before(t, u) PROVE Before(s \o t, u)
  BY <1>1, <1>2, <1>5 DEF Before
<1>. QED
  BY <1>3, <1>4, <1>5

\* One more entry, and the oldest ones dropped from a full queue: the queue is
\* still in order, and so is every older stage with it.
LEMMA QueueStage ==
  ASSUME NEW q \in Seq(Nat), NEW n \in Nat, Increasing(q), AtMost(q, n)
  PROVE  /\ Increasing(Newest(Append(q, n + 1)))
         /\ AtMost(Newest(Append(q, n + 1)), n + 1)
         /\ \A s \in Seq(Nat) :
              Before(s, q) /\ AtMost(s, n) => Before(s, Newest(Append(q, n + 1)))
<1>. DEFINE a == Append(q, n + 1)
            r == Newest(a)
<1>1. /\ a \in Seq(Nat) /\ Len(q) \in Nat /\ Len(a) = Len(q) + 1
      /\ \A i \in 1..Len(q) : a[i] = q[i]
      /\ a[Len(q) + 1] = n + 1
  BY AppendProperties, LenProperties
<1>2. /\ r \in Seq(Nat)
      /\ \E c \in Nat : \A i \in 1..Len(r) : i + c \in 1..Len(a) /\ r[i] = a[i + c]
  BY <1>1, NewestSuffix
<1>. HIDE DEF a, r
<1>3. PICK c \in Nat : \A i \in 1..Len(r) : i + c \in 1..Len(a) /\ r[i] = a[i + c]
  BY <1>2
<1>4. Len(r) \in Nat
  BY <1>2, LenProperties
<1>5. \A i \in 1..Len(a) : (i \in 1..Len(q) /\ a[i] = q[i]) \/ (i = Len(q) + 1 /\ a[i] = n + 1)
  BY <1>1
<1>6. \A i \in 1..Len(q) : q[i] \in Nat
  BY ElementOfSeq
<1>7. Increasing(a)
  <2>1. ASSUME NEW i \in 1..Len(a), NEW j \in 1..Len(a), i < j PROVE a[i] < a[j]
    <3>1. i \in 1..Len(q) /\ a[i] = q[i]
      BY <1>1, <2>1
    <3>2. CASE j \in 1..Len(q)
      BY <1>1, <2>1, <3>1, <3>2 DEF Increasing
    <3>3. CASE j = Len(q) + 1
      <4>1. q[i] <= n /\ q[i] \in Nat
        BY <1>6, <3>1 DEF AtMost
      <4>. QED
        BY <1>1, <3>1, <3>3, <4>1
    <3>. QED
      BY <1>5, <3>2, <3>3
  <2>. QED
    BY <2>1 DEF Increasing
<1>8. AtMost(a, n + 1)
  BY <1>5, <1>6 DEF AtMost
<1>9. Increasing(r)
  <2>1. ASSUME NEW i \in 1..Len(r), NEW j \in 1..Len(r), i < j PROVE r[i] < r[j]
    <3>1. i + c < j + c
      BY <1>4, <2>1
    <3>. QED
      BY <1>3, <1>7, <3>1 DEF Increasing
  <2>. QED
    BY <2>1 DEF Increasing
<1>10. AtMost(r, n + 1)
  BY <1>3, <1>8 DEF AtMost
<1>11. ASSUME NEW s \in Seq(Nat), Before(s, q), AtMost(s, n) PROVE Before(s, r)
  <2>1. \A i \in 1..Len(s) : s[i] \in Nat /\ s[i] <= n
    BY <1>11, ElementOfSeq DEF AtMost
  <2>2. \A i \in 1..Len(s), j \in 1..Len(a) : s[i] < a[j]
    BY <1>5, <1>11, <2>1 DEF Before
  <2>. QED
    BY <1>3, <2>2 DEF Before
<1>. QED
  BY <1>9, <1>10, <1>11 DEF r, a

\* A worker step that is not queueLog() leaves the queue alone.
LEMMA WorkerLog ==
  ASSUME Worker PROVE QueueLog \/ UNCHANGED <<pendingLogs, logged>>
  BY DEF Worker, DecodeState, DecodeFailsafeEvent, SendUiCommand,
     PublishBusStats, SkipBusStats

\* The log invariant on states where the stages are the same.
LEMMA LogsSame ==
  ASSUME LogsInv, UNCHANGED <<panel, clientLogs, net, pendingLogs, logged>>
  PROVE  LogsInv'
  BY DEF LogsInv

\* queueLog() keeps the log invariant.
LEMMA LogsQueue ==
  ASSUME TypeOK, LogsInv, QueueLog, UNCHANGED <<panel, clientLogs, net>>
  PROVE  LogsInv'
<1>1. /\ panel \in Seq(Nat) /\ clientLogs \in Seq(Nat) /\ pendingLogs \in Seq(Nat)
      /\ logged \in Nat /\ net \in Seq(Datagram)
  BY DEF TypeOK, SnapTypeOK
<1>2. \A k \in 1..Len(net) : net[k].logs \in Seq(Nat)
  BY <1>1, NetSnaps
<1>3. /\ Increasing(pendingLogs')
      /\ AtMost(pendingLogs', logged + 1)
      /\ \A s \in Seq(Nat) :
           Before(s, pendingLogs) /\ AtMost(s, logged) => Before(s, pendingLogs')
  <2>1. pendingLogs' = Newest(Append(pendingLogs, logged + 1))
    BY DEF QueueLog
  <2>2. Increasing(pendingLogs) /\ AtMost(pendingLogs, logged)
    BY DEF LogsInv
  <2>. QED
    BY <1>1, <2>1, <2>2, QueueStage
<1>4. logged' = logged + 1
  BY DEF QueueLog
<1>5. \A s \in Seq(Nat) : AtMost(s, logged) => AtMost(s, logged')
  <2>. SUFFICES ASSUME NEW s \in Seq(Nat), AtMost(s, logged) PROVE AtMost(s, logged')
    OBVIOUS
  <2>1. \A i \in 1..Len(s) : s[i] \in Nat
    BY ElementOfSeq
  <2>. QED
    BY <1>1, <1>4, <2>1 DEF AtMost
<1>6. AtMost(pendingLogs', logged')
  BY <1>3, <1>4
<1>. QED
  BY <1>1, <1>2, <1>3, <1>5, <1>6 DEF LogsInv

\* Sending moves the queue behind the datagrams in flight, or drops it.
LEMMA LogsSend == ASSUME TypeOK, LogsInv, TickSend PROVE LogsInv'
<1>1. /\ net \in Seq(Datagram) /\ Len(net) \in Nat /\ pendingLogs' = <<>>
      /\ UNCHANGED <<panel, clientLogs, logged>>
  BY LenProperties DEF TickSend, TakePendingLogs, clientVars, TypeOK
<1>2. CASE net' = net
  BY <1>1, <1>2, EmptyStage DEF LogsInv
<1>3. CASE net' = Append(net, [snap |-> tickV, logs |-> pendingLogs])
  <2>1. /\ Len(net') = Len(net) + 1
        /\ \A k \in 1..Len(net) : net'[k] = net[k]
        /\ net'[Len(net) + 1].logs = pendingLogs
    BY <1>1, <1>3, AppendProperties
  <2>2. \A k \in 1..Len(net') : k \in 1..Len(net) \/ k = Len(net) + 1
    BY <1>1, <2>1
  <2>3. \A k \in 1..Len(net') :
          /\ Increasing(net'[k].logs) /\ AtMost(net'[k].logs, logged)
          /\ Before(panel, net'[k].logs) /\ Before(clientLogs, net'[k].logs)
          /\ Before(net'[k].logs, pendingLogs')
    BY <1>1, <2>1, <2>2, EmptyStage DEF LogsInv
  <2>4. ASSUME NEW k \in 1..Len(net'), NEW l \in 1..Len(net'), k < l
        PROVE  Before(net'[k].logs, net'[l].logs)
    <3>1. k \in 1..Len(net)
      BY <1>1, <2>1, <2>4
    <3>2. CASE l \in 1..Len(net)
      BY <2>1, <2>4, <3>1, <3>2 DEF LogsInv
    <3>3. CASE l = Len(net) + 1
      BY <2>1, <3>1, <3>3 DEF LogsInv
    <3>. QED
      BY <2>2, <3>2, <3>3
  <2>. QED
    BY <1>1, <2>3, <2>4, EmptyStage DEF LogsInv
<1>. QED
  BY <1>2, <1>3 DEF TickSend

\* What is in flight without one datagram is still in order.
LEMMA LogsThinned ==
  ASSUME TypeOK, LogsInv, NEW i \in 1..Len(net), net' = RemoveAt(net, i),
         UNCHANGED <<panel, clientLogs, pendingLogs, logged>>
  PROVE  LogsInv'
<1>1. net \in Seq(Datagram)
  BY DEF TypeOK
<1>2. /\ Len(net) \in Nat
      /\ Len(net') = Len(net) - 1
      /\ \A k \in 1..(Len(net) - 1) : net'[k] = IF k < i THEN net[k] ELSE net[k + 1]
  BY <1>1, RemoveEffect
<1>3. \A k \in 1..Len(net') :
        /\ Increasing(net'[k].logs) /\ AtMost(net'[k].logs, logged)
        /\ Before(panel, net'[k].logs) /\ Before(clientLogs, net'[k].logs)
        /\ Before(net'[k].logs, pendingLogs)
  BY <1>2 DEF LogsInv
<1>4. ASSUME NEW k \in 1..Len(net'), NEW l \in 1..Len(net'), k < l
      PROVE  Before(net'[k].logs, net'[l].logs)
  <2>. DEFINE a == IF k < i THEN k ELSE k + 1
              b == IF l < i THEN l ELSE l + 1
  <2>1. a \in 1..Len(net) /\ b \in 1..Len(net) /\ a < b
    BY <1>2, <1>4
  <2>2. net'[k] = net[a] /\ net'[l] = net[b]
    BY <1>2
  <2>. HIDE DEF a, b
  <2>. QED
    BY <2>1, <2>2 DEF LogsInv
<1>. QED
  BY <1>3, <1>4 DEF LogsInv

\* The entries of the oldest datagram join those the client has.
LEMMA LogsDeliver ==
  ASSUME TypeOK, LogsInv, Deliver(1), 1 \in 1..Len(net)
  PROVE  LogsInv'
<1>1. net \in Seq(Datagram) /\ panel \in Seq(Nat) /\ clientLogs \in Seq(Nat)
  BY DEF TypeOK
<1>2. /\ clientLogs' = clientLogs \o net[1].logs /\ net' = RemoveAt(net, 1)
      /\ UNCHANGED <<panel, pendingLogs, logged>>
  BY DEF Deliver, Receive, snapVars
<1>3. /\ Len(net) \in Nat
      /\ Len(net') = Len(net) - 1
      /\ \A k \in 1..(Len(net) - 1) : net'[k] = IF k < 1 THEN net[k] ELSE net[k + 1]
  BY <1>1, <1>2, RemoveEffect
<1>4. \A k \in 1..Len(net') : net'[k] = net[k + 1] /\ k + 1 \in 1..Len(net) /\ 1 < k + 1
  BY <1>3
<1>5. net[1].logs \in Seq(Nat)
  BY <1>1, NetSnaps
<1>6. /\ Increasing(clientLogs) /\ Increasing(net[1].logs) /\ Before(clientLogs, net[1].logs)
      /\ AtMost(clientLogs, logged) /\ AtMost(net[1].logs, logged)
  BY DEF LogsInv
<1>7. /\ Increasing(clientLogs') /\ AtMost(clientLogs', logged)
      /\ \A u : Before(clientLogs, u) /\ Before(net[1].logs, u) => Before(clientLogs', u)
  BY <1>1, <1>2, <1>5, <1>6, JoinStages
<1>8. Before(panel, clientLogs')
  <2>1. /\ Len(clientLogs) \in Nat /\ Len(net[1].logs) \in Nat
        /\ Len(clientLogs') = Len(clientLogs) + Len(net[1].logs)
        /\ \A j \in 1..(Len(clientLogs) + Len(net[1].logs)) :
             clientLogs'[j] = IF j <= Len(clientLogs) THEN clientLogs[j]
                              ELSE net[1].logs[j - Len(clientLogs)]
    BY <1>1, <1>2, <1>5, ConcatProperties, LenProperties
  <2>2. Before(panel, clientLogs) /\ Before(panel, net[1].logs)
    BY DEF LogsInv
  <2>3. ASSUME NEW i \in 1..Len(panel), NEW j \in 1..Len(clientLogs')
        PROVE  panel[i] < clientLogs'[j]
    <3>1. CASE j <= Len(clientLogs)
      BY <2>1, <2>2, <2>3, <3>1 DEF Before
    <3>2. CASE j > Len(clientLogs)
      <4>1. j - Len(clientLogs) \in 1..Len(net[1].logs)
        BY <2>1, <3>2
      <4>2. clientLogs'[j] = net[1].logs[j - Len(clientLogs)]
        BY <2>1, <3>2
      <4>. QED
        BY <2>2, <4>1, <4>2 DEF Before
    <3>. QED
      BY <2>1, <3>1, <3>2
  <2>. QED
    BY <2>3 DEF Before
<1>9. \A k, l \in 1..Len(net) : k < l => Before(net[k].logs, net[l].logs)
  BY DEF LogsInv
<1>10. \A k \in 1..Len(net') :
         /\ Increasing(net'[k].logs) /\ AtMost(net'[k].logs, logged)
         /\ Before(panel, net'[k].logs) /\ Before(clientLogs', net'[k].logs)
         /\ Before(net'[k].logs, pendingLogs)
  BY <1>4, <1>7, <1>9 DEF LogsInv
<1>11. \A k, l \in 1..Len(net') : k < l => Before(net'[k].logs, net'[l].logs)
  <2>. TAKE k, l \in 1..Len(net')
  <2>1. k < l => k + 1 < l + 1
    BY <1>3
  <2>. QED
    BY <1>4, <1>9, <2>1
<1>12. Before(clientLogs', pendingLogs)
  BY <1>7 DEF LogsInv
<1>. QED
  BY <1>2, <1>7, <1>8, <1>10, <1>11, <1>12 DEF LogsInv

\* The client's poll moves its entries to the panel.
LEMMA LogsClientPoll == ASSUME TypeOK, LogsInv, ClientPoll PROVE LogsInv'
<1>1. panel \in Seq(Nat) /\ clientLogs \in Seq(Nat)
  BY DEF TypeOK
<1>2. /\ panel' = panel \o clientLogs /\ clientLogs' = <<>>
      /\ UNCHANGED <<net, pendingLogs, logged>>
  BY DEF ClientPoll, snapVars
<1>3. /\ Increasing(panel) /\ Increasing(clientLogs) /\ Before(panel, clientLogs)
      /\ AtMost(panel, logged) /\ AtMost(clientLogs, logged)
  BY DEF LogsInv
<1>4. /\ Increasing(panel') /\ AtMost(panel', logged)
      /\ \A u : Before(panel, u) /\ Before(clientLogs, u) => Before(panel', u)
  BY <1>1, <1>2, <1>3, JoinStages
<1>. QED
  BY <1>2, <1>4, EmptyStage DEF LogsInv

\* On a network that keeps the order the log invariant is kept by every step.
LEMMA LogsStep == ASSUME TypeOK, InOrder, LogsInv, [Next]_vars PROVE LogsInv'
<1>1. CASE Worker /\ UNCHANGED <<bridgeVars, envVars, net, clientVars>>
  BY <1>1, WorkerLog, LogsQueue, LogsSame DEF clientVars
<1>2. CASE Hello \/ BridgePoll \/ TickPeek
  BY <1>2, LogsSame DEF Hello, BridgePoll, TickPeek, PeekLatest, snapVars, clientVars
<1>3. CASE TickSend
  BY <1>3, LogsSend
<1>4. CASE Lose
  BY <1>4, LogsThinned DEF Lose, snapVars, clientVars
<1>5. CASE Deliver(1) /\ 1 \in 1..Len(net)
  BY <1>5, LogsDeliver
<1>6. CASE ClientPoll
  BY <1>6, LogsClientPoll
<1>7. CASE UNCHANGED vars
  BY <1>7, LogsSame DEF vars, snapVars, clientVars
<1>. QED
  BY <1>1, <1>2, <1>3, <1>4, <1>5, <1>6, <1>7, StepInOrder

\* How two lists of stages are joined.
LEMMA JoinTwo ==
  ASSUME NEW s \in Seq(Seq(Nat)), NEW t \in Seq(Seq(Nat)), NEW r, r = s \o t
  PROVE  /\ r \in Seq(Seq(Nat)) /\ Len(r) = Len(s) + Len(t)
         /\ \A k \in 1..(Len(s) + Len(t)) : r[k] = IF k <= Len(s) THEN s[k] ELSE t[k - Len(s)]
  BY ConcatProperties

\* How three of them are joined.
LEMMA JoinThree ==
  ASSUME NEW a \in Seq(Seq(Nat)), NEW b \in Seq(Seq(Nat)), NEW c \in Seq(Seq(Nat)),
         NEW ab, ab = a \o b, NEW abc, abc = ab \o c
  PROVE  /\ Len(ab) = Len(a) + Len(b) /\ Len(abc) = Len(ab) + Len(c)
         /\ \A k \in 1..(Len(a) + Len(b)) : ab[k] = IF k <= Len(a) THEN a[k] ELSE b[k - Len(a)]
         /\ \A k \in 1..(Len(ab) + Len(c)) :
              abc[k] = IF k <= Len(ab) THEN ab[k] ELSE c[k - Len(ab)]
<1>1. ab \in Seq(Seq(Nat)) /\ Len(ab) = Len(a) + Len(b)
  BY JoinTwo
<1>2. \A k \in 1..(Len(a) + Len(b)) : ab[k] = IF k <= Len(a) THEN a[k] ELSE b[k - Len(a)]
  BY JoinTwo
<1>3. Len(abc) = Len(ab) + Len(c)
  BY <1>1, JoinTwo
<1>4. \A k \in 1..(Len(ab) + Len(c)) : abc[k] = IF k <= Len(ab) THEN ab[k] ELSE c[k - Len(ab)]
  BY <1>1, JoinTwo
<1>. QED
  BY <1>1, <1>2, <1>3, <1>4

\* The stages of LogsInOrder, one by one.
LEMMA StagesAre ==
  ASSUME TypeOK
  PROVE  /\ Len(Stages) = Len(net) + 3 /\ Len(net) \in Nat
         /\ Stages[1] = panel /\ Stages[2] = clientLogs
         /\ \A k \in 3..(Len(net) + 2) : Stages[k] = net[k - 2].logs
         /\ Stages[Len(net) + 3] = pendingLogs
<1>1. net \in Seq(Datagram) /\ Len(net) \in Nat
  BY LenProperties DEF TypeOK
<1>2. <<panel, clientLogs>> \in Seq(Seq(Nat)) /\ Len(<<panel, clientLogs>>) = 2
  BY DEF TypeOK
<1>3. PICK b : b = [k \in 1..Len(net) |-> net[k].logs]
  OBVIOUS
<1>4. b \in Seq(Seq(Nat)) /\ Len(b) = Len(net) /\ \A k \in 1..Len(net) : b[k] = net[k].logs
  <2>1. \A k \in 1..Len(net) : net[k].logs \in Seq(Nat)
    BY <1>1, NetSnaps
  <2>2. b \in Seq(Seq(Nat))
    BY <1>1, <1>3, <2>1, IsASeq
  <2>3. DOMAIN b = 1..Len(net)
    BY <1>3
  <2>4. Len(b) = Len(net)
    BY <1>1, <2>2, <2>3, LenProperties
  <2>. QED
    BY <1>3, <2>2, <2>4
<1>5. <<pendingLogs>> \in Seq(Seq(Nat)) /\ Len(<<pendingLogs>>) = 1
  BY DEF TypeOK, SnapTypeOK
<1>6. PICK a, c : a = <<panel, clientLogs>> /\ c = <<pendingLogs>>
  OBVIOUS
<1>7. PICK ab : ab = a \o b
  OBVIOUS
<1>8. Stages = ab \o c
  BY <1>3, <1>6, <1>7 DEF Stages
<1>9. /\ Len(Stages) = Len(net) + 3
      /\ Stages[1] = a[1] /\ Stages[2] = a[2]
      /\ \A k \in 3..(Len(net) + 2) : Stages[k] = b[k - 2]
      /\ Stages[Len(net) + 3] = c[1]
  <2>1. a \in Seq(Seq(Nat)) /\ c \in Seq(Seq(Nat)) /\ b \in Seq(Seq(Nat))
    BY <1>2, <1>4, <1>5, <1>6
  <2>2. Len(a) = 2 /\ Len(b) = Len(net) /\ Len(c) = 1
    BY <1>2, <1>4, <1>5, <1>6
  <2>3. /\ Len(ab) = Len(a) + Len(b) /\ Len(Stages) = Len(ab) + Len(c)
        /\ \A k \in 1..(Len(a) + Len(b)) : ab[k] = IF k <= Len(a) THEN a[k] ELSE b[k - Len(a)]
        /\ \A k \in 1..(Len(ab) + Len(c)) :
             Stages[k] = IF k <= Len(ab) THEN ab[k] ELSE c[k - Len(ab)]
    BY <1>7, <1>8, <2>1, JoinThree
  <2>4. PICK n \in Nat : n = Len(net)
    BY <1>1
  <2>5. PICK st : st = Stages
    OBVIOUS
  <2>6. Len(ab) = n + 2 /\ Len(st) = n + 3
    BY <2>2, <2>3, <2>4, <2>5
  <2>7. \A k \in 1..(n + 2) : ab[k] = IF k <= 2 THEN a[k] ELSE b[k - 2]
    BY <2>2, <2>3, <2>4
  <2>8. \A k \in 1..(n + 3) : st[k] = IF k <= n + 2 THEN ab[k] ELSE c[k - (n + 2)]
    BY <2>2, <2>3, <2>5, <2>6
  <2>9. st[1] = a[1] /\ st[2] = a[2]
    BY <2>7, <2>8
  <2>10. \A k \in 3..(n + 2) : st[k] = b[k - 2]
    BY <2>7, <2>8
  <2>11. st[n + 3] = c[1]
    <3>1. n + 3 \in 1..(n + 3) /\ ~(n + 3 <= n + 2) /\ n + 3 - (n + 2) = 1
      OBVIOUS
    <3>. QED
      BY <2>8, <3>1
  <2>. QED
    BY <2>4, <2>5, <2>6, <2>9, <2>10, <2>11
<1>10. \A k \in 3..(Len(net) + 2) : k - 2 \in 1..Len(net)
  BY <1>1
<1>11. a[1] = panel /\ a[2] = clientLogs /\ c[1] = pendingLogs
  BY <1>6
<1>. QED
  BY <1>1, <1>4, <1>9, <1>10, <1>11

\* The log invariant says of every stage and every two of them what LogsInOrder
\* asks.
LEMMA LogsInvOrders ==
  ASSUME TypeOK, LogsInv
  PROVE  \A k, l \in 1..Len(Stages) :
           Increasing(Stages[k]) /\ (k < l => Before(Stages[k], Stages[l]))
<1>1. /\ Len(Stages) = Len(net) + 3 /\ Len(net) \in Nat
      /\ Stages[1] = panel /\ Stages[2] = clientLogs
      /\ \A k \in 3..(Len(net) + 2) : Stages[k] = net[k - 2].logs
      /\ Stages[Len(net) + 3] = pendingLogs
  BY StagesAre
<1>. SUFFICES ASSUME NEW k \in 1..Len(Stages), NEW l \in 1..Len(Stages)
              PROVE  Increasing(Stages[k]) /\ (k < l => Before(Stages[k], Stages[l]))
  OBVIOUS
<1>2. \A i \in 1..Len(Stages) :
        i = 1 \/ i = 2 \/ i \in 3..(Len(net) + 2) \/ i = Len(net) + 3
  BY <1>1
<1>3. \A i \in 3..(Len(net) + 2) : i - 2 \in 1..Len(net)
  BY <1>1
<1>4. Increasing(Stages[k])
  BY <1>1, <1>2, <1>3 DEF LogsInv
<1>5. ASSUME k < l PROVE Before(Stages[k], Stages[l])
  <2>1. CASE k = 1
    <3>1. l # 1
      BY <1>1, <1>5, <2>1
    <3>2. Before(panel, Stages[l])
      BY <1>1, <1>2, <1>3, <3>1 DEF LogsInv
    <3>. QED
      BY <1>1, <2>1, <3>2
  <2>2. CASE k = 2
    BY <1>1, <1>2, <1>3, <1>5, <2>2 DEF LogsInv
  <2>3. CASE k \in 3..(Len(net) + 2)
    <3>1. CASE l \in 3..(Len(net) + 2)
      <4>1. k - 2 \in 1..Len(net) /\ l - 2 \in 1..Len(net) /\ k - 2 < l - 2
        BY <1>1, <1>5, <2>3, <3>1
      <4>. QED
        BY <1>1, <2>3, <3>1, <4>1 DEF LogsInv
    <3>2. CASE l = Len(net) + 3
      BY <1>1, <1>3, <2>3, <3>2 DEF LogsInv
    <3>. QED
      BY <1>1, <1>2, <1>5, <2>3, <3>1, <3>2
  <2>4. CASE k = Len(net) + 3
    BY <1>1, <1>5, <2>4
  <2>. QED
    BY <1>2, <2>1, <2>2, <2>3, <2>4
<1>. QED
  BY <1>4, <1>5

\* Every log entry comes to the client's panel in the order of queueLog(), at most
\* once, however many datagrams are lost.
THEOREM LogsKeepOrder == Spec => []LogsInOrder
<1>1. Init => LogsInv
  <2>. SUFFICES ASSUME Init PROVE LogsInv
    OBVIOUS
  <2>1. panel = <<>> /\ clientLogs = <<>> /\ pendingLogs = <<>> /\ net = <<>>
    BY DEF Init, SnapInit
  <2>2. Len(net) = 0
    BY <2>1, EmptySeq
  <2>. QED
    BY <2>1, <2>2, EmptyStage DEF LogsInv
<1>2. TypeOK /\ (InOrder => LogsInv) /\ [Next]_vars => (InOrder => LogsInv)'
  <2>1. [Next]_vars /\ InOrder' => InOrder
    BY DEF InOrder, Next, vars, envVars, Hello, BridgePoll, TickPeek, TickSend, Lose, Deliver,
       DeliverCopy, ClientPoll, BridgeRestart, ClientRestart, ClientMoves, Cut
  <2>. QED
    BY <2>1, LogsStep
<1>3. TypeOK /\ (InOrder => LogsInv) => LogsInOrder
  BY LogsInvOrders DEF LogsInOrder
<1>. QED
  BY <1>1, <1>2, <1>3, TypeCorrect, PTL DEF Spec

=============================================================================
