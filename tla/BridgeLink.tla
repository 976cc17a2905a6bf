----------------------------- MODULE BridgeLink ------------------------------
(***************************************************************************)
(* Bridge and client.  On the bridge the CAN worker fills the snapshot     *)
(* buffer; two timers of the main thread read it with peekLatest():        *)
(* uiPoll, which feeds the bridge's own KpiData, and the StateLink tick,   *)
(* which sends it to the client as one UDP datagram with the pending log   *)
(* entries.  The client keeps the last datagram received and its uiPoll    *)
(* applies it.  Datagrams may be lost, reordered or duplicated, either     *)
(* program may restart, and the client may get another address.            *)
(***************************************************************************)
EXTENDS CanSnapshot
LOCAL INSTANCE SequencesExt

CONSTANTS
  Networks,  \* the networks considered: each a set of what may go wrong
  MaxNet,    \* bound: datagrams in flight
  MaxCuts,   \* bound: restarts and changes of address
  MaxCopies  \* bound: edges, and log entries, at a client that still gets copies

ASSUME LinkAssumption ==
  /\ Networks \subseteq SUBSET {"lose", "reorder", "duplicate", "restart"}
  /\ MaxNet \in Nat \ {0}
  /\ MaxCuts \in Nat
  /\ MaxCopies \in Nat

VARIABLES
  peer,         \* bridge m_peer: unknown ("none"), the client's address ("client")
                \* or one that it no longer has ("old")
  tick,         \* where onSnapshotTick() is: "idle" or "send"
  tickV,        \* its local copy of the snapshot
  faults,       \* what this network may do
  cuts,         \* bound: restarts and changes of address so far
  net,          \* the snapshot datagrams in flight, oldest first
  have,         \* client m_haveSnapshot
  clientV,      \* client m_latest
  clientLogs,   \* client m_logs
  shown,        \* the domain values in the client's KpiData
  applied,      \* the edges given to the client's applyFailsafeEvent()
  panel         \* the log entries given to the client's pushLogEvent()

bridgeVars == <<peer, tick, tickV>>
clientVars == <<have, clientV, clientLogs, shown, applied, panel>>
envVars == <<faults, cuts>>
vars == <<snapVars, bridgeVars, envVars, net, clientVars>>

Datagram == [snap: Snapshot, logs: Seq(Nat)]

TypeOK ==
  /\ SnapTypeOK
  /\ peer \in {"none", "client", "old"}
  /\ tick \in {"idle", "send"}
  /\ tickV \in Snapshot
  /\ faults \in Networks
  /\ cuts \in 0..MaxCuts
  /\ net \in Seq(Datagram)
  /\ have \in BOOLEAN
  /\ clientV \in Snapshot
  /\ clientLogs \in Seq(Nat)
  /\ shown \in [Domain -> Nat]
  /\ applied \in Seq(Nat)
  /\ panel \in Seq(Nat)

Init ==
  /\ SnapInit
  /\ peer = "none"
  /\ tick = "idle"
  /\ tickV = NoSnapshot
  /\ have = FALSE
  /\ clientV = NoSnapshot
  /\ clientLogs = <<>>
  /\ shown = [d \in Domain |-> 0]
  /\ applied = <<>>
  /\ panel = <<>>
  /\ faults \in Networks
  /\ cuts = 0
  /\ net = <<>>

-----------------------------------------------------------------------------
(* Bridge, main thread.                                                     *)

\* A HELLO (or any command) datagram reaches onReadyRead(): the bridge learns,
\* or learns again, where to send snapshots.
Hello ==
  /\ tick = "idle"
  /\ peer' = "client"
  /\ UNCHANGED <<snapVars, tick, tickV, envVars, net, clientVars>>

\* Seeded fault: a domain without a fresh value falls back to "no reading".
Applied_NoReading(snap, old) ==
  [d \in Domain |-> IF d \in snap.dirty THEN snap.val[d] ELSE -1]

\* The if (v.xDirty) kpiData.applyX(...) statements of uiPoll.
Applied(snap, old) ==
  [d \in Domain |-> IF d \in snap.dirty THEN snap.val[d] ELSE old[d]]

AppliedEdge(snap, old) ==
  IF snap.eventDirty THEN Append(old, snap.event) ELSE old

\* uiPoll in bridge mode: peekLatest() and apply.  It leaves the log queue to
\* the forwarder.  Nothing but this handler reads the copy, so that peek and
\* apply are one step.
BridgePoll ==
  /\ tick = "idle"
  /\ PeekLatest
  /\ UNCHANGED <<bridgeVars, envVars, net, clientVars>>

\* Seeded fault: the tick forwards only what changed since the last datagram.
TickPeek_Deltas ==
  /\ tick = "idle"
  /\ peer # "none"
  /\ Len(net) < MaxNet
  /\ tickV' = TakeResult
  /\ TakeLatest
  /\ tick' = "send"
  /\ UNCHANGED <<peer, envVars, net, clientVars>>

\* onSnapshotTick() starts: without a client it returns before the peek.
TickPeek ==
  /\ tick = "idle"
  /\ peer # "none"
  /\ Len(net) < MaxNet
  /\ tickV' = PeekResult
  /\ PeekLatest
  /\ tick' = "send"
  /\ UNCHANGED <<peer, envVars, net, clientVars>>

\* The rest of the tick: take the log entries and send both, to an address where
\* the client may no longer be.
TickSend ==
  /\ tick = "send"
  /\ net' = IF peer = "client" THEN Append(net, [snap |-> tickV, logs |-> pendingLogs])
            ELSE net
  /\ TakePendingLogs
  /\ tick' = "idle"
  /\ tickV' = NoSnapshot
  /\ UNCHANGED <<peer, envVars, clientVars>>

-----------------------------------------------------------------------------
(* The network.                                                             *)

Lose ==
  /\ "lose" \in faults
  /\ \E i \in 1..Len(net) : net' = RemoveAt(net, i)
  /\ UNCHANGED <<snapVars, bridgeVars, envVars, clientVars>>

\* The datagrams the network may hand over next.
Deliverable == IF "reorder" \in faults THEN 1..Len(net) ELSE 1..Len(net) \cap {1}

-----------------------------------------------------------------------------
(* Client, main thread.                                                     *)

\* onReadyRead(): the datagram replaces m_latest whatever its age, its log
\* entries are appended.
Receive(dg) ==
  /\ clientV' = dg.snap
  /\ clientLogs' = clientLogs \o dg.logs
  /\ have' = TRUE
  /\ UNCHANGED <<shown, applied, panel>>

Deliver(i) ==
  /\ i \in Deliverable
  /\ Receive(net[i])
  /\ net' = RemoveAt(net, i)
  /\ UNCHANGED <<snapVars, bridgeVars, envVars>>

\* The network hands over a copy and keeps the datagram; the bound
\* limits what copies can add to the client's history.
DeliverCopy ==
  /\ "duplicate" \in faults
  /\ Len(clientLogs) + Len(panel) < MaxCopies
  /\ Len(applied) < MaxCopies
  /\ \E i \in Deliverable : Receive(net[i])
  /\ UNCHANGED <<snapVars, bridgeVars, envVars, net>>

\* Seeded faults: takeLatest() keeps the event's flag up, or resets the whole
\* snapshot to its defaults.
ClientPoll_KeepsEdge ==
  LET snap == IF have THEN clientV ELSE NoSnapshot IN
  /\ UNCHANGED clientV
  /\ shown' = Applied(snap, shown)
  /\ applied' = AppliedEdge(snap, applied)
  /\ panel' = panel \o clientLogs
  /\ clientLogs' = <<>>
  /\ UNCHANGED <<snapVars, bridgeVars, envVars, net, have>>

ClientPoll_Resets ==
  LET snap == IF have THEN clientV ELSE NoSnapshot IN
  /\ clientV' = [NoSnapshot EXCEPT !.dirty = Domain]
  /\ shown' = Applied(snap, shown)
  /\ applied' = AppliedEdge(snap, applied)
  /\ panel' = panel \o clientLogs
  /\ clientLogs' = <<>>
  /\ UNCHANGED <<snapVars, bridgeVars, envVars, net, have>>

\* uiPoll on the client: StateLink::takeLatest() returns the last snapshot, or
\* one with every flag down before the first, and lowers only the event's flag;
\* then apply and drain the log entries.
ClientPoll ==
  LET snap == IF have THEN clientV ELSE NoSnapshot IN
  /\ clientV' = IF have THEN [clientV EXCEPT !.eventDirty = FALSE] ELSE clientV
  /\ shown' = Applied(snap, shown)
  /\ applied' = AppliedEdge(snap, applied)
  /\ panel' = panel \o clientLogs
  /\ clientLogs' = <<>>
  /\ UNCHANGED <<snapVars, bridgeVars, envVars, net, have>>

-----------------------------------------------------------------------------
(* Restarts, and a hotspot that hands out a new address.                    *)

\* The CAN worker's part of a restart.  (The numbers that stand for events and log
\* entries go on: those of the new program are others.)
SnapReset ==
  /\ latest' = [d \in Domain |-> 0]
  /\ dirty' = {}
  /\ eventDirty' = FALSE
  /\ pendingLogs' = <<>>
  /\ worker' = <<>>
  /\ UNCHANGED <<event, logged>>

Cut ==
  /\ "restart" \in faults
  /\ cuts < MaxCuts
  /\ cuts' = cuts + 1
  /\ UNCHANGED faults

\* The bridge starts again, with nothing received and no client.
BridgeRestart ==
  /\ Cut
  /\ SnapReset
  /\ peer' = "none"
  /\ tick' = "idle"
  /\ tickV' = NoSnapshot
  /\ UNCHANGED <<net, clientVars>>

\* The client starts again, at the same address.
ClientRestart ==
  /\ Cut
  /\ have' = FALSE
  /\ clientV' = NoSnapshot
  /\ clientLogs' = <<>>
  /\ shown' = [d \in Domain |-> 0]
  /\ applied' = <<>>
  /\ panel' = <<>>
  /\ UNCHANGED <<snapVars, bridgeVars, net>>

\* The client gets a new address: what is on its way to the old one is lost.
ClientMoves ==
  /\ Cut
  /\ peer = "client"
  /\ peer' = "old"
  /\ net' = <<>>
  /\ UNCHANGED <<snapVars, tick, tickV, clientVars>>

Next ==
  \/ Worker /\ UNCHANGED <<bridgeVars, envVars, net, clientVars>>
  \/ Hello
  \/ BridgePoll
  \/ TickPeek
  \/ TickSend
  \/ Lose
  \/ \E i \in 1..MaxNet : Deliver(i)
  \/ DeliverCopy
  \/ ClientPoll
  \/ BridgeRestart
  \/ ClientRestart
  \/ ClientMoves

Spec == Init /\ [][Next]_vars

\* The timers of both programs keep firing, the client keeps saying HELLO, and
\* the network does not lose everything: as long as datagrams are sent, it again
\* and again delivers the one that is longest in flight.
Fairness ==
  /\ SF_vars(Hello)
  /\ WF_vars(TickPeek)
  /\ WF_vars(TickSend)
  /\ SF_vars(Deliver(1))
  /\ WF_vars(ClientPoll)

FairSpec == Spec /\ Fairness

-----------------------------------------------------------------------------
Increasing(s) == \A i, j \in 1..Len(s) : i < j => s[i] < s[j]

\* The network keeps the order and makes no copies, and nobody restarts.
InOrder == faults \subseteq {"lose"}

\* Then a Fail_Safe_Event edge is applied by the client at most once and in
\* order, although every snapshot is re-applied on every poll.
EdgeAtMostOnce == InOrder => Increasing(applied)

\* The log entries on their way, the stages in the order in which entries pass
\* them: last the queue, first the panel.
Stages == <<panel, clientLogs>> \o [k \in 1..Len(net) |-> net[k].logs] \o <<pendingLogs>>

Before(s, t) == \A i \in 1..Len(s), j \in 1..Len(t) : s[i] < t[j]

\* ... and so is every log entry, from queueLog() to the client's panel.
LogsInOrder ==
  InOrder => \A k, l \in 1..Len(Stages) :
               Increasing(Stages[k]) /\ (k < l => Before(Stages[k], Stages[l]))

\* ... and the remote path implements the abstract promise.
LV == INSTANCE LatestValue WITH Source <- Domain, produced <- latest, seen <- shown

ImplementsLatestValue == LV!Init /\ [][InOrder => [LV!Next]_(LV!vars)]_vars

\* Lost, reordered and duplicated datagrams, restarts and a new address heal: when
\* frames stop coming, the client ends up with the bridge's values, because every
\* snapshot carries the full state and the client keeps saying HELLO ("so the bridge
\* (re)learns our address, even after a hotspot reconnect").
Converges == <>[](shown = latest)

-----------------------------------------------------------------------------
(* A claim of the sources that the code does not keep.                      *)

\* CanBridge.h: the edge of a Fail_Safe_Event "is passed through and consumed so
\* it forwards exactly once".
EdgeForwarded ==
  \A n \in 1..MaxEvents :
    (event = n /\ eventDirty /\ peer = "client") ~>
      (event > n \/ \E i \in 1..Len(applied) : applied[i] = n)

=============================================================================
