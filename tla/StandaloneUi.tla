---------------------------- MODULE StandaloneUi -----------------------------
(***************************************************************************)
(* The standalone dashboard: the CAN worker fills the snapshot buffer and  *)
(* the GUI thread's uiPoll timer takes it, applies every domain whose flag *)
(* is up to KpiData and drains the log queue.  The worker may run between  *)
(* the poll's two lock sections.                                           *)
(***************************************************************************)
EXTENDS CanSnapshot

VARIABLES
  poll,      \* where the uiPoll handler is: "idle" or "apply"
  v,         \* its local copy of the snapshot
  shown,     \* the value of each domain in KpiData
  has,       \* the domains whose apply...() ran: the m_has... flags of KpiData
  applied,   \* the Fail_Safe_Event edges given to applyFailsafeEvent()
  panel      \* the log entries given to pushLogEvent()

uiVars == <<poll, v, shown, has, applied, panel>>
vars == <<snapVars, uiVars>>

TypeOK ==
  /\ SnapTypeOK
  /\ poll \in {"idle", "apply"}
  /\ v \in Snapshot
  /\ shown \in [Domain -> Nat]
  /\ has \subseteq Domain
  /\ applied \in Seq(Nat)
  /\ panel \in Seq(Nat)

Init ==
  /\ SnapInit
  /\ poll = "idle"
  /\ v = NoSnapshot
  /\ shown = [d \in Domain |-> 0]
  /\ has = {}
  /\ applied = <<>>
  /\ panel = <<>>

-----------------------------------------------------------------------------
\* The poll starts: takeLatest() into the local copy.
PollTake ==
  /\ poll = "idle"
  /\ v' = TakeResult
  /\ TakeLatest
  /\ poll' = "apply"
  /\ UNCHANGED <<shown, has, applied, panel>>

\* Seeded faults: a domain without a fresh value falls back to its default, or
\* to "no reading".
Applied_Defaults(snap, old) ==
  [d \in Domain |-> IF d \in snap.dirty THEN snap.val[d] ELSE 0]

Applied_NoReading(snap, old) ==
  [d \in Domain |-> IF d \in snap.dirty THEN snap.val[d] ELSE -1]

\* The if (v.xDirty) kpiData.applyX(...) statements of the poll.
Applied(snap, old) ==
  [d \in Domain |-> IF d \in snap.dirty THEN snap.val[d] ELSE old[d]]

AppliedEdge(snap, old) ==
  IF snap.eventDirty THEN Append(old, snap.event) ELSE old

\* Seeded fault: the flags are lowered when the copy is applied, not when it is
\* made.
PollApply_LowersFlags ==
  /\ poll = "apply"
  /\ shown' = Applied(v, shown)
  /\ has' = has \cup v.dirty
  /\ applied' = AppliedEdge(v, applied)
  /\ panel' = panel \o pendingLogs
  /\ pendingLogs' = <<>>
  /\ dirty' = {}
  /\ UNCHANGED <<latest, event, eventDirty, logged, worker>>
  /\ poll' = "idle"
  /\ v' = NoSnapshot

\* The rest of the poll: apply the copy, then take the pending log entries.
PollApply ==
  /\ poll = "apply"
  /\ shown' = Applied(v, shown)
  /\ has' = has \cup v.dirty
  /\ applied' = AppliedEdge(v, applied)
  /\ panel' = panel \o pendingLogs
  /\ TakePendingLogs
  /\ poll' = "idle"
  /\ v' = NoSnapshot

Next ==
  \/ Worker /\ UNCHANGED uiVars
  \/ PollTake
  \/ PollApply

Spec == Init /\ [][Next]_vars

\* The timer keeps firing and a handler that started runs to its end; frames
\* and commands need not come.
Fairness == WF_vars(PollTake) /\ WF_vars(PollApply)

FairSpec == Spec /\ Fairness

-----------------------------------------------------------------------------
\* No update is lost between the worker and the screen: a domain whose flag is
\* down shows its newest value, or that value is in the copy the poll is about
\* to apply.  (A frame decoded between takeLatest() and apply...() raises the
\* flag again.)
NoLostUpdate ==
  \A d \in Domain \ dirty :
    latest[d] = IF poll = "apply" /\ d \in v.dirty THEN v.val[d] ELSE shown[d]

\* A domain is reported as received (its m_has... flag) only when a frame of it
\* was decoded.
NoPhantomData == \A d \in has : latest[d] > 0

Increasing(s) == \A i, j \in 1..Len(s) : i < j => s[i] < s[j]

\* A Fail_Safe_Event edge is applied once and in order, and the last one is
\* never lost: applied, in the copy of the poll, or waiting in the buffer.
EdgeOnceAndKept ==
  /\ Increasing(applied)
  /\ event > 0 =>
       \/ eventDirty
       \/ poll = "apply" /\ v.eventDirty /\ v.event = event
       \/ applied # <<>> /\ applied[Len(applied)] = event

\* Where the log panel and the queue stop being contiguous.
LastShown == IF panel = <<>> THEN 0 ELSE panel[Len(panel)]

\* The queue always holds the newest entries, without holes and ending with the
\* last one queued; entries between the panel and the queue are missing only
\* when the queue is full.
LogsContiguous ==
  /\ \A i \in 1..Len(pendingLogs) :
       pendingLogs[i] = logged - Len(pendingLogs) + i
  /\ Len(pendingLogs) <= MaxQueue
  /\ Len(pendingLogs) < MaxQueue => LastShown = logged - Len(pendingLogs)

\* Every decoded value, or a newer one, reaches the screen.
EventuallyShown ==
  \A d \in Domain : \A n \in 1..MaxFrames[d] : latest[d] >= n ~> shown[d] >= n

\* The standalone path implements the abstract promise.
LV == INSTANCE LatestValue WITH Source <- Domain, produced <- latest, seen <- shown

ImplementsLatestValue == LV!Spec

=============================================================================
