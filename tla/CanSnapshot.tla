----------------------------- MODULE CanSnapshot -----------------------------
(***************************************************************************)
(* The snapshot buffer of CanBridge: the worker thread decodes CAN frames  *)
(* into m_latest, raises one dirty flag per domain and queues log entries, *)
(* each under m_mutex; a reader on another thread copies the snapshot with *)
(* takeLatest() or peekLatest() and drains the log queue.                  *)
(*                                                                         *)
(* The value of a domain is abstracted to the number of frames decoded     *)
(* into it (0: none yet), so that an older value, a newer one and no value *)
(* at all are told apart.  A Fail_Safe_Event and a log entry are           *)
(* abstracted to their sequence numbers.                                   *)
(***************************************************************************)
EXTENDS Integers, Sequences

CONSTANTS
  Domain,     \* the state domains of LatestValues (kpi, vehicle, obstacle, ...)
  BusStats,   \* the one that publishBusStats() writes
  LogsOf,     \* most log entries the decoder of a domain queues for one frame
  MaxQueue,   \* kMaxQueue, the capacity of m_pendingLogs
  MaxFrames,  \* bound: values written into each domain
  MaxEvents,  \* bound: Fail_Safe_Event frames
  MaxLogs     \* bound: log entries queued

ASSUME SnapAssumption ==
  /\ BusStats \in Domain
  /\ LogsOf \in [Domain -> Nat]
  /\ MaxQueue \in Nat \ {0}
  /\ MaxFrames \in [Domain -> Nat]
  /\ MaxEvents \in Nat
  /\ MaxLogs \in Nat

VARIABLES
  latest,       \* m_latest, the state domains
  dirty,        \* the domains whose ...Dirty flag is up
  event,        \* m_latest.fsEventCode / fsReasonCode / fsLevel
  eventDirty,   \* m_latest.failsafeEventDirty
  pendingLogs,  \* m_pendingLogs
  logged,       \* how many entries queueLog() has been given
  worker        \* what the running handler of the worker still has to do

snapVars == <<latest, dirty, event, eventDirty, pendingLogs, logged, worker>>

\* A handler writes m_latest, queues its log entries and (processFrame only)
\* ends with the rate-limited bus statistics; each is a lock section of its own.
WorkerStep == {"log", "stats", "tail"}

\* What takeLatest() and peekLatest() return.
Snapshot == [val: [Domain -> Nat], dirty: SUBSET Domain,
             event: Nat, eventDirty: BOOLEAN]

\* LatestValues{}: every flag down.
NoSnapshot == [val |-> [d \in Domain |-> 0], dirty |-> {},
               event |-> 0, eventDirty |-> FALSE]

SnapTypeOK ==
  /\ latest \in [Domain -> Nat]
  /\ dirty \subseteq Domain
  /\ event \in Nat
  /\ eventDirty \in BOOLEAN
  /\ pendingLogs \in Seq(Nat)
  /\ logged \in Nat
  /\ worker \in Seq(WorkerStep)

SnapInit ==
  /\ latest = [d \in Domain |-> 0]
  /\ dirty = {}
  /\ event = 0
  /\ eventDirty = FALSE
  /\ pendingLogs = <<>>
  /\ logged = 0
  /\ worker = <<>>

-----------------------------------------------------------------------------
(* The worker thread.                                                       *)

\* Seeded fault: the value is written, the flag forgotten.
WriteDomain_NoFlag(d) ==
  /\ latest' = [latest EXCEPT ![d] = @ + 1]
  /\ UNCHANGED dirty

\* The lock section in which a writer replaces the value of a domain.
WriteDomain(d) ==
  /\ latest' = [latest EXCEPT ![d] = @ + 1]
  /\ dirty' = dirty \cup {d}

Entries(n) == [i \in 1..n |-> "log"]

\* A handler with the lock sections w, n of them log entries, starts.  The
\* bounds are met here, so that a handler that started can always finish.
Begin(w, n) ==
  /\ worker = <<>>
  /\ logged + n <= MaxLogs
  /\ latest[BusStats] < MaxFrames[BusStats]
  /\ worker' = w

\* processFrame() with the decoder of a state domain: the values and the flag
\* in one lock section, then the decoder's log entries, then the statistics.
DecodeState(d) ==
  /\ latest[d] < MaxFrames[d]
  /\ \E n \in 0..LogsOf[d] : Begin(Entries(n) \o <<"tail">>, n)
  /\ WriteDomain(d)
  /\ UNCHANGED <<event, eventDirty, pendingLogs, logged>>

\* processFrame() with decodeFailsafeEvent(): the one-shot edge.  A log entry
\* is queued when the level differs from the previous event's.
DecodeFailsafeEvent ==
  /\ event < MaxEvents
  /\ \E n \in 0..1 : Begin(Entries(n) \o <<"tail">>, n)
  /\ event' = event + 1
  /\ eventDirty' = TRUE
  /\ UNCHANGED <<latest, dirty, pendingLogs, logged>>

\* sendUiCommandImpl(): a command no device took is accounted for at once; a
\* command with a summary is logged, the E-stop repetitions are not.
SendUiCommand ==
  /\ \/ Begin(<<"stats", "log">>, 1)
     \/ Begin(<<"stats">>, 0)
     \/ Begin(<<"log">>, 1)
  /\ UNCHANGED <<latest, dirty, event, eventDirty, pendingLogs, logged>>

\* Seeded fault: the overflow drops the newest entries.
Newest_KeepsOldest(q) ==
  IF Len(q) > MaxQueue THEN SubSeq(q, 1, MaxQueue) ELSE q

\* The newest MaxQueue entries of a queue.
Newest(q) ==
  IF Len(q) > MaxQueue THEN SubSeq(q, Len(q) - MaxQueue + 1, Len(q)) ELSE q

\* queueLog(): append, then drop the oldest entries beyond the capacity.
QueueLog ==
  /\ worker # <<>> /\ Head(worker) = "log"
  /\ logged' = logged + 1
  /\ pendingLogs' = Newest(Append(pendingLogs, logged + 1))
  /\ worker' = Tail(worker)
  /\ UNCHANGED <<latest, dirty, event, eventDirty>>

\* publishBusStats(): the counters and the flag in one lock section.
PublishBusStats ==
  /\ worker # <<>> /\ Head(worker) \in {"stats", "tail"}
  /\ WriteDomain(BusStats)
  /\ worker' = Tail(worker)
  /\ UNCHANGED <<event, eventDirty, pendingLogs, logged>>

\* The end of processFrame() less than 200 ms after the previous statistics.
SkipBusStats ==
  /\ worker # <<>> /\ Head(worker) = "tail"
  /\ worker' = Tail(worker)
  /\ UNCHANGED <<latest, dirty, event, eventDirty, pendingLogs, logged>>

Worker ==
  \/ \E d \in Domain \ {BusStats} : DecodeState(d)
  \/ DecodeFailsafeEvent
  \/ SendUiCommand
  \/ QueueLog
  \/ PublishBusStats
  \/ SkipBusStats

-----------------------------------------------------------------------------
(* The public snapshot API, each call one lock section.  A reader combines  *)
(* the action with the value the call returns.                              *)

TakeResult == [val |-> latest, dirty |-> dirty,
               event |-> event, eventDirty |-> eventDirty]

\* Seeded fault: the flag of the one-shot event stays up.
TakeLatest_KeepsEdge ==
  /\ dirty' = {}
  /\ UNCHANGED eventDirty
  /\ UNCHANGED <<latest, event, pendingLogs, logged, worker>>

\* takeLatest(): return the snapshot and lower every flag.
TakeLatest ==
  /\ dirty' = {}
  /\ eventDirty' = FALSE
  /\ UNCHANGED <<latest, event, pendingLogs, logged, worker>>

\* peekLatest(): every state flag of the copy is forced up, the event's edge
\* is passed through ...
PeekResult == [val |-> latest, dirty |-> Domain,
               event |-> event, eventDirty |-> eventDirty]

\* ... and consumed; the state flags of the buffer stay as they are.
PeekLatest ==
  /\ eventDirty' = FALSE
  /\ UNCHANGED <<latest, dirty, event, pendingLogs, logged, worker>>

\* Seeded fault: the queue is copied, not swapped.
TakePendingLogs_Copies ==
  UNCHANGED <<latest, dirty, event, eventDirty, pendingLogs, logged, worker>>

\* takePendingLogs(): swap the queue with an empty one.
TakePendingLogs ==
  /\ pendingLogs' = <<>>
  /\ UNCHANGED <<latest, dirty, event, eventDirty, logged, worker>>

=============================================================================
