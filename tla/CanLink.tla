------------------------------ MODULE CanLink -------------------------------
(***************************************************************************)
(* The frame sources of CanBridge: a QCanBus device or a slcan serial      *)
(* port, the in-process virtual bus, and the replay of a recorded run.     *)
(* The CAN worker opens an adapter when its thread starts, rebuilds a      *)
(* dropped device from a retry timer, and runs the calls that other        *)
(* threads post to its event queue, one at a time.                         *)
(*                                                                         *)
(* Left out: bus statistics and log entries (CanSnapshot has them), the    *)
(* commands, which change nothing here (EmergencyStop has them), and       *)
(* m_latest.canOnline, which no reader of the snapshot looks at.           *)
(***************************************************************************)
EXTENDS Integers, Sequences

CONSTANTS
  Adapters,   \* what may be configured: "can" (a QCanBus plugin), "slcan"
  AllowDemo,  \* main.cpp allowDemo: not a bridge, or KPI_DEMO=1
  MaxInbox,   \* bound: calls waiting for the worker
  MaxUnplug   \* bound: times the adapter is pulled out

ASSUME LinkAssumption ==
  /\ Adapters \subseteq {"can", "slcan"}
  /\ AllowDemo \in BOOLEAN
  /\ MaxInbox \in Nat \ {0}
  /\ MaxUnplug \in Nat

VARIABLES
  plugged,     \* the adapter is there and its driver would open it
  unplugged,   \* how often it has been pulled out
  started,     \* the worker has run the slot of QThread::started
  closed,      \* shutdown() has run
  inbox,       \* the calls posted to the worker with Qt::QueuedConnection
  dev,         \* m_dev is set
  serial,      \* m_serial is set (and then open)
  known,       \* m_currentPlugin and m_currentDevice are set
  want,        \* m_wantAutoReconnect
  attempts,    \* m_reconnectAttempts
  timer,       \* m_reconnectTimer is active
  status,      \* m_status
  virt,        \* m_virt20ms, m_virt100ms and m_virt1000ms are active
  demo,        \* history: startVirtualBusImpl() has run
  replaying,   \* m_replaying, and m_replayTimer is active
  wasVirtual   \* m_replayWasVirtual

linkVars == <<dev, serial, known, want, attempts, timer>>
sourceVars == <<virt, demo, replaying, wasVirtual>>
vars == <<plugged, unplugged, started, closed, inbox, linkVars, status,
          sourceVars>>

Call == {"startVirtualBus", "startReplay", "stopReplay"}
Status == {"disconnected", "failed", "online", "bus error", "recovering", "virtual"}

TypeOK ==
  /\ plugged \in BOOLEAN
  /\ unplugged \in 0..MaxUnplug
  /\ started \in BOOLEAN
  /\ closed \in BOOLEAN
  /\ inbox \in Seq(Call) /\ Len(inbox) <= MaxInbox + 1
  /\ dev \in BOOLEAN
  /\ serial \in BOOLEAN
  /\ known \in BOOLEAN
  /\ want \in BOOLEAN
  /\ attempts \in 0..1
  /\ timer \in BOOLEAN
  /\ status \in Status
  /\ virt \in BOOLEAN
  /\ demo \in BOOLEAN
  /\ replaying \in BOOLEAN
  /\ wasVirtual \in BOOLEAN

Init ==
  /\ plugged \in BOOLEAN
  /\ unplugged = 0
  /\ started = FALSE
  /\ closed = FALSE
  /\ inbox = <<>>
  /\ dev = FALSE
  /\ serial = FALSE
  /\ known = FALSE
  /\ want = FALSE
  /\ attempts = 0
  /\ timer = FALSE
  /\ status = "disconnected"
  /\ virt = FALSE
  /\ demo = FALSE
  /\ replaying = FALSE
  /\ wasVirtual = FALSE

-----------------------------------------------------------------------------
(* The adapter, and the threads that post calls.                            *)

Unplug ==
  /\ plugged /\ unplugged < MaxUnplug
  /\ plugged' = FALSE
  /\ unplugged' = unplugged + 1
  /\ UNCHANGED <<started, closed, inbox, linkVars, status, sourceVars>>

Plug ==
  /\ ~plugged
  /\ plugged' = TRUE
  /\ UNCHANGED <<unplugged, started, closed, inbox, linkVars, status, sourceVars>>

\* The UI (or StateLink, for a remote one) calls startReplay() or stopReplay():
\* the body is posted to the worker.
Post(c) ==
  /\ ~closed
  /\ Len(inbox) < MaxInbox
  /\ c \in Call \ {"startVirtualBus"}
  /\ inbox' = Append(inbox, c)
  /\ UNCHANGED <<plugged, unplugged, started, closed, linkVars, status, sourceVars>>

-----------------------------------------------------------------------------
(* Opening and closing.                                                     *)

\* closeInterfaceImpl() on nothing, then a failing open.
OpenFails ==
  /\ dev' = FALSE
  /\ serial' = FALSE
  /\ want' = FALSE
  /\ timer' = FALSE
  /\ status' = "failed"
  /\ UNCHANGED <<known, attempts>>

\* openInterfaceImpl(), from closeInterfaceImpl() to "online".
OpenDevice ==
  /\ dev' = TRUE
  /\ serial' = FALSE
  /\ known' = TRUE
  /\ want' = TRUE
  /\ attempts' = 0
  /\ timer' = FALSE
  /\ status' = "online"

\* openSlcanImpl(): the same without reconnection.
OpenSerial ==
  /\ dev' = FALSE
  /\ serial' = TRUE
  /\ known' = TRUE
  /\ want' = FALSE
  /\ timer' = FALSE
  /\ status' = "online"
  /\ UNCHANGED attempts

\* The slot of QThread::started: open the configured adapter, or the first one
\* a scan finds, if any; the virtual bus is only posted, behind whatever has
\* been posted before.
Startup ==
  /\ ~started
  /\ started' = TRUE
  /\ \/ ~plugged /\ OpenFails
     \/ ~plugged /\ "can" \in Adapters /\ UNCHANGED <<linkVars, status>>
     \/ plugged /\ "can" \in Adapters /\ OpenDevice
     \/ plugged /\ "slcan" \in Adapters /\ OpenSerial
  /\ inbox' = IF ~plugged /\ AllowDemo THEN Append(inbox, "startVirtualBus") ELSE inbox
  /\ UNCHANGED <<plugged, unplugged, closed, sourceVars>>

\* Seeded fault: nothing is scheduled for the dropped device.
OnUnconnected_NoTimer ==
  /\ dev /\ want
  /\ dev' = FALSE
  /\ status' = "recovering"
  /\ UNCHANGED <<plugged, unplugged, started, closed, inbox, serial, known, want,
                 attempts, timer, sourceVars>>

\* Seeded fault: the drop counts as an attempt already.
OnUnconnected_Counts ==
  /\ dev /\ want
  /\ dev' = FALSE
  /\ status' = "recovering"
  /\ timer' = TRUE
  /\ attempts' = attempts + 1
  /\ UNCHANGED <<plugged, unplugged, started, closed, inbox, serial, known, want,
                 sourceVars>>

\* onStateChanged(UnconnectedState): bus-off, or the adapter is gone.
OnUnconnected ==
  /\ dev /\ want
  /\ dev' = FALSE
  /\ status' = "recovering"
  /\ timer' = TRUE
  /\ UNCHANGED <<plugged, unplugged, started, closed, inbox, serial, known, want,
                 attempts, sourceVars>>

\* onErrorOccurred(): only the status line changes.
OnErrorOccurred ==
  /\ dev
  /\ status' = "bus error"
  /\ UNCHANGED <<plugged, unplugged, started, closed, inbox, linkVars, sourceVars>>

\* Seeded fault: a failed retry leaves the old status.
TryReconnect_KeepsStatus ==
  /\ timer
  /\ IF ~want THEN timer' = FALSE /\ UNCHANGED <<dev, serial, known, want, attempts, status>>
     ELSE IF plugged THEN OpenDevice
     ELSE /\ attempts' = attempts + 1 /\ timer' = TRUE /\ want' = FALSE
          /\ UNCHANGED <<dev, serial, known, status>>
  /\ UNCHANGED <<plugged, unplugged, started, closed, inbox, sourceVars>>

\* tryReconnect().  closeInterfaceImpl(), the first thing the failing open
\* does, has cleared m_wantAutoReconnect, so the retry scheduled after a
\* failure finds nothing to do.
TryReconnect ==
  /\ timer
  /\ \/ /\ ~want
        /\ timer' = FALSE
        /\ UNCHANGED <<dev, serial, known, want, attempts, status>>
     \/ want /\ plugged /\ OpenDevice
     \/ /\ want /\ ~plugged
        /\ dev' = FALSE
        /\ serial' = FALSE
        /\ want' = FALSE
        /\ attempts' = attempts + 1
        /\ timer' = TRUE
        /\ status' = "failed"
        /\ UNCHANGED known
  /\ UNCHANGED <<plugged, unplugged, started, closed, inbox, sourceVars>>

-----------------------------------------------------------------------------
(* The posted calls.  The worker serves them once its event loop runs.      *)

Serve(c) ==
  /\ started /\ ~closed
  /\ inbox # <<>> /\ Head(inbox) = c
  /\ inbox' = Tail(inbox)
  /\ UNCHANGED <<plugged, unplugged, started, closed, linkVars>>

\* startVirtualBusImpl().
StartVirtualBus ==
  /\ Serve("startVirtualBus")
  /\ virt' = TRUE
  /\ demo' = TRUE
  /\ status' = "virtual"
  /\ UNCHANGED <<replaying, wasVirtual>>

\* What stopReplayImpl() makes of the virtual bus and its status.
Resumed == virt \/ (replaying /\ wasVirtual)
StatusResumed == IF replaying /\ wasVirtual THEN "virtual" ELSE status

\* Seeded fault: the restart of a replay looks at the virtual bus before the
\* running replay has given it back.
StartReplay_ReadsEarly ==
  /\ Serve("startReplay")
  /\ \/ virt' = Resumed /\ replaying' = FALSE /\ UNCHANGED wasVirtual
     \/ wasVirtual' = virt /\ virt' = FALSE /\ replaying' = TRUE
  /\ status' = StatusResumed
  /\ UNCHANGED demo

\* startReplayImpl(): ends a running replay; without a readable file that has
\* frames that is all; else the virtual bus pauses and the replay starts.
StartReplay ==
  /\ Serve("startReplay")
  /\ \/ virt' = Resumed /\ replaying' = FALSE /\ UNCHANGED wasVirtual
     \/ wasVirtual' = Resumed /\ virt' = FALSE /\ replaying' = TRUE
  /\ status' = StatusResumed
  /\ UNCHANGED demo

\* stopReplayImpl(): nothing to do unless replaying.
StopReplayImpl ==
  /\ virt' = Resumed
  /\ replaying' = FALSE
  /\ status' = StatusResumed
  /\ UNCHANGED <<demo, wasVirtual>>

StopReplay == Serve("stopReplay") /\ StopReplayImpl

\* replayTick() after the last row.
ReplayEnds ==
  /\ replaying
  /\ StopReplayImpl
  /\ UNCHANGED <<plugged, unplugged, started, closed, inbox, linkVars>>

\* shutdown(), a blocking call: it waits its turn in the queue.
Shutdown ==
  /\ started /\ ~closed
  /\ inbox = <<>>
  /\ closed' = TRUE
  /\ replaying' = FALSE
  /\ virt' = FALSE
  /\ dev' = FALSE
  /\ serial' = FALSE
  /\ want' = FALSE
  /\ timer' = FALSE
  /\ status' = IF dev \/ serial THEN "disconnected" ELSE status
  /\ UNCHANGED <<plugged, unplugged, started, inbox, known, attempts, demo,
                 wasVirtual>>

ServeInbox == StartVirtualBus \/ StartReplay \/ StopReplay

Next ==
  \/ Unplug
  \/ Plug
  \/ \E c \in Call : Post(c)
  \/ Startup
  \/ OnErrorOccurred
  \/ OnUnconnected
  \/ TryReconnect
  \/ StartVirtualBus
  \/ StartReplay
  \/ StopReplay
  \/ ReplayEnds
  \/ Shutdown

Spec == Init /\ [][Next]_vars

\* The worker's event loop runs, a replay gets to its last row, and a driver
\* whose adapter is gone reports it.
Fairness ==
  /\ WF_vars(Startup)
  /\ WF_vars(TryReconnect)
  /\ WF_vars(ServeInbox)
  /\ WF_vars(ReplayEnds)
  /\ WF_vars(~plugged /\ OnUnconnected)

FairSpec == Spec /\ Fairness

-----------------------------------------------------------------------------
\* The simulated bus survives any sequence of replays: once started it runs,
\* or a replay will give it back.
DemoNeverLost == demo /\ ~closed => virt \/ (replaying /\ wasVirtual)

\* The status line tells the truth until shutdown: "online" has a device,
\* "recovering" a retry that will act, "virtual" a simulated bus, if a replay
\* has not paused it.
StatusTells ==
  ~closed =>
    /\ status \in {"online", "bus error"} => dev \/ serial
    /\ status = "recovering" => timer /\ want /\ known
    /\ status = "virtual" => virt \/ (replaying /\ wasVirtual)

\* A dropped device is rebuilt if its adapter is back for good before the
\* first retry.
FirstRetryReconnects ==
  [](want /\ ~dev /\ [](plugged /\ ~closed) => <>dev)

-----------------------------------------------------------------------------
(* What comments of the code say, and the code does not do.                 *)

\* CanBridge.cpp, above onStateChanged(): retries "keep trying".
KeepsTrying == <>[](plugged /\ known /\ ~closed) => []<>(dev \/ serial)

=============================================================================
