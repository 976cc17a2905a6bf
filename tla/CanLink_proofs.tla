--------------------------- MODULE CanLink_proofs ----------------------------
(***************************************************************************)
(* Proofs about the frame sources: type correctness, that no sequence of   *)
(* replays loses the simulated bus, and that the status line tells the     *)
(* truth, for every adapter, inbox and number of unplugs.                  *)
(***************************************************************************)
EXTENDS CanLink, SequenceTheorems, TLAPS

-----------------------------------------------------------------------------
(* Types.                                                                   *)

\* The virtual bus is posted only once, by the slot of QThread::started, and a
\* retry counts an attempt only after an open that reset the counter and asked
\* for retries, of a device whose name is known.
LinkInv ==
  /\ ~started => Len(inbox) <= MaxInbox
  /\ want => known /\ attempts = 0

TypeInv == TypeOK /\ LinkInv

\* The part of it that opening and closing an adapter can disturb.
DeviceTyped ==
  /\ dev \in BOOLEAN
  /\ serial \in BOOLEAN
  /\ known \in BOOLEAN
  /\ want \in BOOLEAN
  /\ attempts \in 0..1
  /\ timer \in BOOLEAN
  /\ status \in Status
  /\ want => known /\ attempts = 0

\* The status lines that the steps below leave.
LEMMA StatusNames ==
  /\ "failed" \in Status /\ "online" \in Status /\ "bus error" \in Status
  /\ "recovering" \in Status /\ "virtual" \in Status /\ "disconnected" \in Status
  BY DEF Status

\* A successful open leaves the adapter well typed, whatever was before.
LEMMA OpenTyped == ASSUME OpenDevice PROVE DeviceTyped'
<1>1. /\ dev' = TRUE /\ serial' = FALSE /\ known' = TRUE /\ want' = TRUE
      /\ attempts' = 0 /\ timer' = FALSE /\ status' = "online"
  BY DEF OpenDevice
<1>2. status' \in Status
  BY <1>1, StatusNames
<1>3. attempts' \in 0..1
  BY <1>1
<1>4. known' /\ attempts' = 0
  BY <1>1
<1>. QED
  BY <1>1, <1>2, <1>3, <1>4, Zenon DEF DeviceTyped

\* Posting a call keeps the inbox a sequence of calls and makes it one longer.
LEMMA PostType ==
  ASSUME NEW q \in Seq(Call), NEW c \in Call
  PROVE  Append(q, c) \in Seq(Call) /\ Len(Append(q, c)) = Len(q) + 1
  BY AppendProperties

\* Serving a call keeps the inbox a sequence of calls and makes it one shorter.
LEMMA ServeType ==
  ASSUME NEW q \in Seq(Call), q # <<>>
  PROVE  Tail(q) \in Seq(Call) /\ Len(Tail(q)) = Len(q) - 1 /\ Len(q) \in Nat
  BY HeadTailProperties, LenProperties

\* A step that takes one call out of the inbox and leaves the adapter alone.
LEMMA ServeStep ==
  ASSUME TypeInv, NEW c, Serve(c),
         status' \in Status, virt' \in BOOLEAN, demo' \in BOOLEAN,
         replaying' \in BOOLEAN, wasVirtual' \in BOOLEAN
  PROVE  TypeInv'
<1>1. /\ inbox \in Seq(Call) /\ inbox # <<>> /\ inbox' = Tail(inbox)
      /\ UNCHANGED <<plugged, unplugged, started, closed, dev, serial, known, want,
                     attempts, timer>>
  BY DEF TypeInv, TypeOK, Serve, linkVars
<1>2. inbox' \in Seq(Call) /\ Len(inbox') = Len(inbox) - 1 /\ Len(inbox) \in Nat
  BY <1>1, ServeType
<1>3. Len(inbox') <= MaxInbox + 1 /\ (~started' => Len(inbox') <= MaxInbox)
  <2>1. MaxInbox \in Nat /\ Len(inbox) <= MaxInbox + 1
    BY LinkAssumption DEF TypeInv, TypeOK
  <2>2. Len(inbox') <= MaxInbox
    BY <1>2, <2>1
  <2>. QED
    BY <2>1, <2>2
<1>4. TypeOK'
  BY <1>1, <1>2, <1>3 DEF TypeInv, TypeOK
<1>5. LinkInv'
  BY <1>1, <1>3 DEF TypeInv, LinkInv
<1>. QED
  BY <1>4, <1>5 DEF TypeInv

\* Typing is kept by every step.
LEMMA TypeStep == ASSUME TypeInv, [Next]_vars PROVE TypeInv'
<1>t. TypeOK /\ LinkInv
  BY DEF TypeInv
<1>b. MaxInbox \in Nat /\ MaxUnplug \in Nat
  BY LinkAssumption
<1>1. CASE Unplug
  <2>0. unplugged \in 0..MaxUnplug /\ unplugged < MaxUnplug /\ unplugged' = unplugged + 1
    BY <1>t, <1>1 DEF Unplug, TypeOK
  <2>1. unplugged' \in 0..MaxUnplug
    BY <1>b, <2>0
  <2>. QED
    BY <1>t, <1>1, <2>1 DEF Unplug, TypeInv, TypeOK, LinkInv, linkVars, sourceVars
<1>2. CASE Plug
  BY <1>t, <1>2 DEF Plug, TypeInv, TypeOK, LinkInv, linkVars, sourceVars
<1>3. ASSUME NEW c \in Call, Post(c) PROVE TypeInv'
  <2>1. /\ inbox' \in Seq(Call) /\ Len(inbox') = Len(inbox) + 1 /\ Len(inbox) \in Nat
        /\ Len(inbox) < MaxInbox
    BY <1>t, <1>3, PostType, LenProperties DEF Post, TypeOK
  <2>2. Len(inbox') <= MaxInbox /\ Len(inbox') <= MaxInbox + 1
    BY <1>b, <2>1
  <2>. QED
    BY <1>t, <1>3, <2>1, <2>2 DEF Post, TypeInv, TypeOK, LinkInv, linkVars, sourceVars
<1>4. CASE Startup
  <2>1. started' = TRUE /\ UNCHANGED <<plugged, unplugged, closed, sourceVars>>
    BY <1>4 DEF Startup
  <2>2. inbox' \in Seq(Call) /\ Len(inbox') <= MaxInbox + 1
    <3>1. "startVirtualBus" \in Call /\ Len(inbox) \in Nat /\ inbox \in Seq(Call)
      BY <1>t, LenProperties DEF Call, TypeOK
    <3>2. Len(inbox) <= MaxInbox
      BY <1>t, <1>4 DEF Startup, LinkInv
    <3>3. CASE inbox' = Append(inbox, "startVirtualBus")
      BY <1>b, <3>1, <3>2, <3>3, PostType
    <3>4. CASE inbox' = inbox
      BY <1>b, <3>1, <3>2, <3>4
    <3>. QED
      BY <1>4, <3>3, <3>4 DEF Startup
  <2>3. OpenFails \/ OpenDevice \/ OpenSerial \/ UNCHANGED <<linkVars, status>>
    BY <1>4 DEF Startup
  <2>4. DeviceTyped'
    <3>1. CASE OpenFails
      BY <1>t, <3>1, StatusNames DEF OpenFails, TypeOK, LinkInv, DeviceTyped
    <3>2. CASE OpenDevice
      BY <3>2, OpenTyped
    <3>3. CASE OpenSerial
      BY <1>t, <3>3, StatusNames DEF OpenSerial, TypeOK, LinkInv, DeviceTyped
    <3>4. CASE UNCHANGED <<linkVars, status>>
      BY <1>t, <3>4, Zenon DEF TypeOK, LinkInv, DeviceTyped, linkVars
    <3>. QED
      BY <2>3, <3>1, <3>2, <3>3, <3>4
  <2>. QED
    BY <1>t, <2>1, <2>2, <2>4, Zenon DEF TypeInv, TypeOK, LinkInv, DeviceTyped, sourceVars
<1>5. CASE OnErrorOccurred
  BY <1>t, <1>5, StatusNames DEF OnErrorOccurred, TypeInv, TypeOK, LinkInv, linkVars, sourceVars
<1>6. CASE OnUnconnected
  BY <1>t, <1>6, StatusNames DEF OnUnconnected, TypeInv, TypeOK, LinkInv, sourceVars
<1>7. CASE TryReconnect
  <2>1. DeviceTyped'
    <3>1. CASE OpenDevice
      BY <3>1, OpenTyped
    <3>2. CASE ~want /\ timer' = FALSE /\ UNCHANGED <<dev, serial, known, want, attempts, status>>
      BY <1>t, <3>2 DEF TypeOK, LinkInv, DeviceTyped
    <3>3. CASE want /\ ~OpenDevice
      <4>1. /\ dev' = FALSE /\ serial' = FALSE /\ want' = FALSE /\ timer' = TRUE
            /\ attempts' = attempts + 1 /\ status' = "failed" /\ known' = known
        BY <1>7, <3>3 DEF TryReconnect
      <4>2. attempts = 0 /\ attempts' = attempts + 1
        BY <1>t, <3>3, <4>1 DEF LinkInv
      <4>3. attempts' \in 0..1
        BY <4>2
      <4>4. status' \in Status
        BY <4>1, StatusNames
      <4>. QED
        BY <1>t, <4>1, <4>3, <4>4, Zenon DEF TypeOK, DeviceTyped
    <3>. QED
      BY <1>7, <3>1, <3>2, <3>3 DEF TryReconnect
  <2>2. UNCHANGED <<plugged, unplugged, started, closed, inbox, sourceVars>>
    BY <1>7 DEF TryReconnect
  <2>. QED
    BY <1>t, <2>1, <2>2, Zenon DEF TypeInv, TypeOK, LinkInv, DeviceTyped, sourceVars
<1>8. CASE StartVirtualBus
  BY <1>t, <1>8, StatusNames, ServeStep DEF StartVirtualBus, TypeOK
<1>9. CASE StartReplay
  BY <1>t, <1>9, StatusNames, ServeStep DEF StartReplay, Resumed, StatusResumed, TypeOK
<1>10. CASE StopReplay
  BY <1>t, <1>10, StatusNames, ServeStep DEF StopReplay, StopReplayImpl, Resumed, StatusResumed, TypeOK
<1>11. CASE ReplayEnds
  BY <1>t, <1>11, StatusNames DEF ReplayEnds, StopReplayImpl, Resumed, StatusResumed, TypeInv, TypeOK,
     LinkInv, linkVars
<1>12. CASE Shutdown
  BY <1>t, <1>12, StatusNames DEF Shutdown, TypeInv, TypeOK, LinkInv
<1>13. CASE UNCHANGED vars
  BY <1>t, <1>13 DEF vars, linkVars, sourceVars, TypeInv, TypeOK, LinkInv
<1>. QED
  BY <1>1, <1>2, <1>3, <1>4, <1>5, <1>6, <1>7, <1>8, <1>9, <1>10, <1>11, <1>12, <1>13
     DEF Next

\* Every reachable state of the frame sources is well typed.
THEOREM TypeInvHolds == Spec => []TypeInv
<1>1. Init => TypeInv
  <2>. SUFFICES ASSUME Init PROVE TypeInv
    OBVIOUS
  <2>1. inbox \in Seq(Call) /\ Len(inbox) <= MaxInbox /\ Len(inbox) <= MaxInbox + 1
    BY EmptySeq, LinkAssumption DEF Init
  <2>2. unplugged \in 0..MaxUnplug /\ attempts \in 0..1 /\ status \in Status
    BY LinkAssumption DEF Init, Status
  <2>3. LinkInv
    BY <2>1 DEF Init, LinkInv
  <2>. QED
    BY <2>1, <2>2, <2>3 DEF Init, TypeInv, TypeOK
<1>2. TypeInv /\ [Next]_vars => TypeInv'
  BY TypeStep
<1>. QED
  BY <1>1, <1>2, PTL DEF Spec

\* In particular the inbox never holds more than the posted calls and one start
\* of the virtual bus, and there is never a second failed retry.
THEOREM TypeCorrect == Spec => []TypeOK
<1>1. TypeInv => TypeOK
  BY DEF TypeInv
<1>. QED
  BY <1>1, TypeInvHolds, PTL

-----------------------------------------------------------------------------
(* The simulated bus and the status line.                                   *)

\* What every action does to the simulated bus: it starts it, takes a call about
\* replays, lets a replay end, shuts down, or leaves it alone.
LEMMA SourceStep ==
  ASSUME [Next]_vars
  PROVE  \/ StartVirtualBus \/ StartReplay \/ StopReplay \/ ReplayEnds \/ Shutdown
         \/ UNCHANGED <<virt, demo, replaying, wasVirtual, closed>>
  BY DEF Next, vars, sourceVars, Unplug, Plug, Post, Startup, OnErrorOccurred,
     OnUnconnected, TryReconnect

\* DemoNeverLost is kept by every step.
LEMMA DemoStep == ASSUME TypeOK, DemoNeverLost, [Next]_vars PROVE DemoNeverLost'
<1>. USE DEF TypeOK, DemoNeverLost
<1>1. CASE StartVirtualBus
  BY <1>1 DEF StartVirtualBus
<1>2. CASE StartReplay
  BY <1>2 DEF StartReplay, Serve, Resumed
<1>3. CASE StopReplay \/ ReplayEnds
  BY <1>3 DEF StopReplay, ReplayEnds, StopReplayImpl, Serve, Resumed
<1>4. CASE Shutdown
  BY <1>4 DEF Shutdown
<1>5. CASE UNCHANGED <<virt, demo, replaying, wasVirtual, closed>>
  BY <1>5
<1>. QED
  BY <1>1, <1>2, <1>3, <1>4, <1>5, SourceStep

\* The simulated bus survives any sequence of replays.
THEOREM DemoIsNeverLost == Spec => []DemoNeverLost
<1>1. Init => DemoNeverLost
  BY DEF Init, DemoNeverLost
<1>2. TypeOK /\ DemoNeverLost /\ [Next]_vars => DemoNeverLost'
  BY DemoStep
<1>. QED
  BY <1>1, <1>2, TypeCorrect, PTL DEF Spec

\* What the status line says is kept true by every step: LinkInv is needed for a
\* dropped device, which is rebuilt from the name it was opened with.
LEMMA StatusStep == ASSUME TypeInv, StatusTells, [Next]_vars PROVE StatusTells'
<1>. USE DEF TypeInv, TypeOK, LinkInv, StatusTells
<1>1. CASE Unplug
  BY <1>1 DEF Unplug, linkVars, sourceVars
<1>2. CASE Plug
  BY <1>2 DEF Plug, linkVars, sourceVars
<1>3. ASSUME NEW c \in Call, Post(c) PROVE StatusTells'
  BY <1>3 DEF Post, linkVars, sourceVars
<1>4. CASE Startup
  <2>1. UNCHANGED <<closed, virt, replaying, wasVirtual>>
    BY <1>4 DEF Startup, sourceVars
  <2>2. CASE OpenFails
    BY <2>1, <2>2 DEF OpenFails
  <2>3. CASE OpenDevice
    BY <2>1, <2>3 DEF OpenDevice
  <2>4. CASE OpenSerial
    BY <2>1, <2>4 DEF OpenSerial
  <2>5. CASE UNCHANGED <<linkVars, status>>
    BY <2>1, <2>5 DEF linkVars
  <2>. QED
    BY <1>4, <2>2, <2>3, <2>4, <2>5 DEF Startup
<1>5. CASE OnErrorOccurred
  BY <1>5 DEF OnErrorOccurred, linkVars, sourceVars
<1>6. CASE OnUnconnected
  BY <1>6 DEF OnUnconnected, sourceVars
<1>7. CASE TryReconnect
  <2>1. UNCHANGED <<closed, virt, replaying, wasVirtual>>
    BY <1>7 DEF TryReconnect, sourceVars
  <2>2. CASE ~want /\ UNCHANGED <<dev, serial, known, want, status>>
    BY <2>1, <2>2
  <2>3. CASE OpenDevice
    BY <2>1, <2>3 DEF OpenDevice
  <2>4. CASE status' = "failed"
    BY <2>1, <2>4
  <2>. QED
    BY <1>7, <2>2, <2>3, <2>4 DEF TryReconnect
<1>8. CASE StartVirtualBus
  BY <1>8 DEF StartVirtualBus, Serve, linkVars
<1>9. CASE StartReplay
  BY <1>9 DEF StartReplay, Serve, Resumed, StatusResumed, linkVars
<1>10. CASE StopReplay
  BY <1>10 DEF StopReplay, StopReplayImpl, Serve, Resumed, StatusResumed, linkVars
<1>11. CASE ReplayEnds
  BY <1>11 DEF ReplayEnds, StopReplayImpl, Resumed, StatusResumed, linkVars
<1>12. CASE Shutdown
  BY <1>12 DEF Shutdown
<1>13. CASE UNCHANGED vars
  BY <1>13 DEF vars, linkVars, sourceVars
<1>. QED
  BY <1>1, <1>2, <1>3, <1>4, <1>5, <1>6, <1>7, <1>8, <1>9, <1>10, <1>11, <1>12, <1>13
     DEF Next

\* The status line tells the truth until shutdown, whatever is unplugged, posted
\* or replayed.
THEOREM StatusIsTrue == Spec => []StatusTells
<1>1. Init => StatusTells
  BY DEF Init, StatusTells
<1>2. TypeInv /\ StatusTells /\ [Next]_vars => StatusTells'
  BY StatusStep
<1>. QED
  BY <1>1, <1>2, TypeInvHolds, PTL DEF Spec

=============================================================================
