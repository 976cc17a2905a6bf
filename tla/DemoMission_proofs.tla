------------------------- MODULE DemoMission_proofs --------------------------
(***************************************************************************)
(* Proofs about the simulated mission: type correctness, that a cancelled  *)
(* car stops, and that the chosen precision is kept, for every distance,   *)
(* number of goals and selections, and length of the command queue.        *)
(***************************************************************************)
EXTENDS DemoMission, SequenceTheorems, TLAPS

-----------------------------------------------------------------------------
(* The command queue.                                                       *)

\* What posting a command does to the queue.
LEMMA PostEffect ==
  ASSUME posted \in Seq(Command), NEW c \in Command, PostCommand(c)
  PROVE  /\ posted' \in Seq(Command)
         /\ Len(posted) \in Nat
         /\ Len(posted') = Len(posted) + 1
         /\ \A i \in 1..Len(posted) : posted'[i] = posted[i]
         /\ posted'[Len(posted) + 1] = c
  BY AppendProperties, LenProperties DEF PostCommand

\* What serving the oldest command does to it.
LEMMA ServeEffect ==
  ASSUME posted \in Seq(Command), ServeCommand
  PROVE  /\ posted' \in Seq(Command)
         /\ Head(posted) = posted[1]
         /\ posted[1] \in Command
         /\ Len(posted) \in Nat
         /\ Len(posted) > 0
         /\ Len(posted') = Len(posted) - 1
         /\ \A i \in 1..Len(posted') : posted'[i] = posted[i + 1]
<1>1. posted # <<>> /\ posted' = Tail(posted)
  BY DEF ServeCommand
<1>2. /\ posted' \in Seq(Command)
      /\ Head(posted) = posted[1] /\ Head(posted) \in Command
      /\ Len(posted') = Len(posted) - 1
      /\ \A i \in 1..Len(posted') : posted'[i] = posted[i + 1]
  BY <1>1, HeadTailProperties
<1>3. Len(posted) \in Nat /\ Len(posted) > 0
  BY <1>1, EmptySeq, LenProperties
<1>. QED
  BY <1>2, <1>3

\* The four kinds of commands.
LEMMA CommandKinds ==
  /\ \A d \in 0..MaxDist : [kind |-> "goal", dist |-> d] \in Command
  /\ [kind |-> "cancel"] \in Command
  /\ \A o \in Opt : [kind |-> "precision", opt |-> o] \in Command
  /\ \A m \in Model : [kind |-> "model", model |-> m] \in Command
  BY DEF Command

\* What the commands carry.
LEMMA CommandFields ==
  ASSUME NEW c \in Command
  PROVE  /\ c.kind = "goal" => c.dist \in 0..MaxDist
         /\ c.kind = "precision" => c.opt \in Opt
         /\ c.kind = "model" => c.model \in Model
  BY DEF Command

-----------------------------------------------------------------------------
(* Types.                                                                   *)

\* Typing is kept by every step.
LEMMA TypeStep == ASSUME DemoTypeOK, [DemoNext]_demoVars PROVE DemoTypeOK'
<1>b. MaxDist \in Nat /\ MaxGoals \in Nat /\ MaxPicks \in Nat
  BY DemoAssumption
<1>t. posted \in Seq(Command)
  BY DEF DemoTypeOK
<1>1. CASE PickGoal
  BY <1>1 DEF PickGoal, DemoTypeOK, missionVars
<1>2. ASSUME NEW d \in 0..MaxDist, SendGoal(d) PROVE DemoTypeOK'
  <2>1. posted' \in Seq(Command)
    BY <1>t, <1>2, PostEffect, CommandKinds DEF SendGoal
  <2>2. goals' \in 0..MaxGoals
    BY <1>b, <1>2 DEF SendGoal, DemoTypeOK
  <2>. QED
    BY <1>2, <2>1, <2>2 DEF SendGoal, DemoTypeOK, missionVars
<1>3. CASE CancelGoal
  <2>1. posted' \in Seq(Command)
    BY <1>t, <1>3, PostEffect, CommandKinds DEF CancelGoal
  <2>. QED
    BY <1>3, <2>1 DEF CancelGoal, DemoTypeOK, missionVars
<1>4. ASSUME NEW o \in Opt, SetPrecision(o) PROVE DemoTypeOK'
  <2>1. posted' \in Seq(Command)
    BY <1>t, <1>4, PostEffect, CommandKinds DEF SetPrecision
  <2>2. picks' \in 0..MaxPicks
    BY <1>b, <1>4 DEF SetPrecision, DemoTypeOK
  <2>. QED
    BY <1>4, <2>1, <2>2 DEF SetPrecision, DemoTypeOK, missionVars
<1>5. ASSUME NEW m \in Model, SetModel(m) PROVE DemoTypeOK'
  <2>1. posted' \in Seq(Command)
    BY <1>t, <1>5, PostEffect, CommandKinds DEF SetModel
  <2>2. picks' \in 0..MaxPicks
    BY <1>b, <1>5 DEF SetModel, DemoTypeOK
  <2>. QED
    BY <1>5, <2>1, <2>2 DEF SetModel, DemoTypeOK, missionVars
<1>6. CASE Poll
  BY <1>6 DEF Poll, ApplyVehicleStatus, DemoTypeOK, Selection, missionVars
<1>7. CASE ServeCommand
  <2>1. /\ posted' \in Seq(Command) /\ Head(posted) \in Command
        /\ UNCHANGED <<snap, ui, goals, picks>>
    BY <1>t, <1>7, ServeEffect DEF ServeCommand
  <2>2. /\ drive' \in {"IDLE", "AUTO"} /\ goal' \in BOOLEAN /\ dist' \in 0..MaxDist
        /\ sel' \in Selection
    <3>1. drive \in {"IDLE", "AUTO"} /\ goal \in BOOLEAN /\ dist \in 0..MaxDist /\ sel \in Selection
      BY DEF DemoTypeOK
    <3>2. \/ StartMission(Head(posted).dist) /\ Head(posted).kind = "goal" /\ UNCHANGED sel
          \/ AbortMission /\ UNCHANGED sel
          \/ /\ Head(posted).kind = "precision"
             /\ sel' = [sel EXCEPT !.opt = Head(posted).opt] /\ UNCHANGED missionVars
          \/ /\ Head(posted).kind = "model"
             /\ sel' = [sel EXCEPT !.model = Head(posted).model] /\ UNCHANGED missionVars
      BY <1>7 DEF ServeCommand
    <3>. QED
      BY <2>1, <3>1, <3>2, CommandFields DEF StartMission, AbortMission, missionVars, Selection
  <2>. QED
    BY <2>1, <2>2 DEF DemoTypeOK
<1>8. CASE Tick20
  <2>1. drive' \in {"IDLE", "AUTO"} /\ goal' \in BOOLEAN /\ dist' \in 0..MaxDist
    <3>1. drive \in {"IDLE", "AUTO"} /\ goal \in BOOLEAN /\ dist \in 0..MaxDist
      BY DEF DemoTypeOK
    <3>2. Arrive \/ (dist > 0 /\ Advance) \/ UNCHANGED missionVars
      BY <1>8 DEF Tick20
    <3>3. CASE Arrive
      BY <3>1, <3>3 DEF Arrive
    <3>4. CASE dist > 0 /\ Advance
      <4>1. dist' \in 0..MaxDist
        BY <1>b, <3>1, <3>4 DEF Advance
      <4>. QED
        BY <3>1, <3>4, <4>1 DEF Advance
    <3>5. CASE UNCHANGED missionVars
      BY <3>1, <3>5 DEF missionVars
    <3>. QED
      BY <3>2, <3>3, <3>4, <3>5
  <2>2. sel' \in Selection
    BY <1>8 DEF Tick20, Echoed, DemoTypeOK, Selection, Model
  <2>3. snap' \in [drive: {"none", "IDLE", "AUTO"}, sel: Selection, dirty: BOOLEAN]
    BY <1>8, <2>1, <2>2 DEF Tick20
  <2>. QED
    BY <1>8, <2>1, <2>2, <2>3 DEF Tick20, DemoTypeOK
<1>9. CASE UNCHANGED demoVars
  BY <1>9 DEF demoVars, missionVars, DemoTypeOK
<1>. QED
  BY <1>1, <1>2, <1>3, <1>4, <1>5, <1>6, <1>7, <1>8, <1>9 DEF DemoNext, Operator

\* Every reachable state of the simulated mission is well typed.
THEOREM TypeCorrect == DemoSpec => []DemoTypeOK
<1>1. DemoInit => DemoTypeOK
  <2>. SUFFICES ASSUME DemoInit PROVE DemoTypeOK
    OBVIOUS
  <2>1. dist \in 0..MaxDist /\ goals \in 0..MaxGoals /\ picks \in 0..MaxPicks
    BY DemoAssumption DEF DemoInit
  <2>2. drive \in {"IDLE", "AUTO"} /\ goal \in BOOLEAN /\ posted \in Seq(Command)
    BY EmptySeq DEF DemoInit
  <2>3. sel \in Selection
    BY DEF DemoInit, Selection, Opt, Model
  <2>4. snap \in [drive: {"none", "IDLE", "AUTO"}, sel: Selection, dirty: BOOLEAN]
    BY <2>3 DEF DemoInit
  <2>5. ui \in [drive: {"none", "IDLE", "AUTO"}, goalActive: BOOLEAN, pending: BOOLEAN,
                opt: Opt, model: Model, chosen: BOOLEAN]
    BY DEF DemoInit, Selection
  <2>. QED
    BY <2>1, <2>2, <2>3, <2>4, <2>5 DEF DemoTypeOK
<1>2. DemoTypeOK /\ [DemoNext]_demoVars => DemoTypeOK'
  BY TypeStep
<1>. QED
  BY <1>1, <1>2, PTL DEF DemoSpec

-----------------------------------------------------------------------------
(* A cancel stops the car.                                                  *)

\* Without a goal on the map, every goal that still waits has a cancel behind it.
CancelBehind ==
  ~ui.goalActive =>
    \A i \in 1..Len(posted) : posted[i].kind = "goal" =>
      \E j \in 1..Len(posted) : i < j /\ posted[j].kind = "cancel"

MissionInv == CancelBehind /\ CancelledStops

\* The mission invariant is kept by every step.
LEMMA MissionStep == ASSUME DemoTypeOK, MissionInv, [DemoNext]_demoVars PROVE MissionInv'
<1>t. /\ posted \in Seq(Command) /\ Len(posted) \in Nat /\ drive \in {"IDLE", "AUTO"}
      /\ ui \in [drive: {"none", "IDLE", "AUTO"}, goalActive: BOOLEAN, pending: BOOLEAN,
                 opt: Opt, model: Model, chosen: BOOLEAN]
  BY LenProperties DEF DemoTypeOK
<1>0. CancelBehind /\ CancelledStops
  BY DEF MissionInv
\* A step that keeps the goal on the map and leaves the queue and the car alone.
<1>s. ASSUME ui'.goalActive = ui.goalActive, UNCHANGED <<posted, drive>> PROVE MissionInv'
  BY <1>0, <1>s DEF MissionInv, CancelBehind, CancelledStops, Waiting
\* A step that keeps the goal on the map and posts a command about something else.
<1>p. ASSUME NEW c \in Command, c.kind \in {"precision", "model"}, PostCommand(c),
             ui'.goalActive = ui.goalActive, UNCHANGED drive
      PROVE  MissionInv'
  <2>1. /\ Len(posted') = Len(posted) + 1
        /\ \A i \in 1..Len(posted) : posted'[i] = posted[i]
        /\ posted'[Len(posted) + 1] = c
    BY <1>t, <1>p, PostEffect
  <2>2. CancelBehind'
    BY <1>t, <1>0, <1>p, <2>1 DEF CancelBehind
  <2>3. Waiting({"goal", "cancel"}) => Waiting({"goal", "cancel"})'
    BY <1>t, <2>1 DEF Waiting
  <2>. QED
    BY <1>0, <1>p, <2>2, <2>3 DEF MissionInv, CancelledStops
<1>1. CASE PickGoal
  BY <1>t, <1>s, <1>1 DEF PickGoal, missionVars
<1>2. ASSUME NEW d \in 0..MaxDist, SendGoal(d) PROVE MissionInv'
  BY <1>t, <1>2 DEF SendGoal, MissionInv, CancelBehind, CancelledStops
<1>3. CASE CancelGoal
  <2>1. CASE ui.goalActive
    <3>1. /\ Len(posted') = Len(posted) + 1
          /\ \A i \in 1..Len(posted) : posted'[i] = posted[i]
          /\ posted'[Len(posted) + 1].kind = "cancel"
      <4>1. PostCommand([kind |-> "cancel"])
        BY <1>3, <2>1 DEF CancelGoal
      <4>. QED
        BY <1>t, <4>1, PostEffect, CommandKinds
    <3>2. CancelBehind'
      BY <1>t, <3>1 DEF CancelBehind
    <3>3. Waiting({"goal", "cancel"})'
      BY <1>t, <3>1 DEF Waiting
    <3>. QED
      BY <3>2, <3>3 DEF MissionInv, CancelledStops
  <2>2. CASE ~ui.goalActive
    BY <1>t, <1>s, <1>3, <2>2 DEF CancelGoal, missionVars
  <2>. QED
    BY <2>1, <2>2
<1>4. ASSUME NEW o \in Opt, SetPrecision(o) PROVE MissionInv'
  BY <1>t, <1>p, <1>4, CommandKinds DEF SetPrecision, missionVars
<1>5. ASSUME NEW m \in Model, SetModel(m) PROVE MissionInv'
  BY <1>t, <1>p, <1>5, CommandKinds DEF SetModel, missionVars
<1>6. CASE Poll
  BY <1>t, <1>s, <1>6 DEF Poll, ApplyVehicleStatus, missionVars
<1>7. CASE ServeCommand
  <2>1. /\ Head(posted) = posted[1] /\ Len(posted) > 0
        /\ Len(posted') = Len(posted) - 1
        /\ \A i \in 1..Len(posted') : posted'[i] = posted[i + 1]
        /\ ui' = ui
    BY <1>t, <1>7, ServeEffect DEF ServeCommand
  <2>2. CancelBehind'
    <3>. SUFFICES ASSUME ~ui.goalActive, NEW i \in 1..Len(posted'), posted'[i].kind = "goal"
                  PROVE  \E j \in 1..Len(posted') : i < j /\ posted'[j].kind = "cancel"
      BY <2>1 DEF CancelBehind
    <3>1. PICK j \in 1..Len(posted) : i + 1 < j /\ posted[j].kind = "cancel"
      BY <1>t, <1>0, <2>1 DEF CancelBehind
    <3>2. /\ j - 1 \in 1..Len(posted') /\ i < j - 1
          /\ posted'[j - 1].kind = "cancel"
      BY <1>t, <2>1, <3>1
    <3>. QED
      BY <3>2
  <2>3. CancelledStops'
    <3>. SUFFICES ASSUME ~ui.goalActive, ~Waiting({"goal", "cancel"})' PROVE drive' = "IDLE"
      BY <2>1 DEF CancelledStops
    <3>1. \A i \in 2..Len(posted) : posted[i].kind \notin {"goal", "cancel"}
      <4>. TAKE i \in 2..Len(posted)
      <4>1. i - 1 \in 1..Len(posted') /\ posted'[i - 1] = posted[i]
        BY <1>t, <2>1
      <4>. QED
        BY <4>1 DEF Waiting
    <3>2. posted[1].kind # "goal"
      BY <1>t, <1>0, <2>1, <3>1 DEF CancelBehind
    <3>3. CASE posted[1].kind = "cancel"
      BY <1>7, <2>1, <3>3 DEF ServeCommand, AbortMission
    <3>4. CASE posted[1].kind # "cancel"
      <4>1. ~Waiting({"goal", "cancel"})
        BY <1>t, <3>1, <3>2, <3>4 DEF Waiting
      <4>2. drive' = drive
        BY <1>7, <2>1, <3>2, <3>4 DEF ServeCommand, missionVars
      <4>. QED
        BY <1>0, <4>1, <4>2 DEF CancelledStops
    <3>. QED
      BY <3>3, <3>4
  <2>. QED
    BY <2>2, <2>3 DEF MissionInv
<1>8. CASE Tick20
  <2>1. UNCHANGED <<posted, ui>> /\ (drive = "IDLE" => drive' = "IDLE")
    BY <1>8 DEF Tick20, Arrive, Advance, missionVars
  <2>. QED
    BY <1>0, <2>1 DEF MissionInv, CancelBehind, CancelledStops, Waiting
<1>9. CASE UNCHANGED demoVars
  BY <1>s, <1>9 DEF demoVars, missionVars
<1>. QED
  BY <1>1, <1>2, <1>3, <1>4, <1>5, <1>6, <1>7, <1>8, <1>9 DEF DemoNext, Operator

\* The car does not drive without a goal on the map once the commands posted are
\* served, whatever the operator clicked meanwhile.
THEOREM CancelStops == DemoSpec => []CancelledStops
<1>1. DemoInit => MissionInv
  BY EmptySeq DEF DemoInit, MissionInv, CancelBehind, CancelledStops
<1>2. DemoTypeOK /\ MissionInv /\ [DemoNext]_demoVars => MissionInv'
  BY MissionStep
<1>3. MissionInv => CancelledStops
  BY DEF MissionInv
<1>. QED
  BY <1>1, <1>2, <1>3, TypeCorrect, PTL DEF DemoSpec

-----------------------------------------------------------------------------
(* The operator's precision.                                                *)

\* The last precision command that waits carries the operator's choice.
ChoiceBehind ==
  \A i \in 1..Len(posted) : posted[i].kind = "precision" =>
    \/ posted[i].opt = ui.opt
    \/ \E j \in 1..Len(posted) : i < j /\ posted[j].kind = "precision"

PrecisionInv == ChoiceBehind /\ PrecisionKept

\* The precision invariant is kept by every step.
LEMMA PrecisionStep == ASSUME DemoTypeOK, PrecisionInv, [DemoNext]_demoVars PROVE PrecisionInv'
<1>t. /\ posted \in Seq(Command) /\ Len(posted) \in Nat /\ sel \in Selection
      /\ ui \in [drive: {"none", "IDLE", "AUTO"}, goalActive: BOOLEAN, pending: BOOLEAN,
                 opt: Opt, model: Model, chosen: BOOLEAN]
  BY LenProperties DEF DemoTypeOK
<1>0. ChoiceBehind /\ PrecisionKept
  BY DEF PrecisionInv
\* A step that changes neither the choice, nor the queue, nor the precision in use.
<1>s. ASSUME ui'.opt = ui.opt, ui'.chosen = ui.chosen, sel'.opt = sel.opt, UNCHANGED posted
      PROVE  PrecisionInv'
  BY <1>0, <1>s DEF PrecisionInv, ChoiceBehind, PrecisionKept, Waiting
\* A step that posts a command about something else.
<1>p. ASSUME NEW c \in Command, c.kind # "precision", PostCommand(c),
             ui'.opt = ui.opt, ui'.chosen = ui.chosen, sel'.opt = sel.opt
      PROVE  PrecisionInv'
  <2>1. /\ Len(posted') = Len(posted) + 1
        /\ \A i \in 1..Len(posted) : posted'[i] = posted[i]
        /\ posted'[Len(posted) + 1] = c
    BY <1>t, <1>p, PostEffect
  <2>2. ChoiceBehind'
    BY <1>t, <1>0, <1>p, <2>1 DEF ChoiceBehind
  <2>3. Waiting({"precision"}) => Waiting({"precision"})'
    BY <1>t, <2>1 DEF Waiting
  <2>. QED
    BY <1>0, <1>p, <2>2, <2>3 DEF PrecisionInv, PrecisionKept
<1>1. CASE PickGoal
  BY <1>t, <1>s, <1>1 DEF PickGoal
<1>2. ASSUME NEW d \in 0..MaxDist, SendGoal(d) PROVE PrecisionInv'
  BY <1>t, <1>p, <1>2, CommandKinds DEF SendGoal
<1>3. CASE CancelGoal
  BY <1>t, <1>s, <1>p, <1>3, CommandKinds DEF CancelGoal
<1>4. ASSUME NEW o \in Opt, SetPrecision(o) PROVE PrecisionInv'
  <2>1. /\ Len(posted') = Len(posted) + 1
        /\ \A i \in 1..Len(posted) : posted'[i] = posted[i]
        /\ posted'[Len(posted) + 1] = [kind |-> "precision", opt |-> o]
        /\ ui'.opt = o
    BY <1>t, <1>4, PostEffect, CommandKinds DEF SetPrecision
  <2>2. ChoiceBehind'
    BY <1>t, <2>1 DEF ChoiceBehind
  <2>3. Waiting({"precision"})'
    BY <1>t, <2>1 DEF Waiting
  <2>. QED
    BY <2>2, <2>3 DEF PrecisionInv, PrecisionKept
<1>5. ASSUME NEW m \in Model, SetModel(m) PROVE PrecisionInv'
  BY <1>t, <1>p, <1>5, CommandKinds DEF SetModel
<1>6. CASE Poll
  BY <1>t, <1>s, <1>6 DEF Poll, ApplyVehicleStatus
<1>7. CASE ServeCommand
  <2>1. /\ Head(posted) = posted[1] /\ Len(posted) > 0
        /\ Len(posted') = Len(posted) - 1
        /\ \A i \in 1..Len(posted') : posted'[i] = posted[i + 1]
        /\ ui' = ui
    BY <1>t, <1>7, ServeEffect DEF ServeCommand
  <2>2. ChoiceBehind'
    <3>. SUFFICES ASSUME NEW i \in 1..Len(posted'), posted'[i].kind = "precision",
                         posted'[i].opt # ui.opt
                  PROVE  \E j \in 1..Len(posted') : i < j /\ posted'[j].kind = "precision"
      BY <2>1 DEF ChoiceBehind
    <3>1. PICK j \in 1..Len(posted) : i + 1 < j /\ posted[j].kind = "precision"
      BY <1>t, <1>0, <2>1 DEF ChoiceBehind
    <3>2. /\ j - 1 \in 1..Len(posted') /\ i < j - 1
          /\ posted'[j - 1].kind = "precision"
      BY <1>t, <2>1, <3>1
    <3>. QED
      BY <3>2
  <2>3. PrecisionKept'
    <3>. SUFFICES ASSUME ui.chosen, ~Waiting({"precision"})' PROVE ui.opt = sel'.opt
      BY <2>1 DEF PrecisionKept
    <3>1. \A i \in 2..Len(posted) : posted[i].kind # "precision"
      <4>. TAKE i \in 2..Len(posted)
      <4>1. i - 1 \in 1..Len(posted') /\ posted'[i - 1] = posted[i]
        BY <1>t, <2>1
      <4>. QED
        BY <4>1 DEF Waiting
    <3>2. CASE posted[1].kind = "precision"
      <4>1. posted[1].opt = ui.opt
        BY <1>t, <1>0, <2>1, <3>1, <3>2 DEF ChoiceBehind
      <4>2. sel' = [sel EXCEPT !.opt = posted[1].opt]
        BY <1>7, <2>1, <3>2 DEF ServeCommand
      <4>. QED
        BY <1>t, <4>1, <4>2 DEF Selection
    <3>3. CASE posted[1].kind # "precision"
      <4>1. ~Waiting({"precision"})
        BY <1>t, <3>1, <3>3 DEF Waiting
      <4>2. sel'.opt = sel.opt
        BY <1>t, <1>7, <2>1, <3>3 DEF ServeCommand, Selection
      <4>. QED
        BY <1>0, <4>1, <4>2 DEF PrecisionKept
    <3>. QED
      BY <3>2, <3>3
  <2>. QED
    BY <2>2, <2>3 DEF PrecisionInv
<1>8. CASE Tick20
  <2>1. UNCHANGED <<posted, ui>> /\ sel'.opt = sel.opt
    BY <1>t, <1>8 DEF Tick20, Echoed, Selection
  <2>. QED
    BY <1>s, <2>1
<1>9. CASE UNCHANGED demoVars
  BY <1>s, <1>9 DEF demoVars
<1>. QED
  BY <1>1, <1>2, <1>3, <1>4, <1>5, <1>6, <1>7, <1>8, <1>9 DEF DemoNext, Operator

\* The precision the operator chose last is the one in use once the command is
\* served, whatever the worker echoed meanwhile.
THEOREM PrecisionIsKept == DemoSpec => []PrecisionKept
<1>1. DemoInit => PrecisionInv
  BY EmptySeq DEF DemoInit, PrecisionInv, ChoiceBehind, PrecisionKept
<1>2. DemoTypeOK /\ PrecisionInv /\ [DemoNext]_demoVars => PrecisionInv'
  BY PrecisionStep
<1>3. PrecisionInv => PrecisionKept
  BY DEF PrecisionInv
<1>. QED
  BY <1>1, <1>2, <1>3, TypeCorrect, PTL DEF DemoSpec

=============================================================================
