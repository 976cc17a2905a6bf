----------------------------- MODULE LatestValue -----------------------------
(***************************************************************************)
(* What the dashboard promises about every value it shows, whatever lies   *)
(* between the decoder and the screen: the value was really decoded, and   *)
(* the screen never goes back to an older one.  Values may be skipped.     *)
(***************************************************************************)
EXTENDS Naturals

CONSTANT Source            \* the independent values: the state domains

VARIABLES produced,        \* how many values of each source exist
          seen             \* which of them the screen shows (0: none)

vars == <<produced, seen>>

Init ==
  /\ produced = [s \in Source |-> 0]
  /\ seen = [s \in Source |-> 0]

\* A new value of one source replaces the previous one.
Produce(s) ==
  /\ produced' = [produced EXCEPT ![s] = @ + 1]
  /\ UNCHANGED seen

\* The screen moves, for any of the sources, to a value at least as new.
Observe ==
  /\ seen' \in [Source -> Nat]
  /\ \A s \in Source : seen[s] <= seen'[s] /\ seen'[s] <= produced[s]
  /\ UNCHANGED produced

Next == (\E s \in Source : Produce(s)) \/ Observe

Spec == Init /\ [][Next]_vars

=============================================================================
