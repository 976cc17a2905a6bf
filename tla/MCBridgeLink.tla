---------------------------- MODULE MCBridgeLink -----------------------------
(***************************************************************************)
(* Two domains: one with a logging decoder, one written by                 *)
(* publishBusStats().  Order and overflow matter on a network that keeps   *)
(* the order of datagrams: there the worker does up to Budget things in    *)
(* any mix.  On the others one edge and one log entry are enough, since    *)
(* what is asked of them is that the values converge.                      *)
(***************************************************************************)
EXTENDS BridgeLink

CONSTANT Budget  \* bound: frames, edges and log entries on a network in order

MCDomain == {"obstacle", "busStats"}
MCLogsOf == [d \in MCDomain |-> IF d = "obstacle" THEN 1 ELSE 0]

MCMaxFrames == [d \in MCDomain |-> IF d = "obstacle" THEN 2 ELSE 1]
MCOneFrame == [d \in MCDomain |-> 1]

\* A network that only loses datagrams, one that does everything to them, one that
\* loses none but has restarts and a new address, and one without any fault.
MCNetworks == {{"lose"}, {"lose", "reorder", "duplicate"}, {"restart"}}
MCPerfect == {{}}

\* What the worker has done, the entries that its handler still has to queue included.
Entered == logged + Len(SelectSeq(worker, LAMBDA s : s = "log"))
Done == latest["obstacle"] + latest["busStats"] + event + Entered

\* The bounds concern the start of a handler, so that one that started can finish.
Starts == worker = <<>> /\ worker' # <<>>

WithinBudget ==
  Starts => IF InOrder THEN Done' <= Budget ELSE event' <= 1 /\ Entered' <= 1

MCSpec == Init /\ [][Next /\ WithinBudget]_vars /\ Fairness
=============================================================================
