--------------------------- MODULE MCStandaloneUi ----------------------------
(* Two domains: one with a logging decoder, one written by publishBusStats. *)
EXTENDS StandaloneUi

MCDomain == {"obstacle", "busStats"}
MCLogsOf == [d \in MCDomain |-> IF d = "obstacle" THEN 1 ELSE 0]
MCMaxFrames == [d \in MCDomain |-> 2]
=============================================================================
