--------------------------- MODULE MCMachineStore ----------------------------
(* MachineStore with the time unit 30 s: a threshold of 90 s, a clean-up   *)
(* every 60 s.                                                             *)
EXTENDS MachineStore
CONSTANTS a1, a2, f1, f2, g1, g2, t1
MCAgents == {a1, a2}
MCFacts == {f1, f2}
MCGroups == {g1, g2}
MCTags == {t1}
=============================================================================
