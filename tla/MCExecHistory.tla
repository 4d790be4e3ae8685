---------------------------- MODULE MCExecHistory ----------------------------
(* ExecHistory on two agents, one, both or nobody as targets.              *)
EXTENDS ExecHistory
CONSTANTS a1, a2
MCAgents == {a1, a2}
MCTargetLists == {<<>>, <<a1>>, <<a1, a2>>}
=============================================================================
