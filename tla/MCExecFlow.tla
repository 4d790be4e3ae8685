----------------------------- MODULE MCExecFlow ------------------------------
(* ExecFlow on two agents.  One of the lists names an agent twice.         *)
EXTENDS ExecFlow
CONSTANTS a1, a2
MCAgents == {a1, a2}
MCTargetLists == {<<a1>>, <<a1, a2>>, <<a1, a1>>}
=============================================================================
