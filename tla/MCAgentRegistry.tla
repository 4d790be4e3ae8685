--------------------------- MODULE MCAgentRegistry ---------------------------
(* AgentRegistry on small sets.  Registry: one agent whose successive      *)
(* connections overlap three at a time.  TwoAgents: a second agent beside  *)
(* it.                                                                     *)
EXTENDS AgentRegistry
CONSTANTS a1, a2, c1, c2, c3
OneAgent == {a1}
ThreeConns == {c1, c2, c3}
OwnerOne == [c \in ThreeConns |-> a1]
TwoAgents == {a1, a2}
OwnerTwo == [c \in ThreeConns |-> IF c = c3 THEN a2 ELSE a1]
=============================================================================
