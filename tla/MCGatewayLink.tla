---------------------------- MODULE MCGatewayLink ----------------------------
(* GatewayLink with two links, so that one can outlive the dial of the     *)
(* other, and two agents.                                                  *)
EXTENDS GatewayLink
CONSTANTS a1, a2, l1, l2
MCAgents == {a1, a2}
MCOneAgent == {a1}
MCLinks == {l1, l2}
=============================================================================
