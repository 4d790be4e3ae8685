------------------------------ MODULE AgentTable ------------------------------
(***************************************************************************)
(* What the gateway's table of agents promises to those who look an agent  *)
(* up, whatever the network does and however the readers of an agent's     *)
(* connections overlap.  An entry is a connection of that agent with a     *)
(* reader.  A connection that loses its entry to another one is told to    *)
(* end; it may still take the entry back, but only by a registration that  *)
(* it was left with, of which there are ever fewer.  An entry goes away    *)
(* only when a reader of that agent ends.                                  *)
(***************************************************************************)
EXTENDS Naturals

CONSTANTS Ids, Conns, Owner, None

VARIABLES
    table,     \* id -> connection, or None
    live,      \* the connections that have a reader
    told,      \* those of them that were told to end
    claims     \* how many registrations a connection is left with

tableVars == <<table, live, told, claims>>

Init ==
    /\ table = [id \in Ids |-> None]
    /\ live = {} /\ told = {}
    /\ claims \in [Conns -> Nat]

(* Who was told to end gets no new registrations.                          *)
Dwindle ==
    /\ claims' \in [Conns -> Nat]
    /\ \A d \in told : claims'[d] <= claims[d]

(* c takes the entry of its agent from whoever had it.                     *)
Take(c) ==
    /\ table' = [table EXCEPT ![Owner[c]] = c]
    /\ told' = told \cup ({table[Owner[c]]} \ {None, c})
    /\ Dwindle

Enter(c) ==
    /\ c \notin live
    /\ live' = live \cup {c}
    /\ Take(c)

Claim(c) ==
    /\ c \in live
    /\ c \in told => claims'[c] < claims[c]
    /\ Take(c)
    /\ UNCHANGED live

(* A reader ends, and the entry with it, whoever has it by then.           *)
Leave(c) ==
    /\ c \in live
    /\ live' = live \ {c} /\ told' = told \ {c}
    /\ table' = [table EXCEPT ![Owner[c]] = None]
    /\ Dwindle

Restart ==
    /\ table' = [id \in Ids |-> None]
    /\ live' = {} /\ told' = {}
    /\ claims' \in [Conns -> Nat]

Next ==
    \/ \E c \in Conns : Enter(c) \/ Claim(c) \/ Leave(c)
    \/ Restart
    \/ Dwindle /\ UNCHANGED <<table, live, told>>

Spec == Init /\ [][Next]_tableVars
===============================================================================
