---------------------------- MODULE AgentRegistry ----------------------------
(***************************************************************************)
(* The gateway's table of connected agents (internal/gateway/proxy), the   *)
(* /connect handler that fills it and the reader goroutine that each agent *)
(* connection owns.  An agent has one connection at a time and dials again *)
(* when it loses it, so the goroutines of several connections of one agent *)
(* can be alive together: the connection in use, one the agent has already *)
(* given up, one whose socket the table closed.                            *)
(*                                                                         *)
(* Connections are identities from the finite set Conns, each with the     *)
(* agent that dials it; an identity whose goroutine has ended and that its *)
(* agent does not hold stands for a new connection at the next dial.       *)
(* Of the messages an agent sends only "register" touches the table, but   *)
(* every one is forwarded to the master by the goroutine that read it,     *)
(* under the one mutex masterMu and without a write deadline: while one    *)
(* such write does not return, every reader with a message in hand waits   *)
(* (stalled).  What the master is told is the subject of GatewayLink.      *)
(***************************************************************************)
EXTENDS Naturals, FiniteSets

CONSTANTS
    Ids,           \* agent ids
    Conns,         \* websocket connections agent -> gateway
    Owner,         \* the agent_id in the handshake of a connection
    None,          \* "no connection": a missing key of the map, a nil conn
    MaxPending,    \* bound: register messages waiting in one socket
    Origin         \* the Origin header of the agents' handshake, as the
                   \* gateway receives it: "none", "same-host" or "foreign"

ASSUME NoneAssumption == None \notin Conns
ASSUME OwnerAssumption == Owner \in [Conns -> Ids]
ASSUME BoundAssumption == MaxPending \in Nat \ {0}
ASSUME OriginAssumption == Origin \in {"none", "same-host", "foreign"}

VARIABLES
    agents,        \* Manager.agents: id -> the Conn of its AgentConn
    pc,            \* where the gateway goroutine of a connection stands
    open,          \* the gateway has not called Close on the socket
    peer,          \* the far end: "up", "closed" (its end reached the
                   \* gateway) or "lost" (silent: neither data nor an end)
    pending,       \* register messages received and not read yet
    conn,          \* Agent.conn of the agent process, None between dials
    stalled        \* a write to the master does not return, masterMu held

regVars == <<agents, pc, open, peer, pending, conn, stalled>>

(* "accepted": upgraded, RegisterAgent not called yet.  "reading": blocked *)
(* in ReadMessage.  "register": holds a register message it has read.      *)
(* "forward": kept in SendToMaster by a stalled write.  "leaving" and      *)
(* "closing": the two deferred calls still to come.                        *)
PCs == {"accepted", "reading", "register", "forward", "leaving", "closing", "done"}

TypeOK ==
    /\ agents \in [Ids -> Conns \cup {None}]
    /\ pc \in [Conns -> PCs]
    /\ open \in [Conns -> BOOLEAN]
    /\ peer \in [Conns -> {"up", "closed", "lost"}]
    /\ pending \in [Conns -> 0..MaxPending]
    /\ conn \in [Ids -> Conns \cup {None}]
    /\ stalled \in BOOLEAN

Init ==
    /\ agents = [id \in Ids |-> None]
    /\ pc = [c \in Conns |-> "done"]
    /\ open = [c \in Conns |-> FALSE]
    /\ peer = [c \in Conns |-> "closed"]
    /\ pending = [c \in Conns |-> 0]
    /\ conn = [id \in Ids |-> None]
    /\ stalled = FALSE

-----------------------------------------------------------------------------
(* The Manager's operations, under agentsMu.                               *)

RegisterKeepingOld(id, c) ==
    /\ agents' = [agents EXCEPT ![id] = c]
    /\ UNCHANGED open

RegisterAgent(id, c) ==
    /\ agents' = [agents EXCEPT ![id] = c]
    /\ open' = [d \in Conns |-> open[d] /\ (d = agents[id] => d = c)]

UnregisterNothing(id) == UNCHANGED agents

UnregisterAgent(id) == agents' = [agents EXCEPT ![id] = None]

-----------------------------------------------------------------------------
(* The agent process: connectLoop dials, connect registers and then again  *)
(* every 30 s; the loop dials again after an error.                        *)

(* CheckOrigin of the gateway's upgrader.  gorilla's dialer sends no Origin*)
(* header of its own, and neither program sets one.                        *)
CheckOrigin == Origin = "same-host"

Dial(id, c) ==
    /\ conn[id] = None
    /\ Owner[c] = id /\ pc[c] = "done"
    /\ CheckOrigin
    /\ conn' = [conn EXCEPT ![id] = c]
    /\ pc' = [pc EXCEPT ![c] = "accepted"]
    /\ open' = [open EXCEPT ![c] = TRUE]
    /\ peer' = [peer EXCEPT ![c] = "up"]
    /\ pending' = [pending EXCEPT ![c] = 0]
    /\ UNCHANGED <<agents, stalled>>

(* register(): at once after the dial and on every heartbeat.  On a silent *)
(* connection the write succeeds locally and goes nowhere.                 *)
SendRegister(id) ==
    /\ conn[id] # None
    /\ peer[conn[id]] = "up" /\ open[conn[id]]
    /\ pending[conn[id]] < MaxPending
    /\ pending' = [pending EXCEPT ![conn[id]] = @ + 1]
    /\ UNCHANGED <<agents, pc, open, peer, conn, stalled>>

(* The read loop of connect fails: the gateway closed the socket, or the   *)
(* agent's own keepalive gave a silent connection up.                      *)
AgentReadError(id) ==
    /\ conn[id] # None
    /\ ~open[conn[id]] \/ peer[conn[id]] = "lost"
    /\ conn' = [conn EXCEPT ![id] = None]
    /\ peer' = [peer EXCEPT ![conn[id]] = IF @ = "up" THEN "closed" ELSE @]
    /\ UNCHANGED <<agents, pc, open, pending, stalled>>

(* The agent process ends the connection: a "reconnect" or "restart"       *)
(* command, or a crash of the process; its socket is closed by the kernel. *)
AgentClose(id) ==
    /\ conn[id] # None
    /\ conn' = [conn EXCEPT ![id] = None]
    /\ peer' = [peer EXCEPT ![conn[id]] = IF @ = "up" THEN "closed" ELSE @]
    /\ UNCHANGED <<agents, pc, open, pending, stalled>>

-----------------------------------------------------------------------------
(* The network.                                                            *)

(* The path goes silent (a sleeping laptop, an expired NAT entry): neither *)
(* end is told.                                                            *)
LinkLost(c) ==
    /\ pc[c] # "done" /\ peer[c] = "up"
    /\ peer' = [peer EXCEPT ![c] = "lost"]
    /\ UNCHANGED <<agents, pc, open, pending, conn, stalled>>

(* TCP keepalive, on by default for sockets accepted by net/http, turns a  *)
(* silent connection into a read error at the gateway.                     *)
KeepAliveExpires(c) ==
    /\ pc[c] # "done" /\ peer[c] = "lost"
    /\ peer' = [peer EXCEPT ![c] = "closed"]
    /\ UNCHANGED <<agents, pc, open, pending, conn, stalled>>

-----------------------------------------------------------------------------
(* The gateway's goroutine of one connection.                              *)

HandlerOnlyServes(c) ==
    /\ pc[c] = "accepted"
    /\ pc' = [pc EXCEPT ![c] = "reading"]
    /\ UNCHANGED <<agents, open, peer, pending, conn, stalled>>

(* The rest of the /connect handler: RegisterAgent, go ForwardAgentToMaster.*)
HandlerRegister(c) ==
    /\ pc[c] = "accepted"
    /\ RegisterAgent(Owner[c], c)
    /\ pc' = [pc EXCEPT ![c] = "reading"]
    /\ UNCHANGED <<peer, pending, conn, stalled>>

ReadUnguarded(c) ==
    /\ pc[c] = "reading"
    /\ pc' = [pc EXCEPT ![c] = "register"]
    /\ pending' = [pending EXCEPT ![c] = @ - 1]
    /\ UNCHANGED <<agents, open, peer, conn, stalled>>

(* ReadMessage returns a register message.  Frames that are already in the *)
(* connection's buffer are returned even after a Close.                    *)
ReadMessage(c) ==
    /\ pc[c] = "reading"
    /\ pending[c] > 0
    /\ pc' = [pc EXCEPT ![c] = "register"]
    /\ pending' = [pending EXCEPT ![c] = @ - 1]
    /\ UNCHANGED <<agents, open, peer, conn, stalled>>

(* What SendToMaster does to the goroutine that calls it: nothing that is  *)
(* seen here if the write returns; else it stays inside, masterMu waiting  *)
(* for the write that does not.                                            *)
SendToMaster(c) == pc' = [pc EXCEPT ![c] = IF stalled THEN "forward" ELSE "reading"]

(* Any other message, of those the agent sends while its connection works  *)
(* (metrics, answers, terminal output).                                    *)
ReadOther(c) ==
    /\ pc[c] = "reading" /\ pending[c] = 0
    /\ open[c] /\ peer[c] = "up"
    /\ SendToMaster(c)
    /\ UNCHANGED <<agents, open, peer, pending, conn, stalled>>

ForwardOnly(c) ==
    /\ pc[c] = "register"
    /\ SendToMaster(c)
    /\ UNCHANGED <<agents, open, peer, pending, conn, stalled>>

(* "For registration messages, also track locally", then forward: between  *)
(* the two a write can stall as well as before them.                       *)
ReRegister(c) ==
    /\ pc[c] = "register"
    /\ RegisterAgent(Owner[c], c)
    /\ SendToMaster(c)
    /\ UNCHANGED <<peer, pending, conn, stalled>>

(* ReadMessage fails: the socket is closed at this end, or its end or the  *)
(* keepalive's verdict arrived.  What was not read is discarded, possibly  *)
(* before all of it was read (a reset).                                    *)
ReadErrorIfClosedHere(c) ==
    /\ pc[c] = "reading"
    /\ ~open[c]
    /\ pc' = [pc EXCEPT ![c] = "leaving"]
    /\ pending' = [pending EXCEPT ![c] = 0]
    /\ UNCHANGED <<agents, open, peer, conn, stalled>>

ReadError(c) ==
    /\ pc[c] = "reading"
    /\ ~open[c] \/ peer[c] = "closed"
    /\ pc' = [pc EXCEPT ![c] = "leaving"]
    /\ pending' = [pending EXCEPT ![c] = 0]
    /\ UNCHANGED <<agents, open, peer, conn, stalled>>

(* The deferred UnregisterAgent(agentID): by id, whatever the entry holds. *)
Unregister(c) ==
    /\ pc[c] = "leaving"
    /\ UnregisterAgent(Owner[c])
    /\ pc' = [pc EXCEPT ![c] = "closing"]
    /\ UNCHANGED <<open, peer, pending, conn, stalled>>

(* The deferred conn.Close().                                              *)
CloseConn(c) ==
    /\ pc[c] = "closing"
    /\ open' = [open EXCEPT ![c] = FALSE]
    /\ pc' = [pc EXCEPT ![c] = "done"]
    /\ peer' = [peer EXCEPT ![c] = "closed"]
    /\ pending' = [pending EXCEPT ![c] = 0]
    /\ UNCHANGED <<agents, conn, stalled>>

(* A write on masterConn blocks, the master not reading and the socket's   *)
(* buffer full.                                                            *)
StallBegins ==
    /\ ~stalled
    /\ stalled' = TRUE
    /\ UNCHANGED <<agents, pc, open, peer, pending, conn>>

(* It returns: the master reads again, or TCP gives the link up.  Those    *)
(* behind it get masterMu in their turn.                                   *)
StallEnds ==
    /\ stalled
    /\ stalled' = FALSE
    /\ pc' = [c \in Conns |-> IF pc[c] = "forward" THEN "reading" ELSE pc[c]]
    /\ UNCHANGED <<agents, open, peer, pending, conn>>

(* The gateway process ends and is started again: the table is in memory   *)
(* and every socket is closed with the process.                            *)
GatewayRestart ==
    /\ agents' = [id \in Ids |-> None]
    /\ pc' = [c \in Conns |-> "done"]
    /\ open' = [c \in Conns |-> FALSE]
    /\ peer' = [c \in Conns |-> "closed"]
    /\ pending' = [c \in Conns |-> 0]
    /\ stalled' = FALSE
    /\ UNCHANGED conn

-----------------------------------------------------------------------------
AgentStep(id) == SendRegister(id) \/ AgentReadError(id)
                 \/ \E c \in Conns : Dial(id, c)

GatewayStep(c) == HandlerRegister(c) \/ ReadMessage(c) \/ ReRegister(c)
                  \/ ReadError(c) \/ Unregister(c) \/ CloseConn(c)

Next ==
    \/ \E id \in Ids : AgentStep(id) \/ AgentClose(id)
    \/ \E c \in Conns : \/ GatewayStep(c) \/ ReadOther(c)
                        \/ LinkLost(c) \/ KeepAliveExpires(c)
    \/ StallBegins \/ StallEnds
    \/ GatewayRestart

(* Goroutines are scheduled, tickers tick, an agent that lost its          *)
(* connection keeps dialling, and keepalive gives silent sockets up.  One  *)
(* condition per process is enough: no process can put one of its steps    *)
(* off for ever with others.  Nothing says that a stalled write returns,   *)
(* and nothing forces a close, a loss or a restart.                        *)
Fairness ==
    /\ \A id \in Ids : WF_regVars(AgentStep(id))
    /\ \A c \in Conns : WF_regVars(GatewayStep(c) \/ KeepAliveExpires(c))

Spec == Init /\ [][Next]_regVars
FairSpec == Spec /\ Fairness

-----------------------------------------------------------------------------
(* The goroutine of c is in its loop, or about to enter it, and has not    *)
(* come to its deferred calls.                                             *)
Serving(c) == pc[c] \in {"reading", "register", "forward", "leaving"}

(* The agent's connection works from end to end.                           *)
Healthy(id) ==
    /\ conn[id] # None
    /\ pc[conn[id]] \in {"reading", "register", "forward"}
    /\ open[conn[id]] /\ peer[conn[id]] = "up"

(* An entry of the table always names a connection of that very agent      *)
(* whose goroutine will still run its deferred UnregisterAgent: no entry   *)
(* outlives its reader, in whatever order the goroutines of one agent's    *)
(* successive connections run their registrations and clean-ups.           *)
NoDanglingEntry ==
    \A id \in Ids : agents[id] # None =>
        Owner[agents[id]] = id /\ Serving(agents[id])

(* However connections, losses, restarts and the goroutines' clean-ups     *)
(* interleave, the gateway does what AgentTable promises.  In particular a *)
(* displaced connection, whose buffered register messages are still read   *)
(* after the Close, takes the entry back at most once for each of them, so *)
(* that two connections of an agent cannot take turns for ever.            *)
T == INSTANCE AgentTable WITH
         table <- agents,
         live <- {c \in Conns : Serving(c)},
         told <- {c \in Conns : Serving(c) /\ ~open[c]},
         claims <- [c \in Conns |-> IF pc[c] = "register" THEN pending[c] + 1 ELSE pending[c]]
Table == T!Spec

(* No write to the master blocks for ever.                                 *)
WritesReturn == []<>~stalled

(* The table heals: an agent whose connection stays in working order is    *)
(* eventually routed to it for good, even if the clean-up of an earlier    *)
(* connection removed the entry, because every heartbeat registers again   *)
(* -- provided its reader is not kept from reading the heartbeat by a      *)
(* write to the master that never returns.                                 *)
StableConnectionIsRouted ==
    WritesReturn => \A id \in Ids : <>[]Healthy(id) => <>[](agents[id] = conn[id])

(* No goroutine is left behind: one whose far end is gone, silently or     *)
(* not, or whose socket was closed does not stay in its loop for ever,     *)
(* unless a write to the master blocks for ever: a reader behind it never  *)
(* gets to see that its own connection is dead.                            *)
Dead(c) == pc[c] # "done" /\ (peer[c] # "up" \/ ~open[c])
DeadConnectionsEnd == WritesReturn => \A c \in Conns : []<>~Dead(c)

(* Every agent is in the table again and again, however often it loses its *)
(* connection: the README has it dial the gateway and stay connected.  An  *)
(* agent whose entry an earlier reader removed needs its next heartbeat    *)
(* read, so this too is said of a gateway whose writes return, and of one  *)
(* that is not restarted for ever.                                         *)
AgentsKeepRegistering ==
    WritesReturn /\ <>[][~GatewayRestart]_regVars
        => \A id \in Ids : []<>(agents[id] # None)

(* proxy.go, SendToAgent: a missing entry is taken to mean "agent not      *)
(* connected".  A working connection would then always have its entry.     *)
AbsentMeansDisconnected ==
    \A id \in Ids : Healthy(id) => agents[id] # None
=============================================================================
