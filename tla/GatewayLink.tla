----------------------------- MODULE GatewayLink -----------------------------
(***************************************************************************)
(* The link between the gateway and the master: the gateway's              *)
(* connectToMaster loop with the Manager's masterConn, and at the other    *)
(* end the GatewayConn of the master, which every run of the /ws/gateway   *)
(* handler sets when it starts and clears when it ends.  The loop has one  *)
(* link at a time; the master may still be serving earlier ones whose end  *)
(* it has not noticed.                                                     *)
(*                                                                         *)
(* Of the traffic only the registrations matter here: after every dial the *)
(* loop announces the agents of the table, while the readers of the agents'*)
(* connections go on tracking and forwarding register messages.  Of the    *)
(* handler's work on a message only this matters: it calls Hub.Broadcast,  *)
(* which writes to the browsers without a deadline, and reads nothing more *)
(* of its link, not even the link's end, before that returns (held; what   *)
(* can hold it up, and for ever, is in Dashboard).                         *)
(***************************************************************************)
EXTENDS Naturals, FiniteSets

CONSTANTS
    Agents,      \* agent ids
    Links,       \* websocket connections gateway -> master
    None,        \* no connection: a nil masterConn, a nil GatewayConn.conn
    Origin       \* Origin header of the gateway's handshake at the master

ASSUME NoneAssumption == None \notin Links
ASSUME OriginAssumption == Origin \in {"none", "same-host", "foreign"}

VARIABLES
    gpc,         \* where connectToMaster stands
    link,        \* its conn, from the dial to the close
    gEnd,        \* the gateway's end of it: "open", or "broken": reads fail
    cut,         \* the path under it went silent
    masterConn,  \* Manager.masterConn
    table,       \* ids in Manager.agents
    rd,          \* per agent: its reader is "idle" or, between RegisterAgent
                 \* and SendToMaster of a register message, "tracked"
    forwarded,   \* agents of the table whose register message was handed to
                 \* SendToMaster since they entered it
    todo,        \* what is left of the loop's GetAllAgentIDs
    told,        \* agents whose registration was written to the present link
    mpc,         \* per link: where the /ws/gateway handler stands
    mEnd,        \* per link: the master's end, as gEnd
    slot,        \* GatewayConn.conn
    held,        \* a Broadcast of the hub does not return
    overlap      \* an earlier handler was still running at the last dial

gatewayVars == <<gpc, link, masterConn, todo, told>>
tableVars == <<table, rd, forwarded>>
masterVars == <<mpc, slot>>
linkVars == <<gatewayVars, tableVars, masterVars, gEnd, cut, mEnd, overlap, held>>

TypeOK ==
    /\ gpc \in {"dialing", "dialed", "connected", "announcing", "reading",
                "lost", "closing"}
    /\ link \in Links \cup {None}
    /\ (link = None) <=> (gpc = "dialing")
    /\ gEnd \in {"open", "broken"}
    /\ cut \in BOOLEAN
    /\ masterConn \in Links \cup {None}
    /\ table \in SUBSET Agents
    /\ rd \in [Agents -> {"idle", "tracked"}]
    /\ forwarded \in SUBSET table
    /\ todo \in SUBSET Agents
    /\ told \in SUBSET Agents
    /\ mpc \in [Links -> {"accepted", "reading", "broadcasting",
                        "leaving", "closing", "done"}]
    /\ mEnd \in [Links -> {"open", "broken"}]
    /\ slot \in Links \cup {None}
    /\ overlap \in BOOLEAN
    /\ held \in BOOLEAN

Init ==
    /\ gpc = "dialing" /\ link = None /\ masterConn = None
    /\ gEnd = "broken" /\ cut = FALSE
    /\ table = {} /\ rd = [a \in Agents |-> "idle"] /\ forwarded = {}
    /\ todo = {} /\ told = {}
    /\ mpc = [l \in Links |-> "done"]
    /\ mEnd = [l \in Links |-> "broken"]
    /\ slot = None /\ overlap = FALSE /\ held = FALSE

-----------------------------------------------------------------------------
(* connectToMaster.                                                        *)

(* The master's upgrader, like the gateway's, takes same-host origins only.*)
CheckOrigin == Origin = "same-host"

(* The dial succeeds: the handler at the master has upgraded the request.  *)
Dial(l) ==
    /\ gpc = "dialing" /\ mpc[l] = "done"
    /\ CheckOrigin
    /\ gpc' = "dialed" /\ link' = l
    /\ gEnd' = "open" /\ cut' = FALSE
    /\ mpc' = [mpc EXCEPT ![l] = "accepted"]
    /\ mEnd' = [mEnd EXCEPT ![l] = "open"]
    /\ overlap' = (\E k \in Links : mpc[k] # "done")
    /\ UNCHANGED <<tableVars, masterConn, todo, told, slot, held>>

(* SetMasterConn also closes the connection it replaces; the loop, which   *)
(* is the only one to set masterConn, finds it nil here.                   *)
SetMasterConn ==
    /\ gpc = "dialed"
    /\ masterConn' = link
    /\ gpc' = "connected"
    /\ UNCHANGED <<tableVars, masterVars, link, todo, told, gEnd, cut, mEnd, overlap, held>>

SnapshotNothing ==
    /\ gpc = "connected"
    /\ todo' = {}
    /\ gpc' = "announcing"
    /\ UNCHANGED <<tableVars, masterVars, link, masterConn, told, gEnd, cut, mEnd, overlap, held>>

(* "Re-send all connected agent registrations": the ids are read once ...  *)
Snapshot ==
    /\ gpc = "connected"
    /\ todo' = table
    /\ gpc' = "announcing"
    /\ UNCHANGED <<tableVars, masterVars, link, masterConn, told, gEnd, cut, mEnd, overlap, held>>

(* SendToMaster of a registration: dropped when there is no connection,    *)
(* an error (logged) when the connection is broken.                        *)
ToldAfter(a) ==
    IF masterConn # None /\ gEnd = "open" THEN told \cup {a} ELSE told

(* ... and announced one by one, whatever became of the agents meanwhile.  *)
Announce(a) ==
    /\ gpc = "announcing" /\ a \in todo
    /\ todo' = todo \ {a}
    /\ told' = ToldAfter(a)
    /\ UNCHANGED <<tableVars, masterVars, gpc, link, masterConn, gEnd, cut, mEnd, overlap, held>>

StartReading ==
    /\ gpc = "announcing" /\ todo = {}
    /\ gpc' = "reading"
    /\ UNCHANGED <<tableVars, masterVars, link, masterConn, todo, told, gEnd, cut, mEnd, overlap, held>>

ReadError ==
    /\ gpc = "reading" /\ gEnd = "broken"
    /\ gpc' = "lost"
    /\ UNCHANGED <<tableVars, masterVars, link, masterConn, todo, told, gEnd, cut, mEnd, overlap, held>>

ClearNothing ==
    /\ gpc = "lost"
    /\ gpc' = "closing"
    /\ UNCHANGED <<tableVars, masterVars, link, masterConn, todo, told, gEnd, cut, mEnd, overlap, held>>

ClearMasterConn ==
    /\ gpc = "lost"
    /\ masterConn' = None
    /\ gpc' = "closing"
    /\ UNCHANGED <<tableVars, masterVars, link, todo, told, gEnd, cut, mEnd, overlap, held>>

CloseButKeepLink ==
    /\ gpc = "closing"
    /\ gpc' = "dialing" /\ told' = {}
    /\ gEnd' = "broken" /\ cut' = FALSE
    /\ mEnd' = [mEnd EXCEPT ![link] = IF cut THEN @ ELSE "broken"]
    /\ UNCHANGED <<tableVars, masterVars, link, masterConn, todo, overlap, held>>

(* conn.Close() and the 5 s pause.  The end reaches the master unless the  *)
(* path is silent.                                                         *)
CloseLink ==
    /\ gpc = "closing"
    /\ gpc' = "dialing" /\ link' = None /\ told' = {}
    /\ gEnd' = "broken" /\ cut' = FALSE
    /\ mEnd' = [mEnd EXCEPT ![link] = IF cut THEN @ ELSE "broken"]
    /\ UNCHANGED <<tableVars, masterVars, masterConn, todo, overlap, held>>

-----------------------------------------------------------------------------
(* The agent side of the gateway, as far as the announcements see it; the  *)
(* details are in AgentRegistry.                                           *)

(* The /connect handler's RegisterAgent.                                   *)
AgentConnects(a) ==
    /\ table' = table \cup {a}
    /\ UNCHANGED <<gatewayVars, masterVars, rd, forwarded, gEnd, cut, mEnd, overlap, held>>

(* The reader of an agent's connection has a register message: it tracks   *)
(* the agent ...                                                           *)
TrackRegister(a) ==
    /\ rd[a] = "idle"
    /\ rd' = [rd EXCEPT ![a] = "tracked"]
    /\ table' = table \cup {a}
    /\ UNCHANGED <<gatewayVars, masterVars, forwarded, gEnd, cut, mEnd, overlap, held>>

(* ... and hands the message to SendToMaster.                              *)
ForwardRegister(a) ==
    /\ rd[a] = "tracked"
    /\ rd' = [rd EXCEPT ![a] = "idle"]
    /\ forwarded' = forwarded \cup ({a} \cap table)
    /\ told' = ToldAfter(a)
    /\ UNCHANGED <<masterVars, gpc, link, masterConn, todo, table, gEnd, cut, mEnd, overlap, held>>

(* The deferred UnregisterAgent of one of the agent's connections.         *)
AgentLeaves(a) ==
    /\ a \in table
    /\ table' = table \ {a}
    /\ forwarded' = forwarded \ {a}
    /\ UNCHANGED <<gatewayVars, masterVars, rd, gEnd, cut, mEnd, overlap, held>>

-----------------------------------------------------------------------------
(* The /ws/gateway handler of the master.                                  *)

(* What the end at the gateway sees when the master closes link l.         *)
GatewaySeesClose(l) == gEnd' = IF l = link /\ ~cut THEN "broken" ELSE gEnd

SetConnForgotten(l) ==
    /\ mpc[l] = "accepted"
    /\ mpc' = [mpc EXCEPT ![l] = "reading"]
    /\ UNCHANGED <<gatewayVars, tableVars, slot, gEnd, mEnd, cut, overlap, held>>

SetConn(l) ==
    /\ mpc[l] = "accepted"
    /\ mpc' = [mpc EXCEPT ![l] = "reading"]
    /\ slot' = l
    /\ IF slot = None
       THEN UNCHANGED <<mEnd, gEnd>>
       ELSE mEnd' = [mEnd EXCEPT ![slot] = "broken"] /\ GatewaySeesClose(slot)
    /\ UNCHANGED <<gatewayVars, tableVars, cut, overlap, held>>

(* A message of the gateway: registration, metrics, an answer.  Broadcast  *)
(* returns, or keeps the handler while something holds it up.              *)
HandlerMessage(l) ==
    /\ mpc[l] = "reading" /\ mEnd[l] = "open"
    /\ mpc' = [mpc EXCEPT ![l] = IF held THEN "broadcasting" ELSE "reading"]
    /\ UNCHANGED <<gatewayVars, tableVars, slot, gEnd, cut, mEnd, overlap, held>>

HandlerReadRetry(l) ==
    /\ mpc[l] = "reading" /\ mEnd[l] = "broken"
    /\ UNCHANGED linkVars

HandlerReadError(l) ==
    /\ mpc[l] = "reading" /\ mEnd[l] = "broken"
    /\ mpc' = [mpc EXCEPT ![l] = "leaving"]
    /\ UNCHANGED <<gatewayVars, tableVars, slot, gEnd, cut, mEnd, overlap, held>>

(* The deferred ClearConn: whatever connection the slot holds by now.      *)
ClearConn(l) ==
    /\ mpc[l] = "leaving"
    /\ slot' = None
    /\ mpc' = [mpc EXCEPT ![l] = "closing"]
    /\ UNCHANGED <<gatewayVars, tableVars, gEnd, cut, mEnd, overlap, held>>

(* The deferred conn.Close().                                              *)
HandlerClose(l) ==
    /\ mpc[l] = "closing"
    /\ mpc' = [mpc EXCEPT ![l] = "done"]
    /\ mEnd' = [mEnd EXCEPT ![l] = "broken"]
    /\ GatewaySeesClose(l)
    /\ UNCHANGED <<gatewayVars, tableVars, slot, cut, overlap, held>>

(* A browser stops reading, its buffer full, or a connection's mutex is    *)
(* left locked: Broadcasts do not return ...                               *)
BroadcastIsHeld ==
    /\ ~held
    /\ held' = TRUE
    /\ UNCHANGED <<gatewayVars, tableVars, masterVars, gEnd, cut, mEnd, overlap>>

(* ... until the browser reads again or is given up.                       *)
BroadcastGoesOn ==
    /\ held
    /\ held' = FALSE
    /\ mpc' = [l \in Links |-> IF mpc[l] = "broadcasting" THEN "reading" ELSE mpc[l]]
    /\ UNCHANGED <<gatewayVars, tableVars, slot, gEnd, cut, mEnd, overlap>>

-----------------------------------------------------------------------------
(* The network and the two processes.                                      *)

(* The path under the link goes silent for good; neither end is told.      *)
LinkCut ==
    /\ link # None /\ ~cut /\ gEnd = "open"
    /\ cut' = TRUE
    /\ UNCHANGED <<gatewayVars, tableVars, masterVars, gEnd, mEnd, overlap, held>>

(* TCP keepalive, the default on both ends, finds out.                     *)
GatewayKeepAlive ==
    /\ cut /\ gEnd = "open"
    /\ gEnd' = "broken"
    /\ UNCHANGED <<gatewayVars, tableVars, masterVars, cut, mEnd, overlap, held>>

MasterKeepAlive(l) ==
    /\ mpc[l] # "done" /\ mEnd[l] = "open"
    /\ l # link \/ cut
    /\ mEnd' = [mEnd EXCEPT ![l] = "broken"]
    /\ UNCHANGED <<gatewayVars, tableVars, masterVars, gEnd, cut, overlap, held>>

GatewayRestart ==
    /\ gpc' = "dialing" /\ link' = None /\ masterConn' = None
    /\ gEnd' = "broken" /\ cut' = FALSE /\ todo' = {} /\ told' = {}
    /\ table' = {} /\ forwarded' = {} /\ rd' = [a \in Agents |-> "idle"]
    /\ mEnd' = [l \in Links |-> IF l = link /\ ~cut THEN "broken" ELSE mEnd[l]]
    /\ UNCHANGED <<masterVars, overlap, held>>

MasterRestart ==
    /\ mpc' = [l \in Links |-> "done"]
    /\ mEnd' = [l \in Links |-> "broken"]
    /\ slot' = None
    /\ gEnd' = IF cut THEN gEnd ELSE "broken"
    /\ held' = FALSE
    /\ UNCHANGED <<gatewayVars, tableVars, cut, overlap>>

-----------------------------------------------------------------------------
LoopStep ==
    \/ \E l \in Links : Dial(l)
    \/ SetMasterConn \/ Snapshot \/ (\E a \in Agents : Announce(a))
    \/ StartReading \/ ReadError \/ ClearMasterConn \/ CloseLink

TableStep(a) ==
    AgentConnects(a) \/ TrackRegister(a) \/ ForwardRegister(a) \/ AgentLeaves(a)

HandlerStep(l) ==
    SetConn(l) \/ HandlerReadError(l) \/ ClearConn(l) \/ HandlerClose(l)

Next ==
    \/ LoopStep
    \/ \E a \in Agents : TableStep(a)
    \/ \E l \in Links : HandlerStep(l) \/ HandlerMessage(l) \/ MasterKeepAlive(l)
    \/ BroadcastIsHeld \/ BroadcastGoesOn
    \/ LinkCut \/ GatewayKeepAlive
    \/ GatewayRestart \/ MasterRestart

(* The handlers are scheduled and keepalive probes go out.  Nothing is     *)
(* asked of the loop, whose SendToMaster can wait, nor of a Broadcast that *)
(* is held up.                                                             *)
Fairness ==
    /\ WF_linkVars(GatewayKeepAlive)
    /\ \A l \in Links : WF_linkVars(HandlerStep(l) \/ MasterKeepAlive(l))

Spec == Init /\ [][Next]_linkVars
FairSpec == Spec /\ Fairness

-----------------------------------------------------------------------------
(* Neither end keeps a connection that nobody reads any more: a set        *)
(* masterConn is the connection of the loop, which will still clear it,    *)
(* and a set slot belongs to a handler that will.                          *)
NoDanglingLink ==
    /\ masterConn # None =>
           masterConn = link
           /\ gpc \in {"connected", "announcing", "reading", "lost"}
    /\ slot # None => mpc[slot] \in {"reading", "broadcasting", "leaving"}

(* Once the loop reads, the master has been told, on this very link, of    *)
(* every agent of the table whose registration was forwarded: a message    *)
(* dropped while there was no link is made good by the announcements, and  *)
(* no agent falls between the two.                                         *)
KnownAgentsAnnounced ==
    gpc = "reading" /\ gEnd = "open" => forwarded \subseteq told

(* The link works from end to end.                                         *)
LinkStable ==
    gpc = "reading" /\ gEnd = "open" /\ ~cut /\ mEnd[link] = "open"

(* If no earlier handler was left when the link was dialled, the master    *)
(* can use the link for good as long as it works.                          *)
CleanRelinkIsUsable ==
    <>[](LinkStable /\ ~overlap) => <>[](slot = link)

(* A handler whose link is gone does not stay in its loop for ever, unless *)
(* a Broadcast does not return to it: only then does it never come to read *)
(* the end of its link, and its deferred ClearConn and Close never run.    *)
BroadcastsReturn == []<>~held
HandlersEnd ==
    BroadcastsReturn =>
        \A l \in Links : []<>(mpc[l] = "done" \/ (l = link /\ ~cut /\ gEnd = "open"))

(* README, on the gateway: it forwards the messages between master and     *)
(* agents in both directions.  While the link works the master could send. *)
WorkingLinkIsUsable == <>[]LinkStable => <>[](slot = link)
=============================================================================
