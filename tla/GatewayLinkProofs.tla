-------------------------- MODULE GatewayLinkProofs --------------------------
(* Proofs about the link between gateway and master, for every set of      *)
(* agents and every number of overlapping links.                           *)
EXTENDS GatewayLink, TLAPS

-----------------------------------------------------------------------------
(* Type correctness.                                                       *)

LEMMA TypeStep == TypeOK /\ [Next]_linkVars => TypeOK'
<1> SUFFICES ASSUME TypeOK, [Next]_linkVars PROVE TypeOK'
  OBVIOUS
<1> USE NoneAssumption DEF TypeOK, gatewayVars, tableVars, masterVars
<1>1. ASSUME NEW l \in Links, Dial(l) PROVE TypeOK'
  BY <1>1 DEF Dial
<1>2. CASE SetMasterConn
  BY <1>2 DEF SetMasterConn
<1>3. CASE Snapshot
  BY <1>3 DEF Snapshot
<1>4. ASSUME NEW a \in Agents, Announce(a) PROVE TypeOK'
  BY <1>4 DEF Announce, ToldAfter
<1>5. CASE StartReading
  BY <1>5 DEF StartReading
<1>6. CASE ReadError
  BY <1>6 DEF ReadError
<1>7. CASE ClearMasterConn
  BY <1>7 DEF ClearMasterConn
<1>8. CASE CloseLink
  BY <1>8 DEF CloseLink
<1>9. ASSUME NEW a \in Agents, AgentConnects(a) PROVE TypeOK'
  BY <1>9 DEF AgentConnects
<1>10. ASSUME NEW a \in Agents, TrackRegister(a) PROVE TypeOK'
  BY <1>10 DEF TrackRegister
<1>11. ASSUME NEW a \in Agents, ForwardRegister(a) PROVE TypeOK'
  BY <1>11 DEF ForwardRegister, ToldAfter
<1>12. ASSUME NEW a \in Agents, AgentLeaves(a) PROVE TypeOK'
  BY <1>12 DEF AgentLeaves
<1>13. ASSUME NEW l \in Links, SetConn(l) PROVE TypeOK'
  BY <1>13 DEF SetConn, GatewaySeesClose
<1>14. ASSUME NEW l \in Links, HandlerReadError(l) PROVE TypeOK'
  BY <1>14 DEF HandlerReadError
<1>15. ASSUME NEW l \in Links, ClearConn(l) PROVE TypeOK'
  BY <1>15 DEF ClearConn
<1>16. ASSUME NEW l \in Links, HandlerClose(l) PROVE TypeOK'
  BY <1>16 DEF HandlerClose, GatewaySeesClose
<1>17. ASSUME NEW l \in Links, MasterKeepAlive(l) PROVE TypeOK'
  BY <1>17 DEF MasterKeepAlive
<1>18. CASE LinkCut
  BY <1>18 DEF LinkCut
<1>19. CASE GatewayKeepAlive
  BY <1>19 DEF GatewayKeepAlive
<1>20. CASE GatewayRestart
  BY <1>20 DEF GatewayRestart
<1>21. CASE MasterRestart
  BY <1>21 DEF MasterRestart
<1>22. CASE UNCHANGED linkVars
  BY <1>22 DEF linkVars
<1>23. ASSUME NEW l \in Links, HandlerMessage(l) PROVE TypeOK'
  BY <1>23 DEF HandlerMessage
<1>24. CASE BroadcastIsHeld
  BY <1>24 DEF BroadcastIsHeld
<1>25. CASE BroadcastGoesOn
  BY <1>25 DEF BroadcastGoesOn
<1> QED
  BY <1>1, <1>2, <1>3, <1>4, <1>5, <1>6, <1>7, <1>8, <1>9, <1>10, <1>11,
     <1>12, <1>13, <1>14, <1>15, <1>16, <1>17, <1>18, <1>19, <1>20, <1>21,
     <1>22, <1>23, <1>24, <1>25 DEF Next, LoopStep, TableStep, HandlerStep

(* Both ends of the link are always well typed; the loop holds a           *)
(* connection exactly between its dial and its close.                      *)
THEOREM TypeCorrect == Spec => []TypeOK
<1>1. Init => TypeOK
  BY DEF Init, TypeOK
<1>2. QED
  BY <1>1, TypeStep, PTL DEF Spec

-----------------------------------------------------------------------------
(* Who still clears a set connection.                                      *)

LEMMA DanglingStep ==
    TypeOK /\ NoDanglingLink /\ [Next]_linkVars => NoDanglingLink'
<1> SUFFICES ASSUME TypeOK, NoDanglingLink, [Next]_linkVars
             PROVE  NoDanglingLink'
  OBVIOUS
<1> USE NoneAssumption
        DEF TypeOK, NoDanglingLink, gatewayVars, tableVars, masterVars
<1>1. ASSUME NEW l \in Links, Dial(l) PROVE NoDanglingLink'
  BY <1>1 DEF Dial
<1>2. CASE SetMasterConn
  BY <1>2 DEF SetMasterConn
<1>3. CASE Snapshot \/ StartReading \/ ReadError
  BY <1>3 DEF Snapshot, StartReading, ReadError
<1>4. CASE ClearMasterConn
  BY <1>4 DEF ClearMasterConn
<1>5. CASE CloseLink
  BY <1>5 DEF CloseLink
<1>6. ASSUME NEW l \in Links, SetConn(l) PROVE NoDanglingLink'
  BY <1>6 DEF SetConn
<1>7. ASSUME NEW l \in Links, HandlerReadError(l) PROVE NoDanglingLink'
  BY <1>7 DEF HandlerReadError
<1>8. ASSUME NEW l \in Links, ClearConn(l) PROVE NoDanglingLink'
  BY <1>8 DEF ClearConn
<1>9. ASSUME NEW l \in Links, HandlerClose(l) PROVE NoDanglingLink'
  BY <1>9 DEF HandlerClose
<1>10. CASE GatewayRestart
  BY <1>10 DEF GatewayRestart
<1>11. CASE MasterRestart
  BY <1>11 DEF MasterRestart
<1>12. CASE UNCHANGED <<gpc, link, masterConn, mpc, slot>>
  BY <1>12
<1>13. ASSUME NEW l \in Links, HandlerMessage(l) PROVE NoDanglingLink'
  BY <1>13 DEF HandlerMessage
<1>14. CASE BroadcastGoesOn
  (* Handlers that waited read again: they have not come to ClearConn. *)
  BY <1>14 DEF BroadcastGoesOn
<1> QED
  BY <1>1, <1>2, <1>3, <1>4, <1>5, <1>6, <1>7, <1>8, <1>9, <1>10, <1>11, <1>12,
     <1>13, <1>14
     DEF Next, LoopStep, TableStep, HandlerStep, Announce, AgentConnects,
         TrackRegister, ForwardRegister, AgentLeaves, MasterKeepAlive,
         LinkCut, GatewayKeepAlive, BroadcastIsHeld, linkVars

(* A set connection, at either end and whatever overlaps, is one whose     *)
(* loop or handler has its clearing call still to come.                    *)
THEOREM LinksAreCleared == Spec => []NoDanglingLink
<1>1. Init => NoDanglingLink
  BY DEF Init, NoDanglingLink
<1>2. QED
  BY <1>1, TypeCorrect, DanglingStep, PTL DEF Spec

-----------------------------------------------------------------------------
(* The announcements.  The invariant says where the loop stands with them: *)
(* as soon as it took its snapshot, every forwarded agent has been told or *)
(* is still to be announced.                                               *)

AnnounceInv ==
    /\ gpc \in {"connected", "announcing", "reading"} => masterConn = link
    /\ gpc = "announcing" /\ gEnd = "open" => forwarded \subseteq told \cup todo
    /\ gpc = "reading" /\ gEnd = "open" => forwarded \subseteq told

LEMMA AnnounceStep ==
    TypeOK /\ AnnounceInv /\ [Next]_linkVars => AnnounceInv'
<1> SUFFICES ASSUME TypeOK, AnnounceInv, [Next]_linkVars
             PROVE  AnnounceInv'
  OBVIOUS
<1> USE NoneAssumption
        DEF TypeOK, AnnounceInv, gatewayVars, tableVars, masterVars
<1>1. ASSUME NEW l \in Links, Dial(l) PROVE AnnounceInv'
  BY <1>1 DEF Dial
<1>2. CASE SetMasterConn
  BY <1>2 DEF SetMasterConn
<1>3. CASE Snapshot
  (* Only agents of the table are forwarded ones. *)
  BY <1>3 DEF Snapshot
<1>4. ASSUME NEW a \in Agents, Announce(a) PROVE AnnounceInv'
  BY <1>4 DEF Announce, ToldAfter
<1>5. CASE StartReading
  BY <1>5 DEF StartReading
<1>6. CASE ReadError \/ ClearMasterConn \/ CloseLink
  BY <1>6 DEF ReadError, ClearMasterConn, CloseLink
<1>7. ASSUME NEW a \in Agents, ForwardRegister(a) PROVE AnnounceInv'
  BY <1>7 DEF ForwardRegister, ToldAfter
<1>8. ASSUME NEW a \in Agents, AgentLeaves(a) PROVE AnnounceInv'
  BY <1>8 DEF AgentLeaves
<1>9. CASE GatewayRestart
  BY <1>9 DEF GatewayRestart
<1>10. CASE /\ UNCHANGED <<gpc, link, masterConn, forwarded, told, todo>>
            /\ gEnd' \in {gEnd, "broken"}
  BY <1>10
<1>11. ASSUME NEW l \in Links, HandlerStep(l) \/ HandlerMessage(l) \/ MasterKeepAlive(l)
       PROVE  AnnounceInv'
  BY <1>10, <1>11 DEF HandlerStep, HandlerMessage, SetConn, HandlerReadError, ClearConn,
     HandlerClose, MasterKeepAlive, GatewaySeesClose
<1>12. CASE \/ LinkCut \/ GatewayKeepAlive \/ MasterRestart
            \/ BroadcastIsHeld \/ BroadcastGoesOn \/ UNCHANGED linkVars
  BY <1>10, <1>12 DEF LinkCut, GatewayKeepAlive, MasterRestart, BroadcastIsHeld,
     BroadcastGoesOn, linkVars
<1>13. ASSUME NEW a \in Agents, AgentConnects(a) \/ TrackRegister(a)
       PROVE  AnnounceInv'
  BY <1>10, <1>13 DEF AgentConnects, TrackRegister
<1> QED
  BY <1>1, <1>2, <1>3, <1>4, <1>5, <1>6, <1>7, <1>8, <1>9, <1>11, <1>12,
     <1>13 DEF Next, LoopStep, TableStep

(* No agent falls between the messages dropped before a link and the       *)
(* announcements made on it, whatever connects and leaves meanwhile.       *)
THEOREM NobodyIsForgotten == Spec => []KnownAgentsAnnounced
<1>1. Init => AnnounceInv
  BY DEF Init, AnnounceInv
<1>2. AnnounceInv => KnownAgentsAnnounced
  BY DEF AnnounceInv, KnownAgentsAnnounced
<1>3. QED
  BY <1>1, <1>2, TypeCorrect, AnnounceStep, PTL DEF Spec
=============================================================================
