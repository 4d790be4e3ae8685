------------------------- MODULE AgentRegistryProofs -------------------------
(* Proofs about the gateway's agent table, for every set of agents and     *)
(* connections and every bound.                                            *)
EXTENDS AgentRegistry, TLAPS

(* Every step keeps the types of the table, the goroutines and the sockets.*)
LEMMA TypeStep == TypeOK /\ [Next]_regVars => TypeOK'
<1> SUFFICES ASSUME TypeOK, [Next]_regVars PROVE TypeOK'
  OBVIOUS
<1> USE OwnerAssumption, BoundAssumption DEF TypeOK, PCs
<1>1. ASSUME NEW id \in Ids, NEW c \in Conns, Dial(id, c) PROVE TypeOK'
  BY <1>1 DEF Dial
<1>2. ASSUME NEW id \in Ids, SendRegister(id) PROVE TypeOK'
  BY <1>2 DEF SendRegister
<1>3. ASSUME NEW id \in Ids, AgentReadError(id) PROVE TypeOK'
  BY <1>3 DEF AgentReadError
<1>4. ASSUME NEW id \in Ids, AgentClose(id) PROVE TypeOK'
  BY <1>4 DEF AgentClose
<1>5. ASSUME NEW c \in Conns, LinkLost(c) PROVE TypeOK'
  BY <1>5 DEF LinkLost
<1>6. ASSUME NEW c \in Conns, KeepAliveExpires(c) PROVE TypeOK'
  BY <1>6 DEF KeepAliveExpires
<1>7. ASSUME NEW c \in Conns, HandlerRegister(c) PROVE TypeOK'
  BY <1>7 DEF HandlerRegister, RegisterAgent
<1>8. ASSUME NEW c \in Conns, ReadMessage(c) PROVE TypeOK'
  BY <1>8 DEF ReadMessage
<1>9. ASSUME NEW c \in Conns, ReRegister(c) PROVE TypeOK'
  BY <1>9 DEF ReRegister, RegisterAgent, SendToMaster
<1>10. ASSUME NEW c \in Conns, ReadError(c) PROVE TypeOK'
  BY <1>10 DEF ReadError
<1>11. ASSUME NEW c \in Conns, Unregister(c) PROVE TypeOK'
  BY <1>11 DEF Unregister, UnregisterAgent
<1>12. ASSUME NEW c \in Conns, CloseConn(c) PROVE TypeOK'
  BY <1>12 DEF CloseConn
<1>13. CASE GatewayRestart
  <2>1. stalled' \in BOOLEAN
    BY <1>13 DEF GatewayRestart
  <2> QED
    BY <1>13, <2>1 DEF GatewayRestart
<1>14. CASE UNCHANGED regVars
  BY <1>14 DEF regVars
<1>15. ASSUME NEW c \in Conns, ReadOther(c) PROVE TypeOK'
  BY <1>15 DEF ReadOther, SendToMaster
<1>16. CASE StallBegins \/ StallEnds
  BY <1>16 DEF StallBegins, StallEnds
<1> QED
  BY <1>1, <1>2, <1>3, <1>4, <1>5, <1>6, <1>7, <1>8, <1>9, <1>10, <1>11,
     <1>12, <1>13, <1>14, <1>15, <1>16 DEF Next, AgentStep, GatewayStep

(* The state of the gateway's memory is always well typed.                 *)
THEOREM TypeCorrect == Spec => []TypeOK
<1>1. Init => TypeOK
  <2>1. Init => stalled \in BOOLEAN
    BY DEF Init
  <2> QED
    BY <2>1, BoundAssumption DEF Init, TypeOK, PCs
<1>2. QED
  BY <1>1, TypeStep, PTL DEF Spec

(* Every step keeps the entries on serving connections of the right agent. *)
LEMMA EntryStep ==
    TypeOK /\ NoDanglingEntry /\ [Next]_regVars => NoDanglingEntry'
<1> SUFFICES ASSUME TypeOK, NoDanglingEntry, [Next]_regVars
             PROVE  NoDanglingEntry'
  OBVIOUS
<1> USE OwnerAssumption, NoneAssumption DEF TypeOK, NoDanglingEntry, Serving
<1>1. ASSUME NEW id \in Ids, NEW c \in Conns, Dial(id, c)
      PROVE  NoDanglingEntry'
  (* c was in no entry: its earlier goroutine had ended. *)
  BY <1>1 DEF Dial
<1>2. ASSUME UNCHANGED <<agents, pc>> PROVE NoDanglingEntry'
  BY <1>2
<1>3. ASSUME NEW c \in Conns, HandlerRegister(c) PROVE NoDanglingEntry'
  BY <1>3 DEF HandlerRegister, RegisterAgent
<1>4. ASSUME NEW c \in Conns, ReadMessage(c) PROVE NoDanglingEntry'
  BY <1>4 DEF ReadMessage
<1>5. ASSUME NEW c \in Conns, ReRegister(c) PROVE NoDanglingEntry'
  BY <1>5 DEF ReRegister, RegisterAgent, SendToMaster
<1>6. ASSUME NEW c \in Conns, ReadError(c) PROVE NoDanglingEntry'
  BY <1>6 DEF ReadError
<1>7. ASSUME NEW c \in Conns, Unregister(c) PROVE NoDanglingEntry'
  (* The only entry that can name c is the one of its owner, removed here. *)
  <2>1. agents' = [agents EXCEPT ![Owner[c]] = None]
    BY <1>7 DEF Unregister, UnregisterAgent
  <2>2. pc' = [pc EXCEPT ![c] = "closing"]
    BY <1>7 DEF Unregister
  <2>3. SUFFICES ASSUME NEW id \in Ids, agents'[id] # None
                 PROVE  /\ Owner[agents'[id]] = id
                        /\ pc'[agents'[id]] \in {"reading", "register", "forward", "leaving"}
    OBVIOUS
  <2>4. id # Owner[c] /\ agents'[id] = agents[id]
    BY <2>1, <2>3
  <2>5. agents[id] # c
    BY <2>3, <2>4
  <2> QED
    BY <2>2, <2>3, <2>4, <2>5
<1>8. ASSUME NEW c \in Conns, CloseConn(c) PROVE NoDanglingEntry'
  BY <1>8 DEF CloseConn
<1>9. CASE GatewayRestart
  BY <1>9 DEF GatewayRestart
<1>10. ASSUME NEW c \in Conns, ReadOther(c) PROVE NoDanglingEntry'
  BY <1>10 DEF ReadOther, SendToMaster
<1>11. CASE StallEnds
  (* Readers that waited go on reading: they still serve. *)
  BY <1>11 DEF StallEnds
<1> QED
  BY <1>1, <1>2, <1>3, <1>4, <1>5, <1>6, <1>7, <1>8, <1>9, <1>10, <1>11
     DEF Next, AgentStep, GatewayStep, SendRegister, AgentReadError,
         AgentClose, LinkLost, KeepAliveExpires, StallBegins, regVars

(* No entry of the table outlives the goroutine that will remove it, for   *)
(* any number of agents and of overlapping connections.                    *)
THEOREM EntriesAreServed == Spec => []NoDanglingEntry
<1>1. Init => NoDanglingEntry
  BY DEF Init, NoDanglingEntry
<1>2. QED
  BY <1>1, TypeCorrect, EntryStep, PTL DEF Spec

(* A connection loses its entry to another one only in a step that closes  *)
(* it: what DisplacedIsClosed says of one step.                            *)
DisplacedStep ==
    \A id \in Ids :
        agents[id] # None /\ agents'[id] \notin {None, agents[id]}
            => ~open'[agents[id]]

DisplacedIsClosed == [][DisplacedStep]_regVars

(* RegisterAgent closes the connection whose entry it gives to another.    *)
LEMMA RegisterDisplaces ==
    ASSUME TypeOK, NEW id \in Ids, NEW c \in Conns, RegisterAgent(id, c)
    PROVE  DisplacedStep
<1> SUFFICES ASSUME NEW i \in Ids, agents[i] # None,
                    agents'[i] \notin {None, agents[i]}
             PROVE  ~open'[agents[i]]
  BY DEF DisplacedStep
<1>1. i = id /\ agents'[i] = c
  BY DEF TypeOK, RegisterAgent
<1>2. agents[i] \in Conns /\ agents[i] # c
  BY <1>1 DEF TypeOK
<1> QED
  BY <1>1, <1>2 DEF RegisterAgent

(* In no execution does a connection lose its entry to another one and     *)
(* stay open: no two sockets of one agent can take turns in the table.     *)
THEOREM DisplacedClosed == Spec => DisplacedIsClosed
<1>1. TypeOK /\ [Next]_regVars => [DisplacedStep]_regVars
  <2> SUFFICES ASSUME TypeOK, Next PROVE DisplacedStep
    OBVIOUS
  <2>1. ASSUME NEW c \in Conns, HandlerRegister(c) \/ ReRegister(c)
        PROVE  DisplacedStep
    BY <2>1, RegisterDisplaces, OwnerAssumption DEF HandlerRegister, ReRegister
  <2>2. ASSUME NEW c \in Conns, Unregister(c) PROVE DisplacedStep
    BY <2>2, OwnerAssumption DEF Unregister, UnregisterAgent, DisplacedStep, TypeOK
  <2>3. CASE GatewayRestart
    BY <2>3 DEF GatewayRestart, DisplacedStep
  <2>4. CASE UNCHANGED agents
    BY <2>4 DEF DisplacedStep
  <2> QED
    BY <2>1, <2>2, <2>3, <2>4
       DEF Next, AgentStep, GatewayStep, Dial, SendRegister, AgentReadError,
           AgentClose, LinkLost, KeepAliveExpires, ReadMessage, ReadOther,
           ReadError, CloseConn, StallBegins, StallEnds
<1>2. QED
  BY <1>1, TypeCorrect, PTL DEF Spec, DisplacedIsClosed, DisplacedStep

-----------------------------------------------------------------------------
(* The gateway implements AgentTable.  A connection whose handler has not  *)
(* registered it yet is not in the table, so nobody has closed it.         *)
AcceptedOpen == \A c \in Conns : pc[c] = "accepted" => open[c]

Live == {c \in Conns : Serving(c)}
Told == {c \in Conns : Serving(c) /\ ~open[c]}
Claims == [c \in Conns |-> IF pc[c] = "register" THEN pending[c] + 1 ELSE pending[c]]

(* RegisterAgent closes whoever had the entry, a reader, and nobody else.  *)
LEMMA RegisterOpens ==
  ASSUME TypeOK, NoDanglingEntry, NEW c \in Conns, pc[c] \in {"accepted", "register"},
         RegisterAgent(Owner[c], c)
  PROVE  /\ \A d \in Conns : open'[d] <=> open[d] /\ d \notin {agents[Owner[c]]} \ {None, c}
         /\ \A d \in {agents[Owner[c]]} \ {None, c} : d \in Conns /\ Serving(d)
<1>1. agents[Owner[c]] \in Conns \cup {None}
  BY OwnerAssumption DEF TypeOK
<1>2. agents[Owner[c]] # None => Serving(agents[Owner[c]])
  BY OwnerAssumption DEF NoDanglingEntry
<1> QED
  BY <1>1, <1>2, NoneAssumption DEF RegisterAgent, TypeOK

(* Only what is in the table is closed by another goroutine.               *)
LEMMA OpenStep ==
    TypeOK /\ NoDanglingEntry /\ AcceptedOpen /\ [Next]_regVars => AcceptedOpen'
<1> SUFFICES ASSUME TypeOK, NoDanglingEntry, AcceptedOpen, [Next]_regVars
             PROVE  AcceptedOpen'
  OBVIOUS
<1> USE DEF TypeOK, AcceptedOpen
<1>1. ASSUME NEW id \in Ids, NEW c \in Conns, Dial(id, c) PROVE AcceptedOpen'
  BY <1>1 DEF Dial
<1>2. ASSUME NEW c \in Conns, HandlerRegister(c) PROVE AcceptedOpen'
  BY <1>2, RegisterOpens DEF HandlerRegister, Serving
<1>3. ASSUME NEW c \in Conns, ReRegister(c) PROVE AcceptedOpen'
  BY <1>3, RegisterOpens DEF ReRegister, SendToMaster, Serving
<1>4. ASSUME NEW c \in Conns,
             ReadMessage(c) \/ ReadOther(c) \/ ReadError(c) \/ Unregister(c) \/ CloseConn(c)
      PROVE  AcceptedOpen'
  BY <1>4 DEF ReadMessage, ReadOther, SendToMaster, ReadError, Unregister, CloseConn
<1>5. CASE GatewayRestart \/ StallEnds
  BY <1>5 DEF GatewayRestart, StallEnds
<1>6. CASE UNCHANGED <<pc, open>>
  BY <1>6
<1> QED
  BY <1>1, <1>2, <1>3, <1>4, <1>5, <1>6
     DEF Next, AgentStep, GatewayStep, SendRegister, AgentReadError, AgentClose,
         LinkLost, KeepAliveExpires, StallBegins, regVars

(* The registrations a connection is left with: those in its buffer, and   *)
(* the one its reader has in hand.                                         *)
LEMMA ClaimsType ==
  /\ TypeOK => Claims \in [Conns -> Nat]
  /\ TypeOK' => Claims' \in [Conns -> Nat]
BY BoundAssumption DEF TypeOK, Claims

(* Steps that leave the table and the readers alone.                       *)
LEMMA Aside ==
  ASSUME TypeOK', agents' = agents, Live' = Live, Told' = Told,
         \A d \in Told : Claims'[d] <= Claims[d]
  PROVE  T!Next
BY ClaimsType DEF T!Next, T!Dwindle, Claims, Live, Told

(* The same for a step of one reader that goes on serving.                 *)
LEMMA Quiet ==
  ASSUME TypeOK, TypeOK', NEW c \in Conns, agents' = agents, open' = open,
         pc' = [pc EXCEPT ![c] = pc'[c]], Serving(c) <=> Serving(c)',
         \A d \in Conns \ {c} : pending'[d] = pending[d],
         c \in Told => Claims'[c] <= Claims[c]
  PROVE  T!Next
<1>1. Live' = Live /\ Told' = Told
  BY DEF Live, Told, Serving, TypeOK
<1>2. \A d \in Told : Claims'[d] <= Claims[d]
  BY BoundAssumption DEF Told, Claims, TypeOK
<1> QED
  BY <1>1, <1>2, Aside

(* RegisterAgent by a reader is Take.                                      *)
LEMMA TakeStep ==
  ASSUME TypeOK, NoDanglingEntry, TypeOK', NEW c \in Conns,
         pc[c] = "register" \/ (pc[c] = "accepted" /\ open[c]),
         RegisterAgent(Owner[c], c),
         pc' = [pc EXCEPT ![c] = pc'[c]], pc'[c] \in {"reading", "forward"},
         pending' = pending
  PROVE  /\ T!Take(c)
         /\ Live' = Live \cup {c}
<1>1. Live' = Live \cup {c}
  BY DEF Live, Serving, TypeOK
<1>2. agents' = [agents EXCEPT ![Owner[c]] = c]
  BY DEF RegisterAgent
<1>3. Told' = Told \cup ({agents[Owner[c]]} \ {None, c})
  BY <1>1, RegisterOpens DEF Told, Live, Serving, TypeOK
<1>4. \A d \in Told : Claims'[d] <= Claims[d]
  BY BoundAssumption DEF Told, Claims, Serving, TypeOK
<1> QED
  BY <1>1, <1>2, <1>3, <1>4, ClaimsType DEF T!Take, T!Dwindle, Told, Live, Claims

(* Every step is one of AgentTable, or leaves what it shows alone.         *)
LEMMA TableStep ==
    TypeOK /\ TypeOK' /\ NoDanglingEntry /\ AcceptedOpen /\ [Next]_regVars => [T!Next]_T!tableVars
<1> SUFFICES ASSUME TypeOK, TypeOK', NoDanglingEntry, AcceptedOpen, [Next]_regVars
             PROVE  T!Next \/ UNCHANGED T!tableVars
  OBVIOUS
<1> USE DEF PCs
<1>1. ASSUME NEW id \in Ids, NEW c \in Conns, Dial(id, c) PROVE T!Next
  <2>1. Live' = Live /\ Told' = Told
    BY <1>1 DEF Dial, Live, Told, Serving, TypeOK
  <2>2. \A d \in Told : Claims'[d] <= Claims[d]
    BY <1>1, BoundAssumption DEF Dial, Told, Claims, Serving, TypeOK
  <2> QED
    BY <1>1, <2>1, <2>2, Aside DEF Dial
<1>2. ASSUME NEW id \in Ids, SendRegister(id) PROVE T!Next
  (* Nothing is sent on a socket that the gateway has closed. *)
  <2>1. conn[id] \in Conns /\ open[conn[id]]
    BY <1>2 DEF SendRegister, TypeOK
  <2> QED
    BY <1>2, <2>1, Quiet DEF SendRegister, Told, Serving, TypeOK
<1>3. ASSUME NEW c \in Conns, HandlerRegister(c) PROVE T!Next
  <2>1. pc' = [pc EXCEPT ![c] = pc'[c]] /\ pc'[c] = "reading"
    BY <1>3 DEF HandlerRegister, TypeOK
  <2>2. T!Take(c) /\ Live' = Live \cup {c}
    BY <1>3, <2>1, TakeStep DEF HandlerRegister, AcceptedOpen
  <2>3. c \notin Live
    BY <1>3 DEF HandlerRegister, Live, Serving
  <2> QED
    BY <2>2, <2>3 DEF T!Next, T!Enter, Live
<1>4. ASSUME NEW c \in Conns, ReRegister(c) PROVE T!Next
  <2>1. pc' = [pc EXCEPT ![c] = pc'[c]] /\ pc'[c] \in {"reading", "forward"}
    BY <1>4 DEF ReRegister, SendToMaster, TypeOK
  <2>2. T!Take(c) /\ Live' = Live \cup {c}
    BY <1>4, <2>1, TakeStep DEF ReRegister
  <2>3. c \in Live
    BY <1>4 DEF ReRegister, Live, Serving
  <2>4. Claims'[c] < Claims[c]
    BY <1>4, <2>1, BoundAssumption DEF ReRegister, Claims, TypeOK
  <2>5. Live' = Live
    BY <2>2, <2>3
  <2> QED
    BY <2>2, <2>3, <2>4, <2>5 DEF T!Next, T!Claim, Live, Claims
<1>5. ASSUME NEW c \in Conns, ReadMessage(c) PROVE T!Next
  <2>1. Claims'[c] <= Claims[c]
    BY <1>5, BoundAssumption DEF ReadMessage, Claims, TypeOK
  <2>2. /\ pc' = [pc EXCEPT ![c] = pc'[c]] /\ Serving(c) /\ Serving(c)'
        /\ \A d \in Conns \ {c} : pending'[d] = pending[d]
    BY <1>5 DEF ReadMessage, Serving, TypeOK
  <2> QED
    BY <1>5, <2>1, <2>2, Quiet DEF ReadMessage
<1>6. ASSUME NEW c \in Conns, ReadError(c) PROVE T!Next
  <2>1. Claims'[c] <= Claims[c]
    BY <1>6, BoundAssumption DEF ReadError, Claims, TypeOK
  <2>2. /\ pc' = [pc EXCEPT ![c] = pc'[c]] /\ Serving(c) /\ Serving(c)'
        /\ \A d \in Conns \ {c} : pending'[d] = pending[d]
    BY <1>6 DEF ReadError, Serving, TypeOK
  <2> QED
    BY <1>6, <2>1, <2>2, Quiet DEF ReadError
<1>7. ASSUME NEW c \in Conns, Unregister(c) PROVE T!Next
  <2>1. /\ c \in Live /\ Live' = Live \ {c} /\ Told' = Told \ {c}
        /\ agents' = [agents EXCEPT ![Owner[c]] = None]
    BY <1>7 DEF Unregister, UnregisterAgent, Live, Told, Serving, TypeOK
  <2>2. \A d \in Told : Claims'[d] <= Claims[d]
    BY <1>7, BoundAssumption DEF Unregister, Told, Claims, Serving, TypeOK
  <2> QED
    BY <2>1, <2>2, ClaimsType DEF T!Next, T!Leave, T!Dwindle, Live, Told, Claims
<1>8. ASSUME NEW c \in Conns, CloseConn(c) PROVE T!Next
  <2>1. Live' = Live /\ Told' = Told
    BY <1>8 DEF CloseConn, Live, Told, Serving, TypeOK
  <2>2. \A d \in Told : Claims'[d] <= Claims[d]
    BY <1>8, BoundAssumption DEF CloseConn, Told, Claims, Serving, TypeOK
  <2> QED
    BY <1>8, <2>1, <2>2, Aside DEF CloseConn
<1>9. CASE GatewayRestart
  <2>1. agents' = [id \in Ids |-> None] /\ Live' = {} /\ Told' = {}
    BY <1>9 DEF GatewayRestart, Live, Told, Serving, TypeOK
  <2> QED
    BY <2>1, ClaimsType DEF T!Next, T!Restart, Live, Told, Claims
<1>10. CASE UNCHANGED <<agents, pc, open, pending>>
  BY <1>10 DEF T!tableVars, Serving
<1>11. ASSUME NEW c \in Conns, ReadOther(c) PROVE T!Next
  <2>1. /\ pc' = [pc EXCEPT ![c] = pc'[c]] /\ Serving(c) /\ Serving(c)'
        /\ Claims'[c] <= Claims[c]
    BY <1>11, BoundAssumption DEF ReadOther, SendToMaster, Serving, Claims, TypeOK
  <2> QED
    BY <1>11, <2>1, Quiet DEF ReadOther
<1>12. CASE StallEnds
  (* A reader that waited in SendToMaster has the claims it had. *)
  <2>1. Live' = Live /\ Told' = Told
    BY <1>12 DEF StallEnds, Live, Told, Serving, TypeOK
  <2>2. \A d \in Told : Claims'[d] <= Claims[d]
    BY <1>12, BoundAssumption DEF StallEnds, Told, Claims, TypeOK
  <2> QED
    BY <1>12, <2>1, <2>2, Aside DEF StallEnds
<1> QED
  BY <1>1, <1>2, <1>3, <1>4, <1>5, <1>6, <1>7, <1>8, <1>9, <1>10, <1>11, <1>12
     DEF Next, AgentStep, GatewayStep, AgentReadError, AgentClose, LinkLost,
         KeepAliveExpires, StallBegins, regVars

(* For any agents and connections, in whatever order readers, clean-ups,   *)
(* losses and restarts come: the gateway's table is one that AgentTable    *)
(* allows, so whoever lost an entry takes it back at most once for each    *)
(* register message it was left with.                                      *)
THEOREM RegistryImplementsTable == Spec => Table
<1>1. Init => T!Init /\ AcceptedOpen
  BY BoundAssumption DEF Init, T!Init, Serving, AcceptedOpen
<1>2. Spec => []AcceptedOpen
  BY <1>1, TypeCorrect, EntriesAreServed, OpenStep, PTL DEF Spec
<1> QED
  BY <1>1, <1>2, TypeCorrect, EntriesAreServed, TableStep, PTL DEF Spec, Table, T!Spec
=============================================================================
