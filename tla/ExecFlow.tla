------------------------------- MODULE ExecFlow -------------------------------
(***************************************************************************)
(* A script on its way through the whole system: HandleBatchExec (or the   *)
(* dashboard's exec_request) records the request and sends one message for *)
(* every entry of its agent_ids, a list that the client made and nobody    *)
(* checks for repetitions; the gateway's connectToMaster loop routes each  *)
(* message to its agent; the agent runs it in a goroutine of its own and   *)
(* answers; the reader of the agent's connection forwards the answer; the  *)
(* master's /ws/gateway handler stores it in the history and broadcasts it *)
(* to the dashboards.                                                      *)
(*                                                                         *)
(* GatewayLink and AgentRegistry show in which states the connections can  *)
(* be; here a path has only the directions in which it delivers, and they  *)
(* change at any time, losing any of what is on the way.  The history is   *)
(* that of ExecHistory.                                                    *)
(***************************************************************************)
EXTENDS Naturals, Sequences, FiniteSets, ExecRecords

CONSTANTS
    TargetLists, \* the AgentIDs a request may carry
    MaxExecs,    \* bound: requests in a behaviour
    MaxJobs      \* bound: the entries of their lists, all together

ASSUME TargetAssumption ==
    \A targets \in TargetLists : targets \in Seq(Agents) /\ Len(targets) <= MaxJobs
ASSUME BoundAssumption == MaxExecs \in Nat /\ MaxJobs \in Nat

Ids == 1..MaxExecs
Ways == {"down", "up"}  \* from the master to the agents, and back

(* A message or an answer is told by its request, by the entry of the list *)
(* it was sent for and by that entry's agent.  The program has only the    *)
(* first and the last in it; no action depends on the entry.               *)
Jobs == Ids \X (1..MaxJobs) \X Agents
Agent(j) == j[3]
Entries(id, targets) == {<<id, k, targets[k]>> : k \in DOMAIN targets}

VARIABLES
    records, added, booted,   \* the history, as in ExecHistory
    unsent,      \* what the handlers of requests have yet to send
    usable,      \* directions in which the link master <-> gateway delivers
    down,        \* exec requests on the link
    reach,       \* per agent: directions in which its connection delivers
    inbox,       \* exec requests on the agents' connections
    running,     \* jobs whose goroutine is in RunScript
    outbox,      \* answers on the agents' connections
    up,          \* answers on the link
    ingest,      \* the /ws/gateway handler: "reading", "broadcasting" or
                 \* "blocked" by a dashboard that does not read its socket
    asked,       \* jobs ever requested
    starts,      \* how often RunScript was called for a job
    ended        \* jobs whose RunScript returned

histVars == <<records, added, booted>>
pathVars == <<usable, reach>>
jobVars == <<unsent, down, inbox, running, outbox, up>>
pastVars == <<asked, starts, ended>>
flowVars == <<histVars, pathVars, jobVars, ingest, pastVars>>

TypeOK ==
    /\ records \in Seq(Record) /\ added \in 0..MaxExecs /\ booted \in 0..added
    /\ unsent \in SUBSET Jobs
    /\ usable \in SUBSET Ways /\ reach \in [Agents -> SUBSET Ways]
    /\ down \in SUBSET Jobs /\ inbox \in SUBSET Jobs
    /\ running \in SUBSET Jobs
    /\ outbox \in SUBSET Jobs /\ up \in SUBSET Jobs
    /\ ingest \in {"reading", "broadcasting", "blocked"}
    /\ asked \in SUBSET Jobs /\ ended \in SUBSET Jobs
    /\ starts \in [Jobs -> Nat]

Init ==
    /\ records = <<>> /\ added = 0 /\ booted = 0
    /\ unsent = {}
    /\ usable = {} /\ reach = [a \in Agents |-> {}]
    /\ down = {} /\ inbox = {} /\ running = {} /\ outbox = {} /\ up = {}
    /\ ingest = "reading"
    /\ asked = {} /\ starts = [j \in Jobs |-> 0] /\ ended = {}

-----------------------------------------------------------------------------
(* The master: the HTTP and dashboard handlers.                            *)

(* The request is recorded, then (Send) sent to one entry after another.   *)
BatchExec(targets) ==
    /\ added < MaxExecs
    /\ Cardinality(asked) + Len(targets) <= MaxJobs
    /\ added' = added + 1
    /\ records' = Evict(Append(records, NewRecord(added', targets)))
    /\ unsent' = unsent \cup Entries(added', targets)
    /\ asked' = asked \cup Entries(added', targets)
    /\ UNCHANGED <<booted, pathVars, down, inbox, running, outbox, up,
                   ingest, starts, ended>>

(* The loop over the list has come to entry j.                             *)
IsNext(j) ==
    j \in unsent /\ \A k \in unsent : k[1] = j[1] => j[2] <= k[2]

SendFirstOnly(j) ==
    /\ IsNext(j)
    /\ unsent' = {k \in unsent : k[1] # j[1]}
    /\ down' = IF "down" \in usable THEN down \cup {j} ELSE down
    /\ UNCHANGED <<histVars, pathVars, inbox, running, outbox, up,
                   ingest, pastVars>>

SendWithoutReqID(j) ==
    /\ IsNext(j)
    /\ unsent' = unsent \ {j}
    /\ down' = IF "down" \in usable THEN down \cup {<<0, j[2], j[3]>>} ELSE down
    /\ UNCHANGED <<histVars, pathVars, inbox, running, outbox, up,
                   ingest, pastVars>>

(* GatewayConn.Send: without a connection the message is dropped, and the  *)
(* handler does not look at the result.                                    *)
Send(j) ==
    /\ IsNext(j)
    /\ unsent' = unsent \ {j}
    /\ down' = IF "down" \in usable THEN down \cup {j} ELSE down
    /\ UNCHANGED <<histVars, pathVars, inbox, running, outbox, up,
                   ingest, pastVars>>

-----------------------------------------------------------------------------
(* The gateway.                                                            *)

RouteAndBroadcast(j) ==
    /\ j \in down
    /\ down' = down \ {j}
    /\ inbox' = inbox \cup {<<j[1], j[2], a>> : a \in {b \in Agents : "down" \in reach[b]}}
    /\ UNCHANGED <<histVars, pathVars, unsent, running, outbox, up,
                   ingest, pastVars>>

(* connectToMaster reads a message and calls SendToAgent: no entry, or one *)
(* whose connection is gone, and the message is dropped.                   *)
Route(j) ==
    /\ j \in down
    /\ down' = down \ {j}
    /\ inbox' = IF "down" \in reach[Agent(j)] THEN inbox \cup {j} ELSE inbox
    /\ UNCHANGED <<histVars, pathVars, unsent, running, outbox, up,
                   ingest, pastVars>>

(* ForwardAgentToMaster reads an answer and calls SendToMaster.            *)
Forward(j) ==
    /\ j \in outbox
    /\ outbox' = outbox \ {j}
    /\ up' = IF "up" \in usable THEN up \cup {j} ELSE up
    /\ UNCHANGED <<histVars, pathVars, unsent, down, inbox, running,
                   ingest, pastVars>>

-----------------------------------------------------------------------------
(* The agent.                                                              *)

(* The read loop of connect: go handleMessage.                             *)
Receive(j) ==
    /\ j \in inbox
    /\ inbox' = inbox \ {j}
    /\ running' = running \cup {j}
    /\ starts' = [starts EXCEPT ![j] = @ + 1]
    /\ UNCHANGED <<histVars, pathVars, unsent, down, outbox, up,
                   ingest, asked, ended>>

(* RunScript returns, handleExecRequest sends the answer on the connection *)
(* that the agent has by then, which need not be the one that brought the  *)
(* request.                                                                *)
Finish(j) ==
    /\ j \in running
    /\ running' = running \ {j}
    /\ ended' = ended \cup {j}
    /\ outbox' = IF "up" \in reach[Agent(j)] THEN outbox \cup {j} ELSE outbox
    /\ UNCHANGED <<histVars, pathVars, unsent, down, inbox, up,
                   ingest, asked, starts>>

-----------------------------------------------------------------------------
(* The master: the /ws/gateway handler.                                    *)

(* UpdateResult of the answering agent, in the first record with that id.  *)
Store(id, a) ==
    records' = [i \in DOMAIN records |->
        IF records[i].id = id THEN Answer(records[i], a, TRUE) ELSE records[i]]

TakeForAny(j) ==
    /\ ingest = "reading" /\ j \in up
    /\ up' = up \ {j}
    /\ \E a \in Agents : Store(j[1], a)
    /\ ingest' = "broadcasting"
    /\ UNCHANGED <<added, booted, pathVars, unsent, down, inbox, running,
                   outbox, pastVars>>

TakeAnswer(j) ==
    /\ ingest = "reading" /\ j \in up
    /\ up' = up \ {j}
    /\ Store(j[1], Agent(j))
    /\ ingest' = "broadcasting"
    /\ UNCHANGED <<added, booted, pathVars, unsent, down, inbox, running,
                   outbox, pastVars>>

BroadcastAgain ==
    /\ ingest = "broadcasting"
    /\ UNCHANGED flowVars

(* Hub.Broadcast wrote to one dashboard after another.                     *)
BroadcastDone ==
    /\ ingest = "broadcasting"
    /\ ingest' = "reading"
    /\ UNCHANGED <<histVars, pathVars, jobVars, pastVars>>

-----------------------------------------------------------------------------
(* The network, the dashboards and the processes.                          *)

(* The link breaks, heals or stops to deliver in one direction (a cleared  *)
(* GatewayConn), and anything on it may be lost.                           *)
LinkChanges ==
    /\ usable' \in SUBSET Ways \ {usable}
    /\ down' \in SUBSET down /\ up' \in SUBSET up
    /\ UNCHANGED <<histVars, reach, unsent, inbox, running, outbox,
                   ingest, pastVars>>

Of(a, J) == {j \in J : Agent(j) = a}

(* The same for the connection of one agent and its entry in the table;    *)
(* that may be missing while the connection's reader goes on forwarding.   *)
AgentLinkChanges(a) ==
    /\ \E ways \in {{}, {"up"}, Ways} \ {reach[a]} :
           reach' = [reach EXCEPT ![a] = ways]
    /\ \E lost \in SUBSET Of(a, inbox) : inbox' = inbox \ lost
    /\ \E lost \in SUBSET Of(a, outbox) : outbox' = outbox \ lost
    /\ UNCHANGED <<histVars, usable, unsent, down, running, up,
                   ingest, pastVars>>

(* Its writes have no deadline: one dashboard that keeps its connection    *)
(* but stops to read holds the handler up, until it reads again or leaves. *)
DashboardStalls ==
    /\ ingest = "broadcasting"
    /\ ingest' = "blocked"
    /\ UNCHANGED <<histVars, pathVars, jobVars, pastVars>>

DashboardResumes ==
    /\ ingest = "blocked"
    /\ ingest' = "reading"
    /\ UNCHANGED <<histVars, pathVars, jobVars, pastVars>>

(* An agent process ends and with it the scripts' goroutines.              *)
AgentRestart(a) ==
    /\ reach' = [reach EXCEPT ![a] = {}]
    /\ inbox' = inbox \ Of(a, inbox)
    /\ running' = running \ Of(a, running)
    /\ UNCHANGED <<histVars, usable, unsent, down, outbox, up,
                   ingest, pastVars>>

GatewayRestart ==
    /\ usable' = {} /\ reach' = [a \in Agents |-> {}]
    /\ down' = {} /\ outbox' = {} /\ up' \in SUBSET up
    /\ inbox' \in SUBSET inbox
    /\ UNCHANGED <<histVars, unsent, running, ingest, pastVars>>

(* The master's history and handlers are in memory.                        *)
MasterRestart ==
    /\ records' = <<>> /\ booted' = added /\ added' = added
    /\ unsent' = {}
    /\ usable' = {} /\ up' = {} /\ down' \in SUBSET down
    /\ ingest' = "reading"
    /\ UNCHANGED <<reach, inbox, running, outbox, pastVars>>

-----------------------------------------------------------------------------
Next ==
    \/ \E targets \in TargetLists : BatchExec(targets)
    \/ \E j \in Jobs : \/ Send(j) \/ Route(j) \/ Receive(j)
                       \/ Finish(j) \/ Forward(j) \/ TakeAnswer(j)
    \/ BroadcastDone
    \/ LinkChanges \/ (\E a \in Agents : AgentLinkChanges(a) \/ AgentRestart(a))
    \/ DashboardStalls \/ DashboardResumes
    \/ GatewayRestart \/ MasterRestart

(* Every goroutine is scheduled.  A script may run for ever: there is no   *)
(* fairness for Finish, and none for anything the network does.            *)
Fairness ==
    /\ \A id \in Ids : WF_flowVars(\E j \in Jobs : j[1] = id /\ Send(j))
    /\ \A a \in Agents :
           /\ WF_flowVars(\E j \in Jobs : Agent(j) = a /\ Receive(j))
           /\ WF_flowVars(\E j \in Jobs : Agent(j) = a /\ Forward(j))
    /\ WF_flowVars(\E j \in Jobs : Route(j))
    /\ WF_flowVars((\E j \in Jobs : TakeAnswer(j)) \/ BroadcastDone)

Spec == Init /\ [][Next]_flowVars
FairSpec == Spec /\ Fairness

-----------------------------------------------------------------------------
(* The results that the history shows, and the phase of a job.             *)
Answered == {p \in Ids \X Agents : \E i \in DOMAIN records :
                 records[i].id = p[1] /\ p[2] \in DOMAIN records[i].results}

ResultOf(j) == <<j[1], j[3]>>

Phase(j) ==
    IF starts[j] > 1 THEN "started again"
    ELSE IF starts[j] = 1 THEN IF j \in ended THEN "ended" ELSE "running"
    ELSE IF j \in asked THEN "asked" ELSE "unasked"

S == INSTANCE ExecService WITH
         phase <- [j \in Jobs |-> Phase(j)], shown <- Answered

(* Whatever is lost, delayed or restarted, a machine runs the script of a  *)
(* request no oftener than its list names the machine, none runs it that   *)
(* the list does not name, and no result is shown of a script that has not *)
(* ended there.                                                            *)
Service == S!Spec

H == INSTANCE ExecHistory WITH PageSize <- 1, client <-
         [phase |-> "idle", encoding |-> {}, offset |-> 0,
          present |-> {}, seen |-> {}]

(* The history of the whole system is the one of ExecHistory: in           *)
(* particular no answer reaches it from an agent that its record does not  *)
(* name, which ExecHistory supposes.                                       *)
History == H!Spec

(* The path to and from an agent works, and so does the master's handler.  *)
Works(a) == usable = Ways /\ reach[a] = Ways /\ ingest # "blocked"

(* A message that has yet to be sent when the path works is run by its     *)
(* agent, unless the path stops to work.                                   *)
Possible == UNION {Entries(id, targets) : id \in Ids, targets \in TargetLists}

AskedIsStarted ==
    \A j \in Possible :
        (j \in unsent /\ Works(Agent(j))) ~> (starts[j] > 0 \/ ~Works(Agent(j)))

(* An answer on its way when the path works comes to be seen, unless the   *)
(* path stops to work or its request has left the history, by eviction or  *)
(* a restart: in particular its record is there before the first answer.   *)
Left(id) == id <= booted \/ added >= id + MaxSize

EndedIsShown ==
    \A id \in Ids, a \in Agents :
        (Works(a) /\ \E j \in outbox : ResultOf(j) = <<id, a>>) ~>
            (<<id, a>> \in Answered \/ ~Works(a) \/ Left(id))
=============================================================================
