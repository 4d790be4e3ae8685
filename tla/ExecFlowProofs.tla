--------------------------- MODULE ExecFlowProofs ----------------------------
(* Proofs about the way of a script through the system, for every set of   *)
(* agents, every size of the history and every number of requests.         *)
EXTENDS ExecFlow, TLAPS

(* The history by itself, and what is proved of it.                        *)
HP == INSTANCE ExecHistoryProofs WITH PageSize <- 1, client <-
         [phase |-> "idle", encoding |-> {}, offset |-> 0,
          present |-> {}, seen |-> {}]

-----------------------------------------------------------------------------
(* The operators on records are those of ExecHistoryProofs' lemmas.        *)
LEMMA OnePage == 1 \in Nat \ {0}
OBVIOUS

LEMMA ListsAssumption == TargetLists \subseteq Seq(Agents)
BY TargetAssumption

(* The entries of a list that fits are jobs, one per position.             *)
LEMMA EntriesAreJobs ==
    ASSUME NEW id \in Ids, NEW targets \in TargetLists
    PROVE  /\ Entries(id, targets) \subseteq Jobs
           /\ \A j \in Entries(id, targets) :
                  j[1] = id /\ j[2] \in DOMAIN targets /\ j[3] = targets[j[2]]
           /\ \A j \in Entries(id, targets) : j[3] \in Named(targets)
<1>1. targets \in Seq(Agents) /\ Len(targets) <= MaxJobs /\ Len(targets) \in Nat
  BY TargetAssumption
<1>2. \A k \in DOMAIN targets : k \in 1..MaxJobs /\ targets[k] \in Agents
  BY <1>1, BoundAssumption
<1> QED
  BY <1>2 DEF Entries, Jobs, Named

LEMMA EvictProperties ==
    ASSUME NEW T, NEW s \in Seq(T)
    PROVE  LET e == Evict(s)
               n == IF Len(s) > MaxSize THEN MaxSize ELSE Len(s)
           IN  /\ e \in Seq(T)
               /\ Len(e) = n
               /\ \A i \in 1..n : e[i] = s[Len(s) - n + i]
<1>1. Evict(s) = HP!Evict(s)
  BY DEF Evict, HP!Evict
<1>2. LET e == HP!Evict(s)
          n == IF Len(s) > MaxSize THEN MaxSize ELSE Len(s)
      IN  /\ e \in Seq(T)
          /\ Len(e) = n
          /\ \A i \in 1..n : e[i] = s[Len(s) - n + i]
  BY OnePage, HP!EvictProperties, SizeAssumption, ListsAssumption, BoundAssumption, Zenon
<1> QED
  BY <1>1, <1>2

LEMMA AnswerType ==
    ASSUME NEW r \in Record, NEW agent \in Agents, NEW done \in BOOLEAN
    PROVE  /\ Answer(r, agent, done) \in Record
           /\ Answer(r, agent, done).id = r.id
           /\ Answer(r, agent, done).targets = r.targets
           /\ DOMAIN Answer(r, agent, done).results
                = DOMAIN r.results \cup {agent}
<1>1. Record = HP!Record
  BY DEF Record, HP!Record, Results, HP!Results
<1>2. Answer(r, agent, done) = HP!Answer(r, agent, done)
  BY DEF Answer, With, HP!Answer, HP!With
<1>3. /\ HP!Answer(r, agent, done) \in HP!Record
      /\ HP!Answer(r, agent, done).id = r.id
      /\ HP!Answer(r, agent, done).targets = r.targets
      /\ DOMAIN HP!Answer(r, agent, done).results = DOMAIN r.results \cup {agent}
  BY <1>1, OnePage, HP!AnswerType, SizeAssumption, ListsAssumption, BoundAssumption, Zenon
<1> QED
  BY <1>1, <1>2, <1>3

LEMMA NewRecordType ==
    ASSUME NEW id \in Nat \ {0}, NEW targets \in Seq(Agents)
    PROVE  NewRecord(id, targets) \in Record
<1>1. Record = HP!Record
  BY DEF Record, HP!Record, Results, HP!Results
<1>2. NewRecord(id, targets) = HP!NewRecord(id, targets)
  BY DEF NewRecord, HP!NewRecord
<1>3. HP!NewRecord(id, targets) \in HP!Record
  BY OnePage, HP!NewRecordType, SizeAssumption, ListsAssumption, BoundAssumption, Zenon
<1> QED
  BY <1>1, <1>2, <1>3

-----------------------------------------------------------------------------
(* What a step does to the records.                                        *)

(* Adding a request shows no new result: its own record has none.          *)
LEMMA BatchExecRecords ==
    ASSUME TypeOK, NEW targets \in TargetLists, BatchExec(targets)
    PROVE  /\ records' \in Seq(Record)
           /\ \A i \in DOMAIN records' :
                  \/ \E k \in DOMAIN records : records'[i] = records[k]
                  \/ records'[i] = NewRecord(added', targets)
           /\ Answered' \subseteq Answered
<1> DEFINE new == NewRecord(added', targets)
           s == Append(records, new)
<1>1. new \in Record /\ new.results = [a \in {} |-> TRUE]
  <2>1. added' \in Nat \ {0}
    BY DEF TypeOK, BatchExec
  <2>2. new \in Record
    BY <2>1, NewRecordType, ListsAssumption
  <2> QED
    BY <2>2 DEF NewRecord
<1> HIDE DEF new
<1>2. /\ s \in Seq(Record)
      /\ Len(s) = Len(records) + 1
      /\ \A i \in 1..Len(records) : s[i] = records[i]
      /\ s[Len(records) + 1] = new
  BY <1>1 DEF TypeOK
<1>3. records' = Evict(s)
  BY DEF BatchExec, new
<1> DEFINE n == IF Len(s) > MaxSize THEN MaxSize ELSE Len(s)
<1>4. /\ Evict(s) \in Seq(Record)
      /\ Len(Evict(s)) = n
      /\ \A i \in 1..n : Evict(s)[i] = s[Len(s) - n + i]
  <2> HIDE DEF s
  <2> QED
    BY <1>2, EvictProperties
<1>5. ASSUME NEW i \in DOMAIN records'
      PROVE  \/ \E k \in DOMAIN records : records'[i] = records[k]
             \/ records'[i] = new
  <2> HIDE DEF s
  <2>1. i \in 1..n
    BY <1>3, <1>4
  <2>2. Len(records) \in Nat /\ DOMAIN records = 1..Len(records)
    BY DEF TypeOK
  <2>3. Len(s) \in Nat /\ n \in Nat /\ n <= Len(s)
    BY <1>2, <2>2, SizeAssumption
  <2>4. Len(s) - n + i \in 1..Len(s)
    BY <2>1, <2>3
  <2>5. \/ Len(s) - n + i \in 1..Len(records)
        \/ Len(s) - n + i = Len(records) + 1
    BY <1>2, <2>2, <2>4
  <2>6. records'[i] = s[Len(s) - n + i]
    BY <1>3, <1>4, <2>1
  <2> HIDE DEF n
  <2> QED
    BY <1>2, <2>2, <2>5, <2>6
<1>6. Answered' \subseteq Answered
  <2> SUFFICES ASSUME NEW p \in Ids \X Agents, NEW i \in DOMAIN records',
                      records'[i].id = p[1],
                      p[2] \in DOMAIN records'[i].results
               PROVE  p \in Answered
    BY DEF Answered
  <2>1. records'[i] # new
    BY <1>1
  <2>2. PICK k \in DOMAIN records : records'[i] = records[k]
    BY <1>5, <2>1
  <2> QED
    BY <2>2 DEF Answered
<1> QED
  BY <1>3, <1>4, <1>5, <1>6 DEF new

(* Storing an answer shows at most its request and agent.                  *)
LEMMA StoreRecords ==
    ASSUME TypeOK, NEW j \in Jobs, Store(j[1], Agent(j))
    PROVE  /\ records' \in Seq(Record)
           /\ DOMAIN records' = DOMAIN records
           /\ \A i \in DOMAIN records : records'[i].id = records[i].id
                  /\ records'[i].targets = records[i].targets
           /\ \/ Answered' = Answered
              \/ Answered' = Answered \cup {ResultOf(j)}
<1> DEFINE id == j[1]
           a == j[3]
<1>1. id \in Ids /\ a \in Agents /\ ResultOf(j) = <<id, a>> /\ Agent(j) = a
  BY DEF Jobs, ResultOf, Agent
<1>2. ASSUME NEW i \in DOMAIN records
      PROVE  /\ records'[i] \in Record
             /\ records'[i].id = records[i].id
             /\ records'[i].targets = records[i].targets
             /\ DOMAIN records'[i].results =
                    IF records[i].id = id
                    THEN DOMAIN records[i].results \cup {a}
                    ELSE DOMAIN records[i].results
  <2>1. records[i] \in Record
    BY DEF TypeOK
  <2>2. /\ Answer(records[i], a, TRUE) \in Record
        /\ Answer(records[i], a, TRUE).id = records[i].id
        /\ Answer(records[i], a, TRUE).targets = records[i].targets
        /\ DOMAIN Answer(records[i], a, TRUE).results
             = DOMAIN records[i].results \cup {a}
    BY <1>1, <2>1, AnswerType
  <2> QED
    BY <1>1, <2>1, <2>2 DEF Store
<1>3. DOMAIN records = 1..Len(records) /\ Len(records) \in Nat
  BY DEF TypeOK
<1>4. DOMAIN records' = DOMAIN records
  BY DEF Store
<1>5. records' \in Seq(Record)
  <2>1. records' = [i \in 1..Len(records) |-> records'[i]]
    BY <1>3 DEF Store
  <2>2. \A i \in 1..Len(records) : records'[i] \in Record
    BY <1>2, <1>3
  <2>3. records' \in [1..Len(records) -> Record]
    BY <2>1, <2>2
  <2> QED
    BY <1>3, <2>3
<1>6. ASSUME NEW p \in Ids \X Agents
      PROVE  p \in Answered' <=>
                 \/ p \in Answered
                 \/ p = <<id, a>> /\ \E i \in DOMAIN records : records[i].id = id
  <2>1. p = <<p[1], p[2]>>
    OBVIOUS
  <2>2. p \in Answered' <=> \E i \in DOMAIN records :
            records'[i].id = p[1] /\ p[2] \in DOMAIN records'[i].results
    BY <1>4 DEF Answered
  <2>3. p \in Answered' <=> \E i \in DOMAIN records :
            /\ records[i].id = p[1]
            /\ \/ p[2] \in DOMAIN records[i].results
               \/ records[i].id = id /\ p[2] = a
    BY <1>2, <2>2
  <2> QED
    BY <2>1, <2>3 DEF Answered
<1>7. /\ Answered \subseteq Ids \X Agents /\ Answered' \subseteq Ids \X Agents
      /\ <<id, a>> \in Ids \X Agents
  BY <1>1 DEF Answered
<1> HIDE DEF id, a
<1>8. \/ Answered' = Answered
      \/ Answered' = Answered \cup {<<id, a>>}
  BY <1>6, <1>7
<1> QED
  BY <1>1, <1>2, <1>4, <1>5, <1>8

-----------------------------------------------------------------------------
(* Type correctness.                                                       *)

LEMMA TypeStep == TypeOK /\ [Next]_flowVars => TypeOK'
<1> SUFFICES ASSUME TypeOK, [Next]_flowVars PROVE TypeOK'
  OBVIOUS
<1> USE DEF TypeOK, histVars, pathVars, jobVars, pastVars, Ways
<1>1. ASSUME NEW targets \in TargetLists, BatchExec(targets) PROVE TypeOK'
  <2>1. records' \in Seq(Record)
    BY <1>1, BatchExecRecords
  <2>2. added' \in Ids
    BY <1>1, BoundAssumption DEF BatchExec, Ids
  <2>3. Entries(added', targets) \subseteq Jobs
    BY <2>2, EntriesAreJobs
  <2> QED
    BY <1>1, <2>1, <2>2, <2>3, BoundAssumption DEF BatchExec, Ids
<1>2. ASSUME NEW j \in Jobs, Send(j) PROVE TypeOK'
  BY <1>2 DEF Send
<1>3. ASSUME NEW j \in Jobs, Route(j) PROVE TypeOK'
  BY <1>3 DEF Route
<1>4. ASSUME NEW j \in Jobs, Receive(j) PROVE TypeOK'
  BY <1>4 DEF Receive
<1>5. ASSUME NEW j \in Jobs, Finish(j) PROVE TypeOK'
  BY <1>5 DEF Finish
<1>6. ASSUME NEW j \in Jobs, Forward(j) PROVE TypeOK'
  BY <1>6 DEF Forward
<1>7. ASSUME NEW j \in Jobs, TakeAnswer(j) PROVE TypeOK'
  <2>1. records' \in Seq(Record)
    BY <1>7, StoreRecords DEF TakeAnswer
  <2> QED
    BY <1>7, <2>1 DEF TakeAnswer
<1>8. CASE BroadcastDone \/ DashboardStalls \/ DashboardResumes
  BY <1>8 DEF BroadcastDone, DashboardStalls, DashboardResumes
<1>9. CASE LinkChanges
  BY <1>9 DEF LinkChanges
<1>10. ASSUME NEW a \in Agents, AgentLinkChanges(a) PROVE TypeOK'
  BY <1>10 DEF AgentLinkChanges, Of
<1>11. ASSUME NEW a \in Agents, AgentRestart(a) PROVE TypeOK'
  BY <1>11 DEF AgentRestart, Of
<1>12. CASE GatewayRestart
  BY <1>12 DEF GatewayRestart
<1>13. CASE MasterRestart
  BY <1>13, BoundAssumption DEF MasterRestart
<1>14. CASE UNCHANGED flowVars
  BY <1>14 DEF flowVars
<1> QED
  BY <1>1, <1>2, <1>3, <1>4, <1>5, <1>6, <1>7, <1>8, <1>9, <1>10, <1>11,
     <1>12, <1>13, <1>14 DEF Next

(* The flow of requests and answers is always well typed.                  *)
THEOREM TypeCorrect == Spec => []TypeOK
<1>1. Init => TypeOK
  BY BoundAssumption DEF Init, TypeOK, Ways
<1>2. QED
  BY <1>1, TypeStep, PTL DEF Spec

-----------------------------------------------------------------------------
(* The inductive invariant: where a job can be, by its past.  A job is in  *)
(* one place at a time until its script is started, which is why losing    *)
(* and delaying messages never starts it twice; and an answer exists only  *)
(* of a script that has ended.                                             *)

NumberedInv ==
    /\ \A j \in asked : j[1] <= added
    /\ \A j, k \in asked : j[1] = k[1] /\ j[2] = k[2] => j = k

NotStarted(j) == j \in asked /\ starts[j] = 0

WaitingInv ==
    /\ \A j \in Jobs : j \in unsent =>
           NotStarted(j) /\ j \notin down /\ j \notin inbox
    /\ \A j \in Jobs : j \in down => NotStarted(j) /\ j \notin inbox
    /\ \A j \in Jobs : j \in inbox => NotStarted(j)

StartedInv ==
    /\ \A j \in Jobs : starts[j] = 0 \/ (starts[j] = 1 /\ j \in asked)
    /\ \A j \in Jobs : j \in running => starts[j] = 1 /\ j \notin ended
    /\ \A j \in Jobs : j \in ended => starts[j] = 1

AnswerInv ==
    /\ \A j \in Jobs : j \in outbox \/ j \in up => j \in ended
    /\ \A p \in Answered : \E j \in ended : ResultOf(j) = p

PastInv == NumberedInv /\ WaitingInv /\ StartedInv /\ AnswerInv

(* A step that starts nothing and moves messages only to where they were,  *)
(* or drops them, keeps the invariant.                                     *)
LEMMA LossKeepsPast ==
    ASSUME PastInv, TypeOK,
           added' = added, asked' = asked, starts' = starts, ended' = ended,
           unsent' \subseteq unsent,
           down' \subseteq down, inbox' \subseteq inbox,
           running' \subseteq running, outbox' \subseteq outbox, up' \subseteq up,
           Answered' \subseteq Answered
    PROVE  PastInv'
<1>1. NumberedInv'
  BY DEF PastInv, NumberedInv
<1>2. WaitingInv'
  BY DEF PastInv, WaitingInv, NotStarted
<1>3. StartedInv'
  BY DEF PastInv, StartedInv
<1>4. AnswerInv'
  BY DEF PastInv, AnswerInv
<1> QED
  BY <1>1, <1>2, <1>3, <1>4 DEF PastInv

(* The history shows the same as long as its records are the same.         *)
LEMMA SameAnswers == records' = records => Answered' = Answered
BY DEF Answered

LEMMA BatchExecPast ==
    ASSUME TypeOK, PastInv, NEW targets \in TargetLists, BatchExec(targets)
    PROVE  PastInv'
<1> DEFINE J == Entries(added', targets)
<1>1. Answered' \subseteq Answered
  BY BatchExecRecords
<1>2. added \in Nat /\ added' = added + 1 /\ added' \in Ids
  BY BoundAssumption DEF BatchExec, TypeOK, Ids
<1>3. /\ J \subseteq Jobs
      /\ \A j \in J : j[1] = added' /\ j[2] \in DOMAIN targets /\ j[3] = targets[j[2]]
  BY <1>2, EntriesAreJobs
<1>4. /\ asked' = asked \cup J /\ unsent' = unsent \cup J
      /\ UNCHANGED <<down, inbox, running, outbox, up, starts, ended>>
  BY DEF BatchExec
<1> HIDE DEF J
<1>5. \A j \in Jobs : j = <<j[1], j[2], j[3]>> /\ j[1] \in Nat
  BY DEF Jobs, Ids
<1>6. asked \subseteq Jobs
  BY DEF TypeOK
<1>7. \A j \in J : j \notin asked
  BY <1>2, <1>3 DEF PastInv, NumberedInv
<1>8. NumberedInv'
  <2>1. ASSUME NEW j \in asked' PROVE j[1] <= added'
    <3>1. CASE j \in asked
      <4>1. j[1] <= added /\ j[1] \in Nat
        BY <1>5, <1>6, <3>1 DEF PastInv, NumberedInv
      <4> QED
        BY <1>2, <4>1
    <3>2. CASE j \in J
      BY <1>2, <1>3, <3>2
    <3> QED
      BY <1>4, <2>1, <3>1, <3>2
  <2>2. ASSUME NEW j \in asked', NEW k \in asked', j[1] = k[1], j[2] = k[2]
        PROVE  j = k
    <3>1. j \in Jobs /\ k \in Jobs
      BY <1>3, <1>4, <1>6
    <3>2. CASE j \in J /\ k \in J
      BY <1>3, <1>5, <2>2, <3>1, <3>2
    <3>3. CASE j \in asked /\ k \in asked
      BY <2>2, <3>3 DEF PastInv, NumberedInv
    <3>4. \A l \in J, m \in asked : l[1] # m[1]
      BY <1>2, <1>3 DEF PastInv, NumberedInv
    <3> QED
      BY <1>4, <2>2, <3>2, <3>3, <3>4
  <2> QED
    BY <2>1, <2>2 DEF NumberedInv
<1>9. WaitingInv'
  <2>1. \A j \in J : starts[j] = 0 /\ j \notin down /\ j \notin inbox
    BY <1>3, <1>7 DEF PastInv, WaitingInv, StartedInv, NotStarted
  <2>2. \A j \in Jobs : j \in unsent' =>
            NotStarted(j)' /\ j \notin down' /\ j \notin inbox'
    BY <1>4, <2>1 DEF PastInv, WaitingInv, NotStarted
  <2>3. \A j \in Jobs : j \in down' => NotStarted(j)' /\ j \notin inbox'
    BY <1>4 DEF PastInv, WaitingInv, NotStarted
  <2>4. \A j \in Jobs : j \in inbox' => NotStarted(j)'
    BY <1>4 DEF PastInv, WaitingInv, NotStarted
  <2> QED
    BY <2>2, <2>3, <2>4 DEF WaitingInv
<1>10. StartedInv'
  BY <1>4 DEF PastInv, StartedInv
<1>11. AnswerInv'
  BY <1>1, <1>4 DEF PastInv, AnswerInv
<1> QED
  BY <1>8, <1>9, <1>10, <1>11 DEF PastInv

LEMMA SendPast ==
    ASSUME TypeOK, PastInv, NEW j \in Jobs, Send(j)
    PROVE  PastInv'
<1>1. /\ Answered' = Answered
      /\ UNCHANGED <<added, asked, starts, ended, inbox, running, outbox, up>>
  BY SameAnswers DEF Send, histVars, pastVars
<1>2. /\ j \in unsent /\ unsent' = unsent \ {j}
      /\ down' \subseteq down \cup {j}
  BY DEF Send, IsNext
<1>3. NotStarted(j) /\ j \notin inbox
  BY <1>2 DEF PastInv, WaitingInv
<1>4. WaitingInv'
  BY <1>1, <1>2, <1>3 DEF PastInv, WaitingInv, NotStarted
<1> QED
  BY <1>1, <1>4 DEF PastInv, NumberedInv, StartedInv, AnswerInv

LEMMA RoutePast ==
    ASSUME TypeOK, PastInv, NEW j \in Jobs, Route(j)
    PROVE  PastInv'
<1>1. /\ Answered' = Answered
      /\ UNCHANGED <<unsent, added, asked, starts, ended, running, outbox, up>>
  BY SameAnswers DEF Route, histVars, pastVars
<1>2. down' = down \ {j} /\ inbox' \subseteq inbox \cup {j}
  BY DEF Route
<1>3. WaitingInv'
  BY <1>1, <1>2 DEF PastInv, WaitingInv, NotStarted, Route
<1> QED
  BY <1>1, <1>3 DEF PastInv, NumberedInv, StartedInv, AnswerInv

LEMMA ReceivePast ==
    ASSUME TypeOK, PastInv, NEW j \in Jobs, Receive(j)
    PROVE  PastInv'
<1>1. /\ Answered' = Answered
      /\ UNCHANGED <<unsent, added, asked, ended, down, outbox, up>>
  BY SameAnswers DEF Receive, histVars
<1>2. /\ inbox' = inbox \ {j}
      /\ running' = running \cup {j}
      /\ starts' \in [Jobs -> Nat]
      /\ \A k \in Jobs : starts'[k] = IF k = j THEN starts[j] + 1 ELSE starts[k]
  BY DEF Receive, TypeOK
<1>3. /\ j \in asked /\ starts[j] = 0
      /\ j \notin down /\ j \notin ended /\ j \notin running
      /\ j \notin unsent
  BY DEF PastInv, WaitingInv, StartedInv, NotStarted, Receive
<1>5. WaitingInv'
  BY <1>1, <1>2, <1>3 DEF PastInv, WaitingInv, NotStarted
<1>6. StartedInv'
  BY <1>1, <1>2, <1>3 DEF PastInv, StartedInv
<1> QED
  BY <1>1, <1>5, <1>6 DEF PastInv, NumberedInv, AnswerInv

LEMMA FinishPast ==
    ASSUME TypeOK, PastInv, NEW j \in Jobs, Finish(j)
    PROVE  PastInv'
<1>1. /\ Answered' = Answered
      /\ UNCHANGED <<unsent, added, asked, starts, down, inbox, up>>
  BY SameAnswers DEF Finish, histVars
<1>2. /\ running' = running \ {j} /\ ended' = ended \cup {j}
      /\ outbox' \subseteq outbox \cup {j}
      /\ starts[j] = 1
  BY DEF Finish, PastInv, StartedInv
<1>3. WaitingInv'
  BY <1>1 DEF PastInv, WaitingInv, NotStarted
<1>4. StartedInv' /\ AnswerInv'
  BY <1>1, <1>2 DEF PastInv, StartedInv, AnswerInv
<1> QED
  BY <1>1, <1>3, <1>4 DEF PastInv, NumberedInv

LEMMA ForwardPast ==
    ASSUME TypeOK, PastInv, NEW j \in Jobs, Forward(j)
    PROVE  PastInv'
<1>1. /\ Answered' = Answered
      /\ UNCHANGED <<unsent, added, asked, starts, ended, down, inbox, running>>
  BY SameAnswers DEF Forward, histVars, pastVars
<1>2. j \in outbox /\ outbox' = outbox \ {j} /\ up' \subseteq up \cup {j}
  BY DEF Forward
<1> QED
  BY <1>1, <1>2 DEF PastInv, NumberedInv, WaitingInv, NotStarted, StartedInv,
                    AnswerInv

LEMMA TakeAnswerPast ==
    ASSUME TypeOK, PastInv, NEW j \in Jobs, TakeAnswer(j)
    PROVE  PastInv'
<1>1. Answered' \subseteq Answered \cup {ResultOf(j)}
  BY StoreRecords DEF TakeAnswer
<1>2. j \in up /\ up' = up \ {j}
      /\ UNCHANGED <<unsent, added, asked, starts, ended, down, inbox, running,
                     outbox>>
  BY DEF TakeAnswer, pastVars
<1> QED
  BY <1>1, <1>2 DEF PastInv, NumberedInv, WaitingInv, NotStarted, StartedInv,
                    AnswerInv

LEMMA PastStep == TypeOK /\ PastInv /\ [Next]_flowVars => PastInv'
<1> SUFFICES ASSUME TypeOK, PastInv, [Next]_flowVars PROVE PastInv'
  OBVIOUS
<1> USE DEF histVars, pathVars, jobVars, pastVars
<1>1. ASSUME NEW targets \in TargetLists, BatchExec(targets) PROVE PastInv'
  BY <1>1, BatchExecPast
<1>2. ASSUME NEW j \in Jobs, Send(j) PROVE PastInv'
  BY <1>2, SendPast
<1>3. ASSUME NEW j \in Jobs,
             Route(j) \/ Receive(j) \/ Finish(j) \/ Forward(j) \/ TakeAnswer(j)
      PROVE  PastInv'
  BY <1>3, RoutePast, ReceivePast, FinishPast, ForwardPast, TakeAnswerPast
<1>4. CASE BroadcastDone \/ DashboardStalls \/ DashboardResumes
  BY <1>4, LossKeepsPast, SameAnswers
     DEF BroadcastDone, DashboardStalls, DashboardResumes
<1>5. CASE LinkChanges
  BY <1>5, LossKeepsPast, SameAnswers DEF LinkChanges
<1>6. ASSUME NEW a \in Agents, AgentLinkChanges(a) PROVE PastInv'
  BY <1>6, LossKeepsPast, SameAnswers DEF AgentLinkChanges
<1>7. ASSUME NEW a \in Agents, AgentRestart(a) PROVE PastInv'
  BY <1>7, LossKeepsPast, SameAnswers DEF AgentRestart
<1>8. CASE GatewayRestart
  BY <1>8, LossKeepsPast, SameAnswers DEF GatewayRestart
<1>9. CASE MasterRestart
  <2>1. Answered' = {}
    BY <1>9 DEF MasterRestart, Answered
  <2> QED
    BY <1>9, <2>1, LossKeepsPast DEF MasterRestart
<1>10. CASE UNCHANGED flowVars
  BY <1>10, LossKeepsPast, SameAnswers DEF flowVars
<1> QED
  BY <1>1, <1>2, <1>3, <1>4, <1>5, <1>6, <1>7, <1>8, <1>9, <1>10 DEF Next

LEMMA PastInit == Init => TypeOK /\ PastInv
<1> SUFFICES ASSUME Init PROVE TypeOK /\ PastInv
  OBVIOUS
<1>1. TypeOK
  BY BoundAssumption DEF Init, TypeOK, Ways
<1>2. Answered = {}
  BY DEF Init, Answered
<1> QED
  BY <1>1, <1>2 DEF Init, PastInv, NumberedInv, WaitingInv, StartedInv, AnswerInv

(* In every reachable state the past of a job says where it can be.        *)
LEMMA PastIsKept == Spec => [](TypeOK /\ PastInv)
BY PastInit, TypeStep, PastStep, PTL DEF Spec

-----------------------------------------------------------------------------
(* The flow implements ExecService.                                        *)

LEMMA PhaseOf ==
    ASSUME PastInv, NEW j \in Jobs
    PROVE  /\ Phase(j) = "ended" <=> j \in ended
           /\ Phase(j) = "running" <=> starts[j] = 1 /\ j \notin ended
           /\ Phase(j) = "asked" <=> j \in asked /\ starts[j] = 0
           /\ Phase(j) = "unasked" <=> j \notin asked
BY DEF PastInv, StartedInv, Phase

(* A step that changes no job's past and shows nothing new is one that     *)
(* forgets, or none.                                                       *)
LEMMA ForgetStep ==
    ASSUME UNCHANGED pastVars, Answered' \subseteq Answered
    PROVE  S!Next
<1>1. \A j \in Jobs : Phase(j)' = Phase(j)
  BY DEF pastVars, Phase
<1> QED
  BY <1>1 DEF S!Next, S!Forget

LEMMA ServiceStep ==
    TypeOK /\ PastInv /\ PastInv' /\ [Next]_flowVars => [S!Next]_(S!serviceVars)
<1> SUFFICES ASSUME TypeOK, PastInv, PastInv', [Next]_flowVars
             PROVE  S!Next
  OBVIOUS
<1> USE DEF histVars, pathVars, jobVars
<1>1. ASSUME NEW targets \in TargetLists, BatchExec(targets) PROVE S!Next
  <2> DEFINE J == Entries(added', targets)
  <2>1. Answered' \subseteq Answered
    BY <1>1, BatchExecRecords
  <2>2. added' = added + 1 /\ added \in Nat /\ added' \in Ids
    BY <1>1, BoundAssumption DEF BatchExec, TypeOK, Ids
  <2>3. J \in SUBSET Jobs /\ \A j \in J : j[1] = added'
    BY <2>2, EntriesAreJobs
  <2>4. \A j \in J : j \notin asked
    <3> SUFFICES ASSUME NEW j \in J, j \in asked PROVE FALSE
      OBVIOUS
    <3>1. j[1] = added + 1 /\ j[1] <= added
      BY <2>2, <2>3 DEF PastInv, NumberedInv
    <3> QED
      BY <2>2, <3>1
  <2>5. \A j \in J : Phase(j) = "unasked"
    BY <2>3, <2>4, PhaseOf
  <2>6. /\ asked' = asked \cup J /\ starts' = starts /\ ended' = ended
    BY <1>1 DEF BatchExec
  <2>7. ASSUME NEW j \in Jobs
        PROVE  Phase(j)' = IF j \in J THEN "asked" ELSE Phase(j)
    <3> HIDE DEF J
    <3>1. CASE j \in J
      <4>1. starts[j] = 0
        BY <2>4, <3>1 DEF PastInv, StartedInv
      <4> QED
        BY <2>6, <3>1, <4>1 DEF Phase
    <3>2. CASE j \notin J
      <4>1. j \in asked' <=> j \in asked
        BY <2>6, <3>2
      <4> QED
        BY <2>6, <3>2, <4>1 DEF Phase
    <3> QED
      BY <3>1, <3>2
  <2>8. S!Ask(J) /\ S!Forget
    <3> HIDE DEF J
    <3> QED
      BY <2>1, <2>3, <2>5, <2>7 DEF S!Ask, S!Advance, S!Forget
  <2> QED
    BY <2>3, <2>8 DEF S!Next
<1>2. ASSUME NEW j \in Jobs, Send(j) PROVE S!Next
  BY <1>2, SameAnswers, ForgetStep DEF Send
<1>3. ASSUME NEW j \in Jobs, Route(j) \/ Forward(j) PROVE S!Next
  BY <1>3, SameAnswers, ForgetStep DEF Route, Forward
<1>4. ASSUME NEW j \in Jobs, Receive(j) PROVE S!Next
  <2>1. Phase(j) = "asked"
    BY <1>4, PhaseOf DEF Receive, PastInv, WaitingInv, NotStarted
  <2>2. /\ asked' = asked /\ ended' = ended /\ records' = records
        /\ \A k \in Jobs : starts'[k] = IF k = j THEN starts[j] + 1 ELSE starts[k]
    <3>1. /\ starts \in [Jobs -> Nat]
          /\ starts' = [starts EXCEPT ![j] = starts[j] + 1]
      BY <1>4 DEF Receive, TypeOK
    <3> QED
      BY <1>4, <3>1 DEF Receive
  <2>3. starts[j] = 0 /\ j \notin ended
    BY <2>1, PhaseOf DEF PastInv, StartedInv
  <2>4. ASSUME NEW k \in Jobs
        PROVE  Phase(k)' = IF k = j THEN "running" ELSE Phase(k)
    <3>1. CASE k = j
      <4>1. starts'[k] = 1 /\ k \notin ended'
        BY <2>2, <2>3, <3>1
      <4> QED
        BY <3>1, <4>1 DEF Phase
    <3>2. CASE k # j
      BY <2>2, <3>2 DEF Phase
    <3> QED
      BY <3>1, <3>2
  <2>5. S!Start(j)
    BY <2>1, <2>2, <2>4, SameAnswers DEF S!Start, S!Advance
  <2> QED
    BY <2>5 DEF S!Next
<1>5. ASSUME NEW j \in Jobs, Finish(j) PROVE S!Next
  <2>1. Phase(j) = "running" /\ starts[j] = 1
    BY <1>5, PhaseOf DEF Finish, PastInv, StartedInv
  <2>2. asked' = asked /\ ended' = ended \cup {j} /\ records' = records
        /\ starts' = starts
    BY <1>5 DEF Finish
  <2>3. \A k \in Jobs : Phase(k)' = IF k = j THEN "ended" ELSE Phase(k)
    BY <2>1, <2>2 DEF Phase
  <2>4. S!End(j)
    BY <2>1, <2>2, <2>3, SameAnswers DEF S!End, S!Advance
  <2> QED
    BY <2>4 DEF S!Next
<1>6. ASSUME NEW j \in Jobs, TakeAnswer(j) PROVE S!Next
  <2>1. Answered' = Answered \/ Answered' = Answered \cup {ResultOf(j)}
    BY <1>6, StoreRecords DEF TakeAnswer
  <2>2. UNCHANGED pastVars /\ j \in ended
    BY <1>6 DEF TakeAnswer, PastInv, AnswerInv
  <2>3. \A k \in Jobs : Phase(k)' = Phase(k)
    BY <2>2 DEF pastVars, Phase
  <2>4. CASE Answered' = Answered
    BY <2>2, <2>4, ForgetStep
  <2>5. CASE Answered' = Answered \cup {ResultOf(j)}
    <3>1. S!Show(j)
      BY <2>2, <2>3, <2>5, PhaseOf DEF S!Show, ResultOf
    <3> QED
      BY <3>1 DEF S!Next
  <2> QED
    BY <2>1, <2>4, <2>5
<1>7. CASE BroadcastDone \/ DashboardStalls \/ DashboardResumes
  BY <1>7, SameAnswers, ForgetStep
     DEF BroadcastDone, DashboardStalls, DashboardResumes
<1>8. CASE LinkChanges \/ GatewayRestart
  BY <1>8, SameAnswers, ForgetStep DEF LinkChanges, GatewayRestart
<1>9. ASSUME NEW a \in Agents, AgentLinkChanges(a) \/ AgentRestart(a)
      PROVE  S!Next
  BY <1>9, SameAnswers, ForgetStep DEF AgentLinkChanges, AgentRestart
<1>10. CASE MasterRestart
  <2>1. Answered' = {}
    BY <1>10 DEF MasterRestart, Answered
  <2> QED
    BY <1>10, <2>1, ForgetStep DEF MasterRestart
<1>11. CASE UNCHANGED flowVars
  BY <1>11, SameAnswers, ForgetStep DEF flowVars, pastVars
<1> QED
  BY <1>1, <1>2, <1>3, <1>4, <1>5, <1>6, <1>7, <1>8, <1>9, <1>10, <1>11 DEF Next

(* No message, whatever is lost, delayed or restarted, starts a script     *)
(* twice for one entry of a request's list, or on a machine that is not    *)
(* the entry's, and no result is shown of a script that has not ended      *)
(* there: the system implements ExecService.                               *)
THEOREM FlowImplementsService == Spec => Service
<1>1. Init => S!Init
  <2> SUFFICES ASSUME Init PROVE S!Init
    OBVIOUS
  <2>1. Answered = {}
    BY DEF Init, Answered
  <2>2. \A j \in Jobs : Phase(j) = "unasked"
    BY DEF Init, Phase
  <2> QED
    BY <2>1, <2>2 DEF S!Init
<1>2. QED
  BY <1>1, PastIsKept, ServiceStep, PTL DEF Spec, Service, S!Spec

-----------------------------------------------------------------------------
(* The flow implements ExecHistory.                                        *)

(* A record names every agent that was asked to run its script, so every   *)
(* answer comes from an agent that the record names.                       *)
TargetsInv ==
    \A i \in DOMAIN records :
        /\ records[i].id <= added
        /\ \A j \in asked : j[1] = records[i].id => j[3] \in Named(records[i].targets)

LEMMA SameRecordsTargets ==
    ASSUME TargetsInv, UNCHANGED <<records, added, asked>>
    PROVE  TargetsInv'
BY DEF TargetsInv

LEMMA TargetsStep ==
    TypeOK /\ PastInv /\ TargetsInv /\ [Next]_flowVars => TargetsInv'
<1> SUFFICES ASSUME TypeOK, PastInv, TargetsInv, [Next]_flowVars
             PROVE  TargetsInv'
  OBVIOUS
<1> USE DEF histVars, pathVars, jobVars, pastVars
<1>1. ASSUME NEW targets \in TargetLists, BatchExec(targets) PROVE TargetsInv'
  <2> SUFFICES ASSUME NEW i \in DOMAIN records'
               PROVE  /\ records'[i].id <= added'
                      /\ \A j \in asked' : j[1] = records'[i].id
                                              => j[3] \in Named(records'[i].targets)
    BY DEF TargetsInv
  <2>1. added \in Nat /\ added' = added + 1 /\ added' \in Ids
    BY <1>1, BoundAssumption DEF BatchExec, TypeOK, Ids
  <2>2. /\ asked' = asked \cup Entries(added', targets)
        /\ \A j \in Entries(added', targets) : j[1] = added' /\ j[3] \in Named(targets)
    BY <1>1, <2>1, EntriesAreJobs DEF BatchExec
  <2>3. ASSUME NEW k \in DOMAIN records, records'[i] = records[k]
        PROVE  /\ records'[i].id <= added'
               /\ \A j \in asked' : j[1] = records'[i].id
                                       => j[3] \in Named(records'[i].targets)
    <3>1. records[k] \in Record
      BY DEF TypeOK
    <3>2. records[k].id \in Nat /\ records[k].id <= added
      BY <3>1 DEF Record, TargetsInv
    <3>3. records[k].id # added' /\ records[k].id <= added'
      BY <2>1, <3>2
    <3>4. \A j \in asked' : j[1] = records[k].id => j \in asked
      BY <2>2, <3>3
    <3> QED
      BY <2>3, <3>3, <3>4 DEF TargetsInv
  <2>4. ASSUME records'[i] = NewRecord(added', targets)
        PROVE  /\ records'[i].id <= added'
               /\ \A j \in asked' : j[1] = records'[i].id
                                       => j[3] \in Named(records'[i].targets)
    <3>1. records'[i].id = added' /\ records'[i].targets = targets
      BY <2>4 DEF NewRecord
    <3>2. \A j \in asked : j[1] # added'
      BY <2>1 DEF PastInv, NumberedInv
    <3> QED
      BY <2>1, <2>2, <3>1, <3>2
  <2> QED
    BY <1>1, <2>3, <2>4, BatchExecRecords
<1>2. ASSUME NEW j \in Jobs, TakeAnswer(j) PROVE TargetsInv'
  <2>1. added' = added /\ asked' = asked /\ Store(j[1], Agent(j))
    BY <1>2 DEF TakeAnswer
  <2>2. DOMAIN records' = DOMAIN records
        /\ \A i \in DOMAIN records : records'[i].id = records[i].id
                                      /\ records'[i].targets = records[i].targets
    BY <2>1, StoreRecords
  <2> QED
    BY <2>1, <2>2 DEF TargetsInv
<1>3. CASE MasterRestart
  <2>1. DOMAIN records' = {}
    BY <1>3 DEF MasterRestart
  <2> QED
    BY <2>1 DEF TargetsInv
<1>4. CASE UNCHANGED <<records, added, asked>>
  BY <1>4, SameRecordsTargets
<1> QED
  BY <1>1, <1>2, <1>3, <1>4
     DEF Next, Send, Route, Receive, Finish, Forward, BroadcastDone, LinkChanges,
         AgentLinkChanges, AgentRestart, DashboardStalls, DashboardResumes,
         GatewayRestart, flowVars

LEMMA HistoryStep ==
    TypeOK /\ PastInv /\ TargetsInv /\ [Next]_flowVars
        => [H!Next]_(H!histVars)
<1> SUFFICES ASSUME TypeOK, PastInv, TargetsInv, [Next]_flowVars
             PROVE  H!Next \/ UNCHANGED <<records, added, booted>>
  BY DEF H!histVars
<1> USE DEF histVars, pathVars, jobVars, pastVars
<1>1. ASSUME NEW targets \in TargetLists, BatchExec(targets) PROVE H!Next
  <2>1. H!Add(targets)
    BY <1>1 DEF BatchExec, H!Add, H!Evict, H!NewRecord, Evict, NewRecord
  <2> QED
    BY <2>1 DEF H!Next
<1>2. ASSUME NEW j \in Jobs, TakeAnswer(j) PROVE H!Next
  <2> DEFINE id == j[1]
             a == Agent(j)
  <2>1. id \in Nat \ {0} /\ a \in Agents
    BY DEF Jobs, Ids, Agent
  <2>2. j \in asked
    BY <1>2 DEF TakeAnswer, PastInv, AnswerInv, StartedInv
  <2>3. id \in 1..added
    BY <2>1, <2>2, BoundAssumption DEF PastInv, NumberedInv, TypeOK
  <2>4. \A i \in DOMAIN records :
            records[i].id = id => a \in Named(records[i].targets)
    BY <2>1, <2>2 DEF TargetsInv, Agent
  <2>5. UNCHANGED <<added, booted>> /\ Store(id, a)
    BY <1>2 DEF TakeAnswer
  <2>6. H!UpdateResult(id, a)
    BY <2>4, <2>5 DEF H!UpdateResult, Store, H!Answer, H!With, H!Named, Answer, With, Named
  <2> HIDE DEF id, a
  <2> QED
    BY <2>1, <2>3, <2>6 DEF H!Next
<1>3. CASE MasterRestart
  <2>1. H!Restart
    BY <1>3 DEF MasterRestart, H!Restart, H!Idle
  <2> QED
    BY <2>1 DEF H!Next
<1>4. CASE UNCHANGED <<records, added, booted>>
  BY <1>4
<1> QED
  BY <1>1, <1>2, <1>3, <1>4
     DEF Next, Send, Route, Receive, Finish, Forward, BroadcastDone, LinkChanges,
         AgentLinkChanges, AgentRestart, DashboardStalls, DashboardResumes,
         GatewayRestart, flowVars

(* The system's history behaves as ExecHistory says, which supposes that   *)
(* answers come only from agents that the record names: the paths through  *)
(* gateway and agents see to that.                                         *)
THEOREM FlowImplementsHistory == Spec => History
<1>1. Init => H!Init /\ TargetsInv
  BY DEF Init, H!Init, H!Idle, TargetsInv
<1>2. QED
  BY <1>1, PastIsKept, TargetsStep, HistoryStep, PTL DEF Spec, History, H!Spec

-----------------------------------------------------------------------------
(* What is proved of the history by itself holds of the system's.          *)

LEMMA SameHistory ==
    /\ H!Init => HP!Init
    /\ [H!Next]_(H!histVars) => [HP!Next]_(HP!histVars)
    /\ HP!NewestWindow => H!NewestWindow
<1>1. /\ H!Init => HP!Init
      /\ HP!NewestWindow => H!NewestWindow
  BY DEF H!Init, H!Idle, HP!Init, HP!Idle, H!NewestWindow, HP!NewestWindow
<1>2. [H!Next]_(H!histVars) => [HP!Next]_(HP!histVars)
  <2>1. \A targets \in TargetLists : H!Add(targets) => HP!Add(targets)
    BY DEF H!Add, H!Evict, H!NewRecord, HP!Add, HP!Evict, HP!NewRecord
  <2>2. \A id \in 1..added, a \in Agents : H!UpdateResult(id, a) => HP!UpdateResult(id, a)
    BY DEF H!UpdateResult, H!Answer, H!With, H!Named,
           HP!UpdateResult, HP!Answer, HP!With, HP!Named
  <2>3. H!Restart => HP!Restart
    BY DEF H!Restart, H!Idle, HP!Restart, HP!Idle
  <2>4. \A id \in 1..added : H!FetchDetail(id) => HP!FetchDetail(id)
    BY DEF H!FetchDetail, H!IdsOf, HP!FetchDetail, HP!IdsOf
  <2>5. H!OpenHistory => HP!OpenHistory
    BY DEF H!OpenHistory, H!Idle, H!IdsOf, HP!OpenHistory, HP!Idle, HP!IdsOf
  <2>6. H!FetchPage \/ H!EncodeDone \/ H!CloseHistory
          => HP!FetchPage \/ HP!EncodeDone \/ HP!CloseHistory
    BY DEF H!FetchPage, H!List, H!EncodeDone, H!CloseHistory, H!Idle,
           HP!FetchPage, HP!List, HP!EncodeDone, HP!CloseHistory, HP!Idle
  <2>7. H!histVars = HP!histVars /\ (UNCHANGED H!histVars => UNCHANGED HP!histVars)
    BY DEF H!histVars, HP!histVars
  <2> QED
    BY <2>1, <2>2, <2>3, <2>4, <2>5, <2>6, <2>7 DEF H!Next, HP!Next
<1> QED
  BY <1>1, <1>2

LEMMA FlowIsHistory == Spec => HP!Spec
BY FlowImplementsHistory, SameHistory, PTL DEF History, H!Spec, HP!Spec

(* However scripts, answers and restarts interleave in the whole system,   *)
(* the master's history is the window of its newest requests.              *)
THEOREM FlowHistoryIsWindow == Spec => []H!NewestWindow
<1>1. HP!Spec => []HP!NewestWindow
  BY OnePage, HP!HistoryIsNewestWindow, SizeAssumption, ListsAssumption, BoundAssumption
<1> QED
  BY <1>1, FlowIsHistory, SameHistory, PTL

(* No message of the system takes an answer out of a record that stays.    *)
THEOREM FlowKeepsAnswers == Spec => H!AnswersAreKept
<1>1. HP!Spec => HP!AnswersAreKept
  BY OnePage, HP!AnswersKept, SizeAssumption, ListsAssumption, BoundAssumption
<1>2. HP!AnswersAreKept => H!AnswersAreKept
  BY DEF H!AnswersAreKept, HP!AnswersAreKept, H!histVars, HP!histVars
<1> QED
  BY <1>1, <1>2, FlowIsHistory, PTL

(* In every reachable state no script has been started without having been *)
(* asked for, or twice for one entry of a request's list; an entry stands  *)
(* for one machine, so a machine runs a script as often as the list names  *)
(* it and no oftener; and every result shown is of a request and a machine *)
(* for which a script has ended.                                           *)
THEOREM StartedOnce ==
    Spec => [](/\ \A j \in Jobs : starts[j] = 0 \/ (starts[j] = 1 /\ j \in asked)
               /\ \A j, k \in asked : j[1] = k[1] /\ j[2] = k[2] => j = k
               /\ \A p \in Answered : \E j \in ended : ResultOf(j) = p)
<1>1. PastInv => /\ \A j \in Jobs : starts[j] = 0 \/ (starts[j] = 1 /\ j \in asked)
                 /\ \A j, k \in asked : j[1] = k[1] /\ j[2] = k[2] => j = k
                 /\ \A p \in Answered : \E j \in ended : ResultOf(j) = p
  BY DEF PastInv, NumberedInv, StartedInv, AnswerInv
<1> QED
  BY <1>1, PastIsKept, PTL
=============================================================================
