-------------------------- MODULE ExecHistoryProofs --------------------------
(* Proofs about the script history, for every set of agents, every maximal *)
(* size and every number of requests.                                      *)
EXTENDS ExecHistory, SequenceTheorems, TLAPS

-----------------------------------------------------------------------------
(* What the operators on records return, for every size.                   *)

(* Evict keeps the last MaxSize elements of a sequence.                    *)
LEMMA EvictProperties ==
    ASSUME NEW S, NEW s \in Seq(S)
    PROVE  LET e == Evict(s)
               n == IF Len(s) > MaxSize THEN MaxSize ELSE Len(s)
           IN  /\ e \in Seq(S)
               /\ Len(e) = n
               /\ \A i \in 1..n : e[i] = s[Len(s) - n + i]
<1> USE SizeAssumption
<1>1. CASE Len(s) > MaxSize
  <2> DEFINE m == Len(s) - MaxSize + 1
  <2>1. m \in 1..Len(s) + 1 /\ Len(s) \in m-1..Len(s)
    BY <1>1
  <2>2. SubSeq(s, m, Len(s)) \in Seq(S)
    BY <1>1
  <2>3. Len(SubSeq(s, m, Len(s))) = MaxSize
    BY <1>1
  <2>4. \A i \in 1..MaxSize : SubSeq(s, m, Len(s))[i] = s[Len(s) - MaxSize + i]
    BY <1>1
  <2> QED
    BY <1>1, <2>2, <2>3, <2>4 DEF Evict
<1>2. CASE ~(Len(s) > MaxSize)
  BY <1>2 DEF Evict
<1> QED
  BY <1>1, <1>2

(* A result stored among others extends their domain by its agent.         *)
LEMMA WithType ==
    ASSUME NEW results \in Results, NEW agent \in Agents, NEW done \in BOOLEAN
    PROVE  /\ With(results, agent, done) \in Results
           /\ DOMAIN With(results, agent, done) = DOMAIN results \cup {agent}
<1>1. PICK S \in SUBSET Agents : results \in [S -> BOOLEAN]
  BY DEF Results
<1>2. With(results, agent, done) \in [S \cup {agent} -> BOOLEAN]
  BY <1>1 DEF With
<1>3. S \cup {agent} \in SUBSET Agents
  OBVIOUS
<1> QED
  BY <1>1, <1>2, <1>3 DEF Results, With

(* Taking a result keeps the record's identity and its targets.            *)
LEMMA AnswerType ==
    ASSUME NEW r \in Record, NEW agent \in Agents, NEW done \in BOOLEAN
    PROVE  /\ Answer(r, agent, done) \in Record
           /\ Answer(r, agent, done).id = r.id
           /\ Answer(r, agent, done).targets = r.targets
           /\ DOMAIN Answer(r, agent, done).results
                = DOMAIN r.results \cup {agent}
<1>1. With(r.results, agent, done) \in Results
  BY WithType DEF Record
<1>2. DOMAIN With(r.results, agent, done) = DOMAIN r.results \cup {agent}
  BY WithType DEF Record
<1> QED
  BY <1>1, <1>2 DEF Answer, Record

(* A new record is a record.                                               *)
LEMMA NewRecordType ==
    ASSUME NEW id \in Nat \ {0}, NEW targets \in Seq(Agents)
    PROVE  NewRecord(id, targets) \in Record
<1>1. [a \in {} |-> TRUE] \in [{} -> BOOLEAN]
  OBVIOUS
<1>2. [a \in {} |-> TRUE] \in Results
  BY <1>1 DEF Results
<1> QED
  BY <1>2 DEF NewRecord, Record

-----------------------------------------------------------------------------
(* Type correctness.                                                       *)

LEMMA IdsAreNumbers == TypeOK => IdsOf(records) \subseteq Nat
<1> SUFFICES ASSUME TypeOK, NEW i \in DOMAIN records
             PROVE  records[i].id \in Nat
  BY DEF IdsOf
<1>1. records[i] \in Record
  BY DEF TypeOK
<1> QED
  BY <1>1 DEF Record

LEMMA AddType ==
    ASSUME TypeOK, NEW targets \in TargetLists, Add(targets)
    PROVE  TypeOK'
<1>1. NewRecord(added', targets) \in Record
  BY NewRecordType, TargetAssumption DEF Add, TypeOK
<1>2. Append(records, NewRecord(added', targets)) \in Seq(Record)
  BY <1>1 DEF TypeOK
<1>3. records' \in Seq(Record)
  BY <1>2, EvictProperties DEF Add
<1> QED
  BY <1>3, ExecsAssumption DEF Add, TypeOK

LEMMA UpdateResultType ==
    ASSUME TypeOK, NEW id \in 1..added, NEW agent \in Agents,
           UpdateResult(id, agent)
    PROVE  /\ TypeOK'
           /\ Len(records') = Len(records)
           /\ \A i \in DOMAIN records : records'[i].id = records[i].id
<1>1. \A i \in DOMAIN records :
        /\ records'[i] \in Record
        /\ records'[i].id = records[i].id
  <2> SUFFICES ASSUME NEW i \in DOMAIN records
               PROVE  records'[i] \in Record /\ records'[i].id = records[i].id
    OBVIOUS
  <2>1. records[i] \in Record
    BY DEF TypeOK
  <2>2. Answer(records[i], agent, TRUE) \in Record
        /\ Answer(records[i], agent, TRUE).id = records[i].id
    BY <2>1, AnswerType
  <2> QED
    BY <2>1, <2>2 DEF UpdateResult
<1>2. DOMAIN records = 1..Len(records) /\ Len(records) \in Nat
  BY DEF TypeOK
<1>3. records' = [i \in 1..Len(records) |-> records'[i]]
  BY <1>2 DEF UpdateResult
<1>4. records' \in Seq(Record) /\ Len(records') = Len(records)
  BY <1>1, <1>2, <1>3
<1> QED
  BY <1>1, <1>4 DEF UpdateResult, TypeOK

LEMMA FetchPageType ==
    ASSUME TypeOK, FetchPage
    PROVE  TypeOK'
<1> DEFINE page == List(PageSize, client.offset)
           full == client.offset + PageSize <= Len(records)
<1>1. page \subseteq Nat
  BY IdsAreNumbers DEF List, IdsOf
<1>2. client' = [client EXCEPT
                   !.encoding = page,
                   !.seen = @ \cup page,
                   !.offset = IF full THEN @ + PageSize ELSE 0,
                   !.phase = IF full THEN "paging" ELSE "finished"]
  BY DEF FetchPage
<1>3. client' \in Client
  <2> HIDE DEF page
  <2>1. client \in Client
    BY DEF TypeOK
  <2>2. client.offset + PageSize \in Nat
    BY <2>1, PageAssumption DEF Client
  <2>3. CASE full
    <3>1. client' = [client EXCEPT !.encoding = page,
                                   !.seen = client.seen \cup page,
                                   !.offset = client.offset + PageSize,
                                   !.phase = "paging"]
      BY <1>2, <2>3
    <3> QED
      BY <1>1, <2>1, <2>2, <3>1 DEF Client
  <2>4. CASE ~full
    <3>1. client' = [client EXCEPT !.encoding = page,
                                   !.seen = client.seen \cup page,
                                   !.offset = 0,
                                   !.phase = "finished"]
      BY <1>2, <2>4
    <3> QED
      BY <1>1, <2>1, <3>1 DEF Client
  <2> QED
    BY <2>3, <2>4
<1> QED
  BY <1>3 DEF FetchPage, TypeOK

LEMMA TypeStep == TypeOK /\ [Next]_histVars => TypeOK'
<1> SUFFICES ASSUME TypeOK, [Next]_histVars PROVE TypeOK'
  OBVIOUS
<1>1. ASSUME NEW targets \in TargetLists, Add(targets) PROVE TypeOK'
  BY <1>1, AddType
<1>2. ASSUME NEW id \in 1..added, NEW agent \in Agents, UpdateResult(id, agent)
      PROVE  TypeOK'
  BY <1>2, UpdateResultType
<1>3. ASSUME NEW id \in 1..added, FetchDetail(id) PROVE TypeOK'
  BY <1>3 DEF FetchDetail, TypeOK, Client
<1>4. CASE OpenHistory
  <2>1. IdsOf(records) \subseteq Nat
    BY IdsAreNumbers
  <2> QED
    BY <1>4, <2>1 DEF OpenHistory, TypeOK, Client, Idle
<1>5. CASE FetchPage
  BY <1>5, FetchPageType
<1>6. CASE EncodeDone
  BY <1>6 DEF EncodeDone, TypeOK, Client
<1>7. CASE CloseHistory
  BY <1>7 DEF CloseHistory, TypeOK, Client, Idle
<1>8. CASE Restart
  BY <1>8 DEF Restart, TypeOK, Client, Idle
<1>9. CASE UNCHANGED histVars
  BY <1>9 DEF histVars, TypeOK
<1> QED
  BY <1>1, <1>2, <1>3, <1>4, <1>5, <1>6, <1>7, <1>8, <1>9 DEF Next

(* The history and its clients are always well typed.                      *)
THEOREM TypeCorrect == Spec => []TypeOK
<1>1. Init => TypeOK
  BY ExecsAssumption DEF Init, TypeOK, Client, Idle
<1>2. QED
  BY <1>1, TypeStep, PTL DEF Spec

-----------------------------------------------------------------------------
(* The window on the newest requests.                                      *)

LEMMA AddWindow ==
    ASSUME TypeOK, NewestWindow, NEW targets \in TargetLists, Add(targets)
    PROVE  NewestWindow'
<1> DEFINE s == Append(records, NewRecord(added + 1, targets))
           n == IF Len(s) > MaxSize THEN MaxSize ELSE Len(s)
<1> USE SizeAssumption
<1>1. NewRecord(added + 1, targets) \in Record
  BY NewRecordType, TargetAssumption DEF TypeOK
<1>2. /\ s \in Seq(Record)
      /\ Len(s) = Len(records) + 1
      /\ \A i \in 1..Len(records) : s[i] = records[i]
      /\ s[Len(records) + 1] = NewRecord(added + 1, targets)
  BY <1>1 DEF TypeOK
<1>3. records' = Evict(s) /\ added' = added + 1 /\ booted' = booted
  BY DEF Add
<1>4. /\ records' \in Seq(Record)
      /\ Len(records') = n
      /\ \A i \in 1..n : records'[i] = s[Len(s) - n + i]
  <2> HIDE DEF s
  <2> QED
    BY <1>2, <1>3, EvictProperties
<1>5. Len(records) = IF added - booted < MaxSize THEN added - booted ELSE MaxSize
  BY DEF NewestWindow
<1>6. added \in Nat /\ booted \in Nat /\ booted <= added /\ Len(records) \in Nat
  BY ExecsAssumption DEF TypeOK
<1>7. \A k \in 1..Len(s) : s[k].id = added - Len(records) + k
  <2> SUFFICES ASSUME NEW k \in 1..Len(s)
               PROVE  s[k].id = added - Len(records) + k
    OBVIOUS
  <2>1. CASE k \in 1..Len(records)
    <3> HIDE DEF s
    <3>1. s[k] = records[k]
      BY <1>2, <2>1
    <3>2. DOMAIN records = 1..Len(records)
      BY DEF TypeOK
    <3>3. records[k].id = added - Len(records) + k
      BY <2>1, <3>2 DEF NewestWindow
    <3> QED
      BY <3>1, <3>3
  <2>2. CASE k = Len(records) + 1
    <3> HIDE DEF s
    <3>1. s[k] = NewRecord(added + 1, targets)
      BY <1>2, <2>2
    <3>2. NewRecord(added + 1, targets).id = added + 1
      BY DEF NewRecord
    <3> QED
      BY <1>6, <2>2, <3>1, <3>2
  <2>3. k \in 1..Len(records) \/ k = Len(records) + 1
    <3> HIDE DEF s
    <3> QED
      BY <1>2, <1>6
  <2> QED
    BY <2>1, <2>2, <2>3
<1>8. Len(records') = IF added' - booted' < MaxSize THEN added' - booted'
                                                     ELSE MaxSize
  BY <1>2, <1>3, <1>4, <1>5, <1>6
<1>9. \A i \in 1..n : records'[i].id = added' - n + i
  <2> SUFFICES ASSUME NEW i \in 1..n PROVE records'[i].id = added' - n + i
    OBVIOUS
  <2> HIDE DEF s
  <2>0. Len(s) \in Nat /\ n \in Nat /\ n <= Len(s)
    BY <1>2, <1>6
  <2>1. Len(s) - n + i \in 1..Len(s)
    BY <2>0
  <2>2. records'[i].id = added - Len(records) + (Len(s) - n + i)
    BY <1>4, <1>7, <2>1
  <2> QED
    BY <1>2, <1>3, <1>6, <2>2
<1> QED
  BY <1>4, <1>8, <1>9 DEF NewestWindow

LEMMA WindowStep ==
    TypeOK /\ NewestWindow /\ [Next]_histVars => NewestWindow'
<1> SUFFICES ASSUME TypeOK, NewestWindow, [Next]_histVars PROVE NewestWindow'
  OBVIOUS
<1>1. ASSUME NEW targets \in TargetLists, Add(targets) PROVE NewestWindow'
  BY <1>1, AddWindow
<1>2. ASSUME NEW id \in 1..added, NEW agent \in Agents, UpdateResult(id, agent)
      PROVE  NewestWindow'
  <2>1. /\ Len(records') = Len(records)
        /\ DOMAIN records' = DOMAIN records
        /\ \A i \in DOMAIN records : records'[i].id = records[i].id
    BY <1>2, UpdateResultType DEF UpdateResult
  <2>2. added' = added /\ booted' = booted
    BY <1>2 DEF UpdateResult
  <2> QED
    BY <2>1, <2>2 DEF NewestWindow
<1>3. CASE Restart
  BY <1>3, SizeAssumption, ExecsAssumption DEF Restart, NewestWindow, TypeOK
<1>4. CASE UNCHANGED <<records, added, booted>>
  BY <1>4 DEF NewestWindow
<1> QED
  BY <1>1, <1>2, <1>3, <1>4
     DEF Next, FetchDetail, OpenHistory, FetchPage, EncodeDone, CloseHistory,
         histVars

(* At every moment the history holds the newest requests since the start   *)
(* of the master, as many as maxSize allows, in order and each once.       *)
THEOREM HistoryIsNewestWindow == Spec => []NewestWindow
<1>1. Init => NewestWindow
  BY SizeAssumption DEF Init, NewestWindow
<1>2. QED
  BY <1>1, TypeCorrect, WindowStep, PTL DEF Spec

-----------------------------------------------------------------------------
(* Where the records come from: after Add each is the new one, in the last *)
(* place, or an old one, one place further from the newest.                *)
LEMMA AddOrigin ==
    ASSUME TypeOK, NEW targets \in TargetLists, Add(targets),
           NEW j \in DOMAIN records'
    PROVE  \/ records'[j] = NewRecord(added + 1, targets) /\ j = Len(records')
           \/ \E i \in DOMAIN records :
                 records'[j] = records[i] /\ Len(records) - i + 1 = Len(records') - j
<1> DEFINE s == Append(records, NewRecord(added + 1, targets))
           n == IF Len(s) > MaxSize THEN MaxSize ELSE Len(s)
<1>1. NewRecord(added + 1, targets) \in Record
  BY NewRecordType, TargetAssumption DEF TypeOK
<1>2. /\ s \in Seq(Record)
      /\ Len(s) = Len(records) + 1
      /\ \A i \in 1..Len(records) : s[i] = records[i]
      /\ s[Len(records) + 1] = NewRecord(added + 1, targets)
      /\ DOMAIN records = 1..Len(records) /\ Len(records) \in Nat
  BY <1>1 DEF TypeOK
<1>3. records' = Evict(s)
  BY DEF Add
<1> HIDE DEF s
<1>4. /\ Len(records') = n /\ DOMAIN records' = 1..n
      /\ \A i \in 1..n : records'[i] = s[Len(s) - n + i]
  <2>1. /\ records' \in Seq(Record) /\ Len(records') = n
        /\ \A i \in 1..n : records'[i] = s[Len(s) - n + i]
    BY <1>2, <1>3, EvictProperties
  <2> HIDE DEF n
  <2> QED
    BY <2>1
<1>5. n \in Nat /\ n <= Len(s)
  BY <1>2, SizeAssumption
<1> HIDE DEF n
<1> DEFINE k == Len(s) - n + j
<1>6. k \in 1..Len(records) + 1 /\ records'[j] = s[k] /\ j \in 1..n
  BY <1>2, <1>4, <1>5
<1>7. CASE k = Len(records) + 1
  <2>1. j = n
    BY <1>2, <1>5, <1>6, <1>7
  <2> QED
    BY <1>2, <1>4, <1>6, <1>7, <2>1
<1>8. CASE k \in 1..Len(records)
  <2>1. records'[j] = records[k]
    BY <1>2, <1>6, <1>8
  <2>2. Len(records) - k + 1 = Len(records') - j
    BY <1>2, <1>4, <1>5, <1>6
  <2> HIDE DEF k
  <2> QED
    BY <1>2, <1>8, <2>1, <2>2
<1> QED
  BY <1>2, <1>6, <1>7, <1>8

(* After UpdateResult each is the one that was there, or that one with the *)
(* answer.                                                                 *)
LEMMA UpdateOrigin ==
    ASSUME TypeOK, NEW id \in 1..added, NEW agent \in Agents,
           UpdateResult(id, agent), NEW j \in DOMAIN records'
    PROVE  /\ j \in DOMAIN records /\ records[j] \in Record
           /\ records'[j] \in {records[j], Answer(records[j], agent, TRUE)}
BY DEF UpdateResult, TypeOK

-----------------------------------------------------------------------------
(* Nothing is lost while a record is kept.                                 *)

(* Ids tell the records of a window apart.                                 *)
LEMMA OneOfEachId ==
    ASSUME TypeOK, NewestWindow, NEW i \in DOMAIN records, NEW j \in DOMAIN records,
           records[i].id = records[j].id
    PROVE  i = j
<1>1. added \in Nat /\ Len(records) \in Nat /\ i \in Nat /\ j \in Nat
  BY ExecsAssumption DEF TypeOK
<1> QED
  BY <1>1 DEF NewestWindow

Keeps(r, q) ==
    /\ DOMAIN r.results \subseteq DOMAIN q.results
    /\ r.status = "completed" => q.status = "completed"

LEMMA AnswerKeeps ==
    ASSUME NEW r \in Record, NEW agent \in Agents
    PROVE  Keeps(r, Answer(r, agent, TRUE))
<1>1. DOMAIN Answer(r, agent, TRUE).results = DOMAIN r.results \cup {agent}
  BY AnswerType
<1>2. r.status = "completed" => Answer(r, agent, TRUE).status = "completed"
  <2> DEFINE w == With(r.results, agent, TRUE)
             st == IF \A a \in DOMAIN w : w[a] THEN "completed" ELSE r.status
  <2>1. Answer(r, agent, TRUE) = [r EXCEPT !.results = w, !.status = st]
    BY DEF Answer
  <2> HIDE DEF w
  <2>2. Answer(r, agent, TRUE).status = st
    BY <2>1 DEF Record
  <2> QED
    BY <2>2
<1> QED
  BY <1>1, <1>2 DEF Keeps

LEMMA KeepStep ==
    ASSUME TypeOK, NewestWindow, [Next]_histVars,
           NEW i \in DOMAIN records, NEW j \in DOMAIN records',
           records[i].id = records'[j].id
    PROVE  Keeps(records[i], records'[j])
<1>1. ASSUME NEW targets \in TargetLists, Add(targets)
      PROVE  Keeps(records[i], records'[j])
  <2>1. records[i].id <= added
    BY ExecsAssumption DEF TypeOK, NewestWindow
  <2>2. records'[j] # NewRecord(added + 1, targets)
    BY <2>1, ExecsAssumption DEF NewRecord, TypeOK
  <2>3. PICK k \in DOMAIN records : records'[j] = records[k]
    BY <1>1, <2>2, AddOrigin
  <2> QED
    BY <2>3, OneOfEachId DEF Keeps
<1>2. ASSUME NEW id \in 1..added, NEW agent \in Agents, UpdateResult(id, agent)
      PROVE  Keeps(records[i], records'[j])
  <2>1. j \in DOMAIN records /\ records[j] \in Record
    BY <1>2, UpdateOrigin
  <2>2. records'[j].id = records[j].id
    BY <1>2, <2>1, UpdateResultType
  <2>3. i = j
    BY <2>1, <2>2, OneOfEachId
  <2> QED
    BY <1>2, <2>1, <2>3, UpdateOrigin, AnswerKeeps DEF Keeps
<1>3. CASE Restart
  BY <1>3 DEF Restart
<1>4. CASE UNCHANGED records
  BY <1>4, OneOfEachId DEF Keeps
<1> QED
  BY <1>1, <1>2, <1>3, <1>4
     DEF Next, FetchDetail, OpenHistory, FetchPage, EncodeDone, CloseHistory,
         histVars

(* No step drops a result of a record that stays, or takes its completion  *)
(* back.                                                                   *)
THEOREM AnswersKept == Spec => AnswersAreKept
<1>1. TypeOK /\ NewestWindow /\ [Next]_histVars =>
        \A i \in DOMAIN records, j \in DOMAIN records' :
          records[i].id = records'[j].id =>
            /\ DOMAIN records[i].results \subseteq DOMAIN records'[j].results
            /\ records[i].status = "completed"
                   => records'[j].status = "completed"
  BY KeepStep DEF Keeps
<1>2. QED
  BY <1>1, TypeCorrect, HistoryIsNewestWindow, PTL DEF Spec, AnswersAreKept

-----------------------------------------------------------------------------
(* Paging.  A record only moves away from the newest, so what a page has   *)
(* passed stays behind the offset: Passed relates window and pages.        *)
Passed ==
    client.phase = "paging" =>
        \A j \in DOMAIN records :
            records[j].id \in client.present /\ Len(records) - j < client.offset
                => records[j].id \in client.seen

PageInv ==
    /\ \A p \in client.present : p <= added
    /\ Passed
    /\ PagingMissesNothing

LEMMA AddPages ==
    ASSUME TypeOK, PageInv, NEW targets \in TargetLists, Add(targets)
    PROVE  PageInv'
<1>1. /\ client' = client /\ added' = added + 1 /\ added \in Nat
      /\ client.present \subseteq Nat /\ client.offset \in Nat
  BY ExecsAssumption DEF Add, TypeOK, Client
<1>2. added + 1 \notin client.present
  BY <1>1 DEF PageInv
<1>3. ASSUME NEW j \in DOMAIN records', records'[j].id \in client.present
      PROVE  \E i \in DOMAIN records :
                records'[j].id = records[i].id
                  /\ Len(records) - i + 1 = Len(records') - j
  <2>1. records'[j] # NewRecord(added + 1, targets)
    BY <1>2, <1>3 DEF NewRecord
  <2> QED
    BY <2>1, <1>3, AddOrigin
<1>4. \A i \in DOMAIN records : i \in Nat /\ Len(records) \in Nat
  BY DEF TypeOK
<1>5. TypeOK'
  BY AddType
<1>6. \A j \in DOMAIN records' : j \in Nat /\ Len(records') \in Nat
  BY <1>5 DEF TypeOK
<1>7. Passed'
  <2> SUFFICES ASSUME client.phase = "paging", NEW j \in DOMAIN records',
                      records'[j].id \in client.present,
                      Len(records') - j < client.offset
               PROVE  records'[j].id \in client.seen
    BY <1>1 DEF Passed
  <2>1. PICK i \in DOMAIN records :
            records'[j].id = records[i].id
              /\ Len(records) - i + 1 = Len(records') - j
    BY <1>3
  <2>2. Len(records) - i < client.offset
    BY <1>1, <1>4, <1>6, <2>1
  <2> QED
    BY <2>1, <2>2 DEF PageInv, Passed
<1>8. PagingMissesNothing'
  BY <1>1, <1>3 DEF PageInv, PagingMissesNothing, IdsOf
<1>9. \A p \in client'.present : p <= added'
  BY <1>1 DEF PageInv
<1> QED
  BY <1>7, <1>8, <1>9 DEF PageInv

LEMMA FetchPages ==
    ASSUME TypeOK, PageInv, FetchPage
    PROVE  PageInv'
<1> DEFINE o == client.offset
           page == List(PageSize, o)
           full == o + PageSize <= Len(records)
<1>1. /\ client \in Client /\ o \in Nat /\ PageSize \in Nat
      /\ DOMAIN records = 1..Len(records) /\ Len(records) \in Nat
  BY PageAssumption DEF TypeOK, Client
<1>2. /\ records' = records /\ added' = added /\ client.phase = "paging"
      /\ client'.present = client.present
      /\ client'.seen = client.seen \cup page
      /\ client'.offset = IF full THEN o + PageSize ELSE 0
      /\ client'.phase = IF full THEN "paging" ELSE "finished"
  BY <1>1 DEF FetchPage, Client
<1>3. ASSUME NEW j \in DOMAIN records, records[j].id \in client.present,
             Len(records) - j < o + PageSize
      PROVE  records[j].id \in client'.seen
  <2>1. CASE Len(records) - j < o
    BY <1>2, <1>3, <2>1 DEF PageInv, Passed
  <2>2. CASE o <= Len(records) - j
    BY <1>2, <1>3, <2>2 DEF List
  <2> QED
    BY <1>1, <2>1, <2>2
<1> HIDE DEF page, o
<1>4. Passed'
  <2> SUFFICES ASSUME client'.phase = "paging", NEW j \in DOMAIN records,
                      records[j].id \in client.present,
                      Len(records) - j < client'.offset
               PROVE  records[j].id \in client'.seen
    BY <1>2 DEF Passed
  <2>1. client'.offset = o + PageSize
    BY <1>2
  <2> QED
    BY <1>3, <2>1
<1>5. PagingMissesNothing'
  <2> SUFFICES ASSUME client'.phase = "finished", NEW j \in DOMAIN records,
                      records[j].id \in client.present
               PROVE  records[j].id \in client'.seen
    BY <1>2 DEF PagingMissesNothing, IdsOf
  <2>1. ~full
    BY <1>2
  <2>2. Len(records) - j < o + PageSize
    BY <1>1, <2>1
  <2> QED
    BY <1>3, <2>2
<1> QED
  BY <1>2, <1>4, <1>5 DEF PageInv

LEMMA PageStep ==
    TypeOK /\ NewestWindow /\ PageInv /\ [Next]_histVars => PageInv'
<1> SUFFICES ASSUME TypeOK, NewestWindow, PageInv, [Next]_histVars
             PROVE  PageInv'
  OBVIOUS
<1>0. /\ client \in Client /\ added \in Nat /\ Len(records) \in Nat
      /\ DOMAIN records = 1..Len(records)
  BY ExecsAssumption DEF TypeOK
<1>1. ASSUME NEW targets \in TargetLists, Add(targets) PROVE PageInv'
  BY <1>1, AddPages
<1>2. ASSUME NEW id \in 1..added, NEW agent \in Agents, UpdateResult(id, agent)
      PROVE  PageInv'
  <2>1. /\ Len(records') = Len(records) /\ DOMAIN records' = DOMAIN records
        /\ \A i \in DOMAIN records : records'[i].id = records[i].id
        /\ added' = added /\ client' = client
    BY <1>2, UpdateResultType DEF UpdateResult
  <2>2. Passed'
    BY <2>1 DEF PageInv, Passed
  <2>3. IdsOf(records') = IdsOf(records)
    BY <2>1 DEF IdsOf
  <2> QED
    BY <2>1, <2>2, <2>3 DEF PageInv, PagingMissesNothing
<1>3. ASSUME NEW id \in 1..added, FetchDetail(id) PROVE PageInv'
  BY <1>0, <1>3 DEF FetchDetail, PageInv, Passed, PagingMissesNothing, Client
<1>4. CASE OpenHistory
  <2>1. /\ client'.phase = "paging" /\ client'.present = IdsOf(records)
        /\ client'.offset = 0 /\ records' = records /\ added' = added
    BY <1>4 DEF OpenHistory, Idle
  <2>2. \A p \in IdsOf(records) : p <= added
    BY <1>0 DEF NewestWindow, IdsOf
  <2>3. Passed'
    BY <1>0, <2>1 DEF Passed
  <2> QED
    BY <2>1, <2>2, <2>3 DEF PageInv, PagingMissesNothing
<1>5. CASE FetchPage
  BY <1>5, FetchPages
<1>6. CASE EncodeDone
  BY <1>0, <1>6 DEF EncodeDone, PageInv, Passed, PagingMissesNothing, Client
<1>7. CASE CloseHistory
  BY <1>7 DEF CloseHistory, PageInv, Passed, PagingMissesNothing, Idle
<1>8. CASE Restart
  BY <1>8 DEF Restart, PageInv, Passed, PagingMissesNothing, Idle
<1>9. CASE UNCHANGED histVars
  BY <1>9 DEF histVars, PageInv, Passed, PagingMissesNothing
<1> QED
  BY <1>1, <1>2, <1>3, <1>4, <1>5, <1>6, <1>7, <1>8, <1>9 DEF Next

(* For every page size: who pages through the history while it moves gets  *)
(* every record that was there at the beginning and still is at the end.   *)
THEOREM PagesMissNothing == Spec => []PagingMissesNothing
<1>1. Init => PageInv
  BY DEF Init, PageInv, Passed, PagingMissesNothing, Idle
<1>2. PageInv => PagingMissesNothing
  BY DEF PageInv
<1>3. QED
  BY <1>1, <1>2, TypeCorrect, HistoryIsNewestWindow, PageStep, PTL DEF Spec
=============================================================================
