----------------------------- MODULE ExecHistory -----------------------------
(***************************************************************************)
(* The master's script history (internal/master/store/history.go) with the *)
(* HTTP handlers and the gateway's read loop that use it.  Add,            *)
(* UpdateResult, Get and List run under the history's mutex and are one    *)
(* step each; but the records that Get and List return share their Results *)
(* maps with the stored ones, and a handler encodes them after the mutex   *)
(* is released, in a step of its own.                                      *)
(*                                                                         *)
(* Requests are numbered in the order of Add: uuid.New gives each its own  *)
(* id.                                                                     *)
(***************************************************************************)
EXTENDS Naturals, Sequences, ExecRecords

CONSTANTS
    TargetLists, \* the AgentIDs a request may carry (none if nobody is online)
    PageSize,    \* the "limit" of a client that reads the history page by page
    MaxExecs     \* bound: requests recorded in a behaviour

ASSUME TargetAssumption == TargetLists \subseteq Seq(Agents)
ASSUME PageAssumption == PageSize \in Nat \ {0}
ASSUME ExecsAssumption == MaxExecs \in Nat

VARIABLES
    records,     \* ExecHistory.records, oldest first
    added,       \* requests recorded so far, in all lives of the master
    booted,      \* the value of added when the master was last started
    client       \* one HTTP client and the handler that serves it

histVars == <<records, added, booted, client>>

(* The client: idle, or asking for the next page, or (paging or asking for *)
(* the detail of one request) being sent what the handler is encoding.     *)
Client == [phase : {"idle", "paging", "finished"},
           encoding : SUBSET Nat,   \* records whose maps are being iterated
           offset : Nat,            \* of the next page
           present : SUBSET Nat,    \* in the history when page one was read
           seen : SUBSET Nat]       \* in the pages received so far

Idle == [phase |-> "idle", encoding |-> {}, offset |-> 0,
         present |-> {}, seen |-> {}]

TypeOK ==
    /\ records \in Seq(Record)
    /\ added \in 0..MaxExecs
    /\ booted \in 0..added
    /\ client \in Client

Init ==
    /\ records = <<>>
    /\ added = 0
    /\ booted = 0
    /\ client = Idle

-----------------------------------------------------------------------------
(* The records at positions offset, offset + 1, ... from the newest.       *)
ListOldestFirst(limit, offset) ==
    {records[i].id : i \in {j \in DOMAIN records :
        offset < j /\ j <= offset + limit}}

List(limit, offset) ==
    {records[i].id : i \in {j \in DOMAIN records :
        offset <= Len(records) - j /\ Len(records) - j < offset + limit}}

-----------------------------------------------------------------------------
(* HandleBatchExec and the dashboard's exec_request: the record is added   *)
(* before the first message is sent to the gateway.                        *)
Add(targets) ==
    /\ added < MaxExecs
    /\ added' = added + 1
    /\ records' = Evict(Append(records, NewRecord(added', targets)))
    /\ UNCHANGED <<booted, client>>

(* HandleGatewayWS on an exec_response: Done is always set.  An answer can *)
(* arrive late, twice, or after its record was evicted or forgotten.       *)
UpdateResult(id, agent) ==
    /\ \A i \in DOMAIN records :
           records[i].id = id => agent \in Named(records[i].targets)
    /\ records' = [i \in DOMAIN records |->
           IF records[i].id = id THEN Answer(records[i], agent, TRUE)
                                 ELSE records[i]]
    /\ UNCHANGED <<added, booted, client>>

(* The master ends, by a signal or because the Go runtime found a map both *)
(* iterated and written, and starts again: the history is in memory.       *)
Restart ==
    /\ records' = <<>>
    /\ booted' = added
    /\ client' = Idle
    /\ UNCHANGED added

(* HandleExecDetail: Get, then (EncodeDone) the response is encoded.       *)
FetchDetail(id) ==
    /\ client.phase = "idle" /\ client.encoding = {}
    /\ id \in IdsOf(records)
    /\ client' = [client EXCEPT !.encoding = {id}]
    /\ UNCHANGED <<records, added, booted>>

(* A client starts to read the whole history ...                           *)
OpenHistory ==
    /\ client.phase = "idle" /\ client.encoding = {}
    /\ client' = [Idle EXCEPT !.phase = "paging", !.present = IdsOf(records)]
    /\ UNCHANGED <<records, added, booted>>

(* ... page by page, until a page is short.  HandleExecHistory calls List, *)
(* then (EncodeDone) the response is encoded.                              *)
FetchPage ==
    /\ client.phase = "paging" /\ client.encoding = {}
    /\ LET page == List(PageSize, client.offset)
           full == client.offset + PageSize <= Len(records)
       IN  client' = [client EXCEPT
               !.encoding = page,
               !.seen = @ \cup page,
               !.offset = IF full THEN @ + PageSize ELSE 0,
               !.phase = IF full THEN "paging" ELSE "finished"]
    /\ UNCHANGED <<records, added, booted>>

EncodeDone ==
    /\ client.encoding # {}
    /\ client' = [client EXCEPT !.encoding = {}]
    /\ UNCHANGED <<records, added, booted>>

CloseHistory ==
    /\ client.phase = "finished" /\ client.encoding = {}
    /\ client' = Idle
    /\ UNCHANGED <<records, added, booted>>

-----------------------------------------------------------------------------
Next ==
    \/ \E targets \in TargetLists : Add(targets)
    \/ \E id \in 1..added, agent \in Agents : UpdateResult(id, agent)
    \/ \E id \in 1..added : FetchDetail(id)
    \/ OpenHistory \/ FetchPage \/ EncodeDone \/ CloseHistory
    \/ Restart

Spec == Init /\ [][Next]_histVars

-----------------------------------------------------------------------------
(* The history is a window on the requests since the start of the master:  *)
(* as many as fit, the newest ones, each once and in order.  It is what    *)
(* makes the first match of Get and UpdateResult the only one.             *)
NewestWindow ==
    /\ Len(records) = IF added - booted < MaxSize THEN added - booted ELSE MaxSize
    /\ \A i \in DOMAIN records : records[i].id = added - Len(records) + i

(* No result is lost and no status goes back while a record is kept,       *)
(* whatever answers arrive again or late.                                  *)
AnswersAreKept ==
    [][\A i \in DOMAIN records, j \in DOMAIN records' :
        records[i].id = records'[j].id =>
            /\ DOMAIN records[i].results \subseteq DOMAIN records'[j].results
            /\ records[i].status = "completed"
                   => records'[j].status = "completed"]_histVars

(* A client that reads the history page by page while requests are being   *)
(* recorded and the oldest ones evicted gets every record that was there   *)
(* when it began and still is when it ends.                                *)
PagingMissesNothing ==
    client.phase = "finished" =>
        client.present \cap IdsOf(records) \subseteq client.seen

(* README, the technology list: in-memory storage in thread-safe maps.  A  *)
(* map would not be written while another goroutine iterates over it.      *)
NoWriteDuringIteration ==
    [][\A i \in DOMAIN records :
        records[i].id \in client.encoding /\ i \in DOMAIN records'
            /\ records'[i].id = records[i].id
            => records'[i].results = records[i].results]_histVars
=============================================================================
