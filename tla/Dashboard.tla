------------------------------ MODULE Dashboard ------------------------------
(***************************************************************************)
(* The master's dashboard hub (internal/master/ws), the handlers that use  *)
(* it - /ws/dashboard, one per browser, and the read loop of /ws/gateway,  *)
(* which broadcasts - and one machine's row in the browser's page.         *)
(*                                                                         *)
(* part says which part of the row is followed: the facts that the         *)
(* machine's agent reports, or the labels (tags and group) that the master *)
(* keeps and no agent knows.  What is told of it is Current when it says   *)
(* what the store says, and Old otherwise.  A message without a row of     *)
(* this machine, or that the page cannot parse, says Nothing.  The         *)
(* websocket library is external: a write that begins while another is     *)
(* under way on its connection panics, and may spoil the other's content.  *)
(***************************************************************************)
EXTENDS Naturals, Sequences

CONSTANTS
    Browsers,      \* a browser's page has one connection at a time
    Buffer,        \* bound: messages between the master and a page
    MaxUses        \* bound: connections and refreshes

ASSUME BufferAssumption == Buffer \in Nat \ {0}
ASSUME UsesAssumption == MaxUses \in Nat
ASSUME BrowsersAssumption ==
    Browsers \cap {"reading", "updated", "sending", "stuck", "down"} = {}

Current == "current"
Old == "old"
Nothing == "nothing"
Rows == {Current, Old}
Messages == Rows \cup {Nothing}

VARIABLES
    part,          \* the part of the row that is followed, chosen for good
    gateway,       \* where the read loop of /ws/gateway stands
    update,        \* what its message says of the row
    todo,          \* clients that Broadcast has not come to
    clients,       \* Hub.clients
    handler,       \* where the handler of /ws/dashboard stands
    list,          \* what the list it has read says
    writer,        \* who writes to the connection
    mixed,         \* connections where another write began meanwhile
    orphaned,      \* clients whose mu a panic left locked
    open,          \* connections that are not closed
    buffer,        \* messages under way to the page
    table,         \* what the page shows
    fetched,       \* the answer to its GET /api/machines, Nothing if none
    uses,          \* connections made and lists refreshed
    behind         \* pages that may show an old row

loopVars == <<part, gateway, update, todo>>
pageVars == <<table, fetched, uses>>
wireVars == <<writer, mixed, open, buffer>>
dashboardVars == <<loopVars, clients, handler, list, wireVars, orphaned,
                   pageVars, behind>>

TypeOK ==
    /\ part \in {"facts", "labels"}
    /\ update \in Messages
    /\ gateway \in {"reading", "updated", "sending", "stuck", "down"} \cup Browsers
    /\ todo \subseteq clients /\ clients \subseteq Browsers
    /\ handler \in [Browsers -> {"closed", "registering", "registered", "listed",
                      "listing", "reading", "answering", "unregistering"}]
    /\ list \in [Browsers -> Messages]
    /\ writer \in [Browsers -> {"none", "handler", "gateway"}]
    /\ mixed \subseteq Browsers /\ orphaned \subseteq Browsers
    /\ open \subseteq Browsers
    /\ buffer \in [Browsers -> Seq(Messages)]
    /\ \A b \in Browsers : Len(buffer[b]) <= Buffer
    /\ table \in [Browsers -> Rows]
    /\ fetched \in [Browsers -> Messages]
    /\ uses \in 0..MaxUses
    /\ behind \subseteq Browsers

Init ==
    /\ part \in {"facts", "labels"}
    /\ gateway = "reading" /\ update = Nothing /\ todo = {}
    /\ clients = {} /\ handler = [b \in Browsers |-> "closed"]
    /\ list = [b \in Browsers |-> Nothing]
    /\ writer = [b \in Browsers |-> "none"] /\ mixed = {} /\ orphaned = {}
    /\ open = {} /\ buffer = [b \in Browsers |-> <<>>]
    /\ table = [b \in Browsers |-> Current] /\ fetched = [b \in Browsers |-> Nothing]
    /\ uses = 0 /\ behind = {}

Goto(b, to) == handler' = [handler EXCEPT ![b] = to]

-----------------------------------------------------------------------------
(* clientsMu.  Broadcast holds it for reading until it has written to all. *)
(* A handler that waits for writing keeps new readers out.                 *)
Unlocked == FALSE
ReadLocked == gateway \in {"sending", "stuck"} \cup Browsers
WriterWaits == \E b \in Browsers : handler[b] \in {"registering", "unregistering"}
ReadersPass == TRUE
ReadersMayEnter == ~WriterWaits

-----------------------------------------------------------------------------
(* WriteMessage.  It ends when the buffer takes the message, or with an    *)
(* error that nobody looks at when the connection is closed.               *)
Begin(b, who) ==
    /\ writer[b] = "none"
    /\ writer' = [writer EXCEPT ![b] = who]
    /\ UNCHANGED <<mixed, open, buffer>>

(* A concurrent write: the one that comes second panics.                   *)
Clash(b) ==
    /\ writer[b] # "none"
    /\ mixed' = mixed \cup {b}
    /\ UNCHANGED <<writer, open, buffer>>

RetriesUntilRead(b) == b \in open /\ Len(buffer[b]) < Buffer
Takes(b) == b \in open => Len(buffer[b]) < Buffer

End(b, m) ==
    /\ Takes(b)
    /\ writer' = [writer EXCEPT ![b] = "none"]
    /\ buffer' = IF b \in open THEN [buffer EXCEPT ![b] = Append(@, m)] ELSE buffer
    /\ mixed' = mixed \ {b}
    /\ UNCHANGED open

(* The connection is gone, with what it carried.                           *)
HangUp(b) ==
    /\ open' = open \ {b}
    /\ buffer' = [buffer EXCEPT ![b] = <<>>]

Outcomes(b, m) == IF b \in mixed THEN {m, Nothing} ELSE {m}

-----------------------------------------------------------------------------
(* HandleDashboardWS.                                                      *)
Connect(b) ==
    /\ handler[b] = "closed" /\ uses < MaxUses
    /\ uses' = uses + 1
    /\ open' = open \cup {b}
    /\ Goto(b, "registering")
    /\ UNCHANGED <<loopVars, clients, list, writer, mixed, buffer, orphaned, table,
                   fetched, behind>>

Register(b) ==
    /\ handler[b] = "registering" /\ ~ReadLocked
    /\ clients' = clients \cup {b}
    /\ Goto(b, "registered")
    /\ UNCHANGED <<loopVars, list, wireVars, orphaned, pageVars, behind>>

(* ClientCount, for the log, and GetAllMachines.                           *)
ReadList(b) ==
    /\ handler[b] = "registered" /\ ReadersMayEnter
    /\ list' = [list EXCEPT ![b] = Current]
    /\ behind' = behind \ {b}
    /\ Goto(b, "listed")
    /\ UNCHANGED <<loopVars, clients, wireVars, orphaned, pageVars>>

(* The list, and later the answer to the page's "subscribe": both without  *)
(* c.mu.                                                                   *)
WritesList(b) ==
    /\ handler[b] = "listed"
    /\ \/ Begin(b, "handler") /\ Goto(b, "listing")
       \/ Clash(b) /\ Goto(b, "unregistering")
    /\ UNCHANGED <<loopVars, clients, list, orphaned, pageVars, behind>>

WritesAnswer(b) ==
    /\ handler[b] = "reading" /\ b \in open
    /\ \/ Begin(b, "handler") /\ Goto(b, "answering")
       \/ Clash(b) /\ Goto(b, "unregistering")
    /\ UNCHANGED <<loopVars, clients, list, orphaned, pageVars, behind>>

WroteList(b) ==
    /\ handler[b] = "listing"
    /\ \E m \in Outcomes(b, list[b]) :
         /\ End(b, m)
         /\ behind' = IF m = Nothing THEN behind \cup {b} ELSE behind
    /\ list' = [list EXCEPT ![b] = Nothing]
    /\ Goto(b, "reading")
    /\ UNCHANGED <<loopVars, clients, orphaned, pageVars>>

WroteAnswer(b) ==
    /\ handler[b] = "answering"
    /\ End(b, Nothing)
    /\ Goto(b, "reading")
    /\ UNCHANGED <<loopVars, clients, list, orphaned, pageVars, behind>>

(* ReadMessage fails.  What else the page sends is the subject of ExecFlow. *)
ReadError(b) ==
    /\ handler[b] = "reading" /\ b \notin open
    /\ Goto(b, "unregistering")
    /\ UNCHANGED <<loopVars, clients, list, wireVars, orphaned, pageVars, behind>>

(* The deferred Unregister and Close; the Client is dropped.               *)
Unregister(b) ==
    /\ handler[b] = "unregistering" /\ ~ReadLocked
    /\ clients' = clients \ {b}
    /\ orphaned' = orphaned \ {b} /\ behind' = behind \ {b}
    /\ list' = [list EXCEPT ![b] = Nothing]
    /\ HangUp(b)
    /\ Goto(b, "closed")
    /\ UNCHANGED <<loopVars, writer, mixed, table, fetched, uses>>

HandlerStep(b) ==
    \/ Register(b) \/ ReadList(b) \/ WritesList(b) \/ WroteList(b) \/ WroteAnswer(b)
    \/ ReadError(b) \/ Unregister(b)

-----------------------------------------------------------------------------
(* A change of the part in the store makes old what was read of it before. *)
Aged(x) == IF x = Current THEN Old ELSE x
Age ==
    /\ list' = [b \in Browsers |-> Aged(list[b])]
    /\ buffer' = [b \in Browsers |-> [n \in DOMAIN buffer[b] |-> Aged(buffer[b][n])]]
    /\ table' = [b \in Browsers |-> Aged(table[b])]
    /\ fetched' = [b \in Browsers |-> Aged(fetched[b])]

(* HandleGatewayWS: a registration is merged into the store, which keeps   *)
(* the labels, and is broadcast as the agent sent it, without them.        *)
UpdateMachine ==
    /\ gateway = "reading" /\ gateway' = "updated"
    /\ IF part = "facts" THEN update' = Current /\ Age
       ELSE update' = Old /\ UNCHANGED <<list, buffer, table, fetched>>
    /\ UNCHANGED <<part, todo, clients, handler, writer, mixed, open, orphaned,
                   uses, behind>>

(* The gateway's announcement of a machine, of which it knows the id alone: *)
(* the merge leaves the facts in the store (MachineStore has it), and the  *)
(* blank row is broadcast all the same.                                    *)
Announce ==
    /\ gateway = "reading"
    /\ update' = Old /\ gateway' = "updated"
    /\ UNCHANGED <<part, todo, clients, handler, list, wireVars, orphaned, pageVars,
                   behind>>

(* A message about another machine, terminal output, an answer, metrics.   *)
UpdateOther ==
    /\ gateway = "reading"
    /\ update' = Nothing /\ gateway' = "updated"
    /\ UNCHANGED <<part, todo, clients, handler, list, wireVars, orphaned, pageVars,
                   behind>>

(* What the store learns and does not broadcast: SetTags and SetGroup, and *)
(* CleanupStale and heartbeats, which change the status.                   *)
ChangeUntold ==
    /\ Age /\ update' = Aged(update)
    /\ behind' = behind \cup clients
    /\ UNCHANGED <<part, gateway, todo, clients, handler, writer, mixed, open, orphaned,
                   uses>>

(* Broadcast.                                                              *)
Broadcast ==
    /\ gateway = "updated" /\ ReadersMayEnter
    /\ todo' = clients
    /\ gateway' = "sending"
    /\ UNCHANGED <<part, update, clients, handler, list, wireVars, orphaned, pageVars,
                   behind>>

(* c.mu.Lock waits for ever when nobody is left to unlock it.              *)
BroadcastWaits(b) ==
    /\ gateway = "sending" /\ b \in todo \cap orphaned
    /\ gateway' = "stuck"
    /\ UNCHANGED <<part, update, todo, clients, handler, list, wireVars, orphaned, pageVars,
                   behind>>

(* c.mu.Lock and WriteMessage, whose panic unlocks clientsMu but not c.mu, *)
(* and ends the handler: the deferred Close makes the gateway redial.      *)
BroadcastWrites(b) ==
    /\ gateway = "sending" /\ b \in todo \ orphaned
    /\ Begin(b, "gateway")
    /\ gateway' = b
    /\ UNCHANGED <<part, update, todo, clients, handler, list, orphaned, pageVars, behind>>

BroadcastPanics(b) ==
    /\ gateway = "sending" /\ b \in todo \ orphaned
    /\ Clash(b)
    /\ gateway' = "down"
    /\ orphaned' = orphaned \cup {b}
    /\ behind' = IF update = Nothing THEN behind ELSE behind \cup todo
    /\ todo' = {}
    /\ UNCHANGED <<part, update, clients, handler, list, pageVars>>

(* One client's write error does not end the loop.                         *)
RestIfOpen(b) == IF b \in open THEN todo \ {b} ELSE {}
Rest(b) == todo \ {b}

(* The row that the page ends with: a list that was read before comes      *)
(* after the message.                                                      *)
ListPending(b) == handler[b] \in {"listed", "listing"}
LastRow(b, m) == IF ListPending(b) THEN list[b] ELSE m

BroadcastWrote(b) ==
    /\ gateway = b
    /\ \E m \in Outcomes(b, update) :
         /\ End(b, m)
         /\ behind' = CASE update = Nothing -> behind
                        [] m # Nothing /\ LastRow(b, m) = Current -> behind \ {b}
                        [] OTHER -> behind \cup {b}
    /\ gateway' = "sending"
    /\ todo' = Rest(b)
    /\ UNCHANGED <<part, update, clients, handler, list, orphaned, pageVars>>

BroadcastDone ==
    /\ gateway = "sending" /\ todo = {}
    /\ gateway' = "reading" /\ update' = Nothing
    /\ UNCHANGED <<part, todo, clients, handler, list, wireVars, orphaned,
                   pageVars, behind>>

Redial ==
    /\ gateway = "down"
    /\ gateway' = "reading" /\ update' = Nothing
    /\ UNCHANGED <<part, todo, clients, handler, list, wireVars, orphaned,
                   pageVars, behind>>

LoopStep ==
    \/ Broadcast \/ BroadcastDone \/ Redial
    \/ \E b \in Browsers :
         BroadcastWrites(b) \/ BroadcastPanics(b) \/ BroadcastWaits(b) \/ BroadcastWrote(b)

-----------------------------------------------------------------------------
(* The page: handleMessage and refreshMachines.  It may stop reading for   *)
(* as long as it likes (a laptop asleep), and its connection may end.      *)
PageReads(b) ==
    /\ buffer[b] # <<>>
    /\ LET m == Head(buffer[b]) IN
       table' = IF m = Nothing THEN table ELSE [table EXCEPT ![b] = m]
    /\ buffer' = [buffer EXCEPT ![b] = Tail(@)]
    /\ UNCHANGED <<loopVars, clients, handler, list, writer, mixed, open, orphaned,
                   fetched, uses, behind>>

Refresh(b) ==
    /\ fetched[b] = Nothing /\ b \in open
    /\ uses < MaxUses /\ uses' = uses + 1
    /\ fetched' = [fetched EXCEPT ![b] = Current]
    /\ UNCHANGED <<loopVars, clients, handler, list, wireVars, orphaned, table,
                   behind>>

(* An answer that a newer message has overtaken puts the row back; one     *)
(* that has nothing under way to meet repairs it.                          *)
Refreshed(b) ==
    /\ fetched[b] # Nothing
    /\ table' = [table EXCEPT ![b] = fetched[b]]
    /\ fetched' = [fetched EXCEPT ![b] = Nothing]
    /\ behind' = CASE fetched[b] = Old /\ table[b] = Current -> behind \cup {b}
                   [] fetched[b] = Current /\ buffer[b] = <<>> /\ ~ListPending(b) ->
                        behind \ {b}
                   [] OTHER -> behind
    /\ UNCHANGED <<loopVars, clients, handler, list, wireVars, orphaned,
                   uses>>

Leave(b) ==
    /\ b \in open
    /\ HangUp(b)
    /\ UNCHANGED <<loopVars, clients, handler, list, writer, mixed, orphaned, table,
                   fetched, uses, behind>>

Page(b) == PageReads(b) \/ Refresh(b) \/ Refreshed(b) \/ Leave(b)

-----------------------------------------------------------------------------
Next ==
    \/ \E b \in Browsers : Connect(b) \/ WritesAnswer(b) \/ HandlerStep(b) \/ Page(b)
    \/ UpdateMachine \/ Announce \/ UpdateOther \/ ChangeUntold \/ LoopStep

(* The master's goroutines that can go on do; of the pages nothing is asked. *)
Fairness ==
    /\ \A b \in Browsers : WF_dashboardVars(HandlerStep(b))
    /\ WF_dashboardVars(LoopStep)

Spec == Init /\ [][Next]_dashboardVars
FairSpec == Spec /\ Fairness

-----------------------------------------------------------------------------
(* A connected page to which nothing is under way shows the followed part  *)
(* of the machine as the store has it, unless behind has the page: the     *)
(* part was changed with no broadcast, left out of the message (the labels *)
(* of every registration, all of an announcement), lost by a panic, or     *)
(* read before a newer message and shown after it.  No registration is     *)
(* lost between Register and the list, or because another client left; and *)
(* a new connection's list, or a refresh that nothing overtakes, repairs.  *)
PagesFollow ==
    \A b \in clients \cap open :
        /\ handler[b] \in {"reading", "answering"}
        /\ gateway = "reading" /\ buffer[b] = <<>>
        /\ b \notin behind
        => table[b] = Current

(* Every page reads on, or goes: none leaves its buffer full for ever.     *)
PagesRead == \A b \in Browsers : []<>(Len(buffer[b]) < Buffer)
NeverStuck == [](gateway # "stuck")

(* Broadcast writes to one page after another with no deadline, holding the *)
(* hub's lock and the gateway's read loop; while pages read, and as long   *)
(* as no broadcast has come to a client whose mu a panic left locked, the  *)
(* loop comes back for the next message, whoever connects, subscribes or   *)
(* leaves meanwhile.                                                       *)
UpdatesGetThrough == PagesRead /\ NeverStuck => []<>(gateway = "reading")

(* And then the browsers that come or go get the hub's lock, however many  *)
(* broadcasts follow one another.                                          *)
BrowsersGetThrough == PagesRead /\ NeverStuck => []<>~WriterWaits

(* What the dashboard promises, live data, needs every broadcast to end    *)
(* while pages read.  It does not: the broadcast after a panic waits for   *)
(* the mutex that the panic left locked and holds the hub's lock, which    *)
(* the client would need in order to leave.                                *)
BroadcastsEnd == PagesRead => []<>(gateway = "reading")
==============================================================================
