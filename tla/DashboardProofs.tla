--------------------------- MODULE DashboardProofs ---------------------------
(***************************************************************************)
(* Dashboard for any number of browsers and any buffer: its type           *)
(* invariant, and that a page is up to date unless behind says why not.    *)
(***************************************************************************)
EXTENDS Dashboard, TLAPS

(* A page that shows t shows what the store has when it has read what is   *)
(* in the buffer s.                                                        *)
EndsCurrent(s, t) ==
    \/ \E n \in 1..Len(s) :
         s[n] = Current /\ \A k \in 1..Len(s) : k > n => s[k] # Old
    \/ t = Current /\ \A k \in 1..Len(s) : s[k] # Old

Fresh(b) == EndsCurrent(buffer[b], table[b])

(* An update that Broadcast still has to write to b.                       *)
Coming(b) ==
    update = Current /\ (gateway = "updated" \/ (ReadLocked /\ b \in todo))

Served(b) ==
    \/ Coming(b)
    \/ handler[b] \in {"registered", "unregistering"}
    \/ ListPending(b) /\ list[b] = Current
    \/ ~ListPending(b) /\ Fresh(b)

(* Broadcast has clients to write to only while it holds the lock.         *)
LockInv ==
    /\ todo # {} => ReadLocked
    /\ gateway \in Browsers => gateway \in todo

(* Each client is behind, or has what the store has on its way.            *)
ServedInv ==
    /\ \A b \in clients : handler[b] \notin {"closed", "registering"}
    /\ \A b \in clients \cap open : b \in behind \/ Served(b)

DashboardInv == TypeOK /\ LockInv /\ ServedInv

-----------------------------------------------------------------------------
(* EndsCurrent when the buffer takes and gives a message, and when the     *)
(* page is refreshed.                                                      *)
LEMMA AppendCurrent ==
    ASSUME NEW s \in Seq(Messages), NEW t
    PROVE  EndsCurrent(Append(s, Current), t)
<1>1. Len(Append(s, Current)) = Len(s) + 1 /\ Append(s, Current)[Len(s) + 1] = Current
      /\ Len(s) \in Nat
  OBVIOUS
<1> QED
  BY <1>1 DEF EndsCurrent

LEMMA AppendNothing ==
    ASSUME NEW s \in Seq(Messages), NEW t, EndsCurrent(s, t)
    PROVE  EndsCurrent(Append(s, Nothing), t)
<1> DEFINE r == Append(s, Nothing)
<1>1. /\ Len(s) \in Nat /\ Len(r) = Len(s) + 1 /\ r[Len(s) + 1] = Nothing
      /\ \A k \in 1..Len(s) : r[k] = s[k]
  OBVIOUS
<1>2. Nothing # Old
  BY DEF Nothing, Old
<1>3. \A k \in 1..Len(r) : r[k] = Old => k \in 1..Len(s) /\ s[k] = Old
  BY <1>1, <1>2
<1> HIDE DEF r
<1>4. CASE \E n \in 1..Len(s) : s[n] = Current /\ \A k \in 1..Len(s) : k > n => s[k] # Old
  <2>1. PICK n \in 1..Len(s) : s[n] = Current /\ \A k \in 1..Len(s) : k > n => s[k] # Old
    BY <1>4
  <2>2. n \in 1..Len(r) /\ r[n] = Current
    BY <1>1, <2>1
  <2>3. \A k \in 1..Len(r) : k > n => r[k] # Old
    BY <1>3, <2>1
  <2> QED
    BY <2>2, <2>3 DEF EndsCurrent, r
<1>5. CASE t = Current /\ \A k \in 1..Len(s) : s[k] # Old
  BY <1>3, <1>5 DEF EndsCurrent, r
<1> QED
  BY <1>4, <1>5 DEF EndsCurrent

LEMMA ReadHead ==
    ASSUME NEW s \in Seq(Messages), s # <<>>, NEW t, EndsCurrent(s, t)
    PROVE  EndsCurrent(Tail(s), IF Head(s) = Nothing THEN t ELSE Head(s))
<1> DEFINE r == Tail(s)
           u == IF s[1] = Nothing THEN t ELSE s[1]
<1>1. /\ Len(s) \in Nat /\ Len(s) > 0 /\ Len(r) = Len(s) - 1 /\ Head(s) = s[1]
      /\ \A k \in 1..Len(r) : r[k] = s[k + 1]
  OBVIOUS
<1>2. s[1] \in Messages
  BY <1>1
<1> HIDE DEF r
<1>3. \A k \in 1..Len(r) : k + 1 \in 1..Len(s) /\ k + 1 > 1
  BY <1>1
<1>4. CASE \E n \in 1..Len(s) : s[n] = Current /\ \A k \in 1..Len(s) : k > n => s[k] # Old
  <2>1. PICK n \in 1..Len(s) : s[n] = Current /\ \A k \in 1..Len(s) : k > n => s[k] # Old
    BY <1>4
  <2>2. CASE n = 1
    <3>1. u = Current
      BY <2>1, <2>2 DEF Current, Nothing
    <3>2. \A k \in 1..Len(r) : r[k] # Old
      BY <1>1, <1>3, <2>1, <2>2
    <3> QED
      BY <1>1, <3>1, <3>2 DEF EndsCurrent, r
  <2>3. CASE n # 1
    <3>1. n - 1 \in 1..Len(r) /\ (n - 1) + 1 = n
      BY <1>1, <2>3
    <3>2. r[n - 1] = Current
      BY <1>1, <2>1, <3>1
    <3>3. \A k \in 1..Len(r) : k > n - 1 => r[k] # Old
      <4> SUFFICES ASSUME NEW k \in 1..Len(r), k > n - 1
                   PROVE  r[k] # Old
        OBVIOUS
      <4>1. k + 1 \in 1..Len(s) /\ k + 1 > n
        BY <1>1, <3>1
      <4> QED
        BY <1>1, <2>1, <4>1
    <3> QED
      BY <1>1, <3>1, <3>2, <3>3 DEF EndsCurrent, r
  <2> QED
    BY <2>2, <2>3
<1>5. CASE t = Current /\ \A k \in 1..Len(s) : s[k] # Old
  <2>1. s[1] # Old
    BY <1>1, <1>5
  <2>2. u = Current
    BY <1>2, <1>5, <2>1 DEF Messages, Rows
  <2>3. \A k \in 1..Len(r) : r[k] # Old
    BY <1>1, <1>3, <1>5
  <2> QED
    BY <1>1, <2>2, <2>3 DEF EndsCurrent, r
<1> QED
  BY <1>4, <1>5 DEF EndsCurrent

LEMMA Replaced ==
    ASSUME NEW s, NEW t, NEW u \in Rows, EndsCurrent(s, t),
           ~(u = Old /\ t = Current)
    PROVE  EndsCurrent(s, u)
  BY DEF EndsCurrent, Rows

LEMMA NothingLeft ==
    ASSUME NEW t, EndsCurrent(<<>>, t)
    PROVE  t = Current
  BY DEF EndsCurrent

-----------------------------------------------------------------------------
(* Types.                                                                  *)
LEMMA InitType == Init => TypeOK
<1> SUFFICES ASSUME Init PROVE TypeOK
  OBVIOUS
<1>1. <<>> \in Seq(Rows \cup {Nothing}) /\ Len(<<>>) = 0
  OBVIOUS
<1>2. \A b \in Browsers : Len(buffer[b]) <= Buffer
  <2>1. \A b \in Browsers : buffer[b] = <<>>
    BY DEF Init
  <2>2. 0 <= Buffer
    BY BufferAssumption
  <2> QED
    BY <1>1, <2>1, <2>2
<1>3. uses \in 0..MaxUses
  BY UsesAssumption DEF Init
<1> QED
  BY <1>1, <1>2, <1>3 DEF Init, TypeOK, Rows, Messages

LEMMA EndType ==
    ASSUME TypeOK, NEW b \in Browsers, NEW m \in Messages, End(b, m)
    PROVE  /\ writer' \in [Browsers -> {"none", "handler", "gateway"}]
           /\ mixed' \subseteq Browsers /\ open' \subseteq Browsers
           /\ buffer' \in [Browsers -> Seq(Messages)]
           /\ \A c \in Browsers : Len(buffer'[c]) <= Buffer
<1>1. buffer \in [Browsers -> Seq(Messages)]
  BY DEF TypeOK, Messages
<1>2. CASE b \in open
  <2>1. Len(buffer[b]) < Buffer /\ buffer' = [buffer EXCEPT ![b] = Append(@, m)]
    BY <1>2 DEF End, Takes
  <2>2. Append(buffer[b], m) \in Seq(Messages) /\ Len(Append(buffer[b], m)) = Len(buffer[b]) + 1
        /\ Len(buffer[b]) \in Nat
    BY <1>1
  <2>3. Len(Append(buffer[b], m)) <= Buffer
    BY <2>1, <2>2, BufferAssumption
  <2> QED
    BY <1>1, <2>1, <2>2, <2>3 DEF End, TypeOK
<1>3. CASE b \notin open
  BY <1>1, <1>3 DEF End, TypeOK
<1> QED
  BY <1>2, <1>3

LEMMA HangUpType ==
    ASSUME TypeOK, NEW b \in Browsers, HangUp(b)
    PROVE  /\ open' \subseteq Browsers
           /\ buffer' \in [Browsers -> Seq(Messages)]
           /\ \A c \in Browsers : Len(buffer'[c]) <= Buffer
<1>1. <<>> \in Seq(Messages) /\ Len(<<>>) <= Buffer
  BY BufferAssumption
<1> QED
  BY <1>1 DEF HangUp, TypeOK, Messages

LEMMA AgeType ==
    ASSUME TypeOK, Age
    PROVE  /\ list' \in [Browsers -> Messages] /\ buffer' \in [Browsers -> Seq(Messages)]
           /\ table' \in [Browsers -> Rows] /\ fetched' \in [Browsers -> Messages]
           /\ \A b \in Browsers : Len(buffer'[b]) <= Buffer
<1>1. \A x : (x \in Messages => Aged(x) \in Messages) /\ (x \in Rows => Aged(x) \in Rows)
  BY DEF Aged, Messages, Rows
<1>2. ASSUME NEW b \in Browsers
      PROVE  buffer'[b] \in Seq(Messages) /\ Len(buffer'[b]) = Len(buffer[b])
  <2>1. buffer[b] \in Seq(Messages) /\ Len(buffer[b]) \in Nat
    BY DEF TypeOK
  <2>2. buffer'[b] = [n \in 1..Len(buffer[b]) |-> Aged(buffer[b][n])]
    BY <2>1 DEF Age
  <2>3. \A n \in 1..Len(buffer[b]) : Aged(buffer[b][n]) \in Messages
    BY <1>1, <2>1
  <2> QED
    BY <2>1, <2>2, <2>3
<1>3. buffer' \in [Browsers -> Seq(Messages)]
  BY <1>2 DEF Age
<1>4. /\ list' \in [Browsers -> Messages] /\ table' \in [Browsers -> Rows]
      /\ fetched' \in [Browsers -> Messages]
  BY <1>1 DEF Age, TypeOK
<1> QED
  BY <1>2, <1>3, <1>4 DEF TypeOK

LEMMA TypeStep == TypeOK /\ LockInv /\ [Next]_dashboardVars => TypeOK'
<1> SUFFICES ASSUME TypeOK, LockInv, [Next]_dashboardVars PROVE TypeOK'
  OBVIOUS
<1> USE DEF Goto
<1>a. Current \in Rows /\ Old \in Rows /\ Nothing \in Messages
      /\ Rows \subseteq Messages
      /\ \A b \in Browsers, m \in Messages : Outcomes(b, m) \subseteq Messages
  BY DEF Rows, Messages, Outcomes
<1>1. ASSUME NEW b \in Browsers, Connect(b) PROVE TypeOK'
  <2>1. uses' \in 0..MaxUses
    BY <1>1, UsesAssumption DEF Connect, TypeOK
  <2> QED
    BY <1>1, <2>1 DEF Connect, TypeOK, loopVars
<1>2. ASSUME NEW b \in Browsers, Register(b) PROVE TypeOK'
  BY <1>2 DEF Register, TypeOK, loopVars, wireVars, pageVars
<1>3. ASSUME NEW b \in Browsers, ReadList(b) PROVE TypeOK'
  <2>1. list' \in [Browsers -> Messages] /\ behind' \subseteq Browsers
    BY <1>a, <1>3 DEF ReadList, TypeOK
  <2> QED
    BY <1>3, <2>1 DEF ReadList, TypeOK, loopVars, wireVars, pageVars
<1>4. ASSUME NEW b \in Browsers, WritesList(b) PROVE TypeOK'
  BY <1>4 DEF WritesList, Begin, Clash, TypeOK, loopVars, pageVars
<1>5. ASSUME NEW b \in Browsers, WritesAnswer(b) PROVE TypeOK'
  BY <1>5 DEF WritesAnswer, Begin, Clash, TypeOK, loopVars, pageVars
<1>6. ASSUME NEW b \in Browsers, WroteList(b) PROVE TypeOK'
  <2>1. list[b] \in Messages
    BY DEF TypeOK, Messages
  <2>2. PICK m \in Messages : End(b, m)
    BY <1>6, <1>a, <2>1 DEF WroteList
  <2>3. /\ UNCHANGED <<loopVars, clients, orphaned, pageVars>>
        /\ list' = [list EXCEPT ![b] = Nothing]
        /\ handler' = [handler EXCEPT ![b] = "reading"]
    BY <1>6 DEF WroteList
  <2>4. behind' \subseteq Browsers
    BY <1>6 DEF WroteList, TypeOK
  <2> QED
    BY <1>a, <2>2, <2>3, <2>4, EndType DEF TypeOK, loopVars, pageVars
<1>7. ASSUME NEW b \in Browsers, WroteAnswer(b) PROVE TypeOK'
  <2>1. End(b, Nothing)
    BY <1>7 DEF WroteAnswer
  <2> QED
    BY <1>7, <1>a, <2>1, EndType DEF WroteAnswer, TypeOK, Messages, loopVars, pageVars
<1>8. ASSUME NEW b \in Browsers, ReadError(b) PROVE TypeOK'
  BY <1>8 DEF ReadError, TypeOK, loopVars, wireVars, pageVars
<1>9. ASSUME NEW b \in Browsers, Unregister(b) PROVE TypeOK'
  <2>1. todo = {}
    BY <1>9 DEF Unregister, LockInv
  <2> QED
    BY <1>9, <1>a, <2>1, HangUpType DEF Unregister, TypeOK, Messages, loopVars
<1>10. ASSUME NEW b \in Browsers, PageReads(b) PROVE TypeOK'
  <2>1. buffer[b] \in Seq(Messages) /\ buffer[b] # <<>>
    BY <1>10 DEF PageReads, TypeOK, Messages
  <2>2. /\ Head(buffer[b]) \in Messages /\ Tail(buffer[b]) \in Seq(Messages)
        /\ Len(Tail(buffer[b])) = Len(buffer[b]) - 1 /\ Len(buffer[b]) \in Nat
    BY <2>1
  <2>3. table' \in [Browsers -> Rows]
    BY <1>10, <2>2 DEF PageReads, TypeOK, Messages
  <2>4. Len(Tail(buffer[b])) <= Buffer
    BY <2>2, BufferAssumption DEF TypeOK
  <2> QED
    BY <1>10, <2>2, <2>3, <2>4 DEF PageReads, TypeOK, Messages, loopVars
<1>11. ASSUME NEW b \in Browsers, Refresh(b) PROVE TypeOK'
  <2>1. fetched' \in [Browsers -> Messages] /\ uses' \in 0..MaxUses
    BY <1>11, <1>a, UsesAssumption DEF Refresh, TypeOK
  <2> QED
    BY <1>11, <2>1 DEF Refresh, TypeOK, loopVars, wireVars
<1>12. ASSUME NEW b \in Browsers, Refreshed(b) PROVE TypeOK'
  <2>1. table' \in [Browsers -> Rows] /\ fetched' \in [Browsers -> Messages]
    BY <1>12, <1>a DEF Refreshed, TypeOK, Messages
  <2>2. behind' \subseteq Browsers
    BY <1>12 DEF Refreshed, TypeOK
  <2> QED
    BY <1>12, <2>1, <2>2 DEF Refreshed, TypeOK, loopVars, wireVars
<1>13. ASSUME NEW b \in Browsers, Leave(b) PROVE TypeOK'
  BY <1>13, HangUpType DEF Leave, TypeOK, Messages, loopVars
<1>14. ASSUME UpdateMachine PROVE TypeOK'
  <2>1. CASE part = "facts"
    BY <1>14, <1>a, <2>1, AgeType DEF UpdateMachine, TypeOK
  <2>2. CASE part # "facts"
    BY <1>14, <1>a, <2>2 DEF UpdateMachine, TypeOK
  <2> QED
    BY <2>1, <2>2
<1>15. ASSUME Announce PROVE TypeOK'
  BY <1>15, <1>a DEF Announce, TypeOK, wireVars, pageVars
<1>16. ASSUME Broadcast PROVE TypeOK'
  BY <1>16 DEF Broadcast, TypeOK, wireVars, pageVars
<1>17. ASSUME BroadcastDone PROVE TypeOK'
  BY <1>17, <1>a DEF BroadcastDone, TypeOK, wireVars, pageVars
<1>18. ASSUME Redial PROVE TypeOK'
  BY <1>18, <1>a DEF Redial, TypeOK, wireVars, pageVars
<1>23. ASSUME UpdateOther PROVE TypeOK'
  BY <1>23, <1>a DEF UpdateOther, TypeOK, wireVars, pageVars
<1>24. ASSUME ChangeUntold PROVE TypeOK'
  <2>1. Aged(update) \in Messages /\ behind \cup clients \subseteq Browsers
    BY <1>a DEF Aged, TypeOK
  <2> QED
    BY <1>24, <2>1, AgeType DEF ChangeUntold, TypeOK
<1>25. ASSUME NEW b \in Browsers, BroadcastWaits(b) PROVE TypeOK'
  BY <1>25 DEF BroadcastWaits, TypeOK, wireVars, pageVars
<1>19. ASSUME NEW b \in Browsers, BroadcastWrites(b) PROVE TypeOK'
  BY <1>19 DEF BroadcastWrites, Begin, TypeOK, pageVars
<1>20. ASSUME NEW b \in Browsers, BroadcastPanics(b) PROVE TypeOK'
  BY <1>20 DEF BroadcastPanics, Clash, TypeOK, pageVars
<1>21. ASSUME NEW b \in Browsers, BroadcastWrote(b) PROVE TypeOK'
  <2>1. update \in Messages
    BY DEF TypeOK, Messages
  <2>2. PICK m \in Messages : End(b, m)
    BY <1>21, <1>a, <2>1 DEF BroadcastWrote
  <2>3. /\ UNCHANGED <<part, update, clients, handler, list, orphaned, pageVars>>
        /\ gateway' = "sending" /\ todo' = todo \ {b}
    BY <1>21 DEF BroadcastWrote, Rest
  <2>4. behind' \subseteq Browsers
    BY <1>21 DEF BroadcastWrote, TypeOK
  <2> QED
    BY <2>2, <2>3, <2>4, EndType DEF TypeOK, pageVars
<1>22. ASSUME UNCHANGED dashboardVars PROVE TypeOK'
  BY <1>22 DEF dashboardVars, TypeOK, loopVars, wireVars, pageVars
<1> QED
  BY <1>1, <1>2, <1>3, <1>4, <1>5, <1>6, <1>7, <1>8, <1>9, <1>10, <1>11, <1>12, <1>13, <1>14,
     <1>15, <1>16, <1>17, <1>18, <1>19, <1>20, <1>21, <1>22, <1>23, <1>24, <1>25
  DEF Next, HandlerStep, Page, LoopStep

-----------------------------------------------------------------------------
(* The lock.                                                               *)
LEMMA LockStep == TypeOK /\ LockInv /\ [Next]_dashboardVars => LockInv'
<1> SUFFICES ASSUME TypeOK, LockInv, [Next]_dashboardVars PROVE LockInv'
  OBVIOUS
<1> USE BrowsersAssumption DEF LockInv, ReadLocked
<1>1. CASE UNCHANGED <<gateway, todo>>
  BY <1>1
<1>2. CASE UpdateMachine \/ Announce \/ UpdateOther \/ ChangeUntold
  BY <1>2 DEF UpdateMachine, Announce, UpdateOther, ChangeUntold
<1>3. CASE Broadcast
  BY <1>3 DEF Broadcast
<1>4. CASE BroadcastDone \/ Redial
  BY <1>4 DEF BroadcastDone, Redial
<1>5. ASSUME NEW b \in Browsers, BroadcastWrites(b) PROVE LockInv'
  BY <1>5 DEF BroadcastWrites
<1>6. ASSUME NEW b \in Browsers, BroadcastPanics(b) PROVE LockInv'
  BY <1>6 DEF BroadcastPanics
<1>7. ASSUME NEW b \in Browsers, BroadcastWrote(b) PROVE LockInv'
  BY <1>7 DEF BroadcastWrote
<1>10. ASSUME NEW b \in Browsers, BroadcastWaits(b) PROVE LockInv'
  BY <1>10 DEF BroadcastWaits
<1>8. ASSUME NEW b \in Browsers,
             Connect(b) \/ WritesAnswer(b) \/ HandlerStep(b) \/ Page(b)
      PROVE  UNCHANGED <<gateway, todo>>
  BY <1>8 DEF Connect, WritesAnswer, HandlerStep, Page, Register, ReadList, WritesList,
     WroteList, WroteAnswer, ReadError, Unregister, PageReads, Refresh, Refreshed, Leave,
     loopVars
<1>9. UNCHANGED dashboardVars => UNCHANGED <<gateway, todo>>
  BY DEF dashboardVars, loopVars
<1> QED
  BY <1>1, <1>2, <1>3, <1>4, <1>5, <1>6, <1>7, <1>8, <1>9, <1>10 DEF Next, LoopStep

-----------------------------------------------------------------------------
(* What is on its way to a client.                                         *)

(* A step that changes nothing Served looks at.                            *)
LEMMA StillServed ==
    ASSUME NEW c, Served(c), UNCHANGED <<update, gateway>>, c \in todo => c \in todo',
           handler'[c] = handler[c], list'[c] = list[c], buffer'[c] = buffer[c],
           table'[c] = table[c]
    PROVE  Served(c)'
  BY DEF Served, Coming, ListPending, Fresh, ReadLocked

LEMMA AllStillServed ==
    ASSUME ServedInv, UNCHANGED <<loopVars, clients, handler, list, open, buffer, table>>,
           behind \subseteq behind'
    PROVE  ServedInv'
<1>1. \A b \in clients' : handler'[b] \notin {"closed", "registering"}
  BY DEF ServedInv
<1>2. ASSUME NEW c \in clients' \cap open', c \notin behind' PROVE Served(c)'
  <2>1. c \in clients \cap open /\ Served(c)
    BY <1>2 DEF ServedInv
  <2> QED
    BY <2>1, StillServed DEF loopVars
<1> QED
  BY <1>1, <1>2 DEF ServedInv

(* The handler of b.                                                       *)
LEMMA HandlerServes ==
    ASSUME DashboardInv, NEW b \in Browsers, Connect(b) \/ WritesAnswer(b) \/ HandlerStep(b)
    PROVE  ServedInv'
<1> USE DEF DashboardInv, Goto
<1>0. /\ handler \in [Browsers -> {"closed", "registering", "registered", "listed",
                      "listing", "reading", "answering", "unregistering"}]
      /\ list \in [Browsers -> Messages] /\ buffer \in [Browsers -> Seq(Messages)]
      /\ clients \subseteq Browsers /\ todo \subseteq clients
      /\ table \in [Browsers -> Rows]
  BY DEF TypeOK
<1>1. CASE Connect(b)
  <2>1. b \notin clients
    BY <1>1 DEF Connect, ServedInv
  <2>2. ASSUME NEW c \in clients', c # b
        PROVE  /\ UNCHANGED <<update, gateway, todo>> /\ handler'[c] = handler[c]
               /\ list'[c] = list[c] /\ buffer'[c] = buffer[c] /\ table'[c] = table[c]
    BY <1>0, <1>1, <2>2 DEF Connect, loopVars
  <2> QED
    BY <1>1, <2>1, <2>2, StillServed DEF Connect, ServedInv
<1>2. CASE Register(b)
  <2>1. Served(b)' /\ handler'[b] = "registered"
    BY <1>0, <1>2 DEF Register, Served
  <2>2. ASSUME NEW c \in clients', c # b
        PROVE  /\ UNCHANGED <<update, gateway, todo>> /\ handler'[c] = handler[c]
               /\ list'[c] = list[c] /\ buffer'[c] = buffer[c] /\ table'[c] = table[c]
    BY <1>0, <1>2, <2>2 DEF Register, loopVars, wireVars, pageVars
  <2> QED
    BY <1>2, <2>1, <2>2, StillServed DEF Register, ServedInv, wireVars
<1>3. CASE ReadList(b)
  <2>1. Served(b)' /\ handler'[b] = "listed"
    BY <1>0, <1>3 DEF ReadList, Served, ListPending
  <2>2. ASSUME NEW c \in clients', c # b
        PROVE  /\ UNCHANGED <<update, gateway, todo>> /\ handler'[c] = handler[c]
               /\ list'[c] = list[c] /\ buffer'[c] = buffer[c] /\ table'[c] = table[c]
               /\ c \notin behind' => c \notin behind
    BY <1>0, <1>3, <2>2 DEF ReadList, loopVars, wireVars, pageVars
  <2> QED
    BY <1>3, <2>1, <2>2, StillServed DEF ReadList, ServedInv, wireVars
<1>4. CASE WritesList(b)
  <2>1. /\ UNCHANGED <<loopVars, clients, list, open, buffer, table, behind>>
        /\ \A c \in Browsers : c # b => handler'[c] = handler[c]
        /\ handler'[b] \in {"listing", "unregistering"}
    BY <1>0, <1>4 DEF WritesList, Begin, Clash, pageVars
  <2>2. Served(b) => Served(b)'
    BY <1>4, <2>1 DEF WritesList, Served, Coming, ListPending, ReadLocked, loopVars
  <2>3. ASSUME NEW c \in clients' \cap open', c \notin behind', c # b PROVE Served(c)'
    BY <1>0, <2>1, <2>3, StillServed DEF ServedInv, loopVars
  <2> QED
    BY <1>0, <2>1, <2>2, <2>3 DEF ServedInv
<1>5. CASE WritesAnswer(b)
  <2>1. /\ UNCHANGED <<loopVars, clients, list, open, buffer, table, behind>>
        /\ \A c \in Browsers : c # b => handler'[c] = handler[c]
        /\ handler'[b] \in {"answering", "unregistering"}
    BY <1>0, <1>5 DEF WritesAnswer, Begin, Clash, pageVars
  <2>2. Served(b) => Served(b)'
    BY <1>5, <2>1 DEF WritesAnswer, Served, Coming, ListPending, ReadLocked, loopVars, Fresh
  <2>3. ASSUME NEW c \in clients' \cap open', c \notin behind', c # b PROVE Served(c)'
    BY <1>0, <2>1, <2>3, StillServed DEF ServedInv, loopVars
  <2> QED
    BY <1>0, <2>1, <2>2, <2>3 DEF ServedInv
<1>6. CASE WroteList(b)
  <2>1. PICK m \in Outcomes(b, list[b]) :
          /\ End(b, m)
          /\ behind' = IF m = Nothing THEN behind \cup {b} ELSE behind
    BY <1>6 DEF WroteList
  <2>2. /\ UNCHANGED <<loopVars, clients, open, table>>
        /\ handler[b] = "listing" /\ handler'[b] = "reading"
        /\ \A c \in Browsers : c # b => /\ handler'[c] = handler[c] /\ list'[c] = list[c]
                                       /\ buffer'[c] = buffer[c]
    BY <1>0, <1>6, <2>1 DEF WroteList, End, pageVars
  <2>3. ASSUME b \in clients' \cap open', b \notin behind' PROVE Served(b)'
    <3>1. m = list[b] /\ buffer'[b] = Append(buffer[b], m)
      BY <1>0, <2>1, <2>2, <2>3 DEF Outcomes, End
    <3>2. Coming(b) \/ list[b] = Current
      BY <2>1, <2>2, <2>3 DEF ServedInv, Served, ListPending
    <3>3. Coming(b) => Coming(b)'
      BY <2>2 DEF Coming, ReadLocked, loopVars
    <3>4. list[b] = Current => Fresh(b)'
      BY <1>0, <2>2, <3>1, AppendCurrent DEF Fresh
    <3> QED
      BY <2>2, <3>2, <3>3, <3>4 DEF Served, ListPending
  <2>4. ASSUME NEW c \in clients' \cap open', c \notin behind', c # b PROVE Served(c)'
    BY <1>0, <2>1, <2>2, <2>4, StillServed DEF ServedInv, loopVars
  <2> QED
    BY <1>0, <2>2, <2>3, <2>4 DEF ServedInv
<1>7. CASE WroteAnswer(b)
  <2>1. /\ End(b, Nothing) /\ UNCHANGED <<loopVars, clients, list, open, table, behind>>
        /\ handler[b] = "answering" /\ handler'[b] = "reading"
        /\ \A c \in Browsers : c # b => handler'[c] = handler[c] /\ buffer'[c] = buffer[c]
    BY <1>0, <1>7 DEF WroteAnswer, End, pageVars
  <2>2. ASSUME b \in clients' \cap open', b \notin behind' PROVE Served(b)'
    <3>1. buffer'[b] = Append(buffer[b], Nothing)
      BY <1>0, <2>1, <2>2 DEF End
    <3>2. Coming(b) \/ Fresh(b)
      BY <2>1, <2>2 DEF ServedInv, Served, ListPending
    <3>3. Coming(b) => Coming(b)'
      BY <2>1 DEF Coming, ReadLocked, loopVars
    <3>4. Fresh(b) => Fresh(b)'
      BY <1>0, <2>1, <3>1, AppendNothing DEF Fresh
    <3> QED
      BY <2>1, <3>2, <3>3, <3>4 DEF Served, ListPending
  <2>3. ASSUME NEW c \in clients' \cap open', c \notin behind', c # b PROVE Served(c)'
    BY <1>0, <2>1, <2>3, StillServed DEF ServedInv, loopVars
  <2> QED
    BY <1>0, <2>1, <2>2, <2>3 DEF ServedInv
<1>8. CASE ReadError(b)
  <2>1. Served(b)' /\ handler'[b] = "unregistering"
    BY <1>0, <1>8 DEF ReadError, Served
  <2>2. ASSUME NEW c \in clients', c # b
        PROVE  /\ UNCHANGED <<update, gateway, todo>> /\ handler'[c] = handler[c]
               /\ list'[c] = list[c] /\ buffer'[c] = buffer[c] /\ table'[c] = table[c]
    BY <1>0, <1>8, <2>2 DEF ReadError, loopVars, wireVars, pageVars
  <2> QED
    BY <1>8, <2>1, <2>2, StillServed DEF ReadError, ServedInv, wireVars
<1>9. CASE Unregister(b)
  <2>1. ASSUME NEW c \in clients'
        PROVE  /\ c # b /\ c \in clients /\ (c \in open' => c \in open)
               /\ c \notin behind' => c \notin behind
               /\ UNCHANGED <<update, gateway, todo>> /\ handler'[c] = handler[c]
               /\ list'[c] = list[c] /\ buffer'[c] = buffer[c] /\ table'[c] = table[c]
    BY <1>0, <1>9, <2>1 DEF Unregister, HangUp, loopVars
  <2> QED
    BY <2>1, StillServed DEF ServedInv
<1> QED
  BY <1>1, <1>2, <1>3, <1>4, <1>5, <1>6, <1>7, <1>8, <1>9 DEF HandlerStep

(* The page of b.                                                          *)
LEMMA PageServes ==
    ASSUME DashboardInv, NEW b \in Browsers, Page(b)
    PROVE  ServedInv'
<1> USE DEF DashboardInv
<1>0. /\ list \in [Browsers -> Messages] /\ buffer \in [Browsers -> Seq(Messages)]
      /\ clients \subseteq Browsers /\ table \in [Browsers -> Rows]
      /\ fetched \in [Browsers -> Messages]
  BY DEF TypeOK
<1>1. CASE PageReads(b)
  <2>1. /\ UNCHANGED <<loopVars, clients, handler, list, open, behind>>
        /\ buffer[b] # <<>> /\ buffer'[b] = Tail(buffer[b])
        /\ table'[b] = IF Head(buffer[b]) = Nothing THEN table[b] ELSE Head(buffer[b])
        /\ \A c \in Browsers : c # b => buffer'[c] = buffer[c] /\ table'[c] = table[c]
    BY <1>0, <1>1 DEF PageReads
  <2>2. Fresh(b) => Fresh(b)'
    BY <1>0, <2>1, ReadHead DEF Fresh
  <2>3. Served(b) => Served(b)'
    BY <2>1, <2>2 DEF Served, Coming, ListPending, ReadLocked, loopVars
  <2>4. ASSUME NEW c \in clients' \cap open', c \notin behind', c # b PROVE Served(c)'
    BY <1>0, <2>1, <2>4, StillServed DEF ServedInv, loopVars
  <2> QED
    BY <2>1, <2>3, <2>4 DEF ServedInv
<1>2. CASE Refresh(b)
  BY <1>2, AllStillServed DEF Refresh, wireVars
<1>3. CASE Refreshed(b)
  <2>1. /\ UNCHANGED <<loopVars, clients, handler, list, open, buffer>>
        /\ fetched[b] \in Rows /\ table'[b] = fetched[b]
        /\ \A c \in Browsers : c # b => table'[c] = table[c]
        /\ \A c \in Browsers : c # b /\ c \notin behind' => c \notin behind
    BY <1>0, <1>3 DEF Refreshed, wireVars, Messages
  <2>2. ASSUME b \notin behind', b \in behind PROVE Served(b)'
    <3>1. fetched[b] = Current /\ buffer[b] = <<>> /\ ~ListPending(b)
      BY <1>3, <2>2 DEF Refreshed
    <3>2. Fresh(b)'
      BY <2>1, <3>1 DEF Fresh, EndsCurrent
    <3> QED
      BY <2>1, <3>1, <3>2 DEF Served, ListPending
  <2>3. ASSUME b \notin behind', b \notin behind, Served(b) PROVE Served(b)'
    <3>1. ~(fetched[b] = Old /\ table[b] = Current)
      <4>1. fetched[b] = Old /\ table[b] = Current => behind' = behind \cup {b}
        BY <1>3 DEF Refreshed, Old, Current
      <4> QED
        BY <2>3, <4>1
    <3>2. Fresh(b) => Fresh(b)'
      BY <2>1, <3>1, Replaced DEF Fresh
    <3> QED
      BY <2>1, <2>3, <3>2 DEF Served, Coming, ListPending, ReadLocked, loopVars
  <2>4. ASSUME NEW c \in clients' \cap open', c \notin behind', c # b PROVE Served(c)'
    BY <1>0, <2>1, <2>4, StillServed DEF ServedInv, loopVars
  <2> QED
    BY <2>1, <2>2, <2>3, <2>4 DEF ServedInv
<1>4. CASE Leave(b)
  <2>1. ASSUME NEW c \in clients' \cap open', c \notin behind' PROVE Served(c)'
    <3>1. /\ c \in clients \cap open /\ c \notin behind /\ buffer'[c] = buffer[c]
          /\ UNCHANGED <<loopVars, handler, list, table>>
      BY <1>0, <1>4, <2>1 DEF Leave, HangUp
    <3> QED
      BY <3>1, StillServed DEF ServedInv, loopVars
  <2> QED
    BY <1>4, <2>1 DEF Leave, ServedInv
<1> QED
  BY <1>1, <1>2, <1>3, <1>4 DEF Page

(* The gateway's read loop.                                                *)
LEMMA LoopServes ==
    ASSUME DashboardInv, UpdateMachine \/ Announce \/ UpdateOther \/ ChangeUntold \/ LoopStep
    PROVE  ServedInv'
<1> USE DEF DashboardInv
<1>0. /\ list \in [Browsers -> Messages] /\ buffer \in [Browsers -> Seq(Messages)]
      /\ clients \subseteq Browsers /\ table \in [Browsers -> Rows]
      /\ todo \subseteq clients /\ update \in Messages
  BY DEF TypeOK
<1>1. CASE UpdateMachine /\ part = "facts"
  <2>1. \A c \in Browsers : Served(c)'
    BY <1>1 DEF UpdateMachine, Served, Coming
  <2> QED
    BY <1>0, <1>1, <2>1 DEF UpdateMachine, ServedInv
<1>2. CASE (UpdateMachine /\ part # "facts") \/ Announce \/ UpdateOther
  <2>1. /\ UNCHANGED <<clients, handler, list, open, buffer, table, behind>>
        /\ gateway = "reading"
    BY <1>2 DEF UpdateMachine, Announce, UpdateOther, wireVars, pageVars
  <2>2. ASSUME NEW c \in clients \cap open, Served(c) PROVE Served(c)'
    <3>1. ~Coming(c)
      BY <2>1, BrowsersAssumption DEF Coming, ReadLocked
    <3> QED
      BY <2>1, <2>2, <3>1 DEF Served, ListPending, Fresh
  <2> QED
    BY <2>1, <2>2 DEF ServedInv
<1>8. CASE ChangeUntold
  BY <1>8 DEF ChangeUntold, ServedInv
<1>9. ASSUME NEW b \in Browsers, BroadcastWaits(b) PROVE ServedInv'
  <2>1. /\ gateway = "sending" /\ gateway' = "stuck"
        /\ UNCHANGED <<update, todo, clients, handler, list, open, buffer, table, behind>>
    BY <1>9 DEF BroadcastWaits, wireVars, pageVars
  <2>2. ASSUME NEW c \in clients \cap open, Served(c) PROVE Served(c)'
    BY <2>1, <2>2 DEF Served, Coming, ReadLocked, ListPending, Fresh
  <2> QED
    BY <2>1, <2>2 DEF ServedInv
<1>3. CASE Broadcast
  <2>1. ASSUME NEW c \in clients \cap open, Served(c) PROVE Served(c)'
    BY <1>3, <2>1 DEF Broadcast, Served, Coming, ReadLocked, ListPending, Fresh, wireVars,
       pageVars
  <2> QED
    BY <1>3, <2>1 DEF Broadcast, ServedInv, wireVars
<1>4. CASE BroadcastDone \/ Redial
  <2>1. todo = {} /\ gateway # "updated"
    BY <1>4, BrowsersAssumption DEF BroadcastDone, Redial, LockInv, ReadLocked
  <2>2. ASSUME NEW c \in clients \cap open, Served(c) PROVE Served(c)'
    BY <1>4, <2>1, <2>2 DEF BroadcastDone, Redial, Served, Coming, ListPending, Fresh, wireVars,
       pageVars
  <2> QED
    BY <1>4, <2>2 DEF BroadcastDone, Redial, ServedInv, wireVars
<1>5. ASSUME NEW b \in Browsers, BroadcastWrites(b) PROVE ServedInv'
  <2>1. /\ gateway = "sending" /\ gateway' = b
        /\ UNCHANGED <<update, todo, clients, handler, list, open, buffer, table, behind>>
    BY <1>5 DEF BroadcastWrites, Begin, pageVars
  <2>2. ASSUME NEW c \in clients \cap open, Served(c) PROVE Served(c)'
    BY <2>1, <2>2 DEF Served, Coming, ReadLocked, ListPending, Fresh
  <2> QED
    BY <2>1, <2>2 DEF ServedInv
<1>6. ASSUME NEW b \in Browsers, BroadcastPanics(b) PROVE ServedInv'
  <2>1. /\ gateway = "sending"
        /\ behind' = IF update = Nothing THEN behind ELSE behind \cup todo
        /\ UNCHANGED <<update, clients, handler, list, open, buffer, table>>
    BY <1>6 DEF BroadcastPanics, Clash, pageVars
  <2>2. ASSUME NEW c \in clients \cap open, c \notin behind', Served(c) PROVE Served(c)'
    <3>1. ~Coming(c)
      BY <2>1, <2>2 DEF Coming, Current, Nothing
    <3> QED
      BY <2>1, <2>2, <3>1 DEF Served, ListPending, Fresh
  <2> QED
    BY <2>1, <2>2 DEF ServedInv
<1>7. ASSUME NEW b \in Browsers, BroadcastWrote(b) PROVE ServedInv'
  <2>1. PICK m \in Outcomes(b, update) :
          /\ End(b, m)
          /\ behind' = CASE update = Nothing -> behind
                         [] m # Nothing /\ LastRow(b, m) = Current -> behind \ {b}
                         [] OTHER -> behind \cup {b}
    BY <1>7 DEF BroadcastWrote
  <2>2. /\ gateway = b /\ gateway' = "sending" /\ todo' = todo \ {b}
        /\ UNCHANGED <<update, clients, handler, list, open, table>>
        /\ \A c \in Browsers : c # b => buffer'[c] = buffer[c]
    BY <1>0, <1>7, <2>1 DEF BroadcastWrote, Rest, End, pageVars
  <2>3. ASSUME b \in open, b \notin behind', update # Nothing PROVE Served(b)'
    <3>1. LastRow(b, m) = Current
      BY <2>1, <2>3
    <3>2. CASE ListPending(b)
      BY <2>2, <3>1, <3>2 DEF LastRow, Served, ListPending
    <3>3. CASE ~ListPending(b)
      <4>1. buffer'[b] = Append(buffer[b], Current)
        BY <1>0, <2>1, <2>3, <3>1, <3>3 DEF End, LastRow
      <4>2. Fresh(b)'
        BY <1>0, <2>2, <4>1, AppendCurrent DEF Fresh
      <4> QED
        BY <2>2, <3>3, <4>2 DEF Served, ListPending
    <3> QED
      BY <3>2, <3>3
  <2>5. ASSUME b \in clients \cap open, b \notin behind', update = Nothing PROVE Served(b)'
    <3>0. m = Nothing /\ behind' = behind
      BY <2>1, <2>5 DEF Outcomes
    <3>1. Served(b) /\ ~Coming(b)
      BY <2>5, <3>0 DEF ServedInv, Coming, Current, Nothing
    <3>2. buffer'[b] = Append(buffer[b], Nothing)
      BY <1>0, <2>1, <2>5, <3>0 DEF End
    <3>3. Fresh(b) => Fresh(b)'
      BY <1>0, <2>2, <3>2, AppendNothing DEF Fresh
    <3> QED
      BY <2>2, <3>1, <3>3 DEF Served, ListPending
  <2>4. ASSUME NEW c \in clients \cap open, c \notin behind', c # b PROVE Served(c)'
    <3>1. c \notin behind
      BY <2>1, <2>4
    <3>2. Served(c)
      BY <2>4, <3>1 DEF ServedInv
    <3>3. Coming(c) => Coming(c)'
      BY <1>7, <2>2, <2>4, BrowsersAssumption DEF Coming, ReadLocked
    <3> QED
      BY <1>0, <2>2, <2>4, <3>2, <3>3 DEF Served, ListPending, Fresh
  <2> QED
    BY <2>2, <2>3, <2>4, <2>5 DEF ServedInv
<1> QED
  BY <1>1, <1>2, <1>3, <1>4, <1>5, <1>6, <1>7, <1>8, <1>9 DEF LoopStep

LEMMA InitInv == Init => DashboardInv
  BY InitType, BrowsersAssumption DEF Init, DashboardInv, LockInv, ServedInv

LEMMA Step == DashboardInv /\ [Next]_dashboardVars => DashboardInv'
<1> SUFFICES ASSUME DashboardInv, [Next]_dashboardVars PROVE DashboardInv'
  OBVIOUS
<1>1. TypeOK' /\ LockInv'
  BY TypeStep, LockStep DEF DashboardInv
<1>2. CASE UNCHANGED dashboardVars
  <2>1. UNCHANGED <<loopVars, clients, handler, list, open, buffer, table>>
        /\ behind' = behind
    BY <1>2 DEF dashboardVars, wireVars, pageVars
  <2> QED
    BY <1>1, <2>1, AllStillServed DEF DashboardInv
<1>3. ASSUME NEW b \in Browsers, Connect(b) \/ WritesAnswer(b) \/ HandlerStep(b)
      PROVE  ServedInv'
  BY <1>3, HandlerServes
<1>4. ASSUME NEW b \in Browsers, Page(b) PROVE ServedInv'
  BY <1>4, PageServes
<1>5. ASSUME UpdateMachine \/ Announce \/ UpdateOther \/ ChangeUntold \/ LoopStep
      PROVE  ServedInv'
  BY <1>5, LoopServes
<1> QED
  BY <1>1, <1>2, <1>3, <1>4, <1>5 DEF DashboardInv, Next

LEMMA InvFollow == DashboardInv => PagesFollow
<1> SUFFICES ASSUME DashboardInv, NEW b \in clients \cap open,
                    handler[b] \in {"reading", "answering"}, gateway = "reading",
                    buffer[b] = <<>>, b \notin behind
             PROVE  table[b] = Current
  BY DEF PagesFollow
<1>1. Served(b) /\ ~Coming(b) /\ ~ListPending(b)
  BY BrowsersAssumption DEF DashboardInv, ServedInv, Coming, ReadLocked, ListPending
<1>2. Fresh(b)
  BY <1>1 DEF Served
<1> QED
  BY <1>2, NothingLeft DEF Fresh

-----------------------------------------------------------------------------
(* Types, for every number of browsers, and that Broadcast never has a     *)
(* client to write to that the hub has forgotten.                          *)
THEOREM TypeCorrect == Spec => []TypeOK
<1>1. DashboardInv => TypeOK
  BY DEF DashboardInv
<1> QED
  BY InitInv, Step, <1>1, PTL DEF Spec

(* However many browsers connect, refresh, leave and panic, and whatever   *)
(* the store learns meanwhile: a page that has read all it was sent shows  *)
(* the facts and the labels of a machine, or behind says why not.          *)
THEOREM PagesUpToDate == Spec => []PagesFollow
  BY InitInv, Step, InvFollow, PTL DEF Spec
==============================================================================
