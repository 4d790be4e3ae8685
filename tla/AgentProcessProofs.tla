-------------------------- MODULE AgentProcessProofs --------------------------
(* Theorems about the agent process, for any set of messages, any number   *)
(* of events and dials.                                                    *)
EXTENDS AgentProcess, SequenceTheorems, TLAPS

-----------------------------------------------------------------------------
(* What is known of a message by its kind.                                 *)
LEMMA EventFields ==
  ASSUME NEW m \in Event
  PROVE  /\ m.kind \in {"input", "eof", "resize"} => m.id \in Ids
         /\ m.kind \in {"input", "eof"} => m.pty \in BOOLEAN
         /\ m.kind = "upload" => /\ m.inside \in BOOLEAN /\ m.overwrite \in BOOLEAN
                                 /\ m.size \in Nat
         /\ m.kind = "exit" => m.shell \in Slots
BY DEF Event, Message

LEMMA EventKinds ==
  ASSUME NEW m \in Event
  PROVE  m.kind \in {"input", "eof", "resize", "upload", "download", "exec",
                     "restart", "shutdown", "reconnect", "exit"}
BY DEF Event, Message

LEMMA MessageKinds ==
  ASSUME NEW m \in Messages
  PROVE  m \in Event /\ m.kind # "exit"
BY MessageAssumption DEF Event, Message

(* The events so far are kept when one more arrives.                       *)
LEMMA OneMore ==
  ASSUME NEW S, NEW s \in Seq(S), NEW e \in S
  PROVE  /\ Append(s, e) \in Seq(S)
         /\ Len(Append(s, e)) = Len(s) + 1
         /\ Append(s, e)[Len(s) + 1] = e
         /\ \A i \in 1..Len(s) : Append(s, e)[i] = s[i]
OBVIOUS

LEMMA WiderSeq ==
  ASSUME NEW m \in Nat, NEW n \in Nat, m <= n, NEW s \in Seq(1..m)
  PROVE  s \in Seq(1..n)
<1>1. \A i \in 1..Len(s) : s[i] \in 1..n
  OBVIOUS
<1> QED
  BY <1>1

(* A handler is at a place of its kind of message; what sessions, handlers *)
(* and streams refer to are terminals that were started; a shell starts in *)
(* the handler of its message and only once.                               *)
Terminal(k) ==
    /\ k \in 1..Len(got) /\ Kind(k) \in {"input", "eof"}
    /\ shell[k] # "none"

PlacesFit ==
    \A i \in 1..Len(got) :
        /\ pc[i] \in {"create", "put"} => Kind(i) \in {"input", "eof"}
        /\ pc[i] = "use" => Kind(i) \in {"input", "eof", "resize"}
        /\ pc[i] = "delete" => Kind(i) = "eof"
        /\ pc[i] \in {"open", "write"} => Kind(i) = "upload"
        /\ pc[i] = "running" => Kind(i) = "exec"
        /\ pc[i] = "close" => Kind(i) = "reconnect"
        /\ Kind(i) = "exit" => pc[i] = "done"

ShellsFit ==
    /\ \A s \in Ids : sessions[s] # 0 => Terminal(sessions[s])
    /\ \A i \in Slots : pc[i] = "use" => Terminal(local[i])
    /\ \A i \in Slots : pc[i] = "put" => Terminal(i)
    /\ \A i \in Slots : pc[i] = "create" => local[i] = 0
    /\ \A k \in streaming : Terminal(k)
    /\ \A i \in Slots : pc[i] \in {"none", "start", "create"} => shell[i] = "none"

FilesFit ==
    /\ Up => ~Exists \/ file \in Seq(1..Len(got))
    /\ \A i \in 1..Len(got) : pc[i] = "write" \/ Uploaded(i) => Exists
    /\ \A i \in Slots : answer[i] # "none" => pc[i] = "done"

StateInv == TypeOK /\ PlacesFit /\ ShellsFit /\ FilesFit

LEMMA SlotsOfEvents == TypeOK => \A j \in 1..Len(got) : j \in Slots
BY BoundAssumption DEF TypeOK, Slots

(* What the handler of event i needs to know of it.                        *)
LEMMA OwnEvent ==
  ASSUME TypeOK, PlacesFit, NEW i \in 1..Len(got)
  PROVE  /\ i \in Slots /\ got[i] \in Event
         /\ pc[i] \in {"create", "put", "use", "delete"} => got[i].id \in Ids
         /\ Kind(i) \in {"input", "eof", "resize"} => got[i].id \in Ids
         /\ Kind(i) = "upload" => got[i].size \in Nat
<1>1. i \in Slots /\ got[i] \in Event
  BY BoundAssumption DEF TypeOK, Slots
<1>2. /\ Kind(i) \in {"input", "eof", "resize"} => got[i].id \in Ids
      /\ Kind(i) = "upload" => got[i].size \in Nat
  BY <1>1, EventFields DEF Kind
<1> QED
  BY <1>1, <1>2 DEF PlacesFit

(* Appending to what a shell was given.                                    *)
LEMMA TypedMore ==
  ASSUME TypeOK, NEW k \in Slots, NEW i \in 1..Len(got)
  PROVE  [typed EXCEPT ![k] = Append(@, i)] \in [Slots -> Seq(1..Len(got))]
<1>1. Append(typed[k], i) \in Seq(1..Len(got))
  BY OneMore DEF TypeOK
<1> QED
  BY <1>1 DEF TypeOK

(* What WriteFile leaves: its own content, and what was longer before.     *)
LEMMA Written ==
  ASSUME NEW S, NEW i \in S, NEW size \in Nat, NEW f \in Seq(S)
  PROVE  [x \in 1..size |-> i] \o SubSeq(f, size + 1, Len(f)) \in Seq(S)
<1>1. [x \in 1..size |-> i] \in Seq(S)
  OBVIOUS
<1>2. SubSeq(f, size + 1, Len(f)) \in Seq(S)
  <2>1. CASE size + 1 <= Len(f)
    BY <2>1, SubSeqProperties
  <2>2. CASE size + 1 > Len(f)
    BY <2>2
  <2> QED
    BY <2>1, <2>2
<1> QED
  BY <1>1, <1>2, ConcatProperties

LEMMA WrittenFile ==
  ASSUME StateInv, NEW i \in 1..Len(got), Up, pc[i] = "write"
  PROVE  /\ Content(i) \o SubSeq(file, got[i].size + 1, Len(file)) \in Seq(0..MaxEvents)
         /\ file \in Seq(1..Len(got)) =>
              Content(i) \o SubSeq(file, got[i].size + 1, Len(file)) \in Seq(1..Len(got))
<1>1. got[i].size \in Nat /\ i \in 0..MaxEvents /\ file \in Seq(0..MaxEvents)
  <2>1. Kind(i) = "upload"
    BY DEF StateInv, PlacesFit
  <2>2. got[i].size \in Nat
    BY <2>1, OwnEvent DEF StateInv
  <2> QED
    BY <2>2, BoundAssumption DEF StateInv, TypeOK
<1> QED
  BY <1>1, Written, Zenon DEF Content, Contents

(* The steps for event i by which nothing arrives and the process goes on. *)
Inner(i) ==
    \/ Terminals(i) \/ Files(i) \/ StartScript(i) \/ AnswerScript(i)
    \/ Restart(i) \/ Shutdown(i) \/ ReadConn(i) \/ CloseConn(i)
    \/ Fork(i) \/ ScriptEnds(i) \/ ChildEnds(i) \/ StreamEnds(i) \/ Timeout(i)

LEMMA InnerType ==
  ASSUME StateInv, NEW i \in 1..Len(got), Inner(i)
  PROVE  TypeOK'
<1> USE DEF At, In, Up, Kind, Goto, Answer,
            handlerVars, terminalVars, fileVars, processVars, loopVars, pastVars
<1>0. /\ StateInv /\ i \in Slots
      /\ pc[i] \in {"create", "put", "use", "delete"} => got[i].id \in Ids
      /\ Kind(i) \in {"input", "eof", "resize"} => got[i].id \in Ids
      /\ Kind(i) = "upload" => got[i].size \in Nat
      /\ pc[i] = "use" => local[i] \in 1..Len(got) /\ local[i] \in Slots /\ shell[local[i]] # "none"
  BY OwnEvent, BoundAssumption DEF StateInv, ShellsFit, Terminal, TypeOK, Slots
<1>1. CASE Lookup(i)
  <2>1. sessions[got[i].id] \in 0..MaxEvents \cup 0..MaxDials
    BY <1>0, <1>1, BoundAssumption DEF Lookup, StateInv, TypeOK
  <2>2. pc' \in [Slots -> PCs] /\ \A j \in Slots : pc'[j] = "none" <=> j > Len(got)
    BY <1>0, <1>1 DEF Lookup, StateInv, TypeOK, PCs
  <2>3. local' \in [Slots -> 0..MaxEvents \cup 0..MaxDials]
    BY <1>0, <1>1, <2>1 DEF Lookup, StateInv, TypeOK
  <2> QED
    BY <1>0, <1>1, <2>2, <2>3 DEF Lookup, StateInv, TypeOK
<1>2. CASE NewSession(i)
  BY <1>0, <1>2 DEF NewSession, StateInv, ShellsFit, TypeOK, PCs
<1>19. CASE NoSession(i)
  BY <1>0, <1>19 DEF NoSession, StateInv, TypeOK, PCs
<1>3. CASE StartSession(i)
  <2>1. pc' \in [Slots -> PCs] /\ \A j \in Slots : pc'[j] = "none" <=> j > Len(got)
    BY <1>0, <1>3 DEF StartSession, StateInv, TypeOK, PCs
  <2>2. local' \in [Slots -> 0..MaxEvents \cup 0..MaxDials]
    BY <1>0, <1>3, BoundAssumption DEF StartSession, StateInv, TypeOK
  <2>3. sessions' \in [Ids -> 0..Len(got)]
    BY <1>0, <1>3 DEF StartSession, Put, StateInv, TypeOK
  <2>4. streaming' = streaming \cup {i} /\ shell' = shell /\ shell[i] # "none"
    BY <1>0, <1>3 DEF StartSession, StateInv, ShellsFit, Terminal
  <2>5. streaming' \subseteq {k \in Slots : shell'[k] # "none"}
    BY <1>0, <2>4 DEF StateInv, TypeOK
  <2> QED
    BY <1>0, <1>3, <2>1, <2>2, <2>3, <2>5 DEF StartSession, StateInv, TypeOK
<1>4. CASE WriteInput(i)
  <2>1. typed' \in [Slots -> Seq(1..Len(got))]
    <3>1. CASE shell[local[i]] = "alive"
      BY <1>0, <1>4, <3>1, TypedMore DEF WriteInput, Give, StateInv
    <3>2. CASE shell[local[i]] # "alive"
      BY <1>0, <1>4, <3>2 DEF WriteInput, Give, StateInv, TypeOK
    <3> QED
      BY <3>1, <3>2
  <2> QED
    BY <1>0, <1>4, <2>1 DEF WriteInput, StateInv, TypeOK, PCs
<1>5. CASE CloseSession(i)
  <2>1. /\ closed' = closed \cup {local[i]} /\ shell' = [shell EXCEPT ![local[i]] = "gone"]
        /\ local[i] \in Slots /\ streaming' = streaming
    BY <1>0, <1>5 DEF CloseSession, Close
  <2>2. /\ shell' \in [Slots -> {"none", "alive", "gone"}]
        /\ closed' \subseteq {k \in Slots : shell'[k] = "gone"}
        /\ streaming' \subseteq {k \in Slots : shell'[k] # "none"}
    BY <1>0, <2>1 DEF StateInv, TypeOK
  <2> QED
    BY <1>0, <1>5, <2>2 DEF CloseSession, StateInv, TypeOK, PCs
<1>6. CASE DeleteSession(i)
  <2>1. sessions' \in [Ids -> 0..Len(got)]
    BY <1>0, <1>6 DEF DeleteSession, StateInv, TypeOK
  <2> QED
    BY <1>0, <1>6, <2>1 DEF DeleteSession, StateInv, TypeOK, PCs
<1>7. CASE StreamEnds(i)
  BY <1>0, <1>7 DEF StreamEnds, StateInv, TypeOK
<1>8. CASE Stat(i)
  BY <1>0, <1>8 DEF Stat, StateInv, TypeOK, PCs
<1>9. CASE Truncate(i)
  <2>1. file' \in Seq(0..MaxEvents)
    BY <1>9 DEF Truncate
  <2> QED
    BY <1>0, <1>9, <2>1 DEF Truncate, StateInv, TypeOK, PCs
<1>10. CASE WriteFile(i)
  <2>1. file' \in Seq(0..MaxEvents)
    BY <1>0, <1>10, WrittenFile DEF WriteFile, StateInv
  <2> QED
    BY <1>0, <1>10, <2>1 DEF WriteFile, StateInv, TypeOK, PCs
<1>11. CASE Download(i)
  <2>1. fetched' \in [Slots -> Seq(1..Len(got))]
    BY <1>0, <1>11 DEF Download, Exists, StateInv, FilesFit, TypeOK
  <2> QED
    BY <1>0, <1>11, <2>1 DEF Download, StateInv, TypeOK, PCs
<1>12. CASE StartScript(i)
  BY <1>0, <1>12 DEF StartScript, StateInv, ShellsFit, TypeOK, PCs
<1>13. CASE AnswerScript(i)
  BY <1>0, <1>13 DEF AnswerScript, StateInv, TypeOK, PCs
<1>14. CASE Restart(i) \/ Shutdown(i)
  BY <1>0, <1>14 DEF Restart, Shutdown, StateInv, TypeOK, PCs
<1>15. CASE ReadConn(i)
  BY <1>0, <1>15 DEF ReadConn, StateInv, TypeOK, PCs
<1>16. CASE CloseConn(i)
  BY <1>0, <1>16 DEF CloseConn, StateInv, TypeOK, PCs
<1>17. CASE Fork(i) \/ ChildEnds(i)
  BY <1>0, <1>17 DEF Fork, ChildEnds, StateInv, TypeOK
<1>18. CASE ScriptEnds(i) \/ Timeout(i)
  <2>1. shell' = [shell EXCEPT ![i] = "gone"] /\ closed' = closed /\ streaming' = streaming
    BY <1>18 DEF ScriptEnds, Timeout, Kill
  <2>2. /\ shell' \in [Slots -> {"none", "alive", "gone"}]
        /\ closed' \subseteq {k \in Slots : shell'[k] = "gone"}
        /\ streaming' \subseteq {k \in Slots : shell'[k] # "none"}
    BY <1>0, <2>1 DEF StateInv, TypeOK
  <2> QED
    BY <1>0, <1>18, <2>2 DEF ScriptEnds, Timeout, StateInv, TypeOK
<1> QED
  BY <1>1, <1>2, <1>3, <1>4, <1>5, <1>6, <1>7, <1>8, <1>9, <1>10, <1>11, <1>12,
     <1>13, <1>14, <1>15, <1>16, <1>17, <1>18, <1>19 DEF Inner, Terminals, Files

(* A handler that is done is in place.                                     *)
LEMMA PlacesEnd ==
  ASSUME TypeOK, PlacesFit, NEW i \in Slots,
         \A j \in 1..Len(got) : j \in Slots,
         got' = got, pc' = [pc EXCEPT ![i] = "done"]
  PROVE  PlacesFit'
<1>1. pc'[i] = "done" /\ \A j \in 1..Len(got) : j # i => pc'[j] = pc[j]
  BY DEF TypeOK
<1> QED
  BY <1>1 DEF PlacesFit, Kind

LEMMA InnerPlaces ==
  ASSUME StateInv, NEW i \in 1..Len(got), Inner(i)
  PROVE  PlacesFit'
<1> USE DEF At, In, Kind, Goto, handlerVars, pastVars
<1>0. /\ TypeOK /\ PlacesFit /\ i \in Slots /\ got' = got
      /\ \A j \in 1..Len(got) : j \in Slots
  <2>1. got' = got
    BY DEF Inner, Terminals, Files, Lookup, NewSession, NoSession, StartSession, WriteInput,
           CloseSession, DeleteSession, Stat, Truncate, WriteFile, Download, StartScript,
           AnswerScript, Restart, Shutdown, ReadConn, CloseConn, Fork, ScriptEnds,
           ChildEnds, StreamEnds, Timeout
  <2> QED
    BY <2>1, SlotsOfEvents DEF StateInv
<1>1. CASE Lookup(i)
  BY <1>0, <1>1 DEF Lookup, PlacesFit, TypeOK
<1>8. CASE NewSession(i)
  BY <1>0, <1>8 DEF NewSession, PlacesFit, TypeOK
<1>9. CASE StartSession(i)
  BY <1>0, <1>9 DEF StartSession, PlacesFit, TypeOK
<1>7. CASE NoSession(i)
  BY <1>0, <1>7, PlacesEnd DEF NoSession
<1>6. CASE WriteInput(i) \/ CloseSession(i) \/ DeleteSession(i)
  BY <1>0, <1>6 DEF WriteInput, CloseSession, DeleteSession, PlacesFit, TypeOK
<1>2. CASE Files(i)
  <2>1. Kind(i) \in {"upload", "download"} /\ UNCHANGED got
    BY <1>0, <1>2 DEF Files, Stat, Truncate, WriteFile, Download, PlacesFit
  <2>2. /\ pc'[i] \in {"open", "write", "done"} /\ (pc'[i] # "done" => Kind(i) = "upload")
        /\ \A j \in 1..Len(got) : j # i => pc'[j] = pc[j]
    BY <1>0, <1>2 DEF Files, Stat, Truncate, WriteFile, Download, PlacesFit, TypeOK
  <2> QED
    BY <1>0, <2>1, <2>2 DEF PlacesFit
<1>3. CASE StartScript(i)
  BY <1>0, <1>3 DEF StartScript, PlacesFit, TypeOK
<1>10. CASE AnswerScript(i)
  BY <1>0, <1>10, PlacesEnd DEF AnswerScript
<1>4. CASE Restart(i) \/ Shutdown(i) \/ CloseConn(i)
  BY <1>0, <1>4, PlacesEnd DEF Restart, Shutdown, CloseConn
<1>11. CASE ReadConn(i)
  BY <1>0, <1>11 DEF ReadConn, PlacesFit, TypeOK
<1>5. CASE Fork(i) \/ ScriptEnds(i) \/ ChildEnds(i) \/ StreamEnds(i) \/ Timeout(i)
  BY <1>0, <1>5 DEF Fork, ScriptEnds, ChildEnds, StreamEnds, Timeout, PlacesFit
<1> QED
  BY <1>1, <1>2, <1>3, <1>4, <1>5, <1>6, <1>7, <1>8, <1>9, <1>10, <1>11
     DEF Inner, Terminals

(* Going to a place that has nothing to do with shells.                    *)
LEMMA ShellsKept ==
  ASSUME TypeOK, ShellsFit, NEW i \in 1..Len(got), NEW to,
         pc' = [pc EXCEPT ![i] = to], to \notin {"none", "start", "create", "put", "use"},
         \A j \in Slots \ {i} : local'[j] = local[j],
         \A s \in Ids : sessions'[s] \in {0, sessions[s]},
         UNCHANGED <<got, shell, streaming>>
  PROVE  ShellsFit'
<1>1. \A k : Terminal(k) => Terminal(k)'
  BY DEF Terminal, Kind
<1>2. \A j \in Slots : pc'[j] \in {"none", "start", "create", "put", "use"} =>
                         j # i /\ pc'[j] = pc[j]
  BY SlotsOfEvents DEF TypeOK
<1> QED
  BY <1>1, <1>2 DEF ShellsFit

(* A shell that ends was started.                                          *)
LEMMA ShellsEnd ==
  ASSUME TypeOK, ShellsFit, NEW k \in Slots, shell[k] # "none",
         shell' = [shell EXCEPT ![k] = "gone"],
         UNCHANGED <<got, pc, local, sessions, streaming>>
  PROVE  ShellsFit'
BY DEF TypeOK, ShellsFit, Terminal, Kind

LEMMA InnerShells ==
  ASSUME StateInv, NEW i \in 1..Len(got), Inner(i)
  PROVE  ShellsFit'
<1> USE DEF At, In, Kind, Goto, handlerVars, terminalVars, pastVars
<1>0. /\ StateInv /\ TypeOK /\ PlacesFit /\ ShellsFit /\ i \in Slots
      /\ \A j \in 1..Len(got) : j \in Slots
      /\ pc[i] \in {"create", "put", "use", "delete"} => got[i].id \in Ids
      /\ Kind(i) \in {"input", "eof", "resize"} => got[i].id \in Ids
  BY OwnEvent, SlotsOfEvents DEF StateInv
<1>1. CASE Lookup(i)
  BY <1>0, <1>1 DEF Lookup, ShellsFit, Terminal, TypeOK
<1>2. CASE NewSession(i)
  BY <1>0, <1>2 DEF NewSession, ShellsFit, PlacesFit, Terminal, TypeOK
<1>3. CASE StartSession(i)
  <2>1. Terminal(i) /\ Terminal(i)'
    BY <1>0, <1>3 DEF StartSession, ShellsFit, Terminal
  <2>2. \A k : Terminal(k) => Terminal(k)'
    BY <1>3 DEF StartSession, Terminal
  <2>3. /\ \A s \in Ids : sessions'[s] \in {sessions[s], i}
        /\ \A j \in Slots : j # i => local'[j] = local[j] /\ pc'[j] = pc[j]
        /\ local'[i] = i /\ pc'[i] = "use" /\ streaming' = streaming \cup {i}
        /\ shell' = shell
    BY <1>0, <1>3 DEF StartSession, Put, TypeOK
  <2> QED
    BY <1>0, <2>1, <2>2, <2>3 DEF ShellsFit
<1>4. CASE WriteInput(i)
  BY <1>0, <1>4, ShellsKept DEF WriteInput
<1>14. CASE NoSession(i)
  BY <1>0, <1>14, ShellsKept DEF NoSession
<1>12. CASE DeleteSession(i)
  <2>1. \A s \in Ids : sessions'[s] \in {0, sessions[s]}
    BY <1>0, <1>12 DEF DeleteSession, TypeOK
  <2> QED
    BY <1>0, <1>12, <2>1, ShellsKept DEF DeleteSession
<1>5. CASE CloseSession(i)
  BY <1>0, <1>5 DEF CloseSession, Close, ShellsFit, Terminal, TypeOK
<1>6. CASE StartScript(i)
  <2>1. Kind(i) = "exec"
    BY <1>6 DEF StartScript
  <2>2. /\ \A j \in Slots : j # i => pc'[j] = pc[j] /\ shell'[j] = shell[j]
        /\ pc'[i] = "running" /\ UNCHANGED <<got, local, sessions, streaming>>
    BY <1>0, <1>6 DEF StartScript, TypeOK
  <2>3. \A k : Terminal(k) => Terminal(k)'
    BY <1>0, <2>1, <2>2 DEF Terminal
  <2> QED
    BY <1>0, <2>2, <2>3 DEF ShellsFit
<1>7. CASE ScriptEnds(i) \/ Timeout(i)
  <2>1. /\ shell[i] # "none" /\ shell' = [shell EXCEPT ![i] = "gone"]
        /\ UNCHANGED <<got, pc, local, sessions, streaming>>
    BY <1>7 DEF ScriptEnds, Timeout, Kill
  <2> QED
    BY <1>0, <2>1, ShellsEnd
<1>8. CASE StreamEnds(i)
  <2>1. UNCHANGED <<got, pc, local, sessions, shell>> /\ streaming' \subseteq streaming
    BY <1>8 DEF StreamEnds
  <2> QED
    BY <1>0, <2>1 DEF ShellsFit, Terminal
<1>9. CASE Files(i)
  BY <1>0, <1>9, ShellsKept DEF Files, Stat, Truncate, WriteFile, Download
<1>10. CASE AnswerScript(i) \/ Restart(i) \/ Shutdown(i) \/ CloseConn(i)
  BY <1>0, <1>10, ShellsKept DEF AnswerScript, Restart, Shutdown, CloseConn
<1>13. CASE ReadConn(i)
  <2>1. \A j \in Slots \ {i} : local'[j] = local[j]
    BY <1>0, <1>13 DEF ReadConn, TypeOK
  <2> QED
    BY <1>0, <1>13, <2>1, ShellsKept DEF ReadConn
<1>11. CASE Fork(i) \/ ChildEnds(i)
  BY <1>0, <1>11 DEF Fork, ChildEnds, ShellsFit, Terminal
<1> QED
  BY <1>1, <1>2, <1>3, <1>4, <1>5, <1>6, <1>7, <1>8, <1>9, <1>10, <1>11,
     <1>12, <1>13, <1>14 DEF Inner, Terminals

LEMMA NotNoFile ==
  ASSUME NEW n \in Nat, NEW f \in Seq(1..n)
  PROVE  f # NoFile
<1>1. NoFile[1] = 0 /\ Len(NoFile) = 1
  BY DEF NoFile
<1> QED
  BY <1>1

LEMMA InnerFiles ==
  ASSUME StateInv, NEW i \in 1..Len(got), Inner(i)
  PROVE  FilesFit'
<1> USE DEF At, In, Up, Goto, handlerVars, fileVars, processVars, pastVars
<1>0. /\ StateInv /\ TypeOK /\ PlacesFit /\ FilesFit /\ i \in Slots
      /\ \A j \in 1..Len(got) : j \in Slots
  BY SlotsOfEvents DEF StateInv
<1>1. CASE Truncate(i)
  <2>1. /\ file' = <<>> /\ <<>> \in Seq(1..Len(got)) /\ got' = got /\ answer' = answer
        /\ pc[i] = "open"
    BY <1>1 DEF Truncate
  <2>2. Exists'
    BY <2>1 DEF Exists, NoFile
  <2>3. \A j \in Slots : pc[j] = "done" => pc'[j] = "done"
    BY <1>0, <1>1 DEF Truncate, TypeOK
  <2> QED
    BY <1>0, <2>1, <2>2, <2>3 DEF FilesFit
<1>2. CASE WriteFile(i)
  <2>1. file \in Seq(1..Len(got)) /\ got' = got
    BY <1>0, <1>2 DEF WriteFile, FilesFit
  <2>2. file' \in Seq(1..Len(got))
    BY <1>0, <1>2, <2>1, WrittenFile DEF WriteFile
  <2>3. Exists'
    <3>1. file' # NoFile
      BY <1>0, <2>2, NotNoFile DEF TypeOK
    <3> QED
      BY <3>1 DEF Exists, NoFile
  <2>4. \A j \in Slots : answer'[j] # "none" => pc'[j] = "done"
    BY <1>0, <1>2 DEF WriteFile, Answer, TypeOK, FilesFit
  <2> QED
    BY <2>1, <2>2, <2>3, <2>4 DEF FilesFit
<1>3. CASE Stat(i) \/ Download(i)
  <2>1. UNCHANGED <<got, file, status>>
    BY <1>3 DEF Stat, Download
  <2>2. /\ \A j \in Slots : pc'[j] = "write" => pc[j] = "write"
        /\ \A j \in Slots : answer'[j] = "ok" => answer[j] = "ok" \/ Kind(j) = "download"
    BY <1>0, <1>3 DEF Stat, Download, Answer, TypeOK
  <2>3. \A j \in Slots : answer'[j] # "none" => pc'[j] = "done"
    <3>1. pc[i] = "start" /\ answer[i] = "none"
      BY <1>0, <1>3 DEF Stat, Download, FilesFit
    <3>2. /\ \A j \in Slots \ {i} : answer'[j] = answer[j] /\ pc'[j] = pc[j]
          /\ answer'[i] = answer[i] \/ pc'[i] = "done"
      BY <1>0, <1>3 DEF Stat, Download, Answer, TypeOK
    <3> QED
      BY <1>0, <3>1, <3>2 DEF FilesFit
  <2> QED
    BY <1>0, <2>1, <2>2, <2>3 DEF FilesFit, Exists, Uploaded, Kind
<1>4. CASE StartScript(i) \/ AnswerScript(i)
  <2>1. UNCHANGED <<got, file, status>> /\ Kind(i) = "exec"
    BY <1>0, <1>4 DEF StartScript, AnswerScript, Kind, PlacesFit
  <2>2. /\ \A j \in Slots : pc'[j] = "write" => pc[j] = "write"
        /\ \A j \in Slots : answer'[j] = "ok" => answer[j] = "ok" \/ j = i
        /\ \A j \in Slots : answer'[j] # "none" => pc'[j] = "done"
    BY <1>0, <1>4 DEF StartScript, AnswerScript, Answer, TypeOK, FilesFit
  <2> QED
    BY <1>0, <2>1, <2>2 DEF FilesFit, Exists, Uploaded, Kind
<1>5. CASE ~Files(i) /\ ~StartScript(i) /\ ~AnswerScript(i)
  <2>1. UNCHANGED <<got, file, status, answer>>
    BY <1>5 DEF Inner, Terminals, Lookup, NewSession, NoSession, StartSession, WriteInput,
           CloseSession, DeleteSession, Restart, Shutdown, ReadConn, CloseConn, Fork,
           ScriptEnds, ChildEnds, StreamEnds, Timeout
  <2>2. \A j \in Slots : /\ pc'[j] = "write" => pc[j] = "write"
                         /\ pc[j] = "done" => pc'[j] = "done"
    <3>1. CASE Terminals(i)
      BY <1>0, <3>1 DEF Terminals, Lookup, NewSession, NoSession, StartSession, WriteInput,
         CloseSession, DeleteSession, TypeOK
    <3>2. CASE Restart(i) \/ Shutdown(i) \/ ReadConn(i) \/ CloseConn(i)
      BY <1>0, <3>2 DEF Restart, Shutdown, ReadConn, CloseConn, TypeOK
    <3>3. CASE Fork(i) \/ ScriptEnds(i) \/ ChildEnds(i) \/ StreamEnds(i) \/ Timeout(i)
      BY <3>3 DEF Fork, ScriptEnds, ChildEnds, StreamEnds, Timeout
    <3> QED
      BY <1>5, <3>1, <3>2, <3>3 DEF Inner
  <2>3. \A j \in Slots : answer'[j] # "none" => pc'[j] = "done"
    BY <1>0, <2>1, <2>2 DEF FilesFit
  <2> QED
    BY <1>0, <2>1, <2>2, <2>3 DEF FilesFit, Exists, Uploaded, Kind
<1> QED
  BY <1>1, <1>2, <1>3, <1>4, <1>5 DEF Files


-----------------------------------------------------------------------------
(* Something arrives.                                                      *)
LEMMA Arrives ==
  ASSUME StateInv, NEW e \in Event, Len(got) < MaxEvents, got' = Append(got, e)
  PROVE  /\ got' \in Seq(Event) /\ Len(got') = Len(got) + 1 /\ Len(got') <= MaxEvents
         /\ got'[Len(got')] = e /\ Len(got') \in Slots
         /\ \A i \in 1..Len(got) : got'[i] = got[i]
         /\ \A s : s \in Seq(1..Len(got)) => s \in Seq(1..Len(got'))
<1>1. Len(got) \in Nat /\ got \in Seq(Event)
  BY DEF StateInv, TypeOK
<1>2. /\ got' \in Seq(Event) /\ Len(got') = Len(got) + 1
      /\ got'[Len(got) + 1] = e /\ \A i \in 1..Len(got) : got'[i] = got[i]
  BY <1>1, OneMore
<1>3. \A s : s \in Seq(1..Len(got)) => s \in Seq(1..Len(got'))
  BY <1>1, <1>2, WiderSeq
<1> QED
  BY <1>1, <1>2, <1>3, BoundAssumption DEF Slots

LEMMA ArrivalState ==
  ASSUME StateInv, NEW e \in Event, Len(got) < MaxEvents, got' = Append(got, e), Up,
         NEW to \in {"start", "done"}, e.kind = "exit" => to = "done",
         pc' = [pc EXCEPT ![Len(got) + 1] = to],
         NEW K \in SUBSET streaming,
         shell' = [k \in Slots |-> IF k \in K THEN "gone" ELSE shell[k]],
         calm' \in BOOLEAN, late' \subseteq late \cup {Len(got) + 1},
         UNCHANGED <<local, sessions, closed, streaming, typed, children, fileVars,
                     processVars, loopVars>>
  PROVE  StateInv'
<1>n. PICK n : n = Len(got) + 1
  OBVIOUS
<1>0. /\ got' \in Seq(Event) /\ Len(got') = n /\ n <= MaxEvents /\ n \in Slots
      /\ got'[n] = e /\ Len(got) \in Nat
      /\ \A i \in 1..Len(got) : got'[i] = got[i] /\ i # n /\ i \in Slots
  <2>1. /\ got' \in Seq(Event) /\ Len(got') = n /\ n <= MaxEvents /\ n \in Slots
        /\ got'[n] = e /\ \A i \in 1..Len(got) : got'[i] = got[i]
    BY <1>n, Arrives
  <2>2. TypeOK /\ \A i \in 1..Len(got) : i \in Slots
    BY SlotsOfEvents DEF StateInv
  <2>3. Len(got) \in Nat
    BY <2>2 DEF TypeOK
  <2> QED
    BY <1>n, <2>1, <2>2, <2>3
<1>1. \A s : s \in Seq(1..Len(got)) => s \in Seq(1..n)
  BY <1>0, <1>n, Arrives
<1>2. TypeOK'
  <2>1. pc' \in [Slots -> PCs] /\ \A i \in Slots : pc'[i] = "none" <=> i > n
    BY <1>0 DEF StateInv, TypeOK, PCs, Slots
  <2>2. sessions' \in [Ids -> 0..n]
    BY <1>0 DEF StateInv, TypeOK
  <2>3. typed' \in [Slots -> Seq(1..n)] /\ fetched' \in [Slots -> Seq(1..n)]
    BY <1>1 DEF StateInv, TypeOK, fileVars
  <2>4. /\ shell' \in [Slots -> {"none", "alive", "gone"}]
        /\ closed' \subseteq {k \in Slots : shell'[k] = "gone"}
        /\ streaming' \subseteq {k \in Slots : shell'[k] # "none"}
    BY DEF StateInv, TypeOK
  <2>5. late' \subseteq 1..n
    <3>1. late \subseteq 1..Len(got)
      BY DEF StateInv, TypeOK
    <3> QED
      BY <1>0, <3>1
  <2> QED
    BY <1>0, <2>1, <2>2, <2>3, <2>4, <2>5
       DEF StateInv, TypeOK, fileVars, processVars, loopVars
<1>3. PlacesFit'
  <2>1. \A i \in 1..Len(got) : pc'[i] = pc[i] /\ Kind(i)' = Kind(i)
    BY <1>0 DEF StateInv, TypeOK, Kind
  <2>2. pc'[n] = to
    BY <1>0 DEF StateInv, TypeOK
  <2>3. Kind(n)' = e.kind
    BY <1>0 DEF Kind
  <2>4. \A i \in 1..Len(got') : i = n \/ i \in 1..Len(got)
    BY <1>0
  <2> QED
    BY <2>1, <2>2, <2>3, <2>4 DEF StateInv, PlacesFit
<1>4. ShellsFit'
  <2>1. \A k : Terminal(k) => Terminal(k)'
    <3>1. \A k \in 1..Len(got) : Kind(k)' = Kind(k) /\ k \in 1..Len(got') /\ k \in Slots
      BY <1>0, <1>n DEF Kind
    <3>2. \A k \in Slots : shell[k] # "none" => shell'[k] # "none"
      OBVIOUS
    <3> QED
      BY <3>1, <3>2 DEF Terminal
  <2>2. \A i \in Slots : pc'[i] \in {"use", "put", "create"} => pc'[i] = pc[i]
    BY <1>0 DEF StateInv, TypeOK
  <2>3. \A i \in Slots : pc'[i] \in {"none", "start", "create"} =>
                            pc[i] \in {"none", "start", "create"}
    <3>1. pc[n] = "none"
      BY <1>0 DEF StateInv, TypeOK
    <3> QED
      BY <1>0, <3>1 DEF StateInv, TypeOK
  <2>4. \A i \in Slots : shell[i] = "none" => shell'[i] = "none"
    BY DEF StateInv, TypeOK
  <2> QED
    BY <2>1, <2>2, <2>3, <2>4 DEF StateInv, ShellsFit
<1>5. FilesFit'
  <2>1. Up /\ (~Exists \/ file \in Seq(1..n)) /\ UNCHANGED <<file, answer, status>>
    BY <1>1 DEF StateInv, FilesFit, fileVars, processVars
  <2>2. \A i \in 1..Len(got) : pc'[i] = pc[i] /\ Uploaded(i)' = Uploaded(i)
    BY <1>0, <2>1 DEF StateInv, TypeOK, Kind, Uploaded
  <2>3. pc'[n] # "write"
    BY <1>0 DEF StateInv, TypeOK
  <2>4. answer[n] = "none" /\ answer'[n] = "none"
    BY <1>0, <2>1 DEF StateInv, TypeOK, FilesFit
  <2>5. \A i \in Slots : answer'[i] # "none" => pc'[i] = "done"
    BY <1>0, <2>1, <2>4 DEF StateInv, TypeOK, FilesFit
  <2>6. \A i \in 1..Len(got') : i = n \/ i \in 1..Len(got)
    BY <1>0
  <2>7. Exists' = Exists /\ Up' = Up
    BY <2>1 DEF Exists, Up
  <2> QED
    BY <1>0, <2>1, <2>2, <2>3, <2>4, <2>5, <2>6, <2>7 DEF StateInv, FilesFit, Uploaded
<1> QED
  BY <1>2, <1>3, <1>4, <1>5 DEF StateInv
LEMMA ReceiveState ==
  ASSUME StateInv, NEW m \in Messages, Receive(m)
  PROVE  StateInv'
<1> USE DEF Receive, Goto, Up, terminalVars, pastVars
<1>1. m \in Event /\ m.kind # "exit"
  BY MessageKinds
<1>2. shell' = [k \in Slots |-> IF k \in {} THEN "gone" ELSE shell[k]]
  BY DEF StateInv, TypeOK
<1>3. /\ calm' \in BOOLEAN /\ late' \subseteq late \cup {Len(got) + 1}
      /\ Len(got) < MaxEvents /\ got' = Append(got, m) /\ Up
      /\ pc' = [pc EXCEPT ![Len(got) + 1] = "start"]
      /\ UNCHANGED <<local, sessions, closed, streaming, typed, children, fileVars,
                     processVars, loopVars>>
  BY DEF StateInv, TypeOK
<1>4. {} \in SUBSET streaming /\ "start" \in {"start", "done"}
  OBVIOUS
<1> HIDE DEF Receive, Goto, Up, terminalVars, pastVars
<1> QED
  BY <1>1, <1>2, <1>3, <1>4, ArrivalState

LEMMA ShellExitsState ==
  ASSUME StateInv, NEW k \in Slots, ShellExits(k)
  PROVE  StateInv'
<1> DEFINE e == [kind |-> "exit", shell |-> k]
<1>1. e \in Event /\ e.kind = "exit"
  BY DEF Event
<1>2. {k} \in SUBSET streaming
  BY DEF ShellExits
<1>3. shell' = [j \in Slots |-> IF j \in {k} THEN "gone" ELSE shell[j]]
  BY DEF ShellExits, StateInv, TypeOK
<1>4. /\ calm' \in BOOLEAN /\ late' \subseteq late \cup {Len(got) + 1}
      /\ Len(got) < MaxEvents /\ got' = Append(got, e) /\ Up
      /\ pc' = [pc EXCEPT ![Len(got) + 1] = "done"]
      /\ UNCHANGED <<local, sessions, closed, streaming, typed, children, fileVars,
                     processVars, loopVars>>
  BY DEF ShellExits, Goto, StateInv, TypeOK
<1> HIDE DEF e
<1> QED
  BY <1>1, <1>2, <1>3, <1>4, ArrivalState

(* A process that has seen nothing yet, or that has ended.                 *)
Fresh ==
    /\ got = <<>> /\ calm = TRUE /\ late = {}
    /\ pc = [i \in Slots |-> "none"] /\ local = [i \in Slots |-> 0]
    /\ sessions = [s \in Ids |-> 0] /\ shell = [i \in Slots |-> "none"]
    /\ closed = {} /\ streaming = {} /\ children = {}
    /\ typed = [i \in Slots |-> <<>>] /\ fetched = [i \in Slots |-> <<>>]
    /\ file \in Seq(0..MaxEvents) /\ (Up => ~Exists)
    /\ answer = [i \in Slots |-> "none"]
    /\ status \in {"up", "exited", "panicked"} /\ stopped = FALSE /\ exiting = FALSE
    /\ loop = "check" /\ dials = 0 /\ dialsStopped = 0

LEMMA FreshState == Fresh => StateInv
<1> SUFFICES ASSUME Fresh PROVE StateInv
  OBVIOUS
<1>1. /\ got \in Seq(Event) /\ Len(got) = 0 /\ Len(got) \in Nat
      /\ \A S : <<>> \in Seq(S)
  BY DEF Fresh
<1>2. TypeOK
  <2>1. \A i \in Slots : pc[i] = "none" <=> i > Len(got)
    BY <1>1, BoundAssumption DEF Fresh, Slots
  <2>2. pc \in [Slots -> PCs] /\ local \in [Slots -> 0..MaxEvents \cup 0..MaxDials]
    BY BoundAssumption DEF Fresh, PCs
  <2>3. typed \in [Slots -> Seq(1..Len(got))] /\ fetched \in [Slots -> Seq(1..Len(got))]
    BY <1>1 DEF Fresh
  <2>4. sessions \in [Ids -> 0..Len(got)]
    BY <1>1 DEF Fresh
  <2>5. /\ shell \in [Slots -> {"none", "alive", "gone"}]
        /\ answer \in [Slots -> {"none", "ok", "refused"}]
        /\ dials \in 0..MaxDials /\ dialsStopped \in 0..dials
    BY BoundAssumption DEF Fresh
  <2>6. /\ closed \subseteq {k \in Slots : shell[k] = "gone"} /\ children \subseteq Slots
        /\ streaming \subseteq {k \in Slots : shell[k] # "none"}
        /\ late \subseteq 1..Len(got) /\ Len(got) <= MaxEvents
        /\ loop \in {"check", "dialling", "serving", "returned"}
    BY <1>1, BoundAssumption DEF Fresh
  <2>8. stopped \in BOOLEAN /\ exiting \in BOOLEAN /\ calm \in BOOLEAN
    BY Zenon DEF Fresh
  <2>7. got \in Seq(Event) /\ file \in Seq(0..MaxEvents)
        /\ status \in {"up", "exited", "panicked"}
    BY <1>1 DEF Fresh
  <2> QED
    BY <2>1, <2>2, <2>3, <2>4, <2>5, <2>6, <2>7, <2>8 DEF TypeOK
<1>3. PlacesFit /\ ShellsFit /\ FilesFit
  BY <1>1 DEF Fresh, PlacesFit, ShellsFit, FilesFit
<1> QED
  BY <1>2, <1>3 DEF StateInv

LEMMA InitState == Init => Fresh /\ StateInv
<1> SUFFICES ASSUME Init PROVE Fresh
  BY FreshState
<1>1. NoFile \in Seq(0..MaxEvents)
  BY BoundAssumption DEF NoFile
<1> QED
  BY <1>1 DEF Init, Exists, Fresh

LEMMA EndsState ==
  ASSUME StateInv, NEW how \in {"exited", "panicked"}, Ends(how)
  PROVE  Fresh' /\ ~Up' /\ StateInv'
<1>1. file \in Seq(0..MaxEvents)
  BY DEF StateInv, TypeOK
<1>2. ~Up'
  BY DEF Ends, Up
<1>3. Fresh'
  BY <1>1, <1>2 DEF Ends, Fresh
<1>4. Fresh' => StateInv'
  BY FreshState, PTL
<1> QED
  BY <1>2, <1>3, <1>4

(* connectLoop touches nothing else.                                       *)
LoopStep == ConnectLoop \/ Dial \/ DialFails \/ ReadError

LEMMA LoopState ==
  ASSUME StateInv, LoopStep
  PROVE  StateInv' /\ UNCHANGED <<handlerVars, terminalVars, children, fileVars,
                                  processVars, pastVars>>
<1> USE DEF handlerVars, terminalVars, fileVars, processVars, pastVars
<1>1. /\ UNCHANGED <<handlerVars, terminalVars, children, fileVars, processVars, pastVars>>
      /\ loop' \in {"check", "dialling", "serving", "returned"}
      /\ dials' \in 0..MaxDials /\ dialsStopped' \in 0..dials'
  BY BoundAssumption
     DEF LoopStep, ConnectLoop, LoopCheck, Dial, DialFails, ReadError, StateInv, TypeOK
<1>2. TypeOK'
  BY <1>1 DEF StateInv, TypeOK
<1>3. PlacesFit' /\ ShellsFit' /\ FilesFit'
  BY <1>1 DEF StateInv, PlacesFit, ShellsFit, FilesFit, Kind, Terminal, Exists, Up, Uploaded
<1> QED
  BY <1>1, <1>2, <1>3 DEF StateInv

(* Every step, by what it does to the events.                              *)
Ending == \E how \in {"exited", "panicked"} : Up /\ Ends(how)

LEMMA NextSteps ==
  ASSUME StateInv, Next
  PROVE  \/ \E m \in Messages : Receive(m)
         \/ \E i \in 1..Len(got) : Inner(i)
         \/ \E k \in Slots : ShellExits(k)
         \/ Ending \/ LoopStep
<1>1. \A i \in 1..Len(got) : i \in Slots
  BY SlotsOfEvents DEF StateInv
<1>2. Exit \/ Signal \/ (\E i \in Slots : ShutdownPanics(i)) => Ending
  BY DEF Exit, Signal, ShutdownPanics, At, In, Ending
<1>3. \A i : Handler(i) \/ World(i) \/ StreamEnds(i) \/ Timeout(i)
               => Inner(i) \/ ShellExits(i) \/ ShutdownPanics(i)
  BY DEF Handler, World, Inner, Commands
<1> QED
  BY <1>1, <1>2, <1>3 DEF Next, LoopStep

LEMMA StateKept == StateInv /\ [Next]_agentVars => StateInv'
<1> SUFFICES ASSUME StateInv, [Next]_agentVars PROVE StateInv'
  OBVIOUS
<1>1. CASE \E m \in Messages : Receive(m)
  BY <1>1, ReceiveState
<1>2. CASE \E i \in 1..Len(got) : Inner(i)
  BY <1>2, InnerType, InnerPlaces, InnerShells, InnerFiles DEF StateInv
<1>3. CASE \E k \in Slots : ShellExits(k)
  BY <1>3, ShellExitsState
<1>4. CASE Ending
  BY <1>4, EndsState DEF Ending
<1>5. CASE LoopStep
  BY <1>5, LoopState
<1>6. CASE UNCHANGED agentVars
  BY <1>6 DEF StateInv, TypeOK, PlacesFit, ShellsFit, FilesFit, Kind, Terminal, Exists,
     Up, Uploaded, agentVars, handlerVars, terminalVars, fileVars, processVars, loopVars,
     pastVars
<1> QED
  BY <1>1, <1>2, <1>3, <1>4, <1>5, <1>6, NextSteps

(* Sessions, shells, handlers and files keep to their types; a session in  *)
(* the map is a shell of the process, and only what has ended is closed.   *)
THEOREM TypeCorrect == Spec => []TypeOK
<1>1. Spec => []StateInv
  BY InitState, StateKept, PTL DEF Spec
<1>2. StateInv => TypeOK
  BY DEF StateInv
<1> QED
  BY <1>1, <1>2, PTL

-----------------------------------------------------------------------------
(* Dials: the loop looks at stopCh before each of them.                    *)
DialInv ==
    /\ ~stopped => dialsStopped = 0
    /\ loop = "dialling" => dialsStopped = 0
    /\ dialsStopped <= 1

LEMMA InnerDials ==
  ASSUME StateInv, DialInv, NEW i \in 1..Len(got), Inner(i)
  PROVE  DialInv'
<1> USE DEF At, In, processVars, loopVars
<1>1. /\ dialsStopped' = dialsStopped /\ (stopped => stopped')
      /\ loop' = "dialling" => loop = "dialling"
  <2>1. CASE Terminals(i)
    BY <2>1 DEF Terminals, Lookup, NewSession, NoSession, StartSession, WriteInput, CloseSession,
       DeleteSession
  <2>2. CASE Files(i)
    BY <2>2 DEF Files, Stat, Truncate, WriteFile, Download
  <2>3. CASE StartScript(i) \/ AnswerScript(i) \/ Restart(i) \/ Shutdown(i) \/ ReadConn(i)
             \/ CloseConn(i)
    BY <2>3 DEF StartScript, AnswerScript, Restart, Shutdown, ReadConn, CloseConn
  <2>4. CASE Fork(i) \/ ScriptEnds(i) \/ ChildEnds(i) \/ StreamEnds(i) \/ Timeout(i)
    BY <2>4 DEF Fork, ScriptEnds, ChildEnds, StreamEnds, Timeout
  <2> QED
    BY <2>1, <2>2, <2>3, <2>4 DEF Inner
<1> QED
  BY <1>1 DEF DialInv

LEMMA LoopDials ==
  ASSUME StateInv, DialInv, LoopStep
  PROVE  DialInv'
<1> USE DEF DialInv, processVars
<1>1. CASE ConnectLoop
  BY <1>1 DEF ConnectLoop, LoopCheck
<1>2. CASE Dial
  BY <1>2 DEF Dial
<1>3. CASE DialFails \/ ReadError
  BY <1>3 DEF DialFails, ReadError
<1> QED
  BY <1>1, <1>2, <1>3 DEF LoopStep

LEMMA DialsKept == StateInv /\ DialInv /\ [Next]_agentVars => DialInv'
<1> SUFFICES ASSUME StateInv, DialInv, [Next]_agentVars PROVE DialInv'
  OBVIOUS
<1>1. CASE \E m \in Messages : Receive(m)
  BY <1>1 DEF Receive, DialInv, processVars, loopVars
<1>2. CASE \E i \in 1..Len(got) : Inner(i)
  BY <1>2, InnerDials
<1>3. CASE \E k \in Slots : ShellExits(k)
  BY <1>3 DEF ShellExits, DialInv, processVars, loopVars
<1>4. CASE Ending
  BY <1>4 DEF Ending, Ends, DialInv
<1>5. CASE LoopStep
  BY <1>5, LoopDials
<1>6. CASE UNCHANGED agentVars
  BY <1>6 DEF agentVars, processVars, loopVars, DialInv
<1> QED
  BY <1>1, <1>2, <1>3, <1>4, <1>5, <1>6, NextSteps

(* A dial that was under way when stopCh was closed is the last one.       *)
THEOREM DialsAfterStop == Spec => []AtMostOneDialAfterStop
<1>1. Init => DialInv
  BY DEF Init, DialInv
<1>2. DialInv => AtMostOneDialAfterStop
  BY DEF DialInv, AtMostOneDialAfterStop
<1> QED
  BY <1>1, <1>2, InitState, StateKept, DialsKept, PTL DEF Spec

-----------------------------------------------------------------------------
(* Uploads: a message is late when the file is there for good; an upload   *)
(* that may not overwrite is then refused by Stat.                         *)
UploadInv ==
    /\ late # {} => Exists
    /\ \A j \in late : Kind(j) = "upload" /\ (pc[j] \in {"open", "write"} \/ answer[j] = "ok")
                         => got[j].overwrite

LEMMA InnerUploads ==
  ASSUME StateInv, UploadInv, NEW i \in 1..Len(got), Inner(i)
  PROVE  UploadInv'
<1> USE DEF At, In, Up, Kind, Goto, Answer, terminalVars, fileVars, processVars, pastVars
<1>0. /\ TypeOK /\ PlacesFit /\ i \in Slots /\ \A j \in 1..Len(got) : j \in Slots
      /\ late \subseteq 1..Len(got)
  BY SlotsOfEvents DEF StateInv, TypeOK
<1>1. CASE Files(i)
  <2>1. got' = got /\ late' = late /\ (Exists => Exists')
    <3>1. CASE Truncate(i)
      BY <1>0, <3>1 DEF Truncate, Exists, NoFile
    <3>2. CASE WriteFile(i)
      <4>1. file \in Seq(1..Len(got))
        BY <3>2 DEF WriteFile, StateInv, FilesFit
      <4>2. file' \in Seq(1..Len(got))
        BY <3>2, <4>1, WrittenFile DEF WriteFile
      <4>3. file' # NoFile
        BY <1>0, <4>2, NotNoFile DEF TypeOK
      <4> QED
        BY <3>2, <4>3 DEF WriteFile, Exists, NoFile
    <3>3. CASE Stat(i) \/ Download(i)
      BY <3>3 DEF Stat, Download, Exists
    <3> QED
      BY <1>1, <3>1, <3>2, <3>3 DEF Files
  <2>2. \A j \in Slots \ {i} : pc'[j] = pc[j] /\ answer'[j] = answer[j]
    BY <1>0, <1>1 DEF Files, Stat, Truncate, WriteFile, Download, TypeOK
  <2>3. i \in late /\ Kind(i) = "upload" /\ (pc'[i] \in {"open", "write"} \/ answer'[i] = "ok")
          => got[i].overwrite
    <3>1. CASE Stat(i)
      <4>1. answer[i] = "none" /\ Up
        BY <1>0, <3>1 DEF Stat, StateInv, FilesFit, TypeOK
      <4>2. i \in late => Exists
        BY <2>1 DEF UploadInv
      <4> QED
        BY <1>0, <3>1, <4>1, <4>2 DEF Stat, TakesUpload, TypeOK
    <3>2. CASE Truncate(i) \/ WriteFile(i)
      BY <1>0, <2>1, <3>2 DEF Truncate, WriteFile, UploadInv, TypeOK
    <3>3. CASE Download(i)
      BY <3>3 DEF Download
    <3> QED
      BY <1>1, <3>1, <3>2, <3>3 DEF Files
  <2> QED
    BY <1>0, <2>1, <2>2, <2>3 DEF UploadInv
<1>2. CASE ~Files(i)
  <2>1. UNCHANGED <<got, late, file>> /\ Exists' = Exists
    BY <1>2 DEF Inner, Terminals, Lookup, NewSession, NoSession, StartSession, WriteInput,
       CloseSession, DeleteSession, StartScript, AnswerScript, Restart, Shutdown, ReadConn,
       CloseConn, Fork, ScriptEnds, ChildEnds, StreamEnds, Timeout, Exists
  <2>2. \A j \in Slots : Kind(j) = "upload" => pc'[j] \in {pc[j], "done"} /\ answer'[j] = answer[j]
    <3>1. CASE Terminals(i)
      BY <1>0, <3>1 DEF Terminals, Lookup, NewSession, NoSession, StartSession, WriteInput,
         CloseSession, DeleteSession, TypeOK, PlacesFit
    <3>2. CASE StartScript(i) \/ AnswerScript(i)
      BY <1>0, <3>2 DEF StartScript, AnswerScript, PlacesFit, TypeOK
    <3>3. CASE Restart(i) \/ Shutdown(i) \/ ReadConn(i) \/ CloseConn(i)
      BY <1>0, <3>3 DEF Restart, Shutdown, ReadConn, CloseConn, TypeOK
    <3>4. CASE Fork(i) \/ ScriptEnds(i) \/ ChildEnds(i) \/ StreamEnds(i) \/ Timeout(i)
      BY <3>4 DEF Fork, ScriptEnds, ChildEnds, StreamEnds, Timeout, handlerVars
    <3> QED
      BY <1>2, <3>1, <3>2, <3>3, <3>4 DEF Inner
  <2> QED
    BY <1>0, <2>1, <2>2 DEF UploadInv
<1> QED
  BY <1>1, <1>2

LEMMA ReceiveUploads ==
  ASSUME StateInv, UploadInv, NEW m \in Messages, Receive(m)
  PROVE  UploadInv'
<1>n. PICK n : n = Len(got) + 1
  OBVIOUS
<1>1. /\ got'[n] = m /\ n \in Slots /\ Len(got) \in Nat
      /\ \A i \in 1..Len(got) : got'[i] = got[i] /\ i # n /\ i \in Slots
  <2>1. m \in Event /\ Len(got) < MaxEvents /\ got' = Append(got, m)
    BY MessageKinds DEF Receive
  <2>2. Len(got) \in Nat /\ \A i \in 1..Len(got) : i \in Slots /\ i < Len(got) + 1
    BY SlotsOfEvents DEF StateInv, TypeOK
  <2> QED
    BY <1>n, <2>1, <2>2, Arrives
<1>2. UNCHANGED <<file, answer>> /\ pc' = [pc EXCEPT ![n] = "start"]
  BY <1>n DEF Receive, Goto, fileVars
<1>3. answer[n] = "none"
  BY <1>n, <1>1 DEF StateInv, TypeOK, FilesFit
<1>4. late \subseteq 1..Len(got)
  BY DEF StateInv, TypeOK
<1>5. late' = late \/ (Exists /\ late' = late \cup {n})
  BY <1>n DEF Receive, StateInv, FilesFit
<1>6. Exists' = Exists
  BY <1>2 DEF Exists
<1>7. pc'[n] = "start" /\ \A i \in 1..Len(got) : pc'[i] = pc[i]
  BY <1>1, <1>2 DEF StateInv, TypeOK
<1> QED
  BY <1>1, <1>2, <1>3, <1>4, <1>5, <1>6, <1>7 DEF UploadInv, Kind

LEMMA UploadsKept == StateInv /\ UploadInv /\ [Next]_agentVars => UploadInv'
<1> SUFFICES ASSUME StateInv, UploadInv, [Next]_agentVars PROVE UploadInv'
  OBVIOUS
<1>1. CASE \E m \in Messages : Receive(m)
  BY <1>1, ReceiveUploads
<1>2. CASE \E i \in 1..Len(got) : Inner(i)
  BY <1>2, InnerUploads
<1>3. CASE \E k \in Slots : ShellExits(k)
  <2>1. PICK k \in Slots : ShellExits(k)
    BY <1>3
  <2>2. /\ UploadInv /\ late \subseteq 1..Len(got) /\ UNCHANGED <<late, file, answer>>
        /\ pc' = [pc EXCEPT ![Len(got) + 1] = "done"]
        /\ got' = Append(got, [kind |-> "exit", shell |-> k])
    BY <2>1 DEF ShellExits, Goto, StateInv, TypeOK, fileVars
  <2>3. \A j \in 1..Len(got) : got'[j] = got[j] /\ pc'[j] = pc[j]
    BY <2>2 DEF StateInv, TypeOK
  <2> QED
    BY <2>2, <2>3 DEF UploadInv, Kind, Exists
<1>4. CASE Ending
  BY <1>4 DEF Ending, Ends, UploadInv
<1>5. CASE LoopStep
  BY <1>5, LoopState
     DEF UploadInv, Exists, Kind, handlerVars, fileVars, pastVars
<1>6. CASE UNCHANGED agentVars
  BY <1>6 DEF UploadInv, Exists, Kind, agentVars, handlerVars, fileVars, pastVars
<1> QED
  BY <1>1, <1>2, <1>3, <1>4, <1>5, <1>6, NextSteps

(* An upload that came after another had been answered overwrites it only  *)
(* if it says so, whatever handlers overlap: Stat and WriteFile are two    *)
(* steps, but the file does not go away in between.                        *)
THEOREM UploadsRespect == Spec => []UploadsRespectEarlier
<1>1. Init => UploadInv
  BY DEF Init, UploadInv
<1>2. UploadInv => UploadsRespectEarlier
  BY DEF UploadInv, UploadsRespectEarlier, Uploaded
<1> QED
  BY <1>1, <1>2, InitState, StateKept, UploadsKept, PTL DEF Spec

-----------------------------------------------------------------------------
(* Keystrokes: as long as no session was ended and no shell has, every     *)
(* shell that was started takes what it is given.                          *)
Quiet == \A j \in 1..Len(got) : Kind(j) \notin {"eof", "exit"}
Landed(i) == \E k \in Slots : \E n \in DOMAIN typed[k] : typed[k][n] = i

NoPty(i) == local[i] = 0 /\ ~got[i].pty

KeyInv ==
    Quiet => /\ \A k \in Slots : Terminal(k) => shell[k] = "alive"
             /\ \A i \in 1..Len(got) :
                    Kind(i) = "input" /\ pc[i] = "done" => Landed(i) \/ NoPty(i)

(* What a shell was given stays given.                                     *)
LEMMA LandedMore ==
  ASSUME TypeOK, NEW k \in Slots, NEW i \in 1..Len(got),
         typed' = [typed EXCEPT ![k] = Append(@, i)]
  PROVE  Landed(i)' /\ \A j : Landed(j) => Landed(j)'
<1>1. /\ typed[k] \in Seq(1..Len(got)) /\ typed'[k] = Append(typed[k], i)
      /\ \A l \in Slots : l # k => typed'[l] = typed[l]
  BY DEF TypeOK
<1>2. /\ Len(typed[k]) + 1 \in DOMAIN typed'[k] /\ typed'[k][Len(typed[k]) + 1] = i
      /\ \A n \in DOMAIN typed[k] : n \in DOMAIN typed'[k] /\ typed'[k][n] = typed[k][n]
  BY <1>1
<1>3. Landed(i)'
  BY <1>2 DEF Landed
<1>4. ASSUME NEW j, Landed(j) PROVE Landed(j)'
  <2>1. PICK l \in Slots : \E n \in DOMAIN typed[l] : typed[l][n] = j
    BY <1>4 DEF Landed
  <2>2. \E n \in DOMAIN typed'[l] : typed'[l][n] = j
    BY <1>1, <1>2, <2>1
  <2> QED
    BY <2>2 DEF Landed
<1> QED
  BY <1>3, <1>4

(* A step of a handler that gives nothing to a shell.                      *)
LEMMA KeysKept ==
  ASSUME StateInv, KeyInv, NEW i \in 1..Len(got), UNCHANGED <<got, typed>>,
         \A k \in Slots : Terminal(k)' => Terminal(k) \/ shell'[k] = "alive",
         \A k \in Slots : Quiet /\ Terminal(k) => shell'[k] = shell[k],
         \A j \in 1..Len(got) : Kind(j) = "input" /\ pc'[j] = "done" =>
             (pc[j] = "done" /\ local'[j] = local[j]) \/ NoPty(j)'
  PROVE  KeyInv'
<1>1. /\ Quiet' = Quiet /\ (\A j : Landed(j)' = Landed(j))
      /\ \A j \in 1..Len(got) : Kind(j)' = Kind(j)
  BY DEF Quiet, Kind, Landed
<1> QED
  BY <1>1 DEF KeyInv, NoPty

LEMMA InnerKeys ==
  ASSUME StateInv, KeyInv, NEW i \in 1..Len(got), Inner(i)
  PROVE  KeyInv'
<1> USE DEF At, In, Kind, Goto, handlerVars, terminalVars, pastVars
<1>0. /\ TypeOK /\ PlacesFit /\ ShellsFit /\ i \in Slots
      /\ \A j \in 1..Len(got) : j \in Slots
  BY SlotsOfEvents DEF StateInv
<1>1. CASE Lookup(i)
  <2>1. /\ UNCHANGED <<got, typed, shell>> /\ \A k : Terminal(k)' = Terminal(k)
        /\ \A j \in 1..Len(got) : Kind(j) = "input" /\ pc'[j] = "done" =>
               pc[j] = "done" /\ local'[j] = local[j]
    BY <1>0, <1>1 DEF Lookup, Terminal, TypeOK
  <2> QED
    BY <2>1, KeysKept
<1>2. CASE NewSession(i)
  <2>1. /\ UNCHANGED <<got, typed>> /\ shell' = [shell EXCEPT ![i] = "alive"]
        /\ shell[i] = "none"
        /\ \A j \in 1..Len(got) : Kind(j) = "input" /\ pc'[j] = "done" =>
               pc[j] = "done" /\ local'[j] = local[j]
    BY <1>0, <1>2 DEF NewSession, ShellsFit, TypeOK
  <2>2. /\ \A k \in Slots : Terminal(k)' => Terminal(k) \/ shell'[k] = "alive"
        /\ \A k \in Slots : Terminal(k) => shell'[k] = shell[k]
    BY <1>0, <2>1 DEF Terminal, TypeOK
  <2> QED
    BY <2>1, <2>2, KeysKept
<1>10. CASE NoSession(i)
  <2>1. /\ UNCHANGED <<got, typed, shell>> /\ \A k : Terminal(k)' = Terminal(k)
        /\ \A j \in 1..Len(got) : j # i => pc'[j] = pc[j] /\ local'[j] = local[j]
    BY <1>0, <1>10 DEF NoSession, Terminal, TypeOK
  <2>2. NoPty(i)'
    BY <1>0, <1>10 DEF NoSession, NoPty, ShellsFit
  <2> QED
    BY <2>1, <2>2, KeysKept
<1>3. CASE StartSession(i) \/ DeleteSession(i)
  <2>1. /\ UNCHANGED <<got, typed, shell>> /\ \A k : Terminal(k)' = Terminal(k)
        /\ \A j \in 1..Len(got) : Kind(j) = "input" /\ pc'[j] = "done" =>
               pc[j] = "done" /\ local'[j] = local[j]
    BY <1>0, <1>3 DEF StartSession, DeleteSession, Terminal, TypeOK, PlacesFit
  <2> QED
    BY <2>1, KeysKept
<1>4. CASE WriteInput(i)
  <2>1. /\ UNCHANGED <<got, shell>> /\ Quiet' = Quiet
        /\ \A k : Terminal(k)' = Terminal(k)
        /\ \A j \in 1..Len(got) : j # i => pc'[j] = pc[j] /\ NoPty(j)' = NoPty(j)
    BY <1>0, <1>4 DEF WriteInput, Terminal, Quiet, NoPty, TypeOK
  <2>2. Terminal(local[i]) /\ local[i] \in Slots
    BY <1>0, <1>4 DEF WriteInput, ShellsFit, Terminal
  <2>3. CASE shell[local[i]] = "alive"
    <3>1. Landed(i)' /\ \A j : Landed(j) => Landed(j)'
      BY <1>0, <1>4, <2>2, <2>3, LandedMore DEF WriteInput, Give
    <3> QED
      BY <2>1, <3>1 DEF KeyInv
  <2>4. CASE shell[local[i]] # "alive"
    BY <2>1, <2>2, <2>4 DEF KeyInv
  <2> QED
    BY <2>3, <2>4
<1>5. CASE CloseSession(i)
  <2>1. ~Quiet /\ got' = got
    BY <1>0, <1>5 DEF CloseSession, Quiet
  <2> QED
    BY <2>1 DEF KeyInv, Quiet
<1>6. CASE Files(i)
  <2>1. /\ UNCHANGED <<got, typed, shell>> /\ \A k : Terminal(k)' = Terminal(k)
        /\ \A j \in 1..Len(got) : Kind(j) = "input" /\ pc'[j] = "done" =>
               pc[j] = "done" /\ local'[j] = local[j]
    BY <1>0, <1>6 DEF Files, Stat, Truncate, WriteFile, Download, Terminal, TypeOK, PlacesFit
  <2> QED
    BY <2>1, KeysKept
<1>7. CASE Restart(i) \/ Shutdown(i) \/ ReadConn(i) \/ CloseConn(i) \/ AnswerScript(i)
  <2>1. /\ UNCHANGED <<got, typed, shell>> /\ \A k : Terminal(k)' = Terminal(k)
        /\ \A j \in 1..Len(got) : Kind(j) = "input" /\ pc'[j] = "done" =>
               pc[j] = "done" /\ local'[j] = local[j]
    BY <1>0, <1>7 DEF Restart, Shutdown, ReadConn, CloseConn, AnswerScript, Terminal, TypeOK,
                      PlacesFit
  <2> QED
    BY <2>1, KeysKept
<1>8. CASE StartScript(i) \/ ScriptEnds(i) \/ Timeout(i)
  <2>1. /\ UNCHANGED <<got, typed>> /\ Kind(i) = "exec"
        /\ \A k \in Slots : k # i => shell'[k] = shell[k]
        /\ \A j \in 1..Len(got) : Kind(j) = "input" => pc'[j] = pc[j] /\ local'[j] = local[j]
    BY <1>0, <1>8 DEF StartScript, ScriptEnds, Timeout, Kill, TypeOK, PlacesFit
  <2>2. /\ \A k \in Slots : Terminal(k)' => Terminal(k)
        /\ \A k \in Slots : Terminal(k) => shell'[k] = shell[k]
    BY <2>1 DEF Terminal
  <2> QED
    BY <2>1, <2>2, KeysKept
<1>9. CASE Fork(i) \/ ChildEnds(i) \/ StreamEnds(i)
  <2>1. UNCHANGED <<got, typed, shell, pc, local>> /\ \A k : Terminal(k)' = Terminal(k)
    BY <1>9 DEF Fork, ChildEnds, StreamEnds, Terminal
  <2> QED
    BY <2>1, KeysKept
<1> QED
  BY <1>1, <1>2, <1>3, <1>4, <1>5, <1>6, <1>7, <1>8, <1>9, <1>10 DEF Inner, Terminals

LEMMA ReceiveKeys ==
  ASSUME StateInv, KeyInv, NEW m \in Messages, Receive(m)
  PROVE  KeyInv'
<1>n. PICK n : n = Len(got) + 1
  OBVIOUS
<1>1. /\ UNCHANGED <<typed, shell, local>> /\ got' = Append(got, m) /\ m \in Event
      /\ Len(got) < MaxEvents /\ pc' = [pc EXCEPT ![n] = "start"]
  BY <1>n, MessageKinds DEF Receive, Goto, terminalVars
<1>2. /\ Len(got) \in Nat /\ Len(got') = n /\ n \in Slots
      /\ \A i \in 1..Len(got) : got'[i] = got[i] /\ i # n /\ i \in Slots
  <2>1. TypeOK /\ \A i \in 1..Len(got) : i \in Slots
    BY SlotsOfEvents DEF StateInv
  <2>2. Len(got) \in Nat
    BY <2>1 DEF TypeOK
  <2> QED
    BY <1>n, <1>1, <2>1, <2>2, Arrives
<1>3. shell[n] = "none"
  BY <1>n, <1>2 DEF StateInv, TypeOK, ShellsFit
<1>4. /\ Quiet' => Quiet
      /\ \A k \in Slots : Terminal(k)' => Terminal(k)
  BY <1>1, <1>2, <1>3, <1>n DEF Quiet, Kind, Terminal
<1>5. \A i \in 1..Len(got') : pc'[i] = "done" => /\ i \in 1..Len(got) /\ Kind(i)' = Kind(i)
                                                 /\ pc[i] = "done" /\ NoPty(i)' = NoPty(i)
  <2>1. pc'[n] = "start" /\ \A i \in 1..Len(got) : pc'[i] = pc[i]
    BY <1>1, <1>2 DEF StateInv, TypeOK
  <2>2. \A i \in 1..Len(got) : Kind(i)' = Kind(i) /\ NoPty(i)' = NoPty(i)
    BY <1>1, <1>2 DEF Kind, NoPty
  <2>3. \A i \in 1..Len(got') : i = n \/ i \in 1..Len(got)
    BY <1>2, <1>n
  <2> QED
    BY <2>1, <2>2, <2>3
<1>6. \A j : Landed(j)' = Landed(j)
  BY <1>1 DEF Landed
<1> QED
  BY <1>1, <1>4, <1>5, <1>6 DEF KeyInv

LEMMA KeysStep == StateInv /\ KeyInv /\ [Next]_agentVars => KeyInv'
<1> SUFFICES ASSUME StateInv, KeyInv, [Next]_agentVars PROVE KeyInv'
  OBVIOUS
<1>1. CASE \E m \in Messages : Receive(m)
  BY <1>1, ReceiveKeys
<1>2. CASE \E i \in 1..Len(got) : Inner(i)
  BY <1>2, InnerKeys
<1>3. CASE \E k \in Slots : ShellExits(k)
  <2>1. PICK k \in Slots : ShellExits(k)
    BY <1>3
  <2>2. /\ [kind |-> "exit", shell |-> k] \in Event /\ Len(got) < MaxEvents
        /\ got' = Append(got, [kind |-> "exit", shell |-> k])
    BY <2>1 DEF ShellExits, Event
  <2>3. Len(got') \in 1..Len(got') /\ got'[Len(got')].kind = "exit"
    BY <2>2, Arrives DEF Slots
  <2> QED
    BY <2>3 DEF KeyInv, Quiet, Kind
<1>4. CASE Ending
  BY <1>4 DEF Ending, Ends, KeyInv, Terminal
<1>5. CASE LoopStep
  BY <1>5, LoopState
     DEF KeyInv, Quiet, Landed, NoPty, Terminal, Kind, handlerVars, terminalVars, pastVars
<1>6. CASE UNCHANGED agentVars
  BY <1>6 DEF KeyInv, Quiet, Landed, NoPty, Terminal, Kind, agentVars, handlerVars, terminalVars,
     pastVars
<1> QED
  BY <1>1, <1>2, <1>3, <1>4, <1>5, <1>6, NextSteps

(* A handled keystroke is with some shell unless it found no session and   *)
(* no pty, or a session was ended or a shell has, although handlers of one *)
(* session overlap and may start a shell each.                             *)
THEOREM KeystrokesArrive == Spec => []KeystrokesLand
<1>1. Init => KeyInv
  BY DEF Init, KeyInv, Terminal
<1>2. KeyInv => KeystrokesLand
  BY DEF KeyInv, KeystrokesLand, Quiet, Landed, NoPty
<1> QED
  BY <1>1, <1>2, InitState, StateKept, KeysStep, PTL DEF Spec

-----------------------------------------------------------------------------
(* Calm runs.  What handler i still has to do is what its message asks of  *)
(* an agent that handles one message at a time, less what it has done.     *)
Seen(se, al, ty, fi, fe, st) ==
    [sessions |-> se, alive |-> al, typed |-> ty, file |-> fi, fetched |-> fe,
     stopped |-> st]

Alive == {k \in 1..Len(got) : shell[k] = "alive" /\ Kind(k) # "exec"}

Given(ty, al, k, i) == IF k \in al THEN [ty EXCEPT ![k] = Append(@, i)] ELSE ty

Rest(i) ==
    CASE pc[i] \in {"start", "create"} -> InTurn(View, i, got[i])
      [] pc[i] = "put" ->
           IF Kind(i) = "eof"
           THEN Seen(sessions, Alive \ {i}, typed, file, fetched, stopped)
           ELSE Seen([sessions EXCEPT ![got[i].id] = i], Alive, Given(typed, Alive, i, i),
                     file, fetched, stopped)
      [] pc[i] = "use" ->
           IF Kind(i) = "eof"
           THEN Seen([sessions EXCEPT ![got[i].id] = 0], Alive \ {local[i]}, typed,
                     file, fetched, stopped)
           ELSE Seen(sessions, Alive, Given(typed, Alive, local[i], i), file, fetched, stopped)
      [] pc[i] = "delete" ->
           Seen([sessions EXCEPT ![got[i].id] = 0], Alive, typed, file, fetched, stopped)
      [] pc[i] \in {"open", "write"} ->
           Seen(sessions, Alive, typed, Contents(i, got[i]), fetched, stopped)
      [] OTHER -> View

Clear(i) ==
    /\ pc[i] = "write" => file = <<>>
    /\ pc[i] \in {"create", "put"} => sessions[got[i].id] = 0

CalmInv ==
    calm /\ Up => /\ Busy = {} => ideal = View
                  /\ \A i \in Busy : Busy = {i} /\ ideal = Rest(i) /\ Clear(i)

LEMMA ViewSeen == View = Seen(sessions, Alive, typed, file, fetched, stopped)
BY DEF View, Seen, Alive

(* One message handled, part by part.                                      *)
LEMMA TakeSeen ==
  ASSUME NEW se, NEW al, NEW ty, NEW fi, NEW fe, NEW st, NEW k, NEW i
  PROVE  Take(Seen(se, al, ty, fi, fe, st), k, i) = Seen(se, al, Given(ty, al, k, i), fi, fe, st)
BY DEF Take, Seen, Given

LEMMA ViewInTurn ==
  ASSUME NEW i, NEW m
  PROVE  /\ m.kind = "input" /\ sessions[m.id] # 0 =>
              InTurn(View, i, m) =
                Seen(sessions, Alive, Given(typed, Alive, sessions[m.id], i), file, fetched,
                     stopped)
         /\ m.kind = "input" /\ sessions[m.id] = 0 /\ ~m.pty => InTurn(View, i, m) = View
         /\ m.kind = "input" /\ sessions[m.id] = 0 /\ m.pty =>
              InTurn(View, i, m) =
                Seen([sessions EXCEPT ![m.id] = i], Alive \cup {i},
                     Given(typed, Alive \cup {i}, i, i), file, fetched, stopped)
         /\ m.kind = "eof" =>
              InTurn(View, i, m) =
                Seen([sessions EXCEPT ![m.id] = 0], Alive \ {sessions[m.id]}, typed, file,
                     fetched, stopped)
         /\ m.kind = "resize" =>
              InTurn(View, i, m) =
                Seen(sessions, Alive, Given(typed, Alive, sessions[m.id], i), file, fetched,
                     stopped)
         /\ m.kind = "exit" =>
                InTurn(View, i, m) = Seen(sessions, Alive \ {m.shell}, typed, file, fetched, stopped)
         /\ m.kind = "upload" =>
              InTurn(View, i, m) =
                Seen(sessions, Alive, typed, IF m.inside /\ (file # NoFile => m.overwrite)
                     THEN Contents(i, m) ELSE file, fetched, stopped)
         /\ m.kind = "download" =>
              InTurn(View, i, m) =
                Seen(sessions, Alive, typed, file, IF m.inside /\ file # NoFile
                     THEN [fetched EXCEPT ![i] = file] ELSE fetched, stopped)
         /\ m.kind = "shutdown" =>
                InTurn(View, i, m) = Seen(sessions, Alive, typed, file, fetched, TRUE)
         /\ m.kind \in {"exec", "restart", "reconnect"} => InTurn(View, i, m) = View
<1>1. /\ View.sessions = sessions /\ View.alive = Alive /\ View.typed = typed /\ View.file = file
      /\ View.fetched = fetched /\ View.stopped = stopped
  BY ViewSeen DEF Seen
<1>2. \A x : [View EXCEPT !.alive = x] = Seen(sessions, x, typed, file, fetched, stopped)
  BY ViewSeen DEF Seen
<1>3. \A x, y : [View EXCEPT !.sessions = x, !.alive = y] =
                   Seen(x, y, typed, file, fetched, stopped)
  <2> TAKE x, y
  <2>1. [View EXCEPT !.sessions = x, !.alive = y] =
          [[View EXCEPT !.sessions = x] EXCEPT !.alive = y]
    OBVIOUS
  <2>2. [View EXCEPT !.sessions = x] = Seen(x, Alive, typed, file, fetched, stopped)
    BY ViewSeen DEF Seen
  <2>3. [Seen(x, Alive, typed, file, fetched, stopped) EXCEPT !.alive = y] =
          Seen(x, y, typed, file, fetched, stopped)
    BY ViewSeen DEF Seen
  <2> QED
    BY <2>1, <2>2, <2>3
<1>4. /\ \A x : [View EXCEPT !.file = x] = Seen(sessions, Alive, typed, x, fetched, stopped)
      /\ \A x : [View EXCEPT !.fetched = x] = Seen(sessions, Alive, typed, file, x, stopped)
      /\ \A x : [View EXCEPT !.stopped = x] = Seen(sessions, Alive, typed, file, fetched, x)
  BY ViewSeen DEF Seen
<1>5. m.kind = "input" /\ sessions[m.id] # 0 =>
        InTurn(View, i, m) =
          Seen(sessions, Alive, Given(typed, Alive, sessions[m.id], i), file, fetched,
               stopped)
  <2>1. m.kind = "input" /\ sessions[m.id] # 0 => InTurn(View, i, m) = Take(View, sessions[m.id], i)
    BY <1>1 DEF InTurn
  <2> QED
    BY <2>1, TakeSeen, ViewSeen
<1>6. m.kind = "input" /\ sessions[m.id] = 0 /\ m.pty =>
        InTurn(View, i, m) =
          Seen([sessions EXCEPT ![m.id] = i], Alive \cup {i},
               Given(typed, Alive \cup {i}, i, i), file, fetched, stopped)
  <2>1. [View EXCEPT !.sessions[m.id] = i, !.alive = @ \cup {i}] =
          Seen([sessions EXCEPT ![m.id] = i], Alive \cup {i}, typed, file, fetched, stopped)
    BY <1>1, <1>3
  <2>2. m.kind = "input" /\ sessions[m.id] = 0 /\ m.pty =>
          InTurn(View, i, m) =
            Take(Seen([sessions EXCEPT ![m.id] = i], Alive \cup {i}, typed, file, fetched,
                      stopped), i, i)
    BY <1>1, <2>1 DEF InTurn
  <2> QED
    BY <2>2, TakeSeen
<1>13. m.kind = "input" /\ sessions[m.id] = 0 /\ ~m.pty => InTurn(View, i, m) = View
  BY <1>1 DEF InTurn
<1>7. m.kind = "eof" =>
        InTurn(View, i, m) =
          Seen([sessions EXCEPT ![m.id] = 0], Alive \ {sessions[m.id]}, typed, file,
               fetched, stopped)
  BY <1>1, <1>3 DEF InTurn
<1>8. m.kind = "resize" =>
        InTurn(View, i, m) =
          Seen(sessions, Alive, Given(typed, Alive, sessions[m.id], i), file, fetched,
               stopped)
  <2>1. m.kind = "resize" => InTurn(View, i, m) = Take(View, sessions[m.id], i)
    BY <1>1 DEF InTurn
  <2> QED
    BY <2>1, TakeSeen, ViewSeen
<1>9. m.kind = "exit" =>
          InTurn(View, i, m) = Seen(sessions, Alive \ {m.shell}, typed, file, fetched, stopped)
  BY <1>1, <1>2 DEF InTurn
<1>10. m.kind = "upload" =>
         InTurn(View, i, m) =
          Seen(sessions, Alive, typed, IF m.inside /\ (file # NoFile => m.overwrite)
               THEN Contents(i, m) ELSE file, fetched, stopped)
  BY <1>1, <1>4, ViewSeen DEF InTurn
<1>11. m.kind = "download" =>
         InTurn(View, i, m) =
          Seen(sessions, Alive, typed, file, IF m.inside /\ file # NoFile
               THEN [fetched EXCEPT ![i] = file] ELSE fetched, stopped)
  BY <1>1, <1>4, ViewSeen DEF InTurn
<1>12. /\ m.kind = "shutdown" =>
          InTurn(View, i, m) = Seen(sessions, Alive, typed, file, fetched, TRUE)
       /\ m.kind \in {"exec", "restart", "reconnect"} => InTurn(View, i, m) = View
  BY <1>4 DEF InTurn
<1> QED
  BY <1>5, <1>6, <1>7, <1>8, <1>9, <1>10, <1>11, <1>12, <1>13

(* How far a handler's own step brings its work.                           *)
Advances(i) ==
    IF pc'[i] = "done" THEN ideal' = View' ELSE ideal' = Rest(i)' /\ Clear(i)'

Waiting(i) == StateInv /\ Up /\ i \in 1..Len(got) /\ ideal = Rest(i) /\ Clear(i)

LEMMA AliveProperties ==
  ASSUME StateInv
  PROVE  /\ 0 \notin Alive /\ Alive \subseteq Slots
         /\ \A k : Terminal(k) => (k \in Alive <=> shell[k] = "alive")
BY SlotsOfEvents DEF Alive, Terminal, StateInv, TypeOK

LEMMA LookupAdvances ==
  ASSUME NEW i, Waiting(i), Lookup(i)
  PROVE  Advances(i)
<1> USE DEF At, In, Kind, Goto, terminalVars, fileVars, processVars, pastVars
<1>1. /\ StateInv /\ TypeOK /\ i \in 1..Len(got) /\ i \in Slots /\ got[i].id \in Ids
      /\ ideal = InTurn(View, i, got[i])
  BY OwnEvent, ViewSeen DEF Waiting, Lookup, StateInv, Rest
<1>2. /\ UNCHANGED <<got, sessions, typed, file, fetched, stopped, ideal>> /\ Alive' = Alive
      /\ local'[i] = sessions[got[i].id]
      /\ pc'[i] = IF local'[i] # 0 THEN "use" ELSE IF got[i].kind = "resize" THEN "done"
                                                   ELSE "create"
      /\ got[i].kind \in {"input", "eof", "resize"}
  BY <1>1 DEF Lookup, Alive, TypeOK
<1>3. View' = Seen(sessions, Alive, typed, file, fetched, stopped)
  BY <1>2, ViewSeen DEF View, Seen, Alive
<1>4. CASE local'[i] # 0
  <2>1. Rest(i)' = IF got[i].kind = "eof"
                   THEN Seen([sessions EXCEPT ![got[i].id] = 0], Alive \ {local'[i]}, typed,
                             file, fetched, stopped)
                   ELSE Seen(sessions, Alive, Given(typed, Alive, local'[i], i),
                             file, fetched, stopped)
    BY <1>2, <1>4 DEF Rest
  <2> QED
    BY <1>1, <1>2, <1>4, <2>1, ViewInTurn DEF Advances, Clear
<1>5. CASE local'[i] = 0 /\ got[i].kind = "resize"
  <2>1. Given(typed, Alive, 0, i) = typed
    BY <1>1, AliveProperties DEF Given
  <2>2. InTurn(View, i, got[i]) = Seen(sessions, Alive, Given(typed, Alive, 0, i), file,
                                       fetched, stopped)
    BY <1>2, <1>5, ViewInTurn
  <2> QED
    BY <1>1, <1>2, <1>3, <1>5, <2>1, <2>2 DEF Advances
<1>6. CASE local'[i] = 0 /\ got[i].kind # "resize"
  <2>1. pc'[i] = "create"
    BY <1>2, <1>6
  <2>2. Rest(i)' = InTurn(View', i, got[i])
    BY <1>2, <2>1 DEF Rest
  <2> QED
    BY <1>1, <1>2, <1>3, <1>6, <2>1, <2>2, ViewSeen DEF Advances, Clear
<1> QED
  BY <1>4, <1>5, <1>6

LEMMA NewSessionAdvances ==
  ASSUME NEW i, Waiting(i), NewSession(i)
  PROVE  Advances(i)
<1> USE DEF In, Kind, Goto, fileVars, processVars, pastVars
<1>1. /\ StateInv /\ TypeOK /\ i \in 1..Len(got) /\ i \in Slots /\ got[i].id \in Ids
      /\ got[i].kind \in {"input", "eof"} /\ shell[i] = "none" /\ i # 0 /\ got[i].pty
      /\ sessions[got[i].id] = 0
      /\ ideal = InTurn(View, i, got[i])
  <2>1. pc[i] = "create" /\ StateInv /\ i \in 1..Len(got) /\ Clear(i)
    BY DEF Waiting, NewSession
  <2>2. ideal = InTurn(View, i, got[i])
    BY <2>1 DEF Waiting, Rest
  <2> QED
    BY <2>1, <2>2, OwnEvent, ViewSeen DEF NewSession, StateInv, ShellsFit, PlacesFit, Clear
<1>2. /\ UNCHANGED <<got, sessions, typed, file, fetched, stopped, ideal>>
      /\ pc'[i] = "put" /\ Alive' = Alive \cup {i} /\ i \notin Alive
  BY <1>1 DEF NewSession, Alive, TypeOK
<1>3. [sessions EXCEPT ![got[i].id] = 0] = sessions /\ Alive \ {0} = Alive
      /\ Alive' \ {i} = Alive
  BY <1>1, <1>2, AliveProperties DEF TypeOK
<1>4. Rest(i)' = IF got[i].kind = "eof"
                 THEN Seen(sessions, Alive' \ {i}, typed, file, fetched, stopped)
                 ELSE Seen([sessions EXCEPT ![got[i].id] = i], Alive',
                           Given(typed, Alive', i, i), file, fetched, stopped)
  BY <1>2 DEF Rest
<1>5. CASE got[i].kind = "eof"
  <2>1. InTurn(View, i, got[i]) = Seen([sessions EXCEPT ![got[i].id] = 0], Alive \ {0}, typed,
                                       file, fetched, stopped)
    BY <1>1, <1>5, ViewInTurn
  <2> QED
    BY <1>1, <1>2, <1>3, <1>4, <1>5, <2>1 DEF Advances, Clear
<1>6. CASE got[i].kind = "input"
  BY <1>1, <1>2, <1>4, <1>6, ViewInTurn DEF Advances, Clear
<1> QED
  BY <1>1, <1>5, <1>6

LEMMA NoSessionAdvances ==
  ASSUME NEW i, Waiting(i), NoSession(i)
  PROVE  Advances(i)
<1> USE DEF In, Kind, Goto, terminalVars, fileVars, processVars, pastVars
<1>1. /\ StateInv /\ TypeOK /\ i \in 1..Len(got) /\ i \in Slots /\ got[i].id \in Ids
      /\ got[i].kind \in {"input", "eof"} /\ ~got[i].pty
      /\ sessions[got[i].id] = 0
      /\ ideal = InTurn(View, i, got[i])
  <2>1. pc[i] = "create" /\ StateInv /\ i \in 1..Len(got) /\ Clear(i)
    BY DEF Waiting, NoSession
  <2>2. ideal = InTurn(View, i, got[i])
    BY <2>1 DEF Waiting, Rest
  <2> QED
    BY <2>1, <2>2, OwnEvent DEF NoSession, StateInv, PlacesFit, Clear
<1>2. /\ UNCHANGED <<got, shell, sessions, typed, file, fetched, stopped, ideal>>
      /\ pc'[i] = "done" /\ Alive' = Alive
  BY <1>1 DEF NoSession, Alive, TypeOK
<1>3. View' = View
  BY <1>2 DEF View, Alive
<1>4. [sessions EXCEPT ![got[i].id] = 0] = sessions /\ Alive \ {0} = Alive
  BY <1>1, AliveProperties DEF TypeOK
<1>5. ideal = View
  BY <1>1, <1>4, ViewInTurn, ViewSeen
<1> QED
  BY <1>2, <1>3, <1>5 DEF Advances

LEMMA StartSessionAdvances ==
  ASSUME NEW i, Waiting(i), StartSession(i)
  PROVE  Advances(i)
<1> USE DEF In, Kind, Goto, fileVars, processVars, pastVars
<1>1. /\ StateInv /\ TypeOK /\ i \in 1..Len(got) /\ i \in Slots /\ got[i].id \in Ids
      /\ got[i].kind \in {"input", "eof"} /\ pc[i] = "put"
      /\ sessions[got[i].id] = 0
  BY OwnEvent DEF Waiting, StartSession, StateInv, PlacesFit, Clear
<1>2. /\ UNCHANGED <<got, shell, typed, file, fetched, stopped, ideal>>
      /\ pc'[i] = "use" /\ Alive' = Alive /\ local'[i] = i
      /\ sessions' = [sessions EXCEPT ![got[i].id] = i]
  BY <1>1 DEF StartSession, Put, Alive, TypeOK
<1>3. [sessions' EXCEPT ![got[i].id] = 0] = sessions
  BY <1>1, <1>2 DEF TypeOK
<1>4. Rest(i)' = IF got[i].kind = "eof"
                 THEN Seen([sessions' EXCEPT ![got[i].id] = 0], Alive \ {i}, typed,
                           file, fetched, stopped)
                 ELSE Seen(sessions', Alive, Given(typed, Alive, i, i), file, fetched, stopped)
  BY <1>2 DEF Rest
<1>5. Rest(i) = IF got[i].kind = "eof"
                THEN Seen(sessions, Alive \ {i}, typed, file, fetched, stopped)
                ELSE Seen(sessions', Alive, Given(typed, Alive, i, i), file, fetched, stopped)
  BY <1>1, <1>2 DEF Rest
<1> QED
  BY <1>2, <1>3, <1>4, <1>5 DEF Waiting, Advances, Clear

LEMMA WriteInputAdvances ==
  ASSUME NEW i, Waiting(i), WriteInput(i)
  PROVE  Advances(i)
<1> USE DEF At, In, Kind, Goto, fileVars, processVars, pastVars
<1>1. /\ StateInv /\ TypeOK /\ i \in 1..Len(got) /\ i \in Slots
      /\ got[i].kind # "eof" /\ pc[i] = "use"
  BY OwnEvent DEF Waiting, WriteInput, StateInv
<1>2. /\ UNCHANGED <<got, sessions, shell, file, fetched, stopped, ideal>>
      /\ pc'[i] = "done" /\ Alive' = Alive
  BY <1>1 DEF WriteInput, Alive, TypeOK
<1>3. typed' = Given(typed, Alive, local[i], i)
  <2>1. Terminal(local[i])
    BY <1>1 DEF StateInv, ShellsFit
  <2> QED
    BY <1>1, <2>1, AliveProperties DEF WriteInput, Give, Given
<1>4. View' = Seen(sessions, Alive, typed', file, fetched, stopped)
  BY <1>2 DEF View, Seen, Alive
<1>5. Rest(i) = Seen(sessions, Alive, Given(typed, Alive, local[i], i), file, fetched, stopped)
  BY <1>1 DEF Rest
<1> QED
  BY <1>2, <1>3, <1>4, <1>5 DEF Waiting, Advances

LEMMA CloseSessionAdvances ==
  ASSUME NEW i, Waiting(i), CloseSession(i)
  PROVE  Advances(i)
<1> USE DEF At, In, Kind, Goto, fileVars, processVars, pastVars
<1>1. /\ StateInv /\ TypeOK /\ i \in 1..Len(got) /\ i \in Slots
      /\ got[i].kind = "eof" /\ pc[i] = "use"
  BY OwnEvent DEF Waiting, CloseSession, StateInv
<1>2. Terminal(local[i]) /\ local[i] \in Slots
  BY <1>1, SlotsOfEvents DEF StateInv, ShellsFit, Terminal
<1>3. /\ UNCHANGED <<got, sessions, typed, file, fetched, stopped, ideal>>
      /\ pc'[i] = "delete" /\ shell' = [shell EXCEPT ![local[i]] = "gone"]
  BY <1>1 DEF CloseSession, Close, TypeOK
<1>4. Alive' = Alive \ {local[i]}
  BY <1>1, <1>2, <1>3, SlotsOfEvents DEF Alive, TypeOK
<1>5. Rest(i)' = Seen([sessions EXCEPT ![got[i].id] = 0], Alive', typed, file, fetched, stopped)
  BY <1>3 DEF Rest
<1>6. Rest(i) = Seen([sessions EXCEPT ![got[i].id] = 0], Alive \ {local[i]}, typed,
                     file, fetched, stopped)
  BY <1>1 DEF Rest
<1> QED
  BY <1>3, <1>4, <1>5, <1>6 DEF Waiting, Advances, Clear

LEMMA DeleteSessionAdvances ==
  ASSUME NEW i, Waiting(i), DeleteSession(i)
  PROVE  Advances(i)
<1> USE DEF In, Goto, fileVars, processVars, pastVars
<1>1. /\ TypeOK /\ i \in 1..Len(got) /\ i \in Slots /\ pc[i] = "delete"
  BY OwnEvent DEF Waiting, DeleteSession, StateInv
<1>2. /\ UNCHANGED <<got, shell, typed, file, fetched, stopped, ideal>>
      /\ pc'[i] = "done" /\ sessions' = [sessions EXCEPT ![got[i].id] = 0]
  BY <1>1 DEF DeleteSession, TypeOK
<1>3. View' = Seen(sessions', Alive, typed, file, fetched, stopped)
  BY <1>2 DEF View, Seen, Alive, Kind
<1>4. Rest(i) = Seen([sessions EXCEPT ![got[i].id] = 0], Alive, typed, file, fetched, stopped)
  BY <1>1 DEF Rest
<1> QED
  BY <1>2, <1>3, <1>4 DEF Waiting, Advances

LEMMA FilesAdvance ==
  ASSUME NEW i, Waiting(i), Files(i)
  PROVE  Advances(i)
<1> USE DEF At, In, Kind, Goto, Answer, terminalVars, processVars, pastVars
<1>1. /\ StateInv /\ TypeOK /\ i \in 1..Len(got) /\ i \in Slots /\ ideal = Rest(i)
      /\ (got[i].kind = "upload" => got[i].size \in Nat)
      /\ (pc[i] \in {"open", "write"} => got[i].kind = "upload")
  BY OwnEvent DEF Waiting, StateInv, PlacesFit
<1>2. /\ UNCHANGED <<got, sessions, shell, typed, stopped, ideal>> /\ Alive' = Alive
      /\ View' = Seen(sessions, Alive, typed, file', fetched', stopped)
  BY <1>1 DEF Files, Stat, Truncate, WriteFile, Download, View, Seen, Alive
<1>3. pc[i] = "start" => ideal = InTurn(View, i, got[i])
  BY <1>1 DEF Rest
<1>4. pc[i] \in {"open", "write"} =>
        ideal = Seen(sessions, Alive, typed, Contents(i, got[i]), fetched, stopped)
  BY <1>1 DEF Rest
<1>5. pc'[i] \in {"open", "write"} =>
        Rest(i)' = Seen(sessions, Alive, typed, Contents(i, got[i]), fetched', stopped)
  BY <1>2 DEF Rest
<1>6. CASE Stat(i)
  <2>1. /\ pc[i] = "start" /\ got[i].kind = "upload" /\ UNCHANGED <<file, fetched>>
        /\ pc'[i] = IF got[i].inside /\ (file # NoFile => got[i].overwrite)
                    THEN "open" ELSE "done"
    BY <1>1, <1>6 DEF Stat, TakesUpload, Exists, TypeOK
  <2>2. ideal = Seen(sessions, Alive, typed,
                     IF got[i].inside /\ (file # NoFile => got[i].overwrite)
                     THEN Contents(i, got[i]) ELSE file, fetched, stopped)
    BY <1>3, <2>1, ViewInTurn
  <2> QED
    BY <1>2, <1>5, <2>1, <2>2 DEF Advances, Clear
<1>7. CASE Truncate(i)
  <2>1. pc[i] = "open" /\ pc'[i] = "write" /\ file' = <<>> /\ fetched' = fetched
    BY <1>1, <1>7 DEF Truncate, TypeOK
  <2> QED
    BY <1>2, <1>4, <1>5, <2>1 DEF Advances, Clear
<1>8. CASE WriteFile(i)
  <2>1. pc[i] = "write" /\ pc'[i] = "done" /\ fetched' = fetched
    BY <1>1, <1>8 DEF WriteFile, TypeOK
  <2>2. file = <<>>
    BY <2>1 DEF Waiting, Clear
  <2>3. got[i].size \in Nat /\ file' = Content(i) \o SubSeq(<<>>, got[i].size + 1, 0)
    BY <1>1, <1>8, <2>1, <2>2 DEF WriteFile
  <2>4. Contents(i, got[i]) \in Seq({i}) /\ SubSeq(<<>>, got[i].size + 1, 0) = <<>>
    BY <2>3 DEF Contents
  <2>5. file' = Contents(i, got[i])
    BY <2>3, <2>4 DEF Content
  <2> QED
    BY <1>2, <1>4, <2>1, <2>5 DEF Advances
<1>9. CASE Download(i)
  <2>1. /\ pc[i] = "start" /\ got[i].kind = "download" /\ pc'[i] = "done" /\ file' = file
        /\ fetched' = IF got[i].inside /\ file # NoFile
                      THEN [fetched EXCEPT ![i] = file] ELSE fetched
    BY <1>1, <1>9 DEF Download, Exists, TypeOK
  <2>2. ideal = Seen(sessions, Alive, typed, file, fetched', stopped)
    BY <1>3, <2>1, ViewInTurn
  <2> QED
    BY <1>2, <2>1, <2>2 DEF Advances
<1> QED
  BY <1>6, <1>7, <1>8, <1>9 DEF Files

LEMMA CommandsAdvance ==
  ASSUME NEW i, Waiting(i), Restart(i) \/ Shutdown(i) \/ ReadConn(i) \/ CloseConn(i)
  PROVE  Advances(i)
<1> USE DEF At, In, Kind, Goto, terminalVars, fileVars, processVars, pastVars
<1>1. TypeOK /\ i \in Slots /\ i \in 1..Len(got) /\ ideal = Rest(i)
  BY OwnEvent DEF Waiting, StateInv
<1>2. /\ UNCHANGED <<got, sessions, shell, typed, file, fetched, ideal>>
      /\ View' = Seen(sessions, Alive, typed, file, fetched, stopped')
  BY DEF Restart, Shutdown, ReadConn, CloseConn, View, Seen, Alive
<1>3. pc[i] = "start" => ideal = InTurn(View, i, got[i])
  BY <1>1 DEF Rest
<1>4. CASE Restart(i)
  <2>1. pc[i] = "start" /\ got[i].kind = "restart" /\ pc'[i] = "done" /\ stopped' = stopped
    BY <1>1, <1>4 DEF Restart, TypeOK
  <2> QED
    BY <1>2, <1>3, <2>1, ViewInTurn, ViewSeen DEF Advances
<1>5. CASE Shutdown(i)
  <2>1. pc[i] = "start" /\ got[i].kind = "shutdown" /\ pc'[i] = "done" /\ stopped' = TRUE
    BY <1>1, <1>5 DEF Shutdown, TypeOK
  <2>2. ideal = Seen(sessions, Alive, typed, file, fetched, TRUE)
    BY <1>3, <2>1, ViewInTurn
  <2> QED
    BY <1>2, <2>1, <2>2, Zenon DEF Advances
<1>6. CASE ReadConn(i)
  <2>1. pc[i] = "start" /\ got[i].kind = "reconnect" /\ pc'[i] = "close" /\ stopped' = stopped
    BY <1>1, <1>6 DEF ReadConn, TypeOK
  <2>2. ideal = View
    BY <1>3, <2>1, ViewInTurn
  <2>3. View' = View
    BY <1>2, <2>1, ViewSeen
  <2>4. Rest(i)' = View'
    BY <2>1 DEF Rest
  <2> QED
    BY <1>2, <2>1, <2>2, <2>3, <2>4 DEF Advances, Clear
<1>7. CASE CloseConn(i)
  <2>1. pc[i] = "close" /\ pc'[i] = "done" /\ stopped' = stopped
    BY <1>1, <1>7 DEF CloseConn, TypeOK
  <2>2. ideal = View
    BY <1>1, <2>1 DEF Rest
  <2> QED
    BY <1>2, <2>1, <2>2, ViewSeen DEF Advances
<1> QED
  BY <1>4, <1>5, <1>6, <1>7

(* Steps that no other handler can tell: those of scripts, of streams and  *)
(* of connectLoop.                                                         *)
LEMMA Aside ==
  ASSUME StateInv, CalmInv,
         UNCHANGED <<got, sessions, typed, file, fetched, stopped, ideal, calm, status>>,
         Alive' = Alive,
         \A j \in 1..Len(got) : Kind(j) # "exec" => pc'[j] = pc[j] /\ local'[j] = local[j]
  PROVE  CalmInv'
<1>1. View' = View /\ Busy' = Busy /\ Up' = Up
  BY DEF View, Alive, Busy, Kind, Up
<1>2. \A j \in Busy : Rest(j)' = Rest(j) /\ Clear(j)' = Clear(j)
  BY <1>1 DEF Busy, Rest, Clear, Kind
<1> QED
  BY <1>1, <1>2 DEF CalmInv

LEMMA InnerCalm ==
  ASSUME StateInv, CalmInv, NEW i \in 1..Len(got), Inner(i)
  PROVE  CalmInv'
<1> USE DEF At, In, Kind, Goto, handlerVars, terminalVars, fileVars, processVars, pastVars
<1>0. /\ TypeOK /\ PlacesFit /\ i \in Slots /\ \A j \in 1..Len(got) : j \in Slots
  BY SlotsOfEvents DEF StateInv
<1>1. CASE Terminals(i) \/ Files(i) \/ Restart(i) \/ Shutdown(i) \/ ReadConn(i) \/ CloseConn(i)
  <2>1. UNCHANGED <<got, calm, ideal, status>> /\ Up
    BY <1>1 DEF Terminals, Lookup, NewSession, NoSession, StartSession, WriteInput, CloseSession,
       DeleteSession, Files, Stat, Truncate, WriteFile, Download, Restart, Shutdown,
       ReadConn, CloseConn
  <2>2. i \in Busy
    BY <1>0, <1>1 DEF Terminals, Lookup, NewSession, NoSession, StartSession, WriteInput, CloseSession,
       DeleteSession, Files, Stat, Truncate, WriteFile, Download, Restart, Shutdown,
       ReadConn, CloseConn, Busy, PlacesFit
  <2>3. \A j \in Slots : j # i => pc'[j] = pc[j]
    <3>1. CASE Terminals(i)
      BY <1>0, <3>1 DEF Terminals, Lookup, NewSession, NoSession, StartSession, WriteInput,
         CloseSession, DeleteSession, TypeOK
    <3>2. CASE Files(i)
      BY <1>0, <3>2 DEF Files, Stat, Truncate, WriteFile, Download, TypeOK
    <3>3. CASE Restart(i) \/ Shutdown(i) \/ ReadConn(i) \/ CloseConn(i)
      BY <1>0, <3>3 DEF Restart, Shutdown, ReadConn, CloseConn, TypeOK
    <3> QED
      BY <1>1, <3>1, <3>2, <3>3
  <2>4. SUFFICES ASSUME calm, Busy = {i}, ideal = Rest(i), Clear(i) PROVE CalmInv'
    BY <2>1, <2>2 DEF CalmInv, Up
  <2>5. Waiting(i)
    BY <2>1, <2>4 DEF Waiting
  <2>6. Advances(i)
    BY <1>1, <2>5, LookupAdvances, NewSessionAdvances, NoSessionAdvances, StartSessionAdvances,
       WriteInputAdvances, CloseSessionAdvances, DeleteSessionAdvances, FilesAdvance,
       CommandsAdvance DEF Terminals
  <2>7. Busy' = IF pc'[i] = "done" THEN {} ELSE {i}
    BY <1>0, <2>1, <2>2, <2>3, <2>4 DEF Busy
  <2> QED
    BY <2>1, <2>6, <2>7 DEF Advances, CalmInv
<1>2. CASE StartScript(i) \/ AnswerScript(i) \/ ScriptEnds(i) \/ Timeout(i)
  <2>1. /\ UNCHANGED <<got, sessions, typed, file, fetched, stopped, ideal, calm, status>>
        /\ Kind(i) = "exec"
    BY <1>0, <1>2 DEF StartScript, AnswerScript, ScriptEnds, Timeout, PlacesFit
  <2>2. \A j \in 1..Len(got) : j # i => /\ pc'[j] = pc[j] /\ local'[j] = local[j]
                                        /\ shell'[j] = shell[j]
    BY <1>0, <1>2 DEF StartScript, AnswerScript, ScriptEnds, Timeout, Kill, TypeOK
  <2>3. Alive' = Alive
    BY <2>1, <2>2 DEF Alive
  <2> QED
    BY <2>1, <2>2, <2>3, Aside
<1>3. CASE Fork(i) \/ ChildEnds(i) \/ StreamEnds(i)
  <2>1. UNCHANGED <<got, pc, local, sessions, shell, typed, file, fetched, stopped, ideal, calm,
                    status>>
    BY <1>3 DEF Fork, ChildEnds, StreamEnds
  <2>2. Alive' = Alive
    BY <2>1 DEF Alive
  <2> QED
    BY <2>1, <2>2, Aside
<1> QED
  BY <1>1, <1>2, <1>3 DEF Inner

LEMMA ReceiveCalm ==
  ASSUME StateInv, CalmInv, NEW m \in Messages, Receive(m)
  PROVE  CalmInv'
<1>n. PICK n : n = Len(got) + 1
  OBVIOUS
<1>1. /\ UNCHANGED <<local, sessions, shell, typed, file, fetched, stopped, status>>
      /\ got' = Append(got, m) /\ m \in Event /\ Len(got) < MaxEvents /\ Up
      /\ pc' = [pc EXCEPT ![n] = "start"] /\ ideal' = InTurn(ideal, n, m)
      /\ calm' = (calm /\ (m.kind = "exec" \/ Busy = {}))
  BY <1>n, MessageKinds DEF Receive, Goto, terminalVars, fileVars, processVars
<1>2. /\ Len(got) \in Nat /\ Len(got') = n /\ n \in Slots /\ got'[n] = m
      /\ \A i \in 1..Len(got) : got'[i] = got[i] /\ i # n /\ i \in Slots
  BY <1>n, <1>1, Arrives, SlotsOfEvents DEF StateInv, TypeOK
<1>3. pc'[n] = "start" /\ shell[n] = "none" /\ \A i \in 1..Len(got) : pc'[i] = pc[i]
  BY <1>n, <1>1, <1>2 DEF StateInv, TypeOK, ShellsFit
<1>4. \A i : i \in 1..Len(got') <=> i = n \/ i \in 1..Len(got)
  BY <1>2, <1>n
<1>5. Alive' = Alive /\ View' = View
  <2>1. Alive' = Alive
    BY <1>1, <1>2, <1>3, <1>4 DEF Alive, Kind
  <2> QED
    BY <1>1, <2>1 DEF View, Alive
<1>6. SUFFICES ASSUME calm, m.kind = "exec" \/ Busy = {} PROVE CalmInv'
  BY <1>1 DEF CalmInv
<1>7. CASE m.kind = "exec"
  <2>1. Busy' = Busy
    BY <1>2, <1>3, <1>4, <1>7 DEF Busy, Kind
  <2>2. \A j \in Busy : Rest(j)' = Rest(j) /\ Clear(j)' = Clear(j)
    <3>1. \A j \in Busy : UNCHANGED <<got[j], pc[j]>>
      BY <1>2, <1>3 DEF Busy
    <3> QED
      BY <1>1, <1>5, <3>1 DEF Rest, Clear, Kind
  <2>3. ideal' = ideal
    BY <1>1, <1>7 DEF InTurn
  <2> QED
    BY <1>1, <1>5, <1>6, <2>1, <2>2, <2>3 DEF CalmInv
<1>8. CASE m.kind # "exec"
  <2>1. Busy = {} /\ ideal = View
    BY <1>1, <1>6, <1>8 DEF CalmInv
  <2>2. Busy' = {n}
    BY <1>2, <1>3, <1>4, <1>8, <2>1 DEF Busy, Kind
  <2>3. Rest(n)' = InTurn(View', n, m) /\ Clear(n)'
    BY <1>2, <1>3 DEF Rest, Clear
  <2> QED
    BY <1>1, <1>5, <2>1, <2>2, <2>3 DEF CalmInv
<1> QED
  BY <1>7, <1>8

LEMMA ShellExitsCalm ==
  ASSUME StateInv, CalmInv, NEW k \in Slots, ShellExits(k)
  PROVE  CalmInv'
<1> DEFINE e == [kind |-> "exit", shell |-> k]
<1>n. PICK n : n = Len(got) + 1
  OBVIOUS
<1>1. /\ UNCHANGED <<local, sessions, typed, file, fetched, stopped, status>>
      /\ got' = Append(got, e) /\ e \in Event /\ Len(got) < MaxEvents /\ Up
      /\ pc' = [pc EXCEPT ![n] = "done"] /\ ideal' = InTurn(ideal, n, e)
      /\ calm' = (calm /\ Busy = {}) /\ shell' = [shell EXCEPT ![k] = "gone"]
      /\ k \in streaming
  BY <1>n DEF ShellExits, Goto, fileVars, processVars, Event
<1>2. /\ Len(got) \in Nat /\ Len(got') = n /\ n \in Slots /\ got'[n] = e
      /\ \A i \in 1..Len(got) : got'[i] = got[i] /\ i # n /\ i \in Slots
  BY <1>n, <1>1, Arrives, SlotsOfEvents DEF StateInv, TypeOK
<1>3. pc'[n] = "done" /\ shell[n] = "none" /\ \A i \in 1..Len(got) : pc'[i] = pc[i]
  BY <1>n, <1>1, <1>2 DEF StateInv, TypeOK, ShellsFit
<1>4. \A i : i \in 1..Len(got') <=> i = n \/ i \in 1..Len(got)
  BY <1>2, <1>n
<1>5. Alive' = Alive \ {k}
  <2>1. shell'[k] = "gone" /\ \A i \in Slots : i # k => shell'[i] = shell[i]
    BY <1>1 DEF StateInv, TypeOK
  <2>2. k # n
    BY <1>1, <1>2 DEF StateInv, ShellsFit, Terminal
  <2>3. \A i \in 1..Len(got) : Kind(i)' = Kind(i)
    BY <1>2 DEF Kind
  <2>4. n \notin Alive' /\ n \notin Alive
    BY <1>2, <1>3, <2>1, <2>2 DEF Alive
  <2>5. \A i \in 1..Len(got) : i \in Alive' <=> i \in Alive \ {k}
    BY <1>2, <1>4, <2>1, <2>3 DEF Alive
  <2>6. Alive \subseteq 1..Len(got) /\ Alive' \subseteq 1..Len(got')
    BY DEF Alive
  <2> QED
    BY <1>4, <2>4, <2>5, <2>6
<1>6. SUFFICES ASSUME calm, Busy = {} PROVE ideal' = View' /\ Busy' = {}
  BY <1>1 DEF CalmInv
<1>7. Busy' = {}
  BY <1>2, <1>3, <1>4, <1>6 DEF Busy, Kind
<1>8. ideal = View
  BY <1>1, <1>6 DEF CalmInv
<1>9. View' = Seen(sessions, Alive \ {k}, typed, file, fetched, stopped)
  <2>1. View' = Seen(sessions', Alive', typed', file', fetched', stopped')
    BY DEF View, Seen, Alive
  <2> QED
    BY <1>1, <1>5, <2>1
<1>10. InTurn(View, n, e) = Seen(sessions, Alive \ {k}, typed, file, fetched, stopped)
  <2>1. e.kind = "exit" /\ e.shell = k
    OBVIOUS
  <2> HIDE DEF e
  <2> QED
    BY <2>1, ViewInTurn
<1> QED
  BY <1>1, <1>7, <1>8, <1>9, <1>10

LEMMA FreshCalm == Fresh => Busy = {}
BY DEF Fresh, Busy

LEMMA CalmKept == StateInv /\ CalmInv /\ [Next]_agentVars => CalmInv'
<1> SUFFICES ASSUME StateInv, CalmInv, [Next]_agentVars PROVE CalmInv'
  OBVIOUS
<1>1. CASE \E m \in Messages : Receive(m)
  BY <1>1, ReceiveCalm
<1>2. CASE \E i \in 1..Len(got) : Inner(i)
  BY <1>2, InnerCalm
<1>3. CASE \E k \in Slots : ShellExits(k)
  BY <1>3, ShellExitsCalm
<1>4. CASE Ending
  BY <1>4, EndsState DEF Ending, CalmInv
<1>5. CASE LoopStep
  <2>1. UNCHANGED <<got, pc, local, sessions, shell, typed, file, fetched, stopped, ideal, calm,
                    status>>
    BY <1>5, LoopState DEF handlerVars, terminalVars, fileVars, processVars, pastVars
  <2>2. Alive' = Alive
    BY <2>1 DEF Alive, Kind
  <2> QED
    BY <2>1, <2>2, Aside
<1>6. CASE UNCHANGED agentVars
  <2>1. UNCHANGED <<got, pc, local, sessions, shell, typed, file, fetched, stopped, ideal, calm,
                    status>>
    BY <1>6 DEF agentVars, handlerVars, terminalVars, fileVars, processVars, pastVars
  <2>2. Alive' = Alive
    BY <2>1 DEF Alive, Kind
  <2> QED
    BY <2>1, <2>2, Aside
<1> QED
  BY <1>1, <1>2, <1>3, <1>4, <1>5, <1>6, NextSteps

LEMMA InitCalm == Init => CalmInv
<1> SUFFICES ASSUME Init PROVE Busy = {} /\ ideal = View
  BY DEF CalmInv
<1>1. Busy = {}
  BY InitState, FreshCalm
<1>2. Len(got) = 0 /\ {k \in 1..Len(got) : shell[k] = "alive" /\ Kind(k) # "exec"} = {}
  BY DEF Init
<1> QED
  BY <1>1, <1>2 DEF Init, Untouched, View

(* Without overlap, the agent is the one that handles one message at a     *)
(* time: the sessions, the shells alive and what each was given in which   *)
(* order, the file, what downloads returned, and stopCh.                   *)
THEOREM CalmIsSequential == Spec => []CalmMeansSequential
<1>1. CalmInv => CalmMeansSequential
  BY DEF CalmInv, CalmMeansSequential
<1> QED
  BY <1>1, InitState, StateKept, InitCalm, CalmKept, PTL DEF Spec

==============================================================================
