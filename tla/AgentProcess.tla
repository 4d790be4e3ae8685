----------------------------- MODULE AgentProcess -----------------------------
(***************************************************************************)
(* The agent process (cmd/agent, internal/agent): what it does with the    *)
(* messages that a connection brings.  Every message is handled by a       *)
(* goroutine of its own, so handlers of terminals, uploads, scripts and    *)
(* commands overlap; only sessions and conn have a mutex.                  *)
(*                                                                         *)
(* got lists, in order, what happened to the process: messages received,   *)
(* and shells that ended by themselves.  A message's position in got names *)
(* its goroutine, the shell it starts and the content it writes.  All file *)
(* messages are about one path.  pty says whether the machine has a pty    *)
(* and a process left for a shell when the message needs one.  Output and  *)
(* answers leave by send, whose fate is the subject of ExecFlow.           *)
(***************************************************************************)
EXTENDS Naturals, Sequences, FiniteSets

CONSTANTS
    Ids,           \* terminal session ids
    Messages,      \* what the gateway may send
    MaxEvents, MaxDials     \* bounds

Message ==
    [kind : {"input", "eof"}, id : Ids, pty : BOOLEAN]
    \cup [kind : {"resize"}, id : Ids]
    \cup [kind : {"upload"}, inside : BOOLEAN, overwrite : BOOLEAN, size : Nat]
    \cup [kind : {"download"}, inside : BOOLEAN]
    \cup [kind : {"exec"}, timed : BOOLEAN, forks : BOOLEAN]
    \cup [kind : {"restart", "shutdown", "reconnect"}]

ASSUME MessageAssumption == Messages \subseteq Message
ASSUME BoundAssumption == MaxEvents \in Nat /\ MaxDials \in Nat

NoFile == <<0>>    \* the path does not exist
Slots == 1..MaxEvents
Event == Message \cup [kind : {"exit"}, shell : Slots]

VARIABLES
    got,           \* messages, and exits of shells, in order of arrival
    pc,            \* where the goroutine of a message stands
    local,         \* what it has read: a shell (0: none), a connection
    sessions,      \* Agent.sessions: id -> shell, 0 for a missing key
    shell,         \* bash of a terminal or script: "none", "alive", "gone"
    closed,        \* shells whose Session is closed
    streaming,     \* shells whose StreamOutput goroutine runs
    typed,         \* input and resizes a shell was given, in order
    children,      \* scripts with a child that holds their output pipe
    file,          \* the file's content, writer by writer
    fetched,       \* the content a download answered with
    answer,        \* what an upload, a download or a script answered
    status,        \* the process: "up", "exited", "panicked"
    stopped,       \* stopCh is closed
    exiting,       \* a restart command's goroutine sleeps before os.Exit
    loop,          \* connectLoop
    dials,         \* connections made; the last one is Agent.conn
    dialsStopped,  \* how many of them since stopCh was closed
    calm,          \* no two handlers have overlapped
    late,          \* messages that came after an upload had succeeded
    ideal          \* where the same events would have led an agent that
                   \* handles one message at a time

handlerVars == <<pc, local>>
terminalVars == <<sessions, shell, closed, streaming, typed>>
fileVars == <<file, fetched, answer>>
processVars == <<status, stopped, exiting>>
loopVars == <<loop, dials, dialsStopped>>
pastVars == <<got, calm, late, ideal>>
agentVars == <<handlerVars, terminalVars, children, fileVars, processVars,
               loopVars, pastVars>>

Kind(i) == got[i].kind

PCs == {"none", "start", "create", "put", "use", "delete",   \* terminal
        "open", "write", "running", "close", "done"}

TypeOK ==
    /\ got \in Seq(Event) /\ Len(got) <= MaxEvents
    /\ pc \in [Slots -> PCs]
    /\ local \in [Slots -> 0..MaxEvents \cup 0..MaxDials]
    /\ \A i \in Slots : pc[i] = "none" <=> i > Len(got)
    /\ sessions \in [Ids -> 0..Len(got)]
    /\ shell \in [Slots -> {"none", "alive", "gone"}]
    /\ closed \subseteq {k \in Slots : shell[k] = "gone"}
    /\ streaming \subseteq {k \in Slots : shell[k] # "none"}
    /\ typed \in [Slots -> Seq(1..Len(got))]
    /\ children \subseteq Slots
    /\ file \in Seq(0..MaxEvents) /\ fetched \in [Slots -> Seq(1..Len(got))]
    /\ answer \in [Slots -> {"none", "ok", "refused"}]
    /\ status \in {"up", "exited", "panicked"}
    /\ stopped \in BOOLEAN /\ exiting \in BOOLEAN /\ calm \in BOOLEAN
    /\ loop \in {"check", "dialling", "serving", "returned"}
    /\ dials \in 0..MaxDials /\ dialsStopped \in 0..dials
    /\ late \subseteq 1..Len(got)

-----------------------------------------------------------------------------
(* What an agent that handled one message at a time would do: event i of   *)
(* got is m, a is the state it finds.                                      *)
Untouched == [sessions |-> [s \in Ids |-> 0], alive |-> {},
              typed |-> [i \in Slots |-> <<>>], file |-> NoFile,
              fetched |-> [i \in Slots |-> <<>>], stopped |-> FALSE]

Contents(i, m) == [n \in 1..m.size |-> i]

Take(a, k, i) ==   \* shell k is given i
    IF k \in a.alive THEN [a EXCEPT !.typed[k] = Append(@, i)] ELSE a

InTurn(a, i, m) ==
    CASE m.kind = "input" ->
           IF a.sessions[m.id] # 0 THEN Take(a, a.sessions[m.id], i)
           ELSE IF ~m.pty THEN a
           ELSE Take([a EXCEPT !.sessions[m.id] = i, !.alive = @ \cup {i}], i, i)
      [] m.kind = "eof" -> [a EXCEPT !.sessions[m.id] = 0, !.alive = @ \ {a.sessions[m.id]}]
      [] m.kind = "resize" -> Take(a, a.sessions[m.id], i)
      [] m.kind = "exit" -> [a EXCEPT !.alive = @ \ {m.shell}]
      [] m.kind = "upload" /\ m.inside /\ (a.file # NoFile => m.overwrite) ->
           [a EXCEPT !.file = Contents(i, m)]
      [] m.kind = "download" /\ m.inside /\ a.file # NoFile ->
           [a EXCEPT !.fetched[i] = a.file]
      [] m.kind = "shutdown" -> [a EXCEPT !.stopped = TRUE]
      [] OTHER -> a

-----------------------------------------------------------------------------
Init ==
    /\ got = <<>> /\ calm = TRUE /\ late = {} /\ ideal = Untouched
    /\ pc = [i \in Slots |-> "none"] /\ local = [i \in Slots |-> 0]
    /\ sessions = [s \in Ids |-> 0]
    /\ shell = [i \in Slots |-> "none"]
    /\ closed = {} /\ streaming = {}
    /\ typed = [i \in Slots |-> <<>>]
    /\ children = {}
    /\ fetched = [i \in Slots |-> <<>>] /\ answer = [i \in Slots |-> "none"]
    /\ stopped = FALSE /\ exiting = FALSE
    /\ loop = "check" /\ dials = 0 /\ dialsStopped = 0
    /\ file = NoFile /\ status = "up"

(* A process that ends keeps nothing but the file.                         *)
Ends(how) ==
    /\ got' = <<>> /\ calm' = TRUE /\ late' = {} /\ ideal' = Untouched
    /\ pc' = [i \in Slots |-> "none"] /\ local' = [i \in Slots |-> 0]
    /\ sessions' = [s \in Ids |-> 0]
    /\ shell' = [i \in Slots |-> "none"]
    /\ closed' = {} /\ streaming' = {}
    /\ typed' = [i \in Slots |-> <<>>]
    /\ children' = {}
    /\ fetched' = [i \in Slots |-> <<>>] /\ answer' = [i \in Slots |-> "none"]
    /\ stopped' = FALSE /\ exiting' = FALSE
    /\ loop' = "check" /\ dials' = 0 /\ dialsStopped' = 0
    /\ status' = how /\ UNCHANGED file

Goto(i, to) == pc' = [pc EXCEPT ![i] = to]
Answer(i, what) == answer' = [answer EXCEPT ![i] = what]
Uploaded(i) == Kind(i) = "upload" /\ answer[i] = "ok"
Up == status = "up"
In(i, where) == Up /\ pc[i] = where
At(i, kinds, where) == In(i, where) /\ Kind(i) \in kinds

(* Handlers in progress; scripts share nothing with the others.            *)
Busy == {i \in 1..Len(got) : pc[i] # "done" /\ Kind(i) # "exec"}

-----------------------------------------------------------------------------
(* The read loop: go handleMessage.                                        *)
Receive(m) ==
    /\ Up /\ loop = "serving"
    /\ Len(got) < MaxEvents
    /\ LET i == Len(got) + 1 IN
       /\ got' = Append(got, m)
       /\ Goto(i, "start")
       /\ ideal' = InTurn(ideal, i, m)
       /\ late' = IF \E j \in 1..Len(got) : Uploaded(j) THEN late \cup {i} ELSE late
    /\ calm' = (calm /\ (m.kind = "exec" \/ Busy = {}))
    /\ UNCHANGED <<local, terminalVars, children, fileVars, processVars, loopVars>>

-----------------------------------------------------------------------------
(* Terminals: handleTerminalInput ("\x04" is the kind "eof") and           *)
(* handleTerminalResize.                                                   *)
Lookup(i) ==
    /\ At(i, {"input", "eof", "resize"}, "start")
    /\ local' = [local EXCEPT ![i] = sessions[got[i].id]]
    /\ Goto(i, IF local'[i] # 0 THEN "use"
               ELSE IF Kind(i) = "resize" THEN "done" ELSE "create")
    /\ UNCHANGED <<terminalVars, children, fileVars, processVars, loopVars, pastVars>>

(* The shell starts before the session is in the map ...                   *)
NewSession(i) ==
    /\ In(i, "create") /\ got[i].pty
    /\ shell' = [shell EXCEPT ![i] = "alive"]
    /\ Goto(i, "put")
    /\ UNCHANGED <<local, sessions, closed, streaming, typed, children, fileVars,
                   processVars, loopVars, pastVars>>

(* ... or it does not start: the message is logged and lost.               *)
NoSession(i) ==
    /\ In(i, "create") /\ ~got[i].pty
    /\ Goto(i, "done")
    /\ UNCHANGED <<local, terminalVars, children, fileVars, processVars, loopVars, pastVars>>

PutNothing(i) == UNCHANGED sessions

Put(i) == sessions' = [sessions EXCEPT ![got[i].id] = i]

StartSession(i) ==
    /\ In(i, "put")
    /\ Put(i)
    /\ local' = [local EXCEPT ![i] = i]
    /\ streaming' = streaming \cup {i}
    /\ Goto(i, "use")
    /\ UNCHANGED <<shell, closed, typed, children, fileVars, processVars, loopVars, pastVars>>

(* WriteInput and Resize: nothing that still runs takes what is given to a *)
(* shell that has ended; the error is ignored.                             *)
GiveIfOwn(i) ==
    typed' = IF shell[local[i]] = "alive" /\ local[i] = i
             THEN [typed EXCEPT ![local[i]] = Append(@, i)] ELSE typed

Give(i) ==
    typed' = IF shell[local[i]] = "alive"
             THEN [typed EXCEPT ![local[i]] = Append(@, i)] ELSE typed

WriteInput(i) ==
    /\ At(i, {"input", "resize"}, "use")
    /\ Give(i)
    /\ Goto(i, "done")
    /\ UNCHANGED <<local, sessions, shell, closed, streaming, children, fileVars,
                   processVars, loopVars, pastVars>>

CloseWithoutKill(k) == closed' = closed \cup {k} /\ UNCHANGED shell

Close(k) ==
    /\ closed' = closed \cup {k}
    /\ shell' = [shell EXCEPT ![k] = "gone"]

CloseSession(i) ==
    /\ At(i, {"eof"}, "use")
    /\ Close(local[i])
    /\ Goto(i, "delete")
    /\ UNCHANGED <<local, sessions, streaming, typed, children, fileVars,
                   processVars, loopVars, pastVars>>

(* By id, whatever session is there by now.                                *)
DeleteSession(i) ==
    /\ In(i, "delete")
    /\ sessions' = [sessions EXCEPT ![got[i].id] = 0]
    /\ Goto(i, "done")
    /\ UNCHANGED <<local, shell, closed, streaming, typed, children, fileVars,
                   processVars, loopVars, pastVars>>

(* A shell ends by itself; StreamOutput finds out by its read error and    *)
(* closes the session, which stays in the map.                             *)
ShellExits(k) ==
    /\ Up /\ k \in streaming /\ shell[k] = "alive"
    /\ Len(got) < MaxEvents
    /\ shell' = [shell EXCEPT ![k] = "gone"]
    /\ got' = Append(got, [kind |-> "exit", shell |-> k])
    /\ ideal' = InTurn(ideal, Len(got) + 1, [kind |-> "exit", shell |-> k])
    /\ Goto(Len(got) + 1, "done")
    /\ calm' = (calm /\ Busy = {})
    /\ UNCHANGED <<local, sessions, closed, streaming, typed, children, fileVars,
                   processVars, loopVars, late>>

StreamEnds(k) ==
    /\ Up /\ k \in streaming /\ shell[k] = "gone"
    /\ streaming' = streaming \ {k}
    /\ closed' = closed \cup {k}
    /\ UNCHANGED <<handlerVars, sessions, shell, typed, children, fileVars,
                   processVars, loopVars, pastVars>>

-----------------------------------------------------------------------------
(* Files: handleFileUpload and handleFileDownload.  A message says whether *)
(* its path is inside the allowed directories.  Stat is one step; WriteFile *)
(* truncates the file, then writes from its start.                         *)
Exists == file # NoFile

TakesAnyUpload(i) == got[i].inside
TakesUpload(i) == got[i].inside /\ (Exists => got[i].overwrite)

Stat(i) ==
    /\ At(i, {"upload"}, "start")
    /\ IF TakesUpload(i) THEN Goto(i, "open") /\ UNCHANGED answer
                         ELSE Goto(i, "done") /\ Answer(i, "refused")
    /\ UNCHANGED <<local, terminalVars, children, file, fetched, processVars,
                   loopVars, pastVars>>

Truncate(i) ==
    /\ In(i, "open")
    /\ file' = <<>>
    /\ Goto(i, "write")
    /\ UNCHANGED <<local, terminalVars, children, fetched, answer, processVars,
                   loopVars, pastVars>>

Content(i) == Contents(i, got[i])

WriteFile(i) ==
    /\ In(i, "write")
    /\ file' = Content(i) \o SubSeq(file, got[i].size + 1, Len(file))
    /\ Goto(i, "done") /\ Answer(i, "ok")
    /\ UNCHANGED <<local, terminalVars, children, fetched, processVars, loopVars,
                   pastVars>>

Download(i) ==
    /\ At(i, {"download"}, "start")
    /\ IF got[i].inside /\ Exists
       THEN Answer(i, "ok") /\ fetched' = [fetched EXCEPT ![i] = file]
       ELSE Answer(i, "refused") /\ UNCHANGED fetched
    /\ Goto(i, "done")
    /\ UNCHANGED <<local, terminalVars, children, file, processVars, loopVars, pastVars>>

-----------------------------------------------------------------------------
(* Scripts: handleExecRequest and RunScript.  Run returns when bash is gone *)
(* and nobody holds the output pipe any more.                              *)
StartScript(i) ==
    /\ At(i, {"exec"}, "start")
    /\ shell' = [shell EXCEPT ![i] = "alive"]
    /\ Goto(i, "running")
    /\ UNCHANGED <<local, sessions, closed, streaming, typed, children, fileVars,
                   processVars, loopVars, pastVars>>

Fork(i) ==
    /\ In(i, "running") /\ shell[i] = "alive" /\ got[i].forks
    /\ children' = children \cup {i}
    /\ UNCHANGED <<handlerVars, terminalVars, fileVars, processVars, loopVars, pastVars>>

ScriptEnds(i) ==
    /\ In(i, "running") /\ shell[i] = "alive"
    /\ shell' = [shell EXCEPT ![i] = "gone"]
    /\ UNCHANGED <<handlerVars, sessions, closed, streaming, typed, children,
                   fileVars, processVars, loopVars, pastVars>>

ChildEnds(i) ==
    /\ Up /\ i \in children
    /\ children' = children \ {i}
    /\ UNCHANGED <<handlerVars, terminalVars, fileVars, processVars, loopVars, pastVars>>

Kill(i) == shell' = [shell EXCEPT ![i] = "gone"]

Timeout(i) ==
    /\ In(i, "running") /\ shell[i] = "alive" /\ got[i].timed
    /\ Kill(i)
    /\ UNCHANGED <<handlerVars, sessions, closed, streaming, typed, children,
                   fileVars, processVars, loopVars, pastVars>>

AnswerScript(i) ==
    /\ In(i, "running") /\ shell[i] = "gone" /\ i \notin children
    /\ Goto(i, "done") /\ Answer(i, "ok")
    /\ UNCHANGED <<local, terminalVars, children, file, fetched, processVars,
                   loopVars, pastVars>>

-----------------------------------------------------------------------------
(* Commands: handleCommand.                                                *)
Restart(i) ==
    /\ At(i, {"restart"}, "start")
    /\ exiting' = TRUE
    /\ Goto(i, "done")
    /\ UNCHANGED <<local, terminalVars, children, fileVars, status, stopped, loopVars,
                   pastVars>>

Exit == Up /\ exiting /\ Ends("exited")

Shutdown(i) ==
    /\ At(i, {"shutdown"}, "start") /\ ~stopped
    /\ stopped' = TRUE
    /\ Goto(i, "done")
    /\ UNCHANGED <<local, terminalVars, children, fileVars, status, exiting, loopVars,
                   pastVars>>

(* Closing a closed channel panics, in a handler and in main.              *)
ShutdownPanics(i) == At(i, {"shutdown"}, "start") /\ stopped /\ Ends("panicked")

Signal == Up /\ Ends(IF stopped THEN "panicked" ELSE "exited")

(* a.conn is read without connMu: connect may replace it before Close.     *)
ReadConn(i) ==
    /\ At(i, {"reconnect"}, "start")
    /\ local' = [local EXCEPT ![i] = dials]
    /\ Goto(i, "close")
    /\ UNCHANGED <<terminalVars, children, fileVars, processVars, loopVars, pastVars>>

CloseConn(i) ==
    /\ In(i, "close")
    /\ Goto(i, "done")
    /\ loop' = IF loop = "serving" /\ local[i] = dials THEN "check" ELSE loop
    /\ UNCHANGED <<local, terminalVars, children, fileVars, processVars, dials,
                   dialsStopped, pastVars>>

-----------------------------------------------------------------------------
(* connectLoop and connect, which never returns nil.                       *)
LoopIgnoresStop == loop = "check" /\ loop' = "dialling"

LoopCheck ==
    /\ loop = "check"
    /\ loop' = IF stopped THEN "returned" ELSE "dialling"

ConnectLoop ==
    /\ Up /\ LoopCheck
    /\ UNCHANGED <<handlerVars, terminalVars, children, fileVars, processVars, dials,
                   dialsStopped, pastVars>>

DialFails ==
    /\ Up /\ loop = "dialling" /\ loop' = "check"
    /\ UNCHANGED <<handlerVars, terminalVars, children, fileVars, processVars, dials,
                   dialsStopped, pastVars>>

Dial ==
    /\ Up /\ loop = "dialling" /\ dials < MaxDials
    /\ loop' = "serving"
    /\ dials' = dials + 1
    /\ dialsStopped' = IF stopped THEN dialsStopped + 1 ELSE dialsStopped
    /\ UNCHANGED <<handlerVars, terminalVars, children, fileVars, processVars, pastVars>>

ReadError ==
    /\ Up /\ loop = "serving" /\ loop' = "check"
    /\ UNCHANGED <<handlerVars, terminalVars, children, fileVars, processVars, dials,
                   dialsStopped, pastVars>>

-----------------------------------------------------------------------------
Terminals(i) ==
    Lookup(i) \/ NewSession(i) \/ NoSession(i) \/ StartSession(i) \/ WriteInput(i)
    \/ CloseSession(i) \/ DeleteSession(i)
Files(i) == Stat(i) \/ Truncate(i) \/ WriteFile(i) \/ Download(i)
Commands(i) == Restart(i) \/ Shutdown(i) \/ ShutdownPanics(i) \/ ReadConn(i) \/ CloseConn(i)
Handler(i) ==
    Terminals(i) \/ Files(i) \/ Commands(i) \/ StartScript(i) \/ AnswerScript(i)
World(i) == ShellExits(i) \/ Fork(i) \/ ScriptEnds(i) \/ ChildEnds(i)

Next ==
    \/ \E m \in Messages : Receive(m)
    \/ \E i \in 1..Len(got) : Handler(i) \/ World(i) \/ StreamEnds(i) \/ Timeout(i)
    \/ Exit \/ Signal
    \/ ConnectLoop \/ Dial \/ DialFails \/ ReadError

(* The scheduler runs what waits for a shell's end, and timers go off: the *)
(* least that WorkEnds needs.                                              *)
Fairness ==
    /\ \A i \in Slots : WF_agentVars(/\ i <= Len(got)
                                     /\ StreamEnds(i) \/ Timeout(i) \/ AnswerScript(i))
    /\ WF_agentVars(Exit)

Spec == Init /\ [][Next]_agentVars
FairSpec == Spec /\ Fairness

-----------------------------------------------------------------------------
(* While no two handlers have overlapped, the goroutines per message cost  *)
(* nothing: sessions, live shells, what they were given and in what order, *)
(* the file, what downloads returned and stopCh are those of an agent that *)
(* handles one message at a time.  Any leaked shell, lost or reordered     *)
(* keystroke, or torn file therefore needs an overlap.                     *)
View == [sessions |-> sessions, typed |-> typed, file |-> file, fetched |-> fetched,
         stopped |-> stopped,
         alive |-> {k \in 1..Len(got) : shell[k] = "alive" /\ Kind(k) # "exec"}]

CalmMeansSequential == calm /\ Busy = {} /\ Up => ideal = View

(* However the handlers of one session overlap, and even when two of them  *)
(* start a shell each, no keystroke vanishes: a handled input is with some *)
(* shell, unless it found no session and no pty could be started for it,   *)
(* or an end of session or a shell's exit got in its way.                  *)
KeystrokesLand ==
    \A i \in 1..Len(got) :
        Kind(i) = "input" /\ pc[i] = "done" =>
            \/ \E k \in Slots : \E n \in DOMAIN typed[k] : typed[k][n] = i
            \/ local[i] = 0 /\ ~got[i].pty
            \/ \E j \in 1..Len(got) : Kind(j) \in {"eof", "exit"}

(* Stat and WriteFile are two steps, so two uploads that overlap can both  *)
(* write although neither may overwrite; one that arrives after an upload  *)
(* has been answered never does.                                           *)
UploadsRespectEarlier ==
    \A j \in late : Uploaded(j) => got[j].overwrite

(* shutdown does not hang up, and a dial under way when stopCh is closed   *)
(* still connects; but the loop makes no second connection after that.     *)
AtMostOneDialAfterStop == dialsStopped <= 1

(* What is begun ends: a script with a timeout is answered once no child   *)
(* of it survives, a shell that is gone has its session closed, and an     *)
(* accepted restart ends the process, unless the process ends first.       *)
Unfinished(i) ==
    \/ pc[i] = "running" /\ got[i].timed /\ i \notin children
    \/ i \in streaming /\ shell[i] = "gone" /\ i \notin closed

==============================================================================
