----------------------------- MODULE ExecRecords ------------------------------
(***************************************************************************)
(* The records of the script history (ExecRecord, ExecResult) and what     *)
(* ExecHistory's methods do to a list of them, as functions.  ExecHistory  *)
(* and ExecFlow are built on them.  The script and its output are left     *)
(* out; of a result only its Done matters.                                 *)
(***************************************************************************)
EXTENDS Naturals, Sequences

CONSTANTS
    Agents,      \* agent ids
    MaxSize      \* NewExecHistory's maxSize

ASSUME SizeAssumption == MaxSize \in Nat \ {0}

(* The Results maps that exist: some agents, each with its Done flag.      *)
Results == UNION {[S -> BOOLEAN] : S \in SUBSET Agents}

(* AgentIDs is a list, as the client sent it: an agent may be in it twice. *)
Record == [id : Nat \ {0}, targets : Seq(Agents),
           results : Results, status : {"running", "completed"}]

-----------------------------------------------------------------------------
Named(targets) == {targets[k] : k \in DOMAIN targets}

IdsOf(s) == {s[i].id : i \in DOMAIN s}

EvictNewest(s) ==
    IF Len(s) > MaxSize THEN SubSeq(s, 1, MaxSize) ELSE s

Evict(s) ==
    IF Len(s) > MaxSize THEN SubSeq(s, Len(s) - MaxSize + 1, Len(s)) ELSE s

NewRecord(id, targets) ==
    [id |-> id, targets |-> targets, results |-> [a \in {} |-> TRUE],
     status |-> "running"]

With(results, agent, done) ==
    [a \in DOMAIN results \cup {agent} |->
        IF a = agent THEN done ELSE results[a]]

OnlyThis(r, agent, done) ==
    [r EXCEPT !.results = [a \in {agent} |-> done], !.status = "completed"]

AnswerPartial(r, agent, done) ==
    LET results == With(r.results, agent, done)
    IN  [r EXCEPT !.results = results,
                  !.status = IF Named(r.targets) \subseteq DOMAIN results
                             THEN "completed" ELSE "partial"]

(* One record takes a result; the loop over its Results decides whether    *)
(* "all done" holds.                                                       *)
Answer(r, agent, done) ==
    LET results == With(r.results, agent, done)
        allDone == \A a \in DOMAIN results : results[a]
    IN  [r EXCEPT !.results = results,
                  !.status = IF allDone THEN "completed" ELSE @]
=============================================================================
