---------------------------- MODULE MCAgentProcess ----------------------------
(***************************************************************************)
(* Model values for AgentProcess: one terminal session's messages, uploads *)
(* of two lengths to one path, scripts, and the three commands.            *)
(***************************************************************************)
EXTENDS AgentProcess

CONSTANT s1

MCMessages ==
    {[kind |-> "input", id |-> s1, pty |-> p] : p \in BOOLEAN}
    \cup {[kind |-> "eof", id |-> s1, pty |-> TRUE], [kind |-> "resize", id |-> s1]}
    \cup {[kind |-> "upload", inside |-> TRUE, overwrite |-> o, size |-> IF o THEN 1 ELSE 2] :
             o \in BOOLEAN}
    \cup {[kind |-> "upload", inside |-> FALSE, overwrite |-> TRUE, size |-> 1],
          [kind |-> "download", inside |-> TRUE],
          [kind |-> "exec", timed |-> TRUE, forks |-> TRUE],
          [kind |-> "exec", timed |-> FALSE, forks |-> FALSE],
          [kind |-> "restart"], [kind |-> "shutdown"], [kind |-> "reconnect"]}
==============================================================================
