----------------------------- MODULE ExecService -----------------------------
(***************************************************************************)
(* What running a script on a set of machines promises, whatever gateway,  *)
(* links and processes do in between.  A job is one entry of the list of   *)
(* machines that came with a request: <<request, position, machine>>.  A   *)
(* job is started only if it was asked for and never a second time, so a   *)
(* machine runs a script as often as the list names it and no oftener.     *)
(* Results are shown per request and machine, and only if a job of the two *)
(* has ended.  Nothing is promised to happen: a job may stay where it is   *)
(* for ever, and what is shown may be forgotten.                           *)
(***************************************************************************)
CONSTANT Jobs

VARIABLES
    phase,     \* of each job: "unasked", "asked", "running" or "ended"
    shown      \* <<request, machine>> whose result can be seen

serviceVars == <<phase, shown>>

Init ==
    /\ phase = [j \in Jobs |-> "unasked"]
    /\ shown = {}

(* The phase of the jobs in J goes on by one.                              *)
Advance(J, from, to) ==
    /\ \A j \in J : phase[j] = from
    /\ phase' = [j \in Jobs |-> IF j \in J THEN to ELSE phase[j]]

Ask(J) == Advance(J, "unasked", "asked")
Start(j) == Advance({j}, "asked", "running") /\ UNCHANGED shown
End(j) == Advance({j}, "running", "ended") /\ UNCHANGED shown

Show(j) ==
    /\ phase[j] = "ended"
    /\ shown' = shown \cup {<<j[1], j[3]>>}
    /\ UNCHANGED phase

(* Asking makes room in the history for the new request.                   *)
Forget == shown' \subseteq shown

Next ==
    \/ \E J \in SUBSET Jobs : Ask(J) /\ Forget
    \/ \E j \in Jobs : Start(j) \/ End(j) \/ Show(j)
    \/ Forget /\ UNCHANGED phase

Spec == Init /\ [][Next]_serviceVars
=============================================================================
