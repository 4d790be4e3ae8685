---------------------------- MODULE MachineStore -----------------------------
(***************************************************************************)
(* The master's machine inventory (internal/master/store/store.go): the    *)
(* registrations and metrics that the gateway's read loop feeds it, the    *)
(* clean-up ticker of cmd/master that turns silent machines offline, and   *)
(* the groups and tags the operators assign.  Every operation holds the    *)
(* store's mutex and is one step.                                          *)
(*                                                                         *)
(* Time is discrete.  Instead of LastSeen a machine has its age, the time  *)
(* since then, kept up to AgeCap: beyond it nothing changes any more.      *)
(***************************************************************************)
EXTENDS Naturals

CONSTANTS
    Agents,      \* agent ids
    Facts,       \* the inventories an agent can report: hostname, OS, ...
    Blank,       \* their zero values, which UpdateMachine does not merge
    Groups,      \* group names
    NoGroup,     \* the empty group name
    Tags,        \* tags an operator can set
    Threshold,   \* CleanupStale's argument
    Period       \* of the clean-up ticker

ASSUME BlankAssumption == Blank \notin Facts
ASSUME GroupAssumption == NoGroup \notin Groups
ASSUME TimeAssumption == Threshold \in Nat /\ Period \in Nat \ {0}

AgeCap == Threshold + Period + 1   \* bound: ages are told apart up to here

VARIABLES
    machines,      \* Store.machines, a function on the known ids
    sinceCleanup,  \* time since the ticker last fired
    assigned,      \* the group last assigned to each known machine
    tagged         \* the tags last set

storeVars == <<machines, sinceCleanup, assigned, tagged>>

Machine == [facts : Facts \cup {Blank}, status : {"online", "offline"},
            age : 0..AgeCap, group : Groups \cup {NoGroup}, tags : SUBSET Tags]

TypeOK ==
    /\ DOMAIN machines \subseteq Agents
    /\ machines \in [DOMAIN machines -> Machine]
    /\ sinceCleanup \in 0..Period
    /\ assigned \in [Agents -> Groups \cup {NoGroup}]
    /\ tagged \in [Agents -> SUBSET Tags]

Init ==
    /\ machines = [a \in {} |-> Blank]
    /\ sinceCleanup = 0
    /\ assigned = [a \in Agents |-> NoGroup]
    /\ tagged = [a \in Agents |-> {}]

-----------------------------------------------------------------------------
(* The operations of the store.                                            *)

Known == DOMAIN machines

FreshUnset(facts) ==
    [facts |-> facts, status |-> "", age |-> 0, group |-> NoGroup,
     tags |-> {}]

Fresh(facts) ==
    [facts |-> facts, status |-> "online", age |-> 0, group |-> NoGroup,
     tags |-> {}]

Overwrite(m, facts) == Fresh(facts)

CopyBlanks(m, facts) ==
    [m EXCEPT !.facts = facts, !.status = "online", !.age = 0]

(* "Merge: only update non-zero fields from the new info".                 *)
Merge(m, facts) ==
    [m EXCEPT !.facts = IF facts = Blank THEN @ ELSE facts,
              !.status = "online", !.age = 0]

UpdateMachine(a, facts) ==
    machines' = [b \in Known \cup {a} |->
        IF b # a THEN machines[b]
        ELSE IF a \in Known THEN Merge(machines[a], facts) ELSE Fresh(facts)]

CleanupTooEager(m) ==
    IF m.age >= Threshold /\ m.status = "online"
    THEN [m EXCEPT !.status = "offline"] ELSE m

CleanupTooLazy(m) ==
    IF m.age > Threshold + Period /\ m.status = "online"
    THEN [m EXCEPT !.status = "offline"] ELSE m

(* LastSeen < cutoff, for the machines still thought to be online.         *)
CleanupStale(m) ==
    IF m.age > Threshold /\ m.status = "online"
    THEN [m EXCEPT !.status = "offline"] ELSE m

-----------------------------------------------------------------------------
(* What reaches the store through the gateway's read loop.                 *)

(* An agent's own registration: after its dial and on every heartbeat.     *)
Register(a, facts) ==
    /\ UpdateMachine(a, facts)
    /\ UNCHANGED <<sinceCleanup, assigned, tagged>>

(* The gateway announces an agent of its table after a new dial, knowing   *)
(* nothing but its id; a "heartbeat" message has the same effect.          *)
Announce(a) ==
    /\ UpdateMachine(a, Blank)
    /\ UNCHANGED <<sinceCleanup, assigned, tagged>>

(* UpdateMetrics: an unknown agent's metrics are dropped.                  *)
Metrics(a) ==
    /\ a \in Known
    /\ machines' = [machines EXCEPT ![a].age = 0, ![a].status = "online"]
    /\ UNCHANGED <<sinceCleanup, assigned, tagged>>

-----------------------------------------------------------------------------
(* The ticker, the operators, the process.                                 *)

(* Time passes, but not beyond the ticker's next tick.                     *)
Tick ==
    /\ sinceCleanup < Period
    /\ sinceCleanup' = sinceCleanup + 1
    /\ machines' = [a \in Known |->
           [machines[a] EXCEPT !.age = IF @ < AgeCap THEN @ + 1 ELSE @]]
    /\ UNCHANGED <<assigned, tagged>>

Cleanup ==
    /\ sinceCleanup = Period
    /\ sinceCleanup' = 0
    /\ machines' = [a \in Known |-> CleanupStale(machines[a])]
    /\ UNCHANGED <<assigned, tagged>>

(* HandleMachineGroup.  It answers "ok" for an unknown machine as well.    *)
SetGroup(a, g) ==
    /\ a \in Known
    /\ machines' = [machines EXCEPT ![a].group = g]
    /\ assigned' = [assigned EXCEPT ![a] = g]
    /\ UNCHANGED <<sinceCleanup, tagged>>

(* HandleMachineTags with PUT.                                             *)
SetTags(a, ts) ==
    /\ a \in Known
    /\ machines' = [machines EXCEPT ![a].tags = ts]
    /\ tagged' = [tagged EXCEPT ![a] = ts]
    /\ UNCHANGED <<sinceCleanup, assigned>>

(* The inventory is in memory.                                             *)
MasterRestart ==
    /\ machines' = [a \in {} |-> Blank]
    /\ sinceCleanup' = 0
    /\ assigned' = [a \in Agents |-> NoGroup]
    /\ tagged' = [a \in Agents |-> {}]

-----------------------------------------------------------------------------
Next ==
    \/ \E a \in Agents :
           \/ \E f \in Facts : Register(a, f)
           \/ Announce(a)
           \/ Metrics(a)
           \/ \E g \in Groups : SetGroup(a, g)
           \/ \E ts \in SUBSET Tags : SetTags(a, ts)
    \/ Tick \/ Cleanup
    \/ MasterRestart

Spec == Init /\ [][Next]_storeVars

-----------------------------------------------------------------------------
(* A machine that has gone silent is shown online no longer than the       *)
(* threshold and one period of the ticker: whatever the phase of the       *)
(* ticker at its last report, no clean-up passes it over.                  *)
SilentGoesOffline ==
    \A a \in Known :
        machines[a].status = "online" => machines[a].age <= Threshold + Period

(* A machine that reported no longer ago than the threshold is online: the *)
(* clean-up never takes a reporting machine off, however it interleaves    *)
(* with the reports.                                                       *)
ReportingStaysOnline ==
    \A a \in Known :
        machines[a].age <= Threshold => machines[a].status = "online"

(* The group and the tags that operators assigned survive every later      *)
(* registration: agents and gateway send none, and UpdateMachine must not  *)
(* merge that.                                                             *)
LabelsAreKept ==
    \A a \in Known :
        machines[a].group = assigned[a] /\ machines[a].tags = tagged[a]

(* The inventory an agent reported is not lost to the empty registrations  *)
(* that the gateway sends after a reconnection, nor to anything else but a *)
(* restart of the master.                                                  *)
FactsAreKept ==
    [][\A a \in Known : a \in DOMAIN machines' /\ machines[a].facts # Blank
           => machines'[a].facts # Blank]_storeVars
=============================================================================
