-------------------------- MODULE MachineStoreProofs -------------------------
(* Proofs about the master's machine inventory, for every set of agents,   *)
(* every threshold and every period of the clean-up ticker.                *)
EXTENDS MachineStore, TLAPS

Machines == UNION {[S -> Machine] : S \in SUBSET Agents}

-----------------------------------------------------------------------------
(* Functions on some agents whose values are machines, and the values the  *)
(* store's operations compute.                                             *)

LEMMA MachinesValues ==
    ASSUME NEW m \in Machines
    PROVE  DOMAIN m \subseteq Agents /\ \A a \in DOMAIN m : m[a] \in Machine
BY DEF Machines

LEMMA MachinesFunction ==
    ASSUME NEW S \in SUBSET Agents, NEW m, m = [a \in S |-> m[a]],
           \A a \in S : m[a] \in Machine
    PROVE  m \in Machines
BY DEF Machines

LEMMA MergeValue ==
    ASSUME NEW m \in Machine, NEW f \in Facts \cup {Blank}
    PROVE  /\ Merge(m, f) \in Machine
           /\ Merge(m, f).status = "online" /\ Merge(m, f).age = 0
           /\ Merge(m, f).group = m.group /\ Merge(m, f).tags = m.tags
<1>1. 0 \in 0..AgeCap
  BY TimeAssumption DEF AgeCap
<1>2. CASE f = Blank
  <2>1. Merge(m, f) = [m EXCEPT !.facts = @, !.status = "online", !.age = 0]
    BY <1>2 DEF Merge
  <2> QED
    BY <1>1, <2>1 DEF Machine
<1>3. CASE f # Blank
  <2>1. Merge(m, f) = [m EXCEPT !.facts = f, !.status = "online", !.age = 0]
    BY <1>3 DEF Merge
  <2> QED
    BY <1>1, <2>1 DEF Machine
<1> QED
  BY <1>2, <1>3

LEMMA FreshValue ==
    ASSUME NEW f \in Facts \cup {Blank}
    PROVE  /\ Fresh(f) \in Machine
           /\ Fresh(f).status = "online" /\ Fresh(f).age = 0
           /\ Fresh(f).group = NoGroup /\ Fresh(f).tags = {}
BY TimeAssumption DEF Fresh, Machine, AgeCap

LEMMA CleanupValue ==
    ASSUME NEW m \in Machine
    PROVE  /\ CleanupStale(m) \in Machine
           /\ CleanupStale(m).age = m.age /\ CleanupStale(m).group = m.group
           /\ CleanupStale(m).tags = m.tags
           /\ CleanupStale(m).status = "online" => m.age <= Threshold
           /\ m.age <= Threshold => CleanupStale(m).status = m.status
BY TimeAssumption DEF CleanupStale, Machine, AgeCap

-----------------------------------------------------------------------------
(* The inductive invariant.  The clean-up runs only once in a period, so   *)
(* how long a machine may have been silent and online depends on how long  *)
(* ago that was.                                                           *)

SilenceBound ==
    \A a \in Known :
        machines[a].status = "online" => machines[a].age <= Threshold + sinceCleanup

StoreInv ==
    /\ machines \in Machines
    /\ sinceCleanup \in 0..Period
    /\ assigned \in [Agents -> Groups \cup {NoGroup}]
    /\ tagged \in [Agents -> SUBSET Tags]
    /\ SilenceBound
    /\ ReportingStaysOnline
    /\ LabelsAreKept
    /\ \A a \in Agents \ Known : assigned[a] = NoGroup /\ tagged[a] = {}

(* What has to be shown of the machines after a step.                      *)
MachineInv(a) ==
    /\ machines[a] \in Machine
    /\ machines[a].status = "online" => machines[a].age <= Threshold + sinceCleanup
    /\ machines[a].age <= Threshold => machines[a].status = "online"
    /\ machines[a].group = assigned[a] /\ machines[a].tags = tagged[a]

LEMMA PerMachine ==
    ASSUME StoreInv
    PROVE  /\ machines \in Machines
           /\ sinceCleanup \in 0..Period
           /\ assigned \in [Agents -> Groups \cup {NoGroup}]
           /\ tagged \in [Agents -> SUBSET Tags]
           /\ \A a \in Known : MachineInv(a)
           /\ \A a \in Agents \ Known : assigned[a] = NoGroup /\ tagged[a] = {} /\ tagged[a] = {}
BY MachinesValues
   DEF StoreInv, SilenceBound, ReportingStaysOnline, LabelsAreKept, MachineInv, Known

(* ... and that it is enough.                                              *)
LEMMA FromMachines ==
    ASSUME machines' \in Machines,
           sinceCleanup' \in 0..Period,
           assigned' \in [Agents -> Groups \cup {NoGroup}],
           tagged' \in [Agents -> SUBSET Tags],
           \A a \in Known' : MachineInv(a)',
           \A a \in Agents \ Known' : assigned'[a] = NoGroup /\ tagged'[a] = {}
    PROVE  StoreInv'
BY DEF StoreInv, SilenceBound, ReportingStaysOnline, LabelsAreKept, MachineInv, Known

LEMMA UpdateStep ==
    ASSUME StoreInv, NEW a \in Agents, NEW f \in Facts \cup {Blank},
           UpdateMachine(a, f), UNCHANGED <<sinceCleanup, assigned, tagged>>
    PROVE  StoreInv'
<1>1. Known \subseteq Agents
  BY MachinesValues DEF StoreInv, Known
<1>2. machines' = [b \in Known \cup {a} |-> machines'[b]] /\ Known' = Known \cup {a}
  BY DEF UpdateMachine, Known
<1>3. ASSUME NEW b \in Known \cup {a} PROVE MachineInv(b)'
  <2>1. CASE b # a
    <3>1. b \in Known /\ machines'[b] = machines[b]
      BY <2>1 DEF UpdateMachine
    <3> QED
      BY <3>1, PerMachine DEF MachineInv
  <2>2. CASE b = a /\ a \in Known
    <3>1. machines'[b] = Merge(machines[a], f)
      BY <2>2 DEF UpdateMachine
    <3>2. machines[a] \in Machine /\ machines[a].group = assigned[a]
         /\ machines[a].tags = tagged[a]
      BY <2>2, PerMachine DEF MachineInv
    <3> QED
      BY <2>2, <3>1, <3>2, MergeValue, TimeAssumption DEF MachineInv, StoreInv
  <2>3. CASE b = a /\ a \notin Known
    <3>1. machines'[b] = Fresh(f)
      BY <2>3 DEF UpdateMachine
    <3>2. assigned[a] = NoGroup /\ tagged[a] = {}
      BY <2>3, PerMachine
    <3> QED
      BY <2>3, <3>1, <3>2, FreshValue, TimeAssumption DEF MachineInv, StoreInv
  <2> QED
    BY <1>3, <2>1, <2>2, <2>3
<1>4. machines' \in Machines
  BY <1>1, <1>2, <1>3, MachinesFunction DEF MachineInv
<1> QED
  BY <1>1, <1>2, <1>3, <1>4, PerMachine, FromMachines

(* A step that keeps the known machines and rewrites each of them.         *)
LEMMA RewriteStep ==
    ASSUME StoreInv, machines' = [b \in Known |-> machines'[b]],
           sinceCleanup' \in 0..Period,
           assigned' \in [Agents -> Groups \cup {NoGroup}],
           tagged' \in [Agents -> SUBSET Tags],
           \A b \in Agents \ Known : assigned'[b] = NoGroup /\ tagged'[b] = {},
           \A b \in Known : MachineInv(b)'
    PROVE  StoreInv'
<1>1. Known \subseteq Agents
  BY MachinesValues DEF StoreInv, Known
<1>2. Known' = Known
  BY DEF Known
<1>3. machines' \in Machines
  BY <1>1, MachinesFunction DEF MachineInv
<1> QED
  BY <1>2, <1>3, FromMachines

LEMMA StoreStep == StoreInv /\ [Next]_storeVars => StoreInv'
<1> SUFFICES ASSUME StoreInv, [Next]_storeVars PROVE StoreInv'
  OBVIOUS
<1>0. /\ \A b \in Known : MachineInv(b) /\ b \in Agents
      /\ machines = [b \in Known |-> machines[b]]
  BY PerMachine, MachinesValues DEF Known, StoreInv, Machines
<1>1. ASSUME NEW a \in Agents, NEW f \in Facts, Register(a, f) PROVE StoreInv'
  BY <1>1, UpdateStep DEF Register
<1>2. ASSUME NEW a \in Agents, Announce(a) PROVE StoreInv'
  BY <1>2, UpdateStep DEF Announce
<1>3. ASSUME NEW a \in Agents, Metrics(a) PROVE StoreInv'
  <2>1. ASSUME NEW b \in Known PROVE MachineInv(b)'
    BY <1>0, <1>3, TimeAssumption DEF Metrics, MachineInv, Machine, AgeCap, Known, StoreInv
  <2> QED
    BY <1>3, <2>1, <1>0, RewriteStep DEF Metrics, StoreInv, Known
<1>4. ASSUME NEW a \in Agents, NEW g \in Groups, SetGroup(a, g) PROVE StoreInv'
  <2>1. ASSUME NEW b \in Known PROVE MachineInv(b)'
    BY <1>0, <1>4 DEF SetGroup, MachineInv, Machine, Known, StoreInv
  <2> QED
    BY <1>4, <2>1, <1>0, RewriteStep DEF SetGroup, StoreInv, Known
<1>4a. ASSUME NEW a \in Agents, NEW ts \in SUBSET Tags, SetTags(a, ts) PROVE StoreInv'
  <2>1. ASSUME NEW b \in Known PROVE MachineInv(b)'
    BY <1>0, <1>4a DEF SetTags, MachineInv, Machine, Known, StoreInv
  <2> QED
    BY <1>4a, <2>1, <1>0, RewriteStep DEF SetTags, StoreInv, Known
<1>5. CASE Tick
  <2>1. ASSUME NEW b \in Known PROVE MachineInv(b)'
    <3>1. machines'[b] = [machines[b] EXCEPT
                            !.age = IF @ < AgeCap THEN @ + 1 ELSE @]
      BY <1>5, <2>1 DEF Tick
    <3>2. MachineInv(b)
      BY <1>0, <2>1
    <3>3. sinceCleanup \in Nat /\ sinceCleanup' = sinceCleanup + 1
          /\ assigned' = assigned /\ tagged' = tagged /\ sinceCleanup < Period
      BY <1>5 DEF Tick, StoreInv
    <3> QED
      BY <3>1, <3>2, <3>3, TimeAssumption DEF MachineInv, Machine, AgeCap
  <2> QED
    BY <1>5, <2>1, <1>0, RewriteStep, TimeAssumption DEF Tick, StoreInv, Known
<1>6. CASE Cleanup
  <2>1. ASSUME NEW b \in Known PROVE MachineInv(b)'
    <3>1. machines'[b] = CleanupStale(machines[b])
          /\ sinceCleanup' = 0 /\ assigned' = assigned /\ tagged' = tagged
      BY <1>6, <2>1 DEF Cleanup
    <3>2. MachineInv(b)
      BY <1>0, <2>1
    <3> QED
      BY <3>1, <3>2, CleanupValue, TimeAssumption DEF MachineInv
  <2> QED
    BY <1>6, <2>1, <1>0, RewriteStep, TimeAssumption DEF Cleanup, StoreInv, Known
<1>7. CASE MasterRestart
  <2>1. Known' = {} /\ machines' \in Machines
    BY <1>7 DEF MasterRestart, Known, Machines
  <2> QED
    BY <1>7, <2>1, FromMachines, TimeAssumption DEF MasterRestart
<1>8. CASE UNCHANGED storeVars
  BY <1>8 DEF storeVars, StoreInv, SilenceBound, ReportingStaysOnline, LabelsAreKept, Known
<1> QED
  BY <1>1, <1>2, <1>3, <1>4, <1>5, <1>6, <1>7, <1>8, <1>4a
     DEF Next

LEMMA StoreInvariant == Spec => []StoreInv
<1>1. Init => StoreInv
  BY TimeAssumption DEF Init, StoreInv, SilenceBound, ReportingStaysOnline,
     LabelsAreKept, Known, Machines
<1>2. QED
  BY <1>1, StoreStep, PTL DEF Spec

(* The type invariant: ages stay below the cap, and whatever merges, the   *)
(* clean-up and the operators write are machines.                          *)
THEOREM TypeCorrect == Spec => []TypeOK
<1>1. StoreInv => TypeOK
  BY DEF StoreInv, TypeOK, Machines
<1>2. QED
  BY <1>1, StoreInvariant, PTL

(* A machine is never shown online when it has been silent for longer than *)
(* the threshold and one period of the clean-up, for any values of both.   *)
THEOREM SilenceIsNoticed == Spec => []SilentGoesOffline
<1>1. StoreInv => SilentGoesOffline
  <2> SUFFICES ASSUME StoreInv, NEW a \in Known, machines[a].status = "online"
               PROVE  machines[a].age <= Threshold + Period
    BY DEF SilentGoesOffline
  <2>1. machines[a].age \in Nat
    BY MachinesValues, TimeAssumption DEF StoreInv, Known, Machine, AgeCap
  <2> QED
    BY <2>1, TimeAssumption DEF StoreInv, SilenceBound
<1>2. QED
  BY <1>1, StoreInvariant, PTL

(* A machine that reports at least once in every threshold is never shown  *)
(* offline.                                                                *)
THEOREM ReportersAreOnline == Spec => []ReportingStaysOnline
<1>1. StoreInv => ReportingStaysOnline
  BY DEF StoreInv
<1>2. QED
  BY <1>1, StoreInvariant, PTL

(* No registration takes a machine out of the group it was assigned to, or *)
(* its tags away.                                                          *)
THEOREM LabelsSurvive == Spec => []LabelsAreKept
<1>1. StoreInv => LabelsAreKept
  BY DEF StoreInv
<1>2. QED
  BY <1>1, StoreInvariant, PTL

(* No merge with a blank registration, no metrics, clean-up or assignment  *)
(* loses the inventory that an agent reported.                             *)
THEOREM FactsSurvive == Spec => FactsAreKept
<1>1. ASSUME StoreInv, [Next]_storeVars, NEW a \in Known, a \in DOMAIN machines',
             machines[a].facts # Blank
      PROVE  machines'[a].facts # Blank
  <2>0. machines[a] \in Machine
    BY <1>1, MachinesValues DEF StoreInv, Known
  <2>1. ASSUME NEW b \in Agents, NEW f \in Facts \cup {Blank}, UpdateMachine(b, f)
        PROVE  machines'[a].facts # Blank
    <3>1. machines'[a] \in {machines[a], Merge(machines[a], f)}
      BY <2>1 DEF UpdateMachine
    <3>2. Merge(machines[a], f).facts # Blank
      <4>1. CASE f = Blank
        BY <1>1, <2>0, <4>1 DEF Merge, Machine
      <4>2. CASE f # Blank
        BY <1>1, <2>0, <4>2 DEF Merge, Machine
      <4> QED
        BY <4>1, <4>2
    <3> QED
      BY <1>1, <3>1, <3>2
  <2>2. ASSUME NEW b \in Agents, NEW f \in Facts, Register(b, f)
        PROVE  machines'[a].facts # Blank
    BY <2>1, <2>2 DEF Register
  <2>3. ASSUME NEW b \in Agents, Announce(b) PROVE machines'[a].facts # Blank
    BY <2>1, <2>3 DEF Announce
  <2>4. ASSUME NEW b \in Agents, Metrics(b) PROVE machines'[a].facts # Blank
    <3>1. machines'[a] \in {machines[a],
                            [machines[a] EXCEPT !.age = 0, !.status = "online"]}
      BY <2>4 DEF Metrics, Known
    <3> QED
      BY <1>1, <2>0, <3>1 DEF Machine
  <2>5. ASSUME NEW b \in Agents, NEW g \in Groups, SetGroup(b, g)
        PROVE  machines'[a].facts # Blank
    <3>1. machines'[a] \in {machines[a], [machines[a] EXCEPT !.group = g]}
      BY <2>5 DEF SetGroup, Known
    <3> QED
      BY <1>1, <2>0, <3>1 DEF Machine
  <2>5a. ASSUME NEW b \in Agents, NEW ts \in SUBSET Tags, SetTags(b, ts)
         PROVE  machines'[a].facts # Blank
    <3>1. machines'[a] \in {machines[a], [machines[a] EXCEPT !.tags = ts]}
      BY <2>5a DEF SetTags, Known
    <3> QED
      BY <1>1, <2>0, <3>1 DEF Machine
  <2>6. CASE Tick
    <3>1. machines'[a] = [machines[a] EXCEPT !.age = IF @ < AgeCap THEN @ + 1 ELSE @]
      BY <2>6 DEF Tick
    <3> QED
      BY <1>1, <2>0, <3>1 DEF Machine
  <2>7. CASE Cleanup
    <3>1. machines'[a] = CleanupStale(machines[a])
      BY <2>7 DEF Cleanup
    <3> QED
      BY <1>1, <2>0, <3>1 DEF Machine, CleanupStale
  <2>8. CASE MasterRestart
    BY <1>1, <2>8 DEF MasterRestart
  <2>9. CASE UNCHANGED storeVars
    BY <1>1, <2>9 DEF storeVars
  <2> QED
    BY <1>1, <2>2, <2>3, <2>4, <2>5, <2>6, <2>7, <2>8, <2>9, <2>5a DEF Next
<1>2. StoreInv /\ [Next]_storeVars =>
        \A a \in Known : a \in DOMAIN machines' /\ machines[a].facts # Blank
           => machines'[a].facts # Blank
  BY <1>1
<1>3. QED
  BY <1>2, StoreInvariant, PTL DEF Spec, FactsAreKept
=============================================================================
