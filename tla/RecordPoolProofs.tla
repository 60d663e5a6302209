--------------------------- MODULE RecordPoolProofs ---------------------------
(***************************************************************************)
(* What is kept on record, and what is done only on the record: approvals,   *)
(* incidents, the quarantine list, the file of campaigns, the events of a    *)
(* stream, the goals and the staged changes the Sovereign approved. Then the *)
(* worker pool, the circuit breakers, the clocks and the watchers of a       *)
(* configuration file. For any number of threads, registries, services,      *)
(* requests, streams, modules, tasks, failures, schedules, jobs and writes.  *)
(***************************************************************************)
EXTENDS Promises, Incidents, WorkQueue, CircuitBreakers, ConfigReload,
        SequenceTheorems, FiniteSetTheorems, TLAPS

-----------------------------------------------------------------------------
(* Approvals: what the Sovereign said stands in the entry, and what runs or  *)
(* has run stands approved.                                                  *)
Ran(r) == (\E e \in Engines : running[e] = r) \/ (\E i \in DOMAIN outcomes : outcomes[i][1] = r)

ApprovalShape ==
    /\ entry \in [Requests -> [status : {"none", "pending", "approved", "rejected", "expired"},
                               at : Nat]]
    /\ approvalClock \in Nat
    /\ running \in [Engines -> Requests \cup {"none"}]
    /\ outcomes \in Seq(Requests \X {"success", "failed"})

SaidStands ==
    /\ \A r \in Requests : r \notin submitted => entry[r].status = "none"
    /\ \A r \in Requests, v \in {"approved", "rejected"} : entry[r].status = v <=> <<r, v>> \in said

RanIsApproved == \A r \in Requests : Ran(r) => entry[r].status = "approved"

ApprovalInv == ApprovalShape /\ SaidStands /\ RanIsApproved

LEMMA ApprovalInitInv == ApprovalInit => ApprovalInv
<1> SUFFICES ASSUME ApprovalInit PROVE ApprovalInv
  OBVIOUS
<1>1. ApprovalShape /\ SaidStands
  BY DEF ApprovalInit, ApprovalShape, SaidStands, NoEntry
<1>2. RanIsApproved
  BY ApprovalAssumption DEF ApprovalInit, RanIsApproved, Ran
<1> QED BY <1>1, <1>2 DEF ApprovalInv

LEMMA ApprovalStepInv == ApprovalInv /\ [ApprovalNext]_approvalVars => ApprovalInv'
<1> SUFFICES ASSUME ApprovalInv, [ApprovalNext]_approvalVars PROVE ApprovalInv'
  OBVIOUS
<1>0. "none" \notin Requests /\ ApprovalShape /\ SaidStands /\ RanIsApproved
  BY ApprovalAssumption DEF ApprovalInv
<1>1. ASSUME NEW r \in Requests, NEW risk \in RiskLevels, NEW reason \in BOOLEAN,
             Submit(r, risk, reason)
      PROVE  ApprovalInv'
  <2>1. entry[r].status = "none"
    BY <1>0, <1>1 DEF Submit, SaidStands
  <2>2. ApprovalShape' /\ SaidStands'
    BY <1>0, <1>1, <2>1 DEF Submit, ApprovalShape, SaidStands
  <2>3. RanIsApproved'
    BY <1>0, <1>1, <2>1 DEF Submit, ApprovalShape, RanIsApproved, Ran
  <2> QED BY <2>2, <2>3 DEF ApprovalInv
<1>2. ASSUME NEW r \in Requests, NEW verdict \in {"approved", "rejected"}, GiveVerdict(r, verdict)
      PROVE  ApprovalInv'
  <2>1. ApprovalShape'
    BY <1>0, <1>2 DEF GiveVerdict, ApprovalShape
  <2>2. SaidStands'
    BY <1>0, <1>2 DEF GiveVerdict, ApprovalShape, SaidStands
  <2>3. RanIsApproved'
    BY <1>0, <1>2 DEF GiveVerdict, ApprovalShape, RanIsApproved, Ran
  <2> QED BY <2>1, <2>2, <2>3 DEF ApprovalInv
<1>3. CASE ExpireEntries
  <2>1. ApprovalShape' /\ SaidStands'
    BY <1>0, <1>3 DEF ExpireEntries, Stale, ApprovalShape, SaidStands
  <2>2. RanIsApproved'
    BY <1>0, <1>3 DEF ExpireEntries, Stale, ApprovalShape, RanIsApproved, Ran
  <2> QED BY <2>1, <2>2 DEF ApprovalInv
<1>4. ASSUME NEW e \in Engines, NEW r \in Requests, ExecuteEntry(e, r) PROVE ApprovalInv'
  <2>1. ApprovalShape' /\ SaidStands'
    BY <1>0, <1>4 DEF ExecuteEntry, ApprovalShape, SaidStands
  <2>2. RanIsApproved'
    BY <1>0, <1>4 DEF ExecuteEntry, ApprovalShape, RanIsApproved, Ran
  <2> QED BY <2>1, <2>2 DEF ApprovalInv
<1>5. ASSUME NEW e \in Engines, NEW o \in {"success", "failed"}, ExecutionEnds(e, o)
      PROVE  ApprovalInv'
  <2>1. /\ running' = [running EXCEPT ![e] = "none"]
        /\ outcomes' = Append(outcomes, <<running[e], o>>)
        /\ running[e] \in Requests
        /\ UNCHANGED <<entry, submitted, approvalClock, said>>
    BY <1>0, <1>5 DEF ExecutionEnds, ApprovalShape
  <2>2. outcomes' \in Seq(Requests \X {"success", "failed"})
    BY <1>0, <2>1 DEF ApprovalShape
  <2>3. \A i \in DOMAIN outcomes' : outcomes'[i] = <<running[e], o>> \/
                                    (i \in DOMAIN outcomes /\ outcomes'[i] = outcomes[i])
    BY <1>0, <2>1 DEF ApprovalShape
  <2>4. \A r \in Requests : Ran(r)' => Ran(r)
    BY <1>0, <2>1, <2>3 DEF Ran, ApprovalShape
  <2> QED BY <1>0, <2>1, <2>2, <2>4 DEF ApprovalInv, ApprovalShape, SaidStands, RanIsApproved
<1>6. CASE ApprovalTick
  BY <1>0, <1>6 DEF ApprovalTick, ApprovalInv, ApprovalShape, SaidStands, RanIsApproved, Ran
<1>7. CASE UNCHANGED approvalVars
  BY <1>0, <1>7 DEF approvalVars, ApprovalInv, ApprovalShape, SaidStands, RanIsApproved, Ran
<1> QED BY <1>1, <1>2, <1>3, <1>4, <1>5, <1>6, <1>7 DEF ApprovalNext

(* guardrail.py, approval_queue.py, execution_engine.py: with any number of  *)
(* engines and verdicts, in any order, no command runs that the Sovereign    *)
(* did not approve, or that was rejected, or that expired.                   *)
THEOREM OnlyApprovedRuns == ApprovalSpec => []CommandsWereApproved
<1>1. ApprovalInv => CommandsWereApproved
  BY DEF ApprovalInv, SaidStands, RanIsApproved, CommandsWereApproved, Ran
<1> QED BY <1>1, ApprovalInitInv, ApprovalStepInv, PTL DEF ApprovalSpec

-----------------------------------------------------------------------------
(* Incidents: no two threads announce the same one, and nothing is announced *)
(* that was not made.                                                        *)
IncidentShape ==
    /\ made \in Nat /\ made <= MaxIncidents
    /\ store \in [Signatures -> [id : Nat, open : BOOLEAN, severity : Nat]]
    /\ monitor \in [Monitors -> Nat] /\ worst \in [Signatures -> Nat]
    /\ announced \in [1..MaxIncidents -> Nat]

OnlyMade ==
    /\ \A s \in Signatures : store[s].id <= made
    /\ \A m \in Monitors : monitor[m] <= made
    /\ \A i \in 1..MaxIncidents : i > made => announced[i] = 0

OneAnnouncer == \A m, n \in Monitors : m # n /\ monitor[m] # 0 => monitor[m] # monitor[n]

AnnouncedOnce ==
    \A i \in 1..MaxIncidents :
        i <= made => announced[i] = IF \E m \in Monitors : monitor[m] = i THEN 0 ELSE 1

ShowsWorst ==
    /\ \A s \in Signatures : store[s].open => store[s].severity = worst[s]
    /\ \A s, t \in Signatures : s # t /\ store[s].id # 0 => store[s].id # store[t].id

IncidentInv == IncidentShape /\ OnlyMade /\ OneAnnouncer /\ AnnouncedOnce /\ ShowsWorst

LEMMA IncidentInitInv == IncidentInit => IncidentInv
BY IncidentAssumption DEF IncidentInit, IncidentInv, NoIncident, IncidentShape, OnlyMade,
                          OneAnnouncer, AnnouncedOnce, ShowsWorst

LEMMA IncidentStepInv == IncidentInv /\ [IncidentNext]_incidentVars => IncidentInv'
<1> SUFFICES ASSUME IncidentInv, [IncidentNext]_incidentVars PROVE IncidentInv'
  OBVIOUS
<1>0. /\ MaxIncidents \in Nat
      /\ IncidentShape /\ OnlyMade /\ OneAnnouncer /\ AnnouncedOnce /\ ShowsWorst
  BY IncidentAssumption DEF IncidentInv
<1>1. ASSUME NEW m \in Monitors, Announce(m) PROVE IncidentInv'
  <2>1. IncidentShape' /\ OnlyMade' /\ ShowsWorst'
    BY <1>0, <1>1 DEF Announce, IncidentShape, OnlyMade, ShowsWorst
  <2>2. OneAnnouncer'
    BY <1>0, <1>1 DEF Announce, IncidentShape, OneAnnouncer
  <2>3. ASSUME NEW i \in 1..MaxIncidents, i <= made PROVE
          announced'[i] = IF \E n \in Monitors : monitor'[n] = i THEN 0 ELSE 1
    <3>1. CASE i = monitor[m]
      <4>1. announced[i] = 0
        BY <1>0, <2>3, <3>1 DEF AnnouncedOnce
      <4>2. \A n \in Monitors : monitor'[n] # i
        BY <1>0, <1>1, <3>1 DEF Announce, IncidentShape, OneAnnouncer
      <4> QED BY <1>0, <1>1, <3>1, <4>1, <4>2 DEF Announce, IncidentShape
    <3>2. CASE i # monitor[m]
      <4>1. announced'[i] = announced[i]
        BY <1>0, <1>1, <3>2 DEF Announce, IncidentShape
      <4>2. \A n \in Monitors : monitor'[n] = i <=> monitor[n] = i
        BY <1>0, <1>1, <3>2 DEF Announce, IncidentShape
      <4> QED BY <1>0, <2>3, <4>1, <4>2 DEF AnnouncedOnce
    <3> QED BY <3>1, <3>2
  <2>4. AnnouncedOnce'
    BY <1>1, <2>3 DEF AnnouncedOnce, Announce
  <2> QED BY <2>1, <2>2, <2>4 DEF IncidentInv
<1>2. ASSUME NEW m \in Monitors, NEW s \in Signatures, Resolve(m, s) PROVE IncidentInv'
  <2>0. /\ store' = [store EXCEPT ![s].open = FALSE]
        /\ UNCHANGED <<made, monitor, worst, announced>>
    BY <1>2 DEF Resolve
  <2>1. /\ store' \in [Signatures -> [id : Nat, open : BOOLEAN, severity : Nat]]
        /\ \A t \in Signatures : /\ store'[t].id = store[t].id
                                 /\ store'[t].severity = store[t].severity
                                 /\ store'[t].open => store[t].open
    BY <1>0, <2>0 DEF IncidentShape
  <2>2. IncidentShape'
    BY <1>0, <2>0, <2>1 DEF IncidentShape
  <2>3. OnlyMade'
    BY <1>0, <2>0, <2>1 DEF OnlyMade
  <2>4. ShowsWorst'
    BY <1>0, <2>0, <2>1 DEF ShowsWorst
  <2>5. OneAnnouncer' /\ AnnouncedOnce'
    BY <1>0, <2>0 DEF OneAnnouncer, AnnouncedOnce
  <2> QED BY <2>2, <2>3, <2>4, <2>5 DEF IncidentInv
<1>3. ASSUME NEW m \in Monitors, NEW s \in Signatures, NEW sev \in Severities, Raise(m, s, sev)
      PROVE  IncidentInv'
  <2>1. CASE store[s].open
    <3>1. UNCHANGED <<made, monitor, announced>>
      BY <1>3, <2>1 DEF Raise
    <3> DEFINE most == Larger(store[s].severity, sev)
    <3>2. /\ store' = [store EXCEPT ![s] = [store[s] EXCEPT !.severity = most]]
          /\ worst' = [worst EXCEPT ![s] = Larger(worst[s], sev)]
      BY <1>0, <1>3, <2>1 DEF Raise, IncidentShape
    <3>3. most \in Nat /\ Larger(worst[s], sev) = most
      BY <1>0, <2>1 DEF Larger, Severities, IncidentShape, ShowsWorst
    <3> HIDE DEF most
    <3>4. IncidentShape' /\ OnlyMade'
      BY <1>0, <3>1, <3>2, <3>3 DEF IncidentShape, OnlyMade
    <3>5. ShowsWorst'
      BY <1>0, <3>1, <3>2, <3>3 DEF IncidentShape, ShowsWorst
    <3> QED BY <1>0, <3>1, <3>4, <3>5 DEF IncidentInv, OneAnnouncer, AnnouncedOnce
  <2>2. CASE ~store[s].open
    <3>1. /\ made < MaxIncidents /\ made' = made + 1
          /\ store' = [store EXCEPT ![s] = [id |-> made + 1, open |-> TRUE, severity |-> sev]]
          /\ monitor' = [monitor EXCEPT ![m] = made + 1] /\ monitor[m] = 0
          /\ worst' = [worst EXCEPT ![s] = sev] /\ announced' = announced /\ sev \in Nat
      BY <1>3, <2>2 DEF Raise, Severities
    <3>a. made \in Nat /\ store \in [Signatures -> [id : Nat, open : BOOLEAN, severity : Nat]]
      BY <1>0 DEF IncidentShape
    <3>b. /\ store' \in [Signatures -> [id : Nat, open : BOOLEAN, severity : Nat]]
          /\ store'[s].id = made + 1 /\ store'[s].open /\ store'[s].severity = sev
          /\ \A t \in Signatures : t # s => store'[t] = store[t]
      BY <3>1, <3>a
    <3>2. IncidentShape' /\ OnlyMade'
      <4>1. IncidentShape'
        BY <1>0, <3>1, <3>b DEF IncidentShape
      <4>2. ASSUME NEW t \in Signatures PROVE store'[t].id <= made'
        <5>1. CASE t = s
          BY <3>1, <3>a, <3>b, <5>1
        <5>2. CASE t # s
          <6>1. store[t].id <= made /\ store[t].id \in Nat
            BY <1>0, <3>a DEF OnlyMade
          <6> QED
            BY <3>1, <3>a, <3>b, <5>2, <6>1
        <5> QED
          BY <5>1, <5>2
      <4>3. OnlyMade'
        BY <1>0, <3>1, <4>2 DEF IncidentShape, OnlyMade
      <4> QED
        BY <4>1, <4>3
    <3>3. OneAnnouncer'
      BY <1>0, <3>1 DEF IncidentShape, OnlyMade, OneAnnouncer
    <3>4. ShowsWorst'
      <4>1. worst'[s] = sev /\ \A t \in Signatures : t # s => worst'[t] = worst[t]
        BY <1>0, <3>1 DEF IncidentShape
      <4>2. \A t \in Signatures : store[t].id \in Nat /\ store[t].id # made + 1
        BY <1>0, <3>a DEF OnlyMade
      <4>3. \A t \in Signatures : store'[t].open => store'[t].severity = worst'[t]
        BY <1>0, <3>b, <4>1 DEF ShowsWorst
      <4>4. ASSUME NEW t \in Signatures, NEW u \in Signatures, t # u, store'[t].id # 0
            PROVE  store'[t].id # store'[u].id
        BY <1>0, <3>b, <4>2, <4>4 DEF ShowsWorst
      <4> QED
        BY <4>3, <4>4 DEF ShowsWorst
    <3>5. ASSUME NEW i \in 1..MaxIncidents, i <= made' PROVE
            announced'[i] = IF \E n \in Monitors : monitor'[n] = i THEN 0 ELSE 1
      <4>1. CASE i = made + 1
        BY <1>0, <3>1, <4>1 DEF IncidentShape, OnlyMade
      <4>2. CASE i # made + 1
        <5>1. i <= made /\ i # 0
          BY <1>0, <3>1, <3>5, <4>2 DEF IncidentShape
        <5>2. \A n \in Monitors : monitor'[n] = i <=> monitor[n] = i
          BY <1>0, <3>1, <4>2, <5>1 DEF IncidentShape
        <5> QED BY <1>0, <3>1, <5>1, <5>2 DEF AnnouncedOnce
      <4> QED BY <4>1, <4>2
    <3>6. AnnouncedOnce'
      BY <3>5 DEF AnnouncedOnce
    <3> QED BY <3>2, <3>3, <3>4, <3>6 DEF IncidentInv
  <2> QED BY <2>1, <2>2
<1>4. CASE UNCHANGED incidentVars
  BY <1>0, <1>4 DEF incidentVars, IncidentInv, IncidentShape, OnlyMade, OneAnnouncer, AnnouncedOnce,
                    ShowsWorst
<1> QED BY <1>1, <1>2, <1>3, <1>4 DEF IncidentNext

(* incidents.py and monitor.py: with any number of monitors and signatures,  *)
(* each incident is announced once, and an open one shows its worst.         *)
THEOREM IncidentsAreAnnounced == IncidentSpec => []EveryIncidentAnnounced
<1>1. IncidentInv => EveryIncidentAnnounced
  BY IncidentAssumption
  DEF IncidentInv, EveryIncidentAnnounced, IncidentShape, AnnouncedOnce, ShowsWorst
<1> QED BY <1>1, IncidentInitInv, IncidentStepInv, PTL DEF IncidentSpec
-----------------------------------------------------------------------------
(* The quarantine: while one thread writes at a time and none is cut short,  *)
(* the file is the set whenever nobody writes, and what is about to be       *)
(* written is the set too.                                                   *)
Orderly ==
    /\ \A g, h \in Healers : Writing(g) /\ Writing(h) => g = h
    /\ (\A h \in Healers : ~Writing(h)) => quarantineFile.tasks = held
    /\ \A h \in Healers :
         /\ healer[h].pc \in {"open", "write"} => healer[h].payload = held
         /\ Writing(h) /\ healer[h].add => healer[h].task \in held

WantedIsHeld == \A t \in wanted : t \in held \/ \E h \in Healers : Writing(h) /\ healer[h].task = t

QuarantineInv ==
    /\ healer \in [Healers -> [pc : {"idle", "dump", "open", "write"}, task : Quarantined \cup {"none"},
                               add : BOOLEAN, payload : SUBSET Quarantined]]
    /\ held \subseteq Quarantined /\ quarantineFile.tasks \subseteq Quarantined
    /\ ~overlapped => Orderly /\ WantedIsHeld

LEMMA QuarantineInitInv == QuarantineInit => QuarantineInv
BY DEF QuarantineInit, QuarantineInv, AtEase, Orderly, WantedIsHeld, Writing

LEMMA QuarantineStepInv == QuarantineInv /\ [QuarantineNext]_quarantineVars => QuarantineInv'
<1> SUFFICES ASSUME QuarantineInv, [QuarantineNext]_quarantineVars PROVE QuarantineInv'
  OBVIOUS
<1> USE DEF QuarantineInv
<1>1. ASSUME NEW h \in Healers, NEW t \in Quarantined, NEW add \in BOOLEAN, Change(h, t, add)
      PROVE  QuarantineInv'
  <2>1. ~overlapped' => ~overlapped /\ \A g \in Healers : ~Writing(g)
    BY <1>1 DEF Change
  <2>2. ~overlapped' => Orderly'
    BY <1>1, <2>1 DEF Change, Orderly, Writing
  <2>3. ~overlapped' => WantedIsHeld'
    BY <1>1, <2>1 DEF Change, WantedIsHeld, Writing
  <2> QED BY <1>1, <2>2, <2>3 DEF Change
<1>2. ASSUME NEW h \in Healers, Dump(h) PROVE QuarantineInv'
  <2>1. /\ healer[h].pc = "dump" /\ UNCHANGED <<held, quarantineFile, wanted, overlapped>>
        /\ healer' = [healer EXCEPT ![h].pc = "open", ![h].payload = held]
    BY <1>2 DEF Dump
  <2>2. \A g \in Healers : /\ Writing(g)' <=> Writing(g)
                           /\ healer'[g].task = healer[g].task /\ healer'[g].add = healer[g].add
                           /\ healer'[g].payload = IF g = h THEN held ELSE healer[g].payload
                           /\ healer'[g].pc = IF g = h THEN "open" ELSE healer[g].pc
    BY <2>1 DEF Writing
  <2>3. ~overlapped' => Orderly' /\ WantedIsHeld'
    BY <2>1, <2>2 DEF Orderly, WantedIsHeld
  <2>4. healer' \in [Healers -> [pc : {"idle", "dump", "open", "write"}, task : Quarantined \cup {"none"},
                                add : BOOLEAN, payload : SUBSET Quarantined]]
    <3>1. held \in SUBSET Quarantined /\ "open" \in {"idle", "dump", "open", "write"}
      OBVIOUS
    <3> HIDE DEF QuarantineInv
    <3>2. [healer[h] EXCEPT !.pc = "open", !.payload = held]
            \in [pc : {"idle", "dump", "open", "write"}, task : Quarantined \cup {"none"},
                 add : BOOLEAN, payload : SUBSET Quarantined]
      BY <3>1 DEF QuarantineInv
    <3> QED
      BY <2>1, <3>2 DEF QuarantineInv
  <2> QED BY <2>1, <2>3, <2>4
<1>3. ASSUME NEW h \in Healers, OpenFile(h) PROVE QuarantineInv'
  BY <1>3 DEF OpenFile, Orderly, WantedIsHeld, Writing
<1>4. ASSUME NEW h \in Healers, WriteFile(h) PROVE QuarantineInv'
  <2>1. /\ healer[h].pc = "write" /\ held' = held /\ overlapped' = overlapped
        /\ quarantineFile' = [parses |-> TRUE, tasks |-> healer[h].payload]
        /\ healer' = [healer EXCEPT ![h] = AtEase]
    BY <1>4 DEF WriteFile
  <2>2. ~overlapped' => Orderly'
    BY <2>1 DEF AtEase, Orderly, Writing
  <2>3. ~overlapped' => WantedIsHeld'
    <3>1. ASSUME ~overlapped, NEW t \in wanted'
          PROVE  t \in held' \/ \E g \in Healers : Writing(g)' /\ healer'[g].task = t
      <4>1. /\ Writing(h) /\ \A g \in Healers : Writing(g) => g = h
            /\ healer[h].add => healer[h].task \in held
        BY <2>1, <3>1 DEF Orderly, Writing
      <4>2. \/ t = healer[h].task /\ healer[h].add
            \/ t \in wanted /\ (healer[h].add \/ t # healer[h].task)
        BY <1>4, <3>1 DEF WriteFile
      <4> QED BY <2>1, <3>1, <4>1, <4>2 DEF WantedIsHeld
    <3> QED BY <2>1, <3>1 DEF WantedIsHeld
  <2> QED BY <2>1, <2>2, <2>3 DEF AtEase
<1>5. CASE Reboot
  BY <1>5 DEF Reboot, AtEase, Orderly, WantedIsHeld, Writing
<1>6. CASE UNCHANGED quarantineVars
  BY <1>6 DEF quarantineVars, Orderly, WantedIsHeld, Writing
<1> QED BY <1>1, <1>2, <1>3, <1>4, <1>5, <1>6 DEF QuarantineNext

(* self_heal.py: for any number of tasks, healers and restarts, what was     *)
(* healed and not released is in quarantine, as long as no two writes of the *)
(* file overlap and none is cut short.                                       *)
THEOREM QuarantineIsRetained == QuarantineSpec => []QuarantineRetained
<1>1. QuarantineInv => QuarantineRetained
  BY DEF QuarantineInv, WantedIsHeld, QuarantineRetained
<1> QED BY <1>1, QuarantineInitInv, QuarantineStepInv, PTL DEF QuarantineSpec

-----------------------------------------------------------------------------
(* The file of campaigns: the archiver deletes what it has written, or could *)
(* not write.                                                                *)
States == CampaignStates \cup {"none"}

StoreShape ==
    /\ campaignFile \in [StoredCampaigns -> States]
    /\ index \in [Registries -> [StoredCampaigns -> States]]
    /\ archived \in [StoredCampaigns -> Nat]
    /\ saved \subseteq StoredCampaigns
    /\ moving \in [at : {<<>>} \cup (Registries \X StoredCampaigns), step : {"idle", "write", "delete"}]
    /\ moving.step # "idle" => moving.at[1] \in Registries /\ moving.at[2] \in StoredCampaigns

WrittenFirst == moving.step = "delete" => archived[moving.at[2]] > 0 \/ moving.at[2] \in unarchived

StoreInv == StoreShape /\ WrittenFirst /\ NoCampaignLost

LEMMA StoreInitInv == StoreInit => StoreInv
BY DEF StoreInit, StoreInv, StoreShape, WrittenFirst, NoCampaignLost, Nothing, Still, States

(* A write loses at most the campaign it is about: any other is in the file  *)
(* after it if it was before, or has been taken back.                        *)
LEMMA FlushKeeps ==
    ASSUME NEW r \in Registries, NEW c \in StoredCampaigns, NEW s \in States, StoreShape, Flush(r, c, s)
    PROVE  /\ campaignFile' \in [StoredCampaigns -> States]
           /\ index' \in [Registries -> [StoredCampaigns -> States]]
           /\ saved' \subseteq StoredCampaigns
           /\ \A d \in saved' \ takenBack' :
                d # c \/ s # "none" => \/ campaignFile'[d] # "none"
                                       \/ d \in saved \ takenBack /\ campaignFile[d] = "none"
<1> DEFINE known == [index[r] EXCEPT ![c] = s]
<1>1. known \in [StoredCampaigns -> States] /\ known[c] = s
  BY DEF StoreShape
<1>2. index' = [index EXCEPT ![r] = known]
  BY DEF Flush
<1>3. \/ /\ campaignFile' = known
         /\ saved' = saved \cup {d \in StoredCampaigns : known[d] # "none"}
         /\ takenBack' = {d \in saved \ {c} :
              known[d] = "none" /\ (campaignFile[d] # "none" \/ d \in takenBack)}
      \/ UNCHANGED <<campaignFile, saved, takenBack>>
  BY DEF Flush, lineVars
<1> HIDE DEF known
<1>4. index' \in [Registries -> [StoredCampaigns -> States]]
  BY <1>1, <1>2 DEF StoreShape
<1>5. CASE UNCHANGED <<campaignFile, saved, takenBack>>
  BY <1>4, <1>5 DEF StoreShape
<1>6. CASE /\ campaignFile' = known
           /\ saved' = saved \cup {d \in StoredCampaigns : known[d] # "none"}
           /\ takenBack' = {d \in saved \ {c} :
                known[d] = "none" /\ (campaignFile[d] # "none" \/ d \in takenBack)}
  BY <1>1, <1>4, <1>6 DEF StoreShape
<1> QED BY <1>3, <1>5, <1>6

LEMMA StoreStepInv == StoreInv /\ [StoreNext]_storeVars => StoreInv'
<1> SUFFICES ASSUME StoreInv, [StoreNext]_storeVars PROVE StoreInv'
  OBVIOUS
<1>0. StoreShape /\ WrittenFirst /\ NoCampaignLost
  BY DEF StoreInv
<1>1. ASSUME NEW r \in Registries, NEW c \in StoredCampaigns, NEW s \in CampaignStates,
             SaveCampaign(r, c, s)
      PROVE  StoreInv'
  <2>1. Flush(r, c, s) /\ s \in States /\ s # "none" /\ UNCHANGED <<archived, moving, unarchived>>
    BY <1>1 DEF SaveCampaign, States, CampaignStates
  <2>2. StoreShape' /\ WrittenFirst'
    BY <1>0, <2>1, FlushKeeps DEF StoreShape, WrittenFirst
  <2>3. NoCampaignLost'
    <3> SUFFICES ASSUME NEW d \in saved' \ (takenBack' \cup unarchived'), campaignFile'[d] = "none"
                 PROVE  archived'[d] > 0
      BY DEF NoCampaignLost
    <3>1. d \in saved \ (takenBack \cup unarchived) /\ campaignFile[d] = "none"
      BY <1>0, <2>1, FlushKeeps
    <3> QED BY <1>0, <2>1, <3>1 DEF NoCampaignLost
  <2> QED BY <2>2, <2>3 DEF StoreInv
<1>2. ASSUME NEW r \in Registries, NEW c \in StoredCampaigns, ArchiverTakes(r, c) PROVE StoreInv'
  BY <1>0, <1>2 DEF ArchiverTakes, lineVars, StoreInv, StoreShape, WrittenFirst, NoCampaignLost
<1>3. ASSUME NEW r \in Registries, Reopen(r) PROVE StoreInv'
  BY <1>0, <1>3 DEF Reopen, lineVars, StoreInv, StoreShape, WrittenFirst, NoCampaignLost
<1>4. CASE ArchiverWrites
  <2>1. /\ moving.step = "write" /\ moving' = [moving EXCEPT !.step = "delete"]
        /\ moving.at[2] \in StoredCampaigns /\ UNCHANGED <<campaignFile, index, saved, takenBack>>
    BY <1>0, <1>4 DEF ArchiverWrites, StoreShape, lineVars
  <2>2. /\ archived' \in [StoredCampaigns -> Nat]
        /\ \A c \in StoredCampaigns : archived'[c] >= archived[c]
        /\ unarchived \subseteq unarchived'
        /\ archived'[moving.at[2]] > 0 \/ moving.at[2] \in unarchived'
    <3> DEFINE c == moving.at[2]
    <3>1. /\ c \in StoredCampaigns /\ archived \in [StoredCampaigns -> Nat]
          /\ \/ archived' = [archived EXCEPT ![c] = @ + 1] /\ unarchived' = unarchived
             \/ unarchived' = unarchived \cup {c} /\ archived' = archived
      BY <1>0, <1>4, <2>1 DEF ArchiverWrites, StoreShape
    <3> HIDE DEF c
    <3>2. /\ archived' \in [StoredCampaigns -> Nat]
          /\ \A d \in StoredCampaigns : archived'[d] >= archived[d]
          /\ unarchived \subseteq unarchived'
          /\ archived'[c] > 0 \/ c \in unarchived'
      BY <3>1
    <3> QED BY <3>2 DEF c
  <2>3. StoreShape' /\ WrittenFirst'
    BY <1>0, <2>1, <2>2 DEF StoreShape, WrittenFirst
  <2>4. NoCampaignLost'
    BY <1>0, <2>1, <2>2 DEF NoCampaignLost, StoreShape
  <2> QED BY <2>3, <2>4 DEF StoreInv
<1>5. CASE ArchiverDeletes
  <2> DEFINE r == moving.at[1]  c == moving.at[2]
  <2>1. /\ r \in Registries /\ c \in StoredCampaigns /\ (archived[c] > 0 \/ c \in unarchived)
        /\ moving' = Still /\ UNCHANGED <<archived, unarchived>>
    BY <1>0, <1>5 DEF ArchiverDeletes, StoreShape, WrittenFirst
  <2>2. Flush(r, c, "none") \/ UNCHANGED <<index, campaignFile, saved, takenBack>>
    BY <1>5 DEF ArchiverDeletes, lineVars
  <2>3. /\ campaignFile' \in [StoredCampaigns -> States]
        /\ index' \in [Registries -> [StoredCampaigns -> States]]
        /\ saved' \subseteq StoredCampaigns
        /\ \A d \in saved' \ takenBack' :
             d # c => \/ campaignFile'[d] # "none"
                      \/ d \in saved \ takenBack /\ campaignFile[d] = "none"
    <3>1. CASE Flush(r, c, "none")
      <4>1. "none" \in States
        BY DEF States
      <4> HIDE DEF r, c
      <4> QED BY <1>0, <2>1, <3>1, <4>1, FlushKeeps
    <3>2. CASE UNCHANGED <<index, campaignFile, saved, takenBack>>
      BY <1>0, <3>2 DEF StoreShape
    <3> QED BY <2>2, <3>1, <3>2
  <2>4. StoreShape' /\ WrittenFirst'
    BY <1>0, <2>1, <2>3 DEF StoreShape, WrittenFirst, Still
  <2>5. NoCampaignLost'
    BY <1>0, <2>1, <2>3 DEF NoCampaignLost, StoreShape
  <2> QED BY <2>4, <2>5 DEF StoreInv
<1>6. CASE ArchiverDies
  BY <1>0, <1>6 DEF ArchiverDies, lineVars, Still, StoreInv, StoreShape, WrittenFirst, NoCampaignLost
<1>7. CASE UNCHANGED storeVars
  BY <1>0, <1>7 DEF storeVars, StoreInv, StoreShape, WrittenFirst, NoCampaignLost
<1> QED BY <1>1, <1>2, <1>3, <1>4, <1>5, <1>6, <1>7 DEF StoreNext

(* registry.py and archiver.py: for any number of registries and campaigns,  *)
(* whichever writes fail and wherever the archiver is stopped, a campaign    *)
(* whose line has reached the file is in it or in the archive, unless its own*)
(* archive line could not be written or a registry without it wrote the file.*)
THEOREM CampaignsAreKept == StoreSpec => []NoCampaignLost
<1>1. StoreInv => NoCampaignLost
  BY DEF StoreInv
<1> QED BY <1>1, StoreInitInv, StoreStepInv, PTL DEF StoreSpec

-----------------------------------------------------------------------------
(***************************************************************************)
(* Numbers and sequences.                                                    *)
(***************************************************************************)

(* A set of natural numbers has a least element: with it induction over      *)
(* numbers is a search for the least counterexample.                         *)
LEMMA LeastNumber ==
    ASSUME NEW T \in SUBSET Nat, T # {}
    PROVE  \E m \in T : \A k \in T : m <= k
<1> DEFINE R == OpToRel(<, Nat)
<1>1. IsWellFoundedOn(R, Nat)
  BY NatLessThanWellFounded
<1>2. \A k, m \in T : k < m => <<k, m>> \in R
  BY DEF OpToRel
<1> HIDE DEF R
<1>3. PICK m \in T : \A k \in T : <<k, m>> \notin R
  BY <1>1, WFMin
<1>4. \A k \in T : m <= k
  <2> TAKE k \in T
  <2>1. k \in Nat /\ m \in Nat /\ ~(k < m)
    BY <1>2, <1>3
  <2> QED
    BY <2>1
<1> QED
  BY <1>4

(* A function on 1..n is a sequence of length n. *)
LEMMA FunctionIsSeq ==
    ASSUME NEW S, NEW n \in Nat, NEW f \in [1..n -> S]
    PROVE  f \in Seq(S) /\ Len(f) = n
<1>1. f \in Seq(S)
  BY SeqDef
<1>2. Len(f) \in Nat /\ 1..Len(f) = 1..n
  BY <1>1, LenProperties
<1>3. Len(f) = n
  <2>1. CASE Len(f) > n
    BY <1>2, <2>1, Len(f) \in 1..Len(f), Len(f) \notin 1..n
  <2>2. CASE Len(f) < n
    BY <1>2, <2>2, n \in 1..n, n \notin 1..Len(f)
  <2> QED
    BY <1>2, <2>1, <2>2
<1> QED
  BY <1>1, <1>3

-----------------------------------------------------------------------------
(***************************************************************************)
(* The event store: the versions of a stream only grow, in memory and in the *)
(* lines of the file that parse, so the latest is the last one written.      *)
(***************************************************************************)
Snap == [version : Nat, data : Seq(Nat)]
Line == [stream : Streams, snap : Snap, parses : BOOLEAN]

Sound(i, s) == jsonl[i].parses /\ jsonl[i].stream = s
SoundLines(s) == {i \in 1..Len(jsonl) : Sound(i, s)}

EventShape ==
    /\ streams \in [Streams -> Seq(Nat)] /\ safe \in [Streams -> Seq(Nat)]
    /\ versions \in [Streams -> SUBSET Snap]
    /\ jsonl \in Seq(Line)
    /\ fragment \in BOOLEAN /\ eventCount \in Nat

(* v is the one snapshot of the highest version, and holds data. *)
IsTop(v, snaps, data) ==
    v \in snaps /\ v.data = data /\ \A w \in snaps : w # v => w.version < v.version

Holds(snaps, data) == (snaps = {} /\ data = <<>>) \/ \E v \in snaps : IsTop(v, snaps, data)

VersionsGrow ==
    \A s \in Streams : \A i, j \in SoundLines(s) :
        i < j => jsonl[i].snap.version < jsonl[j].snap.version

LoadedIsSafe ==
    \A s \in Streams :
        /\ Holds(versions[s], streams[s]) /\ Holds(Loaded(s), safe[s])
        /\ \A w \in Loaded(s) : \E v \in versions[s] : w.version <= v.version
        /\ IsPrefix(safe[s], streams[s])

EventInv == EventShape /\ VersionsGrow /\ LoadedIsSafe

LEMMA TopIsLatest ==
    ASSUME NEW snaps \in SUBSET Snap, NEW data, NEW v, IsTop(v, snaps, data)
    PROVE  Latest(snaps) = v
<1>1. \A w \in snaps : w.version \in Nat
  BY DEF Snap
<1>2. v \in snaps /\ \A w \in snaps : w.version <= v.version
  BY <1>1 DEF IsTop
<1>3. \A u \in snaps : (\A w \in snaps : w.version <= u.version) => u = v
  BY <1>1, <1>2 DEF IsTop
<1> QED
  BY <1>2, <1>3 DEF Latest

(* What the latest of a set of snapshots holds, and what comes above it. *)
LEMMA HoldsLatest ==
    ASSUME NEW snaps \in SUBSET Snap, NEW data, Holds(snaps, data)
    PROVE  /\ snaps # {} => Latest(snaps) \in snaps /\ Latest(snaps).data = data
           /\ NextVersion(snaps) \in Nat
           /\ \A w \in snaps : w.version < NextVersion(snaps)
<1>1. CASE snaps = {}
  BY <1>1 DEF NextVersion
<1>2. CASE snaps # {}
  <2>1. PICK v \in snaps : IsTop(v, snaps, data)
    BY <1>2 DEF Holds
  <2>2. Latest(snaps) = v
    BY <2>1, TopIsLatest
  <2>3. \A w \in snaps : w.version \in Nat
    BY DEF Snap
  <2> QED
    BY <1>2, <2>1, <2>2, <2>3 DEF NextVersion, IsTop
<1> QED
  BY <1>1, <1>2

LEMMA HoldsOneMore ==
    ASSUME NEW snaps \in SUBSET Snap, NEW v \in Snap, \A w \in snaps : w.version < v.version
    PROVE  Holds(snaps \cup {v}, v.data)
BY DEF Holds, IsTop

(* While the versions grow along the file, a restart finds every sound line. *)
LEMMA LoadedAll ==
    ASSUME EventShape, VersionsGrow, NEW s \in Streams
    PROVE  Loaded(s) = {jsonl[i].snap : i \in SoundLines(s)} /\ Loaded(s) \in SUBSET Snap
<1>1. \A i \in 1..Len(jsonl) : jsonl[i] \in Line
  BY DEF EventShape
<1>2. \A i \in SoundLines(s) : i \in 1..Len(jsonl) /\ jsonl[i].snap \in Snap
                               /\ jsonl[i].snap.version \in Nat
  BY <1>1 DEF Line, SoundLines, Snap
<1>3. \A j \in SoundLines(s) : \A k \in (j + 1)..Len(jsonl) :
          Sound(k, s) => jsonl[k].snap.version # jsonl[j].snap.version
  <2> TAKE j \in SoundLines(s)
  <2> TAKE k \in (j + 1)..Len(jsonl)
  <2> HAVE Sound(k, s)
  <2>1. k \in SoundLines(s) /\ j < k
    BY <1>2 DEF SoundLines, EventShape
  <2> QED
    BY <1>2, <2>1 DEF VersionsGrow
<1>4. {j \in 1..Len(jsonl) : (jsonl[j].parses /\ jsonl[j].stream = s) /\
             \A k \in (j + 1)..Len(jsonl) : jsonl[k].parses /\ jsonl[k].stream = s =>
                 jsonl[k].snap.version # jsonl[j].snap.version} = SoundLines(s)
  BY <1>3 DEF SoundLines, Sound
<1>5. Loaded(s) = {jsonl[i].snap : i \in SoundLines(s)}
  BY <1>4 DEF Loaded
<1> QED
  BY <1>2, <1>5

LEMMA LoadedSound ==
    EventShape /\ VersionsGrow => \A t \in Streams : Loaded(t) = {jsonl[i].snap : i \in SoundLines(t)}
BY LoadedAll

LEMMA LoadedSoundNext ==
    EventShape' /\ VersionsGrow' =>
        \A t \in Streams : Loaded(t)' = {jsonl'[i].snap : i \in SoundLines(t)'}
<1>1. (EventShape /\ VersionsGrow =>
          \A t \in Streams : Loaded(t) = {jsonl[i].snap : i \in SoundLines(t)})'
  BY LoadedSound, PTL
<1> QED
  BY <1>1

LEMMA PrefixSame ==
    ASSUME NEW q \in Seq(Nat)
    PROVE  IsPrefix(q, q)
BY DEF IsPrefix

LEMMA PrefixAppend ==
    ASSUME NEW p \in Seq(Nat), NEW q \in Seq(Nat), NEW e \in Nat, IsPrefix(p, q)
    PROVE  IsPrefix(p, Append(q, e))
<1>1. Len(p) \in Nat /\ Len(q) \in Nat /\ Len(p) <= Len(q) /\ Len(Append(q, e)) = Len(q) + 1
  BY AppendProperties, LenProperties DEF IsPrefix
<1>2. /\ \A i \in 1..Len(p) : q[i] \in Nat /\ Append(q, e)[i] = q[i]
      /\ \A i \in 1..Len(p) : Append(q, e)[i] \in Nat
  <2>1. \A i \in 1..Len(p) : i \in 1..Len(q)
    BY <1>1
  <2>2. \A i \in 1..Len(q) : q[i] \in Nat /\ Append(q, e)[i] = q[i]
    BY AppendProperties, ElementOfSeq
  <2> QED
    BY <2>1, <2>2
<1>3. SubSeq(q, 1, Len(p)) = SubSeq(Append(q, e), 1, Len(p))
  <2> DEFINE a == SubSeq(q, 1, Len(p))
             b == SubSeq(Append(q, e), 1, Len(p))
  <2>1. a \in Seq(Nat) /\ Len(a) = Len(p) /\ \A i \in 1..Len(p) : a[i] = q[i]
    BY <1>1, <1>2, SubSeqProperties
  <2>2. b \in Seq(Nat) /\ Len(b) = Len(p) /\ \A i \in 1..Len(p) : b[i] = Append(q, e)[i]
    BY <1>1, <1>2, SubSeqProperties
  <2> HIDE DEF a, b
  <2>3. a = b
    BY <1>1, <1>2, <2>1, <2>2, SeqEqual
  <2> QED
    BY <2>3 DEF a, b
<1> QED
  BY <1>1, <1>3 DEF IsPrefix

LEMMA EventInitInv == EventInit => EventInv
<1> SUFFICES ASSUME EventInit PROVE EventInv
  OBVIOUS
<1>0. /\ <<>> \in Seq(Nat) /\ <<>> \in Seq(Line) /\ 1..Len(<<>>) = {}
      /\ IsPrefix(<<>>, <<>>)
  <2>1. <<>> \in Seq(Nat) /\ <<>> \in Seq(Line) /\ Len(<<>>) = 0
    BY EmptySeq
  <2>2. 1..0 = {}
    OBVIOUS
  <2>3. IsPrefix(<<>>, <<>>)
    BY <2>1, PrefixSame
  <2> QED
    BY <2>1, <2>2, <2>3
<1>1. EventShape /\ jsonl = <<>>
  BY <1>0 DEF EventInit, EventShape
<1>2. \A s \in Streams : SoundLines(s) = {}
  BY <1>0, <1>1 DEF SoundLines
<1>3. VersionsGrow
  BY <1>2 DEF VersionsGrow
<1>4. \A s \in Streams : Loaded(s) = {} /\ versions[s] = {} /\ streams[s] = <<>> /\ safe[s] = <<>>
  BY <1>1, <1>2, <1>3, LoadedAll DEF EventInit
<1>5. LoadedIsSafe
  BY <1>0, <1>4 DEF LoadedIsSafe, Holds
<1> QED
  BY <1>1, <1>3, <1>5 DEF EventInv

LEMMA RestartStoreInv ==
    ASSUME EventInv, RestartStore
    PROVE  EventInv'
<1>0. EventShape /\ VersionsGrow /\ LoadedIsSafe
  BY DEF EventInv
<1>1. /\ versions' = [s \in Streams |-> Loaded(s)]
      /\ streams' = [s \in Streams |-> IF Loaded(s) = {} THEN <<>> ELSE Latest(Loaded(s)).data]
      /\ UNCHANGED <<jsonl, fragment, safe, eventCount>>
  BY DEF RestartStore
<1>2. \A s \in Streams : Loaded(s) \in SUBSET Snap /\ Holds(Loaded(s), safe[s])
                         /\ safe[s] \in Seq(Nat)
  BY <1>0, LoadedAll DEF LoadedIsSafe, EventShape
<1>3. \A s \in Streams : streams'[s] = safe[s]
  BY <1>1, <1>2, HoldsLatest DEF Holds
<1>4. EventShape'
  BY <1>0, <1>1, <1>2, <1>3 DEF EventShape
<1>5. VersionsGrow' /\ \A s \in Streams : Loaded(s)' = Loaded(s)
  BY <1>0, <1>1 DEF VersionsGrow, SoundLines, Sound, Loaded
<1>6. LoadedIsSafe'
  <2> SUFFICES ASSUME NEW s \in Streams
               PROVE  /\ Holds(versions'[s], streams'[s]) /\ Holds(Loaded(s)', safe'[s])
                      /\ \A w \in Loaded(s)' : \E v \in versions'[s] : w.version <= v.version
                      /\ IsPrefix(safe'[s], streams'[s])
    BY DEF LoadedIsSafe
  <2>1. \A w \in Loaded(s) : w.version <= w.version
    BY <1>2 DEF Snap
  <2> QED
    BY <1>1, <1>2, <1>3, <1>5, <2>1, PrefixSame
<1> QED
  BY <1>4, <1>5, <1>6 DEF EventInv

LEMMA AppendEventInv ==
    ASSUME EventInv, NEW s \in Streams, NEW written \in {"whole", "part", "nothing"},
           AppendEvent(s, written)
    PROVE  EventInv'
<1>0. EventShape /\ VersionsGrow /\ LoadedIsSafe
  BY DEF EventInv
<1> DEFINE n == NextVersion(versions[s])
           data == Append(streams[s], eventCount + 1)
           snap == [version |-> n, data |-> data]
           newLine == [stream |-> s, snap |-> snap, parses |-> ~fragment]
<1>1. /\ eventCount' = eventCount + 1 /\ fragment' \in BOOLEAN
      /\ streams' = [streams EXCEPT ![s] = data]
      /\ versions' = [versions EXCEPT ![s] = {v \in versions[s] : v.version # n} \cup {snap}]
      /\ jsonl' = (IF written = "whole" THEN Append(jsonl, newLine) ELSE jsonl)
      /\ safe' = (IF written = "whole" /\ ~fragment THEN [safe EXCEPT ![s] = data] ELSE safe)
  BY <1>0 DEF AppendEvent, EventShape
<1>2. /\ versions[s] \in SUBSET Snap /\ n \in Nat /\ \A w \in versions[s] : w.version < n
  BY <1>0, HoldsLatest DEF LoadedIsSafe, EventShape
<1>3. data \in Seq(Nat) /\ snap \in Snap /\ newLine \in Line
  BY <1>0, <1>2, AppendProperties DEF EventShape, Snap, Line
<1>4. \A t \in Streams : Loaded(t) = {jsonl[i].snap : i \in SoundLines(t)} /\ Loaded(t) \in SUBSET Snap
  BY <1>0, LoadedAll
<1>5. \A w \in Loaded(s) : w.version < n
  <2> TAKE w \in Loaded(s)
  <2>1. PICK v \in versions[s] : w.version <= v.version
    BY <1>0 DEF LoadedIsSafe
  <2>2. w.version \in Nat /\ v.version \in Nat /\ v.version < n
    BY <1>2, <1>4 DEF Snap
  <2> QED
    BY <1>2, <2>1, <2>2
<1> HIDE DEF n, data
<1>6. versions' = [versions EXCEPT ![s] = versions[s] \cup {snap}]
  <2>1. {v \in versions[s] : v.version # n} = versions[s]
    BY <1>2 DEF Snap
  <2> QED
    BY <1>1, <2>1
<1>7. snap.version = n /\ snap.data = data /\ newLine.snap = snap /\ newLine.stream = s /\ newLine.parses = ~fragment
  OBVIOUS
<1> HIDE DEF snap, newLine
<1>8. EventShape'
  <2>1. jsonl' \in Seq(Line)
    BY <1>0, <1>1, <1>3, AppendProperties DEF EventShape
  <2>2. streams' \in [Streams -> Seq(Nat)] /\ safe' \in [Streams -> Seq(Nat)]
    BY <1>0, <1>1, <1>3 DEF EventShape
  <2>3. versions' \in [Streams -> SUBSET Snap]
    BY <1>0, <1>2, <1>3, <1>6 DEF EventShape
  <2> QED
    BY <1>0, <1>1, <2>1, <2>2, <2>3 DEF EventShape
<1>9. \A t \in Streams :
          \/ t = s /\ written = "whole" /\ ~fragment
             /\ jsonl' = Append(jsonl, newLine)
             /\ SoundLines(t)' = SoundLines(t) \cup {Len(jsonl) + 1}
          \/ ~(t = s /\ written = "whole" /\ ~fragment) /\ SoundLines(t)' = SoundLines(t)
  <2> TAKE t \in Streams
  <2>1. CASE written # "whole"
    BY <1>1, <2>1 DEF SoundLines, Sound
  <2>2. CASE written = "whole"
    <3>1. /\ jsonl' = Append(jsonl, newLine) /\ Len(jsonl) \in Nat /\ Len(jsonl') = Len(jsonl) + 1
          /\ \A i \in 1..Len(jsonl) : jsonl'[i] = jsonl[i]
          /\ jsonl'[Len(jsonl) + 1] = newLine
      BY <1>0, <1>1, <1>3, <2>2, AppendProperties, LenProperties DEF EventShape
    <3>0. PICK k \in Nat : k = Len(jsonl) + 1
      BY <3>1
    <3>2. 1..Len(jsonl') = 1..Len(jsonl) \cup {k}
      BY <3>1, <3>0
    <3>3. \A i \in 1..Len(jsonl) : Sound(i, t)' <=> Sound(i, t)
      BY <3>1, <3>0 DEF Sound
    <3>4. Sound(k, t)' <=> t = s /\ ~fragment
      <4>1. jsonl'[k].stream = s /\ jsonl'[k].parses = ~fragment
        BY <1>7, <3>1, <3>0
      <4> QED
        BY <4>1 DEF Sound
    <3>5. SoundLines(t)' = {i \in 1..Len(jsonl) : Sound(i, t)'}
                           \cup {i \in {k} : Sound(i, t)'}
      BY <3>2 DEF SoundLines
    <3>6. {i \in 1..Len(jsonl) : Sound(i, t)'} = SoundLines(t)
      BY <3>3 DEF SoundLines
    <3>7. {i \in {k} : Sound(i, t)'} = IF t = s /\ ~fragment THEN {k} ELSE {}
      BY <3>4
    <3> QED
      BY <2>2, <3>0, <3>1, <3>5, <3>6, <3>7
  <2> QED
    BY <2>1, <2>2
<1>10. /\ Len(jsonl) \in Nat
       /\ \A i \in 1..Len(jsonl) : jsonl'[i] = jsonl[i]
       /\ jsonl' = Append(jsonl, newLine) => jsonl'[Len(jsonl) + 1] = newLine
  BY <1>0, <1>1, <1>3, AppendProperties, LenProperties DEF EventShape
<1>11. \A t \in Streams : \A i \in SoundLines(t) : i \in 1..Len(jsonl) /\ jsonl[i].snap \in Loaded(t)
  BY <1>4 DEF SoundLines
<1>12. VersionsGrow'
  <2> SUFFICES ASSUME NEW t \in Streams, NEW i \in SoundLines(t)', NEW j \in SoundLines(t)', i < j
               PROVE  jsonl'[i].snap.version < jsonl'[j].snap.version
    BY DEF VersionsGrow
  <2>1. CASE j \in SoundLines(t)
    <3>1. i \in SoundLines(t)
      BY <1>9, <1>10, <1>11, <2>1
    <3> QED
      BY <1>0, <1>10, <1>11, <2>1, <3>1 DEF VersionsGrow
  <2>2. CASE j \notin SoundLines(t)
    <3>1. t = s /\ jsonl' = Append(jsonl, newLine) /\ j = Len(jsonl) + 1 /\ i \in SoundLines(t)
      BY <1>9, <1>10, <1>11, <2>2
    <3> QED
      BY <1>5, <1>7, <1>10, <1>11, <3>1
  <2> QED
    BY <2>1, <2>2
<1>13. \A t \in Streams : Loaded(t)' = {jsonl'[i].snap : i \in SoundLines(t)'}
  BY <1>8, <1>12, LoadedSoundNext
<1>14. \A t \in Streams : Loaded(t)' = IF t = s /\ written = "whole" /\ ~fragment
                                      THEN Loaded(t) \cup {snap} ELSE Loaded(t)
  <2> TAKE t \in Streams
  <2>1. \A i \in SoundLines(t) : jsonl'[i] = jsonl[i]
    BY <1>10, <1>11
  <2>2. {jsonl'[i].snap : i \in SoundLines(t)} = Loaded(t)
    BY <1>4, <2>1
  <2>3. CASE t = s /\ written = "whole" /\ ~fragment
    <3>1. SoundLines(t)' = SoundLines(t) \cup {Len(jsonl) + 1} /\ jsonl'[Len(jsonl) + 1].snap = snap
      BY <1>7, <1>9, <1>10, <2>3
    <3>2. Loaded(t)' = {jsonl'[i].snap : i \in SoundLines(t)} \cup {snap}
      BY <1>13, <3>1
    <3> QED
      BY <2>2, <2>3, <3>2
  <2>4. CASE ~(t = s /\ written = "whole" /\ ~fragment)
    BY <1>9, <1>13, <2>2, <2>4
  <2> QED
    BY <2>3, <2>4
<1>15. LoadedIsSafe'
  <2> SUFFICES ASSUME NEW t \in Streams
               PROVE  /\ Holds(versions'[t], streams'[t]) /\ Holds(Loaded(t)', safe'[t])
                      /\ \A w \in Loaded(t)' : \E v \in versions'[t] : w.version <= v.version
                      /\ IsPrefix(safe'[t], streams'[t])
    BY DEF LoadedIsSafe
  <2>1. CASE t # s
    <3>1. versions'[t] = versions[t] /\ streams'[t] = streams[t] /\ safe'[t] = safe[t]
          /\ Loaded(t)' = Loaded(t)
      BY <1>0, <1>1, <1>14, <2>1 DEF EventShape
    <3> QED
      BY <1>0, <3>1 DEF LoadedIsSafe
  <2>2. CASE t = s
    <3>0. versions'[t] = versions[t] \cup {snap} /\ streams'[t] = data
      BY <1>0, <1>1, <1>6, <2>2 DEF EventShape
    <3>1. /\ versions'[t] = versions[t] \cup {snap} /\ streams'[t] = data
          /\ Holds(versions'[t], streams'[t])
      <4>1. Holds(versions[t] \cup {snap}, snap.data)
        BY <1>2, <1>3, <1>7, <2>2, HoldsOneMore
      <4> QED
        BY <1>7, <3>0, <4>1
    <3>2. \A w \in Loaded(t)' : \E v \in versions'[t] : w.version <= v.version
      <4>1. n <= n
        BY <1>2
      <4> QED
        BY <1>0, <1>7, <1>14, <2>2, <3>1, <4>1 DEF LoadedIsSafe
    <3>3. CASE written = "whole" /\ ~fragment
      <4>1. safe'[t] = data /\ Loaded(t)' = Loaded(t) \cup {snap}
        BY <1>0, <1>1, <1>14, <2>2, <3>3 DEF EventShape
      <4>2. Holds(Loaded(t) \cup {snap}, data)
        BY <1>3, <1>4, <1>5, <1>7, <2>2, HoldsOneMore
      <4> QED
        BY <1>3, <3>1, <3>2, <4>1, <4>2, PrefixSame
    <3>4. CASE ~(written = "whole" /\ ~fragment)
      <4>1. safe'[t] = safe[t] /\ Loaded(t)' = Loaded(t)
        BY <1>1, <1>14, <3>4
      <4>2. IsPrefix(safe[t], data)
        BY <1>0, <2>2, PrefixAppend DEF LoadedIsSafe, EventShape, data
      <4> QED
        BY <1>0, <3>1, <3>2, <4>1, <4>2 DEF LoadedIsSafe
    <3> QED
      BY <3>3, <3>4
  <2> QED
    BY <2>1, <2>2
<1> QED
  BY <1>8, <1>12, <1>15 DEF EventInv

(* core/event_store.py, snapshot_store.py: for any streams, failed saves,    *)
(* cut lines and restarts, the events of the last whole newLine are found again.*)
THEOREM EventsAreKept == EventSpec => []EventsSurvive
<1>1. EventInv /\ [EventNext]_eventVars => EventInv'
  <2> SUFFICES ASSUME EventInv, [EventNext]_eventVars PROVE EventInv'
    OBVIOUS
  <2>1. CASE UNCHANGED eventVars
    <3>1. UNCHANGED <<streams, versions, jsonl, fragment, safe, eventCount>>
      BY <2>1 DEF eventVars
    <3>2. \A s \in Streams : Loaded(s)' = Loaded(s) /\ SoundLines(s)' = SoundLines(s)
      BY <3>1 DEF Loaded, SoundLines, Sound
    <3>3. LoadedIsSafe'
      BY <3>1, <3>2 DEF EventInv, LoadedIsSafe
    <3>4. EventShape' /\ VersionsGrow'
      BY <3>1, <3>2 DEF EventInv, EventShape, VersionsGrow
    <3> QED
      BY <3>3, <3>4 DEF EventInv
  <2>2. CASE RestartStore
    BY <2>2, RestartStoreInv
  <2>3. ASSUME NEW s \in Streams, NEW written \in {"whole", "part", "nothing"}, AppendEvent(s, written)
        PROVE  EventInv'
    BY <2>3, AppendEventInv
  <2> QED
    BY <2>1, <2>2, <2>3 DEF EventNext
<1>2. EventInv => EventsSurvive
  BY LoadedAll, HoldsLatest DEF EventInv, LoadedIsSafe, EventsSurvive
<1> QED
  BY <1>1, <1>2, EventInitInv, PTL DEF EventSpec

-----------------------------------------------------------------------------
(***************************************************************************)
(* DRIVE: goals are listed in the order of their numbers, so a verdict is    *)
(* on one goal, and every run uses up an approval.                           *)
(***************************************************************************)
GoalKind == [id : 1..MaxGoals, text : GoalTexts,
             status : {"proposed", "approved", "rejected", "active", "done"}]

VerdictKind == [approvals : Nat, starts : Nat, last : {"none", "approved", "rejected"}]

DriveShape ==
    /\ goals \in Seq(GoalKind) /\ goalSeq \in 0..MaxGoals
    /\ verdictsOn \in [1..MaxGoals -> VerdictKind]

Ascending(s) == \A i, j \in 1..Len(s) : i < j => s[i].id < s[j].id

Numbered == Ascending(goals) /\ \A k \in 1..Len(goals) : goals[k].id <= goalSeq

DriveInv == DriveShape /\ Numbered /\ RunsWereApproved

LEMMA DroppedOf ==
    ASSUME NEW S, NEW s \in Seq(S), Len(s) # 0, NEW i \in Int
    PROVE  /\ Dropped(s, i) \in Seq(S) /\ Len(Dropped(s, i)) = Len(s) - 1
           /\ \A k \in 1..(Len(s) - 1) : Dropped(s, i)[k] = IF k < i THEN s[k] ELSE s[k + 1]
<1>1. Len(s) - 1 \in Nat /\ \A k \in 1..(Len(s) - 1) : s[k] \in S /\ s[k + 1] \in S
  BY LenProperties, ElementOfSeq
<1>2. Dropped(s, i) \in [1..(Len(s) - 1) -> S]
  BY <1>1 DEF Dropped
<1>3. Dropped(s, i) \in Seq(S) /\ Len(Dropped(s, i)) = Len(s) - 1
  BY <1>1, <1>2, FunctionIsSeq
<1> QED
  BY <1>3 DEF Dropped

(* Evicting leaves goals that were there, in their order. *)
LEMMA EvictedOf ==
    ASSUME NEW s \in Seq(GoalKind), Ascending(s)
    PROVE  /\ Evicted(s) \in Seq(GoalKind) /\ Ascending(Evicted(s))
           /\ \A k \in 1..Len(Evicted(s)) : \E j \in 1..Len(s) : Evicted(s)[k] = s[j]
<1>0. Len(s) \in Nat
  BY LenProperties
<1>1. CASE Len(s) <= GoalCapacity
  BY <1>1 DEF Evicted
<1>2. CASE ~(Len(s) <= GoalCapacity)
  <2> DEFINE over == {k \in 1..Len(s) : s[k].status \in {"done", "rejected"}}
             least == CHOOSE k \in over : \A j \in over : k <= j
             i == IF over = {} THEN 1 ELSE least
  <2>1. i \in Int
    <3>1. CASE over # {}
      <4>1. over \in SUBSET Nat
        BY <1>0
      <4> HIDE DEF over
      <4>2. \E k \in over : \A j \in over : k <= j
        BY <3>1, <4>1, LeastNumber
      <4>3. least \in over
        BY <4>2
      <4> HIDE DEF least
      <4> QED
        BY <3>1, <4>1, <4>3
    <3> QED
      BY <3>1
  <2>2. Evicted(s) = Dropped(s, i)
    BY <1>2 DEF Evicted
  <2> HIDE DEF i
  <2>3. Len(s) # 0
    BY <1>0, <1>2, DriveAssumption
  <2>4. /\ Evicted(s) \in Seq(GoalKind) /\ Len(Evicted(s)) = Len(s) - 1
        /\ \A k \in 1..(Len(s) - 1) : Evicted(s)[k] = IF k < i THEN s[k] ELSE s[k + 1]
    BY <2>1, <2>2, <2>3, DroppedOf
  <2>5. \A k \in 1..Len(s) : s[k].id \in Int
    <3>1. \A k \in 1..Len(s) : s[k] \in GoalKind
      BY ElementOfSeq
    <3> QED
      BY <3>1 DEF GoalKind
  <2>6. Ascending(Evicted(s))
    <3> SUFFICES ASSUME NEW a \in 1..(Len(s) - 1), NEW b \in 1..(Len(s) - 1), a < b
                 PROVE  Evicted(s)[a].id < Evicted(s)[b].id
      BY <1>0, <2>4 DEF Ascending
    <3>1. /\ a \in 1..Len(s) /\ a + 1 \in 1..Len(s) /\ b \in 1..Len(s) /\ b + 1 \in 1..Len(s)
          /\ a < b /\ a < b + 1 /\ a + 1 < b + 1 /\ (b < i => a < i)
      BY <1>0, <2>1
    <3>2. s[a].id < s[b].id /\ s[a].id < s[b + 1].id /\ s[a + 1].id < s[b + 1].id
      BY <3>1 DEF Ascending
    <3> QED
      BY <2>4, <3>1, <3>2
  <2>7. \A k \in 1..(Len(s) - 1) : k \in 1..Len(s) /\ k + 1 \in 1..Len(s)
    BY <1>0
  <2> QED
    BY <2>4, <2>6, <2>7
<1> QED
  BY <1>1, <1>2

LEMMA DriveInitInv == DriveInit => DriveInv
<1> SUFFICES ASSUME DriveInit PROVE DriveInv
  OBVIOUS
<1>1. <<>> \in Seq(GoalKind) /\ Len(<<>>) = 0
  BY EmptySeq
<1>2. DriveShape
  BY <1>1, DriveAssumption DEF DriveInit, DriveShape, VerdictKind
<1> QED
  BY <1>1, <1>2 DEF DriveInit, DriveInv, Numbered, Ascending, RunsWereApproved

(* A step that changes no number and leaves of the goals that are approved   *)
(* only such as were, and no verdict on them.                                *)
LEMMA GoalsKept ==
    ASSUME DriveInv, goals' \in Seq(GoalKind), Len(goals') = Len(goals), goalSeq' = goalSeq,
           verdictsOn' = verdictsOn,
           \A k \in 1..Len(goals) : /\ goals'[k].id = goals[k].id
                                    /\ goals'[k].status \in {goals[k].status, "done"}
    PROVE  DriveInv'
<1>1. DriveShape' /\ Numbered'
  BY DEF DriveInv, DriveShape, Numbered, Ascending
<1>2. RunsWereApproved'
  BY DEF DriveInv, RunsWereApproved
<1> QED
  BY <1>1, <1>2 DEF DriveInv

LEMMA DriveStepInv == DriveInv /\ [DriveNext]_driveVars => DriveInv'
<1> SUFFICES ASSUME DriveInv, [DriveNext]_driveVars PROVE DriveInv'
  OBVIOUS
<1>0. /\ DriveShape /\ Numbered /\ RunsWereApproved
      /\ Len(goals) \in Nat /\ MaxGoals \in Nat /\ goalSeq \in Nat
      /\ \A k \in 1..Len(goals) : goals[k] \in GoalKind
  BY LenProperties, ElementOfSeq, DriveAssumption DEF DriveInv, DriveShape
<1>1. ASSUME NEW text \in GoalTexts, ProposeGoal(text) PROVE DriveInv'
  <2> DEFINE g == [id |-> goalSeq + 1, text |-> text, status |-> "proposed"]
             s == Append(goals, g)
  <2>1. /\ g \in GoalKind /\ goalSeq' = goalSeq + 1 /\ goalSeq' \in 0..MaxGoals
        /\ goals' = Evicted(s) /\ verdictsOn' = verdictsOn
    BY <1>0, <1>1 DEF ProposeGoal, GoalKind, DriveShape
  <2>2. goals \in Seq(GoalKind)
    BY <1>0 DEF DriveShape
  <2>3. /\ s \in Seq(GoalKind) /\ Len(s) = Len(goals) + 1 /\ s[Len(goals) + 1] = g
        /\ \A k \in 1..Len(goals) : s[k] = goals[k]
    BY <2>1, <2>2, AppendProperties
  <2>4. \A k \in 1..Len(s) : k \in 1..Len(goals) \/ k = Len(goals) + 1
    BY <1>0, <2>3
  <2>5. g.id = goalSeq + 1 /\ g.status = "proposed"
    OBVIOUS
  <2> HIDE DEF g, s
  <2>6. Ascending(s)
    <3> SUFFICES ASSUME NEW a \in 1..Len(s), NEW b \in 1..Len(s), a < b
                 PROVE  s[a].id < s[b].id
      BY DEF Ascending
    <3>1. a \in 1..Len(goals)
      BY <1>0, <2>3
    <3>2. s[a].id <= goalSeq /\ s[a].id \in Int
      <4>1. s[a] = goals[a]
        BY <2>3, <3>1
      <4>2. goals[a].id <= goalSeq
        BY <1>0, <3>1 DEF Numbered
      <4>3. goals[a].id \in 1..MaxGoals
        BY <1>0, <3>1 DEF GoalKind
      <4> QED
        BY <4>1, <4>2, <4>3
    <3>3. CASE b \in 1..Len(goals)
      BY <1>0, <2>3, <3>1, <3>3 DEF Numbered, Ascending
    <3>4. CASE b = Len(goals) + 1
      BY <1>0, <2>3, <2>5, <3>2, <3>4
    <3> QED
      BY <2>4, <3>3, <3>4
  <2>7. /\ goals' \in Seq(GoalKind) /\ Ascending(goals')
        /\ \A k \in 1..Len(goals') : \E j \in 1..Len(s) : goals'[k] = s[j]
    BY <2>1, <2>3, <2>6, EvictedOf
  <2>8. \A j \in 1..Len(s) : s[j].id <= goalSeq + 1 /\ (s[j].status = "approved" => j \in 1..Len(goals))
    <3> SUFFICES ASSUME NEW j \in 1..Len(s)
                 PROVE  s[j].id <= goalSeq + 1 /\ (s[j].status = "approved" => j \in 1..Len(goals))
      OBVIOUS
    <3>1. CASE j \in 1..Len(goals)
      <4>0. s[j] = goals[j] /\ goals[j].id \in 1..MaxGoals
        BY <1>0, <2>3, <3>1 DEF GoalKind
      <4>1. s[j].id <= goalSeq /\ s[j].id \in Int
        BY <1>0, <3>1, <4>0 DEF Numbered
      <4> QED
        BY <2>1, <3>1, <4>1, <1>0 DEF DriveShape
    <3>2. CASE j = Len(goals) + 1
      <4>1. s[j] = g
        BY <2>3, <3>2
      <4> QED
        BY <1>0, <2>5, <4>1
    <3> QED
      BY <2>4, <3>1, <3>2
  <2>9. DriveShape' /\ Numbered'
    BY <1>0, <2>1, <2>7, <2>8 DEF DriveShape, Numbered, Ascending
  <2>10. RunsWereApproved'
    BY <1>0, <2>1, <2>3, <2>7, <2>8 DEF RunsWereApproved
  <2> QED
    BY <2>9, <2>10 DEF DriveInv
<1>2. ASSUME NEW k \in 1..Len(goals), NEW word \in {"approved", "rejected"}, Judge(k, word)
      PROVE  DriveInv'
  <2> DEFINE g == goals[k].id
             n == IF word = "approved" THEN verdictsOn[g].approvals + 1 ELSE verdictsOn[g].approvals
  <2>1. g \in 1..MaxGoals /\ verdictsOn[g] \in VerdictKind
    BY <1>0 DEF DriveShape, GoalKind
  <2>2. /\ goals' = [goals EXCEPT ![k] = [goals[k] EXCEPT !.status = word]] /\ goalSeq' = goalSeq
        /\ verdictsOn' = [verdictsOn EXCEPT ![g] =
                            [verdictsOn[g] EXCEPT !.last = word, !.approvals = n]]
    BY <1>0, <1>2, <2>1 DEF Judge, DriveShape, VerdictKind
  <2>3. n \in Nat /\ n >= verdictsOn[g].approvals
           /\ (word = "approved" => n = verdictsOn[g].approvals + 1)
    BY <2>1 DEF VerdictKind
  <2>4. /\ verdictsOn' \in [1..MaxGoals -> VerdictKind]
        /\ \A h \in 1..MaxGoals : h # g => verdictsOn'[h] = verdictsOn[h]
        /\ verdictsOn'[g].last = word /\ verdictsOn'[g].approvals = n
        /\ verdictsOn'[g].starts = verdictsOn[g].starts
    BY <1>0, <2>1, <2>2, <2>3 DEF DriveShape, VerdictKind
  <2>5. [goals[k] EXCEPT !.status = word] \in GoalKind
    BY <1>0 DEF GoalKind
  <2>6. /\ goals' \in Seq(GoalKind) /\ Len(goals') = Len(goals)
        /\ \A j \in 1..Len(goals) : goals'[j] = IF j = k THEN [goals[k] EXCEPT !.status = word]
                                                ELSE goals[j]
    BY <1>0, <2>2, <2>5, ExceptSeq DEF DriveShape
  <2> HIDE DEF g, n
  <2>7. /\ \A j \in 1..Len(goals) : goals'[j].id = goals[j].id
        /\ goals'[k].status = word
    BY <1>0, <2>6 DEF GoalKind
  <2>8. DriveShape' /\ Numbered'
    BY <1>0, <2>2, <2>4, <2>6, <2>7 DEF DriveShape, Numbered, Ascending
  <2>9. \A j \in 1..Len(goals) : j # k => goals[j].id # g
    BY <1>0 DEF Numbered, Ascending, GoalKind, g
  <2>10. RunsWereApproved'
    <3>1. \A h \in 1..MaxGoals : verdictsOn'[h].starts <= verdictsOn'[h].approvals
      <4> SUFFICES ASSUME NEW h \in 1..MaxGoals
                   PROVE  verdictsOn'[h].starts <= verdictsOn'[h].approvals
        OBVIOUS
      <4>1. verdictsOn[h].starts <= verdictsOn[h].approvals
        BY <1>0 DEF RunsWereApproved
      <4>2. CASE h # g
        BY <2>4, <4>1, <4>2
      <4>3. CASE h = g
        <5>1. verdictsOn[g].starts \in Nat /\ verdictsOn[g].approvals \in Nat
          BY <2>1 DEF VerdictKind
        <5> QED
          BY <2>3, <2>4, <4>1, <4>3, <5>1
      <4> QED
        BY <4>2, <4>3
    <3>2. ASSUME NEW j \in 1..Len(goals), goals'[j].status = "approved"
          PROVE  /\ verdictsOn'[goals'[j].id].last = "approved"
                 /\ verdictsOn'[goals'[j].id].starts < verdictsOn'[goals'[j].id].approvals
      <4>1. CASE j = k
        <5>1. goals'[j].id = g /\ word = "approved" /\ verdictsOn[g].starts <= verdictsOn[g].approvals
          BY <1>0, <2>1, <2>7, <3>2, <4>1 DEF g, RunsWereApproved
        <5> QED
          BY <2>1, <2>3, <2>4, <5>1 DEF VerdictKind
      <4>2. CASE j # k
        <5>1. goals'[j] = goals[j] /\ goals[j].id \in 1..MaxGoals /\ goals[j].id # g
          BY <1>0, <2>6, <2>9, <4>2 DEF GoalKind
        <5> QED
          BY <1>0, <2>4, <3>2, <5>1 DEF RunsWereApproved
      <4> QED
        BY <4>1, <4>2
    <3> QED
      BY <2>6, <3>1, <3>2 DEF RunsWereApproved
  <2> QED
    BY <2>8, <2>10 DEF DriveInv
<1>3. ASSUME NEW k \in 1..Len(goals), RunGoal(k) PROVE DriveInv'
  <2> DEFINE g == goals[k].id
             n == verdictsOn[g].starts + 1
  <2>1. /\ g \in 1..MaxGoals /\ verdictsOn[g] \in VerdictKind
        /\ verdictsOn[g].starts < verdictsOn[g].approvals
    BY <1>0, <1>3 DEF DriveShape, GoalKind, RunGoal, RunsWereApproved
  <2>2. /\ goals' = [goals EXCEPT ![k] = [goals[k] EXCEPT !.status = "active"]] /\ goalSeq' = goalSeq
        /\ verdictsOn' = [verdictsOn EXCEPT ![g] =
                            [verdictsOn[g] EXCEPT !.starts = n]] /\ n \in Nat
    BY <1>0, <1>3, <2>1 DEF RunGoal, DriveShape, VerdictKind
  <2>3. /\ verdictsOn' \in [1..MaxGoals -> VerdictKind]
        /\ \A h \in 1..MaxGoals : h # g => verdictsOn'[h] = verdictsOn[h]
        /\ verdictsOn'[g].starts = n
        /\ verdictsOn'[g].approvals = verdictsOn[g].approvals
    <3> HIDE DEF n, g
    <3> QED
      BY <1>0, <2>1, <2>2 DEF DriveShape, VerdictKind
  <2>4. [goals[k] EXCEPT !.status = "active"] \in GoalKind
    BY <1>0 DEF GoalKind
  <2>5. /\ goals' \in Seq(GoalKind) /\ Len(goals') = Len(goals)
        /\ \A j \in 1..Len(goals) : goals'[j] = IF j = k THEN [goals[k] EXCEPT !.status = "active"]
                                                ELSE goals[j]
    BY <1>0, <2>2, <2>4, ExceptSeq DEF DriveShape
  <2> HIDE DEF g
  <2>6. /\ \A j \in 1..Len(goals) : goals'[j].id = goals[j].id
        /\ goals'[k].status = "active"
    <3>1. goals[k] \in GoalKind
      BY <1>0
    <3>2. /\ [goals[k] EXCEPT !.status = "active"].id = goals[k].id
          /\ [goals[k] EXCEPT !.status = "active"].status = "active"
      BY <3>1 DEF GoalKind
    <3> QED
      BY <1>0, <2>5, <3>2
  <2>7. DriveShape' /\ Numbered'
    BY <1>0, <2>2, <2>3, <2>5, <2>6 DEF DriveShape, Numbered, Ascending
  <2>8. \A j \in 1..Len(goals) : j # k => goals[j].id # g
    BY <1>0 DEF Numbered, Ascending, GoalKind, g
  <2>9. RunsWereApproved'
    <3>1. ASSUME NEW h \in 1..MaxGoals PROVE verdictsOn'[h].starts <= verdictsOn'[h].approvals
      <4>1. CASE h = g
        BY <2>1, <2>3, <4>1 DEF VerdictKind
      <4>2. CASE h # g
        BY <1>0, <2>3, <4>2 DEF RunsWereApproved
      <4> QED
        BY <4>1, <4>2
    <3>2. ASSUME NEW j \in 1..Len(goals), goals'[j].status = "approved"
          PROVE  /\ verdictsOn'[goals'[j].id].last = "approved"
                 /\ verdictsOn'[goals'[j].id].starts < verdictsOn'[goals'[j].id].approvals
      <4>1. j # k
        BY <2>6, <3>2
      <4>2. goals'[j] = goals[j] /\ goals[j].id \in 1..MaxGoals /\ goals[j].id # g
        BY <1>0, <2>5, <2>8, <4>1 DEF GoalKind
      <4> QED
        BY <1>0, <2>3, <3>2, <4>2 DEF RunsWereApproved
    <3> QED
      BY <2>5, <3>1, <3>2 DEF RunsWereApproved
  <2> QED
    BY <2>7, <2>9 DEF DriveInv
<1>4. ASSUME NEW i \in 1..Len(underway), NEW raised \in BOOLEAN, RunReturns(i, raised)
      PROVE  DriveInv'
  <2>1. goalSeq' = goalSeq /\ verdictsOn' = verdictsOn
    BY <1>4 DEF RunReturns
  <2>2. CASE raised
    <3>1. goals' = goals
      BY <1>4, <2>2 DEF RunReturns
    <3> QED
      BY <1>0, <2>1, <3>1, GoalsKept DEF DriveShape
  <2>3. CASE ~raised
    <3>1. goals' = [k \in 1..Len(goals) |->
                      IF goals[k].id = underway[i] THEN [goals[k] EXCEPT !.status = "done"]
                      ELSE goals[k]]
      BY <1>4, <2>3 DEF RunReturns
    <3>2. goals' \in [1..Len(goals) -> GoalKind]
      BY <1>0, <3>1 DEF GoalKind
    <3>3. goals' \in Seq(GoalKind) /\ Len(goals') = Len(goals)
      BY <1>0, <3>2, FunctionIsSeq
    <3>4. \A k \in 1..Len(goals) : /\ goals'[k].id = goals[k].id
                                   /\ goals'[k].status \in {goals[k].status, "done"}
      BY <1>0, <3>1 DEF GoalKind
    <3> QED
      BY <2>1, <3>3, <3>4, GoalsKept
  <2> QED
    BY <2>2, <2>3
<1>5. CASE ResetDrive
  <2>1. goals' = <<>> /\ goalSeq' = goalSeq /\ verdictsOn' = verdictsOn
           /\ <<>> \in Seq(GoalKind) /\ Len(<<>>) = 0
    BY <1>5, EmptySeq DEF ResetDrive
  <2>2. DriveShape' /\ Numbered'
    BY <1>0, <2>1 DEF DriveShape, Numbered, Ascending
  <2>3. RunsWereApproved'
    BY <1>0, <2>1 DEF RunsWereApproved
  <2> QED
    BY <2>2, <2>3 DEF DriveInv
<1>6. CASE UNCHANGED driveVars
  BY <1>0, <1>6, GoalsKept DEF driveVars, DriveShape
<1> QED
  BY <1>1, <1>2, <1>3, <1>4, <1>5, <1>6 DEF DriveNext

(* drive/manager.py: for any goals, verdicts, capacity, failures and resets, *)
(* no goal is run twice on one word of the Sovereign.                        *)
THEOREM RunsOnApproval == DriveSpec => []RunsWereApproved
<1>1. DriveInv => RunsWereApproved
  BY DEF DriveInv
<1> QED
  BY <1>1, DriveInitInv, DriveStepInv, PTL DEF DriveSpec

-----------------------------------------------------------------------------
(***************************************************************************)
(* ASCENT: what an apply carries was approved and passed the gate; the .tmp  *)
(* of a module is what its one writer made it, unless two of them overlap.   *)
(***************************************************************************)
Applying == [pc : {"open", "write", "replace", "note"}, seq : Nat, module : SourceFiles,
             after : Versions, fd : {"none", "tmp", "staged", "gone"}, applied : BOOLEAN]
Decision == [seq : Nat, module : Spellings, after : Versions,
             status : {"approved", "rejected", "applied", "apply_refused"}]

FileContents == Versions \cup {"none", "empty", "mixed"}

AscentShape ==
    /\ tree \in [SourceFiles -> Versions] /\ cycleSeq \in Nat
    /\ queue \subseteq [seq : Nat, module : Spellings, after : Versions]
    /\ decided \subseteq Decision
    /\ ascender \in [Ascenders -> {NotApplying} \cup Applying]
    /\ tmpFile \in [SourceFiles -> FileContents] /\ staged \in [SourceFiles -> FileContents]
    /\ overlaps \subseteq SourceFiles

ApprovedIsBlessed == \A d \in decided : d.status = "approved" => <<d.module, d.after>> \in blessed

CarriesPassed ==
    \A w \in Ascenders : ascender[w].pc \in {"open", "write", "replace"} =>
        Passed(ascender[w].module, ascender[w].after)

OneWriter ==
    \A w \in Ascenders, m \in SourceFiles :
        Inside(w, m) /\ m \notin overlaps =>
            /\ \A o \in Ascenders : Inside(o, m) => o = w
            /\ ascender[w].pc = "write" => ascender[w].fd = "tmp" /\ tmpFile[m] = "empty"
            /\ ascender[w].pc = "replace" => tmpFile[m] = ascender[w].after

TmpKnown == \A m \in overlaps : tmpFile[m] \in {"none", "empty", "mixed"} \/ Passed(m, tmpFile[m])

AscentInv ==
    /\ AscentShape /\ ApprovedIsBlessed /\ CarriesPassed /\ OneWriter /\ TmpKnown
    /\ StagedWasApproved

LEMMA AscentInitInv == AscentInit => AscentInv
<1> SUFFICES ASSUME AscentInit PROVE AscentInv
  OBVIOUS
<1>1. AscentShape
  BY DEF AscentInit, AscentShape, FileContents
<1>2. \A w \in Ascenders : ascender[w].pc = "idle"
  BY DEF AscentInit, NotApplying
<1>3. CarriesPassed /\ OneWriter
  BY <1>2 DEF CarriesPassed, OneWriter, Inside
<1>4. ApprovedIsBlessed /\ TmpKnown /\ StagedWasApproved
  BY DEF AscentInit, ApprovedIsBlessed, TmpKnown, StagedWasApproved
<1> QED
  BY <1>1, <1>3, <1>4 DEF AscentInv

(* What was good once stays so: nothing is unsaid. *)
LEMMA PassedStays ==
    ASSUME NEW m, NEW v, Passed(m, v), blessed \subseteq blessed', regated \subseteq regated'
    PROVE  Passed(m, v)'
BY DEF Passed

(* Steps that touch neither the disk nor an apply. *)
LEMMA AscentStays ==
    ASSUME AscentInv, UNCHANGED <<tmpFile, staged, ascender, overlaps>>,
           blessed \subseteq blessed', regated \subseteq regated',
           AscentShape', ApprovedIsBlessed'
    PROVE  AscentInv'
<1>1. \A m, v : Passed(m, v) => Passed(m, v)'
  BY PassedStays
<1>2. CarriesPassed' /\ TmpKnown'
  BY <1>1 DEF AscentInv, CarriesPassed, TmpKnown
<1>3. OneWriter'
  BY DEF AscentInv, OneWriter, Inside
<1>4. StagedWasApproved'
  BY <1>1 DEF AscentInv, StagedWasApproved
<1> QED
  BY <1>2, <1>3, <1>4 DEF AscentInv

LEMMA ApplyBeginsInv ==
    ASSUME AscentInv, NEW w \in Ascenders, NEW d \in decided, ApplyBegins(w, d)
    PROVE  AscentInv'
<1> USE DEF AscentInv
<1>0. d \in Decision /\ FileOf[d.module] \in SourceFiles /\ d.after \in Versions
  BY AscentAssumption DEF AscentShape, Decision
<1> DEFINE m == FileOf[d.module]
<1>p. PICK before \in Versions \cup {Unread} :
         LET passes == Assess(d.module, before, d.after) \in {"approve", "revise"} IN
         /\ ascender' = [ascender EXCEPT ![w] =
              [pc |-> IF passes THEN "open" ELSE "note", seq |-> d.seq, module |-> FileOf[d.module],
               after |-> d.after, fd |-> "none", applied |-> FALSE]]
         /\ regated' = IF passes
                       THEN regated \cup {[path |-> d.module, after |-> d.after, before |-> before]}
                       ELSE regated
  BY DEF ApplyBegins
<1> DEFINE passes == Assess(d.module, before, d.after) \in {"approve", "revise"}
           passage == [path |-> d.module, after |-> d.after, before |-> before]
           a == [pc |-> IF passes THEN "open" ELSE "note", seq |-> d.seq, module |-> m,
                 after |-> d.after, fd |-> "none", applied |-> FALSE]
<1>1. /\ d.status = "approved" /\ d.module \in Spellings
      /\ ascender[w].pc = "idle" /\ ascender' = [ascender EXCEPT ![w] = a]
      /\ regated' = (IF passes THEN regated \cup {passage} ELSE regated)
      /\ UNCHANGED <<tree, queue, decided, cycleSeq, tmpFile, staged, blessed, overlaps>>
  BY <1>0, <1>p DEF ApplyBegins, listVars, diskVars, Decision
<1>2. a \in Applying /\ a.module = m /\ a.after = d.after /\ (a.pc = "note" \/ (a.pc = "open" /\ passes))
  BY <1>0 DEF Applying, Decision
<1>3. passes => Passed(m, d.after)'
  <2> SUFFICES ASSUME passes PROVE Passed(m, d.after)'
    OBVIOUS
  <2>1. <<d.module, d.after>> \in blessed
    BY <1>1 DEF ApprovedIsBlessed
  <2>2. /\ Facts[d.after].parses /\ d.module \notin Protected
        /\ Public(before) \subseteq Public(d.after)
        /\ d.module \in TestFiles => TestCases(before) \subseteq TestCases(d.after)
    <3>1. Assess(d.module, before, d.after) # "deny"
      OBVIOUS
    <3>2. Assess(d.module, before, d.after) # "escalate"
      OBVIOUS
    <3>3. ~(\/ ~Facts[d.after].parses
            \/ ~(Public(before) \subseteq Public(d.after))
            \/ d.module \in TestFiles /\ ~(TestCases(before) \subseteq TestCases(d.after)))
      BY <3>1 DEF Assess
    <3>4. d.module \notin Protected
      BY <3>2, <3>3 DEF Assess
    <3> QED
      BY <3>3, <3>4
  <2>3. passage \in regated' /\ passage.path = d.module /\ passage.after = d.after /\ passage.before = before
    BY <1>1
  <2> HIDE DEF passage
  <2>4. <<d.module, d.after>> \in blessed'
    BY <1>1, <2>1
  <2> QED
    BY <2>2, <2>3, <2>4 DEF Passed, Public, TestCases
<1> HIDE DEF a, passes, passage, m
<1>4. \A f, v : Passed(f, v) => Passed(f, v)'
  BY <1>1, PassedStays
<1>5. AscentShape' /\ ApprovedIsBlessed'
  BY <1>1, <1>2 DEF AscentShape, ApprovedIsBlessed
<1>6. /\ \A o \in Ascenders \ {w} : ascender'[o] = ascender[o]
      /\ ascender'[w] = a
  BY <1>1 DEF AscentShape
<1>7. CarriesPassed'
  BY <1>2, <1>3, <1>4, <1>6 DEF CarriesPassed
<1>8. OneWriter'
  <2>1. \A o \in Ascenders : \A f : Inside(o, f)' <=> Inside(o, f)
    BY <1>1, <1>2, <1>6 DEF Inside
  <2> QED
    BY <1>1, <1>2, <1>6, <2>1 DEF OneWriter
<1>9. TmpKnown' /\ StagedWasApproved'
  BY <1>1, <1>4 DEF TmpKnown, StagedWasApproved
<1> QED
  BY <1>5, <1>7, <1>8, <1>9

LEMMA OpenTmpInv ==
    ASSUME AscentInv, NEW w \in Ascenders, OpenTmp(w)
    PROVE  AscentInv'
<1> USE DEF AscentInv
<1> DEFINE m == ascender[w].module
<1>1. ascender[w] \in Applying /\ m \in SourceFiles /\ ascender[w].pc = "open"
  BY DEF OpenTmp, AscentShape, Applying, NotApplying
<1>2. /\ tmpFile' = [tmpFile EXCEPT ![m] = "empty"]
      /\ overlaps' = IF \E o \in Ascenders : Inside(o, m) THEN overlaps \cup {m} ELSE overlaps
      /\ ascender' = [ascender EXCEPT ![w] = [ascender[w] EXCEPT !.pc = "write", !.fd = "tmp"]]
      /\ UNCHANGED <<tree, queue, decided, cycleSeq, staged, blessed, regated>>
  BY <1>1 DEF OpenTmp, listVars, AscentShape
<1>3. /\ \A o \in Ascenders \ {w} : ascender'[o] = ascender[o]
      /\ ascender'[w] \in Applying /\ ascender'[w].pc = "write" /\ ascender'[w].fd = "tmp"
      /\ ascender'[w].module = m /\ ascender'[w].after = ascender[w].after
      /\ \A n \in SourceFiles : tmpFile'[n] = IF n = m THEN "empty" ELSE tmpFile[n]
  BY <1>1, <1>2 DEF AscentShape, Applying
<1>4. AscentShape' /\ ApprovedIsBlessed'
  BY <1>1, <1>2, <1>3 DEF AscentShape, FileContents, ApprovedIsBlessed
<1>5. \A n, v : Passed(n, v)' <=> Passed(n, v)
  BY <1>2 DEF Passed
<1> HIDE DEF m
<1>6. CarriesPassed'
  BY <1>1, <1>3, <1>5 DEF CarriesPassed, m
<1>7. OneWriter'
  <2>1. \A o \in Ascenders : \A n : Inside(o, n)' <=> Inside(o, n) \/ (o = w /\ n = m)
    BY <1>1, <1>3 DEF Inside, m
  <2> SUFFICES ASSUME NEW o \in Ascenders, NEW n \in SourceFiles, Inside(o, n)', n \notin overlaps'
               PROVE  /\ \A x \in Ascenders : Inside(x, n)' => x = o
                      /\ ascender'[o].pc = "write" => ascender'[o].fd = "tmp" /\ tmpFile'[n] = "empty"
                      /\ ascender'[o].pc = "replace" => tmpFile'[n] = ascender'[o].after
    BY DEF OneWriter
  <2>2. n \notin overlaps /\ (n = m => \A x \in Ascenders : ~Inside(x, m))
    BY <1>2
  <2>3. CASE o = w
    BY <1>3, <2>1, <2>2, <2>3 DEF Inside, m
  <2>4. CASE o # w
    <3>1. Inside(o, n) /\ n # m /\ ascender'[o] = ascender[o] /\ tmpFile'[n] = tmpFile[n]
      BY <1>3, <2>1, <2>2, <2>4
    <3> QED
      BY <2>1, <2>2, <3>1 DEF OneWriter
  <2> QED
    BY <2>3, <2>4
<1>8. TmpKnown'
  <2>1. ASSUME NEW n \in overlaps'
        PROVE  tmpFile'[n] \in {"none", "empty", "mixed"} \/ Passed(n, tmpFile'[n])
    <3>1. n = m \/ n \in overlaps
      BY <1>2
    <3>2. CASE n = m
      BY <1>1, <1>3, <3>2
    <3>3. CASE n # m
      BY <1>3, <3>1, <3>3 DEF TmpKnown, AscentShape
    <3> QED
      BY <3>2, <3>3
  <2> QED
    BY <1>5, <2>1 DEF TmpKnown
<1>9. StagedWasApproved'
  BY <1>2, <1>5 DEF StagedWasApproved
<1> QED
  BY <1>4, <1>6, <1>7, <1>8, <1>9

LEMMA WriteTmpInv ==
    ASSUME AscentInv, NEW w \in Ascenders, WriteTmp(w)
    PROVE  AscentInv'
<1> USE DEF AscentInv
<1> DEFINE m == ascender[w].module
           v == ascender[w].after
<1>1. /\ ascender[w] \in Applying /\ m \in SourceFiles /\ v \in Versions
      /\ ascender[w].pc = "write" /\ Passed(m, v)
  BY DEF WriteTmp, AscentShape, Applying, NotApplying, CarriesPassed
<1>2. /\ ascender' = [ascender EXCEPT ![w] = [ascender[w] EXCEPT !.pc = "replace"]]
      /\ UNCHANGED <<tree, queue, decided, cycleSeq, blessed, regated, overlaps>>
  BY <1>1 DEF WriteTmp, listVars, AscentShape
<1>3. \/ /\ ascender[w].fd = "tmp" /\ staged' = staged
         /\ \E c \in Over(tmpFile[m], v) : tmpFile' = [tmpFile EXCEPT ![m] = c]
      \/ /\ ascender[w].fd = "staged" /\ tmpFile' = tmpFile
         /\ \E c \in Over(staged[m], v) : staged' = [staged EXCEPT ![m] = c]
      \/ ascender[w].fd \notin {"tmp", "staged"} /\ UNCHANGED <<tmpFile, staged>>
  BY <1>1 DEF WriteTmp, diskVars
<1>4. /\ \A o \in Ascenders \ {w} : ascender'[o] = ascender[o]
      /\ ascender'[w] \in Applying /\ ascender'[w].pc = "replace"
      /\ ascender'[w].module = m /\ ascender'[w].after = v
  BY <1>1, <1>2 DEF AscentShape, Applying
<1>5. \A n, x : Passed(n, x)' <=> Passed(n, x)
  BY <1>2 DEF Passed
<1>6. m \notin overlaps => /\ \A o \in Ascenders : Inside(o, m) => o = w
                          /\ ascender[w].fd = "tmp" /\ tmpFile[m] = "empty"
  BY <1>1 DEF OneWriter, Inside
<1> HIDE DEF m, v
<1>7. /\ \A n \in SourceFiles : n # m => tmpFile'[n] = tmpFile[n] /\ staged'[n] = staged[n]
      /\ m \in overlaps =>
            /\ tmpFile'[m] \in {tmpFile[m], v, "mixed"}
            /\ staged'[m] \in {staged[m], v, "mixed"}
      /\ m \notin overlaps => tmpFile'[m] = v /\ staged' = staged
      /\ tmpFile' \in [SourceFiles -> FileContents] /\ staged' \in [SourceFiles -> FileContents]
  <2>1. \A c \in Over(tmpFile[m], v) \cup Over(staged[m], v) : c \in {v, "mixed"} /\ c \in FileContents
    BY <1>1 DEF Over, FileContents
  <2>2. tmpFile[m] = "empty" => Over(tmpFile[m], v) = {v}
    BY DEF Over
  <2> QED
    BY <1>1, <1>3, <1>6, <2>1, <2>2 DEF AscentShape
<1>8. AscentShape' /\ ApprovedIsBlessed'
  BY <1>1, <1>2, <1>4, <1>7 DEF AscentShape, ApprovedIsBlessed
<1>9. CarriesPassed'
  BY <1>1, <1>4, <1>5 DEF CarriesPassed
<1>10. OneWriter'
  <2>1. \A o \in Ascenders : \A n : Inside(o, n)' <=> Inside(o, n)
    BY <1>1, <1>4 DEF Inside, m
  <2> SUFFICES ASSUME NEW o \in Ascenders, NEW n \in SourceFiles, Inside(o, n)', n \notin overlaps'
               PROVE  /\ \A x \in Ascenders : Inside(x, n)' => x = o
                      /\ ascender'[o].pc = "write" => ascender'[o].fd = "tmp" /\ tmpFile'[n] = "empty"
                      /\ ascender'[o].pc = "replace" => tmpFile'[n] = ascender'[o].after
    BY DEF OneWriter
  <2>2. Inside(o, n) /\ n \notin overlaps
    BY <1>2, <2>1
  <2>3. CASE o = w
    <3>1. n = m
      BY <2>2, <2>3 DEF Inside, m
    <3> QED
      BY <1>4, <1>6, <1>7, <2>1, <2>2, <2>3, <3>1
  <2>4. CASE o # w
    <3>1. n # m /\ ascender'[o] = ascender[o]
      BY <1>4, <1>6, <2>2, <2>4
    <3> QED
      BY <1>7, <2>1, <2>2, <3>1 DEF OneWriter
  <2> QED
    BY <2>3, <2>4
<1>11. TmpKnown'
  <2>1. ASSUME NEW n \in overlaps PROVE tmpFile'[n] \in {"none", "empty", "mixed"} \/ Passed(n, tmpFile'[n])
    <3>1. CASE n = m
      BY <1>1, <1>7, <3>1 DEF TmpKnown, m, v
    <3>2. CASE n # m
      <4>1. tmpFile'[n] = tmpFile[n]
        BY <1>2, <1>3, <3>2 DEF AscentShape
      <4> QED
        BY <4>1 DEF TmpKnown
    <3> QED
      BY <3>1, <3>2
  <2> QED
    BY <1>2, <1>5, <2>1 DEF TmpKnown
<1>12. StagedWasApproved'
  <2>1. ASSUME NEW n \in SourceFiles, staged'[n] # "none"
        PROVE  Passed(n, staged'[n]) \/ (staged'[n] \in {"empty", "mixed"} /\ n \in overlaps)
    <3>1. CASE staged'[n] = staged[n]
      BY <2>1, <3>1 DEF StagedWasApproved
    <3>2. CASE staged'[n] # staged[n]
      BY <1>1, <1>7, <3>2 DEF m, v
    <3> QED
      BY <3>1, <3>2
  <2> QED
    BY <1>2, <1>5, <2>1 DEF StagedWasApproved
<1> QED
  BY <1>8, <1>9, <1>10, <1>11, <1>12

LEMMA ReplaceFileInv ==
    ASSUME AscentInv, NEW w \in Ascenders, ReplaceFile(w)
    PROVE  AscentInv'
<1> USE DEF AscentInv
<1> DEFINE m == ascender[w].module
<1>1. /\ ascender[w] \in Applying /\ m \in SourceFiles /\ ascender[w].pc = "replace"
      /\ Passed(m, ascender[w].after) /\ Inside(w, m)
  BY DEF ReplaceFile, AscentShape, Applying, NotApplying, CarriesPassed, Inside
<1>2. UNCHANGED <<tree, queue, decided, cycleSeq, blessed, regated, overlaps>>
  BY DEF ReplaceFile, listVars
<1>3. \A n, x : Passed(n, x)' <=> Passed(n, x)
  BY <1>2 DEF Passed
<1>4. m \notin overlaps => /\ \A o \in Ascenders : Inside(o, m) => o = w
                          /\ tmpFile[m] = ascender[w].after
  BY <1>1 DEF OneWriter
<1>5. \A o \in Ascenders : ascender[o].pc \in {"write", "replace"} =>
          Inside(o, ascender[o].module) /\ ascender[o].module \in SourceFiles
  BY DEF Inside, AscentShape, Applying, NotApplying
<1>6. CASE tmpFile[m] = "none"
  <2>1. ascender' = [ascender EXCEPT ![w] = NotApplying] /\ UNCHANGED <<tmpFile, staged>>
    BY <1>6 DEF ReplaceFile, diskVars
  <2>2. /\ \A o \in Ascenders \ {w} : ascender'[o] = ascender[o]
        /\ ascender'[w] = NotApplying /\ NotApplying.pc = "idle"
    BY <2>1 DEF AscentShape, NotApplying
  <2>3. AscentShape' /\ ApprovedIsBlessed'
    BY <1>2, <2>1 DEF AscentShape, ApprovedIsBlessed
  <2>4. CarriesPassed'
    BY <1>3, <2>2 DEF CarriesPassed
  <2>5. OneWriter'
    BY <1>2, <2>1, <2>2 DEF OneWriter, Inside
  <2>6. TmpKnown' /\ StagedWasApproved'
    BY <1>2, <1>3, <2>1 DEF TmpKnown, StagedWasApproved
  <2> QED
    BY <2>3, <2>4, <2>5, <2>6
<1>7. CASE tmpFile[m] # "none"
  <2>1. /\ staged' = [staged EXCEPT ![m] = tmpFile[m]]
        /\ tmpFile' = [tmpFile EXCEPT ![m] = "none"]
        /\ ascender' = [o \in Ascenders |->
               IF o = w THEN [ascender[w] EXCEPT !.pc = "note", !.applied = TRUE] ELSE Moved(o, m)]
    BY <1>7 DEF ReplaceFile
  <2>2. ascender'[w] \in Applying /\ ascender'[w].pc = "note"
    BY <1>1, <2>1 DEF Applying
  <2>3. \A o \in Ascenders \ {w} :
           /\ ascender'[o] \in {NotApplying} \cup Applying
           /\ ascender'[o].pc = ascender[o].pc
           /\ ascender[o].pc # "idle" => /\ ascender'[o].module = ascender[o].module
                                         /\ ascender'[o].after = ascender[o].after
           /\ ascender[o].module # m => ascender'[o] = ascender[o]
    BY <2>1 DEF AscentShape, Moved, Applying, NotApplying
  <2> HIDE DEF m
  <2>4. AscentShape' /\ ApprovedIsBlessed'
    <3>1. ascender' \in [Ascenders -> {NotApplying} \cup Applying]
      BY <2>1, <2>2, <2>3
    <3>2. tmpFile' \in [SourceFiles -> FileContents] /\ staged' \in [SourceFiles -> FileContents]
      BY <1>1, <2>1 DEF AscentShape, FileContents
    <3> QED
      BY <1>2, <3>1, <3>2 DEF AscentShape, ApprovedIsBlessed
  <2>5. CarriesPassed'
    BY <1>3, <2>2, <2>3 DEF CarriesPassed
  <2>6. OneWriter'
    <3>1. \A x \in Ascenders, n \in SourceFiles : Inside(x, n)' => Inside(x, n) /\ x # w
      BY <2>2, <2>3 DEF Inside
    <3> SUFFICES ASSUME NEW o \in Ascenders, NEW n \in SourceFiles, Inside(o, n)', n \notin overlaps'
                 PROVE  /\ \A x \in Ascenders : Inside(x, n)' => x = o
                        /\ ascender'[o].pc = "write" => ascender'[o].fd = "tmp" /\ tmpFile'[n] = "empty"
                        /\ ascender'[o].pc = "replace" => tmpFile'[n] = ascender'[o].after
      BY DEF OneWriter
    <3>2. Inside(o, n) /\ o # w /\ n \notin overlaps
      BY <1>2, <3>1
    <3>3. n # m
      BY <1>4, <3>2
    <3>4. ascender'[o] = ascender[o] /\ tmpFile'[n] = tmpFile[n]
      BY <2>1, <2>3, <3>2, <3>3 DEF AscentShape, Inside
    <3> QED
      BY <3>1, <3>2, <3>4 DEF OneWriter
  <2>7. TmpKnown'
    <3>1. ASSUME NEW n \in overlaps PROVE tmpFile'[n] \in {"none", "empty", "mixed"} \/ Passed(n, tmpFile'[n])
      BY <1>1, <2>1 DEF TmpKnown, AscentShape
    <3> QED
      BY <1>2, <1>3, <3>1 DEF TmpKnown
  <2>8. StagedWasApproved'
    <3>1. ASSUME NEW n \in SourceFiles, staged'[n] # "none"
          PROVE  Passed(n, staged'[n]) \/ (staged'[n] \in {"empty", "mixed"} /\ n \in overlaps)
      <4>1. CASE n = m
        <5>1. staged'[n] = tmpFile[m]
          BY <1>1, <2>1, <4>1 DEF AscentShape
        <5>2. CASE m \notin overlaps
          BY <1>1, <1>4, <4>1, <5>1, <5>2 DEF m
        <5>3. CASE m \in overlaps
          BY <1>7, <4>1, <5>1, <5>3 DEF TmpKnown
        <5> QED
          BY <5>2, <5>3
      <4>2. CASE n # m
        <5>1. staged'[n] = staged[n]
          BY <1>1, <2>1, <4>2 DEF AscentShape
        <5> QED
          BY <3>1, <5>1 DEF StagedWasApproved
      <4> QED
        BY <4>1, <4>2
    <3> QED
      BY <1>2, <1>3, <3>1 DEF StagedWasApproved
  <2> QED
    BY <2>4, <2>5, <2>6, <2>7, <2>8
<1> QED
  BY <1>6, <1>7

LEMMA NoteOutcomeInv ==
    ASSUME AscentInv, NEW w \in Ascenders, NoteOutcome(w)
    PROVE  AscentInv'
<1> USE DEF AscentInv
<1> DEFINE Noted(d) == IF d.seq = ascender[w].seq
                       THEN [d EXCEPT !.status = IF ascender[w].applied THEN "applied" ELSE "apply_refused"]
                       ELSE d
<1>1. /\ decided' = {Noted(d) : d \in decided}
      /\ ascender[w].pc = "note" /\ ascender' = [ascender EXCEPT ![w] = NotApplying]
      /\ UNCHANGED <<tree, queue, cycleSeq, tmpFile, staged, blessed, regated, overlaps>>
  BY DEF NoteOutcome, diskVars
<1>2. /\ \A o \in Ascenders \ {w} : ascender'[o] = ascender[o]
      /\ ascender'[w] = NotApplying /\ NotApplying.pc = "idle"
  BY <1>1 DEF AscentShape, NotApplying
<1>3. \A d \in decided : Noted(d) \in Decision /\ (Noted(d).status = "approved" => Noted(d) = d)
  BY DEF AscentShape, Decision
<1> HIDE DEF Noted
<1>4. AscentShape' /\ ApprovedIsBlessed'
  BY <1>1, <1>3 DEF AscentShape, ApprovedIsBlessed
<1>p. \A n, x : Passed(n, x)' <=> Passed(n, x)
  BY <1>1 DEF Passed
<1>5. CarriesPassed'
  BY <1>2, <1>p DEF CarriesPassed
<1>6. OneWriter'
  BY <1>1, <1>2 DEF OneWriter, Inside
<1>7. TmpKnown' /\ StagedWasApproved'
  BY <1>1, <1>p DEF TmpKnown, StagedWasApproved
<1> QED
  BY <1>4, <1>5, <1>6, <1>7

LEMMA DiskFailsInv ==
    ASSUME AscentInv, NEW w \in Ascenders, DiskFails(w)
    PROVE  AscentInv'
<1> USE DEF AscentInv
<1>1. /\ ascender' = [ascender EXCEPT ![w] = NotApplying]
      /\ UNCHANGED <<tree, queue, decided, cycleSeq, tmpFile, staged, blessed, regated, overlaps>>
  BY DEF DiskFails, listVars, diskVars
<1>2. /\ \A o \in Ascenders \ {w} : ascender'[o] = ascender[o]
      /\ ascender'[w] = NotApplying /\ NotApplying.pc = "idle"
  BY <1>1 DEF AscentShape, NotApplying
<1>3. AscentShape' /\ ApprovedIsBlessed'
  BY <1>1 DEF AscentShape, ApprovedIsBlessed
<1>p. \A n, x : Passed(n, x)' <=> Passed(n, x)
  BY <1>1 DEF Passed
<1>4. CarriesPassed'
  BY <1>2, <1>p DEF CarriesPassed
<1>5. OneWriter'
  BY <1>1, <1>2 DEF OneWriter, Inside
<1>6. TmpKnown' /\ StagedWasApproved'
  BY <1>1, <1>p DEF TmpKnown, StagedWasApproved
<1> QED
  BY <1>3, <1>4, <1>5, <1>6

LEMMA ResetAscentInv ==
    ASSUME AscentInv, NEW dies \in BOOLEAN, ResetAscent(dies)
    PROVE  AscentInv'
<1> USE DEF AscentInv
<1>1. /\ queue' = {} /\ decided' = {} /\ cycleSeq' = 0
      /\ UNCHANGED <<tree, tmpFile, staged, blessed, regated>>
  BY DEF ResetAscent, diskVars
<1>2. CASE ~dies
  BY <1>1, <1>2, AscentStays DEF ResetAscent, AscentShape, ApprovedIsBlessed
<1>3. CASE dies
  <2>1. ascender' = [w \in Ascenders |-> NotApplying] /\ overlaps' = overlaps
    BY <1>3 DEF ResetAscent
  <2>p. \A n, x : Passed(n, x)' <=> Passed(n, x)
    BY <1>1 DEF Passed
  <2>2. \A w \in Ascenders : ascender'[w].pc = "idle"
    BY <2>1 DEF NotApplying
  <2>3. AscentShape' /\ ApprovedIsBlessed'
    BY <1>1, <2>1 DEF AscentShape, ApprovedIsBlessed
  <2>4. CarriesPassed' /\ OneWriter'
    BY <2>2 DEF CarriesPassed, OneWriter, Inside
  <2>5. TmpKnown'
    BY <1>1, <2>1, <2>p DEF TmpKnown
  <2>6. StagedWasApproved'
    BY <1>1, <2>1, <2>p DEF StagedWasApproved
  <2> QED
    BY <2>3, <2>4, <2>5, <2>6
<1> QED
  BY <1>2, <1>3

LEMMA ListsInv ==
    ASSUME AscentInv,
           \/ \E path \in Spellings, v \in Versions, c \in Versions \cup {"none"} : RunCycle(path, v, c)
           \/ \E item \in queue, yes \in BOOLEAN : ResolveChange(item, yes)
           \/ \E m \in SourceFiles, v \in Versions : EditTree(m, v)
           \/ UNCHANGED ascentVars
    PROVE  AscentInv'
<1>0. AscentShape /\ ApprovedIsBlessed
  BY DEF AscentInv
<1>1. ASSUME NEW path \in Spellings, NEW v \in Versions, NEW c \in Versions \cup {"none"},
             RunCycle(path, v, c)
      PROVE  AscentInv'
  <2>1. UNCHANGED <<tmpFile, staged, ascender, overlaps, blessed, regated, tree, decided>>
    BY <1>1 DEF RunCycle, diskVars
  <2>2. AscentShape' /\ ApprovedIsBlessed'
    BY <1>0, <1>1, <2>1 DEF RunCycle, AscentShape, ApprovedIsBlessed
  <2> QED
    BY <2>1, <2>2, AscentStays
<1>2. ASSUME NEW item \in queue, NEW yes \in BOOLEAN, ResolveChange(item, yes)
      PROVE  AscentInv'
  <2>1. UNCHANGED <<tmpFile, staged, ascender, overlaps, regated, tree, cycleSeq>>
           /\ blessed \subseteq blessed'
    BY <1>2 DEF ResolveChange, diskVars
  <2>2. AscentShape' /\ ApprovedIsBlessed'
    BY <1>0, <1>2, <2>1 DEF ResolveChange, AscentShape, ApprovedIsBlessed, Decision
  <2> QED
    BY <2>1, <2>2, AscentStays
<1>3. ASSUME NEW m \in SourceFiles, NEW v \in Versions, EditTree(m, v) PROVE AscentInv'
  <2>1. UNCHANGED <<tmpFile, staged, ascender, overlaps, blessed, regated, queue, decided, cycleSeq>>
    BY <1>3 DEF EditTree, diskVars, listVars
  <2>2. AscentShape' /\ ApprovedIsBlessed'
    BY <1>0, <1>3, <2>1 DEF EditTree, AscentShape, ApprovedIsBlessed
  <2> QED
    BY <2>1, <2>2, AscentStays
<1>4. CASE UNCHANGED ascentVars
  BY <1>0, <1>4, AscentStays DEF ascentVars, AscentShape, ApprovedIsBlessed
<1> QED
  BY <1>1, <1>2, <1>3, <1>4

(* ascent/loop.py and apply.py: for any modules, spellings, texts, threads,  *)
(* resets, deaths and failures of the disk, what lies staged was approved    *)
(* under a spelling of the path that touches no guarded area, and took       *)
(* nothing from what the gate could read.                                    *)
THEOREM StagedOnApproval == AscentSpec => []StagedWasApproved
<1>1. AscentInv /\ [AscentNext]_ascentVars => AscentInv'
  BY ApplyBeginsInv, OpenTmpInv, DiskFailsInv, WriteTmpInv, ReplaceFileInv, NoteOutcomeInv, ResetAscentInv,
     ListsInv DEF AscentNext
<1>2. AscentInv => StagedWasApproved
  BY DEF AscentInv
<1> QED
  BY <1>1, <1>2, AscentInitInv, PTL DEF AscentSpec

-----------------------------------------------------------------------------
(* Nothing the system proposes to itself is acted on without the Sovereign:  *)
(* what ASCENT stages, every run of a goal of DRIVE and every command of the *)
(* execution engine had his word.                                            *)
THEOREM EverythingOnApproval ==
    AscentSpec /\ DriveSpec /\ ApprovalSpec => []ActsOnApproval
<1>1. StagedWasApproved /\ RunsWereApproved /\ CommandsWereApproved => ActsOnApproval
  BY DEF ActsOnApproval
<1> QED
  BY <1>1, StagedOnApproval, RunsOnApproval, OnlyApprovedRuns, PTL

(* What was saved is found again: campaigns, the quarantine list, events.    *)
THEOREM EverythingIsKept ==
    StoreSpec /\ QuarantineSpec /\ EventSpec => []SavedSurvives
<1>1. NoCampaignLost /\ QuarantineRetained /\ EventsSurvive => SavedSurvives
  BY DEF SavedSurvives
<1> QED
  BY <1>1, CampaignsAreKept, QuarantineIsRetained, EventsAreKept, PTL

-----------------------------------------------------------------------------
(* The pool: a task that was put and is not settled is in the queue or in    *)
(* the hand of one worker; and once a worker has gone home, only what was    *)
(* put too late, or ranks behind the sentinels, is in the queue.             *)
Settled(t) == work[t] \in {"done", "failed"}
Hands == {"look", "mark", "handle"}

WorkShape ==
    /\ work \in [Works -> {"new", "pending", "running", "done", "failed"}]
    /\ arrival \in [Works -> Nat] /\ \A t \in Works : arrival[t] > 0 => work[t] # "new"
    /\ items \subseteq put /\ put \subseteq Works /\ \A t \in put : arrival[t] > 0
    /\ sentinels \in Nat /\ unsent \in Int /\ unsent >= -1
    /\ worker \in [PoolWorkers -> [pc : Hands \cup {"get", "gone"}, task : Works \cup {"none"}]]

(* Where a task can be, and what it can be while it is there.                *)
InOneHand ==
    /\ \A v, w \in PoolWorkers :
         worker[v].pc \in Hands /\ worker[w].pc \in Hands /\ v # w => worker[v].task # worker[w].task
    /\ \A w \in PoolWorkers :
         worker[w].pc \in Hands => worker[w].task \in put \ items

FitsPlace ==
    /\ \A t \in items : work[t] \in {"pending", "failed"}
    /\ \A w \in PoolWorkers :
         /\ worker[w].pc \in {"look", "mark"} => work[worker[w].task] \in {"pending", "failed"}
         /\ worker[w].pc = "handle" => work[worker[w].task] = "running"
    /\ \A t \in Works \ put : work[t] \in {"new", "pending", "failed"}

NothingDropped == \A t \in put : Settled(t) \/ t \in items \/ InHand(t, Hands)

GoneBehindAll ==
    (\E w \in PoolWorkers : worker[w].pc = "gone") \/ sentinels > 0 =>
        unsent >= 0 /\ ((\E w \in PoolWorkers : worker[w].pc = "gone") =>
                           \A t \in items : t \in late \/ Outranked(t))

CancelledRests ==
    \A t \in cancelled : t \in Works /\ work[t] = "failed" /\ ~InHand(t, {"mark", "handle"})

WorkInv ==
    WorkShape /\ InOneHand /\ FitsPlace /\ NothingDropped /\ GoneBehindAll /\ CancelledRests

LEMMA WorkInitInv == WorkInit => WorkInv
BY WorkAssumption
DEF WorkInit, WorkInv, WorkShape, InOneHand, FitsPlace, NothingDropped, GoneBehindAll, Outranked, CancelledRests,
    At, Hands, InHand

LEMMA WorkStepInv == WorkInv /\ [WorkNext]_workVars => WorkInv'
<1> SUFFICES ASSUME WorkInv, [WorkNext]_workVars PROVE WorkInv'
  OBVIOUS
<1>0. /\ WorkShape /\ InOneHand /\ FitsPlace /\ NothingDropped /\ GoneBehindAll /\ CancelledRests
      /\ "none" \notin Works
  BY WorkAssumption DEF WorkInv
<1>1. ASSUME NEW t \in Works, EnterWork(t) PROVE WorkInv'
  <2>1. WorkShape' /\ InOneHand' /\ GoneBehindAll'
    <3> DEFINE number == 1 + Cardinality({u \in Works : arrival[u] > 0})
    <3>1. number \in Nat /\ number > 0
      <4>1. IsFiniteSet({u \in Works : arrival[u] > 0})
        BY WorkAssumption, FS_Subset
      <4> QED BY <4>1, FS_CardinalityType
    <3>2. /\ work' = [work EXCEPT ![t] = "pending"] /\ arrival' = [arrival EXCEPT ![t] = number]
          /\ UNCHANGED <<items, sentinels, unsent, worker, put, late>>
      BY <1>1 DEF EnterWork
    <3> HIDE DEF number
    <3>3. WorkShape'
      BY <1>0, <3>1, <3>2 DEF WorkShape
    <3>4. InOneHand' /\ GoneBehindAll'
      BY <1>0, <3>2 DEF InOneHand, GoneBehindAll, Outranked
    <3> QED BY <3>3, <3>4
  <2>2. t \notin put /\ t \notin cancelled
    BY <1>0, <1>1 DEF EnterWork, WorkShape, CancelledRests
  <2>3. FitsPlace' /\ NothingDropped' /\ CancelledRests'
    BY <1>0, <1>1, <2>2
    DEF EnterWork, WorkShape, InOneHand, FitsPlace, NothingDropped, CancelledRests, Settled, InHand, Hands
  <2> QED BY <2>1, <2>3 DEF WorkInv
<1>2. ASSUME NEW t \in Works, PutWork(t) PROVE WorkInv'
  <2>1. WorkShape' /\ InOneHand'
    BY <1>0, <1>2 DEF PutWork, WorkShape, InOneHand, FitsPlace
  <2>2. work[t] \in {"pending", "failed"}
    BY <1>0, <1>2 DEF PutWork, WorkShape, FitsPlace
  <2>3. FitsPlace' /\ NothingDropped' /\ GoneBehindAll' /\ CancelledRests'
    BY <1>0, <1>2, <2>2
    DEF PutWork, WorkShape, FitsPlace, NothingDropped, GoneBehindAll, Outranked, CancelledRests, Settled, InHand
  <2> QED BY <2>1, <2>3 DEF WorkInv
<1>3. ASSUME NEW t \in Works, CancelWork(t) PROVE WorkInv'
  <2>1. WorkShape' /\ InOneHand' /\ GoneBehindAll'
    <3>1. /\ work' = [work EXCEPT ![t] = "failed"] /\ work[t] = "pending"
          /\ UNCHANGED <<arrival, items, sentinels, unsent, worker, put, late>>
      BY <1>3 DEF CancelWork
    <3>2. WorkShape'
      BY <1>0, <3>1 DEF WorkShape
    <3>3. InOneHand' /\ GoneBehindAll'
      BY <1>0, <3>1 DEF InOneHand, GoneBehindAll, Outranked
    <3> QED BY <3>2, <3>3
  <2>2. FitsPlace' /\ NothingDropped'
    BY <1>0, <1>3 DEF CancelWork, WorkShape, FitsPlace, NothingDropped, Settled, InHand
  <2>3. CancelledRests'
    BY <1>0, <1>3 DEF CancelWork, WorkShape, FitsPlace, CancelledRests, InHand
  <2> QED BY <2>1, <2>2, <2>3 DEF WorkInv
<1>4. ASSUME NEW w \in PoolWorkers, GetsWork(w) PROVE WorkInv'
  <2>1. PICK t \in items : /\ worker[w].pc = "get" /\ items' = items \ {t}
                           /\ worker' = [worker EXCEPT ![w] = [pc |-> "look", task |-> t]]
                           /\ UNCHANGED <<work, arrival, sentinels, unsent, put, late, cancelled>>
    BY <1>4 DEF GetsWork, At
  <2>2. WorkShape' /\ InOneHand'
    BY <1>0, <2>1 DEF WorkShape, InOneHand, Hands
  <2>3. FitsPlace'
    BY <1>0, <2>1 DEF WorkShape, FitsPlace
  <2>4. NothingDropped'
    BY <1>0, <2>1 DEF WorkShape, NothingDropped, Settled, InHand, Hands
  <2>5. GoneBehindAll' /\ CancelledRests'
    BY <1>0, <2>1 DEF WorkShape, GoneBehindAll, Outranked, CancelledRests, InHand
  <2> QED BY <2>2, <2>3, <2>4, <2>5 DEF WorkInv
<1>5. ASSUME NEW w \in PoolWorkers, GetsSentinel(w) PROVE WorkInv'
  <2>1. /\ worker[w].pc = "get" /\ (\A t \in items : Outranked(t))
        /\ sentinels > 0 /\ sentinels' = sentinels - 1
        /\ worker' = [worker EXCEPT ![w] = [pc |-> "gone", task |-> "none"]]
        /\ UNCHANGED <<work, arrival, items, unsent, put, late, cancelled>>
    BY <1>5 DEF GetsSentinel, At
  <2>2. WorkShape' /\ InOneHand'
    BY <1>0, <2>1 DEF WorkShape, InOneHand, Hands
  <2>3. FitsPlace' /\ NothingDropped'
    BY <1>0, <2>1 DEF WorkShape, FitsPlace, NothingDropped, Settled, InHand, Hands
  <2>4. GoneBehindAll' /\ CancelledRests'
    BY <1>0, <2>1 DEF WorkShape, GoneBehindAll, Outranked, CancelledRests, InHand
  <2> QED BY <2>2, <2>3, <2>4 DEF WorkInv
<1>6. ASSUME NEW w \in PoolWorkers, Looks(w) PROVE WorkInv'
  <2> DEFINE t == worker[w].task
  <2>1. /\ worker[w].pc = "look" /\ t \in put /\ UNCHANGED <<work, arrival, items, sentinels, unsent, put,
                                                           late, cancelled>>
        /\ worker' = [worker EXCEPT ![w] = IF work[t] = "pending" THEN [pc |-> "mark", task |-> t]
                                           ELSE [pc |-> "get", task |-> "none"]]
    BY <1>0, <1>6 DEF Looks, At, InOneHand, Hands
  <2>2. WorkShape' /\ InOneHand'
    BY <1>0, <2>1 DEF WorkShape, InOneHand, Hands
  <2>3. FitsPlace'
    BY <1>0, <2>1 DEF WorkShape, FitsPlace
  <2>4. NothingDropped'
    BY <1>0, <2>1 DEF WorkShape, FitsPlace, NothingDropped, Settled, InHand, Hands
  <2>5. GoneBehindAll' /\ CancelledRests'
    BY <1>0, <2>1 DEF WorkShape, GoneBehindAll, Outranked, CancelledRests, InHand
  <2> QED BY <2>2, <2>3, <2>4, <2>5 DEF WorkInv
<1>7. ASSUME NEW w \in PoolWorkers, MarksRunning(w) PROVE WorkInv'
  <2> DEFINE t == worker[w].task
  <2>1. /\ worker[w].pc = "mark" /\ t \in put /\ t \in Works /\ t \notin items
        /\ UNCHANGED <<arrival, items, sentinels, unsent, put, late, cancelled>>
        /\ work' = [work EXCEPT ![t] = "running"] /\ worker' = [worker EXCEPT ![w].pc = "handle"]
    BY <1>0, <1>7 DEF MarksRunning, InOneHand, Hands, WorkShape
  <2>2. t \notin cancelled
    BY <1>0, <2>1 DEF CancelledRests, InHand
  <2>3. WorkShape' /\ InOneHand'
    BY <1>0, <2>1 DEF WorkShape, InOneHand, Hands
  <2>4. FitsPlace'
    BY <1>0, <2>1 DEF WorkShape, InOneHand, FitsPlace, Hands
  <2>5. NothingDropped'
    BY <1>0, <2>1 DEF WorkShape, NothingDropped, Settled, InHand, Hands
  <2>6. GoneBehindAll' /\ CancelledRests'
    BY <1>0, <2>1, <2>2 DEF WorkShape, GoneBehindAll, Outranked, CancelledRests, InHand
  <2> QED BY <2>3, <2>4, <2>5, <2>6 DEF WorkInv
<1>8. ASSUME NEW w \in PoolWorkers, NEW outcome \in {"done", "failed"}, Handled(w, outcome)
      PROVE  WorkInv'
  <2> DEFINE t == worker[w].task
  <2>1. /\ worker[w].pc = "handle" /\ t \in put /\ t \in Works /\ t \notin items
        /\ UNCHANGED <<arrival, items, sentinels, unsent, put, late, cancelled>>
        /\ work' = [work EXCEPT ![t] = outcome]
        /\ worker' = [worker EXCEPT ![w] = [pc |-> "get", task |-> "none"]]
    BY <1>0, <1>8 DEF Handled, At, InOneHand, Hands, WorkShape
  <2>2. t \notin cancelled
    BY <1>0, <2>1 DEF CancelledRests, InHand
  <2>3. WorkShape' /\ InOneHand'
    BY <1>0, <2>1 DEF WorkShape, InOneHand, Hands
  <2>4. FitsPlace'
    BY <1>0, <2>1 DEF WorkShape, InOneHand, FitsPlace, Hands
  <2>5. NothingDropped'
    BY <1>0, <2>1 DEF WorkShape, NothingDropped, Settled, InHand, Hands
  <2>6. GoneBehindAll' /\ CancelledRests'
    BY <1>0, <2>1, <2>2 DEF WorkShape, GoneBehindAll, Outranked, CancelledRests, InHand
  <2> QED BY <2>3, <2>4, <2>5, <2>6 DEF WorkInv
<1>9. CASE StopPool \/ PutSentinel \/ UNCHANGED workVars
  <2>1. /\ UNCHANGED <<work, arrival, items, worker, put, late, cancelled>>
        /\ sentinels' \in Nat /\ unsent' \in Int /\ unsent' >= -1
        /\ sentinels' > 0 => sentinels > 0 \/ unsent' >= 0
        /\ unsent >= 0 => unsent' >= 0
    <3>1. CASE StopPool
      BY <1>0, <3>1, WorkAssumption, FS_CardinalityType DEF StopPool, WorkShape
    <3>2. CASE PutSentinel \/ UNCHANGED workVars
      BY <1>0, <3>2 DEF PutSentinel, workVars, WorkShape
    <3> QED BY <1>9, <3>1, <3>2
  <2>2. WorkShape' /\ InOneHand' /\ FitsPlace' /\ NothingDropped' /\ CancelledRests'
    BY <1>0, <2>1
    DEF WorkShape, InOneHand, FitsPlace, NothingDropped, CancelledRests, Settled, InHand
  <2>3. GoneBehindAll'
    BY <1>0, <2>1 DEF GoneBehindAll, Outranked
  <2> QED BY <2>2, <2>3 DEF WorkInv
<1> QED BY <1>1, <1>2, <1>3, <1>4, <1>5, <1>6, <1>7, <1>8, <1>9 DEF WorkNext

(* task_queue.py: for any number of workers, tasks and priorities, and any   *)
(* bound on the queue, nothing that was put before stop is left behind but   *)
(* what ranks behind the sentinels, and no cancelled task is handled that no *)
(* worker had looked at.                                                     *)
THEOREM NothingIsLeft == WorkSpec => []StopLeavesNothing
<1>1. WorkInv => StopLeavesNothing
  <2> SUFFICES ASSUME WorkInv PROVE StopLeavesNothing
    OBVIOUS
  <2>1. ASSUME \A w \in PoolWorkers : worker[w].pc = "gone", NEW t \in put \ late
        PROVE  Outranked(t) \/ work[t] \in {"done", "failed"}
    <3>1. t \in items => Outranked(t)
      BY <2>1, WorkAssumption DEF WorkInv, GoneBehindAll
    <3>2. ~InHand(t, Hands)
      BY <2>1 DEF InHand, Hands
    <3> QED BY <2>1, <3>1, <3>2 DEF WorkInv, NothingDropped, Settled
  <2> QED BY <2>1 DEF WorkInv, CancelledRests, StopLeavesNothing
<1> QED BY <1>1, WorkInitInv, WorkStepInv, PTL DEF WorkSpec
-----------------------------------------------------------------------------
(* The breaker: while the trip has not been healed and its time is not over, *)
(* the breaker is open, since then or since a later trip.                    *)
TripHolds ==
    ~trip.healed /\ trip.at >= 0 /\ time - trip.at < ResetAfter =>
        breaker.state = "open" /\ breaker.opened = trip.at

BreakerRecords == [state : {"closed", "open", "half"}, failures : Nat, probes : Nat, opened : Nat]

BreakerInv ==
    /\ time \in Nat /\ kind \in {"imperium", "core"}
    /\ breaker \in BreakerRecords
    /\ trip \in [at : Int, inside : SUBSET Callers, healed : BOOLEAN]
    /\ TripHolds

LEMMA BreakerInitInv == BreakerInit => BreakerInv
BY BreakerAssumption DEF BreakerInit, BreakerInv, BreakerRecords, TripHolds

LEMMA Counts ==
    ASSUME NEW b \in BreakerRecords
    PROVE  /\ [b EXCEPT !.failures = @ + 1] \in BreakerRecords
           /\ [b EXCEPT !.failures = @ + 1].state = b.state
           /\ [b EXCEPT !.failures = @ + 1].opened = b.opened
           /\ [b EXCEPT !.probes = @ + 1] \in BreakerRecords
           /\ [b EXCEPT !.probes = @ + 1].state = b.state
           /\ [b EXCEPT !.probes = @ + 1].opened = b.opened
           /\ [b EXCEPT !.state = "half", !.probes = 0] \in BreakerRecords
<1> USE DEF BreakerRecords
<1>1. b.failures + 1 \in Nat /\ b.probes + 1 \in Nat
  OBVIOUS
<1>2. [b EXCEPT !.failures = b.failures + 1] \in BreakerRecords
  BY <1>1
<1>3. [b EXCEPT !.probes = b.probes + 1] \in BreakerRecords
  BY <1>1
<1>4. [b EXCEPT !.state = "half", !.probes = 0] \in BreakerRecords
  OBVIOUS
<1>5. /\ [b EXCEPT !.failures = b.failures + 1].state = b.state
      /\ [b EXCEPT !.failures = b.failures + 1].opened = b.opened
      /\ [b EXCEPT !.probes = b.probes + 1].state = b.state
      /\ [b EXCEPT !.probes = b.probes + 1].opened = b.opened
  OBVIOUS
<1> QED BY <1>2, <1>3, <1>4, <1>5

LEMMA Opens ==
    ASSUME NEW b \in BreakerRecords, time \in Nat
    PROVE  Opened(b) \in BreakerRecords /\ Opened(b).state = "open" /\ Opened(b).opened = time
BY DEF Opened, BreakerRecords

LEMMA BreakerStepInv == BreakerInv /\ [BreakerNext]_breakerVars => BreakerInv'
<1> SUFFICES ASSUME BreakerInv, [BreakerNext]_breakerVars PROVE BreakerInv'
  OBVIOUS
<1> USE BreakerAssumption DEF BreakerInv, TripHolds
<1>1. CASE BreakerClock
  BY <1>1 DEF BreakerClock
<1>2. ASSUME NEW c \in Callers, StartLoop(c) \/ TurnedAway(c) PROVE BreakerInv'
  BY <1>2 DEF StartLoop, TurnedAway
<1>3. ASSUME NEW c \in Callers, Enter(c) PROVE BreakerInv'
  <2> DEFINE b == IF Rested THEN [breaker EXCEPT !.state = "half", !.probes = 0] ELSE breaker
  <2>1. breaker' = b /\ UNCHANGED <<kind, time, trip>> /\ (breaker.state # "open" \/ Rested)
    BY <1>3 DEF Enter
  <2>2. CASE Rested
    <3>1. ~(~trip.healed /\ trip.at >= 0 /\ time - trip.at < ResetAfter)
      BY <2>2 DEF Rested, BreakerRecords
    <3>2. breaker' \in BreakerRecords
      BY <2>1, <2>2, Counts
    <3> QED BY <2>1, <3>1, <3>2
  <2>3. CASE ~Rested
    BY <2>1, <2>3
  <2> QED BY <2>2, <2>3
<1>4. ASSUME NEW c \in Callers, CallSucceeds(c) PROVE BreakerInv'
  BY <1>4 DEF CallSucceeds, AfterSuccess, Closed, BreakerRecords
<1>5. ASSUME NEW c \in Callers, CallFails(c) PROVE BreakerInv'
  <2> DEFINE b == IF kind = "imperium" THEN ImperiumFailure ELSE CoreFailure(caller[c].entry)
  <2>1. /\ b \in BreakerRecords
        /\ \/ b.state = breaker.state /\ b.opened = breaker.opened
           \/ b.state = "open" /\ b.opened = time
    <3> DEFINE more == [breaker EXCEPT !.failures = @ + 1]
               probed == [more EXCEPT !.probes = @ + 1]
    <3>1. b \in {more, probed, Opened(more), Opened(probed)}
      BY DEF ImperiumFailure, CoreFailure
    <3>2. more \in BreakerRecords /\ more.state = breaker.state /\ more.opened = breaker.opened
      BY Counts
    <3> HIDE DEF more
    <3>3. probed \in BreakerRecords /\ probed.state = breaker.state /\ probed.opened = breaker.opened
      BY <3>2, Counts
    <3> HIDE DEF probed
    <3> QED BY <3>1, <3>2, <3>3, Opens
  <2>2. /\ breaker' = [b EXCEPT !.failures = IF @ > Threshold THEN Threshold ELSE @]
        /\ trip' = IF b.state = "open" /\ (breaker.state # "open" \/ b.opened # breaker.opened)
                   THEN [at |-> time, healed |-> FALSE,
                         inside |-> {d \in Callers \ {c} : caller[d].pc = "in"}]
                   ELSE trip
        /\ UNCHANGED <<kind, time>>
    BY <1>5 DEF CallFails
  <2> HIDE DEF b
  <2>3. /\ breaker'.state = b.state /\ breaker'.opened = b.opened
        /\ breaker' \in BreakerRecords
    BY <2>1, <2>2 DEF BreakerRecords
  <2> QED BY <2>1, <2>2, <2>3
<1>6. CASE UNCHANGED breakerVars
  BY <1>6 DEF breakerVars
<1> QED BY <1>1, <1>2, <1>3, <1>4, <1>5, <1>6 DEF BreakerNext

(* retry_hooks.py and circuit_breaker.py: for any number of callers and any  *)
(* threshold, and whatever becomes of the calls that were inside when it     *)
(* tripped, nobody enters an unhealed breaker before its time is over.       *)
THEOREM BreakerStaysShut == BreakerSpec => TrippedStaysShut
<1>1. BreakerInv /\ [BreakerNext]_breakerVars =>
        [\A c \in Callers :
           Enter(c) => trip.healed \/ trip.at < 0 \/ time - trip.at >= ResetAfter]_breakerVars
  BY BreakerAssumption DEF BreakerInv, TripHolds, Enter, Rested
<1> QED BY <1>1, BreakerInitInv, BreakerStepInv, PTL DEF BreakerSpec, TrippedStaysShut

-----------------------------------------------------------------------------
(***************************************************************************)
(* The clocks. A minute of the clock, rounded up and down.                   *)
(***************************************************************************)
LEMMA DivFacts ==
    ASSUME NEW M \in Nat \ {0}, NEW a \in Nat
    PROVE  /\ a \div M \in Nat /\ a % M \in 0..(M - 1)
           /\ a = M * (a \div M) + (a % M)
OBVIOUS

LEMMA DivMonotone ==
    ASSUME NEW M \in Nat \ {0}, NEW a \in Nat, NEW b \in Nat, a <= b
    PROVE  a \div M <= b \div M
BY SMTT(30)

LEMMA DivOfMultiple ==
    ASSUME NEW M \in Nat \ {0}, NEW a \in Nat
    PROVE  M * a \in Nat /\ (M * a) \div M = a
BY SMTT(30)

LEMMA RoundedUp ==
    ASSUME NEW M \in Nat \ {0}, NEW a \in Nat
    PROVE  /\ M * ((a + M - 1) \div M) \in Nat
           /\ M * ((a + M - 1) \div M) >= a
BY SMTT(30)

LEMMA NextMultiple ==
    ASSUME NEW M \in Nat \ {0}, NEW a \in Nat
    PROVE  \E m \in Nat : /\ m % M = 0 /\ m > a /\ m <= a + M
                          /\ \A n \in Nat : n % M = 0 /\ n > a => m <= n
<1> DEFINE k == a \div M
           m == M * (k + 1)
<1>1. k \in Nat /\ M * k <= a /\ a < M * k + M
  BY DivFacts
<1> HIDE DEF k
<1>2. m \in Nat /\ m = M * k + M /\ m % M = 0
  BY <1>1, SMTT(30)
<1>3. ASSUME NEW n \in Nat, n % M = 0, n > a PROVE m <= n
  <2>0. n \div M \in Nat /\ n = M * (n \div M)
    BY <1>3, DivFacts
  <2>1. PICK l \in Nat : n = M * l
    BY <2>0
  <2>2. l > k
    <3>1. CASE l <= k
      <4>1. M * l <= M * k
        BY <1>1, <3>1, SMTT(30)
      <4> QED
        BY <1>1, <1>3, <2>1, <4>1, SMTT(30)
    <3> QED
      BY <1>1, <3>1
  <2>3. M * l >= M * (k + 1)
    BY <1>1, <2>2, SMTT(30)
  <2> QED
    BY <2>1, <2>3
<1>4. m > a /\ m <= a + M
  BY <1>1, <1>2
<1> HIDE DEF m
<1> QED
  BY <1>2, <1>3, <1>4

-----------------------------------------------------------------------------
(* The cron of SOVEREIGN: what was fired for a due time has moved the table  *)
(* past it, as long as the job is the same one.                              *)
CronEvents == [job : CronJobs, for : Nat, at : Nat, made : Nat]

CronRecord == [listed : BOOLEAN, enabled : BOOLEAN, next : Nat, made : Nat]
CronLocals == [pc : {"rest", "loop", "publish"}, now : Nat, todo : SUBSET CronJobs,
               event : CronEvents \cup {NoEvent}]

CronShape ==
    /\ cronClock \in Nat /\ edits \in Nat
    /\ table \in [CronJobs -> CronRecord]
    /\ published \subseteq CronEvents
    /\ ticker \in [Tickers -> CronLocals]
    /\ \A k \in Tickers : ticker[k].pc = "publish" => ticker[k].event \in CronEvents
    /\ \A j \in CronJobs : table[j].made <= edits

(* An event that has been fired, announced or not. *)
FiredEvent(e) == e \in published \/ \E k \in Tickers : ticker[k].pc = "publish" /\ ticker[k].event = e

FiredMoves ==
    \A e \in CronEvents : FiredEvent(e) =>
        /\ e.for <= e.at /\ e.made <= edits
        /\ table[e.job].listed /\ table[e.job].made = e.made => e.at <= table[e.job].next

Apart(e, f) == e.job = f.job /\ e.made = f.made /\ e.for = f.for => e.at = e.for \/ f.at = f.for

FiredApart ==
    \A k \in Tickers : ticker[k].pc = "publish" =>
        /\ \A f \in published : Apart(ticker[k].event, f)
        /\ \A l \in Tickers \ {k} : ticker[l].pc = "publish" => Apart(ticker[k].event, ticker[l].event)

CronInv == CronShape /\ FiredMoves /\ FiredApart

(* A record that an edit puts: the one that was listed, or a newer one.      *)
Descends(j, r) ==
    /\ r.made <= edits + 1
    /\ r.listed /\ r.made <= edits =>
          table[j].listed /\ r.made = table[j].made /\ r.next = table[j].next

LEMMA FollowingIsLater ==
    ASSUME NEW t \in Nat
    PROVE  Following(t) \in Nat /\ t <= Following(t)
BY CronAssumption, RoundedUp DEF Following

LEMMA CronInitInv == CronInit => CronInv
BY DEF CronInit, CronInv, CronShape, CronRecord, CronLocals, FiredMoves, FiredEvent, FiredApart, Unlisted, Resting

LEMMA EditInv ==
    ASSUME CronInv, NEW j \in CronJobs, AddJob(j) \/ RemoveJob(j) \/ \E on \in BOOLEAN : EnableJob(j, on)
    PROVE  CronInv'
<1>1. PICK r \in CronRecord :
         /\ table' = [table EXCEPT ![j] = r] /\ edits' = edits + 1
         /\ UNCHANGED <<cronClock, ticker, published>> /\ Descends(j, r)
  <2>0. edits \in Nat /\ table[j] \in CronRecord /\ table[j].made <= edits
    BY DEF CronInv, CronShape, CronRecord, CronLocals
  <2>1. CASE AddJob(j)
    <3> DEFINE r == [listed |-> TRUE, enabled |-> TRUE, next |-> Following(cronClock), made |-> edits + 1]
    <3>1. r \in CronRecord /\ Descends(j, r)
      BY <2>0, FollowingIsLater DEF CronInv, CronShape, CronRecord, CronLocals, Descends
    <3>2. table' = [table EXCEPT ![j] = r] /\ edits' = edits + 1
          /\ UNCHANGED <<cronClock, ticker, published>>
      BY <2>1 DEF AddJob, Edit
    <3> HIDE DEF r
    <3> QED
      BY <3>1, <3>2
  <2>2. CASE RemoveJob(j)
    <3>1. Unlisted \in CronRecord /\ Descends(j, Unlisted)
      BY <2>0 DEF Unlisted, CronRecord, Descends
    <3>2. table' = [table EXCEPT ![j] = Unlisted] /\ edits' = edits + 1
          /\ UNCHANGED <<cronClock, ticker, published>>
      BY <2>2 DEF RemoveJob, Edit
    <3> QED
      BY <3>1, <3>2
  <2>3. ASSUME NEW on \in BOOLEAN, EnableJob(j, on)
        PROVE  \E r \in CronRecord :
                 /\ table' = [table EXCEPT ![j] = r] /\ edits' = edits + 1
                 /\ UNCHANGED <<cronClock, ticker, published>> /\ Descends(j, r)
    <3> DEFINE r == [table[j] EXCEPT !.enabled = on]
    <3>1. r \in CronRecord /\ r.made = table[j].made /\ r.next = table[j].next
      BY <2>0 DEF CronRecord
    <3>2. /\ table' = [table EXCEPT ![j] = r] /\ edits' = edits + 1 /\ table[j].listed
          /\ UNCHANGED <<cronClock, ticker, published>>
      BY <2>3 DEF EnableJob, Edit
    <3> HIDE DEF r
    <3>3. Descends(j, r)
      BY <2>0, <3>1, <3>2 DEF Descends, CronRecord
    <3> QED
      BY <3>1, <3>2, <3>3
  <2> QED
    BY <2>1, <2>2, <2>3
<1>2. CronShape'
  BY <1>1 DEF CronInv, CronShape, CronRecord, CronLocals, Descends
<1>3. FiredMoves'
  <2> SUFFICES ASSUME NEW e \in CronEvents, FiredEvent(e)
               PROVE  /\ e.for <= e.at /\ e.made <= edits'
                      /\ table'[e.job].listed /\ table'[e.job].made = e.made => e.at <= table'[e.job].next
    BY <1>1 DEF FiredMoves, FiredEvent
  <2>1. /\ e.for <= e.at /\ e.made <= edits /\ e.job \in CronJobs /\ e.made \in Nat
        /\ table[e.job].listed /\ table[e.job].made = e.made => e.at <= table[e.job].next
        /\ edits \in Nat
    BY DEF CronInv, CronShape, CronRecord, CronLocals, FiredMoves, CronEvents
  <2>2. table'[e.job] = (IF e.job = j THEN r ELSE table[e.job])
    BY <1>1, <2>1 DEF CronInv, CronShape, CronRecord, CronLocals
  <2> QED
    BY <1>1, <2>1, <2>2 DEF Descends
<1>4. FiredApart'
  BY <1>1 DEF CronInv, FiredApart
<1> QED
  BY <1>2, <1>3, <1>4 DEF CronInv

LEMMA TakesInv ==
    ASSUME CronInv, NEW k \in Tickers, NEW j \in CronJobs, Takes(k, j)
    PROVE  CronInv'
<1> DEFINE t == ticker[k].now
           due == IsDue(j, t)
           e == Firing(j, t)
<1>0. CronShape /\ FiredMoves /\ FiredApart
  BY DEF CronInv
<1>1. /\ ticker[k].pc = "loop" /\ t \in Nat
      /\ ticker' = [ticker EXCEPT ![k] = [ticker[k] EXCEPT !.todo = @ \ {j},
                       !.pc = IF due THEN "publish" ELSE "loop", !.event = IF due THEN e ELSE NoEvent]]
      /\ table' = (IF due THEN [table EXCEPT ![j] = [table[j] EXCEPT !.next = Following(t)]] ELSE table)
      /\ UNCHANGED <<cronClock, published, edits>>
  <2>1. /\ ticker[k].pc = "loop" /\ t \in Nat
        /\ table' = (IF due THEN [table EXCEPT ![j] = [table[j] EXCEPT !.next = Following(t)]] ELSE table)
        /\ UNCHANGED <<cronClock, published, edits>>
    BY <1>0 DEF Takes, CronShape, CronRecord, CronLocals
  <2>2. Announcing(k, j, due)
    BY DEF Takes
  <2> HIDE DEF due, e
  <2>3. ticker' = [ticker EXCEPT ![k] = [ticker[k] EXCEPT !.todo = @ \ {j},
                       !.pc = IF due THEN "publish" ELSE "loop", !.event = IF due THEN e ELSE NoEvent]]
    BY <1>0, <2>2 DEF Announcing, CronShape, CronRecord, CronLocals, e
  <2> QED
    BY <2>1, <2>3
<1>2. /\ ticker'[k].pc = (IF due THEN "publish" ELSE "loop")
      /\ ticker'[k].event = (IF due THEN e ELSE NoEvent)
      /\ ticker'[k] \in CronLocals
      /\ due => e \in CronEvents
      /\ \A l \in Tickers \ {k} : ticker'[l] = ticker[l]
  <2>1. due => e \in CronEvents
    BY <1>0, <1>1 DEF CronShape, CronRecord, CronLocals, CronEvents, Firing
  <2> HIDE DEF due, e
  <2> QED
    BY <1>0, <1>1, <2>1 DEF CronShape, CronRecord, CronLocals
<1>3. due => /\ table[j].listed /\ table[j].next <= t /\ Following(t) \in Nat /\ t <= Following(t)
             /\ e.job = j /\ e.for = table[j].next /\ e.at = t /\ e.made = table[j].made
  BY <1>1, FollowingIsLater DEF IsDue, Firing
<1>4. /\ table' \in [CronJobs -> CronRecord]
      /\ \A i \in CronJobs : /\ table'[i].listed = table[i].listed /\ table'[i].made = table[i].made
                             /\ i # j \/ ~due => table'[i].next = table[i].next
                             /\ i = j /\ due => table'[i].next = Following(t)
  <2> HIDE DEF due
  <2> QED
    BY <1>0, <1>1, <1>3 DEF CronShape, CronRecord, CronLocals
<1> HIDE DEF due, e, t
<1>5. CronShape'
  <2>1. ticker' \in [Tickers -> CronLocals]
    BY <1>0, <1>1, <1>2 DEF CronShape, CronRecord, CronLocals
  <2>2. \A l \in Tickers : ticker'[l].pc = "publish" => ticker'[l].event \in CronEvents
    BY <1>0, <1>2 DEF CronShape, CronRecord, CronLocals
  <2>3. \A i \in CronJobs : table'[i].made <= edits'
    BY <1>0, <1>1, <1>4 DEF CronShape, CronRecord, CronLocals
  <2> QED
    BY <1>0, <1>1, <1>4, <2>1, <2>2, <2>3 DEF CronShape, CronRecord, CronLocals
<1>6. ASSUME due, NEW f \in CronEvents, FiredEvent(f), f.job = e.job, f.made = e.made
      PROVE  f.for <= f.at /\ f.at <= e.for
  BY <1>0, <1>3, <1>6 DEF FiredMoves
<1>7. FiredMoves'
  <2> SUFFICES ASSUME NEW f \in CronEvents, FiredEvent(f)'
               PROVE  /\ f.for <= f.at /\ f.made <= edits
                      /\ table'[f.job].listed /\ table'[f.job].made = f.made => f.at <= table'[f.job].next
    BY <1>1 DEF FiredMoves
  <2>1. FiredEvent(f) \/ (due /\ f = e)
    BY <1>1, <1>2 DEF FiredEvent
  <2>2. CASE FiredEvent(f)
    <3>1. /\ f.for <= f.at /\ f.made <= edits /\ f.job \in CronJobs /\ f.at \in Nat
          /\ table[f.job].listed /\ table[f.job].made = f.made => f.at <= table[f.job].next
          /\ table[j].next \in Nat
      BY <1>0, <2>2 DEF FiredMoves, CronEvents, CronShape, CronRecord, CronLocals
    <3> QED
      BY <1>1, <1>3, <1>4, <3>1
  <2>3. CASE due /\ f = e
    BY <1>0, <1>1, <1>3, <1>4, <2>3 DEF CronShape, CronRecord, CronLocals
  <2> QED
    BY <2>1, <2>2, <2>3
<1>8. ASSUME due, NEW f \in CronEvents, FiredEvent(f) PROVE Apart(e, f) /\ Apart(f, e)
  <2> SUFFICES ASSUME f.job = e.job, f.made = e.made, f.for = e.for PROVE f.at = f.for
    BY DEF Apart
  <2>1. f.for <= f.at /\ f.at <= e.for
    BY <1>6, <1>8
  <2> QED
    BY <2>1 DEF CronEvents
<1>9. FiredApart'
  <2> SUFFICES ASSUME NEW l \in Tickers, ticker'[l].pc = "publish"
               PROVE  /\ \A f \in published : Apart(ticker'[l].event, f)
                      /\ \A i \in Tickers \ {l} :
                           ticker'[i].pc = "publish" => Apart(ticker'[l].event, ticker'[i].event)
    BY <1>1 DEF FiredApart, Apart
  <2>1. /\ \A f \in published : f \in CronEvents /\ FiredEvent(f)
        /\ \A i \in Tickers : ticker[i].pc = "publish" => ticker[i].event \in CronEvents /\ FiredEvent(ticker[i].event)
    BY <1>0 DEF CronShape, CronRecord, CronLocals, FiredEvent
  <2>2. CASE l = k
    BY <1>2, <1>8, <2>1, <2>2
  <2>3. CASE l # k
    <3>1. ticker'[l] = ticker[l] /\ ticker[l].pc = "publish"
      BY <1>2, <2>3
    <3>2. \A f \in published : Apart(ticker[l].event, f)
      BY <1>0, <3>1 DEF FiredApart
    <3>3. \A i \in Tickers \ {l} : i # k /\ ticker[i].pc = "publish" => Apart(ticker[l].event, ticker[i].event)
      BY <1>0, <3>1 DEF FiredApart
    <3> QED
      BY <1>2, <1>8, <2>1, <2>3, <3>1, <3>2, <3>3
  <2> QED
    BY <2>2, <2>3
<1> QED
  BY <1>5, <1>7, <1>9 DEF CronInv

LEMMA CronRestInv ==
    ASSUME CronInv, NEW k \in Tickers, TickBegins(k) \/ TickReturns(k) \/ Publish(k)
    PROVE  CronInv'
<1>0. CronShape /\ FiredMoves /\ FiredApart
  BY DEF CronInv
<1>1. PICK a : /\ ticker' = [ticker EXCEPT ![k] = a] /\ a.pc # "publish"
               /\ a \in CronLocals
  <2>0. Resting \in CronLocals /\ Resting.pc = "rest" /\ cronClock \in Nat
    BY <1>0 DEF Resting, CronShape, CronLocals
  <2>1. CASE TickBegins(k)
    <3> DEFINE ids == {j \in CronJobs : table[j].listed}
               a == [Resting EXCEPT !.pc = "loop", !.now = cronClock, !.todo = ids]
    <3>1. ids \in SUBSET CronJobs
      OBVIOUS
    <3>2. ticker' = [ticker EXCEPT ![k] = a]
      BY <2>1 DEF TickBegins
    <3> HIDE DEF ids
    <3>3. a.pc # "publish" /\ a \in CronLocals
      BY <2>0, <3>1 DEF CronLocals
    <3> HIDE DEF a
    <3> QED
      BY <3>2, <3>3
  <2>2. CASE TickReturns(k)
    BY <2>0, <2>2 DEF TickReturns
  <2>3. CASE Publish(k)
    <3> DEFINE a == [ticker[k] EXCEPT !.pc = "loop", !.event = NoEvent]
    <3>1. a.pc # "publish" /\ a \in CronLocals
      BY <1>0 DEF CronShape, CronRecord, CronLocals
    <3>2. ticker' = [ticker EXCEPT ![k] = a]
      BY <1>0, <2>3 DEF Publish, CronShape, CronRecord, CronLocals
    <3> HIDE DEF a
    <3> QED
      BY <3>1, <3>2
  <2> QED
    BY <2>1, <2>2, <2>3
<1>2. /\ UNCHANGED <<cronClock, table, edits>>
      /\ published \subseteq published'
      /\ published' \subseteq published \cup {ticker[k].event}
      /\ published' # published => ticker[k].pc = "publish"
  BY DEF TickBegins, TickReturns, Publish
<1>3. ticker'[k] = a /\ \A l \in Tickers \ {k} : ticker'[l] = ticker[l]
  BY <1>0, <1>1 DEF CronShape, CronRecord, CronLocals
<1>4. CronShape'
  <2>1. published' \subseteq CronEvents
    BY <1>0, <1>2 DEF CronShape, CronRecord, CronLocals
  <2>2. ticker' \in [Tickers -> CronLocals]
    BY <1>0, <1>1 DEF CronShape, CronRecord, CronLocals
  <2>3. \A l \in Tickers : ticker'[l].pc = "publish" => ticker'[l].event \in CronEvents
    BY <1>0, <1>1, <1>3 DEF CronShape, CronRecord, CronLocals
  <2> QED
    BY <1>0, <1>2, <2>1, <2>2, <2>3 DEF CronShape, CronRecord, CronLocals
<1>5. \A e : FiredEvent(e)' => FiredEvent(e)
  BY <1>1, <1>2, <1>3 DEF FiredEvent
<1>6. FiredMoves'
  BY <1>0, <1>2, <1>5 DEF FiredMoves
<1>7. FiredApart'
  <2> SUFFICES ASSUME NEW l \in Tickers, ticker'[l].pc = "publish"
               PROVE  /\ \A f \in published' : Apart(ticker'[l].event, f)
                      /\ \A i \in Tickers \ {l} :
                           ticker'[i].pc = "publish" => Apart(ticker'[l].event, ticker'[i].event)
    BY DEF FiredApart, Apart
  <2>1. l # k /\ ticker'[l] = ticker[l]
    BY <1>1, <1>3
  <2>2. /\ \A f \in published : Apart(ticker[l].event, f)
        /\ \A i \in Tickers \ {l} : ticker[i].pc = "publish" => Apart(ticker[l].event, ticker[i].event)
    BY <1>0, <2>1 DEF FiredApart
  <2> QED
    BY <1>1, <1>2, <1>3, <2>1, <2>2
<1> QED
  BY <1>4, <1>6, <1>7 DEF CronInv

(* sovereign/scheduler.py: for any jobs, threads and edits, a job is         *)
(* announced once for a due time, but for ticks on the minute itself.        *)
THEOREM CronAnnouncesOnce == CronSpec => AnnouncedOncePerDue
<1>1. CronInv /\ [CronNext]_cronVars => CronInv'
  <2> SUFFICES ASSUME CronInv, [CronNext]_cronVars PROVE CronInv'
    OBVIOUS
  <2>1. CASE UNCHANGED cronVars
    BY <2>1 DEF cronVars, CronInv, CronShape, CronRecord, CronLocals, FiredMoves, FiredEvent, FiredApart
  <2>2. CASE ClockAdvances
    BY <2>2 DEF ClockAdvances, CronInv, CronShape, CronRecord, CronLocals, FiredMoves, FiredEvent, FiredApart
  <2>3. ASSUME NEW j \in CronJobs, AddJob(j) \/ RemoveJob(j) \/ \E on \in BOOLEAN : EnableJob(j, on)
        PROVE  CronInv'
    BY <2>3, EditInv
  <2>4. ASSUME NEW k \in Tickers, TickBegins(k) \/ TickReturns(k) \/ Publish(k) PROVE CronInv'
    BY <2>4, CronRestInv
  <2>5. ASSUME NEW k \in Tickers, NEW j \in CronJobs, Takes(k, j) PROVE CronInv'
    BY <2>5, TakesInv
  <2> QED
    BY <2>1, <2>2, <2>3, <2>4, <2>5 DEF CronNext
<1>2. CronInv => \A k \in Tickers :
         LET e == ticker[k].event IN
           Publish(k) =>
             /\ e.for <= e.at
             /\ \A f \in published :
                  f.job = e.job /\ f.made = e.made /\ f.for = e.for
                  => e.at = e.for \/ f.at = f.for
  BY DEF CronInv, CronShape, CronRecord, CronLocals, FiredMoves, FiredEvent, FiredApart, Apart, Publish
<1>3. CronInv /\ [CronNext]_cronVars =>
        [\A k \in Tickers :
           LET e == ticker[k].event IN
             Publish(k) =>
               /\ e.for <= e.at
               /\ \A f \in published :
                    f.job = e.job /\ f.made = e.made /\ f.for = e.for
                    => e.at = e.for \/ f.at = f.for]_cronVars
  BY <1>2
<1> QED
  BY <1>1, <1>3, CronInitInv, PTL DEF CronSpec, AnnouncedOncePerDue

-----------------------------------------------------------------------------
(* The cron daemon of CAMPAIGN: what is due for a schedule lies behind its   *)
(* last firing, but for the one that is being written back.                  *)
DueRecords == [id : Schedules, next : Nat]

ScheduleShape ==
    /\ now \in 0..Horizon
    /\ line \in [Schedules -> [live : BOOLEAN, next : Int]]
    /\ removing \in [Schedules -> [live : BOOLEAN, next : Int]]
    /\ tick \in [pc : {"sleep", "loop", "fired"}, now : Nat, due : SUBSET DueRecords,
                 rec : DueRecords \cup {NoRecord}]
    /\ fired \in [Schedules -> [for : Int, at : Int]]
    /\ \A s \in Schedules : /\ line[s].live => line[s].next \in Nat
                            /\ fired[s].at <= now /\ fired[s].for <= now /\ fired[s].at >= -1

NextBehind(s, n) ==
    /\ n > fired[s].for
    /\ fired[s].at >= 0 => n \div Minute > fired[s].at \div Minute

WritingBack(s) == tick.pc = "fired" /\ tick.rec.id = s

LinesBehind ==
    \A s \in Schedules \ cut : line[s].live /\ ~WritingBack(s) => NextBehind(s, line[s].next)

DueBehind ==
    /\ \A r \in tick.due : r.next <= now /\ (r.id \notin cut => NextBehind(r.id, r.next))
    /\ \A q, r \in tick.due : q.id = r.id => q = r

OneInHand ==
    /\ tick.pc = "fired" => tick.rec \in DueRecords /\ \A r \in tick.due : r.id # tick.rec.id
    /\ tick.pc = "sleep" => tick.due = {}

ScheduleInv == ScheduleShape /\ LinesBehind /\ DueBehind /\ OneInHand

LEMMA NextRunIsLater ==
    ASSUME NEW s \in Schedules, NEW t \in 0..Horizon
    PROVE  /\ NextRun(s, t) \in Nat /\ NextRun(s, t) > t
           /\ \A u \in 0..t : NextRun(s, t) \div Minute > u \div Minute
<1> DEFINE step == EveryMinutes[s]
           minutes == {m \in 0..((Horizon \div Minute) + step + 1) : m % step = 0 /\ m > t \div Minute}
<1>0. /\ Minute \in Nat \ {0} /\ Horizon \in Nat /\ step \in Nat \ {0} /\ t \in Nat /\ t <= Horizon
  BY ScheduleAssumption
<1>1. /\ t \div Minute \in Nat /\ t < Minute * (t \div Minute) + Minute
      /\ Horizon \div Minute \in Nat /\ t \div Minute <= Horizon \div Minute
  <2>1. /\ t \div Minute \in Nat /\ t % Minute \in 0..(Minute - 1)
        /\ t = Minute * (t \div Minute) + (t % Minute)
    BY <1>0, DivFacts
  <2>2. Minute * (t \div Minute) \in Nat
    BY <1>0, <2>1, DivOfMultiple
  <2>3. t < Minute * (t \div Minute) + Minute
    BY <1>0, <2>1, <2>2
  <2>4. Horizon \div Minute \in Nat
    BY <1>0, DivFacts
  <2>5. t \div Minute <= Horizon \div Minute
    BY <1>0, DivMonotone
  <2> QED
    BY <2>1, <2>3, <2>4, <2>5
<1> HIDE DEF step
<1>2. \E m \in minutes : \A n \in minutes : m <= n
  <2>1. PICK m \in Nat : /\ m % step = 0 /\ m > t \div Minute /\ m <= (t \div Minute) + step
                         /\ \A n \in Nat : n % step = 0 /\ n > t \div Minute => m <= n
    BY <1>0, <1>1, NextMultiple
  <2>2. m \in minutes
    BY <1>0, <1>1, <2>1
  <2>3. \A n \in minutes : m <= n
    BY <2>1
  <2> QED
    BY <2>2, <2>3
<1> DEFINE k == CHOOSE m \in minutes : \A n \in minutes : m <= n
<1>3. k \in minutes
  BY <1>2
<1>4. NextRun(s, t) = Minute * k
  BY DEF NextRun, step
<1>5. k \in Nat /\ k > t \div Minute
  <2>1. k \in 0..((Horizon \div Minute) + step + 1) /\ k > t \div Minute
    BY <1>3
  <2> HIDE DEF k, minutes
  <2> QED
    BY <2>1
<1> HIDE DEF k, minutes
<1>6. Minute * k \in Nat /\ (Minute * k) \div Minute = k
  BY <1>0, <1>5, DivOfMultiple
<1>7. Minute * k >= Minute * (t \div Minute) + Minute
  <2>1. k >= (t \div Minute) + 1
    BY <1>1, <1>5
  <2> DEFINE d == t \div Minute
  <2>2. d \in Nat /\ k >= d + 1
    BY <1>1, <2>1
  <2> HIDE DEF d
  <2>3. Minute * k >= Minute * d + Minute
    BY <1>0, <1>5, <2>2, SMTT(30)
  <2> QED
    BY <2>3 DEF d
<1>8. Minute * (t \div Minute) \in Nat
  BY <1>0, <1>1, DivOfMultiple
<1>9. ASSUME NEW u \in 0..t PROVE (Minute * k) \div Minute > u \div Minute
  <2>1. u \in Nat /\ u <= t
    BY <1>0
  <2>2. u \div Minute \in Nat /\ u \div Minute <= t \div Minute
    BY <1>0, <2>1, DivFacts, DivMonotone
  <2> QED
    BY <1>1, <1>5, <1>6, <2>2
<1>10. Minute * k > t
  BY <1>0, <1>1, <1>6, <1>7, <1>8
<1> QED
  BY <1>4, <1>6, <1>9, <1>10

LEMMA NextRunBehind ==
    ASSUME ScheduleShape, NEW s \in Schedules
    PROVE  NextRun(s, now) \in Nat /\ NextBehind(s, NextRun(s, now))
<1>1. fired[s].at \in Int /\ fired[s].for \in Int /\ fired[s].at <= now /\ fired[s].for <= now /\ now \in Nat
  BY ScheduleAssumption DEF ScheduleShape
<1>2. fired[s].at >= 0 => fired[s].at \in 0..now
  BY <1>1
<1>3. NextRun(s, now) \in Nat /\ NextRun(s, now) > now
      /\ \A u \in 0..now : NextRun(s, now) \div Minute > u \div Minute
  BY NextRunIsLater DEF ScheduleShape
<1> QED
  BY <1>1, <1>2, <1>3 DEF NextBehind

LEMMA ScheduleInitInv == ScheduleInit => ScheduleInv
BY ScheduleAssumption
DEF ScheduleInit, ScheduleInv, ScheduleShape, LinesBehind, DueBehind, OneInHand, Asleep, NoRecord

(* Nothing but a line changes.                                               *)
LEMMA LineChangesInv ==
    ASSUME ScheduleInv, NEW s \in Schedules, NEW r \in [live : BOOLEAN, next : Int],
           line' = [line EXCEPT ![s] = r],
           r.live => r.next \in Nat /\ NextBehind(s, r.next),
           removing' \in [Schedules -> [live : BOOLEAN, next : Int]],
           UNCHANGED <<now, tick, fired, cut>>
    PROVE  ScheduleInv'
<1>1. ScheduleShape /\ LinesBehind /\ DueBehind /\ OneInHand
  BY DEF ScheduleInv
<1>2. line' \in [Schedules -> [live : BOOLEAN, next : Int]]
      /\ line'[s] = r /\ \A i \in Schedules \ {s} : line'[i] = line[i]
  BY <1>1 DEF ScheduleShape
<1>3. ScheduleShape'
  <2>1. \A i \in Schedules : line'[i].live => line'[i].next \in Nat
    BY <1>1, <1>2 DEF ScheduleShape
  <2> QED
    BY <1>1, <1>2, <2>1 DEF ScheduleShape
<1>4. LinesBehind'
  BY <1>1, <1>2 DEF LinesBehind, NextBehind, WritingBack
<1>5. DueBehind' /\ OneInHand'
  BY <1>1 DEF DueBehind, OneInHand, NextBehind
<1> QED
  BY <1>3, <1>4, <1>5 DEF ScheduleInv

LEMMA TickListsInv ==
    ASSUME ScheduleInv, TickLists
    PROVE  ScheduleInv'
<1>1. ScheduleShape /\ LinesBehind /\ OneInHand
  BY DEF ScheduleInv
<1> DEFINE due == {[id |-> s, next |-> line[s].next] : s \in {x \in Schedules : Due(x, now)}}
<1>2. /\ tick.pc = "sleep" /\ UNCHANGED <<now, line, removing, fired, cut>>
      /\ tick' = [pc |-> "loop", now |-> now, rec |-> NoRecord, due |-> due]
  BY DEF TickLists
<1>3. \A r \in due : r.id \in Schedules /\ r = [id |-> r.id, next |-> line[r.id].next] /\ Due(r.id, now)
  OBVIOUS
<1> HIDE DEF due
<1>4. \A r \in due : /\ r.id \in Schedules /\ r.next = line[r.id].next /\ r \in DueRecords
                     /\ line[r.id].live /\ r.next <= now
  BY <1>1, <1>3 DEF Due, ScheduleShape, DueRecords
<1>5. \A q, r \in due : q.id = r.id => q = r
  BY <1>3
<1>6. ScheduleShape'
  <2>1. due \subseteq DueRecords /\ now \in Nat
    BY <1>1, <1>4, ScheduleAssumption DEF ScheduleShape
  <2> QED
    BY <1>1, <1>2, <2>1 DEF ScheduleShape
<1>7. LinesBehind' /\ DueBehind' /\ OneInHand'
  BY <1>1, <1>2, <1>4, <1>5 DEF LinesBehind, DueBehind, OneInHand, NextBehind, WritingBack
<1> QED
  BY <1>6, <1>7 DEF ScheduleInv

LEMMA FireInv ==
    ASSUME ScheduleInv, NEW r \in tick.due, Fire(r)
    PROVE  ScheduleInv'
<1>1. ScheduleShape /\ LinesBehind /\ DueBehind /\ OneInHand
  BY DEF ScheduleInv
<1>2. /\ tick.pc = "loop" /\ r \in DueRecords /\ r.id \in Schedules /\ r.next \in Nat /\ r.next <= now
      /\ UNCHANGED <<now, line, removing, cut>> /\ now \in Nat
  BY <1>1, ScheduleAssumption DEF Fire, ScheduleShape, DueRecords, DueBehind
<1>3. /\ fired' \in [Schedules -> [for : Int, at : Int]]
      /\ fired'[r.id] = [for |-> r.next, at |-> now] /\ \A s \in Schedules \ {r.id} : fired'[s] = fired[s]
  BY <1>1, <1>2 DEF Fire, ScheduleShape
<1>4. /\ tick' \in [pc : {"sleep", "loop", "fired"}, now : Nat, due : SUBSET DueRecords,
                    rec : DueRecords \cup {NoRecord}]
      /\ tick'.pc = "fired" /\ tick'.rec = r /\ tick'.due = tick.due \ {r}
  BY <1>1, <1>2 DEF Fire, ScheduleShape
<1>5. \A q \in tick'.due : q \in tick.due /\ q.id # r.id /\ q.id \in Schedules
  BY <1>1, <1>4 DEF DueBehind, ScheduleShape, DueRecords
<1>6. ScheduleShape'
  BY <1>1, <1>2, <1>3, <1>4 DEF ScheduleShape
<1>7. LinesBehind'
  BY <1>1, <1>2, <1>3, <1>4 DEF LinesBehind, NextBehind, WritingBack
<1>8. DueBehind'
  BY <1>1, <1>2, <1>3, <1>4, <1>5 DEF DueBehind, NextBehind
<1>9. OneInHand'
  BY <1>2, <1>4, <1>5 DEF OneInHand
<1> QED
  BY <1>6, <1>7, <1>8, <1>9 DEF ScheduleInv

LEMMA FireWritesInv ==
    ASSUME ScheduleInv, FireWrites
    PROVE  ScheduleInv'
<1> DEFINE s == tick.rec.id
           n == NextRun(s, now)
<1>1. ScheduleShape /\ LinesBehind /\ DueBehind /\ OneInHand
  BY DEF ScheduleInv
<1>2. /\ tick.pc = "fired" /\ s \in Schedules
      /\ line' = [line EXCEPT ![s] = [live |-> TRUE, next |-> n]]
      /\ UNCHANGED <<now, removing, fired, cut>>
  BY <1>1 DEF FireWrites, OneInHand, DueRecords
<1>3. /\ tick' \in [pc : {"sleep", "loop", "fired"}, now : Nat, due : SUBSET DueRecords,
                    rec : DueRecords \cup {NoRecord}]
      /\ tick'.pc = "loop" /\ tick'.due = tick.due
  BY <1>1 DEF FireWrites, ScheduleShape
<1>4. n \in Nat /\ NextBehind(s, n)
  BY <1>1, <1>2, NextRunBehind
<1>5. \A i \in Schedules : WritingBack(i) => i = s
  BY DEF WritingBack
<1> HIDE DEF s, n
<1>6. line' \in [Schedules -> [live : BOOLEAN, next : Int]]
      /\ line'[s] = [live |-> TRUE, next |-> n] /\ \A i \in Schedules \ {s} : line'[i] = line[i]
  BY <1>1, <1>2, <1>4 DEF ScheduleShape
<1>7. ScheduleShape'
  <2>1. \A i \in Schedules : line'[i].live => line'[i].next \in Nat
    BY <1>1, <1>4, <1>6 DEF ScheduleShape
  <2> QED
    BY <1>1, <1>2, <1>3, <1>6, <2>1 DEF ScheduleShape
<1>8. LinesBehind'
  BY <1>1, <1>2, <1>3, <1>4, <1>5, <1>6 DEF LinesBehind, NextBehind, WritingBack
<1>9. DueBehind' /\ OneInHand'
  BY <1>1, <1>2, <1>3 DEF DueBehind, OneInHand, NextBehind
<1> QED
  BY <1>7, <1>8, <1>9 DEF ScheduleInv

(* The tick is over, or the daemon has died.                                 *)
LEMMA TickStopsInv ==
    ASSUME ScheduleInv, TickEnds \/ ScheduleDaemonDies
    PROVE  ScheduleInv'
<1>1. ScheduleShape /\ LinesBehind
  BY DEF ScheduleInv
<1>2. /\ tick' = Asleep /\ UNCHANGED <<now, line, removing, fired>>
      /\ cut \subseteq cut'
      /\ \A s \in Schedules : WritingBack(s) => s \in cut'
  BY DEF TickEnds, ScheduleDaemonDies, WritingBack
<1>3. ScheduleShape' /\ DueBehind' /\ OneInHand'
  BY <1>1, <1>2 DEF ScheduleShape, DueBehind, OneInHand, Asleep, NextBehind
<1>4. LinesBehind'
  BY <1>1, <1>2 DEF LinesBehind, WritingBack, Asleep, NextBehind
<1> QED
  BY <1>3, <1>4 DEF ScheduleInv

(* campaign/scheduler.py: for any schedules and any step of their minutes, a *)
(* schedule fires at its time or later, once for a due time and once in a    *)
(* minute, unless the daemon died between a campaign and its record.         *)
THEOREM ScheduleFiresOnce == ScheduleSpec => FiresOncePerDue
<1>1. ScheduleInv /\ [ScheduleNext]_scheduleVars => ScheduleInv'
  <2> SUFFICES ASSUME ScheduleInv, [ScheduleNext]_scheduleVars PROVE ScheduleInv'
    OBVIOUS
  <2>0. ScheduleShape /\ LinesBehind /\ DueBehind /\ OneInHand
    BY DEF ScheduleInv
  <2>1. CASE UNCHANGED scheduleVars
    BY <2>1
    DEF scheduleVars, ScheduleInv, ScheduleShape, LinesBehind, DueBehind, OneInHand, NextBehind, WritingBack
  <2>2. CASE TimePasses
    <3>1. now' \in 0..Horizon /\ now' = now + 1 /\ now \in Int /\ UNCHANGED <<line, removing, tick, fired, cut>>
      BY <2>0, <2>2, ScheduleAssumption DEF TimePasses, ScheduleShape
    <3>2. ScheduleShape'
      BY <2>0, <3>1 DEF ScheduleShape
    <3>3. DueBehind'
      BY <2>0, <3>1 DEF DueBehind, NextBehind, ScheduleShape, DueRecords
    <3> QED
      BY <2>0, <3>1, <3>2, <3>3 DEF ScheduleInv, LinesBehind, OneInHand, NextBehind, WritingBack
  <2>3. ASSUME NEW s \in Schedules, AddSchedule(s) PROVE ScheduleInv'
    <3> DEFINE r == [live |-> TRUE, next |-> NextRun(s, now)]
    <3>1. r \in [live : BOOLEAN, next : Int] /\ r.next \in Nat /\ NextBehind(s, r.next)
      BY <2>0, NextRunBehind
    <3>2. line' = [line EXCEPT ![s] = r] /\ UNCHANGED <<now, removing, tick, fired, cut>>
      BY <2>3 DEF AddSchedule
    <3> HIDE DEF r
    <3>3. removing' \in [Schedules -> [live : BOOLEAN, next : Int]]
      BY <2>0, <3>2 DEF ScheduleShape
    <3> QED
      BY <3>1, <3>2, <3>3, LineChangesInv
  <2>4. ASSUME NEW s \in Schedules, RemoveLoads(s) PROVE ScheduleInv'
    <3>1. /\ removing' \in [Schedules -> [live : BOOLEAN, next : Int]]
          /\ UNCHANGED <<now, line, tick, fired, cut>>
      BY <2>0, <2>4 DEF RemoveLoads, ScheduleShape
    <3> QED
      BY <2>0, <3>1
      DEF ScheduleInv, ScheduleShape, LinesBehind, DueBehind, OneInHand, NextBehind, WritingBack
  <2>5. ASSUME NEW s \in Schedules, RemoveWrites(s) PROVE ScheduleInv'
    <3> DEFINE r == [removing[s] EXCEPT !.live = FALSE]
    <3>1. r \in [live : BOOLEAN, next : Int] /\ ~r.live
      BY <2>0 DEF ScheduleShape
    <3>2. line' = [line EXCEPT ![s] = r] /\ UNCHANGED <<now, tick, fired, cut>>
      BY <2>5 DEF RemoveWrites
    <3> HIDE DEF r
    <3>3. removing' \in [Schedules -> [live : BOOLEAN, next : Int]]
      BY <2>0, <2>5 DEF RemoveWrites, ScheduleShape, NoRecord
    <3> QED
      BY <3>1, <3>2, <3>3, LineChangesInv
  <2> QED
    BY <2>1, <2>2, <2>3, <2>4, <2>5, TickListsInv, FireInv, FireWritesInv, TickStopsInv DEF ScheduleNext
<1>2. ScheduleInv /\ [ScheduleNext]_scheduleVars =>
        [\A r \in tick.due :
           LET last == fired[r.id] IN
             Fire(r) /\ r.id \notin cut =>
               /\ now >= r.next /\ r.next > last.for
               /\ last.at >= 0 => now \div Minute > last.at \div Minute]_scheduleVars
  <2> SUFFICES ASSUME ScheduleInv, NEW r \in tick.due, r.id \notin cut
               PROVE  /\ now >= r.next /\ r.next > fired[r.id].for
                      /\ fired[r.id].at >= 0 => now \div Minute > fired[r.id].at \div Minute
    OBVIOUS
  <2>1. /\ r.id \in Schedules /\ r.next \in Nat /\ r.next <= now /\ now \in Nat
        /\ NextBehind(r.id, r.next) /\ fired[r.id].at \in Int
    BY ScheduleAssumption DEF ScheduleInv, ScheduleShape, DueBehind, DueRecords
  <2>2. /\ r.next \div Minute \in Nat /\ now \div Minute \in Nat
        /\ r.next \div Minute <= now \div Minute
        /\ fired[r.id].at >= 0 => fired[r.id].at \div Minute \in Nat
    <3>1. Minute \in Nat \ {0}
      BY ScheduleAssumption
    <3>2. r.next \div Minute \in Nat /\ now \div Minute \in Nat
      BY <2>1, <3>1, DivFacts
    <3>3. r.next \div Minute <= now \div Minute
      BY <2>1, <3>1, DivMonotone
    <3>4. fired[r.id].at >= 0 => fired[r.id].at \div Minute \in Nat
      <4>1. fired[r.id].at >= 0 => fired[r.id].at \in Nat
        BY <2>1
      <4> QED
        BY <3>1, <4>1, DivFacts
    <3> QED
      BY <3>2, <3>3, <3>4
  <2> QED
    BY <2>1, <2>2 DEF NextBehind
<1> QED
  BY <1>1, <1>2, ScheduleInitInv, PTL DEF ScheduleSpec, FiresOncePerDue

(* Both clocks, as the run checks them together.                             *)
THEOREM WhatIsDueIsDoneOnce == ScheduleSpec /\ CronSpec => ClocksFireOnce
BY ScheduleFiresOnce, CronAnnouncesOnce DEF ClocksFireOnce

-----------------------------------------------------------------------------
(* The watchers of a configuration file. If the last read was not made while *)
(* another thread applied, at most one thread applies, and what it is done   *)
(* with has its text; if the watchers have seen the file's last time, which  *)
(* no write before had, and could look at it, a thread that applies an older *)
(* text is not the last to act; and a whole file is in effect or about to be,*)
(* unless its load was cut short.                                            *)
Threads == Pollers \cup {Admin}
SectionNames == {"singleton", "config", "intent", "jobs", "policy"}
LoadStages == {"off", "wait", "size", "load", "apply"}

WatchShape ==
    /\ loader \in [Threads -> [at : LoadStages, text : Int, left : Seq(SectionNames)]]
    /\ applied \in [SectionNames -> Int]
    /\ cfgFile \in [text : Int, mtime : Int] /\ lastMtime \in Int /\ writes \in Int
    /\ 0 <= cfgFile.mtime /\ lastMtime <= cfgFile.mtime /\ cfgClock = cfgFile.mtime
    /\ \A t \in Threads : loader[t].at = "apply" => loader[t].left # <<>>

SeenAll == ~sameTick /\ ~misread /\ lastMtime = cfgFile.mtime /\ Whole(cfgFile.text)
WillRead(t) == loader[t].at \in {"size", "load"}
IsApplying(t) == loader[t].at = "apply"
InEffect(text) == \A i \in 1..Len(Sections) : applied[Sections[i]] = text
DoneWith(t) ==
    \A i \in 1..Len(Sections) : \/ applied[Sections[i]] = loader[t].text
                                \/ \E j \in 1..Len(loader[t].left) : loader[t].left[j] = Sections[i]

OneApplies == \A t, o \in Threads : IsApplying(t) /\ IsApplying(o) => t = o
AppliesItsText == \A t \in Threads : IsApplying(t) => DoneWith(t)
OldIsRead ==
    SeenAll => \A t \in Threads : IsApplying(t) /\ loader[t].text # cfgFile.text
                                  => \E o \in Threads : WillRead(o)
WillBeInEffect ==
    SeenAll /\ lastOk =>
        \/ InEffect(cfgFile.text)
        \/ \E t \in Threads : WillRead(t) \/ (IsApplying(t) /\ loader[t].text = cfgFile.text)

WatchInv ==
    /\ WatchShape
    /\ ~crossing => OneApplies /\ AppliesItsText /\ OldIsRead /\ WillBeInEffect

LEMMA SectionsListed ==
    /\ Sections \in Seq(SectionNames) /\ Sections # <<>> /\ Len(Sections) \in Nat
    /\ DOMAIN Sections = 1..Len(Sections) /\ \A i \in 1..Len(Sections) : Sections[i] \in SectionNames
<1>1. Sections \in Seq(SectionNames) /\ Sections # <<>>
  <2>1. <<"singleton", "config">> \in Seq(SectionNames) /\ Len(<<"singleton", "config">>) = 2
    BY DEF SectionNames
  <2>2. <<"intent", "jobs", "policy">> \in Seq(SectionNames) /\ Len(<<"intent", "jobs", "policy">>) = 3
    BY DEF SectionNames
  <2>3. Sections \in Seq(SectionNames) /\ Len(Sections) \in {2, 3}
    BY <2>1, <2>2 DEF Sections
  <2> HIDE DEF Sections
  <2> QED
    BY <2>3, EmptySeq
<1> HIDE DEF Sections
<1> QED
  BY <1>1, LenProperties, ElementOfSeq

LEMMA WatchInitInv == WatchInit => WatchInv
<1> SUFFICES ASSUME WatchInit PROVE WatchInv
  OBVIOUS
<1>1. /\ loader = [t \in Threads |-> [at |-> "off", text |-> 0, left |-> <<>>]]
      /\ applied = [s \in SectionNames |-> 0] /\ cfgFile = [text |-> 0, mtime |-> 1]
      /\ cfgClock = 1 /\ writes = 0 /\ lastMtime \in {0, 1}
  BY DEF WatchInit, Threads, SectionNames
<1>2. WatchShape
  <2>1. <<>> \in Seq(SectionNames)
    BY EmptySeq
  <2> QED
    BY <1>1, <2>1 DEF WatchShape, LoadStages
<1>3. \A t \in Threads : loader[t].at = "off"
  BY <1>1
<1>4. InEffect(cfgFile.text)
  BY <1>1, SectionsListed DEF InEffect
<1> QED
  BY <1>2, <1>3, <1>4 DEF WatchInv, OneApplies, AppliesItsText, OldIsRead, WillBeInEffect, IsApplying

(* A write has a time nobody has seen, unless it shares it with the last.    *)
LEMMA WriteConfigInv == WatchInv /\ WriteConfig => WatchInv'
<1> SUFFICES ASSUME WatchInv, WriteConfig PROVE WatchInv'
  OBVIOUS
<1>0. WatchShape
  BY DEF WatchInv
<1>1. UNCHANGED <<watcherKind, loader, applied, lastMtime, lastOk, misread, crossing>>
  BY DEF WriteConfig
<1>2. \E text \in Int : SetFile(text) /\ writes' \in Int
  <2>1. writes \in Int /\ writes + 1 \in Int /\ Empty \in Int /\ Broken \in Int
    BY <1>0 DEF WatchShape, Empty, Broken
  <2> QED
    BY <2>1 DEF WriteConfig
<1>3. PICK text \in Int, stamp \in {cfgClock, cfgClock + 1} :
         /\ cfgClock' = stamp /\ cfgFile' = [text |-> text, mtime |-> stamp] /\ writes' \in Int
         /\ sameTick' = (stamp = cfgFile.mtime)
  BY <1>2 DEF SetFile
<1>4. /\ stamp \in Int /\ cfgFile' \in [text : Int, mtime : Int] /\ cfgFile'.mtime = stamp
      /\ lastMtime \in Int /\ 0 <= stamp /\ lastMtime <= stamp /\ (~sameTick' => lastMtime # stamp)
  <2>1. /\ cfgFile.mtime \in Int /\ lastMtime \in Int /\ lastMtime <= cfgFile.mtime
        /\ 0 <= cfgFile.mtime /\ cfgClock = cfgFile.mtime
    BY <1>0 DEF WatchShape
  <2>2. cfgFile' \in [text : Int, mtime : Int] /\ cfgFile'.mtime = stamp /\ stamp \in Int
    BY <1>3, <2>1
  <2>3. 0 <= stamp /\ lastMtime <= stamp /\ (stamp # cfgFile.mtime => lastMtime # stamp)
    BY <1>3, <2>1
  <2> QED
    BY <1>3, <2>1, <2>2, <2>3
<1>5. WatchShape'
  BY <1>0, <1>1, <1>3, <1>4 DEF WatchShape
<1>6. ~SeenAll'
  BY <1>1, <1>4 DEF SeenAll
<1>7. Sections' = Sections
  BY <1>1 DEF Sections
<1>8. (OneApplies => OneApplies') /\ (AppliesItsText => AppliesItsText')
  BY <1>1, <1>7 DEF OneApplies, AppliesItsText, IsApplying, DoneWith
<1> QED
  BY <1>1, <1>5, <1>6, <1>8 DEF WatchInv, OldIsRead, WillBeInEffect

(* A step that neither reads nor applies: whoever was to read a whole file   *)
(* still is, and the time the watchers have seen changes only for who reads. *)
LEMMA WatchFrame ==
    ASSUME WatchInv, WatchShape',
           UNCHANGED <<watcherKind, cfgFile, applied, lastOk, misread, sameTick, crossing>>,
           \A t \in Threads : /\ IsApplying(t)' <=> IsApplying(t)
                              /\ loader'[t].text = loader[t].text /\ loader'[t].left = loader[t].left
                              /\ Whole(cfgFile.text) /\ WillRead(t) => WillRead(t)',
           lastMtime' = lastMtime \/ \E t \in Threads : WillRead(t)'
    PROVE  WatchInv'
<1>1. Sections' = Sections
  BY DEF Sections
<1>2. (OneApplies => OneApplies') /\ (AppliesItsText => AppliesItsText')
  BY <1>1 DEF OneApplies, AppliesItsText, DoneWith
<1>3. CASE \E t \in Threads : WillRead(t)'
  BY <1>2, <1>3 DEF WatchInv, OldIsRead, WillBeInEffect
<1>4. CASE lastMtime' = lastMtime
  <2>1. SeenAll' => SeenAll /\ Whole(cfgFile.text)
    BY <1>4 DEF SeenAll
  <2>2. OldIsRead => OldIsRead'
    BY <2>1 DEF OldIsRead
  <2>3. InEffect(cfgFile.text) => InEffect(cfgFile.text)'
    BY <1>1 DEF InEffect
  <2>4. WillBeInEffect => WillBeInEffect'
    BY <2>1, <2>3 DEF WillBeInEffect
  <2> QED
    BY <1>2, <2>2, <2>4 DEF WatchInv
<1> QED
  BY <1>3, <1>4

(* Reading a text: alone, or crossing is set.                                *)
LEMMA ReadsConfigInv ==
    ASSUME WatchInv, NEW t \in Threads, loader[t].at \in {"load", "off"}, ReadsConfig(t)
    PROVE  WatchInv'
<1>0. WatchShape /\ DOMAIN loader = Threads
  BY DEF WatchInv, WatchShape
<1>p. PICK got \in {cfgFile.text, Unusable} :
         LET fails == got = Unusable
             nothing == watcherKind = "hot" /\ got \in {Empty, Unusable} IN
         /\ IF fails /\ cfgFile.text # Broken THEN LookFails /\ misread' = TRUE
            ELSE misread' = FALSE /\ UNCHANGED refusals
         /\ loader' = [loader EXCEPT ![t] =
              [at |-> IF nothing THEN RestingAt(t) ELSE "apply", text |-> IF fails THEN Empty ELSE got,
               left |-> IF nothing THEN <<>> ELSE Sections]]
         /\ lastOk' = IF nothing THEN ~fails ELSE lastOk
  BY DEF ReadsConfig
<1> DEFINE fails == got = Unusable
           nothing == watcherKind = "hot" /\ got \in {Empty, Unusable}
           text == IF fails THEN Empty ELSE got
           read == [at |-> IF nothing THEN RestingAt(t) ELSE "apply", text |-> text,
                    left |-> IF nothing THEN <<>> ELSE Sections]
<1>1. /\ loader' = [loader EXCEPT ![t] = read]
      /\ crossing' = (\E o \in Threads \ {t} : loader[o].at = "apply")
      /\ UNCHANGED <<watcherKind, cfgFile, writes, cfgClock, lastMtime, applied, sameTick>>
  BY <1>0, <1>p DEF ReadsConfig
<1>3. Whole(cfgFile.text) /\ ~misread' => ~nothing /\ text = cfgFile.text
  <2> SUFFICES ASSUME Whole(cfgFile.text), ~misread' PROVE ~nothing /\ text = cfgFile.text
    OBVIOUS
  <2>1. cfgFile.text \notin {Empty, Broken, Unusable}
    BY DEF Whole, Broken, Empty, Unusable
  <2>2. ~fails
    BY <1>p, <2>1
  <2> QED
    BY <2>1, <2>2
<1>4. /\ read \in [at : LoadStages, text : Int, left : Seq(SectionNames)]
      /\ read.text = text /\ (~nothing => read.at = "apply" /\ read.left = Sections)
      /\ (nothing => read.at \in {"off", "wait"}) /\ (read.at = "apply" => read.left # <<>>)
  <2>1. /\ text \in Int /\ Sections \in Seq(SectionNames) /\ <<>> \in Seq(SectionNames) /\ Sections # <<>>
        /\ RestingAt(t) \in {"off", "wait"}
    BY <1>0, SectionsListed, EmptySeq DEF WatchShape, RestingAt, Empty
  <2> HIDE DEF text, nothing
  <2> QED
    BY <2>1 DEF LoadStages
<1> HIDE DEF read, nothing, text
<1>5. /\ loader'[t] = read /\ \A o \in Threads : o # t => loader'[o] = loader[o]
  BY <1>0, <1>1
<1>6. WatchShape'
  <2>1. loader' \in [Threads -> [at : LoadStages, text : Int, left : Seq(SectionNames)]]
    BY <1>0, <1>1, <1>4 DEF WatchShape
  <2> QED
    BY <1>0, <1>1, <1>4, <1>5, <2>1 DEF WatchShape
<1>7. Sections' = Sections
  BY <1>1 DEF Sections
<1> SUFFICES ASSUME ~crossing' PROVE OneApplies' /\ AppliesItsText' /\ OldIsRead' /\ WillBeInEffect'
  BY <1>6 DEF WatchInv
<1>8. \A o \in Threads : o # t => ~IsApplying(o)'
  BY <1>1, <1>5 DEF IsApplying
<1>9. OneApplies'
  BY <1>8 DEF OneApplies
<1>10. AppliesItsText'
  <2>1. IsApplying(t)' => loader'[t].left = Sections
    BY <1>4, <1>5 DEF IsApplying
  <2>2. IsApplying(t)' => DoneWith(t)'
    BY <1>7, <2>1 DEF DoneWith
  <2> QED
    BY <1>8, <2>2 DEF AppliesItsText
<1>11. SeenAll' => ~nothing /\ text = cfgFile.text
  BY <1>1, <1>3 DEF SeenAll
<1>12. SeenAll' => IsApplying(t)' /\ loader'[t].text = cfgFile'.text
  BY <1>1, <1>4, <1>5, <1>11 DEF IsApplying
<1>13. OldIsRead'
  BY <1>8, <1>12 DEF OldIsRead
<1> QED
  BY <1>9, <1>10, <1>12, <1>13 DEF WillBeInEffect

(* A callback. At the end of it, if the watchers have seen the last time and *)
(* this was not its text, somebody else is still to read.                    *)
LEMMA AppliesInv ==
    ASSUME WatchInv, NEW t \in Threads, ApplyConfig(t)
    PROVE  WatchInv'
<1> DEFINE l == loader[t]
           s == Head(l.left)
<1>0. WatchShape /\ DOMAIN loader = Threads /\ IsApplying(t)
  BY DEF WatchInv, WatchShape, ApplyConfig, Applies, IsApplying
<1>1. UNCHANGED <<watcherKind, cfgFile, writes, cfgClock, lastMtime, misread, sameTick, crossing>>
  BY DEF ApplyConfig, Applies
<1>2. /\ l \in [at : LoadStages, text : Int, left : Seq(SectionNames)] /\ l.left \in Seq(SectionNames)
      /\ l.left # <<>> /\ l.at = "apply" /\ l.text \in Int
  BY <1>0 DEF WatchShape, IsApplying
<1>3. /\ s \in SectionNames /\ s = l.left[1] /\ Tail(l.left) \in Seq(SectionNames)
      /\ Len(l.left) \in Nat /\ Len(Tail(l.left)) = Len(l.left) - 1
      /\ \A i \in 1..Len(Tail(l.left)) : Tail(l.left)[i] = l.left[i + 1]
  <2>1. /\ s = l.left[1] /\ Tail(l.left) \in Seq(SectionNames) /\ Len(Tail(l.left)) = Len(l.left) - 1
        /\ \A i \in 1..Len(Tail(l.left)) : Tail(l.left)[i] = l.left[i + 1]
    BY <1>2, HeadTailProperties
  <2>2. Len(l.left) \in Nat /\ Len(l.left) # 0
    BY <1>2, LenProperties, EmptySeq
  <2>3. 1 \in 1..Len(l.left)
    BY <2>2
  <2> HIDE DEF l
  <2> QED
    BY <1>2, <2>1, <2>2, <2>3, ElementOfSeq
<1>4. RestingAt(t) \in {"off", "wait"} /\ <<>> \in Seq(SectionNames)
  BY EmptySeq DEF RestingAt
<1>5. Sections' = Sections
  BY <1>1 DEF Sections
<1>6. ASSUME NEW at \in LoadStages, NEW left \in Seq(SectionNames), at = "apply" => left # <<>>,
             loader' = [loader EXCEPT ![t].left = left, ![t].at = at]
      PROVE  /\ loader'[t].at = at /\ loader'[t].text = l.text /\ loader'[t].left = left
             /\ \A o \in Threads : o # t => loader'[o] = loader[o]
             /\ loader' \in [Threads -> [at : LoadStages, text : Int, left : Seq(SectionNames)]]
             /\ \A o \in Threads : loader'[o].at = "apply" => loader'[o].left # <<>>
  <2>1. /\ loader'[t].at = at /\ loader'[t].text = l.text /\ loader'[t].left = left
        /\ \A o \in Threads : o # t => loader'[o] = loader[o]
    BY <1>0, <1>2, <1>6 DEF WatchShape
  <2>2. loader' \in [Threads -> [at : LoadStages, text : Int, left : Seq(SectionNames)]]
    BY <1>0, <1>2, <1>6 DEF WatchShape
  <2> QED
    BY <1>0, <1>6, <2>1, <2>2 DEF WatchShape
<1>7. \A o \in Threads : ~crossing /\ o # t => ~IsApplying(o)
  BY <1>0 DEF WatchInv, OneApplies
(* The callback came to its end.                                             *)
<1>8. ASSUME applied' = [applied EXCEPT ![s] = l.text],
             loader' = [loader EXCEPT ![t].left = Tail(l.left),
                                      ![t].at = IF Tail(l.left) = <<>> THEN RestingAt(t) ELSE "apply"],
             lastOk' = IF Tail(l.left) = <<>> THEN TRUE ELSE lastOk
      PROVE  WatchInv'
  <2> DEFINE at == IF Tail(l.left) = <<>> THEN RestingAt(t) ELSE "apply"
  <2>1. at \in LoadStages /\ (at = "apply" => Tail(l.left) # <<>>) /\ (at # "apply" => Tail(l.left) = <<>>)
    BY <1>4 DEF LoadStages
  <2>2. /\ loader'[t].at = at /\ loader'[t].text = l.text /\ loader'[t].left = Tail(l.left)
        /\ \A o \in Threads : o # t => loader'[o] = loader[o]
        /\ loader' \in [Threads -> [at : LoadStages, text : Int, left : Seq(SectionNames)]]
        /\ \A o \in Threads : loader'[o].at = "apply" => loader'[o].left # <<>>
    <3>1. loader' = [loader EXCEPT ![t].left = Tail(l.left), ![t].at = at]
      BY <1>8
    <3> HIDE DEF l, at
    <3> QED
      BY <1>3, <1>6, <2>1, <3>1
  <2>3. applied' \in [SectionNames -> Int] /\ applied'[s] = l.text
        /\ \A x \in SectionNames : x # s => applied'[x] = applied[x]
    <3> HIDE DEF l, s
    <3> QED
      BY <1>0, <1>2, <1>3, <1>8 DEF WatchShape
  <2>4. WatchShape'
    BY <1>0, <1>1, <2>2, <2>3 DEF WatchShape
  <2> SUFFICES ASSUME ~crossing PROVE OneApplies' /\ AppliesItsText' /\ OldIsRead' /\ WillBeInEffect'
    BY <1>1, <2>4 DEF WatchInv
  <2>5. OneApplies /\ DoneWith(t) /\ OldIsRead
    BY <1>0 DEF WatchInv, AppliesItsText
  <2>6. \A o \in Threads : o # t => ~IsApplying(o)'
    BY <1>7, <2>2 DEF IsApplying
  <2>7. OneApplies'
    BY <2>6 DEF OneApplies
  <2>8. ASSUME NEW i \in 1..Len(Sections)
        PROVE  applied'[Sections[i]] = l.text
               \/ \E j \in 1..Len(Tail(l.left)) : Tail(l.left)[j] = Sections[i]
    <3>1. Sections[i] \in SectionNames
      BY SectionsListed
    <3>2. CASE applied[Sections[i]] = l.text
      BY <2>3, <3>1, <3>2
    <3>3. CASE applied[Sections[i]] # l.text
      <4>1. PICK j \in 1..Len(l.left) : l.left[j] = Sections[i]
        BY <2>5, <3>3 DEF DoneWith
      <4>2. CASE j = 1
        BY <1>3, <2>3, <4>1, <4>2
      <4>3. CASE j # 1
        <5>1. j - 1 \in 1..Len(Tail(l.left)) /\ (j - 1) + 1 = j
          BY <1>3, <4>3
        <5> QED
          BY <1>3, <4>1, <5>1
      <4> QED
        BY <4>2, <4>3
    <3> QED
      BY <3>2, <3>3
  <2>9. DoneWith(t)'
    BY <1>5, <2>2, <2>8 DEF DoneWith
  <2>10. AppliesItsText'
    BY <2>6, <2>9 DEF AppliesItsText
  <2>11. SeenAll' => SeenAll
    BY <1>1 DEF SeenAll
  <2>12. \A o \in Threads : WillRead(o) => WillRead(o)'
    BY <1>2, <2>2 DEF WillRead
  <2>13. SeenAll' /\ l.text # cfgFile.text => \E o \in Threads : WillRead(o)'
    BY <1>0, <2>5, <2>11, <2>12 DEF OldIsRead
  <2>14. OldIsRead'
    BY <1>1, <2>2, <2>6, <2>13 DEF OldIsRead
  <2>15. WillBeInEffect'
    <3> SUFFICES ASSUME l.text = cfgFile.text
                 PROVE  InEffect(cfgFile.text)' \/ (IsApplying(t)' /\ loader'[t].text = cfgFile'.text)
      BY <1>1, <2>13 DEF WillBeInEffect
    <3>1. CASE at = "apply"
      BY <1>1, <2>2, <3>1 DEF IsApplying
    <3>2. CASE at # "apply"
      <4>1. Len(Tail(l.left)) = 0
        BY <2>1, <3>2, EmptySeq
      <4>2. \A i \in 1..Len(Sections) : applied'[Sections[i]] = l.text
        BY <2>8, <4>1
      <4> QED
        BY <1>1, <1>5, <4>2 DEF InEffect
    <3> QED
      BY <3>1, <3>2
  <2> QED
    BY <2>7, <2>10, <2>14, <2>15
(* It raised.                                                                *)
<1>9. ASSUME loader' = [loader EXCEPT ![t].left = <<>>, ![t].at = RestingAt(t)],
             lastOk' = FALSE, applied' = applied
      PROVE  WatchInv'
  <2>1. RestingAt(t) \in LoadStages /\ RestingAt(t) # "apply"
    BY <1>4 DEF LoadStages
  <2>2. /\ loader'[t].at = RestingAt(t)
        /\ \A o \in Threads : o # t => loader'[o] = loader[o]
        /\ loader' \in [Threads -> [at : LoadStages, text : Int, left : Seq(SectionNames)]]
        /\ \A o \in Threads : loader'[o].at = "apply" => loader'[o].left # <<>>
    BY <1>4, <1>6, <1>9, <2>1
  <2>3. WatchShape'
    BY <1>0, <1>1, <1>9, <2>2 DEF WatchShape
  <2>4. ~crossing => \A o \in Threads : ~IsApplying(o)'
    BY <1>7, <2>1, <2>2 DEF IsApplying
  <2> QED
    BY <1>1, <1>9, <2>3, <2>4 DEF WatchInv, OneApplies, AppliesItsText, OldIsRead, WillBeInEffect
<1> QED
  BY <1>2, <1>8, <1>9 DEF ApplyConfig, Applies

LEMMA WatchStepInv == WatchInv /\ [WatchNext]_watchVars => WatchInv'
<1> SUFFICES ASSUME WatchInv, [WatchNext]_watchVars PROVE WatchInv'
  OBVIOUS
<1>0. WatchShape /\ DOMAIN loader = Threads /\ Admin \in Threads /\ Pollers \subseteq Threads
  BY DEF WatchInv, WatchShape, Threads
<1>1. ASSUME NEW t \in Threads, NEW at \in LoadStages \ {"apply"}, ~IsApplying(t),
             loader' = [loader EXCEPT ![t].at = at],
             Whole(cfgFile.text) /\ WillRead(t) => at \in {"size", "load"},
             UNCHANGED <<watcherKind, cfgFile, writes, cfgClock, applied, lastOk, misread, sameTick, crossing>>,
             lastMtime' = lastMtime \/ (lastMtime' \in {0, cfgFile.mtime} /\ at \in {"size", "load"})
      PROVE  WatchInv'
  <2>1. /\ loader' \in [Threads -> [at : LoadStages, text : Int, left : Seq(SectionNames)]]
        /\ loader'[t].at = at /\ loader'[t].text = loader[t].text /\ loader'[t].left = loader[t].left
        /\ \A o \in Threads : o # t => loader'[o] = loader[o]
    BY <1>0, <1>1 DEF WatchShape
  <2>2. lastMtime' \in Int /\ lastMtime' <= cfgFile.mtime /\ cfgFile.mtime \in Int
    BY <1>0, <1>1 DEF WatchShape
  <2>3. WatchShape'
    BY <1>0, <1>1, <2>1, <2>2 DEF WatchShape
  <2>4. ASSUME NEW o \in Threads
        PROVE  /\ IsApplying(o)' <=> IsApplying(o)
               /\ loader'[o].text = loader[o].text /\ loader'[o].left = loader[o].left
               /\ Whole(cfgFile.text) /\ WillRead(o) => WillRead(o)'
    BY <1>1, <2>1 DEF IsApplying, WillRead
  <2>5. lastMtime' = lastMtime \/ WillRead(t)'
    BY <1>1, <2>1 DEF WillRead
  <2> QED
    BY <1>1, <2>3, <2>4, <2>5, WatchFrame
<1>2. ASSUME NEW t \in Pollers, StartWatcher(t) PROVE WatchInv'
  BY <1>0, <1>1, <1>2 DEF StartWatcher, LoadStages, IsApplying, WillRead
<1>3. ASSUME NEW t \in Pollers, Poll(t) PROVE WatchInv'
  <2> DEFINE at == IF ~active THEN "off" ELSE IF watcherKind = "toml" THEN "size" ELSE "load"
  <2>1. /\ loader[t].at = "wait" /\ loader' = [loader EXCEPT ![t].at = at]
        /\ UNCHANGED <<watcherKind, cfgFile, writes, cfgClock, applied, lastOk, misread, sameTick, crossing>>
        /\ lastMtime' = lastMtime \/ (lastMtime' \in {0, cfgFile.mtime} /\ at \in {"size", "load"})
    BY <1>3 DEF Poll
  <2>2. at \in LoadStages \ {"apply"}
    BY DEF LoadStages
  <2>3. ~IsApplying(t) /\ ~WillRead(t) /\ t \in Threads
    BY <1>0, <2>1 DEF IsApplying, WillRead
  <2> HIDE DEF at
  <2> QED
    BY <1>1, <2>1, <2>2, <2>3
<1>4. ASSUME NEW t \in Pollers, LooksAtSize(t) PROVE WatchInv'
  <2>1. /\ loader[t].at = "size" /\ t \in Threads /\ ~IsApplying(t)
        /\ UNCHANGED <<watcherKind, cfgFile, writes, cfgClock, applied, lastOk, sameTick, crossing, lastMtime>>
    BY <1>0, <1>4 DEF LooksAtSize, IsApplying
  <2>2. CASE /\ loader' = [loader EXCEPT ![t].at = IF cfgFile.text = Empty THEN "wait" ELSE "load"]
             /\ misread' = misread
    <3> DEFINE at == IF cfgFile.text = Empty THEN "wait" ELSE "load"
    <3>1. at \in LoadStages \ {"apply"} /\ (Whole(cfgFile.text) => at = "load")
      BY DEF LoadStages, Whole, Empty
    <3>2. loader' = [loader EXCEPT ![t].at = at]
      BY <2>2
    <3> HIDE DEF at
    <3> QED
      BY <1>1, <2>1, <2>2, <3>1, <3>2
  <2>3. CASE misread' = TRUE /\ loader' = [loader EXCEPT ![t].at = "wait"]
    <3>1. /\ loader' \in [Threads -> [at : LoadStages, text : Int, left : Seq(SectionNames)]]
          /\ loader'[t].at = "wait" /\ \A o \in Threads : o # t => loader'[o] = loader[o]
      BY <1>0, <2>1, <2>3 DEF WatchShape, LoadStages
    <3>2. WatchShape' /\ ~SeenAll' /\ Sections' = Sections
      BY <1>0, <2>1, <2>3, <3>1 DEF WatchShape, SeenAll, Sections
    <3>3. \A o \in Threads : IsApplying(o)' => IsApplying(o) /\ loader'[o] = loader[o]
      BY <3>1 DEF IsApplying
    <3>4. (OneApplies => OneApplies') /\ (AppliesItsText => AppliesItsText')
      BY <2>1, <3>2, <3>3 DEF OneApplies, AppliesItsText, DoneWith
    <3> QED
      BY <2>1, <3>2, <3>4 DEF WatchInv, OldIsRead, WillBeInEffect
  <2> QED
    BY <1>4, <2>2, <2>3 DEF LooksAtSize
<1>5. ASSUME UNCHANGED <<watcherKind, cfgFile, writes, cfgClock, lastMtime, loader, applied, lastOk,
                         misread, sameTick, crossing>>
      PROVE  WatchInv'
  <2>1. WatchShape'
    BY <1>0, <1>5 DEF WatchShape
  <2> QED
    BY <1>5, <2>1, WatchFrame DEF IsApplying, WillRead
<1>6. CASE StopWatcher \/ StopReturns \/ UNCHANGED watchVars
  BY <1>5, <1>6 DEF StopWatcher, StopReturns, watchVars
<1>7. ASSUME NEW t \in Pollers, LoadConfig(t) PROVE WatchInv'
  BY <1>0, <1>7, ReadsConfigInv DEF LoadConfig
<1>8. CASE ForceReload
  BY <1>0, <1>8, ReadsConfigInv DEF ForceReload
<1>9. ASSUME NEW t \in Threads, ApplyConfig(t) PROVE WatchInv'
  BY <1>9, AppliesInv
<1> QED
  BY <1>0, <1>2, <1>3, <1>4, <1>6, <1>7, <1>8, <1>9, WriteConfigInv DEF WatchNext

LEMMA WatchInvRests == WatchInv => RestsInEffect
<1> SUFFICES ASSUME WatchInv, ~crossing, SeenAll, lastOk,
                    \A t \in Threads : ~IsApplying(t) /\ ~WillRead(t)
             PROVE  \A i \in DOMAIN Sections : applied[Sections[i]] = cfgFile.text
  BY DEF RestsInEffect, SeenAll, Threads, IsApplying, WillRead
<1>1. InEffect(cfgFile.text)
  BY DEF WatchInv, WillBeInEffect
<1> QED
  BY <1>1, SectionsListed DEF InEffect

(* A watcher of a configuration file at rest has the whole file in effect,   *)
(* for any number of pollers that outlive their stop, reloads, writers and   *)
(* looks that fail, unless the last look failed, the last read came while    *)
(* another thread applied, or the last write shares its time with the one    *)
(* before (core/config_watcher.py and core/config_hot_reload.py).            *)
THEOREM FileRestsInEffect == WatchSpec => []RestsInEffect
<1> QED
  BY WatchInitInv, WatchStepInv, WatchInvRests, PTL DEF WatchSpec
=============================================================================
