------------------------------ MODULE Quarantine ------------------------------
(* imperium/self_heal.py: the set of quarantined tasks in memory, shared by  *)
(* the threads that heal and the Sovereign who releases, and its copy in     *)
(* quarantine.json, which every change writes anew, without a lock.          *)
EXTENDS Integers

CONSTANTS
    Quarantined,      \* tasks
    Healers,          \* threads in heal or release_quarantine
    MaxReboots        \* bound: crashes and restarts

ASSUME QuarantineAssumption == MaxReboots \in Nat

VARIABLES
    held,             \* _quarantine
    quarantineFile,   \* the set on disk, and whether the file parses
    healer,           \* thread -> where it is, and the payload it has built
    wanted,           \* history: tasks healed and not released, as calls returned
    overlapped,       \* history: two threads were writing at once, or one was cut
    reboots

quarantineVars == <<held, quarantineFile, healer, wanted, overlapped, reboots>>

AtEase == [pc |-> "idle", task |-> "none", add |-> TRUE, payload |-> {}]
Writing(h) == healer[h].pc # "idle"

QuarantineInit ==
    /\ held = {} /\ wanted = {}
    /\ quarantineFile = [parses |-> TRUE, tasks |-> {}]
    /\ healer = [h \in Healers |-> AtEase]
    /\ overlapped = FALSE /\ reboots = 0

(* heal, once kernel.rollback has accepted the task, and release_quarantine: *)
(* change the set ...                                                        *)
Change(h, t, add) ==
    /\ healer[h].pc = "idle"
    /\ held' = IF add THEN held \cup {t} ELSE held \ {t}
    /\ healer' = [healer EXCEPT ![h] = [pc |-> "dump", task |-> t, add |-> add, payload |-> {}]]
    /\ overlapped' = (overlapped \/ \E g \in Healers : Writing(g))
    /\ UNCHANGED <<quarantineFile, wanted, reboots>>

(* ... turn it into text ... *)
Dump(h) ==
    /\ healer[h].pc = "dump"
    /\ healer' = [healer EXCEPT ![h].pc = "open", ![h].payload = held]
    /\ UNCHANGED <<held, quarantineFile, wanted, overlapped, reboots>>

(* ... truncate the file ... *)
OpenFile(h) ==
    /\ healer[h].pc = "open"
    /\ quarantineFile' = [parses |-> FALSE, tasks |-> {}]
    /\ healer' = [healer EXCEPT ![h].pc = "write"]
    /\ UNCHANGED <<held, wanted, overlapped, reboots>>

(* ... and write it. Then the bus event, the audit entry, and the return. *)
WriteFile(h) ==
    /\ healer[h].pc = "write"
    /\ quarantineFile' = [parses |-> TRUE, tasks |-> healer[h].payload]
    /\ wanted' = IF healer[h].add THEN wanted \cup {healer[h].task}
                 ELSE wanted \ {healer[h].task}
    /\ healer' = [healer EXCEPT ![h] = AtEase]
    /\ UNCHANGED <<held, overlapped, reboots>>

(* The process dies and starts again: a file that does not parse is empty. *)
Reboot ==
    /\ reboots < MaxReboots /\ reboots' = reboots + 1
    /\ held' = quarantineFile.tasks
    /\ overlapped' = (overlapped \/ \E h \in Healers : Writing(h))
    /\ healer' = [h \in Healers |-> AtEase]
    /\ UNCHANGED <<quarantineFile, wanted>>

QuarantineNext ==
    \/ Reboot
    \/ \E h \in Healers : \/ Dump(h) \/ OpenFile(h) \/ WriteFile(h)
                          \/ \E t \in Quarantined, add \in BOOLEAN : Change(h, t, add)

QuarantineSpec == QuarantineInit /\ [][QuarantineNext]_quarantineVars

-----------------------------------------------------------------------------
(* Restarts retain the list: a task whose heal has returned and that nobody  *)
(* has begun to release is quarantined, through any number of restarts, as   *)
(* long as one thread writes at a time and none is cut short.                *)
QuarantineRetained ==
    ~overlapped =>
        \A t \in wanted : t \in held \/ \E h \in Healers : Writing(h) /\ healer[h].task = t
=============================================================================
