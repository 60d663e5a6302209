---------------------------- MODULE TitanRollback ----------------------------
(* Undo in TITAN OPS: AsyncTitanExecutor snapshots the file an instruction   *)
(* will change, runs it in a thread pool and registers how to undo it        *)
(* (titan_ops/async_executor.py, rollback.py). Between two awaits of one     *)
(* instruction those of others run.                                          *)
EXTENDS Integers, Sequences

CONSTANTS
    Undoables,     \* the file instructions of this history
    Command,       \* instruction -> [op, path, content, hook]
    Paths,         \* files
    Contents,      \* what a file may hold
    MaxUndos       \* bound: calls of execute_rollback

Absent == "absent"          \* no file at this path
DiffText == "diffText"     \* a reversed diff, as text
HookText == "hookText"     \* what a shell hook leaves in the file
TornText == "tornText"     \* as much of a file as was copied before an error

ASSUME RollbackAssumption ==
    /\ MaxUndos \in Nat
    /\ {Absent, DiffText, HookText, TornText} \cap Contents = {}
    /\ \A i \in Undoables :
         /\ Command[i].path \in Paths /\ Command[i].hook \in BOOLEAN
         /\ Command[i].op = "write" => Command[i].content \in Contents

VARIABLES
    files,         \* path -> what it holds
    found,         \* history: what the files held at the beginning
    progress,      \* where execute is with an instruction
    copies,        \* the snapshot it holds: "none", or what was copied
    hookList,      \* _entries of the registry, oldest first
    uncovered,     \* history: paths changed in a way no snapshot can undo
    undos          \* calls of execute_rollback

rollbackVars == <<files, found, progress, copies, hookList, uncovered, undos>>

Path(i) == Command[i].path
InFlight(i) == progress[i] \in {"ready", "ran", "failed"}

(* _is_destructive looks at the operation as it is written, the builder of   *)
(* the argv at its lower case: "REMOVE" removes and is not destructive.      *)
Destructive(i) == Command[i].op \in {"remove", "write"}
Effect(i) == CASE Command[i].op \in {"remove", "REMOVE"} -> Absent
               [] Command[i].op = "write" -> Command[i].content
               [] OTHER -> files[Path(i)]

RollbackInit ==
    /\ files \in [Paths -> Contents \cup {Absent}] /\ found = files
    /\ progress = [i \in Undoables |-> "idle"]
    /\ copies = [i \in Undoables |-> "none"]
    /\ hookList = <<>> /\ uncovered = {} /\ undos = 0

(* StateSnapshot.capture: the error of a copy is swallowed. The snapshot is  *)
(* there all the same, without the file or with a part of it.                *)
Copied(i) == IF files[Path(i)] = Absent THEN {Absent} ELSE {files[Path(i)], TornText, Absent}

Taken(i, copy) ==
    /\ progress[i] = "idle"
    /\ copies' = IF Destructive(i) THEN [copies EXCEPT ![i] = copy] ELSE copies
    /\ progress' = [progress EXCEPT ![i] = "ready"]
    /\ uncovered' = IF \E j \in Undoables : InFlight(j) /\ Path(j) = Path(i)
                    THEN uncovered \cup {Path(i)} ELSE uncovered
    /\ UNCHANGED <<files, found, hookList, undos>>

(* execute, up to the instruction itself. Two on one path at once leave the  *)
(* order of their snapshots and entries to chance.                           *)
Capture(i) == \E copy \in Copied(i) : Taken(i, copy)

Named(i) == {k \in 1..Len(hookList) : hookList[k].instr = i}

(* register: a dictionary keeps the place of an entry it replaces. *)
RegisterEntry(i, entry) ==
    IF Named(i) = {} THEN Append(hookList, entry)
    ELSE [hookList EXCEPT ![CHOOSE k \in Named(i) : TRUE] = entry]

Shell(i) == [instr |-> i, kind |-> "shell", copy |-> "none", diffs |-> FALSE]

(* A change can be undone from the snapshot if that will be registered and   *)
(* is of the whole file.                                                     *)
Covers(i, ok) == ok /\ Destructive(i) /\ copies[i] = files[Path(i)]

(* The subprocess: it succeeds, fails, or fails having done its work (a      *)
(* timeout). The synchronous executor registers the shell hook either way.   *)
Execute(i, ok, took) ==
    /\ progress[i] = "ready"
    /\ ok => took
    /\ ok /\ Command[i].op = "read" => files[Path(i)] # Absent
    /\ files' = IF took THEN [files EXCEPT ![Path(i)] = Effect(i)] ELSE files
    /\ progress' = [progress EXCEPT ![i] = IF ok THEN "ran" ELSE "failed"]
    /\ hookList' = IF Command[i].hook THEN RegisterEntry(i, Shell(i)) ELSE hookList
    /\ uncovered' = IF took /\ Command[i].op # "read" /\ ~Covers(i, ok)
                    THEN uncovered \cup {Path(i)} ELSE uncovered
    /\ UNCHANGED <<found, copies, undos>>

(* Mutant: the snapshot is taken when the instruction has run. *)
MutUpgraded(i) ==
    [instr |-> i, kind  |-> IF Destructive(i) THEN "snapshot" ELSE "file_diff",
                  copy  |-> IF Destructive(i) THEN files[Path(i)] ELSE "none",
                  diffs |-> Destructive(i) \/ files[Path(i)] # Absent]

(* After a success the shell hook, if any, is turned into a snapshot or a    *)
(* diff; the diff is taken against nothing when nothing was read before.     *)
Upgraded(i) ==
    [instr |-> i, kind  |-> IF Destructive(i) THEN "snapshot" ELSE "file_diff",
                  copy  |-> copies[i],
                  diffs |-> Destructive(i) \/ files[Path(i)] # Absent]

Settled(i) ==
    /\ progress[i] \in {"ran", "failed"}
    /\ progress' = [progress EXCEPT ![i] = "over"]
    /\ hookList' = IF progress[i] = "ran"
                      /\ (Command[i].hook \/ Destructive(i) \/ files[Path(i)] # Absent)
                   THEN RegisterEntry(i, Upgraded(i)) ELSE hookList
    /\ UNCHANGED <<files, found, copies, uncovered, undos>>

(* What execute_rollback writes to the file of an entry, if anything: a      *)
(* snapshot of nothing restores nothing, the reversed diff is written as it  *)
(* is, and what the shell hook does is its author's business.                *)
Restored(entry, fs) ==
    LET path == Path(entry.instr)
    IN  CASE entry.kind = "snapshot" /\ entry.copy # Absent -> [fs EXCEPT ![path] = entry.copy]
          [] entry.kind = "file_diff" /\ entry.diffs -> [fs EXCEPT ![path] = DiffText]
          [] entry.kind = "shell" -> [fs EXCEPT ![path] = HookText]
          [] OTHER -> fs

(* execute_rollback. The entry stays, and may be executed again. *)
Undo(k) ==
    /\ undos < MaxUndos
    /\ files' = Restored(hookList[k], files)
    /\ undos' = undos + 1
    /\ UNCHANGED <<found, progress, copies, hookList, uncovered>>

RollbackNext ==
    \/ \E i \in Undoables : \/ Capture(i) \/ Settled(i)
                            \/ \E ok, took \in BOOLEAN : Execute(i, ok, took)
    \/ \E k \in 1..Len(hookList) : Undo(k)

RollbackSpec == RollbackInit /\ [][RollbackNext]_rollbackVars

-----------------------------------------------------------------------------
(* The files when the n newest entries have been undone, newest first. *)
Undone[n \in 0..Len(hookList)] ==
    IF n = 0 THEN files ELSE Restored(hookList[Len(hookList) - n + 1], Undone[n - 1])
UndoAll == Undone[Len(hookList)]

(* What an entry writes back is a copy that was made of the file.            *)
GivesBack(entry) == entry.kind = "snapshot" /\ entry.copy # Absent
WritesText(entry) == entry.kind = "shell" \/ (entry.kind = "file_diff" /\ entry.diffs)

(* A diff or a hook on p that is undone after every snapshot of p. *)
TextLast(p) ==
    \E k \in 1..Len(hookList) :
        /\ Path(hookList[k].instr) = p /\ WritesText(hookList[k])
        /\ \A j \in 1..(k - 1) : ~(Path(hookList[j].instr) = p /\ GivesBack(hookList[j]))

(* Whatever has been run and undone, in any order and more than once, going  *)
(* through the registry from the newest entry to the oldest puts back every  *)
(* file that was there at the beginning, also one that an undone diff has    *)
(* overwritten meanwhile: unless the last to be undone is itself a diff or a *)
(* hook, or the file was changed behind the snapshots (by an instruction     *)
(* that failed with its work done, by one that is not seen to be             *)
(* destructive, by one whose snapshot could not be taken, or by two at once).*)
UndoRestores ==
    \A p \in Paths :
        /\ p \notin uncovered /\ found[p] # Absent /\ ~TextLast(p)
        /\ \A i \in Undoables : Path(i) = p => progress[i] # "ran"
        => UndoAll[p] = found[p]
=============================================================================
