----------------------------- MODULE ConfigReload -----------------------------
(* The two watchers of a configuration file, core/config_watcher.py ("toml") *)
(* and core/config_hot_reload.py ("hot"): a polling thread, an administrator *)
(* who starts, stops and reloads, and whoever writes the file, by truncating *)
(* and writing or by replacing it. The file's times may be coarser than its  *)
(* writes.                                                                   *)
EXTENDS Integers, Sequences, FiniteSets

CONSTANTS
    WatcherKinds, Pollers, Admin,
    MaxWrites, CfgHorizon, MaxForces,   \* bounds
    MaxRefusals       \* bound: callbacks that raise, looks at the file that fail

ASSUME WatcherAssumption ==
    /\ WatcherKinds \subseteq {"toml", "hot"} /\ Admin \notin Pollers
    /\ {MaxWrites, CfgHorizon, MaxRefusals, MaxForces} \subseteq Nat

VARIABLES
    watcherKind,
    cfgFile,     \* [text, mtime]: a text is a number, Empty or Broken
    writes, cfgClock,
    lastMtime,   \* _last_mtime, 0 for None
    active,      \* ~_stop_event, _running
    watcher,     \* _thread, or none
    adminAt,     \* "idle" or "stopping"
    loader,      \* thread -> [at, text, sections]: what it is doing, what it read
    applied,     \* section -> the text it has from
    lastOk,      \* the last load came to its end
    misread,     \* history: the last look at the file failed
    sameTick,    \* history: the last write has the time of the one before it
    crossing,    \* history: at the last read another thread had read and not yet applied
    refusals, forces

watchVars == <<watcherKind, cfgFile, writes, cfgClock, lastMtime, active, watcher, adminAt,
               loader, applied, lastOk, misread, sameTick, crossing, refusals, forces>>

NoWatcher == "none"
Empty == -1
Broken == -2
Unusable == -3     \* what comes of a file that cannot be read or parsed
Sections == IF watcherKind = "toml" THEN <<"singleton", "config">> ELSE <<"intent", "jobs", "policy">>
Whole(text) == text >= 0

WatchInit ==
    /\ watcherKind \in WatcherKinds
    /\ cfgFile = [text |-> 0, mtime |-> 1] /\ cfgClock = 1 /\ writes = 0
    /\ lastMtime = (IF watcherKind = "toml" THEN 1 ELSE 0)
    /\ active = FALSE /\ watcher = NoWatcher /\ adminAt = "idle"
    /\ loader = [t \in Pollers \cup {Admin} |-> [at |-> "off", text |-> 0, left |-> <<>>]]
    /\ applied = [s \in {"singleton", "config", "intent", "jobs", "policy"} |-> 0]
    /\ lastOk = TRUE /\ misread = FALSE /\ sameTick = FALSE /\ crossing = FALSE
    /\ refusals = 0 /\ forces = 0

-----------------------------------------------------------------------------
(* The writer: what it leaves of a text at a time is empty, then broken. *)
SetFile(text) ==
    \E now \in {cfgClock, cfgClock + 1} :
        /\ now <= CfgHorizon
        /\ cfgClock' = now /\ cfgFile' = [text |-> text, mtime |-> now]
        /\ sameTick' = (now = cfgFile.mtime)

WriteConfig ==
    /\ \/ Whole(cfgFile.text) /\ writes < MaxWrites /\ writes' = writes + 1
          /\ (SetFile(Empty) \/ SetFile(writes'))
       \/ cfgFile.text = Empty /\ SetFile(Broken) /\ UNCHANGED writes
       \/ ~Whole(cfgFile.text) /\ SetFile(writes) /\ UNCHANGED writes
    /\ UNCHANGED <<watcherKind, lastMtime, active, watcher, adminAt, loader, applied, lastOk,
                   misread, crossing, refusals, forces>>

-----------------------------------------------------------------------------
(* start: of a watcher that runs already nothing comes. *)
StartWatcher(t) ==
    /\ adminAt = "idle" /\ loader[t].at = "off"
    /\ IF watcherKind = "toml" THEN \A o \in Pollers : watcher = o => loader[o].at = "off"
       ELSE ~active
    /\ active' = TRUE /\ watcher' = t
    /\ loader' = [loader EXCEPT ![t].at = "wait"]
    /\ UNCHANGED <<watcherKind, cfgFile, writes, cfgClock, lastMtime, adminAt, applied, lastOk,
                   misread, sameTick, crossing, refusals, forces>>

(* stop: the flag, then a join that gives up on a thread that takes long. *)
StopWatcher ==
    /\ adminAt = "idle" /\ active
    /\ active' = FALSE /\ adminAt' = "stopping"
    /\ UNCHANGED <<watcherKind, cfgFile, writes, cfgClock, lastMtime, watcher, loader, applied,
                   lastOk, misread, sameTick, crossing, refusals, forces>>

StopReturns ==
    /\ adminAt = "stopping" /\ adminAt' = "idle"
    /\ loader[watcher].at # "wait" /\ watcher' = NoWatcher
    /\ UNCHANGED <<watcherKind, cfgFile, writes, cfgClock, lastMtime, active, loader, applied,
                   lastOk, misread, sameTick, crossing, refusals, forces>>

-----------------------------------------------------------------------------
(* A look at the file that fails: it is not there, or cannot be read. *)
LookFails == refusals < MaxRefusals /\ refusals' = refusals + 1

(* _poll_loop: ends when told so; else takes the time first, then the file.  *)
(* The toml watcher takes 0 for the time of a file it cannot look at.        *)
Poll(t) ==
    /\ loader[t].at = "wait"
    /\ IF ~active THEN loader' = [loader EXCEPT ![t].at = "off"] /\ UNCHANGED <<lastMtime, refusals>>
       ELSE /\ \/ lastMtime' = cfgFile.mtime /\ UNCHANGED refusals
               \/ watcherKind = "toml" /\ LookFails /\ lastMtime' = 0
            /\ lastMtime' # lastMtime
            /\ loader' = [loader EXCEPT ![t].at = IF watcherKind = "toml" THEN "size" ELSE "load"]
    /\ UNCHANGED <<watcherKind, cfgFile, writes, cfgClock, active, watcher, adminAt, applied,
                   lastOk, misread, sameTick, crossing, forces>>

(* _on_file_changed: a file of no size, or of which that cannot be told, is  *)
(* left for the next time.                                                   *)
LooksAtSize(t) ==
    /\ loader[t].at = "size"
    /\ \/ /\ loader' = [loader EXCEPT ![t].at = IF cfgFile.text = Empty THEN "wait" ELSE "load"]
          /\ UNCHANGED <<misread, refusals>>
       \/ LookFails /\ misread' = TRUE /\ loader' = [loader EXCEPT ![t].at = "wait"]
    /\ UNCHANGED <<watcherKind, cfgFile, writes, cfgClock, lastMtime, active, watcher, adminAt,
                   applied, lastOk, sameTick, crossing, forces>>

(* Back to where the thread came from. *)
RestingAt(t) == IF t = Admin THEN "off" ELSE "wait"

(* Reads and parses: load, or load_config, which never raises.  An empty     *)
(* file parses, as one without any settings; a broken one may.  What cannot  *)
(* be read or parsed is to _read_toml_section an empty document, that is the *)
(* defaults, and to the hot reloader a failed load.                          *)
ReadsConfig(t) ==
    /\ \E got \in {cfgFile.text, Unusable} :
         LET fails == got = Unusable
             nothing == watcherKind = "hot" /\ got \in {Empty, Unusable} IN
         /\ IF fails /\ cfgFile.text # Broken THEN LookFails /\ misread' = TRUE
            ELSE misread' = FALSE /\ UNCHANGED refusals
         /\ loader' = [loader EXCEPT ![t] =
              [at |-> IF nothing THEN RestingAt(t) ELSE "apply", text |-> IF fails THEN Empty ELSE got,
               left |-> IF nothing THEN <<>> ELSE Sections]]
         /\ lastOk' = IF nothing THEN ~fails ELSE lastOk
    /\ crossing' = (\E o \in DOMAIN loader \ {t} : loader[o].at = "apply")
    /\ UNCHANGED <<watcherKind, cfgFile, writes, cfgClock, lastMtime, active, watcher, adminAt,
                   applied, sameTick>>

LoadConfig(t) == loader[t].at = "load" /\ ReadsConfig(t) /\ UNCHANGED forces

(* force_reload, and load called from outside: without a look at the size. *)
ForceReload ==
    /\ adminAt = "idle" /\ loader[Admin].at = "off"
    /\ forces < MaxForces /\ forces' = forces + 1
    /\ ReadsConfig(Admin)

(* The global singleton and the callback, or the next of the sections; a     *)
(* callback that raises ends the load.                                       *)
Applies(t) ==
    LET l == loader[t]
        s == Head(l.left) IN
    /\ l.at = "apply"
    /\ \/ /\ applied' = [applied EXCEPT ![s] = l.text]
          /\ loader' = [loader EXCEPT ![t].left = Tail(@),
                                      ![t].at = IF Tail(l.left) = <<>> THEN RestingAt(t) ELSE @]
          /\ lastOk' = IF Tail(l.left) = <<>> THEN TRUE ELSE lastOk
          /\ UNCHANGED refusals
       \/ /\ s # "singleton" /\ refusals < MaxRefusals /\ refusals' = refusals + 1
          /\ loader' = [loader EXCEPT ![t].left = <<>>, ![t].at = RestingAt(t)]
          /\ lastOk' = FALSE /\ UNCHANGED applied
    /\ UNCHANGED <<watcherKind, cfgFile, writes, cfgClock, active, watcher, adminAt, misread,
                   sameTick, crossing, forces>>

(* A bug: the time is taken when the text has been applied. *)
MutApplyConfig(t) == Applies(t) /\ lastMtime' = cfgFile.mtime

ApplyConfig(t) == Applies(t) /\ UNCHANGED lastMtime

WatchNext ==
    \/ WriteConfig \/ StopWatcher \/ StopReturns \/ ForceReload \/ ApplyConfig(Admin)
    \/ \E t \in Pollers :
          StartWatcher(t) \/ Poll(t) \/ LooksAtSize(t) \/ LoadConfig(t) \/ ApplyConfig(t)

WatchSpec == WatchInit /\ [][WatchNext]_watchVars

-----------------------------------------------------------------------------
(* A watcher at rest before a whole file has it in effect, all of it, if no  *)
(* callback of its last load raised: whatever was written while it looked,   *)
(* whatever it made of a half-written text before, however often threads     *)
(* crossed earlier.  Three things can leave another text in effect, each     *)
(* until the next change of the file: the last two writes have one time; the *)
(* last look at the file failed (for the toml watcher a successful reload of *)
(* the defaults: config_watcher.py:189 has "keeping previous config" for an  *)
(* exception that load_config never raises); or the last read came while     *)
(* another thread was applying an older one.                                 *)
RestsInEffect ==
    /\ watcher # NoWatcher /\ active /\ loader[watcher].at = "wait" /\ loader[Admin].at = "off"
    /\ \A t \in Pollers : loader[t].at \in {"off", "wait"}
    /\ cfgFile.mtime = lastMtime /\ Whole(cfgFile.text)
    /\ lastOk /\ ~misread /\ ~sameTick /\ ~crossing
    => \A i \in DOMAIN Sections : applied[Sections[i]] = cfgFile.text
=============================================================================
