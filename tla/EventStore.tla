------------------------------ MODULE EventStore ------------------------------
(* core/event_store.py over core/snapshot_store.py: each append saves the    *)
(* whole stream as the next version of a snapshot, a line of a .jsonl file   *)
(* that is read at the next start. EventStore holds its lock over the save,  *)
(* so an append is one step; writing the line can fail, and leave a fragment.*)
EXTENDS Integers, Sequences, FiniteSets, SequencesExt

CONSTANTS
    Streams,          \* streams, keys of one namespace
    MaxEvents, MaxFailedSaves, MaxStoreRestarts   \* bounds

ASSUME EventStoreAssumption == {MaxEvents, MaxFailedSaves, MaxStoreRestarts} \subseteq Nat

VARIABLES
    streams,          \* _streams: stream -> its events, numbered as they were made
    versions,         \* SnapshotStore._store: stream -> set of [version, data]
    jsonl,            \* the lines of the file
    fragment,         \* the file ends within a line
    safe,             \* history: stream -> its events at its last whole line
    eventCount, failedSaves, storeRestarts

eventVars == <<streams, versions, jsonl, fragment, safe, eventCount, failedSaves, storeRestarts>>

EventInit ==
    /\ streams = [s \in Streams |-> <<>>] /\ versions = [s \in Streams |-> {}]
    /\ jsonl = <<>> /\ fragment = FALSE
    /\ safe = [s \in Streams |-> <<>>]
    /\ eventCount = 0 /\ failedSaves = 0 /\ storeRestarts = 0

Latest(snaps) == CHOOSE v \in snaps : \A w \in snaps : w.version <= v.version

(* SnapshotStore.save: one above the highest. *)
NextVersion(snaps) == IF snaps = {} THEN 1 ELSE Latest(snaps).version + 1

(* The line reaches the file, or a part of it does, or nothing. What follows *)
(* a fragment is glued to it and does not parse.                             *)
AppendEvent(s, written) ==
    /\ eventCount < MaxEvents /\ eventCount' = eventCount + 1
    /\ written # "whole" => failedSaves < MaxFailedSaves
    /\ failedSaves' = IF written = "whole" THEN failedSaves ELSE failedSaves + 1
    /\ streams' = [streams EXCEPT ![s] = Append(@, eventCount')]
    /\ LET snap == [version |-> NextVersion(versions[s]), data |-> streams'[s]] IN
       /\ versions' = [versions EXCEPT ![s] = {v \in @ : v.version # snap.version} \cup {snap}]
       /\ jsonl' = IF written = "whole"
                   THEN Append(jsonl, [stream |-> s, snap |-> snap, parses |-> ~fragment])
                   ELSE jsonl
    /\ fragment' = CASE written = "whole" -> FALSE
                     [] written = "part" -> TRUE
                     [] OTHER -> fragment
    /\ safe' = IF written = "whole" /\ ~fragment THEN [safe EXCEPT ![s] = streams'[s]] ELSE safe
    /\ UNCHANGED storeRestarts

(* _load_from_disk: of two lines with one version the later counts. *)
Loaded(s) ==
    LET Sound(i) == jsonl[i].parses /\ jsonl[i].stream = s
    IN  {jsonl[i].snap : i \in {j \in 1..Len(jsonl) : Sound(j) /\
             \A k \in (j + 1)..Len(jsonl) : Sound(k) => jsonl[k].snap.version # jsonl[j].snap.version}}

(* The process ends and starts again; EventStore._load takes the latest. *)
RestartStore ==
    /\ storeRestarts < MaxStoreRestarts /\ storeRestarts' = storeRestarts + 1
    /\ versions' = [s \in Streams |-> Loaded(s)]
    /\ streams' = [s \in Streams |-> IF Loaded(s) = {} THEN <<>> ELSE Latest(Loaded(s)).data]
    /\ UNCHANGED <<jsonl, fragment, safe, eventCount, failedSaves>>

EventNext ==
    \/ RestartStore
    \/ \E s \in Streams, written \in {"whole", "part", "nothing"} : AppendEvent(s, written)

EventSpec == EventInit /\ [][EventNext]_eventVars

-----------------------------------------------------------------------------
(* What an append has written whole survives: after any number of failed     *)
(* saves, cut lines and restarts a stream begins with the events of its last *)
(* line that parses, and after a restart it holds nothing else.              *)
EventsSurvive ==
    \A s \in Streams : /\ IsPrefix(safe[s], streams[s])
                       /\ Loaded(s) # {} => Latest(Loaded(s)).data = safe[s]
=============================================================================
