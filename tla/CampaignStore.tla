---------------------------- MODULE CampaignStore ----------------------------
(* campaigns.jsonl and those who write it: registries, each with an index of *)
(* its own (campaign/registry.py), and the archiver that moves old campaigns *)
(* of one of them to the per-day archive (campaign/archiver.py).             *)
EXTENDS Integers

CONSTANTS
    StoredCampaigns,      \* campaigns
    Registries,       \* CampaignRegistry objects on the file, of all processes
    MaxWriteErrors,   \* bound: writes of either file that fail
    MaxArchiveLines   \* bound: lines of one campaign in the archive

ASSUME StoreAssumption == MaxWriteErrors \in Nat /\ MaxArchiveLines \in Nat

VARIABLES
    campaignFile,     \* campaigns.jsonl: campaign -> state, or "none"
    index,            \* registry -> the campaigns it holds, as it knows them
    archived,         \* campaign -> lines in the archive
    moving,           \* the campaign archive_old is at, and its step
    created,          \* history: campaigns that save has been called for
    saved,            \* history: campaigns whose line has reached the file
    takenBack,        \* history: of these, those a write about another one took from it
    unarchived,       \* history: campaigns whose archive line could not be written
    writeErrors

storeVars == <<campaignFile, index, archived, moving, created, saved, takenBack, unarchived,
               writeErrors>>
lineVars == <<campaignFile, saved, takenBack>>

CampaignStates == {"running", "ended"}
Nothing == [c \in StoredCampaigns |-> "none"]
Still == [at |-> <<>>, step |-> "idle"]

StoreInit ==
    /\ campaignFile = Nothing
    /\ index = [r \in Registries |-> Nothing]
    /\ archived = [c \in StoredCampaigns |-> 0]
    /\ moving = Still /\ created = {} /\ saved = {} /\ takenBack = {} /\ unarchived = {}
    /\ writeErrors = 0

(* A write that fails is logged, and that is all. *)
WriteFails == writeErrors < MaxWriteErrors /\ writeErrors' = writeErrors + 1

(* _flush: the whole file becomes what this registry knows, though the write *)
(* is about one campaign; the index has the change whether or not the file   *)
(* could be written.                                                         *)
Flush(r, c, state) ==
    LET known == [index[r] EXCEPT ![c] = state] IN
      /\ index' = [index EXCEPT ![r] = known]
      /\ \/ /\ campaignFile' = known
            /\ saved' = saved \cup {d \in StoredCampaigns : known[d] # "none"}
            /\ takenBack' = {d \in saved \ {c} :
                 known[d] = "none" /\ (campaignFile[d] # "none" \/ d \in takenBack)}
            /\ UNCHANGED writeErrors
         \/ WriteFails /\ UNCHANGED lineVars

(* save: a campaign of this registry begins, or has come to its end. *)
SaveCampaign(r, c, s) ==
    /\ \/ s = "running" /\ c \notin created
       \/ s = "ended" /\ index[r][c] = "running"
    /\ Flush(r, c, s)
    /\ created' = created \cup {c}
    /\ UNCHANGED <<archived, moving, unarchived>>

(* A new registry, of a new process or a new engine, reads the file. *)
Reopen(r) ==
    /\ moving = Still
    /\ index' = [index EXCEPT ![r] = campaignFile]
    /\ UNCHANGED <<lineVars, archived, moving, created, unarchived, writeErrors>>

MutArchiverTakes(r, c) ==
    /\ moving = Still /\ index[r][c] = "ended"
    /\ Flush(r, c, "none")
    /\ moving' = [at |-> <<r, c>>, step |-> "write"]
    /\ UNCHANGED <<archived, created, unarchived>>

(* archive_old, one campaign at a time: append its line, then delete it. *)
ArchiverTakes(r, c) ==
    /\ moving = Still /\ index[r][c] = "ended"
    /\ moving' = [at |-> <<r, c>>, step |-> "write"]
    /\ UNCHANGED <<lineVars, index, archived, created, unarchived, writeErrors>>

(* An OSError is logged, and the deletion goes ahead. *)
ArchiverWrites ==
    /\ moving.step = "write"
    /\ \/ /\ archived' = [archived EXCEPT ![moving.at[2]] = @ + 1]
          /\ UNCHANGED <<unarchived, writeErrors>>
       \/ /\ WriteFails
          /\ unarchived' = unarchived \cup {moving.at[2]}
          /\ UNCHANGED archived
    /\ moving' = [moving EXCEPT !.step = "delete"]
    /\ UNCHANGED <<lineVars, index, created>>

ArchiverDeletes ==
    /\ moving.step = "delete"
    /\ LET r == moving.at[1]  c == moving.at[2] IN
         IF index[r][c] # "none" THEN Flush(r, c, "none")
         ELSE UNCHANGED <<index, lineVars, writeErrors>>
    /\ moving' = Still
    /\ UNCHANGED <<archived, created, unarchived>>

(* The process that archives is stopped, and starts again. *)
ArchiverDies ==
    /\ moving # Still
    /\ archived[moving.at[2]] < MaxArchiveLines
    /\ moving' = Still
    /\ index' = [index EXCEPT ![moving.at[1]] = campaignFile]
    /\ UNCHANGED <<lineVars, archived, created, unarchived, writeErrors>>

StoreNext ==
    \/ \E r \in Registries, c \in StoredCampaigns :
         \/ \E s \in CampaignStates : SaveCampaign(r, c, s)
         \/ ArchiverTakes(r, c)
    \/ \E r \in Registries : Reopen(r)
    \/ ArchiverWrites \/ ArchiverDeletes \/ ArchiverDies

StoreSpec == StoreInit /\ [][StoreNext]_storeVars

-----------------------------------------------------------------------------
(* A campaign whose line has reached the file is in it ever after, or in the *)
(* archive: wherever the archiver is stopped, whichever writes fail, whoever *)
(* else writes the file.  Two ways to lose one are left, and neither loses   *)
(* any other: its own archive line could not be written, and it is deleted   *)
(* all the same; or a registry that did not know of it wrote the file, which *)
(* registry.py:3 ("Each write appends or rewrites the line for the affected  *)
(* campaign") does not expect.                                               *)
NoCampaignLost ==
    \A c \in saved \ (takenBack \cup unarchived) : campaignFile[c] # "none" \/ archived[c] > 0
=============================================================================
