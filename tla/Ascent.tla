-------------------------------- MODULE Ascent --------------------------------
(* ascent/loop.py and apply.py, with the verdicts of evolve/pipeline.py and  *)
(* review/gate.py: a cycle surveys a module, asks a proposer for a candidate *)
(* and queues what the gate promotes; the Sovereign resolves it; an apply    *)
(* gates it again and stages it. Applies run in pool threads; the loop's     *)
(* lock is held only for its lists, never over the disk. Lists that only a   *)
(* console reads (_cycles, _applied, the reviews) are left out.              *)
EXTENDS Integers

CONSTANTS
    SourceFiles,      \* modules, as files below a root
    Spellings,        \* the texts a client or the driver names a module by
    FileOf,           \* spelling -> the file it resolves to (others raise: nothing changes)
    Protected, TestFiles,   \* spellings with a guarded substring, with "test" in them
    Versions,         \* texts of a module
    Facts,            \* text -> what the gate and the audit tell apart in it
    Ascenders,        \* threads in apply
    MaxCycles,        \* bound: cycles in all
    MaxUpsets         \* bound: resets, edits of the tree, reads and writes that fail

ASSUME AscentAssumption ==
    /\ \A v \in Versions : Facts[v] \in [parses : BOOLEAN, surface : SUBSET STRING,
                                         tests : SUBSET STRING, risk : Nat, long : BOOLEAN]
    /\ FileOf \in [Spellings -> SourceFiles]
    /\ Protected \subseteq Spellings /\ TestFiles \subseteq Spellings
    /\ "unread" \notin Versions
    /\ {MaxCycles, MaxUpsets} \subseteq Nat

VARIABLES
    tree,             \* file -> its text in the running source tree
    queue, decided,   \* _pending and _decisions
    cycleSeq,         \* _seq
    tmpFile, staged,  \* file -> its .tmp and its staged text below apply_root
    ascender,         \* thread -> what it applies, and where the file it has open is
    blessed,          \* history: what the Sovereign approved, as <<spelling, text>>
    regated,          \* history: what passed the second gate, and the text it was held against
    overlaps,         \* history: files two applies were writing at once
    cycleCount, upsets

ascentVars == <<tree, queue, decided, cycleSeq, tmpFile, staged, ascender,
                blessed, regated, overlaps, cycleCount, upsets>>
listVars == <<queue, decided, cycleSeq>>
diskVars == <<tmpFile, staged>>

NotApplying == [pc |-> "idle"]

-----------------------------------------------------------------------------
(* The empty text: of a file that is new, or could not be read. *)
Unread == "unread"

(* _public_symbols and _test_funcs: of a text that does not parse, none. *)
Public(v) == IF v # Unread /\ Facts[v].parses THEN Facts[v].surface ELSE {}
TestCases(v) == IF v # Unread /\ Facts[v].parses THEN Facts[v].tests ELSE {}
Long(v) == v # Unread /\ Facts[v].long

(* ReviewGate.assess: the lenses, and _decide over them. What is guarded, and*)
(* what is a test, is told by the spelling of the path.                      *)
Assess(path, before, after) ==
    IF \/ ~Facts[after].parses
       \/ ~(Public(before) \subseteq Public(after))
       \/ path \in TestFiles /\ ~(TestCases(before) \subseteq TestCases(after))
    THEN "deny"
    ELSE IF path \in Protected THEN "escalate"
    ELSE IF Long(after) /\ ~Long(before) THEN "revise"
    ELSE "approve"

(* EvolveEngine._compose over the review and the two risks. *)
Verdict(path, before, after) ==
    IF Assess(path, before, after) = "deny" THEN "reject"
    ELSE IF Assess(path, before, after) = "escalate" THEN "escalate"
    ELSE IF Facts[after].risk > Facts[before].risk THEN "revise"
    ELSE "promote"

-----------------------------------------------------------------------------
AscentInit ==
    /\ tree \in [SourceFiles -> Versions]
    /\ queue = {} /\ decided = {} /\ cycleSeq = 0
    /\ tmpFile = [m \in SourceFiles |-> "none"] /\ staged = [m \in SourceFiles |-> "none"]
    /\ ascender = [w \in Ascenders |-> NotApplying]
    /\ blessed = {} /\ regated = {} /\ overlaps = {}
    /\ cycleCount = 0 /\ upsets = 0

(* run_cycle for one module: survey, propose, evaluate, _decide, _record. It *)
(* works on the text its caller sent (the driver reads the tree, the web     *)
(* surface takes what it is given), so all it shares is what _record         *)
(* changes. A dead proposer gives no text, which is a cycle too.             *)
RunCycle(path, before, after) ==
    /\ cycleCount < MaxCycles /\ cycleCount' = cycleCount + 1
    /\ cycleSeq' = cycleSeq + 1
    /\ Facts[before].risk > 0
    /\ queue' = IF after # "none" /\ Verdict(path, before, after) = "promote"
                THEN queue \cup {[seq |-> cycleSeq', module |-> path, after |-> after]}
                ELSE queue
    /\ UNCHANGED <<tree, decided, diskVars, ascender, blessed, regated, overlaps, upsets>>

ResolveChange(item, yes) ==
    /\ queue' = queue \ {item}
    /\ decided' = decided \cup
         {[seq |-> item.seq, module |-> item.module, after |-> item.after,
           status |-> IF yes THEN "approved" ELSE "rejected"]}
    /\ blessed' = IF yes THEN blessed \cup {<<item.module, item.after>>} ELSE blessed
    /\ UNCHANGED <<tree, cycleSeq, diskVars, ascender, regated, overlaps, cycleCount, upsets>>

(* read_current: the text of the running tree, or none when it cannot be     *)
(* read, or is not below the source root.                                    *)
ReadCurrent(path, before) ==
    \/ before = tree[FileOf[path]] /\ UNCHANGED upsets
    \/ before = Unread /\ upsets < MaxUpsets /\ upsets' = upsets + 1

MutApplyBegins(w, d) ==
    /\ ascender[w].pc = "idle" /\ d.status # "applied"
    /\ \E before \in Versions \cup {Unread} :
         LET passes == Assess(d.module, before, d.after) \in {"approve", "revise"} IN
         /\ ReadCurrent(d.module, before)
         /\ ascender' = [ascender EXCEPT ![w] =
              [pc |-> IF passes THEN "open" ELSE "note", seq |-> d.seq, module |-> FileOf[d.module],
               after |-> d.after, fd |-> "none", applied |-> FALSE]]
         /\ regated' = IF passes
                       THEN regated \cup {[path |-> d.module, after |-> d.after, before |-> before]}
                       ELSE regated
    /\ UNCHANGED <<tree, listVars, diskVars, blessed, overlaps, cycleCount>>

(* AscentLoop.apply finds the decision under the lock and lets go of it;     *)
(* AscentApplier.apply puts its text to the gate again, against the tree as  *)
(* it reads it now, and resolves the path. (Two steps in one: neither reads  *)
(* what the other's rivals write.) ...                                       *)
ApplyBegins(w, d) ==
    /\ ascender[w].pc = "idle" /\ d.status = "approved"
    /\ \E before \in Versions \cup {Unread} :
         LET passes == Assess(d.module, before, d.after) \in {"approve", "revise"} IN
         /\ ReadCurrent(d.module, before)
         /\ ascender' = [ascender EXCEPT ![w] =
              [pc |-> IF passes THEN "open" ELSE "note", seq |-> d.seq, module |-> FileOf[d.module],
               after |-> d.after, fd |-> "none", applied |-> FALSE]]
         /\ regated' = IF passes
                       THEN regated \cup {[path |-> d.module, after |-> d.after, before |-> before]}
                       ELSE regated
    /\ UNCHANGED <<tree, listVars, diskVars, blessed, overlaps, cycleCount>>

Inside(w, m) == ascender[w].pc \in {"write", "replace"} /\ ascender[w].module = m

(* ... write_text opens the one .tmp of the module, which empties it ... *)
OpenTmp(w) ==
    /\ ascender[w].pc = "open"
    /\ LET m == ascender[w].module IN
       /\ tmpFile' = [tmpFile EXCEPT ![m] = "empty"]
       /\ overlaps' = IF \E o \in Ascenders : Inside(o, m) THEN overlaps \cup {m} ELSE overlaps
    /\ ascender' = [ascender EXCEPT ![w].pc = "write", ![w].fd = "tmp"]
    /\ UNCHANGED <<tree, listVars, staged, blessed, regated, cycleCount, upsets>>

(* (The disk may refuse; apply raises, the decision stays as it was, and what*)
(* is left of a .tmp the next open empties.)                                 *)
DiskFails(w) ==
    /\ ascender[w].pc \in {"open", "write"}
    /\ upsets < MaxUpsets /\ upsets' = upsets + 1
    /\ ascender' = [ascender EXCEPT ![w] = NotApplying]
    /\ UNCHANGED <<tree, listVars, diskVars, blessed, regated, overlaps, cycleCount>>

(* What a text written over the contents of an open file makes of it: a      *)
(* longer text leaves its tail behind.                                       *)
Over(old, new) == {new} \cup (IF old \in {"empty", new} THEN {} ELSE {"mixed"})

(* ... and writes into the file it opened, wherever that is by now ... *)
WriteTmp(w) ==
    /\ ascender[w].pc = "write"
    /\ LET a == ascender[w] IN
       CASE a.fd = "tmp" ->
              /\ \E c \in Over(tmpFile[a.module], a.after) : tmpFile' = [tmpFile EXCEPT ![a.module] = c]
              /\ UNCHANGED staged
         [] a.fd = "staged" ->
              /\ \E c \in Over(staged[a.module], a.after) : staged' = [staged EXCEPT ![a.module] = c]
              /\ UNCHANGED tmpFile
         [] OTHER -> UNCHANGED diskVars
    /\ ascender' = [ascender EXCEPT ![w].pc = "replace"]
    /\ UNCHANGED <<tree, listVars, blessed, regated, overlaps, cycleCount, upsets>>

(* ... os.replace: whoever has the .tmp open has the staged file open now,   *)
(* and without a .tmp it raises, which leaves the decision as it was ...     *)
Moved(o, m) ==
    IF ascender[o].pc = "write" /\ ascender[o].module = m
    THEN [ascender[o] EXCEPT !.fd = IF @ = "tmp" THEN "staged" ELSE "gone"]
    ELSE ascender[o]

ReplaceFile(w) ==
    /\ ascender[w].pc = "replace"
    /\ LET m == ascender[w].module IN
       IF tmpFile[m] = "none"
       THEN ascender' = [ascender EXCEPT ![w] = NotApplying] /\ UNCHANGED diskVars
       ELSE /\ staged' = [staged EXCEPT ![m] = tmpFile[m]]
            /\ tmpFile' = [tmpFile EXCEPT ![m] = "none"]
            /\ ascender' = [o \in Ascenders |->
                 IF o = w THEN [ascender[w] EXCEPT !.pc = "note", !.applied = TRUE] ELSE Moved(o, m)]
    /\ UNCHANGED <<tree, listVars, blessed, regated, overlaps, cycleCount, upsets>>

(* ... and the outcome, on whichever decision has that number by now. *)
NoteOutcome(w) ==
    /\ ascender[w].pc = "note"
    /\ LET a == ascender[w] IN
       decided' = {IF d.seq = a.seq
                   THEN [d EXCEPT !.status = IF a.applied THEN "applied" ELSE "apply_refused"]
                   ELSE d : d \in decided}
    /\ ascender' = [ascender EXCEPT ![w] = NotApplying]
    /\ UNCHANGED <<tree, queue, cycleSeq, diskVars, blessed, regated, overlaps, cycleCount, upsets>>

(* reset, and the end of the process, which takes the threads with it. *)
ResetAscent(dies) ==
    /\ upsets < MaxUpsets /\ upsets' = upsets + 1
    /\ queue' = {} /\ decided' = {} /\ cycleSeq' = 0
    /\ ascender' = IF dies THEN [w \in Ascenders |-> NotApplying] ELSE ascender
    /\ UNCHANGED <<tree, diskVars, blessed, regated, overlaps, cycleCount>>

(* Somebody promotes or edits a module of the running tree. *)
EditTree(m, v) ==
    /\ upsets < MaxUpsets /\ upsets' = upsets + 1
    /\ tree' = [tree EXCEPT ![m] = v]
    /\ UNCHANGED <<listVars, diskVars, ascender, blessed, regated, overlaps, cycleCount>>

AscentNext ==
    \/ \E w \in Ascenders :
         \/ \E d \in decided : ApplyBegins(w, d)
         \/ OpenTmp(w) \/ DiskFails(w) \/ WriteTmp(w) \/ ReplaceFile(w) \/ NoteOutcome(w)
    \/ \E path \in Spellings, v \in Versions, c \in Versions \cup {"none"} : RunCycle(path, v, c)
    \/ \E item \in queue, yes \in BOOLEAN : ResolveChange(item, yes)
    \/ \E dies \in BOOLEAN : ResetAscent(dies)
    \/ \E m \in SourceFiles, v \in Versions : EditTree(m, v)

AscentSpec == AscentInit /\ [][AscentNext]_ascentVars

-----------------------------------------------------------------------------
(* A text the Sovereign approved under a spelling of the file that touches no*)
(* guarded area, and that took nothing away from the text the second gate    *)
(* held it against: from what the tree offered then, if it could be read.    *)
Passed(m, v) ==
    \E g \in regated :
        /\ FileOf[g.path] = m /\ g.after = v
        /\ <<g.path, v>> \in blessed /\ g.path \notin Protected
        /\ Facts[v].parses /\ Public(g.before) \subseteq Public(v)
        /\ g.path \in TestFiles => TestCases(g.before) \subseteq TestCases(v)

(* What lies staged in a file passed the Sovereign and the second gate, under*)
(* the same spelling, whatever deaths, resets, edits and re-used numbers came*)
(* between; and it is a whole text, unless two applies of the file overlap.  *)
(* Nothing is said of the file's other spellings, of which one may be guarded*)
(* (apply.py:14: "A change that would now deny or escalate (broken parse,    *)
(* dropped public API, a forbidden/constitutional path) is refused" holds of *)
(* the text of the path), nor of what an unreadable file would have lost.    *)
StagedWasApproved ==
    \A m \in SourceFiles : staged[m] # "none" =>
        \/ staged[m] \in {"empty", "mixed"} /\ m \in overlaps
        \/ Passed(m, staged[m])
=============================================================================
