------------------------------ MODULE Cloning ------------------------------
(***************************************************************************)
(* Cloning a competition (utils/competition_clone.py and the clone route   *)
(* of routers/competitions.py) while its authors keep working on it.  The  *)
(* clone is one transaction at READ COMMITTED: challenges, hints,          *)
(* attachments, programming problems and surveys are each read when their  *)
(* turn comes, and the stored objects are copied as it goes, outside the   *)
(* transaction.                                                            *)
(***************************************************************************)
EXTENDS Naturals, FiniteSets

CONSTANTS Originals,      \* challenges of the source that may ever exist
          MaxCloneEdits,  \* bound: edits of the source
          MaxCloneFaults  \* bound: deaths and failed storage calls

ASSUME CloneAssumption == MaxCloneEdits \in Nat /\ MaxCloneFaults \in Nat

VARIABLES clSrc,     \* the source's challenges, with their hint, attachment and test data rows
          clObj,     \* the source's stored objects
          clOpen,    \* the source's survey is open
          clPc,      \* the clone: the section that is next
          clNew,     \* the clone's rows
          clNewOpen, \* the clone's survey is open
          clCopies,  \* objects stored under the clone's keys
          clEdits,   \* edits so far
          clLeaving, \* a challenge whose objects are purged and whose row is about to go
          clFaults,  \* ghost: faults so far
          clBegan    \* ghost: the source as it was when the clone began, until it is edited

clVars == <<clSrc, clObj, clOpen, clPc, clNew, clNewOpen, clCopies, clEdits, clLeaving,
            clFaults, clBegan>>

FlagKinds == {"flag", "unique", "code"}
NoOriginal == [there |-> FALSE, published |-> FALSE, kind |-> "flag", prereq |-> {}, hint |-> FALSE,
               att |-> FALSE, data |-> FALSE]
Blobs == {"att", "data"}
Nowhere == {}

CloneInit ==
    /\ clSrc = [c \in Originals |-> NoOriginal] /\ clObj = {} /\ clOpen = TRUE
    /\ clPc = "idle" /\ clNew = [c \in Originals |-> NoOriginal] /\ clNewOpen = FALSE /\ clCopies = {}
    /\ clEdits = 0 /\ clLeaving = Nowhere /\ clFaults = 0
    /\ clBegan = [known |-> FALSE, src |-> [c \in Originals |-> NoOriginal]]

Existing == {c \in Originals : clSrc[c].there}

-----------------------------------------------------------------------------
(* The source's authors.  Each edit commits by itself.                     *)
Edits ==
    /\ clEdits < MaxCloneEdits /\ clEdits' = clEdits + 1
    /\ clBegan' = [clBegan EXCEPT !.known = FALSE]
    /\ UNCHANGED <<clOpen, clPc, clNew, clNewOpen, clCopies, clFaults>>

OriginalAdded(c, kind, prereq) ==
    /\ ~clSrc[c].there /\ prereq \subseteq Existing
    /\ clSrc' = [clSrc EXCEPT ![c] = [NoOriginal EXCEPT !.there = TRUE, !.kind = kind, !.prereq = prereq]]
    /\ UNCHANGED <<clObj, clLeaving>> /\ Edits

HintAdded(c) ==
    /\ clSrc[c].there /\ clSrc' = [clSrc EXCEPT ![c].hint = TRUE]
    /\ UNCHANGED <<clObj, clLeaving>> /\ Edits

(* An upload: the object, then the row.                                    *)
BlobAdded(c, b) ==
    /\ clSrc[c].there /\ c \notin clLeaving /\ (b = "data" => clSrc[c].kind = "code")
    /\ clSrc' = [clSrc EXCEPT ![c].att = (@ \/ b = "att"), ![c].data = (@ \/ b = "data")]
    /\ clObj' = clObj \cup {<<c, b>>}
    /\ UNCHANGED clLeaving /\ Edits

OriginalPublished(c) ==
    /\ clSrc[c].there /\ ~clSrc[c].published /\ (clSrc[c].kind = "code" => clSrc[c].data)
    /\ clSrc' = [clSrc EXCEPT ![c].published = TRUE]
    /\ UNCHANGED <<clObj, clLeaving>> /\ Edits

(* delete_challenge: the objects, then the row.                            *)
OriginalPurged(c) ==
    /\ clSrc[c].there /\ c \notin clLeaving
    /\ clObj' = {o \in clObj : o[1] # c} /\ clLeaving' = clLeaving \cup {c}
    /\ UNCHANGED clSrc /\ Edits

OriginalDeleted(c) ==
    /\ c \in clLeaving /\ clLeaving' = clLeaving \ {c}
    /\ clSrc' = [clSrc EXCEPT ![c] = NoOriginal]
    /\ clBegan' = [clBegan EXCEPT !.known = FALSE]
    /\ UNCHANGED <<clObj, clOpen, clPc, clNew, clNewOpen, clCopies, clEdits, clFaults>>

-----------------------------------------------------------------------------
SourceStays == UNCHANGED <<clSrc, clObj, clOpen, clEdits, clLeaving>>
ClGoes(from, to) == clPc = from /\ clPc' = to
Mapped == {c \in Originals : clNew[c].there}
Calm == UNCHANGED <<clFaults, clBegan>>

(* clone_competition_route and the new competition's own row.              *)
CloneStarts ==
    /\ ClGoes("idle", "challenges")
    /\ clBegan' = [known |-> clLeaving = Nowhere, src |-> clSrc]
    /\ SourceStays /\ UNCHANGED <<clNew, clNewOpen, clCopies, clFaults>>

(* The challenges, their state and flag columns verbatim, and then the     *)
(* prerequisites remapped to the copies that exist.  The deployment that   *)
(* gives a unique-flag challenge its flag is not among what is copied.     *)
CopyChallenges_NoRemap ==
    /\ ClGoes("challenges", "hints")
    /\ clNew' = [c \in Originals |->
                    IF clSrc[c].there
                    THEN [NoOriginal EXCEPT !.there = TRUE, !.published = clSrc[c].published,
                                            !.kind = clSrc[c].kind, !.prereq = clSrc[c].prereq]
                    ELSE NoOriginal]
    /\ SourceStays /\ Calm /\ UNCHANGED <<clNewOpen, clCopies>>

CopyChallenges ==
    /\ ClGoes("challenges", "hints")
    /\ clNew' = [c \in Originals |->
                    IF clSrc[c].there
                    THEN [NoOriginal EXCEPT !.there = TRUE, !.published = clSrc[c].published,
                                            !.kind = clSrc[c].kind, !.prereq = clSrc[c].prereq \cap Existing]
                    ELSE NoOriginal]
    /\ SourceStays /\ Calm /\ UNCHANGED <<clNewOpen, clCopies>>

(* challenge_map[...] of a challenge that appeared since: a KeyError, the  *)
(* rows are rolled back, and the objects copied so far stay.               *)
Unknown(section) == {c \in Existing : clSrc[c][section]} \ Mapped
RollsBack == clPc' = "failed" /\ clNew' = [c \in Originals |-> NoOriginal]

CopyHints ==
    /\ ClGoes("hints", "attachments") /\ Unknown("hint") = {}
    /\ clNew' = [c \in Originals |-> [clNew[c] EXCEPT !.hint = clSrc[c].there /\ clSrc[c].hint]]
    /\ SourceStays /\ Calm /\ UNCHANGED <<clNewOpen, clCopies>>

(* Each attachment, and each problem's test data: get and put; an object   *)
(* that is missing is passed over.                                         *)
Copied(b, cs) == {c \in cs : <<c, b>> \in clObj}

CopyAttachments ==
    LET found == Copied("att", {c \in Existing : clSrc[c].att}) IN
    /\ ClGoes("attachments", "problems") /\ Unknown("att") = {}
    /\ clCopies' = clCopies \cup {<<c, "att">> : c \in found}
    /\ clNew' = [c \in Originals |-> [clNew[c] EXCEPT !.att = c \in found]]
    /\ SourceStays /\ Calm /\ UNCHANGED clNewOpen

CopyProblems ==
    LET found == Copied("data", {c \in Existing : clSrc[c].data}) IN
    /\ ClGoes("problems", "surveys") /\ Unknown("data") = {}
    /\ clCopies' = clCopies \cup {<<c, "data">> : c \in found}
    /\ clNew' = [c \in Originals |-> [clNew[c] EXCEPT !.data = c \in found]]
    /\ SourceStays /\ Calm /\ UNCHANGED clNewOpen

(* The loop meets the unknown challenge after any of the others.           *)
CopyRaises(pc, section, before) ==
    /\ clPc = pc /\ Unknown(section) # {}
    /\ before \subseteq (Mapped \cap Existing)
    /\ clCopies' = IF section = "hint" THEN clCopies
                   ELSE clCopies \cup {<<c, section>> : c \in Copied(section, {d \in before : clSrc[d][section]})}
    /\ RollsBack /\ SourceStays /\ Calm /\ UNCHANGED clNewOpen

(* Surveys are cloned closed.                                              *)
CopySurveys ==
    /\ ClGoes("surveys", "commit") /\ clNewOpen' = FALSE
    /\ SourceStays /\ Calm /\ UNCHANGED <<clNew, clCopies>>

CloneCommits ==
    /\ ClGoes("commit", "done")
    /\ SourceStays /\ Calm /\ UNCHANGED <<clNew, clNewOpen, clCopies>>

CloneDies ==
    /\ clPc \notin {"idle", "done", "failed"} /\ clFaults < MaxCloneFaults
    /\ clFaults' = clFaults + 1
    /\ RollsBack /\ SourceStays /\ UNCHANGED <<clNewOpen, clCopies, clBegan>>

-----------------------------------------------------------------------------
CloneNext ==
    \/ \E c \in Originals :
        \/ \E k \in FlagKinds, p \in SUBSET Originals : OriginalAdded(c, k, p)
        \/ HintAdded(c) \/ (\E b \in Blobs : BlobAdded(c, b)) \/ OriginalPublished(c)
        \/ OriginalPurged(c) \/ OriginalDeleted(c)
    \/ CloneStarts \/ CopyChallenges \/ CopyHints \/ CopyAttachments \/ CopyProblems
    \/ \E before \in SUBSET Originals :
        \/ CopyRaises("hints", "hint", before)
        \/ CopyRaises("attachments", "att", before)
        \/ CopyRaises("problems", "data", before)
    \/ CopySurveys \/ CloneCommits \/ CloneDies

CloneSpec == CloneInit /\ [][CloneNext]_clVars

-----------------------------------------------------------------------------
OriginalRows == [there : BOOLEAN, published : BOOLEAN, kind : FlagKinds, prereq : SUBSET Originals,
                 hint : BOOLEAN, att : BOOLEAN, data : BOOLEAN]

CloneTypeOK ==
    /\ clSrc \in [Originals -> OriginalRows] /\ clNew \in [Originals -> OriginalRows]
    /\ clObj \subseteq Originals \X Blobs /\ clCopies \subseteq Originals \X Blobs
    /\ clPc \in {"idle", "challenges", "hints", "attachments", "problems", "surveys", "commit", "done", "failed"}
    /\ clOpen \in BOOLEAN /\ clNewOpen \in BOOLEAN /\ clEdits \in 0..MaxCloneEdits
    /\ clLeaving \subseteq Originals /\ clFaults \in 0..MaxCloneFaults

(* Whatever the authors do meanwhile, a finished clone refers only to      *)
(* itself: its unlock chains to its own challenges, its hints and files to *)
(* challenges it has, each file row to an object of its own.               *)
CloneStandsAlone ==
    clPc = "done" =>
        \A c \in Originals :
            /\ clNew[c].prereq \subseteq Mapped
            /\ (clNew[c].hint \/ clNew[c].att \/ clNew[c].data) => clNew[c].there
            /\ clNew[c].att => <<c, "att">> \in clCopies
            /\ clNew[c].data => <<c, "data">> \in clCopies

(* A clone of a source nobody edited meanwhile is the whole source, up to  *)
(* prerequisites that no longer exist; and no object is stored that a row  *)
(* of the clone does not account for, unless the clone failed.             *)
CloneIsWholeUnlessEdited ==
    clPc = "done" =>
        /\ clBegan.known => \A c \in Originals :
               clNew[c] = [clBegan.src[c] EXCEPT !.prereq = @ \cap {d \in Originals : clBegan.src[d].there}]
        /\ clCopies = {o \in Originals \X Blobs : clNew[o[1]][o[2]]}

CloneSafe == CloneStandsAlone /\ CloneIsWholeUnlessEdited
=============================================================================
