------------------------ MODULE ChallengeAuthoring -------------------------
(***************************************************************************)
(* The flag challenges of one competition: staff create, edit, publish,    *)
(* delete, export and import them (routers/challenges.py,                  *)
(* utils/challenge_yaml.py, models/challenge.py), and one competitor opens *)
(* and solves them through the unlock chain.  An edit is a PATCH: merged   *)
(* into the row the request read, checked there, and committed without a   *)
(* lock; the ORM writes only the columns that differ from what was read.   *)
(* Programming challenges are ProblemContent's.  An option list is the set *)
(* of its members that some request names as the answer.                   *)
(***************************************************************************)
EXTENDS Naturals, FiniteSets

CONSTANTS Setters,        \* staff requests in flight
          Problems,       \* challenge ids (and titles) that may ever exist
          Opts,           \* flags and multiple-choice answers
          ChoiceLists,    \* option lists
          MaxSetterOps    \* bound: requests that create, edit or delete

ASSUME AuthoringAssumption == MaxSetterOps \in Nat /\ ChoiceLists \subseteq (SUBSET Opts) \ {{}}

VARIABLES chRow,       \* challenge rows
          chReq,       \* staff requests
          chPerInstance, \* challenges whose deployment is in unique_per_instance mode
          chZip,       \* the last exported bundle: one manifest per challenge
          chOps,       \* such requests begun
          chTeam,      \* the competitor is on a team: there is a subject
          chSolved,    \* challenges the subject has solved
          chVisit,     \* the competitor's request in flight
          chShown,     \* challenges whose connection_info they were shown
          chEver,      \* ghost: challenges they ever solved
          chOverlap,   \* ghost: challenges two staff requests held at once
          chSwitched,  \* ghost: challenges switched, imported or left by their deployment with no flag
          chRegated    \* ghost: challenges whose prerequisites were edited

chVars == <<chRow, chReq, chPerInstance, chZip, chOps, chTeam, chSolved, chVisit, chShown, chEver,
            chOverlap, chSwitched, chRegated>>

FlagTypes == {"static", "regex", "multiple_choice"}
NoHash == [ans |-> "none", ci |-> FALSE]
NoRow == [there |-> FALSE, published |-> FALSE, type |-> "static", ci |-> FALSE, hash |-> NoHash,
          regex |-> FALSE, choices |-> {}, prereq |-> {}, dynamic |-> FALSE, points |-> 2, min |-> 0]
NoFields == [f \in {} |-> TRUE]
SetterIdle == [pc |-> "idle", c |-> "none", set |-> NoFields, bare |-> FALSE]
NoVisit == [pc |-> "idle", c |-> "none", prereq |-> {}]
NoSpec == [there |-> FALSE, regex |-> FALSE, visible |-> FALSE, dynamic |-> FALSE, points |-> 2,
           min |-> 0, prereq |-> {}, unique |-> FALSE]

AuthoringInit ==
    /\ chRow = [c \in Problems |-> NoRow]
    /\ chReq = [r \in Setters |-> SetterIdle]
    /\ chPerInstance = {} /\ chZip = [c \in Problems |-> NoSpec]
    /\ chOps = 0
    /\ chTeam = FALSE /\ chSolved = {} /\ chVisit = NoVisit /\ chShown = {} /\ chEver = {}
    /\ chOverlap = {} /\ chSwitched = {} /\ chRegated = {}

RowsThere == {c \in Problems : chRow[c].there}

(* Challenge.has_flag.                                                     *)
HasFlag(row) ==
    CASE row.type = "regex" -> row.regex
      [] row.type = "multiple_choice" -> row.hash # NoHash /\ row.choices # {}
      [] OTHER -> row.hash # NoHash

(* A flag to grade against: the challenge's own, or one rendered per       *)
(* instance (deployment_flag_mode).                                        *)
Gradeable(c) == HasFlag(chRow[c]) \/ c \in chPerInstance

(* _apply_flag: a pattern, or the salted hash under the row's settings.    *)
ApplyFlag(row, flag) ==
    IF row.type = "regex" THEN [row EXCEPT !.regex = TRUE, !.hash = NoHash]
    ELSE [row EXCEPT !.hash = [ans |-> flag, ci |-> row.ci], !.regex = FALSE]

(* _validate_scoring.                                                      *)
ScoringValid(row) == row.dynamic => row.min # 0 /\ row.min <= row.points

(* _validate_prerequisites.                                                *)
PrereqsValid(c, ids) == c \notin ids /\ ids \subseteq RowsThere

(* _validate_multiple_choice, for a list that is there.                    *)
OptionsValid(list, flag) == list # {} => flag \in list

-----------------------------------------------------------------------------
Competitor == UNCHANGED <<chTeam, chSolved, chVisit, chShown, chEver>>
SetterEnds(r) == chReq' = [chReq EXCEPT ![r] = SetterIdle]
MayBegin(r) == chReq[r].pc = "idle" /\ chOps < MaxSetterOps
Begins(r) == MayBegin(r) /\ chOps' = chOps + 1
Holding(c) == {r \in Setters : chReq[r].pc # "idle" /\ chReq[r].c = c}
Overlaps(r, c) == chOverlap' = IF Holding(c) \ {r} = {} THEN chOverlap ELSE chOverlap \cup {c}

(* create_challenge: a draft.  Options without an answer, or an answer     *)
(* without options, are accepted.  (Case sensitivity and scoring start at  *)
(* their defaults here: an edit changes them.)                             *)
CreateChallenge(r, c, type, flag, list, prereq) ==
    LET row == [NoRow EXCEPT !.there = TRUE, !.type = type, !.prereq = prereq,
                             !.choices = list] IN
    /\ Begins(r) /\ ~chRow[c].there /\ Holding(c) = {}
    /\ PrereqsValid(c, prereq)
    /\ type # "multiple_choice" => list = {}
    /\ flag # "none" => OptionsValid(list, flag)
    /\ chRow' = [chRow EXCEPT ![c] = IF flag = "none" THEN row ELSE ApplyFlag(row, flag)]
    /\ chOverlap' = chOverlap \ {c} /\ chSwitched' = chSwitched \ {c} /\ chRegated' = chRegated \ {c}
    /\ chShown' = chShown \ {c} /\ chEver' = chEver \ {c}
    /\ UNCHANGED <<chReq, chPerInstance, chZip, chTeam, chSolved, chVisit>>

-----------------------------------------------------------------------------
(* update_challenge.  A body is the record of the fields it provides.      *)
Bodies ==
    [flag : Opts] \cup [type : FlagTypes] \cup [type : FlagTypes, flag : Opts]
    \cup [ci : BOOLEAN] \cup [ci : BOOLEAN, flag : Opts]
    \cup [choices : ChoiceLists] \cup [choices : ChoiceLists, flag : Opts]
    \cup [type : {"multiple_choice"}, choices : ChoiceLists, flag : Opts]
    \cup [points : 1..2] \cup [min : 1..2] \cup [dynamic : {TRUE}, min : 1..2]
    \cup [prereq : SUBSET Problems]

Has(body, f) == f \in DOMAIN body

(* setattr of every field, and an option list only for multiple choice.    *)
Merged(row, body) ==
    LET set == [f \in DOMAIN row |-> IF Has(body, f) THEN body[f] ELSE row[f]]
    IN  IF set.type = "multiple_choice" THEN set ELSE [set EXCEPT !.choices = {}]

(* The refusals, in terms of the merged row: a changed option list needs   *)
(* its answer again, and changed flag settings the flag - if the row, as   *)
(* merged, has one.                                                        *)
Accepted(c, row, body) ==
    LET new == Merged(row, body) IN
    /\ ScoringValid(new)
    /\ Has(body, "prereq") => PrereqsValid(c, new.prereq)
    /\ new.type = "multiple_choice" =>
           /\ Has(body, "choices") /\ ~Has(body, "flag") => row.hash = NoHash
           /\ Has(body, "flag") => OptionsValid(new.choices, body.flag)
    /\ ~Has(body, "flag") /\ (Has(body, "ci") \/ Has(body, "type")) => ~HasFlag(new)

(* The columns that differ, and the hash whenever it was salted anew.      *)
Written(row, new, body) ==
    {f \in DOMAIN row : row[f] # new[f]}
    \cup (IF Has(body, "flag") /\ new.type # "regex" THEN {"hash"} ELSE {})

UpdateReads(r, c, body) ==
    LET row == chRow[c]
        new == IF Has(body, "flag") THEN ApplyFlag(Merged(row, body), body.flag) ELSE Merged(row, body) IN
    /\ Begins(r) /\ row.there /\ Accepted(c, row, body)
    /\ chReq' = [chReq EXCEPT ![r] = [pc |-> "update", c |-> c,
                                      set |-> [f \in Written(row, new, body) |-> new[f]],
                                      bare |-> Has(body, "type") /\ ~HasFlag(new)]]
    /\ UNCHANGED <<chRow, chPerInstance, chZip, chOverlap, chSwitched, chRegated>> /\ Competitor

UpdateCommits(r) ==
    LET q == chReq[r] c == q.c row == chRow[c] IN
    /\ q.pc = "update" /\ (row.there \/ q.set = NoFields)
    /\ chRow' = [chRow EXCEPT ![c] = [f \in DOMAIN row |-> IF Has(q.set, f) THEN q.set[f] ELSE row[f]]]
    /\ chSwitched' = IF q.bare /\ c \notin chPerInstance THEN chSwitched \cup {c} ELSE chSwitched
    /\ chRegated' = IF Has(q.set, "prereq") THEN chRegated \cup {c} ELSE chRegated
    /\ Overlaps(r, c) /\ SetterEnds(r) /\ UNCHANGED <<chPerInstance, chZip, chOps>> /\ Competitor

(* publish_challenge, unpublish_challenge.                                 *)
PublishReads(r, c, want) ==
    LET row == chRow[c] IN
    /\ Begins(r) /\ row.there /\ row.published # want
    /\ want => Gradeable(c)
    /\ chReq' = [chReq EXCEPT ![r] = [pc |-> "update", c |-> c,
                                      set |-> [published |-> want], bare |-> FALSE]]
    /\ UNCHANGED <<chRow, chPerInstance, chZip, chOverlap, chSwitched, chRegated>> /\ Competitor

(* upsert_deployment: not for a challenge with a flag of its own, though   *)
(* an edit may give it one later.                                          *)
DeployUnique(r, c) ==
    /\ Begins(r) /\ chRow[c].there /\ c \notin chPerInstance /\ ~HasFlag(chRow[c])
    /\ chPerInstance' = chPerInstance \cup {c}
    /\ UNCHANGED <<chRow, chReq, chZip, chOverlap, chSwitched, chRegated>> /\ Competitor

(* upsert_deployment with static flags, delete_deployment: published or    *)
(* not.                                                                    *)
DeployStatic(r, c) ==
    /\ Begins(r) /\ c \in chPerInstance
    /\ chPerInstance' = chPerInstance \ {c}
    /\ chSwitched' = IF HasFlag(chRow[c]) THEN chSwitched ELSE chSwitched \cup {c}
    /\ UNCHANGED <<chRow, chReq, chZip, chOverlap, chRegated>> /\ Competitor

(* delete_challenge: submissions and deployment go by cascade; the ids     *)
(* other challenges list as prerequisites stay.                            *)
DeleteReads(r, c) ==
    /\ Begins(r) /\ chRow[c].there
    /\ chReq' = [chReq EXCEPT ![r] = [SetterIdle EXCEPT !.pc = "delete", !.c = c]]
    /\ UNCHANGED <<chRow, chPerInstance, chZip, chOverlap, chSwitched, chRegated>> /\ Competitor

DeleteCommits(r) ==
    LET c == chReq[r].c IN
    /\ chReq[r].pc = "delete"
    /\ chRow' = [chRow EXCEPT ![c] = NoRow]
    /\ chSolved' = chSolved \ {c} /\ chPerInstance' = chPerInstance \ {c}
    /\ Overlaps(r, c) /\ SetterEnds(r)
    /\ UNCHANGED <<chZip, chOps, chTeam, chVisit, chShown, chEver, chSwitched, chRegated>>

(* The UPDATE finds no row.                                                *)
UpdateFails(r) ==
    /\ chReq[r].pc = "update" /\ ~chRow[chReq[r].c].there /\ chReq[r].set # NoFields
    /\ SetterEnds(r) /\ UNCHANGED <<chRow, chPerInstance, chZip, chOps, chOverlap, chSwitched, chRegated>> /\ Competitor

-----------------------------------------------------------------------------
(* export_challenges: a pattern and the deployment round-trip; a hash      *)
(* cannot be written out, and an option list has no place in the format.   *)
SpecOf(c) ==
    LET row == chRow[c] IN
    [there |-> row.there, regex |-> row.type = "regex" /\ row.regex, visible |-> row.published,
     dynamic |-> row.dynamic, points |-> row.points, min |-> IF row.dynamic THEN row.min ELSE 0,
     prereq |-> row.prereq \cap RowsThere, unique |-> c \in chPerInstance]

ExportChallenges ==
    /\ RowsThere # {}
    /\ chZip' = [c \in Problems |-> SpecOf(c)]
    /\ UNCHANGED <<chRow, chReq, chPerInstance, chOps, chOverlap, chSwitched, chRegated>> /\ Competitor

(* import_challenges: additive by title, in one transaction; the state is  *)
(* the manifest's, and prerequisites are resolved last, by title.          *)
Imported(c, titles) ==
    [NoRow EXCEPT !.there = TRUE, !.type = IF chZip[c].regex THEN "regex" ELSE "static",
                  !.regex = chZip[c].regex, !.published = chZip[c].visible,
                  !.dynamic = chZip[c].dynamic, !.points = chZip[c].points, !.min = chZip[c].min,
                  !.prereq = chZip[c].prereq \cap titles]

ImportChallenges ==
    LET fresh == {c \in Problems : chZip[c].there /\ ~chRow[c].there} IN
    /\ fresh # {} /\ \A c \in fresh : Holding(c) = {}
    /\ chRow' = [c \in Problems |-> IF c \in fresh THEN Imported(c, RowsThere \cup fresh) ELSE chRow[c]]
    /\ chPerInstance' = chPerInstance \cup {c \in fresh : chZip[c].unique}
    /\ chOverlap' = chOverlap \ fresh /\ chRegated' = chRegated \ fresh
    /\ chSwitched' = (chSwitched \ fresh) \cup {c \in fresh : ~chZip[c].regex /\ ~chZip[c].unique}
    /\ chShown' = chShown \ fresh /\ chEver' = chEver \ fresh
    /\ UNCHANGED <<chReq, chZip, chOps, chTeam, chSolved, chVisit>>

-----------------------------------------------------------------------------
(* The competitor joins a team: from now on there is a scoring subject.    *)
JoinsTeam ==
    /\ ~chTeam /\ chTeam' = TRUE
    /\ UNCHANGED <<chRow, chReq, chPerInstance, chZip, chOps, chSolved, chVisit, chShown, chEver, chOverlap,
                   chSwitched, chRegated>>

Staff == UNCHANGED <<chRow, chReq, chPerInstance, chZip, chOps, chTeam, chOverlap, chSwitched, chRegated>>

(* load_visible_challenge for a competitor.                                *)
Opens(c, pc) ==
    /\ chVisit.pc = "idle" /\ chRow[c].there /\ chRow[c].published
    /\ chVisit' = [pc |-> pc, c |-> c, prereq |-> chRow[c].prereq]

(* _is_locked and _redact_for_competitor: with no subject, nothing counts  *)
(* as solved.                                                              *)
IsLocked(prereq, solved) == ~(prereq \subseteq solved)


Redacted(prereq) == IsLocked(prereq, IF chTeam THEN chSolved ELSE {})

(* get_challenge and list_challenges: the row first, the solves after it.  *)
ViewReads(c) == Opens(c, "view") /\ UNCHANGED <<chSolved, chShown, chEver>> /\ Staff

ViewAnswers ==
    /\ chVisit.pc = "view"
    /\ chShown' = IF Redacted(chVisit.prereq) THEN chShown ELSE chShown \cup {chVisit.c}
    /\ chVisit' = NoVisit /\ UNCHANGED <<chSolved, chEver>> /\ Staff

(* submit_flag: a flag to grade against, a subject, and the prerequisites; *)
(* then the graded answer is recorded against the row, if it still exists. *)
SubmitReads(c) ==
    /\ Opens(c, "submit") /\ chTeam /\ Gradeable(c)
    /\ ~IsLocked(chRow[c].prereq, chSolved)
    /\ UNCHANGED <<chSolved, chShown, chEver>> /\ Staff

SubmitRecords ==
    /\ chVisit.pc = "submit"
    /\ chSolved' = IF chRow[chVisit.c].there THEN chSolved \cup {chVisit.c} ELSE chSolved
    /\ chEver' = chEver \cup chSolved'
    /\ chVisit' = NoVisit /\ UNCHANGED chShown /\ Staff

-----------------------------------------------------------------------------
AuthoringNext ==
    \/ \E r \in Setters :
        \/ MayBegin(r) /\ \E c \in Problems :
            \/ \E t \in FlagTypes, f \in Opts \cup {"none"}, l \in ChoiceLists \cup {{}},
                  p \in SUBSET RowsThere : CreateChallenge(r, c, t, f, l, p)
            \/ \E body \in Bodies : UpdateReads(r, c, body)
            \/ \E b \in BOOLEAN : PublishReads(r, c, b)
            \/ DeleteReads(r, c) \/ DeployUnique(r, c) \/ DeployStatic(r, c)
        \/ UpdateCommits(r) \/ UpdateFails(r) \/ DeleteCommits(r)
    \/ ExportChallenges \/ ImportChallenges
    \/ JoinsTeam
    \/ \E c \in Problems : ViewReads(c) \/ SubmitReads(c)
    \/ ViewAnswers \/ SubmitRecords

AuthoringSpec == AuthoringInit /\ [][AuthoringNext]_chVars

-----------------------------------------------------------------------------
AuthoringTypeOK ==
    /\ chRow \in [Problems -> [there : BOOLEAN, published : BOOLEAN, type : FlagTypes, ci : BOOLEAN,
                               hash : [ans : Opts \cup {"none"}, ci : BOOLEAN], regex : BOOLEAN,
                               choices : ChoiceLists \cup {{}}, prereq : SUBSET Problems,
                               dynamic : BOOLEAN, points : 1..2, min : 0..2]]
    /\ chPerInstance \subseteq RowsThere
    /\ \A r \in Setters : chReq[r].pc \in {"idle", "update", "delete"}
    /\ chOps \in 0..MaxSetterOps /\ chTeam \in BOOLEAN
    /\ chSolved \subseteq RowsThere /\ chShown \subseteq Problems /\ chEver \subseteq Problems
    /\ chVisit.pc \in {"idle", "view", "submit"}

Undisturbed == RowsThere \ chOverlap

(* Edited by one request at a time, whatever the order of the edits, a     *)
(* multiple-choice challenge offers its correct answer among its options,  *)
(* a stored hash is read under the settings it was made with, and a        *)
(* decaying value has a floor that its initial value respects.             *)
EditsAgreeUnlessOverlapped ==
    \A c \in Undisturbed : LET row == chRow[c] IN
        /\ row.type = "multiple_choice" /\ HasFlag(row) => row.hash.ans \in row.choices
        /\ row.type # "regex" /\ HasFlag(row) => row.hash.ci = row.ci
        /\ ScoringValid(row)

(* What competitors can open has a flag to grade against, of its own or    *)
(* per instance, unless its flag type was switched without one, it was     *)
(* imported without one, or the deployment it relied on was changed.       *)
PublishedUnlessSwitched ==
    \A c \in Undisturbed \ chSwitched : chRow[c].published => Gradeable(c)

(* Nobody solves a challenge, or is given its address, ahead of the chain  *)
(* that leads to it, unless staff changed that chain afterwards.           *)
ChainIsKept ==
    \A c \in RowsThere \ chRegated :
        c \in chShown \cup chEver => chRow[c].prereq \subseteq chEver

AuthoringSafe == EditsAgreeUnlessOverlapped /\ PublishedUnlessSwitched /\ ChainIsKept

(* publish_challenge refuses a challenge that has no flag: a published     *)
(* challenge would then have one.                                          *)
PublishedIsGradeable == \A c \in RowsThere : chRow[c].published => Gradeable(c)

(* _validate_prerequisites: every prerequisite is a challenge of the       *)
(* competition.                                                            *)
PrereqsAreReal == \A c \in RowsThere : chRow[c].prereq \subseteq RowsThere
=============================================================================
