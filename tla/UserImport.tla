----------------------------- MODULE UserImport -----------------------------
(***************************************************************************)
(* The import of accounts and role rows from a CSV (utils/user_import.py   *)
(* and import_users of routers/users.py).  One pass reads and plans every  *)
(* row; the passwords are hashed off the loop; then accounts and roles are *)
(* written in one transaction.  Meanwhile accounts are made, renamed,      *)
(* deleted and granted roles by others, and other imports run.             *)
(***************************************************************************)
EXTENDS Naturals, Sequences, FiniteSets

CONSTANTS ImportReqs,     \* import requests
          ImpNames,       \* display names, letter case aside
          ImpMails,       \* email addresses
          NoEmail,         \* the blank cell, and the account without an address
          ImportFiles,    \* the files tried: [header, rows]
          MaxImportRows,  \* MAX_IMPORT_ROWS
          MaxAccounts,    \* bound: accounts ever made
          MaxImpChanges   \* bound: writes of others

ASSUME ImportAssumption ==
    /\ NoEmail \notin ImpMails /\ MaxImportRows \in Nat /\ MaxAccounts \in Nat /\ MaxImpChanges \in Nat
    /\ \A f \in ImportFiles : f.header \in {"good", "bad"}

VARIABLES imUser,   \* users
          imHeld,   \* role_assignments: how many rows give an account the role
          imMay,    \* the importer holds manage_roles and what the roles hold
          imReq,    \* the requests
          imMade,   \* accounts ever made: the identifiers used up
          imChanges \* writes of others so far

imVars == <<imUser, imHeld, imMay, imReq, imMade, imChanges>>

AccountIds == 1..MaxAccounts
(* A role of global scope is assigned site-wide, the other in the default  *)
(* competition of the import.                                              *)
ImpRoles == {"site", "comp"}
BlankRow == [name |-> NoEmail, mail |-> NoEmail, role |-> "none", valid |-> FALSE]
NoUserRow == [there |-> FALSE, name |-> NoEmail, mail |-> NoEmail]
IdleImport == [pc |-> "idle", file |-> [header |-> "good", rows |-> <<>>], plan |-> <<>>,
               raced |-> FALSE, answer |-> "none"]
Accounts == {a \in AccountIds : imUser[a].there}

ImportInit ==
    /\ imUser = [a \in AccountIds |-> NoUserRow]
    /\ imHeld = [a \in AccountIds |-> [r \in ImpRoles |-> 0]]
    /\ imMay = TRUE /\ imReq = [q \in ImportReqs |-> IdleImport] /\ imMade = 0 /\ imChanges = 0

Taken(name, mail) == \E a \in Accounts : imUser[a].name = name \/ (mail # NoEmail /\ imUser[a].mail = mail)
-----------------------------------------------------------------------------
(* Somebody else's write, which every import in flight may have overtaken. *)
Raced(reqs) == [q \in ImportReqs |-> IF reqs[q].pc = "planned" THEN [reqs[q] EXCEPT !.raced = TRUE] ELSE reqs[q]]
OthersWrite ==
    /\ imChanges < MaxImpChanges /\ imChanges' = imChanges + 1
    /\ imReq' = Raced(imReq)

AccountMade(name, mail) ==
    /\ ~Taken(name, mail) /\ imMade < MaxAccounts /\ imMade' = imMade + 1
    /\ imUser' = [imUser EXCEPT ![imMade + 1] = [there |-> TRUE, name |-> name, mail |-> mail]]
    /\ UNCHANGED <<imHeld, imMay>> /\ OthersWrite

(* delete_user; the role rows go by cascade.                               *)
AccountDeleted(a) ==
    /\ a \in Accounts
    /\ imUser' = [imUser EXCEPT ![a] = NoUserRow]
    /\ imHeld' = [imHeld EXCEPT ![a] = [r \in ImpRoles |-> 0]]
    /\ UNCHANGED <<imMay, imMade>> /\ OthersWrite

(* change_username: a case fix aside, the name must be no other account's. *)
AccountRenamed(a, name) ==
    /\ a \in Accounts /\ imUser[a].name # name /\ ~Taken(name, NoEmail)
    /\ imUser' = [imUser EXCEPT ![a].name = name]
    /\ UNCHANGED <<imHeld, imMay, imMade>> /\ OthersWrite

RoleGranted(a, r) ==
    /\ a \in Accounts /\ imHeld[a][r] = 0
    /\ imHeld' = [imHeld EXCEPT ![a][r] = 1]
    /\ UNCHANGED <<imUser, imMay, imMade>> /\ OthersWrite

ImporterNarrowed == imMay /\ imMay' = FALSE /\ UNCHANGED <<imUser, imHeld, imMade>> /\ OthersWrite
-----------------------------------------------------------------------------
(* parse_users_csv: blank lines are not data; a header without the needed  *)
(* columns, or with one twice, and a file over the cap are refused.        *)
ParsedRows(f) == SelectSeq(f.rows, LAMBDA row : row # BlankRow)
Parses(f) == f.header = "good" /\ Len(ParsedRows(f)) <= MaxImportRows

MatchesOf(row) ==
    LET byName == {a \in Accounts : imUser[a].name = row.name}
        byMail == {a \in Accounts : row.mail # NoEmail /\ imUser[a].mail = row.mail}
    IN  byName \cup byMail

(* A valid row earlier in the file already names the account or the        *)
(* address: only rows that were not duplicates themselves were noted.      *)
SeenBefore_No(rows, i) == FALSE
SeenBefore(rows, i) ==
    LET noted[k \in 0..Len(rows)] ==
            IF k = 0 THEN {}
            ELSE IF rows[k].valid /\ ~\E n \in noted[k - 1] :
                        rows[n].name = rows[k].name \/ (rows[k].mail # NoEmail /\ rows[n].mail = rows[k].mail)
                 THEN noted[k - 1] \cup {k} ELSE noted[k - 1]
    IN  \E n \in noted[i - 1] :
            rows[n].name = rows[i].name \/ (rows[i].mail # NoEmail /\ rows[n].mail = rows[i].mail)

(* plan_user_import of one row: `who` is the account it is about, 0 for a  *)
(* new one.                                                                *)
RowPlan(rows, i) ==
    LET row == rows[i]
        found == MatchesOf(row)
        who == IF found = {} THEN 0 ELSE CHOOSE a \in found : TRUE
        failed == [status |-> "error", who |-> 0, role |-> "none"]
        role == IF row.role \notin ImpRoles \/ ~imMay \/ (who # 0 /\ imHeld[who][row.role] > 0) THEN "none" ELSE row.role
    IN  CASE ~row.valid -> failed
          [] row.valid /\ SeenBefore(rows, i) -> [status |-> "skip", who |-> 0, role |-> "none"]
          [] row.valid /\ ~SeenBefore(rows, i) /\ (Cardinality(found) > 1 \/ row.role = "unknown") -> failed
          [] OTHER -> [status |-> IF who = 0 THEN "create" ELSE "skip", who |-> who, role |-> role]

ImportPlans(q, f) ==
    /\ imReq[q].pc = "idle" /\ Parses(f)
    /\ imReq' = [imReq EXCEPT ![q] = [pc |-> "planned", file |-> f, raced |-> FALSE, answer |-> "none",
                    plan |-> [i \in 1..Len(ParsedRows(f)) |-> RowPlan(ParsedRows(f), i)]]]
    /\ UNCHANGED <<imUser, imHeld, imMay, imMade, imChanges>>

(* The dry run answers with the plan and writes nothing; an unreadable     *)
(* file is refused.                                                        *)
ImportPreviews(q, f) ==
    /\ imReq[q].pc = "idle"
    /\ imReq' = [imReq EXCEPT ![q].answer = IF Parses(f) THEN "preview" ELSE "refused"]
    /\ UNCHANGED <<imUser, imHeld, imMay, imMade, imChanges>>

ToCreate(q) == {i \in DOMAIN imReq[q].plan : imReq[q].plan[i].status = "create"}
ToAssign(q) == {i \in DOMAIN imReq[q].plan : imReq[q].plan[i].role # "none"}
ImportRows(q) == ParsedRows(imReq[q].file)

(* flush: the new accounts, against the unique name and address.           *)
FlushClashes(q) == \E i \in ToCreate(q) : Taken(ImportRows(q)[i].name, ImportRows(q)[i].mail)
                     \/ \E j \in ToCreate(q) \ {i} : ImportRows(q)[j].name = ImportRows(q)[i].name
                            \/ (ImportRows(q)[i].mail # NoEmail /\ ImportRows(q)[j].mail = ImportRows(q)[i].mail)

NewId(q, i) == imMade + Cardinality({k \in ToCreate(q) : k <= i})
SubjectOf(q, i) == IF imReq[q].plan[i].who # 0 THEN imReq[q].plan[i].who ELSE NewId(q, i)

(* commit: the role rows.  The unique constraint does not see two rows     *)
(* without a competition; an account deleted since fails its foreign key.  *)
Given(q, a, r) == Cardinality({i \in ToAssign(q) : SubjectOf(q, i) = a /\ imReq[q].plan[i].role = r})
CommitClashes(q) ==
    \/ \E i \in ToAssign(q) : imReq[q].plan[i].who # 0 /\ imReq[q].plan[i].who \notin Accounts
    \/ \E a \in AccountIds : Given(q, a, "comp") > 0 /\ imHeld[a]["comp"] + Given(q, a, "comp") > 1

ImportAnswers(q, ans) == [Raced([imReq EXCEPT ![q].pc = "done"]) EXCEPT ![q].answer = ans]

ImportWrites(q) ==
    /\ imReq[q].pc = "planned" /\ ~FlushClashes(q) /\ ~CommitClashes(q)
    /\ imMade + Cardinality(ToCreate(q)) <= MaxAccounts
    /\ imMade' = imMade + Cardinality(ToCreate(q))
    /\ imUser' = [a \in AccountIds |->
                    IF \E i \in ToCreate(q) : NewId(q, i) = a
                    THEN LET i == CHOOSE k \in ToCreate(q) : NewId(q, k) = a
                         IN  [there |-> TRUE, name |-> ImportRows(q)[i].name, mail |-> ImportRows(q)[i].mail]
                    ELSE imUser[a]]
    /\ imHeld' = [a \in AccountIds |-> [r \in ImpRoles |-> imHeld[a][r] + Given(q, a, r)]]
    /\ imReq' = ImportAnswers(q, "imported")
    /\ UNCHANGED <<imMay, imChanges>>

(* The IntegrityError of the flush is not caught: a 500.  That of the      *)
(* commit is a 409.  Nothing is written either way.                        *)
ImportConflicts(q) ==
    /\ imReq[q].pc = "planned"
    /\ FlushClashes(q) \/ CommitClashes(q)
    /\ imReq' = [imReq EXCEPT ![q].pc = "done", ![q].answer = IF FlushClashes(q) THEN "failed" ELSE "conflict"]
    /\ UNCHANGED <<imUser, imHeld, imMay, imMade, imChanges>>
-----------------------------------------------------------------------------
ImportNext ==
    \/ \E q \in ImportReqs :
        \/ \E f \in ImportFiles : ImportPlans(q, f) \/ ImportPreviews(q, f)
        \/ ImportWrites(q) \/ ImportConflicts(q)
    \/ \E n \in ImpNames, m \in ImpMails \cup {NoEmail} : AccountMade(n, m)
    \/ \E a \in AccountIds :
        \/ AccountDeleted(a)
        \/ \E n \in ImpNames : AccountRenamed(a, n)
        \/ \E r \in ImpRoles : RoleGranted(a, r)
    \/ ImporterNarrowed

ImportSpec == ImportInit /\ [][ImportNext]_imVars
-----------------------------------------------------------------------------
ImportTypeOK ==
    /\ DOMAIN imUser = AccountIds /\ imMay \in BOOLEAN /\ imMade \in 0..MaxAccounts /\ imChanges \in 0..MaxImpChanges
    /\ \A a \in AccountIds : imUser[a].there \in BOOLEAN /\ \A r \in ImpRoles : imHeld[a][r] \in Nat
    /\ \A q \in ImportReqs : imReq[q].pc \in {"idle", "planned", "done"}

(* Two rows of one file that stand for one account: the first by its name, *)
(* the second by its address.                                              *)
Aliased(q) == \E i, j \in ToAssign(q) : i # j /\ imReq[q].plan[i].who # 0
                  /\ imReq[q].plan[i].who = imReq[q].plan[j].who

(* Whatever duplicates a file holds, against itself and against the        *)
(* directory, an import that no other write overtook is written whole, and *)
(* leaves no two accounts on one name or address, no role given twice.     *)
AloneIsWritten ==
    \A q \in ImportReqs : imReq[q].answer \in {"failed", "conflict"} => imReq[q].raced \/ Aliased(q)
HandlesAreUnique ==
    \A a, b \in Accounts : a # b => /\ imUser[a].name # imUser[b].name
                                    /\ imUser[a].mail = imUser[b].mail => imUser[a].mail = NoEmail
GivenOnceUnlessOverlapped ==
    \A a \in AccountIds, r \in ImpRoles :
        imHeld[a][r] > 1 => r = "site" /\ \E q \in ImportReqs : imReq[q].raced \/ Aliased(q)

(* A second import of a file that was written adds nothing: every row of   *)
(* it is skipped.                                                          *)
AgainAddsNothing ==
    \A q \in ImportReqs :
        (imReq[q].answer = "imported" /\ imChanges = 0) =>
            LET rows == ImportRows(q) IN
            \A i \in DOMAIN rows :
                RowPlan(rows, i).status # "create" /\ RowPlan(rows, i).role = "none"

ImportSafe == AloneIsWritten /\ HandlesAreUnique /\ GivenOnceUnlessOverlapped /\ AgainAddsNothing

(* import_users: "A conflicting account appeared while importing" is       *)
(* answered with a 409 that tells the operator to run the import again.    *)
ConflictIsAnswered == \A q \in ImportReqs : imReq[q].answer # "failed"

(* The import of accounts: what it reports is written, no handle is taken  *)
(* twice, no role is granted twice, and a second import of the same file   *)
(* adds nothing.                                                           *)
UsersImportSafe ==
    ImportTypeOK /\ ImportSafe
=============================================================================
