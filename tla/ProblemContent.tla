--------------------------- MODULE ProblemContent ---------------------------
(***************************************************************************)
(* The content of one challenge: its rows, and the objects they name.      *)
(* Covered are the test data of a programming problem                      *)
(* (routers/judge_problems.py, utils/judge_testdata.py), attachments       *)
(* (routers/attachments.py), publishing and deletion                       *)
(* (routers/challenges.py), reference checks, and the two importers        *)
(* (utils/problem_package.py create_problems, utils/challenge_yaml.py      *)
(* import_challenges).  The object store has no transactions: every        *)
(* operation puts or deletes objects before or after its commit.  A test   *)
(* case is a name, a zip the set of the cases in it.                       *)
(***************************************************************************)
EXTENDS Naturals, FiniteSets, Functions

CONSTANTS Authors,          \* requests in flight
          Cases,            \* test cases
          MaxCases,         \* MAX_CASES
          MaxKeys,          \* bound: objects ever stored
          MaxContentOps,    \* bound: requests made
          MaxContentFaults, \* bound: dying processes and failing deletes
          NoAuthor

ASSUME ContentAssumption == /\ {MaxCases, MaxKeys, MaxContentOps, MaxContentFaults} \subseteq Nat
                            /\ NoAuthor \notin Authors

VARIABLES ctState,   \* the challenge: draft, published or gone
          ctProb,    \* its judge problem: the row, its object_key, its manifest
          ctFiles,   \* keys of attachment rows
          ctImport,  \* keys of rows an import made (another challenge)
          ctStore,   \* objects: key -> what is in them
          ctKey,     \* keys handed out
          ctLock,    \* who holds the problem's row FOR UPDATE
          ctReq, ctOps,
          ctRefs,    \* reference checks queued or running
          ctKept,    \* ghost: the cases added and not deleted
          ctTorn,    \* ghost: a reader saw other cases than the manifest it read
          ctSpoilt,  \* ghost: a deletion was overtaken, or an import without cleanup failed
          ctFaults

ctVars == <<ctState, ctProb, ctFiles, ctImport, ctStore, ctKey, ctLock, ctReq, ctOps,
            ctRefs, ctKept, ctTorn, ctSpoilt, ctFaults>>

IdleAuthor == [pc |-> "idle", op |-> "", case |-> {}, key |-> 0, new |-> 0, seen |-> {}]
NoObject == <<>>

ContentInit ==
    /\ ctState = "draft" /\ ctProb = [row |-> FALSE, key |-> 0, cases |-> {}]
    /\ ctFiles = {} /\ ctImport = {} /\ ctStore = NoObject /\ ctKey = 0
    /\ ctLock = NoAuthor /\ ctReq = [a \in Authors |-> IdleAuthor] /\ ctOps = 0
    /\ ctRefs = 0 /\ ctKept = {} /\ ctTorn = FALSE /\ ctSpoilt = FALSE /\ ctFaults = 0

CtGoes(a, pc) == ctReq' = [ctReq EXCEPT ![a].pc = pc]
CtEnds(a) == ctReq' = [ctReq EXCEPT ![a] = IdleAuthor]
CtUnlocks(a) == ctLock' = IF ctLock = a THEN NoAuthor ELSE ctLock
Rows == UNCHANGED <<ctState, ctProb, ctFiles, ctImport, ctKept>>
Objects == UNCHANGED <<ctStore, ctKey>>
Marks == UNCHANGED <<ctTorn, ctSpoilt, ctFaults>>

(* A fresh object.                                                         *)
PutObject(content) ==
    /\ ctKey < MaxKeys /\ ctKey' = ctKey + 1
    /\ ctStore' = [k \in DOMAIN ctStore \cup {ctKey'} |->
                     IF k = ctKey' THEN content ELSE ctStore[k]]

DropObjects(K) == ctStore' = Restrict(ctStore, DOMAIN ctStore \ K) /\ UNCHANGED ctKey

CtBegins(a, op, pc, case) ==
    /\ ctReq[a].pc = "idle" /\ ctOps < MaxContentOps /\ ctState # "gone"
    /\ ctReq' = [ctReq EXCEPT ![a] = [IdleAuthor EXCEPT !.pc = pc, !.op = op, !.case = case]]
    /\ ctOps' = ctOps + 1

-----------------------------------------------------------------------------
(* add_testcase, upload_testcase, update_testcase, delete_testcase and     *)
(* update_problem: _problem_or_create.  Two that create the row at once:   *)
(* one fails on its unique challenge_id.                                   *)
RewriteBegins(a, op, c) ==
    /\ op \in {"add", "remove"} /\ CtBegins(a, op, "lock", {c})
    /\ ctProb' = [ctProb EXCEPT !.row = TRUE]
    /\ UNCHANGED <<ctState, ctFiles, ctImport, ctKept, ctLock, ctRefs>> /\ Objects /\ Marks

RewriteLocks_StaleRow(a) ==
    /\ ctReq[a].pc = "lock"
    /\ ctReq' = [ctReq EXCEPT ![a].pc = "put", ![a].key = ctProb.key, ![a].seen = ctProb.cases]
    /\ Rows /\ Objects /\ Marks /\ UNCHANGED <<ctOps, ctRefs, ctLock>>

(* _rewrite: the row FOR UPDATE, refreshed, and the zip it names.  The     *)
(* load fails when the row or the object is gone, find when the case is.   *)
RewriteLocks(a) ==
    LET p == ctProb IN
    /\ ctReq[a].pc = "lock" /\ ctLock = NoAuthor
    /\ IF /\ p.row /\ (p.key # 0 => p.key \in DOMAIN ctStore)
          /\ (ctReq[a].op = "remove" => ctReq[a].case \subseteq p.cases)
       THEN /\ ctLock' = a
            /\ ctReq' = [ctReq EXCEPT ![a].pc = "put", ![a].key = p.key,
                                      ![a].seen = IF p.key = 0 THEN {} ELSE ctStore[p.key]]
       ELSE CtEnds(a) /\ UNCHANGED ctLock
    /\ Rows /\ Objects /\ Marks /\ UNCHANGED <<ctOps, ctRefs>>

Rewritten(r) == IF r.op = "add" THEN r.seen \cup r.case ELSE r.seen \ r.case

(* check_sizes, then the new zip under a new key (none for no cases).      *)
RewritePuts(a) ==
    LET new == Rewritten(ctReq[a]) IN
    /\ ctReq[a].pc = "put"
    /\ IF Cardinality(new) > MaxCases THEN CtEnds(a) /\ CtUnlocks(a) /\ Objects
       ELSE /\ IF new = {} THEN Objects ELSE PutObject(new)
            /\ ctReq' = [ctReq EXCEPT ![a].pc = "commit", ![a].new = IF new = {} THEN 0 ELSE ctKey']
            /\ UNCHANGED ctLock
    /\ Rows /\ Marks /\ UNCHANGED <<ctOps, ctRefs>>

RewriteCommits(a) ==
    LET r == ctReq[a] IN
    /\ r.pc = "commit" /\ CtGoes(a, "drop") /\ CtUnlocks(a)
    /\ ctProb' = [row |-> TRUE, key |-> r.new, cases |-> Rewritten(r)]
    /\ ctKept' = IF r.op = "add" THEN ctKept \cup r.case ELSE ctKept \ r.case
    /\ UNCHANGED <<ctState, ctFiles, ctImport, ctOps, ctRefs>> /\ Objects /\ Marks

(* The zip it replaced, best effort.                                       *)
RewriteDrops(a) ==
    /\ ctReq[a].pc = "drop" /\ CtEnds(a) /\ DropObjects({ctReq[a].key})
    /\ Rows /\ Marks /\ UNCHANGED <<ctOps, ctLock, ctRefs>>

(* Readers (the judge worker, get_testcase, _out, the exporters): the row, *)
(* and later the object it named.                                          *)
ReadRow(a) ==
    /\ ctReq[a].pc = "idle" /\ ctOps < MaxContentOps /\ ctProb.key # 0
    /\ ctReq' = [ctReq EXCEPT ![a] = [IdleAuthor EXCEPT !.pc = "load", !.op = "read",
                                          !.key = ctProb.key, !.seen = ctProb.cases]]
    /\ ctOps' = ctOps + 1
    /\ Rows /\ Objects /\ Marks /\ UNCHANGED <<ctLock, ctRefs>>

LoadTestdata(a) ==
    LET r == ctReq[a] IN
    /\ r.pc = "load" /\ CtEnds(a)
    /\ ctTorn' = (ctTorn \/ (r.key \in DOMAIN ctStore /\ ctStore[r.key] # r.seen))
    /\ Rows /\ Objects /\ UNCHANGED <<ctOps, ctLock, ctRefs, ctSpoilt, ctFaults>>

-----------------------------------------------------------------------------
(* publish_challenge wants a test case; unpublish_challenge nothing.       *)
PublishChallenge(a) ==
    /\ CtBegins(a, "publish", "state", {}) /\ ctProb.cases # {}
    /\ Rows /\ Objects /\ Marks /\ UNCHANGED <<ctLock, ctRefs>>

UnpublishChallenge(a) ==
    /\ CtBegins(a, "unpublish", "state", {}) /\ ctState = "published"
    /\ Rows /\ Objects /\ Marks /\ UNCHANGED <<ctLock, ctRefs>>

StateCommits(a) ==
    /\ ctReq[a].pc = "state" /\ CtEnds(a)
    /\ ctState' = IF ctState = "gone" THEN "gone"
                  ELSE IF ctReq[a].op = "publish" THEN "published" ELSE "draft"
    /\ UNCHANGED <<ctProb, ctFiles, ctImport, ctKept, ctOps, ctLock, ctRefs>> /\ Objects /\ Marks

(* upload_attachment: the object, then the row, which needs the challenge. *)
AttachPuts(a) ==
    /\ CtBegins(a, "attach", "put_file", {})
    /\ Rows /\ Objects /\ Marks /\ UNCHANGED <<ctLock, ctRefs>>

AttachStores(a) ==
    /\ ctReq[a].pc = "put_file" /\ PutObject({})
    /\ ctReq' = [ctReq EXCEPT ![a].pc = "file_row", ![a].new = ctKey']
    /\ Rows /\ Marks /\ UNCHANGED <<ctOps, ctLock, ctRefs>>

AttachCommits(a) ==
    /\ ctReq[a].pc = "file_row" /\ CtEnds(a)
    /\ IF ctState = "gone" THEN ctSpoilt' = TRUE /\ UNCHANGED ctFiles
       ELSE ctFiles' = ctFiles \cup {ctReq[a].new} /\ UNCHANGED ctSpoilt
    /\ UNCHANGED <<ctState, ctProb, ctImport, ctKept, ctOps, ctLock, ctRefs, ctTorn, ctFaults>>
    /\ Objects

(* delete_attachment: the object, then the row.                            *)
DetachDrops(a, k) ==
    /\ k \in ctFiles /\ ctReq[a].pc = "idle" /\ ctOps < MaxContentOps
    /\ ctReq' = [ctReq EXCEPT ![a] = [IdleAuthor EXCEPT !.pc = "file_gone", !.op = "detach",
                                                        !.key = k]]
    /\ ctOps' = ctOps + 1
    /\ DropObjects({k})
    /\ Rows /\ Marks /\ UNCHANGED <<ctLock, ctRefs>>

DetachCommits(a) ==
    /\ ctReq[a].pc = "file_gone" /\ CtEnds(a)
    /\ ctFiles' = ctFiles \ {ctReq[a].key}
    /\ UNCHANGED <<ctState, ctProb, ctImport, ctKept, ctOps, ctLock, ctRefs>> /\ Objects /\ Marks

(* delete_challenge: the keys, then their objects, then the rows, which    *)
(* waits for whoever has the problem's row locked.                         *)
OwnedKeys == ctFiles \cup {k \in {ctProb.key} : k # 0}

CaseDeleteReads(a) ==
    /\ ctReq[a].pc = "idle" /\ ctOps < MaxContentOps /\ ctState # "gone"
    /\ ctReq' = [ctReq EXCEPT ![a] = [IdleAuthor EXCEPT !.pc = "purge", !.op = "delete",
                                                        !.seen = OwnedKeys]]
    /\ ctOps' = ctOps + 1
    /\ Rows /\ Objects /\ Marks /\ UNCHANGED <<ctLock, ctRefs>>

DeletePurges(a) ==
    /\ ctReq[a].pc = "purge" /\ CtGoes(a, "remove") /\ DropObjects(ctReq[a].seen)
    /\ Rows /\ Marks /\ UNCHANGED <<ctOps, ctLock, ctRefs>>

CaseDeleteCommits(a) ==
    /\ ctReq[a].pc = "remove" /\ ctLock = NoAuthor /\ CtEnds(a)
    /\ ctState' = "gone" /\ ctProb' = [row |-> FALSE, key |-> 0, cases |-> {}]
    /\ ctFiles' = {} /\ ctKept' = {} /\ ctRefs' = 0
    /\ ctSpoilt' = (ctSpoilt \/ ~ (OwnedKeys \subseteq ctReq[a].seen))
    /\ UNCHANGED <<ctImport, ctOps, ctLock, ctTorn, ctFaults>> /\ Objects

-----------------------------------------------------------------------------
(* run_reference_check: one at a time, counted under the problem's lock.   *)
ReferenceBegins(a) ==
    /\ CtBegins(a, "reference", "count", {}) /\ ctProb.cases # {}
    /\ Rows /\ Objects /\ Marks /\ UNCHANGED <<ctLock, ctRefs>>

ReferenceLocks(a) ==
    /\ ctReq[a].pc = "count" /\ ctLock = NoAuthor
    /\ IF ctRefs > 0 \/ ~ ctProb.row THEN CtEnds(a) /\ UNCHANGED ctLock
       ELSE CtGoes(a, "queue") /\ ctLock' = a
    /\ Rows /\ Objects /\ Marks /\ UNCHANGED <<ctOps, ctRefs>>

ReferenceQueues(a) ==
    /\ ctReq[a].pc = "queue" /\ CtEnds(a) /\ CtUnlocks(a) /\ ctRefs' = ctRefs + 1
    /\ Rows /\ Objects /\ Marks /\ UNCHANGED ctOps

(* The judge is done with it.                                              *)
ReferenceJudged ==
    /\ ctRefs > 0 /\ ctRefs' = ctRefs - 1
    /\ Rows /\ Objects /\ Marks /\ UNCHANGED <<ctReq, ctOps, ctLock>>

(* create_problems ("package") and import_challenges ("bundle"): objects   *)
(* first, one commit at the end.  A package that fails takes its objects   *)
(* with it, a bundle does not.                                             *)
PackageBegins(a, op) ==
    /\ op \in {"package", "bundle"} /\ CtBegins(a, op, "import", {}) /\ ctImport = {}
    /\ Rows /\ Objects /\ Marks /\ UNCHANGED <<ctLock, ctRefs>>

ImportStores(a) ==
    /\ ctReq[a].pc = "import" /\ PutObject({})
    /\ ctReq' = [ctReq EXCEPT ![a].pc = "import_row", ![a].new = ctKey']
    /\ Rows /\ Marks /\ UNCHANGED <<ctOps, ctLock, ctRefs>>

PackageCommits(a) ==
    /\ ctReq[a].pc = "import_row" /\ CtEnds(a)
    /\ ctImport' = ctImport \cup {ctReq[a].new}
    /\ UNCHANGED <<ctState, ctProb, ctFiles, ctKept, ctOps, ctLock, ctRefs>> /\ Objects /\ Marks

PackageFails_NoCleanup(a) ==
    /\ ctReq[a].pc = "import_row" /\ CtEnds(a)
    /\ ctSpoilt' = (ctSpoilt \/ ctReq[a].op = "bundle") /\ Objects
    /\ Rows /\ UNCHANGED <<ctOps, ctLock, ctRefs, ctTorn, ctFaults>>

PackageFails(a) ==
    /\ ctReq[a].pc = "import_row" /\ CtEnds(a)
    /\ IF ctReq[a].op = "package" THEN DropObjects({ctReq[a].new}) /\ UNCHANGED ctSpoilt
       ELSE Objects /\ ctSpoilt' = TRUE
    /\ Rows /\ UNCHANGED <<ctOps, ctLock, ctRefs, ctTorn, ctFaults>>

(* The process dies, or a request's delete fails: what it still had to do  *)
(* is not done.                                                            *)
AuthorCrash(a) ==
    /\ ctReq[a].pc # "idle" /\ ctFaults < MaxContentFaults
    /\ CtEnds(a) /\ CtUnlocks(a) /\ ctFaults' = ctFaults + 1
    /\ Rows /\ Objects /\ UNCHANGED <<ctOps, ctRefs, ctTorn, ctSpoilt>>

ContentNext ==
    \/ \E a \in Authors :
         \/ \E c \in Cases, op \in {"add", "remove"} : RewriteBegins(a, op, c)
         \/ RewriteLocks(a) \/ RewritePuts(a) \/ RewriteCommits(a) \/ RewriteDrops(a)
         \/ ReadRow(a) \/ LoadTestdata(a)
         \/ PublishChallenge(a) \/ UnpublishChallenge(a) \/ StateCommits(a)
         \/ AttachPuts(a) \/ AttachStores(a) \/ AttachCommits(a)
         \/ \E k \in ctFiles : DetachDrops(a, k)
         \/ DetachCommits(a) \/ CaseDeleteReads(a) \/ DeletePurges(a) \/ CaseDeleteCommits(a)
         \/ ReferenceBegins(a) \/ ReferenceLocks(a) \/ ReferenceQueues(a)
         \/ \E op \in {"package", "bundle"} : PackageBegins(a, op)
         \/ ImportStores(a) \/ PackageCommits(a) \/ PackageFails(a) \/ AuthorCrash(a)
    \/ ReferenceJudged

ContentSpec == ContentInit /\ [][ContentNext]_ctVars

-----------------------------------------------------------------------------
(* Rows, objects and requests are of the shape the code gives them.        *)
ContentTypeOK ==
    /\ ctState \in {"draft", "published", "gone"}
    /\ ctProb \in [row : BOOLEAN, key : 0..MaxKeys, cases : SUBSET Cases]
    /\ ctFiles \subseteq 1..ctKey /\ ctImport \subseteq 1..ctKey
    /\ DOMAIN ctStore \subseteq 1..ctKey /\ ctLock \in Authors \cup {NoAuthor}
    /\ \A a \in Authors : ctReq[a].key \in 0..MaxKeys /\ ctReq[a].new \in 0..MaxKeys
    /\ ctOps \in 0..MaxContentOps /\ ctRefs \in Nat /\ ctFaults \in 0..MaxContentFaults

(* Of two edits at once neither is lost: the manifest is what was added    *)
(* and not deleted, whoever overlapped.                                    *)
NoEditLost == ctProb.cases = ctKept

(* The manifest's zip is there and holds its cases, except while the       *)
(* challenge is being deleted, or when that was cut off.                   *)
RowHasItsZip ==
    (\A a \in Authors : ctReq[a].pc # "remove") /\ ctFaults = 0 /\ ctProb.key # 0
        => ctProb.key \in DOMAIN ctStore /\ ctStore[ctProb.key] = ctProb.cases

(* A reader that finds the zip finds the cases of the manifest it read.    *)
ReadsAreWhole == ~ ctTorn

(* Once everything is over, every object has a row that names it.          *)
NothingLeftUnlessSpoilt ==
    (\A a \in Authors : ctReq[a].pc = "idle") /\ ctFaults = 0 /\ ~ ctSpoilt
        => DOMAIN ctStore \subseteq OwnedKeys \cup ctImport

(* One reference check of a problem at a time.                             *)
OneReference == ctRefs <= 1

ContentSafe == /\ NoEditLost /\ RowHasItsZip /\ ReadsAreWhole
               /\ NothingLeftUnlessSpoilt /\ OneReference
=============================================================================
