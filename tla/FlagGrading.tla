----------------------------- MODULE FlagGrading -----------------------------
(***************************************************************************)
(* Flag submissions to one challenge, graded at the same time              *)
(* (routers/submissions.submit_flag, utils/grading.record_grade and        *)
(* emit_grade).                                                            *)
(*                                                                         *)
(* Every request is one database transaction at READ COMMITTED: a query    *)
(* sees the rows committed when it starts, so what one statement read may  *)
(* be stale in the next.  Three things order concurrent requests:          *)
(*                                                                         *)
(*   - lock_subject, taken only for a multiple-choice challenge in a       *)
(*     competition with a guess limit;                                     *)
(*   - the partial unique index on awarded rows, on which an insert waits  *)
(*     for a rival that has not committed yet;                             *)
(*   - the row locks of the re-value UPDATE.                               *)
(*                                                                         *)
(* A request writes at most one Submission row, so rows are numbered by    *)
(* their requests.                                                         *)
(***************************************************************************)
EXTENDS Scoring, FiniteSets

CONSTANTS Requests,       \* POST /submit calls
          SubjectOf,      \* the team or user each one is credited to
          Contests,       \* settings of challenge and competition to consider
          MaxResets,      \* bound: guess resets by the staff
          MaxCrashes,     \* bound: requests that die
          NoRequest       \* nobody holds the lock

Subjects == {SubjectOf[r] : r \in Requests}

ASSUME GradingAssumption ==
    /\ IsFiniteSet(Requests)
    /\ NoRequest \notin Requests
    /\ \A c \in Contests :
          /\ c.challenge.scoring \in ScoringTypes
          /\ c.challenge.points \in Nat /\ c.challenge.minimum \in Nat
          /\ c.challenge.decay \in Nat
          /\ c.challenge.scoring = "dynamic" =>
                /\ c.challenge.decay >= 1
                /\ c.challenge.minimum <= c.challenge.points
          /\ c.choice \in BOOLEAN
          /\ c.limit \in Nat
          /\ c.penalty \in 0..100
    /\ MaxResets \in Nat /\ MaxCrashes \in Nat

(* A contest: its challenge; choice, whether flag_type is                  *)
(* "multiple_choice"; limit, the competition's mc_guess_limit, and         *)
(* penalty, its mc_penalty_pct, each 0 when null.  Nobody edits it while   *)
(* the requests run.                                                       *)
VARIABLES
    contest, \* the settings, one of Contests
    req,     \* the local state of each request
    sub,     \* the submissions table
    holder,  \* lock_subject: who holds the row lock of each subject
    told,    \* events emitted for each request
    overlap, \* history: two awards were being computed at the same time
    resets,  \* guess resets so far
    crashes  \* requests that died so far

gradingVars == <<contest, req, sub, holder, told, overlap, resets, crashes>>

RequestSteps == {"new", "cap", "grade", "prior", "wrong", "insert",
                 "sweep", "update", "commit", "attempted", "solved", "done"}

Request == [pc : RequestSteps, correct : BOOLEAN, award : BOOLEAN,
            first : BOOLEAN, base : Nat, points : Nat, wrong : Nat,
            sweep : SUBSET Requests]

Submission == [state : {"none", "pending", "committed"}, correct : BOOLEAN,
               duplicate : BOOLEAN, points : Nat, penalty : Nat,
               fresh : BOOLEAN]

NewRequest == [pc |-> "new", correct |-> FALSE, award |-> FALSE,
               first |-> FALSE, base |-> 0, points |-> 0, wrong |-> 0,
               sweep |-> {}]

NoSubmission == [state |-> "none", correct |-> FALSE, duplicate |-> FALSE,
                 points |-> 0, penalty |-> 0, fresh |-> FALSE]

GradingInit ==
    /\ contest \in Contests
    /\ req = [r \in Requests |-> NewRequest]
    /\ sub = [r \in Requests |-> NoSubmission]
    /\ holder = [s \in Subjects |-> NoRequest]
    /\ told = [r \in Requests |-> {}]
    /\ overlap = FALSE
    /\ resets = 0
    /\ crashes = 0

(***************************************************************************)
(* What a query sees.                                                      *)
(***************************************************************************)

Challenge == contest.challenge

(* The guesses of this contest are limited (submit_flag takes the lock).   *)
Capped == contest.choice /\ contest.limit # 0

Committed == {r \in Requests : sub[r].state = "committed"}

RowsOf(s) == {r \in Committed : SubjectOf[r] = s}

(* is_correct AND NOT is_duplicate                                         *)
AwardedRow(r) == sub[r].correct /\ ~sub[r].duplicate

Awarded == {r \in Committed : AwardedRow(r)}

(* subject_has_solved *)
HasSolved(s) == \E r \in RowsOf(s) : sub[r].correct

(* Mutant: everybody's guesses count. *)
AttemptCount_AnySubject(s) == Cardinality({r \in Committed : sub[r].fresh})

(* subject_attempt_count: rows after the last guess reset.                 *)
AttemptCount(s) == Cardinality({r \in RowsOf(s) : sub[r].fresh})

Goto(r, pc) == req' = [req EXCEPT ![r].pc = pc]

(* Mutant: the lock outlives its transaction. *)
Released_Never(r) == holder

(* The end of the transaction frees the subject's row lock.                *)
Released(r) ==
    [holder EXCEPT ![SubjectOf[r]] = IF @ = r THEN NoRequest ELSE @]

(***************************************************************************)
(* submit_flag                                                             *)
(***************************************************************************)

(* The gates: visibility, status, pause, team, prerequisites, rate limit.  *)
(* They read state this module does not keep, so any of them may refuse.   *)
Gate(r) ==
    /\ req[r].pc = "new"
    /\ \E pc \in {"done", IF Capped THEN "cap" ELSE "grade"} :
          Goto(r, pc)
    /\ UNCHANGED <<contest, sub, holder, told, overlap, resets, crashes>>

(* Mutant: the guesses are counted without the lock. *)
LockFree_Always(s) == TRUE

LockFree(s) == holder[s] = NoRequest

(* The guess cap: lock the subject, then refuse when nothing is solved and *)
(* the guesses are used up.                                                *)
CheckCap(r) ==
    /\ req[r].pc = "cap"
    /\ LockFree(SubjectOf[r])
    /\ IF ~HasSolved(SubjectOf[r]) /\ AttemptCount(SubjectOf[r]) >= contest.limit
       THEN Goto(r, "done") /\ UNCHANGED holder
       ELSE Goto(r, "grade") /\ holder' = [holder EXCEPT ![SubjectOf[r]] = r]
    /\ UNCHANGED <<contest, sub, told, overlap, resets, crashes>>

(***************************************************************************)
(* record_grade                                                            *)
(***************************************************************************)

(* The answer is compared with the flag; a correct one looks for an        *)
(* earlier solve of the subject.                                           *)
Grade(r) ==
    /\ req[r].pc = "grade"
    /\ \E correct \in BOOLEAN :
          LET award == correct /\ ~HasSolved(SubjectOf[r])
          IN  req' = [req EXCEPT
                 ![r] = [@ EXCEPT !.pc = IF award THEN "prior" ELSE "insert",
                                  !.correct = correct, !.award = award]]
    /\ UNCHANGED <<contest, sub, holder, told, overlap, resets, crashes>>

(* An award between its count of the prior solves and its commit.          *)
InAward(r) == req[r].pc \in {"wrong", "insert", "sweep", "update", "commit"}
                /\ req[r].award

(* Mutant: the solve being recorded is not counted. *)
CountWithThis_Stale(n) == n

(* Mutant: it is counted twice. *)
CountWithThis_Twice(n) == n + 2

CountWithThis(n) == n + 1

(* The count of earlier awards decides first blood and the base value.     *)
ReadPrior(r) ==
    /\ req[r].pc = "prior"
    /\ LET prior == Cardinality(Awarded)
           base == ChallengeValue(Challenge, CountWithThis(prior))
       IN  req' = [req EXCEPT
              ![r] = [@ EXCEPT
                 !.pc = IF contest.choice /\ contest.penalty # 0
                       THEN "wrong" ELSE "insert",
                 !.first = prior = 0, !.base = base, !.points = base]]
    /\ overlap' = (overlap \/ \E q \in Requests \ {r} : InAward(q))
    /\ UNCHANGED <<contest, sub, holder, told, resets, crashes>>

(* The multiple-choice penalty: every counted attempt is taken for a wrong *)
(* guess.                                                                  *)
CountWrong(r) ==
    /\ req[r].pc = "wrong"
    /\ LET wrong == AttemptCount(SubjectOf[r])
       IN  req' = [req EXCEPT
              ![r] = [@ EXCEPT
                 !.pc = "insert", !.wrong = wrong,
                 !.points = PenalisedValue(req[r].base, contest.penalty, wrong)]]
    /\ UNCHANGED <<contest, sub, holder, told, overlap, resets, crashes>>

NewRow(r, duplicate) ==
    [state |-> "pending", correct |-> req[r].correct, duplicate |-> duplicate,
     points |-> IF duplicate THEN 0 ELSE req[r].points,
     penalty |-> IF duplicate THEN 0 ELSE req[r].base - req[r].points,
     fresh |-> TRUE]

(* Mutant: no unique index. *)
IndexEntry_None(r) == {}

(* The awarded rows of the same subject, which the index covers.           *)
IndexEntry(r) ==
    {q \in Requests \ {r} : /\ SubjectOf[q] = SubjectOf[r]
                            /\ sub[q].state # "none" /\ AwardedRow(q)}

(* Mutant: the loser still counts as an award. *)
LostRace_KeepsAward(q) == [q EXCEPT !.pc = "commit"]

(* The insert hit the index: nothing was won after all.                    *)
LostRace(q) == [q EXCEPT !.pc = "commit", !.award = FALSE, !.first = FALSE,
                         !.points = 0]

(* The insert.  An award waits while a rival's is pending, and becomes a   *)
(* duplicate once that one has committed (the savepoint is rolled back).   *)
Insert(r) ==
    /\ req[r].pc = "insert"
    /\ \/ /\ req[r].award
          /\ IndexEntry(r) = {}
          /\ sub' = [sub EXCEPT ![r] = NewRow(r, FALSE)]
          /\ Goto(r, IF Challenge.scoring = "dynamic" THEN "sweep"
                                                      ELSE "commit")
       \/ /\ req[r].award
          /\ IndexEntry(r) \cap Committed # {}
          /\ sub' = [sub EXCEPT ![r] = NewRow(r, TRUE)]
          /\ req' = [req EXCEPT ![r] = LostRace(@)]
       \/ /\ ~req[r].award
          /\ sub' = [sub EXCEPT ![r] = NewRow(r, req[r].correct)]
          /\ Goto(r, "commit")
    /\ UNCHANGED <<contest, holder, told, overlap, resets, crashes>>

(* The re-value UPDATE starts: its snapshot fixes the rows it will change. *)
SweepStart(r) ==
    /\ req[r].pc = "sweep"
    /\ req' = [req EXCEPT
          ![r] = [@ EXCEPT !.pc = "update", !.sweep = Awarded \cup {r}]]
    /\ UNCHANGED <<contest, sub, holder, told, overlap, resets, crashes>>

(* It gets the row locks, waiting for another sweep that holds one.        *)
SweepLocks(r) ==
    /\ req[r].pc = "update"
    /\ \A q \in Requests \ {r} :
          req[q].pc = "commit" => req[q].sweep \cap req[r].sweep = {}
    /\ Goto(r, "commit")
    /\ UNCHANGED <<contest, sub, holder, told, overlap, resets, crashes>>

(* db.commit(): the row and the swept values become visible together.      *)
Commit(r) ==
    /\ req[r].pc = "commit"
    /\ sub' = [q \in Requests |->
          CASE q = r -> [sub[q] EXCEPT !.state = "committed"]
            [] q \in req[r].sweep \ {r} ->
                  [sub[q] EXCEPT
                     !.points = Revalued(req[r].base, sub[q].penalty)]
            [] OTHER -> sub[q]]
    /\ holder' = Released(r)
    /\ Goto(r, "attempted")
    /\ UNCHANGED <<contest, told, overlap, resets, crashes>>

(* emit_grade: challenge.attempted, then challenge.solved for an award.    *)
EmitAttempted(r) ==
    /\ req[r].pc = "attempted"
    /\ told' = [told EXCEPT ![r] = @ \cup {"attempted"}]
    /\ Goto(r, IF req[r].award THEN "solved" ELSE "done")
    /\ UNCHANGED <<contest, sub, holder, overlap, resets, crashes>>

EmitSolved(r) ==
    /\ req[r].pc = "solved"
    /\ told' = [told EXCEPT ![r] = @ \cup {"solved"}]
    /\ Goto(r, "done")
    /\ UNCHANGED <<contest, sub, holder, overlap, resets, crashes>>

(***************************************************************************)
(* The environment.                                                        *)
(***************************************************************************)

(* The process or its connection dies: an open transaction is rolled back, *)
(* a committed one keeps its row and loses its events.                     *)
Crash(r) ==
    /\ req[r].pc \notin {"new", "done"}
    /\ crashes < MaxCrashes
    /\ crashes' = crashes + 1
    /\ sub' = [sub EXCEPT ![r] = IF @.state = "committed" THEN @
                                                          ELSE NoSubmission]
    /\ holder' = Released(r)
    /\ Goto(r, "done")
    /\ UNCHANGED <<contest, told, overlap, resets>>

(* reset_guesses: the cutoff leaves out every row made so far, of one      *)
(* subject or of all.                                                      *)
ResetGuesses(S) ==
    /\ contest.choice
    /\ resets < MaxResets
    /\ resets' = resets + 1
    /\ sub' = [r \in Requests |->
          IF SubjectOf[r] \in S THEN [sub[r] EXCEPT !.fresh = FALSE]
                                ELSE sub[r]]
    /\ UNCHANGED <<contest, req, holder, told, overlap, crashes>>

SubmitFlag(r) ==
    \/ Gate(r) \/ CheckCap(r) \/ Grade(r) \/ ReadPrior(r) \/ CountWrong(r)
    \/ Insert(r) \/ SweepStart(r) \/ SweepLocks(r) \/ Commit(r)
    \/ EmitAttempted(r) \/ EmitSolved(r)

GradingNext ==
    \/ \E r \in Requests : SubmitFlag(r) \/ Crash(r)
    \/ ResetGuesses(Subjects)
    \/ \E s \in Subjects : ResetGuesses({s})

GradingSpec == GradingInit /\ [][GradingNext]_gradingVars

(* Every request is run until it answers.                                  *)
GradingFairSpec == GradingSpec /\ \A r \in Requests : WF_gradingVars(SubmitFlag(r))

(***************************************************************************)
(* Properties.                                                             *)
(***************************************************************************)

(* Every variable has its type. *)
GradingTypeOK ==
    /\ contest \in Contests
    /\ req \in [Requests -> Request]
    /\ sub \in [Requests -> Submission]
    /\ holder \in [Subjects -> Requests \cup {NoRequest}]
    /\ told \in [Requests -> SUBSET {"attempted", "solved"}]
    /\ overlap \in BOOLEAN
    /\ resets \in 0..MaxResets
    /\ crashes \in 0..MaxCrashes

Quiet == \A r \in Requests : req[r].pc \in {"new", "done"}

(* However many correct answers a subject sends at once, it is paid once:  *)
(* one awarded row, one challenge.solved, and every other correct row is a *)
(* duplicate worth nothing (record_grade's savepoint).                     *)
PaidOnce ==
    \A s \in Subjects :
        LET correct == {r \in RowsOf(s) : sub[r].correct}
        IN  /\ correct # {} =>
                  \E a \in correct : /\ ~sub[a].duplicate
                                     /\ \A r \in correct \ {a} :
                                           sub[r].duplicate /\ sub[r].points = 0
            /\ Cardinality({r \in Requests : /\ SubjectOf[r] = s
                                             /\ "solved" \in told[r]}) <= 1

(* challenge.solved is said only of a solve the database holds.            *)
SolvedIsRecorded ==
    \A r \in Requests : "solved" \in told[r] => r \in Awarded

(* A burst of guesses never buys more than the limit: while the challenge  *)
(* is unsolved the counted rows, written or about to be, stay within it    *)
(* (submit_flag's lock_subject).                                           *)
GuessCap ==
    Capped =>
        \A s \in Subjects :
            ~HasSolved(s) =>
                AttemptCount(s) + Cardinality({r \in Requests :
                    /\ SubjectOf[r] = s
                    /\ req[r].pc \in {"grade", "prior", "wrong", "insert",
                                      "sweep", "update", "commit"}})
                <= contest.limit

(* An award is never docked for more wrong guesses than its subject has    *)
(* made: the attempts record_grade counts are wrong guesses although other *)
(* requests of the subject commit between its queries.                     *)
DockedForWrongGuesses ==
    \A r \in Awarded :
        req[r].wrong <= Cardinality({q \in RowsOf(SubjectOf[r]) :
                                        ~sub[q].correct})

(* Nobody is paid less than the challenge is worth after its solves, less  *)
(* their own penalty: a stale count can only err upwards.                  *)
NeverUnderpaid ==
    \A r \in Awarded :
        sub[r].points >= Revalued(ChallengeValue(Challenge,
                                                 Cardinality(Awarded)),
                                  sub[r].penalty)

Converged ==
    \A r \in Awarded :
        sub[r].points = Revalued(ChallengeValue(Challenge,
                                                Cardinality(Awarded)),
                                 sub[r].penalty)

(* Every solver has the current value whenever no two solves were being    *)
(* valued at the same time.                                                *)
ConvergesUnlessRaced == Quiet /\ ~overlap => Converged

(* What scoring.py and the architecture document say: every solver         *)
(* converges to the current value, on each new solve.                      *)
EverySolverConverges == Quiet => Converged

(* A request never hangs: each one is answered, whatever the others hold   *)
(* or crash with.                                                          *)
Answered ==
    \A r \in Requests : req[r].pc # "new" ~> req[r].pc = "done"

(* A burst of answers pays once, loses no solve, docks wrong guesses only, *)
(* and errs upwards where two solves raced, and only there.                *)
GradingSafe ==
    /\ PaidOnce /\ SolvedIsRecorded /\ DockedForWrongGuesses
    /\ NeverUnderpaid /\ ConvergesUnlessRaced
=============================================================================
