------------------------------ MODULE Verdicts ------------------------------
(***************************************************************************)
(* From verdicts to points: the judgings of the code submitted to one      *)
(* programming challenge, and the score they make                          *)
(* (utils/judge_worker._finish and record_verdict, utils/grading           *)
(* record_grade and regrade, routers/judge_jury).                          *)
(*                                                                         *)
(* A code submission may be judged again and again: rejudged on its own or *)
(* with its whole problem, or overridden by a judge.  The newest finished  *)
(* judging counts, whatever order they finish in.  Recording a verdict     *)
(* runs under a lock on the challenge up to its commit, so it is one step  *)
(* here; the routes and the events around it are not, and interleave.      *)
(*                                                                         *)
(* Codes are numbered in the order they were submitted, judgings in the    *)
(* order their rows were inserted -- both are created_at.  How a judging   *)
(* is claimed and run is JudgeQueue's subject; here it starts, is retried, *)
(* is given up, or ends with a verdict.                                    *)
(***************************************************************************)
EXTENDS Scoring, FiniteSets

CONSTANTS Codes,       \* code submissions of kind "submit", oldest first
          CodeSubject,   \* the team or user each is credited to
          JudgedChallenge,   \* its scoring, points, minimum and decay
          MaxJudgings, \* bound: judgings ever made
          MaxAsks,     \* bound: rejudge, bulk rejudge and override requests
          MaxRetries   \* bound: retries of judgings

CodeSubjects == {CodeSubject[c] : c \in Codes}

ASSUME VerdictsAssumption ==
    /\ Codes \subseteq Nat /\ IsFiniteSet(Codes)
    /\ JudgedChallenge \in [scoring : ScoringTypes, points : Nat, minimum : Nat,
                      decay : Nat]
    /\ JudgedChallenge.scoring = "dynamic" =>
          JudgedChallenge.decay >= 1 /\ JudgedChallenge.minimum <= JudgedChallenge.points
    /\ MaxJudgings \in Nat /\ MaxAsks \in Nat /\ MaxRetries \in Nat

VARIABLES
    judging, \* the judgings table: code, origin, status, accepted
    made,    \* how many of its rows have been inserted
    graded,     \* the Submission row of each code
    ask,     \* rejudge_one calls past their check, waiting to insert
    bulk,    \* the rejudge_problem call in flight: the codes it has chosen
    outbox,  \* scoring events committed but not emitted yet, by judging
    net,     \* challenge.solved minus challenge.solve_revoked, per subject
    bloods,  \* the subjects announced as first blood
    asks,    \* requests of the jury so far
    retries  \* retries so far

verdictVars == <<judging, made, graded, ask, bulk, outbox, net, bloods, asks, retries>>

Ids == 1..MaxJudgings

Origins == {"submit", "rejudge", "bulk", "override"}

(* "ended" has its verdict and waits for the challenge lock: the row's     *)
(* change to done is not committed, so nobody else sees it yet.  An        *)
(* override is born that way.                                              *)
JudgingStatuses == {"none", "queued", "running", "ended", "done", "failed"}

Judging == [code : Codes \cup {0}, origin : Origins,
            status : JudgingStatuses, accepted : BOOLEAN]

Events == {"none", "solved", "revoked"}

NoJudging == [code |-> 0, origin |-> "submit", status |-> "none",
              accepted |-> FALSE]

Row(correct, duplicate, points) ==
    [recorded |-> TRUE, correct |-> correct, duplicate |-> duplicate,
     points |-> points]

NoRow == [Row(FALSE, FALSE, 0) EXCEPT !.recorded = FALSE]

Silence == [event |-> "none", first |-> FALSE]

VerdictInit ==
    /\ judging = [j \in Ids |-> NoJudging]
    /\ made = 0
    /\ graded = [c \in Codes |-> NoRow]
    /\ ask = {}
    /\ bulk = [reading |-> FALSE, codes |-> {}]
    /\ outbox = [j \in Ids |-> Silence]
    /\ net = [s \in CodeSubjects |-> 0]
    /\ bloods = {}
    /\ asks = 0
    /\ retries = 0

(***************************************************************************)
(* The judgings of a code.                                                 *)
(***************************************************************************)

JudgingsOf(c) == {j \in Ids : judging[j].code = c}

Finished(c) == {j \in JudgingsOf(c) : judging[j].status = "done"}

Newest(J) == CHOOSE j \in J : \A k \in J : k <= j

(* A committed row in the queue or with a worker; "ended" is still running *)
(* to everybody else, except an override, which nobody sees yet.           *)
Active(c) ==
    \E j \in JudgingsOf(c) :
        \/ judging[j].status \in {"queued", "running"}
        \/ judging[j].status = "ended" /\ judging[j].origin # "override"

Inserted(c, origin, status, accepted) ==
    [code |-> c, origin |-> origin, status |-> status, accepted |-> accepted]

(***************************************************************************)
(* record_grade and regrade, on the rows of the challenge (S).             *)
(***************************************************************************)

CorrectRows(S, s) ==
    {c \in Codes : CodeSubject[c] = s /\ S[c].recorded /\ S[c].correct}

AwardedRows(S) ==
    {c \in Codes : S[c].recorded /\ S[c].correct /\ ~S[c].duplicate}

HasAward(S, s) == \E c \in AwardedRows(S) : CodeSubject[c] = s

Earliest(C) == CHOOSE c \in C : \A d \in C : c <= d

(* The re-value UPDATE over the awarded rows.                              *)
Swept(S, base) ==
    [c \in Codes |-> IF c \in AwardedRows(S)
                     THEN [S[c] EXCEPT !.points = base] ELSE S[c]]

(* record_grade: the first verdict of a code.                              *)
RecordGrade(S, c, correct) ==
    LET award == correct /\ CorrectRows(S, CodeSubject[c]) = {}
        base == ChallengeValue(JudgedChallenge, Cardinality(AwardedRows(S)) + 1)
        T == [S EXCEPT ![c] = IF award THEN Row(TRUE, FALSE, base)
                                       ELSE Row(correct, correct, 0)]
    IN  IF award /\ JudgedChallenge.scoring = "dynamic" THEN Swept(T, base) ELSE T

(* Mutant: whoever holds the award keeps it. *)
Reconciled_FirstJudged(S, s) ==
    LET mine == CorrectRows(S, s)
        kept == {c \in mine : ~S[c].duplicate}
    IN  [c \in Codes |->
            IF c \in mine /\ kept = {} /\ c = Earliest(mine)
            THEN [S[c] EXCEPT !.duplicate = FALSE] ELSE S[c]]

(* The award belongs to the earliest correct row: the others are demoted,  *)
(* then it is promoted.                                                    *)
Reconciled(S, s) ==
    LET mine == CorrectRows(S, s)
    IN  [c \in Codes |->
            CASE c \notin mine -> S[c]
              [] c \in mine /\ c = Earliest(mine) ->
                    [S[c] EXCEPT !.duplicate = FALSE]
              [] OTHER -> Row(TRUE, TRUE, 0)]

(* Mutant: only the row that changed is valued. *)
Regrade_NoSweep(S, c, correct) ==
    LET T == Reconciled([S EXCEPT ![c] = Row(correct, correct, 0)],
                        CodeSubject[c])
        base == ChallengeValue(JudgedChallenge, Cardinality(AwardedRows(T)))
    IN  [T EXCEPT ![c].points = IF c \in AwardedRows(T) THEN base ELSE 0]

(* regrade: a later verdict of a code that has its row.                    *)
Regrade(S, c, correct) ==
    LET T == Reconciled([S EXCEPT ![c] = Row(correct, correct, 0)],
                        CodeSubject[c])
    IN  Swept(T, ChallengeValue(JudgedChallenge, Cardinality(AwardedRows(T))))

(* record_verdict, once it is known to count: a correct duplicate is       *)
(* reconciled at once, for its backdated row may be the earliest.          *)
Scored(S, c, correct) ==
    LET G == RecordGrade(S, c, correct)
    IN  IF S[c].recorded THEN Regrade(S, c, correct)
        ELSE IF G[c].correct /\ G[c].duplicate THEN Regrade(G, c, TRUE)
        ELSE G

(* Mutant: a moved award is announced again. *)
Announcement_Moved(S, T, s) ==
    [event |-> IF HasAward(T, s) /\ S # T THEN "solved"
               ELSE IF HasAward(S, s) /\ ~HasAward(T, s) THEN "revoked"
               ELSE "none",
     first |-> FALSE]

(* Mutant: a lost award is not announced. *)
Announcement_NeverRevoked(S, T, s) ==
    [event |-> IF ~HasAward(S, s) /\ HasAward(T, s) THEN "solved" ELSE "none",
     first |-> FALSE]

(* What emit_grade and emit_regrade will say of the change from S to T:    *)
(* an award granted, revoked, or (kept, or moved to another row) nothing.  *)
Announcement(S, T, s) ==
    LET granted == ~HasAward(S, s) /\ HasAward(T, s)
        revoked == HasAward(S, s) /\ ~HasAward(T, s)
    IN  [event |-> IF granted THEN "solved"
                   ELSE IF revoked THEN "revoked" ELSE "none",
         first |-> granted /\ CodeSubject[Earliest(AwardedRows(T))] = s]

(***************************************************************************)
(* The actions.                                                            *)
(***************************************************************************)

(* queue_code for a scored submission.                                     *)
SubmitCode(c) ==
    /\ made < MaxJudgings
    /\ JudgingsOf(c) = {}
    /\ \A d \in Codes : d < c => JudgingsOf(d) # {}
    /\ made' = made + 1
    /\ judging' = [judging EXCEPT
          ![made + 1] = Inserted(c, "submit", "queued", FALSE)]
    /\ UNCHANGED <<graded, ask, bulk, outbox, net, bloods, asks, retries>>

(* A worker claims it, hands it back, gives it up, or has its verdict.     *)
Start(j) ==
    /\ judging[j].status = "queued"
    /\ judging' = [judging EXCEPT ![j].status = "running"]
    /\ UNCHANGED <<made, graded, ask, bulk, outbox, net, bloods, asks, retries>>

Retry(j) ==
    /\ judging[j].status = "running"
    /\ retries < MaxRetries
    /\ retries' = retries + 1
    /\ judging' = [judging EXCEPT ![j].status = "queued"]
    /\ UNCHANGED <<made, graded, ask, bulk, outbox, net, bloods, asks>>

GiveUp(j) ==
    /\ judging[j].status = "running"
    /\ judging' = [judging EXCEPT ![j].status = "failed"]
    /\ UNCHANGED <<made, graded, ask, bulk, outbox, net, bloods, asks, retries>>

RunEnds(j) ==
    /\ judging[j].status = "running"
    /\ \E accepted \in BOOLEAN :
          judging' = [judging EXCEPT
             ![j] = [@ EXCEPT !.status = "ended", !.accepted = accepted]]
    /\ UNCHANGED <<made, graded, ask, bulk, outbox, net, bloods, asks, retries>>

(* Mutant: the verdict that lands last counts. *)
IsLatestFinished_Always(j) == TRUE

(* _is_latest_finished, under the challenge lock.                          *)
IsLatestFinished(j) == \A k \in Finished(judging[j].code) : k < j

(* record_verdict and the commit, of _finish or of override_verdict.       *)
RecordVerdict(j) ==
    /\ judging[j].status = "ended"
    /\ judging' = [judging EXCEPT ![j].status = "done"]
    /\ IF IsLatestFinished(j)
       THEN LET c == judging[j].code
            IN  /\ graded' = Scored(graded, c, judging[j].accepted)
                /\ outbox' = [outbox EXCEPT
                      ![j] = Announcement(graded, graded', CodeSubject[c])]
       ELSE UNCHANGED <<graded, outbox>>
    /\ UNCHANGED <<made, ask, bulk, net, bloods, asks, retries>>

(* emit_recorded, after the commit: by then others may have committed and  *)
(* emitted.                                                                *)
EmitRecorded(j) ==
    /\ outbox[j].event # "none"
    /\ LET s == CodeSubject[judging[j].code]
       IN  /\ net' = [net EXCEPT
                 ![s] = IF outbox[j].event = "solved" THEN @ + 1 ELSE @ - 1]
           /\ bloods' = IF outbox[j].first THEN bloods \cup {s} ELSE bloods
    /\ outbox' = [outbox EXCEPT ![j] = Silence]
    /\ UNCHANGED <<judging, made, graded, ask, bulk, asks, retries>>

(* rejudge_one: refused while the code is waiting to be judged.  The check *)
(* is not locked.                                                          *)
RejudgeCheck(c) ==
    /\ asks < MaxAsks
    /\ asks' = asks + 1
    /\ JudgingsOf(c) # {}
    /\ ~Active(c)
    /\ ask' = ask \cup {<<c, asks + 1>>}
    /\ UNCHANGED <<judging, made, graded, bulk, outbox, net, bloods, retries>>

RejudgeAdd(a) ==
    /\ made < MaxJudgings
    /\ ask' = ask \ {a}
    /\ made' = made + 1
    /\ judging' = [judging EXCEPT
          ![made + 1] = Inserted(a[1], "rejudge", "queued", FALSE)]
    /\ UNCHANGED <<graded, bulk, outbox, net, bloods, asks, retries>>

(* rejudge_problem: its queries choose the codes whose newest verdict      *)
(* passes the filter, is no override, and that are not waiting in the      *)
(* queue already ...                                                       *)
Chosen(only) ==
    {c \in Codes :
        LET done == Finished(c)
            accepted == done # {} /\ judging[Newest(done)].accepted
        IN  /\ JudgingsOf(c) # {}
            /\ only = "accepted" => accepted
            /\ only = "not_accepted" => ~accepted
            /\ done # {} => judging[Newest(done)].origin # "override"
            /\ \A j \in JudgingsOf(c) : judging[j].status # "queued"}

BulkRead ==
    /\ asks < MaxAsks
    /\ asks' = asks + 1
    /\ ~bulk.reading
    /\ \E only \in {"all", "accepted", "not_accepted"} :
          /\ Chosen(only) # {}
          /\ bulk' = [reading |-> TRUE, codes |-> Chosen(only)]
    /\ UNCHANGED <<judging, made, graded, ask, outbox, net, bloods, retries>>

(* ... and its commit inserts a judging for each, in their order.          *)
BulkAdd ==
    /\ bulk.reading
    /\ made + Cardinality(bulk.codes) <= MaxJudgings
    /\ LET at(c) == made + Cardinality({d \in bulk.codes : d <= c})
       IN  judging' = [j \in Ids |->
              IF \E c \in bulk.codes : j = at(c)
              THEN Inserted(CHOOSE c \in bulk.codes : j = at(c),
                            "bulk", "queued", FALSE)
              ELSE judging[j]]
    /\ made' = made + Cardinality(bulk.codes)
    /\ bulk' = [reading |-> FALSE, codes |-> {}]
    /\ UNCHANGED <<graded, ask, outbox, net, bloods, asks, retries>>

(* override_verdict: inserts a finished judging, then records it.          *)
OverrideVerdict(c) ==
    /\ asks < MaxAsks
    /\ asks' = asks + 1
    /\ made < MaxJudgings
    /\ JudgingsOf(c) # {}
    /\ made' = made + 1
    /\ \E accepted \in BOOLEAN :
          judging' = [judging EXCEPT
             ![made + 1] = Inserted(c, "override", "ended", accepted)]
    /\ UNCHANGED <<graded, ask, bulk, outbox, net, bloods, retries>>

VerdictNext ==
    \/ \E c \in Codes : SubmitCode(c) \/ RejudgeCheck(c) \/ OverrideVerdict(c)
    \/ \E j \in Ids : \/ Start(j) \/ Retry(j) \/ GiveUp(j) \/ RunEnds(j)
                      \/ RecordVerdict(j) \/ EmitRecorded(j)
    \/ \E a \in ask : RejudgeAdd(a)
    \/ BulkRead \/ BulkAdd

VerdictSpec == VerdictInit /\ [][VerdictNext]_verdictVars

(***************************************************************************)
(* Properties.                                                             *)
(***************************************************************************)

(* Every variable has its type; points stay within the challenge's worth.  *)
VerdictTypeOK ==
    /\ judging \in [Ids -> Judging]
    /\ made \in 0..MaxJudgings
    /\ graded \in [Codes -> [recorded : BOOLEAN, correct : BOOLEAN,
                          duplicate : BOOLEAN, points : 0..JudgedChallenge.points]]
    /\ ask \subseteq Codes \X (1..MaxAsks)
    /\ bulk \in [reading : BOOLEAN, codes : SUBSET Codes]
    /\ outbox \in [Ids -> [event : Events, first : BOOLEAN]]
    /\ net \in [CodeSubjects -> Int]
    /\ bloods \subseteq CodeSubjects
    /\ asks \in 0..MaxAsks
    /\ retries \in 0..MaxRetries

(* The newest finished judging of a code is the one that counts, in        *)
(* whatever order the judgings of one code finish and lock the challenge   *)
(* (record_verdict, _is_latest_finished).                                  *)
NewestCounts ==
    \A c \in Codes :
        Finished(c) # {} =>
            /\ graded[c].recorded
            /\ graded[c].correct = judging[Newest(Finished(c))].accepted

(* The award of a subject is on its earliest correct code and nowhere      *)
(* else; its later correct ones are duplicates worth nothing -- whichever  *)
(* was judged first (regrade, and record_verdict's reconciliation).        *)
EarliestHoldsAward ==
    \A s \in CodeSubjects :
        LET mine == CorrectRows(graded, s)
        IN  \A c \in mine :
               IF c = Earliest(mine) THEN ~graded[c].duplicate
               ELSE graded[c].duplicate /\ graded[c].points = 0

(* Every solver has the current value after every commit: unlike the flag  *)
(* path, the lock on the challenge makes the values converge.              *)
BoardConverges ==
    \A c \in AwardedRows(graded) :
        graded[c].points = ChallengeValue(JudgedChallenge,
                                       Cardinality(AwardedRows(graded)))

Waiting(s, event) ==
    Cardinality({j \in Ids : /\ outbox[j].event = event
                             /\ CodeSubject[judging[j].code] = s})

(* Listeners that add up challenge.solved and challenge.solve_revoked end  *)
(* up with the award the database holds, in whatever order the events of   *)
(* racing verdicts are emitted.                                            *)
EventsBalance ==
    \A s \in CodeSubjects :
        net[s] + Waiting(s, "solved") - Waiting(s, "revoked")
            = IF HasAward(graded, s) THEN 1 ELSE 0

(* What rejudge_problem says: an override is left alone by a bulk rejudge. *)
(* (The newest verdict of a code does not come from a bulk rejudge when    *)
(* the one before it was an override.)                                     *)
BulkKeepsOverrides ==
    \A c \in Codes :
        LET done == Finished(c)
            rest == done \ {Newest(done)}
        IN  done # {} /\ rest # {} /\ judging[Newest(done)].origin = "bulk"
               => judging[Newest(rest)].origin # "override"

(* What ARCHITECTURE.md says of judgings that finish out of order: the     *)
(* true first blood is announced too.                                      *)
FirstBloodAnnounced ==
    /\ \A j \in Ids : outbox[j].event = "none"
    /\ AwardedRows(graded) # {}
    => CodeSubject[Earliest(AwardedRows(graded))] \in bloods

(* Judgings in any order: the newest verdict counts, the earliest correct  *)
(* code holds the award, values converge, events add up to the board.      *)
VerdictsSafe ==
    VerdictTypeOK /\ NewestCounts /\ EarliestHoldsAward /\ BoardConverges /\ EventsBalance
=============================================================================
