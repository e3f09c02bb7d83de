-------------------------- MODULE JudgingLifecycle --------------------------
(***************************************************************************)
(* What the `judgings` table promises the rest of Flagpost, with no        *)
(* workers, deadlines or crashes in sight (models/judging.py).             *)
(*                                                                         *)
(* A judging walks queued -> running -> done | failed | queued, every walk *)
(* into running spends one of MaxAttempts attempts, and a terminal row is  *)
(* never rewritten: a rejudge is a new row.  Any number of rows may move   *)
(* in one step, since the reaper commits a whole batch at once.            *)
(***************************************************************************)
EXTENDS Naturals

CONSTANTS Judgings,     \* the judging rows the behaviour may create
          MaxAttempts,  \* judge_worker.MAX_ATTEMPTS
          Verdicts,     \* what a run of the harness can say of the code
          InternalError, \* the verdict of a judging the judge gave up on
          NoVerdict     \* a NULL verdict column

VARIABLES status, attempts, verdict

lifecycleVars == <<status, attempts, verdict>>

Statuses == {"none", "queued", "running", "done", "failed", "deleted"}

LifecycleInit ==
    /\ status = [j \in Judgings |-> "none"]
    /\ attempts = [j \in Judgings |-> 0]
    /\ verdict = [j \in Judgings |-> NoVerdict]

(* The row of j after the step, when it moves at all. *)
Becomes(j, s, n, v) ==
    /\ status'[j] = s
    /\ attempts'[j] = n
    /\ verdict'[j] = v

Create(j) ==
    status[j] = "none" /\ Becomes(j, "queued", attempts[j], verdict[j])

Start(j) ==
    /\ status[j] = "queued"
    /\ attempts[j] < MaxAttempts
    /\ Becomes(j, "running", attempts[j] + 1, verdict[j])

Requeue(j) ==
    /\ status[j] = "running"
    /\ attempts[j] < MaxAttempts
    /\ Becomes(j, "queued", attempts[j], verdict[j])

Conclude(j) ==
    /\ status[j] = "running"
    /\ \E v \in Verdicts : Becomes(j, "done", attempts[j], v)

GiveUp(j) ==
    /\ status[j] = "running"
    /\ Becomes(j, "failed", attempts[j], InternalError)

(* A cascade from the challenge, the competition or the user. *)
Delete(j) ==
    /\ status[j] \notin {"none", "deleted"}
    /\ Becomes(j, "deleted", attempts[j], verdict[j])

Stay(j) == Becomes(j, status[j], attempts[j], verdict[j])

RowStep(j) ==
    \/ Create(j) \/ Start(j) \/ Requeue(j) \/ Conclude(j) \/ GiveUp(j)
    \/ Delete(j) \/ Stay(j)

LifecycleNext ==
    /\ DOMAIN status' = Judgings
    /\ DOMAIN attempts' = Judgings
    /\ DOMAIN verdict' = Judgings
    /\ \A j \in Judgings : RowStep(j)

LifecycleSpec == LifecycleInit /\ [][LifecycleNext]_lifecycleVars
=============================================================================
