----------------------------- MODULE JudgeQueue -----------------------------
(***************************************************************************)
(* The code judge's queue (utils/judge_worker.py): the `judgings` table is *)
(* the queue, and every judge process works on it at the same time.        *)
(*                                                                         *)
(*   - the loop of a process claims queued rows up to its concurrency      *)
(*     limit (_loop, fill_slots, claim_next);                              *)
(*   - each claim is carried by one task (run_judging): _prepare, the      *)
(*     executor, _finish or _give_up_or_retry, the completion event,       *)
(*     _discard_run_source;                                                *)
(*   - a reaper, run by the scheduler tick and by the start-up recovery of *)
(*     every process, takes rows past their deadline away from whoever     *)
(*     holds them (reap_judgings, _reclaim).                               *)
(*                                                                         *)
(* A claim is the pair (judging, attempt): the attempt number is the       *)
(* fencing token every later write of the task carries (_fenced).          *)
(*                                                                         *)
(* One action is one database transaction, or the code between two awaits. *)
(* Judgings are numbered in the order of (created_at, id).  Wall-clock     *)
(* time is abstracted to one bit per row, `overdue`: deadline_at < now.    *)
(***************************************************************************)
EXTENDS Integers, FiniteSets

CONSTANTS Procs,         \* judge processes (API workers, the scheduler)
          Judgings,      \* judging rows, numbered oldest first
          RunJudgings,   \* the ones of kind "run": examples only, not scored
          MaxAttempts,   \* MAX_ATTEMPTS
          MaxConcurrent, \* JudgeSettings.max_concurrent_judgings
          CandidateLimit, \* rows claim_next looks at in one query
          ReapBatch,     \* REAP_BATCH
          MaxUpsets,     \* bound: crashes, stops, deletions, switch flips, edits
          Verdicts,      \* what the harness can say of the code
          InternalError, \* the verdict of a judging nobody could judge
          NoVerdict,     \* a NULL verdict
          NoProc         \* the owner of a claim nobody made

ASSUME QueueAssumption ==
    /\ Judgings \subseteq Nat /\ IsFiniteSet(Judgings)
    /\ RunJudgings \subseteq Judgings
    /\ MaxAttempts \in Nat \ {0}
    /\ MaxConcurrent \in Nat
    /\ CandidateLimit \in Nat \ {0}
    /\ ReapBatch \in Nat \ {0}
    /\ MaxUpsets \in Nat
    /\ InternalError \notin Verdicts
    /\ NoVerdict \notin Verdicts \cup {InternalError}
    /\ NoProc \notin Procs

VARIABLES
    row,       \* judgings: status, attempts, overdue, verdict, problem_version
    task,      \* run_judging per claim: where it is, its process, its result
    worker,    \* the loop of each process: up, candidate rows, free slots
    reaper,    \* the reaper pass of each process
    source,    \* is the code's source object still in storage?
    completed, \* judging.completed events emitted per judging
    enabled,   \* JudgeSettings.enabled
    problem,   \* the current version of the problem (problem_version)
    upsets     \* crashes, stops, deletions, switch flips and edits so far

vars == <<row, task, worker, reaper, source, completed, enabled,
          problem, upsets>>

Attempts == 1..MaxAttempts

Claim == [judging : Judgings, attempt : Attempts]

Statuses == {"none", "queued", "running", "done", "failed", "deleted"}

Terminal == {"done", "failed"}

TaskSteps == {"none", "claimed", "loading", "executing", "verdict", "retry",
              "giveup", "emit", "discard", "over"}

Outcomes == Verdicts \cup {InternalError, NoVerdict}

Row == [status : Statuses, attempts : 0..MaxAttempts, overdue : BOOLEAN,
        verdict : Outcomes, version : Nat]

Task == [pc : TaskSteps, proc : Procs \cup {NoProc}, result : Outcomes,
         version : Nat]

Worker == [up : BOOLEAN, loop : {"recover", "idle", "select", "claim"},
           cand : SUBSET Judgings, slots : Nat]

Reaper == [pc : {"idle", "read", "update", "emit"},
           stuck : SUBSET Claim, failed : SUBSET Judgings]

NewWorker == [up |-> TRUE, loop |-> "recover", cand |-> {}, slots |-> 0]

IdleReaper == [pc |-> "idle", stuck |-> {}, failed |-> {}]

NewRow == [status |-> "none", attempts |-> 0, overdue |-> FALSE,
           verdict |-> NoVerdict, version |-> 0]

NewTask == [pc |-> "none", proc |-> NoProc, result |-> NoVerdict,
            version |-> 0]

Init ==
    /\ row = [j \in Judgings |-> NewRow]
    /\ task = [c \in Claim |-> NewTask]
    /\ worker = [p \in Procs |-> [NewWorker EXCEPT !.loop = "idle"]]
    /\ reaper = [p \in Procs |-> IdleReaper]
    /\ source = [j \in Judgings |-> FALSE]
    /\ completed = [j \in Judgings |-> 0]
    /\ enabled = TRUE
    /\ problem = 1
    /\ upsets = 0

(***************************************************************************)
(* The environment: the submit route, the administrator, the clock, faults.*)
(***************************************************************************)

(* queue_code: the source is stored first, then the row is inserted; the   *)
(* submit route refuses while the judge is off.  Rows are created in the   *)
(* order of their ids.                                                     *)
QueueCode(j) ==
    /\ enabled
    /\ row[j].status = "none"
    /\ \A k \in Judgings : k < j => row[k].status # "none"
    /\ row' = [row EXCEPT ![j].status = "queued"]
    /\ source' = [source EXCEPT ![j] = TRUE]
    /\ UNCHANGED <<task, worker, reaper, completed, enabled,
                   problem, upsets>>

(* The row goes with its challenge, competition or user (ON DELETE         *)
(* CASCADE), whatever its status.                                          *)
DeleteRow(j) ==
    /\ upsets < MaxUpsets
    /\ upsets' = upsets + 1
    /\ row[j].status \in {"queued", "running", "done", "failed"}
    /\ row' = [row EXCEPT ![j].status = "deleted"]
    /\ UNCHANGED <<task, worker, reaper, source, completed,
                   enabled, problem>>

ToggleJudge ==
    /\ upsets < MaxUpsets
    /\ upsets' = upsets + 1
    /\ enabled' = ~enabled
    /\ UNCHANGED <<row, task, worker, reaper, source, completed,
                   problem>>

(* An organiser edits the test data or the limits.                         *)
EditProblem ==
    /\ upsets < MaxUpsets
    /\ upsets' = upsets + 1
    /\ problem' = problem + 1
    /\ UNCHANGED <<row, task, worker, reaper, source, completed,
                   enabled>>

DeadlinePasses(j) ==
    /\ row[j].status = "running"
    /\ ~row[j].overdue
    /\ row' = [row EXCEPT ![j].overdue = TRUE]
    /\ UNCHANGED <<task, worker, reaper, source, completed,
                   enabled, problem, upsets>>

(***************************************************************************)
(* The loop of a process: _loop, fill_slots, claim_next.                   *)
(***************************************************************************)

(* _running: the tasks of the process that have not ended.                 *)
Running(p) == {c \in Claim : task[c].proc = p}

Queued == {j \in Judgings : row[j].status = "queued"}

(* claim_next's query: the oldest queued rows, at most CandidateLimit.     *)
Oldest ==
    {j \in Queued : Cardinality({k \in Queued : k < j}) < CandidateLimit}

Slots == IF MaxConcurrent > 1 THEN MaxConcurrent ELSE 1

(* Where a pass is: over, about to query, or working through candidates.   *)
Idle(w) == [w EXCEPT !.loop = "idle", !.slots = 0, !.cand = {}]

Looking(w, n) == [w EXCEPT !.loop = "select", !.slots = n, !.cand = {}]

Trying(w, n, C) == [w EXCEPT !.loop = "claim", !.slots = n, !.cand = C]

(* Mutant: the pass forgets the judgings already running. *)
Capacity_IgnoresRunning(p) == Slots

Capacity(p) == Slots - Cardinality(Running(p))

(* The capacity is worked out once per pass; tasks that end later in the   *)
(* pass do not raise it.  The pass goes straight on to its first query.    *)
FillSlots(p) ==
    /\ worker[p].up
    /\ worker[p].loop = "idle"
    /\ enabled
    /\ Capacity(p) > 0
    /\ Queued # {}
    /\ worker' = [worker EXCEPT
          ![p] = Trying(@, Capacity(p), Oldest)]
    /\ UNCHANGED <<row, task, reaper, source, completed, enabled, problem,
                   upsets>>

(* claim_next again, for the next slot of the pass.                        *)
SelectCandidates(p) ==
    /\ worker[p].loop = "select"
    /\ worker' = [worker EXCEPT
          ![p] = IF Queued = {} THEN Idle(@) ELSE Trying(@, @.slots, Oldest)]
    /\ UNCHANGED <<row, task, reaper, source, completed, enabled, problem,
                   upsets>>

Claimed(r) == [r EXCEPT !.status = "running", !.attempts = @ + 1,
                        !.overdue = FALSE]

Begun(t, p) == [t EXCEPT !.pc = "claimed", !.proc = p]

(* The conditional UPDATE of one candidate.  Its row may have been claimed *)
(* or deleted since the query: then the next candidate is tried, and when  *)
(* none is left the pass is over.                                          *)
TryClaim(p, j) ==
    /\ worker[p].loop = "claim"
    /\ j \in worker[p].cand
    /\ \A k \in worker[p].cand : j <= k
    /\ IF row[j].status = "queued"
       THEN LET c == [judging |-> j, attempt |-> row[j].attempts + 1]
            IN  /\ row' = [row EXCEPT ![j] = Claimed(@)]
                /\ task' = [task EXCEPT ![c] = Begun(@, p)]
                /\ worker' = [worker EXCEPT
                      ![p] = IF @.slots = 1 THEN Idle(@)
                                            ELSE Looking(@, @.slots - 1)]
       ELSE /\ worker' = [worker EXCEPT
                  ![p] = IF @.cand = {j} THEN Idle(@)
                                         ELSE Trying(@, @.slots, @.cand \ {j})]
            /\ UNCHANGED <<row, task>>
    /\ UNCHANGED <<reaper, source, completed, enabled, problem,
                   upsets>>

(***************************************************************************)
(* One judging: run_judging and what it calls, for the claim c.            *)
(***************************************************************************)

(* Mutant: any running row passes the fence, whoever holds it. *)
Fenced_StatusOnly(c) == row[c.judging].status = "running"

(* Mutant: the fence forgets that the row may be over. *)
Fenced_AttemptOnly(c) == row[c.judging].attempts = c.attempt

(* _fenced: the row is still the one this claim took.                      *)
Fenced(c) ==
    /\ row[c.judging].status = "running"
    /\ row[c.judging].attempts = c.attempt

Goto(c, pc) == task' = [task EXCEPT ![c].pc = pc]

(* The task is done: it leaves _running, which frees its slot.             *)
Over(t) == [t EXCEPT !.pc = "over", !.proc = NoProc]

Return(c) == task' = [task EXCEPT ![c] = Over(@)]

Loaded(t, pc, v) == [t EXCEPT !.pc = pc, !.version = v]

(* The read half of _prepare: a lost claim ends the task; a judge turned   *)
(* off, a problem without tests or a language removed is not retried; any  *)
(* other exception is.  The problem's version is the one read here.        *)
PrepareRead(c) ==
    /\ task[c].pc = "claimed"
    /\ IF Fenced(c)
       THEN \E pc \in {"loading", "giveup", "retry"} :
               /\ pc = "loading" => enabled
               /\ task' = [task EXCEPT
                     ![c] = Loaded(@, pc, IF pc = "loading" THEN problem
                                                            ELSE 0)]
       ELSE Return(c)
    /\ UNCHANGED <<row, worker, reaper, source, completed,
                   enabled, problem, upsets>>

Prepared(r, v) == [r EXCEPT !.overdue = FALSE, !.version = v]

(* The write half: the source and the test data are fetched from storage,  *)
(* then one fenced UPDATE moves the deadline and records the version.      *)
PreparePush(c) ==
    /\ task[c].pc = "loading"
    /\ source[c.judging]
    /\ IF Fenced(c)
       THEN /\ row' = [row EXCEPT
                  ![c.judging] = Prepared(@, task[c].version)]
            /\ Goto(c, "executing")
       ELSE Return(c) /\ UNCHANGED row
    /\ UNCHANGED <<worker, reaper, source, completed, enabled,
                   problem, upsets>>

(* Storage failed or the source is gone (retried), or there is no example  *)
(* to run (not retried).                                                   *)
PrepareFails(c) ==
    /\ task[c].pc = "loading"
    /\ \E pc \in {"retry", "giveup"} : Goto(c, pc)
    /\ UNCHANGED <<row, worker, reaper, source, completed,
                   enabled, problem, upsets>>

Returned(t, pc, v) == [t EXCEPT !.pc = pc, !.result = v]

(* executor.run: a verdict about the code ...                              *)
RunEnds(c) ==
    /\ task[c].pc = "executing"
    /\ \E v \in Verdicts :
          task' = [task EXCEPT ![c] = Returned(@, "verdict", v)]
    /\ UNCHANGED <<row, worker, reaper, source, completed, enabled, problem,
                   upsets>>

(* ... or a JudgeExecutorError, any other exception, an internal_error.    *)
RunFails(c) ==
    /\ task[c].pc = "executing"
    /\ Goto(c, "retry")
    /\ UNCHANGED <<row, worker, reaper, source, completed, enabled, problem,
                   upsets>>

Concluded(r, v) == [r EXCEPT !.status = "done", !.overdue = FALSE,
                             !.verdict = v]

(* _finish: one transaction for the row, its runs and the score; a lost    *)
(* claim rolls it back.                                                    *)
Finish(c) ==
    /\ task[c].pc = "verdict"
    /\ IF Fenced(c)
       THEN /\ row' = [row EXCEPT
                  ![c.judging] = Concluded(@, task[c].result)]
            /\ Goto(c, "emit")
       ELSE Goto(c, "discard") /\ UNCHANGED row
    /\ UNCHANGED <<worker, reaper, source, completed, enabled,
                   problem, upsets>>

(* Recording raised (a lock timeout): nothing committed, the judging is    *)
(* retried.                                                                *)
FinishFails(c) ==
    /\ task[c].pc = "verdict"
    /\ task' = [task EXCEPT ![c] = Returned(@, "retry", NoVerdict)]
    /\ UNCHANGED <<row, worker, reaper, source, completed,
                   enabled, problem, upsets>>

(* Mutant: a requeued row starts over with all its attempts. *)
Requeued_AllAttempts(r) == [r EXCEPT !.status = "queued", !.overdue = FALSE,
                                     !.attempts = 0]

Requeued(r) == [r EXCEPT !.status = "queued", !.overdue = FALSE]

Abandoned(r) == [r EXCEPT !.status = "failed", !.overdue = FALSE,
                          !.verdict = InternalError]

GiveUpOrRetry(c) ==
    /\ task[c].pc \in {"retry", "giveup"}
    /\ LET again == task[c].pc = "retry" /\ c.attempt < MaxAttempts
       IN  IF Fenced(c)
           THEN /\ row' = [row EXCEPT
                      ![c.judging] = IF again THEN Requeued(@)
                                              ELSE Abandoned(@)]
                /\ Goto(c, IF again THEN "discard" ELSE "emit")
           ELSE Goto(c, "discard") /\ UNCHANGED row
    /\ UNCHANGED <<worker, reaper, source, completed, enabled,
                   problem, upsets>>

EmitCompleted(c) ==
    /\ task[c].pc = "emit"
    /\ completed' = [completed EXCEPT ![c.judging] = @ + 1]
    /\ Goto(c, "discard")
    /\ UNCHANGED <<row, worker, reaper, source, enabled, problem,
                   upsets>>

(* Mutant: the source goes as soon as the attempt is over. *)
RunIsOver_AnyStatus(c) ==
    /\ c.judging \in RunJudgings
    /\ row[c.judging].attempts = c.attempt

RunIsOver(c) ==
    /\ c.judging \in RunJudgings
    /\ row[c.judging].status \in Terminal
    /\ row[c.judging].attempts = c.attempt

(* _discard_run_source: only for a run, only once it is terminal, only by  *)
(* the claim that holds it.  The delete may fail and is only logged (this  *)
(* also covers the path that returns before it, after a failed _finish).   *)
DiscardRunSource(c) ==
    /\ task[c].pc = "discard"
    /\ \E gone \in {FALSE, RunIsOver(c)} :
          source' = [source EXCEPT ![c.judging] = @ /\ ~gone]
    /\ Return(c)
    /\ UNCHANGED <<row, worker, reaper, completed, enabled,
                   problem, upsets>>

(* An exception run_judging does not handle: the database is away while    *)
(* the claim is being given back.  The row stays running until its         *)
(* deadline.                                                               *)
TaskDies(c) ==
    /\ task[c].pc \in {"retry", "giveup"}
    /\ upsets < MaxUpsets
    /\ upsets' = upsets + 1
    /\ Return(c)
    /\ UNCHANGED <<row, worker, reaper, source, completed,
                   enabled, problem>>

(***************************************************************************)
(* Processes come and go.                                                  *)
(***************************************************************************)

(* A crash abandons everything in memory, stop() cancels the tasks: either *)
(* way no row is given back, the deadline does that.                       *)
ProcessEnds(p) ==
    /\ worker[p].up
    /\ upsets < MaxUpsets
    /\ upsets' = upsets + 1
    /\ worker' = [worker EXCEPT ![p] = [NewWorker EXCEPT !.up = FALSE]]
    /\ reaper' = [reaper EXCEPT ![p] = IdleReaper]
    /\ task' = [c \in Claim |-> IF c \in Running(p)
                                THEN Over(task[c])
                                ELSE task[c]]
    /\ UNCHANGED <<row, source, completed, enabled, problem>>

(* start(): the loop begins with recover(), which is a reaper pass.        *)
ProcessStarts(p) ==
    /\ ~worker[p].up
    /\ worker' = [worker EXCEPT ![p] = NewWorker]
    /\ reaper' = [reaper EXCEPT ![p].pc = "read"]
    /\ UNCHANGED <<row, task, source, completed, enabled, problem,
                   upsets>>

(***************************************************************************)
(* The reaper: reap_judgings, on the scheduler's tick and at start-up.     *)
(***************************************************************************)

(* Mutant: a row on its last attempt is left to its worker. *)
Stuck_RetriesOnly ==
    {c \in Claim : /\ row[c.judging].status = "running"
                   /\ row[c.judging].overdue
                   /\ row[c.judging].attempts = c.attempt
                   /\ c.attempt < MaxAttempts}

Stuck ==
    {c \in Claim : /\ row[c.judging].status = "running"
                   /\ row[c.judging].overdue
                   /\ row[c.judging].attempts = c.attempt}

(* _reclaim's query: at most ReapBatch rows past their deadline, in no     *)
(* particular order.  A tick that finds none changes nothing.              *)
ReapRead(p) ==
    /\ worker[p].up
    /\ reaper[p].pc = "read" \/ (reaper[p].pc = "idle" /\ Stuck # {})
    /\ \E batch \in SUBSET Stuck :
          /\ Cardinality(batch) <= ReapBatch
          /\ batch = Stuck \/ Cardinality(batch) = ReapBatch
          /\ reaper' = [reaper EXCEPT
                ![p] = [@ EXCEPT !.pc = "update", !.stuck = batch]]
    /\ UNCHANGED <<row, task, worker, source, completed, enabled, problem,
                   upsets>>

(* Mutant: one attempt too many. *)
Spent_OffByOne(n) == n > MaxAttempts

Spent(n) == n >= MaxAttempts

(* Its fenced updates, committed together: a row whose worker finished     *)
(* meanwhile, or that was claimed anew, is left alone.                     *)
ReapUpdate(p) ==
    /\ reaper[p].pc = "update"
    /\ LET taken == {c \in reaper[p].stuck : Fenced(c)}
           lost == {c.judging : c \in {d \in taken : Spent(d.attempt)}}
           back == {c.judging : c \in {d \in taken : ~Spent(d.attempt)}}
       IN  /\ row' = [j \in Judgings |->
                        CASE j \in lost -> Abandoned(row[j])
                          [] j \in back -> Requeued(row[j])
                          [] OTHER -> row[j]]
           /\ reaper' = [reaper EXCEPT
                 ![p] = [@ EXCEPT !.pc = "emit", !.failed = lost]]
    /\ UNCHANGED <<task, worker, source, completed, enabled,
                   problem, upsets>>

(* The completion events of the rows this pass failed; a full batch means  *)
(* there may be more.  The last one lets a starting loop go on to claim.   *)
ReapEmit(p) ==
    /\ reaper[p].pc = "emit"
    /\ completed' = [j \in Judgings |->
          IF j \in reaper[p].failed THEN completed[j] + 1 ELSE completed[j]]
    /\ LET last == Cardinality(reaper[p].stuck) < ReapBatch
       IN  /\ reaper' = [reaper EXCEPT
                 ![p] = [IdleReaper EXCEPT
                    !.pc = IF last THEN "idle" ELSE "read"]]
           /\ worker' = [worker EXCEPT
                 ![p].loop = IF last /\ @ = "recover" THEN "idle" ELSE @]
    /\ UNCHANGED <<row, task, source, enabled, problem, upsets>>

(***************************************************************************)
(* The specification.                                                      *)
(***************************************************************************)

Loop(p) ==
    \/ FillSlots(p) \/ SelectCandidates(p)
    \/ \E j \in Judgings : TryClaim(p, j)

RunJudging(c) ==
    \/ PrepareRead(c) \/ PreparePush(c) \/ PrepareFails(c)
    \/ RunEnds(c) \/ RunFails(c)
    \/ Finish(c) \/ FinishFails(c) \/ GiveUpOrRetry(c)
    \/ EmitCompleted(c) \/ DiscardRunSource(c)

Reap(p) == ReapRead(p) \/ ReapUpdate(p) \/ ReapEmit(p)

Environment ==
    \/ \E j \in Judgings :
          QueueCode(j) \/ DeleteRow(j) \/ DeadlinePasses(j)
    \/ ToggleJudge \/ EditProblem
    \/ \E c \in Claim : TaskDies(c)
    \/ \E p \in Procs : ProcessEnds(p) \/ ProcessStarts(p)

Next ==
    \/ Environment
    \/ \E p \in Procs : Loop(p) \/ Reap(p)
    \/ \E c \in Claim : RunJudging(c)

Spec == Init /\ [][Next]_vars

(* What the event loop, the operating system and the clock guarantee: a    *)
(* live process keeps polling and ticking, a task is scheduled until it    *)
(* returns, a process that went down is restarted, time passes.  Nothing   *)
(* is assumed of the administrator, the submitters or the faults.          *)
Fairness ==
    /\ \A p \in Procs : /\ WF_vars(Loop(p)) /\ WF_vars(Reap(p))
                        /\ WF_vars(ProcessStarts(p))
    /\ \A c \in Claim : WF_vars(RunJudging(c))
    /\ \A j \in Judgings : WF_vars(DeadlinePasses(j))

FairSpec == Spec /\ Fairness

(***************************************************************************)
(* Properties.                                                             *)
(***************************************************************************)

(* Every variable has its type. *)
TypeOK ==
    /\ row \in [Judgings -> Row]
    /\ task \in [Claim -> Task]
    /\ worker \in [Procs -> Worker]
    /\ reaper \in [Procs -> Reaper]
    /\ source \in [Judgings -> BOOLEAN]
    /\ completed \in [Judgings -> Nat]
    /\ enabled \in BOOLEAN
    /\ problem \in Nat
    /\ upsets \in 0..MaxUpsets

(* A row that is back in the queue always has an attempt left, whichever   *)
(* of the retry, the reaper or a crash brought it there: claim_next itself *)
(* checks no limit, so MAX_ATTEMPTS holds only if nobody requeues a spent  *)
(* row.                                                                    *)
AttemptBudget ==
    \A j \in Judgings :
        row[j].status = "queued" => row[j].attempts < MaxAttempts

(* The attempt number works as a fencing token: no task and no reaper      *)
(* snapshot ever carries an attempt the row has not reached, so a claim    *)
(* made later always outranks every task started earlier.                  *)
FencingToken ==
    /\ \A c \in Claim :
          task[c].pc # "none" => c.attempt <= row[c.judging].attempts
    /\ \A p \in Procs : \A c \in reaper[p].stuck :
          c.attempt <= row[c.judging].attempts

(* What a finished judging says is what the run of the claim that held it  *)
(* last said, against the very version of the tests the row names -- never *)
(* the result of a worker that had lost the row (_finish's fence,          *)
(* _prepare's fenced problem_version).                                     *)
OutcomeOfHolder ==
    \A c \in Claim :
        (row[c.judging].status = "done" /\ row[c.judging].attempts = c.attempt)
            => /\ row[c.judging].verdict = task[c].result
               /\ row[c.judging].verdict \in Verdicts
               /\ row[c.judging].version = task[c].version

(* judging.completed is emitted at most once per judging, and only for one *)
(* that is over -- though the task and any number of reapers may each      *)
(* believe they ended it.                                                  *)
CompletedOnce ==
    \A j \in Judgings :
        /\ completed[j] <= 1
        /\ completed[j] = 1 => row[j].status \in Terminal \cup {"deleted"}

(* A judging that may still run has its source: _discard_run_source never  *)
(* takes it from under a retry, not even when a slow worker of an earlier  *)
(* attempt finally returns.                                                *)
SourceAvailable ==
    \A j \in Judgings :
        row[j].status \in {"queued", "running"} => source[j]

(* A process never runs more judgings than its limit, although the free    *)
(* slots are counted once and spent over several queries.                  *)
SlotBound ==
    \A p \in Procs : Cardinality(Running(p)) + worker[p].slots <= Slots

(* The table keeps its promise: every step of the queue is a legal walk of *)
(* each row (JUDGING_TRANSITIONS), a terminal row is never rewritten.      *)
Lifecycle == INSTANCE JudgingLifecycle WITH
    status <- [j \in Judgings |-> row[j].status],
    attempts <- [j \in Judgings |-> row[j].attempts],
    verdict <- [j \in Judgings |-> row[j].verdict]

RowsFollowLifecycle == Lifecycle!LifecycleSpec

(* Every submission is eventually judged or given up on, whatever crashes, *)
(* as long as the judge is on.                                             *)
EventuallyJudged ==
    \A j \in Judgings :
        row[j].status \in {"queued", "running"}
            ~> \/ row[j].status \in Terminal \cup {"deleted"}
               \/ ~enabled
=============================================================================
