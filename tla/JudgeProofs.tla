---------------------------- MODULE JudgeProofs -----------------------------
(***************************************************************************)
(* Proofs about the judge queue, for every number of processes, judgings   *)
(* and attempts.                                                           *)
(***************************************************************************)
EXTENDS JudgeQueue, FiniteSetTheorems, TLAPS

(* Only finitely many claims can be made on finitely many rows. *)
LEMMA ClaimsFinite == IsFiniteSet(Claim)
<1> DEFINE P == Judgings \X Attempts
           f == [x \in P |-> [judging |-> x[1], attempt |-> x[2]]]
<1>1. IsFiniteSet(Attempts)
  BY FS_Interval, QueueAssumption DEF Attempts
<1>2. IsFiniteSet(P)
  BY <1>1, FS_Product, QueueAssumption
<1>3. f \in [P -> Claim]
  BY DEF Claim
<1>4. ASSUME NEW c \in Claim PROVE \E x \in P : f[x] = c
  <2>1. <<c.judging, c.attempt>> \in P
    BY DEF Claim
  <2>2. f[<<c.judging, c.attempt>>] = c
    BY <2>1 DEF Claim
  <2> QED BY <2>1, <2>2
<1>5. f \in Surjection(P, Claim)
  BY <1>3, <1>4 DEF Surjection
<1> QED BY <1>2, <1>5, FS_Surjection

(* A process runs finitely many tasks. *)
LEMMA RunningFinite ==
  ASSUME NEW p PROVE /\ IsFiniteSet(Running(p))
                     /\ Cardinality(Running(p)) \in Nat
BY ClaimsFinite, FS_Subset, FS_CardinalityType DEF Running

(* The concurrency limit is positive.                                      *)
LEMMA SlotsType == Slots \in Nat \ {0}
BY QueueAssumption DEF Slots

(* A pass of the loop under way still has a slot to fill, so the slots it  *)
(* counted at its start never go below zero.                               *)
PassHasSlot ==
    \A p \in Procs :
        worker[p].loop \in {"select", "claim"} => worker[p].slots > 0

(* The claim a loop makes on a queued row is one of Claim. *)
LEMMA NextClaim ==
  ASSUME TypeOK, AttemptBudget, NEW j \in Judgings, row[j].status = "queued"
  PROVE  [judging |-> j, attempt |-> row[j].attempts + 1] \in Claim
BY QueueAssumption DEF TypeOK, AttemptBudget, Claim, Row, Attempts


(* Every variable has its type at the start.                               *)
LEMMA TypeInit == Init => TypeOK
<1> SUFFICES ASSUME Init PROVE TypeOK
  OBVIOUS
<1>1. NewRow \in Row
  BY QueueAssumption DEF NewRow, Row, Statuses, Outcomes
<1>2. NewTask \in Task
  BY QueueAssumption DEF NewTask, Task, TaskSteps, Outcomes
<1>3. [NewWorker EXCEPT !.loop = "idle"] \in Worker
  BY DEF NewWorker, Worker
<1>4. IdleReaper \in Reaper
  BY DEF IdleReaper, Reaper
<1>5. problem \in Nat /\ upsets \in 0..MaxUpsets
  BY QueueAssumption DEF Init
<1> QED BY <1>1, <1>2, <1>3, <1>4, <1>5 DEF Init, TypeOK

(* The fields of a claim, and the attempts column of any table of rows.    *)
LEMMA ClaimFields ==
  ASSUME NEW c \in Claim
  PROVE  /\ c.judging \in Judgings
         /\ c.attempt \in Nat /\ 1 <= c.attempt /\ c.attempt <= MaxAttempts
         /\ c = [judging |-> c.judging, attempt |-> c.attempt]
BY QueueAssumption DEF Claim, Attempts

(* An attempt counter is a natural number.                                 *)
LEMMA AttemptsNat ==
  ASSUME NEW f \in [Judgings -> Row], NEW j \in Judgings
  PROVE  f[j].attempts \in Nat
BY QueueAssumption DEF Row

(* What each update does to a row: its type, and the columns it touches.  *)
LEMMA RowUpdates ==
  ASSUME NEW r \in Row
  PROVE  /\ Requeued(r) \in Row
         /\ Requeued(r).status = "queued" /\ Requeued(r).attempts = r.attempts
         /\ Requeued(r).verdict = r.verdict
         /\ Abandoned(r) \in Row
         /\ Abandoned(r).status = "failed"
         /\ Abandoned(r).attempts = r.attempts
         /\ Abandoned(r).verdict = InternalError
BY DEF Row, Requeued, Abandoned, Statuses, Outcomes

(* What the claim's UPDATE makes of a row.                                 *)
LEMMA ClaimedRow ==
  ASSUME NEW r \in Row, r.attempts < MaxAttempts
  PROVE  /\ Claimed(r) \in Row
         /\ Claimed(r).status = "running"
         /\ Claimed(r).attempts = r.attempts + 1
         /\ Claimed(r).verdict = r.verdict
<1>1. r.attempts + 1 \in 0..MaxAttempts
  BY QueueAssumption DEF Row
<1>2. Claimed(r) = [r EXCEPT !.status = "running",
                             !.attempts = r.attempts + 1,
                             !.overdue = FALSE]
  BY DEF Claimed, Row
<1> QED BY <1>1, <1>2 DEF Row, Statuses

(* What the preparation's write makes of a row.                            *)
LEMMA PreparedRow ==
  ASSUME NEW r \in Row, NEW v \in Nat
  PROVE  /\ Prepared(r, v) \in Row
         /\ Prepared(r, v).status = r.status
         /\ Prepared(r, v).attempts = r.attempts
         /\ Prepared(r, v).verdict = r.verdict
         /\ Prepared(r, v).version = v
BY DEF Row, Prepared

(* What the concluding write makes of a row.                               *)
LEMMA ConcludedRow ==
  ASSUME NEW r \in Row, NEW v \in Outcomes
  PROVE  /\ Concluded(r, v) \in Row
         /\ Concluded(r, v).status = "done"
         /\ Concluded(r, v).attempts = r.attempts
         /\ Concluded(r, v).verdict = v
         /\ Concluded(r, v).version = r.version
BY DEF Row, Concluded, Statuses

(* What each step does to a task. *)
LEMMA OverTask ==
  ASSUME NEW t \in Task
  PROVE  /\ Over(t) \in Task
         /\ Over(t).pc = "over" /\ Over(t).proc = NoProc
         /\ Over(t).result = t.result /\ Over(t).version = t.version
BY DEF Task, Over, TaskSteps

(* A task that has just been started for a claim.                          *)
LEMMA BegunTask ==
  ASSUME NEW t \in Task, NEW p \in Procs
  PROVE  /\ Begun(t, p) \in Task
         /\ Begun(t, p).pc = "claimed" /\ Begun(t, p).proc = p
BY DEF Task, Begun, TaskSteps

(* A task that has read its submission.                                    *)
LEMMA LoadedTask ==
  ASSUME NEW t \in Task, NEW pc \in TaskSteps, NEW v \in Nat
  PROVE  /\ Loaded(t, pc, v) \in Task
         /\ Loaded(t, pc, v).pc = pc /\ Loaded(t, pc, v).version = v
         /\ Loaded(t, pc, v).proc = t.proc
         /\ Loaded(t, pc, v).result = t.result
BY DEF Task, Loaded

(* A task that has its outcome in hand.                                    *)
LEMMA ReturnedTask ==
  ASSUME NEW t \in Task, NEW pc \in TaskSteps, NEW v \in Outcomes
  PROVE  /\ Returned(t, pc, v) \in Task
         /\ Returned(t, pc, v).pc = pc /\ Returned(t, pc, v).result = v
         /\ Returned(t, pc, v).proc = t.proc
         /\ Returned(t, pc, v).version = t.version
BY DEF Task, Returned

(* Moving a task to another step keeps its type.                           *)
LEMMA GotoType ==
  ASSUME TypeOK, NEW c \in Claim, NEW pc \in TaskSteps, Goto(c, pc)
  PROVE  task' \in [Claim -> Task]
BY DEF TypeOK, Goto, Task

(* A task that returns keeps its type.                                     *)
LEMMA ReturnType ==
  ASSUME TypeOK, NEW c \in Claim, Return(c)
  PROVE  task' \in [Claim -> Task]
BY OverTask DEF TypeOK, Return

(* What each step does to a loop. *)
LEMMA LoopIdles ==
  ASSUME NEW w \in Worker, NEW n \in Nat
  PROVE  Idle(w).slots = 0 /\ Looking(w, n).slots = n
BY DEF Worker, Idle, Looking

(* The states the poll loop of a process moves through.                    *)
LEMMA LoopUpdates ==
  ASSUME NEW w \in Worker, NEW n \in Nat, NEW C \in SUBSET Judgings
  PROVE  /\ Idle(w) \in Worker
         /\ Idle(w).loop = "idle" /\ Idle(w).slots = 0
         /\ Looking(w, n) \in Worker
         /\ Looking(w, n).loop = "select" /\ Looking(w, n).slots = n
         /\ Trying(w, n, C) \in Worker
         /\ Trying(w, n, C).loop = "claim" /\ Trying(w, n, C).slots = n
BY DEF Worker, Idle, Looking, Trying

(* No update reads a column it should not: Oldest holds judgings. *)
LEMMA OldestType == Oldest \in SUBSET Judgings
BY DEF Oldest, Queued

(* The administrator, the clock and the faults keep the types. *)
LEMMA TypeEnvironment == TypeOK /\ Environment => TypeOK'
<1> SUFFICES ASSUME TypeOK, Environment PROVE TypeOK'
  OBVIOUS
<1> USE QueueAssumption
<1>1. ASSUME NEW j \in Judgings, QueueCode(j) PROVE TypeOK'
  <2>1. row' \in [Judgings -> Row]
    BY <1>1 DEF QueueCode, TypeOK, Row, Statuses
  <2> QED BY <1>1, <2>1 DEF QueueCode, TypeOK
<1>2. ASSUME NEW j \in Judgings, DeleteRow(j) PROVE TypeOK'
  <2>1. row' \in [Judgings -> Row]
    BY <1>2 DEF DeleteRow, TypeOK, Row, Statuses
  <2>2. upsets' \in 0..MaxUpsets
    BY <1>2 DEF DeleteRow, TypeOK
  <2> QED BY <1>2, <2>1, <2>2 DEF DeleteRow, TypeOK
<1>3. ASSUME NEW j \in Judgings, DeadlinePasses(j) PROVE TypeOK'
  <2>1. row' \in [Judgings -> Row]
    BY <1>3 DEF DeadlinePasses, TypeOK, Row
  <2> QED BY <1>3, <2>1 DEF DeadlinePasses, TypeOK
<1>4. CASE ToggleJudge
  <2>1. upsets' \in 0..MaxUpsets
    BY <1>4 DEF ToggleJudge, TypeOK
  <2>2. enabled' \in BOOLEAN
    BY <1>4 DEF ToggleJudge, TypeOK
  <2> QED BY <1>4, <2>1, <2>2 DEF ToggleJudge, TypeOK
<1>5. CASE EditProblem
  <2>1. upsets' \in 0..MaxUpsets
    BY <1>5 DEF EditProblem, TypeOK
  <2>2. problem' \in Nat
    BY <1>5 DEF EditProblem, TypeOK
  <2> QED BY <1>5, <2>1, <2>2 DEF EditProblem, TypeOK
<1>6. ASSUME NEW c \in Claim, TaskDies(c) PROVE TypeOK'
  <2>1. upsets' \in 0..MaxUpsets
    BY <1>6 DEF TaskDies, TypeOK
  <2>2. task' \in [Claim -> Task]
    BY <1>6, ReturnType DEF TaskDies
  <2> QED BY <1>6, <2>1, <2>2 DEF TaskDies, TypeOK
<1>7. ASSUME NEW p \in Procs, ProcessEnds(p) PROVE TypeOK'
  <2>1. upsets' \in 0..MaxUpsets
    BY <1>7 DEF ProcessEnds, TypeOK
  <2>2. task' \in [Claim -> Task]
    BY <1>7, OverTask DEF ProcessEnds, TypeOK
  <2>3. worker' \in [Procs -> Worker]
    BY <1>7 DEF ProcessEnds, TypeOK, NewWorker, Worker
  <2>4. reaper' \in [Procs -> Reaper]
    BY <1>7 DEF ProcessEnds, TypeOK, IdleReaper, Reaper
  <2> QED BY <1>7, <2>1, <2>2, <2>3, <2>4 DEF ProcessEnds, TypeOK
<1>8. ASSUME NEW p \in Procs, ProcessStarts(p) PROVE TypeOK'
  <2>1. worker' \in [Procs -> Worker]
    BY <1>8 DEF ProcessStarts, TypeOK, NewWorker, Worker
  <2>2. reaper' \in [Procs -> Reaper]
    BY <1>8 DEF ProcessStarts, TypeOK, Reaper
  <2> QED BY <1>8, <2>1, <2>2 DEF ProcessStarts, TypeOK
<1> QED BY <1>1, <1>2, <1>3, <1>4, <1>5, <1>6, <1>7, <1>8 DEF Environment

(* The loop keeps the types: a claim needs the attempt it spends to be one *)
(* of MaxAttempts, which AttemptBudget provides.                           *)
LEMMA TypeLoop ==
  ASSUME TypeOK, AttemptBudget, PassHasSlot, NEW p \in Procs, Loop(p)
  PROVE  TypeOK'
<1> USE QueueAssumption
<1>0. worker[p] \in Worker /\ worker[p].slots \in Nat
  BY DEF TypeOK, Worker
<1>1. CASE FillSlots(p)
  <2>1. Capacity(p) \in Nat
    BY <1>1, RunningFinite, SlotsType DEF FillSlots, Capacity
  <2>2. worker' \in [Procs -> Worker]
    BY <1>0, <1>1, <2>1, OldestType, LoopUpdates DEF FillSlots, TypeOK
  <2> QED BY <1>1, <2>2 DEF FillSlots, TypeOK
<1>2. CASE SelectCandidates(p)
  <2>1. worker' \in [Procs -> Worker]
    BY <1>0, <1>2, OldestType, LoopUpdates DEF SelectCandidates, TypeOK
  <2> QED BY <1>2, <2>1 DEF SelectCandidates, TypeOK
<1>3. ASSUME NEW j \in Judgings, TryClaim(p, j), row[j].status = "queued"
      PROVE  TypeOK'
  <2> DEFINE c == [judging |-> j, attempt |-> row[j].attempts + 1]
  <2>0. row[j] \in Row /\ row[j].attempts < MaxAttempts
    BY <1>3 DEF TypeOK, AttemptBudget
  <2>1. row' \in [Judgings -> Row]
    BY <1>3, <2>0, ClaimedRow DEF TryClaim, TypeOK
  <2>2. task' \in [Claim -> Task]
    <3>1. c \in Claim
      BY <1>3, NextClaim
    <3>2. task' = [task EXCEPT ![c] = Begun(@, p)]
      BY <1>3 DEF TryClaim
    <3> HIDE DEF c
    <3> QED BY <3>1, <3>2, BegunTask DEF TypeOK
  <2>3. worker' \in [Procs -> Worker]
    <3>1. worker[p].slots - 1 \in Nat
      BY <1>0, <1>3 DEF TryClaim, PassHasSlot
    <3>2. Idle(worker[p]) \in Worker
          /\ Looking(worker[p], worker[p].slots - 1) \in Worker
      BY <1>0, <3>1, LoopUpdates
    <3> QED BY <1>3, <3>2 DEF TryClaim, TypeOK
  <2> QED BY <1>3, <2>1, <2>2, <2>3 DEF TryClaim, TypeOK
<1>4. ASSUME NEW j \in Judgings, TryClaim(p, j), row[j].status # "queued"
      PROVE  TypeOK'
  <2>1. worker[p].cand \ {j} \in SUBSET Judgings
    BY <1>0 DEF Worker
  <2>2. Idle(worker[p]) \in Worker
        /\ Trying(worker[p], worker[p].slots, worker[p].cand \ {j}) \in Worker
    BY <1>0, <2>1, LoopUpdates
  <2>3. worker' \in [Procs -> Worker]
    BY <1>4, <2>2 DEF TryClaim, TypeOK
  <2> QED BY <1>4, <2>3 DEF TryClaim, TypeOK
<1> QED BY <1>1, <1>2, <1>3, <1>4 DEF Loop

(* So do the steps of a task. *)
LEMMA TypeRunJudging ==
  ASSUME TypeOK, NEW c \in Claim, RunJudging(c)
  PROVE  TypeOK'
<1> USE QueueAssumption
<1>0. /\ c.judging \in Judgings /\ row[c.judging] \in Row
      /\ task[c] \in Task /\ task[c].version \in Nat
      /\ task[c].result \in Outcomes
  BY DEF Claim, TypeOK, Task
<1>1. CASE PrepareRead(c)
  <2>1. task' \in [Claim -> Task]
    <3>1. CASE Fenced(c)
      <4>1. PICK pc \in {"loading", "giveup", "retry"} :
               task' = [task EXCEPT
                 ![c] = Loaded(@, pc, IF pc = "loading" THEN problem ELSE 0)]
        BY <1>1, <3>1 DEF PrepareRead
      <4>2. (IF pc = "loading" THEN problem ELSE 0) \in Nat
        BY DEF TypeOK
      <4>3. pc \in TaskSteps
        BY DEF TaskSteps
      <4> QED BY <4>1, <4>2, <4>3, LoadedTask DEF TypeOK
    <3>2. CASE ~Fenced(c)
      BY <1>1, <3>2, ReturnType DEF PrepareRead
    <3> QED BY <3>1, <3>2
  <2> QED BY <1>1, <2>1 DEF PrepareRead, TypeOK
<1>2. CASE PreparePush(c)
  <2>1. task' \in [Claim -> Task]
    BY <1>2, GotoType, ReturnType DEF PreparePush, TaskSteps
  <2>2. row' \in [Judgings -> Row]
    <3>1. Prepared(row[c.judging], task[c].version) \in Row
      BY <1>0, PreparedRow
    <3> QED BY <1>0, <1>2, <3>1 DEF PreparePush, TypeOK
  <2> QED BY <1>2, <2>1, <2>2 DEF PreparePush, TypeOK
<1>3. CASE PrepareFails(c)
  <2>1. task' \in [Claim -> Task]
    BY <1>3, GotoType DEF PrepareFails, TaskSteps
  <2> QED BY <1>3, <2>1 DEF PrepareFails, TypeOK
<1>4. CASE RunEnds(c)
  <2>1. task' \in [Claim -> Task]
    BY <1>0, <1>4, ReturnedTask DEF RunEnds, TypeOK, TaskSteps, Outcomes
  <2> QED BY <1>4, <2>1 DEF RunEnds, TypeOK
<1>5. CASE RunFails(c)
  <2>1. task' \in [Claim -> Task]
    BY <1>5, GotoType DEF RunFails, TaskSteps
  <2> QED BY <1>5, <2>1 DEF RunFails, TypeOK
<1>6. CASE Finish(c)
  <2>1. task' \in [Claim -> Task]
    BY <1>6, GotoType DEF Finish, TaskSteps
  <2>2. row' \in [Judgings -> Row]
    BY <1>0, <1>6, ConcludedRow DEF Finish, TypeOK
  <2> QED BY <1>6, <2>1, <2>2 DEF Finish, TypeOK
<1>7. CASE FinishFails(c)
  <2>1. task' \in [Claim -> Task]
    BY <1>0, <1>7, ReturnedTask DEF FinishFails, TypeOK, TaskSteps, Outcomes
  <2> QED BY <1>7, <2>1 DEF FinishFails, TypeOK
<1>8. CASE GiveUpOrRetry(c)
  <2>1. task' \in [Claim -> Task]
    BY <1>8, GotoType DEF GiveUpOrRetry, TaskSteps
  <2>2. row' \in [Judgings -> Row]
    BY <1>0, <1>8, RowUpdates DEF GiveUpOrRetry, TypeOK
  <2> QED BY <1>8, <2>1, <2>2 DEF GiveUpOrRetry, TypeOK
<1>9. CASE EmitCompleted(c)
  <2>1. task' \in [Claim -> Task]
    BY <1>9, GotoType DEF EmitCompleted, TaskSteps
  <2>2. completed' \in [Judgings -> Nat]
    <3>1. completed[c.judging] + 1 \in Nat
      <4>1. completed \in [Judgings -> Nat]
        BY DEF TypeOK
      <4>2. completed[c.judging] \in Nat
        BY <1>0, <4>1
      <4> QED BY <4>2
    <3> QED BY <1>0, <1>9, <3>1 DEF EmitCompleted, TypeOK
  <2> QED BY <1>9, <2>1, <2>2 DEF EmitCompleted, TypeOK
<1>10. CASE DiscardRunSource(c)
  <2>1. task' \in [Claim -> Task]
    BY <1>10, ReturnType DEF DiscardRunSource
  <2>2. source' \in [Judgings -> BOOLEAN]
    BY <1>0, <1>10 DEF DiscardRunSource, TypeOK
  <2> QED BY <1>10, <2>1, <2>2 DEF DiscardRunSource, TypeOK
<1> QED BY <1>1, <1>2, <1>3, <1>4, <1>5, <1>6, <1>7, <1>8, <1>9, <1>10
        DEF RunJudging

(* And the reaper. *)
LEMMA TypeReap ==
  ASSUME TypeOK, NEW p \in Procs, Reap(p)
  PROVE  TypeOK'
<1>1. CASE ReapRead(p)
  <2>1. PICK batch \in SUBSET Stuck :
           reaper' = [reaper EXCEPT
             ![p] = [@ EXCEPT !.pc = "update", !.stuck = batch]]
    BY <1>1 DEF ReapRead
  <2>2. batch \in SUBSET Claim
    BY DEF Stuck
  <2>3. reaper' \in [Procs -> Reaper]
    BY <2>1, <2>2 DEF TypeOK, Reaper
  <2> QED BY <1>1, <2>3 DEF ReapRead, TypeOK
<1>2. CASE ReapUpdate(p)
  <2> DEFINE taken == {c \in reaper[p].stuck : Fenced(c)}
             lost == {c.judging : c \in {d \in taken : Spent(d.attempt)}}
             back == {c.judging : c \in {d \in taken : ~Spent(d.attempt)}}
  <2>1. lost \in SUBSET Judgings
    BY DEF TypeOK, Reaper, Claim
  <2>2. row' = [j \in Judgings |->
                  CASE j \in lost -> Abandoned(row[j])
                    [] j \in back -> Requeued(row[j])
                    [] OTHER -> row[j]]
    BY <1>2 DEF ReapUpdate
  <2>3. reaper' = [reaper EXCEPT
                     ![p] = [@ EXCEPT !.pc = "emit", !.failed = lost]]
    BY <1>2 DEF ReapUpdate
  <2> HIDE DEF lost, back
  <2>4. row' \in [Judgings -> Row]
    BY <2>2, RowUpdates DEF TypeOK
  <2>5. reaper' \in [Procs -> Reaper]
    BY <2>1, <2>3 DEF TypeOK, Reaper
  <2> QED BY <1>2, <2>4, <2>5 DEF ReapUpdate, TypeOK
<1>3. CASE ReapEmit(p)
  <2>1. reaper' \in [Procs -> Reaper]
    BY <1>3 DEF ReapEmit, TypeOK, Reaper, IdleReaper
  <2>2. worker' \in [Procs -> Worker]
    BY <1>3 DEF ReapEmit, TypeOK, Worker
  <2>3. completed' \in [Judgings -> Nat]
    BY <1>3 DEF ReapEmit, TypeOK
  <2> QED BY <1>3, <2>1, <2>2, <2>3 DEF ReapEmit, TypeOK
<1> QED BY <1>1, <1>2, <1>3 DEF Reap

(***************************************************************************)
(* The attempt budget and the fencing token.                               *)
(***************************************************************************)

(* What the loop may do to its slots, in every action. *)
LEMMA PassHasSlotStep ==
  ASSUME TypeOK, PassHasSlot, [Next]_vars
  PROVE  PassHasSlot'
<1> USE QueueAssumption DEF PassHasSlot
<1>0. ASSUME worker' = worker PROVE PassHasSlot'
  BY <1>0
<1>1. ASSUME NEW p \in Procs, Loop(p) PROVE PassHasSlot'
  <2>0. worker[p] \in Worker /\ worker[p].slots \in Nat
    BY DEF TypeOK, Worker
  <2>1. CASE FillSlots(p)
    <3>1. Capacity(p) \in Nat /\ Capacity(p) > 0
      BY <2>1, RunningFinite, SlotsType DEF FillSlots, Capacity
    <3> QED BY <2>0, <2>1, <3>1, OldestType, LoopUpdates
            DEF FillSlots, TypeOK
  <2>2. CASE SelectCandidates(p)
    BY <2>0, <2>2, OldestType, LoopUpdates DEF SelectCandidates, TypeOK
  <2>3. ASSUME NEW j \in Judgings, TryClaim(p, j) PROVE PassHasSlot'
    <3>1. worker[p].slots - 1 \in Nat
      BY <2>0, <2>3 DEF TryClaim
    <3>2. worker[p].cand \ {j} \in SUBSET Judgings
      BY <2>0 DEF Worker
    <3>3. Looking(worker[p], worker[p].slots - 1).slots = worker[p].slots - 1
      BY <2>0, <3>1, <3>2, LoopUpdates
    <3>4. Trying(worker[p], worker[p].slots, worker[p].cand \ {j}).slots
            = worker[p].slots
      BY <2>0, <3>2, LoopUpdates
    <3>5. Idle(worker[p]).loop = "idle"
      BY <2>0, <3>2, LoopUpdates
    <3> QED BY <2>0, <2>3, <3>1, <3>3, <3>4, <3>5 DEF TryClaim, TypeOK
  <2> QED BY <1>1, <2>1, <2>2, <2>3 DEF Loop
<1>2. ASSUME NEW c \in Claim, RunJudging(c) PROVE PassHasSlot'
  BY <1>0, <1>2 DEF RunJudging, PrepareRead, PreparePush, PrepareFails,
     RunEnds, RunFails, Finish, FinishFails, GiveUpOrRetry, EmitCompleted,
     DiscardRunSource
<1>3. ASSUME NEW p \in Procs, Reap(p) PROVE PassHasSlot'
  <2>1. CASE ReapEmit(p)
    <3>1. PICK l : worker' = [worker EXCEPT ![p].loop = l]
                   /\ (l = worker[p].loop \/ l = "idle")
      BY <2>1 DEF ReapEmit
    <3> QED BY <3>1 DEF TypeOK, Worker
  <2> QED BY <1>0, <1>3, <2>1 DEF Reap, ReapRead, ReapUpdate
<1>4. CASE Environment
  BY <1>0, <1>4 DEF Environment, QueueCode, DeleteRow, DeadlinePasses,
     ToggleJudge, EditProblem, TaskDies, ProcessEnds, ProcessStarts,
     NewWorker, TypeOK
<1>5. CASE UNCHANGED vars
  BY <1>0, <1>5 DEF vars
<1> QED BY <1>1, <1>2, <1>3, <1>4, <1>5 DEF Next

(* One step of the lifecycle, in the columns the table's readers see. *)
Columns(r, s, a, v) == r.status = s /\ r.attempts = a /\ r.verdict = v

Walk(r, s) ==
    \/ Columns(s, r.status, r.attempts, r.verdict)
    \/ r.status = "none" /\ Columns(s, "queued", r.attempts, r.verdict)
    \/ /\ r.status = "queued" /\ r.attempts < MaxAttempts
       /\ Columns(s, "running", r.attempts + 1, r.verdict)
    \/ /\ r.status = "running" /\ r.attempts < MaxAttempts
       /\ Columns(s, "queued", r.attempts, r.verdict)
    \/ /\ r.status = "running"
       /\ \E v \in Verdicts : Columns(s, "done", r.attempts, v)
    \/ r.status = "running" /\ Columns(s, "failed", r.attempts, InternalError)
    \/ /\ r.status \notin {"none", "deleted"}
       /\ Columns(s, "deleted", r.attempts, r.verdict)

(* A task that has a verdict to record has one of the harness's. *)
VerdictInHand ==
    \A c \in Claim : task[c].pc = "verdict" => task[c].result \in Verdicts

(* Every step moves every row along the lifecycle or not at all: this is  *)
(* the one place where all writers of the table are looked at together.   *)
LEMMA RowsWalk ==
  ASSUME TypeOK, AttemptBudget, VerdictInHand, [Next]_vars,
         NEW j \in Judgings
  PROVE  Walk(row[j], row'[j])
<1> USE QueueAssumption
<1>0. ASSUME row' = row PROVE Walk(row[j], row'[j])
  BY <1>0 DEF Walk, Columns
<1>r. row[j] \in Row
  BY DEF TypeOK
<1>1. ASSUME NEW p \in Procs, Loop(p) PROVE Walk(row[j], row'[j])
  <2>1. ASSUME NEW k \in Judgings, TryClaim(p, k), row[k].status = "queued"
        PROVE  Walk(row[j], row'[j])
    <3>1. CASE j = k
      <4>1. row'[j] = Claimed(row[j])
        BY <2>1, <3>1 DEF TryClaim, TypeOK
      <4>2. row[j].attempts < MaxAttempts
        BY <2>1, <3>1 DEF AttemptBudget
      <4> QED BY <1>r, <2>1, <3>1, <4>1, <4>2, ClaimedRow DEF Walk, Columns
    <3>2. CASE j # k
      BY <2>1, <3>2 DEF TryClaim, TypeOK, Walk, Columns
    <3> QED BY <3>1, <3>2
  <2> QED BY <1>0, <1>1, <2>1 DEF Loop, FillSlots, SelectCandidates, TryClaim
<1>2. ASSUME NEW c \in Claim, RunJudging(c) PROVE Walk(row[j], row'[j])
  <2>0. /\ c.judging \in Judgings
        /\ task[c].version \in Nat /\ task[c].result \in Outcomes
    BY DEF Claim, TypeOK, Task
  <2>1. CASE PreparePush(c) /\ row' # row
    <3>1. row' = [row EXCEPT ![c.judging] = Prepared(@, task[c].version)]
      BY <2>1 DEF PreparePush
    <3>2. row'[j] = IF j = c.judging THEN Prepared(row[j], task[c].version)
                                     ELSE row[j]
      BY <2>0, <3>1 DEF TypeOK
    <3>3. /\ row'[j].status = row[j].status
          /\ row'[j].attempts = row[j].attempts
          /\ row'[j].verdict = row[j].verdict
      <4>1. LET r == Prepared(row[j], task[c].version)
            IN  /\ r.status = row[j].status
                /\ r.attempts = row[j].attempts
                /\ r.verdict = row[j].verdict
        BY <1>r, <2>0, PreparedRow
      <4>2. CASE j = c.judging
        BY <3>2, <4>1, <4>2
      <4>3. CASE j # c.judging
        BY <3>2, <4>3
      <4> QED BY <4>2, <4>3
    <3> QED BY <3>3 DEF Walk, Columns
  <2>2. CASE Finish(c) /\ row' # row
    <3>1. row' = [row EXCEPT ![c.judging] = Concluded(@, task[c].result)]
          /\ Fenced(c) /\ task[c].result \in Verdicts
      BY <2>2 DEF Finish, VerdictInHand
    <3>2. row'[j] = IF j = c.judging THEN Concluded(row[j], task[c].result)
                                     ELSE row[j]
      BY <2>0, <3>1 DEF TypeOK
    <3> QED BY <1>r, <2>0, <3>1, <3>2, ConcludedRow DEF Walk, Columns, Fenced
  <2>3. CASE GiveUpOrRetry(c) /\ row' # row
    <3>1. \/ /\ row' = [row EXCEPT ![c.judging] = Requeued(@)]
             /\ c.attempt < MaxAttempts
          \/ row' = [row EXCEPT ![c.judging] = Abandoned(@)]
      BY <2>3 DEF GiveUpOrRetry
    <3>2. Fenced(c)
      BY <2>3 DEF GiveUpOrRetry
    <3>3. \/ /\ row'[j] = IF j = c.judging THEN Requeued(row[j]) ELSE row[j]
             /\ c.attempt < MaxAttempts
          \/ row'[j] = IF j = c.judging THEN Abandoned(row[j]) ELSE row[j]
      BY <2>0, <3>1 DEF TypeOK
    <3> QED BY <1>r, <3>2, <3>3, RowUpdates DEF Walk, Columns, Fenced
  <2> QED BY <1>0, <1>2, <2>1, <2>2, <2>3 DEF RunJudging, PrepareRead,
          PrepareFails, RunEnds, RunFails, FinishFails, EmitCompleted,
          DiscardRunSource
<1>3. ASSUME NEW p \in Procs, Reap(p) PROVE Walk(row[j], row'[j])
  <2>1. CASE ReapUpdate(p)
    <3> DEFINE taken == {c \in reaper[p].stuck : Fenced(c)}
               lost == {c.judging : c \in {d \in taken : Spent(d.attempt)}}
               back == {c.judging : c \in {d \in taken : ~Spent(d.attempt)}}
    <3>1. row' = [k \in Judgings |->
                    CASE k \in lost -> Abandoned(row[k])
                      [] k \in back -> Requeued(row[k])
                      [] OTHER -> row[k]]
      BY <2>1 DEF ReapUpdate
    <3>2. j \in lost => row[j].status = "running"
      BY DEF Fenced
    <3>3. j \in back => row[j].status = "running"
                        /\ row[j].attempts < MaxAttempts
      BY <1>r DEF Fenced, Spent, Row, TypeOK, Reaper, Claim, Attempts
    <3> HIDE DEF lost, back
    <3>4. row'[j] = CASE j \in lost -> Abandoned(row[j])
                      [] j \in back -> Requeued(row[j])
                      [] OTHER -> row[j]
      BY <3>1
    <3> QED BY <1>r, <3>2, <3>3, <3>4, RowUpdates DEF Walk, Columns
  <2> QED BY <1>0, <1>3, <2>1 DEF Reap, ReapRead, ReapEmit
<1>4. CASE Environment
  <2>1. ASSUME NEW k \in Judgings, QueueCode(k) PROVE Walk(row[j], row'[j])
    BY <1>r, <2>1 DEF QueueCode, TypeOK, Row, Walk, Columns
  <2>2. ASSUME NEW k \in Judgings, DeleteRow(k) PROVE Walk(row[j], row'[j])
    BY <1>r, <2>2 DEF DeleteRow, TypeOK, Row, Walk, Columns
  <2>3. ASSUME NEW k \in Judgings, DeadlinePasses(k)
        PROVE  Walk(row[j], row'[j])
    BY <1>r, <2>3 DEF DeadlinePasses, TypeOK, Row, Walk, Columns
  <2> QED BY <1>0, <1>4, <2>1, <2>2, <2>3 DEF Environment, ToggleJudge,
          EditProblem, TaskDies, ProcessEnds, ProcessStarts
<1>5. CASE UNCHANGED vars
  BY <1>0, <1>5 DEF vars
<1> QED BY <1>1, <1>2, <1>3, <1>4, <1>5 DEF Next

(* A row that was never created has spent nothing. *)
FreshRows ==
    \A j \in Judgings : row[j].status = "none" => row[j].attempts = 0

(* Nobody requeues a row whose attempts are spent. *)
LEMMA AttemptBudgetStep ==
  ASSUME TypeOK, AttemptBudget, FreshRows, VerdictInHand, [Next]_vars
  PROVE  AttemptBudget' /\ FreshRows'
<1>1. ASSUME NEW j \in Judgings
      PROVE  /\ row'[j].status = "queued" => row'[j].attempts < MaxAttempts
             /\ row'[j].status = "none" => row'[j].attempts = 0
  <2>1. Walk(row[j], row'[j])
    BY RowsWalk
  <2> QED BY <2>1, QueueAssumption DEF AttemptBudget, FreshRows, Walk, Columns
<1> QED BY <1>1 DEF AttemptBudget, FreshRows

(* The attempts of a row only grow. *)
LEMMA AttemptsGrow ==
  ASSUME TypeOK, AttemptBudget, VerdictInHand, [Next]_vars,
         NEW j \in Judgings
  PROVE  row[j].attempts <= row'[j].attempts
<1>1. Walk(row[j], row'[j])
  BY RowsWalk
<1>2. row[j].attempts \in Nat
  BY DEF TypeOK, Row
<1> QED BY <1>1, <1>2 DEF Walk, Columns

(* A claim nobody made has no owner. *)
Unowned == \A c \in Claim : task[c].pc = "none" => task[c].proc = NoProc

(* Claims nobody has made yet stay without a process.                      *)
LEMMA UnownedStep ==
  ASSUME TypeOK, AttemptBudget, Unowned, [Next]_vars
  PROVE  Unowned'
<1> SUFFICES ASSUME NEW c \in Claim
             PROVE  task'[c] = task[c] \/ task'[c].pc # "none"
  BY DEF Unowned
<1> USE QueueAssumption
<1>t. task[c] \in Task
  BY DEF TypeOK
<1>0. ASSUME NEW d \in Claim, NEW pc \in TaskSteps \ {"none"}, Goto(d, pc)
      PROVE  task'[c] = task[c] \/ task'[c].pc # "none"
  BY <1>0, <1>t DEF Goto, TypeOK, Task
<1>1. ASSUME NEW d \in Claim, Return(d)
      PROVE  task'[c] = task[c] \/ task'[c].pc # "none"
  BY <1>1, <1>t, OverTask DEF Return, TypeOK
<1>2. ASSUME NEW p \in Procs, NEW j \in Judgings, TryClaim(p, j)
      PROVE  task'[c] = task[c] \/ task'[c].pc # "none"
  <2> DEFINE d == [judging |-> j, attempt |-> row[j].attempts + 1]
  <2>1. CASE row[j].status = "queued"
    <3>1. task' = [task EXCEPT ![d] = Begun(@, p)]
      BY <1>2, <2>1 DEF TryClaim
    <3> HIDE DEF d
    <3> QED BY <1>t, <3>1, BegunTask DEF TypeOK
  <2> QED BY <1>2, <2>1 DEF TryClaim
<1>3. ASSUME NEW d \in Claim, RunJudging(d)
      PROVE  task'[c] = task[c] \/ task'[c].pc # "none"
  <2>1. CASE PrepareRead(d) /\ Fenced(d)
    <3>1. PICK pc \in {"loading", "giveup", "retry"} :
             task' = [task EXCEPT
               ![d] = Loaded(@, pc, IF pc = "loading" THEN problem ELSE 0)]
      BY <2>1 DEF PrepareRead
    <3>2. pc \in TaskSteps /\ (IF pc = "loading" THEN problem ELSE 0) \in Nat
      BY DEF TaskSteps, TypeOK
    <3> QED BY <1>t, <3>1, <3>2, LoadedTask DEF TypeOK
  <2>2. CASE RunEnds(d)
    <3>1. PICK v \in Verdicts :
             task' = [task EXCEPT ![d] = Returned(@, "verdict", v)]
      BY <2>2 DEF RunEnds
    <3>2. v \in Outcomes /\ "verdict" \in TaskSteps
      BY DEF Outcomes, TaskSteps
    <3> QED BY <1>t, <3>1, <3>2, ReturnedTask DEF TypeOK
  <2>3. CASE FinishFails(d)
    <3>1. task' = [task EXCEPT ![d] = Returned(@, "retry", NoVerdict)]
      BY <2>3 DEF FinishFails
    <3>2. NoVerdict \in Outcomes /\ "retry" \in TaskSteps
      BY DEF Outcomes, TaskSteps
    <3> QED BY <1>t, <3>1, <3>2, ReturnedTask DEF TypeOK
  <2> QED BY <1>0, <1>1, <1>3, <2>1, <2>2, <2>3 DEF RunJudging, PrepareRead,
          PreparePush, PrepareFails, RunFails, Finish, GiveUpOrRetry,
          EmitCompleted, DiscardRunSource, TaskSteps
<1>4. ASSUME NEW p \in Procs, ProcessEnds(p)
      PROVE  task'[c] = task[c] \/ task'[c].pc # "none"
  BY <1>4, <1>t, OverTask DEF ProcessEnds
<1> QED BY <1>1, <1>2, <1>3, <1>4 DEF Next, Environment, Loop, FillSlots,
        SelectCandidates, Reap, ReapRead, ReapUpdate, ReapEmit, QueueCode,
        DeleteRow, DeadlinePasses, ToggleJudge, EditProblem, TaskDies,
        ProcessStarts, vars

(* Only TryClaim starts a task, and only for the attempt it has just       *)
(* written to the row.                                                     *)
LEMMA TasksStart ==
  ASSUME TypeOK, AttemptBudget, Unowned, [Next]_vars, NEW c \in Claim,
         task[c].pc = "none", task'[c].pc # "none"
  PROVE  c.attempt = row'[c.judging].attempts
<1> USE QueueAssumption
<1>1. ASSUME NEW p \in Procs, NEW j \in Judgings, TryClaim(p, j)
      PROVE  c.attempt = row'[c.judging].attempts
  <2> DEFINE d == [judging |-> j, attempt |-> row[j].attempts + 1]
  <2>1. row[j].status = "queued"
    BY <1>1 DEF TryClaim
  <2>2. d \in Claim
    BY <2>1, NextClaim
  <2>3. task' = [task EXCEPT ![d] = Begun(@, p)]
    BY <1>1, <2>1 DEF TryClaim
  <2>4. c = d
    BY <2>2, <2>3 DEF TypeOK
  <2>5. row'[j] = Claimed(row[j]) /\ row[j] \in Row
        /\ row[j].attempts < MaxAttempts
    BY <1>1, <2>1 DEF TryClaim, TypeOK, AttemptBudget
  <2> QED BY <2>4, <2>5, ClaimedRow
<1>2. ASSUME NEW d \in Claim, RunJudging(d) PROVE FALSE
  BY <1>2 DEF RunJudging, PrepareRead, PreparePush, PrepareFails, RunEnds,
     RunFails, Finish, FinishFails, GiveUpOrRetry, EmitCompleted,
     DiscardRunSource, Goto, Return, TypeOK
<1>3. ASSUME NEW p \in Procs, ProcessEnds(p) PROVE FALSE
  BY <1>3 DEF ProcessEnds, Running, Unowned
<1> QED BY <1>1, <1>2, <1>3 DEF Next, Environment, Loop, FillSlots,
        SelectCandidates, Reap, ReapRead, ReapUpdate, ReapEmit, QueueCode,
        DeleteRow, DeadlinePasses, ToggleJudge, EditProblem, TaskDies,
        ProcessStarts, Return, TypeOK, vars

(* The fencing token: what a task or a reaper carries, the row has reached. *)
LEMMA FencingTokenStep ==
  ASSUME TypeOK, AttemptBudget, VerdictInHand, Unowned, FencingToken,
         TypeOK', [Next]_vars
  PROVE  FencingToken'
<1> USE QueueAssumption
<1>1. ASSUME NEW c \in Claim, task'[c].pc # "none"
      PROVE  c.attempt <= row'[c.judging].attempts
  <2>0. /\ c.judging \in Judgings /\ c.attempt \in Nat
        /\ row[c.judging].attempts \in Nat /\ row'[c.judging].attempts \in Nat
    BY ClaimFields, AttemptsNat DEF TypeOK
  <2>1. CASE task[c].pc = "none"
    <3>1. c.attempt = row'[c.judging].attempts
      BY <1>1, <2>1, TasksStart
    <3> QED BY <2>0, <3>1
  <2>2. CASE task[c].pc # "none"
    <3>1. c.attempt <= row[c.judging].attempts
      BY <2>2 DEF FencingToken
    <3>2. row[c.judging].attempts <= row'[c.judging].attempts
      BY <2>0, AttemptsGrow
    <3> QED BY <2>0, <3>1, <3>2
  <2> QED BY <2>1, <2>2
<1>2. ASSUME NEW p \in Procs, NEW c \in reaper'[p].stuck
      PROVE  c.attempt <= row'[c.judging].attempts
  <2>0. c \in Claim
    BY DEF TypeOK, Reaper
  <2>1. /\ c.judging \in Judgings /\ c.attempt \in Nat
        /\ row[c.judging].attempts \in Nat /\ row'[c.judging].attempts \in Nat
    BY <2>0, ClaimFields, AttemptsNat DEF TypeOK
  <2>2. c \in reaper[p].stuck \/ c \in Stuck
    <3>1. ASSUME NEW q \in Procs, ReapRead(q)
          PROVE  c \in reaper[p].stuck \/ c \in Stuck
      <4>1. PICK batch \in SUBSET Stuck :
               reaper' = [reaper EXCEPT
                 ![q] = [@ EXCEPT !.pc = "update", !.stuck = batch]]
        BY <3>1 DEF ReapRead
      <4> QED BY <4>1 DEF TypeOK, Reaper
    <3>2. ASSUME NEW q \in Procs, ReapUpdate(q)
          PROVE  c \in reaper[p].stuck
      <4>1. PICK l : reaper' = [reaper EXCEPT
                       ![q] = [@ EXCEPT !.pc = "emit", !.failed = l]]
        BY <3>2 DEF ReapUpdate
      <4> QED BY <4>1 DEF TypeOK, Reaper
    <3>3. ASSUME NEW q \in Procs, ReapEmit(q) PROVE c \in reaper[p].stuck
      BY <3>3 DEF ReapEmit, IdleReaper, TypeOK, Reaper
    <3>4. ASSUME NEW q \in Procs, ProcessEnds(q) PROVE c \in reaper[p].stuck
      BY <3>4 DEF ProcessEnds, IdleReaper, TypeOK, Reaper
    <3>5. ASSUME NEW q \in Procs, ProcessStarts(q) PROVE c \in reaper[p].stuck
      BY <3>5 DEF ProcessStarts, TypeOK, Reaper
    <3>6. ASSUME reaper' = reaper PROVE c \in reaper[p].stuck
      BY <3>6
    <3> QED BY <3>1, <3>2, <3>3, <3>4, <3>5, <3>6 DEF Next, Environment,
            Loop, FillSlots, SelectCandidates, TryClaim, Reap, RunJudging,
            PrepareRead, PreparePush, PrepareFails, RunEnds, RunFails, Finish,
            FinishFails, GiveUpOrRetry, EmitCompleted, DiscardRunSource,
            QueueCode, DeleteRow, DeadlinePasses, ToggleJudge, EditProblem,
            TaskDies, vars
  <2>3. c.attempt <= row[c.judging].attempts
    BY <2>1, <2>2 DEF FencingToken, Stuck, Fenced
  <2>4. row[c.judging].attempts <= row'[c.judging].attempts
    BY <2>1, AttemptsGrow
  <2> QED BY <2>1, <2>3, <2>4
<1> QED BY <1>1, <1>2 DEF FencingToken

(***************************************************************************)
(* Who writes the outcome.                                                 *)
(***************************************************************************)

(* The claim that holds a row knows the version the row names, and a done  *)
(* row is the work of the task of its last claim, which is past recording. *)
Holder(c) ==
    /\ (task[c].pc \in {"executing", "verdict"} /\ Fenced(c))
          => row[c.judging].version = task[c].version
    /\ (row[c.judging].status = "done" /\ row[c.judging].attempts = c.attempt)
          => /\ task[c].pc \in {"emit", "discard", "over"}
             /\ row[c.judging].verdict = task[c].result
             /\ row[c.judging].verdict \in Verdicts
             /\ row[c.judging].version = task[c].version

HolderKnows == \A c \in Claim : Holder(c)

(* Two claims on one judging differ in their attempt. *)
LEMMA ClaimsDiffer ==
  ASSUME NEW c \in Claim, NEW d \in Claim, c.judging = d.judging,
         c.attempt = d.attempt
  PROVE  c = d
BY ClaimFields

(* The holder of a claim keeps what it knows when some judging runs.       *)
LEMMA HolderRunJudging ==
  ASSUME TypeOK, VerdictInHand, HolderKnows, NEW d \in Claim, RunJudging(d),
         NEW c \in Claim
  PROVE  Holder(c)' /\ (task'[c].pc = "verdict" => task'[c].result \in Verdicts)
<1> DEFINE G == /\ Holder(c)'
                /\ task'[c].pc = "verdict" => task'[c].result \in Verdicts
<1> SUFFICES G
  OBVIOUS
<1>0. /\ c.judging \in Judgings /\ d.judging \in Judgings
      /\ row[c.judging] \in Row /\ row[d.judging] \in Row
      /\ task[c] \in Task /\ task[d] \in Task
      /\ task[d].version \in Nat /\ task[d].result \in Outcomes
  BY ClaimFields DEF TypeOK, Task
<1>1. /\ Holder(c)
      /\ task[c].pc = "verdict" => task[c].result \in Verdicts
  BY DEF HolderKnows, VerdictInHand
<1>2. c # d => c.judging # d.judging \/ c.attempt # d.attempt
  BY ClaimsDiffer
<1>3. ASSUME row' = row, task'[c] = task[c] PROVE G
  BY <1>1, <1>3 DEF Holder, Fenced
(* A step of d that leaves every row alone and gives d a new pc. *)
<1>4. ASSUME row' = row, NEW pc \in TaskSteps \ {"executing", "verdict"},
             task[d].pc \notin {"emit", "discard", "over"},
             Goto(d, pc)
      PROVE  G
  <2>1. CASE c = d
    <3>1. task'[c] = [task[c] EXCEPT !.pc = pc]
      BY <1>4, <2>1 DEF Goto, TypeOK
    <3>2. task'[c].pc = pc
      BY <1>0, <3>1 DEF Task
    <3> QED BY <1>1, <1>4, <2>1, <3>2 DEF Holder, Fenced
  <2>2. CASE c # d
    BY <1>3, <1>4, <2>2 DEF Goto, TypeOK
  <2> QED BY <2>1, <2>2
<1>5. ASSUME row' = row, Return(d) PROVE G
  <2>1. CASE c = d
    <3>1. task'[c] = Over(task[c])
      BY <1>5, <2>1 DEF Return, TypeOK
    <3> QED BY <1>0, <1>1, <1>5, <3>1, OverTask DEF Holder, Fenced
  <2>2. CASE c # d
    BY <1>3, <1>5, <2>2 DEF Return, TypeOK
  <2> QED BY <2>1, <2>2
<1>6. CASE PrepareRead(d)
  <2>1. CASE Fenced(d)
    <3>1. PICK pc \in {"loading", "giveup", "retry"} :
             task' = [task EXCEPT
               ![d] = Loaded(@, pc, IF pc = "loading" THEN problem ELSE 0)]
      BY <1>6, <2>1 DEF PrepareRead
    <3>2. pc \in TaskSteps /\ (IF pc = "loading" THEN problem ELSE 0) \in Nat
      BY DEF TaskSteps, TypeOK
    <3>3. CASE c = d
      <4>1. task'[c].pc = pc /\ row' = row
        BY <1>0, <1>6, <3>1, <3>2, <3>3, LoadedTask DEF TypeOK, PrepareRead
      <4> QED BY <1>1, <2>1, <3>3, <4>1 DEF Holder, Fenced
    <3>4. CASE c # d
      BY <1>3, <1>6, <3>1, <3>4 DEF TypeOK, PrepareRead
    <3> QED BY <3>3, <3>4
  <2>2. CASE ~Fenced(d)
    BY <1>5, <1>6, <2>2 DEF PrepareRead
  <2> QED BY <2>1, <2>2
<1>7. CASE PreparePush(d)
  <2>1. CASE Fenced(d)
    <3>1. /\ row' = [row EXCEPT ![d.judging] = Prepared(@, task[d].version)]
          /\ task' = [task EXCEPT ![d].pc = "executing"]
      BY <1>7, <2>1 DEF PreparePush, Goto
    <3>2. CASE c = d
      <4>1. row'[c.judging] = Prepared(row[c.judging], task[c].version)
        BY <1>0, <3>1, <3>2 DEF TypeOK
      <4>2. task'[c].pc = "executing" /\ task'[c].version = task[c].version
        BY <1>0, <3>1, <3>2 DEF TypeOK, Task
      <4> QED BY <1>0, <2>1, <3>2, <4>1, <4>2, PreparedRow DEF Holder, Fenced
    <3>3. CASE c # d
      <4>1. task'[c] = task[c]
        BY <3>1, <3>3 DEF TypeOK
      <4>2. CASE c.judging = d.judging
        <5>1. row'[c.judging] = Prepared(row[c.judging], task[d].version)
          BY <1>0, <3>1, <4>2 DEF TypeOK
        <5>2. row'[c.judging].status = "running"
              /\ row'[c.judging].attempts # c.attempt
          BY <1>0, <1>2, <2>1, <3>3, <4>2, <5>1, PreparedRow DEF Fenced
        <5> QED BY <1>1, <4>1, <5>2 DEF Holder, Fenced
      <4>3. CASE c.judging # d.judging
        <5>1. row'[c.judging] = row[c.judging]
          BY <1>0, <3>1, <4>3 DEF TypeOK
        <5> QED BY <1>1, <4>1, <5>1 DEF Holder, Fenced
      <4> QED BY <4>2, <4>3
    <3> QED BY <3>2, <3>3
  <2>2. CASE ~Fenced(d)
    BY <1>5, <1>7, <2>2 DEF PreparePush
  <2> QED BY <2>1, <2>2
<1>8. CASE PrepareFails(d)
  BY <1>4, <1>8 DEF PrepareFails, TaskSteps
<1>9. CASE RunEnds(d) \/ FinishFails(d)
  <2>1. PICK v \in Outcomes, pc \in {"verdict", "retry"} :
           /\ task' = [task EXCEPT ![d] = Returned(@, pc, v)]
           /\ pc = "verdict" => v \in Verdicts /\ task[d].pc = "executing"
    BY <1>9 DEF RunEnds, FinishFails, Outcomes
  <2>2. row' = row /\ task[d].pc \in {"executing", "verdict"}
    BY <1>9 DEF RunEnds, FinishFails
  <2>3. CASE c = d
    <3>0. pc \in TaskSteps
      BY DEF TaskSteps
    <3>1. /\ task'[c].pc = pc /\ task'[c].result = v
          /\ task'[c].version = task[c].version
      BY <1>0, <2>1, <2>3, <3>0, ReturnedTask DEF TypeOK
    <3> QED BY <1>1, <2>1, <2>2, <2>3, <3>1 DEF Holder, Fenced
  <2>4. CASE c # d
    BY <1>3, <2>1, <2>2, <2>4 DEF TypeOK
  <2> QED BY <2>3, <2>4
<1>10. CASE RunFails(d)
  BY <1>4, <1>10 DEF RunFails, TaskSteps
<1>11. CASE Finish(d)
  <2>1. CASE Fenced(d)
    <3>1. /\ row' = [row EXCEPT ![d.judging] = Concluded(@, task[d].result)]
          /\ task' = [task EXCEPT ![d].pc = "emit"]
          /\ task[d].pc = "verdict"
      BY <1>11, <2>1 DEF Finish, Goto
    <3>2. CASE c = d
      <4>1. row'[c.judging] = Concluded(row[c.judging], task[c].result)
        BY <1>0, <3>1, <3>2 DEF TypeOK
      <4>2. /\ task'[c].pc = "emit" /\ task'[c].version = task[c].version
            /\ task'[c].result = task[c].result
        BY <1>0, <3>1, <3>2 DEF TypeOK, Task
      <4> QED BY <1>0, <1>1, <2>1, <3>1, <3>2, <4>1, <4>2, ConcludedRow
              DEF Holder, Fenced
    <3>3. CASE c # d
      <4>1. task'[c] = task[c]
        BY <3>1, <3>3 DEF TypeOK
      <4>2. CASE c.judging = d.judging
        <5>1. row'[c.judging] = Concluded(row[c.judging], task[d].result)
          BY <1>0, <3>1, <4>2 DEF TypeOK
        <5>2. row'[c.judging].status = "done"
              /\ row'[c.judging].attempts # c.attempt
          BY <1>0, <1>2, <2>1, <3>3, <4>2, <5>1, ConcludedRow DEF Fenced
        <5> QED BY <1>1, <4>1, <5>2 DEF Holder, Fenced
      <4>3. CASE c.judging # d.judging
        <5>1. row'[c.judging] = row[c.judging]
          BY <1>0, <3>1, <4>3 DEF TypeOK
        <5> QED BY <1>1, <4>1, <5>1 DEF Holder, Fenced
      <4> QED BY <4>2, <4>3
    <3> QED BY <3>2, <3>3
  <2>2. CASE ~Fenced(d)
    BY <1>4, <1>11, <2>2 DEF Finish, TaskSteps
  <2> QED BY <2>1, <2>2
<1>12. CASE GiveUpOrRetry(d)
  <2>1. CASE Fenced(d)
    <3>1. PICK pc \in {"discard", "emit"} :
             task' = [task EXCEPT ![d].pc = pc]
      BY <1>12, <2>1 DEF GiveUpOrRetry, Goto
    <3>2. \/ row' = [row EXCEPT ![d.judging] = Requeued(@)]
          \/ row' = [row EXCEPT ![d.judging] = Abandoned(@)]
      BY <1>12, <2>1 DEF GiveUpOrRetry
    <3>3. c # d => task'[c] = task[c]
      BY <3>1 DEF TypeOK
    <3>4. c = d => task'[c].pc = pc
      BY <1>0, <3>1 DEF TypeOK, Task
    <3>5. IF c.judging = d.judging
          THEN row'[c.judging].status \in {"queued", "failed"}
          ELSE row'[c.judging] = row[c.judging]
      BY <1>0, <3>2, RowUpdates DEF TypeOK
    <3> QED BY <1>1, <3>1, <3>3, <3>4, <3>5 DEF Holder, Fenced
  <2>2. CASE ~Fenced(d)
    BY <1>4, <1>12, <2>2 DEF GiveUpOrRetry, TaskSteps
  <2> QED BY <2>1, <2>2
<1>13. CASE EmitCompleted(d)
  <2>1. row' = row /\ task' = [task EXCEPT ![d].pc = "discard"]
    BY <1>13 DEF EmitCompleted, Goto
  <2>2. CASE c = d
    <3>1. /\ task'[c].pc = "discard" /\ task'[c].version = task[c].version
          /\ task'[c].result = task[c].result
      BY <1>0, <2>1, <2>2 DEF TypeOK, Task
    <3> QED BY <1>1, <2>1, <3>1 DEF Holder, Fenced
  <2>3. CASE c # d
    BY <1>3, <2>1, <2>3 DEF TypeOK
  <2> QED BY <2>2, <2>3
<1>14. CASE DiscardRunSource(d)
  BY <1>5, <1>14 DEF DiscardRunSource
<1> HIDE DEF G
<1> QED BY <1>6, <1>7, <1>8, <1>9, <1>10, <1>11, <1>12, <1>13, <1>14
        DEF RunJudging

(* The holder of a claim keeps what it knows through every step.           *)
LEMMA HolderStep ==
  ASSUME TypeOK, AttemptBudget, VerdictInHand, HolderKnows, [Next]_vars
  PROVE  HolderKnows' /\ VerdictInHand'
<1> SUFFICES ASSUME NEW c \in Claim
             PROVE  /\ Holder(c)'
                    /\ task'[c].pc = "verdict" => task'[c].result \in Verdicts
  BY DEF HolderKnows, VerdictInHand
<1> DEFINE G == /\ Holder(c)'
                /\ task'[c].pc = "verdict" => task'[c].result \in Verdicts
<1> USE QueueAssumption
<1>0. c.judging \in Judgings /\ row[c.judging] \in Row /\ task[c] \in Task
  BY ClaimFields DEF TypeOK
<1>1. /\ Holder(c)
      /\ task[c].pc = "verdict" => task[c].result \in Verdicts
  BY DEF HolderKnows, VerdictInHand
(* The columns Holder reads are left alone, or the row is not c's to hold. *)
<1>2. ASSUME task'[c] = task[c],
             \/ /\ row'[c.judging].status = row[c.judging].status
                /\ row'[c.judging].attempts = row[c.judging].attempts
                /\ row'[c.judging].verdict = row[c.judging].verdict
                /\ row'[c.judging].version = row[c.judging].version
             \/ row'[c.judging].status \in {"queued", "failed", "deleted"}
      PROVE  G
  BY <1>1, <1>2 DEF Holder, Fenced
<1>3. ASSUME row' = row, task'[c] = task[c] \/ task'[c] = Over(task[c])
      PROVE  G
  BY <1>0, <1>1, <1>3, OverTask DEF Holder, Fenced
<1>4. ASSUME NEW p \in Procs, NEW j \in Judgings, TryClaim(p, j),
             row[j].status = "queued"
      PROVE  G
  <2> DEFINE d == [judging |-> j, attempt |-> row[j].attempts + 1]
  <2>1. d \in Claim
    BY <1>4, NextClaim
  <2>2. task' = [task EXCEPT ![d] = Begun(@, p)]
    BY <1>4 DEF TryClaim
  <2>3. row' = [row EXCEPT ![j] = Claimed(@)]
    BY <1>4 DEF TryClaim
  <2>4. row[j] \in Row /\ row[j].attempts < MaxAttempts
    BY <1>4 DEF TypeOK, AttemptBudget
  <2>5. d.judging = j /\ d.attempt = row[j].attempts + 1
    OBVIOUS
  <2> HIDE DEF d
  <2>6. CASE c = d
    <3>1. task'[c].pc = "claimed"
      BY <1>0, <2>1, <2>2, <2>6, BegunTask DEF TypeOK
    <3>2. row'[c.judging].status = "running"
      BY <2>3, <2>4, <2>5, <2>6, ClaimedRow DEF TypeOK
    <3> QED BY <3>1, <3>2 DEF Holder, Fenced
  <2>7. CASE c # d
    <3>1. task'[c] = task[c]
      BY <2>2, <2>7 DEF TypeOK
    <3>2. CASE c.judging = j
      <4>1. c.attempt # row[j].attempts + 1
        BY <2>1, <2>5, <2>7, <3>2, ClaimsDiffer
      <4>2. /\ row'[c.judging].status = "running"
            /\ row'[c.judging].attempts = row[j].attempts + 1
        BY <2>3, <2>4, <3>2, ClaimedRow DEF TypeOK
      <4> QED BY <1>1, <3>1, <4>1, <4>2 DEF Holder, Fenced
    <3>3. CASE c.judging # j
      BY <1>0, <1>2, <2>3, <3>1, <3>3 DEF TypeOK
    <3> QED BY <3>2, <3>3
  <2> QED BY <2>6, <2>7
<1>5. ASSUME NEW p \in Procs, Loop(p) PROVE G
  BY <1>3, <1>4, <1>5 DEF Loop, FillSlots, SelectCandidates, TryClaim
<1>6. ASSUME NEW d \in Claim, RunJudging(d) PROVE G
  BY <1>6, HolderRunJudging
<1>7. ASSUME NEW p \in Procs, Reap(p) PROVE G
  <2>1. CASE ReapUpdate(p)
    <3> DEFINE taken == {e \in reaper[p].stuck : Fenced(e)}
               lost == {e.judging : e \in {f \in taken : Spent(f.attempt)}}
               back == {e.judging : e \in {f \in taken : ~Spent(f.attempt)}}
    <3>1. row' = [k \in Judgings |->
                    CASE k \in lost -> Abandoned(row[k])
                      [] k \in back -> Requeued(row[k])
                      [] OTHER -> row[k]]
      BY <2>1 DEF ReapUpdate
    <3>2. task'[c] = task[c]
      BY <2>1 DEF ReapUpdate
    <3> HIDE DEF lost, back
    <3>3. row'[c.judging] = CASE c.judging \in lost -> Abandoned(row[c.judging])
                              [] c.judging \in back -> Requeued(row[c.judging])
                              [] OTHER -> row[c.judging]
      BY <1>0, <3>1
    <3> QED BY <1>0, <1>2, <3>2, <3>3, RowUpdates
  <2> QED BY <1>3, <1>7, <2>1 DEF Reap, ReapRead, ReapEmit
<1>8. CASE Environment
  <2>1. ASSUME NEW j \in Judgings, QueueCode(j) PROVE G
    BY <1>0, <1>2, <2>1 DEF QueueCode, TypeOK, Row
  <2>2. ASSUME NEW j \in Judgings, DeleteRow(j) PROVE G
    BY <1>0, <1>2, <2>2 DEF DeleteRow, TypeOK, Row
  <2>3. ASSUME NEW j \in Judgings, DeadlinePasses(j) PROVE G
    BY <1>0, <1>2, <2>3 DEF DeadlinePasses, TypeOK, Row
  <2>4. ASSUME NEW d \in Claim, TaskDies(d) PROVE G
    BY <1>0, <1>3, <2>4 DEF TaskDies, Return, TypeOK
  <2>5. ASSUME NEW p \in Procs, ProcessEnds(p) PROVE G
    BY <1>3, <2>5 DEF ProcessEnds
  <2> QED BY <1>3, <1>8, <2>1, <2>2, <2>3, <2>4, <2>5 DEF Environment,
          ToggleJudge, EditProblem, ProcessStarts
<1>9. CASE UNCHANGED vars
  BY <1>3, <1>9 DEF vars
<1>10. G
  BY <1>5, <1>6, <1>7, <1>8, <1>9 DEF Next
<1> QED BY <1>10

(* Only the submit route creates a row. *)
LEMMA OnlyQueueCode ==
  ASSUME TypeOK, [Next]_vars, NEW j \in Judgings,
         row[j].status = "none", row'[j].status # "none"
  PROVE  QueueCode(j)
<1> USE QueueAssumption
<1>0. row' # row
  OBVIOUS
<1>1. ASSUME NEW p \in Procs, NEW k \in Judgings, TryClaim(p, k) PROVE FALSE
  BY <1>1 DEF TryClaim, TypeOK
<1>2. ASSUME NEW c \in Claim, RunJudging(c) PROVE FALSE
  <2>1. c.judging \in Judgings
    BY ClaimFields
  <2>2. Fenced(c) /\ \E r : row' = [row EXCEPT ![c.judging] = r]
    BY <1>0, <1>2 DEF RunJudging, PrepareRead, PreparePush, PrepareFails,
       RunEnds, RunFails, Finish, FinishFails, GiveUpOrRetry, EmitCompleted,
       DiscardRunSource
  <2> QED BY <2>1, <2>2 DEF Fenced, TypeOK
<1>3. ASSUME NEW p \in Procs, ReapUpdate(p) PROVE FALSE
  <2> DEFINE taken == {e \in reaper[p].stuck : Fenced(e)}
             lost == {e.judging : e \in {f \in taken : Spent(f.attempt)}}
             back == {e.judging : e \in {f \in taken : ~Spent(f.attempt)}}
  <2>1. row' = [k \in Judgings |->
                  CASE k \in lost -> Abandoned(row[k])
                    [] k \in back -> Requeued(row[k])
                    [] OTHER -> row[k]]
    BY <1>3 DEF ReapUpdate
  <2>2. j \notin lost /\ j \notin back
    BY DEF Fenced
  <2> HIDE DEF lost, back
  <2> QED BY <2>1, <2>2
<1>4. ASSUME NEW k \in Judgings, QueueCode(k) PROVE QueueCode(j)
  <2>1. j = k
    BY <1>4 DEF QueueCode, TypeOK
  <2> QED BY <1>4, <2>1
<1>5. ASSUME NEW k \in Judgings, DeleteRow(k) \/ DeadlinePasses(k)
      PROVE  FALSE
  BY <1>5 DEF DeleteRow, DeadlinePasses, TypeOK
<1> QED BY <1>0, <1>1, <1>2, <1>3, <1>4, <1>5 DEF Next, Environment, Loop,
        FillSlots, SelectCandidates, Reap, ReapRead, ReapEmit, ToggleJudge,
        EditProblem, TaskDies, ProcessEnds, ProcessStarts, vars

(* A source goes only once its judging is over, and an over judging never  *)
(* runs again.                                                             *)
LEMMA SourceStep ==
  ASSUME TypeOK, AttemptBudget, VerdictInHand, SourceAvailable, [Next]_vars
  PROVE  SourceAvailable'
<1> SUFFICES ASSUME NEW j \in Judgings,
                    row'[j].status \in {"queued", "running"}
             PROVE  source'[j]
  BY DEF SourceAvailable
<1> USE QueueAssumption
<1>1. CASE row[j].status = "none"
  <2>1. QueueCode(j)
    <3>1. row'[j].status # "none"
      OBVIOUS
    <3> QED BY <1>1, <3>1, OnlyQueueCode
  <2> QED BY <2>1 DEF QueueCode, TypeOK
<1>2. CASE row[j].status # "none"
  <2>1. Walk(row[j], row'[j])
    BY RowsWalk
  <2>2. row[j].status \in {"queued", "running"}
    BY <1>2, <2>1 DEF Walk, Columns
  <2>3. source[j]
    BY <2>2 DEF SourceAvailable
  <2>4. ASSUME source' = source PROVE source'[j]
    BY <2>3, <2>4
  <2>5. ASSUME NEW k \in Judgings, QueueCode(k) PROVE source'[j]
    BY <2>3, <2>5 DEF QueueCode, TypeOK
  <2>6. ASSUME NEW c \in Claim, DiscardRunSource(c) PROVE source'[j]
    <3>1. PICK gone \in {FALSE, RunIsOver(c)} :
             source' = [source EXCEPT ![c.judging] = @ /\ ~gone]
      BY <2>6 DEF DiscardRunSource
    <3>2. c.judging = j => ~RunIsOver(c)
      BY <2>2 DEF RunIsOver, Terminal
    <3>3. c.judging = j => ~gone
      BY <3>1, <3>2
    <3> QED BY <2>3, <3>1, <3>3 DEF TypeOK
  <2> QED BY <2>4, <2>5, <2>6 DEF Next, Environment, Loop, FillSlots,
          SelectCandidates, TryClaim, Reap, ReapRead, ReapUpdate, ReapEmit,
          RunJudging, PrepareRead, PreparePush, PrepareFails, RunEnds,
          RunFails, Finish, FinishFails, GiveUpOrRetry, EmitCompleted,
          DeleteRow, DeadlinePasses, ToggleJudge, EditProblem, TaskDies,
          ProcessEnds, ProcessStarts, vars
<1> QED BY <1>1, <1>2

(***************************************************************************)
(* The slots of a process.                                                 *)
(***************************************************************************)

(* Whoever has no task that the step starts runs no more than before. *)
LEMMA RunningShrinks ==
  ASSUME NEW p, Running(p)' \subseteq Running(p)
  PROVE  Cardinality(Running(p)') <= Cardinality(Running(p))
BY RunningFinite, FS_Subset

(* A task keeps its process until it returns. *)
LEMMA RunJudgingOwner ==
  ASSUME TypeOK, NEW d \in Claim, RunJudging(d), NEW c \in Claim
  PROVE  task'[c].proc = task[c].proc \/ task'[c].proc = NoProc
<1> DEFINE G == task'[c].proc = task[c].proc \/ task'[c].proc = NoProc
<1> USE QueueAssumption
<1>t. task[c] \in Task
  BY DEF TypeOK
<1>0. ASSUME NEW pc \in TaskSteps, Goto(d, pc) PROVE G
  BY <1>0, <1>t DEF Goto, TypeOK, Task
<1>1. ASSUME Return(d) PROVE G
  BY <1>1, <1>t, OverTask DEF Return, TypeOK
<1>2. CASE PrepareRead(d) /\ Fenced(d)
  <2>1. PICK pc \in {"loading", "giveup", "retry"} :
           task' = [task EXCEPT
             ![d] = Loaded(@, pc, IF pc = "loading" THEN problem ELSE 0)]
    BY <1>2 DEF PrepareRead
  <2>2. pc \in TaskSteps /\ (IF pc = "loading" THEN problem ELSE 0) \in Nat
    BY DEF TaskSteps, TypeOK
  <2> QED BY <1>t, <2>1, <2>2, LoadedTask DEF TypeOK
<1>3. CASE RunEnds(d)
  <2>1. PICK v \in Verdicts :
           task' = [task EXCEPT ![d] = Returned(@, "verdict", v)]
    BY <1>3 DEF RunEnds
  <2>2. v \in Outcomes /\ "verdict" \in TaskSteps
    BY DEF Outcomes, TaskSteps
  <2> QED BY <1>t, <2>1, <2>2, ReturnedTask DEF TypeOK
<1>4. CASE FinishFails(d)
  <2>1. task' = [task EXCEPT ![d] = Returned(@, "retry", NoVerdict)]
    BY <1>4 DEF FinishFails
  <2>2. NoVerdict \in Outcomes /\ "retry" \in TaskSteps
    BY DEF Outcomes, TaskSteps
  <2> QED BY <1>t, <2>1, <2>2, ReturnedTask DEF TypeOK
<1> QED BY <1>0, <1>1, <1>2, <1>3, <1>4 DEF RunJudging, PrepareRead,
        PreparePush, PrepareFails, RunFails, Finish, GiveUpOrRetry,
        EmitCompleted, DiscardRunSource, TaskSteps

(* A process fills no slot it does not have: what runs and what the pass   *)
(* may still start never exceed the limit together.                        *)
LEMMA SlotBoundStep ==
  ASSUME TypeOK, PassHasSlot, AttemptBudget, SlotBound, [Next]_vars
  PROVE  SlotBound'
<1> SUFFICES ASSUME NEW p \in Procs
             PROVE  Cardinality(Running(p)') + worker'[p].slots <= Slots
  BY DEF SlotBound, Slots
<1> USE QueueAssumption
<1>t. /\ worker[p] \in Worker /\ worker[p].slots \in Nat
      /\ Slots \in Nat /\ Slots >= 1
      /\ Cardinality(Running(p)) \in Nat
      /\ Cardinality(Running(p)) + worker[p].slots <= Slots
  BY RunningFinite, SlotsType DEF SlotBound, TypeOK, Worker
<1>f. IsFiniteSet(Running(p)')
  BY ClaimsFinite, FS_Subset DEF Running
<1>n. Cardinality(Running(p)') \in Nat
  BY <1>f, FS_CardinalityType
<1>0. ASSUME Running(p)' \subseteq Running(p),
             worker'[p].slots \in Nat, worker'[p].slots <= worker[p].slots
      PROVE  Cardinality(Running(p)') + worker'[p].slots <= Slots
  <2>1. Cardinality(Running(p)') <= Cardinality(Running(p))
    BY <1>0, RunningShrinks
  <2> QED BY <1>t, <1>n, <1>0, <2>1
<1>1. ASSUME NEW q \in Procs, Loop(q)
      PROVE  Cardinality(Running(p)') + worker'[p].slots <= Slots
  <2>q. worker[q] \in Worker /\ worker[q].slots \in Nat
    BY DEF TypeOK, Worker
  <2>1. CASE FillSlots(q)
    <3>1. Running(p)' = Running(p)
      BY <2>1 DEF FillSlots, Running
    <3>2. CASE q = p
      <4>1. Capacity(p) \in Nat
        BY <1>t, <2>1, <3>2 DEF FillSlots, Capacity
      <4>2. worker'[p].slots = Capacity(p)
        BY <1>t, <2>1, <3>2, <4>1, OldestType, LoopUpdates
           DEF FillSlots, TypeOK
      <4> QED BY <1>t, <3>1, <4>1, <4>2 DEF Capacity
    <3>3. CASE q # p
      BY <1>0, <1>t, <2>1, <3>1, <3>3 DEF FillSlots, TypeOK
    <3> QED BY <3>2, <3>3
  <2>2. CASE SelectCandidates(q)
    <3>1. Running(p)' = Running(p)
      BY <2>2 DEF SelectCandidates, Running
    <3>2. /\ Idle(worker[q]).slots = 0
          /\ Trying(worker[q], worker[q].slots, Oldest).slots
               = worker[q].slots
      BY <2>q, OldestType, LoopUpdates
    <3>3. worker'[p] = worker[p] \/ worker'[p].slots \in {0, worker[p].slots}
      BY <2>2, <3>2 DEF SelectCandidates, TypeOK
    <3> QED BY <1>0, <1>t, <3>1, <3>3
  <2>3. ASSUME NEW j \in Judgings, TryClaim(q, j)
        PROVE  Cardinality(Running(p)') + worker'[p].slots <= Slots
    <3>1. worker[q].cand \ {j} \in SUBSET Judgings
      BY <2>q DEF Worker
    <3>2. CASE row[j].status # "queued"
      <4>1. Running(p)' = Running(p)
        BY <2>3, <3>2 DEF TryClaim, Running
      <4>2. worker'[p].slots \in Nat /\ worker'[p].slots <= worker[p].slots
        BY <1>t, <2>q, <2>3, <3>1, <3>2, LoopUpdates DEF TryClaim, TypeOK
      <4> QED BY <1>0, <4>1, <4>2
    <3>3. CASE row[j].status = "queued"
      <4> DEFINE d == [judging |-> j, attempt |-> row[j].attempts + 1]
      <4>1. task' = [task EXCEPT ![d] = Begun(@, q)] /\ d \in Claim
        BY <2>3, <3>3, NextClaim DEF TryClaim
      <4> HIDE DEF d
      <4>2. \A c \in Claim : task'[c].proc = IF c = d THEN q ELSE task[c].proc
        BY <4>1, BegunTask DEF TypeOK
      <4>3. CASE q = p
        <5>1. Running(p)' \subseteq Running(p) \cup {d}
          BY <4>2 DEF Running
        <5>2. /\ IsFiniteSet(Running(p) \cup {d})
              /\ Cardinality(Running(p) \cup {d}) <= Cardinality(Running(p)) + 1
          <6>1. IsFiniteSet(Running(p))
            BY RunningFinite
          <6>2. /\ IsFiniteSet(Running(p) \cup {d})
                /\ Cardinality(Running(p) \cup {d}) =
                     IF d \in Running(p) THEN Cardinality(Running(p))
                                         ELSE Cardinality(Running(p)) + 1
            BY <6>1, FS_AddElement
          <6> QED BY <1>t, <6>2
        <5>3. Cardinality(Running(p)') <= Cardinality(Running(p) \cup {d})
          BY <5>1, <5>2, FS_Subset
        <5>4. worker[p].slots > 0
          BY <2>3, <4>3 DEF PassHasSlot, TryClaim
        <5>5. worker'[p].slots = worker[p].slots - 1
          <6>1. worker[p].slots - 1 \in Nat
            BY <1>t, <5>4
          <6>2. /\ Idle(worker[p]).slots = 0
                /\ Looking(worker[p], worker[p].slots - 1).slots
                     = worker[p].slots - 1
            BY <1>t, <6>1, LoopIdles
          <6>3. worker'[p] = IF worker[p].slots = 1 THEN Idle(worker[p])
                             ELSE Looking(worker[p], worker[p].slots - 1)
            BY <2>3, <3>3, <4>3 DEF TryClaim, TypeOK
          <6> QED BY <6>2, <6>3
        <5>6. Cardinality(Running(p) \cup {d}) \in Nat
          BY <5>2, FS_CardinalityType
        <5> QED BY <1>t, <1>n, <5>2, <5>3, <5>4, <5>5, <5>6
      <4>4. CASE q # p
        <5>1. Running(p)' \subseteq Running(p)
          BY <4>2, <4>4 DEF Running
        <5>2. worker'[p] = worker[p]
          BY <2>3, <3>3, <4>4 DEF TryClaim, TypeOK
        <5> QED BY <1>0, <1>t, <5>1, <5>2
      <4> QED BY <4>3, <4>4
    <3> QED BY <3>2, <3>3
  <2> QED BY <1>1, <2>1, <2>2, <2>3 DEF Loop
<1>2. ASSUME Running(p)' \subseteq Running(p), worker' = worker
      PROVE  Cardinality(Running(p)') + worker'[p].slots <= Slots
  BY <1>0, <1>2, <1>t
<1>3. ASSUME NEW d \in Claim, RunJudging(d)
      PROVE  Cardinality(Running(p)') + worker'[p].slots <= Slots
  <2>1. \A c \in Claim : task'[c].proc = task[c].proc \/ task'[c].proc = NoProc
    BY <1>3, RunJudgingOwner
  <2>2. Running(p)' \subseteq Running(p)
    BY <2>1 DEF Running
  <2>3. worker' = worker
    BY <1>3 DEF RunJudging, PrepareRead, PreparePush, PrepareFails, RunEnds,
       RunFails, Finish, FinishFails, GiveUpOrRetry, EmitCompleted,
       DiscardRunSource
  <2> QED BY <1>2, <2>2, <2>3
<1>4. ASSUME NEW q \in Procs, Reap(q)
      PROVE  Cardinality(Running(p)') + worker'[p].slots <= Slots
  <2>1. Running(p)' = Running(p)
    BY <1>4 DEF Reap, ReapRead, ReapUpdate, ReapEmit, Running
  <2>2. CASE ReapEmit(q)
    <3>1. PICK l : worker' = [worker EXCEPT ![q].loop = l]
      BY <2>2 DEF ReapEmit
    <3>2. worker'[p].slots = worker[p].slots
      BY <3>1 DEF TypeOK, Worker
    <3> QED BY <1>0, <1>t, <2>1, <3>2
  <2> QED BY <1>2, <1>4, <2>1, <2>2 DEF Reap, ReapRead, ReapUpdate
<1>5. CASE Environment
  <2>1. ASSUME NEW d \in Claim, TaskDies(d)
        PROVE  Cardinality(Running(p)') + worker'[p].slots <= Slots
    <3>1. \A c \in Claim : task'[c].proc = task[c].proc
                           \/ task'[c].proc = NoProc
      BY <2>1, OverTask DEF TaskDies, Return, TypeOK
    <3>2. Running(p)' \subseteq Running(p)
      BY <3>1 DEF Running
    <3> QED BY <1>2, <2>1, <3>2 DEF TaskDies
  <2>2. ASSUME NEW q \in Procs, ProcessEnds(q)
        PROVE  Cardinality(Running(p)') + worker'[p].slots <= Slots
    <3>1. \A c \in Claim : task'[c].proc = task[c].proc
                           \/ task'[c].proc = NoProc
      BY <2>2, OverTask DEF ProcessEnds, TypeOK
    <3>2. Running(p)' \subseteq Running(p)
      BY <3>1 DEF Running
    <3>3. worker'[p] = worker[p] \/ worker'[p].slots = 0
      BY <2>2 DEF ProcessEnds, NewWorker, TypeOK
    <3> QED BY <1>0, <1>t, <3>2, <3>3
  <2>3. ASSUME NEW q \in Procs, ProcessStarts(q)
        PROVE  Cardinality(Running(p)') + worker'[p].slots <= Slots
    <3>1. worker'[p] = worker[p] \/ worker'[p].slots = 0
      BY <2>3 DEF ProcessStarts, NewWorker, TypeOK
    <3>2. Running(p)' = Running(p)
      BY <2>3 DEF ProcessStarts, Running
    <3> QED BY <1>0, <1>t, <3>1, <3>2
  <2> QED BY <1>2, <1>5, <2>1, <2>2, <2>3 DEF Environment, QueueCode,
          DeleteRow, DeadlinePasses, ToggleJudge, EditProblem, Running
<1>6. CASE UNCHANGED vars
  <2>1. Running(p)' = Running(p) /\ worker'[p] = worker[p]
    BY <1>6 DEF vars, Running
  <2> QED BY <1>t, <2>1
<1> QED BY <1>1, <1>3, <1>4, <1>5, <1>6 DEF Next

(***************************************************************************)
(* judging.completed is emitted once.                                      *)
(***************************************************************************)

Ended(j) == row[j].status \in Terminal \cup {"deleted"}

(* Whoever is about to emit a completion -- a task, or a reaper pass for a *)
(* row it failed -- is alone, its judging is over and nobody has emitted.  *)
OneEmitter ==
    /\ CompletedOnce
    /\ \A c \in Claim : task[c].pc = "emit" =>
          Ended(c.judging) /\ completed[c.judging] = 0
    /\ \A p \in Procs : \A j \in reaper[p].failed :
          Ended(j) /\ completed[j] = 0
    /\ \A c, d \in Claim :
          /\ task[c].pc = "emit" /\ task[d].pc = "emit"
          /\ c.judging = d.judging
          => c = d
    /\ \A p, q \in Procs : p # q => reaper[p].failed \cap reaper[q].failed = {}
    /\ \A c \in Claim, p \in Procs :
          task[c].pc = "emit" => c.judging \notin reaper[p].failed

(* Only a claim whose fence held, and so ended its judging, will emit. *)
LEMMA NewEmitter ==
  ASSUME TypeOK, [Next]_vars, NEW c \in Claim,
         task[c].pc # "emit", task'[c].pc = "emit"
  PROVE  /\ Finish(c) \/ GiveUpOrRetry(c)
         /\ row[c.judging].status = "running"
         /\ row'[c.judging].status \in Terminal
<1> USE QueueAssumption
<1>t. /\ task[c] \in Task /\ c.judging \in Judgings
      /\ row[c.judging] \in Row /\ task[c].result \in Outcomes
  BY ClaimFields DEF TypeOK, Task
<1>0. task' # task
  OBVIOUS
<1>1. ASSUME NEW d \in Claim, Return(d) PROVE FALSE
  BY <1>1, <1>t, OverTask DEF Return, TypeOK
<1>2. ASSUME NEW p \in Procs, NEW j \in Judgings, TryClaim(p, j) PROVE FALSE
  <2> DEFINE d == [judging |-> j, attempt |-> row[j].attempts + 1]
  <2>1. task' = [task EXCEPT ![d] = Begun(@, p)]
    BY <1>0, <1>2 DEF TryClaim
  <2> HIDE DEF d
  <2> QED BY <1>t, <2>1, BegunTask DEF TypeOK
<1>3. ASSUME NEW p \in Procs, ProcessEnds(p) PROVE FALSE
  BY <1>3, <1>t, OverTask DEF ProcessEnds
<1>4. ASSUME NEW d \in Claim, RunJudging(d)
      PROVE  /\ c = d /\ (Finish(c) \/ GiveUpOrRetry(c))
             /\ row[c.judging].status = "running"
             /\ row'[c.judging].status \in Terminal
  <2>0. ASSUME NEW pc \in TaskSteps \ {"emit"}, Goto(d, pc) PROVE FALSE
    BY <1>t, <2>0 DEF Goto, TypeOK, Task
  <2>1. CASE PrepareRead(d) /\ Fenced(d)
    <3>1. PICK pc \in {"loading", "giveup", "retry"} :
             task' = [task EXCEPT
               ![d] = Loaded(@, pc, IF pc = "loading" THEN problem ELSE 0)]
      BY <2>1 DEF PrepareRead
    <3>2. pc \in TaskSteps /\ (IF pc = "loading" THEN problem ELSE 0) \in Nat
      BY DEF TaskSteps, TypeOK
    <3> QED BY <1>t, <3>1, <3>2, LoadedTask DEF TypeOK
  <2>2. CASE RunEnds(d)
    <3>1. PICK v \in Verdicts :
             task' = [task EXCEPT ![d] = Returned(@, "verdict", v)]
      BY <2>2 DEF RunEnds
    <3>2. v \in Outcomes /\ "verdict" \in TaskSteps
      BY DEF Outcomes, TaskSteps
    <3> QED BY <1>t, <3>1, <3>2, ReturnedTask DEF TypeOK
  <2>3. CASE FinishFails(d)
    <3>1. task' = [task EXCEPT ![d] = Returned(@, "retry", NoVerdict)]
      BY <2>3 DEF FinishFails
    <3>2. NoVerdict \in Outcomes /\ "retry" \in TaskSteps
      BY DEF Outcomes, TaskSteps
    <3> QED BY <1>t, <3>1, <3>2, ReturnedTask DEF TypeOK
  <2>4. ASSUME Goto(d, "emit") PROVE c = d
    BY <1>t, <2>4 DEF Goto, TypeOK, Task
  <2>5. CASE Finish(d)
    <3>1. /\ Goto(d, "emit") /\ Fenced(d)
          /\ row' = [row EXCEPT ![d.judging] = Concluded(@, task[d].result)]
      BY <2>0, <2>5 DEF Finish, TaskSteps
    <3>2. row'[c.judging] = Concluded(row[c.judging], task[c].result)
      BY <1>t, <2>4, <3>1 DEF TypeOK
    <3> QED BY <1>t, <2>4, <2>5, <3>1, <3>2, ConcludedRow
            DEF Fenced, Terminal
  <2>6. CASE GiveUpOrRetry(d)
    <3>1. /\ Goto(d, "emit") /\ Fenced(d)
          /\ row' = [row EXCEPT ![d.judging] = Abandoned(@)]
      BY <2>0, <2>6 DEF GiveUpOrRetry, TaskSteps
    <3>2. row'[c.judging] = Abandoned(row[c.judging])
      BY <1>t, <2>4, <3>1 DEF TypeOK
    <3> QED BY <1>t, <2>4, <2>6, <3>1, <3>2, RowUpdates
            DEF Fenced, Terminal
  <2> QED BY <1>1, <1>4, <2>0, <2>1, <2>2, <2>3, <2>5, <2>6 DEF RunJudging,
          PrepareRead, PreparePush, PrepareFails, RunFails, EmitCompleted,
          DiscardRunSource, TaskSteps
<1> QED BY <1>0, <1>1, <1>2, <1>3, <1>4 DEF Next, Environment, Loop,
        FillSlots, SelectCandidates, Reap, ReapRead, ReapUpdate, ReapEmit,
        QueueCode, DeleteRow, DeadlinePasses, ToggleJudge, EditProblem,
        TaskDies, ProcessStarts, vars

(* Only the update of a reaper pass adds to the rows it failed, each of    *)
(* which it found running.                                                 *)
LEMMA NewlyFailed ==
  ASSUME TypeOK, [Next]_vars, NEW p \in Procs, NEW j \in reaper'[p].failed,
         j \notin reaper[p].failed
  PROVE  /\ ReapUpdate(p) /\ j \in Judgings
         /\ row[j].status = "running" /\ row'[j].status \in Terminal
<1> USE QueueAssumption
<1>t. reaper \in [Procs -> Reaper]
  BY DEF TypeOK
<1>0. reaper' # reaper
  OBVIOUS
<1>1. ASSUME NEW q \in Procs, ReapRead(q) PROVE FALSE
  BY <1>1, <1>t DEF ReapRead, Reaper
<1>2. ASSUME NEW q \in Procs, ReapEmit(q) PROVE FALSE
  BY <1>2, <1>t DEF ReapEmit, IdleReaper
<1>3. ASSUME NEW q \in Procs, ProcessEnds(q) \/ ProcessStarts(q) PROVE FALSE
  BY <1>3, <1>t DEF ProcessEnds, ProcessStarts, IdleReaper, Reaper
<1>4. ASSUME NEW q \in Procs, ReapUpdate(q)
      PROVE  /\ q = p /\ ReapUpdate(p) /\ j \in Judgings
             /\ row[j].status = "running" /\ row'[j].status \in Terminal
  <2> DEFINE taken == {e \in reaper[q].stuck : Fenced(e)}
             lost == {e.judging : e \in {f \in taken : Spent(f.attempt)}}
             back == {e.judging : e \in {f \in taken : ~Spent(f.attempt)}}
  <2>1. row' = [k \in Judgings |->
                  CASE k \in lost -> Abandoned(row[k])
                    [] k \in back -> Requeued(row[k])
                    [] OTHER -> row[k]]
    BY <1>4 DEF ReapUpdate
  <2>2. reaper' = [reaper EXCEPT
                     ![q] = [@ EXCEPT !.pc = "emit", !.failed = lost]]
    BY <1>4 DEF ReapUpdate
  <2>3. \A k \in lost : k \in Judgings /\ row[k].status = "running"
                        /\ Spent(row[k].attempts)
    BY <1>t DEF Fenced, Reaper, Claim
  <2>4. \A k \in back : ~Spent(row[k].attempts)
    BY DEF Fenced
  <2> HIDE DEF lost, back
  <2>5. q = p /\ j \in lost
    BY <1>t, <2>2 DEF Reaper
  <2>6. row'[j] = Abandoned(row[j]) /\ row[j] \in Row
    BY <2>1, <2>3, <2>4, <2>5 DEF TypeOK
  <2> QED BY <1>4, <2>3, <2>5, <2>6, RowUpdates DEF Terminal
<1> QED BY <1>0, <1>1, <1>2, <1>3, <1>4 DEF Next, Environment, Loop,
        FillSlots, SelectCandidates, TryClaim, Reap, RunJudging, PrepareRead,
        PreparePush, PrepareFails, RunEnds, RunFails, Finish, FinishFails,
        GiveUpOrRetry, EmitCompleted, DiscardRunSource, QueueCode, DeleteRow,
        DeadlinePasses, ToggleJudge, EditProblem, TaskDies, vars

(* The emitters of the next state, and what has been emitted. *)
LEMMA OneEmitterStep ==
  ASSUME TypeOK, AttemptBudget, VerdictInHand, OneEmitter, [Next]_vars
  PROVE  OneEmitter'
<1> USE QueueAssumption
<1>e. ASSUME NEW j \in Judgings, Ended(j) PROVE Ended(j)'
  <2>1. Walk(row[j], row'[j])
    BY RowsWalk
  <2> QED BY <1>e, <2>1 DEF Walk, Columns, Ended, Terminal
<1>c. \A c \in Claim : c.judging \in Judgings
  BY ClaimFields
<1>f. \A p \in Procs : reaper[p].failed \subseteq Judgings
  BY DEF TypeOK, Reaper
<1>o. \A j \in Judgings : completed[j] \in Nat
  BY DEF TypeOK
(* Who emits tomorrow and did not today found its judging running. *)
<1>r. ASSUME NEW j \in Judgings, row[j].status = "running"
      PROVE  /\ completed[j] = 0
             /\ \A d \in Claim : d.judging = j => task[d].pc # "emit"
             /\ \A q \in Procs : j \notin reaper[q].failed
  BY <1>r, <1>o DEF OneEmitter, CompletedOnce, Ended, Terminal
<1>1. ASSUME NEW c \in Claim, task[c].pc # "emit", task'[c].pc = "emit"
      PROVE  OneEmitter'
  <2>1. /\ Finish(c) \/ GiveUpOrRetry(c)
        /\ row[c.judging].status = "running"
        /\ row'[c.judging].status \in Terminal
    BY <1>1, NewEmitter
  <2>2. reaper' = reaper /\ completed' = completed
    BY <2>1 DEF Finish, GiveUpOrRetry
  <2>3. \A d \in Claim : d # c => task'[d] = task[d]
    BY <2>1 DEF Finish, GiveUpOrRetry, Goto, TypeOK
  <2>4. /\ completed[c.judging] = 0
        /\ \A d \in Claim : d.judging = c.judging => task[d].pc # "emit"
        /\ \A q \in Procs : c.judging \notin reaper[q].failed
    BY <1>c, <1>r, <2>1
  <2>5. Ended(c.judging)'
    BY <2>1 DEF Ended
  <2>6. CompletedOnce'
    BY <1>e, <1>o, <2>2 DEF OneEmitter, CompletedOnce, Ended
  <2>7. \A d \in Claim : task'[d].pc = "emit" =>
           Ended(d.judging)' /\ completed'[d.judging] = 0
    BY <1>c, <1>e, <2>2, <2>3, <2>4, <2>5 DEF OneEmitter
  <2>8. \A p \in Procs : \A j \in reaper'[p].failed :
           Ended(j)' /\ completed'[j] = 0
    BY <1>e, <1>f, <2>2 DEF OneEmitter
  <2>9. \A d, e \in Claim :
           /\ task'[d].pc = "emit" /\ task'[e].pc = "emit"
           /\ d.judging = e.judging
           => d = e
    BY <2>3, <2>4 DEF OneEmitter
  <2>10. \A d \in Claim, p \in Procs :
           task'[d].pc = "emit" => d.judging \notin reaper'[p].failed
    BY <2>2, <2>3, <2>4 DEF OneEmitter
  <2>11. \A p, q \in Procs :
            p # q => reaper'[p].failed \cap reaper'[q].failed = {}
    BY <2>2 DEF OneEmitter
  <2> QED BY <2>6, <2>7, <2>8, <2>9, <2>10, <2>11 DEF OneEmitter
<1>2. ASSUME NEW p \in Procs, NEW j \in reaper'[p].failed,
             j \notin reaper[p].failed
      PROVE  OneEmitter'
  <2>1. ReapUpdate(p)
    BY <1>2, NewlyFailed
  <2>2. task' = task /\ completed' = completed
    BY <2>1 DEF ReapUpdate
  <2>3. \A q \in Procs : q # p => reaper'[q] = reaper[q]
    BY <2>1 DEF ReapUpdate, TypeOK
  <2>4. \A k \in reaper'[p].failed : k \in reaper[p].failed
           \/ (k \in Judgings /\ row[k].status = "running" /\ Ended(k)')
    <3>1. ASSUME NEW k \in reaper'[p].failed, k \notin reaper[p].failed
          PROVE  k \in Judgings /\ row[k].status = "running" /\ Ended(k)'
      BY <3>1, NewlyFailed DEF Ended
    <3> QED BY <3>1
  <2>5. CompletedOnce'
    BY <1>e, <1>o, <2>2 DEF OneEmitter, CompletedOnce, Ended
  <2>6. \A d \in Claim : task'[d].pc = "emit" =>
           Ended(d.judging)' /\ completed'[d.judging] = 0
    BY <1>c, <1>e, <2>2 DEF OneEmitter
  <2>7. \A q \in Procs : \A k \in reaper'[q].failed :
           Ended(k)' /\ completed'[k] = 0
    <3> SUFFICES ASSUME NEW q \in Procs, NEW k \in reaper'[q].failed
                 PROVE  Ended(k)' /\ completed'[k] = 0
      OBVIOUS
    <3>1. CASE k \in reaper[q].failed
      <4>1. k \in Judgings /\ Ended(k) /\ completed[k] = 0
        BY <1>f, <3>1 DEF OneEmitter
      <4> QED BY <1>e, <2>2, <4>1
    <3>2. CASE k \notin reaper[q].failed
      <4>1. q = p /\ k \in Judgings /\ row[k].status = "running" /\ Ended(k)'
        BY <2>3, <2>4, <3>2
      <4> QED BY <1>r, <2>2, <4>1
    <3> QED BY <3>1, <3>2
  <2>8. \A d \in Claim, q \in Procs :
           task'[d].pc = "emit" => d.judging \notin reaper'[q].failed
    BY <1>r, <2>2, <2>3, <2>4 DEF OneEmitter
  <2>9. \A q, s \in Procs :
           q # s => reaper'[q].failed \cap reaper'[s].failed = {}
    <3>1. \A q \in Procs : q # p =>
             reaper'[p].failed \cap reaper[q].failed = {}
      BY <1>r, <2>4 DEF OneEmitter
    <3>2. \A q, s \in Procs :
             q # s => reaper[q].failed \cap reaper[s].failed = {}
      BY Zenon DEF OneEmitter
    <3> QED BY <2>3, <3>1, <3>2
  <2> QED BY <2>2, <2>5, <2>6, <2>7, <2>8, <2>9 DEF OneEmitter
<1>3. ASSUME \A c \in Claim : task'[c].pc = "emit" => task[c].pc = "emit",
             \A p \in Procs : reaper'[p].failed \subseteq reaper[p].failed
      PROVE  OneEmitter'
  <2>1. /\ \A c, d \in Claim :
             /\ task'[c].pc = "emit" /\ task'[d].pc = "emit"
             /\ c.judging = d.judging
             => c = d
        /\ \A p, q \in Procs :
             p # q => reaper'[p].failed \cap reaper'[q].failed = {}
        /\ \A c \in Claim, p \in Procs :
             task'[c].pc = "emit" => c.judging \notin reaper'[p].failed
    BY <1>3 DEF OneEmitter
  <2>2. SUFFICES /\ CompletedOnce'
                 /\ \A c \in Claim : task'[c].pc = "emit" =>
                       Ended(c.judging)' /\ completed'[c.judging] = 0
                 /\ \A p \in Procs : \A j \in reaper'[p].failed :
                       Ended(j)' /\ completed'[j] = 0
    BY <2>1 DEF OneEmitter
  <2>3. CASE completed' = completed
    BY <1>3, <1>c, <1>e, <1>f, <1>o, <2>3
       DEF OneEmitter, CompletedOnce, Ended
  <2>4. ASSUME NEW d \in Claim, EmitCompleted(d)
        PROVE  /\ CompletedOnce'
               /\ \A c \in Claim : task'[c].pc = "emit" =>
                     Ended(c.judging)' /\ completed'[c.judging] = 0
               /\ \A p \in Procs : \A j \in reaper'[p].failed :
                     Ended(j)' /\ completed'[j] = 0
    <3>1. /\ task[d].pc = "emit" /\ task'[d].pc = "discard"
          /\ d.judging \in Judgings
          /\ completed[d.judging] = 0 /\ Ended(d.judging)
      BY <1>c, <2>4 DEF EmitCompleted, Goto, TypeOK, Task, OneEmitter
    <3>2. \A j \in Judgings :
             completed'[j] = IF j = d.judging THEN 1 ELSE completed[j]
      BY <2>4, <3>1 DEF EmitCompleted, TypeOK
    <3>3. CompletedOnce'
      BY <1>e, <1>o, <3>1, <3>2 DEF OneEmitter, CompletedOnce, Ended
    <3>4. \A c \in Claim : task'[c].pc = "emit" =>
             Ended(c.judging)' /\ completed'[c.judging] = 0
      <4> SUFFICES ASSUME NEW c \in Claim, task'[c].pc = "emit"
                   PROVE  Ended(c.judging)' /\ completed'[c.judging] = 0
        OBVIOUS
      <4>1. task[c].pc = "emit" /\ c # d
        BY <1>3, <3>1
      <4>2. c.judging # d.judging
        BY <3>1, <4>1 DEF OneEmitter
      <4>3. Ended(c.judging) /\ completed[c.judging] = 0
        BY <4>1 DEF OneEmitter
      <4> QED BY <1>c, <1>e, <3>2, <4>2, <4>3
    <3>5. \A p \in Procs : \A j \in reaper'[p].failed :
             Ended(j)' /\ completed'[j] = 0
      <4> SUFFICES ASSUME NEW p \in Procs, NEW j \in reaper'[p].failed
                   PROVE  Ended(j)' /\ completed'[j] = 0
        OBVIOUS
      <4>1. j \in reaper[p].failed /\ j \in Judgings
        BY <1>3, <1>f
      <4>2. j # d.judging
        BY <3>1, <4>1 DEF OneEmitter
      <4>3. Ended(j) /\ completed[j] = 0
        BY <4>1 DEF OneEmitter
      <4> QED BY <1>e, <3>2, <4>1, <4>2, <4>3
    <3> QED BY <3>3, <3>4, <3>5
  <2>5. ASSUME NEW q \in Procs, ReapEmit(q)
        PROVE  /\ CompletedOnce'
               /\ \A c \in Claim : task'[c].pc = "emit" =>
                     Ended(c.judging)' /\ completed'[c.judging] = 0
               /\ \A p \in Procs : \A j \in reaper'[p].failed :
                     Ended(j)' /\ completed'[j] = 0
    <3>1. reaper'[q].failed = {}
      BY <2>5 DEF ReapEmit, IdleReaper, TypeOK
    <3>2. \A j \in Judgings :
             completed'[j] = IF j \in reaper[q].failed THEN completed[j] + 1
                                                       ELSE completed[j]
      BY <2>5 DEF ReapEmit
    <3>3. \A j \in reaper[q].failed : completed'[j] = 1 /\ Ended(j)
      <4> SUFFICES ASSUME NEW j \in reaper[q].failed
                   PROVE  completed'[j] = 1 /\ Ended(j)
        OBVIOUS
      <4>1. j \in Judgings /\ Ended(j) /\ completed[j] = 0
        BY <1>f DEF OneEmitter
      <4>2. completed'[j] = completed[j] + 1
        BY <3>2, <4>1
      <4> QED BY <4>1, <4>2
    <3>4. CompletedOnce'
      BY <1>e, <1>o, <3>2, <3>3 DEF OneEmitter, CompletedOnce, Ended
    <3>5. \A c \in Claim : task'[c].pc = "emit" =>
             Ended(c.judging)' /\ completed'[c.judging] = 0
      BY <1>3, <1>c, <1>e, <3>2 DEF OneEmitter
    <3>6. \A p \in Procs : \A j \in reaper'[p].failed :
             Ended(j)' /\ completed'[j] = 0
      BY <1>3, <1>e, <1>f, <3>1, <3>2 DEF OneEmitter
    <3> QED BY <3>4, <3>5, <3>6
  <2> QED BY <2>3, <2>4, <2>5 DEF Next, Environment, Loop, FillSlots,
          SelectCandidates, TryClaim, Reap, ReapRead, ReapUpdate, RunJudging,
          PrepareRead, PreparePush, PrepareFails, RunEnds, RunFails, Finish,
          FinishFails, GiveUpOrRetry, DiscardRunSource, QueueCode, DeleteRow,
          DeadlinePasses, ToggleJudge, EditProblem, TaskDies, ProcessEnds,
          ProcessStarts, vars
<1> QED BY <1>1, <1>2, <1>3

(***************************************************************************)
(* The theorems.                                                           *)
(***************************************************************************)

(* The inductive invariant. *)
QueueInv ==
    /\ TypeOK /\ PassHasSlot /\ AttemptBudget /\ FreshRows /\ Unowned
    /\ VerdictInHand /\ FencingToken /\ HolderKnows /\ SourceAvailable
    /\ SlotBound /\ OneEmitter

(* The inductive invariant of the queue holds at the start.                *)
LEMMA QueueInvInit == Init => QueueInv
<1> SUFFICES ASSUME Init PROVE QueueInv
  OBVIOUS
<1> USE QueueAssumption
<1>1. TypeOK
  BY TypeInit
<1>2. ASSUME NEW j \in Judgings
      PROVE  row[j].status = "none" /\ row[j].attempts = 0
  BY DEF Init, NewRow
<1>3. ASSUME NEW c \in Claim
      PROVE  /\ task[c].pc = "none" /\ task[c].proc = NoProc
             /\ c.judging \in Judgings
  BY ClaimFields DEF Init, NewTask
<1>4. ASSUME NEW p \in Procs
      PROVE  /\ worker[p].loop = "idle" /\ worker[p].slots = 0
             /\ reaper[p].stuck = {} /\ reaper[p].failed = {}
  BY DEF Init, NewWorker, IdleReaper
<1>5. SlotBound
  <2>1. ASSUME NEW p \in Procs PROVE Running(p) = {}
    BY <1>3 DEF Running
  <2>2. Cardinality({}) = 0
    BY FS_EmptySet
  <2>3. ASSUME NEW p \in Procs
        PROVE  Cardinality(Running(p)) + worker[p].slots <= Slots
    <3>1. Running(p) = {}
      BY <2>1
    <3>2. worker[p].slots = 0
      BY <1>4
    <3>3. Slots \in Nat
      BY SlotsType
    <3>4. Cardinality(Running(p)) = 0
      BY <2>2, <3>1
    <3> HIDE DEF Running
    <3> QED BY <3>2, <3>3, <3>4
  <2> QED BY <2>3 DEF SlotBound
<1>6. OneEmitter
  <2>1. \A j \in Judgings : completed[j] = 0
    BY DEF Init
  <2> QED BY <1>3, <1>4, <2>1 DEF OneEmitter, CompletedOnce
<1> QED BY <1>1, <1>2, <1>3, <1>4, <1>5, <1>6 DEF QueueInv, PassHasSlot, AttemptBudget,
        FreshRows, Unowned, VerdictInHand, FencingToken, HolderKnows, Holder,
        Fenced, SourceAvailable

(* Every step keeps the inductive invariant of the queue.                  *)
LEMMA QueueInvStep == QueueInv /\ [Next]_vars => QueueInv'
<1> SUFFICES ASSUME QueueInv, [Next]_vars PROVE QueueInv'
  OBVIOUS
<1> USE DEF QueueInv
<1>1. TypeOK'
  <2>1. CASE UNCHANGED vars
    BY <2>1 DEF vars, TypeOK
  <2> QED BY <2>1, TypeEnvironment, TypeLoop, TypeRunJudging, TypeReap
          DEF Next
<1> QED BY <1>1, PassHasSlotStep, AttemptBudgetStep, UnownedStep,
        FencingTokenStep, HolderStep, SourceStep, SlotBoundStep,
        OneEmitterStep

(* The inductive invariant of the queue, as a theorem of the specification.*)
LEMMA QueueInvariant == Spec => []QueueInv
BY QueueInvInit, QueueInvStep, PTL DEF Spec

(* Every variable of the judge queue keeps its type, for any number of     *)
(* processes, judgings, attempts and slots; in particular no attempt above *)
(* MAX_ATTEMPTS is ever claimed.                                           *)
THEOREM TypeCorrect == Spec => []TypeOK
<1>1. QueueInv => TypeOK
  BY DEF QueueInv
<1> QED BY <1>1, QueueInvariant, PTL

(* A queued judging always has an attempt left, whatever the retries, the  *)
(* reapers and the crashes did before.                                     *)
THEOREM BudgetHolds == Spec => []AttemptBudget
<1>1. QueueInv => AttemptBudget
  BY DEF QueueInv
<1> QED BY <1>1, QueueInvariant, PTL

(* No task and no reaper ever holds a token the row has not reached.       *)
THEOREM TokensFence == Spec => []FencingToken
<1>1. QueueInv => FencingToken
  BY DEF QueueInv
<1> QED BY <1>1, QueueInvariant, PTL

(* A done judging says what the run of its last claim said, against the    *)
(* version of the tests the row names, however many workers judged it.     *)
THEOREM OutcomeIsHolders == Spec => []OutcomeOfHolder
<1>1. QueueInv => OutcomeOfHolder
  BY DEF QueueInv, HolderKnows, Holder, OutcomeOfHolder
<1> QED BY <1>1, QueueInvariant, PTL

(* The source of a judging that may still run is in storage.               *)
THEOREM SourceKept == Spec => []SourceAvailable
<1>1. QueueInv => SourceAvailable
  BY DEF QueueInv
<1> QED BY <1>1, QueueInvariant, PTL

(* A process never runs more judgings than max_concurrent_judgings, with   *)
(* the free slots counted once per pass and tasks ending at any time.      *)
THEOREM SlotsBounded == Spec => []SlotBound
<1>1. QueueInv => SlotBound
  BY DEF QueueInv
<1> QED BY <1>1, QueueInvariant, PTL

(* judging.completed is emitted at most once per judging, however many     *)
(* workers and reapers raced to end it: the fence that ends the row also   *)
(* chooses the one that emits.                                             *)
THEOREM CompletedAtMostOnce == Spec => []CompletedOnce
<1>1. QueueInv => CompletedOnce
  BY DEF QueueInv, OneEmitter
<1> QED BY <1>1, QueueInvariant, PTL

(* The queue with its workers, reapers and crashes implements the table's  *)
(* lifecycle: each row only ever walks queued -> running -> done | failed  *)
(* | queued, and a terminal one is never rewritten.                        *)
THEOREM QueueImplementsLifecycle == Spec => RowsFollowLifecycle
<1>1. Init => Lifecycle!LifecycleInit
  BY DEF Init, NewRow, Lifecycle!LifecycleInit
<1>2. QueueInv /\ [Next]_vars
        => [Lifecycle!LifecycleNext]_(Lifecycle!lifecycleVars)
  <2> SUFFICES ASSUME QueueInv, [Next]_vars PROVE Lifecycle!LifecycleNext
    OBVIOUS
  <2>1. ASSUME NEW j \in Judgings PROVE Lifecycle!RowStep(j)
    <3>1. Walk(row[j], row'[j])
      BY RowsWalk DEF QueueInv
    <3> QED BY <3>1 DEF Walk, Columns, Lifecycle!RowStep, Lifecycle!Create,
            Lifecycle!Start, Lifecycle!Requeue, Lifecycle!Conclude,
            Lifecycle!GiveUp, Lifecycle!Delete, Lifecycle!Stay,
            Lifecycle!Becomes
  <2> QED BY <2>1 DEF Lifecycle!LifecycleNext
<1> QED BY <1>1, <1>2, QueueInvariant, PTL
        DEF Spec, RowsFollowLifecycle, Lifecycle!LifecycleSpec
=============================================================================
