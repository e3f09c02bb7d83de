---------------------------- MODULE JudgeSandbox ----------------------------
(***************************************************************************)
(* The containers judgings run in (utils/judge_executor_docker.py): one    *)
(* per attempt, made, filled, started, waited for, read and removed by its *)
(* executor, and swept by the reaper (utils/judge_worker.py) when its      *)
(* worker died.  Installs may share the runtime, and a sweep knows only    *)
(* the judgings of its own.  A container's age is 0, 1 past                *)
(* _ORPHAN_STOPPED_AGE_S or 2 past _ORPHAN_RUNNING_AGE_S, counted from its *)
(* creation.  The queue itself is JudgeQueue's; here a row is its claim.   *)
(***************************************************************************)
EXTENDS Naturals, FiniteSets

CONSTANTS Installs,          \* installs that share the runtime
          Tried,             \* judgings
          HomeOf,            \* judging -> install
          TriesOf,           \* judging -> attempts it has left of MAX_ATTEMPTS
          Sweepers,          \* installs whose reaper runs
          MaxSandboxFaults   \* bound: failing requests, stops and dying workers

ASSUME SandboxAssumption == /\ HomeOf \in [Tried -> Installs] /\ TriesOf \in [Tried -> Nat \ {0}]
                            /\ Sweepers \subseteq Installs /\ MaxSandboxFaults \in Nat

VARIABLES sbRow,    \* judging -> status, attempts, overdue, verdict
          sbRun,    \* executor of each claim: where it is, what it read
          sbBox,    \* container of each claim
          sbSweep,  \* sweep of each install: keep, and the containers it removes
          sbCut,    \* ghost: claims whose container a sweep removed under its executor
          sbFaults

sbVars == <<sbRow, sbRun, sbBox, sbSweep, sbCut, sbFaults>>

Claims == UNION {{j} \X (1..TriesOf[j]) : j \in Tried}
NoBox == [state |-> "none", age |-> 0, log |-> "none"]
IdleRun == [pc |-> "idle", read |-> "none"]
IdleSweep == [pc |-> "idle", keep |-> {}, list |-> {}]
Answers == {"verdict", "internal_error"}

SandboxInit ==
    /\ sbRow = [j \in Tried |-> [status |-> "queued", attempts |-> 0, overdue |-> FALSE]]
    /\ sbRun = [c \in Claims |-> IdleRun] /\ sbBox = [c \in Claims |-> NoBox]
    /\ sbSweep = [i \in Sweepers |-> IdleSweep] /\ sbCut = {} /\ sbFaults = 0

RunGoes(c, pc) == sbRun' = [sbRun EXCEPT ![c].pc = pc]
RunReads(c, pc, what) == sbRun' = [sbRun EXCEPT ![c].pc = pc, ![c].read = what]
BoxIs(c, state) == sbBox' = [sbBox EXCEPT ![c].state = state]
BoxThere(c) == sbBox[c].state \notin {"none", "gone"}
BoxGone(c) == IF BoxThere(c) THEN [sbBox EXCEPT ![c] = [NoBox EXCEPT !.state = "gone"]] ELSE sbBox
SbFault == sbFaults < MaxSandboxFaults /\ sbFaults' = sbFaults + 1
Fenced(c) == sbRow[c[1]].status = "running" /\ sbRow[c[1]].attempts = c[2]

-----------------------------------------------------------------------------
(* claim_next and _prepare.                                                *)
ClaimJob(j) ==
    /\ sbRow[j].status = "queued" /\ sbRow[j].attempts < TriesOf[j]
    /\ sbRow' = [sbRow EXCEPT ![j] = [status |-> "running", attempts |-> @.attempts + 1,
                                          overdue |-> FALSE]]
    /\ RunGoes(<<j, sbRow[j].attempts + 1>>, "image")
    /\ UNCHANGED <<sbBox, sbSweep, sbCut, sbFaults>>

(* _host_arch, load_harness and _ensure_image: asked first, pulled if not  *)
(* there.                                                                  *)
ExecPrepares(c) ==
    /\ sbRun[c].pc = "image" /\ RunGoes(c, "create")
    /\ UNCHANGED <<sbRow, sbBox, sbSweep, sbCut, sbFaults>>

(* POST /containers/create; an answer that is lost leaves a container the  *)
(* executor has no id of.                                                  *)
ExecCreates(c) ==
    /\ sbRun[c].pc = "create" /\ BoxIs(c, "created")
    /\ \/ RunGoes(c, "upload") /\ UNCHANGED sbFaults
       \/ RunGoes(c, "settle") /\ SbFault
    /\ UNCHANGED <<sbRow, sbSweep, sbCut>>

(* PUT archive, then start: a container that is gone answers 404.          *)
ExecUploads(c) ==
    /\ sbRun[c].pc = "upload" /\ RunGoes(c, IF BoxThere(c) THEN "start" ELSE "remove")
    /\ UNCHANGED <<sbRow, sbBox, sbSweep, sbCut, sbFaults>>

ExecStarts(c) ==
    /\ sbRun[c].pc = "start"
    /\ IF BoxThere(c) THEN RunGoes(c, "wait") /\ BoxIs(c, "running")
       ELSE RunGoes(c, "remove") /\ UNCHANGED sbBox
    /\ UNCHANGED <<sbRow, sbSweep, sbCut, sbFaults>>

(* The harness ends and its result is in the log, or it was killed.        *)
BoxExits(c, log) ==
    /\ sbBox[c].state = "running"
    /\ sbBox' = [sbBox EXCEPT ![c].state = "exited", ![c].log = log]
    /\ log = "none" => SbFault
    /\ log # "none" => UNCHANGED sbFaults
    /\ UNCHANGED <<sbRow, sbRun, sbSweep, sbCut>>

(* POST wait, within the budget of the job.                                *)
ExecWaits(c) ==
    /\ sbRun[c].pc = "wait" /\ sbBox[c].state # "running"
    /\ RunGoes(c, IF BoxThere(c) THEN "logs" ELSE "remove")
    /\ UNCHANGED <<sbRow, sbBox, sbSweep, sbCut, sbFaults>>

WaitTimesOut(c) ==
    /\ sbRun[c].pc = "wait" /\ RunGoes(c, "remove")
    /\ UNCHANGED <<sbRow, sbBox, sbSweep, sbCut, sbFaults>>

(* GET logs, demux_logs and parse_result: the last line with this nonce.   *)
ExecReads(c) ==
    /\ sbRun[c].pc = "logs"
    /\ RunReads(c, "remove", IF BoxThere(c) THEN sbBox[c].log ELSE "none")
    /\ UNCHANGED <<sbRow, sbBox, sbSweep, sbCut, sbFaults>>

(* Any other request fails: the executor raises, through its finally.      *)
RequestFails(c) ==
    /\ sbRun[c].pc \in {"image", "create", "upload", "start", "logs"} /\ SbFault
    /\ RunGoes(c, IF sbRun[c].pc \in {"image", "create"} THEN "settle" ELSE "remove")
    /\ UNCHANGED <<sbRow, sbBox, sbSweep, sbCut>>

(* The shielded _remove, best effort.                                      *)
ExecRemoves(c) ==
    /\ sbRun[c].pc \in {"remove", "unwind"}
    /\ RunGoes(c, IF sbRun[c].pc = "unwind" THEN "over" ELSE "settle")
    /\ \/ sbBox' = BoxGone(c) /\ UNCHANGED sbFaults
       \/ UNCHANGED sbBox /\ SbFault
    /\ UNCHANGED <<sbRow, sbSweep, sbCut>>

Retried(j) == IF sbRow[j].attempts >= TriesOf[j] THEN "failed" ELSE "queued"

(* _finish or _give_up_or_retry, both fenced.                              *)
Settles(c) ==
    /\ sbRun[c].pc = "settle" /\ RunGoes(c, "over")
    /\ sbRow' = IF ~ Fenced(c) THEN sbRow
                ELSE [sbRow EXCEPT ![c[1]].overdue = FALSE, ![c[1]].status =
                         IF sbRun[c].read = "verdict" THEN "done" ELSE Retried(c[1])]
    /\ UNCHANGED <<sbBox, sbSweep, sbCut, sbFaults>>

(* stop: the task is cancelled and the row left to its deadline.           *)
ExecCancelled(c) ==
    /\ sbRun[c].pc \notin {"idle", "remove", "unwind", "over"} /\ SbFault
    /\ RunGoes(c, IF sbRun[c].pc \in {"image", "create", "settle"} THEN "over" ELSE "unwind")
    /\ UNCHANGED <<sbRow, sbBox, sbSweep, sbCut>>

(* The worker's process dies: its executors and its sweep go, the          *)
(* containers stay.                                                        *)
JudgeWorkerDies(i) ==
    /\ SbFault /\ sbSweep' = [k \in Sweepers |-> IF k = i THEN IdleSweep ELSE sbSweep[k]]
    /\ sbRun' = [c \in Claims |-> IF HomeOf[c[1]] = i /\ sbRun[c].pc # "idle"
                                  THEN [sbRun[c] EXCEPT !.pc = "over"] ELSE sbRun[c]]
    /\ UNCHANGED <<sbRow, sbBox, sbCut>>

-----------------------------------------------------------------------------
(* The clock.  A sweep takes less than the grace period.                   *)
DeadlinePassed(j) ==
    /\ sbRow[j].status = "running" /\ ~ sbRow[j].overdue
    /\ sbRow' = [sbRow EXCEPT ![j].overdue = TRUE]
    /\ UNCHANGED <<sbRun, sbBox, sbSweep, sbCut, sbFaults>>

BoxAges(c) ==
    /\ BoxThere(c) /\ sbBox[c].age < 2 /\ \A i \in Sweepers : sbSweep[i].pc = "idle"
    /\ sbRun[c].pc \notin {"upload", "start"}
    /\ sbBox' = [sbBox EXCEPT ![c].age = @ + 1]
    /\ UNCHANGED <<sbRow, sbRun, sbSweep, sbCut, sbFaults>>

Keep_None(i, stuck) == {}

(* The judgings of this install running inside their deadline.             *)
Keep(i, stuck) == {j \in Tried : HomeOf[j] = i /\ sbRow[j].status = "running"} \ stuck

(* reap_judgings: _reclaim, then the judgings running inside their         *)
(* deadline are read.                                                      *)
SweepReads(i) ==
    LET stuck == {j \in Tried : HomeOf[j] = i /\ sbRow[j].status = "running" /\ sbRow[j].overdue} IN
    /\ sbSweep[i].pc = "idle"
    /\ sbRow' = [j \in Tried |-> IF j \notin stuck THEN sbRow[j]
                                ELSE [sbRow[j] EXCEPT !.status = Retried(j), !.overdue = FALSE]]
    /\ sbSweep' = [sbSweep EXCEPT ![i] = [pc |-> "list", list |-> {}, keep |-> Keep(i, stuck)]]
    /\ UNCHANGED <<sbRun, sbBox, sbCut, sbFaults>>

SweepLists_StoppedOnly(i) ==
    /\ sbSweep[i].pc = "list"
    /\ sbSweep' = [sbSweep EXCEPT ![i].pc = "remove",
          ![i].list = {c \in Claims : /\ BoxThere(c) /\ c[1] \notin sbSweep[i].keep
                                      /\ sbBox[c].state # "running" /\ sbBox[c].age >= 1}]
    /\ UNCHANGED <<sbRow, sbRun, sbBox, sbCut, sbFaults>>

(* cleanup: the labelled containers, whoever made them, old enough for     *)
(* their state.                                                            *)
SweepLists(i) ==
    /\ sbSweep[i].pc = "list"
    /\ sbSweep' = [sbSweep EXCEPT ![i].pc = "remove",
          ![i].list = {c \in Claims : /\ BoxThere(c) /\ c[1] \notin sbSweep[i].keep
                                      /\ sbBox[c].age >= IF sbBox[c].state = "running" THEN 2 ELSE 1}]
    /\ UNCHANGED <<sbRow, sbRun, sbBox, sbCut, sbFaults>>

SweepRemoves(i) ==
    /\ sbSweep[i].pc = "remove"
    /\ \/ /\ sbSweep[i].list = {} /\ sbSweep' = [sbSweep EXCEPT ![i] = IdleSweep]
          /\ UNCHANGED <<sbBox, sbCut, sbFaults>>
       \/ \E c \in sbSweep[i].list :
            /\ sbSweep' = [sbSweep EXCEPT ![i].list = @ \ {c}]
            /\ \/ /\ sbBox' = BoxGone(c) /\ UNCHANGED sbFaults
                  /\ sbCut' = sbCut \cup {x \in {<<c, i>>} : /\ BoxThere(c) /\ Fenced(c)
                                                             /\ sbRun[c].pc \in {"wait", "logs"}}
               \/ UNCHANGED <<sbBox, sbCut>> /\ SbFault
    /\ UNCHANGED <<sbRow, sbRun>>

SweepStep(i) == SweepReads(i) \/ SweepLists(i) \/ SweepRemoves(i)
ExecStep(c) == \/ ExecPrepares(c) \/ ExecCreates(c) \/ ExecUploads(c) \/ ExecStarts(c)
               \/ ExecWaits(c) \/ WaitTimesOut(c) \/ ExecReads(c) \/ ExecRemoves(c) \/ Settles(c)

SandboxNext ==
    \/ \E j \in Tried : ClaimJob(j) \/ DeadlinePassed(j)
    \/ \E c \in Claims : \/ ExecStep(c) \/ RequestFails(c) \/ ExecCancelled(c)
                         \/ BoxAges(c) \/ \E log \in Answers \cup {"none"} : BoxExits(c, log)
    \/ \E i \in Sweepers : SweepStep(i)
    \/ \E i \in Installs : JudgeWorkerDies(i)

SandboxSpec == SandboxInit /\ [][SandboxNext]_sbVars

(* Executors go on within their budget, sweeps come round with every tick, *)
(* deadlines pass and containers age.                                      *)
SandboxFairness ==
    /\ \A j \in Tried : WF_sbVars(DeadlinePassed(j))
    /\ \A i \in Sweepers : WF_sbVars(SweepStep(i))
    /\ \A c \in Claims : WF_sbVars(ExecStep(c)) /\ SF_sbVars(BoxAges(c))

-----------------------------------------------------------------------------
(* Rows, executors, containers and sweeps are of the shape of the code.    *)
SandboxTypeOK ==
    /\ \A j \in Tried : /\ sbRow[j].status \in {"queued", "running", "done", "failed"}
                        /\ sbRow[j].attempts \in 0..TriesOf[j]
    /\ \A c \in Claims : /\ sbBox[c].age \in 0..2 /\ sbRun[c].read \in Answers \cup {"none"}
                         /\ sbBox[c].state \in {"none", "created", "running", "exited", "gone"}
    /\ \A i \in Sweepers : sbSweep[i].keep \subseteq Tried /\ sbSweep[i].list \subseteq Claims

(* A sweep never takes the container of a judging its own install still    *)
(* waits for, although what it keeps was read before it listed.            *)
OwnIsNotCut == \A x \in sbCut : HomeOf[x[1][1]] # x[2]

(* A judging is done only by the answer of its own attempt's container.    *)
DoneByOwnBox ==
    \A j \in Tried : sbRow[j].status = "done" =>
        sbRun[<<j, sbRow[j].attempts>>].read = "verdict"

(* A container without faults around it outlives no executor.              *)
NothingLeftUnlessFaulty ==
    sbFaults = 0 => \A c \in Claims : sbRun[c].pc \in {"idle", "settle", "over"} => ~ BoxThere(c)

SandboxSafe == OwnIsNotCut /\ DoneByOwnBox /\ NothingLeftUnlessFaulty

(* Whatever a crash, a lost answer or a failed removal left behind is      *)
(* removed in the end.                                                     *)
BoxesGo == \A c \in Claims : sbBox[c].state = "created" ~> sbBox[c].state = "gone"

(* A sweep never cuts a live judging short, an install's that shares the   *)
(* runtime included (violated: the age of a stopped container is counted   *)
(* from its creation, so it may be past it the moment it stops).           *)
NobodyIsCut == sbCut = {}
=============================================================================
