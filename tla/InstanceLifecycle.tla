-------------------------- MODULE InstanceLifecycle --------------------------
(***************************************************************************)
(* Challenge instances (utils/instance_service.py, instance_reaper.py):    *)
(* the rows of challenge_instances and the containers behind them.         *)
(*                                                                         *)
(* Four kinds of actor change a row at the same time: the launch route,    *)
(* the background provisioner (provision), teardowns (subject, staff, and  *)
(* the reaper's own), and the reaper.  Each works in short sessions: it    *)
(* reads the row, decides, and its commit writes the columns it changed,   *)
(* WHERE id = ... and nothing more.  So every session is a read and a      *)
(* write here, and a write lands on whatever the row has become since.     *)
(*                                                                         *)
(* The backend's container of an instance is one bit.  It exists, and is   *)
(* listed, from the moment the backend accepts it, which is before         *)
(* create() returns and long before the row records the handle.            *)
(***************************************************************************)
EXTENDS Naturals, FiniteSets

CONSTANTS Instances,   \* rows of challenge_instances
          Killers,     \* teardown requests of subjects and staff
          Reaper,      \* the reaper's own teardown call
          MaxExtends,  \* MAX_EXTENDS
          WindowTicks, \* reaper ticks that fit between a container's
                       \* appearance and the record of its handle
          MaxFaults,   \* bound: failed backend calls
          MaxCrashes   \* bound: crashes of the process

ASSUME InstanceAssumption ==
    /\ IsFiniteSet(Instances) /\ Instances # {}
    /\ Reaper \notin Killers
    /\ MaxExtends \in Nat /\ WindowTicks \in Nat
    /\ MaxFaults \in Nat /\ MaxCrashes \in Nat

VARIABLES
    row,       \* the table: status, handle recorded?, TTL over?, age, extends
    container, \* does the backend have the container?
    prov,      \* provision(), one per row: where it is, does it know the handle
    td,        \* teardown(): where it is, its row, the handle it read
    ext,       \* extend() calls past their check
    reaper,    \* the reaper's pass
    window,    \* history: sweeps that took a rising instance for an orphan
    faults,    \* failed backend calls so far
    crashes    \* crashes so far

lifeVars == <<row, container, prov, td, ext, reaper, window, faults, crashes>>

Statuses == {"none", "requested", "provisioning", "running", "expiring",
             "destroyed", "failed", "deleted"}

ActiveStatuses == {"requested", "provisioning", "running", "expiring"}

(* INSTANCE_TRANSITIONS *)
Transitions(s) ==
    CASE s = "requested" -> {"provisioning", "failed", "destroyed"}
      [] s = "provisioning" -> {"running", "failed", "expiring"}
      [] s = "running" -> {"expiring", "failed"}
      [] s = "expiring" -> {"destroyed", "failed"}
      [] OTHER -> {}

CanTransition(s, t) == s = t \/ t \in Transitions(s)

ProvisionSteps == {"none", "due", "claim", "creating", "starting", "created",
                   "final", "failing", "failwrite", "cleanup", "done"}

(* provision() is under its 600 s ceiling in these steps.                  *)
Working(i) ==
    prov[i].pc \in {"due", "claim", "creating", "starting", "created", "final"}

InstanceRow == [status : Statuses, handle : BOOLEAN, expired : BOOLEAN, age : 0..2,
        extends : 0..MaxExtends]

Teardown == [pc : {"idle", "expire", "destroy", "final", "write"},
             inst : Instances, handle : BOOLEAN, legal : BOOLEAN]

NewRow == [status |-> "none", handle |-> FALSE, expired |-> FALSE, age |-> 0,
           extends |-> 0]

IdleTeardown == [pc |-> "idle", inst |-> CHOOSE i \in Instances : TRUE,
                 handle |-> FALSE, legal |-> FALSE]

IdleReaper == [pc |-> "idle", todo |-> {}, live |-> {}, seen |-> {}]

LifeInit ==
    /\ row = [i \in Instances |-> NewRow]
    /\ container = [i \in Instances |-> FALSE]
    /\ prov = [i \in Instances |-> [pc |-> "none", handle |-> FALSE]]
    /\ td = [t \in Killers \cup {Reaper} |-> IdleTeardown]
    /\ ext = {}
    /\ reaper = IdleReaper
    /\ window = [i \in Instances |-> 0]
    /\ faults = 0
    /\ crashes = 0

WithStatus(S) == {i \in Instances : row[i].status \in S}

(* The UPDATE of one row by id.  A row deleted meanwhile makes it raise:   *)
(* the caller is then over.                                                *)
Gone(i) == row[i].status = "deleted"

SetStatus(i, s) == row' = [row EXCEPT ![i].status = s]

(***************************************************************************)
(* The routes and the clock.                                               *)
(***************************************************************************)

(* launch: the admitted row, and the event that schedules provision().     *)
Launch(i) ==
    /\ row[i].status = "none"
    /\ SetStatus(i, "requested")
    /\ prov' = [prov EXCEPT ![i].pc = "due"]
    /\ UNCHANGED <<container, td, ext, reaper, window, faults, crashes>>

(* The challenge or the competition is deleted, and its rows with it.      *)
DeleteRow(i) ==
    /\ row[i].status \notin {"none", "deleted"}
    /\ SetStatus(i, "deleted")
    /\ UNCHANGED <<container, prov, td, ext, reaper, window, faults, crashes>>

(* Mutant: any number of times. *)
ExtendCheck_NoCap(i) ==
    /\ row[i].status = "running"
    /\ ext' = ext \cup {i}
    /\ UNCHANGED <<row, container, prov, td, reaper, window, faults, crashes>>

(* extend: only a running row, only so often.                              *)
ExtendCheck(i) ==
    /\ row[i].status = "running"
    /\ row[i].extends < MaxExtends
    /\ ext' = ext \cup {i}
    /\ UNCHANGED <<row, container, prov, td, reaper, window, faults, crashes>>

ExtendWrite(i) ==
    /\ i \in ext
    /\ ext' = ext \ {i}
    /\ row' = IF Gone(i) THEN row
              ELSE [row EXCEPT ![i].expired = FALSE, ![i].extends = @ + 1]
    /\ UNCHANGED <<container, prov, td, reaper, window, faults, crashes>>

LifetimeEnds(i) ==
    /\ row[i].status \notin {"none", "deleted"}
    /\ ~row[i].expired
    /\ row' = [row EXCEPT ![i].expired = TRUE]
    /\ UNCHANGED <<container, prov, td, ext, reaper, window, faults, crashes>>

(* Age 1: five minutes.  Age 2: the ceiling and its slack, by which time   *)
(* provision() has ended or has been cancelled.                            *)
Ages(i) ==
    /\ row[i].status \in {"requested", "provisioning"}
    /\ row[i].age < 2
    /\ row[i].age = 1 => ~Working(i)
    /\ row' = [row EXCEPT ![i].age = @ + 1]
    /\ UNCHANGED <<container, prov, td, ext, reaper, window, faults, crashes>>

(***************************************************************************)
(* provision()                                                             *)
(***************************************************************************)

ProvGoto(i, pc) == prov' = [prov EXCEPT ![i].pc = pc]

ProvRead(i) ==
    /\ prov[i].pc = "due"
    /\ ProvGoto(i, IF row[i].status = "requested" THEN "claim" ELSE "done")
    /\ UNCHANGED <<row, container, td, ext, reaper, window, faults, crashes>>

(* The claim; a deployment that went away fails the row instead.           *)
ProvClaim(i) ==
    /\ prov[i].pc = "claim"
    /\ \/ /\ ~Gone(i)
          /\ SetStatus(i, "provisioning")
          /\ ProvGoto(i, "creating")
       \/ /\ ~Gone(i)
          /\ SetStatus(i, "failed")
          /\ ProvGoto(i, "done")
       \/ /\ Gone(i)
          /\ ProvGoto(i, "done")
          /\ UNCHANGED row
    /\ UNCHANGED <<container, td, ext, reaper, window, faults, crashes>>

(* The backend has the container: create() still waits for it to start.    *)
BackendCreates(i) ==
    /\ prov[i].pc = "creating"
    /\ container' = [container EXCEPT ![i] = TRUE]
    /\ ProvGoto(i, "starting")
    /\ UNCHANGED <<row, td, ext, reaper, window, faults, crashes>>

(* create() and endpoints() return.  Starting needs the container to be    *)
(* there still.                                                            *)
ProvCreated(i) ==
    /\ prov[i].pc = "starting"
    /\ container[i]
    /\ prov' = [prov EXCEPT ![i] = [pc |-> "created", handle |-> TRUE]]
    /\ UNCHANGED <<row, container, td, ext, reaper, window, faults, crashes>>

(* An exception, or the ceiling's cancellation.  Inside create() the       *)
(* backend client removes what it made (if it can), and the handle is      *)
(* never known; after it, _fail_provision has the handle.                  *)
ProvFails(i) ==
    /\ faults < MaxFaults
    /\ faults' = faults + 1
    /\ \/ /\ prov[i].pc \in {"creating", "starting"}
          /\ \E left \in {FALSE, container[i]} :
                container' = [container EXCEPT ![i] = left]
       \/ /\ prov[i].pc = "created"
          /\ UNCHANGED container
    /\ ProvGoto(i, "failing")
    /\ UNCHANGED <<row, td, ext, reaper, window, crashes>>

(* The container was taken away while it started: create() fails.          *)
ProvLosesContainer(i) ==
    /\ prov[i].pc = "starting"
    /\ ~container[i]
    /\ ProvGoto(i, "failing")
    /\ UNCHANGED <<row, container, td, ext, reaper, window, faults, crashes>>

(* A session of provision() raises at its commit: the task is over, with   *)
(* the row as it was and whatever the backend has made.                    *)
SessionFails(i) ==
    /\ prov[i].pc \in {"claim", "final", "failwrite"}
    /\ faults < MaxFaults
    /\ faults' = faults + 1
    /\ ProvGoto(i, "done")
    /\ UNCHANGED <<row, container, td, ext, reaper, window, crashes>>

(* The last session: a row that moved on gives the container up.           *)
ProvFinalRead(i) ==
    /\ prov[i].pc = "created"
    /\ ProvGoto(i, IF row[i].status = "provisioning" THEN "final"
                                                    ELSE "cleanup")
    /\ UNCHANGED <<row, container, td, ext, reaper, window, faults, crashes>>

ProvFinalWrite(i) ==
    /\ prov[i].pc = "final"
    /\ row' = IF Gone(i) THEN row
              ELSE [row EXCEPT ![i] = [@ EXCEPT !.status = "running",
                                               !.handle = TRUE]]
    /\ ProvGoto(i, "done")
    /\ UNCHANGED <<container, td, ext, reaper, window, faults, crashes>>

(* _fail_provision: record first, clean up second.                         *)
FailRead(i) ==
    /\ prov[i].pc = "failing"
    /\ ProvGoto(i, IF row[i].status \in ActiveStatuses THEN "failwrite"
                                                       ELSE "cleanup")
    /\ UNCHANGED <<row, container, td, ext, reaper, window, faults, crashes>>

FailWrite(i) ==
    /\ prov[i].pc = "failwrite"
    /\ row' = IF Gone(i) THEN row ELSE [row EXCEPT ![i].status = "failed"]
    /\ ProvGoto(i, IF Gone(i) THEN "done" ELSE "cleanup")
    /\ UNCHANGED <<container, td, ext, reaper, window, faults, crashes>>

(* _safe_destroy of a handle provision() knows; a failure is left to the   *)
(* orphan sweep.                                                           *)
ProvCleanup(i) ==
    /\ prov[i].pc = "cleanup"
    /\ \/ /\ container' = [container EXCEPT ![i] = @ /\ ~prov[i].handle]
          /\ UNCHANGED faults
       \/ /\ faults < MaxFaults
          /\ faults' = faults + 1
          /\ UNCHANGED container
    /\ ProvGoto(i, "done")
    /\ UNCHANGED <<row, td, ext, reaper, window, crashes>>

(***************************************************************************)
(* teardown()                                                              *)
(***************************************************************************)

(* The first read.  Only a row that may have a container passes through    *)
(* expiring.                                                               *)
Begun(t, i) ==
    [td EXCEPT ![t] = [pc |-> IF row[i].status \in {"running", "provisioning"}
                              THEN "expire" ELSE "destroy",
                       inst |-> i, handle |-> row[i].handle, legal |-> FALSE]]

(* destroy_instance and the staff's kill: an active row only.              *)
Kill(t, i) ==
    /\ td[t].pc = "idle"
    /\ row[i].status \in ActiveStatuses
    /\ td' = Begun(t, i)
    /\ UNCHANGED <<row, container, prov, ext, reaper, window, faults, crashes>>

TdExpire(t) ==
    /\ td[t].pc = "expire"
    /\ IF Gone(td[t].inst)
       THEN td' = [td EXCEPT ![t] = IdleTeardown] /\ UNCHANGED row
       ELSE /\ SetStatus(td[t].inst, "expiring")
            /\ td' = [td EXCEPT ![t].pc = "destroy"]
    /\ UNCHANGED <<container, prov, ext, reaper, window, faults, crashes>>

(* The backend call, for the handle that was read; when it fails the row   *)
(* stays as it is for the reaper.                                          *)
TdDestroy(t) ==
    /\ td[t].pc = "destroy"
    /\ \/ /\ container' = [container EXCEPT ![td[t].inst] =
                                @ /\ ~td[t].handle]
          /\ td' = [td EXCEPT ![t].pc = "final"]
          /\ UNCHANGED faults
       \/ /\ td[t].handle
          /\ faults < MaxFaults
          /\ faults' = faults + 1
          /\ td' = [td EXCEPT ![t] = IdleTeardown]
          /\ UNCHANGED container
    /\ UNCHANGED <<row, prov, ext, reaper, window, crashes>>

TdFinalRead(t) ==
    /\ td[t].pc = "final"
    /\ LET s == row[td[t].inst].status
       IN  td' = [td EXCEPT
              ![t] = IF s \in {"destroyed", "deleted"} THEN IdleTeardown
                     ELSE [@ EXCEPT !.pc = "write",
                                    !.legal = CanTransition(s, "destroyed")]]
    /\ UNCHANGED <<row, container, prov, ext, reaper, window, faults, crashes>>

(* A refused transition changes no status; the event is sent regardless.   *)
TdFinalWrite(t) ==
    /\ td[t].pc = "write"
    /\ row' = IF Gone(td[t].inst) \/ ~td[t].legal THEN row
              ELSE [row EXCEPT ![td[t].inst].status = "destroyed"]
    /\ td' = [td EXCEPT ![t] = IdleTeardown]
    /\ UNCHANGED <<container, prov, ext, reaper, window, faults, crashes>>

(***************************************************************************)
(* reap_instances: expiries, stuck rows, retries, orphans, in that order.  *)
(***************************************************************************)

ReaperFree == reaper.todo = {} /\ td[Reaper].pc = "idle"

ReaperGoto(pc, todo) == reaper' = [reaper EXCEPT !.pc = pc, !.todo = todo]

ReapExpired ==
    /\ reaper.pc = "idle"
    /\ ReaperGoto("expire", {i \in WithStatus({"running"}) : row[i].expired})
    /\ UNCHANGED <<row, container, prov, td, ext, window, faults, crashes>>

(* One of the collected rows; teardown() reads it afresh, and leaves a     *)
(* terminal one alone.                                                     *)
ReapTeardown(i) ==
    /\ reaper.pc \in {"expire", "retry"}
    /\ i \in reaper.todo
    /\ td[Reaper].pc = "idle"
    /\ ReaperGoto(reaper.pc, reaper.todo \ {i})
    /\ td' = IF row[i].status \in ActiveStatuses THEN Begun(Reaper, i) ELSE td
    /\ UNCHANGED <<row, container, prov, ext, window, faults, crashes>>

(* Mutant: rows whose task never started are not looked at. *)
StuckRows_ProvisioningOnly ==
    {i \in WithStatus({"provisioning"}) : row[i].age = 2}

StuckRows ==
    {i \in WithStatus({"requested"}) : row[i].age >= 1}
        \cup {i \in WithStatus({"provisioning"}) : row[i].age = 2}

ReapStuckRead ==
    /\ reaper.pc = "expire"
    /\ ReaperFree
    /\ ReaperGoto("stuck", StuckRows)
    /\ UNCHANGED <<row, container, prov, td, ext, window, faults, crashes>>

(* One commit for all of them; a row deleted meanwhile ends the tick.      *)
ReapStuckWrite ==
    /\ reaper.pc = "stuck"
    /\ IF \E i \in reaper.todo : Gone(i)
       THEN ReaperGoto("idle", {}) /\ UNCHANGED row
       ELSE /\ row' = [i \in Instances |->
                  IF i \in reaper.todo THEN [row[i] EXCEPT !.status = "failed"]
                                       ELSE row[i]]
            /\ ReaperGoto("stuckdone", {})
    /\ UNCHANGED <<container, prov, td, ext, window, faults, crashes>>

RetryRows == WithStatus({"expiring"})

ReapRetryRead ==
    /\ reaper.pc = "stuckdone"
    /\ ReaperGoto("retry", RetryRows)
    /\ UNCHANGED <<row, container, prov, td, ext, window, faults, crashes>>

(* The container is up, its handle is in provision()'s hands only.         *)
Unrecorded(i) == container[i] /\ prov[i].pc \in {"starting", "created", "final"}

(* The orphan sweep reads the recorded handles of active rows.  Ticks are  *)
(* far apart: no more than WindowTicks fall into one unrecorded window.    *)
GcRead ==
    /\ reaper.pc = "retry"
    /\ ReaperFree
    /\ \A i \in Instances : Unrecorded(i) => window[i] < WindowTicks
    /\ reaper' = [reaper EXCEPT
          !.pc = "list",
          !.live = {i \in WithStatus(ActiveStatuses) : row[i].handle}]
    /\ UNCHANGED <<row, container, prov, td, ext, window, faults, crashes>>

(* Unrecorded, or recorded only after the sweep had read the rows.         *)
Rising(i) == Unrecorded(i) \/ row[i].status = "running"

(* Mutant: no second look. *)
Confirmed_OneTick(orphans, seen) == orphans

(* The two-tick rule.                                                      *)
Confirmed(orphans, seen) == orphans \cap seen

(* It lists the backend's containers, and may fail to.                     *)
GcList ==
    /\ reaper.pc = "list"
    /\ \/ /\ LET orphans == {i \in Instances : container[i]} \ reaper.live
             IN  /\ reaper' = [reaper EXCEPT
                       !.pc = "reap", !.live = {}, !.seen = orphans,
                       !.todo = Confirmed(orphans, reaper.seen)]
                 /\ window' = [i \in Instances |->
                       IF i \in orphans /\ Rising(i) THEN window[i] + 1
                                                     ELSE window[i]]
          /\ UNCHANGED faults
       \/ /\ faults < MaxFaults
          /\ faults' = faults + 1
          /\ reaper' = [reaper EXCEPT !.pc = "idle", !.live = {}]
          /\ UNCHANGED window
    /\ UNCHANGED <<row, container, prov, td, ext, crashes>>

GcDestroy(i) ==
    /\ reaper.pc = "reap"
    /\ i \in reaper.todo
    /\ ReaperGoto("reap", reaper.todo \ {i})
    /\ \/ container' = [container EXCEPT ![i] = FALSE] /\ UNCHANGED faults
       \/ /\ faults < MaxFaults
          /\ faults' = faults + 1
          /\ UNCHANGED container
    /\ UNCHANGED <<row, prov, td, ext, window, crashes>>

ReapDone ==
    /\ reaper.pc = "reap"
    /\ ReaperFree
    /\ ReaperGoto("idle", {})
    /\ UNCHANGED <<row, container, prov, td, ext, window, faults, crashes>>

(* The process dies: its tasks, its calls and what it has seen are gone.   *)
Crash ==
    /\ crashes < MaxCrashes
    /\ crashes' = crashes + 1
    /\ prov' = [i \in Instances |->
          IF prov[i].pc = "none" THEN prov[i]
                                 ELSE [pc |-> "done", handle |-> FALSE]]
    /\ td' = [t \in Killers \cup {Reaper} |-> IdleTeardown]
    /\ ext' = {}
    /\ reaper' = IdleReaper
    /\ UNCHANGED <<row, container, window, faults>>

Provision(i) ==
    \/ ProvRead(i) \/ ProvClaim(i) \/ BackendCreates(i) \/ ProvCreated(i)
    \/ ProvLosesContainer(i) \/ ProvFinalRead(i) \/ ProvFinalWrite(i)
    \/ FailRead(i) \/ FailWrite(i) \/ ProvCleanup(i)

RunTeardown(t) == TdExpire(t) \/ TdDestroy(t) \/ TdFinalRead(t) \/ TdFinalWrite(t)

ReapInstances ==
    \/ ReapExpired \/ (\E i \in Instances : ReapTeardown(i))
    \/ ReapStuckRead \/ ReapStuckWrite \/ ReapRetryRead
    \/ GcRead \/ GcList \/ (\E i \in Instances : GcDestroy(i)) \/ ReapDone

LifeNext ==
    \/ \E i \in Instances :
          \/ Launch(i) \/ DeleteRow(i) \/ LifetimeEnds(i) \/ Ages(i)
          \/ ExtendCheck(i) \/ ExtendWrite(i)
          \/ Provision(i) \/ ProvFails(i) \/ SessionFails(i)
          \/ \E t \in Killers : Kill(t, i)
    \/ \E t \in Killers \cup {Reaper} : RunTeardown(t)
    \/ ReapInstances
    \/ Crash

LifeSpec == LifeInit /\ [][LifeNext]_lifeVars

(* Tasks run on, the scheduler ticks, time passes; an extend request that  *)
(* passed its check completes.  Nothing is assumed of users, failures or   *)
(* crashes, which are bounded.                                             *)
Fairness ==
    /\ WF_lifeVars(ReapInstances)
    /\ \A i \in Instances : /\ WF_lifeVars(Provision(i))
                            /\ WF_lifeVars(LifetimeEnds(i)) /\ WF_lifeVars(Ages(i))
                            /\ WF_lifeVars(ExtendWrite(i))
    /\ \A t \in Killers \cup {Reaper} : WF_lifeVars(RunTeardown(t))

LifeFairSpec == LifeSpec /\ Fairness

(***************************************************************************)
(* Properties.                                                             *)
(***************************************************************************)

(* Every variable has its type. *)
LifeTypeOK ==
    /\ row \in [Instances -> InstanceRow]
    /\ container \in [Instances -> BOOLEAN]
    /\ prov \in [Instances -> [pc : ProvisionSteps, handle : BOOLEAN]]
    /\ td \in [Killers \cup {Reaper} -> Teardown]
    /\ ext \subseteq Instances
    /\ reaper \in [pc : {"idle", "expire", "stuck", "stuckdone", "retry",
                         "list", "reap"},
                   todo : SUBSET Instances, live : SUBSET Instances,
                   seen : SUBSET Instances]
    /\ window \in [Instances -> Nat]
    /\ faults \in 0..MaxFaults
    /\ crashes \in 0..MaxCrashes

(* A row that says running has its container: a competitor is never given  *)
(* the endpoints of something a teardown, a failed provision or the orphan *)
(* sweep has taken away -- although none of them locks the row, and as     *)
(* long as two sweeps do not fall into the window in which its handle was  *)
(* unrecorded.                                                             *)
RunningIsReal ==
    \A i \in Instances :
        row[i].status = "running" /\ window[i] < 2 => container[i]

(* What instance_reaper.py says of its two-tick rule: the time between the *)
(* container and its recorded handle cannot get a live instance killed.    *)
LiveIsNeverKilled ==
    \A i \in Instances : row[i].status = "running" => container[i]

(* Nothing is kept for ever: whatever was launched, its row comes to an    *)
(* end and its container goes, through any loss of tasks, failed backend   *)
(* calls and blind writes.                                                 *)
EverythingEnds ==
    \A i \in Instances :
        row[i].status # "none" ~>
            row[i].status \notin ActiveStatuses /\ ~container[i]

(* What the transition table says: every other step is refused.            *)
OnlyLegalSteps ==
    [][\A i \in Instances :
          \/ CanTransition(row[i].status, row'[i].status)
          \/ row[i].status = "none" /\ row'[i].status = "requested"
          \/ row'[i].status = "deleted"]_lifeVars
=============================================================================
