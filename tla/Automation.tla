----------------------------- MODULE Automation -----------------------------
(***************************************************************************)
(* Rules that run actions on events (utils/automation_engine.py), the      *)
(* actions (utils/automation_actions.py), the time rules the scheduler     *)
(* fires (run_time_rules of utils/automation_scheduler.py) and the rule    *)
(* routes (routers/automations.py).                                        *)
(*                                                                         *)
(* Every event is handled by a background task of its own: it loads the    *)
(* rules that match, then runs their actions one after the other in one    *)
(* database session.  An action that emits starts further tasks, one       *)
(* deeper.  A failed action rolls the session back, which expires every    *)
(* rule loaded in it when a transaction was open: reading an expired rule  *)
(* raises, inside an action as that action's failure, at the start of a    *)
(* rule as the end of the whole task.                                      *)
(***************************************************************************)
EXTENDS Naturals, Sequences, FiniteSets

CONSTANTS
    AutoRules,      \* the rules
    Trigger,        \* Trigger[r]: the event r fires on; "time" for a time rule
    Actions,        \* Actions[r]: its actions, [emits: an event or "none", commits]
    Personal,       \* the rules that belong to one user
    MaxDepth,       \* automation_max_depth
    TaskIds,        \* bound: tasks alive at once (numbers)
    MaxEvents,      \* bound: events from requests and edits of rules
    MaxMishaps      \* bound: failed actions and cancelled tasks

ASSUME AutomationAssumption ==
    /\ Trigger \in [AutoRules -> STRING]
    /\ Actions \in [AutoRules -> Seq([emits : STRING, commits : BOOLEAN])]
    /\ Personal \subseteq AutoRules
    /\ TaskIds \subseteq Nat
    /\ MaxDepth \in Nat /\ MaxEvents \in Nat /\ MaxMishaps \in Nat

VARIABLES
    auRule,     \* rule -> [here, enabled, count]: its row
    auMay,      \* the owner of the personal rules may still observe their events
    auTask,     \* task -> its state, Free when unused
    auClock,    \* "early", "due" (inside a time rule's threshold) or "over"
    auEvents, auMishaps,
    auFired,    \* time rule -> how often each of its actions took effect, up to 2
    auCut,      \* a tick was cut off between an action and the count
    auRuns,     \* rule -> completed runs since it was made
    auOverlap,  \* rules two of whose runs overlapped
    auSkipped   \* actions left out because an earlier one had failed

auVars == <<auRule, auMay, auTask, auClock, auEvents, auMishaps, auFired, auCut,
            auRuns, auOverlap, auSkipped>>

Free == [pc |-> "free"]
NoRule == "none"
EventNames == {Trigger[r] : r \in AutoRules} \ {"time"}
TimeRules == {r \in AutoRules : Trigger[r] = "time"}
Busy == {t \in TaskIds : auTask[t] # Free}

AutomationInit ==
    /\ auRule = [r \in AutoRules |-> [here |-> TRUE, enabled |-> TRUE, count |-> 0]]
    /\ auMay = TRUE
    /\ auTask = [t \in TaskIds |-> Free]
    /\ auClock = "early"
    /\ auEvents = 0 /\ auMishaps = 0
    /\ auFired = [r \in TimeRules |-> [i \in 1 .. Len(Actions[r]) |-> 0]]
    /\ auCut = FALSE
    /\ auRuns = [r \in AutoRules |-> 0]
    /\ auOverlap = {}
    /\ auSkipped = {}

(* Tasks are interchangeable: a new one takes the first free name. *)
Unused(t) == auTask[t] = Free /\ \A u \in TaskIds : u < t => auTask[u] # Free

Queued(e, depth) == [pc |-> "queued", event |-> e, depth |-> depth]

-----------------------------------------------------------------------------
(* A request commits and emits. *)
RequestEmits(e, t) ==
    /\ auEvents < MaxEvents /\ Unused(t)
    /\ auEvents' = auEvents + 1
    /\ auTask' = [auTask EXCEPT ![t] = Queued(e, 0)]
    /\ UNCHANGED <<auRule, auMay, auClock, auMishaps, auFired, auCut, auRuns, auOverlap, auSkipped>>

(* The enabled rules of the trigger; a personal one only while its owner   *)
(* may observe the event.                                                  *)
Matched(e) ==
    {r \in AutoRules : /\ Trigger[r] = e /\ auRule[r].here /\ auRule[r].enabled
                       /\ r \in Personal => auMay}

(* The session with its loaded rules; a transaction is open from the first *)
(* query on.                                                               *)
Loaded(e, depth, rules) ==
    [pc |-> "rules", event |-> e, depth |-> depth, todo |-> rules, rule |-> NoRule, at |-> 0,
     saw |-> [r \in rules |-> auRule[r].count], expired |-> {}, tx |-> TRUE,
     failed |-> FALSE]

LoadedElsewhere ==
    UNION {auTask[u].todo \cup {auTask[u].rule} : u \in {b \in Busy : auTask[b].pc # "queued"}}

TooDeep_OffByOne(d) == d > MaxDepth

(* The runaway guard. *)
TooDeep(d) == d >= MaxDepth

(* handle_event: the depth guard, the rules, the checks.                   *)
HandleEvent(t) ==
    /\ auTask[t].pc = "queued"
    /\ LET e == auTask[t].event   d == auTask[t].depth
       IN  /\ auTask' = [auTask EXCEPT ![t] =
                        IF TooDeep(d) \/ Matched(e) = {} THEN Free
                        ELSE Loaded(e, d + 1, Matched(e))]
           /\ auOverlap' = auOverlap \cup (Matched(e) \cap LoadedElsewhere)
    /\ UNCHANGED <<auRule, auMay, auClock, auEvents, auMishaps, auFired, auCut, auRuns, auSkipped>>

Due_Repeats == {r \in TimeRules : auRule[r].here /\ auRule[r].enabled}

(* run_time_rules: the rules that have not fired and whose threshold is    *)
(* reached, while the competition has not ended.                           *)
Due == {r \in TimeRules : auRule[r].here /\ auRule[r].enabled /\ auRule[r].count = 0}

(* One scheduler, one tick at a time; its actions emit at depth 0.         *)
Tick(t) ==
    /\ Unused(t)
    /\ auClock = "due" /\ Due # {}
    /\ \A u \in Busy : auTask[u].event # "time"
    /\ auTask' = [auTask EXCEPT ![t] = Loaded("time", 0, Due)]
    /\ UNCHANGED <<auRule, auMay, auClock, auEvents, auMishaps, auFired, auCut, auRuns, auOverlap, auSkipped>>

ActionsOf(rules) == UNION {{<<r, i>> : i \in 1 .. Len(Actions[r])} : r \in rules}

(* run_rule reads the rule: an expired one ends the task there and then.   *)
StartRule(t, r) ==
    LET k == auTask[t] IN
    /\ k.pc = "rules" /\ r \in k.todo
    /\ IF r \in k.expired
       THEN /\ auTask' = [auTask EXCEPT ![t] = Free]
            /\ auSkipped' = auSkipped \cup ActionsOf(k.todo)
       ELSE /\ auTask' = [auTask EXCEPT ![t] =
                 [k EXCEPT !.pc = "actions", !.todo = @ \ {r}, !.rule = r, !.at = 1,
                           !.tx = TRUE, !.failed = FALSE]]
            /\ UNCHANGED auSkipped
    /\ UNCHANGED <<auRule, auMay, auClock, auEvents, auMishaps, auFired, auCut, auRuns, auOverlap>>

Running(t) == /\ auTask[t].pc = "actions"
              /\ auTask[t].at <= Len(Actions[auTask[t].rule])
Readable(t) == auTask[t].rule \notin auTask[t].expired
Again(n) == IF n = 0 THEN 1 ELSE 2

(* The task of an emitted event inherits the depth of the one that emits.  *)
EmitDepth(t) == auTask[t].depth

(* The task after a handler returned.  One that finds its challenge        *)
(* published, its survey open or no opener for its ticket returns without  *)
(* a commit, and leaves the transaction of its reads open.                 *)
Acted(k, a) == [k EXCEPT !.at = @ + 1, !.tx = IF a.commits THEN FALSE ELSE @]

(* An action takes effect: it commits, then its event starts a task.       *)
ActionSucceeds(t, u) ==
    LET k == auTask[t]   a == Actions[k.rule][k.at] IN
    /\ Running(t) /\ Readable(t)
    /\ a.emits # "none" => u # t /\ Unused(u)
    /\ a.emits = "none" => u = t
    /\ auTask' = IF a.emits = "none" THEN [auTask EXCEPT ![t] = Acted(k, a)]
                 ELSE [auTask EXCEPT ![t] = Acted(k, a), ![u] = Queued(a.emits, EmitDepth(t))]
    /\ auFired' = IF k.rule \in TimeRules
                  THEN [auFired EXCEPT ![k.rule][k.at] = Again(@)] ELSE auFired
    /\ UNCHANGED <<auRule, auMay, auClock, auEvents, auMishaps, auCut, auRuns, auOverlap, auSkipped>>

Rollback_Retries(k) == [k EXCEPT !.failed = TRUE, !.tx = FALSE,
                                 !.expired = IF k.tx THEN k.todo \cup {k.rule} ELSE @]

(* It fails, of itself or because the rule cannot be read: rolled back and *)
(* passed over.                                                            *)
Rollback(k) == [k EXCEPT !.at = @ + 1, !.failed = TRUE, !.tx = FALSE,
                         !.expired = IF k.tx THEN k.todo \cup {k.rule} ELSE @]

ActionFails(t) ==
    /\ Running(t)
    /\ IF Readable(t)
       THEN /\ auMishaps < MaxMishaps
            /\ auMishaps' = auMishaps + 1
            /\ UNCHANGED auSkipped
       ELSE /\ auSkipped' = auSkipped \cup {<<auTask[t].rule, auTask[t].at>>}
            /\ UNCHANGED auMishaps
    /\ auTask' = [auTask EXCEPT ![t] = Rollback(@)]
    /\ UNCHANGED <<auRule, auMay, auClock, auEvents, auFired, auCut, auRuns, auOverlap>>

(* The count the run adds one to: the one loaded with the rule, or, after  *)
(* a failure, the one loaded again.                                        *)
Reload(t) == LET r == auTask[t].rule IN
             IF auTask[t].failed THEN auRule[r].count ELSE auTask[t].saw[r]

BumpCount_Increments(t) ==
    LET k == auTask[t]   r == k.rule IN
    /\ k.pc = "actions" /\ k.at > Len(Actions[r])
    /\ auTask' = [auTask EXCEPT ![t] =
                    IF auRule[r].here \/ k.failed
                    THEN [k EXCEPT !.pc = "rules", !.rule = NoRule, !.tx = FALSE,
                                   !.expired = @ \ {r}]
                    ELSE Free]
    /\ auRule' = IF auRule[r].here /\ ~ k.failed
                 THEN [auRule EXCEPT ![r].count = Reload(t) + 1] ELSE auRule
    /\ auRuns' = IF auRule[r].here THEN [auRuns EXCEPT ![r] = @ + 1] ELSE auRuns
    /\ UNCHANGED <<auMay, auClock, auEvents, auMishaps, auFired, auCut, auOverlap, auSkipped>>

(* The run is counted and automation.rule_triggered, which triggers        *)
(* nothing, goes out.  A rule deleted meanwhile ends the run, or, when the *)
(* write finds no row, the task.                                           *)
BumpCount(t) ==
    LET k == auTask[t]   r == k.rule IN
    /\ k.pc = "actions" /\ k.at > Len(Actions[r])
    /\ auTask' = [auTask EXCEPT ![t] =
                    IF auRule[r].here \/ k.failed
                    THEN [k EXCEPT !.pc = "rules", !.rule = NoRule, !.tx = FALSE,
                                   !.expired = @ \ {r}]
                    ELSE Free]
    /\ auRule' = IF auRule[r].here
                 THEN [auRule EXCEPT ![r].count = Reload(t) + 1] ELSE auRule
    /\ auRuns' = IF auRule[r].here THEN [auRuns EXCEPT ![r] = @ + 1] ELSE auRuns
    /\ UNCHANGED <<auMay, auClock, auEvents, auMishaps, auFired, auCut, auOverlap, auSkipped>>

Finish(t) ==
    /\ auTask[t].pc = "rules" /\ auTask[t].todo = {}
    /\ auTask' = [auTask EXCEPT ![t] = Free]
    /\ UNCHANGED <<auRule, auMay, auClock, auEvents, auMishaps, auFired, auCut, auRuns,
                   auOverlap, auSkipped>>

(* The handler's ceiling, a shutdown or a crash: the rest is not run.      *)
Cancelled(t) ==
    /\ auTask[t].pc \in {"queued", "actions"} /\ auMishaps < MaxMishaps
    /\ auMishaps' = auMishaps + 1
    /\ auTask' = [auTask EXCEPT ![t] = Free]
    /\ auCut' = (auCut \/ auTask[t].event = "time")
    /\ UNCHANGED <<auRule, auMay, auClock, auEvents, auFired, auRuns, auOverlap, auSkipped>>

-----------------------------------------------------------------------------
(* The routes, each one commit. *)
UpdateRule(r) ==
    /\ auRule[r].here /\ auEvents < MaxEvents
    /\ auEvents' = auEvents + 1
    /\ auRule' = [auRule EXCEPT ![r].enabled = ~ @]
    /\ UNCHANGED <<auMay, auTask, auClock, auMishaps, auFired, auCut, auRuns, auOverlap, auSkipped>>

DeleteRule(r) ==
    /\ auRule[r].here /\ auEvents < MaxEvents
    /\ auEvents' = auEvents + 1
    /\ auRule' = [auRule EXCEPT ![r].here = FALSE]
    /\ UNCHANGED <<auMay, auTask, auClock, auMishaps, auFired, auCut, auRuns, auOverlap, auSkipped>>

OwnerLosesPermission ==
    /\ auMay /\ Personal # {} /\ auEvents < MaxEvents
    /\ auEvents' = auEvents + 1
    /\ auMay' = FALSE
    /\ UNCHANGED <<auRule, auTask, auClock, auMishaps, auFired, auCut, auRuns,
                   auOverlap, auSkipped>>

TimePasses ==
    /\ auClock # "over"
    /\ auClock' = IF auClock = "early" THEN "due" ELSE "over"
    /\ UNCHANGED <<auRule, auMay, auTask, auEvents, auMishaps, auFired, auCut, auRuns,
                   auOverlap, auSkipped>>

TaskStep == \E t \in Busy :
    \/ HandleEvent(t) \/ ActionFails(t) \/ BumpCount(t) \/ Finish(t)
    \/ \E r \in AutoRules : StartRule(t, r)
    \/ \E u \in TaskIds : ActionSucceeds(t, u)

AutomationNext ==
    \/ TaskStep
    \/ \E t \in TaskIds : Cancelled(t) \/ Tick(t) \/ \E e \in EventNames : RequestEmits(e, t)
    \/ \E r \in AutoRules : UpdateRule(r) \/ DeleteRule(r)
    \/ OwnerLosesPermission \/ TimePasses

AutomationSpec == AutomationInit /\ [][AutomationNext]_auVars

(* Tasks make progress: each action is bounded, and so is each handler.    *)
AutomationFairness == WF_auVars(TaskStep)

-----------------------------------------------------------------------------
AutomationTypeOK ==
    /\ auRule \in [AutoRules -> [here : BOOLEAN, enabled : BOOLEAN, count : Nat]]
    /\ \A t \in Busy : /\ auTask[t].pc \in {"queued", "rules", "actions"}
                       /\ auTask[t].depth \in 0 .. MaxDepth
                       /\ auTask[t].pc = "actions" => auTask[t].rule \notin auTask[t].todo
    /\ \A r \in TimeRules : auFired[r] \in [1 .. Len(Actions[r]) -> 0 .. 2]

(* A time rule's actions take effect at most once, whatever fails in them, *)
(* unless its tick was cut off before the run was counted.                 *)
TimeRuleOnceUnlessCut ==
    ~ auCut => \A r \in TimeRules : \A i \in DOMAIN auFired[r] : auFired[r][i] <= 1

(* trigger_count counts every completed run of a rule, unless two runs of  *)
(* it overlapped: then the later write takes the earlier one back.         *)
CountedUnlessOverlapped ==
    \A r \in AutoRules :
        /\ auRule[r].count <= auRuns[r]
        /\ r \notin auOverlap => auRule[r].count = auRuns[r]

(* Rules that trigger one another, or themselves, come to rest: whatever   *)
(* set them off, the tasks end.                                            *)
CascadesEnd == (Busy # {}) ~> (Busy = {})

(* "per-action isolation" (automation_engine.py): the failure of an action *)
(* keeps no other action of the event from running.                        *)
FailureIsIsolated == auSkipped = {}
=============================================================================
