------------------------------ MODULE Backends ------------------------------
(***************************************************************************)
(* What one instance leaves at its runtime: the objects a provisioner      *)
(* creates and removes (utils/provisioner_docker.py,                       *)
(* utils/provisioner_kubernetes.py), call by call, with the orphan sweep   *)
(* (_reap_orphans of utils/instance_reaper.py) that removes what no row    *)
(* owns.  The row itself is InstanceLifecycle's; here it is only running,  *)
(* ended or on its way.  The second part of the module is the connection   *)
(* test of the same provisioners.                                          *)
(*                                                                         *)
(* On Docker a published instance has a bridge and a container; on         *)
(* Kubernetes a policy, a Deployment, a Service and an Ingress as its      *)
(* exposure needs, and a pod that outlives the deletion of its Deployment  *)
(* for a while.  Any call may be refused, be lost before or after it took  *)
(* effect, or be cancelled at the ceiling.                                 *)
(***************************************************************************)
EXTENDS Naturals, Sequences, FiniteSets

CONSTANT MaxBackendFaults   \* bound: failed calls, cancellations, crashes

ASSUME BackendsAssumption == MaxBackendFaults \in Nat

VARIABLES
    bkSpec,     \* [kind, exposure] of the deployment
    bkObjs,     \* the objects that exist
    bkPod,      \* "none", "starting", "ready", "ending": the running process
    bkRow,      \* "provisioning", "running", "expiring", "ended"
    bkProv,     \* the provision task
    bkTear,     \* a teardown of the row or a pass of the sweep
    bkSeen,     \* what the last pass saw unowned
    bkFaults,
    bkCut       \* the removals a failed call or a crash cut short: "row", "other"

bkVars == <<bkSpec, bkObjs, bkPod, bkRow, bkProv, bkTear, bkSeen, bkFaults, bkCut>>

Docker == bkSpec.kind = "docker"
MainOf(kind) == IF kind = "docker" THEN "container" ELSE "deployment"
Main == MainOf(bkSpec.kind)
NoCall == [pc |-> "idle"]

Objects_PolicyLast(spec) ==
    IF spec.kind = "docker"
    THEN IF spec.exposure = "tcp" THEN <<"network", "container">> ELSE <<"container">>
    ELSE CASE spec.exposure = "none" -> <<"deployment", "netpol">>
           [] spec.exposure = "tcp" -> <<"deployment", "service", "netpol">>
           [] spec.exposure = "http" -> <<"deployment", "service", "ingress", "netpol">>

(* What an instance consists of, in the order of its creation: only a      *)
(* published port gets a bridge of its own; the policy precedes the pod.   *)
Objects(spec) ==
    IF spec.kind = "docker"
    THEN IF spec.exposure = "tcp" THEN <<"network", "container">> ELSE <<"container">>
    ELSE CASE spec.exposure = "none" -> <<"netpol", "deployment">>
           [] spec.exposure = "tcp" -> <<"netpol", "deployment", "service">>
           [] spec.exposure = "http" -> <<"netpol", "deployment", "service", "ingress">>

Needed == {Objects(bkSpec)[i] : i \in DOMAIN Objects(bkSpec)}

BackendsInit ==
    /\ bkSpec \in [kind : {"docker", "kubernetes"}, exposure : {"tcp", "http", "none"}]
    /\ bkObjs = {} /\ bkPod = "none"
    /\ bkRow = "provisioning"
    /\ bkProv = [pc |-> "creating", todo |-> Objects(bkSpec)]
    /\ bkTear = NoCall
    /\ bkSeen = {}
    /\ bkFaults = 0
    /\ bkCut = {}

Fault == bkFaults < MaxBackendFaults /\ bkFaults' = bkFaults + 1
Keeps(v) == UNCHANGED v

-----------------------------------------------------------------------------
(* A removal: the calls still to make, the first of which comes next.      *)

(* The four kinds by name, whether they exist or not; Docker first asks    *)
(* which bridges the container is on.                                      *)
Removal == IF Docker THEN [pc |-> "inspect"]
           ELSE [pc |-> "deleting", err |-> FALSE,
                 todo |-> <<"deployment", "service", "netpol", "ingress">>]

(* _instance_networks_of: a container that is gone is on none. *)
Inspected == [pc |-> "deleting", err |-> FALSE,
              todo |-> <<"container">> \o
                       (IF {"container", "network"} \subseteq bkObjs THEN <<"network">> ELSE <<>>)]

(* A bridge with a running container on it is not removed. *)
Removable(o) == ~ (o = "network" /\ "container" \in bkObjs /\ bkPod = "ready")

Removed_KeepsProcess(o) ==
    /\ bkObjs' = IF Removable(o) THEN bkObjs \ {o} ELSE bkObjs
    /\ bkPod' = IF o = "deployment" /\ bkPod # "none" THEN "ending" ELSE bkPod

(* The effect of one deletion; a Deployment's pod ends later. *)
Removed(o) ==
    /\ bkObjs' = IF Removable(o) THEN bkObjs \ {o} ELSE bkObjs
    /\ bkPod' = CASE o = "container" -> "none"
                  [] o = "deployment" /\ bkPod # "none" -> "ending"
                  [] OTHER -> bkPod

Next1(call) == [call EXCEPT !.todo = Tail(@)]

(* A refusal on Kubernetes is remembered and the rest still tried; a lost  *)
(* call, and any failure to remove a container, ends the removal.  A       *)
(* failure to remove a bridge is passed over.                              *)
AfterFailure(call, lost) ==
    IF Head(call.todo) = "network" THEN Next1(call)
    ELSE IF Docker \/ lost THEN [call EXCEPT !.todo = <<>>, !.err = TRUE]
    ELSE [Next1(call) EXCEPT !.err = TRUE]

-----------------------------------------------------------------------------
(* create() of the two kinds. *)

ProvCreate ==
    /\ bkProv.pc = "creating" /\ bkProv.todo # <<>>
    /\ bkObjs' = bkObjs \cup {Head(bkProv.todo)}
    /\ bkPod' = IF Head(bkProv.todo) = "deployment" THEN "starting" ELSE bkPod
    /\ bkProv' = Next1(bkProv)
    /\ Keeps(<<bkSpec, bkRow, bkTear, bkSeen, bkFaults, bkCut>>)

(* Docker: the start, refused when the container or its bridge is gone.    *)
ProvStart ==
    /\ Docker /\ bkProv = [pc |-> "creating", todo |-> <<>>]
    /\ IF Needed \subseteq bkObjs
       THEN bkPod' = "ready" /\ bkProv' = [pc |-> "returning"]
       ELSE bkProv' = [pc |-> "cleaning", call |-> Removal] /\ Keeps(bkPod)
    /\ Keeps(<<bkSpec, bkObjs, bkRow, bkTear, bkSeen, bkFaults, bkCut>>)

(* Kubernetes: _await_ready. *)
ProvReady ==
    /\ ~ Docker /\ bkProv = [pc |-> "creating", todo |-> <<>>] /\ bkPod = "ready"
    /\ bkProv' = [pc |-> "returning"]
    /\ Keeps(<<bkSpec, bkObjs, bkPod, bkRow, bkTear, bkSeen, bkFaults, bkCut>>)

CleanupOnFailure_NotCancelled(o) == [pc |-> "failing"]

(* Kubernetes removes whatever landed, Docker only a container it got the  *)
(* handle of: until then o, the object being made, is left to the sweep.   *)
CleanupOnFailure(o) ==
    IF Docker /\ o # "start" THEN [pc |-> "failing"]
    ELSE [pc |-> "cleaning", call |-> Removal]

Making == IF bkProv.todo = <<>> THEN "start" ELSE Head(bkProv.todo)

(* A call of create() is refused, or lost with or without effect, or the   *)
(* task is cancelled in it.                                                *)
BackendFails(landed) ==
    /\ bkProv.pc = "creating" /\ Fault
    /\ landed => Making # "start"
    /\ bkObjs' = IF landed THEN bkObjs \cup {Making} ELSE bkObjs
    /\ bkPod' = IF landed /\ Making = "deployment" THEN "starting" ELSE bkPod
    /\ bkProv' = CleanupOnFailure(Making)
    /\ Keeps(<<bkSpec, bkRow, bkTear, bkSeen, bkCut>>)

(* _safe_destroy, _safe_delete: its own failures are only logged. *)
ProvCleans ==
    LET c == bkProv.call IN
    /\ bkProv.pc = "cleaning"
    /\ \/ /\ c.pc = "inspect"
          /\ bkProv' = [bkProv EXCEPT !.call = Inspected]
          /\ Keeps(<<bkObjs, bkPod>>)
       \/ /\ c.pc = "deleting" /\ c.todo # <<>>
          /\ Removed(Head(c.todo))
          /\ bkProv' = [bkProv EXCEPT !.call = Next1(c)]
       \/ /\ c.pc = "deleting" /\ c.todo = <<>>
          /\ bkProv' = [pc |-> "failing"]
          /\ Keeps(<<bkObjs, bkPod>>)
    /\ Keeps(<<bkSpec, bkRow, bkTear, bkSeen, bkFaults, bkCut>>)

ProvCleanFails(lost) ==
    LET c == bkProv.call IN
    /\ bkProv.pc = "cleaning" /\ Fault
    /\ \/ c.pc = "inspect" /\ bkProv' = [pc |-> "failing"]
       \/ /\ c.pc = "deleting" /\ c.todo # <<>>
          /\ bkProv' = [bkProv EXCEPT !.call = AfterFailure(c, lost)]
    /\ bkCut' = bkCut \cup {"other"}
    /\ Keeps(<<bkSpec, bkObjs, bkPod, bkRow, bkTear, bkSeen>>)

(* _fail_provision *)
ProvFailed ==
    /\ bkProv.pc = "failing"
    /\ bkRow' = IF bkRow = "provisioning" THEN "ended" ELSE bkRow
    /\ bkProv' = NoCall
    /\ Keeps(<<bkSpec, bkObjs, bkPod, bkTear, bkSeen, bkFaults, bkCut>>)

(* The handle is recorded, or, when the row has moved on, what it names is *)
(* removed.                                                                *)
ProvRecord ==
    /\ bkProv.pc = "returning"
    /\ IF bkRow = "provisioning"
       THEN bkRow' = "running" /\ bkProv' = NoCall
       ELSE bkProv' = [pc |-> "cleaning", call |-> Removal] /\ Keeps(bkRow)
    /\ Keeps(<<bkSpec, bkObjs, bkPod, bkTear, bkSeen, bkFaults, bkCut>>)

-----------------------------------------------------------------------------
(* teardown(): a row with no handle yet just ends. *)
TeardownStart ==
    /\ bkTear = NoCall
    /\ \/ bkRow = "provisioning" /\ bkRow' = "ended" /\ Keeps(bkTear)
       \/ /\ bkRow \in {"running", "expiring"}
          /\ bkRow' = "expiring"
          /\ bkTear' = [pc |-> "row", call |-> Removal]
    /\ Keeps(<<bkSpec, bkObjs, bkPod, bkProv, bkSeen, bkFaults, bkCut>>)

(* _reap_orphans: what was listed and unowned in two passes is destroyed.  *)
Owned == bkRow \in {"running", "expiring"}

SweepList ==
    LET orphans == {Main} \cap (IF Owned THEN {} ELSE bkObjs) IN
    /\ bkTear = NoCall
    /\ bkTear' = IF orphans \subseteq bkSeen /\ orphans # {}
                 THEN [pc |-> "sweep", call |-> Removal] ELSE [pc |-> "networks"]
    /\ bkSeen' = orphans \cup (bkSeen \cap {"network"})
    /\ Keeps(<<bkSpec, bkObjs, bkPod, bkRow, bkProv, bkFaults, bkCut>>)

EmptyBridge_None == {}

EmptyBridge == {"network"} \cap (IF bkPod = "ready" THEN {} ELSE bkObjs)

(* ... and so are bridges without a container. *)
SweepNetworks ==
    /\ bkTear = [pc |-> "networks"]
    /\ bkObjs' = bkObjs \ (EmptyBridge \cap bkSeen)
    /\ bkSeen' = (bkSeen \ {"network"}) \cup EmptyBridge
    /\ bkTear' = NoCall
    /\ Keeps(<<bkSpec, bkPod, bkRow, bkProv, bkFaults, bkCut>>)

(* One call of either.  A teardown that succeeded ends its row; one that   *)
(* did not leaves it expiring for the next tick.                           *)
TearStep ==
    LET c == bkTear.call IN
    /\ bkTear.pc \in {"row", "sweep"}
    /\ \/ /\ c.pc = "inspect"
          /\ bkTear' = [bkTear EXCEPT !.call = Inspected]
          /\ Keeps(<<bkObjs, bkPod, bkRow>>)
       \/ /\ c.pc = "deleting" /\ c.todo # <<>>
          /\ Removed(Head(c.todo))
          /\ bkTear' = [bkTear EXCEPT !.call = Next1(c)]
          /\ Keeps(bkRow)
       \/ /\ c.pc = "deleting" /\ c.todo = <<>>
          /\ bkRow' = IF bkTear.pc = "row" /\ ~ c.err THEN "ended" ELSE bkRow
          /\ bkTear' = IF bkTear.pc = "row" THEN NoCall ELSE [pc |-> "networks"]
          /\ Keeps(<<bkObjs, bkPod>>)
    /\ Keeps(<<bkSpec, bkProv, bkSeen, bkFaults, bkCut>>)

TearFails(lost) ==
    LET c == bkTear.call IN
    /\ bkTear.pc \in {"row", "sweep"} /\ Fault
    /\ \/ /\ c.pc = "inspect"
          /\ bkTear' = IF bkTear.pc = "row" THEN NoCall ELSE [pc |-> "networks"]
       \/ /\ c.pc = "deleting" /\ c.todo # <<>>
          /\ bkTear' = [bkTear EXCEPT !.call = AfterFailure(c, lost)]
    /\ bkCut' = bkCut \cup {IF bkTear.pc = "row" THEN "row" ELSE "other"}
    /\ Keeps(<<bkSpec, bkObjs, bkPod, bkRow, bkProv, bkSeen>>)

-----------------------------------------------------------------------------
(* The runtime. *)
PodReady ==
    /\ bkPod = "starting" /\ bkPod' = "ready"
    /\ Keeps(<<bkSpec, bkObjs, bkRow, bkProv, bkTear, bkSeen, bkFaults, bkCut>>)

PodEnds ==
    /\ bkPod = "ending" /\ bkPod' = "none"
    /\ Keeps(<<bkSpec, bkObjs, bkRow, bkProv, bkTear, bkSeen, bkFaults, bkCut>>)

(* The process exits: AutoRemove takes the container, not its bridge.      *)
ContainerExits ==
    /\ Docker /\ bkPod = "ready" /\ Fault
    /\ bkPod' = "none" /\ bkObjs' = bkObjs \ {"container"}
    /\ Keeps(<<bkSpec, bkRow, bkProv, bkTear, bkSeen, bkCut>>)

(* The backend process dies; _orphan_seen goes with it. *)
BackendCrash ==
    /\ bkProv # NoCall \/ bkTear # NoCall
    /\ Fault
    /\ bkProv' = NoCall /\ bkTear' = NoCall /\ bkSeen' = {}
    /\ bkCut' = bkCut \cup {"other"}
    /\ Keeps(<<bkSpec, bkObjs, bkPod, bkRow>>)

(* The reaper fails a row whose task is gone. *)
StuckFails ==
    /\ bkRow = "provisioning" /\ bkProv = NoCall
    /\ bkRow' = "ended"
    /\ Keeps(<<bkSpec, bkObjs, bkPod, bkProv, bkTear, bkSeen, bkFaults, bkCut>>)

ProvStep == ProvCreate \/ ProvStart \/ ProvReady \/ ProvCleans \/ ProvFailed \/ ProvRecord
TickStep == SweepList \/ SweepNetworks \/ TearStep

BackendsNext ==
    \/ ProvStep \/ TickStep \/ TeardownStart \/ StuckFails
    \/ \E b \in BOOLEAN : BackendFails(b) \/ ProvCleanFails(b) \/ TearFails(b)
    \/ PodReady \/ PodEnds \/ ContainerExits \/ BackendCrash

BackendsSpec == BackendsInit /\ [][BackendsNext]_bkVars

(* The tick comes round, calls return, the kubelet works.                  *)
BackendsFairness == /\ WF_bkVars(ProvStep) /\ WF_bkVars(TickStep)
                    /\ WF_bkVars(PodReady) /\ WF_bkVars(PodEnds) /\ WF_bkVars(StuckFails)

-----------------------------------------------------------------------------
BackendsTypeOK ==
    /\ bkObjs \subseteq {"network", "container", "netpol", "deployment", "service", "ingress"}
    /\ bkPod \in {"none", "starting", "ready", "ending"}
    /\ bkRow \in {"provisioning", "running", "expiring", "ended"}
    /\ bkCut \subseteq {"row", "other"}
    /\ bkSeen \subseteq {Main, "network"}
    /\ Docker => bkPod \in {"none", "ready"} /\ (bkPod = "ready" => "container" \in bkObjs)

(* A pod never runs without its policy, except while it is being deleted:  *)
(* the policy is there before the Deployment and goes after it, unless the *)
(* deletion of the Deployment was refused and the rest deleted all the     *)
(* same.                                                                   *)
PodIsIsolated ==
    ~ Docker /\ bkCut = {} /\ bkPod \in {"starting", "ready"} => "netpol" \in bkObjs

(* Whatever call of a provision failed or was cancelled, and however often *)
(* a teardown had to be retried, an ended row leaves nothing that the      *)
(* sweep cannot see, unless a clean-up or a sweep was itself cut short.    *)
RestIsVisible ==
    /\ bkRow = "ended" /\ bkProv = NoCall /\ bkTear = NoCall /\ "other" \notin bkCut
    /\ Main \notin bkObjs
    => bkObjs \subseteq {"network"}

(* Whatever failed on the way, the container or Deployment of an ended row *)
(* is removed in the end, and so is its bridge.                            *)
EndedIsRemoved == (bkRow = "ended") ~> (bkObjs \cap {Main, "network"} = {})

(* "so a failed provision never leaks objects" (provisioner_kubernetes.py): *)
(* an ended row leaves nothing that no later pass can find.                *)
NothingLeaks ==
    bkRow = "ended" /\ bkProv = NoCall /\ bkTear = NoCall /\ Main \notin bkObjs =>
        bkObjs \subseteq {"network"}

-----------------------------------------------------------------------------
(***************************************************************************)
(* "Test connection": validate() of the Docker and the Kubernetes          *)
(* provisioner (utils/provisioner_docker.py,                               *)
(* utils/provisioner_kubernetes.py), leg by leg, and the route that runs   *)
(* it (routers/instances_settings.py).  The later legs create probe        *)
(* objects with fixed names, so two administrators testing at once share   *)
(* them.  The cluster under test does not change.                          *)
(***************************************************************************)
CONSTANTS
    Testers,            \* the tests that run
    MaxProbeFaults      \* bound: lost calls and polls that time out

ASSUME TestConnectionAssumption == MaxProbeFaults \in Nat

VARIABLES
    tcKind,     \* "docker" or "kubernetes"
    tcWorld,    \* fact -> whether it holds of the runtime
    tcRun,      \* test -> [leg, do, fin, legs]: its leg, calls to make, calls
                \* of the finally block, results
    tcObjs,     \* the probe objects that exist, <<kind, name>>
    tcExit,     \* egress pod -> "running", "blocked", "reached"
    tcFaults,
    tcOverlap   \* two tests were under way at once

tcVars == <<tcKind, tcWorld, tcRun, tcObjs, tcExit, tcFaults, tcOverlap>>

(* What is true of a cluster or a daemon. *)
Facts == {"reach", "posture", "ready", "netpol", "baseline", "enforces", "egress",
          "starts", "public", "http"}
Sound == [f \in Facts |-> TRUE]

(* The legs in order; without the first three (on Docker, four) nothing    *)
(* else is tried.                                                          *)
Legs == IF tcKind = "docker"
        THEN <<"reach", "posture", "ready", "pull", "probe", "http">>
        ELSE <<"reach", "posture", "ready", "netpol", "baseline", "deny", "control",
               "probe", "http">>
Stops == {"reach", "posture", "ready", "pull"}

Pod(n) == <<"pod", n>>
Policy(n) == <<"policy", n>>
Svc == <<"service", "probe">>
Bridge == <<"bridge", "probe">>

Do(op, obj) == [op |-> op, obj |-> obj]
Script(do, fin) == [do |-> do, fin |-> fin]

(* The calls of the legs and of their finally blocks.  Names that an       *)
(* earlier test left behind are cleared first.                             *)
EgressProbe(n) == <<Do("create", Pod(n)), Do("await", Pod(n))>>

DenyScript ==
    Script(<<Do("delete", Pod("deny")), Do("delete", Policy("deny")), Do("create", Policy("deny"))>>
               \o EgressProbe("deny"),
           <<Do("delete", Pod("deny")), Do("delete", Policy("deny"))>>)

ControlScript_Policy ==
    Script(<<Do("delete", Pod("control")), Do("delete", Policy("control")),
             Do("create", Policy("control"))>> \o EgressProbe("control"),
           <<Do("delete", Pod("control")), Do("delete", Policy("control"))>>)

ControlScript ==
    Script(<<Do("delete", Pod("control"))>> \o EgressProbe("control"), <<Do("delete", Pod("control"))>>)

ClusterProbe_KeepsService ==
    Script(<<Do("delete", Pod("probe")), Do("delete", Svc), Do("create", Pod("probe")),
             Do("create", Svc), Do("dial", Pod("probe"))>>,
           <<Do("delete", Pod("probe"))>>)

ClusterProbe ==
    Script(<<Do("delete", Pod("probe")), Do("delete", Svc), Do("create", Pod("probe")),
             Do("create", Svc), Do("dial", Pod("probe"))>>,
           <<Do("delete", Svc), Do("delete", Pod("probe"))>>)

DaemonProbe ==
    Script(<<Do("create", Bridge), Do("create", Pod("probe")), Do("dial", Pod("probe"))>>,
           <<Do("delete", Pod("probe")), Do("delete", Bridge)>>)

PolicyProbe ==
    Script(<<Do("delete", Policy("netpol")), Do("create", Policy("netpol")),
             Do("delete", Policy("netpol"))>>, <<>>)

ScriptOf(leg) ==
    CASE leg = "netpol" -> PolicyProbe
      [] leg = "deny" -> DenyScript
      [] leg = "control" -> ControlScript
      [] leg = "probe" -> IF tcKind = "docker" THEN DaemonProbe ELSE ClusterProbe
      [] OTHER -> Script(<<>>, <<>>)

NotBegun == [leg |-> 0, do |-> <<>>, fin |-> <<>>, legs |-> <<>>]
LegOf(r) == Legs[tcRun[r].leg]
UnderWay(r) == tcRun[r].leg \in DOMAIN Legs
Over(r) == tcRun[r].leg > Len(Legs)

TestConnectionInit ==
    /\ tcKind \in {"docker", "kubernetes"}
    /\ tcWorld \in {Sound} \cup {[Sound EXCEPT ![f] = FALSE] : f \in Facts}
                   \cup {[Sound EXCEPT !["egress"] = FALSE, !["enforces"] = FALSE]}
    /\ tcRun = [r \in Testers |-> NotBegun]
    /\ tcObjs = {}
    /\ tcExit = [n \in {"deny", "control"} |-> "running"]
    /\ tcFaults = 0
    /\ tcOverlap = FALSE

ProbeEnter(run, k) ==
    [run EXCEPT !.leg = k, !.do = IF k \in DOMAIN Legs THEN ScriptOf(Legs[k]).do ELSE <<>>,
                !.fin = IF k \in DOMAIN Legs THEN ScriptOf(Legs[k]).fin ELSE <<>>]

Begin(r) ==
    /\ tcRun[r] = NotBegun
    /\ tcRun' = [tcRun EXCEPT ![r] = ProbeEnter(@, 1)]
    /\ tcOverlap' = (tcOverlap \/ \E q \in Testers \ {r} : UnderWay(q))
    /\ UNCHANGED <<tcKind, tcWorld, tcObjs, tcExit, tcFaults>>

-----------------------------------------------------------------------------
(* The result of a leg, once its calls are made.  "deny" reports only when *)
(* the pod was not blocked; otherwise the control decides.                 *)
Report_NoControl(r, ok) ==
    LET run == tcRun[r]   leg == LegOf(r) IN
    IF leg = "deny" THEN [run EXCEPT !.legs = Append(@, <<"enforces", ok>>)]
    ELSE IF leg = "control" THEN run
    ELSE [run EXCEPT !.legs = Append(@, <<leg, ok>>)]

Report(r, ok) ==
    LET run == tcRun[r]   leg == LegOf(r) IN
    IF leg = "deny" THEN IF ok THEN run ELSE [run EXCEPT !.legs = Append(@, <<"enforces", FALSE>>)]
    ELSE [run EXCEPT !.legs = Append(@, <<IF leg = "control" THEN "enforces" ELSE leg, ok>>)]

After_RunsControl(r, ok) ==
    LET run == Report(r, ok) IN
    IF ~ ok /\ LegOf(r) \in Stops THEN ProbeEnter(run, Len(Legs) + 1) ELSE ProbeEnter(run, run.leg + 1)

(* After a leg: the next one; a pod that was not blocked needs no control. *)
After(r, ok) ==
    LET run == Report(r, ok)   k == run.leg IN
    IF ~ ok /\ LegOf(r) \in Stops THEN ProbeEnter(run, Len(Legs) + 1)
    ELSE IF ~ ok /\ LegOf(r) = "deny" THEN ProbeEnter(run, k + 2)
    ELSE ProbeEnter(run, k + 1)

Finally(r, ok) ==
    IF tcRun[r].fin = <<>> THEN After(r, ok)
    ELSE [tcRun[r] EXCEPT !.do = <<Do("clean", ok)>>]

(* Legs that only read. *)
Fact(leg) == IF leg = "pull" THEN "starts" ELSE leg

ReadLeg(r) ==
    /\ UnderWay(r) /\ ScriptOf(LegOf(r)).do = <<>>
    /\ tcRun' = [tcRun EXCEPT ![r] = After(r, tcWorld[Fact(LegOf(r))])]
    /\ UNCHANGED <<tcKind, tcWorld, tcObjs, tcExit, tcFaults, tcOverlap>>

ProbeCall(r) == Head(tcRun[r].do)
Calling(r, op) == tcRun[r].do # <<>> /\ ProbeCall(r).op = op
Done(r) == [tcRun[r] EXCEPT !.do = Tail(@)]

(* _delete_quietly: gone or not, the run goes on.  A bridge in use stays.  *)
ProbeDelete(r) ==
    LET o == ProbeCall(r).obj IN
    /\ Calling(r, "delete")
    /\ tcObjs' = IF o = Bridge /\ Pod("probe") \in tcObjs THEN tcObjs ELSE tcObjs \ {o}
    /\ tcRun' = [tcRun EXCEPT ![r] =
                   IF Tail(@.do) = <<>> THEN After(r, TRUE) ELSE Done(r)]
    /\ UNCHANGED <<tcKind, tcWorld, tcExit, tcFaults, tcOverlap>>

(* A name that is taken, or a policy the API does not know, is refused; an *)
(* existing bridge is taken over.                                          *)
Refused(o) == \/ o \in tcObjs /\ o # Bridge
              \/ o[1] = "policy" /\ ~ tcWorld["netpol"]

ProbeCreate(r) ==
    LET o == ProbeCall(r).obj IN
    /\ Calling(r, "create")
    /\ IF Refused(o)
       THEN /\ tcRun' = [tcRun EXCEPT ![r] =
                           IF tcKind = "docker" /\ o = Pod("probe")
                           THEN [Finally(r, FALSE) EXCEPT !.fin = Tail(@)]
                           ELSE Finally(r, FALSE)]
            /\ UNCHANGED <<tcObjs, tcExit>>
       ELSE /\ tcObjs' = tcObjs \cup {o}
            /\ tcExit' = [n \in DOMAIN tcExit |-> IF o = Pod(n) THEN "running" ELSE tcExit[n]]
            /\ tcRun' = [tcRun EXCEPT ![r] = Done(r)]
    /\ UNCHANGED <<tcKind, tcWorld, tcFaults, tcOverlap>>

(* An egress pod tries to reach out: its policy of the moment decides.     *)
PodRuns(n) ==
    /\ Pod(n) \in tcObjs /\ tcExit[n] = "running"
    /\ tcExit' = [tcExit EXCEPT ![n] =
                    IF tcWorld["egress"] /\ ~ (tcWorld["enforces"] /\ Policy(n) \in tcObjs)
                    THEN "reached" ELSE "blocked"]
    /\ UNCHANGED <<tcKind, tcWorld, tcRun, tcObjs, tcFaults, tcOverlap>>

Wanted(n) == IF n = "deny" THEN "blocked" ELSE "reached"

(* _await_pod reads the pod of that name, whoever created it. *)
ProbeAwait(r) ==
    LET n == ProbeCall(r).obj[2] IN
    /\ Calling(r, "await")
    /\ Pod(n) \in tcObjs /\ tcExit[n] # "running"
    /\ tcRun' = [tcRun EXCEPT ![r] = Finally(r, tcExit[n] = Wanted(n))]
    /\ UNCHANGED <<tcKind, tcWorld, tcObjs, tcExit, tcFaults, tcOverlap>>

(* ... or gives up: the pod never ran, or is gone. *)
AwaitTimesOut(r) ==
    /\ Calling(r, "await") \/ Calling(r, "dial")
    /\ IF ProbeCall(r).obj \in tcObjs
       THEN tcFaults < MaxProbeFaults /\ tcFaults' = tcFaults + 1
       ELSE UNCHANGED tcFaults
    /\ tcRun' = [tcRun EXCEPT ![r] = Finally(r, FALSE)]
    /\ UNCHANGED <<tcKind, tcWorld, tcObjs, tcExit, tcOverlap>>

ProbeDial(r) ==
    /\ Calling(r, "dial") /\ Pod("probe") \in tcObjs
    /\ tcRun' = [tcRun EXCEPT ![r] = Finally(r, tcWorld["starts"] /\ tcWorld["public"])]
    /\ UNCHANGED <<tcKind, tcWorld, tcObjs, tcExit, tcFaults, tcOverlap>>

Aborted(run) == [run EXCEPT !.leg = Len(Legs) + 1, !.do = <<>>, !.fin = <<>>,
                            !.legs = <<<<"reach", FALSE>>>>]

(* The finally block, after which the leg reports or the test is over.     *)
ProbeClean(r) ==
    LET o == Head(tcRun[r].fin).obj IN
    /\ Calling(r, "clean") \/ Calling(r, "raise")
    /\ tcObjs' = IF o = Bridge /\ Pod("probe") \in tcObjs THEN tcObjs ELSE tcObjs \ {o}
    /\ tcRun' = [tcRun EXCEPT ![r] =
                   IF Tail(@.fin) # <<>> THEN [@ EXCEPT !.fin = Tail(@)]
                   ELSE IF ProbeCall(r).op = "raise" THEN Aborted(@) ELSE After(r, ProbeCall(r).obj)]
    /\ UNCHANGED <<tcKind, tcWorld, tcExit, tcFaults, tcOverlap>>

(* Where a lost call leads: a policy or bridge fails its leg, a container  *)
(* ends the test, everything else does so through the finally block.       *)
Raised(r) ==
    LET o == IF ProbeCall(r).op = "create" THEN ProbeCall(r).obj ELSE <<"other", "other">> IN
    IF o \in {Policy("netpol"), Bridge} THEN After(r, FALSE)
    ELSE IF tcKind = "docker" /\ o = Pod("probe") THEN Aborted(tcRun[r])
    ELSE [tcRun[r] EXCEPT !.do = <<Do("raise", FALSE)>>]

(* A call is lost, with or without effect.  A deletion is passed over.     *)
CallLost(r) ==
    /\ tcRun[r].do # <<>> /\ tcFaults < MaxProbeFaults
    /\ tcFaults' = tcFaults + 1
    /\ \/ /\ Calling(r, "delete")
          /\ tcRun' = [tcRun EXCEPT ![r] = IF Tail(@.do) = <<>> THEN After(r, TRUE) ELSE Done(r)]
          /\ UNCHANGED tcObjs
       \/ /\ Calling(r, "create") \/ Calling(r, "dial")
          /\ \/ UNCHANGED tcObjs
             \/ Calling(r, "create") /\ tcObjs' = tcObjs \cup {ProbeCall(r).obj}
          /\ tcRun' = [tcRun EXCEPT ![r] = Raised(r)]
    /\ UNCHANGED <<tcKind, tcWorld, tcExit, tcOverlap>>

TestConnectionNext ==
    \/ \E r \in Testers :
          \/ Begin(r) \/ ReadLeg(r) \/ ProbeDelete(r) \/ ProbeCreate(r) \/ ProbeAwait(r)
          \/ AwaitTimesOut(r) \/ ProbeDial(r) \/ ProbeClean(r) \/ CallLost(r)
    \/ \E n \in DOMAIN tcExit : PodRuns(n)

TestConnectionSpec == TestConnectionInit /\ [][TestConnectionNext]_tcVars

-----------------------------------------------------------------------------
Results(r) == {tcRun[r].legs[i] : i \in DOMAIN tcRun[r].legs}

TestConnectionTypeOK ==
    /\ tcWorld \in [Facts -> BOOLEAN]
    /\ \A r \in Testers : /\ tcRun[r].leg \in 0 .. Len(Legs) + 1
                          /\ Results(r) \subseteq (Facts \cup {"pull", "probe"}) \X BOOLEAN
                          /\ Len(tcRun[r].legs) = Cardinality({x[1] : x \in Results(r)})
    /\ tcExit \in [{"deny", "control"} -> {"running", "blocked", "reached"}]

(* A test only certifies isolation that is there: "enforces" passes on no  *)
(* cluster whose CNI ignores policies, with or without a route out, and    *)
(* however tests disturb each other's probes.                              *)
PassIsEarned ==
    \A r \in Testers : \A f \in {"enforces", "netpol", "baseline", "posture"} :
        <<f, TRUE>> \in Results(r) => tcWorld[f]

(* A runtime with nothing wrong passes every leg, when one test runs at a  *)
(* time and no call is lost.                                               *)
SoundPasses ==
    tcWorld = Sound /\ tcFaults = 0 /\ ~ tcOverlap =>
        \A r \in Testers : \A x \in Results(r) : x[2]

(* Tests leave no probe behind, however they interfere, unless a call was  *)
(* lost.                                                                   *)
ProbesAreCleaned ==
    (\A r \in Testers : ~ UnderWay(r)) /\ tcFaults = 0 => tcObjs = {}
=============================================================================
