-------------------------- MODULE InstanceAdmission --------------------------
(***************************************************************************)
(* Admission of instance launches (utils/instance_service.launch): the     *)
(* concurrency caps, the spawn rate limit and the host ports, for launches *)
(* that arrive at the same time in one competition.                        *)
(*                                                                         *)
(* launch counts and allocates from committed rows, then inserts; what     *)
(* keeps two launches apart is a row lock on the settings singleton, held  *)
(* to the commit (_lock_admission).  A site that never configured          *)
(* instancing has no such row, and takes no lock; all it can launch is the *)
(* shared static service, which is given no port and is not throttled.     *)
(* With a row (Configured) the launches are of an orchestrated TCP         *)
(* deployment.                                                             *)
(***************************************************************************)
EXTENDS Naturals, FiniteSets

CONSTANTS Launches,     \* POST .../instance calls, each makes one row
          SubjectOf,    \* the team or user of each
          ChallengeOf,  \* its challenge
          Configured,   \* is there a settings row?
          SubjectCap,   \* deployment.per_subject_cap
          MaxAlive,     \* competition.instance_max_alive
          MaxConcurrent, \* settings.max_concurrent
          SpawnLimit,   \* settings.spawn_rate_limit, 0 = off
          PortMin, PortMax, \* the host port range
          PortCount,    \* container ports each one's deployment declares
          NoLaunch      \* nobody holds the lock

ASSUME AdmissionAssumption ==
    /\ IsFiniteSet(Launches)
    /\ NoLaunch \notin Launches
    /\ Configured \in BOOLEAN
    /\ SubjectCap \in Nat \ {0} /\ MaxAlive \in Nat \ {0}
    /\ MaxConcurrent \in Nat \ {0} /\ SpawnLimit \in Nat
    /\ PortMin \in Nat /\ PortMax \in Nat
    /\ PortCount \in [Launches -> Nat]

VARIABLES call,   \* each launch: its step and the ports it has chosen
          inst,   \* its row: status, ports, launched in the rate window?
          holder  \* who holds the lock on the settings row

vars == <<call, inst, holder>>

Ports == PortMin..PortMax

Call == [pc : {"new", "check", "insert", "done"}, ports : SUBSET Ports]

Row == [status : {"none", "active", "over"}, ports : SUBSET Ports,
        recent : BOOLEAN]

Init ==
    /\ call = [l \in Launches |-> [pc |-> "new", ports |-> {}]]
    /\ inst = [l \in Launches |-> [status |-> "none", ports |-> {},
                                   recent |-> FALSE]]
    /\ holder = NoLaunch

Active == {l \in Launches : inst[l].status = "active"}

(* _count_active, by subject and challenge, by subject, or for all.        *)
OnChallenge(l) == {k \in Active : /\ SubjectOf[k] = SubjectOf[l]
                                  /\ ChallengeOf[k] = ChallengeOf[l]}

OfSubject(l) == {k \in Active : SubjectOf[k] = SubjectOf[l]}

(* _count_recent_launches: any status.                                     *)
Recent(l) == {k \in Launches : inst[k].recent /\ SubjectOf[k] = SubjectOf[l]}

(* Mutant: the ports of rows being torn down or not yet up are free. *)
UsedPorts_None == {}

UsedPorts == UNION {inst[l].ports : l \in Active}

(* Mutant: the range is taken to end one later. *)
FreePorts_PastEnd == (PortMin..(PortMax + 1)) \ UsedPorts

FreePorts == Ports \ UsedPorts

(* _allocate_host_ports: the lowest free ones.                             *)
LowestFree(l) ==
    {p \in FreePorts : Cardinality({q \in FreePorts : q < p}) < PortCount[l]}

(* Mutant: nobody waits for the lock. *)
Enter_NoLock(l) ==
    /\ call[l].pc = "new"
    /\ call' = [call EXCEPT ![l].pc = "check"]
    /\ UNCHANGED <<inst, holder>>

(* _lock_admission *)
Enter(l) ==
    /\ call[l].pc = "new"
    /\ call' = [call EXCEPT ![l].pc = "check"]
    /\ IF Configured
       THEN holder = NoLaunch /\ holder' = l
       ELSE UNCHANGED holder
    /\ UNCHANGED inst

Released(l) == IF holder = l THEN NoLaunch ELSE holder

UnderCaps(l) ==
    /\ Cardinality(OnChallenge(l)) < SubjectCap
    /\ Cardinality(OfSubject(l)) < MaxAlive
    /\ Cardinality(Active) < MaxConcurrent

(* Mutant: one launch too many. *)
Throttled_OffByOne(l) ==
    Configured /\ SpawnLimit > 0 /\ Cardinality(Recent(l)) > SpawnLimit

Throttled(l) ==
    Configured /\ SpawnLimit > 0 /\ Cardinality(Recent(l)) >= SpawnLimit

(* The checks, and the ports: a refusal ends the transaction and so the    *)
(* lock.  Without settings only shared-static runs, which needs no port.   *)
Check(l) ==
    /\ call[l].pc = "check"
    /\ \/ /\ UnderCaps(l) /\ ~Throttled(l)
          /\ Configured => Cardinality(FreePorts) >= PortCount[l]
          /\ call' = [call EXCEPT
                ![l] = [pc |-> "insert",
                        ports |-> IF Configured THEN LowestFree(l) ELSE {}]]
          /\ UNCHANGED holder
       \/ /\ \/ ~UnderCaps(l) \/ Throttled(l)
             \/ Configured /\ Cardinality(FreePorts) < PortCount[l]
          /\ call' = [call EXCEPT ![l].pc = "done"]
          /\ holder' = Released(l)
    /\ UNCHANGED inst

(* The row is inserted and committed.                                      *)
Insert(l) ==
    /\ call[l].pc = "insert"
    /\ inst' = [inst EXCEPT ![l] = [status |-> "active",
                                    ports |-> call[l].ports,
                                    recent |-> TRUE]]
    /\ call' = [call EXCEPT ![l].pc = "done"]
    /\ holder' = Released(l)

(* The instance is destroyed or fails, at any time; its ports are free.    *)
Ends(l) ==
    /\ inst[l].status = "active"
    /\ inst' = [inst EXCEPT ![l].status = "over"]
    /\ UNCHANGED <<call, holder>>

(* The rate window moves past a launch.                                    *)
WindowPasses(l) ==
    /\ inst[l].recent
    /\ inst' = [inst EXCEPT ![l].recent = FALSE]
    /\ UNCHANGED <<call, holder>>

Next ==
    \E l \in Launches : \/ Enter(l) \/ Check(l) \/ Insert(l)
                        \/ Ends(l) \/ WindowPasses(l)

Spec == Init /\ [][Next]_vars

(* Every variable has its type. *)
TypeOK ==
    /\ call \in [Launches -> Call]
    /\ inst \in [Launches -> Row]
    /\ holder \in Launches \cup {NoLaunch}

(* No burst of launches gets past a cap: per subject and challenge, per    *)
(* subject, and for the platform.                                          *)
CapsHold ==
    /\ Cardinality(Active) <= MaxConcurrent
    /\ \A l \in Active : /\ Cardinality(OnChallenge(l)) <= SubjectCap
                         /\ Cardinality(OfSubject(l)) <= MaxAlive

(* No two live instances are given the same host port.                     *)
PortsDisjoint ==
    \A k, l \in Active : k # l => inst[k].ports \cap inst[l].ports = {}

(* A subject never has more launches in the rate window than the limit.    *)
SpawnRate ==
    Configured /\ SpawnLimit > 0 =>
        \A l \in Launches : Cardinality(Recent(l)) <= SpawnLimit
=============================================================================
