--------------------------- MODULE InstanceProofs ---------------------------
(***************************************************************************)
(* Instances: what the admission lock guarantees, for any number of        *)
(* launches and any caps, and that a running row has its container, for    *)
(* any number of instances, teardowns, faults and crashes.                 *)
(***************************************************************************)
EXTENDS InstanceAdmission, InstanceLifecycle, FiniteSetTheorems, TLAPS

(***************************************************************************)
(* Admission.  The argument: between its checks and its commit a launch    *)
(* holds the lock (Exclusive), so what it checked still holds when it      *)
(* inserts (CheckedCaps, CheckedPorts, CheckedRate); the only other steps  *)
(* that touch a row end an instance or age a launch, which only makes room.*)
(***************************************************************************)

(* A launch whose checks were made and whose row is not there yet.         *)
Pending(l) == call[l].pc \in {"check", "insert"}

(* With settings, the launch between its checks and its commit holds the   *)
(* lock.                                                                   *)
Exclusive == Configured => \A l \in Launches : Pending(l) => holder = l

(* A launch that has not committed has no row.                             *)
RowsAreCommitted ==
    \A l \in Launches : call[l].pc # "done" =>
        inst[l].status = "none" /\ ~inst[l].recent

(* The ports in hand are still free.                                       *)
CheckedPorts ==
    \A l \in Launches : call[l].pc = "insert" =>
        \A k \in Active : call[l].ports \cap inst[k].ports = {}

(* Without settings nobody has a port.                                     *)
NoPorts ==
    ~Configured => \A l \in Launches : call[l].ports = {} /\ inst[l].ports = {}

PortInv ==
    TypeOK /\ Exclusive /\ RowsAreCommitted /\ CheckedPorts /\ NoPorts
        /\ PortsDisjoint

(* The lowest free ports are free ports of the range.                      *)
LEMMA LowestAreFree ==
    \A l \in Launches :
        /\ LowestFree(l) \subseteq Ports
        /\ \A k \in Active : LowestFree(l) \cap inst[k].ports = {}
BY DEF LowestFree, FreePorts, UsedPorts

(* Every variable keeps its type. *)
LEMMA TypeStep == TypeOK /\ [Next]_vars => TypeOK'
<1> SUFFICES ASSUME TypeOK, [Next]_vars PROVE TypeOK'
  OBVIOUS
<1> USE DEF TypeOK, Call, Row, Released
<1>1. ASSUME NEW l \in Launches, Enter(l) PROVE TypeOK'
  BY <1>1 DEF Enter
<1>2. ASSUME NEW l \in Launches, Check(l) PROVE TypeOK'
  <2>1. LowestFree(l) \in SUBSET Ports
    BY LowestAreFree
  <2>2. [pc |-> "insert", ports |-> IF Configured THEN LowestFree(l) ELSE {}]
            \in Call
    BY <2>1
  <2>3. [call[l] EXCEPT !.pc = "done"] \in Call
    OBVIOUS
  <2> QED
    BY <1>2, <2>2, <2>3, SMTT(40) DEF Check
<1>3. ASSUME NEW l \in Launches, Insert(l) PROVE TypeOK'
  BY <1>3 DEF Insert
<1>4. ASSUME NEW l \in Launches, Ends(l) PROVE TypeOK'
  <2>1. inst' \in [Launches -> Row]
    BY <1>4 DEF Ends
  <2> QED
    BY <1>4, <2>1 DEF Ends
<1>5. ASSUME NEW l \in Launches, WindowPasses(l) PROVE TypeOK'
  <2>1. inst' \in [Launches -> Row]
    BY <1>5 DEF WindowPasses
  <2> QED
    BY <1>5, <2>1 DEF WindowPasses
<1>6. CASE UNCHANGED vars
  BY <1>6 DEF vars
<1> QED
  BY <1>1, <1>2, <1>3, <1>4, <1>5, <1>6 DEF Next

(* The port invariant is inductive.                                        *)
LEMMA PortStep == PortInv /\ [Next]_vars => PortInv'
<1> SUFFICES ASSUME PortInv, [Next]_vars PROVE PortInv'
  OBVIOUS
<1>t. TypeOK /\ TypeOK'
  BY TypeStep DEF PortInv
<1> DEFINE Rest == Exclusive /\ RowsAreCommitted /\ CheckedPorts /\ NoPorts
                     /\ PortsDisjoint
<1>1. ASSUME NEW l \in Launches, Enter(l) PROVE Rest'
  <2>1. Exclusive'
    BY <1>1, <1>t, AdmissionAssumption
    DEF Enter, PortInv, Exclusive, Pending, TypeOK, Call
  <2>2. Active' = Active /\ inst' = inst
    BY <1>1 DEF Enter, Active
  <2> QED
    BY <1>1, <1>t, <2>1, <2>2
    DEF Enter, PortInv, RowsAreCommitted, CheckedPorts, NoPorts, PortsDisjoint,
        TypeOK, Call
<1>2. ASSUME NEW l \in Launches, Check(l) PROVE Rest'
  <2>1. Active' = Active /\ inst' = inst
    BY <1>2 DEF Check, Active
  <2>2. Exclusive'
    BY <1>2, <1>t, AdmissionAssumption
    DEF Check, PortInv, Exclusive, Pending, TypeOK, Call, Released
  <2>3. CheckedPorts'
    BY <1>2, <1>t, <2>1, LowestAreFree DEF Check, PortInv, CheckedPorts, TypeOK, Call
  <2>4. NoPorts'
    BY <1>2, <1>t, <2>1 DEF Check, PortInv, NoPorts, TypeOK, Call
  <2> QED
    BY <1>2, <1>t, <2>1, <2>2, <2>3, <2>4
    DEF Check, PortInv, RowsAreCommitted, PortsDisjoint, TypeOK, Call
<1>3. ASSUME NEW l \in Launches, Insert(l) PROVE Rest'
  <2>1. Active' = Active \cup {l}
    BY <1>3, <1>t DEF Insert, Active, TypeOK, Row
  <2>2. Exclusive'
    BY <1>3, <1>t, AdmissionAssumption
    DEF Insert, PortInv, Exclusive, Pending, TypeOK, Call, Released
  <2>3. RowsAreCommitted'
    BY <1>3, <1>t DEF Insert, PortInv, RowsAreCommitted, TypeOK, Call, Row
  <2>4. NoPorts'
    BY <1>3, <1>t DEF Insert, PortInv, NoPorts, TypeOK, Call, Row
  <2>5. PortsDisjoint'
    <3>1. SUFFICES ASSUME NEW j \in Active', NEW k \in Active', j # k
                   PROVE  inst'[j].ports \cap inst'[k].ports = {}
      BY DEF PortsDisjoint
    <3>2. \A q \in Active : q # l => inst'[q] = inst[q]
      BY <1>3, <1>t DEF Insert, TypeOK, Active
    <3>3. inst'[l].ports = call[l].ports
      BY <1>3, <1>t DEF Insert, TypeOK
    <3>4. \A q \in Active : call[l].ports \cap inst[q].ports = {}
      BY <1>3 DEF Insert, PortInv, CheckedPorts
    <3>5. CASE j = l
      BY <2>1, <3>1, <3>2, <3>3, <3>4, <3>5
    <3>6. CASE k = l
      BY <2>1, <3>1, <3>2, <3>3, <3>4, <3>6
    <3>7. CASE j # l /\ k # l
      BY <2>1, <3>1, <3>2, <3>7 DEF PortInv, PortsDisjoint
    <3> QED
      BY <3>5, <3>6, <3>7
  <2>6. CheckedPorts'
    <3>1. SUFFICES ASSUME NEW j \in Launches, call'[j].pc = "insert",
                          NEW k \in Active'
                   PROVE  call'[j].ports \cap inst'[k].ports = {}
      BY DEF CheckedPorts
    <3>2. j # l /\ call[j] = call'[j] /\ call[j].pc = "insert"
      BY <1>3, <1>t, <3>1 DEF Insert, TypeOK, Call
    <3>3. CASE Configured
      BY <1>3, <3>2, <3>3 DEF Insert, PortInv, Exclusive, Pending
    <3>4. CASE ~Configured
      BY <1>t, <3>2, <3>4 DEF PortInv, NoPorts
    <3> QED
      BY <3>3, <3>4, AdmissionAssumption
  <2> QED
    BY <2>2, <2>3, <2>4, <2>5, <2>6
<1>4. ASSUME NEW l \in Launches, Ends(l) \/ WindowPasses(l) PROVE Rest'
  <2>1. Active' \subseteq Active /\ call' = call /\ holder' = holder
    BY <1>4, <1>t DEF Ends, WindowPasses, Active, TypeOK, Row
  <2>2. \A k \in Launches : inst'[k].ports = inst[k].ports
    BY <1>4, <1>t DEF Ends, WindowPasses, TypeOK, Row
  <2>3. RowsAreCommitted'
    BY <1>4, <1>t, <2>1
    DEF Ends, WindowPasses, PortInv, RowsAreCommitted, TypeOK, Row
  <2>4. Active \subseteq Launches
    BY DEF Active
  <2> QED
    BY <2>1, <2>2, <2>3, <2>4
    DEF PortInv, Exclusive, Pending, CheckedPorts, NoPorts, PortsDisjoint
<1>5. ASSUME UNCHANGED vars PROVE Rest'
  <2>1. Active' = Active /\ call' = call /\ inst' = inst /\ holder' = holder
    BY <1>5 DEF vars, Active
  <2> QED
    BY <2>1 DEF PortInv, Exclusive, Pending, RowsAreCommitted, CheckedPorts,
                NoPorts, PortsDisjoint
<1> QED
  BY <1>t, <1>1, <1>2, <1>3, <1>4, <1>5 DEF Next, PortInv

(* The invariant holds at the start.                                       *)
LEMMA PortInit == Init => PortInv
<1> SUFFICES ASSUME Init PROVE PortInv
  OBVIOUS
<1>1. TypeOK
  BY DEF Init, TypeOK, Call, Row
<1>2. Active = {}
  BY DEF Init, Active
<1> QED
  BY <1>1, <1>2 DEF Init, PortInv, Exclusive, Pending, RowsAreCommitted,
                    CheckedPorts, NoPorts, PortsDisjoint

(* The port invariant holds in every reachable state.                      *)
LEMMA PortInvariant == Spec => []PortInv
BY PortInit, PortStep, PTL DEF Spec

(* Every variable keeps its type, for any number of launches (the admission *)
(* steps of launch).                                                       *)
THEOREM AdmissionTypes == Spec => []TypeOK
<1>1. PortInv => TypeOK
  BY DEF PortInv
<1> QED
  BY <1>1, PortInvariant, PTL

(* No two live instances are ever given the same host port                 *)
(* (_allocate_host_ports under _lock_admission).                           *)
THEOREM PortsNeverShared == Spec => []PortsDisjoint
<1>1. PortInv => PortsDisjoint
  BY DEF PortInv
<1> QED
  BY <1>1, PortInvariant, PTL

(***************************************************************************)
(* The caps and the rate.                                                  *)
(***************************************************************************)

(* The launch that is about to insert is still under every cap ...         *)
CheckedCaps ==
    \A l \in Launches : call[l].pc = "insert" => UnderCaps(l)

(* ... and under the rate.                                                 *)
CheckedRate ==
    \A l \in Launches : call[l].pc = "insert" => ~Throttled(l)

CapInv == Exclusive /\ RowsAreCommitted /\ CheckedCaps /\ CheckedRate
            /\ CapsHold /\ SpawnRate

(* A set that gains at most one element.                                   *)
LEMMA GainsOne ==
    ASSUME NEW S, IsFiniteSet(S), NEW x, NEW T, T \subseteq S \cup {x},
           NEW n \in Nat, Cardinality(S) < n
    PROVE  Cardinality(T) <= n
<1>0. Cardinality(S) \in Nat
  BY FS_CardinalityType
<1>a. /\ IsFiniteSet(S \cup {x})
      /\ Cardinality(S \cup {x}) = IF x \in S THEN Cardinality(S)
                                    ELSE Cardinality(S) + 1
  BY FS_AddElement, Zenon
<1>1. IsFiniteSet(S \cup {x}) /\ Cardinality(S \cup {x}) <= Cardinality(S) + 1
  BY <1>0, <1>a
<1>2. IsFiniteSet(T) /\ Cardinality(T) <= Cardinality(S \cup {x})
  BY <1>1, FS_Subset
<1>3. /\ Cardinality(S) \in Nat /\ Cardinality(T) \in Nat
      /\ Cardinality(S \cup {x}) \in Nat
  BY <1>1, <1>2, FS_CardinalityType
<1> QED
  BY <1>1, <1>2, <1>3

(* A set that gains nothing.                                               *)
LEMMA Shrinks ==
    ASSUME NEW S, IsFiniteSet(S), NEW T, T \subseteq S, NEW n \in Nat
    PROVE  /\ Cardinality(S) < n => Cardinality(T) < n
           /\ Cardinality(S) <= n => Cardinality(T) <= n
<1>1. IsFiniteSet(T) /\ Cardinality(T) <= Cardinality(S)
  BY FS_Subset
<1>2. Cardinality(S) \in Nat /\ Cardinality(T) \in Nat
  BY <1>1, FS_CardinalityType
<1> QED
  BY <1>1, <1>2

(* The counted sets are finite.                                            *)
LEMMA Finite ==
    /\ IsFiniteSet(Active)
    /\ \A l : IsFiniteSet(OnChallenge(l)) /\ IsFiniteSet(OfSubject(l))
              /\ IsFiniteSet(Recent(l))
<1>1. \A S : S \subseteq Launches => IsFiniteSet(S)
  BY FS_Subset, AdmissionAssumption
<1>2. Active \subseteq Launches
  BY DEF Active
<1>3. \A l : /\ OnChallenge(l) \subseteq Launches
            /\ OfSubject(l) \subseteq Launches /\ Recent(l) \subseteq Launches
  BY <1>2 DEF OnChallenge, OfSubject, Recent
<1> QED
  BY <1>1, <1>2, <1>3

(* A step that starts no instance and no launch keeps every bound.         *)
LEMMA MakesRoom ==
    ASSUME CapsHold, SpawnRate, Active' \subseteq Active,
           \A l \in Launches : Recent(l)' \subseteq Recent(l)
    PROVE  /\ CapsHold' /\ SpawnRate'
           /\ \A l \in Launches : UnderCaps(l) => UnderCaps(l)'
           /\ \A l \in Launches : ~Throttled(l) => ~Throttled(l)'
<1>1. \A l \in Launches : /\ OnChallenge(l)' \subseteq OnChallenge(l)
                          /\ OfSubject(l)' \subseteq OfSubject(l)
  BY DEF OnChallenge, OfSubject
<1>2. Active \subseteq Launches
  BY DEF Active
<1>3. ASSUME NEW n \in Nat
      PROVE  /\ Cardinality(Active) <= n => Cardinality(Active') <= n
             /\ Cardinality(Active) < n => Cardinality(Active') < n
  BY Finite, Shrinks
<1>4. ASSUME NEW n \in Nat, NEW l \in Launches
      PROVE  /\ Cardinality(OnChallenge(l)) <= n
                    => Cardinality(OnChallenge(l)') <= n
             /\ Cardinality(OnChallenge(l)) < n
                    => Cardinality(OnChallenge(l)') < n
             /\ Cardinality(OfSubject(l)) <= n
                    => Cardinality(OfSubject(l)') <= n
             /\ Cardinality(OfSubject(l)) < n
                    => Cardinality(OfSubject(l)') < n
             /\ Cardinality(Recent(l)) <= n => Cardinality(Recent(l)') <= n
             /\ Cardinality(Recent(l)) < n => Cardinality(Recent(l)') < n
  BY <1>1, Finite, Shrinks
<1>5. CapsHold'
  BY <1>2, <1>3, <1>4, AdmissionAssumption DEF CapsHold
<1>6. SpawnRate'
  BY <1>4, AdmissionAssumption DEF SpawnRate
<1>7. ASSUME NEW l \in Launches, UnderCaps(l) PROVE UnderCaps(l)'
  BY <1>3, <1>4, <1>7, AdmissionAssumption DEF UnderCaps
<1>8. ASSUME NEW l \in Launches, ~Throttled(l) PROVE ~Throttled(l)'
  <2>1. CASE Configured /\ SpawnLimit > 0
    <3>1. Cardinality(Recent(l)) \in Nat
      BY Finite, FS_CardinalityType
    <3>2. Cardinality(Recent(l)) < SpawnLimit
      BY <1>8, <2>1, <3>1, AdmissionAssumption DEF Throttled
    <3>3. Cardinality(Recent(l)') < SpawnLimit
      BY <1>4, <3>2, AdmissionAssumption
    <3>4. Cardinality(Recent(l)') \in Nat
      BY Finite, Shrinks, FS_Subset, FS_CardinalityType
    <3> QED
      BY <3>3, <3>4, AdmissionAssumption DEF Throttled
  <2>2. CASE ~(Configured /\ SpawnLimit > 0)
    BY <2>2 DEF Throttled
  <2> QED
    BY <2>1, <2>2
<1> QED
  BY <1>5, <1>6, <1>7, <1>8

(* The row of a launch that checked in time breaks no bound.               *)
LEMMA InsertKeepsBounds ==
    ASSUME TypeOK, CapsHold, SpawnRate, Configured,
           NEW l \in Launches, Insert(l), UnderCaps(l), ~Throttled(l)
    PROVE  CapsHold' /\ SpawnRate'
<1>1. /\ Active' = Active \cup {l}
      /\ \A k \in Launches : k # l => inst'[k] = inst[k]
  BY DEF Insert, Active, TypeOK, Row
<1>2. Active \subseteq Launches
  BY DEF Active
<1>3. Cardinality(Active') <= MaxConcurrent
  BY <1>1, Finite, GainsOne, AdmissionAssumption DEF UnderCaps
<1>4. ASSUME NEW k \in Active'
      PROVE  Cardinality(OnChallenge(k)') <= SubjectCap
  <2>1. CASE SubjectOf[k] = SubjectOf[l] /\ ChallengeOf[k] = ChallengeOf[l]
    <3>1. OnChallenge(k)' \subseteq OnChallenge(l) \cup {l}
      BY <1>1, <2>1 DEF OnChallenge
    <3> QED
      BY <3>1, Finite, GainsOne, AdmissionAssumption DEF UnderCaps
  <2>2. CASE ~(SubjectOf[k] = SubjectOf[l] /\ ChallengeOf[k] = ChallengeOf[l])
    <3>1. k \in Active /\ OnChallenge(k)' \subseteq OnChallenge(k)
      BY <1>1, <2>2 DEF OnChallenge
    <3>2. Cardinality(OnChallenge(k)) <= SubjectCap
      BY <3>1 DEF CapsHold
    <3> QED
      BY <3>1, <3>2, Finite, Shrinks, AdmissionAssumption
  <2> QED
    BY <2>1, <2>2
<1>5. ASSUME NEW k \in Active'
      PROVE  Cardinality(OfSubject(k)') <= MaxAlive
  <2>1. CASE SubjectOf[k] = SubjectOf[l]
    <3>1. OfSubject(k)' \subseteq OfSubject(l) \cup {l}
      BY <1>1, <2>1 DEF OfSubject
    <3> QED
      BY <3>1, Finite, GainsOne, AdmissionAssumption DEF UnderCaps
  <2>2. CASE SubjectOf[k] # SubjectOf[l]
    <3>1. k \in Active /\ OfSubject(k)' \subseteq OfSubject(k)
      BY <1>1, <2>2 DEF OfSubject
    <3>2. Cardinality(OfSubject(k)) <= MaxAlive
      BY <3>1 DEF CapsHold
    <3> QED
      BY <3>1, <3>2, Finite, Shrinks, AdmissionAssumption
  <2> QED
    BY <2>1, <2>2
<1>6. ASSUME SpawnLimit > 0, NEW k \in Launches
      PROVE  Cardinality(Recent(k)') <= SpawnLimit
  <2>1. CASE SubjectOf[k] = SubjectOf[l]
    <3>1. Recent(k)' \subseteq Recent(l) \cup {l}
      BY <1>1, <2>1 DEF Recent
    <3>2. Cardinality(Recent(l)) \in Nat
      BY Finite, FS_CardinalityType
    <3>3. Cardinality(Recent(l)) < SpawnLimit
      BY <1>6, <3>2, AdmissionAssumption DEF Throttled
    <3> QED
      BY <3>1, <3>3, Finite, GainsOne, AdmissionAssumption
  <2>2. CASE SubjectOf[k] # SubjectOf[l]
    <3>1. Recent(k)' \subseteq Recent(k)
      BY <1>1, <2>2 DEF Recent
    <3>2. Cardinality(Recent(k)) <= SpawnLimit
      BY <1>6 DEF SpawnRate
    <3> QED
      BY <3>1, <3>2, Finite, Shrinks, AdmissionAssumption
  <2> QED
    BY <2>1, <2>2
<1> QED
  BY <1>3, <1>4, <1>5, <1>6 DEF CapsHold, SpawnRate

(* The cap invariant is inductive while the lock exists.                   *)
LEMMA CapStep ==
    Configured /\ TypeOK /\ CapInv /\ [Next]_vars => CapInv'
<1> SUFFICES ASSUME Configured, TypeOK, CapInv, [Next]_vars PROVE CapInv'
  OBVIOUS
<1> DEFINE Rest == CheckedCaps /\ CheckedRate /\ CapsHold /\ SpawnRate
<1>0. Exclusive' /\ RowsAreCommitted'
  <2>1. ASSUME NEW l \in Launches, Enter(l) PROVE Exclusive' /\ RowsAreCommitted'
    BY <2>1, AdmissionAssumption
    DEF Enter, CapInv, Exclusive, Pending, RowsAreCommitted, TypeOK, Call
  <2>2. ASSUME NEW l \in Launches, Check(l) PROVE Exclusive' /\ RowsAreCommitted'
    BY <2>2, AdmissionAssumption
    DEF Check, CapInv, Exclusive, Pending, RowsAreCommitted, TypeOK, Call, Released
  <2>3. ASSUME NEW l \in Launches, Insert(l) PROVE Exclusive' /\ RowsAreCommitted'
    BY <2>3, AdmissionAssumption
    DEF Insert, CapInv, Exclusive, Pending, RowsAreCommitted, TypeOK, Call, Row,
        Released
  <2>4. ASSUME NEW l \in Launches, Ends(l) \/ WindowPasses(l)
        PROVE  Exclusive' /\ RowsAreCommitted'
    BY <2>4
    DEF Ends, WindowPasses, CapInv, Exclusive, Pending, RowsAreCommitted, TypeOK,
        Row
  <2>5. CASE UNCHANGED vars
    BY <2>5 DEF vars, CapInv, Exclusive, Pending, RowsAreCommitted
  <2> QED
    BY <2>1, <2>2, <2>3, <2>4, <2>5 DEF Next
<1>1. ASSUME NEW l \in Launches, Enter(l) \/ Check(l) PROVE Rest'
  <2>1. inst' = inst
    BY <1>1 DEF Enter, Check
  <2>2. /\ Active' = Active
        /\ \A k \in Launches : Recent(k)' = Recent(k)
    BY <2>1 DEF Active, Recent
  <2>3. /\ CapsHold' /\ SpawnRate'
        /\ \A k \in Launches : UnderCaps(k) => UnderCaps(k)'
        /\ \A k \in Launches : ~Throttled(k) => ~Throttled(k)'
    BY <2>2, MakesRoom DEF CapInv
  <2>4. ASSUME NEW k \in Launches, call'[k].pc = "insert"
        PROVE  UnderCaps(k) /\ ~Throttled(k)
    <3>1. CASE call[k].pc = "insert"
      BY <3>1 DEF CapInv, CheckedCaps, CheckedRate
    <3>2. CASE call[k].pc # "insert"
      BY <1>1, <2>4, <3>2 DEF Enter, Check, TypeOK, Call
    <3> QED
      BY <3>1, <3>2
  <2> QED
    BY <2>3, <2>4 DEF CheckedCaps, CheckedRate
<1>2. ASSUME NEW l \in Launches, Insert(l) PROVE Rest'
  <2>1. UnderCaps(l) /\ ~Throttled(l)
    BY <1>2 DEF Insert, CapInv, CheckedCaps, CheckedRate
  <2>2. CapsHold' /\ SpawnRate'
    BY <1>2, <2>1, InsertKeepsBounds DEF CapInv
  <2>3. \A k \in Launches : call'[k].pc # "insert"
    BY <1>2, AdmissionAssumption
    DEF Insert, CapInv, Exclusive, Pending, TypeOK, Call
  <2> QED
    BY <2>2, <2>3 DEF CheckedCaps, CheckedRate
<1>3. ASSUME NEW l \in Launches, Ends(l) \/ WindowPasses(l) PROVE Rest'
  <2>1. Active' \subseteq Active /\ call' = call
    BY <1>3 DEF Ends, WindowPasses, Active, TypeOK, Row
  <2>2. \A k \in Launches : Recent(k)' \subseteq Recent(k)
    BY <1>3 DEF Ends, WindowPasses, Recent, TypeOK, Row
  <2> QED
    BY <2>1, <2>2, MakesRoom DEF CapInv, CheckedCaps, CheckedRate
<1>4. ASSUME UNCHANGED vars PROVE Rest'
  <2>1. /\ Active' = Active /\ call' = call
        /\ \A k \in Launches : Recent(k)' = Recent(k)
    BY <1>4 DEF vars, Active, Recent
  <2> QED
    BY <2>1, MakesRoom DEF CapInv, CheckedCaps, CheckedRate
<1> QED
  BY <1>0, <1>1, <1>2, <1>3, <1>4 DEF Next, CapInv

(* It holds at the start.                                                  *)
LEMMA CapInit == Init => CapInv
<1> SUFFICES ASSUME Init PROVE CapInv
  OBVIOUS
<1>1. Active = {} /\ \A l \in Launches : Recent(l) = {}
  BY DEF Init, Active, Recent
<1>2. CapsHold /\ SpawnRate
  BY <1>1, FS_EmptySet, AdmissionAssumption DEF CapsHold, SpawnRate
<1> QED
  BY <1>2 DEF Init, CapInv, Exclusive, Pending, RowsAreCommitted, CheckedCaps,
              CheckedRate

(* The caps and the rate hold in every reachable state, with settings.     *)
LEMMA CapInvariant == Configured => (Spec => []CapInv)
<1> SUFFICES ASSUME Configured PROVE Spec => []CapInv
  OBVIOUS
<1>1. TypeOK /\ CapInv /\ [Next]_vars => CapInv'
  BY CapStep
<1> QED
  BY <1>1, CapInit, AdmissionTypes, PTL DEF Spec

(* No burst of launches passes a cap, where instancing is configured       *)
(* (launch's counts under _lock_admission).                                *)
THEOREM CapsAlwaysHold == Configured => (Spec => []CapsHold)
<1>1. CapInv => CapsHold
  BY DEF CapInv
<1> QED
  BY <1>1, CapInvariant, PTL

(* No subject launches faster than the spawn rate (_count_recent_launches  *)
(* under _lock_admission).                                                 *)
THEOREM RateAlwaysHolds == Spec => []SpawnRate
<1>1. CapInv => SpawnRate
  BY DEF CapInv
<1>2. ~Configured => SpawnRate
  BY DEF SpawnRate
<1>3. CASE Configured
  BY <1>1, <1>3, CapInvariant, PTL
<1>4. CASE ~Configured
  <2>1. SpawnRate
    BY <1>2, <1>4
  <2> QED
    BY <2>1, PTL
<1> QED
  BY <1>3, <1>4, AdmissionAssumption

-----------------------------------------------------------------------------
(***************************************************************************)
(* The life of a row.  The argument: the only write that says "running" is *)
(* provision()'s last, so whatever takes a container away must come before *)
(* it or after it.  A teardown destroys a handle it read from the row,     *)
(* which that last write recorded, and by then it has said "expiring"      *)
(* (TeardownKnows).  The orphan sweep knows no handle; but a container it  *)
(* lists twice while its instance may still rise has been counted twice    *)
(* (SeenCounts, ReapCounts).                                               *)
(***************************************************************************)

(* The instance runs or may yet run.                                       *)
CanRise(i) ==
    \/ row[i].status = "running"
    \/ prov[i].pc \in {"none", "due", "claim", "creating", "starting", "created", "final"}

(* An extension that passed its check may still be written.                *)
Extendable == \A i \in ext : row[i].extends < MaxExtends

(* Before the launch there is neither a task nor a handle.                 *)
Unlaunched == \A i \in Instances :
    row[i].status = "none" => prov[i].pc = "none" /\ ~row[i].handle

(* A recorded handle, and a running row, are provision()'s last word.      *)
ProvisionIsOver == \A i \in Instances :
    row[i].handle \/ row[i].status = "running" => prov[i].pc = "done"

(* No container before the backend was asked for one.                      *)
NotYetMade == \A i \in Instances :
    container[i] => prov[i].pc \notin {"none", "due", "claim", "creating"}

(* What create() returned is there until its row says so.                  *)
StillThere == \A i \in Instances :
    prov[i].pc \in {"created", "final"} /\ window[i] < 2 => container[i]

(* A teardown with a handle read it from the row, and destroys only what   *)
(* no longer counts as running.                                            *)
TeardownKnows == \A t \in Killers \cup {Reaper} : td[t].handle =>
    /\ row[td[t].inst].handle
    /\ td[t].pc = "destroy" => row[td[t].inst].status # "running"

(* A container seen once while it may rise was counted once, ...           *)
SeenCounts == \A i \in reaper.seen : CanRise(i) => window[i] >= 1

(* ... and one the sweep is about to remove, twice.                        *)
ReapCounts ==
    reaper.pc = "reap" => \A i \in reaper.todo : CanRise(i) => window[i] >= 2

LifeInv ==
    /\ LifeTypeOK /\ Extendable /\ Unlaunched /\ ProvisionIsOver /\ NotYetMade
    /\ StillThere /\ TeardownKnows /\ SeenCounts /\ ReapCounts /\ RunningIsReal

(* What a teardown starts from is well typed.                              *)
LEMMA IdleTeardownType == IdleTeardown \in Teardown
BY InstanceAssumption DEF IdleTeardown, Teardown

(* Writing one column, moving one task or taking one container keeps the   *)
(* tables typed.                                                           *)
LEMMA TablesTyped ==
  ASSUME LifeTypeOK, NEW i \in Instances
  PROVE  /\ \A s \in Statuses : [row EXCEPT ![i].status = s] \in [Instances -> InstanceRow]
         /\ \A pc \in ProvisionSteps :
               [prov EXCEPT ![i].pc = pc] \in [Instances -> [pc : ProvisionSteps, handle : BOOLEAN]]
         /\ \A b \in BOOLEAN : [container EXCEPT ![i] = b] \in [Instances -> BOOLEAN]
<1>1. ASSUME NEW s \in Statuses PROVE [row EXCEPT ![i].status = s] \in [Instances -> InstanceRow]
  <2>1. row[i] \in InstanceRow
    BY DEF LifeTypeOK
  <2>2. [row[i] EXCEPT !.status = s] \in InstanceRow
    BY <2>1 DEF InstanceRow
  <2> QED
    BY <2>2 DEF LifeTypeOK
<1>2. ASSUME NEW pc \in ProvisionSteps
      PROVE [prov EXCEPT ![i].pc = pc] \in [Instances -> [pc : ProvisionSteps, handle : BOOLEAN]]
  BY DEF LifeTypeOK
<1>3. ASSUME NEW b \in BOOLEAN PROVE [container EXCEPT ![i] = b] \in [Instances -> BOOLEAN]
  BY DEF LifeTypeOK
<1> QED
  BY <1>1, <1>2, <1>3

(* Every step of a row, of its task or of its clock keeps the types.       *)
LEMMA RowTypes ==
  ASSUME LifeTypeOK, Extendable, NEW i \in Instances,
         \/ Launch(i) \/ DeleteRow(i) \/ LifetimeEnds(i) \/ Ages(i)
         \/ ExtendCheck(i) \/ ExtendWrite(i)
         \/ Provision(i) \/ ProvFails(i) \/ SessionFails(i)
         \/ \E t \in Killers : Kill(t, i)
  PROVE  LifeTypeOK'
<1> USE InstanceAssumption
<1>t. row[i] \in InstanceRow /\ prov[i] \in [pc : ProvisionSteps, handle : BOOLEAN] /\ container[i] \in BOOLEAN
  BY DEF LifeTypeOK
<1>s. {"requested", "provisioning", "running", "failed", "deleted"} \subseteq Statuses
  BY DEF Statuses
<1>p. {"due", "claim", "creating", "starting", "created", "final", "failing", "failwrite", "cleanup",
       "done"} \subseteq ProvisionSteps
  BY DEF ProvisionSteps
<1>1. CASE Launch(i)
  BY <1>1, <1>s, <1>p, TablesTyped DEF LifeTypeOK, Launch, SetStatus
<1>2. CASE DeleteRow(i)
  BY <1>2, <1>s, TablesTyped DEF LifeTypeOK, DeleteRow, SetStatus
<1>3. CASE LifetimeEnds(i)
  <2>1. [row[i] EXCEPT !.expired = TRUE] \in InstanceRow
    BY <1>t DEF InstanceRow
  <2> QED
    BY <1>3, <2>1 DEF LifeTypeOK, LifetimeEnds
<1>4. CASE Ages(i)
  <2>1. [row[i] EXCEPT !.age = @ + 1] \in InstanceRow
    BY <1>t, <1>4 DEF InstanceRow, Ages
  <2> QED
    BY <1>4, <2>1 DEF LifeTypeOK, Ages
<1>5. CASE ExtendCheck(i)
  BY <1>5 DEF LifeTypeOK, ExtendCheck
<1>6. CASE ExtendWrite(i)
  <2>0. row[i].extends + 1 \in 0..MaxExtends
    BY <1>t, <1>6 DEF InstanceRow, ExtendWrite, Extendable
  <2>1. [row[i] EXCEPT !.expired = FALSE, !.extends = @ + 1] \in InstanceRow
    BY <1>t, <2>0 DEF InstanceRow
  <2>2. row' \in [Instances -> InstanceRow]
    <3> DEFINE new == [row[i] EXCEPT !.expired = FALSE, !.extends = @ + 1]
    <3>1. row' = row \/ row' = [row EXCEPT ![i] = new]
      BY <1>6 DEF ExtendWrite
    <3>2. new \in InstanceRow
      BY <2>1
    <3> HIDE DEF new
    <3> QED
      BY <3>1, <3>2 DEF LifeTypeOK
  <2> QED
    BY <1>6, <2>2 DEF LifeTypeOK, ExtendWrite
<1>7. CASE Provision(i)
  <2>1. CASE ProvRead(i)
    BY <2>1, <1>p, TablesTyped DEF LifeTypeOK, ProvRead, ProvGoto
  <2>2. CASE ProvClaim(i)
    <3>1. row' \in [Instances -> InstanceRow]
      BY <2>2, <1>s, TablesTyped DEF LifeTypeOK, ProvClaim, SetStatus
    <3>2. prov' \in [Instances -> [pc : ProvisionSteps, handle : BOOLEAN]]
      <4>1. \E pc \in {"creating", "done"} : prov' = [prov EXCEPT ![i].pc = pc]
        BY <2>2 DEF ProvClaim, ProvGoto
      <4> QED
        BY <4>1, <1>p, TablesTyped
    <3> QED
      BY <2>2, <3>1, <3>2 DEF LifeTypeOK, ProvClaim
  <2>3. CASE BackendCreates(i)
    BY <2>3, <1>p, TablesTyped DEF LifeTypeOK, BackendCreates, ProvGoto
  <2>4. CASE ProvCreated(i)
    BY <2>4, <1>p DEF LifeTypeOK, ProvCreated
  <2>5. CASE ProvLosesContainer(i)
    BY <2>5, <1>p, TablesTyped DEF LifeTypeOK, ProvLosesContainer, ProvGoto
  <2>6. CASE ProvFinalRead(i)
    BY <2>6, <1>p, TablesTyped DEF LifeTypeOK, ProvFinalRead, ProvGoto
  <2>7. CASE ProvFinalWrite(i)
    <3>1. [row[i] EXCEPT !.status = "running", !.handle = TRUE] \in InstanceRow
      BY <1>t, <1>s DEF InstanceRow
    <3> QED
      BY <2>7, <3>1, <1>p, TablesTyped DEF LifeTypeOK, ProvFinalWrite, ProvGoto
  <2>8. CASE FailRead(i)
    BY <2>8, <1>p, TablesTyped DEF LifeTypeOK, FailRead, ProvGoto
  <2>9. CASE FailWrite(i)
    BY <2>9, <1>p, <1>s, TablesTyped DEF LifeTypeOK, FailWrite, ProvGoto
  <2>10. CASE ProvCleanup(i)
    <3>1. (container[i] /\ ~prov[i].handle) \in BOOLEAN
      OBVIOUS
    <3>2. container' \in [Instances -> BOOLEAN]
      BY <2>10, <3>1, TablesTyped, Zenon DEF LifeTypeOK, ProvCleanup
    <3>3. prov' \in [Instances -> [pc : ProvisionSteps, handle : BOOLEAN]]
      BY <2>10, <1>p, TablesTyped DEF ProvCleanup, ProvGoto
    <3>4. faults' \in 0..MaxFaults
      BY <2>10 DEF LifeTypeOK, ProvCleanup
    <3> QED
      BY <2>10, <3>2, <3>3, <3>4 DEF LifeTypeOK, ProvCleanup
  <2> QED
    BY <1>7, <2>1, <2>2, <2>3, <2>4, <2>5, <2>6, <2>7, <2>8, <2>9, <2>10 DEF Provision
<1>8. CASE ProvFails(i)
  <2>1. container' \in [Instances -> BOOLEAN]
    BY <1>8, <1>t, TablesTyped DEF LifeTypeOK, ProvFails
  <2>2. prov' \in [Instances -> [pc : ProvisionSteps, handle : BOOLEAN]]
    BY <1>8, <1>p, TablesTyped DEF ProvFails, ProvGoto
  <2>3. faults' \in 0..MaxFaults
    BY <1>8 DEF LifeTypeOK, ProvFails
  <2> QED
    BY <1>8, <2>1, <2>2, <2>3 DEF LifeTypeOK, ProvFails
<1>9. CASE SessionFails(i)
  BY <1>9, <1>p, TablesTyped DEF LifeTypeOK, SessionFails, ProvGoto
<1>10. ASSUME NEW t \in Killers, Kill(t, i) PROVE LifeTypeOK'
  BY <1>10, <1>t DEF LifeTypeOK, Kill, Begun, Teardown, InstanceRow
<1> QED
  BY <1>1, <1>2, <1>3, <1>4, <1>5, <1>6, <1>7, <1>8, <1>9, <1>10

(* So does every step of a teardown, of the reaper, and a crash.           *)
LEMMA SharedTypes ==
  ASSUME LifeTypeOK,
         (\E t \in Killers \cup {Reaper} : RunTeardown(t)) \/ ReapInstances \/ Crash
  PROVE  LifeTypeOK'
<1> USE InstanceAssumption, IdleTeardownType
<1>s. {"expiring", "destroyed", "failed"} \subseteq Statuses
  BY DEF Statuses
<1>1. ASSUME NEW t \in Killers \cup {Reaper}, RunTeardown(t) PROVE LifeTypeOK'
  <2>t. td[t] \in Teardown /\ td[t].inst \in Instances
    BY DEF LifeTypeOK, Teardown
  <2>p. \A pc \in {"destroy", "final"} : [td EXCEPT ![t].pc = pc] \in [Killers \cup {Reaper} -> Teardown]
    BY <2>t DEF LifeTypeOK, Teardown
  <2>1. CASE TdExpire(t)
    <3>1. row' \in [Instances -> InstanceRow]
      BY <2>1, <2>t, <1>s, TablesTyped DEF LifeTypeOK, TdExpire, SetStatus
    <3>2. td' \in [Killers \cup {Reaper} -> Teardown]
      BY <2>1, <2>p DEF LifeTypeOK, TdExpire
    <3> QED
      BY <2>1, <3>1, <3>2 DEF LifeTypeOK, TdExpire
  <2>2. CASE TdDestroy(t)
    <3>1. (container[td[t].inst] /\ ~td[t].handle) \in BOOLEAN
      OBVIOUS
    <3>2. container' \in [Instances -> BOOLEAN]
      BY <2>2, <2>t, <3>1, TablesTyped, Zenon DEF LifeTypeOK, TdDestroy
    <3>3. td' \in [Killers \cup {Reaper} -> Teardown]
      BY <2>2, <2>p DEF LifeTypeOK, TdDestroy
    <3>4. faults' \in 0..MaxFaults
      BY <2>2 DEF LifeTypeOK, TdDestroy
    <3> QED
      BY <2>2, <3>2, <3>3, <3>4 DEF LifeTypeOK, TdDestroy
  <2>3. CASE TdFinalRead(t)
    <3>1. \A b \in BOOLEAN : [td[t] EXCEPT !.pc = "write", !.legal = b] \in Teardown
      BY <2>t DEF Teardown
    <3>2. CanTransition(row[td[t].inst].status, "destroyed") \in BOOLEAN
      BY DEF CanTransition
    <3>3. td' \in [Killers \cup {Reaper} -> Teardown]
      BY <2>3, <3>1, <3>2, Zenon DEF LifeTypeOK, TdFinalRead
    <3> QED
      BY <2>3, <3>3 DEF LifeTypeOK, TdFinalRead
  <2>4. CASE TdFinalWrite(t)
    BY <2>4, <2>t, <1>s, TablesTyped DEF LifeTypeOK, TdFinalWrite
  <2> QED
    BY <1>1, <2>1, <2>2, <2>3, <2>4 DEF RunTeardown
<1>2. CASE ReapInstances
  <2>1. CASE ReapExpired
    BY <2>1 DEF LifeTypeOK, ReapExpired, ReaperGoto, WithStatus
  <2>2. ASSUME NEW i \in Instances, ReapTeardown(i) PROVE LifeTypeOK'
    BY <2>2 DEF LifeTypeOK, ReapTeardown, ReaperGoto, Begun, Teardown, InstanceRow
  <2>3. CASE ReapStuckRead
    BY <2>3 DEF LifeTypeOK, ReapStuckRead, ReaperGoto, StuckRows, WithStatus
  <2>4. CASE ReapStuckWrite
    <3>1. ASSUME NEW i \in Instances PROVE [row[i] EXCEPT !.status = "failed"] \in InstanceRow
      <4>1. row[i] \in InstanceRow
        BY DEF LifeTypeOK
      <4> QED
        BY <4>1, <1>s DEF InstanceRow
    <3>2. row' \in [Instances -> InstanceRow]
      BY <2>4, <3>1 DEF LifeTypeOK, ReapStuckWrite
    <3> QED
      BY <2>4, <3>2 DEF LifeTypeOK, ReapStuckWrite, ReaperGoto
  <2>5. CASE ReapRetryRead
    BY <2>5 DEF LifeTypeOK, ReapRetryRead, ReaperGoto, RetryRows, WithStatus
  <2>6. CASE GcRead
    BY <2>6 DEF LifeTypeOK, GcRead, WithStatus
  <2>7. CASE GcList
    <3>1. window' \in [Instances -> Nat]
      BY <2>7 DEF LifeTypeOK, GcList
    <3> DEFINE orphans == {i \in Instances : container[i]} \ reaper.live
    <3>2. orphans \subseteq Instances /\ orphans \cap reaper.seen \subseteq Instances
      OBVIOUS
    <3>5. \/ reaper' = [reaper EXCEPT !.pc = "reap", !.live = {}, !.seen = orphans,
                                      !.todo = orphans \cap reaper.seen]
          \/ reaper' = [reaper EXCEPT !.pc = "idle", !.live = {}]
      BY <2>7 DEF GcList, Confirmed
    <3> HIDE DEF orphans
    <3>3. reaper' \in [pc : {"idle", "expire", "stuck", "stuckdone", "retry", "list", "reap"},
                       todo : SUBSET Instances, live : SUBSET Instances, seen : SUBSET Instances]
      BY <3>2, <3>5 DEF LifeTypeOK
    <3>4. faults' \in 0..MaxFaults
      BY <2>7 DEF LifeTypeOK, GcList
    <3> QED
      BY <2>7, <3>1, <3>3, <3>4 DEF LifeTypeOK, GcList
  <2>8. ASSUME NEW i \in Instances, GcDestroy(i) PROVE LifeTypeOK'
    <3>1. container' \in [Instances -> BOOLEAN]
      BY <2>8, TablesTyped DEF LifeTypeOK, GcDestroy
    <3>2. faults' \in 0..MaxFaults
      BY <2>8 DEF LifeTypeOK, GcDestroy
    <3> QED
      BY <2>8, <3>1, <3>2 DEF LifeTypeOK, GcDestroy, ReaperGoto
  <2>9. CASE ReapDone
    BY <2>9 DEF LifeTypeOK, ReapDone, ReaperGoto
  <2> QED
    BY <1>2, <2>1, <2>2, <2>3, <2>4, <2>5, <2>6, <2>7, <2>8, <2>9 DEF ReapInstances
<1>3. CASE Crash
  BY <1>3 DEF LifeTypeOK, Crash, IdleReaper, ProvisionSteps
<1> QED
  BY <1>1, <1>2, <1>3

(* Every step of a row, of its task or of its clock keeps what is said of  *)
(* rows, tasks and containers.                                             *)
LEMMA RowStep ==
  ASSUME LifeInv, NEW i \in Instances,
         \/ Launch(i) \/ DeleteRow(i) \/ LifetimeEnds(i) \/ Ages(i)
         \/ ExtendCheck(i) \/ ExtendWrite(i)
         \/ Provision(i) \/ ProvFails(i) \/ SessionFails(i)
         \/ \E t \in Killers : Kill(t, i)
  PROVE  LifeInv'
<1>o. LifeTypeOK /\ Unlaunched /\ ProvisionIsOver /\ NotYetMade /\ StillThere
  BY DEF LifeInv
<1>p. TeardownKnows /\ SeenCounts /\ ReapCounts /\ RunningIsReal /\ Extendable
  BY DEF LifeInv
<1>t. LifeTypeOK'
  BY <1>o, <1>p, RowTypes
<1>6. CASE ExtendWrite(i)
  <2>1. ext' \subseteq ext \ {i} /\ container' = container /\ prov' = prov /\ td' = td
          /\ reaper' = reaper /\ window' = window
    BY <1>6 DEF ExtendWrite
  <2>2. row' = row \/ row' = [row EXCEPT ![i].expired = FALSE, ![i].extends = @ + 1]
    BY <1>6 DEF ExtendWrite
  <2>3. \A j \in Instances : row'[j].handle = row[j].handle /\ row'[j].status = row[j].status
                             /\ (j # i => row'[j].extends = row[j].extends)
    BY <1>o, <2>2 DEF LifeTypeOK, InstanceRow
  <2>4. Extendable'
    BY <1>o, <1>p, <2>1, <2>3 DEF Extendable, LifeTypeOK
  <2>5. TeardownKnows'
    BY <1>o, <1>p, <2>1, <2>3 DEF Teardown, TeardownKnows, LifeTypeOK
  <2>6. Unlaunched' /\ ProvisionIsOver' /\ NotYetMade' /\ StillThere' /\ RunningIsReal'
    BY <1>o, <1>p, <2>1, <2>3 DEF Unlaunched, ProvisionIsOver, NotYetMade, StillThere, RunningIsReal
  <2>7. SeenCounts' /\ ReapCounts'
    BY <1>o, <1>p, <2>1, <2>3 DEF SeenCounts, ReapCounts, CanRise, LifeTypeOK
  <2> QED
    BY <1>t, <2>4, <2>5, <2>6, <2>7 DEF LifeInv
<1> USE DEF LifeInv, LifeTypeOK, InstanceRow, Extendable, Unlaunched, ProvisionIsOver, NotYetMade,
            StillThere, TeardownKnows, SeenCounts, ReapCounts, RunningIsReal, CanRise
<1>1. CASE Launch(i)
  BY <1>1, <1>t DEF Launch, SetStatus
<1>2. CASE DeleteRow(i)
  BY <1>2, <1>t DEF DeleteRow, SetStatus
<1>3. CASE LifetimeEnds(i)
  BY <1>3, <1>t DEF LifetimeEnds
<1>4. CASE Ages(i)
  BY <1>4, <1>t DEF Ages
<1>5. CASE ExtendCheck(i)
  BY <1>5, <1>t DEF ExtendCheck
<1>7. CASE ProvFails(i)
  BY <1>7, <1>t DEF ProvFails, ProvGoto
<1>8. CASE SessionFails(i)
  BY <1>8, <1>t DEF SessionFails, ProvGoto
<1>9. CASE ProvRead(i)
  BY <1>9, <1>t DEF ProvRead, ProvGoto
<1>10. CASE ProvClaim(i)
  <2>1. CASE row' = [row EXCEPT ![i].status = "provisioning"] /\ prov' = [prov EXCEPT ![i].pc = "creating"]
    BY <1>10, <1>t, <2>1 DEF ProvClaim
  <2>2. CASE row' = [row EXCEPT ![i].status = "failed"] /\ prov' = [prov EXCEPT ![i].pc = "done"]
    BY <1>10, <1>t, <2>2 DEF ProvClaim
  <2>3. CASE row' = row /\ prov' = [prov EXCEPT ![i].pc = "done"]
    BY <1>10, <1>t, <2>3 DEF ProvClaim
  <2> QED
    BY <1>10, <2>1, <2>2, <2>3 DEF ProvClaim, SetStatus, ProvGoto
<1>11. CASE BackendCreates(i)
  BY <1>11, <1>t DEF BackendCreates, ProvGoto
<1>12. CASE ProvCreated(i)
  BY <1>12, <1>t DEF ProvCreated
<1>13. CASE ProvLosesContainer(i)
  BY <1>13, <1>t DEF ProvLosesContainer, ProvGoto
<1>14. CASE ProvFinalRead(i)
  BY <1>14, <1>t DEF ProvFinalRead, ProvGoto
<1>15. CASE ProvFinalWrite(i)
  BY <1>15, <1>t DEF ProvFinalWrite, ProvGoto, Gone
<1>16. CASE FailRead(i)
  BY <1>16, <1>t DEF FailRead, ProvGoto
<1>17. CASE FailWrite(i)
  BY <1>17, <1>t DEF FailWrite, ProvGoto, Gone
<1>18. CASE ProvCleanup(i)
  BY <1>18, <1>t DEF ProvCleanup, ProvGoto
<1>19. ASSUME NEW t \in Killers, Kill(t, i) PROVE LifeInv'
  BY <1>19, <1>t DEF Kill, Begun, Teardown
<1> HIDE DEF LifeInv
<1> QED
  BY <1>1, <1>2, <1>3, <1>4, <1>5, <1>6, <1>7, <1>8, <1>9, <1>10, <1>11, <1>12, <1>13, <1>14, <1>15, <1>16, <1>17, <1>18, <1>19 DEF Provision

(* So does every step of a teardown: what it destroys no row calls         *)
(* running, and what it writes is never "running".                         *)
LEMMA TeardownStep ==
  ASSUME LifeInv, NEW t \in Killers \cup {Reaper}, RunTeardown(t)
  PROVE  LifeInv'
<1>o. LifeTypeOK /\ Unlaunched /\ ProvisionIsOver /\ NotYetMade /\ StillThere
  BY DEF LifeInv
<1>p. TeardownKnows /\ SeenCounts /\ ReapCounts /\ RunningIsReal /\ Extendable
  BY DEF LifeInv
<1>t. LifeTypeOK'
  BY <1>o, SharedTypes
<1>i. td[t] \in Teardown /\ td[t].inst \in Instances /\ IdleTeardown.handle = FALSE
  BY <1>o DEF LifeTypeOK, Teardown, IdleTeardown
<1>u. \A u \in Killers \cup {Reaper} : td[u].inst \in Instances
  BY <1>o DEF LifeTypeOK, Teardown
(* Only the status of the row changes, never to running, and no teardown   *)
(* gets a handle.                                                          *)
<1>q. ASSUME UNCHANGED <<container, prov, ext, reaper, window>>,
             \A i \in Instances : /\ row'[i].handle = row[i].handle /\ row'[i].extends = row[i].extends
                                   /\ row'[i].status \in {row[i].status, "expiring", "destroyed"},
             \A u \in Killers \cup {Reaper} : td'[u].handle =>
                 /\ td[u].handle /\ td'[u].inst = td[u].inst
                 /\ td'[u].pc = "destroy" =>
                       td[u].pc = "destroy" \/ row'[td[u].inst].status = "expiring"
      PROVE  LifeInv'
  <2>1. Extendable'
    BY <1>o, <1>p, <1>q DEF LifeTypeOK, Extendable
  <2>5. Unlaunched' /\ ProvisionIsOver'
    BY <1>o, <1>q DEF Unlaunched, ProvisionIsOver
  <2>2. NotYetMade' /\ StillThere' /\ RunningIsReal'
    BY <1>o, <1>p, <1>q DEF NotYetMade, StillThere, RunningIsReal
  <2>3. SeenCounts' /\ ReapCounts'
    BY <1>o, <1>p, <1>q DEF LifeTypeOK, SeenCounts, ReapCounts, CanRise
  <2>4. TeardownKnows'
    BY <1>p, <1>q, <1>u DEF TeardownKnows
  <2> QED
    BY <1>t, <2>1, <2>2, <2>3, <2>4, <2>5 DEF LifeInv
<1>s. ASSUME NEW s \in {"expiring", "destroyed"}, row' = [row EXCEPT ![td[t].inst].status = s]
      PROVE  \A i \in Instances : /\ row'[i].handle = row[i].handle /\ row'[i].extends = row[i].extends
                                   /\ row'[i].status = IF i = td[t].inst THEN s ELSE row[i].status
  BY <1>o, <1>i, <1>s DEF LifeTypeOK, InstanceRow
<1>e. ASSUME td' = [td EXCEPT ![t] = IdleTeardown]
      PROVE  \A u \in Killers \cup {Reaper} : td'[u].handle => td'[u] = td[u]
  BY <1>o, <1>i, <1>e DEF LifeTypeOK
<1>1. CASE TdExpire(t)
  <2>1. UNCHANGED <<container, prov, ext, reaper, window>>
    BY <1>1 DEF TdExpire
  <2>2. CASE Gone(td[t].inst)
    <3>1. row' = row /\ td' = [td EXCEPT ![t] = IdleTeardown]
      BY <1>1, <2>2 DEF TdExpire
    <3> QED
      BY <1>q, <1>e, <2>1, <3>1
  <2>3. CASE ~Gone(td[t].inst)
    <3>1. row' = [row EXCEPT ![td[t].inst].status = "expiring"] /\ td' = [td EXCEPT ![t].pc = "destroy"]
      BY <1>1, <2>3 DEF TdExpire, SetStatus
    <3>2. row'[td[t].inst].status = "expiring"
      BY <1>i, <1>s, <3>1
    <3>3. \A u \in Killers \cup {Reaper} : td'[u].handle =>
             /\ td[u].handle /\ td'[u].inst = td[u].inst
             /\ td'[u].pc = "destroy" => td[u].pc = "destroy" \/ u = t
      BY <1>o, <1>i, <3>1 DEF LifeTypeOK, Teardown
    <3> QED
      BY <1>q, <1>s, <2>1, <3>1, <3>2, <3>3
  <2> QED
    BY <2>2, <2>3
<1>2. CASE TdDestroy(t)
  <2>1. UNCHANGED <<row, prov, ext, reaper, window>>
    BY <1>2 DEF TdDestroy
  <2>2. td' = [td EXCEPT ![t] = IdleTeardown] \/ td' = [td EXCEPT ![t].pc = "final"]
    BY <1>2 DEF TdDestroy
  <2>3. \A u \in Killers \cup {Reaper} : td'[u].handle =>
            td[u].handle /\ td'[u].inst = td[u].inst /\ (td'[u].pc = "destroy" => td[u].pc = "destroy")
    BY <1>o, <1>i, <2>2 DEF LifeTypeOK, Teardown
  <2>4. TeardownKnows'
    BY <1>p, <1>u, <2>1, <2>3 DEF TeardownKnows
  <2>5. \A i \in Instances : i # td[t].inst \/ ~td[t].handle => container'[i] = container[i]
    <3>1. container' = container \/ container' = [container EXCEPT ![td[t].inst] = @ /\ ~td[t].handle]
      BY <1>2 DEF TdDestroy
    <3>2. CASE ~td[t].handle
      <4>1. (container[td[t].inst] /\ ~td[t].handle) = container[td[t].inst]
        BY <1>o, <1>i, <3>2 DEF LifeTypeOK
      <4> QED
        BY <1>o, <3>1, <4>1 DEF LifeTypeOK
    <3>3. CASE td[t].handle
      BY <1>o, <3>1, <3>3 DEF LifeTypeOK
    <3> QED
      BY <3>2, <3>3
  <2>6. container[td[t].inst] \/ ~container'[td[t].inst]
    <3>1. container' = container \/ container' = [container EXCEPT ![td[t].inst] = @ /\ ~td[t].handle]
      BY <1>2 DEF TdDestroy
    <3> QED
      BY <1>o, <1>i, <3>1 DEF LifeTypeOK
  <2>7. td[t].handle => prov[td[t].inst].pc = "done" /\ row[td[t].inst].status # "running"
    BY <1>o, <1>p, <1>i, <1>2 DEF TeardownKnows, ProvisionIsOver, TdDestroy
  <2>8. NotYetMade' /\ StillThere' /\ RunningIsReal'
    BY <1>o, <1>p, <1>i, <2>1, <2>5, <2>6, <2>7 DEF NotYetMade, StillThere, RunningIsReal
  <2>9. Extendable' /\ Unlaunched' /\ ProvisionIsOver' /\ SeenCounts' /\ ReapCounts'
    BY <1>o, <1>p, <2>1 DEF Extendable, Unlaunched, ProvisionIsOver, SeenCounts, ReapCounts, CanRise
  <2> QED
    BY <1>t, <2>4, <2>8, <2>9 DEF LifeInv
<1>3. CASE TdFinalRead(t)
  <2>1. UNCHANGED <<row, container, prov, ext, reaper, window>>
    BY <1>3 DEF TdFinalRead
  <2>2. \/ td' = [td EXCEPT ![t] = IdleTeardown]
        \/ \E b : td' = [td EXCEPT ![t] = [td[t] EXCEPT !.pc = "write", !.legal = b]]
    BY <1>3 DEF TdFinalRead
  <2>3. \A u \in Killers \cup {Reaper} : td'[u].handle =>
            td[u].handle /\ td'[u].inst = td[u].inst /\ (td'[u].pc = "destroy" => td[u].pc = "destroy")
    <3>1. CASE td' = [td EXCEPT ![t] = IdleTeardown]
      BY <1>e, <3>1
    <3>2. ASSUME NEW b, td' = [td EXCEPT ![t] = [td[t] EXCEPT !.pc = "write", !.legal = b]]
          PROVE \A u \in Killers \cup {Reaper} : td'[u].handle = td[u].handle /\ td'[u].inst = td[u].inst
                                                  /\ (td'[u].pc = "destroy" => td[u].pc = "destroy")
      BY <1>o, <1>i, <3>2 DEF LifeTypeOK, Teardown
    <3> QED
      BY <2>2, <3>1, <3>2
  <2> QED
    BY <1>q, <2>1, <2>3
<1>4. CASE TdFinalWrite(t)
  <2>1. row' = row \/ row' = [row EXCEPT ![td[t].inst].status = "destroyed"]
    BY <1>4 DEF TdFinalWrite
  <2>2. td' = [td EXCEPT ![t] = IdleTeardown] /\ UNCHANGED <<container, prov, ext, reaper, window>>
    BY <1>4 DEF TdFinalWrite
  <2> QED
    BY <1>q, <1>s, <1>e, <2>1, <2>2
<1> QED
  BY <1>1, <1>2, <1>3, <1>4 DEF RunTeardown

(* So does every step of the reaper: what it confirms as an orphan may no  *)
(* longer rise, or was counted twice.                                      *)
LEMMA ReaperStep == ASSUME LifeInv, ReapInstances PROVE LifeInv'
<1>o. LifeTypeOK /\ Unlaunched /\ ProvisionIsOver /\ NotYetMade /\ StillThere
  BY DEF LifeInv
<1>p. TeardownKnows /\ SeenCounts /\ ReapCounts /\ RunningIsReal /\ Extendable
  BY DEF LifeInv
<1>t. LifeTypeOK'
  BY <1>o, SharedTypes
<1>u. \A u \in Killers \cup {Reaper} : td[u].inst \in Instances
  BY <1>o DEF LifeTypeOK, Teardown
(* A step that changes nothing but the reaper's place and its list.        *)
<1>q. ASSUME row' = row, container' = container, prov' = prov, ext' = ext, window' = window,
             TeardownKnows', reaper'.seen = reaper.seen, reaper'.pc # "reap"
      PROVE  LifeInv'
  BY <1>o, <1>p, <1>t, <1>q
  DEF LifeInv, Extendable, Unlaunched, ProvisionIsOver, NotYetMade, StillThere, SeenCounts, ReapCounts,
      RunningIsReal, CanRise
<1>k. ASSUME row' = row, td' = td PROVE TeardownKnows'
  BY <1>p, <1>k DEF TeardownKnows
<1>g. ASSUME NEW pc, NEW todo, ReaperGoto(pc, todo)
      PROVE  reaper'.seen = reaper.seen /\ reaper'.pc = pc /\ reaper'.todo = todo
  BY <1>o, <1>g DEF LifeTypeOK, ReaperGoto
<1>1. CASE ReapExpired
  <2>1. reaper'.seen = reaper.seen /\ reaper'.pc # "reap"
    BY <1>1, <1>g DEF ReapExpired
  <2>2. row' = row /\ container' = container /\ prov' = prov /\ td' = td /\ ext' = ext /\ window' = window
    BY <1>1 DEF ReapExpired
  <2> QED
    BY <1>q, <1>k, <2>1, <2>2
<1>2. ASSUME NEW i \in Instances, ReapTeardown(i) PROVE LifeInv'
  <2>1. td' = td \/ td' = Begun(Reaper, i)
    BY <1>2 DEF ReapTeardown
  <2>2. row' = row /\ row[i] \in InstanceRow
    BY <1>2, <1>o DEF ReapTeardown, LifeTypeOK
  <2>3. ASSUME td' = Begun(Reaper, i) PROVE TeardownKnows'
    <3>1. \A u \in Killers \cup {Reaper} : td'[u] = td[u] \/
              /\ td'[u].inst = i /\ td'[u].handle = row[i].handle
              /\ td'[u].pc = "destroy" => row[i].status # "running"
      BY <1>o, <2>3 DEF Begun, LifeTypeOK
    <3> QED
      BY <1>p, <2>2, <3>1 DEF TeardownKnows
  <2>4. TeardownKnows'
    BY <1>k, <2>1, <2>2, <2>3
  <2>5. container' = container /\ prov' = prov /\ ext' = ext /\ window' = window /\ reaper.pc # "reap"
    BY <1>2 DEF ReapTeardown
  <2>6. reaper'.seen = reaper.seen /\ reaper'.pc = reaper.pc
    BY <1>2, <1>g DEF ReapTeardown
  <2> QED
    BY <1>q, <2>2, <2>4, <2>5, <2>6
<1>3. CASE ReapStuckRead
  <2>1. reaper'.seen = reaper.seen /\ reaper'.pc # "reap"
    BY <1>3, <1>g DEF ReapStuckRead
  <2>2. row' = row /\ container' = container /\ prov' = prov /\ td' = td /\ ext' = ext /\ window' = window
    BY <1>3 DEF ReapStuckRead
  <2> QED
    BY <1>q, <1>k, <2>1, <2>2
<1>4. CASE ReapStuckWrite
  <2>1. CASE \E i \in reaper.todo : Gone(i)
    <3>1. reaper'.seen = reaper.seen /\ reaper'.pc # "reap"
      BY <1>4, <1>g, <2>1 DEF ReapStuckWrite
    <3>2. row' = row /\ container' = container /\ prov' = prov /\ td' = td /\ ext' = ext /\ window' = window
      BY <1>4, <2>1 DEF ReapStuckWrite
    <3> QED
      BY <1>q, <1>k, <3>1, <3>2
  <2>2. CASE ~\E i \in reaper.todo : Gone(i)
    <3>1. \A i \in Instances :
             row'[i] = row[i] \/ row'[i] = [row[i] EXCEPT !.status = "failed"]
      BY <1>4, <2>2 DEF ReapStuckWrite
    <3>2. ASSUME NEW i \in Instances
          PROVE  /\ row'[i].handle = row[i].handle /\ row'[i].extends = row[i].extends
                 /\ row'[i].status \in {row[i].status, "failed"}
      <4>1. row[i] \in InstanceRow
        BY <1>o DEF LifeTypeOK
      <4> QED
        BY <3>1, <4>1 DEF InstanceRow
    <3>3. reaper'.pc = "stuckdone" /\ reaper'.seen = reaper.seen
      BY <1>4, <2>2, <1>g DEF ReapStuckWrite
    <3>4. UNCHANGED <<container, prov, td, ext, window>>
      BY <1>4 DEF ReapStuckWrite
    <3>5. Extendable' /\ Unlaunched' /\ ProvisionIsOver'
      BY <1>o, <1>p, <3>2, <3>4 DEF LifeTypeOK, Extendable, Unlaunched, ProvisionIsOver
    <3>6. NotYetMade' /\ StillThere' /\ RunningIsReal'
      BY <1>o, <1>p, <3>2, <3>4 DEF NotYetMade, StillThere, RunningIsReal
    <3>7. SeenCounts' /\ ReapCounts'
      BY <1>o, <1>p, <3>2, <3>3, <3>4 DEF LifeTypeOK, SeenCounts, ReapCounts, CanRise
    <3>8. TeardownKnows'
      BY <1>p, <1>u, <3>2, <3>4 DEF TeardownKnows
    <3> QED
      BY <1>t, <3>5, <3>6, <3>7, <3>8 DEF LifeInv
  <2> QED
    BY <2>1, <2>2
<1>5. CASE ReapRetryRead
  <2>1. reaper'.seen = reaper.seen /\ reaper'.pc # "reap"
    BY <1>5, <1>g DEF ReapRetryRead
  <2>2. row' = row /\ container' = container /\ prov' = prov /\ td' = td /\ ext' = ext /\ window' = window
    BY <1>5 DEF ReapRetryRead
  <2> QED
    BY <1>q, <1>k, <2>1, <2>2
<1>6. CASE GcRead
  <2>1. reaper'.pc = "list" /\ reaper'.seen = reaper.seen
    BY <1>6, <1>o DEF GcRead, LifeTypeOK
  <2>2. row' = row /\ container' = container /\ prov' = prov /\ td' = td /\ ext' = ext /\ window' = window
    BY <1>6 DEF GcRead
  <2> QED
    BY <1>q, <1>k, <2>1, <2>2
<1>7. CASE GcList
  <2> DEFINE orphans == {i \in Instances : container[i]} \ reaper.live
  <2>1. row' = row /\ container' = container /\ prov' = prov /\ td' = td /\ ext' = ext
    BY <1>7 DEF GcList
  <2>2. CASE window' = window /\ reaper' = [reaper EXCEPT !.pc = "idle", !.live = {}]
    <3>1. reaper'.pc = "idle" /\ reaper'.seen = reaper.seen
      BY <1>o, <2>2 DEF LifeTypeOK
    <3> QED
      BY <1>q, <1>k, <2>1, <2>2, <3>1
  <2>3. CASE /\ window' = [i \in Instances |-> IF i \in orphans /\ Rising(i) THEN window[i] + 1
                                                                            ELSE window[i]]
             /\ reaper' = [reaper EXCEPT !.pc = "reap", !.live = {}, !.seen = orphans,
                                         !.todo = orphans \cap reaper.seen]
    <3>1. \A i \in Instances : window'[i] >= window[i] /\ window[i] \in Nat
      BY <1>o, <2>3 DEF LifeTypeOK
    <3>2. \A i \in orphans : i \in Instances /\ (CanRise(i) => window'[i] = window[i] + 1)
      BY <1>o, <2>3 DEF CanRise, Rising, Unrecorded, NotYetMade
    <3>3. StillThere' /\ RunningIsReal' /\ NotYetMade'
      BY <1>o, <1>p, <1>t, <2>1, <3>1 DEF LifeTypeOK, StillThere, RunningIsReal, NotYetMade
    <3>4. reaper'.seen = orphans /\ reaper'.todo = orphans \cap reaper.seen
      BY <1>o, <2>3 DEF LifeTypeOK
    <3>5. \A i \in Instances : CanRise(i)' <=> CanRise(i)
      BY <2>1 DEF CanRise
    <3> HIDE DEF orphans
    <3>6. SeenCounts' /\ ReapCounts'
      BY <1>p, <3>1, <3>2, <3>4, <3>5 DEF SeenCounts, ReapCounts
    <3>7. Extendable' /\ Unlaunched' /\ ProvisionIsOver' /\ TeardownKnows'
      BY <1>o, <1>p, <1>k, <2>1 DEF Extendable, Unlaunched, ProvisionIsOver
    <3> QED
      BY <1>t, <3>3, <3>6, <3>7 DEF LifeInv
  <2> QED
    BY <1>7, <2>2, <2>3 DEF GcList, Confirmed
<1>8. ASSUME NEW i \in Instances, GcDestroy(i) PROVE LifeInv'
  <2>1. UNCHANGED <<row, prov, td, ext, window>> /\ reaper.pc = "reap" /\ i \in reaper.todo
    BY <1>8 DEF GcDestroy
  <2>2. reaper'.seen = reaper.seen /\ reaper'.todo \subseteq reaper.todo
    BY <1>8, <1>g DEF GcDestroy
  <2>3. \A j \in Instances : container'[j] = container[j] \/ (j = i /\ ~container'[j])
    <3>1. container' = container \/ container' = [container EXCEPT ![i] = FALSE]
      BY <1>8 DEF GcDestroy
    <3>2. container \in [Instances -> BOOLEAN]
      BY <1>o DEF LifeTypeOK
    <3> SUFFICES ASSUME NEW j \in Instances
                 PROVE  container'[j] = container[j] \/ (j = i /\ ~container'[j])
      OBVIOUS
    <3>3. CASE container' = [container EXCEPT ![i] = FALSE]
      <4>1. container'[j] = IF j = i THEN FALSE ELSE container[j]
        BY <3>2, <3>3
      <4> QED
        BY <4>1, Zenon
    <3>4. CASE container' = container
      BY <3>4, Zenon
    <3> QED
      BY <3>1, <3>3, <3>4, Zenon
  <2>4. CanRise(i) => window[i] >= 2
    BY <1>p, <2>1 DEF ReapCounts
  <2>5. \A j \in Instances : window[j] \in Nat
    BY <1>o DEF LifeTypeOK
  <2>6. NotYetMade' /\ StillThere' /\ RunningIsReal'
    BY <1>o, <1>p, <2>1, <2>3, <2>4, <2>5 DEF NotYetMade, StillThere, RunningIsReal, CanRise
  <2>7. SeenCounts' /\ ReapCounts'
    BY <1>p, <2>1, <2>2 DEF SeenCounts, ReapCounts, CanRise
  <2>8. Extendable' /\ Unlaunched' /\ ProvisionIsOver' /\ TeardownKnows'
    BY <1>o, <1>p, <1>k, <2>1 DEF Extendable, Unlaunched, ProvisionIsOver
  <2> QED
    BY <1>t, <2>6, <2>7, <2>8 DEF LifeInv
<1>9. CASE ReapDone
  <2>1. reaper'.seen = reaper.seen /\ reaper'.pc # "reap"
    BY <1>9, <1>g DEF ReapDone
  <2>2. row' = row /\ container' = container /\ prov' = prov /\ td' = td /\ ext' = ext /\ window' = window
    BY <1>9 DEF ReapDone
  <2> QED
    BY <1>q, <1>k, <2>1, <2>2
<1> QED
  BY <1>1, <1>2, <1>3, <1>4, <1>5, <1>6, <1>7, <1>8, <1>9 DEF ReapInstances

(* A crash loses tasks and what the reaper has seen; rows stay.            *)
LEMMA CrashStep == ASSUME LifeInv, Crash PROVE LifeInv'
<1>t. LifeTypeOK'
  <2>1. LifeTypeOK
    BY DEF LifeInv
  <2> QED
    BY <2>1, SharedTypes
<1>1. IdleTeardown.handle = FALSE
  BY DEF IdleTeardown
<1> QED
  BY <1>t, <1>1
  DEF Crash, IdleReaper, LifeInv, LifeTypeOK, InstanceRow, Extendable, Unlaunched, ProvisionIsOver,
      NotYetMade, StillThere, TeardownKnows, SeenCounts, ReapCounts, RunningIsReal, CanRise

(* The invariant holds before anything was launched.                       *)
LEMMA LifeStarts == LifeInit => LifeInv
<1> SUFFICES ASSUME LifeInit PROVE LifeInv
  OBVIOUS
<1>1. LifeTypeOK
  BY InstanceAssumption, IdleTeardownType
  DEF LifeInit, LifeTypeOK, NewRow, InstanceRow, Statuses, ProvisionSteps, IdleReaper
<1>2. IdleTeardown.handle = FALSE
  BY DEF IdleTeardown
<1> QED
  BY <1>1, <1>2
  DEF LifeInit, LifeInv, NewRow, IdleReaper, Extendable, Unlaunched, ProvisionIsOver, NotYetMade,
      StillThere, TeardownKnows, SeenCounts, ReapCounts, RunningIsReal

(* It holds in every reachable state.                                      *)
LEMMA LifeInvariant == LifeSpec => []LifeInv
<1>1. ASSUME LifeInv, [LifeNext]_lifeVars PROVE LifeInv'
  <2>1. CASE UNCHANGED lifeVars
    BY <1>1, <2>1
    DEF lifeVars, LifeInv, LifeTypeOK, Extendable, Unlaunched, ProvisionIsOver, NotYetMade,
        StillThere, TeardownKnows, SeenCounts, ReapCounts, RunningIsReal, CanRise
  <2>2. CASE LifeNext
    BY <1>1, <2>2, RowStep, TeardownStep, ReaperStep, CrashStep DEF LifeNext
  <2> QED
    BY <1>1, <2>1, <2>2
<1> QED
  BY <1>1, LifeStarts, PTL DEF LifeSpec

(* Rows, tasks, teardowns and the reaper keep their types, the extension   *)
(* count under MAX_EXTENDS, although extend() checks it in one session and *)
(* writes in another (one extension of a row in flight at a time).         *)
THEOREM LifeTypeCorrect == LifeSpec => []LifeTypeOK
<1>1. LifeInv => LifeTypeOK
  BY DEF LifeInv
<1> QED
  BY <1>1, LifeInvariant, PTL

(* A row that says running has its container, whatever teardowns, failed   *)
(* provisions, orphan sweeps and crashes come between the unlocked reads   *)
(* and writes of provision(), teardown() and reap_instances(), as long as  *)
(* two sweeps do not fall into its unrecorded window.                      *)
THEOREM RunningHasContainer == LifeSpec => []RunningIsReal
<1>1. LifeInv => RunningIsReal
  BY DEF LifeInv
<1> QED
  BY <1>1, LifeInvariant, PTL
=============================================================================
