----------------------------- MODULE LiveProofs -----------------------------
(***************************************************************************)
(* Proofs about what runs in the background of a live event: the eviction  *)
(* of revoked sockets and the presence of a user (Realtime), whom a unique *)
(* flag counts for (UniqueFlags), the jobs of the tick (TickJobs) and the  *)
(* sandboxes of the judge (JudgeSandbox).  They hold for any number of     *)
(* workers, sockets, tabs, players, instances, jobs, judgings and installs *)
(* and for every bound.                                                    *)
(***************************************************************************)
EXTENDS MCLive, FiniteSetTheorems, TLAPS

(***************************************************************************)
(* Presence.                                                               *)
(***************************************************************************)

PresLocal == [up : BOOLEAN, member : BOOLEAN, tabs : SUBSET Tabs,
              expiring : BOOLEAN]

StoreOps == [op : {"add", "members", "remove", "hdel", "orphan", "refresh"},
             w : PresWorkers, t : Tabs \cup {NoTab}]

(* The store holds the worker's entry and nothing under way takes it: only *)
(* the worker's own removal or the deletion of the payload could.          *)
Safe(w) ==
    /\ prLive[w] = "fresh" /\ prPayload
    /\ ~ RemovalUnderWay(w)

(* A worker with a tab open has its entry in the store, safe, or is about  *)
(* to put it there, unless its last arrival raced.                         *)
TabsAreStored ==
    \A w \in PresWorkers \ prRaced :
        prLocal[w].tabs # {} =>
            Safe(w) \/ \E o \in prOps : o.op = "add" /\ o.w = w

PresenceInv ==
    /\ PresenceTypeOK
    /\ prLocal \in [PresWorkers -> PresLocal]
    /\ TabsAreStored

(* The local entry of a worker after an arrival, a departure, the grace. *)
LEMMA ArrivedLocal ==
  ASSUME NEW l \in PresLocal, NEW t \in Tabs
  PROVE  /\ Arrived(l, t) \in PresLocal
         /\ Arrived(l, t).member /\ Arrived(l, t).tabs = l.tabs \cup {t}
         /\ ~ Arrived(l, t).expiring
BY DEF PresLocal, Arrived

(* A worker's view of a user after one of its tabs has gone.               *)
LEMMA DepartedLocal ==
  ASSUME NEW l \in PresLocal, NEW t \in Tabs
  PROVE  /\ Departed(l, t) \in PresLocal
         /\ Departed(l, t).member <=> l.member
         /\ Departed(l, t).tabs = l.tabs \ {t}
         /\ Departed(l, t).expiring <=> l.tabs = {t}
BY DEF PresLocal, Departed

(* A worker's view of a user whose grace period is over.                   *)
LEMMA ExpiredLocal ==
  ASSUME NEW l \in PresLocal
  PROVE  /\ Expired(l) \in PresLocal /\ Expired(l).tabs = l.tabs
         /\ ~ Expired(l).member /\ ~ Expired(l).expiring
BY DEF PresLocal, Expired

(* The invariant of presence holds at the start.                           *)
LEMMA PresenceInitInv == PresenceInit => PresenceInv
<1> SUFFICES ASSUME PresenceInit PROVE PresenceInv
  OBVIOUS
<1> USE PresenceAssumption DEF PresenceInit, Away
<1>1. prLocal \in [PresWorkers -> PresLocal]
  BY DEF PresLocal
<1>2. PresenceTypeOK
  <2>1. prPayload \in BOOLEAN /\ prRaced \subseteq PresWorkers
    OBVIOUS
  <2>2. prLive \in [PresWorkers -> {"none", "fresh", "stale"}]
    OBVIOUS
  <2>3. prOpens \in 0 .. MaxOpens
    OBVIOUS
  <2>4. ASSUME NEW w \in PresWorkers
        PROVE  prLocal[w].tabs = {} /\ prLocal[w].member = FALSE
    OBVIOUS
  <2> QED BY <2>1, <2>2, <2>3, <2>4 DEF PresenceTypeOK
<1>3. TabsAreStored
  BY DEF TabsAreStored
<1> QED BY <1>1, <1>2, <1>3 DEF PresenceInv

(* A tab is opened or closed, the grace ends, the worker dies. *)
LEMMA PresenceLocalStep ==
  ASSUME PresenceInv,
         \/ \E t \in Tabs : PresenceJoin(t) \/ PresenceLeave(t)
         \/ \E w \in PresWorkers : ExpireMember(w) \/ WorkerDies(w)
  PROVE  PresenceInv'
<1> USE PresenceAssumption DEF PresenceInv
<1>1. ASSUME NEW t \in Tabs, PresenceJoin(t) PROVE PresenceInv'
  <2>v. PICK v \in PresWorkers : v = TabHost[t]
    OBVIOUS
  <2>0. StoreOp("add", v, t) \in StoreOps
    BY DEF StoreOp, StoreOps
  <2>1. /\ prLocal' = [prLocal EXCEPT ![v] = Arrived(@, t)]
        /\ prOps' = prOps \cup {StoreOp("add", v, t)}
        /\ prOpens < MaxOpens /\ prOpens' = prOpens + 1
        /\ UNCHANGED <<prLive, prPayload, prRaced>>
    BY <1>1, <2>v DEF PresenceJoin
  <2> DEFINE e == Arrived(prLocal[v], t)
  <2>2. /\ e \in PresLocal /\ e.member /\ e.tabs = prLocal[v].tabs \cup {t}
        /\ ~ e.expiring
    BY ArrivedLocal
  <2>3. \A w \in PresWorkers : prLocal'[w] = IF w = v THEN e ELSE prLocal[w]
    BY <2>1
  <2>4. prLocal' \in [PresWorkers -> PresLocal]
    BY <2>1, <2>2
  <2> HIDE DEF e
  <2>5. PresenceTypeOK'
    <3>1. prOps' \subseteq StoreOps
      BY <2>0, <2>1 DEF PresenceTypeOK, StoreOps
    <3>2. prOpens' \in 0 .. MaxOpens
      BY <2>1 DEF PresenceTypeOK
    <3>3. e.tabs \subseteq {x \in Tabs : TabHost[x] = v}
      BY <2>v, <2>2 DEF PresenceTypeOK
    <3> QED BY <2>1, <2>2, <2>3, <3>1, <3>2, <3>3 DEF PresenceTypeOK, StoreOps
  <2>6. TabsAreStored'
    <3>1. \E o \in prOps' : o.op = "add" /\ o.w = v
      <4>1. StoreOp("add", v, t) \in prOps'
        BY <2>1
      <4>2. StoreOp("add", v, t).op = "add" /\ StoreOp("add", v, t).w = v
        BY DEF StoreOp
      <4> QED BY <4>1, <4>2
    <3>2. ASSUME NEW w \in PresWorkers, Safe(w) PROVE Safe(w)'
      BY <2>1, <3>2 DEF Safe, RemovalUnderWay, StoreOp
    <3> QED BY <2>1, <2>3, <3>1, <3>2 DEF TabsAreStored
  <2> QED BY <2>4, <2>5, <2>6
<1>2. ASSUME NEW t \in Tabs, PresenceLeave(t) PROVE PresenceInv'
  <2>v. PICK v \in PresWorkers : v = TabHost[t]
    OBVIOUS
  <2>1. /\ prLocal' = [prLocal EXCEPT ![v] = Departed(@, t)]
        /\ t \in prLocal[v].tabs
        /\ UNCHANGED <<prLive, prPayload, prOps, prOpens, prRaced>>
    BY <1>2, <2>v DEF PresenceLeave
  <2> DEFINE e == Departed(prLocal[v], t)
  <2>2. /\ e \in PresLocal
        /\ e.member <=> prLocal[v].member
        /\ e.tabs = prLocal[v].tabs \ {t}
        /\ e.expiring <=> prLocal[v].tabs = {t}
    BY DepartedLocal
  <2>3. \A w \in PresWorkers : prLocal'[w] = IF w = v THEN e ELSE prLocal[w]
    BY <2>1
  <2>4. prLocal' \in [PresWorkers -> PresLocal]
    BY <2>1, <2>2
  <2> HIDE DEF e
  <2>5. PresenceTypeOK'
    <3>1. e.tabs \subseteq {x \in Tabs : TabHost[x] = v}
      BY <2>2 DEF PresenceTypeOK
    <3>2. prLocal[v].member
      BY <2>1 DEF PresenceTypeOK
    <3>3. e.tabs = {} <=> prLocal[v].tabs = {t}
      BY <2>1, <2>2
    <3> QED BY <2>1, <2>2, <2>3, <3>1, <3>2, <3>3 DEF PresenceTypeOK
  <2>6. TabsAreStored'
    BY <2>1, <2>2, <2>3 DEF TabsAreStored, Safe, RemovalUnderWay
  <2> QED BY <2>4, <2>5, <2>6
<1>3. ASSUME NEW v \in PresWorkers, ExpireMember(v) PROVE PresenceInv'
  <2>0. StoreOp("remove", v, NoTab) \in StoreOps
    BY DEF StoreOp, StoreOps
  <2>1. UNCHANGED <<prLive, prPayload, prOpens, prRaced>>
    BY <1>3 DEF ExpireMember
  <2>2. CASE prLocal[v].tabs = {}
    <3>1. /\ prLocal' = [prLocal EXCEPT ![v] = Expired(@)]
          /\ prOps' = prOps \cup {StoreOp("remove", v, NoTab)}
      BY <1>3, <2>2 DEF ExpireMember
    <3>2. prLocal' \in [PresWorkers -> PresLocal]
      BY <3>1, ExpiredLocal
    <3>3. /\ prLocal'[v].tabs = {}
          /\ ~ prLocal'[v].member /\ ~ prLocal'[v].expiring
          /\ \A w \in PresWorkers : w # v => prLocal'[w] = prLocal[w]
      BY <2>2, <3>1, ExpiredLocal
    <3>4. PresenceTypeOK'
      BY <2>0, <2>1, <3>1, <3>3 DEF PresenceTypeOK, StoreOps
    <3>5. TabsAreStored'
      BY <2>1, <3>1, <3>3 DEF TabsAreStored, Safe, RemovalUnderWay, StoreOp
    <3> QED BY <3>2, <3>4, <3>5
  <2>3. CASE prLocal[v].tabs # {}
    BY <1>3, <2>3 DEF ExpireMember, PresenceTypeOK
  <2> QED BY <2>2, <2>3
<1>4. ASSUME NEW v \in PresWorkers, WorkerDies(v) PROVE PresenceInv'
  <2>1. /\ prLocal' = [prLocal EXCEPT ![v] = [Away EXCEPT !.up = FALSE]]
        /\ prOps' = {o \in prOps : o.w # v}
        /\ UNCHANGED <<prLive, prPayload, prOpens, prRaced>>
    BY <1>4 DEF WorkerDies
  <2>2. prLocal' \in [PresWorkers -> PresLocal]
    BY <2>1 DEF PresLocal, Away
  <2>3. PresenceTypeOK'
    BY <2>1 DEF PresenceTypeOK, Away
  <2>4. TabsAreStored'
    BY <2>1 DEF TabsAreStored, Safe, RemovalUnderWay, Away
  <2> QED BY <2>2, <2>3, <2>4
<1> QED BY <1>1, <1>2, <1>3, <1>4

(* A pipeline of the store, a heartbeat, an expiry. *)
LEMMA PresenceStoreStep ==
  ASSUME PresenceInv,
         StoreStep \/ \E w \in PresWorkers : HeartbeatRead(w) \/ LivenessExpires(w)
  PROVE  PresenceInv'
<1> USE PresenceAssumption DEF PresenceInv
<1>0. prOps \subseteq StoreOps
  BY DEF PresenceTypeOK, StoreOps
<1>f. ASSUME NEW w \in PresWorkers, prLive[w] = "fresh"
      PROVE  /\ Pruned(prLive)[w] = "fresh" /\ Pruned(prLive) # Nobody
             /\ \A v \in PresWorkers : v # w =>
                  /\ Pruned([prLive EXCEPT ![v] = "none"])[w] = "fresh"
                  /\ Pruned([prLive EXCEPT ![v] = "none"]) # Nobody
  BY <1>f DEF Pruned, Nobody, PresenceTypeOK
<1>1. ASSUME NEW o \in prOps, StoreAdd(o) PROVE PresenceInv'
  <2>0. o \in StoreOps /\ StoreOp("members", o.w, o.t) \in StoreOps
    BY <1>0 DEF StoreOp, StoreOps
  <2>1. /\ prPayload' = TRUE /\ prLive' = [prLive EXCEPT ![o.w] = "fresh"]
        /\ prOps' = (prOps \ {o}) \cup {StoreOp("members", o.w, o.t)}
        /\ prRaced' = IF RemovalUnderWay(o.w) THEN prRaced \cup {o.w} ELSE prRaced \ {o.w}
        /\ o.op = "add" /\ UNCHANGED <<prLocal, prOpens>>
    BY <1>1 DEF StoreAdd, Becomes
  <2>2. PresenceTypeOK'
    BY <2>0, <2>1 DEF PresenceTypeOK, StoreOps
  <2>3. ASSUME NEW w \in PresWorkers, w # o.w, Safe(w) PROVE Safe(w)'
    BY <2>0, <2>1, <2>3 DEF Safe, RemovalUnderWay, StoreOp, StoreOps,
       PresenceTypeOK
  <2>4. ASSUME ~ RemovalUnderWay(o.w) PROVE Safe(o.w)'
    BY <2>0, <2>1, <2>4 DEF Safe, RemovalUnderWay, StoreOp, StoreOps,
       PresenceTypeOK
  <2>5. TabsAreStored'
    BY <2>0, <2>1, <2>3, <2>4 DEF TabsAreStored
  <2> QED BY <2>1, <2>2, <2>5
<1>2. ASSUME NEW o \in prOps, Members(o) PROVE PresenceInv'
  <2>0. o \in StoreOps /\ StoreOp("orphan", o.w, o.t) \in StoreOps
    BY <1>0 DEF StoreOp, StoreOps
  <2>1. /\ prLive' = Pruned(prLive) /\ o.op = "members"
        /\ prOps' = (prOps \ {o}) \cup
             (IF prPayload /\ Pruned(prLive) = Nobody
              THEN {StoreOp("orphan", o.w, o.t)} ELSE {})
        /\ UNCHANGED <<prLocal, prPayload, prOpens, prRaced>>
    BY <1>2 DEF Members, Becomes
  <2>2. PresenceTypeOK'
    BY <2>0, <2>1 DEF PresenceTypeOK, StoreOps, Pruned
  <2>3. TabsAreStored'
    BY <1>f, <2>0, <2>1 DEF TabsAreStored, Safe, RemovalUnderWay, StoreOp
  <2> QED BY <2>1, <2>2, <2>3
<1>3. ASSUME NEW o \in prOps, StoreRemove(o) PROVE PresenceInv'
  <2> DEFINE op == IF Pruned([prLive EXCEPT ![o.w] = "none"]) = Nobody
                   THEN "hdel" ELSE "members"
  <2>0. o \in StoreOps /\ StoreOp(op, o.w, NoTab) \in StoreOps
    BY <1>0 DEF StoreOp, StoreOps
  <2>1. /\ prLive' = Pruned([prLive EXCEPT ![o.w] = "none"])
        /\ o.op = "remove"
        /\ prOps' = (prOps \ {o}) \cup {StoreOp(op, o.w, NoTab)}
        /\ UNCHANGED <<prLocal, prPayload, prOpens, prRaced>>
    BY <1>3 DEF StoreRemove, Becomes
  <2>2. PresenceTypeOK'
    BY <2>0, <2>1 DEF PresenceTypeOK, StoreOps, Pruned
  <2>3. ASSUME NEW w \in PresWorkers, Safe(w) PROVE Safe(w)'
    <3>1. w # o.w
      BY <2>1, <2>3 DEF Safe, RemovalUnderWay
    <3>2. prLive'[w] = "fresh" /\ op = "members"
      BY <1>f, <2>0, <2>1, <2>3, <3>1 DEF Safe, StoreOps
    <3>3. \A x \in prOps' : x.op \notin {"hdel", "orphan"}
                            /\ (x.op = "remove" => x.w # w)
      BY <2>1, <2>3, <3>2 DEF Safe, RemovalUnderWay, StoreOp
    <3> QED BY <2>1, <2>3, <3>2, <3>3 DEF Safe, RemovalUnderWay
  <2>4. TabsAreStored'
    BY <2>1, <2>3 DEF TabsAreStored
  <2> QED BY <2>1, <2>2, <2>4
<1>4. ASSUME NEW o \in prOps, DeletePayload(o) PROVE PresenceInv'
  <2>0. o \in StoreOps /\ StoreOp("members", o.w, NoTab) \in StoreOps
    BY <1>0 DEF StoreOp, StoreOps
  <2>1. /\ o.op \in {"hdel", "orphan"} /\ prPayload' = FALSE
        /\ prOps' = (prOps \ {o}) \cup
             (IF o.op = "hdel" THEN {StoreOp("members", o.w, NoTab)} ELSE {})
        /\ UNCHANGED <<prLocal, prLive, prOpens, prRaced>>
    BY <1>4 DEF DeletePayload, Becomes
  <2>2. PresenceTypeOK'
    BY <2>0, <2>1 DEF PresenceTypeOK, StoreOps
  <2>3. \A w \in PresWorkers : ~ Safe(w)
    BY <2>1 DEF Safe, RemovalUnderWay
  <2>4. TabsAreStored'
    BY <2>1, <2>3 DEF TabsAreStored
  <2> QED BY <2>1, <2>2, <2>4
<1>5. ASSUME NEW o \in prOps, RefreshMany(o) PROVE PresenceInv'
  <2>0. o \in StoreOps
    BY <1>0
  <2>1. /\ prLive' = [prLive EXCEPT ![o.w] = "fresh"] /\ o.op = "refresh"
        /\ prOps' = prOps \ {o}
        /\ UNCHANGED <<prLocal, prPayload, prOpens, prRaced>>
    BY <1>5 DEF RefreshMany, Becomes
  <2>2. PresenceTypeOK'
    BY <2>0, <2>1 DEF PresenceTypeOK, StoreOps
  <2>3. TabsAreStored'
    BY <2>0, <2>1 DEF TabsAreStored, Safe, RemovalUnderWay, StoreOps,
       PresenceTypeOK
  <2> QED BY <2>1, <2>2, <2>3
<1>6. ASSUME NEW v \in PresWorkers, HeartbeatRead(v) PROVE PresenceInv'
  <2>0. StoreOp("refresh", v, NoTab) \in StoreOps
    BY DEF StoreOp, StoreOps
  <2>1. /\ prOps' = prOps \cup {StoreOp("refresh", v, NoTab)}
        /\ UNCHANGED <<prLocal, prLive, prPayload, prOpens, prRaced>>
    BY <1>6 DEF HeartbeatRead
  <2>2. PresenceTypeOK'
    BY <2>0, <2>1 DEF PresenceTypeOK, StoreOps
  <2>3. TabsAreStored'
    BY <2>1 DEF TabsAreStored, Safe, RemovalUnderWay, StoreOp
  <2> QED BY <2>1, <2>2, <2>3
<1>7. ASSUME NEW v \in PresWorkers, LivenessExpires(v) PROVE PresenceInv'
  <2>1. /\ prLive' = [prLive EXCEPT ![v] = "stale"] /\ ~ prLocal[v].member
        /\ UNCHANGED <<prLocal, prPayload, prOps, prOpens, prRaced>>
    BY <1>7 DEF LivenessExpires
  <2>2. PresenceTypeOK'
    BY <2>1 DEF PresenceTypeOK
  <2>3. TabsAreStored'
    BY <2>1 DEF TabsAreStored, Safe, RemovalUnderWay, PresenceTypeOK
  <2> QED BY <2>1, <2>2, <2>3
<1> QED BY <1>1, <1>2, <1>3, <1>4, <1>5, <1>6, <1>7 DEF StoreStep

(* A user with a tab open on a worker is listed once the store is quiet,   *)
(* unless the last arrival on that worker fell into a removal already      *)
(* under way: for any number of workers and tabs, whatever removals,       *)
(* expiries, heartbeats and deaths of other workers run between the        *)
(* pipelines after it (realtime/presence_store.py).                        *)
THEOREM PresenceHolds == PresenceSpec => []PresenceSafe
<1>1. PresenceInv /\ [PresenceNext]_prVars => PresenceInv'
  <2> SUFFICES ASSUME PresenceInv, [PresenceNext]_prVars PROVE PresenceInv'
    OBVIOUS
  <2>1. CASE UNCHANGED prVars
    BY <2>1 DEF prVars, PresenceInv, PresenceTypeOK, TabsAreStored, Safe,
       RemovalUnderWay
  <2> QED BY <2>1, PresenceLocalStep, PresenceStoreStep DEF PresenceNext
<1>2. PresenceInv => PresenceSafe
  <2> SUFFICES ASSUME PresenceInv, Settled,
                      NEW w \in PresWorkers \ prRaced, prLocal[w].tabs # {}
               PROVE  Listed
    BY DEF PresenceSafe, PresentUnlessRaced, PresenceInv
  <2>2. Safe(w)
    BY DEF PresenceInv, TabsAreStored, Settled
  <2> QED BY <2>2 DEF Safe, Listed
<1> QED BY <1>1, <1>2, PresenceInitInv, PTL DEF PresenceSpec
(***************************************************************************)
(* Sockets.                                                                *)
(***************************************************************************)

Sock == [pc : {"closed", "hello", "greeted", "open"}, room : Rooms,
         epoch : Nat \X Nat, read : Nat, tracked : BOOLEAN, revoked : BOOLEAN]

Node == [epoch : Nat, gap : Nat, up : BOOLEAN, inbox : SUBSET Scopes]

(* A socket that is served, or that will be once it has joined: its        *)
(* handshake is past the reads and the epoch it took still stands.         *)
Admitted(s) ==
    \/ rtSock[s].pc = "open" /\ MayServe(s)
    \/ rtSock[s].pc = "greeted" /\ EpochHeld(s)

(* Word of a revocation reaches the worker, or was given up. *)
Noticed(w, room) ==
    OnItsWay(w, room) \/ \E x \in rtLost : room \in x

(* Whoever was authorised before a revocation of the room and is admitted  *)
(* all the same is on a worker that has yet to hear of it.                 *)
StaleIsNoticed ==
    \A s \in Sockets :
        Admitted(s) /\ rtSock[s].read < rtAccess[rtSock[s].room].rev
            => Noticed(Host[s], rtSock[s].room)

(* The epoch a handshake took is never ahead of its worker's, so one that  *)
(* has moved stays moved.                                                  *)
EpochsPast ==
    \A s \in Sockets : rtSock[s].pc # "closed" =>
        /\ rtSock[s].epoch[1] <= rtNode[Host[s]].epoch
        /\ rtSock[s].epoch[2] <= rtNode[Host[s]].gap

RealtimeTypes ==
    /\ RealtimeTypeOK
    /\ rtSock \in [Sockets -> Sock]
    /\ rtNode \in [Workers -> Node]
    /\ rtAccess["board"].rev <= rtAccess["note"].rev
    /\ \A e \in rtEvict : e.at = "retrying" => e.left >= 1

RealtimeInv == RealtimeTypes /\ EpochsPast /\ StaleIsNoticed

(* Every scope of a revocation is a set of rooms, the notice room included.*)
LEMMA ScopesHaveNote == \A x \in Scopes : x \subseteq Rooms /\ "note" \in x
BY DEF Scopes, Rooms

(* A socket that is closed is neither tracked nor owed anything.           *)
LEMMA ClosedSock == Closed \in Sock /\ Closed.pc = "closed"
                    /\ ~ Closed.tracked /\ ~ Closed.revoked
BY DEF Closed, Sock, Rooms

(* The invariant of the sockets holds at the start.                        *)
LEMMA RealtimeInitInv == RealtimeInit => RealtimeInv
<1> SUFFICES ASSUME RealtimeInit PROVE RealtimeInv
  OBVIOUS
<1> USE RealtimeAssumption
<1>1. \A s \in Sockets : rtSock[s] = Closed
  BY DEF RealtimeInit
<1>2. rtSock \in [Sockets -> Sock]
  BY ClosedSock DEF RealtimeInit
<1>3. rtNode \in [Workers -> Node]
  BY DEF RealtimeInit, Node
<1>4. rtAccess \in [Rooms -> [may : BOOLEAN, rev : 0 .. MaxRevocations]]
  BY DEF RealtimeInit
<1>5. RealtimeTypeOK
  BY <1>1, <1>4, ClosedSock DEF RealtimeTypeOK, RealtimeInit
<1>6. RealtimeTypes
  BY <1>2, <1>3, <1>5 DEF RealtimeTypes, RealtimeInit, Rooms
<1>7. EpochsPast /\ StaleIsNoticed
  BY <1>1, ClosedSock DEF EpochsPast, StaleIsNoticed, Admitted
<1> QED BY <1>6, <1>7 DEF RealtimeInv

(* One socket changes to k, which is admitted only if it was, with the     *)
(* same reads, or has just read.                                           *)
LEMMA OneSocket ==
  ASSUME RealtimeInv, NEW s \in Sockets, NEW k \in Sock,
         rtSock' = [rtSock EXCEPT ![s] = k],
         UNCHANGED <<rtAccess, rtNode, rtEvict, rtLost, rtFaults>>,
         k.tracked => k.pc = "open",
         k.revoked => k.tracked,
         k.pc # "closed" => /\ k.epoch[1] <= rtNode[Host[s]].epoch
                            /\ k.epoch[2] <= rtNode[Host[s]].gap,
         \/ Admitted(s)' => /\ Admitted(s)
                            /\ k.room = rtSock[s].room
                            /\ k.read = rtSock[s].read
         \/ k.read = rtAccess[k.room].rev
  PROVE  RealtimeInv'
<1> USE RealtimeAssumption DEF RealtimeInv
<1>1. \A x \in Sockets : rtSock'[x] = IF x = s THEN k ELSE rtSock[x]
  BY DEF RealtimeTypes
<1>2. RealtimeTypes'
  BY <1>1 DEF RealtimeTypes, RealtimeTypeOK, Sock
<1>3. EpochsPast'
  BY <1>1 DEF EpochsPast
<1>4. ASSUME NEW x \in Sockets, x # s PROVE Admitted(x)' <=> Admitted(x)
  BY <1>1, <1>4 DEF Admitted, MayServe, EpochHeld, Epoch
<1>5. \A w, room : Noticed(w, room)' <=> Noticed(w, room)
  BY DEF Noticed, OnItsWay
<1>6. rtAccess[k.room].rev \in Nat
  BY DEF RealtimeTypes, RealtimeTypeOK, Sock
<1>7. StaleIsNoticed'
  BY <1>1, <1>4, <1>5, <1>6 DEF StaleIsNoticed
<1> QED BY <1>2, <1>3, <1>7

(* The steps of a single socket keep the invariant.                        *)
LEMMA SocketSteps ==
  ASSUME RealtimeInv, NEW s \in Sockets,
         \/ \E r \in Rooms : Hello(s, r)
         \/ Authorize(s) \/ Join(s) \/ RefuseFrame(s) \/ SendFails(s) \/ Disconnect(s)
  PROVE  RealtimeInv'
<1> USE RealtimeAssumption
<1>0. /\ rtSock \in [Sockets -> Sock] /\ rtSock[s] \in Sock
      /\ rtNode \in [Workers -> Node] /\ rtNode[Host[s]] \in Node
      /\ rtSock[s].tracked => rtSock[s].pc = "open"
      /\ rtSock[s].revoked => rtSock[s].tracked
  BY DEF RealtimeInv, RealtimeTypes, RealtimeTypeOK
<1>e. rtSock[s].pc # "closed" => /\ rtSock[s].epoch[1] <= rtNode[Host[s]].epoch
                                 /\ rtSock[s].epoch[2] <= rtNode[Host[s]].gap
  BY DEF RealtimeInv, EpochsPast
<1>c. ASSUME rtSock' = [rtSock EXCEPT ![s] = Closed],
             UNCHANGED <<rtAccess, rtNode, rtEvict, rtLost, rtFaults>>
      PROVE  RealtimeInv'
  <2>1. rtSock'[s] = Closed
    BY <1>c, <1>0
  <2>2. ~ Admitted(s)'
    BY <2>1, ClosedSock DEF Admitted
  <2> QED BY <1>c, <2>2, ClosedSock, OneSocket
<1>1. ASSUME NEW r \in Rooms, Hello(s, r) PROVE RealtimeInv'
  <2>1. PICK k : k = [Closed EXCEPT !.pc = "hello", !.room = r, !.epoch = Epoch(Host[s])]
    OBVIOUS
  <2>2. k \in Sock
    BY <2>1, <1>0 DEF Closed, Sock, Epoch, Node
  <2>3. /\ k.pc = "hello" /\ ~ k.tracked /\ ~ k.revoked
        /\ k.epoch[1] = rtNode[Host[s]].epoch /\ k.epoch[2] = rtNode[Host[s]].gap
    BY <2>1, <1>0 DEF Closed, Epoch
  <2>4. /\ rtSock' = [rtSock EXCEPT ![s] = k]
        /\ UNCHANGED <<rtAccess, rtNode, rtEvict, rtLost, rtFaults>>
    BY <1>1, <2>1 DEF Hello
  <2>5. ~ Admitted(s)'
    BY <2>4, <2>3, <1>0 DEF Admitted
  <2>6. rtNode[Host[s]].epoch \in Nat /\ rtNode[Host[s]].gap \in Nat
    BY <1>0 DEF Node
  <2>7. k.epoch[1] <= rtNode[Host[s]].epoch /\ k.epoch[2] <= rtNode[Host[s]].gap
    BY <2>3, <2>6
  <2> QED BY <2>2, <2>3, <2>4, <2>5, <2>7, OneSocket
<1>2. ASSUME Authorize(s) PROVE RealtimeInv'
  <2>0. PICK a : a = rtAccess[rtSock[s].room]
    OBVIOUS
  <2>1. a \in [may : BOOLEAN, rev : 0 .. MaxRevocations] /\ rtSock[s].room \in Rooms
    BY <2>0, <1>0 DEF RealtimeInv, RealtimeTypes, RealtimeTypeOK, Sock
  <2>2. CASE ~ a.may
    BY <1>2, <2>0, <2>2, <1>c DEF Authorize
  <2>3. CASE a.may
    <3>1. PICK k : k = [rtSock[s] EXCEPT !.pc = "greeted", !.read = a.rev]
      OBVIOUS
    <3>2. k \in Sock
      <4>1. a.rev \in Nat
        BY <2>1
      <4> QED BY <3>1, <1>0, <4>1 DEF Sock
    <3>3. /\ k.pc = "greeted" /\ k.read = rtAccess[k.room].rev
          /\ k.tracked = rtSock[s].tracked /\ k.revoked = rtSock[s].revoked
          /\ k.epoch = rtSock[s].epoch
      BY <3>1, <1>0, <2>0 DEF Sock
    <3>4. /\ rtSock' = [rtSock EXCEPT ![s] = k]
          /\ UNCHANGED <<rtAccess, rtNode, rtEvict, rtLost, rtFaults>>
          /\ rtSock[s].pc = "hello"
      BY <1>2, <2>0, <2>3, <3>1 DEF Authorize
    <3> QED BY <3>2, <3>3, <3>4, <1>0, <1>e, OneSocket
  <2> QED BY <2>1, <2>2, <2>3
<1>3. ASSUME Join(s) PROVE RealtimeInv'
  <2>1. CASE ~ EpochHeld(s)
    BY <1>3, <2>1, <1>c DEF Join
  <2>2. CASE EpochHeld(s)
    <3>1. PICK k : k = [rtSock[s] EXCEPT !.pc = "open", !.tracked = TRUE]
      OBVIOUS
    <3>2. k \in Sock
      BY <3>1, <1>0 DEF Sock
    <3>3. /\ k.pc = "open" /\ k.tracked /\ k.read = rtSock[s].read
          /\ k.room = rtSock[s].room /\ k.epoch = rtSock[s].epoch
      BY <3>1, <1>0 DEF Sock
    <3>4. /\ rtSock' = [rtSock EXCEPT ![s] = k]
          /\ UNCHANGED <<rtAccess, rtNode, rtEvict, rtLost, rtFaults>>
          /\ rtSock[s].pc = "greeted"
      BY <1>3, <2>2, <3>1 DEF Join
    <3>5. Admitted(s)
      BY <3>4, <2>2 DEF Admitted
    <3> QED BY <3>2, <3>3, <3>4, <3>5, <1>e, OneSocket
  <2> QED BY <2>1, <2>2
<1>4. ASSUME RefuseFrame(s) \/ Disconnect(s) PROVE RealtimeInv'
  BY <1>4, <1>c DEF RefuseFrame, Disconnect, Leave
<1>5. ASSUME SendFails(s) PROVE RealtimeInv'
  <2>1. PICK k : k = [rtSock[s] EXCEPT !.tracked = FALSE]
    OBVIOUS
  <2>2. k \in Sock
    BY <2>1, <1>0 DEF Sock
  <2>3. /\ k.pc = rtSock[s].pc /\ ~ k.tracked /\ k.revoked = rtSock[s].revoked
        /\ k.epoch = rtSock[s].epoch
    BY <2>1, <1>0 DEF Sock
  <2>4. /\ rtSock' = [rtSock EXCEPT ![s] = k]
        /\ UNCHANGED <<rtAccess, rtNode, rtEvict, rtLost, rtFaults>>
        /\ rtSock[s].pc = "open" /\ ~ rtSock[s].revoked
    BY <1>5, <2>1 DEF SendFails, MayServe
  <2>5. ~ Admitted(s)'
    BY <2>3, <2>4, <1>0 DEF Admitted, MayServe
  <2> QED BY <2>2, <2>3, <2>4, <2>5, <1>e, OneSocket
<1> QED BY <1>1, <1>2, <1>3, <1>4, <1>5

(* A worker that marks the sockets of a scope and moves its epoch: no      *)
(* socket of the scope stays admitted there, no other becomes admitted.    *)
LEMMA Marked ==
  ASSUME RealtimeInv, NEW w \in Workers, NEW scope,
         rtSock' = [s \in Sockets |->
                      IF Host[s] = w /\ rtSock[s].tracked /\ rtSock[s].room \in scope
                      THEN [rtSock[s] EXCEPT !.revoked = TRUE] ELSE rtSock[s]],
         rtNode' \in [Workers -> Node],
         \A x \in Workers \ {w} : rtNode'[x] = rtNode[x],
         rtNode'[w].epoch >= rtNode[w].epoch,
         rtNode'[w].gap >= rtNode[w].gap,
         Epoch(w)' # Epoch(w)
  PROVE  /\ rtSock' \in [Sockets -> Sock]
         /\ \A s \in Sockets : /\ rtSock'[s].tracked => rtSock'[s].pc = "open"
                               /\ rtSock'[s].revoked => rtSock'[s].tracked
                               /\ rtSock'[s].room = rtSock[s].room
                               /\ rtSock'[s].read = rtSock[s].read
         /\ EpochsPast'
         /\ \A s \in Sockets : Admitted(s)' => /\ Admitted(s)
                                               /\ Host[s] = w => rtSock[s].room \notin scope
<1> USE RealtimeAssumption
<1>0. /\ rtSock \in [Sockets -> Sock] /\ rtNode \in [Workers -> Node]
      /\ \A s \in Sockets : /\ rtSock[s].tracked => rtSock[s].pc = "open"
                            /\ rtSock[s].revoked => rtSock[s].tracked
  BY DEF RealtimeInv, RealtimeTypes, RealtimeTypeOK
<1>1. ASSUME NEW s \in Sockets
      PROVE  /\ rtSock'[s] \in Sock
             /\ rtSock'[s].pc = rtSock[s].pc /\ rtSock'[s].room = rtSock[s].room
             /\ rtSock'[s].read = rtSock[s].read /\ rtSock'[s].epoch = rtSock[s].epoch
             /\ rtSock'[s].tracked = rtSock[s].tracked
             /\ rtSock'[s].revoked => rtSock[s].revoked \/ rtSock[s].tracked
             /\ rtSock[s].revoked => rtSock'[s].revoked
             /\ Host[s] = w /\ rtSock[s].tracked /\ rtSock[s].room \in scope
                  => rtSock'[s].revoked
  <2>0. rtSock[s] \in Sock
    BY <1>0
  <2>1. PICK k : k = [rtSock[s] EXCEPT !.revoked = TRUE]
    OBVIOUS
  <2>2. /\ k \in Sock /\ k.pc = rtSock[s].pc /\ k.room = rtSock[s].room
        /\ k.read = rtSock[s].read /\ k.epoch = rtSock[s].epoch
        /\ k.tracked = rtSock[s].tracked /\ k.revoked
    BY <2>0, <2>1 DEF Sock
  <2>3. rtSock'[s] = IF Host[s] = w /\ rtSock[s].tracked /\ rtSock[s].room \in scope
                     THEN k ELSE rtSock[s]
    BY <2>1
  <2>4. CASE Host[s] = w /\ rtSock[s].tracked /\ rtSock[s].room \in scope
    BY <2>2, <2>3, <2>4
  <2>5. CASE ~ (Host[s] = w /\ rtSock[s].tracked /\ rtSock[s].room \in scope)
    <3>1. rtSock'[s] = rtSock[s]
      BY <2>3, <2>5
    <3> QED BY <3>1, <2>0, <2>5
  <2> QED BY <2>4, <2>5
<1>2. rtSock' \in [Sockets -> Sock]
  BY <1>1
<1>3. ASSUME NEW s \in Sockets
      PROVE  /\ rtNode'[Host[s]].epoch >= rtNode[Host[s]].epoch
             /\ rtNode'[Host[s]].gap >= rtNode[Host[s]].gap
  <2>1. Host[s] \in Workers
    OBVIOUS
  <2>2. /\ rtNode[Host[s]].epoch \in Nat /\ rtNode[Host[s]].gap \in Nat
    BY <2>1, <1>0 DEF Node
  <2> QED BY <2>1, <2>2
<1>4. EpochsPast'
  <2> SUFFICES ASSUME NEW s \in Sockets, rtSock[s].pc # "closed"
               PROVE  /\ rtSock[s].epoch[1] <= rtNode'[Host[s]].epoch
                      /\ rtSock[s].epoch[2] <= rtNode'[Host[s]].gap
    BY <1>1 DEF EpochsPast
  <2>1. /\ rtSock[s].epoch[1] <= rtNode[Host[s]].epoch
        /\ rtSock[s].epoch[2] <= rtNode[Host[s]].gap
    BY DEF RealtimeInv, EpochsPast
  <2>2. /\ rtSock[s].epoch[1] \in Nat /\ rtSock[s].epoch[2] \in Nat
        /\ rtNode[Host[s]] \in Node /\ rtNode'[Host[s]] \in Node
    BY <1>0 DEF Sock
  <2> QED BY <2>1, <2>2, <1>3 DEF Node
<1>5. ASSUME NEW s \in Sockets, Admitted(s)'
      PROVE  Admitted(s) /\ (Host[s] = w => rtSock[s].room \notin scope)
  <2>1. CASE rtSock'[s].pc = "open" /\ MayServe(s)'
    BY <2>1, <1>1 DEF Admitted, MayServe
  <2>2. CASE rtSock'[s].pc = "greeted" /\ EpochHeld(s)'
    <3>1. rtSock[s].pc = "greeted" /\ Epoch(Host[s])' = rtSock[s].epoch
      BY <2>2, <1>1 DEF EpochHeld
    <3>2. CASE Host[s] # w
      <4>1. Epoch(Host[s])' = Epoch(Host[s])
        BY <3>2 DEF Epoch
      <4> QED BY <3>1, <3>2, <4>1 DEF Admitted, EpochHeld
    <3>3. CASE Host[s] = w
      <4>1. /\ rtSock[s].epoch[1] <= rtNode[w].epoch
            /\ rtSock[s].epoch[2] <= rtNode[w].gap
        BY <3>1, <3>3 DEF RealtimeInv, EpochsPast
      <4>2. /\ rtSock[s].epoch[1] = rtNode'[w].epoch
            /\ rtSock[s].epoch[2] = rtNode'[w].gap
        BY <3>1, <3>3 DEF Epoch
      <4>3. /\ rtNode[w].epoch \in Nat /\ rtNode[w].gap \in Nat
            /\ rtNode'[w].epoch \in Nat /\ rtNode'[w].gap \in Nat
        BY <1>0 DEF Node
      <4>4. rtNode'[w].epoch = rtNode[w].epoch /\ rtNode'[w].gap = rtNode[w].gap
        BY <4>1, <4>2, <4>3, SMTT(40)
      <4>5. Epoch(w)' = Epoch(w)
        BY <4>4 DEF Epoch
      <4> QED BY <4>5
    <3> QED BY <3>2, <3>3
  <2> QED BY <1>5, <2>1, <2>2 DEF Admitted
<1> QED BY <1>0, <1>1, <1>2, <1>4, <1>5

(* Revoking access, with the eviction it schedules, keeps the invariant.   *)
LEMMA RevokeStep ==
  ASSUME RealtimeInv, NEW x \in Scopes, NEW w \in Workers, Revoke(x, w)
  PROVE  RealtimeInv'
<1> USE RealtimeAssumption DEF RealtimeInv
<1>0. /\ rtAccess \in [Rooms -> [may : BOOLEAN, rev : 0 .. MaxRevocations]]
      /\ rtAccess["board"].rev <= rtAccess["note"].rev
  BY DEF RealtimeTypes, RealtimeTypeOK
<1>1. \A r \in Rooms : rtAccess[r].rev \in Nat /\ rtAccess[r].rev < MaxRevocations
  BY <1>0 DEF Revoke, Revocations, Rooms
<1>2. \A r \in Rooms : rtAccess'[r] = IF r \in x THEN [may |-> FALSE, rev |-> rtAccess[r].rev + 1]
                                      ELSE rtAccess[r]
  BY DEF Revoke
<1>3. rtAccess' \in [Rooms -> [may : BOOLEAN, rev : 0 .. MaxRevocations]]
  <2>1. \A r \in Rooms : [may |-> FALSE, rev |-> rtAccess[r].rev + 1]
                           \in [may : BOOLEAN, rev : 0 .. MaxRevocations]
    BY <1>1
  <2> QED BY <1>0, <2>1 DEF Revoke
<1>4. rtAccess'["board"].rev <= rtAccess'["note"].rev
  BY <1>0, <1>1, <1>2, ScopesHaveNote DEF Rooms
<1>5. PICK e : e = [scope |-> x, origin |-> w, left |-> EvictAttempts, at |-> "emitted"]
  OBVIOUS
<1>6. e \in Eviction /\ e.at = "emitted" /\ e.scope = x
  BY <1>5 DEF Eviction
<1>7. rtEvict' = rtEvict \cup {e} /\ UNCHANGED <<rtSock, rtNode, rtLost, rtFaults>>
  BY <1>5 DEF Revoke
<1>8. RealtimeTypes'
  BY <1>3, <1>4, <1>6, <1>7 DEF RealtimeTypes, RealtimeTypeOK
<1>9. EpochsPast'
  BY <1>7 DEF EpochsPast
<1>10. StaleIsNoticed'
  <2> SUFFICES ASSUME NEW s \in Sockets, Admitted(s)',
                      rtSock'[s].read < rtAccess'[rtSock'[s].room].rev
               PROVE  Noticed(Host[s], rtSock[s].room)'
    BY <1>7 DEF StaleIsNoticed
  <2>1. Admitted(s) /\ rtSock[s].room \in Rooms
    BY <1>7 DEF Admitted, MayServe, EpochHeld, Epoch, RealtimeTypes, Sock
  <2>2. CASE rtSock[s].room \in x
    BY <2>2, <1>6, <1>7 DEF Noticed, OnItsWay
  <2>3. CASE rtSock[s].room \notin x
    <3>1. rtSock[s].read < rtAccess[rtSock[s].room].rev
      BY <2>1, <2>3, <1>2, <1>7
    <3>2. Noticed(Host[s], rtSock[s].room)
      BY <3>1, <2>1 DEF StaleIsNoticed
    <3> QED BY <3>2, <1>7 DEF Noticed, OnItsWay
  <2> QED BY <2>2, <2>3
<1> QED BY <1>8, <1>9, <1>10

(* Giving access back keeps the invariant.                                 *)
LEMMA RegrantStep ==
  ASSUME RealtimeInv, Regrant
  PROVE  RealtimeInv'
<1> USE RealtimeAssumption DEF RealtimeInv
<1>0. rtAccess \in [Rooms -> [may : BOOLEAN, rev : 0 .. MaxRevocations]]
  BY DEF RealtimeTypes, RealtimeTypeOK
<1>1. ASSUME NEW r \in Rooms
      PROVE  /\ rtAccess'[r] \in [may : BOOLEAN, rev : 0 .. MaxRevocations]
             /\ rtAccess'[r].rev = rtAccess[r].rev
  <2>1. rtAccess'[r] = [rtAccess[r] EXCEPT !.may = TRUE]
    BY DEF Regrant
  <2> QED BY <2>1, <1>0
<1>2. rtAccess' \in [Rooms -> [may : BOOLEAN, rev : 0 .. MaxRevocations]]
  BY <1>1 DEF Regrant
<1>3. UNCHANGED <<rtSock, rtNode, rtEvict, rtLost, rtFaults>>
  BY DEF Regrant
<1>4. RealtimeTypes'
  BY <1>1, <1>2, <1>3 DEF RealtimeTypes, RealtimeTypeOK, Rooms
<1>5. EpochsPast'
  BY <1>3 DEF EpochsPast
<1>6. StaleIsNoticed'
  <2>1. \A s \in Sockets : rtSock[s].room \in Rooms
    BY DEF RealtimeTypes, Sock
  <2>2. \A s \in Sockets : Admitted(s)' <=> Admitted(s)
    BY <1>3 DEF Admitted, MayServe, EpochHeld, Epoch
  <2>3. \A v, room : Noticed(v, room)' <=> Noticed(v, room)
    BY <1>3 DEF Noticed, OnItsWay
  <2> QED BY <1>1, <1>3, <2>1, <2>2, <2>3 DEF StaleIsNoticed
<1> QED BY <1>4, <1>5, <1>6

(* What a marking step still has to show: the word it does not take away. *)
LEMMA MarkedInv ==
  ASSUME RealtimeInv, NEW w \in Workers, NEW scope,
         rtSock' = [s \in Sockets |->
                      IF Host[s] = w /\ rtSock[s].tracked /\ rtSock[s].room \in scope
                      THEN [rtSock[s] EXCEPT !.revoked = TRUE] ELSE rtSock[s]],
         rtNode' \in [Workers -> Node],
         \A x \in Workers \ {w} : rtNode'[x] = rtNode[x],
         rtNode'[w].epoch >= rtNode[w].epoch,
         rtNode'[w].gap >= rtNode[w].gap,
         Epoch(w)' # Epoch(w),
         UNCHANGED <<rtAccess, rtLost, rtFaults>>,
         rtEvict' \subseteq Eviction,
         \A e \in rtEvict' : e.at = "retrying" => e.left >= 1,
         \A v \in Workers, room \in Rooms :
            Noticed(v, room) /\ (v = w => room \notin scope) => Noticed(v, room)'
  PROVE  RealtimeInv'
<1> USE RealtimeAssumption
<1>1. /\ rtSock' \in [Sockets -> Sock]
      /\ \A s \in Sockets : /\ rtSock'[s].tracked => rtSock'[s].pc = "open"
                            /\ rtSock'[s].revoked => rtSock'[s].tracked
                            /\ rtSock'[s].room = rtSock[s].room
                            /\ rtSock'[s].read = rtSock[s].read
      /\ EpochsPast'
      /\ \A s \in Sockets : Admitted(s)' => /\ Admitted(s)
                                            /\ Host[s] = w => rtSock[s].room \notin scope
  BY Marked
<1>2. RealtimeTypes'
  BY <1>1 DEF RealtimeInv, RealtimeTypes, RealtimeTypeOK, Sock, Node
<1>3. StaleIsNoticed'
  <2> SUFFICES ASSUME NEW s \in Sockets, Admitted(s)',
                      rtSock'[s].read < rtAccess'[rtSock'[s].room].rev
               PROVE  Noticed(Host[s], rtSock[s].room)'
    BY DEF StaleIsNoticed
  <2>1. /\ Admitted(s) /\ Host[s] \in Workers
        /\ Host[s] = w => rtSock[s].room \notin scope
        /\ rtSock'[s].room = rtSock[s].room /\ rtSock'[s].read = rtSock[s].read
    BY <1>1
  <2>2. rtSock[s].room \in Rooms
    BY DEF RealtimeInv, RealtimeTypes, Sock
  <2>3. Noticed(Host[s], rtSock[s].room)
    BY <2>1 DEF RealtimeInv, StaleIsNoticed
  <2>4. Noticed(Host[s], rtSock[s].room)'
    <3>1. PICK v \in Workers, room \in Rooms : v = Host[s] /\ room = rtSock[s].room
      BY <2>1, <2>2
    <3>2. Noticed(v, room)'
      BY <3>1, <2>1, <2>3
    <3> QED BY <3>1, <3>2, <2>1 DEF Noticed, OnItsWay
  <2> QED BY <2>4
<1> QED BY <1>1, <1>2, <1>3 DEF RealtimeInv

(* Evicting the sockets of the worker at hand keeps the invariant.         *)
LEMMA EvictLocalStep ==
  ASSUME RealtimeInv, NEW e \in rtEvict, EvictLocal(e)
  PROVE  RealtimeInv'
<1> USE RealtimeAssumption
<1>0. /\ rtNode \in [Workers -> Node] /\ rtEvict \subseteq Eviction
      /\ \A d \in rtEvict : d.at = "retrying" => d.left >= 1
  BY DEF RealtimeInv, RealtimeTypes, RealtimeTypeOK
<1>1. PICK w \in Workers : w = e.origin
  BY <1>0 DEF Eviction
<1>2. e \in Eviction /\ e.at = "emitted"
  BY <1>0 DEF EvictLocal
<1>3. PICK d : d = [e EXCEPT !.at = "publishing"]
  OBVIOUS
<1>4. /\ d \in Eviction /\ d.at = "publishing" /\ d.scope = e.scope /\ d.origin = e.origin
  BY <1>2, <1>3 DEF Eviction
<1>5. rtEvict' = (rtEvict \ {e}) \cup {d} /\ UNCHANGED <<rtAccess, rtLost, rtFaults>>
  BY <1>3 DEF EvictLocal
<1>6. PICK n : n = [rtNode[w] EXCEPT !.epoch = @ + 1]
  OBVIOUS
<1>7. /\ n \in Node /\ n.epoch = rtNode[w].epoch + 1 /\ n.gap = rtNode[w].gap
      /\ n.up = rtNode[w].up /\ n.inbox = rtNode[w].inbox
      /\ rtNode[w].epoch \in Nat /\ rtNode[w].gap \in Nat
  BY <1>0, <1>6 DEF Node
<1>8. rtNode' = [rtNode EXCEPT ![w] = n]
  BY <1>1, <1>6 DEF EvictLocal, MarkRevoked
<1>9. \A v \in Workers : rtNode'[v] = IF v = w THEN n ELSE rtNode[v]
  BY <1>0, <1>8
<1>10. /\ rtNode' \in [Workers -> Node] /\ rtNode'[w].epoch >= rtNode[w].epoch
       /\ rtNode'[w].gap >= rtNode[w].gap
  BY <1>0, <1>7, <1>8, <1>9
<1>11. Epoch(w)' # Epoch(w)
  BY <1>7, <1>9 DEF Epoch
<1>12. ASSUME NEW v \in Workers, NEW room \in Rooms, Noticed(v, room),
              v = w => room \notin e.scope
       PROVE  Noticed(v, room)'
  <2>1. rtNode'[v].up = rtNode[v].up /\ rtNode'[v].inbox = rtNode[v].inbox
    BY <1>7, <1>9
  <2>2. CASE \E x \in rtEvict : room \in x.scope /\ ~ (x.origin = v /\ x.at # "emitted")
    <3>1. PICK x \in rtEvict : room \in x.scope /\ ~ (x.origin = v /\ x.at # "emitted")
      BY <2>2
    <3>2. CASE x = e
      BY <3>1, <3>2, <1>1, <1>4, <1>5, <1>12 DEF Noticed, OnItsWay
    <3>3. CASE x # e
      BY <3>1, <3>3, <1>5 DEF Noticed, OnItsWay
    <3> QED BY <3>2, <3>3
  <2>3. CASE ~ \E x \in rtEvict : room \in x.scope /\ ~ (x.origin = v /\ x.at # "emitted")
    BY <2>1, <2>3, <1>5, <1>12 DEF Noticed, OnItsWay
  <2> QED BY <2>2, <2>3
<1>13. rtSock' = [s \in Sockets |->
                    IF Host[s] = w /\ rtSock[s].tracked /\ rtSock[s].room \in e.scope
                    THEN [rtSock[s] EXCEPT !.revoked = TRUE] ELSE rtSock[s]]
  BY <1>1 DEF EvictLocal, MarkRevoked
<1>14. /\ rtEvict' \subseteq Eviction
       /\ \A x \in rtEvict' : x.at = "retrying" => x.left >= 1
       /\ \A x \in Workers \ {w} : rtNode'[x] = rtNode[x]
  BY <1>0, <1>4, <1>5, <1>9
<1>15. PICK scope : scope = e.scope
  OBVIOUS
<1>16. \A v \in Workers, room \in Rooms :
          Noticed(v, room) /\ (v = w => room \notin scope) => Noticed(v, room)'
  BY <1>12, <1>15
<1> QED BY <1>5, <1>10, <1>11, <1>13, <1>14, <1>15, <1>16, MarkedInv, SMTT(60)

(* What hearing a message, losing the relay and rejoining it do to a worker.*)
LEMMA NodeUpdates ==
  ASSUME NEW n \in Node, NEW scope
  PROVE  /\ n.epoch \in Nat /\ n.gap \in Nat
         /\ Heard(n, scope) \in Node
         /\ Heard(n, scope).epoch = n.epoch + 1 /\ Heard(n, scope).gap = n.gap
         /\ Heard(n, scope).up = n.up /\ Heard(n, scope).inbox = n.inbox \ {scope}
         /\ Rejoined(n) \in Node
         /\ Rejoined(n).epoch = n.epoch /\ Rejoined(n).gap = n.gap + 1
<1>1. Heard(n, scope).epoch = n.epoch + 1 /\ Heard(n, scope).gap = n.gap
  BY DEF Heard, Node
<1>2. Heard(n, scope).up = n.up /\ Heard(n, scope).inbox = n.inbox \ {scope}
  BY DEF Heard, Node
<1>3. Rejoined(n).epoch = n.epoch /\ Rejoined(n).gap = n.gap + 1
  BY DEF Rejoined, Node
<1>4. Heard(n, scope) \in Node
  <2>1. PICK m : m = [n EXCEPT !.epoch = n.epoch + 1]
    OBVIOUS
  <2>2. m \in Node
    BY <2>1 DEF Node
  <2>3. [m EXCEPT !.inbox = n.inbox \ {scope}] \in Node
    BY <2>2 DEF Node
  <2> QED BY <2>1, <2>3 DEF Heard
<1>5. Rejoined(n) \in Node
  <2>1. PICK m : m = [n EXCEPT !.up = TRUE]
    OBVIOUS
  <2>2. m \in Node
    BY <2>1 DEF Node
  <2>4. n.gap + 1 \in Nat
    BY DEF Node
  <2>3. [m EXCEPT !.gap = n.gap + 1] \in Node
    BY <2>2, <2>4 DEF Node
  <2> QED BY <2>1, <2>3 DEF Rejoined
<1>6. n.epoch \in Nat /\ n.gap \in Nat
  BY DEF Node
<1> QED BY <1>1, <1>2, <1>3, <1>4, <1>5, <1>6

(* A relayed eviction keeps the invariant.                                 *)
LEMMA RelayedStep ==
  ASSUME RealtimeInv, NEW w \in Workers, NEW scope \in Scopes, Relayed(w, scope)
  PROVE  RealtimeInv'
<1> USE RealtimeAssumption
<1>0. /\ rtNode \in [Workers -> Node] /\ rtEvict \subseteq Eviction
      /\ \A d \in rtEvict : d.at = "retrying" => d.left >= 1
  BY DEF RealtimeInv, RealtimeTypes, RealtimeTypeOK
<1>1. PICK n : n = Heard(rtNode[w], scope)
  OBVIOUS
<1>2. /\ n \in Node /\ n.epoch = rtNode[w].epoch + 1 /\ n.gap = rtNode[w].gap
      /\ n.up = rtNode[w].up /\ n.inbox = rtNode[w].inbox \ {scope}
      /\ rtNode[w].epoch \in Nat /\ rtNode[w].gap \in Nat
  BY <1>0, <1>1, NodeUpdates
<1>3. rtNode' = [rtNode EXCEPT ![w] = n]
  BY <1>1 DEF Relayed
<1>4. \A v \in Workers : rtNode'[v] = IF v = w THEN n ELSE rtNode[v]
  BY <1>0, <1>3
<1>5. /\ rtNode' \in [Workers -> Node] /\ rtNode'[w].epoch >= rtNode[w].epoch
      /\ rtNode'[w].gap >= rtNode[w].gap
  BY <1>0, <1>2, <1>3, <1>4
<1>6. Epoch(w)' # Epoch(w)
  BY <1>2, <1>4 DEF Epoch
<1>7. UNCHANGED <<rtAccess, rtEvict, rtLost, rtFaults>>
  BY DEF Relayed
<1>8. ASSUME NEW v \in Workers, NEW room \in Rooms, Noticed(v, room),
             v = w => room \notin scope
      PROVE  Noticed(v, room)'
  <2>1. rtNode'[v].up = rtNode[v].up
    BY <1>2, <1>4
  <2>2. (\E x \in rtNode[v].inbox : room \in x) => (\E x \in rtNode'[v].inbox : room \in x)
    BY <1>2, <1>4, <1>8
  <2> QED BY <2>1, <2>2, <1>7, <1>8 DEF Noticed, OnItsWay
<1>9. rtSock' = [s \in Sockets |->
                    IF Host[s] = w /\ rtSock[s].tracked /\ rtSock[s].room \in scope
                    THEN [rtSock[s] EXCEPT !.revoked = TRUE] ELSE rtSock[s]]
  BY DEF Relayed
<1>10. /\ rtEvict' \subseteq Eviction
       /\ \A x \in rtEvict' : x.at = "retrying" => x.left >= 1
       /\ \A x \in Workers \ {w} : rtNode'[x] = rtNode[x]
  BY <1>0, <1>4, <1>7
<1> QED BY <1>5, <1>6, <1>7, <1>8, <1>9, <1>10, MarkedInv, SMTT(60)

(* Coming back to the relay keeps the invariant.                           *)
LEMMA ResubscribeStep ==
  ASSUME RealtimeInv, NEW w \in Workers, Resubscribe(w)
  PROVE  RealtimeInv'
<1> USE RealtimeAssumption
<1>0. /\ rtNode \in [Workers -> Node] /\ rtEvict \subseteq Eviction
      /\ \A d \in rtEvict : d.at = "retrying" => d.left >= 1
      /\ \A s \in Sockets : rtSock[s].room \in Rooms
  BY DEF RealtimeInv, RealtimeTypes, RealtimeTypeOK, Sock
<1>1. PICK n : n = Rejoined(rtNode[w])
  OBVIOUS
<1>2. /\ n \in Node /\ n.epoch = rtNode[w].epoch /\ n.gap = rtNode[w].gap + 1
      /\ rtNode[w].epoch \in Nat /\ rtNode[w].gap \in Nat
  BY <1>0, <1>1, NodeUpdates
<1>3. rtNode' = [rtNode EXCEPT ![w] = n]
  BY <1>1 DEF Resubscribe
<1>4. \A v \in Workers : rtNode'[v] = IF v = w THEN n ELSE rtNode[v]
  BY <1>0, <1>3
<1>5. /\ rtNode' \in [Workers -> Node] /\ rtNode'[w].epoch >= rtNode[w].epoch
      /\ rtNode'[w].gap >= rtNode[w].gap
  BY <1>0, <1>2, <1>3, <1>4
<1>6. Epoch(w)' # Epoch(w)
  BY <1>2, <1>4 DEF Epoch
<1>7. UNCHANGED <<rtAccess, rtEvict, rtLost, rtFaults>>
  BY DEF Resubscribe
<1>8. ASSUME NEW v \in Workers, NEW room \in Rooms, Noticed(v, room),
             v = w => room \notin Rooms
      PROVE  Noticed(v, room)'
  <2>1. rtNode'[v] = rtNode[v]
    BY <1>4, <1>8
  <2> QED BY <2>1, <1>7, <1>8 DEF Noticed, OnItsWay
<1>9. rtSock' = [s \in Sockets |->
                    IF Host[s] = w /\ rtSock[s].tracked /\ rtSock[s].room \in Rooms
                    THEN [rtSock[s] EXCEPT !.revoked = TRUE] ELSE rtSock[s]]
  BY <1>0 DEF Resubscribe
<1>10. /\ rtEvict' \subseteq Eviction
       /\ \A x \in rtEvict' : x.at = "retrying" => x.left >= 1
       /\ \A x \in Workers \ {w} : rtNode'[x] = rtNode[x]
  BY <1>0, <1>4, <1>7
<1> QED BY <1>5, <1>6, <1>7, <1>8, <1>9, <1>10, MarkedInv

(* Sockets and epochs stay as they are and no word is taken away. *)
LEMMA RelayKeepsWord ==
  ASSUME RealtimeInv,
         UNCHANGED <<rtAccess, rtSock>>,
         rtNode' \in [Workers -> Node],
         \A w \in Workers : Epoch(w)' = Epoch(w),
         rtEvict' \subseteq Eviction,
         \A e \in rtEvict' : e.at = "retrying" => e.left >= 1,
         rtLost' \subseteq Scopes,
         rtFaults' \in 0 .. MaxFaults,
         \A v \in Workers, room \in Rooms : Noticed(v, room) => Noticed(v, room)'
  PROVE  RealtimeInv'
<1> USE RealtimeAssumption
<1>1. RealtimeTypes'
  BY DEF RealtimeInv, RealtimeTypes, RealtimeTypeOK, Node
<1>2. \A w \in Workers : /\ rtNode'[w].epoch = rtNode[w].epoch
                         /\ rtNode'[w].gap = rtNode[w].gap
  BY DEF Epoch
<1>3. EpochsPast'
  BY <1>2 DEF RealtimeInv, EpochsPast
<1>4. \A s \in Sockets : Admitted(s)' => Admitted(s)
  BY DEF Admitted, MayServe, EpochHeld
<1>5. \A s \in Sockets : rtSock[s].room \in Rooms /\ Host[s] \in Workers
  BY DEF RealtimeInv, RealtimeTypes, Sock
<1>6. StaleIsNoticed'
  <2> SUFFICES ASSUME NEW s \in Sockets, Admitted(s)',
                      rtSock[s].read < rtAccess[rtSock[s].room].rev
               PROVE  Noticed(Host[s], rtSock[s].room)'
    BY DEF StaleIsNoticed
  <2>1. PICK v \in Workers, room \in Rooms : v = Host[s] /\ room = rtSock[s].room
    BY <1>5
  <2>2. Noticed(v, room)
    BY <2>1, <1>4 DEF RealtimeInv, StaleIsNoticed
  <2>3. Noticed(v, room)'
    BY <2>2
  <2> QED BY <2>1, <2>3 DEF Noticed, OnItsWay
<1> QED BY <1>1, <1>3, <1>6 DEF RealtimeInv

(* A publication that goes through keeps the invariant.                    *)
LEMMA PublishStep ==
  ASSUME RealtimeInv, NEW e \in rtEvict, Publish(e)
  PROVE  RealtimeInv'
<1> USE RealtimeAssumption
<1>0. /\ rtNode \in [Workers -> Node] /\ rtEvict \subseteq Eviction
      /\ rtLost \subseteq Scopes /\ rtFaults \in 0 .. MaxFaults
      /\ \A d \in rtEvict : d.at = "retrying" => d.left >= 1
  BY DEF RealtimeInv, RealtimeTypes, RealtimeTypeOK
<1>1. e.scope \in Scopes /\ e.at # "emitted"
  BY <1>0 DEF Publish, Eviction
<1>2. ASSUME NEW w \in Workers
      PROVE  /\ rtNode'[w] \in Node /\ rtNode'[w].up = rtNode[w].up
             /\ Epoch(w)' = Epoch(w)
             /\ rtNode[w].inbox \subseteq rtNode'[w].inbox
             /\ rtNode[w].up /\ w # e.origin => e.scope \in rtNode'[w].inbox
  <2>0. rtNode[w] \in Node
    BY <1>0
  <2>1. PICK n : n = [rtNode[w] EXCEPT !.inbox = rtNode[w].inbox \cup {e.scope}]
    OBVIOUS
  <2>2. /\ n \in Node /\ n.up = rtNode[w].up /\ n.epoch = rtNode[w].epoch
        /\ n.gap = rtNode[w].gap /\ n.inbox = rtNode[w].inbox \cup {e.scope}
    BY <2>0, <2>1, <1>1 DEF Node
  <2>3. rtNode'[w] = IF rtNode[w].up /\ w # e.origin THEN n ELSE rtNode[w]
    BY <2>1 DEF Publish
  <2>4. CASE rtNode[w].up /\ w # e.origin
    BY <2>2, <2>3, <2>4 DEF Epoch
  <2>5. CASE ~ (rtNode[w].up /\ w # e.origin)
    <3>1. rtNode'[w] = rtNode[w]
      BY <2>3, <2>5
    <3> QED BY <3>1, <2>0, <2>5 DEF Epoch
  <2> QED BY <2>4, <2>5
<1>3. /\ rtEvict' = rtEvict \ {e}
      /\ UNCHANGED <<rtAccess, rtSock, rtLost, rtFaults>>
  BY DEF Publish
<1>4. rtNode' \in [Workers -> Node]
  BY <1>2 DEF Publish
<1>5. ASSUME NEW v \in Workers, NEW room \in Rooms, Noticed(v, room)
      PROVE  Noticed(v, room)'
  <2>1. CASE rtNode[v].up /\ v # e.origin /\ room \in e.scope
    BY <2>1, <1>2 DEF Noticed, OnItsWay
  <2>2. CASE ~ rtNode[v].up
    BY <2>2, <1>2 DEF Noticed, OnItsWay
  <2>3. CASE v = e.origin \/ room \notin e.scope
    BY <2>3, <1>1, <1>2, <1>3, <1>5 DEF Noticed, OnItsWay
  <2> QED BY <2>1, <2>2, <2>3
<1> QED BY <1>0, <1>2, <1>3, <1>4, <1>5, RelayKeepsWord

(* A publication that fails, the last retry included, keeps the invariant. *)
LEMMA PublishFailsStep ==
  ASSUME RealtimeInv, NEW e \in rtEvict, PublishFails(e)
  PROVE  RealtimeInv'
<1> USE RealtimeAssumption
<1>0. /\ rtNode \in [Workers -> Node] /\ rtEvict \subseteq Eviction
      /\ rtLost \subseteq Scopes /\ rtFaults \in 0 .. MaxFaults
      /\ \A d \in rtEvict : d.at = "retrying" => d.left >= 1
  BY DEF RealtimeInv, RealtimeTypes, RealtimeTypeOK
<1>1. /\ e \in Eviction /\ e.at \in {"publishing", "retrying"}
      /\ e.at = "retrying" => e.left >= 1
  BY <1>0 DEF PublishFails, Eviction
<1>2. PICK left : left = IF e.at = "publishing" THEN e.left ELSE e.left - 1
  OBVIOUS
<1>3. left \in 0 .. EvictAttempts
  BY <1>1, <1>2 DEF Eviction
<1>4. PICK d : d = [e EXCEPT !.at = "retrying", !.left = left]
  OBVIOUS
<1>5. /\ d \in Eviction /\ d.at = "retrying" /\ d.left = left
      /\ d.scope = e.scope /\ d.origin = e.origin
  BY <1>1, <1>3, <1>4 DEF Eviction
<1>6. /\ rtFaults' \in 0 .. MaxFaults
      /\ UNCHANGED <<rtAccess, rtSock, rtNode>>
  BY <1>0 DEF PublishFails
<1>7. \/ left = 0 /\ rtLost' = rtLost \cup {e.scope} /\ rtEvict' = rtEvict \ {e}
      \/ left # 0 /\ rtLost' = rtLost /\ rtEvict' = (rtEvict \ {e}) \cup {d}
  BY <1>2, <1>4 DEF PublishFails
<1>8. /\ rtEvict' \subseteq Eviction /\ rtLost' \subseteq Scopes
      /\ \A x \in rtEvict' : x.at = "retrying" => x.left >= 1
  <2>1. CASE left = 0
    BY <2>1, <1>0, <1>1, <1>7 DEF Eviction
  <2>2. CASE left # 0
    BY <2>2, <1>0, <1>3, <1>5, <1>7
  <2> QED BY <2>1, <2>2
<1>9. ASSUME NEW v \in Workers, NEW room \in Rooms, Noticed(v, room)
      PROVE  Noticed(v, room)'
  <2>1. CASE ~ \E x \in rtEvict : room \in x.scope /\ ~ (x.origin = v /\ x.at # "emitted")
    BY <2>1, <1>6, <1>7, <1>9 DEF Noticed, OnItsWay
  <2>2. CASE \E x \in rtEvict : room \in x.scope /\ ~ (x.origin = v /\ x.at # "emitted")
    <3>1. PICK x \in rtEvict : room \in x.scope /\ ~ (x.origin = v /\ x.at # "emitted")
      BY <2>2
    <3>2. CASE x # e
      BY <3>1, <3>2, <1>7 DEF Noticed, OnItsWay
    <3>3. CASE x = e
      BY <3>1, <3>3, <1>1, <1>5, <1>7 DEF Noticed, OnItsWay
    <3> QED BY <3>2, <3>3
  <2> QED BY <2>1, <2>2
<1>10. \A w \in Workers : Epoch(w)' = Epoch(w)
  BY <1>6 DEF Epoch
<1> QED BY <1>0, <1>6, <1>8, <1>9, <1>10, RelayKeepsWord

(* Losing the relay keeps the invariant.                                   *)
LEMMA DropStep ==
  ASSUME RealtimeInv, NEW w \in Workers, Drop(w)
  PROVE  RealtimeInv'
<1> USE RealtimeAssumption
<1>0. /\ rtNode \in [Workers -> Node] /\ rtEvict \subseteq Eviction
      /\ rtLost \subseteq Scopes /\ rtFaults \in 0 .. MaxFaults
      /\ \A d \in rtEvict : d.at = "retrying" => d.left >= 1
  BY DEF RealtimeInv, RealtimeTypes, RealtimeTypeOK
<1>1. PICK n : n = [rtNode[w] EXCEPT !.up = FALSE, !.inbox = {}]
  OBVIOUS
<1>2. /\ n \in Node /\ ~ n.up /\ n.epoch = rtNode[w].epoch /\ n.gap = rtNode[w].gap
  <2>1. rtNode[w] \in Node
    BY <1>0
  <2>2. PICK m : m = [rtNode[w] EXCEPT !.up = FALSE]
    OBVIOUS
  <2>3. /\ m \in Node /\ ~ m.up
    BY <2>1, <2>2 DEF Node
  <2>4. m.epoch = rtNode[w].epoch /\ m.gap = rtNode[w].gap
    BY <2>1, <2>2 DEF Node
  <2>5. n = [m EXCEPT !.inbox = {}]
    BY <1>1, <2>2
  <2> QED BY <2>3, <2>4, <2>5 DEF Node
<1>3. rtNode' = [rtNode EXCEPT ![w] = n]
  BY <1>1 DEF Drop
<1>4. \A v \in Workers : rtNode'[v] = IF v = w THEN n ELSE rtNode[v]
  BY <1>0, <1>3
<1>5. rtNode' \in [Workers -> Node] /\ \A v \in Workers : Epoch(v)' = Epoch(v)
  BY <1>0, <1>2, <1>3, <1>4 DEF Epoch
<1>6. /\ UNCHANGED <<rtAccess, rtSock, rtEvict, rtLost>>
      /\ rtFaults' \in 0 .. MaxFaults
  BY <1>0 DEF Drop
<1>7. \A v \in Workers, room \in Rooms : Noticed(v, room) => Noticed(v, room)'
  BY <1>2, <1>4, <1>6 DEF Noticed, OnItsWay
<1> QED BY <1>0, <1>5, <1>6, <1>7, RelayKeepsWord

(* Once access to a room is revoked no socket authorised before is served  *)
(* there, on any number of workers and with any interleaving of            *)
(* handshakes, evictions, retries and lost subscriptions, unless word of   *)
(* the revocation is still under way to its worker or was given up.        *)
THEOREM SocketsHold == RealtimeSpec => []SocketsSafe
<1>1. RealtimeInit => RealtimeInv
  BY RealtimeInitInv
<1>2. RealtimeInv /\ [RealtimeNext]_rtVars => RealtimeInv'
  <2> SUFFICES ASSUME RealtimeInv, [RealtimeNext]_rtVars PROVE RealtimeInv'
    OBVIOUS
  <2>1. ASSUME NEW s \in Sockets,
               \/ \E r \in Rooms : Hello(s, r)
               \/ Authorize(s) \/ Join(s) \/ RefuseFrame(s) \/ SendFails(s) \/ Disconnect(s)
        PROVE  RealtimeInv'
    BY <2>1, SocketSteps
  <2>2. ASSUME NEW x \in Scopes, NEW w \in Workers, Revoke(x, w) PROVE RealtimeInv'
    BY <2>2, RevokeStep
  <2>3. ASSUME Regrant PROVE RealtimeInv'
    BY <2>3, RegrantStep
  <2>4. ASSUME NEW e \in rtEvict, EvictLocal(e) \/ Publish(e) \/ PublishFails(e)
        PROVE  RealtimeInv'
    BY <2>4, EvictLocalStep, PublishStep, PublishFailsStep
  <2>5. ASSUME NEW w \in Workers, Resubscribe(w) PROVE RealtimeInv'
    BY <2>5, ResubscribeStep
  <2>6. ASSUME NEW w \in Workers, NEW x \in Scopes, Relayed(w, x) PROVE RealtimeInv'
    BY <2>6, RelayedStep
  <2>7. ASSUME NEW w \in Workers, Drop(w) PROVE RealtimeInv'
    BY <2>7, DropStep
  <2>8. CASE UNCHANGED rtVars
    BY <2>8 DEF rtVars, RealtimeInv, RealtimeTypes, RealtimeTypeOK, EpochsPast,
                StaleIsNoticed, Admitted, MayServe, EpochHeld, Epoch, Noticed, OnItsWay
  <2> QED BY <2>1, <2>2, <2>3, <2>4, <2>5, <2>6, <2>7, <2>8 DEF RealtimeNext, Deliver
<1>3. RealtimeInv => SocketsSafe
  <2> SUFFICES ASSUME RealtimeInv PROVE SocketsSafe
    OBVIOUS
  <2>1. RealtimeTypeOK
    BY DEF RealtimeInv, RealtimeTypes
  <2>2. RevokedIsInert
    BY DEF RealtimeInv, StaleIsNoticed, Admitted, Noticed, RevokedIsInert, Stale
  <2> QED BY <2>1, <2>2 DEF SocketsSafe
<1> QED BY <1>1, <1>2, <1>3, PTL DEF RealtimeSpec

-----------------------------------------------------------------------------
(***************************************************************************)
(* Unique flags.  A flag somebody knows was hashed on its row before it    *)
(* could be taken and the hash stays; a container stands only while its    *)
(* row is active; and an instance never changes hands, so a solve and an   *)
(* accusation once recorded stay right.                                    *)
(***************************************************************************)
InstanceRow == [status : ActiveStatuses \cup {"absent", "destroyed"},
                team : FlagTeams \cup {0}, user : FlagPlayers \cup {0},
                hashed : BOOLEAN, inside : BOOLEAN]

PostRow == [pc : {"idle", "grading"}, team : FlagTeams \cup {0}, flag : InstIds \cup {0}]

UniqueTypes ==
    /\ UniqueTypeOK
    /\ ufInst \in [InstIds -> InstanceRow]
    /\ ufPost \in [FlagPlayers -> PostRow]
    /\ \A p \in FlagPlayers : ufPost[p].pc = "grading" => ufPost[p].team \in FlagTeams

(* A container stands only beside an active row; a row with a hash exists. *)
RowSound(r) ==
    /\ r.inside => r.status \in {"provisioning", "running", "expiring"}
    /\ r.hashed => r.status # "absent"

FlagsKnown ==
    /\ \A p \in FlagPlayers : \A i \in ufKnows[p] : ufInst[i].hashed
    /\ \A p \in FlagPlayers : ufPost[p].flag # 0 => ufInst[ufPost[p].flag].hashed

RecordsStand ==
    /\ \A s \in ufSolved : ufInst[s[2]].status # "absent" /\ ufInst[s[2]].team = s[1]
    /\ \A f \in ufFlagged : ufInst[f[2]].status # "absent" /\ ufInst[f[2]].user # f[1]

UniqueInv ==
    /\ UniqueTypes
    /\ \A i \in InstIds : RowSound(ufInst[i])
    /\ FlagsKnown
    /\ RecordsStand
    /\ ~ ufMissed

(* An instance not launched yet.                                           *)
LEMMA NoInstanceRow ==
  /\ NoInstance \in InstanceRow /\ NoInstance.status = "absent"
  /\ ~ NoInstance.hashed /\ ~ NoInstance.inside
BY DEF NoInstance, InstanceRow

(* The invariant of the unique flags holds at the start.                   *)
LEMMA UniqueInitInv == UniqueInit => UniqueInv
<1> SUFFICES ASSUME UniqueInit PROVE UniqueInv
  OBVIOUS
<1> USE UniqueAssumption
<1>1. \A i \in InstIds : ufInst[i] = NoInstance
  BY DEF UniqueInit
<1>2. ufInst \in [InstIds -> InstanceRow]
  BY NoInstanceRow DEF UniqueInit
<1>3. NoPost \in PostRow /\ NoPost.pc = "idle" /\ NoPost.flag = 0
  BY DEF NoPost, PostRow
<1>4. ufPost \in [FlagPlayers -> PostRow] /\ \A p \in FlagPlayers : ufPost[p] = NoPost
  BY <1>3 DEF UniqueInit
<1>5. UniqueTypeOK
  BY <1>1, NoInstanceRow DEF UniqueTypeOK, UniqueInit
<1>6. UniqueTypes
  BY <1>2, <1>3, <1>4, <1>5 DEF UniqueTypes
<1>7. \A i \in InstIds : RowSound(ufInst[i])
  BY <1>1, NoInstanceRow DEF RowSound
<1>8. FlagsKnown /\ RecordsStand /\ ~ ufMissed
  BY <1>3, <1>4 DEF FlagsKnown, RecordsStand, UniqueInit
<1> QED BY <1>6, <1>7, <1>8 DEF UniqueInv

(* One row changes to r, keeping its hash and, once launched, its owners.  *)
LEMMA OneInstance ==
  ASSUME UniqueInv, NEW i \in InstIds, NEW r \in InstanceRow,
         ufInst' = [ufInst EXCEPT ![i] = r],
         RowSound(r),
         ufInst[i].hashed => r.hashed,
         ufInst[i].status # "absent" => /\ r.status # "absent"
                                        /\ r.team = ufInst[i].team
                                        /\ r.user = ufInst[i].user,
         PlayStays, UNCHANGED ufKnows
  PROVE  UniqueInv'
<1> USE UniqueAssumption DEF PlayStays
<1>0. ufInst \in [InstIds -> InstanceRow] /\ UniqueTypeOK
  BY DEF UniqueInv, UniqueTypes
<1>1. \A j \in InstIds : ufInst'[j] = IF j = i THEN r ELSE ufInst[j]
  BY <1>0
<1>2. ufInst' \in [InstIds -> InstanceRow]
  BY <1>0
<1>3. UniqueTypes'
  BY <1>2 DEF UniqueInv, UniqueTypes, UniqueTypeOK, InstanceRow
<1>4. \A j \in InstIds : RowSound(ufInst'[j])
  BY <1>1 DEF UniqueInv
<1>5. \A j \in InstIds : /\ ufInst[j].hashed => ufInst'[j].hashed
                         /\ ufInst[j].status # "absent" =>
                              /\ ufInst'[j].status # "absent"
                              /\ ufInst'[j].team = ufInst[j].team
                              /\ ufInst'[j].user = ufInst[j].user
  BY <1>1
<1>6. /\ \A p \in FlagPlayers : ufKnows[p] \subseteq InstIds
      /\ \A p \in FlagPlayers : ufPost[p].flag \in InstIds \cup {0}
      /\ \A s \in ufSolved : s[2] \in InstIds
      /\ \A f \in ufFlagged : f[2] \in InstIds
  BY DEF UniqueInv, UniqueTypes, UniqueTypeOK, PostRow
<1>7. FlagsKnown'
  BY <1>5, <1>6 DEF UniqueInv, FlagsKnown
<1>8. RecordsStand'
  BY <1>5, <1>6 DEF UniqueInv, RecordsStand
<1>9. ~ ufMissed'
  BY DEF UniqueInv
<1> QED BY <1>3, <1>4, <1>7, <1>8, <1>9 DEF UniqueInv

(* The steps of an instance's own life keep the invariant.                 *)
LEMMA InstanceSteps ==
  ASSUME UniqueInv, NEW i \in InstIds,
         \/ FlagInjected(i) \/ InstanceRuns(i) \/ InstanceEnds(i)
         \/ \E p \in FlagPlayers : LaunchUnique(p, i)
  PROVE  UniqueInv'
<1> USE UniqueAssumption
<1>0. ufInst \in [InstIds -> InstanceRow] /\ ufInst[i] \in InstanceRow /\ RowSound(ufInst[i])
  BY DEF UniqueInv, UniqueTypes
<1>1. ASSUME FlagInjected(i) PROVE UniqueInv'
  <2>1. PICK r : r = [ufInst[i] EXCEPT !.inside = TRUE]
    OBVIOUS
  <2>2. /\ r \in InstanceRow /\ r.status = ufInst[i].status
        /\ r.team = ufInst[i].team /\ r.user = ufInst[i].user
    BY <1>0, <2>1 DEF InstanceRow
  <2>3. r.hashed = ufInst[i].hashed
    BY <1>0, <2>1 DEF InstanceRow
  <2>4. /\ ufInst' = [ufInst EXCEPT ![i] = r] /\ ufInst[i].status = "provisioning"
        /\ PlayStays /\ UNCHANGED ufKnows
    BY <1>1, <2>1 DEF FlagInjected
  <2>5. RowSound(r)
    BY <2>2, <2>4 DEF RowSound
  <2> QED BY <2>2, <2>3, <2>4, <2>5, OneInstance
<1>2. ASSUME InstanceRuns(i) PROVE UniqueInv'
  <2>0. PICK m : m = [ufInst[i] EXCEPT !.status = "running"]
    OBVIOUS
  <2>1. PICK r : r = [m EXCEPT !.hashed = TRUE]
    OBVIOUS
  <2>2. /\ m \in InstanceRow /\ m.status = "running"
        /\ m.team = ufInst[i].team /\ m.user = ufInst[i].user
    BY <1>0, <2>0 DEF InstanceRow, ActiveStatuses
  <2>3. /\ r \in InstanceRow /\ r.status = "running" /\ r.hashed
        /\ r.team = ufInst[i].team /\ r.user = ufInst[i].user
    BY <2>1, <2>2 DEF InstanceRow
  <2>4. /\ ufInst' = [ufInst EXCEPT ![i] = r]
        /\ PlayStays /\ UNCHANGED ufKnows
    BY <1>2, <1>0, <2>0, <2>1 DEF InstanceRuns
  <2>5. RowSound(r)
    BY <2>3 DEF RowSound
  <2> QED BY <2>3, <2>4, <2>5, OneInstance
<1>3. ASSUME InstanceEnds(i) PROVE UniqueInv'
  <2>0. PICK m : m = [ufInst[i] EXCEPT
                        !.status = IF @ = "expiring" THEN "destroyed" ELSE "expiring"]
    OBVIOUS
  <2>1. PICK r : r = [m EXCEPT !.inside = ufInst[i].inside /\ ufInst[i].status # "expiring"]
    OBVIOUS
  <2>2. /\ m \in InstanceRow
        /\ m.status = IF ufInst[i].status = "expiring" THEN "destroyed" ELSE "expiring"
        /\ m.team = ufInst[i].team /\ m.user = ufInst[i].user
    BY <1>0, <2>0 DEF InstanceRow, ActiveStatuses
  <2>3. m.hashed = ufInst[i].hashed
    BY <1>0, <2>0 DEF InstanceRow
  <2>4. /\ r \in InstanceRow /\ r.status = m.status
        /\ r.team = m.team /\ r.user = m.user
    BY <2>1, <2>2 DEF InstanceRow
  <2>5. r.hashed = m.hashed
    BY <2>1, <2>2 DEF InstanceRow
  <2>6. r.inside <=> ufInst[i].inside /\ ufInst[i].status # "expiring"
    BY <2>1, <2>2 DEF InstanceRow
  <2>7. /\ ufInst' = [ufInst EXCEPT ![i] = r]
        /\ PlayStays /\ UNCHANGED ufKnows
    BY <1>3, <1>0, <2>0, <2>1 DEF InstanceEnds
  <2>8. r.status # "absent"
    BY <2>2, <2>4
  <2>9. RowSound(r)
    BY <2>2, <2>4, <2>6, <2>8 DEF RowSound
  <2> QED BY <2>2, <2>3, <2>4, <2>5, <2>7, <2>8, <2>9, OneInstance
<1>4. ASSUME NEW p \in FlagPlayers, LaunchUnique(p, i) PROVE UniqueInv'
  <2>1. PICK r : r = [NoInstance EXCEPT !.status = "provisioning", !.team = ufTeam[p],
                                        !.user = p]
    OBVIOUS
  <2>2. ufTeam[p] \in FlagTeams
    BY DEF UniqueInv, UniqueTypes, UniqueTypeOK
  <2>3. r \in InstanceRow /\ r.status = "provisioning" /\ ~ r.hashed /\ ~ r.inside
    BY <2>1, <2>2 DEF InstanceRow, NoInstance, ActiveStatuses
  <2>4. /\ ufInst' = [ufInst EXCEPT ![i] = r] /\ ufInst[i].status = "absent"
        /\ PlayStays /\ UNCHANGED ufKnows
    BY <1>4, <2>1 DEF LaunchUnique
  <2>5. ~ ufInst[i].hashed
    BY <1>0, <2>4 DEF RowSound
  <2>6. RowSound(r)
    BY <2>3 DEF RowSound
  <2> QED BY <2>3, <2>4, <2>5, <2>6, OneInstance
<1> QED BY <1>1, <1>2, <1>3, <1>4

(* Learning a flag that exists keeps the invariant.                        *)
LEMMA KnowsStep ==
  ASSUME UniqueInv, NEW p \in FlagPlayers, NEW i \in InstIds, ufInst[i].hashed,
         ufKnows' = [ufKnows EXCEPT ![p] = @ \cup {i}], UNCHANGED ufInst, PlayStays
  PROVE  UniqueInv'
<1> USE UniqueAssumption DEF PlayStays
<1>1. ufKnows \in [FlagPlayers -> SUBSET InstIds]
  BY DEF UniqueInv, UniqueTypes, UniqueTypeOK
<1>2. ufKnows' \in [FlagPlayers -> SUBSET InstIds]
  BY <1>1
<1>3. UniqueTypes'
  BY <1>2 DEF UniqueInv, UniqueTypes, UniqueTypeOK
<1>4. \A q \in FlagPlayers : ufKnows'[q] \subseteq ufKnows[q] \cup {i}
  BY <1>1
<1>5. FlagsKnown'
  BY <1>4 DEF UniqueInv, FlagsKnown
<1> QED BY <1>3, <1>5 DEF UniqueInv, RecordsStand

(* Taking, telling, changing teams and posting keep the invariant.         *)
LEMMA PlayerSteps ==
  ASSUME UniqueInv, NEW p \in FlagPlayers,
         \/ \E i \in InstIds : TakesFlag(p, i) \/ \E o \in FlagPlayers : TellsFlag(p, o, i)
         \/ \E t \in FlagTeams : SwitchesTeam(p, t)
         \/ \E i \in InstIds \cup {0} : PostReads(p, i)
  PROVE  UniqueInv'
<1> USE UniqueAssumption
<1>1. ASSUME NEW i \in InstIds, TakesFlag(p, i) PROVE UniqueInv'
  BY <1>1, KnowsStep DEF TakesFlag
<1>2. ASSUME NEW i \in InstIds, NEW o \in FlagPlayers, TellsFlag(p, o, i) PROVE UniqueInv'
  <2>1. ufInst[i].hashed
    BY <1>2 DEF TellsFlag, UniqueInv, FlagsKnown
  <2> QED BY <1>2, <2>1, KnowsStep DEF TellsFlag
<1>3. ASSUME NEW t \in FlagTeams, SwitchesTeam(p, t) PROVE UniqueInv'
  <2>1. UniqueTypes'
    BY <1>3 DEF SwitchesTeam, UniqueInv, UniqueTypes, UniqueTypeOK
  <2> QED BY <1>3, <2>1 DEF SwitchesTeam, UniqueInv, FlagsKnown, RecordsStand
<1>4. ASSUME NEW i \in InstIds \cup {0}, PostReads(p, i) PROVE UniqueInv'
  <2>1. PICK k : k = [pc |-> "grading", team |-> ufTeam[p], flag |-> i]
    OBVIOUS
  <2>2. ufTeam[p] \in FlagTeams /\ ufPost \in [FlagPlayers -> PostRow]
    BY DEF UniqueInv, UniqueTypes, UniqueTypeOK
  <2>3. k \in PostRow /\ k.team \in FlagTeams /\ k.flag = i
    BY <2>1, <2>2 DEF PostRow
  <2>4. /\ ufPost' = [ufPost EXCEPT ![p] = k] /\ i \in ufKnows[p] \cup {0}
        /\ UNCHANGED <<ufTeam, ufInst, ufKnows, ufSolved, ufFlagged, ufSwitched, ufMissed>>
    BY <1>4, <2>1 DEF PostReads
  <2>5. \A q \in FlagPlayers : ufPost'[q] = IF q = p THEN k ELSE ufPost[q]
    BY <2>2, <2>4
  <2>6. ufPost' \in [FlagPlayers -> PostRow]
    BY <2>2, <2>3, <2>4
  <2>7. UniqueTypes'
    BY <2>3, <2>4, <2>5, <2>6 DEF UniqueInv, UniqueTypes, UniqueTypeOK
  <2>8. i # 0 => ufInst[i].hashed
    BY <2>4 DEF UniqueInv, FlagsKnown
  <2>9. FlagsKnown'
    BY <2>3, <2>4, <2>5, <2>8 DEF UniqueInv, FlagsKnown
  <2> QED BY <2>4, <2>7, <2>9 DEF UniqueInv, RecordsStand
<1> QED BY <1>1, <1>2, <1>3, <1>4

(* Grading a posted flag keeps the invariant.                              *)
LEMMA PostGradesStep ==
  ASSUME UniqueInv, NEW p \in FlagPlayers, PostGrades(p)
  PROVE  UniqueInv'
<1> USE UniqueAssumption
<1>0. /\ ufPost \in [FlagPlayers -> PostRow] /\ ufPost[p] \in PostRow
      /\ ufPost[p].pc = "grading" /\ ufPost[p].team \in FlagTeams
      /\ ufInst \in [InstIds -> InstanceRow]
  BY DEF UniqueInv, UniqueTypes, PostGrades
<1>1. NoPost \in PostRow /\ NoPost.pc = "idle" /\ NoPost.flag = 0
  BY DEF NoPost, PostRow
<1>2. /\ ufPost' = [ufPost EXCEPT ![p] = NoPost]
      /\ UNCHANGED <<ufTeam, ufInst, ufKnows, ufSwitched>>
  BY DEF PostGrades
<1>3. \A q \in FlagPlayers : ufPost'[q] = IF q = p THEN NoPost ELSE ufPost[q]
  BY <1>0, <1>2
<1>4. ufPost' \in [FlagPlayers -> PostRow]
  BY <1>0, <1>1, <1>2
<1>5. ASSUME NEW i \in Gradeable PROVE i \in InstIds /\ ufInst[i].status # "absent"
  BY <1>5 DEF Gradeable, ActiveStatuses
<1>6. ASSUME NEW s \in ufSolved'
      PROVE  /\ s \in FlagTeams \X InstIds
             /\ ufInst[s[2]].status # "absent" /\ ufInst[s[2]].team = s[1]
  <2>1. CASE s \in ufSolved
    BY <2>1 DEF UniqueInv, UniqueTypes, UniqueTypeOK, RecordsStand
  <2>2. CASE s \notin ufSolved
    <3>1. Correct(p) /\ s = <<ufPost[p].team, ufPost[p].flag>>
      BY <2>2, <1>6 DEF PostGrades
    <3>2. ufPost[p].flag \in Gradeable /\ ufInst[ufPost[p].flag].team = ufPost[p].team
      BY <3>1 DEF Correct
    <3> QED BY <3>1, <3>2, <1>0, <1>5
  <2> QED BY <2>1, <2>2
<1>7. ASSUME NEW f \in ufFlagged'
      PROVE  /\ f \in FlagPlayers \X InstIds
             /\ ufInst[f[2]].status # "absent" /\ ufInst[f[2]].user # f[1]
  <2>1. CASE f \in ufFlagged
    BY <2>1 DEF UniqueInv, UniqueTypes, UniqueTypeOK, RecordsStand
  <2>2. CASE f \notin ufFlagged
    <3>1. PICK i \in SharedWith(p) : f = <<p, i>>
      BY <2>2, <1>7 DEF PostGrades
    <3>2. i \in Gradeable /\ ufInst[i].user # p
      BY <3>1 DEF SharedWith
    <3> QED BY <3>1, <3>2, <1>5
  <2> QED BY <2>1, <2>2
<1>8. UniqueTypes'
  BY <1>1, <1>2, <1>3, <1>4, <1>6, <1>7 DEF UniqueInv, UniqueTypes, UniqueTypeOK
<1>9. FlagsKnown'
  BY <1>1, <1>2, <1>3 DEF UniqueInv, FlagsKnown
<1>10. RecordsStand'
  BY <1>2, <1>6, <1>7 DEF RecordsStand
<1>11. ~ ufMissed'
  <2> SUFFICES ASSUME NEW i \in InstIds, i = ufPost[p].flag, ufInst[i].inside,
                      ufInst[i].team = ufPost[p].team
               PROVE  Correct(p)
    BY DEF UniqueInv, PostGrades
  <2>1. i # 0
    BY DEF InstIds
  <2>2. ufInst[i].hashed
    BY <2>1 DEF UniqueInv, FlagsKnown
  <2>3. ufInst[i].status \in ActiveStatuses
    BY DEF UniqueInv, RowSound, ActiveStatuses
  <2> QED BY <2>2, <2>3 DEF Correct, Gradeable
<1> QED BY <1>2, <1>8, <1>9, <1>10, <1>11 DEF UniqueInv

(* For any players and teams and however flags are told on: a team solves  *)
(* only on a flag of its own instance, no flag taken from a standing       *)
(* container of the team is graded wrong, and nobody is reported for the   *)
(* flag of an instance they launched (grade_unique).                       *)
THEOREM FlagsHold == UniqueSpec => []FlagsSafe
<1>1. UniqueInit => UniqueInv
  BY UniqueInitInv
<1>2. UniqueInv /\ [UniqueNext]_ufVars => UniqueInv'
  <2> SUFFICES ASSUME UniqueInv, [UniqueNext]_ufVars PROVE UniqueInv'
    OBVIOUS
  <2>1. ASSUME NEW i \in InstIds,
               \/ FlagInjected(i) \/ InstanceRuns(i) \/ InstanceEnds(i)
               \/ \E p \in FlagPlayers : LaunchUnique(p, i)
        PROVE  UniqueInv'
    BY <2>1, InstanceSteps
  <2>2. ASSUME NEW p \in FlagPlayers,
               \/ \E i \in InstIds : TakesFlag(p, i) \/ \E o \in FlagPlayers : TellsFlag(p, o, i)
               \/ \E t \in FlagTeams : SwitchesTeam(p, t)
               \/ \E i \in InstIds \cup {0} : PostReads(p, i)
        PROVE  UniqueInv'
    BY <2>2, PlayerSteps
  <2>3. ASSUME NEW p \in FlagPlayers, PostGrades(p) PROVE UniqueInv'
    BY <2>3, PostGradesStep
  <2>4. CASE UNCHANGED ufVars
    BY <2>4 DEF ufVars, UniqueInv, UniqueTypes, UniqueTypeOK, FlagsKnown, RecordsStand
  <2> QED BY <2>1, <2>2, <2>3, <2>4 DEF UniqueNext
<1>3. UniqueInv => FlagsSafe
  BY DEF UniqueInv, UniqueTypes, RecordsStand, FlagsSafe, UniqueSafe, SolvedOnOwn,
         LauncherIsNotAccused
<1> QED BY <1>1, <1>2, <1>3, PTL DEF UniqueSpec
-----------------------------------------------------------------------------
(***************************************************************************)
(* The jobs of the tick.  The invariant says how the job that is being     *)
(* rendered stands to its row (never ready, no keys yet) and to the store, *)
(* and what a deletion under way may still take away: keys a finished job  *)
(* recorded before the deletion read them.                                 *)
(***************************************************************************)
JobFormats == {"pdf", "html", "zip"}
JobRow == [at : {"none", "pending", "running", "gone", "ready", "failed"},
           keys : SUBSET JobFormats, old : BOOLEAN]
TickRow == [pc : {"asleep", "find", "reclaim", "pick", "start", "render", "put", "finish", "except"},
            kind : {"none", "export", "report"}, job : Jobs \cup {0}, stuck : SUBSET Jobs,
            put : SUBSET JobFormats, left : SUBSET JobFormats]
DelRow == [pc : {"none", "row", "objects", "tree", "cascade"}, jobs : SUBSET Jobs,
           keys : SUBSET (Jobs \X JobFormats)]

JobShapes ==
    /\ tjJob \in [Jobs -> JobRow] /\ tjStore \subseteq Jobs \X JobFormats
    /\ tjTick \in TickRow /\ tjDel \in DelRow
    /\ tjComp \in BOOLEAN /\ tjFaults \in 0 .. MaxJobFaults /\ tjMissed \subseteq Jobs

RowsFit ==
    \A j \in Jobs :
        /\ tjJob[j].keys \subseteq FormatsOf(j)
        /\ tjJob[j].at \in {"none", "pending", "running", "failed"} => tjJob[j].keys = {}
        /\ tjJob[j].at = "ready" /\ j \notin tjDel.jobs =>
              tjJob[j].keys # {} /\ \A f \in tjJob[j].keys : <<j, f>> \in tjStore

Underway == {"start", "render", "put", "finish", "except"}
Storing == {"put", "finish", "except"}
TickFits ==
    /\ tjTick.pc \notin Storing => tjTick.put = {}
    /\ tjTick.pc = "reclaim" => \A j \in tjTick.stuck : tjJob[j].at \in {"running", "gone"}
    /\ tjTick.pc \in Underway =>
          /\ tjTick.job \in Jobs /\ tjJob[tjTick.job].keys = {}
          /\ tjJob[tjTick.job].at \in {IF tjTick.pc = "start" THEN "pending" ELSE "running", "gone"}
    /\ tjTick.pc \in Storing => tjTick.put \subseteq FormatsOf(tjTick.job)
    /\ tjTick.pc = "put" => tjTick.left \subseteq FormatsOf(tjTick.job)
    /\ tjTick.pc \in {"put", "finish"} => \A f \in tjTick.put : <<tjTick.job, f>> \in tjStore
    /\ tjTick.pc = "finish" => tjTick.put # {}

DelFits ==
    /\ tjDel.pc = "none" => tjDel.jobs = {} /\ tjDel.keys = {}
    /\ \A j \in Jobs, f \in JobFormats : <<j, f>> \in tjDel.keys =>
          j \in tjDel.jobs /\ tjJob[j].at \in {"ready", "gone"} /\ f \in tjJob[j].keys
    /\ tjDel.pc = "row" => \A j \in tjDel.jobs : tjJob[j].at # "none"
    /\ tjDel.pc = "objects" => \A j \in tjDel.jobs : tjJob[j].at = "gone"
    /\ tjDel.pc \in {"tree", "cascade"} => tjDel.jobs = Jobs
    /\ tjDel.pc \in {"row", "tree", "cascade"} =>
          \A j \in (tjDel.jobs \cap Reports) \ tjMissed : \A f \in tjJob[j].keys : <<j, f>> \in tjDel.keys
    /\ tjDel.pc = "cascade" =>
          \A j \in Jobs, f \in JobFormats : <<j, f>> \in tjDel.keys \cap tjStore => j \in tjMissed

FilesOwned ==
    \A j \in Reports \ tjMissed, f \in JobFormats : <<j, f>> \in tjStore =>
        \/ Here(j) /\ f \in tjJob[j].keys
        \/ Working(j) /\ f \in tjTick.put
        \/ <<j, f>> \in tjDel.keys

TickJobsInv == JobShapes /\ RowsFit /\ TickFits /\ DelFits /\ FilesOwned

LEMMA TickJobsStart == TickJobsInit => TickJobsInv
<1> SUFFICES ASSUME TickJobsInit PROVE TickJobsInv
  OBVIOUS
<1> USE JobsAssumption
<1>1. JobShapes
  BY DEF TickJobsInit, JobShapes, JobRow, TickRow, DelRow, NoRow, Asleep, NoDel
<1>2. RowsFit /\ TickFits /\ DelFits /\ FilesOwned
  BY DEF TickJobsInit, RowsFit, TickFits, DelFits, FilesOwned, NoRow, Asleep, NoDel, Storing, Underway
<1> QED BY <1>1, <1>2 DEF TickJobsInv

LEMMA TickJobsKept == TickJobsInv => TickJobsTypeOK /\ TickJobsSafe
<1> SUFFICES ASSUME TickJobsInv PROVE TickJobsTypeOK /\ TickJobsSafe
  OBVIOUS
<1> USE JobsAssumption DEF TickJobsInv
<1>1. TickJobsTypeOK
  <2>1. \A j \in Jobs : /\ tjJob[j].at \in {"none", "pending", "running", "gone"} \cup Terminal
                        /\ tjJob[j].keys \subseteq FormatsOf(j)
                        /\ tjJob[j].old \in BOOLEAN
    BY DEF JobShapes, JobRow, RowsFit, Terminal
  <2>2. tjTick.job \in Jobs \cup {0} /\ tjTick.stuck \subseteq Jobs /\ tjDel.jobs \subseteq Jobs
    BY DEF JobShapes, TickRow, DelRow
  <2>3. tjStore \subseteq Jobs \X {"pdf", "html", "zip"}
    BY DEF JobShapes, JobFormats
  <2> QED BY <2>1, <2>2, <2>3 DEF TickJobsTypeOK, JobShapes
<1>2. ReadyIsStored
  BY DEF ReadyIsStored, RowsFit
<1>3. ReportFilesOwned
  <2> SUFFICES ASSUME NEW o \in tjStore, o[1] \in Reports \ tjMissed
               PROVE  \/ Here(o[1]) /\ o[2] \in tjJob[o[1]].keys
                      \/ Working(o[1]) /\ o[2] \in tjTick.put
                      \/ o \in tjDel.keys
    BY DEF ReportFilesOwned
  <2>1. o[2] \in JobFormats /\ o = <<o[1], o[2]>>
    BY DEF JobShapes
  <2> QED BY <2>1 DEF FilesOwned
<1> QED BY <1>1, <1>2, <1>3 DEF TickJobsSafe

(* Rows that change their status, and nothing else.                        *)
LEMMA RowsBecome ==
  ASSUME tjJob \in [Jobs -> JobRow], NEW J \in SUBSET Jobs,
         NEW s \in {"none", "pending", "running", "gone", "ready", "failed"},
         tjJob' = JobBecomes(J, s)
  PROVE  /\ tjJob' \in [Jobs -> JobRow]
         /\ \A j \in Jobs : /\ tjJob'[j].keys = tjJob[j].keys
                            /\ tjJob'[j].at = IF j \in J THEN s ELSE tjJob[j].at
<1> DEFINE to(row) == [row EXCEPT !.at = s]
<1>1. \A row \in JobRow : to(row) \in JobRow /\ to(row).keys = row.keys /\ to(row).at = s
  BY DEF JobRow
<1>2. tjJob' = [j \in Jobs |-> IF j \in J THEN to(tjJob[j]) ELSE tjJob[j]]
  BY DEF JobBecomes
<1> HIDE DEF to
<1> QED BY <1>1, <1>2

(* Between jobs the tick holds none.                                       *)
LEMMA TickIdle ==
  /\ Asleep \in TickRow /\ Asleep.pc = "asleep" /\ Asleep.put = {}
  /\ \A pc \in {"find", "pick"}, k \in {"export", "report"} :
       At(pc, k) \in TickRow /\ At(pc, k).pc = pc /\ At(pc, k).put = {}
  /\ NextStage \in TickRow /\ NextStage.pc \in {"find", "asleep"} /\ NextStage.put = {}
<1>1. Asleep \in TickRow /\ Asleep.pc = "asleep" /\ Asleep.put = {}
  BY DEF Asleep, TickRow
<1>2. \A pc \in {"find", "pick"}, k \in {"export", "report"} :
       At(pc, k) \in TickRow /\ At(pc, k).pc = pc /\ At(pc, k).put = {}
  BY DEF At, Asleep, TickRow
<1> QED BY <1>1, <1>2 DEF NextStage

(* A new pending row names no file.                                        *)
LEMMA CreateJobStep ==
  ASSUME TickJobsInv, NEW j \in Jobs, CreateJob(j)
  PROVE  TickJobsInv'
<1> USE DEF TickJobsInv
<1>0. /\ tjJob[j].at = "none" /\ tjJob' = JobBecomes({j}, "pending")
      /\ UNCHANGED <<tjStore, tjTick, tjDel, tjComp, tjFaults, tjMissed>>
  BY DEF CreateJob
<1>1. /\ tjJob' \in [Jobs -> JobRow] /\ tjJob'[j].at = "pending"
      /\ \A i \in Jobs : tjJob'[i].keys = tjJob[i].keys
      /\ \A i \in Jobs : i # j => tjJob'[i].at = tjJob[i].at
  <2>1. tjJob \in [Jobs -> JobRow] /\ {j} \in SUBSET Jobs
    BY DEF JobShapes
  <2>2. /\ tjJob' \in [Jobs -> JobRow]
        /\ \A i \in Jobs : /\ tjJob'[i].keys = tjJob[i].keys
                           /\ tjJob'[i].at = IF i \in {j} THEN "pending" ELSE tjJob[i].at
    BY ONLY <1>0, <2>1, RowsBecome
  <2> QED BY <2>2
<1>2. JobShapes'
  BY <1>0, <1>1 DEF JobShapes
<1>3. RowsFit'
  BY <1>0, <1>1 DEF RowsFit
<1>4. TickFits'
  <2>1. tjTick.stuck \subseteq Jobs
    BY DEF JobShapes, TickRow
  <2> QED BY <1>0, <1>1, <2>1 DEF TickFits, Underway, Storing
<1>5. DelFits'
  <2>1. tjDel.jobs \subseteq Jobs
    BY DEF JobShapes, DelRow
  <2> QED BY <1>0, <1>1, <2>1, JobsAssumption DEF DelFits
<1>6. FilesOwned'
  BY <1>0, <1>1, JobsAssumption DEF FilesOwned, Here, Working, RowsFit
<1> QED BY <1>2, <1>3, <1>4, <1>5, <1>6

LEMMA AgeStep ==
  ASSUME TickJobsInv, NEW j \in Jobs, Age(j)
  PROVE  TickJobsInv'
<1> USE DEF TickJobsInv
<1>0. /\ tjJob' = [tjJob EXCEPT ![j] = [tjJob[j] EXCEPT !.old = TRUE]]
      /\ UNCHANGED <<tjStore, tjTick, tjDel, tjComp, tjFaults, tjMissed>>
  BY DEF Age
<1>1. PICK row : row = [tjJob[j] EXCEPT !.old = TRUE]
  OBVIOUS
<1>2. row \in JobRow /\ row.at = tjJob[j].at /\ row.keys = tjJob[j].keys
  BY <1>1 DEF JobShapes, JobRow
<1>3. /\ tjJob' \in [Jobs -> JobRow]
      /\ \A i \in Jobs : tjJob'[i].keys = tjJob[i].keys /\ tjJob'[i].at = tjJob[i].at
  BY <1>0, <1>1, <1>2 DEF JobShapes
<1>4. JobShapes' /\ RowsFit'
  BY <1>0, <1>3 DEF JobShapes, RowsFit
<1>5. TickFits'
  <2>1. tjTick.stuck \subseteq Jobs
    BY DEF JobShapes, TickRow
  <2> QED BY <1>0, <1>3, <2>1 DEF TickFits, Underway, Storing
<1>6. DelFits'
  <2>1. tjDel.jobs \subseteq Jobs
    BY DEF JobShapes, DelRow
  <2> QED BY <1>0, <1>3, <2>1, JobsAssumption DEF DelFits
<1>7. FilesOwned'
  BY <1>0, <1>3, JobsAssumption DEF FilesOwned, Here, Working
<1> QED BY <1>4, <1>5, <1>6, <1>7

(* The tick looks, and remembers what it found.                            *)
LEMMA TickLooks ==
  ASSUME TickJobsInv, TickWakes \/ FindStuck \/ Pick \/ Render
  PROVE  TickJobsInv'
<1> USE DEF TickJobsInv
<1>0. UNCHANGED <<tjJob, tjStore, tjDel, tjComp, tjFaults, tjMissed>>
  BY DEF TickWakes, FindStuck, Pick, Render
<1>1. /\ tjTick.pc \in {"asleep", "find", "pick", "render"} /\ tjTick \in TickRow
      /\ tjTick.put = {}
  BY DEF TickWakes, FindStuck, Pick, Render, JobShapes, TickFits, Storing
<1>2. tjTick' \in TickRow /\ TickFits'
  <2>1. CASE TickWakes
    <3>1. tjTick' = At("find", "export")
      BY <2>1 DEF TickWakes
    <3>2. tjTick' \in TickRow /\ tjTick'.pc = "find" /\ tjTick'.put = {}
      BY <3>1, TickIdle
    <3> QED BY <3>2 DEF TickFits, Underway, Storing
  <2>2. CASE FindStuck
    <3>1. PICK S : S = {j \in OfKind \cap In("running") : tjJob[j].old}
      OBVIOUS
    <3>2. S \subseteq Jobs /\ \A j \in S : tjJob[j].at = "running"
      BY <3>1 DEF In
    <3>3. tjTick' = [tjTick EXCEPT !.pc = "reclaim", !.stuck = S]
      BY <2>2, <3>1 DEF FindStuck
    <3>4. tjTick' \in TickRow /\ tjTick'.pc = "reclaim" /\ tjTick'.stuck = S /\ tjTick'.put = {}
      BY <1>1, <3>2, <3>3 DEF TickRow
    <3> QED BY <1>0, <3>2, <3>4 DEF TickFits, Underway, Storing
  <2>3. CASE Pick
    <3>1. CASE tjTick' = NextStage
      BY <3>1, TickIdle DEF TickFits, Underway, Storing
    <3>2. ASSUME NEW j \in OfKind \cap In("pending"),
                 tjTick' = [tjTick EXCEPT !.pc = "start", !.stuck = {}, !.job = j]
          PROVE  tjTick' \in TickRow /\ TickFits'
      <4>1. j \in Jobs /\ tjJob[j].at = "pending" /\ tjJob[j].keys = {}
        BY DEF In, RowsFit
      <4>2. tjTick' \in TickRow /\ tjTick'.pc = "start" /\ tjTick'.job = j /\ tjTick'.put = {}
        BY <1>1, <3>2, <4>1 DEF TickRow
      <4> QED BY <1>0, <4>1, <4>2 DEF TickFits, Underway, Storing
    <3> QED BY <2>3, <3>1, <3>2 DEF Pick
  <2>4. CASE Render
    <3>1. /\ tjTick.pc = "render" /\ tjTick.job \in Jobs /\ tjJob[tjTick.job].keys = {}
          /\ tjJob[tjTick.job].at \in {"running", "gone"}
      BY <2>4 DEF Render, TickFits, Underway
    <3>2. ASSUME NEW F \in SUBSET FormatsOf(tjTick.job),
                 tjTick' = [tjTick EXCEPT !.pc = "put", !.left = F]
          PROVE  tjTick' \in TickRow /\ TickFits'
      <4>1. F \subseteq JobFormats
        BY DEF FormatsOf, JobFormats
      <4>2. /\ tjTick' \in TickRow /\ tjTick'.pc = "put" /\ tjTick'.job = tjTick.job
            /\ tjTick'.put = {} /\ tjTick'.left = F
        BY <1>1, <3>2, <4>1 DEF TickRow
      <4> QED BY <1>0, <3>1, <4>2 DEF TickFits, Underway, Storing
    <3>3. CASE tjTick' = [tjTick EXCEPT !.pc = "except"]
      <4>1. /\ tjTick' \in TickRow /\ tjTick'.pc = "except" /\ tjTick'.job = tjTick.job
            /\ tjTick'.put = {}
        BY <1>1, <3>3 DEF TickRow
      <4> QED BY <1>0, <3>1, <4>1 DEF TickFits, Underway, Storing
    <3> QED BY <2>4, <3>2, <3>3 DEF Render
  <2> QED BY <2>1, <2>2, <2>3, <2>4
<1>3. JobShapes' /\ RowsFit' /\ DelFits'
  <2>1. JobShapes' /\ RowsFit'
    BY <1>0, <1>2 DEF JobShapes, RowsFit
  <2>2. DelFits'
    BY <1>0 DEF DelFits
  <2> QED BY <2>1, <2>2
<1>4. FilesOwned'
  BY <1>0, <1>1 DEF FilesOwned, Here, Working
<1> QED BY <1>2, <1>3, <1>4

(* The stuck rows fail, or the tick is over.                               *)
LEMMA ReclaimStep ==
  ASSUME TickJobsInv, Reclaim
  PROVE  TickJobsInv'
<1> USE DEF TickJobsInv
<1>0. /\ tjTick.pc = "reclaim" /\ tjTick \in TickRow /\ tjTick.stuck \subseteq Jobs
      /\ UNCHANGED <<tjStore, tjDel, tjComp, tjFaults, tjMissed>>
      /\ \A j \in tjTick.stuck : tjJob[j].at \in {"running", "gone"}
  BY DEF Reclaim, JobShapes, TickRow, TickFits
<1>1. /\ tjTick' \in TickRow /\ tjTick'.pc \in {"pick", "asleep"} /\ tjTick'.put = {}
  <2>1. tjTick' = Asleep \/ tjTick' = At("pick", tjTick.kind)
    BY DEF Reclaim
  <2>2. At("pick", tjTick.kind) \in TickRow /\ At("pick", tjTick.kind).pc = "pick"
        /\ At("pick", tjTick.kind).put = {}
    BY <1>0 DEF At, Asleep, TickRow
  <2> QED BY <2>1, <2>2, TickIdle
<1>2. PICK J \in SUBSET Jobs : /\ J = {} \/ \A j \in J : tjJob[j].at = "running"
                               /\ tjJob' \in [Jobs -> JobRow]
                               /\ \A j \in Jobs : /\ tjJob'[j].keys = tjJob[j].keys
                                                  /\ tjJob'[j].at = IF j \in J THEN "failed" ELSE tjJob[j].at
  <2>1. CASE \A j \in tjTick.stuck : Here(j)
    <3>1. tjJob' = JobBecomes(tjTick.stuck, "failed")
      BY <2>1 DEF Reclaim
    <3>2. \A j \in tjTick.stuck : tjJob[j].at = "running"
      BY <1>0, <2>1 DEF Here
    <3>3. tjJob \in [Jobs -> JobRow] /\ tjTick.stuck \in SUBSET Jobs
      BY <1>0 DEF JobShapes
    <3>4. /\ tjJob' \in [Jobs -> JobRow]
          /\ \A j \in Jobs : /\ tjJob'[j].keys = tjJob[j].keys
                             /\ tjJob'[j].at = IF j \in tjTick.stuck THEN "failed" ELSE tjJob[j].at
      BY ONLY <3>1, <3>3, RowsBecome
    <3> QED BY <3>2, <3>3, <3>4
  <2>2. CASE ~ \A j \in tjTick.stuck : Here(j)
    <3>1. tjJob' = tjJob
      BY <2>2 DEF Reclaim
    <3>2. tjJob' \in [Jobs -> JobRow]
      BY <3>1 DEF JobShapes
    <3> WITNESS {} \in SUBSET Jobs
    <3> QED BY <3>1, <3>2
  <2> QED BY <2>1, <2>2
<1>3. JobShapes' /\ RowsFit'
  <2>1. JobShapes'
    BY <1>0, <1>1, <1>2 DEF JobShapes
  <2>2. RowsFit'
    BY <1>0, <1>2 DEF RowsFit
  <2> QED BY <2>1, <2>2
<1>4. TickFits'
  BY <1>1 DEF TickFits, Underway, Storing
<1>5. DelFits'
  <2>1. tjDel.jobs \subseteq Jobs
    BY DEF JobShapes, DelRow
  <2> QED BY <1>0, <1>2, <2>1, JobsAssumption DEF DelFits
<1>6. FilesOwned'
  BY <1>0, <1>2, JobsAssumption DEF FilesOwned, Here, Working
<1> QED BY <1>3, <1>4, <1>5, <1>6

LEMMA StartStep ==
  ASSUME TickJobsInv, Start
  PROVE  TickJobsInv'
<1> USE DEF TickJobsInv
<1> DEFINE j == tjTick.job
<1>0. /\ tjTick.pc = "start" /\ j \in Jobs /\ tjTick \in TickRow /\ tjTick.put = {}
      /\ tjJob[j].at \in {"pending", "gone"} /\ tjJob[j].keys = {}
      /\ UNCHANGED <<tjStore, tjDel, tjComp, tjFaults, tjMissed>>
  BY DEF Start, JobShapes, TickFits, Underway, Storing
<1>1. CASE Here(j)
  <2>1. tjJob' = JobBecomes({j}, "running") /\ tjTick' = [tjTick EXCEPT !.pc = "render"]
    BY <1>1 DEF Start
  <2>2. tjJob \in [Jobs -> JobRow] /\ {j} \in SUBSET Jobs
    BY <1>0 DEF JobShapes
  <2>3. /\ tjJob' \in [Jobs -> JobRow]
        /\ \A i \in Jobs : /\ tjJob'[i].keys = tjJob[i].keys
                           /\ tjJob'[i].at = IF i \in {j} THEN "running" ELSE tjJob[i].at
    BY ONLY <2>1, <2>2, RowsBecome
  <2>4. /\ tjTick' \in TickRow /\ tjTick'.pc = "render" /\ tjTick'.job = j /\ tjTick'.put = {}
    BY <1>0, <2>1 DEF TickRow
  <2>5. tjJob[j].at = "pending" /\ tjJob'[j].at = "running" /\ tjJob'[j].keys = {}
        /\ \A i \in Jobs : i # j => tjJob'[i].at = tjJob[i].at
    BY <1>0, <1>1, <2>3 DEF Here
  <2>6. JobShapes' /\ RowsFit'
    <3>1. JobShapes'
      BY <1>0, <2>3, <2>4 DEF JobShapes
    <3>2. RowsFit'
      BY <1>0, <2>3, <2>5 DEF RowsFit
    <3> QED BY <3>1, <3>2
  <2>7. TickFits'
    BY <1>0, <2>4, <2>5 DEF TickFits, Underway, Storing
  <2>8. DelFits'
    <3>1. tjDel.jobs \subseteq Jobs
      BY DEF JobShapes, DelRow
    <3> QED BY <1>0, <2>3, <2>5, <3>1, JobsAssumption DEF DelFits
  <2>9. FilesOwned'
    BY <1>0, <2>3, <2>5, JobsAssumption DEF FilesOwned, Here, Working
  <2> QED BY <2>6, <2>7, <2>8, <2>9
<1>2. CASE ~ Here(j)
  <2>1. tjJob' = tjJob /\ tjTick' = Asleep
    BY <1>2 DEF Start
  <2>2. tjTick' \in TickRow /\ tjTick'.pc = "asleep" /\ tjTick'.put = {}
    BY <2>1, TickIdle
  <2>3. JobShapes' /\ RowsFit' /\ DelFits'
    <3>1. JobShapes' /\ RowsFit'
      BY <1>0, <2>1, <2>2 DEF JobShapes, RowsFit
    <3>2. DelFits'
      BY <1>0, <2>1 DEF DelFits
    <3> QED BY <3>1, <3>2
  <2>4. TickFits'
    BY <2>2 DEF TickFits, Underway, Storing
  <2>5. FilesOwned'
    BY <1>0, <2>1 DEF FilesOwned, Here, Working
  <2> QED BY <2>3, <2>4, <2>5
<1> QED BY <1>1, <1>2

(* An object is stored under a key that is remembered, raised or not.      *)
LEMMA PutStep ==
  ASSUME TickJobsInv, Put
  PROVE  TickJobsInv'
<1> USE DEF TickJobsInv
<1> DEFINE j == tjTick.job
<1>0. /\ tjTick.pc = "put" /\ j \in Jobs /\ tjTick \in TickRow
      /\ tjJob[j].at \in {"running", "gone"} /\ tjJob[j].keys = {}
      /\ tjTick.put \subseteq FormatsOf(j) /\ tjTick.left \subseteq FormatsOf(j)
      /\ \A f \in tjTick.put : <<j, f>> \in tjStore
      /\ UNCHANGED <<tjJob, tjDel, tjComp, tjMissed>>
  BY DEF Put, JobShapes, TickFits, Underway, Storing
<1>1. PICK f \in tjTick.left :
         \/ /\ tjStore' = tjStore \cup {<<j, f>>}
            /\ tjTick' = [tjTick EXCEPT !.put = @ \cup {f}, !.left = @ \ {f},
                              !.pc = IF tjTick.left = {f} THEN "finish" ELSE "put"]
            /\ UNCHANGED tjFaults
         \/ /\ Fault
            /\ tjStore' \in {tjStore, tjStore \cup {<<j, f>>}}
            /\ tjTick' = [tjTick EXCEPT !.put = @ \cup {f}, !.pc = "except"]
  BY DEF Put
<1>2. f \in FormatsOf(j) /\ f \in JobFormats
  BY <1>0 DEF FormatsOf, JobFormats
<1>3. /\ tjTick' \in TickRow /\ tjTick'.job = j /\ tjTick'.put = tjTick.put \cup {f}
      /\ \/ /\ tjTick'.pc \in {"put", "finish"} /\ tjTick'.left = tjTick.left \ {f}
            /\ tjStore' = tjStore \cup {<<j, f>>}
         \/ tjTick'.pc = "except" /\ tjStore' \in {tjStore, tjStore \cup {<<j, f>>}}
  <2>1. CASE /\ tjStore' = tjStore \cup {<<j, f>>}
             /\ tjTick' = [tjTick EXCEPT !.put = @ \cup {f}, !.left = @ \ {f},
                              !.pc = IF tjTick.left = {f} THEN "finish" ELSE "put"]
    <3>1. PICK pc \in {"put", "finish"} : pc = IF tjTick.left = {f} THEN "finish" ELSE "put"
      OBVIOUS
    <3>2. tjTick' = [tjTick EXCEPT !.put = tjTick.put \cup {f}, !.left = tjTick.left \ {f}, !.pc = pc]
      BY <2>1, <3>1
    <3>3. /\ tjTick' \in TickRow /\ tjTick'.job = j /\ tjTick'.put = tjTick.put \cup {f}
          /\ tjTick'.pc = pc /\ tjTick'.left = tjTick.left \ {f}
      BY <1>0, <1>2, <3>2 DEF TickRow
    <3> QED BY <2>1, <3>1, <3>3
  <2>2. CASE /\ tjStore' \in {tjStore, tjStore \cup {<<j, f>>}}
             /\ tjTick' = [tjTick EXCEPT !.put = @ \cup {f}, !.pc = "except"]
    <3>1. tjTick' = [tjTick EXCEPT !.put = tjTick.put \cup {f}, !.pc = "except"]
      BY <2>2
    <3>2. /\ tjTick' \in TickRow /\ tjTick'.job = j /\ tjTick'.put = tjTick.put \cup {f}
          /\ tjTick'.pc = "except"
      BY <1>0, <1>2, <3>1 DEF TickRow
    <3> QED BY <2>2, <3>2
  <2> QED BY <1>1, <2>1, <2>2
<1>4. /\ tjStore \subseteq tjStore' /\ tjStore' \subseteq tjStore \cup {<<j, f>>}
      /\ tjTick'.pc \in Storing /\ (tjTick'.pc # "except" => <<j, f>> \in tjStore')
  BY <1>3 DEF Storing
<1>5. JobShapes' /\ RowsFit'
  <2>1. tjFaults' \in 0 .. MaxJobFaults
    BY <1>1, JobsAssumption DEF Fault, JobShapes
  <2>2. tjStore' \subseteq Jobs \X JobFormats
    BY <1>0, <1>2, <1>4 DEF JobShapes
  <2>3. JobShapes'
    BY <1>0, <1>3, <2>1, <2>2 DEF JobShapes
  <2>4. RowsFit'
    BY <1>0, <1>4 DEF RowsFit
  <2> QED BY <2>3, <2>4
<1>6. TickFits'
  BY <1>0, <1>2, <1>3, <1>4 DEF TickFits, Underway, Storing
<1>7. DelFits'
  <2>1. <<j, f>> \notin tjDel.keys
    BY <1>0, <1>2 DEF DelFits
  <2>2. tjDel.jobs \subseteq Jobs
    BY DEF JobShapes, DelRow
  <2> QED BY <1>0, <1>4, <2>1, <2>2 DEF DelFits
<1>8. FilesOwned'
  <2> SUFFICES ASSUME NEW i \in Reports \ tjMissed, NEW g \in JobFormats, <<i, g>> \in tjStore'
               PROVE  \/ Here(i)' /\ g \in tjJob'[i].keys
                      \/ Working(i)' /\ g \in tjTick'.put
                      \/ <<i, g>> \in tjDel'.keys
    BY <1>0 DEF FilesOwned
  <2>1. CASE <<i, g>> \in tjStore
    BY <1>0, <1>3, <1>4, <2>1 DEF FilesOwned, Here, Working, Storing
  <2>2. CASE <<i, g>> = <<j, f>>
    BY <1>3, <1>4, <2>2 DEF Working, Storing
  <2> QED BY <1>4, <2>1, <2>2
<1> QED BY <1>5, <1>6, <1>7, <1>8

(* What the run stored becomes what its row names; a deletion that had     *)
(* read the row before does not know of it, and the job is noted.          *)
LEMMA JobFinishesStep ==
  ASSUME TickJobsInv, JobFinishes
  PROVE  TickJobsInv'
<1> USE DEF TickJobsInv
<1> DEFINE j == tjTick.job
<1>0. /\ tjTick.pc = "finish" /\ j \in Jobs /\ tjTick \in TickRow
      /\ tjJob[j].at \in {"running", "gone"} /\ tjJob[j].keys = {}
      /\ tjTick.put \subseteq FormatsOf(j) /\ tjTick.put # {} /\ tjTick.put \subseteq JobFormats
      /\ \A f \in tjTick.put : <<j, f>> \in tjStore
      /\ UNCHANGED <<tjStore, tjDel, tjComp, tjFaults>>
  BY DEF JobFinishes, JobShapes, TickRow, TickFits, Underway, Storing
<1>1. CASE Here(j)
  <2>1. /\ tjJob' = [tjJob EXCEPT ![j].at = "ready", ![j].keys = tjTick.put]
        /\ tjTick' = NextStage
        /\ tjMissed' = IF j \in tjDel.jobs THEN tjMissed \cup {j} ELSE tjMissed
    BY <1>1 DEF JobFinishes
  <2>2. PICK a : a = [tjJob[j] EXCEPT !.at = "ready"]
    OBVIOUS
  <2>3. PICK b : b = [a EXCEPT !.keys = tjTick.put]
    OBVIOUS
  <2>4. b \in JobRow /\ b.at = "ready" /\ b.keys = tjTick.put
    BY <1>0, <2>2, <2>3 DEF JobShapes, JobRow
  <2>5. tjJob' = [tjJob EXCEPT ![j] = b]
    BY <1>0, <2>1, <2>2, <2>3 DEF JobShapes
  <2>6. /\ tjJob' \in [Jobs -> JobRow] /\ tjJob'[j].at = "ready" /\ tjJob'[j].keys = tjTick.put
        /\ \A i \in Jobs : i # j => tjJob'[i] = tjJob[i]
    BY <1>0, <2>4, <2>5 DEF JobShapes
  <2>7. tjTick' \in TickRow /\ tjTick'.pc \in {"find", "asleep"} /\ tjTick'.put = {}
    BY <2>1, TickIdle
  <2>8. JobShapes' /\ RowsFit'
    <3>1. JobShapes'
      BY <1>0, <2>1, <2>6, <2>7 DEF JobShapes
    <3>2. RowsFit'
      BY <1>0, <2>6 DEF RowsFit
    <3> QED BY <3>1, <3>2
  <2>9. TickFits'
    BY <2>7 DEF TickFits, Underway, Storing
  <2>10. DelFits'
    <3>1. \A f \in JobFormats : <<j, f>> \notin tjDel.keys
      BY <1>0 DEF DelFits
    <3>2. tjDel.jobs \subseteq Jobs /\ tjJob[j].at = "running"
      BY <1>0, <1>1 DEF JobShapes, DelRow, Here
    <3> QED BY <1>0, <2>1, <2>6, <3>1, <3>2, JobsAssumption DEF DelFits
  <2>11. FilesOwned'
    <3> SUFFICES ASSUME NEW i \in Reports \ tjMissed', NEW g \in JobFormats, <<i, g>> \in tjStore'
                 PROVE  \/ Here(i)' /\ g \in tjJob'[i].keys
                        \/ Working(i)' /\ g \in tjTick'.put
                        \/ <<i, g>> \in tjDel'.keys
      BY DEF FilesOwned
    <3>1. i \in Reports \ tjMissed /\ i \in Jobs
      BY <2>1, JobsAssumption
    <3>2. CASE i = j
      BY <1>0, <2>6, <3>1, <3>2 DEF FilesOwned, Here, Working
    <3>3. CASE i # j
      BY <1>0, <2>6, <3>1, <3>3 DEF FilesOwned, Here, Working
    <3> QED BY <3>2, <3>3
  <2> QED BY <2>8, <2>9, <2>10, <2>11
<1>2. CASE ~ Here(j)
  <2>1. tjTick' = [tjTick EXCEPT !.pc = "except"] /\ UNCHANGED <<tjJob, tjMissed>>
    BY <1>2 DEF JobFinishes
  <2>2. tjTick' \in TickRow /\ tjTick'.pc = "except" /\ tjTick'.job = j /\ tjTick'.put = tjTick.put
    BY <1>0, <2>1 DEF TickRow
  <2>3. JobShapes' /\ RowsFit'
    BY <1>0, <2>1, <2>2 DEF JobShapes, RowsFit
  <2>4. TickFits'
    BY <1>0, <2>1, <2>2 DEF TickFits, Underway, Storing
  <2>5. DelFits'
    BY <1>0, <2>1 DEF DelFits
  <2>6. FilesOwned'
    BY <1>0, <2>1, <2>2 DEF FilesOwned, Here, Working
  <2> QED BY <2>3, <2>4, <2>5, <2>6
<1> QED BY <1>1, <1>2

(* A report's run drops what it stored, all of it or all but what the      *)
(* store keeps and the job is noted for.                                   *)
LEMMA ExceptStep ==
  ASSUME TickJobsInv, Except
  PROVE  TickJobsInv'
<1> USE DEF TickJobsInv
<1> DEFINE j == tjTick.job
           Own == {<<j, f>> : f \in tjTick.put}
<1>0. /\ tjTick.pc = "except" /\ j \in Jobs /\ tjTick \in TickRow
      /\ tjJob[j].at \in {"running", "gone"} /\ tjJob[j].keys = {}
      /\ tjJob' = IF Here(j) THEN JobBecomes({j}, "failed") ELSE tjJob
      /\ UNCHANGED <<tjDel, tjComp>>
  BY DEF Except, JobShapes, TickFits, Underway, Storing
<1>1. tjTick' \in TickRow /\ tjTick'.pc \in {"find", "asleep"} /\ tjTick'.put = {}
  <2>1. tjTick' = NextStage \/ tjTick' = Asleep
    BY DEF Except
  <2> QED BY <2>1, TickIdle
<1>2. /\ tjJob' \in [Jobs -> JobRow]
      /\ \A i \in Jobs : tjJob'[i].keys = tjJob[i].keys
      /\ \A i \in Jobs : i # j => tjJob'[i].at = tjJob[i].at
      /\ tjJob'[j].at \in {"failed", "gone"} /\ (tjJob[j].at = "gone" => tjJob'[j].at = "gone")
  <2>1. tjJob \in [Jobs -> JobRow] /\ {j} \in SUBSET Jobs
    BY <1>0 DEF JobShapes
  <2>2. CASE Here(j)
    <3>1. tjJob' = JobBecomes({j}, "failed")
      BY <1>0, <2>2
    <3>2. /\ tjJob' \in [Jobs -> JobRow]
          /\ \A i \in Jobs : /\ tjJob'[i].keys = tjJob[i].keys
                             /\ tjJob'[i].at = IF i \in {j} THEN "failed" ELSE tjJob[i].at
      BY ONLY <2>1, <3>1, RowsBecome
    <3> QED BY <1>0, <2>2, <3>2 DEF Here
  <2>3. CASE ~ Here(j)
    <3>1. tjJob' = tjJob
      BY <1>0, <2>3
    <3> QED BY <1>0, <2>1, <2>3, <3>1 DEF Here
  <2> QED BY <2>2, <2>3
<1>3. /\ tjStore' \subseteq tjStore /\ tjMissed \subseteq tjMissed' /\ tjMissed' \subseteq Jobs
      /\ tjFaults' \in 0 .. MaxJobFaults
      /\ \A i \in Jobs, f \in JobFormats : i # j /\ <<i, f>> \in tjStore => <<i, f>> \in tjStore'
      /\ j \in Reports => \/ j \in tjMissed'
                          \/ \A f \in tjTick.put : <<j, f>> \notin tjStore'
  <2>1. CASE j \notin Reports
    <3>1. UNCHANGED <<tjStore, tjFaults, tjMissed>>
      BY <2>1 DEF Except
    <3> QED BY <2>1, <3>1 DEF JobShapes
  <2>2. CASE j \in Reports /\ tjStore' = tjStore \ Own /\ UNCHANGED <<tjFaults, tjMissed>>
    BY <2>2 DEF JobShapes
  <2>3. CASE /\ j \in Reports /\ Fault /\ tjMissed' = tjMissed \cup {j}
             /\ \E o \in Own : tjStore' = tjStore \ (Own \ {o})
    <3>1. tjFaults' \in 0 .. MaxJobFaults
      BY <2>3, JobsAssumption DEF Fault, JobShapes
    <3> QED BY <1>0, <2>3, <3>1 DEF JobShapes
  <2> QED BY <2>1, <2>2, <2>3 DEF Except
<1>4. JobShapes' /\ RowsFit'
  <2>1. JobShapes'
    BY <1>0, <1>1, <1>2, <1>3 DEF JobShapes
  <2>2. \A i \in Jobs : tjJob[i].keys \subseteq JobFormats
    BY DEF JobShapes, JobRow
  <2>3. RowsFit'
    BY <1>0, <1>2, <1>3, <2>2 DEF RowsFit
  <2> QED BY <2>1, <2>3
<1>5. TickFits'
  BY <1>1 DEF TickFits, Underway, Storing
<1>6. DelFits'
  <2>1. tjDel.jobs \subseteq Jobs
    BY DEF JobShapes, DelRow
  <2> QED BY <1>0, <1>2, <1>3, <2>1, JobsAssumption DEF DelFits
<1>7. FilesOwned'
  <2> SUFFICES ASSUME NEW i \in Reports \ tjMissed', NEW g \in JobFormats, <<i, g>> \in tjStore'
               PROVE  \/ Here(i)' /\ g \in tjJob'[i].keys
                      \/ Working(i)' /\ g \in tjTick'.put
                      \/ <<i, g>> \in tjDel'.keys
    BY DEF FilesOwned
  <2>1. i \in Reports \ tjMissed /\ i \in Jobs /\ <<i, g>> \in tjStore
    BY <1>3, JobsAssumption
  <2>2. CASE i = j
    BY <1>0, <1>3, <2>1, <2>2 DEF FilesOwned, Here, Working
  <2>3. CASE i # j
    BY <1>0, <1>2, <2>1, <2>3 DEF FilesOwned, Here, Working
  <2> QED BY <2>2, <2>3
<1> QED BY <1>4, <1>5, <1>6, <1>7

(* The process dies; the job it worked on is noted.                        *)
LEMMA JobCrashStep ==
  ASSUME TickJobsInv, JobCrash
  PROVE  TickJobsInv'
<1> USE DEF TickJobsInv
<1>0. /\ UNCHANGED <<tjJob, tjStore, tjDel, tjComp>> /\ tjTick' = Asleep /\ Fault
      /\ tjMissed' = tjMissed \cup ({tjTick.job} \ {0}) /\ tjTick \in TickRow
  BY DEF JobCrash, JobShapes
<1>1. tjTick' \in TickRow /\ tjTick'.pc = "asleep" /\ tjTick'.put = {}
  BY <1>0, TickIdle
<1>2. tjFaults' \in 0 .. MaxJobFaults /\ tjMissed' \subseteq Jobs /\ tjMissed \subseteq tjMissed'
  <2>1. tjFaults' \in 0 .. MaxJobFaults
    BY <1>0, JobsAssumption DEF Fault, JobShapes
  <2>2. tjTick.job \in Jobs \cup {0} /\ tjMissed \subseteq Jobs
    BY <1>0 DEF JobShapes, TickRow
  <2> QED BY <1>0, <2>1, <2>2
<1>3. JobShapes' /\ RowsFit'
  BY <1>0, <1>1, <1>2 DEF JobShapes, RowsFit
<1>4. TickFits'
  BY <1>1 DEF TickFits, Underway, Storing
<1>5. DelFits'
  BY <1>0, <1>2 DEF DelFits
<1>6. FilesOwned'
  <2>1. \A i \in Jobs : Working(i) => i \in tjMissed'
    BY <1>0, JobsAssumption DEF Working
  <2> QED BY <1>0, <1>2, <2>1, JobsAssumption DEF FilesOwned, Here
<1> QED BY <1>3, <1>4, <1>5, <1>6

(* A deletion begins with the keys the rows have now.                      *)
LEMMA DeletionReads ==
  ASSUME TickJobsInv, (\E j \in Jobs : DeleteReport(j)) \/ DeleteCompetition
  PROVE  TickJobsInv'
<1> USE DEF TickJobsInv
<1>0. /\ UNCHANGED <<tjJob, tjStore, tjTick, tjComp, tjFaults, tjMissed>>
      /\ tjDel.jobs = {} /\ tjDel.keys = {}
  BY DEF DeleteReport, DeleteCompetition, DelFits
<1>1. PICK J \in SUBSET Jobs :
        /\ tjDel'.jobs = J /\ tjDel' \in DelRow
        /\ \A j \in Jobs, f \in JobFormats :
             <<j, f>> \in tjDel'.keys <=> j \in J \cap Reports /\ f \in tjJob[j].keys
        /\ \/ tjDel'.pc = "tree" /\ J = Jobs
           \/ tjDel'.pc = "row" /\ \A j \in J : Here(j)
  <2>0. \A j \in Jobs : tjJob[j].keys \subseteq JobFormats
    BY DEF JobShapes, JobRow
  <2>1. ASSUME NEW j \in Jobs, DeleteReport(j)
        PROVE  /\ tjDel'.jobs = {j} /\ tjDel' \in DelRow
               /\ \A i \in Jobs, f \in JobFormats :
                    <<i, f>> \in tjDel'.keys <=> i \in {j} \cap Reports /\ f \in tjJob[i].keys
               /\ tjDel'.pc = "row" /\ Here(j)
    <3>1. PICK K : K = {<<j, f>> : f \in tjJob[j].keys}
      OBVIOUS
    <3>2. j \in Reports /\ Here(j) /\ tjDel' = [pc |-> "row", jobs |-> {j}, keys |-> K]
      BY <2>1, <3>1 DEF DeleteReport
    <3>3. K \subseteq Jobs \X JobFormats
      BY <2>0, <3>1
    <3>4. tjDel' \in DelRow /\ tjDel'.jobs = {j} /\ tjDel'.pc = "row" /\ tjDel'.keys = K
      BY <3>2, <3>3 DEF DelRow
    <3> QED BY <3>1, <3>2, <3>4
  <2>2. CASE DeleteCompetition
    <3>1. PICK K : K = UNION {{<<j, f>> : f \in tjJob[j].keys} : j \in Reports}
      OBVIOUS
    <3>2. tjDel' = [pc |-> "tree", jobs |-> Jobs, keys |-> K]
      BY <2>2, <3>1 DEF DeleteCompetition
    <3>3. K \subseteq Jobs \X JobFormats
      BY <2>0, <3>1, JobsAssumption
    <3>4. tjDel' \in DelRow /\ tjDel'.jobs = Jobs /\ tjDel'.pc = "tree" /\ tjDel'.keys = K
      BY <3>2, <3>3 DEF DelRow
    <3>5. \A i \in Jobs, f \in JobFormats :
             <<i, f>> \in K <=> i \in Jobs \cap Reports /\ f \in tjJob[i].keys
      BY <3>1
    <3> QED BY <3>4, <3>5
  <2> QED BY <2>1, <2>2
<1>2. JobShapes' /\ TickFits'
  <2>1. JobShapes'
    BY <1>0, <1>1 DEF JobShapes
  <2>2. TickFits'
    BY <1>0 DEF TickFits
  <2> QED BY <2>1, <2>2
<1>3. RowsFit'
  BY <1>0 DEF RowsFit
<1>4. DelFits'
  <2>1. \A j \in Jobs : tjJob[j].keys \subseteq JobFormats
    BY DEF JobShapes, JobRow
  <2>2. \A j \in Jobs, f \in JobFormats : <<j, f>> \in tjDel'.keys =>
          j \in tjDel'.jobs /\ tjJob[j].at \in {"ready", "gone"} /\ f \in tjJob[j].keys
    <3>1. \A j \in Jobs : tjJob[j].keys # {} => tjJob[j].at \in {"ready", "gone"}
      BY DEF RowsFit, JobShapes, JobRow
    <3> QED BY <1>1, <3>1
  <2> QED BY <1>0, <1>1, <2>1, <2>2, JobsAssumption DEF DelFits, Here
<1>5. FilesOwned'
  BY <1>0 DEF FilesOwned, Here, Working
<1> QED BY <1>2, <1>3, <1>4, <1>5

(* The row of a report goes before its objects.                            *)
LEMMA DeleteRowStep ==
  ASSUME TickJobsInv, DeleteRow
  PROVE  TickJobsInv'
<1> USE DEF TickJobsInv
<1> DEFINE J == {j \in tjDel.jobs : Here(j)}
<1>0. /\ tjDel.pc = "row" /\ tjDel \in DelRow /\ tjDel.jobs \subseteq Jobs
      /\ tjJob' = JobBecomes(J, "gone") /\ tjDel' = [tjDel EXCEPT !.pc = "objects"]
      /\ UNCHANGED <<tjStore, tjTick, tjComp, tjFaults, tjMissed>>
  BY DEF DeleteRow, JobShapes, DelRow
<1>1. /\ tjJob' \in [Jobs -> JobRow]
      /\ \A j \in Jobs : /\ tjJob'[j].keys = tjJob[j].keys
                         /\ tjJob'[j].at = IF j \in J THEN "gone" ELSE tjJob[j].at
  <2>1. tjJob \in [Jobs -> JobRow] /\ J \in SUBSET Jobs
    BY <1>0 DEF JobShapes
  <2> HIDE DEF J
  <2> QED BY ONLY <1>0, <2>1, RowsBecome
<1>2. \A j \in Jobs : /\ j \in tjDel.jobs => tjJob'[j].at = "gone"
                      /\ j \notin tjDel.jobs => tjJob'[j].at = tjJob[j].at
                      /\ tjJob'[j].at \in {tjJob[j].at, "gone"}
  BY <1>0, <1>1 DEF Here, DelFits
<1>3. tjDel' \in DelRow /\ tjDel'.pc = "objects" /\ tjDel'.jobs = tjDel.jobs /\ tjDel'.keys = tjDel.keys
  BY <1>0 DEF DelRow
<1>4. JobShapes' /\ RowsFit'
  <2>1. JobShapes'
    BY <1>0, <1>1, <1>3 DEF JobShapes
  <2>2. RowsFit'
    BY <1>0, <1>1, <1>2, <1>3 DEF RowsFit
  <2> QED BY <2>1, <2>2
<1>5. TickFits'
  <2>1. tjTick.stuck \subseteq Jobs
    BY DEF JobShapes, TickRow
  <2>2. tjTick.pc # "start" \/ tjTick.pc = "start"
    OBVIOUS
  <2> QED BY <1>0, <1>1, <1>2, <2>1 DEF TickFits, Underway, Storing
<1>6. DelFits'
  BY <1>0, <1>1, <1>2, <1>3 DEF DelFits
<1>7. FilesOwned'
  <2> SUFFICES ASSUME NEW i \in Reports \ tjMissed, NEW g \in JobFormats, <<i, g>> \in tjStore
               PROVE  \/ Here(i)' /\ g \in tjJob'[i].keys
                      \/ Working(i)' /\ g \in tjTick'.put
                      \/ <<i, g>> \in tjDel'.keys
    BY <1>0 DEF FilesOwned
  <2>1. i \in Jobs
    BY JobsAssumption
  <2>2. CASE i \in tjDel.jobs
    BY <1>0, <1>1, <1>3, <2>1, <2>2 DEF FilesOwned, Here, Working, DelFits
  <2>3. CASE i \notin tjDel.jobs
    BY <1>0, <1>1, <1>2, <1>3, <2>1, <2>3 DEF FilesOwned, Here, Working
  <2> QED BY <2>2, <2>3
<1> QED BY <1>4, <1>5, <1>6, <1>7

(* The objects of the keys that were read go, or the job of the one that   *)
(* stays is noted; nobody is still rendering one of them.                  *)
LEMMA DeleteJobObjectsStep ==
  ASSUME TickJobsInv, DeleteJobObjects
  PROVE  TickJobsInv'
<1> USE DEF TickJobsInv
<1>0. /\ tjDel.pc \in {"tree", "objects"} /\ tjDel \in DelRow
      /\ tjDel' = IF tjDel.pc = "tree" THEN [tjDel EXCEPT !.pc = "cascade"] ELSE NoDel
      /\ UNCHANGED <<tjJob, tjTick, tjComp>>
  BY DEF DeleteJobObjects, JobShapes
<1>1. /\ tjStore' \subseteq tjStore /\ tjMissed \subseteq tjMissed' /\ tjMissed' \subseteq Jobs
      /\ tjFaults' \in 0 .. MaxJobFaults
      /\ \A j \in Jobs, f \in JobFormats :
           /\ <<j, f>> \in tjStore \ tjDel.keys => <<j, f>> \in tjStore'
           /\ <<j, f>> \in tjStore' \cap tjDel.keys => j \in tjMissed'
  <2>1. CASE tjStore' = tjStore \ tjDel.keys /\ UNCHANGED <<tjFaults, tjMissed>>
    BY <2>1 DEF JobShapes
  <2>2. ASSUME NEW o \in tjDel.keys, Fault, tjStore' = tjStore \ (tjDel.keys \ {o}),
               tjMissed' = tjMissed \cup {o[1]}
        PROVE  /\ tjStore' \subseteq tjStore /\ tjMissed \subseteq tjMissed' /\ tjMissed' \subseteq Jobs
               /\ tjFaults' \in 0 .. MaxJobFaults
               /\ \A j \in Jobs, f \in JobFormats :
                    /\ <<j, f>> \in tjStore \ tjDel.keys => <<j, f>> \in tjStore'
                    /\ <<j, f>> \in tjStore' \cap tjDel.keys => j \in tjMissed'
    <3>1. tjFaults' \in 0 .. MaxJobFaults
      BY <2>2, JobsAssumption DEF Fault, JobShapes
    <3>2. o[1] \in Jobs /\ \A j, f : o = <<j, f>> => o[1] = j
      BY <1>0 DEF DelRow
    <3> QED BY <2>2, <3>1, <3>2 DEF JobShapes
  <2> QED BY <2>1, <2>2 DEF DeleteJobObjects
<1>2. /\ tjDel' \in DelRow
      /\ \/ /\ tjDel.pc = "tree" /\ tjDel'.pc = "cascade"
            /\ tjDel'.jobs = tjDel.jobs /\ tjDel'.keys = tjDel.keys
         \/ tjDel.pc = "objects" /\ tjDel'.pc = "none" /\ tjDel'.jobs = {} /\ tjDel'.keys = {}
  <2>1. NoDel \in DelRow /\ NoDel.pc = "none" /\ NoDel.jobs = {} /\ NoDel.keys = {}
    BY DEF NoDel, DelRow
  <2>2. PICK d : d = [tjDel EXCEPT !.pc = "cascade"]
    OBVIOUS
  <2>3. d \in DelRow /\ d.pc = "cascade" /\ d.jobs = tjDel.jobs /\ d.keys = tjDel.keys
    BY <1>0, <2>2 DEF DelRow
  <2> QED BY <1>0, <2>1, <2>2, <2>3
<1>3. JobShapes'
  BY <1>0, <1>1, <1>2 DEF JobShapes
<1>4. RowsFit'
  <2>1. \A j \in Jobs : tjJob[j].keys \subseteq JobFormats
    BY DEF JobShapes, JobRow
  <2>2. \A j \in Jobs : tjJob[j].at = "ready" /\ j \notin tjDel'.jobs => j \notin tjDel.jobs
    BY <1>2 DEF DelFits
  <2>3. \A j \in Jobs, f \in JobFormats : <<j, f>> \in tjDel.keys => j \in tjDel.jobs
    BY DEF DelFits
  <2> QED BY <1>0, <1>1, <2>1, <2>2, <2>3 DEF RowsFit
<1>5. TickFits'
  <2>1. tjTick.put \subseteq JobFormats
    BY DEF JobShapes, TickRow
  <2>2. tjTick.pc \in Underway => \A f \in JobFormats : <<tjTick.job, f>> \notin tjDel.keys
    BY DEF TickFits, DelFits
  <2> QED BY <1>0, <1>1, <2>1, <2>2 DEF TickFits, Underway
<1>6. DelFits'
  <2>1. tjDel.jobs \subseteq Jobs /\ \A j \in Jobs : tjJob[j].keys \subseteq JobFormats
    BY <1>0 DEF JobShapes, DelRow, JobRow
  <2>2. CASE tjDel.pc = "tree"
    BY <1>0, <1>1, <1>2, <2>1, <2>2 DEF DelFits
  <2>3. CASE tjDel.pc = "objects"
    BY <1>0, <1>1, <1>2, <2>1, <2>3 DEF DelFits
  <2> QED BY <1>0, <2>2, <2>3
<1>7. FilesOwned'
  <2> SUFFICES ASSUME NEW i \in Reports \ tjMissed', NEW g \in JobFormats, <<i, g>> \in tjStore'
               PROVE  \/ Here(i)' /\ g \in tjJob'[i].keys
                      \/ Working(i)' /\ g \in tjTick'.put
                      \/ <<i, g>> \in tjDel'.keys
    BY DEF FilesOwned
  <2>1. i \in Jobs /\ i \in Reports \ tjMissed /\ <<i, g>> \in tjStore /\ <<i, g>> \notin tjDel.keys
    BY <1>1, JobsAssumption
  <2> QED BY <1>0, <2>1 DEF FilesOwned, Here, Working
<1> QED BY <1>3, <1>4, <1>5, <1>6, <1>7

(* With the competition goes every row; what of their files is left was    *)
(* noted, or is being rendered still.                                      *)
LEMMA DeleteCascadeStep ==
  ASSUME TickJobsInv, DeleteCascade
  PROVE  TickJobsInv'
<1> USE DEF TickJobsInv
<1>0. /\ tjDel.pc = "cascade" /\ tjComp' = FALSE /\ tjDel' = NoDel
      /\ tjJob' = [j \in Jobs |-> [tjJob[j] EXCEPT !.at = "gone"]]
      /\ UNCHANGED <<tjStore, tjTick, tjFaults, tjMissed>>
  BY DEF DeleteCascade
<1>1. tjDel' \in DelRow /\ tjDel'.pc = "none" /\ tjDel'.jobs = {} /\ tjDel'.keys = {}
  BY <1>0 DEF NoDel, DelRow
<1>2. /\ tjJob' \in [Jobs -> JobRow]
      /\ \A j \in Jobs : tjJob'[j].keys = tjJob[j].keys /\ tjJob'[j].at = "gone"
  <2>1. tjJob' = JobBecomes(Jobs, "gone")
    BY <1>0 DEF JobBecomes
  <2>2. tjJob \in [Jobs -> JobRow] /\ Jobs \in SUBSET Jobs
    BY DEF JobShapes
  <2>3. /\ tjJob' \in [Jobs -> JobRow]
        /\ \A j \in Jobs : /\ tjJob'[j].keys = tjJob[j].keys
                           /\ tjJob'[j].at = IF j \in Jobs THEN "gone" ELSE tjJob[j].at
    BY ONLY <2>1, <2>2, RowsBecome
  <2> QED BY <2>3
<1>3. JobShapes' /\ RowsFit'
  <2>1. JobShapes'
    BY <1>0, <1>1, <1>2 DEF JobShapes
  <2>2. RowsFit'
    BY <1>2 DEF RowsFit
  <2> QED BY <2>1, <2>2
<1>4. TickFits'
  <2>1. tjTick.stuck \subseteq Jobs
    BY DEF JobShapes, TickRow
  <2> QED BY <1>0, <1>2, <2>1 DEF TickFits, Underway, Storing
<1>5. DelFits'
  BY <1>1 DEF DelFits
<1>6. FilesOwned'
  <2> SUFFICES ASSUME NEW i \in Reports \ tjMissed, NEW g \in JobFormats, <<i, g>> \in tjStore
               PROVE  Working(i)' /\ g \in tjTick'.put
    BY <1>0 DEF FilesOwned
  <2>1. i \in Jobs /\ i \in tjDel.jobs \cap Reports
    BY <1>0, JobsAssumption DEF DelFits
  <2>2. <<i, g>> \notin tjDel.keys
    BY <1>0, <2>1 DEF DelFits
  <2>3. g \notin tjJob[i].keys
    BY <1>0, <2>1, <2>2 DEF DelFits
  <2> QED BY <1>0, <2>2, <2>3 DEF FilesOwned, Working
<1> QED BY <1>3, <1>4, <1>5, <1>6

(* Every step of the jobs keeps the invariant.                             *)
LEMMA TickJobsStep == TickJobsInv /\ [TickJobsNext]_tjVars => TickJobsInv'
<1> SUFFICES ASSUME TickJobsInv, [TickJobsNext]_tjVars PROVE TickJobsInv'
  OBVIOUS
<1>1. CASE UNCHANGED tjVars
  BY <1>1 DEF tjVars, TickJobsInv, JobShapes, RowsFit, TickFits, DelFits, FilesOwned, Here, Working
<1>2. CASE TickStep
  BY <1>2, TickLooks, ReclaimStep, StartStep, PutStep, JobFinishesStep, ExceptStep DEF TickStep
<1>3. ASSUME NEW j \in Jobs, CreateJob(j) \/ Age(j) PROVE TickJobsInv'
  BY <1>3, CreateJobStep, AgeStep
<1>4. CASE (\E j \in Jobs : DeleteReport(j)) \/ DeleteCompetition
  BY <1>4, DeletionReads
<1>5. CASE JobCrash \/ DeleteRow \/ DeleteJobObjects \/ DeleteCascade
  BY <1>5, JobCrashStep, DeleteRowStep, DeleteJobObjectsStep, DeleteCascadeStep
<1> QED
  BY <1>1, <1>2, <1>3, <1>4, <1>5 DEF TickJobsNext

-----------------------------------------------------------------------------
(***************************************************************************)
(* The judge's sandboxes.  A claim's attempt is never above its row's; a   *)
(* container exists only past the claim that made it, and only where its   *)
(* executor or a fault left it.  While a sweep has yet to list, a judging  *)
(* of its own that it does not keep was claimed after it read the rows, so *)
(* its container is younger than any it takes (containers do not reach an  *)
(* age during a sweep); what it listed of its own is fenced out.           *)
(***************************************************************************)
BoxRow == [state : {"none", "created", "running", "exited", "gone"}, age : 0 .. 2,
           log : Answers \cup {"none"}]
RunRow == [pc : {"idle", "image", "create", "upload", "start", "wait", "logs", "remove", "unwind",
                 "settle", "over"},
           read : Answers \cup {"none"}]
TriedRow == [status : {"queued", "running", "done", "failed"}, attempts : Nat, overdue : BOOLEAN]
SweepRow == [pc : {"idle", "list", "remove"}, keep : SUBSET Tried, list : SUBSET Claims]

SandboxShapes ==
    /\ sbRow \in [Tried -> TriedRow] /\ \A j \in Tried : sbRow[j].attempts <= TriesOf[j]
    /\ sbRun \in [Claims -> RunRow] /\ sbBox \in [Claims -> BoxRow]
    /\ sbSweep \in [Sweepers -> SweepRow] /\ sbFaults \in 0 .. MaxSandboxFaults

ClaimFits(c) ==
    /\ sbRun[c].pc # "idle" => c[2] <= sbRow[c[1]].attempts
    /\ sbRun[c].pc \in {"idle", "image", "create"} => sbBox[c].state = "none" /\ sbBox[c].age = 0
    /\ sbFaults = 0 /\ sbRun[c].pc \in {"idle", "settle", "over"} => ~ BoxThere(c)

DoneFits(j) ==
    sbRow[j].status = "done" =>
        /\ <<j, sbRow[j].attempts>> \in Claims
        /\ sbRun[<<j, sbRow[j].attempts>>].pc = "over"
        /\ sbRun[<<j, sbRow[j].attempts>>].read = "verdict"

SweepFits(i, c) ==
    HomeOf[c[1]] = i =>
        /\ sbSweep[i].pc = "list" /\ c[1] \notin sbSweep[i].keep /\ Fenced(c) => sbBox[c].age = 0
        /\ c \in sbSweep[i].list => ~ Fenced(c) /\ sbBox[c].state # "none"

SandboxInv ==
    /\ SandboxShapes /\ OwnIsNotCut
    /\ \A c \in Claims : ClaimFits(c)
    /\ \A j \in Tried : DoneFits(j)
    /\ \A i \in Sweepers, c \in Claims : SweepFits(i, c)

(* A claim is a judging and one of its attempts.                           *)
LEMMA ClaimsAre ==
  /\ \A c \in Claims : /\ c[1] \in Tried /\ c[2] \in 1 .. TriesOf[c[1]] /\ c[2] \in Nat
                       /\ c = <<c[1], c[2]>>
  /\ \A j \in Tried : \A n \in 1 .. TriesOf[j] : <<j, n>> \in Claims
  /\ \A j \in Tried : TriesOf[j] \in Nat \ {0}
BY SandboxAssumption DEF Claims

LEMMA SandboxStart == SandboxInit => SandboxInv
<1> SUFFICES ASSUME SandboxInit PROVE SandboxInv
  OBVIOUS
<1> USE SandboxAssumption
<1>1. SandboxShapes
  <2>1. sbRow \in [Tried -> TriedRow] /\ \A j \in Tried : sbRow[j].attempts <= TriesOf[j]
    <3>1. \A j \in Tried : 0 <= TriesOf[j]
      BY ClaimsAre
    <3> QED BY <3>1 DEF SandboxInit, TriedRow
  <2>2. sbRun \in [Claims -> RunRow] /\ sbBox \in [Claims -> BoxRow]
    BY DEF SandboxInit, IdleRun, RunRow, NoBox, BoxRow
  <2>3. sbSweep \in [Sweepers -> SweepRow] /\ sbFaults \in 0 .. MaxSandboxFaults
    BY DEF SandboxInit, IdleSweep, SweepRow
  <2> QED BY <2>1, <2>2, <2>3 DEF SandboxShapes
<1>2. OwnIsNotCut
  BY DEF SandboxInit, OwnIsNotCut
<1>3. \A c \in Claims : ClaimFits(c)
  BY DEF SandboxInit, ClaimFits, BoxThere, IdleRun, NoBox
<1>4. \A j \in Tried : DoneFits(j)
  BY DEF SandboxInit, DoneFits
<1>5. \A i \in Sweepers, c \in Claims : SweepFits(i, c)
  BY DEF SandboxInit, SweepFits, IdleSweep
<1> QED BY <1>1, <1>2, <1>3, <1>4, <1>5 DEF SandboxInv

LEMMA SandboxKept == SandboxInv => SandboxTypeOK /\ SandboxSafe
<1> SUFFICES ASSUME SandboxInv PROVE SandboxTypeOK /\ SandboxSafe
  OBVIOUS
<1> USE DEF SandboxInv
<1>1. SandboxTypeOK
  <2>1. \A j \in Tried : /\ sbRow[j].status \in {"queued", "running", "done", "failed"}
                         /\ sbRow[j].attempts \in 0 .. TriesOf[j]
    BY ClaimsAre DEF SandboxShapes, TriedRow
  <2>2. \A c \in Claims : /\ sbBox[c].age \in 0 .. 2 /\ sbRun[c].read \in Answers \cup {"none"}
                          /\ sbBox[c].state \in {"none", "created", "running", "exited", "gone"}
    BY DEF SandboxShapes, BoxRow, RunRow
  <2>3. \A i \in Sweepers : sbSweep[i].keep \subseteq Tried /\ sbSweep[i].list \subseteq Claims
    BY DEF SandboxShapes, SweepRow
  <2> QED BY <2>1, <2>2, <2>3 DEF SandboxTypeOK
<1>2. DoneByOwnBox
  BY DEF DoneByOwnBox, DoneFits
<1>3. NothingLeftUnlessFaulty
  BY DEF NothingLeftUnlessFaulty, ClaimFits
<1> QED BY <1>1, <1>2, <1>3 DEF SandboxSafe

(* What an executor or a container does concerns its own claim.            *)
LEMMA OneClaim ==
  ASSUME SandboxInv, NEW c \in Claims, UNCHANGED <<sbRow, sbSweep, sbCut>>,
         sbRun' \in [Claims -> RunRow], sbBox' \in [Claims -> BoxRow],
         sbFaults' \in 0 .. MaxSandboxFaults, sbFaults' = 0 => sbFaults = 0,
         \A d \in Claims : d # c => sbRun'[d] = sbRun[d] /\ sbBox'[d] = sbBox[d],
         sbRun[c].pc # "idle", sbRun'[c].pc # "idle",
         sbRun[c].pc = "over" => sbRun'[c] = sbRun[c],
         sbRun'[c].pc \in {"image", "create"} => sbBox'[c].state = "none" /\ sbBox'[c].age = 0,
         sbBox[c].state # "none" => sbBox'[c].state # "none",
         \/ sbBox[c].age = 0 => sbBox'[c].age = 0
         \/ \A i \in Sweepers : sbSweep[i].pc = "idle",
         sbFaults' = 0 /\ sbRun'[c].pc \in {"settle", "over"} => ~ BoxThere(c)'
  PROVE  SandboxInv'
<1> USE DEF SandboxInv
<1>1. SandboxShapes'
  BY DEF SandboxShapes
<1>2. OwnIsNotCut'
  BY DEF OwnIsNotCut
<1>3. \A d \in Claims : ClaimFits(d)'
  BY DEF ClaimFits, BoxThere
<1>4. \A j \in Tried : DoneFits(j)'
  BY DEF DoneFits
<1>5. \A i \in Sweepers, d \in Claims : SweepFits(i, d)'
  BY DEF SweepFits, Fenced
<1> QED BY <1>1, <1>2, <1>3, <1>4, <1>5

(* The executor of a claim moves, its container is untouched.              *)
LEMMA RunMoves ==
  ASSUME SandboxShapes, NEW c \in Claims, NEW pc \in {"image", "create", "upload", "start", "wait",
           "logs", "remove", "unwind", "settle", "over"}, RunGoes(c, pc)
  PROVE  /\ sbRun' \in [Claims -> RunRow] /\ sbRun'[c].pc = pc /\ sbRun'[c].read = sbRun[c].read
         /\ \A d \in Claims : d # c => sbRun'[d] = sbRun[d]
<1>1. PICK r : r = [sbRun[c] EXCEPT !.pc = pc]
  OBVIOUS
<1>2. r \in RunRow /\ r.pc = pc /\ r.read = sbRun[c].read
  BY <1>1 DEF SandboxShapes, RunRow
<1>3. sbRun' = [sbRun EXCEPT ![c] = r]
  BY <1>1 DEF RunGoes
<1> QED BY <1>2, <1>3 DEF SandboxShapes

LEMMA BoxBecomes ==
  ASSUME SandboxShapes, NEW c \in Claims, NEW s \in {"created", "running", "exited"}, BoxIs(c, s)
  PROVE  /\ sbBox' \in [Claims -> BoxRow] /\ sbBox'[c].state = s /\ sbBox'[c].age = sbBox[c].age
         /\ \A d \in Claims : d # c => sbBox'[d] = sbBox[d]
<1>1. PICK b : b = [sbBox[c] EXCEPT !.state = s]
  OBVIOUS
<1>2. b \in BoxRow /\ b.state = s /\ b.age = sbBox[c].age
  BY <1>1 DEF SandboxShapes, BoxRow
<1>3. sbBox' = [sbBox EXCEPT ![c] = b]
  BY <1>1 DEF BoxIs
<1> QED BY <1>2, <1>3 DEF SandboxShapes

LEMMA BoxRemoved ==
  ASSUME SandboxShapes, NEW c \in Claims, sbBox' = BoxGone(c)
  PROVE  /\ sbBox' \in [Claims -> BoxRow] /\ ~ BoxThere(c)'
         /\ \A d \in Claims : d # c => sbBox'[d] = sbBox[d]
         /\ sbBox[c].state # "none" => sbBox'[c].state # "none"
         /\ sbBox'[c] = sbBox[c] \/ (BoxThere(c) /\ sbBox'[c].age = 0)
<1>1. CASE BoxThere(c)
  <2>1. PICK b : b = [NoBox EXCEPT !.state = "gone"]
    OBVIOUS
  <2>2. b \in BoxRow /\ b.state = "gone" /\ b.age = 0
    BY <2>1 DEF NoBox, BoxRow
  <2>3. sbBox' = [sbBox EXCEPT ![c] = b]
    BY <1>1, <2>1 DEF BoxGone
  <2> QED BY <1>1, <2>2, <2>3 DEF SandboxShapes, BoxThere
<1>2. CASE ~ BoxThere(c)
  <2>1. sbBox' = sbBox
    BY <1>2 DEF BoxGone
  <2> QED BY <1>2, <2>1 DEF SandboxShapes, BoxThere
<1> QED BY <1>1, <1>2

LEMMA FaultsRise ==
  ASSUME SandboxShapes, UNCHANGED sbFaults \/ SbFault
  PROVE  /\ sbFaults' \in 0 .. MaxSandboxFaults
         /\ sbFaults' = 0 => sbFaults = 0
         /\ SbFault => sbFaults' # 0
BY SandboxAssumption DEF SandboxShapes, SbFault

(* Steps of an executor that leave its container alone.                    *)
LEMMA ExecutorStep ==
  ASSUME SandboxInv, NEW c \in Claims,
         \/ ExecPrepares(c) \/ ExecUploads(c) \/ ExecWaits(c) \/ WaitTimesOut(c)
         \/ RequestFails(c) \/ ExecCancelled(c)
  PROVE  SandboxInv'
<1> USE DEF SandboxInv
<1>0. /\ UNCHANGED <<sbRow, sbBox, sbSweep, sbCut>> /\ (UNCHANGED sbFaults \/ SbFault)
      /\ sbRun[c].pc \notin {"idle", "over"}
  BY DEF ExecPrepares, ExecUploads, ExecWaits, WaitTimesOut, RequestFails, ExecCancelled
<1>1. PICK pc \in {"create", "upload", "start", "logs", "remove", "unwind", "settle", "over"} :
        /\ RunGoes(c, pc) /\ (pc = "create" => sbRun[c].pc = "image")
        /\ pc \in {"settle", "over"} => SbFault
  <2>1. CASE ExecPrepares(c)
    BY <2>1 DEF ExecPrepares
  <2>2. CASE ExecUploads(c)
    BY <2>2 DEF ExecUploads
  <2>3. CASE ExecWaits(c)
    BY <2>3 DEF ExecWaits
  <2>4. CASE WaitTimesOut(c)
    BY <2>4 DEF WaitTimesOut
  <2>5. CASE RequestFails(c)
    BY <2>5 DEF RequestFails
  <2>6. CASE ExecCancelled(c)
    BY <2>6 DEF ExecCancelled
  <2> QED BY <2>1, <2>2, <2>3, <2>4, <2>5, <2>6
<1>2. /\ sbRun' \in [Claims -> RunRow] /\ sbRun'[c].pc = pc
      /\ \A d \in Claims : d # c => sbRun'[d] = sbRun[d]
  BY <1>1, RunMoves
<1>3. /\ sbFaults' \in 0 .. MaxSandboxFaults /\ (sbFaults' = 0 => sbFaults = 0)
      /\ SbFault => sbFaults' # 0
  BY <1>0, FaultsRise
<1>4. sbBox' \in [Claims -> BoxRow] /\ sbBox' = sbBox
  BY <1>0 DEF SandboxShapes
<1>5. sbRun'[c].pc \in {"image", "create"} => sbBox'[c].state = "none" /\ sbBox'[c].age = 0
  BY <1>1, <1>2, <1>4 DEF ClaimFits
<1>6. sbFaults' = 0 /\ sbRun'[c].pc \in {"settle", "over"} => ~ BoxThere(c)'
  BY <1>1, <1>2, <1>3
<1> QED
  BY <1>0, <1>1, <1>2, <1>3, <1>4, <1>5, <1>6, OneClaim

(* Its container is made; an executor that never heard of it is a fault.   *)
LEMMA ExecCreatesStep ==
  ASSUME SandboxInv, NEW c \in Claims, ExecCreates(c)
  PROVE  SandboxInv'
<1> USE DEF SandboxInv
<1>0. /\ UNCHANGED <<sbRow, sbSweep, sbCut>> /\ BoxIs(c, "created") /\ sbRun[c].pc = "create"
  BY DEF ExecCreates
<1>1. PICK pc \in {"upload", "settle"} : /\ RunGoes(c, pc) /\ (UNCHANGED sbFaults \/ SbFault)
                                         /\ pc = "settle" => SbFault
  BY DEF ExecCreates
<1>2. /\ sbRun' \in [Claims -> RunRow] /\ sbRun'[c].pc = pc
      /\ \A d \in Claims : d # c => sbRun'[d] = sbRun[d]
  BY <1>1, RunMoves
<1>3. /\ sbFaults' \in 0 .. MaxSandboxFaults /\ (sbFaults' = 0 => sbFaults = 0)
      /\ SbFault => sbFaults' # 0
  BY <1>1, FaultsRise
<1>4. /\ sbBox' \in [Claims -> BoxRow] /\ sbBox'[c].state = "created" /\ sbBox'[c].age = sbBox[c].age
      /\ \A d \in Claims : d # c => sbBox'[d] = sbBox[d]
  BY <1>0, BoxBecomes
<1> QED
  BY <1>0, <1>1, <1>2, <1>3, <1>4, OneClaim

LEMMA ExecStartsStep ==
  ASSUME SandboxInv, NEW c \in Claims, ExecStarts(c)
  PROVE  SandboxInv'
<1> USE DEF SandboxInv
<1>0. UNCHANGED <<sbRow, sbSweep, sbCut, sbFaults>> /\ sbRun[c].pc = "start"
  BY DEF ExecStarts
<1>1. PICK pc \in {"wait", "remove"} : /\ RunGoes(c, pc)
                                       /\ BoxIs(c, "running") \/ UNCHANGED sbBox
  BY DEF ExecStarts
<1>2. /\ sbRun' \in [Claims -> RunRow] /\ sbRun'[c].pc = pc
      /\ \A d \in Claims : d # c => sbRun'[d] = sbRun[d]
  BY <1>1, RunMoves
<1>3. sbFaults' \in 0 .. MaxSandboxFaults /\ sbFaults' = sbFaults
  BY <1>0 DEF SandboxShapes
<1>4. /\ sbBox' \in [Claims -> BoxRow] /\ sbBox'[c].age = sbBox[c].age
      /\ sbBox[c].state # "none" => sbBox'[c].state # "none"
      /\ \A d \in Claims : d # c => sbBox'[d] = sbBox[d]
  BY <1>1, BoxBecomes DEF SandboxShapes
<1> QED
  BY <1>0, <1>1, <1>2, <1>3, <1>4, OneClaim

LEMMA ExecReadsStep ==
  ASSUME SandboxInv, NEW c \in Claims, ExecReads(c)
  PROVE  SandboxInv'
<1> USE DEF SandboxInv
<1>0. UNCHANGED <<sbRow, sbBox, sbSweep, sbCut, sbFaults>> /\ sbRun[c].pc = "logs"
  BY DEF ExecReads
<1>1. PICK what \in Answers \cup {"none"} : RunReads(c, "remove", what)
  <2>1. sbBox[c].log \in Answers \cup {"none"}
    BY DEF SandboxShapes, BoxRow
  <2> QED BY <2>1 DEF ExecReads
<1>2. /\ sbRun' \in [Claims -> RunRow] /\ sbRun'[c].pc = "remove"
      /\ \A d \in Claims : d # c => sbRun'[d] = sbRun[d]
  <2>1. PICK a : a = [sbRun[c] EXCEPT !.pc = "remove"]
    OBVIOUS
  <2>2. PICK b : b = [a EXCEPT !.read = what]
    OBVIOUS
  <2>3. a \in RunRow /\ a.pc = "remove"
    BY <2>1 DEF SandboxShapes, RunRow
  <2>4. b \in RunRow /\ b.pc = "remove"
    BY <2>2, <2>3 DEF RunRow
  <2>5. sbRun' = [sbRun EXCEPT ![c] = b]
    BY <1>1, <2>1, <2>2 DEF RunReads, SandboxShapes
  <2> QED BY <2>4, <2>5 DEF SandboxShapes
<1>3. /\ sbFaults' \in 0 .. MaxSandboxFaults /\ sbFaults' = sbFaults
      /\ sbBox' \in [Claims -> BoxRow] /\ sbBox' = sbBox
  BY <1>0 DEF SandboxShapes
<1> QED
  BY <1>0, <1>2, <1>3, OneClaim

LEMMA ExecRemovesStep ==
  ASSUME SandboxInv, NEW c \in Claims, ExecRemoves(c)
  PROVE  SandboxInv'
<1> USE DEF SandboxInv
<1>0. UNCHANGED <<sbRow, sbSweep, sbCut>> /\ sbRun[c].pc \in {"remove", "unwind"}
  BY DEF ExecRemoves
<1>1. PICK pc \in {"over", "settle"} : RunGoes(c, pc)
  BY DEF ExecRemoves
<1>2. /\ sbRun' \in [Claims -> RunRow] /\ sbRun'[c].pc = pc
      /\ \A d \in Claims : d # c => sbRun'[d] = sbRun[d]
  BY <1>1, RunMoves
<1>3. /\ sbFaults' \in 0 .. MaxSandboxFaults /\ (sbFaults' = 0 => sbFaults = 0)
      /\ SbFault => sbFaults' # 0
  BY FaultsRise DEF ExecRemoves
<1>4. /\ sbBox' \in [Claims -> BoxRow]
      /\ sbBox[c].age = 0 => sbBox'[c].age = 0
      /\ sbBox[c].state # "none" => sbBox'[c].state # "none"
      /\ \A d \in Claims : d # c => sbBox'[d] = sbBox[d]
      /\ SbFault \/ ~ BoxThere(c)'
  <2>1. CASE sbBox' = BoxGone(c)
    BY <2>1, BoxRemoved
  <2>2. CASE UNCHANGED sbBox /\ SbFault
    BY <2>2 DEF SandboxShapes
  <2> QED BY <2>1, <2>2 DEF ExecRemoves
<1> QED
  BY <1>0, <1>1, <1>2, <1>3, <1>4, OneClaim

(* A container exits, or grows older while no sweep is under way.          *)
LEMMA BoxStep ==
  ASSUME SandboxInv, NEW c \in Claims,
         BoxAges(c) \/ \E log \in Answers \cup {"none"} : BoxExits(c, log)
  PROVE  SandboxInv'
<1> USE DEF SandboxInv
<1>0. /\ UNCHANGED <<sbRow, sbRun, sbSweep, sbCut>> /\ (UNCHANGED sbFaults \/ SbFault)
      /\ BoxThere(c)
  BY DEF BoxAges, BoxExits, BoxThere
<1>1. PICK b \in BoxRow : /\ sbBox' = [sbBox EXCEPT ![c] = b] /\ b.state # "none"
                          /\ b.age = sbBox[c].age \/ \A i \in Sweepers : sbSweep[i].pc = "idle"
  <2>1. CASE BoxAges(c)
    <3>1. PICK b : b = [sbBox[c] EXCEPT !.age = sbBox[c].age + 1]
      OBVIOUS
    <3>2. sbBox[c] \in BoxRow /\ sbBox[c].age < 2
      BY <2>1 DEF BoxAges, SandboxShapes
    <3>3. b \in BoxRow /\ b.state = sbBox[c].state
      BY <3>1, <3>2 DEF BoxRow
    <3> QED BY <1>0, <2>1, <3>1, <3>3 DEF BoxAges, BoxThere
  <2>2. ASSUME NEW log \in Answers \cup {"none"}, BoxExits(c, log)
        PROVE  \E b \in BoxRow : /\ sbBox' = [sbBox EXCEPT ![c] = b] /\ b.state # "none"
                                 /\ b.age = sbBox[c].age
    <3>1. PICK a : a = [sbBox[c] EXCEPT !.state = "exited"]
      OBVIOUS
    <3>2. a \in BoxRow /\ a.state = "exited" /\ a.age = sbBox[c].age
      BY <3>1 DEF SandboxShapes, BoxRow
    <3>3. PICK b : b = [a EXCEPT !.log = log]
      OBVIOUS
    <3>4. b \in BoxRow /\ b.state = "exited" /\ b.age = sbBox[c].age
      BY <3>2, <3>3 DEF BoxRow
    <3>5. sbBox' = [sbBox EXCEPT ![c] = b]
      BY <2>2, <3>1, <3>3 DEF BoxExits, SandboxShapes
    <3> QED BY <3>4, <3>5
  <2> QED BY <2>1, <2>2
<1>2. /\ sbBox' \in [Claims -> BoxRow] /\ sbBox'[c] = b
      /\ \A d \in Claims : d # c => sbBox'[d] = sbBox[d]
  BY <1>1 DEF SandboxShapes
<1>3. /\ sbFaults' \in 0 .. MaxSandboxFaults /\ (sbFaults' = 0 => sbFaults = 0)
  BY <1>0, FaultsRise
<1>4. /\ sbRun' \in [Claims -> RunRow] /\ sbRun' = sbRun
      /\ sbRun[c].pc \notin {"idle", "image", "create"}
  BY <1>0 DEF SandboxShapes, ClaimFits, BoxThere
<1>5. sbFaults' = 0 => sbRun'[c].pc \notin {"settle", "over"}
  BY <1>0, <1>3, <1>4 DEF ClaimFits
<1> QED
  BY <1>0, <1>1, <1>2, <1>3, <1>4, <1>5, OneClaim

(* A claim's next attempt is new: it has neither executor nor container.   *)
LEMMA ClaimJobStep ==
  ASSUME SandboxInv, NEW j \in Tried, ClaimJob(j)
  PROVE  SandboxInv'
<1> USE DEF SandboxInv
<1>0. /\ UNCHANGED <<sbBox, sbSweep, sbCut, sbFaults>>
      /\ sbRow[j].status = "queued" /\ sbRow[j].attempts < TriesOf[j]
      /\ sbRow[j].attempts \in Nat /\ TriesOf[j] \in Nat
  BY ClaimsAre DEF ClaimJob, SandboxShapes, TriedRow
<1> DEFINE n == sbRow[j].attempts + 1
           c == <<j, n>>
<1>1. n \in 1 .. TriesOf[j] /\ c \in Claims /\ c[1] = j /\ c[2] = n /\ n > sbRow[j].attempts
  BY <1>0, ClaimsAre
<1> HIDE DEF n
<1>2. /\ sbRow' \in [Tried -> TriedRow] /\ sbRow'[j].attempts = n /\ sbRow'[j].status = "running"
      /\ \A k \in Tried : k # j => sbRow'[k] = sbRow[k]
  <2>1. PICK r : r = [status |-> "running", attempts |-> n, overdue |-> FALSE]
    OBVIOUS
  <2>2. r \in TriedRow /\ r.attempts = n /\ r.status = "running"
    BY <1>1, <2>1 DEF TriedRow
  <2>3. sbRow' = [sbRow EXCEPT ![j] = r]
    BY <2>1 DEF ClaimJob, n
  <2> QED BY <2>2, <2>3 DEF SandboxShapes
<1>3. /\ sbRun' \in [Claims -> RunRow] /\ sbRun'[c].pc = "image"
      /\ \A d \in Claims : d # c => sbRun'[d] = sbRun[d]
  <2>1. RunGoes(c, "image")
    BY DEF ClaimJob, n
  <2> QED BY <1>1, <2>1, RunMoves
<1>4. sbRun[c].pc = "idle" /\ sbBox[c].state = "none" /\ sbBox[c].age = 0
  <2>1. sbRun[c].pc = "idle"
    BY <1>0, <1>1 DEF ClaimFits
  <2> QED BY <1>1, <2>1 DEF ClaimFits
<1>5. SandboxShapes'
  <2>1. \A k \in Tried : sbRow'[k].attempts <= TriesOf[k]
    BY <1>0, <1>1, <1>2 DEF SandboxShapes
  <2> QED BY <1>0, <1>2, <1>3, <2>1 DEF SandboxShapes
<1>6. OwnIsNotCut'
  BY <1>0 DEF OwnIsNotCut
<1>7. \A d \in Claims : ClaimFits(d)'
  <2> SUFFICES ASSUME NEW d \in Claims PROVE ClaimFits(d)'
    OBVIOUS
  <2>1. CASE d = c
    BY <1>0, <1>1, <1>2, <1>3, <1>4, <2>1 DEF ClaimFits, BoxThere
  <2>2. CASE d # c
    <3>1. sbRun'[d].pc # "idle" => d[2] <= sbRow'[d[1]].attempts
      <4>1. d[1] \in Tried /\ d[2] \in Nat
        BY ClaimsAre
      <4>2. CASE d[1] = j
        BY <1>0, <1>1, <1>2, <1>3, <2>2, <4>1, <4>2 DEF ClaimFits
      <4>3. CASE d[1] # j
        BY <1>2, <1>3, <2>2, <4>1, <4>3 DEF ClaimFits
      <4> QED BY <4>2, <4>3
    <3> QED BY <1>0, <1>3, <2>2, <3>1 DEF ClaimFits, BoxThere
  <2> QED BY <2>1, <2>2
<1>8. \A k \in Tried : DoneFits(k)'
  <2> SUFFICES ASSUME NEW k \in Tried PROVE DoneFits(k)'
    OBVIOUS
  <2>1. CASE k = j
    BY <1>2, <2>1 DEF DoneFits
  <2>2. CASE k # j
    BY <1>1, <1>2, <1>3, <2>2 DEF DoneFits
  <2> QED BY <2>1, <2>2
<1>9. \A i \in Sweepers, d \in Claims : SweepFits(i, d)'
  <2> SUFFICES ASSUME NEW i \in Sweepers, NEW d \in Claims PROVE SweepFits(i, d)'
    OBVIOUS
  <2>1. CASE d = c
    BY <1>0, <1>4, <2>1 DEF SweepFits
  <2>2. CASE d # c
    <3>1. Fenced(d)' => Fenced(d)
      <4>1. d[1] \in Tried /\ d = <<d[1], d[2]>>
        BY ClaimsAre
      <4> QED BY <1>2, <2>2, <4>1 DEF Fenced
    <3> QED BY <1>0, <3>1 DEF SweepFits
  <2> QED BY <2>1, <2>2
<1> QED BY <1>5, <1>6, <1>7, <1>8, <1>9

(* A judging settles by the answer of its own attempt, if still its.       *)
LEMMA SettlesStep ==
  ASSUME SandboxInv, NEW c \in Claims, Settles(c)
  PROVE  SandboxInv'
<1> USE DEF SandboxInv
<1>0. /\ UNCHANGED <<sbBox, sbSweep, sbCut, sbFaults>> /\ sbRun[c].pc = "settle"
      /\ RunGoes(c, "over")
  BY DEF Settles
<1>1. /\ sbRun' \in [Claims -> RunRow] /\ sbRun'[c].pc = "over" /\ sbRun'[c].read = sbRun[c].read
      /\ \A d \in Claims : d # c => sbRun'[d] = sbRun[d]
  BY <1>0, RunMoves
<1>2. c[1] \in Tried /\ c = <<c[1], c[2]>>
  BY ClaimsAre
<1>3. /\ sbRow' \in [Tried -> TriedRow]
      /\ \A k \in Tried : /\ sbRow'[k].attempts = sbRow[k].attempts
                          /\ sbRow'[k].status = "running" => sbRow[k].status = "running"
                          /\ \/ sbRow'[k].status = "done" => sbRow[k].status = "done"
                             \/ k = c[1] /\ Fenced(c) /\ sbRun[c].read = "verdict"
  <2>1. CASE ~ Fenced(c)
    <3>1. sbRow' = sbRow
      BY <2>1 DEF Settles
    <3> QED BY <3>1 DEF SandboxShapes
  <2>2. CASE Fenced(c)
    <3> DEFINE s == IF sbRun[c].read = "verdict" THEN "done" ELSE Retried(c[1])
    <3>1. s \in {"done", "queued", "failed"} /\ (s = "done" => sbRun[c].read = "verdict")
      BY DEF Retried
    <3>2. sbRow' = [sbRow EXCEPT ![c[1]].overdue = FALSE, ![c[1]].status = s]
      BY <2>2 DEF Settles
    <3> HIDE DEF s
    <3>3. PICK a : a = [sbRow[c[1]] EXCEPT !.overdue = FALSE]
      OBVIOUS
    <3>4. PICK r : r = [a EXCEPT !.status = s]
      OBVIOUS
    <3>5. a \in TriedRow /\ a.attempts = sbRow[c[1]].attempts
      BY <1>2, <3>3 DEF SandboxShapes, TriedRow
    <3>6. r \in TriedRow /\ r.attempts = sbRow[c[1]].attempts /\ r.status = s
      BY <3>1, <3>4, <3>5 DEF TriedRow
    <3>7. sbRow' = [sbRow EXCEPT ![c[1]] = r]
      BY <1>2, <3>2, <3>3, <3>4 DEF SandboxShapes
    <3>8. sbRow' \in [Tried -> TriedRow] /\ sbRow'[c[1]] = r
      BY <1>2, <3>6, <3>7 DEF SandboxShapes
    <3>9. \A k \in Tried : k # c[1] => sbRow'[k] = sbRow[k]
      BY <3>7 DEF SandboxShapes
    <3> QED BY <2>2, <3>1, <3>6, <3>8, <3>9
  <2> QED BY <2>1, <2>2
<1>4. SandboxShapes'
  BY <1>0, <1>1, <1>3 DEF SandboxShapes
<1>5. OwnIsNotCut'
  BY <1>0 DEF OwnIsNotCut
<1>6. \A d \in Claims : ClaimFits(d)'
  <2> SUFFICES ASSUME NEW d \in Claims PROVE ClaimFits(d)'
    OBVIOUS
  <2>1. d[1] \in Tried
    BY ClaimsAre
  <2>2. ClaimFits(d)
    OBVIOUS
  <2> QED BY <1>0, <1>1, <1>3, <2>1, <2>2 DEF ClaimFits, BoxThere
<1>7. \A k \in Tried : DoneFits(k)'
  <2> SUFFICES ASSUME NEW k \in Tried, sbRow'[k].status = "done" PROVE DoneFits(k)'
    BY DEF DoneFits
  <2>1. CASE sbRow[k].status = "done"
    BY <1>0, <1>1, <1>3, <2>1 DEF DoneFits
  <2>2. CASE k = c[1] /\ Fenced(c) /\ sbRun[c].read = "verdict"
    <3>1. <<k, sbRow'[k].attempts>> = c
      BY <1>2, <1>3, <2>2 DEF Fenced
    <3> QED BY <1>1, <2>2, <3>1 DEF DoneFits
  <2> QED BY <1>3, <2>1, <2>2
<1>8. \A i \in Sweepers, d \in Claims : SweepFits(i, d)'
  <2>1. \A d \in Claims : Fenced(d)' => Fenced(d)
    BY <1>3, ClaimsAre DEF Fenced
  <2> QED BY <1>0, <2>1 DEF SweepFits
<1> QED BY <1>4, <1>5, <1>6, <1>7, <1>8

LEMMA DeadlineStep ==
  ASSUME SandboxInv, NEW j \in Tried, DeadlinePassed(j)
  PROVE  SandboxInv'
<1> USE DEF SandboxInv
<1>0. UNCHANGED <<sbRun, sbBox, sbSweep, sbCut, sbFaults>>
  BY DEF DeadlinePassed
<1>1. /\ sbRow' \in [Tried -> TriedRow]
      /\ \A k \in Tried : /\ sbRow'[k].attempts = sbRow[k].attempts
                          /\ sbRow'[k].status = sbRow[k].status
  <2>1. PICK r : r = [sbRow[j] EXCEPT !.overdue = TRUE]
    OBVIOUS
  <2>2. r \in TriedRow /\ r.attempts = sbRow[j].attempts /\ r.status = sbRow[j].status
    BY <2>1 DEF SandboxShapes, TriedRow
  <2>3. sbRow' = [sbRow EXCEPT ![j] = r]
    BY <2>1 DEF DeadlinePassed
  <2> QED BY <2>2, <2>3 DEF SandboxShapes
<1>2. SandboxShapes'
  BY <1>0, <1>1 DEF SandboxShapes
<1>3. OwnIsNotCut'
  BY <1>0 DEF OwnIsNotCut
<1>4. \A d \in Claims : ClaimFits(d)'
  BY <1>0, <1>1, ClaimsAre DEF ClaimFits, BoxThere
<1>5. \A k \in Tried : DoneFits(k)'
  BY <1>0, <1>1 DEF DoneFits
<1>6. \A i \in Sweepers, d \in Claims : SweepFits(i, d)'
  <2>1. \A d \in Claims : Fenced(d)' => Fenced(d)
    BY <1>1, ClaimsAre DEF Fenced
  <2> QED BY <1>0, <2>1 DEF SweepFits
<1> QED BY <1>2, <1>3, <1>4, <1>5, <1>6

(* The worker's death is a fault: its executors are over, its sweep idle.  *)
LEMMA WorkerDiesStep ==
  ASSUME SandboxInv, NEW i \in Installs, JudgeWorkerDies(i)
  PROVE  SandboxInv'
<1> USE DEF SandboxInv
<1>0. UNCHANGED <<sbRow, sbBox, sbCut>> /\ sbFaults' \in 0 .. MaxSandboxFaults /\ sbFaults' # 0
  BY FaultsRise DEF JudgeWorkerDies
<1>1. /\ sbRun' \in [Claims -> RunRow]
      /\ \A d \in Claims : /\ sbRun'[d].read = sbRun[d].read
                           /\ sbRun'[d].pc = sbRun[d].pc
                              \/ (sbRun[d].pc # "idle" /\ sbRun'[d].pc = "over")
  <2> DEFINE f == [d \in Claims |-> IF HomeOf[d[1]] = i /\ sbRun[d].pc # "idle"
                                   THEN [sbRun[d] EXCEPT !.pc = "over"] ELSE sbRun[d]]
  <2>1. sbRun' = f
    BY DEF JudgeWorkerDies
  <2>2. ASSUME NEW d \in Claims
        PROVE  f[d] \in RunRow /\ f[d].read = sbRun[d].read
               /\ (f[d].pc = sbRun[d].pc \/ (sbRun[d].pc # "idle" /\ f[d].pc = "over"))
    <3>1. PICK r : r = [sbRun[d] EXCEPT !.pc = "over"]
      OBVIOUS
    <3>2. r \in RunRow /\ r.pc = "over" /\ r.read = sbRun[d].read
      BY <3>1 DEF SandboxShapes, RunRow
    <3>3. f[d] = IF HomeOf[d[1]] = i /\ sbRun[d].pc # "idle" THEN r ELSE sbRun[d]
      BY <3>1
    <3> HIDE DEF f
    <3> QED BY <3>2, <3>3 DEF SandboxShapes
  <2>3. f \in [Claims -> RunRow]
    BY <2>2
  <2> HIDE DEF f
  <2> QED BY <2>1, <2>2, <2>3
<1>2. /\ sbSweep' \in [Sweepers -> SweepRow]
      /\ \A k \in Sweepers : sbSweep'[k] = sbSweep[k] \/ sbSweep'[k] = IdleSweep
  BY DEF JudgeWorkerDies, SandboxShapes, IdleSweep, SweepRow
<1>3. SandboxShapes'
  BY <1>0, <1>1, <1>2 DEF SandboxShapes
<1>4. OwnIsNotCut'
  BY <1>0 DEF OwnIsNotCut
<1>5. \A d \in Claims : ClaimFits(d)'
  BY <1>0, <1>1 DEF ClaimFits, BoxThere
<1>6. \A k \in Tried : DoneFits(k)'
  BY <1>0, <1>1 DEF DoneFits
<1>7. \A k \in Sweepers, d \in Claims : SweepFits(k, d)'
  BY <1>0, <1>2 DEF SweepFits, Fenced, IdleSweep
<1> QED BY <1>3, <1>4, <1>5, <1>6, <1>7

(* A sweep takes back what is overdue and reads what it will keep: what is *)
(* still running of its own then, it keeps.                                *)
LEMMA SweepReadsStep ==
  ASSUME SandboxInv, NEW i \in Sweepers, SweepReads(i)
  PROVE  SandboxInv'
<1> USE DEF SandboxInv
<1> DEFINE stuck == {j \in Tried : HomeOf[j] = i /\ sbRow[j].status = "running" /\ sbRow[j].overdue}
<1>0. /\ UNCHANGED <<sbRun, sbBox, sbCut, sbFaults>>
      /\ sbRow' = [j \in Tried |-> IF j \notin stuck THEN sbRow[j]
                                  ELSE [sbRow[j] EXCEPT !.status = Retried(j), !.overdue = FALSE]]
      /\ sbSweep' = [sbSweep EXCEPT ![i] = [pc |-> "list", list |-> {}, keep |-> Keep(i, stuck)]]
  BY DEF SweepReads
<1>1. ASSUME NEW j \in stuck
      PROVE  /\ [sbRow[j] EXCEPT !.status = Retried(j), !.overdue = FALSE] \in TriedRow
             /\ [sbRow[j] EXCEPT !.status = Retried(j), !.overdue = FALSE].attempts = sbRow[j].attempts
             /\ [sbRow[j] EXCEPT !.status = Retried(j), !.overdue = FALSE].status \in {"failed", "queued"}
  <2>1. PICK a : a = [sbRow[j] EXCEPT !.status = Retried(j)]
    OBVIOUS
  <2>2. PICK r : r = [a EXCEPT !.overdue = FALSE]
    OBVIOUS
  <2>3. Retried(j) \in {"failed", "queued"}
    BY DEF Retried
  <2>4. a \in TriedRow /\ a.attempts = sbRow[j].attempts /\ a.status \in {"failed", "queued"}
    BY <2>1, <2>3 DEF SandboxShapes, TriedRow
  <2>5. r \in TriedRow /\ r.attempts = sbRow[j].attempts /\ r.status \in {"failed", "queued"}
    BY <2>2, <2>4 DEF TriedRow
  <2>6. r = [sbRow[j] EXCEPT !.status = Retried(j), !.overdue = FALSE]
    BY <2>1, <2>2
  <2> QED BY <2>5, <2>6
<1>2. /\ sbRow' \in [Tried -> TriedRow]
      /\ \A j \in Tried : /\ sbRow'[j].attempts = sbRow[j].attempts
                          /\ (j \notin stuck /\ sbRow'[j] = sbRow[j])
                             \/ (j \in stuck /\ sbRow'[j].status \in {"failed", "queued"})
  <2> HIDE DEF stuck
  <2>1. \A j \in Tried : j \notin stuck => sbRow'[j] = sbRow[j] /\ sbRow'[j] \in TriedRow
    BY <1>0 DEF SandboxShapes
  <2>2. \A j \in Tried : j \in stuck => /\ sbRow'[j] \in TriedRow
                                        /\ sbRow'[j].attempts = sbRow[j].attempts
                                        /\ sbRow'[j].status \in {"failed", "queued"}
    BY <1>0, <1>1
  <2>3. sbRow' = [j \in Tried |-> sbRow'[j]]
    BY <1>0
  <2> QED BY <2>1, <2>2, <2>3
<1>3. /\ sbSweep' \in [Sweepers -> SweepRow]
      /\ \A k \in Sweepers : k # i => sbSweep'[k] = sbSweep[k]
      /\ sbSweep'[i] = [pc |-> "list", list |-> {}, keep |-> Keep(i, stuck)]
  <2>1. Keep(i, stuck) \subseteq Tried
    BY DEF Keep
  <2>2. [pc |-> "list", list |-> {}, keep |-> Keep(i, stuck)] \in SweepRow
    BY <2>1 DEF SweepRow
  <2> HIDE DEF stuck
  <2> QED BY <1>0, <2>2 DEF SandboxShapes
<1>4. SandboxShapes'
  BY <1>0, <1>2, <1>3 DEF SandboxShapes
<1>5. OwnIsNotCut'
  BY <1>0 DEF OwnIsNotCut
<1>6. \A d \in Claims : ClaimFits(d)'
  <2> HIDE DEF stuck
  <2> QED BY <1>0, <1>2, ClaimsAre DEF ClaimFits, BoxThere
<1>7. \A k \in Tried : DoneFits(k)'
  <2> HIDE DEF stuck
  <2> QED BY <1>0, <1>2 DEF DoneFits
<1>8. \A k \in Sweepers, d \in Claims : SweepFits(k, d)'
  <2> SUFFICES ASSUME NEW k \in Sweepers, NEW d \in Claims PROVE SweepFits(k, d)'
    OBVIOUS
  <2>1. d[1] \in Tried
    BY ClaimsAre
  <2>2. Fenced(d)' => Fenced(d) /\ d[1] \notin stuck
    BY <1>2, <2>1 DEF Fenced
  <2>3. CASE k = i
    <3>1. HomeOf[d[1]] = i /\ Fenced(d)' => d[1] \in Keep(i, stuck)
      BY <2>1, <2>2 DEF Keep, Fenced
    <3> HIDE DEF stuck
    <3> QED BY <1>3, <2>3, <3>1 DEF SweepFits
  <2>4. CASE k # i
    <3> HIDE DEF stuck
    <3> QED BY <1>0, <1>3, <2>2, <2>4 DEF SweepFits
  <2> QED BY <2>3, <2>4
<1> QED BY <1>4, <1>5, <1>6, <1>7, <1>8

(* What it lists of its own has an age, so nothing waits for it.           *)
LEMMA SweepListsStep ==
  ASSUME SandboxInv, NEW i \in Sweepers, SweepLists(i)
  PROVE  SandboxInv'
<1> USE DEF SandboxInv
<1> DEFINE L == {c \in Claims : /\ BoxThere(c) /\ c[1] \notin sbSweep[i].keep
                                /\ sbBox[c].age >= IF sbBox[c].state = "running" THEN 2 ELSE 1}
<1>0. /\ UNCHANGED <<sbRow, sbRun, sbBox, sbCut, sbFaults>> /\ sbSweep[i].pc = "list"
      /\ sbSweep' = [sbSweep EXCEPT ![i].pc = "remove", ![i].list = L]
  BY DEF SweepLists
<1>1. \A c \in L : /\ c \in Claims /\ c[1] \notin sbSweep[i].keep /\ sbBox[c].age # 0
                   /\ sbBox[c].state # "none"
  BY DEF BoxThere
<1> HIDE DEF L
<1>2. /\ sbSweep' \in [Sweepers -> SweepRow] /\ sbSweep'[i].pc = "remove" /\ sbSweep'[i].list = L
      /\ \A k \in Sweepers : k # i => sbSweep'[k] = sbSweep[k]
  <2>1. PICK a : a = [sbSweep[i] EXCEPT !.pc = "remove"]
    OBVIOUS
  <2>2. PICK r : r = [a EXCEPT !.list = L]
    OBVIOUS
  <2>3. a \in SweepRow /\ a.pc = "remove"
    BY <2>1 DEF SandboxShapes, SweepRow
  <2>4. r \in SweepRow /\ r.pc = "remove" /\ r.list = L
    BY <1>1, <2>2, <2>3 DEF SweepRow
  <2>5. sbSweep' = [sbSweep EXCEPT ![i] = r]
    BY <1>0, <2>1, <2>2 DEF SandboxShapes
  <2> QED BY <2>4, <2>5 DEF SandboxShapes
<1>3. SandboxShapes'
  BY <1>0, <1>2 DEF SandboxShapes
<1>4. OwnIsNotCut'
  BY <1>0 DEF OwnIsNotCut
<1>5. \A d \in Claims : ClaimFits(d)'
  BY <1>0 DEF ClaimFits, BoxThere
<1>6. \A k \in Tried : DoneFits(k)'
  BY <1>0 DEF DoneFits
<1>7. \A k \in Sweepers, d \in Claims : SweepFits(k, d)'
  <2> SUFFICES ASSUME NEW k \in Sweepers, NEW d \in Claims PROVE SweepFits(k, d)'
    OBVIOUS
  <2>1. CASE k = i
    BY <1>0, <1>1, <1>2, <2>1 DEF SweepFits, Fenced
  <2>2. CASE k # i
    BY <1>0, <1>2, <2>2 DEF SweepFits, Fenced
  <2> QED BY <2>1, <2>2
<1> QED BY <1>3, <1>4, <1>5, <1>6, <1>7

(* Removing what it listed cuts no judging of its own short.               *)
LEMMA SweepRemovesStep ==
  ASSUME SandboxInv, NEW i \in Sweepers, SweepRemoves(i)
  PROVE  SandboxInv'
<1> USE DEF SandboxInv
<1>0. UNCHANGED <<sbRow, sbRun>> /\ (UNCHANGED sbFaults \/ SbFault) /\ sbSweep[i].pc = "remove"
  BY DEF SweepRemoves
<1>1. /\ sbSweep' \in [Sweepers -> SweepRow]
      /\ \A k \in Sweepers : sbSweep'[k].list \subseteq sbSweep[k].list
      /\ \A k \in Sweepers : sbSweep'[k].pc = "list" => sbSweep'[k] = sbSweep[k]
  <2>1. CASE sbSweep' = [sbSweep EXCEPT ![i] = IdleSweep]
    <3>1. IdleSweep \in SweepRow /\ IdleSweep.list = {} /\ IdleSweep.pc = "idle"
      BY DEF IdleSweep, SweepRow
    <3> QED BY <2>1, <3>1 DEF SandboxShapes
  <2>2. ASSUME NEW c, sbSweep' = [sbSweep EXCEPT ![i].list = @ \ {c}]
        PROVE  <1>1!1 /\ <1>1!2 /\ <1>1!3
    <3>1. PICK r : r = [sbSweep[i] EXCEPT !.list = sbSweep[i].list \ {c}]
      OBVIOUS
    <3>2. r \in SweepRow /\ r.list \subseteq sbSweep[i].list /\ r.pc = "remove"
      BY <1>0, <3>1 DEF SandboxShapes, SweepRow
    <3>3. sbSweep' = [sbSweep EXCEPT ![i] = r]
      BY <2>2, <3>1 DEF SandboxShapes
    <3> QED BY <3>2, <3>3 DEF SandboxShapes
  <2> QED BY <2>1, <2>2 DEF SweepRemoves
<1>2. PICK c :
           \/ UNCHANGED <<sbBox, sbCut>>
           \/ /\ sbBox' = BoxGone(c) /\ c \in Claims /\ c \in sbSweep[i].list
              /\ sbCut' = sbCut \cup {x \in {<<c, i>>} : /\ BoxThere(c) /\ Fenced(c)
                                                         /\ sbRun[c].pc \in {"wait", "logs"}}
  <2>1. sbSweep[i].list \subseteq Claims
    BY DEF SandboxShapes, SweepRow
  <2> QED BY <2>1 DEF SweepRemoves
<1>3. sbFaults' \in 0 .. MaxSandboxFaults /\ (sbFaults' = 0 => sbFaults = 0)
  BY <1>0, FaultsRise
<1>4. /\ sbBox' \in [Claims -> BoxRow]
      /\ \A d \in Claims : /\ BoxThere(d)' => BoxThere(d)
                           /\ sbBox[d].state # "none" => sbBox'[d].state # "none"
                           /\ sbBox[d].state = "none" => sbBox'[d] = sbBox[d]
                           /\ sbBox[d].age = 0 => sbBox'[d].age = 0
  <2>1. CASE UNCHANGED <<sbBox, sbCut>>
    BY <2>1 DEF SandboxShapes, BoxThere
  <2>2. CASE sbBox' = BoxGone(c) /\ c \in Claims
    BY <2>2, BoxRemoved DEF BoxThere
  <2> QED BY <1>2, <2>1, <2>2
<1>5. SandboxShapes'
  BY <1>0, <1>1, <1>3, <1>4 DEF SandboxShapes
<1>6. OwnIsNotCut'
  <2>1. \A x \in sbCut' : \/ x \in sbCut
                          \/ x = <<c, i>> /\ c \in Claims /\ c \in sbSweep[i].list /\ Fenced(c)
    BY <1>2
  <2>2. c \in Claims /\ c \in sbSweep[i].list /\ Fenced(c) => HomeOf[c[1]] # i
    BY DEF SweepFits
  <2>3. \A x \in sbCut' : x \in sbCut \/ (x[1] = c /\ x[2] = i /\ HomeOf[c[1]] # i)
    BY <2>1, <2>2
  <2> QED BY <2>3 DEF OwnIsNotCut
<1>7. \A d \in Claims : ClaimFits(d)'
  BY <1>0, <1>3, <1>4 DEF ClaimFits
<1>8. \A k \in Tried : DoneFits(k)'
  BY <1>0 DEF DoneFits
<1>9. \A k \in Sweepers, d \in Claims : SweepFits(k, d)'
  BY <1>0, <1>1, <1>4 DEF SweepFits, Fenced
<1> QED BY <1>5, <1>6, <1>7, <1>8, <1>9

LEMMA SandboxStep == SandboxInv /\ [SandboxNext]_sbVars => SandboxInv'
<1> SUFFICES ASSUME SandboxInv, [SandboxNext]_sbVars PROVE SandboxInv'
  OBVIOUS
<1>1. ASSUME NEW j \in Tried, ClaimJob(j) \/ DeadlinePassed(j) PROVE SandboxInv'
  BY <1>1, ClaimJobStep, DeadlineStep
<1>2. ASSUME NEW c \in Claims, ExecStep(c) \/ RequestFails(c) \/ ExecCancelled(c)
      PROVE  SandboxInv'
  BY <1>2, ExecutorStep, ExecCreatesStep, ExecStartsStep, ExecReadsStep, ExecRemovesStep,
     SettlesStep DEF ExecStep
<1>3. ASSUME NEW c \in Claims, BoxAges(c) \/ \E log \in Answers \cup {"none"} : BoxExits(c, log)
      PROVE  SandboxInv'
  BY <1>3, BoxStep
<1>4. ASSUME NEW i \in Sweepers, SweepStep(i) PROVE SandboxInv'
  BY <1>4, SweepReadsStep, SweepListsStep, SweepRemovesStep DEF SweepStep
<1>5. ASSUME NEW i \in Installs, JudgeWorkerDies(i) PROVE SandboxInv'
  BY <1>5, WorkerDiesStep
<1>6. CASE UNCHANGED sbVars
  BY <1>6 DEF sbVars, SandboxInv, SandboxShapes, OwnIsNotCut, ClaimFits, DoneFits, SweepFits,
     Fenced, BoxThere
<1> QED BY <1>1, <1>2, <1>3, <1>4, <1>5, <1>6 DEF SandboxNext

-----------------------------------------------------------------------------
(* Whatever of a live event runs beside them: a report that says ready has *)
(* its files unless its own deletion is halfway, and a report's file in    *)
(* the store is named by its row or somebody is still to drop it, unless   *)
(* a crash or a deletion on stale keys left it (process_report_jobs and    *)
(* the deletions); a sweep never takes the container of a judging its own  *)
(* install still waits for, a judging is done only by the answer of its    *)
(* own attempt's container, and where nothing failed none is left behind   *)
(* (judge_worker, judge_executor_docker).                                  *)
THEOREM JobsHold == LiveSpec => []JobsSafe
<1> DEFINE Inv == TickJobsInv /\ SandboxInv
<1>1. LiveInit => Inv
  BY TickJobsStart, SandboxStart DEF LiveInit
<1>2. Inv /\ [LiveNext]_liveVars => Inv'
  <2> SUFFICES ASSUME Inv, [LiveNext]_liveVars PROVE Inv'
    OBVIOUS
  <2>1. \/ TickJobsNext /\ UNCHANGED sbVars
        \/ SandboxNext /\ UNCHANGED tjVars
        \/ UNCHANGED tjVars /\ UNCHANGED sbVars
    BY DEF LiveNext, OnSockets, OnPresence, OnAutomation, OnGate, OnJobs, OnSandbox, OnFlags,
       OnAnswers, liveVars
  <2> QED BY <2>1, TickJobsStep, SandboxStep
<1>3. Inv => JobsSafe
  BY TickJobsKept, SandboxKept DEF JobsSafe
<1> QED BY <1>1, <1>2, <1>3, PTL DEF LiveSpec
=============================================================================
