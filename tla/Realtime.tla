------------------------------ MODULE Realtime ------------------------------
(***************************************************************************)
(* One user's WebSockets on the workers of a deployment: the handshake of  *)
(* realtime/router.py, the connection manager's revocation of sockets      *)
(* (realtime/manager.py), the listeners that start it (realtime/           *)
(* eviction.py) and the Redis relay that carries it to the other workers   *)
(* (realtime/relay.py).                                                    *)
(*                                                                         *)
(* A socket is authorised once, at its handshake.  When access is taken    *)
(* away the revocation commits, its event is emitted, and a background     *)
(* handler evicts: it marks the sockets of its own worker before it awaits *)
(* anything, then publishes; a publish that fails or is cut off is retried *)
(* a bounded number of times, and a subscription that drops loses what was *)
(* published meanwhile, for which the worker closes all of its sockets     *)
(* when it is subscribed again.                                            *)
(***************************************************************************)
EXTENDS Naturals, FiniteSets

CONSTANTS
    Sockets,          \* sockets of the user, each on one worker
    Workers,          \* processes of the deployment
    Host,             \* Host[s]: the worker that accepted socket s
    EvictAttempts,    \* _EVICT_RETRY_ATTEMPTS
    MaxRevocations,   \* bound: revocations of the user's access
    MaxFaults         \* bound: failed publishes and dropped subscriptions

ASSUME RealtimeAssumption ==
    /\ Host \in [Sockets -> Workers]
    /\ {EvictAttempts, MaxRevocations, MaxFaults} \subseteq Nat

(* A team's notes can be revoked alone (a member left); a ban or a role    *)
(* change revokes every room.                                              *)
Rooms == {"note", "board"}
Scopes == {{"note"}, Rooms}

VARIABLES
    rtAccess,   \* room -> [may: authorised in the database, rev: revocations of it so far]
    rtSock,     \* socket -> handshake and tracking state
    rtNode,     \* worker -> [epoch, gap, up, inbox]
    rtEvict,    \* evictions whose event is emitted and which are not yet relayed
    rtLost,     \* evictions given up after the last retry
    rtFaults

rtVars == <<rtAccess, rtSock, rtNode, rtEvict, rtLost, rtFaults>>

Eviction == [scope : Scopes, origin : Workers,
             left : 0 .. EvictAttempts, at : {"emitted", "publishing", "retrying"}]
Epoch(w) == <<rtNode[w].epoch, rtNode[w].gap>>
Closed == [pc |-> "closed", room |-> "board", epoch |-> <<0, 0>>,
           read |-> 0, tracked |-> FALSE, revoked |-> FALSE]

RealtimeInit ==
    /\ rtAccess = [r \in Rooms |-> [may |-> TRUE, rev |-> 0]]
    /\ rtSock = [s \in Sockets |-> Closed]
    /\ rtNode = [w \in Workers |-> [epoch |-> 0, gap |-> 0, up |-> TRUE, inbox |-> {}]]
    /\ rtEvict = {}
    /\ rtLost = {}
    /\ rtFaults = 0

-----------------------------------------------------------------------------
(* The handshake: the epoch is taken before anything is read; then the     *)
(* room's authorizer reads the database; auth_ok, the snapshot and the     *)
(* presence payload are awaited before the socket is indexed.              *)

Hello(s, room) ==
    /\ rtSock[s].pc = "closed"
    /\ rtSock' = [rtSock EXCEPT ![s] =
                    [Closed EXCEPT !.pc = "hello", !.room = room, !.epoch = Epoch(Host[s])]]
    /\ UNCHANGED <<rtAccess, rtNode, rtEvict, rtLost, rtFaults>>

Authorize(s) ==
    /\ rtSock[s].pc = "hello"
    /\ LET a == rtAccess[rtSock[s].room]
       IN  rtSock' = [rtSock EXCEPT ![s] =
                        IF a.may THEN [@ EXCEPT !.pc = "greeted", !.read = a.rev]
                        ELSE Closed]
    /\ UNCHANGED <<rtAccess, rtNode, rtEvict, rtLost, rtFaults>>

EpochHeld(s) == Epoch(Host[s]) = rtSock[s].epoch

Join_Unchecked(s) ==
    /\ rtSock[s].pc = "greeted"
    /\ rtSock' = [rtSock EXCEPT ![s] = [@ EXCEPT !.pc = "open", !.tracked = TRUE]]
    /\ UNCHANGED <<rtAccess, rtNode, rtEvict, rtLost, rtFaults>>

(* join and the check that the epoch has not moved, with no await between. *)
Join(s) ==
    /\ rtSock[s].pc = "greeted"
    /\ rtSock' = [rtSock EXCEPT ![s] =
                    IF EpochHeld(s) THEN [@ EXCEPT !.pc = "open", !.tracked = TRUE]
                    ELSE Closed]
    /\ UNCHANGED <<rtAccess, rtNode, rtEvict, rtLost, rtFaults>>

(* May the router act on a frame of this socket? *)
MayServe(s) == rtSock[s].tracked /\ ~ rtSock[s].revoked

(* leave: out of every index, with its marks.                              *)
Leave(s) == rtSock' = [rtSock EXCEPT ![s] = Closed]

(* A frame arrives on a socket the manager does not vouch for.             *)
RefuseFrame(s) ==
    /\ rtSock[s].pc = "open" /\ ~ MayServe(s)
    /\ Leave(s)
    /\ UNCHANGED <<rtAccess, rtNode, rtEvict, rtLost, rtFaults>>

(* A broadcast to the room fails or times out on this socket: it is taken  *)
(* out of the indexes while its receive loop lives on.                     *)
SendFails(s) ==
    /\ rtSock[s].pc = "open" /\ MayServe(s)
    /\ rtSock' = [rtSock EXCEPT ![s].tracked = FALSE]
    /\ UNCHANGED <<rtAccess, rtNode, rtEvict, rtLost, rtFaults>>

(* The loop over frames ends: the peer hangs up, its frames exceed their   *)
(* budget, or a close the server started goes through.                     *)
Disconnect(s) ==
    /\ rtSock[s].pc # "closed"
    /\ Leave(s)
    /\ UNCHANGED <<rtAccess, rtNode, rtEvict, rtLost, rtFaults>>

-----------------------------------------------------------------------------
(* Access is taken away: the change commits and its event is emitted on    *)
(* the worker that served the request.                                     *)
Revocations == rtAccess["note"].rev

Revoke(scope, w) ==
    /\ Revocations < MaxRevocations
    /\ \A r \in scope : rtAccess[r].may
    /\ rtAccess' = [r \in Rooms |->
                      IF r \in scope THEN [may |-> FALSE, rev |-> rtAccess[r].rev + 1]
                      ELSE rtAccess[r]]
    /\ rtEvict' = rtEvict \cup
         {[scope |-> scope, origin |-> w, left |-> EvictAttempts, at |-> "emitted"]}
    /\ UNCHANGED <<rtSock, rtNode, rtLost, rtFaults>>

Regrant ==
    /\ \E r \in Rooms : ~ rtAccess[r].may
    /\ rtAccess' = [r \in Rooms |-> [rtAccess[r] EXCEPT !.may = TRUE]]
    /\ UNCHANGED <<rtSock, rtNode, rtEvict, rtLost, rtFaults>>

MarkRevoked_Handshakes(w, scope) ==
    /\ rtSock' = [s \in Sockets |->
                    IF Host[s] = w /\ rtSock[s].pc # "closed" /\ rtSock[s].room \in scope
                    THEN [rtSock[s] EXCEPT !.revoked = TRUE] ELSE rtSock[s]]
    /\ rtNode' = [rtNode EXCEPT ![w].epoch = @ + 1]

(* _mark_revoked: synchronous; the epoch moves whatever the scope.         *)
MarkRevoked(w, scope) ==
    /\ rtSock' = [s \in Sockets |->
                    IF Host[s] = w /\ rtSock[s].tracked /\ rtSock[s].room \in scope
                    THEN [rtSock[s] EXCEPT !.revoked = TRUE] ELSE rtSock[s]]
    /\ rtNode' = [rtNode EXCEPT ![w].epoch = @ + 1]

(* evict_users: the handler starts and marks before it publishes.          *)
EvictLocal(e) ==
    /\ e \in rtEvict /\ e.at = "emitted"
    /\ MarkRevoked(e.origin, e.scope)
    /\ rtEvict' = (rtEvict \ {e}) \cup {[e EXCEPT !.at = "publishing"]}
    /\ UNCHANGED <<rtAccess, rtLost, rtFaults>>

(* A publish that goes through reaches every worker subscribed now; the    *)
(* publisher skips its own copy.                                           *)
Publish(e) ==
    /\ e \in rtEvict /\ e.at # "emitted"
    /\ rtEvict' = rtEvict \ {e}
    /\ rtNode' = [w \in Workers |->
                    IF rtNode[w].up /\ w # e.origin
                    THEN [rtNode[w] EXCEPT !.inbox = @ \cup {e.scope}] ELSE rtNode[w]]
    /\ UNCHANGED <<rtAccess, rtSock, rtLost, rtFaults>>

(* It raises, or the handler is cancelled in it: handed to a task that     *)
(* retries, until the last attempt gives up.                               *)
PublishFails(e) ==
    /\ e \in rtEvict /\ e.at # "emitted" /\ rtFaults < MaxFaults
    /\ rtFaults' = rtFaults + 1
    /\ LET left == IF e.at = "publishing" THEN e.left ELSE e.left - 1
       IN  IF left = 0
           THEN rtLost' = rtLost \cup {e.scope} /\ rtEvict' = rtEvict \ {e}
           ELSE /\ rtEvict' = (rtEvict \ {e}) \cup
                                {[e EXCEPT !.at = "retrying", !.left = left]}
                /\ UNCHANGED rtLost
    /\ UNCHANGED <<rtAccess, rtSock, rtNode>>

(* What a relayed eviction and a new subscription do to the worker.        *)
Heard(n, scope) == [n EXCEPT !.epoch = @ + 1, !.inbox = @ \ {scope}]
Rejoined(n) == [n EXCEPT !.up = TRUE, !.gap = @ + 1]

(* _on_relayed: another worker's eviction is marked inline.                *)
Relayed(w, scope) ==
    /\ scope \in rtNode[w].inbox
    /\ rtSock' = [s \in Sockets |->
                    IF Host[s] = w /\ rtSock[s].tracked /\ rtSock[s].room \in scope
                    THEN [rtSock[s] EXCEPT !.revoked = TRUE] ELSE rtSock[s]]
    /\ rtNode' = [rtNode EXCEPT ![w] = Heard(@, scope)]
    /\ UNCHANGED <<rtAccess, rtEvict, rtLost, rtFaults>>

(* The subscription breaks, seen at once or only when a PING goes          *)
(* unanswered; what is published before it is up again is not received.    *)
Drop(w) ==
    /\ rtNode[w].up /\ rtFaults < MaxFaults
    /\ rtFaults' = rtFaults + 1
    /\ rtNode' = [rtNode EXCEPT ![w] = [@ EXCEPT !.up = FALSE, !.inbox = {}]]
    /\ UNCHANGED <<rtAccess, rtSock, rtEvict, rtLost>>

(* _subscribe succeeds and _on_relay_gap runs: every socket of the worker  *)
(* is marked and handshakes in flight are sent back.                       *)
Resubscribe(w) ==
    /\ ~ rtNode[w].up
    /\ rtNode' = [rtNode EXCEPT ![w] = Rejoined(@)]
    /\ rtSock' = [s \in Sockets |->
                    IF Host[s] = w /\ rtSock[s].tracked
                    THEN [rtSock[s] EXCEPT !.revoked = TRUE] ELSE rtSock[s]]
    /\ UNCHANGED <<rtAccess, rtEvict, rtLost, rtFaults>>

Deliver == \/ \E e \in rtEvict : EvictLocal(e) \/ Publish(e) \/ PublishFails(e)
           \/ \E w \in Workers : Resubscribe(w) \/ \E x \in Scopes : Relayed(w, x)

RealtimeNext ==
    \/ \E s \in Sockets :
         \/ \E r \in Rooms : Hello(s, r)
         \/ Authorize(s) \/ Join(s) \/ RefuseFrame(s) \/ SendFails(s) \/ Disconnect(s)
    \/ \E x \in Scopes, w \in Workers : Revoke(x, w)
    \/ Regrant
    \/ Deliver
    \/ \E w \in Workers : Drop(w)

RealtimeSpec == RealtimeInit /\ [][RealtimeNext]_rtVars

-----------------------------------------------------------------------------
RealtimeTypeOK ==
    /\ rtAccess \in [Rooms -> [may : BOOLEAN, rev : 0 .. MaxRevocations]]
    /\ \A s \in Sockets :
         /\ rtSock[s].pc \in {"closed", "hello", "greeted", "open"}
         /\ rtSock[s].tracked => rtSock[s].pc = "open"
         /\ rtSock[s].revoked => rtSock[s].tracked
    /\ \A w \in Workers : rtNode[w].inbox \subseteq Scopes
    /\ rtEvict \subseteq Eviction
    /\ rtLost \subseteq Scopes
    /\ rtFaults \in 0 .. MaxFaults

(* The socket was authorised before the last revocation of its room.       *)
Stale(s) == /\ rtSock[s].pc = "open"
            /\ rtSock[s].read < rtAccess[rtSock[s].room].rev

(* Word of a revocation of the room is still on its way to the worker.     *)
OnItsWay(w, room) ==
    \/ ~ rtNode[w].up
    \/ \E x \in rtNode[w].inbox : room \in x
    \/ \E e \in rtEvict : room \in e.scope /\ ~ (e.origin = w /\ e.at # "emitted")

(* A socket whose access was revoked receives nothing and is refused, on   *)
(* every worker, as soon as no eviction is under way to its worker; only   *)
(* an eviction given up after all its retries can leave one served.        *)
RevokedIsInert ==
    \A s \in Sockets :
        Stale(s) /\ MayServe(s) =>
            \/ OnItsWay(Host[s], rtSock[s].room)
            \/ \E x \in rtLost : rtSock[s].room \in x

-----------------------------------------------------------------------------
(***************************************************************************)
(* Who is in a room, across workers: one user's entry in one room.  Each   *)
(* worker keeps the user's tabs and a debounced removal (presence_join,    *)
(* presence_leave, _expire_member and the heartbeat of realtime/           *)
(* manager.py); Redis keeps one liveness entry per worker, with a TTL, and *)
(* one payload for the user (realtime/presence_store.py).  A pipeline is   *)
(* one step of Redis; between the pipelines of one operation other         *)
(* workers' pipelines run.                                                 *)
(***************************************************************************)

CONSTANTS
    Tabs,           \* tabs the user may open in the room
    PresWorkers,    \* processes of the deployment
    TabHost,        \* TabHost[t]: the worker that serves tab t
    MaxOpens        \* bound: how often a tab is opened

ASSUME PresenceAssumption ==
    TabHost \in [Tabs -> PresWorkers] /\ MaxOpens \in Nat

VARIABLES
    prLocal,    \* worker -> [up, member, tabs, expiring]
    prLive,     \* worker -> its liveness entry: "none", "fresh" or "stale"
    prPayload,  \* the user's payload is in the hash
    prOps,      \* store operations under way: [op, w, t]
    prOpens,    \* tabs opened so far
    prRaced     \* workers whose last arrival fell into a removal under way

prVars == <<prLocal, prLive, prPayload, prOps, prOpens, prRaced>>

NoTab == "none"
StoreOp(op, w, t) == [op |-> op, w |-> w, t |-> t]
Away == [up |-> TRUE, member |-> FALSE, tabs |-> {}, expiring |-> FALSE]

PresenceInit ==
    /\ prLocal = [w \in PresWorkers |-> Away]
    /\ prLive = [w \in PresWorkers |-> "none"]
    /\ prPayload = FALSE
    /\ prOps = {}
    /\ prOpens = 0
    /\ prRaced = {}

Becomes(o, new) == prOps' = (prOps \ {o}) \cup new
Pruned(live) == [w \in PresWorkers |-> IF live[w] = "stale" THEN "none" ELSE live[w]]
Nobody == [w \in PresWorkers |-> "none"]

(* What an arrival, the departure of a tab and the end of the grace do to  *)
(* the worker's own entry.                                                 *)
Arrived(l, t) == [l EXCEPT !.member = TRUE, !.tabs = @ \cup {t}, !.expiring = FALSE]
Departed(l, t) == [l EXCEPT !.tabs = @ \ {t}, !.expiring = (l.tabs = {t})]
Expired(l) == [l EXCEPT !.member = FALSE, !.expiring = FALSE]

PresenceJoin_KeepsTimer(t) ==
    LET w == TabHost[t] IN
    /\ prLocal[w].up /\ t \notin prLocal[w].tabs /\ prOpens < MaxOpens
    /\ prLocal' = [prLocal EXCEPT ![w] = [@ EXCEPT !.member = TRUE, !.tabs = @ \cup {t}]]
    /\ prOps' = prOps \cup {StoreOp("add", w, t)}
    /\ prOpens' = prOpens + 1
    /\ UNCHANGED <<prLive, prPayload, prRaced>>

(* presence_join: the pending removal is cancelled, the tab recorded, then *)
(* the store is awaited.                                                   *)
PresenceJoin(t) ==
    LET w == TabHost[t] IN
    /\ prLocal[w].up /\ t \notin prLocal[w].tabs /\ prOpens < MaxOpens
    /\ prLocal' = [prLocal EXCEPT ![w] = Arrived(@, t)]
    /\ prOps' = prOps \cup {StoreOp("add", w, t)}
    /\ prOpens' = prOpens + 1
    /\ UNCHANGED <<prLive, prPayload, prRaced>>

(* A removal the arrival on w is too late to stop: of the payload, whose   *)
(* survivors were read before it, or of the worker's own entry.            *)
RemovalUnderWay(w) ==
    \E x \in prOps : x.op \in {"hdel", "orphan"} \/ (x.op = "remove" /\ x.w = w)

(* add: payload and liveness in one pipeline; then the list is published.  *)
StoreAdd(o) ==
    /\ o.op = "add"
    /\ prPayload' = TRUE
    /\ prLive' = [prLive EXCEPT ![o.w] = "fresh"]
    /\ Becomes(o, {StoreOp("members", o.w, o.t)})
    /\ prRaced' = IF RemovalUnderWay(o.w) THEN prRaced \cup {o.w} ELSE prRaced \ {o.w}
    /\ UNCHANGED <<prLocal, prOpens>>

(* members: expired liveness is pruned; a payload nobody keeps alive is    *)
(* dropped by a second command.                                            *)
Members(o) ==
    /\ o.op = "members"
    /\ prLive' = Pruned(prLive)
    /\ Becomes(o, IF prPayload /\ Pruned(prLive) = Nobody
                  THEN {StoreOp("orphan", o.w, o.t)} ELSE {})
    /\ UNCHANGED <<prLocal, prPayload, prOpens, prRaced>>

(* A tab whose join has returned closes; the last one starts the grace.    *)
PresenceLeave(t) ==
    LET w == TabHost[t] IN
    /\ t \in prLocal[w].tabs
    /\ \A o \in prOps : o.t # t
    /\ prLocal' = [prLocal EXCEPT ![w] = Departed(@, t)]
    /\ UNCHANGED <<prLive, prPayload, prOps, prOpens, prRaced>>

(* _expire_member: the grace is over; unless the user came back the local  *)
(* entry goes, and then the store is told.                                 *)
ExpireMember(w) ==
    /\ prLocal[w].expiring
    /\ IF prLocal[w].tabs = {}
       THEN /\ prLocal' = [prLocal EXCEPT ![w] = Expired(@)]
            /\ prOps' = prOps \cup {StoreOp("remove", w, NoTab)}
       ELSE /\ prLocal' = [prLocal EXCEPT ![w].expiring = FALSE]
            /\ UNCHANGED prOps
    /\ UNCHANGED <<prLive, prPayload, prOpens, prRaced>>

StoreRemove_Everyone(o) ==
    /\ o.op = "remove"
    /\ prLive' = Pruned([prLive EXCEPT ![o.w] = "none"])
    /\ Becomes(o, {StoreOp("hdel", o.w, NoTab)})
    /\ UNCHANGED <<prLocal, prPayload, prOpens, prRaced>>

(* remove: the worker's liveness goes; when no entry survives the payload  *)
(* is deleted, by a second command.                                        *)
StoreRemove(o) ==
    /\ o.op = "remove"
    /\ prLive' = Pruned([prLive EXCEPT ![o.w] = "none"])
    /\ Becomes(o, {StoreOp(IF Pruned([prLive EXCEPT ![o.w] = "none"]) = Nobody
                           THEN "hdel" ELSE "members", o.w, NoTab)})
    /\ UNCHANGED <<prLocal, prPayload, prOpens, prRaced>>

DeletePayload(o) ==
    /\ o.op \in {"hdel", "orphan"}
    /\ prPayload' = FALSE
    /\ Becomes(o, IF o.op = "hdel" THEN {StoreOp("members", o.w, NoTab)} ELSE {})
    /\ UNCHANGED <<prLocal, prLive, prOpens, prRaced>>

HeartbeatRead_Everyone(w) ==
    /\ prLocal[w].up
    /\ prOps' = prOps \cup {StoreOp("refresh", w, NoTab)}
    /\ UNCHANGED <<prLocal, prLive, prPayload, prOpens, prRaced>>

(* The heartbeat lists the members it holds, then refreshes their          *)
(* liveness: the payload is not written again.                             *)
HeartbeatRead(w) ==
    /\ prLocal[w].up /\ prLocal[w].member
    /\ prOps' = prOps \cup {StoreOp("refresh", w, NoTab)}
    /\ UNCHANGED <<prLocal, prLive, prPayload, prOpens, prRaced>>

RefreshMany(o) ==
    /\ o.op = "refresh"
    /\ prLive' = [prLive EXCEPT ![o.w] = "fresh"]
    /\ Becomes(o, {})
    /\ UNCHANGED <<prLocal, prPayload, prOpens, prRaced>>

(* The TTL exceeds heartbeat and grace: only an entry no worker refreshes  *)
(* any more runs out.                                                      *)
LivenessExpires(w) ==
    /\ prLive[w] = "fresh" /\ ~ prLocal[w].member
    /\ \A o \in prOps : o.w # w
    /\ prLive' = [prLive EXCEPT ![w] = "stale"]
    /\ UNCHANGED <<prLocal, prPayload, prOps, prOpens, prRaced>>

(* The worker dies with its tabs and whatever it had under way.            *)
WorkerDies(w) ==
    /\ prLocal[w].up
    /\ prLocal' = [prLocal EXCEPT ![w] = [Away EXCEPT !.up = FALSE]]
    /\ prOps' = {o \in prOps : o.w # w}
    /\ UNCHANGED <<prLive, prPayload, prOpens, prRaced>>

StoreStep == \E o \in prOps : \/ StoreAdd(o) \/ Members(o) \/ StoreRemove(o)
                              \/ DeletePayload(o) \/ RefreshMany(o)

PresenceNext ==
    \/ \E t \in Tabs : PresenceJoin(t) \/ PresenceLeave(t)
    \/ StoreStep
    \/ \E w \in PresWorkers : \/ ExpireMember(w) \/ HeartbeatRead(w)
                              \/ LivenessExpires(w) \/ WorkerDies(w)

PresenceSpec == PresenceInit /\ [][PresenceNext]_prVars

(* Redis answers, and time passes. *)
PresenceFairness == /\ WF_prVars(StoreStep)
                    /\ \A w \in PresWorkers : WF_prVars(LivenessExpires(w))

-----------------------------------------------------------------------------
PresenceTypeOK ==
    /\ \A w \in PresWorkers :
         /\ prLocal[w].tabs \subseteq {t \in Tabs : TabHost[t] = w}
         /\ prLocal[w].tabs # {} => prLocal[w].member /\ ~ prLocal[w].expiring
         /\ prLocal[w].member => prLocal[w].tabs # {} \/ prLocal[w].expiring
    /\ prLive \in [PresWorkers -> {"none", "fresh", "stale"}]
    /\ prPayload \in BOOLEAN /\ prRaced \subseteq PresWorkers
    /\ prOps \subseteq [op : {"add", "members", "remove", "hdel", "orphan", "refresh"},
                        w : PresWorkers, t : Tabs \cup {NoTab}]
    /\ prOpens \in 0 .. MaxOpens

Settled == prOps = {}
Present == \E w \in PresWorkers : prLocal[w].tabs # {}
(* What members() would answer now. *)
Listed == prPayload /\ "fresh" \in {prLive[w] : w \in PresWorkers}

(* A user with a tab open on a worker is listed once no store operation is *)
(* under way, unless the last arrival on that worker fell into a removal   *)
(* already under way: what starts after an arrival never hides it, what    *)
(* was lost before it is made good by it, and of several workers one whose *)
(* arrival was clear of removals is enough.                                *)
PresentUnlessRaced ==
    Settled /\ (\E w \in PresWorkers \ prRaced : prLocal[w].tabs # {}) => Listed

Held == \E w \in PresWorkers : prLocal[w].member

(* A user nobody holds a tab of fades from the list: a worker that died    *)
(* with the tab, a heartbeat that overtook the removal and a removal lost  *)
(* half way leave only an entry that expires.                              *)
DepartedFades == (Listed /\ ~ Held) ~> (~ Listed \/ Held)

(* "A user is present iff any worker holds a non-expired liveness entry    *)
(* for them" (presence_store.py): whoever holds one is listed.             *)
PresentIsListed == Settled /\ Present => Listed

(* A socket whose access was revoked is served no more on any worker, as   *)
(* soon as no eviction is on its way to it.                                *)
SocketsSafe ==
    RealtimeTypeOK /\ RevokedIsInert

(* A user with a tab open is listed as present through the removals,       *)
(* expiries, heartbeats and deaths of other workers that come after its    *)
(* arrival.  Not promised, for presence_store.remove deletes the payload   *)
(* by a second command: the user whose only arrivals each fell between the *)
(* two (prRaced; PresentIsListed is what fails then).                      *)
PresenceSafe ==
    PresenceTypeOK /\ PresentUnlessRaced
=============================================================================
