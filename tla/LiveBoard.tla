----------------------------- MODULE LiveBoard -----------------------------
(***************************************************************************)
(* The scoreboard of one competition as people see it: the computed board  *)
(* (utils/scoreboard.py), its cached read model, the freeze, and the       *)
(* broadcast on every scoring event (plugins/scoring/__init__.py).  A      *)
(* mutation commits its rows, then its event is emitted: the foreground    *)
(* handler drops the cached boards, the background handler computes and    *)
(* sends.  A reader that misses the cache computes and stores.  Computing  *)
(* awaits the database, so other steps fall between a board being computed *)
(* and being stored or sent.                                               *)
(***************************************************************************)
EXTENDS Integers, FiniteSets, FiniteSetsExt

CONSTANTS
    Subjects,       \* the ranked teams or participants
    Moves,          \* scoring rows: [kind, pts], kind "solve", "hint", "adjust" or "award"
    MaxCommits      \* bound: scoring changes, freezes and unfreezes

VARIABLES
    bdRows,     \* submissions, hint reveals, adjustments and awards, with their time
    bdClock,    \* commits so far: the time of the next row
    bdFrozen,   \* scoreboard_frozen_at, 0 when unset
    bdEvents,   \* committed changes whose event is not emitted yet
    bdTasks,    \* background broadcasts: [event, board], board Unread before the read
    bdReads,    \* cache misses: the board computed and not yet stored
    bdCache,    \* variant -> the cached board, {} when there is none
    bdRoom,     \* the frame last sent to the public room, its cause, when that board was
                \* last found to be the one to show, and the newest board handled
    bdHeld      \* the frozen board last sent

bdVars == <<bdRows, bdClock, bdFrozen, bdEvents, bdTasks, bdReads, bdCache, bdRoom, bdHeld>>

Row == [subject : Subjects, kind : {"solve", "hint", "adjust", "award"},
        pts : Int, at : Nat]
NoBoard == [at |-> -1, frozen |-> 0, lines |-> {}]
Unread == [at |-> -2, frozen |-> 0, lines |-> {}]
Variants == {"public", "live"}

-----------------------------------------------------------------------------
(* compute_scoreboard *)

Upto(rows, asOf) == {r \in rows : asOf = 0 \/ r.at <= asOf}
Credit(r) == IF r.kind = "hint" THEN 0 - r.pts ELSE r.pts
Mine(rows, s) == {r \in rows : r.subject = s}

NetPoints(rows, s) ==
    LET net == MapThenSumSet(Credit, Mine(rows, s)) IN IF net < 0 THEN 0 ELSE net

Solves(rows, s) == {r.at : r \in {x \in Mine(rows, s) : x.kind = "solve"}}
LastSolve(rows, s) == IF Solves(rows, s) = {} THEN 0 ELSE Max(Solves(rows, s))

(* Points first; at a tie a subject with no solve comes last, and of two   *)
(* with one the earlier reached its score first.  (The name, which decides *)
(* among equals, is left out: equals share a rank here.)                   *)
Above(rows, s, t) ==
    LET p == NetPoints(rows, s)   q == NetPoints(rows, t)
        a == LastSolve(rows, s)   b == LastSolve(rows, t)
    IN  p > q \/ (p = q /\ a # 0 /\ (b = 0 \/ a < b))

Lines(rows) ==
    {[subject |-> s, points |-> NetPoints(rows, s),
      rank |-> Cardinality({t \in Subjects : Above(rows, t, s)}) + 1] : s \in Subjects}

Board(variant) ==
    LET asOf == IF variant = "live" THEN 0 ELSE bdFrozen
    IN  [at |-> bdClock, frozen |-> asOf, lines |-> Lines(Upto(bdRows, asOf))]

(* Two boards a client cannot tell apart. *)
SameBoard(a, b) == a.frozen = b.frozen /\ a.lines = b.lines

-----------------------------------------------------------------------------
LiveBoardInit ==
    /\ bdRows = {} /\ bdClock = 1 /\ bdFrozen = 0
    /\ bdEvents = {} /\ bdTasks = {} /\ bdReads = {}
    /\ bdCache = [v \in Variants |-> {}]
    /\ bdRoom = [board |-> [at |-> 0, frozen |-> 0, lines |-> Lines({})],
                 event |-> [kind |-> "join", at |-> 0], shown |-> 0, newest |-> 0]
    /\ bdHeld = NoBoard

(* A solve, hint reveal, adjustment or award commits; a judge's verdict    *)
(* may date its solve back to the submission.                              *)
Scores(s, m, at) ==
    /\ bdClock <= MaxCommits
    /\ at \in (IF m.kind = "solve" THEN {bdClock - 1, bdClock} ELSE {bdClock})
    /\ bdRows' = bdRows \cup {[subject |-> s, kind |-> m.kind, pts |-> m.pts, at |-> at]}
    /\ bdRows' # bdRows
    /\ bdClock' = bdClock + 1
    /\ bdEvents' = bdEvents \cup {[kind |-> m.kind, at |-> at]}
    /\ UNCHANGED <<bdFrozen, bdTasks, bdReads, bdCache, bdRoom, bdHeld>>

(* A rejudge or an override takes a solve back. *)
SolveRevoked(r) ==
    /\ r \in bdRows /\ r.kind = "solve"
    /\ bdRows' = bdRows \ {r}
    /\ bdClock <= MaxCommits
    /\ bdClock' = bdClock + 1
    /\ bdEvents' = bdEvents \cup {[kind |-> "solve", at |-> r.at]}
    /\ UNCHANGED <<bdFrozen, bdTasks, bdReads, bdCache, bdRoom, bdHeld>>

Freeze ==
    /\ bdClock <= MaxCommits
    /\ bdFrozen' = IF bdFrozen = 0 THEN bdClock ELSE 0
    /\ bdClock' = bdClock + 1
    /\ bdEvents' = bdEvents \cup {[kind |-> "freeze", at |-> bdClock]}
    /\ UNCHANGED <<bdRows, bdTasks, bdReads, bdCache, bdRoom, bdHeld>>

InvalidateCache_PublicOnly ==
    bdCache' = [bdCache EXCEPT !["public"] = {}]

(* invalidate_cache: every variant of the competition is dropped.          *)
InvalidateCache == bdCache' = [v \in Variants |-> {}]

(* emit: the foreground handler runs, the broadcast is scheduled.          *)
Emit(e) ==
    /\ e \in bdEvents
    /\ bdEvents' = bdEvents \ {e}
    /\ InvalidateCache
    /\ bdReads' = {[r EXCEPT !.raced = TRUE] : r \in bdReads}
    /\ bdTasks' = bdTasks \cup {[event |-> e, board |-> Unread]}
    /\ UNCHANGED <<bdRows, bdClock, bdFrozen, bdRoom, bdHeld>>

MovesFrozenBoard_AnySolve(e) == e.kind \in {"freeze", "solve"}

MovesFrozenBoard_FreezeOnly(e) == e.kind = "freeze"

(* May the event reach the public room while the board is frozen? *)
MovesFrozenBoard(e) ==
    \/ e.kind = "freeze"
    \/ e.kind = "solve" /\ e.at <= bdFrozen

(* broadcast_scoreboard up to its last read. *)
Compute(t) ==
    /\ t \in bdTasks /\ t.board = Unread
    /\ bdTasks' = (bdTasks \ {t}) \cup
         (IF bdFrozen = 0 \/ MovesFrozenBoard(t.event)
          THEN {[t EXCEPT !.board = Board("public")]} ELSE {})
    /\ UNCHANGED <<bdRows, bdClock, bdFrozen, bdEvents, bdReads, bdCache, bdRoom, bdHeld>>

Larger(a, b) == IF a > b THEN a ELSE b

Frame(t, same) ==
    [board |-> IF same THEN bdRoom.board ELSE t.board,
     event |-> IF same THEN bdRoom.event ELSE t.event,
     shown |-> IF same THEN Larger(bdRoom.shown, t.board.at) ELSE t.board.at,
     newest |-> Larger(bdRoom.newest, t.board.at)]

Broadcast_HoldsLive(t) ==
    /\ t \in bdTasks /\ t.board # Unread
    /\ bdTasks' = bdTasks \ {t}
    /\ bdHeld' = t.board
    /\ bdRoom' = Frame(t, SameBoard(bdHeld, t.board))
    /\ UNCHANGED <<bdRows, bdClock, bdFrozen, bdEvents, bdReads, bdCache>>

(* ... and its send: a frozen board sent before is not sent again.         *)
Broadcast(t) ==
    /\ t \in bdTasks /\ t.board # Unread
    /\ bdTasks' = bdTasks \ {t}
    /\ bdHeld' = IF t.board.frozen = 0 THEN NoBoard ELSE t.board
    /\ bdRoom' = Frame(t, t.board.frozen # 0 /\ SameBoard(bdHeld, t.board))
    /\ UNCHANGED <<bdRows, bdClock, bdFrozen, bdEvents, bdReads, bdCache>>

(* cached_scoreboard on a miss: compute (one reader at a time here) ... *)
ReadMiss(v) ==
    /\ bdCache[v] = {}
    /\ bdReads = {}
    /\ bdReads' = {[variant |-> v, frozen |-> Board(v).frozen, lines |-> Board(v).lines,
                    raced |-> FALSE]}
    /\ UNCHANGED <<bdRows, bdClock, bdFrozen, bdEvents, bdTasks, bdCache, bdRoom, bdHeld>>

(* ... and store, whatever happened meanwhile. *)
StoreCache(r) ==
    /\ r \in bdReads
    /\ bdReads' = bdReads \ {r}
    /\ bdCache' = [bdCache EXCEPT ![r.variant] = {r}]
    /\ UNCHANGED <<bdRows, bdClock, bdFrozen, bdEvents, bdTasks, bdRoom, bdHeld>>

(* The TTL runs out. *)
CacheExpires(v) ==
    /\ bdCache[v] # {}
    /\ bdCache' = [bdCache EXCEPT ![v] = {}]
    /\ UNCHANGED <<bdRows, bdClock, bdFrozen, bdEvents, bdTasks, bdReads, bdRoom, bdHeld>>

LiveBoardNext ==
    \/ \E s \in Subjects, m \in Moves, at \in {bdClock - 1, bdClock} : Scores(s, m, at)
    \/ \E r \in bdRows : SolveRevoked(r)
    \/ Freeze
    \/ \E e \in bdEvents : Emit(e)
    \/ \E t \in bdTasks : Compute(t) \/ Broadcast(t)
    \/ \E v \in Variants : ReadMiss(v) \/ CacheExpires(v)
    \/ \E r \in bdReads : StoreCache(r)

LiveBoardSpec == LiveBoardInit /\ [][LiveBoardNext]_bdVars

-----------------------------------------------------------------------------
LiveBoardTypeOK ==
    /\ bdRows \subseteq [subject : Subjects, kind : {m.kind : m \in Moves},
                         pts : {m.pts : m \in Moves}, at : 0 .. bdClock]
    /\ bdFrozen \in 0 .. bdClock
    /\ \A b \in {bdRoom.board, bdHeld} : b.at <= bdClock
    /\ bdHeld # NoBoard => bdHeld.frozen # 0

(* A cached board is the current one once the events of all changes are    *)
(* out, unless its computation had begun before one of them was emitted.   *)
CacheCurrentUnlessRaced ==
    bdEvents = {} =>
        \A v \in Variants : \A b \in bdCache[v] : ~ b.raced => SameBoard(b, Board(v))

(* What is sent to the public room under a freeze shows nothing dated      *)
(* after the cutoff, and no frame is timed to such a change.               *)
FrozenRoomIsSilent ==
    bdFrozen # 0 /\ bdRoom.board.at >= bdFrozen =>
        /\ bdRoom.board.frozen # 0 \/ bdRoom.board.at = bdFrozen
        /\ bdRoom.event.kind = "freeze" \/ bdRoom.event.at <= bdFrozen

(* When nothing is under way the room shows the current public board,      *)
(* unless a broadcast computed earlier was sent after a newer one.         *)
Idle == bdEvents = {} /\ bdTasks = {}
RoomConvergesUnlessOvertaken ==
    Idle /\ bdRoom.shown = bdRoom.newest => SameBoard(bdRoom.board, Board("public"))

(* "a cache hit only ever serves a board that genuinely hasn't changed"    *)
(* (utils/scoreboard.py), once the events of all changes are out.          *)
CacheIsCurrent ==
    bdEvents = {} => \A v \in Variants : \A b \in bdCache[v] : SameBoard(b, Board(v))

-----------------------------------------------------------------------------
(***************************************************************************)
(* The per-key coalescer of activity pings (utils/coalesce.py) and the     *)
(* sender it is given (_send_activity of plugins/competitions): one key.   *)
(* hit() awaits the leading send before the key is tracked and its window  *)
(* armed, so several hits can lead at once and several windows can be open.*)
(* A send that finds nobody to deliver to (an empty room, a frozen board,  *)
(* a hidden challenge) tracks nothing.                                     *)
(***************************************************************************)

CONSTANTS MaxHits,      \* bound: events of the key
          MaxFlips      \* bound: changes of whether a ping can be delivered

ASSUME CoalescerAssumption == {MaxHits, MaxFlips} \subseteq Nat

VARIABLES
    coHits,     \* events so far; the value of an event is its number
    coTracked,  \* the key is in _open
    coPending,  \* the value held for the trailing edge, 0 when none
    coTimers,   \* windows armed
    coSends,    \* sends under way: [value, edge, saw: events it can tell of]
    coAudience, \* a ping would be delivered now
    coFlips,
    coTold,     \* the latest event some delivered ping told of
    coMissed    \* events so far when a send last found nobody

coVars == <<coHits, coTracked, coPending, coTimers, coSends, coAudience, coFlips, coTold, coMissed>>

CoalescerInit ==
    /\ coHits = 0 /\ coTracked = FALSE /\ coPending = 0 /\ coTimers = 0
    /\ coSends = {} /\ coAudience \in BOOLEAN /\ coFlips = 0 /\ coTold = 0 /\ coMissed = 0

(* hit: inside a window the latest value waits, otherwise it leads.        *)
Hit ==
    /\ coHits < MaxHits
    /\ coHits' = coHits + 1
    /\ IF coTracked
       THEN coPending' = coHits + 1 /\ UNCHANGED coSends
       ELSE /\ coSends' = coSends \cup
                 {[value |-> coHits + 1, edge |-> "leading", saw |-> coHits + 1]}
            /\ UNCHANGED coPending
    /\ UNCHANGED <<coTracked, coTimers, coAudience, coFlips, coTold, coMissed>>

(* The send delivers.  A leading one starts tracking and arms; a trailing  *)
(* one arms the next window.                                               *)
Delivered(s) ==
    /\ s \in coSends /\ coAudience
    /\ coSends' = coSends \ {s}
    /\ coTold' = Larger(coTold, s.saw)
    /\ coTracked' = (coTracked \/ s.edge = "leading")
    /\ coTimers' = coTimers + 1
    /\ UNCHANGED <<coHits, coPending, coAudience, coFlips, coMissed>>

(* It finds nobody: a leading one leaves no trace, a trailing one stops    *)
(* the tracking.                                                           *)
Undelivered(s) ==
    /\ s \in coSends /\ ~ coAudience
    /\ coSends' = coSends \ {s}
    /\ coTracked' = (coTracked /\ s.edge = "leading")
    /\ coMissed' = coHits
    /\ UNCHANGED <<coHits, coPending, coTimers, coAudience, coFlips, coTold>>

Close_KeepsTracking ==
    /\ coTimers > 0
    /\ coTimers' = coTimers - 1
    /\ IF coPending = 0
       THEN UNCHANGED <<coTracked, coSends>>
       ELSE /\ coSends' = coSends \cup
                 {[value |-> coPending, edge |-> "trailing", saw |-> coHits]}
            /\ UNCHANGED coTracked
    /\ coPending' = 0
    /\ UNCHANGED <<coHits, coAudience, coFlips, coTold, coMissed>>

Close_SendsMissing ==
    /\ coTimers > 0
    /\ coTimers' = coTimers - 1
    /\ coSends' = coSends \cup {[value |-> coPending, edge |-> "trailing", saw |-> coHits]}
    /\ coPending' = 0
    /\ UNCHANGED <<coHits, coTracked, coAudience, coFlips, coTold, coMissed>>

(* A window closes (_close): quiet, it stops tracking the key; otherwise   *)
(* the held value is sent.                                                 *)
Close ==
    /\ coTimers > 0
    /\ coTimers' = coTimers - 1
    /\ IF coPending = 0
       THEN coTracked' = FALSE /\ UNCHANGED coSends
       ELSE /\ coSends' = coSends \cup
                 {[value |-> coPending, edge |-> "trailing", saw |-> coHits]}
            /\ UNCHANGED coTracked
    /\ coPending' = 0
    /\ UNCHANGED <<coHits, coAudience, coFlips, coTold, coMissed>>

(* The room empties or fills, the board is frozen or thawed. *)
AudienceFlips ==
    /\ coFlips < MaxFlips
    /\ coFlips' = coFlips + 1
    /\ coAudience' = ~ coAudience
    /\ UNCHANGED <<coHits, coTracked, coPending, coTimers, coSends, coTold, coMissed>>

CoalescerNext == \/ Hit \/ Close \/ AudienceFlips
                 \/ \E s \in coSends : Delivered(s) \/ Undelivered(s)

CoalescerSpec == CoalescerInit /\ [][CoalescerNext]_coVars

-----------------------------------------------------------------------------
CoalescerTypeOK ==
    /\ coHits \in 0 .. MaxHits /\ coPending \in 0 .. coHits
    /\ coTimers \in Nat /\ coTracked \in BOOLEAN
    /\ coSends \subseteq [value : 1 .. coHits, edge : {"leading", "trailing"}, saw : 1 .. coHits]
    /\ coTold \in 0 .. coHits /\ coMissed \in 0 .. coHits

(* The last event is never lost to people who are there: once no send and  *)
(* no window is left, a ping told of it unless a send that ended after it  *)
(* found nobody, however many hits led at once and windows overlapped.           *)
LastValueReaches ==
    coSends = {} /\ coTimers = 0 => coHits \in {coTold, coMissed}
=============================================================================
