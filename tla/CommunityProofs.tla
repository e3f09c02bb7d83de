-------------------------- MODULE CommunityProofs --------------------------
(***************************************************************************)
(* Proofs about what the participants see and share: the live scoreboard   *)
(* (LiveBoard), hints, invite links and teams (Hints, Joining, Teams),     *)
(* certificates with their release (Certificates) and notices (Notices),   *)
(* as MCCommunity puts them side by side.  They hold for any number of     *)
(* teams, players, requests, editors and objects and for every bound.      *)
(***************************************************************************)
EXTENDS MCCommunity, FiniteSetTheorems, TLAPS

(* A set of numbers that is not empty has a least one. *)
LEMMA LeastOne ==
  ASSUME NEW S \in SUBSET Nat, S # {}
  PROVE  \E x \in S : \A y \in S : x <= y
<1>1. PICK x \in S : \A y \in S : ~ (<<y, x>> \in OpToRel(<, Nat))
  BY NatLessThanWellFounded, WFMin
<1>2. \A y \in S : ~ (y < x)
  BY <1>1 DEF OpToRel
<1>3. \A y \in S : x <= y
  BY <1>2
<1> QED
  BY <1>3

(***************************************************************************)
(* The live scoreboard.  What Lines makes of the rows plays no part.       *)
(***************************************************************************)

Kinds == {m.kind : m \in Moves}
BoardRows == [subject : Subjects, kind : Kinds, pts : {m.pts : m \in Moves}, at : Nat]
Boards == [at : Int, frozen : Nat, lines : {Lines(R) : R \in SUBSET BoardRows} \cup {{}}]
BoardEvents == [kind : Kinds \cup {"freeze", "join"}, at : Nat]
BoardTasks == [event : BoardEvents, board : Boards]
BoardReads == [variant : Variants, frozen : Nat,
               lines : {Lines(R) : R \in SUBSET BoardRows} \cup {{}}, raced : BOOLEAN]

(* Types; the clock is ahead of the freeze and of every event.             *)
BoardTypes ==
    /\ bdClock \in Nat \ {0} /\ bdFrozen \in Nat /\ bdFrozen < bdClock
    /\ bdRows \subseteq BoardRows /\ \A r \in bdRows : r.at < bdClock
    /\ bdEvents \subseteq BoardEvents /\ \A e \in bdEvents : e.at < bdClock
    /\ bdTasks \subseteq BoardTasks /\ \A t \in bdTasks : t.event.at < bdClock
    /\ bdReads \subseteq BoardReads
    /\ bdCache \in [Variants -> SUBSET BoardReads]
    /\ bdRoom \in [board : Boards, event : BoardEvents, shown : Nat, newest : Nat]
    /\ bdHeld \in Boards /\ bdHeld.at <= bdClock /\ (bdHeld # NoBoard => bdHeld.frozen # 0)

(* A board that is cached or about to be, and whose reading no event fell  *)
(* into, is the current one once no event is outstanding.                  *)
CacheFits ==
    bdEvents = {} => \A v \in Variants : \A b \in bdCache[v] \cup {r \in bdReads : r.variant = v} :
                       ~ b.raced => SameBoard(b, Board(v))

(* A board read for the room under an event: not later than now, and       *)
(* current if of now; a later one than the freeze is a frozen one, and so  *)
(* is the event.  A frozen board that is held is the one in the room.      *)
Computed(b, e) ==
    /\ 0 <= b.at /\ b.at <= bdClock /\ e.at <= b.at
    /\ b.at = bdClock => SameBoard(b, Board("public"))
    /\ bdFrozen # 0 /\ b.at > bdFrozen => b.frozen # 0 /\ (e.kind = "freeze" \/ e.at <= bdFrozen)

BoardsFit ==
    /\ Computed(bdRoom.board, bdRoom.event)
    /\ bdHeld # NoBoard => SameBoard(bdHeld, bdRoom.board)
    /\ bdRoom.shown <= bdClock
    /\ bdRoom.shown = bdClock => SameBoard(bdRoom.board, Board("public"))
    /\ \A t \in bdTasks : t.board # Unread => Computed(t.board, t.event)

(* Some event that can change what the room sees has yet to be read for.   *)
Moving(e) == bdFrozen = 0 \/ MovesFrozenBoard(e)
Outstanding == \/ \E e \in bdEvents : Moving(e)
           \/ \E t \in bdTasks : t.board = Unread /\ Moving(t.event)

(* If none has, whatever board is no older than all others is current.     *)
Latest(n) == bdRoom.newest <= n /\ \A t \in bdTasks : t.board # Unread => t.board.at <= n
LatestIsCurrent ==
    ~ Outstanding =>
        /\ Latest(bdRoom.shown) => SameBoard(bdRoom.board, Board("public"))
        /\ \A t \in bdTasks : t.board # Unread /\ Latest(t.board.at)
                                => SameBoard(t.board, Board("public"))

BoardInv == BoardTypes /\ CacheFits /\ BoardsFit /\ LatestIsCurrent

(* The board as of now.                                                    *)
LEMMA BoardIsTyped ==
  ASSUME BoardTypes, NEW v \in Variants
  PROVE  /\ Board(v) \in Boards /\ Board(v).at = bdClock /\ Board(v) # Unread
         /\ Board(v).frozen = (IF v = "live" THEN 0 ELSE bdFrozen)
         /\ Board(v).lines = Lines(Upto(bdRows, Board(v).frozen))
         /\ SameBoard(Board(v), Board(v))
<1>1. PICK asOf \in Nat : asOf = IF v = "live" THEN 0 ELSE bdFrozen
  BY DEF BoardTypes
<1>2. PICK l : l = Lines(Upto(bdRows, asOf))
  OBVIOUS
<1>3. l \in {Lines(R) : R \in SUBSET BoardRows}
  BY <1>2 DEF BoardTypes, Upto
<1>4. Board(v) = [at |-> bdClock, frozen |-> asOf, lines |-> l]
  BY <1>1, <1>2 DEF Board
<1>5. bdClock \in Nat \ {0}
  BY DEF BoardTypes
<1>6. Board(v) \in Boards /\ Board(v).at = bdClock /\ Board(v).frozen = asOf /\ Board(v).lines = l
  BY <1>3, <1>4, <1>5 DEF Boards
<1>7. Unread.at = -2
  BY DEF Unread
<1> QED
  BY <1>1, <1>2, <1>5, <1>6, <1>7 DEF SameBoard

LEMMA BoardStart == LiveBoardInit => BoardInv
<1> SUFFICES ASSUME LiveBoardInit PROVE BoardInv
  OBVIOUS
<1>1. /\ bdRows = {} /\ bdClock = 1 /\ bdFrozen = 0
      /\ bdEvents = {} /\ bdTasks = {} /\ bdReads = {}
      /\ bdCache = [v \in Variants |-> {}] /\ bdHeld = NoBoard
      /\ bdRoom = [board |-> [at |-> 0, frozen |-> 0, lines |-> Lines({})],
                   event |-> [kind |-> "join", at |-> 0], shown |-> 0, newest |-> 0]
  BY DEF LiveBoardInit
<1>2. PICK l : l = Lines({})
  OBVIOUS
<1>3. l \in {Lines(R) : R \in SUBSET BoardRows}
  BY <1>2
<1>4. PICK b : b = [at |-> 0, frozen |-> 0, lines |-> l]
  OBVIOUS
<1>5. b \in Boards /\ b.at = 0 /\ b.frozen = 0 /\ b.lines = l
  BY <1>3, <1>4 DEF Boards
<1>6. PICK e : e = [kind |-> "join", at |-> 0]
  OBVIOUS
<1>7. e \in BoardEvents /\ e.at = 0
  BY <1>6 DEF BoardEvents
<1>8. bdRoom = [board |-> b, event |-> e, shown |-> 0, newest |-> 0]
  BY <1>1, <1>2, <1>4, <1>6
<1>9. NoBoard \in Boards /\ NoBoard.at = -1
  BY DEF NoBoard, Boards
<1>10. BoardTypes
  BY <1>1, <1>5, <1>7, <1>8, <1>9 DEF BoardTypes
<1>11. SameBoard(b, Board("public"))
  <2>1. "public" \in Variants /\ "public" # "live"
    BY DEF Variants
  <2>2. Board("public").frozen = 0 /\ Board("public").lines = Lines(Upto(bdRows, 0))
    BY <1>1, <1>10, <2>1, BoardIsTyped
  <2>3. Upto(bdRows, 0) = {}
    BY <1>1 DEF Upto
  <2> QED
    BY <1>2, <1>5, <2>2, <2>3 DEF SameBoard
<1>12. CacheFits
  BY <1>1 DEF CacheFits
<1>13. BoardsFit
  BY <1>1, <1>5, <1>7, <1>8, <1>11 DEF BoardsFit, Computed
<1>14. LatestIsCurrent
  BY <1>1, <1>8, <1>11 DEF LatestIsCurrent
<1> QED
  BY <1>10, <1>12, <1>13, <1>14 DEF BoardInv

(* The board depends on the rows, the clock and the freeze.                *)
LEMMA BoardStays ==
  ASSUME UNCHANGED <<bdRows, bdClock, bdFrozen>>
  PROVE  /\ \A v \in Variants : Board(v)' = Board(v)
         /\ Board("public")' = Board("public")
         /\ \A e : Moving(e)' <=> Moving(e)
BY DEF Board, Upto, Moving, MovesFrozenBoard

(* Every commit puts the clock on and an event out.  Either it may reach   *)
(* the room or the public board stays as it is.                            *)
LEMMA ChangeStep ==
  ASSUME BoardInv, NEW e \in BoardEvents, bdClock' = bdClock + 1, e.at <= bdClock,
         bdEvents' = bdEvents \cup {e},
         bdRows' \subseteq BoardRows, \A r \in bdRows' : r.at < bdClock',
         bdFrozen' \in Nat, bdFrozen' < bdClock',
         \/ Moving(e)'
         \/ bdFrozen' = bdFrozen /\ bdFrozen # 0 /\ Upto(bdRows', bdFrozen) = Upto(bdRows, bdFrozen),
         bdFrozen' \in {0, bdFrozen, bdClock},
         UNCHANGED <<bdTasks, bdReads, bdCache, bdRoom, bdHeld>>
  PROVE  BoardInv'
<1>1. BoardTypes'
  <2>1. BoardTypes /\ bdClock \in Nat /\ bdHeld.at \in Int
    BY DEF BoardInv, BoardTypes, Boards
  <2>2. bdClock' \in Nat \ {0} /\ bdHeld.at <= bdClock'
    BY <2>1 DEF BoardTypes
  <2>3. /\ bdEvents' \subseteq BoardEvents
        /\ \A x \in bdEvents' : x.at < bdClock'
        /\ \A t \in bdTasks' : t.event.at < bdClock'
    BY <2>1 DEF BoardTypes, BoardEvents, BoardTasks
  <2> QED
    BY <2>1, <2>2, <2>3 DEF BoardTypes
<1>2. CacheFits'
  BY DEF CacheFits
<1>3. \A b \in Boards, x \in BoardEvents : Computed(b, x) => Computed(b, x)'
  <2> SUFFICES ASSUME NEW b \in Boards, NEW x \in BoardEvents, Computed(b, x) PROVE Computed(b, x)'
    OBVIOUS
  <2>1. b.at \in Int /\ x.at \in Nat /\ bdClock \in Nat /\ bdFrozen \in Nat
    BY DEF Boards, BoardEvents, BoardInv, BoardTypes
  <2>2. 0 <= b.at /\ b.at <= bdClock' /\ x.at <= b.at /\ b.at # bdClock'
    BY <2>1 DEF Computed
  <2>3. bdFrozen' # 0 /\ b.at > bdFrozen' => bdFrozen' = bdFrozen
    BY <2>1 DEF Computed
  <2>4. bdFrozen' # 0 /\ b.at > bdFrozen' => b.frozen # 0 /\ (x.kind = "freeze" \/ x.at <= bdFrozen')
    BY <2>3 DEF Computed
  <2> QED
    BY <2>2, <2>4 DEF Computed
<1>4. BoardsFit'
  <2>1. /\ bdRoom.board \in Boards /\ bdRoom.event \in BoardEvents
        /\ \A t \in bdTasks : t.board \in Boards /\ t.event \in BoardEvents
    BY DEF BoardInv, BoardTypes, BoardTasks
  <2>2. bdRoom.shown <= bdClock' /\ bdRoom.shown # bdClock'
    BY DEF BoardInv, BoardTypes, BoardsFit
  <2>3. bdHeld' # NoBoard => SameBoard(bdHeld', bdRoom'.board)
    BY DEF BoardInv, BoardsFit
  <2> QED
    BY <1>3, <2>1, <2>2, <2>3 DEF BoardInv, BoardsFit, SameBoard
<1>5. LatestIsCurrent'
  <2>1. CASE Moving(e)'
    BY <2>1 DEF LatestIsCurrent, Outstanding
  <2>2. CASE ~ Moving(e)'
    <3>1. bdFrozen' = bdFrozen /\ bdFrozen # 0 /\ Upto(bdRows', bdFrozen) = Upto(bdRows, bdFrozen)
      BY <2>2
    <3>2. "public" \in Variants /\ "public" # "live"
      BY DEF Variants
    <3>3. /\ Board("public").frozen = bdFrozen
          /\ Board("public").lines = Lines(Upto(bdRows, bdFrozen))
      BY <3>2, BoardIsTyped DEF BoardInv
    <3>4. /\ Board("public")'.frozen = bdFrozen'
          /\ Board("public")'.lines = Lines(Upto(bdRows', bdFrozen'))
      BY <3>2 DEF Board
    <3>5. /\ Board("public")'.frozen = Board("public").frozen
          /\ Board("public")'.lines = Board("public").lines
      BY <3>1, <3>3, <3>4
    <3>6. \A b : SameBoard(b, Board("public")) => SameBoard(b, Board("public"))'
      BY <3>5 DEF SameBoard
    <3>7. Outstanding => Outstanding'
      BY <3>1 DEF Outstanding, Moving, MovesFrozenBoard
    <3> QED
      BY <3>6, <3>7 DEF BoardInv, LatestIsCurrent, Latest
  <2> QED
    BY <2>1, <2>2
<1> QED
  BY <1>1, <1>2, <1>4, <1>5 DEF BoardInv

(* Rows, revocations and the freeze.                                       *)
LEMMA BoardChanges ==
  ASSUME BoardInv,
         \/ \E s \in Subjects, m \in Moves, at \in {bdClock - 1, bdClock} : Scores(s, m, at)
         \/ \E r \in bdRows : SolveRevoked(r)
         \/ Freeze
  PROVE  BoardInv'
<1>0. bdClock \in Nat \ {0} /\ bdFrozen \in Nat /\ bdFrozen < bdClock
  BY DEF BoardInv, BoardTypes
<1>1. ASSUME NEW s \in Subjects, NEW m \in Moves, NEW at \in {bdClock - 1, bdClock}, Scores(s, m, at)
      PROVE  BoardInv'
  <2>1. PICK e : e = [kind |-> m.kind, at |-> at]
    OBVIOUS
  <2>2. e \in BoardEvents /\ e.at = at /\ e.kind = m.kind /\ at \in Nat /\ at <= bdClock
    BY <1>0, <2>1 DEF BoardEvents, Kinds
  <2>3. PICK r : r = [subject |-> s, kind |-> m.kind, pts |-> m.pts, at |-> at]
    OBVIOUS
  <2>4. r \in BoardRows /\ r.at = at
    BY <2>2, <2>3 DEF BoardRows, Kinds
  <2>5. /\ bdRows' = bdRows \cup {r} /\ bdClock' = bdClock + 1 /\ bdEvents' = bdEvents \cup {e}
        /\ UNCHANGED <<bdFrozen, bdTasks, bdReads, bdCache, bdRoom, bdHeld>>
        /\ at \in (IF m.kind = "solve" THEN {bdClock - 1, bdClock} ELSE {bdClock})
    BY <1>1, <2>1, <2>3 DEF Scores
  <2>6. bdRows' \subseteq BoardRows /\ \A x \in bdRows' : x.at < bdClock'
    BY <1>0, <2>2, <2>4, <2>5 DEF BoardInv, BoardTypes, BoardRows
  <2>7. Moving(e)' \/ (bdFrozen # 0 /\ Upto(bdRows', bdFrozen) = Upto(bdRows, bdFrozen))
    <3> SUFFICES ASSUME bdFrozen # 0, ~ (e.kind = "solve" /\ e.at <= bdFrozen)
                 PROVE  Upto(bdRows', bdFrozen) = Upto(bdRows, bdFrozen)
      BY <2>5 DEF Moving, MovesFrozenBoard
    <3>1. ~ (r.at <= bdFrozen)
      BY <1>0, <2>2, <2>4, <2>5
    <3> QED
      BY <2>5, <3>1 DEF Upto
  <2>8. bdFrozen' \in Nat /\ bdFrozen' < bdClock' /\ bdFrozen' \in {0, bdFrozen, bdClock}
    BY <1>0, <2>5
  <2> QED
    BY <2>2, <2>5, <2>6, <2>7, <2>8, ChangeStep
<1>2. ASSUME NEW r \in bdRows, SolveRevoked(r)
      PROVE  BoardInv'
  <2>1. PICK e : e = [kind |-> "solve", at |-> r.at]
    OBVIOUS
  <2>2. r \in BoardRows /\ r.at \in Nat /\ r.at < bdClock /\ r.kind = "solve"
    BY <1>2 DEF SolveRevoked, BoardInv, BoardTypes, BoardRows
  <2>3. e \in BoardEvents /\ e.at = r.at /\ e.kind = "solve" /\ e.at <= bdClock
    BY <1>0, <2>1, <2>2 DEF BoardEvents, BoardRows
  <2>4. /\ bdRows' = bdRows \ {r} /\ bdClock' = bdClock + 1 /\ bdEvents' = bdEvents \cup {e}
        /\ UNCHANGED <<bdFrozen, bdTasks, bdReads, bdCache, bdRoom, bdHeld>>
    BY <1>2, <2>1 DEF SolveRevoked
  <2>5. bdRows' \subseteq BoardRows /\ \A x \in bdRows' : x.at < bdClock'
    BY <1>0, <2>4 DEF BoardInv, BoardTypes, BoardRows
  <2>6. Moving(e)' \/ (bdFrozen # 0 /\ Upto(bdRows', bdFrozen) = Upto(bdRows, bdFrozen))
    <3> SUFFICES ASSUME bdFrozen # 0, ~ (r.at <= bdFrozen)
                 PROVE  Upto(bdRows', bdFrozen) = Upto(bdRows, bdFrozen)
      BY <2>3, <2>4 DEF Moving, MovesFrozenBoard
    <3> QED
      BY <2>4 DEF Upto
  <2>7. bdFrozen' \in Nat /\ bdFrozen' < bdClock' /\ bdFrozen' \in {0, bdFrozen, bdClock}
    BY <1>0, <2>4
  <2> QED
    BY <2>3, <2>4, <2>5, <2>6, <2>7, ChangeStep
<1>3. CASE Freeze
  <2>1. PICK e : e = [kind |-> "freeze", at |-> bdClock]
    OBVIOUS
  <2>2. e \in BoardEvents /\ e.at = bdClock /\ e.kind = "freeze" /\ e.at <= bdClock
    BY <1>0, <2>1 DEF BoardEvents
  <2>3. /\ bdFrozen' = (IF bdFrozen = 0 THEN bdClock ELSE 0) /\ bdClock' = bdClock + 1
        /\ bdEvents' = bdEvents \cup {e}
        /\ UNCHANGED <<bdRows, bdTasks, bdReads, bdCache, bdRoom, bdHeld>>
    BY <1>3, <2>1 DEF Freeze
  <2>4. bdRows' \subseteq BoardRows /\ \A x \in bdRows' : x.at < bdClock'
    BY <1>0, <2>3 DEF BoardInv, BoardTypes, BoardRows
  <2>5. Moving(e)'
    BY <2>2 DEF Moving, MovesFrozenBoard
  <2>6. bdFrozen' \in Nat /\ bdFrozen' < bdClock' /\ bdFrozen' \in {0, bdFrozen, bdClock}
    BY <1>0, <2>3
  <2> QED
    BY <2>2, <2>3, <2>4, <2>5, <2>6, ChangeStep
<1> QED
  BY <1>1, <1>2, <1>3

(* An event goes out: the caches are emptied, what was being read for them *)
(* is marked, and a broadcast is to be computed.                           *)
LEMMA EmitStep ==
  ASSUME BoardInv, NEW e \in bdEvents, Emit(e)
  PROVE  BoardInv'
<1>1. /\ bdEvents' = bdEvents \ {e} /\ bdCache' = [v \in Variants |-> {}]
      /\ bdReads' = {[r EXCEPT !.raced = TRUE] : r \in bdReads}
      /\ bdTasks' = bdTasks \cup {[event |-> e, board |-> Unread]}
      /\ UNCHANGED <<bdRows, bdClock, bdFrozen, bdRoom, bdHeld>>
  BY DEF Emit, InvalidateCache
<1>2. PICK t : t = [event |-> e, board |-> Unread]
  OBVIOUS
<1>3. t.event = e /\ t.board = Unread /\ bdTasks' = bdTasks \cup {t}
  BY <1>1, <1>2
<1>4. e \in BoardEvents /\ e.at < bdClock
  BY DEF BoardInv, BoardTypes
<1>5. t \in BoardTasks
  <2>1. Unread \in Boards
    BY DEF Unread, Boards
  <2> QED
    BY <1>2, <1>4, <2>1 DEF BoardTasks
<1>6. bdReads' \subseteq BoardReads /\ \A r \in bdReads' : r.raced
  <2>1. ASSUME NEW r \in BoardReads
        PROVE  [r EXCEPT !.raced = TRUE] \in BoardReads /\ [r EXCEPT !.raced = TRUE].raced = TRUE
    <3>1. PICK x : x = [r EXCEPT !.raced = TRUE]
      OBVIOUS
    <3>2. x \in BoardReads /\ x.raced = TRUE
      BY <3>1 DEF BoardReads
    <3> QED
      BY <3>1, <3>2
  <2> QED
    BY <1>1, <2>1 DEF BoardInv, BoardTypes
<1>7. bdCache' \in [Variants -> SUBSET BoardReads] /\ \A v \in Variants : bdCache'[v] = {}
  BY <1>1
<1>8. BoardTypes'
  BY <1>1, <1>3, <1>4, <1>5, <1>6, <1>7 DEF BoardInv, BoardTypes
<1>9. CacheFits'
  BY <1>6, <1>7 DEF CacheFits
<1>10. Board("public")' = Board("public") /\ \A x : Moving(x)' <=> Moving(x)
  BY <1>1, BoardStays
<1>11. BoardsFit'
  BY <1>1, <1>3, <1>10 DEF BoardInv, BoardsFit, Computed, SameBoard
<1>12. LatestIsCurrent'
  <2>1. Outstanding => Outstanding'
    <3>1. CASE \E x \in bdEvents : Moving(x)
      BY <1>1, <1>3, <1>10, <3>1 DEF Outstanding
    <3>2. CASE \E x \in bdTasks : x.board = Unread /\ Moving(x.event)
      BY <1>3, <1>10, <3>2 DEF Outstanding
    <3> QED
      BY <3>1, <3>2 DEF Outstanding
  <2>2. \A n : Latest(n)' => Latest(n)
    BY <1>1, <1>3 DEF Latest
  <2> QED
    BY <1>1, <1>3, <1>10, <2>1, <2>2 DEF BoardInv, LatestIsCurrent, SameBoard
<1> QED
  BY <1>8, <1>9, <1>11, <1>12 DEF BoardInv

(* A broadcast is computed, or dropped as nothing the frozen room may see. *)
LEMMA ComputeStep ==
  ASSUME BoardInv, NEW t \in bdTasks, Compute(t)
  PROVE  BoardInv'
<1>1. /\ t.board = Unread /\ UNCHANGED <<bdRows, bdClock, bdFrozen, bdEvents, bdReads, bdCache, bdRoom, bdHeld>>
      /\ bdTasks' = (bdTasks \ {t}) \cup
           (IF Moving(t.event) THEN {[t EXCEPT !.board = Board("public")]} ELSE {})
  BY DEF Compute, Moving
<1>2. t \in BoardTasks /\ t.event \in BoardEvents /\ t.event.at < bdClock /\ t.event.at \in Nat
      /\ bdClock \in Nat /\ bdFrozen \in Nat /\ bdFrozen < bdClock
  BY DEF BoardInv, BoardTypes, BoardTasks, BoardEvents
<1>3. PICK now : now = Board("public")
  OBVIOUS
<1>4. /\ now \in Boards /\ now.at = bdClock /\ now # Unread /\ now.frozen = bdFrozen
      /\ SameBoard(now, Board("public"))
  BY <1>3, BoardIsTyped DEF BoardInv, Variants
<1>5. PICK n : n = [t EXCEPT !.board = now]
  OBVIOUS
<1>6. n \in BoardTasks /\ n.board = now /\ n.event = t.event
  BY <1>2, <1>4, <1>5 DEF BoardTasks
<1>7. bdTasks' = (bdTasks \ {t}) \cup (IF Moving(t.event) THEN {n} ELSE {})
  BY <1>1, <1>3, <1>5
<1>8. Board("public")' = Board("public") /\ \A x : Moving(x)' <=> Moving(x)
  BY <1>1, BoardStays
<1>9. BoardTypes'
  BY <1>1, <1>2, <1>6, <1>7 DEF BoardInv, BoardTypes
<1>10. CacheFits'
  <2>1. \A v \in Variants : Board(v)' = Board(v)
    BY <1>1, BoardStays
  <2> QED
    BY <1>1, <2>1 DEF BoardInv, CacheFits, SameBoard
<1>11. BoardsFit'
  <2>1. Moving(t.event) => Computed(now, t.event)
    BY <1>2, <1>4 DEF Computed, Moving, MovesFrozenBoard
  <2>2. \A b, e : Computed(b, e)' <=> Computed(b, e)
    BY <1>1, <1>8 DEF Computed, SameBoard
  <2>3. \A x \in bdTasks' : x.board # Unread => Computed(x.board, x.event)
    BY <1>1, <1>6, <1>7, <2>1 DEF BoardInv, BoardsFit
  <2>4. /\ bdHeld' # NoBoard => SameBoard(bdHeld', bdRoom'.board)
        /\ bdRoom'.shown <= bdClock'
        /\ bdRoom'.shown = bdClock' => SameBoard(bdRoom'.board, Board("public"))
    BY <1>1 DEF BoardInv, BoardsFit
  <2> QED
    BY <1>1, <1>8, <2>2, <2>3, <2>4 DEF BoardInv, BoardsFit, SameBoard
<1>12. LatestIsCurrent'
  <2>1. CASE Moving(t.event)
    <3>1. ASSUME NEW k \in Int, k <= bdClock, Latest(k)' PROVE k = bdClock
      <4>1. n \in bdTasks'
        BY <1>7, <2>1
      <4>2. bdClock <= k
        BY <1>4, <1>6, <3>1, <4>1 DEF Latest
      <4> QED
        BY <1>2, <3>1, <4>2
    <3>2. /\ bdRoom'.shown \in Int /\ bdRoom'.shown <= bdClock
          /\ bdRoom'.shown = bdClock => SameBoard(bdRoom'.board, Board("public"))
      BY <1>1 DEF BoardInv, BoardTypes, BoardsFit
    <3>3. \A x \in bdTasks' : x.board # Unread =>
            /\ x.board.at \in Int /\ x.board.at <= bdClock
            /\ x.board.at = bdClock => SameBoard(x.board, Board("public"))
      <4>1. \A x \in bdTasks : x.board # Unread =>
              /\ x.board.at \in Int /\ x.board.at <= bdClock
              /\ x.board.at = bdClock => SameBoard(x.board, Board("public"))
        BY DEF BoardInv, BoardTypes, BoardsFit, Computed, BoardTasks, Boards
      <4>2. now.at <= bdClock /\ now.at \in Int
        BY <1>2, <1>4
      <4> QED
        BY <1>4, <1>6, <1>7, <4>1, <4>2
    <3> QED
      BY <1>8, <3>1, <3>2, <3>3 DEF LatestIsCurrent, SameBoard
  <2>2. CASE ~ Moving(t.event)
    <3>1. bdTasks' = bdTasks \ {t}
      BY <1>7, <2>2
    <3>2. Outstanding => Outstanding'
      BY <1>1, <1>8, <2>2, <3>1 DEF Outstanding
    <3>3. \A k : Latest(k)' => Latest(k)
      BY <1>1, <3>1 DEF Latest
    <3> QED
      BY <1>1, <1>8, <3>1, <3>2, <3>3 DEF BoardInv, LatestIsCurrent, SameBoard
  <2> QED
    BY <2>1, <2>2
<1> QED
  BY <1>9, <1>10, <1>11, <1>12 DEF BoardInv

(* A broadcast is sent, or held back as the same frozen board.             *)
LEMMA BroadcastStep ==
  ASSUME BoardInv, NEW t \in bdTasks, Broadcast(t)
  PROVE  BoardInv'
<1>1. /\ t.board # Unread /\ bdTasks' = bdTasks \ {t}
      /\ UNCHANGED <<bdRows, bdClock, bdFrozen, bdEvents, bdReads, bdCache>>
      /\ bdHeld' = (IF t.board.frozen = 0 THEN NoBoard ELSE t.board)
  BY DEF Broadcast
<1>2. PICK same \in BOOLEAN : /\ bdRoom' = Frame(t, same)
                              /\ same => t.board.frozen # 0 /\ SameBoard(bdHeld, t.board)
  <2>1. (t.board.frozen # 0 /\ SameBoard(bdHeld, t.board)) \in BOOLEAN
    OBVIOUS
  <2> QED
    BY <2>1 DEF Broadcast
<1>3. /\ t.board \in Boards /\ t.event \in BoardEvents /\ Computed(t.board, t.event)
      /\ bdRoom.board \in Boards /\ bdRoom.event \in BoardEvents
      /\ bdRoom.newest \in Nat /\ bdRoom.shown \in Nat /\ bdRoom.shown <= bdClock
      /\ t.board.at \in Nat /\ t.board.at <= bdClock
  <2>1. /\ t.board \in Boards /\ t.event \in BoardEvents /\ Computed(t.board, t.event)
        /\ bdRoom.board \in Boards /\ bdRoom.event \in BoardEvents
        /\ bdRoom.newest \in Nat /\ bdRoom.shown \in Nat /\ bdRoom.shown <= bdClock
    BY <1>1 DEF BoardInv, BoardTypes, BoardTasks, BoardsFit
  <2>2. t.board.at \in Nat /\ t.board.at <= bdClock
    BY <2>1 DEF Computed, Boards
  <2> QED
    BY <2>1, <2>2
<1>4. PICK newest \in Nat : /\ newest = Larger(bdRoom.newest, t.board.at)
                            /\ newest >= t.board.at /\ newest >= bdRoom.newest
  BY <1>3 DEF Larger
<1>5. PICK shown \in Nat : /\ shown = IF same THEN Larger(bdRoom.shown, t.board.at) ELSE t.board.at
                           /\ ~ same => shown = t.board.at
                           /\ same => shown \in {bdRoom.shown, t.board.at}
                           /\ shown <= bdClock
  BY <1>3 DEF Larger
<1>6. /\ bdRoom' \in [board : Boards, event : BoardEvents, shown : Nat, newest : Nat]
      /\ bdRoom'.newest = newest /\ bdRoom'.shown = shown
      /\ same => bdRoom'.board = bdRoom.board /\ bdRoom'.event = bdRoom.event
      /\ ~ same => bdRoom'.board = t.board /\ bdRoom'.event = t.event
  <2>1. bdRoom' = [board |-> IF same THEN bdRoom.board ELSE t.board,
                   event |-> IF same THEN bdRoom.event ELSE t.event,
                   shown |-> shown, newest |-> newest]
    BY <1>2, <1>4, <1>5 DEF Frame
  <2> QED
    BY <1>3, <2>1
<1>a. SameBoard(t.board, bdRoom'.board)
  <2>1. CASE same
    <3>1. bdHeld # NoBoard
      BY <1>2, <2>1 DEF SameBoard, NoBoard
    <3>2. SameBoard(bdHeld, bdRoom.board)
      BY <3>1 DEF BoardInv, BoardsFit
    <3> QED
      BY <1>2, <1>6, <2>1, <3>2 DEF SameBoard
  <2>2. CASE ~ same
    BY <1>6, <2>2 DEF SameBoard
  <2> QED
    BY <2>1, <2>2
<1>7. bdHeld' \in Boards /\ bdHeld'.at <= bdClock /\ (bdHeld' # NoBoard => bdHeld'.frozen # 0)
  <2>1. NoBoard \in Boards /\ NoBoard.at = -1 /\ bdClock \in Nat
    BY DEF NoBoard, Boards, BoardInv, BoardTypes
  <2> QED
    BY <1>1, <1>3, <2>1
<1>8. /\ \A v \in Variants : Board(v)' = Board(v)
      /\ Board("public")' = Board("public") /\ \A x : Moving(x)' <=> Moving(x)
  BY <1>1, BoardStays
<1>9. BoardTypes'
  BY <1>1, <1>6, <1>7 DEF BoardInv, BoardTypes
<1>10. CacheFits'
  BY <1>1, <1>8 DEF BoardInv, CacheFits, SameBoard
<1>11. BoardsFit'
  <2>1. \A b, e : Computed(b, e)' <=> Computed(b, e)
    BY <1>1, <1>8 DEF Computed, SameBoard
  <2>2. Computed(bdRoom'.board, bdRoom'.event)
    BY <1>3, <1>6 DEF BoardInv, BoardsFit
  <2>3. \A x \in bdTasks' : x.board # Unread => Computed(x.board, x.event)
    BY <1>1 DEF BoardInv, BoardsFit
  <2>4. bdHeld' # NoBoard => SameBoard(bdHeld', bdRoom'.board)
    BY <1>1, <1>a
  <2>5. shown = bdClock => SameBoard(bdRoom'.board, Board("public"))
    <3>1. t.board.at = bdClock => SameBoard(t.board, Board("public"))
      BY <1>3 DEF Computed
    <3>2. bdRoom.shown = bdClock => SameBoard(bdRoom.board, Board("public"))
      BY DEF BoardInv, BoardsFit
    <3>3. same \/ ~ same
      OBVIOUS
    <3> QED
      BY <1>5, <1>6, <1>a, <3>1, <3>2, <3>3 DEF SameBoard
  <2> QED
    BY <1>1, <1>5, <1>6, <1>8, <2>1, <2>2, <2>3, <2>4, <2>5 DEF BoardsFit, SameBoard
<1>12. LatestIsCurrent'
  <2>1. Outstanding => Outstanding'
    BY <1>1, <1>8 DEF Outstanding
  <2>2. ASSUME NEW k \in Int, Latest(k)' PROVE Latest(k)
    <3>1. newest <= k
      BY <1>6, <2>2 DEF Latest
    <3>2. bdRoom.newest <= k /\ t.board.at <= k
      BY <1>3, <1>4, <3>1
    <3> QED
      BY <1>1, <2>2, <3>2 DEF Latest
  <2>3. \A x \in bdTasks : x.board.at \in Int
    BY DEF BoardInv, BoardTypes, BoardTasks, Boards
  <2>4. ~ Outstanding /\ Latest(shown) => SameBoard(bdRoom'.board, Board("public"))
    BY <1>1, <1>5, <1>6, <1>a DEF BoardInv, LatestIsCurrent, SameBoard
  <2>5. ~ Outstanding => \A x \in bdTasks' : x.board # Unread /\ Latest(x.board.at)
                                           => SameBoard(x.board, Board("public"))
    BY <1>1 DEF BoardInv, LatestIsCurrent
  <2>6. \A x \in bdTasks' : x \in bdTasks
    BY <1>1
  <2> QED
    BY <1>6, <1>8, <2>1, <2>2, <2>3, <2>4, <2>5, <2>6 DEF LatestIsCurrent, SameBoard
<1> QED
  BY <1>9, <1>10, <1>11, <1>12 DEF BoardInv

(* The cached boards: read, stored, expired.                               *)
LEMMA CacheSteps ==
  ASSUME BoardInv,
         \/ \E v \in Variants : ReadMiss(v) \/ CacheExpires(v)
         \/ \E r \in bdReads : StoreCache(r)
  PROVE  BoardInv'
<1>1. UNCHANGED <<bdRows, bdClock, bdFrozen, bdEvents, bdTasks, bdRoom, bdHeld>>
  BY DEF ReadMiss, CacheExpires, StoreCache
<1>2. /\ bdReads' \subseteq BoardReads /\ bdCache' \in [Variants -> SUBSET BoardReads]
      /\ CacheFits'
  <2>1. \A v \in Variants : Board(v)' = Board(v)
    BY <1>1, BoardStays
  <2>2. ASSUME NEW v \in Variants, ReadMiss(v)
        PROVE  /\ bdReads' \subseteq BoardReads /\ bdCache' \in [Variants -> SUBSET BoardReads]
               /\ CacheFits'
    <3>1. PICK r : r = [variant |-> v, frozen |-> Board(v).frozen, lines |-> Board(v).lines, raced |-> FALSE]
      OBVIOUS
    <3>2. bdReads' = {r} /\ bdCache' = bdCache
      BY <2>2, <3>1 DEF ReadMiss
    <3>3. Board(v) \in Boards
      BY BoardIsTyped DEF BoardInv
    <3>4. r \in BoardReads /\ r.variant = v /\ SameBoard(r, Board(v))
      BY <3>1, <3>3 DEF BoardReads, Boards, SameBoard
    <3> QED
      BY <1>1, <2>1, <3>2, <3>4 DEF BoardInv, BoardTypes, CacheFits, SameBoard
  <2>3. ASSUME NEW v \in Variants, CacheExpires(v)
        PROVE  /\ bdReads' \subseteq BoardReads /\ bdCache' \in [Variants -> SUBSET BoardReads]
               /\ CacheFits'
    <3>1. bdCache' = [bdCache EXCEPT ![v] = {}] /\ bdReads' = bdReads
      BY <2>3 DEF CacheExpires
    <3>2. bdCache' \in [Variants -> SUBSET BoardReads] /\ \A x \in Variants : bdCache'[x] \subseteq bdCache[x]
      BY <3>1 DEF BoardInv, BoardTypes
    <3> QED
      BY <1>1, <2>1, <3>1, <3>2 DEF BoardInv, BoardTypes, CacheFits, SameBoard
  <2>4. ASSUME NEW r \in bdReads, StoreCache(r)
        PROVE  /\ bdReads' \subseteq BoardReads /\ bdCache' \in [Variants -> SUBSET BoardReads]
               /\ CacheFits'
    <3>1. bdReads' = bdReads \ {r} /\ bdCache' = [bdCache EXCEPT ![r.variant] = {r}]
      BY <2>4 DEF StoreCache
    <3>2. r \in BoardReads /\ r.variant \in Variants
      BY DEF BoardInv, BoardTypes, BoardReads
    <3>3. /\ bdCache' \in [Variants -> SUBSET BoardReads]
          /\ \A x \in Variants : bdCache'[x] = IF x = r.variant THEN {r} ELSE bdCache[x]
      BY <3>1, <3>2 DEF BoardInv, BoardTypes
    <3> QED
      BY <1>1, <2>1, <3>1, <3>2, <3>3 DEF BoardInv, BoardTypes, CacheFits, SameBoard
  <2> QED
    BY <2>2, <2>3, <2>4
<1>3. BoardTypes'
  BY <1>1, <1>2 DEF BoardInv, BoardTypes
<1>4. Board("public")' = Board("public") /\ \A x : Moving(x)' <=> Moving(x)
  BY <1>1, BoardStays
<1>5. BoardsFit'
  BY <1>1, <1>4 DEF BoardInv, BoardsFit, Computed, SameBoard
<1>6. LatestIsCurrent'
  BY <1>1, <1>4 DEF BoardInv, LatestIsCurrent, Latest, Outstanding, SameBoard
<1> QED
  BY <1>2, <1>3, <1>5, <1>6 DEF BoardInv

LEMMA BoardStep == BoardInv /\ [LiveBoardNext]_bdVars => BoardInv'
<1> SUFFICES ASSUME BoardInv, [LiveBoardNext]_bdVars PROVE BoardInv'
  OBVIOUS
<1>1. CASE UNCHANGED bdVars
  <2>1. UNCHANGED <<bdRows, bdClock, bdFrozen, bdEvents, bdTasks, bdReads, bdCache, bdRoom, bdHeld>>
    BY <1>1 DEF bdVars
  <2>2. BoardTypes'
    BY <2>1 DEF BoardInv, BoardTypes
  <2>3. /\ \A v \in Variants : Board(v)' = Board(v)
        /\ Board("public")' = Board("public") /\ \A x : Moving(x)' <=> Moving(x)
    BY <2>1, BoardStays
  <2>4. CacheFits' /\ BoardsFit'
    BY <2>1, <2>3 DEF BoardInv, CacheFits, BoardsFit, Computed, SameBoard
  <2>5. LatestIsCurrent'
    BY <2>1, <2>3 DEF BoardInv, LatestIsCurrent, Latest, Outstanding, SameBoard
  <2> QED
    BY <2>2, <2>4, <2>5 DEF BoardInv
<1> QED
  BY <1>1, BoardChanges, EmitStep, ComputeStep, BroadcastStep, CacheSteps DEF LiveBoardNext

(* What the invariant says of the scoreboard.                              *)
LEMMA BoardKept ==
  BoardInv => /\ LiveBoardTypeOK /\ CacheCurrentUnlessRaced
              /\ FrozenRoomIsSilent /\ RoomConvergesUnlessOvertaken
<1> SUFFICES ASSUME BoardInv
             PROVE  /\ LiveBoardTypeOK /\ CacheCurrentUnlessRaced
                    /\ FrozenRoomIsSilent /\ RoomConvergesUnlessOvertaken
  OBVIOUS
<1>1. LiveBoardTypeOK
  <2>1. bdRows \subseteq [subject : Subjects, kind : {m.kind : m \in Moves},
                          pts : {m.pts : m \in Moves}, at : 0 .. bdClock]
    <3> SUFFICES ASSUME NEW r \in bdRows
                 PROVE  r \in [subject : Subjects, kind : {m.kind : m \in Moves},
                               pts : {m.pts : m \in Moves}, at : 0 .. bdClock]
      OBVIOUS
    <3>1. r \in BoardRows /\ r.at < bdClock /\ bdClock \in Nat
      BY DEF BoardInv, BoardTypes
    <3>2. r.at \in 0 .. bdClock
      BY <3>1 DEF BoardRows
    <3> QED
      BY <3>1, <3>2 DEF BoardRows, Kinds
  <2>2. bdFrozen \in 0 .. bdClock
    BY DEF BoardInv, BoardTypes
  <2>3. bdRoom.board.at <= bdClock /\ bdHeld.at <= bdClock /\ (bdHeld # NoBoard => bdHeld.frozen # 0)
    BY DEF BoardInv, BoardTypes, BoardsFit, Computed
  <2> QED
    BY <2>1, <2>2, <2>3 DEF LiveBoardTypeOK
<1>2. CacheCurrentUnlessRaced
  BY DEF BoardInv, CacheFits, CacheCurrentUnlessRaced
<1>3. FrozenRoomIsSilent
  <2>1. /\ Computed(bdRoom.board, bdRoom.event) /\ bdRoom.board.at \in Int
        /\ bdRoom.event.at \in Nat /\ bdFrozen \in Nat
    BY DEF BoardInv, BoardTypes, BoardsFit, Boards, BoardEvents
  <2> QED
    BY <2>1 DEF Computed, FrozenRoomIsSilent
<1>4. RoomConvergesUnlessOvertaken
  <2> SUFFICES ASSUME Idle, bdRoom.shown = bdRoom.newest
               PROVE  SameBoard(bdRoom.board, Board("public"))
    BY DEF RoomConvergesUnlessOvertaken
  <2>1. ~ Outstanding
    BY DEF Idle, Outstanding
  <2>2. Latest(bdRoom.shown)
    BY DEF Idle, Latest, BoardInv, BoardTypes
  <2> QED
    BY <2>1, <2>2 DEF BoardInv, LatestIsCurrent
<1> QED
  BY <1>1, <1>2, <1>3, <1>4

(***************************************************************************)
(* The coalescer.                                                          *)
(***************************************************************************)

Sends == [value : Nat \ {0}, edge : {"leading", "trailing"}, saw : Nat \ {0}]
Trailing == \E s \in coSends : s.edge = "trailing"

(* A key that is tracked has a window, or a trailing send that will arm    *)
(* one or stop the tracking.                                               *)
TrackedIsOpen == coTracked => coTimers > 0 \/ Trailing

(* The last event was told, missed by a send that found nobody, is being   *)
(* sent, or is held for a window that is or will be there.                 *)
LastIsUnderWay ==
    \/ coHits \in {coTold, coMissed}
    \/ \E s \in coSends : s.saw = coHits
    \/ coPending = coHits /\ (coTimers > 0 \/ Trailing)

CoalTypes ==
    /\ coHits \in 0 .. MaxHits /\ coPending \in Nat /\ coPending <= coHits
    /\ coTimers \in Nat /\ coTracked \in BOOLEAN /\ coAudience \in BOOLEAN
    /\ coSends \subseteq Sends /\ \A s \in coSends : s.value <= coHits /\ s.saw <= coHits
    /\ coTold \in Nat /\ coTold <= coHits /\ coMissed \in Nat /\ coMissed <= coHits

CoalInv == CoalTypes /\ TrackedIsOpen /\ LastIsUnderWay

LEMMA CoalStart == CoalescerInit => CoalInv
<1> SUFFICES ASSUME CoalescerInit PROVE CoalInv
  OBVIOUS
<1>1. /\ coHits = 0 /\ coPending = 0 /\ coTimers = 0 /\ coSends = {} /\ coTold = 0 /\ coMissed = 0
      /\ coTracked = FALSE /\ coAudience \in BOOLEAN
  BY DEF CoalescerInit
<1>2. MaxHits \in Nat
  BY CoalescerAssumption
<1>3. CoalTypes
  <2>1. coHits \in 0 .. MaxHits
    BY <1>1, <1>2
  <2>2. coTracked \in BOOLEAN
    BY <1>1
  <2> QED
    BY <1>1, <2>1, <2>2 DEF CoalTypes
<1> QED
  BY <1>1, <1>3 DEF CoalInv, TrackedIsOpen, LastIsUnderWay

LEMMA CoalStep == CoalInv /\ [CoalescerNext]_coVars => CoalInv'
<1> SUFFICES ASSUME CoalInv, [CoalescerNext]_coVars PROVE CoalInv'
  OBVIOUS
<1> USE CoalescerAssumption
<1>0. /\ coHits \in Nat /\ coPending \in Nat /\ coTimers \in Nat /\ coTold \in Nat /\ coMissed \in Nat
      /\ coHits <= MaxHits /\ MaxHits \in Nat /\ coTold <= coHits /\ coPending <= coHits
      /\ \A s \in coSends : /\ s \in Sends /\ s.value \in Nat \ {0} /\ s.saw \in Nat \ {0}
                            /\ s.value <= coHits /\ s.saw <= coHits
  BY DEF CoalInv, CoalTypes, Sends
<1>1. CASE Hit
  <2>1. /\ coHits < MaxHits /\ coHits' = coHits + 1
        /\ UNCHANGED <<coTracked, coTimers, coAudience, coFlips, coTold, coMissed>>
    BY <1>1 DEF Hit
  <2>2. coHits' \in 0 .. MaxHits /\ coHits <= coHits' /\ coHits' \in Nat \ {0}
    BY <1>0, <2>1
  <2>3. CASE coTracked
    <3>1. coPending' = coHits' /\ coSends' = coSends
      BY <1>1, <2>1, <2>3 DEF Hit
    <3>2. CoalTypes'
      BY <1>0, <2>1, <2>2, <3>1 DEF CoalInv, CoalTypes
    <3>3. TrackedIsOpen'
      BY <2>1, <3>1 DEF CoalInv, TrackedIsOpen, Trailing
    <3>4. LastIsUnderWay'
      BY <2>1, <2>3, <3>1 DEF CoalInv, TrackedIsOpen, LastIsUnderWay, Trailing
    <3> QED
      BY <3>2, <3>3, <3>4 DEF CoalInv
  <2>4. CASE ~ coTracked
    <3>1. PICK s : s = [value |-> coHits', edge |-> "leading", saw |-> coHits']
      OBVIOUS
    <3>2. coSends' = coSends \cup {s} /\ coPending' = coPending
      BY <1>1, <2>1, <2>4, <3>1 DEF Hit
    <3>3. s \in Sends /\ s.value = coHits' /\ s.saw = coHits'
      BY <2>2, <3>1 DEF Sends
    <3>4. CoalTypes'
      BY <1>0, <2>1, <2>2, <3>2, <3>3 DEF CoalInv, CoalTypes
    <3>5. TrackedIsOpen'
      BY <2>1, <2>4 DEF TrackedIsOpen
    <3>6. LastIsUnderWay'
      BY <3>2, <3>3 DEF LastIsUnderWay
    <3> QED
      BY <3>4, <3>5, <3>6 DEF CoalInv
  <2> QED
    BY <2>3, <2>4
<1>2. CASE Close
  <2>1. /\ coTimers > 0 /\ coTimers' = coTimers - 1 /\ coPending' = 0
        /\ UNCHANGED <<coHits, coAudience, coFlips, coTold, coMissed>>
    BY <1>2 DEF Close
  <2>2. CASE coPending = 0
    <3>1. coTracked' = FALSE /\ coSends' = coSends
      BY <1>2, <2>2 DEF Close
    <3>2. CoalTypes'
      <4>1. coTracked' \in BOOLEAN
        BY <3>1
      <4>2. coTimers' \in Nat
        BY <1>0, <2>1
      <4> QED
        BY <2>1, <3>1, <4>1, <4>2 DEF CoalInv, CoalTypes
    <3>3. LastIsUnderWay'
      BY <1>0, <2>1, <2>2, <3>1 DEF CoalInv, LastIsUnderWay
    <3> QED
      BY <3>1, <3>2, <3>3 DEF CoalInv, TrackedIsOpen
  <2>3. CASE coPending # 0
    <3>1. PICK s : s = [value |-> coPending, edge |-> "trailing", saw |-> coHits]
      OBVIOUS
    <3>2. coSends' = coSends \cup {s} /\ coTracked' = coTracked
      BY <1>2, <2>3, <3>1 DEF Close
    <3>3. s \in Sends /\ s.value = coPending /\ s.saw = coHits /\ s.edge = "trailing"
      BY <1>0, <2>3, <3>1 DEF Sends
    <3>4. CoalTypes'
      BY <1>0, <2>1, <3>2, <3>3 DEF CoalInv, CoalTypes
    <3>5. TrackedIsOpen' /\ LastIsUnderWay'
      BY <2>1, <3>2, <3>3 DEF TrackedIsOpen, LastIsUnderWay, Trailing
    <3> QED
      BY <3>4, <3>5 DEF CoalInv
  <2> QED
    BY <2>2, <2>3
<1>3. ASSUME NEW s \in coSends, Delivered(s) PROVE CoalInv'
  <2>1. /\ coSends' = coSends \ {s} /\ coTold' = Larger(coTold, s.saw)
        /\ coTracked' = (coTracked \/ s.edge = "leading") /\ coTimers' = coTimers + 1
        /\ UNCHANGED <<coHits, coPending, coAudience, coFlips, coMissed>>
    BY <1>3 DEF Delivered
  <2>2. /\ coTold' \in Nat /\ coTold' <= coHits
        /\ s.saw = coHits \/ coTold = coHits => coTold' = coHits
    BY <1>0, <2>1 DEF Larger
  <2>3. CoalTypes'
    BY <1>0, <2>1, <2>2 DEF CoalInv, CoalTypes
  <2>4. TrackedIsOpen'
    BY <1>0, <2>1 DEF TrackedIsOpen
  <2>5. LastIsUnderWay'
    BY <1>0, <2>1, <2>2 DEF CoalInv, LastIsUnderWay
  <2> QED
    BY <2>3, <2>4, <2>5 DEF CoalInv
<1>4. ASSUME NEW s \in coSends, Undelivered(s) PROVE CoalInv'
  <2>1. /\ coSends' = coSends \ {s} /\ coTracked' = (coTracked /\ s.edge = "leading")
        /\ coMissed' = coHits
        /\ UNCHANGED <<coHits, coPending, coTimers, coAudience, coFlips, coTold>>
    BY <1>4 DEF Undelivered
  <2>2. CoalTypes'
    BY <1>0, <2>1 DEF CoalInv, CoalTypes
  <2>3. TrackedIsOpen'
    BY <2>1 DEF CoalInv, TrackedIsOpen, Trailing
  <2>4. LastIsUnderWay'
    BY <2>1 DEF LastIsUnderWay
  <2> QED
    BY <2>2, <2>3, <2>4 DEF CoalInv
<1>5. CASE AudienceFlips
  BY <1>5 DEF AudienceFlips, CoalInv, CoalTypes, TrackedIsOpen, LastIsUnderWay, Trailing
<1>6. CASE UNCHANGED coVars
  BY <1>6 DEF coVars, CoalInv, CoalTypes, TrackedIsOpen, LastIsUnderWay, Trailing
<1> QED
  BY <1>1, <1>2, <1>3, <1>4, <1>5, <1>6 DEF CoalescerNext

LEMMA CoalKept == CoalInv => CoalescerTypeOK /\ LastValueReaches
<1> SUFFICES ASSUME CoalInv PROVE CoalescerTypeOK /\ LastValueReaches
  OBVIOUS
<1>1. CoalescerTypeOK
  <2>1. coSends \subseteq [value : 1 .. coHits, edge : {"leading", "trailing"}, saw : 1 .. coHits]
    <3> SUFFICES ASSUME NEW s \in coSends
                 PROVE  s \in [value : 1 .. coHits, edge : {"leading", "trailing"}, saw : 1 .. coHits]
      OBVIOUS
    <3>1. s \in Sends /\ s.value <= coHits /\ s.saw <= coHits /\ coHits \in Nat
      BY DEF CoalInv, CoalTypes
    <3>2. s.value \in 1 .. coHits /\ s.saw \in 1 .. coHits
      BY <3>1 DEF Sends
    <3> QED
      BY <3>1, <3>2 DEF Sends
  <2> QED
    BY <2>1 DEF CoalInv, CoalTypes, CoalescerTypeOK
<1>2. LastValueReaches
  BY DEF CoalInv, CoalTypes, LastIsUnderWay, Trailing, LastValueReaches
<1> QED
  BY <1>1, <1>2

(***************************************************************************)
(* Hints.                                                                  *)
(***************************************************************************)

(* What a request of the hint may look like.                               *)
HintReqs ==
    {IdleHintReq} \cup [pc : {"reveal"}, team : HintTeams, cost : Costs \cup {0}]
        \cup [pc : {"publish", "tell"}] \cup [pc : {"refresh"}, was : BOOLEAN]
        \cup [pc : {"update"}, was : BOOLEAN, price : Costs, hide : BOOLEAN, cost : Costs]

(* Types, the kinds of the requests included; the rows are counted.        *)
HintsTypes ==
    /\ hnHint \in [here : BOOLEAN, hidden : BOOLEAN, cost : Costs]
    /\ hnReveals \subseteq [team : HintTeams, cost : Costs \cup {0}, n : 1 .. MaxReveals]
    /\ IsFiniteSet(hnReveals)
    /\ ~ hnHint.here => hnReveals = {}
    /\ hnReq \in [HintRequests -> HintReqs]
    /\ {hnUntold, hnTogether} \subseteq BOOLEAN

(* A request about to charge a team, or the row that did: at most one of   *)
(* either, unless two were decided together.                               *)
OneCharge ==
    ~ hnTogether => \A t \in HintTeams :
        /\ \A r, s \in Paid(t) : r = s
        /\ \A q \in HintRequests : hnReq[q].pc = "reveal" /\ hnReq[q].team = t =>
             /\ Paid(t) = {}
             /\ \A p \in HintRequests \ {q} : ~ (hnReq[p].pc = "reveal" /\ hnReq[p].team = t)

(* Somebody will still tell of a hint that is shown and untold.            *)
TellerUnderWay ==
    hnUntold /\ hnHint.here /\ ~ hnHint.hidden =>
        \E q \in HintRequests : hnReq[q].pc = "tell" \/ (hnReq[q].pc = "refresh" /\ hnReq[q].was)

HintsInv == HintsTypes /\ OneCharge /\ TellerUnderWay

(* A set in which any two elements are equal has at most one.              *)
LEMMA AtMostOne ==
  ASSUME NEW S, \A x, y \in S : x = y
  PROVE  Cardinality(S) <= 1
<1>1. CASE S = {}
  BY <1>1, FS_EmptySet
<1>2. CASE S # {}
  <2>1. PICK x \in S : TRUE
    BY <1>2
  <2>2. S = {x}
    BY <2>1
  <2> QED
    BY <2>2, FS_Singleton
<1> QED
  BY <1>1, <1>2

(* The hint starts well.                                                   *)
LEMMA HintsStart ==
  ASSUME HintsInit
  PROVE  HintsInv
<1> USE HintsAssumption
<1>1. HintsTypes
  BY FS_EmptySet DEF HintsInit, HintsTypes, HintReqs, IdleHintReq
<1>2. OneCharge /\ TellerUnderWay
  BY DEF HintsInit, OneCharge, TellerUnderWay, Paid, IdleHintReq
<1> QED
  BY <1>1, <1>2 DEF HintsInv

(* A reveal or release is decided.                                         *)
LEMMA HintDecided ==
  ASSUME HintsInv, NEW q \in HintRequests, NEW t \in HintTeams, NEW c \in Costs \cup {0},
         hnReq[q].pc = "idle", Paid(t) = {},
         NextReq(q, [pc |-> "reveal", team |-> t, cost |-> c]),
         hnTogether' = (hnTogether \/ UnderWay(t)),
         UNCHANGED <<hnHint, hnReveals, hnUntold>>
  PROVE  HintsInv'
<1> USE DEF HintsInv, NextReq
<1>1. HintsTypes'
  BY DEF HintsTypes, HintReqs
<1>2. \A p \in HintRequests : p # q => hnReq'[p] = hnReq[p]
  BY DEF HintsTypes
<1>3. hnReq'[q] = [pc |-> "reveal", team |-> t, cost |-> c]
  BY DEF HintsTypes
<1>4. OneCharge'
  <2> SUFFICES ASSUME ~ hnTogether', NEW u \in HintTeams
               PROVE  /\ \A r, s \in Paid(u)' : r = s
                      /\ \A x \in HintRequests : hnReq'[x].pc = "reveal" /\ hnReq'[x].team = u =>
                           /\ Paid(u)' = {}
                           /\ \A p \in HintRequests \ {x} : ~ (hnReq'[p].pc = "reveal" /\ hnReq'[p].team = u)
    BY DEF OneCharge
  <2>1. ~ hnTogether /\ ~ UnderWay(t)
    BY DEF HintsTypes
  <2>2. Paid(u)' = Paid(u)
    BY DEF Paid
  <2> QED
    BY <1>2, <1>3, <2>1, <2>2 DEF OneCharge, UnderWay
<1>5. TellerUnderWay'
  BY <1>2 DEF TellerUnderWay
<1> QED
  BY <1>1, <1>4, <1>5

(* A request goes on that neither charged nor is about to; whether the     *)
(* hint's teller stays is its own business.                                *)
LEMMA HintGoesOn ==
  ASSUME HintsInv, NEW q \in HintRequests, NEW r \in HintReqs,
         NextReq(q, r), hnReq[q].pc # "reveal", r.pc # "reveal",
         hnHint' \in [here : BOOLEAN, hidden : BOOLEAN, cost : Costs],
         hnHint'.here = hnHint.here, hnUntold' \in BOOLEAN,
         UNCHANGED <<hnReveals, hnTogether>>, TellerUnderWay'
  PROVE  HintsInv'
<1> USE DEF HintsInv, NextReq
<1>1. HintsTypes'
  BY DEF HintsTypes
<1>2. \A p \in HintRequests : hnReq'[p] = IF p = q THEN r ELSE hnReq[p]
  BY DEF HintsTypes
<1>3. OneCharge'
  BY <1>2 DEF OneCharge, Paid
<1> QED
  BY <1>1, <1>3

(* The row of a reveal is inserted.                                        *)
LEMMA HintCharged ==
  ASSUME HintsInv, NEW q \in HintRequests, RevealCommit(q)
  PROVE  HintsInv'
<1> USE DEF HintsInv, NextReq
<1> DEFINE row == [team |-> hnReq[q].team, cost |-> hnReq[q].cost, n |-> Cardinality(hnReveals) + 1]
<1>1. /\ hnReq[q].pc = "reveal" /\ hnReq[q].team \in HintTeams /\ hnReq[q].cost \in Costs \cup {0}
  BY DEF RevealCommit, HintsTypes, HintReqs, IdleHintReq
<1>2. Cardinality(hnReveals) \in Nat
  BY FS_CardinalityType DEF HintsTypes
<1>3. row \in [team : HintTeams, cost : Costs \cup {0}, n : 1 .. MaxReveals]
  BY <1>1, <1>2, HintsAssumption DEF RevealCommit
<1>4. IsFiniteSet(hnReveals')
  BY FS_AddElement DEF RevealCommit, HintsTypes
<1>5. hnReveals' \subseteq hnReveals \cup {row} /\ (~ hnHint.here => hnReveals' = hnReveals)
  BY DEF RevealCommit
<1>6. HintsTypes'
  BY <1>3, <1>4, <1>5 DEF HintsTypes, RevealCommit, HintReqs
<1>7. \A p \in HintRequests : hnReq'[p] = IF p = q THEN IdleHintReq ELSE hnReq[p]
  BY DEF HintsTypes, RevealCommit
<1>8. OneCharge'
  <2> SUFFICES ASSUME ~ hnTogether, NEW u \in HintTeams
               PROVE  /\ \A r, s \in Paid(u)' : r = s
                      /\ \A x \in HintRequests : hnReq'[x].pc = "reveal" /\ hnReq'[x].team = u =>
                           /\ Paid(u)' = {}
                           /\ \A p \in HintRequests \ {x} : ~ (hnReq'[p].pc = "reveal" /\ hnReq'[p].team = u)
    BY DEF OneCharge, RevealCommit
  <2>1. CASE u = hnReq[q].team
    <3>1. Paid(u) = {} /\ \A p \in HintRequests \ {q} : ~ (hnReq[p].pc = "reveal" /\ hnReq[p].team = u)
      BY <1>1, <2>1 DEF OneCharge
    <3>2. Paid(u)' \subseteq {row}
      BY <1>5, <3>1 DEF Paid
    <3>3. \A p \in HintRequests : ~ (hnReq'[p].pc = "reveal" /\ hnReq'[p].team = u)
      BY <1>7, <3>1 DEF IdleHintReq
    <3> QED
      BY <3>2, <3>3
  <2>2. CASE u # hnReq[q].team
    <3>1. Paid(u)' = Paid(u)
      <4>1. row.team # u
        BY <2>2
      <4> QED
        BY <1>5, <4>1 DEF Paid, RevealCommit
    <3> QED
      BY <1>7, <3>1 DEF OneCharge, IdleHintReq
  <2> QED
    BY <2>1, <2>2
<1>9. TellerUnderWay'
  BY <1>1, <1>7 DEF TellerUnderWay, RevealCommit
<1> QED
  BY <1>6, <1>8, <1>9

(* Every step about the hint keeps the invariant.                          *)
LEMMA HintsStep ==
  ASSUME HintsInv, [HintsNext]_hnVars
  PROVE  HintsInv'
<1> USE HintsAssumption
<1>0. CASE UNCHANGED hnVars
  BY <1>0 DEF hnVars, HintsInv, HintsTypes, OneCharge, TellerUnderWay, Paid
<1>1. ASSUME NEW q \in HintRequests, NEW t \in HintTeams, RevealHint(q, t) \/ ReleaseHint(q, t)
      PROVE  HintsInv'
  <2>1. hnHint.cost \in Costs \cup {0} /\ 0 \in Costs \cup {0}
    BY DEF HintsInv, HintsTypes
  <2> QED
    BY <1>1, <2>1, HintDecided DEF RevealHint, ReleaseHint
<1>2. ASSUME NEW q \in HintRequests, RevealCommit(q)
      PROVE  HintsInv'
  BY <1>2, HintCharged
<1> DEFINE On(q, r) ==
      /\ NextReq(q, r) /\ r \in HintReqs /\ hnReq[q].pc # "reveal" /\ r.pc # "reveal"
      /\ hnHint' \in [here : BOOLEAN, hidden : BOOLEAN, cost : Costs]
      /\ hnHint'.here = hnHint.here /\ hnUntold' \in BOOLEAN
      /\ UNCHANGED <<hnReveals, hnTogether>>
<1>g. ASSUME NEW q \in HintRequests, NEW r, On(q, r), TellerUnderWay'
      PROVE  HintsInv'
  BY <1>g, HintGoesOn
<1>h. ASSUME NEW q \in HintRequests, NEW r, On(q, r)
      PROVE  \A p \in HintRequests : hnReq'[p] = IF p = q THEN r ELSE hnReq[p]
  BY <1>h DEF HintsInv, HintsTypes, NextReq
<1> HIDE DEF On
<1>3. ASSUME NEW q \in HintRequests, PublishRead(q)
      PROVE  HintsInv'
  <2>1. On(q, [pc |-> "publish"])
    BY <1>3 DEF On, PublishRead, HintsInv, HintsTypes, HintReqs
  <2>2. TellerUnderWay'
    BY <1>3, <1>h, <2>1 DEF PublishRead, HintsInv, TellerUnderWay
  <2> QED
    BY <1>g, <2>1, <2>2
<1>4. ASSUME NEW q \in HintRequests, PublishCommit(q)
      PROVE  HintsInv'
  <2> DEFINE r == IF hnHint.here THEN [pc |-> "tell"] ELSE IdleHintReq
  <2>1. On(q, r)
    BY <1>4 DEF On, PublishCommit, HintsInv, HintsTypes, HintReqs, IdleHintReq
  <2>h. \A p \in HintRequests : hnReq'[p] = IF p = q THEN r ELSE hnReq[p]
    BY <1>h, <2>1
  <2>2. TellerUnderWay'
    BY <1>4, <2>h DEF PublishCommit, HintsInv, HintsTypes, TellerUnderWay
  <2> QED
    BY <1>g, <2>1, <2>2
<1>5. ASSUME NEW q \in HintRequests, NEW h \in BOOLEAN, NEW c \in Costs, UpdateRead(q, h, c)
      PROVE  HintsInv'
  <2> DEFINE r == [pc |-> "update", was |-> hnHint.hidden, price |-> hnHint.cost,
                   hide |-> h, cost |-> c]
  <2>1. On(q, r)
    BY <1>5 DEF On, UpdateRead, HintsInv, HintsTypes, HintReqs
  <2>2. TellerUnderWay'
    BY <1>5, <1>h, <2>1 DEF UpdateRead, HintsInv, TellerUnderWay
  <2> QED
    BY <1>g, <2>1, <2>2
<1>6. ASSUME NEW q \in HintRequests, UpdateCommit(q)
      PROVE  HintsInv'
  <2> DEFINE u == hnReq[q]   r == IF hnHint.here THEN [pc |-> "refresh", was |-> u.was] ELSE IdleHintReq
  <2>0. u \in [pc : {"update"}, was : BOOLEAN, price : Costs, hide : BOOLEAN, cost : Costs]
    BY <1>6 DEF UpdateCommit, HintsInv, HintsTypes, HintReqs, IdleHintReq
  <2>a. NextReq(q, r) /\ hnUntold' = (hnUntold \/ (hnHint.here /\ hnHint.hidden /\ u.was /\ ~ u.hide))
    BY <1>6 DEF UpdateCommit
  <2>b. hnHint' = IF ~ hnHint.here THEN hnHint
                  ELSE [hnHint EXCEPT !.hidden = IF u.hide = u.was THEN @ ELSE u.hide,
                                      !.cost = IF u.cost = u.price THEN @ ELSE u.cost]
    BY <1>6 DEF UpdateCommit
  <2>c. hnHint \in [here : BOOLEAN, hidden : BOOLEAN, cost : Costs]
    BY DEF HintsInv, HintsTypes
  <2>1. On(q, r)
    <3>1. r \in HintReqs /\ r.pc # "reveal"
      BY <2>0 DEF HintReqs, IdleHintReq
    <3>2. hnHint' \in [here : BOOLEAN, hidden : BOOLEAN, cost : Costs] /\ hnHint'.here = hnHint.here
      BY <2>0, <2>b, <2>c
    <3> QED
      BY <1>6, <2>0, <2>a, <3>1, <3>2 DEF On, UpdateCommit, HintsInv, HintsTypes
  <2>2. TellerUnderWay'
    <3> SUFFICES ASSUME hnUntold', hnHint'.here, ~ hnHint'.hidden
                 PROVE  \E p \in HintRequests :
                          hnReq'[p].pc = "tell" \/ (hnReq'[p].pc = "refresh" /\ hnReq'[p].was)
      BY DEF TellerUnderWay
    <3>0. \A p \in HintRequests : hnReq'[p] = IF p = q THEN r ELSE hnReq[p]
      BY <1>h, <2>1
    <3>1. hnHint.here
      BY <2>b, <2>c
    <3>2. CASE ~ hnHint.hidden
      <4>1. hnUntold
        BY <2>a, <3>2
      <4> QED
        BY <2>0, <3>0, <3>1, <3>2, <4>1 DEF HintsInv, TellerUnderWay
    <3>3. CASE hnHint.hidden
      <4>1. u.was
        BY <2>0, <2>b, <2>c, <3>1, <3>3
      <4> QED
        BY <3>0, <3>1, <4>1
    <3> QED
      BY <3>2, <3>3
  <2> QED
    BY <1>g, <2>1, <2>2
<1>7. ASSUME NEW q \in HintRequests, UpdateRefresh(q)
      PROVE  HintsInv'
  <2> DEFINE r == IF hnHint.here /\ hnReq[q].was /\ ~ hnHint.hidden
                  THEN [pc |-> "tell"] ELSE IdleHintReq
  <2>1. On(q, r)
    BY <1>7 DEF On, UpdateRefresh, HintsInv, HintsTypes, HintReqs, IdleHintReq
  <2>2. TellerUnderWay'
    BY <1>7, <1>h, <2>1 DEF UpdateRefresh, HintsInv, TellerUnderWay
  <2> QED
    BY <1>g, <2>1, <2>2
<1>8. ASSUME NEW q \in HintRequests, Tell(q)
      PROVE  HintsInv'
  <2>1. On(q, IdleHintReq) /\ TellerUnderWay'
    BY <1>8 DEF On, Tell, HintsInv, HintsTypes, HintReqs, IdleHintReq, TellerUnderWay
  <2> QED
    BY <1>g, <2>1
<1>9. CASE DeleteHint
  BY <1>9, FS_EmptySet DEF DeleteHint, HintsInv, HintsTypes, OneCharge, TellerUnderWay, Paid
<1>10. CASE PauseOrEnd
  BY <1>10 DEF PauseOrEnd, HintsInv, HintsTypes, OneCharge, TellerUnderWay, Paid
<1> QED
  BY <1>0, <1>1, <1>2, <1>3, <1>4, <1>5, <1>6, <1>7, <1>8, <1>9, <1>10 DEF HintsNext

(* What the invariant says of the properties.                              *)
LEMMA HintsKept ==
  ASSUME HintsInv
  PROVE  HintsTypeOK /\ ChargedOnceUnlessTogether /\ ShownIsAnnounced
<1>1. HintsTypeOK
  BY DEF HintsInv, HintsTypes, HintReqs, IdleHintReq, HintsTypeOK
<1>2. ChargedOnceUnlessTogether
  BY AtMostOne DEF HintsInv, OneCharge, ChargedOnceUnlessTogether
<1>3. ShownIsAnnounced
  BY DEF HintsInv, HintsTypes, TellerUnderWay, ShownIsAnnounced
<1> QED
  BY <1>1, <1>2, <1>3

(***************************************************************************)
(* Joining.                                                                *)
(***************************************************************************)

RuleTexts == 0..(MaxChanges + 2)

RuleDocs == [text : RuleTexts, only : BOOLEAN]

AcceptanceRows == [who : People, doc : RuleTexts \ {0}]

Terms == [asked : RuleTexts, agreed : RuleTexts, since : SUBSET RuleTexts]

JoinReqs ==
    [pc : {"accept", "member", "reserve", "gates", "commit", "count"}, who : People,
     door : {"link", "code"}, over : RuleDocs, asked : RuleTexts, uses : Nat,
     known : BOOLEAN, new : BOOLEAN]

Joiners == {q \in JoinRequests : jnReq[q].pc # "idle"}

JoiningTypes ==
    /\ jnLink \in [cap : LinkCaps, uses : Nat, dead : BOOLEAN]
    /\ jnHolder \in JoinRequests \cup {NoHolder}
    /\ jnMembers \subseteq People /\ jnVia \subseteq People /\ IsFiniteSet(jnVia)
    /\ jnOver \in RuleDocs /\ jnSite \in RuleDocs /\ jnSince \subseteq RuleTexts \ {0}
    /\ jnStaff \subseteq People /\ jnAccepted \subseteq AcceptanceRows
    /\ jnUnder \in [People -> Terms]
    /\ jnReq \in [JoinRequests -> JoinReqs \cup {IdleJoin}]
    /\ jnEdit \in [pc : {"none", "commit"}, rows : SUBSET AcceptanceRows, doc : RuleDocs]
    /\ jnJoins \in 0..MaxJoins /\ jnChanges \in 0..MaxChanges /\ jnShifted \in BOOLEAN

(* Every use counted or still to be counted belongs to a request made.     *)
UsesCounted ==
    /\ IsFiniteSet(Joiners)
    /\ jnLink.uses + Cardinality(Joiners) <= jnJoins
    /\ \A q \in Joiners : jnReq[q].uses + Cardinality(Joiners) <= jnJoins

(* The holder of the link's row has a use left and will count it; whom a   *)
(* capped link lets in past the look holds it.                             *)
UseReserved ==
    /\ jnHolder # NoHolder => /\ jnReq[jnHolder].pc \in {"gates", "commit"}
                              /\ jnLink.cap # 0 /\ jnLink.uses < jnLink.cap
    /\ jnLink.cap # 0 =>
         /\ Cardinality(jnVia) <= jnLink.uses /\ jnLink.uses <= jnLink.cap
         /\ \A q \in JoinRequests :
              /\ jnReq[q].pc # "count"
              /\ jnReq[q].pc \in {"gates", "commit"} /\ jnReq[q].door = "link" /\ ~ jnReq[q].known
                    => jnHolder = q

(* The override a request goes by is a text in force since the competition *)
(* last got one; if it goes by none, there still is none.                  *)
GoesBy(over) == IF over.text = 0 THEN jnOver.text = 0 ELSE over.text \in jnSince

(* Unless an override was set under a request, requests and acceptances    *)
(* are of texts in force since the last one was, and whoever passed the    *)
(* gate has accepted one if it asked.                                      *)
SinceOverride ==
    /\ ~ jnShifted =>
         /\ InForce(jnOver, jnSite) \subseteq jnSince
         /\ \A q \in Joiners :
              /\ GoesBy(jnReq[q].over)
              /\ jnReq[q].pc = "commit" /\ jnReq[q].asked # 0 => RowOf(jnReq[q].who) # {}
         /\ \A a \in jnAccepted : a.doc \in jnSince
         /\ \A p \in jnMembers : jnUnder[p].asked # 0 => jnUnder[p].agreed \in jnUnder[p].since
    /\ \A p \in People \ jnMembers : jnUnder[p] = Outsider

JoiningInv == JoiningTypes /\ UsesCounted /\ UseReserved /\ SinceOverride

(* Joining starts well.                                                    *)
LEMMA JoiningStart ==
  ASSUME JoiningInit
  PROVE  JoiningInv
<1> USE JoiningAssumption
<1>1. JoiningTypes
  <2>1. jnUnder \in [People -> Terms]
    BY DEF JoiningInit, Outsider, Terms, RuleTexts
  <2>2. jnEdit \in [pc : {"none", "commit"}, rows : SUBSET AcceptanceRows, doc : RuleDocs]
    BY DEF JoiningInit, NoEdit, Blank, Doc, RuleDocs, RuleTexts
  <2>3. jnLink \in [cap : LinkCaps, uses : Nat, dead : BOOLEAN]
    BY DEF JoiningInit
  <2>4. jnReq \in [JoinRequests -> JoinReqs \cup {IdleJoin}]
    BY DEF JoiningInit, IdleJoin
  <2>5. jnOver \in RuleDocs /\ jnSite \in RuleDocs
    <3>1. \A text \in {0, 1, 2} : Doc(text, FALSE) \in RuleDocs
      BY DEF Doc, RuleDocs, RuleTexts
    <3> QED
      BY <3>1 DEF JoiningInit, Blank
  <2>6. jnVia \subseteq People /\ IsFiniteSet(jnVia) /\ jnMembers \subseteq People
        /\ jnAccepted \subseteq AcceptanceRows /\ jnStaff \subseteq People
    BY FS_EmptySet DEF JoiningInit
  <2>7. jnSince \subseteq RuleTexts \ {0} /\ jnJoins \in 0..MaxJoins /\ jnChanges \in 0..MaxChanges
    BY <2>5 DEF JoiningInit, InForce, Effective, RuleDocs
  <2>8. jnHolder \in JoinRequests \cup {NoHolder} /\ jnShifted \in BOOLEAN
    BY DEF JoiningInit
  <2> QED
    BY <2>1, <2>2, <2>3, <2>4, <2>5, <2>6, <2>7, <2>8 DEF JoiningTypes
<1>2. Joiners = {}
  BY DEF JoiningInit, Joiners, IdleJoin
<1>3. UsesCounted
  BY <1>2, FS_EmptySet DEF JoiningInit, UsesCounted
<1>4. UseReserved
  BY <1>1, FS_EmptySet DEF JoiningTypes, JoiningInit, UseReserved, IdleJoin
<1>5. SinceOverride
  BY <1>2 DEF JoiningInit, SinceOverride
<1> QED
  BY <1>1, <1>3, <1>4, <1>5 DEF JoiningInv

(* What the invariant says of the properties.                              *)
LEMMA JoiningKept ==
  ASSUME JoiningInv
  PROVE  JoiningTypeOK /\ JoiningSafe
<1> USE JoiningAssumption
<1>1. jnLink.uses <= MaxJoins
  <2>1. Cardinality(Joiners) \in Nat
    BY FS_CardinalityType DEF JoiningInv, UsesCounted
  <2> QED
    BY <2>1 DEF JoiningInv, JoiningTypes, UsesCounted
<1>2. JoiningTypeOK
  BY <1>1 DEF JoiningInv, JoiningTypes, JoiningTypeOK, RuleDocs, RuleTexts, AcceptanceRows
<1>3. Cardinality(jnVia) \in Nat
  BY FS_CardinalityType DEF JoiningInv, JoiningTypes
<1>4. CapHolds
  <2>1. jnLink.cap \in Nat /\ jnLink.uses \in Nat
    BY DEF JoiningInv, JoiningTypes
  <2> QED
    BY <1>3, <2>1 DEF JoiningInv, UseReserved, CapHolds
<1>5. AgreedUnlessShifted
  BY DEF JoiningInv, SinceOverride, AgreedUnlessShifted
<1> QED
  BY <1>2, <1>4, <1>5 DEF JoiningSafe

(* The requests under way when one begins.                                 *)
LEMMA JoinersBegin ==
  ASSUME JoiningInv, NEW q \in JoinRequests, jnReq[q].pc = "idle", NEW r \in JoinReqs,
         jnReq' = [jnReq EXCEPT ![q] = r]
  PROVE  /\ Joiners' = Joiners \cup {q} /\ IsFiniteSet(Joiners')
         /\ Cardinality(Joiners') = Cardinality(Joiners) + 1
<1>1. Joiners' = Joiners \cup {q} /\ q \notin Joiners
  BY DEF JoiningInv, JoiningTypes, Joiners, JoinReqs
<1> QED
  BY <1>1, FS_AddElement DEF JoiningInv, UsesCounted

(* The requests under way when one ends.                                   *)
LEMMA JoinersEnd ==
  ASSUME JoiningInv, NEW q \in JoinRequests, jnReq[q].pc # "idle", JoinEnds(q)
  PROVE  /\ Joiners' = Joiners \ {q} /\ IsFiniteSet(Joiners')
         /\ Cardinality(Joiners') = Cardinality(Joiners) - 1
<1>1. Joiners' = Joiners \ {q} /\ q \in Joiners
  BY DEF JoiningInv, JoiningTypes, Joiners, JoinEnds, IdleJoin
<1> QED
  BY <1>1, FS_RemoveElement DEF JoiningInv, UsesCounted

(* A request goes on, and carries what it loaded.                          *)
LEMMA JoinersGoOn ==
  ASSUME JoiningInv, NEW q \in JoinRequests, jnReq[q].pc # "idle", NEW r \in JoinReqs,
         jnReq' = [jnReq EXCEPT ![q] = r]
  PROVE  Joiners' = Joiners
  BY DEF JoiningInv, JoiningTypes, Joiners, JoinReqs

(* The requests stand still.                                               *)
LEMMA JoinersStand ==
  ASSUME UNCHANGED jnReq
  PROVE  Joiners' = Joiners
  BY DEF Joiners

(* A request under way is one of its records.                              *)
LEMMA JoinerIs ==
  ASSUME JoiningInv, NEW q \in JoinRequests, jnReq[q].pc # "idle"
  PROVE  jnReq[q] \in JoinReqs
  BY DEF JoiningInv, JoiningTypes, IdleJoin

(* join_via_invite_link and its like keep the invariant.                   *)
LEMMA JoinBeginsStep ==
  ASSUME JoiningInv, NEW q \in JoinRequests, NEW p \in People,
         NEW door \in {"link", "code"}, NEW a \in BOOLEAN, JoinBegins(q, p, door, a)
  PROVE  JoiningInv'
<1> USE JoiningAssumption DEF JoiningInv, JoinBegins, Organised, Ruled, Admitted
<1> DEFINE r == [pc |-> IF a THEN "accept" ELSE PastRules(door), who |-> p, door |-> door,
                 over |-> jnOver, asked |-> 0, uses |-> jnLink.uses, known |-> FALSE, new |-> FALSE]
<1>1. r \in JoinReqs /\ jnReq' = [jnReq EXCEPT ![q] = r]
  BY DEF JoiningTypes, JoinReqs, PastRules, RuleTexts
<1>2. \A x \in JoinRequests : jnReq'[x] = IF x = q THEN r ELSE jnReq[x]
  BY <1>1 DEF JoiningTypes
<1>3. /\ Joiners' = Joiners \cup {q} /\ IsFiniteSet(Joiners')
      /\ Cardinality(Joiners') = Cardinality(Joiners) + 1
  BY <1>1, JoinersBegin
<1>4. JoiningTypes'
  BY <1>1, <1>2 DEF JoiningTypes
<1>5. UsesCounted'
  <2>1. Cardinality(Joiners) \in Nat
    BY FS_CardinalityType DEF UsesCounted
  <2>2. r.uses = jnLink.uses
    OBVIOUS
  <2>3. \A x \in Joiners : x # q /\ x \in JoinRequests
    BY DEF Joiners
  <2>4. \A x \in Joiners : jnReq[x].uses \in Nat
    BY JoinerIs DEF Joiners, JoinReqs
  <2>5. jnJoins \in Nat /\ jnLink.uses \in Nat /\ jnJoins' = jnJoins + 1 /\ jnLink' = jnLink
    BY DEF JoiningTypes
  <2>6. \A x \in Joiners' : jnReq'[x].uses + Cardinality(Joiners') <= jnJoins'
    <3> SUFFICES ASSUME NEW x \in Joiners'
                 PROVE  jnReq'[x].uses + Cardinality(Joiners') <= jnJoins'
      OBVIOUS
    <3>1. CASE x = q
      BY <1>2, <1>3, <2>1, <2>2, <2>5, <3>1 DEF UsesCounted
    <3>2. CASE x # q
      <4>1. x \in Joiners /\ jnReq'[x] = jnReq[x]
        BY <1>2, <1>3, <2>3, <3>2
      <4> QED
        BY <1>3, <2>1, <2>4, <2>5, <4>1 DEF UsesCounted
    <3> QED
      BY <3>1, <3>2
  <2>7. jnLink'.uses + Cardinality(Joiners') <= jnJoins'
    BY <1>3, <2>1, <2>5 DEF UsesCounted
  <2> QED
    BY <1>3, <2>6, <2>7 DEF UsesCounted
<1>6. UseReserved'
  <2>1. r.pc # "count" /\ ~ (r.pc \in {"gates", "commit"} /\ r.door = "link")
    BY DEF PastRules
  <2> QED
    BY <1>2, <2>1 DEF UseReserved, JoiningTypes
<1>7. SinceOverride'
  <2>1. \A x \in Joiners : x # q /\ x \in JoinRequests
    BY DEF Joiners
  <2>2. r.over = jnOver /\ r.pc # "commit"
    BY DEF PastRules
  <2>3. ~ jnShifted => GoesBy(jnOver)
    BY DEF SinceOverride, GoesBy, InForce, Effective
  <2> QED
    BY <1>2, <1>3, <2>1, <2>2, <2>3 DEF SinceOverride, RowOf, Ruled, GoesBy
<1> QED
  BY <1>4, <1>5, <1>6, <1>7

(* Members and what they agreed to, as far as the types and the texts go.  *)
MembersFit ==
    /\ jnMembers \subseteq People /\ jnVia \subseteq People /\ IsFiniteSet(jnVia)
    /\ jnUnder \in [People -> Terms]
    /\ ~ jnShifted =>
         \A p \in jnMembers : jnUnder[p].asked # 0 => jnUnder[p].agreed \in jnUnder[p].since
    /\ \A p \in People \ jnMembers : jnUnder[p] = Outsider

(* They fit, and still do where nobody is admitted.                        *)
LEMMA MembersStand ==
  ASSUME JoiningInv, Admitted, jnShifted' = FALSE => ~ jnShifted
  PROVE  MembersFit'
  BY DEF JoiningInv, JoiningTypes, SinceOverride, Admitted, MembersFit

(* A request that is under way goes on.                                    *)
LEMMA JoinMoves ==
  ASSUME JoiningInv, NEW q \in JoinRequests, NEW r \in JoinReqs,
         jnReq[q].pc \notin {"idle", "count"}, jnReq' = [jnReq EXCEPT ![q] = r],
         r.who = jnReq[q].who, r.over = jnReq[q].over, r.uses = jnReq[q].uses,
         UNCHANGED <<jnLink, jnAccepted>>, Organised, Counted, MembersFit',
         UseReserved', jnHolder' \in JoinRequests \cup {NoHolder},
         r.pc = "commit" /\ r.asked # 0 => RowOf(r.who) # {}
  PROVE  JoiningInv'
<1> USE DEF JoiningInv, Organised, Ruled, MembersFit, Counted
<1>1. Joiners' = Joiners
  BY JoinersGoOn
<1>2. \A x \in JoinRequests : jnReq'[x] = IF x = q THEN r ELSE jnReq[x]
  BY DEF JoiningTypes
<1>3. JoiningTypes'
  BY <1>2 DEF JoiningTypes
<1>4. UsesCounted'
  <2>1. \A x \in Joiners : x \in JoinRequests /\ jnReq'[x].uses = jnReq[x].uses
    BY <1>2 DEF Joiners
  <2> QED
    BY <1>1, <2>1 DEF UsesCounted
<1>5. SinceOverride'
  BY <1>1, <1>2 DEF SinceOverride, Joiners, RowOf, GoesBy
<1> QED
  BY <1>3, <1>4, <1>5

(* A request is over.                                                      *)
LEMMA JoinIsOver ==
  ASSUME JoiningInv, NEW q \in JoinRequests, jnReq[q].pc # "idle", JoinEnds(q),
         jnLink' \in [cap : LinkCaps, uses : Nat, dead : BOOLEAN],
         jnLink'.uses \in {jnLink.uses, jnLink.uses + 1, jnReq[q].uses + 1},
         UNCHANGED jnAccepted, Organised, Counted, MembersFit',
         UseReserved', jnHolder' \in JoinRequests \cup {NoHolder}
  PROVE  JoiningInv'
<1> USE DEF JoiningInv, Organised, Ruled, MembersFit, Counted
<1>1. /\ Joiners' = Joiners \ {q} /\ IsFiniteSet(Joiners')
      /\ Cardinality(Joiners') = Cardinality(Joiners) - 1
  BY JoinersEnd
<1>2. \A x \in JoinRequests : jnReq'[x] = IF x = q THEN IdleJoin ELSE jnReq[x]
  BY DEF JoiningTypes, JoinEnds
<1>3. JoiningTypes'
  BY <1>2 DEF JoiningTypes, JoinEnds, IdleJoin
<1>4. UsesCounted'
  <2>1. /\ Cardinality(Joiners) \in Nat /\ jnJoins \in Nat /\ jnLink.uses \in Nat
        /\ jnJoins' = jnJoins
    BY FS_CardinalityType DEF UsesCounted, JoiningTypes
  <2>2. \A x \in Joiners : jnReq[x].uses \in Nat /\ x \in JoinRequests
    BY JoinerIs DEF Joiners, JoinReqs
  <2>3. q \in Joiners
    BY DEF Joiners
  <2>4. jnLink'.uses + Cardinality(Joiners') <= jnJoins'
    BY <1>1, <2>1, <2>2, <2>3 DEF UsesCounted
  <2>5. \A x \in Joiners' : jnReq'[x].uses + Cardinality(Joiners') <= jnJoins'
    BY <1>1, <1>2, <2>1, <2>2 DEF UsesCounted
  <2> QED
    BY <1>1, <2>4, <2>5 DEF UsesCounted
<1>5. SinceOverride'
  <2>1. \A x \in Joiners' : x \in Joiners /\ jnReq'[x] = jnReq[x]
    BY <1>1, <1>2 DEF Joiners
  <2> QED
    BY <2>1 DEF SinceOverride, RowOf, GoesBy
<1> QED
  BY <1>3, <1>4, <1>5

(* accept_rules on the way in.                                             *)
LEMMA AcceptWithJoinStep ==
  ASSUME JoiningInv, NEW q \in JoinRequests, AcceptWithJoin(q)
  PROVE  JoiningInv'
<1> DEFINE r == [jnReq[q] EXCEPT !.pc = PastRules(jnReq[q].door)]
           texts == InForce(jnReq[q].over, jnSite)
<1>1. jnReq[q] \in JoinReqs /\ jnReq[q].pc = "accept"
  BY JoinerIs DEF AcceptWithJoin, JoiningInv, JoiningTypes
<1>2. /\ r \in JoinReqs /\ r.pc = PastRules(r.door) /\ r.who = jnReq[q].who
      /\ r.over = jnReq[q].over /\ r.uses = jnReq[q].uses /\ jnReq' = [jnReq EXCEPT ![q] = r]
  BY <1>1 DEF AcceptWithJoin, JoinGoes, JoinReqs, JoiningInv, JoiningTypes, PastRules
<1>3. \A x \in JoinRequests : jnReq'[x] = IF x = q THEN r ELSE jnReq[x]
  BY <1>2 DEF JoiningInv, JoiningTypes
<1>4. Joiners' = Joiners
  BY <1>1, <1>2, JoinersGoOn
<1> HIDE DEF r
<1> USE DEF JoiningInv, AcceptWithJoin, Organised, Ruled, Counted, Admitted
<1>5. JoiningTypes'
  <2>0. texts \subseteq RuleTexts \ {0} /\ jnReq[q].who \in People
    BY <1>1 DEF JoiningTypes, JoinReqs, InForce, Effective, RuleDocs
  <2>1. jnAccepted' \subseteq AcceptanceRows
    BY <2>0 DEF JoiningTypes, Accepts, AcceptanceRows
  <2>2. jnReq' \in [JoinRequests -> JoinReqs \cup {IdleJoin}]
    BY <1>2 DEF JoiningTypes
  <2> QED
    BY <1>2, <1>3, <2>1, <2>2 DEF JoiningTypes
<1>6. UsesCounted'
  <2>1. \A x \in Joiners : x \in JoinRequests /\ jnReq'[x].uses = jnReq[x].uses
    BY <1>2, <1>3 DEF Joiners
  <2> QED
    BY <1>4, <2>1 DEF UsesCounted
<1>7. UseReserved'
  <2>1. r.pc \notin {"count"} /\ ~ (r.pc \in {"gates", "commit"} /\ r.door = "link")
    BY <1>2 DEF PastRules
  <2> QED
    BY <1>1, <1>2, <1>3, <2>1, JoiningAssumption DEF UseReserved, JoiningTypes
<1>8. SinceOverride'
  <2>1. q \in Joiners /\ Joiners \subseteq JoinRequests
    BY <1>1 DEF Joiners
  <2>0. ~ jnShifted => texts \subseteq jnSince
    BY <2>1 DEF SinceOverride, GoesBy, InForce, Effective
  <2>2. ~ jnShifted => \A a \in jnAccepted' : a.doc \in jnSince
    BY <2>0 DEF SinceOverride, Accepts
  <2>3. \A w : RowOf(w) # {} => RowOf(w)' # {}
    BY DEF RowOf, Accepts
  <2>4. r.pc # "commit"
    BY <1>2 DEF PastRules
  <2> QED
    BY <1>2, <1>3, <1>4, <2>1, <2>2, <2>3, <2>4 DEF SinceOverride, GoesBy
<1> QED
  BY <1>5, <1>6, <1>7, <1>8

(* The look at the membership.                                             *)
LEMMA LookMemberStep ==
  ASSUME JoiningInv, NEW q \in JoinRequests, LookMember(q)
  PROVE  JoiningInv'
<1> DEFINE known == jnReq[q].who \in jnMembers
           r == [jnReq[q] EXCEPT !.known = known,
                                 !.pc = IF ~ known /\ jnLink.cap # 0 THEN "reserve" ELSE "gates"]
<1>1. jnReq[q] \in JoinReqs /\ jnReq[q].pc = "member"
  BY JoinerIs DEF LookMember
<1>2. /\ r \in JoinReqs /\ r.pc \in {"reserve", "gates"} /\ r.who = jnReq[q].who
      /\ r.over = jnReq[q].over /\ r.uses = jnReq[q].uses
      /\ r.pc = "gates" /\ ~ r.known => jnLink.cap = 0
  <2>1. known \in BOOLEAN
    OBVIOUS
  <2> HIDE DEF known
  <2> DEFINE pc == IF ~ known /\ jnLink.cap # 0 THEN "reserve" ELSE "gates"
  <2>2. pc \in {"reserve", "gates"}
    OBVIOUS
  <2>3. pc = "gates" /\ ~ known => jnLink.cap = 0
    OBVIOUS
  <2> HIDE DEF pc
  <2>4. r = [jnReq[q] EXCEPT !.known = known, !.pc = pc]
    BY DEF pc
  <2> HIDE DEF r
  <2> QED
    BY <1>1, <2>1, <2>2, <2>3, <2>4 DEF JoinReqs
<1>3. jnReq' = [jnReq EXCEPT ![q] = r]
  BY <1>1 DEF LookMember, JoiningInv, JoiningTypes
<1>4. \A x \in JoinRequests : jnReq'[x] = IF x = q THEN r ELSE jnReq[x]
  BY <1>3 DEF JoiningInv, JoiningTypes
<1> HIDE DEF r
<1>5. UseReserved'
  <2>1. UNCHANGED <<jnLink, jnHolder, jnVia>>
    BY DEF LookMember, Admitted
  <2>2. jnHolder # NoHolder => jnHolder # q /\ jnHolder \in JoinRequests
    BY <1>1 DEF JoiningInv, JoiningTypes, UseReserved
  <2>3. jnHolder # NoHolder => jnReq'[jnHolder] = jnReq[jnHolder]
    BY <1>4, <2>2
  <2>4. jnLink.cap # 0 => r.pc # "count" /\ ~ (r.pc = "gates" /\ r.door = "link" /\ ~ r.known)
    BY <1>2
  <2>5. \A x \in JoinRequests : jnLink.cap # 0 =>
           /\ jnReq'[x].pc # "count"
           /\ jnReq'[x].pc \in {"gates", "commit"} /\ jnReq'[x].door = "link" /\ ~ jnReq'[x].known
                 => jnHolder = x
    <3> SUFFICES ASSUME NEW x \in JoinRequests, jnLink.cap # 0
                 PROVE  /\ jnReq'[x].pc # "count"
                        /\ jnReq'[x].pc \in {"gates", "commit"} /\ jnReq'[x].door = "link"
                           /\ ~ jnReq'[x].known => jnHolder = x
      OBVIOUS
    <3>1. CASE x = q
      BY <1>2, <1>4, <2>4, <3>1
    <3>2. CASE x # q
      BY <1>4, <3>2 DEF JoiningInv, UseReserved
    <3> QED
      BY <3>1, <3>2
  <2> QED
    BY <2>1, <2>2, <2>3, <2>5 DEF JoiningInv, UseReserved
<1>6. MembersFit'
  BY MembersStand DEF LookMember, Counted
<1>7. jnHolder' \in JoinRequests \cup {NoHolder}
  BY DEF LookMember, JoiningInv, JoiningTypes
<1> QED
  BY <1>1, <1>2, <1>3, <1>5, <1>6, <1>7, JoinMoves DEF LookMember

(* The reservation of a use.                                               *)
LEMMA ReserveStep ==
  ASSUME JoiningInv, NEW q \in JoinRequests, Reserve(q)
  PROVE  JoiningInv'
<1>1. jnReq[q] \in JoinReqs /\ jnReq[q].pc = "reserve"
  BY JoinerIs DEF Reserve
<1>2. MembersFit'
  BY MembersStand DEF Reserve, Counted
<1>3. jnLink.cap \in Nat /\ jnLink.uses \in Nat
  BY JoiningAssumption DEF JoiningInv, JoiningTypes
<1>4. CASE jnLink.uses < jnLink.cap
  <2> DEFINE r == [jnReq[q] EXCEPT !.pc = "gates"]
  <2>1. /\ r \in JoinReqs /\ r.pc = "gates" /\ r.who = jnReq[q].who
        /\ r.over = jnReq[q].over /\ r.uses = jnReq[q].uses
    BY <1>1 DEF JoinReqs
  <2>2. jnReq' = [jnReq EXCEPT ![q] = r] /\ jnHolder' = q /\ jnHolder = NoHolder
    BY <1>1, <1>4 DEF Reserve, JoinGoes, JoiningInv, JoiningTypes
  <2>3. \A x \in JoinRequests : jnReq'[x] = IF x = q THEN r ELSE jnReq[x]
    BY <2>2 DEF JoiningInv, JoiningTypes
  <2> HIDE DEF r
  <2>4. UseReserved'
    BY <1>1, <1>3, <1>4, <2>1, <2>2, <2>3, JoiningAssumption
    DEF Reserve, Admitted, JoiningInv, UseReserved
  <2> QED
    BY <1>1, <1>2, <2>1, <2>2, <2>4, JoinMoves DEF Reserve
<1>5. CASE ~ (jnLink.uses < jnLink.cap)
  <2>1. jnHolder' = jnHolder /\ jnHolder = NoHolder /\ JoinEnds(q)
    BY <1>5 DEF Reserve
  <2>2. \A x \in JoinRequests : jnReq'[x] = IF x = q THEN IdleJoin ELSE jnReq[x]
    BY <2>1 DEF JoinEnds, JoiningInv, JoiningTypes
  <2>3. UseReserved'
    BY <1>1, <2>1, <2>2 DEF Reserve, Admitted, JoiningInv, UseReserved, IdleJoin
  <2>4. jnLink' = jnLink /\ jnLink \in [cap : LinkCaps, uses : Nat, dead : BOOLEAN]
    BY DEF Reserve, JoiningInv, JoiningTypes
  <2> QED
    BY <1>1, <1>2, <2>1, <2>3, <2>4, JoinIsOver DEF Reserve
<1> QED
  BY <1>4, <1>5

(* The gates let a request through.                                        *)
LEMMA JoinGatesStep ==
  ASSUME JoiningInv, NEW q \in JoinRequests, JoinGates(q)
  PROVE  JoiningInv'
<1> DEFINE r == [jnReq[q] EXCEPT !.pc = "commit", !.asked = AskedOf(jnReq[q]), !.new = (jnReq[q].who \notin jnMembers)]
<1>1. jnReq[q] \in JoinReqs /\ jnReq[q].pc = "gates"
  BY JoinerIs DEF JoinGates
<1>2. /\ r \in JoinReqs /\ r.pc = "commit" /\ r.who = jnReq[q].who /\ r.door = jnReq[q].door
      /\ r.over = jnReq[q].over /\ r.uses = jnReq[q].uses /\ r.known = jnReq[q].known
      /\ r.asked = AskedOf(jnReq[q])
  <2>1. AskedOf(jnReq[q]) \in RuleTexts
    <3>1. Effective(jnReq[q].over, jnSite) \in RuleDocs
      BY <1>1 DEF Effective, JoinReqs, JoiningInv, JoiningTypes
    <3> QED
      BY <3>1, JoiningAssumption DEF AskedOf, RuleDocs, RuleTexts
  <2> QED
    BY <1>1, <2>1 DEF JoinReqs
<1>3. jnReq' = [jnReq EXCEPT ![q] = r]
  BY <1>1 DEF JoinGates, JoiningInv, JoiningTypes
<1>4. \A x \in JoinRequests : jnReq'[x] = IF x = q THEN r ELSE jnReq[x]
  BY <1>3 DEF JoiningInv, JoiningTypes
<1> HIDE DEF r
<1>5. UseReserved'
  BY <1>1, <1>2, <1>4, JoiningAssumption DEF JoinGates, Admitted, JoiningInv, JoiningTypes, UseReserved
<1>6. MembersFit'
  BY MembersStand DEF JoinGates, Counted
<1>7. jnHolder' \in JoinRequests \cup {NoHolder}
  BY DEF JoinGates, JoiningInv, JoiningTypes
<1>8. r.asked # 0 => RowOf(r.who) # {}
  BY <1>2 DEF JoinGates, Passes
<1> QED
  BY <1>1, <1>2, <1>3, <1>5, <1>6, <1>7, <1>8, JoinMoves DEF JoinGates

(* A gate refuses it, and the reservation is given back.                   *)
LEMMA JoinRefusedStep ==
  ASSUME JoiningInv, NEW q \in JoinRequests, JoinRefused(q)
  PROVE  JoiningInv'
<1>1. jnReq[q].pc = "gates" /\ JoinEnds(q) /\ Frees(q)
  BY DEF JoinRefused
<1>2. MembersFit'
  BY MembersStand DEF JoinRefused, Counted
<1>3. jnLink' = jnLink /\ jnLink \in [cap : LinkCaps, uses : Nat, dead : BOOLEAN]
  BY DEF JoinRefused, JoiningInv, JoiningTypes
<1>4. \A x \in JoinRequests : jnReq'[x] = IF x = q THEN IdleJoin ELSE jnReq[x]
  BY <1>1 DEF JoinEnds, JoiningInv, JoiningTypes
<1>5. UseReserved' /\ jnHolder' \in JoinRequests \cup {NoHolder}
  BY <1>1, <1>3, <1>4, JoiningAssumption
  DEF JoinRefused, Admitted, Frees, JoiningInv, JoiningTypes, UseReserved, IdleJoin
<1> QED
  BY <1>1, <1>2, <1>3, <1>5, JoinIsOver DEF JoinRefused

(* Whom a commit lets in agreed to the text it was shown.                  *)
LEMMA CommitFits ==
  ASSUME JoiningInv, NEW q \in JoinRequests, MembershipCommit(q)
  PROVE  MembersFit'
<1> DEFINE r == jnReq[q]   row == CHOOSE a \in RowOf(r.who) : TRUE
           agreed == IF RowOf(r.who) = {} THEN 0 ELSE row.doc
           terms == [asked |-> r.asked, since |-> jnSince, agreed |-> agreed]
<1>1. r \in JoinReqs /\ r.pc = "commit" /\ q \in Joiners
  BY JoinerIs DEF MembershipCommit, Joiners
<1>2. /\ r.who \in People /\ r.asked \in RuleTexts /\ r.new \in BOOLEAN
  BY <1>1 DEF JoinReqs
<1>3. RowOf(r.who) # {} => row \in jnAccepted
  BY DEF RowOf
<1>4. agreed \in RuleTexts
  BY <1>3, JoiningAssumption DEF JoiningInv, JoiningTypes, AcceptanceRows, RuleTexts
<1>5. ~ jnShifted /\ r.asked # 0 => agreed \in jnSince
  BY <1>1, <1>3 DEF JoiningInv, SinceOverride
<1>6. CASE r.new /\ r.who \in jnMembers
  <2>1. Admitted /\ jnShifted' = jnShifted
    BY <1>6 DEF MembershipCommit, Admitted, Counted
  <2> QED
    BY <2>1, MembersStand
<1>7. CASE ~ (r.new /\ r.who \in jnMembers)
  <2>1. /\ jnMembers' = jnMembers \cup {r.who} /\ jnShifted' = jnShifted
        /\ jnVia' = jnVia \/ jnVia' = jnVia \cup {r.who}
    BY <1>7 DEF MembershipCommit, Counted
  <2>2. \/ ~ r.new /\ jnUnder' = jnUnder
        \/ r.new /\ jnUnder' = [jnUnder EXCEPT ![r.who] = terms]
    BY <1>7 DEF MembershipCommit
  <2> HIDE DEF agreed, r
  <2>3. jnMembers' \subseteq People /\ jnVia' \subseteq People /\ IsFiniteSet(jnVia')
    <3>1. IsFiniteSet(jnVia) /\ IsFiniteSet(jnVia \cup {r.who})
      BY FS_AddElement DEF JoiningInv, JoiningTypes
    <3> QED
      BY <1>2, <2>1, <3>1 DEF JoiningInv, JoiningTypes
  <2>4. jnUnder' \in [People -> Terms]
    <3>1. terms \in Terms
      BY <1>2, <1>4 DEF Terms, JoiningInv, JoiningTypes
    <3> HIDE DEF terms
    <3> QED
      BY <1>2, <2>2, <3>1 DEF JoiningInv, JoiningTypes
  <2>5. \A p \in People : \/ jnUnder'[p] = jnUnder[p]
                          \/ p = r.who /\ jnUnder'[p] = terms
    BY <1>2, <2>2 DEF JoiningInv, JoiningTypes
  <2>6. \A p \in People \ jnMembers : jnUnder[p] = Outsider
    BY DEF JoiningInv, SinceOverride
  <2>7. ASSUME ~ jnShifted, NEW p \in jnMembers', jnUnder'[p].asked # 0
        PROVE  jnUnder'[p].agreed \in jnUnder'[p].since
    <3>1. p \in People
      BY <2>3
    <3>2. CASE jnUnder'[p] = terms
      BY <1>5, <2>7, <3>2
    <3>3. CASE jnUnder'[p] = jnUnder[p]
      <4>1. p \in jnMembers
        BY <2>6, <2>7, <3>1, <3>3 DEF Outsider
      <4> QED
        BY <2>7, <3>3, <4>1 DEF JoiningInv, SinceOverride
    <3> QED
      BY <2>5, <3>1, <3>2, <3>3
  <2>8. \A p \in People \ jnMembers' : jnUnder'[p] = Outsider
    BY <2>1, <2>5, <2>6
  <2> QED
    BY <2>1, <2>3, <2>4, <2>7, <2>8 DEF MembersFit
<1> QED
  BY <1>6, <1>7

(* Role and reservation commit together.                                   *)
LEMMA MembershipCommitStep ==
  ASSUME JoiningInv, NEW q \in JoinRequests, MembershipCommit(q)
  PROVE  JoiningInv'
<1> DEFINE r == jnReq[q]   lost == r.new /\ r.who \in jnMembers
           open == r.door = "link" /\ ~ r.known /\ jnLink.cap = 0
<1>1. r \in JoinReqs /\ r.pc = "commit" /\ Frees(q)
  BY JoinerIs DEF MembershipCommit
<1>2. MembersFit'
  BY CommitFits
<1>3. /\ jnLink.cap \in Nat /\ jnLink.uses \in Nat /\ IsFiniteSet(jnVia)
      /\ jnLink \in [cap : LinkCaps, uses : Nat, dead : BOOLEAN] /\ Cardinality(jnVia) \in Nat
  BY JoiningAssumption, FS_CardinalityType DEF JoiningInv, JoiningTypes
<1>4. /\ jnHolder' = IF jnHolder = q THEN NoHolder ELSE jnHolder
      /\ jnHolder' \in JoinRequests \cup {NoHolder}
  BY <1>1 DEF Frees, JoiningInv, JoiningTypes
<1>5. CASE lost \/ ~ open
  <2>1. JoinEnds(q)
    BY <1>5 DEF MembershipCommit
  <2>2. \A x \in JoinRequests : jnReq'[x] = IF x = q THEN IdleJoin ELSE jnReq[x]
    BY <2>1 DEF JoinEnds, JoiningInv, JoiningTypes
  <2>3. jnLink' = IF ~ lost /\ jnHolder = q THEN [jnLink EXCEPT !.uses = @ + 1] ELSE jnLink
    BY DEF MembershipCommit
  <2>4. /\ jnLink' \in [cap : LinkCaps, uses : Nat, dead : BOOLEAN] /\ jnLink'.cap = jnLink.cap
        /\ jnLink'.uses = IF ~ lost /\ jnHolder = q THEN jnLink.uses + 1 ELSE jnLink.uses
    BY <1>3, <2>3
  <2>5. jnLink.cap # 0 => /\ Cardinality(jnVia') <= jnLink'.uses
                          /\ jnLink'.uses <= jnLink.cap
    <3>1. jnVia' = jnVia \/ (~ lost /\ r.new /\ ~ r.known /\ r.door = "link" /\ jnVia' = jnVia \cup {r.who})
      BY DEF MembershipCommit
    <3>2. CASE jnVia' = jnVia
      BY <1>3, <2>4, <3>2, JoiningAssumption DEF JoiningInv, UseReserved
    <3>3. CASE ~ lost /\ r.new /\ ~ r.known /\ r.door = "link" /\ jnVia' = jnVia \cup {r.who}
      <4>1. jnLink.cap # 0 => jnHolder = q
        BY <1>1, <3>3 DEF JoiningInv, UseReserved
      <4>2. Cardinality(jnVia') <= Cardinality(jnVia) + 1 /\ Cardinality(jnVia') \in Nat
        <5>1. Cardinality(jnVia \cup {r.who}) = IF r.who \in jnVia THEN Cardinality(jnVia)
                                               ELSE Cardinality(jnVia) + 1
          BY <1>3, FS_AddElement
        <5> QED
          BY <1>3, <3>3, <5>1
      <4> QED
        BY <1>3, <2>4, <3>3, <4>1, <4>2, JoiningAssumption DEF JoiningInv, UseReserved
    <3> QED
      BY <3>1, <3>2, <3>3
  <2>6. UseReserved'
    <3>1. jnHolder' # NoHolder => /\ jnHolder' = jnHolder /\ jnHolder # q /\ jnHolder \in JoinRequests
                                  /\ jnReq'[jnHolder] = jnReq[jnHolder] /\ jnLink' = jnLink
      BY <1>4, <2>2, <2>3
    <3>2. \A x \in JoinRequests : jnLink.cap # 0 =>
             /\ jnReq'[x].pc # "count"
             /\ jnReq'[x].pc \in {"gates", "commit"} /\ jnReq'[x].door = "link" /\ ~ jnReq'[x].known
                   => jnHolder' = x
      BY <1>4, <2>2 DEF JoiningInv, UseReserved, IdleJoin
    <3> QED
      BY <2>4, <2>5, <3>1, <3>2 DEF JoiningInv, UseReserved
  <2>7. jnReq[q].pc # "idle"
    BY <1>1
  <2> QED
    BY <1>2, <1>4, <2>1, <2>4, <2>6, <2>7, JoinIsOver DEF MembershipCommit
<1>6. CASE ~ lost /\ open
  <2> DEFINE s == [r EXCEPT !.pc = "count"]
  <2>1. /\ s \in JoinReqs /\ s.pc = "count" /\ s.who = r.who /\ s.over = r.over /\ s.uses = r.uses
    BY <1>1 DEF JoinReqs
  <2>2. jnReq' = [jnReq EXCEPT ![q] = s]
    BY <1>1, <1>6 DEF MembershipCommit, JoinGoes, JoiningInv, JoiningTypes
  <2>3. \A x \in JoinRequests : jnReq'[x] = IF x = q THEN s ELSE jnReq[x]
    BY <2>2 DEF JoiningInv, JoiningTypes
  <2> HIDE DEF s
  <2>4. jnHolder # q
    BY <1>6, JoiningAssumption DEF JoiningInv, UseReserved
  <2>5. jnLink' = jnLink /\ jnHolder' = jnHolder
    BY <1>4, <1>6, <2>4 DEF MembershipCommit
  <2>6. UseReserved'
    BY <1>6, <2>3, <2>4, <2>5 DEF JoiningInv, UseReserved
  <2>7. jnReq[q].pc \notin {"idle", "count"}
    BY <1>1
  <2> QED
    BY <1>2, <1>4, <2>1, <2>2, <2>5, <2>6, <2>7, JoinMoves DEF MembershipCommit
<1> QED
  BY <1>5, <1>6

(* A link without a cap counts.                                            *)
LEMMA CountUseStep ==
  ASSUME JoiningInv, NEW q \in JoinRequests, CountUse(q)
  PROVE  JoiningInv'
<1>1. jnReq[q].pc = "count" /\ JoinEnds(q) /\ jnReq[q] \in JoinReqs /\ jnReq[q].uses \in Nat
  BY JoinerIs DEF CountUse, JoinReqs
<1>2. MembersFit'
  BY MembersStand DEF CountUse, Counted
<1>3. /\ jnLink' \in [cap : LinkCaps, uses : Nat, dead : BOOLEAN] /\ jnLink'.uses = jnReq[q].uses + 1
      /\ jnLink'.cap = jnLink.cap /\ jnLink.cap = 0
  BY <1>1 DEF CountUse, JoiningInv, JoiningTypes, UseReserved
<1>4. \A x \in JoinRequests : jnReq'[x] = IF x = q THEN IdleJoin ELSE jnReq[x]
  BY <1>1 DEF JoinEnds, JoiningInv, JoiningTypes
<1>5. UseReserved' /\ jnHolder' \in JoinRequests \cup {NoHolder}
  BY <1>1, <1>3, <1>4 DEF CountUse, JoiningInv, JoiningTypes, UseReserved
<1> QED
  BY <1>1, <1>2, <1>3, <1>5, JoinIsOver DEF CountUse

(* Organisers, members and lobby acceptances, which leave requests alone.  *)
LEMMA AroundJoins ==
  ASSUME JoiningInv,
         \/ \E p \in People : AcceptRules(p) \/ MemberLeaves(p)
         \/ RevokeInviteLink \/ RulesDelete \/ RulesCommit \/ OverrideAside \/ EditSiteRules
  PROVE  JoiningInv'
<1> USE JoiningAssumption
<1>0. /\ jnReq' = jnReq /\ Joiners' = Joiners /\ jnHolder' = jnHolder /\ jnVia' = jnVia
      /\ jnJoins' = jnJoins
  BY DEF AcceptRules, MemberLeaves, RevokeInviteLink, RulesDelete, RulesCommit, OverrideAside,
         EditSiteRules, Counted, Admitted, Joiners
<1>u. UsesCounted' /\ UseReserved'
  <2>1. jnLink'.cap = jnLink.cap /\ jnLink'.uses = jnLink.uses
    BY DEF AcceptRules, MemberLeaves, RevokeInviteLink, RulesDelete, RulesCommit, OverrideAside,
           EditSiteRules, JoiningInv, JoiningTypes
  <2> QED
    BY <1>0, <2>1 DEF UsesCounted, UseReserved, JoiningInv
<1>j. Joiners \subseteq JoinRequests
  BY DEF Joiners
<1>1. ASSUME NEW p \in People, AcceptRules(p)
      PROVE  JoiningInv'
  <2> USE <1>1 DEF AcceptRules, Organised, Ruled, Counted, Admitted
  <2> DEFINE texts == InForce(jnOver, jnSite)
  <2>1. JoiningTypes'
    <3>1. texts \subseteq RuleTexts \ {0}
      BY DEF JoiningInv, JoiningTypes, InForce, Effective, RuleDocs
    <3>2. jnAccepted' \subseteq AcceptanceRows
      BY <3>1 DEF JoiningInv, JoiningTypes, Accepts, AcceptanceRows
    <3> QED
      BY <3>2 DEF JoiningInv, JoiningTypes
  <2>2. SinceOverride'
    <3>1. \A w : RowOf(w) # {} => RowOf(w)' # {}
      BY DEF RowOf, Accepts
    <3>2. ~ jnShifted => \A a \in jnAccepted' : a.doc \in jnSince
      BY DEF JoiningInv, SinceOverride, Accepts
    <3> QED
      BY <1>0, <3>1, <3>2 DEF JoiningInv, SinceOverride, GoesBy
  <2> QED
    BY <1>u, <2>1, <2>2 DEF JoiningInv
<1>2. ASSUME NEW p \in People, MemberLeaves(p)
      PROVE  JoiningInv'
  <2> USE <1>2 DEF MemberLeaves, Change, Counted
  <2>1. JoiningTypes'
    BY DEF JoiningInv, JoiningTypes, Outsider, Terms, RuleTexts, Ruled
  <2>2. SinceOverride'
    <3>1. \A x \in People : jnUnder'[x] = IF x = p THEN Outsider ELSE jnUnder[x]
      BY DEF JoiningInv, JoiningTypes
    <3>2. jnMembers' \subseteq People
      BY DEF JoiningInv, JoiningTypes
    <3> QED
      BY <1>0, <3>1, <3>2 DEF JoiningInv, SinceOverride, RowOf, GoesBy, Ruled
  <2> QED
    BY <1>u, <2>1, <2>2 DEF JoiningInv
<1>3. CASE RevokeInviteLink
  <2> USE <1>3 DEF RevokeInviteLink, Ruled, Change, Counted, Admitted
  <2>1. JoiningTypes'
    <3>1. jnLink' \in [cap : LinkCaps, uses : Nat, dead : BOOLEAN]
      BY DEF JoiningInv, JoiningTypes
    <3> QED
      BY <3>1 DEF JoiningInv, JoiningTypes
  <2>2. SinceOverride'
    BY <1>0 DEF JoiningInv, SinceOverride, RowOf, GoesBy
  <2> QED
    BY <1>u, <2>1, <2>2 DEF JoiningInv
<1>4. CASE RulesDelete
  <2> USE <1>4 DEF RulesDelete, Ruled, Change, Counted, Admitted
  <2>1. JoiningTypes'
    <3>1. jnEdit' \in [pc : {"none", "commit"}, rows : SUBSET AcceptanceRows, doc : RuleDocs]
      BY DEF JoiningInv, JoiningTypes, Doc, RuleDocs, RuleTexts, FreshText
    <3> QED
      BY <3>1 DEF JoiningInv, JoiningTypes
  <2>2. SinceOverride'
    BY <1>0 DEF JoiningInv, SinceOverride, RowOf, GoesBy
  <2> QED
    BY <1>u, <2>1, <2>2 DEF JoiningInv
<1>5. CASE RulesCommit
  <2> USE <1>5 DEF RulesCommit, Admitted
  <2>1. JoiningTypes'
    <3>1. jnEdit' \in [pc : {"none", "commit"}, rows : SUBSET AcceptanceRows, doc : RuleDocs]
      BY DEF NoEdit, Blank, Doc, RuleDocs, RuleTexts
    <3>2. jnOver' \in RuleDocs /\ jnSince' \subseteq RuleTexts \ {0}
      BY DEF JoiningInv, JoiningTypes, InForce, Effective, RuleDocs
    <3> QED
      BY <3>1, <3>2 DEF JoiningInv, JoiningTypes
  <2>2. SinceOverride'
    <3>1. ~ jnShifted' => ~ jnShifted /\ Joiners = {} /\ jnAccepted' = {}
      BY DEF Joiners, Underway, JoiningInv, JoiningTypes
    <3> QED
      BY <1>0, <3>1 DEF JoiningInv, SinceOverride
  <2> QED
    BY <1>u, <2>1, <2>2 DEF JoiningInv
<1>6. CASE OverrideAside
  <2> USE <1>6 DEF OverrideAside, Change, Counted, Admitted
  <2>0. /\ jnOver' \in RuleDocs /\ InForce(jnOver', jnSite) \subseteq RuleTexts \ {0}
        /\ jnOver'.text \in {0, jnOver.text} /\ jnOver.text # 0
    <3>1. Blank \in RuleDocs /\ Blank.text = 0
      BY DEF Blank, Doc, RuleDocs, RuleTexts
    <3>2. [jnOver EXCEPT !.only = ~ @] \in RuleDocs /\ [jnOver EXCEPT !.only = ~ @].text = jnOver.text
      BY DEF JoiningInv, JoiningTypes, RuleDocs
    <3>3. jnOver' \in RuleDocs /\ jnOver'.text \in {0, jnOver.text} /\ jnOver.text # 0
      BY <3>1, <3>2
    <3> QED
      BY <3>3 DEF JoiningInv, JoiningTypes, InForce, Effective, RuleDocs
  <2>1. JoiningTypes'
    BY <2>0 DEF JoiningInv, JoiningTypes
  <2>2. SinceOverride'
    BY <1>0, <2>0 DEF JoiningInv, SinceOverride, RowOf, GoesBy
  <2> QED
    BY <1>u, <2>1, <2>2 DEF JoiningInv
<1>7. CASE EditSiteRules
  <2> USE <1>7 DEF EditSiteRules, Change, Counted, Admitted
  <2>0. jnSite' \in RuleDocs /\ InForce(jnOver, jnSite') \subseteq RuleTexts \ {0}
    BY DEF JoiningInv, JoiningTypes, Doc, RuleDocs, RuleTexts, InForce, Effective, FreshText
  <2>1. JoiningTypes'
    BY <2>0 DEF JoiningInv, JoiningTypes
  <2>2. SinceOverride'
    BY <1>0, <2>0 DEF JoiningInv, SinceOverride, RowOf, GoesBy
  <2> QED
    BY <1>u, <2>1, <2>2 DEF JoiningInv
<1> QED
  BY <1>1, <1>2, <1>3, <1>4, <1>5, <1>6, <1>7

(* Every step of joining keeps the invariant.                              *)
LEMMA JoiningStep ==
  ASSUME JoiningInv, [JoiningNext]_jnVars
  PROVE  JoiningInv'
<1>1. CASE UNCHANGED jnVars
  BY <1>1 DEF jnVars, JoiningInv, JoiningTypes, UsesCounted, UseReserved, SinceOverride, Joiners, RowOf, GoesBy
<1>2. CASE JoiningNext
  BY <1>2, JoinBeginsStep, AcceptWithJoinStep, LookMemberStep, ReserveStep, JoinGatesStep,
     JoinRefusedStep, MembershipCommitStep, CountUseStep, AroundJoins DEF JoiningNext
<1> QED
  BY <1>1, <1>2

(***************************************************************************)
(* Teams.                                                                  *)
(***************************************************************************)

TeamRows == [team : TeamIds, captain : BOOLEAN, since : Nat]

TeamReqs ==
    {IdleReq} \cup [pc : {"create"}] \cup [pc : {"join"}, team : TeamIds]
        \cup [pc : {"joining"}, team : TeamIds, apply : BOOLEAN]
        \cup [pc : {"approve", "reject"}, app : TeamIds \X Players]
        \cup [pc : {"approving"}, app : TeamIds \X Players, adds : BOOLEAN]
        \cup [pc : {"leave"}, row : TeamRows]
        \cup [pc : {"leaving"}, row : TeamRows, last : BOOLEAN,
              heir : SUBSET [who : Players, row : TeamRows]]

TeamsTypes ==
    /\ tmTeam \in [TeamIds -> [here : BOOLEAN, approval : BOOLEAN, used : BOOLEAN]]
    /\ tmMember \in [Players -> TeamRows \cup {Outside}]
    /\ tmApps \subseteq TeamIds \X Players
    /\ tmReq \in [Players -> TeamReqs]
    /\ tmLock \in [TeamIds -> Players \cup {"none"}]
    /\ tmOps \in Nat /\ tmStale \subseteq TeamIds

(* Memberships and applications are of teams that are there.               *)
TeamsThere ==
    /\ \A p \in Players : tmMember[p] # Outside =>
         tmTeam[tmMember[p].team].here /\ tmMember[p].since < tmOps
    /\ \A a \in tmApps : tmTeam[a[1]].here
    /\ \A t \in TeamIds : tmTeam[t].here => tmTeam[t].used

(* The team whose row the request of p has locked.                         *)
Locked(p, t) ==
    \/ tmReq[p].pc = "joining" /\ tmReq[p].team = t
    \/ tmReq[p].pc = "approving" /\ tmReq[p].app[1] = t

(* A request past its locked read holds the row, the only one to, and the  *)
(* seat it counted is still free.                                          *)
SeatKept ==
    \A t \in TeamIds :
        /\ IsFiniteSet(Roster(t)) /\ Cardinality(Roster(t)) <= MaxTeamSize
        /\ \A p \in Players : Locked(p, t) <=> tmLock[t] = p
        /\ tmLock[t] # "none" => tmTeam[t].used /\ Cardinality(Roster(t)) < MaxTeamSize

(* A departure under way is of a row that was there, and past its flush of *)
(* one that still is; a captain's names an heir unless it was the last.    *)
Departure(p) ==
    LET r == tmReq[p] IN
    /\ r.pc \in {"leave", "leaving"} =>
         /\ r.row.since < tmOps
         /\ Same(p, r.row) /\ r.row.captain => tmMember[p].captain
    /\ r.pc = "leaving" =>
         /\ Same(p, r.row)
         /\ \A h \in r.heir : /\ h.who # p /\ h.row.team = r.row.team
                              /\ h.row.since < tmOps
         /\ \A g, h \in r.heir : g = h
         /\ r.heir # {} => r.row.captain
         /\ ~ r.last /\ r.row.captain => r.heir # {}

(* One captain at most, and one unless a departure was stale.              *)
Captaincy ==
    \A t \in TeamIds :
        /\ \A p, q \in Captains(t) : p = q
        /\ tmTeam[t].here /\ t \notin tmStale => Captains(t) # {}

TeamsInv == TeamsTypes /\ TeamsThere /\ SeatKept /\ (\A p \in Players : Departure(p)) /\ Captaincy

(* Teams start well.                                                       *)
LEMMA TeamsStart ==
  ASSUME TeamsInit
  PROVE  TeamsInv
<1> USE TeamsAssumption
<1>1. TeamsTypes
  BY DEF TeamsInit, TeamsTypes, TeamReqs
<1>2. TeamsThere
  BY DEF TeamsInit, TeamsThere
<1>3. \A t \in TeamIds : Roster(t) = {} /\ Captains(t) = {}
  BY DEF TeamsInit, Roster, Captains, Outside
<1>4. SeatKept
  <2>1. \A t \in TeamIds : /\ tmLock[t] = "none"
                           /\ \A p \in Players : ~ Locked(p, t) /\ tmLock[t] # p
    BY DEF TeamsInit, Locked, IdleReq
  <2>2. IsFiniteSet({}) /\ Cardinality({}) <= MaxTeamSize
    BY FS_EmptySet
  <2> QED
    BY <1>3, <2>1, <2>2 DEF SeatKept
<1>5. \A p \in Players : Departure(p)
  BY DEF TeamsInit, Departure, IdleReq
<1>6. Captaincy
  BY <1>3 DEF TeamsInit, Captaincy
<1> QED
  BY <1>1, <1>2, <1>4, <1>5, <1>6 DEF TeamsInv

(* What the invariant says of the properties.                              *)
LEMMA TeamsKept ==
  ASSUME TeamsInv
  PROVE  TeamsTypeOK /\ SeatsHold /\ LedUnlessStale
<1>1. tmMember \in [Players -> [team : TeamIds \cup {NoTeam}, captain : BOOLEAN, since : Nat]]
  <2>1. TeamRows \cup {Outside} \subseteq [team : TeamIds \cup {NoTeam}, captain : BOOLEAN, since : Nat]
    <3>1. Outside \in [team : TeamIds \cup {NoTeam}, captain : BOOLEAN, since : Nat]
      BY DEF Outside
    <3>2. TeamRows \subseteq [team : TeamIds \cup {NoTeam}, captain : BOOLEAN, since : Nat]
      BY DEF TeamRows
    <3> QED
      BY <3>1, <3>2
  <2> QED
    BY <2>1 DEF TeamsInv, TeamsTypes
<1>2. \A p \in Players : tmMember[p].team # NoTeam => tmTeam[tmMember[p].team].here
  BY DEF TeamsInv, TeamsThere, Outside
<1>3. TeamsTypeOK
  BY <1>1, <1>2 DEF TeamsInv, TeamsTypes, TeamsTypeOK
<1>4. SeatsHold
  BY DEF TeamsInv, SeatKept, SeatsHold
<1>5. LedUnlessStale
  BY AtMostOne DEF TeamsInv, Captaincy, LedUnlessStale
<1> QED
  BY <1>3, <1>4, <1>5

(* The row a request p holds in its next record r.                         *)
WouldLock(r, t) ==
    \/ r.pc = "joining" /\ r.team = t
    \/ r.pc = "approving" /\ r.app[1] = t

(* The locks after p's request went on to r: p's are those of r, on teams  *)
(* with a seat left, and the others' stay.                                 *)
LocksMove(p, r) ==
    /\ tmLock' \in [TeamIds -> Players \cup {"none"}]
    /\ \A t \in TeamIds :
         /\ tmLock'[t] = p <=> WouldLock(r, t)
         /\ tmLock'[t] = p => tmTeam[t].used /\ Cardinality(Roster(t)) < MaxTeamSize
         /\ \A x \in Players \ {p} : tmLock'[t] = x <=> tmLock[t] = x

(* A departure, of the request r of p.                                     *)
Departs(p, r, member, ops) ==
    /\ r.pc \in {"leave", "leaving"} =>
         /\ r.row.since < ops
         /\ member[p].team = r.row.team /\ member[p].since = r.row.since /\ r.row.captain
               => member[p].captain
    /\ r.pc = "leaving" =>
         /\ member[p].team = r.row.team /\ member[p].since = r.row.since
         /\ \A h \in r.heir : /\ h.who # p /\ h.row.team = r.row.team
                              /\ h.row.since < ops
         /\ \A g, h \in r.heir : g = h
         /\ r.heir # {} => r.row.captain
         /\ ~ r.last /\ r.row.captain => r.heir # {}

(* Departure as such.                                                      *)
LEMMA DepartureIs ==
  /\ \A p : Departure(p) <=> Departs(p, tmReq[p], tmMember, tmOps)
  /\ \A p : Departure(p)' <=> Departs(p, tmReq'[p], tmMember', tmOps')
  BY DEF Departure, Departs, Same

(* A departure does not mind the time passing.                             *)
LEMMA DepartureLasts ==
  ASSUME TeamsInv, NEW p \in Players, tmOps' \in Nat, tmOps <= tmOps'
  PROVE  Departs(p, tmReq[p], tmMember, tmOps')
<1>1. Departs(p, tmReq[p], tmMember, tmOps)
  BY DepartureIs DEF TeamsInv
<1>2. tmReq[p] \in TeamReqs /\ tmOps \in Nat
  BY DEF TeamsInv, TeamsTypes
<1>3. tmReq[p].pc \in {"leave", "leaving"} => tmReq[p].row.since \in Nat
  BY <1>2 DEF TeamReqs, TeamRows, IdleReq
<1>4. tmReq[p].pc = "leaving" => \A h \in tmReq[p].heir : h.row.since \in Nat
  BY <1>2 DEF TeamReqs, TeamRows, IdleReq
<1> QED
  BY <1>1, <1>2, <1>3, <1>4 DEF Departs

(* A request goes on and the memberships stay.                             *)
LEMMA TeamReqMoves ==
  ASSUME TeamsInv, NEW p \in Players, NEW r \in TeamReqs,
         tmReq' = [tmReq EXCEPT ![p] = r], LocksMove(p, r),
         Departs(p, r, tmMember, tmOps'), tmOps' \in Nat, tmOps <= tmOps',
         tmApps' \subseteq TeamIds \X Players, \A a \in tmApps' : tmTeam[a[1]].here,
         tmStale' \subseteq TeamIds, tmStale \subseteq tmStale',
         UNCHANGED <<tmTeam, tmMember>>
  PROVE  TeamsInv'
<1> USE TeamsAssumption DEF TeamsInv
<1>1. \A x \in Players : tmReq'[x] = IF x = p THEN r ELSE tmReq[x]
  BY DEF TeamsTypes
<1>2. TeamsTypes'
  BY DEF TeamsTypes, LocksMove
<1>3. TeamsThere'
  <2>1. \A x \in Players : tmMember[x] # Outside => tmMember[x].since \in Nat
    BY DEF TeamsTypes, TeamRows
  <2> QED
    BY <2>1 DEF TeamsThere, TeamsTypes
<1>4. \A t : Roster(t)' = Roster(t) /\ Captains(t)' = Captains(t)
  BY DEF Roster, Captains
<1>5. SeatKept'
  <2> SUFFICES ASSUME NEW t \in TeamIds
               PROVE  /\ IsFiniteSet(Roster(t)') /\ Cardinality(Roster(t)') <= MaxTeamSize
                      /\ \A x \in Players : Locked(x, t)' <=> tmLock'[t] = x
                      /\ tmLock'[t] # "none" => tmTeam'[t].used /\ Cardinality(Roster(t)') < MaxTeamSize
    BY DEF SeatKept
  <2>1. \A x \in Players : Locked(x, t)' <=> tmLock'[t] = x
    <3>1. Locked(p, t)' <=> WouldLock(r, t)
      BY <1>1 DEF Locked, WouldLock
    <3>2. \A x \in Players \ {p} : Locked(x, t)' <=> Locked(x, t)
      BY <1>1 DEF Locked
    <3> QED
      BY <3>1, <3>2 DEF SeatKept, LocksMove
  <2>2. tmLock'[t] # "none" => tmTeam[t].used /\ Cardinality(Roster(t)) < MaxTeamSize
    <3>1. tmLock'[t] \in Players \cup {"none"}
      BY DEF LocksMove
    <3> QED
      BY <3>1 DEF SeatKept, LocksMove
  <2> QED
    BY <1>4, <2>1, <2>2 DEF SeatKept
<1>6. \A x \in Players : Departure(x)'
  <2>1. \A x \in Players : Departs(x, tmReq[x], tmMember, tmOps')
    BY DepartureLasts
  <2> QED
    BY <1>1, <2>1, DepartureIs
<1>7. Captaincy'
  BY <1>4 DEF Captaincy
<1> QED
  BY <1>2, <1>3, <1>5, <1>6, <1>7

(* Somebody without a team gets a seat of t.                               *)
LEMMA RosterGains ==
  ASSUME TeamsInv, NEW m \in Players, NEW t \in TeamIds, NEW c \in BOOLEAN,
         tmMember[m] = Outside, Joined(m, t, c)
  PROVE  /\ m \notin Roster(t)
         /\ \A u \in TeamIds : Roster(u)' = IF u = t THEN Roster(t) \cup {m} ELSE Roster(u)
         /\ \A u \in TeamIds : Captains(u)' = IF u = t /\ c THEN Captains(t) \cup {m} ELSE Captains(u)
         /\ \A x \in Players : tmMember'[x] = IF x = m THEN [team |-> t, captain |-> c, since |-> tmOps]
                                              ELSE tmMember[x]
<1> USE TeamsAssumption
<1>1. \A x \in Players : tmMember'[x] = IF x = m THEN [team |-> t, captain |-> c, since |-> tmOps]
                                        ELSE tmMember[x]
  BY DEF Joined, TeamsInv, TeamsTypes
<1>2. tmMember[m].team \notin TeamIds
  BY DEF Outside
<1>3. \A u \in TeamIds : Roster(u)' = IF u = t THEN Roster(t) \cup {m} ELSE Roster(u)
  BY <1>1, <1>2 DEF Roster
<1>4. \A u \in TeamIds : Captains(u)' = IF u = t /\ c THEN Captains(t) \cup {m} ELSE Captains(u)
  BY <1>1, <1>2, <1>3 DEF Roster, Captains
<1> QED
  BY <1>1, <1>2, <1>3, <1>4 DEF Roster

(* Only those who are in no team have no membership.                       *)
LEMMA MemberIs ==
  ASSUME TeamsInv, NEW p \in Players
  PROVE  /\ tmMember[p] # Outside => tmMember[p] \in TeamRows
         /\ \A t \in TeamIds : tmMember[p].team = t => tmMember[p] # Outside
  BY TeamsAssumption DEF TeamsInv, TeamsTypes, Outside

(* A departure does not mind somebody else, or somebody whose row it no    *)
(* longer is, getting a seat.                                              *)
LEMMA DepartureApart ==
  ASSUME TeamsInv, NEW m \in Players, NEW t \in TeamIds, NEW c \in BOOLEAN,
         tmMember[m] = Outside, Joined(m, t, c), NEW p \in Players
  PROVE  Departs(p, tmReq[p], tmMember', tmOps')
<1>0. tmOps \in Nat /\ tmOps' = tmOps + 1 /\ tmReq[p] \in TeamReqs
  BY DEF TeamsInv, TeamsTypes, Joined
<1>1. Departs(p, tmReq[p], tmMember, tmOps')
  BY <1>0, DepartureLasts
<1>2. Departs(p, tmReq[p], tmMember, tmOps)
  BY DepartureIs DEF TeamsInv
<1>3. \A x \in Players : tmMember'[x] = IF x = m THEN [team |-> t, captain |-> c, since |-> tmOps]
                                        ELSE tmMember[x]
  BY RosterGains
<1>4. CASE p # m
  BY <1>1, <1>3, <1>4 DEF Departs
<1>5. CASE p = m
  <2>1. tmReq[p].pc \in {"leave", "leaving"} => tmReq[p].row \in TeamRows
    BY <1>0 DEF TeamReqs, IdleReq
  <2>2. tmReq[p].pc # "leaving"
    BY <1>2, <1>5, <2>1, TeamsAssumption DEF Departs, TeamRows, Outside
  <2>3. tmReq[p].pc = "leave" => tmReq[p].row.since < tmOps /\ tmReq[p].row.since \in Nat
    BY <1>2, <2>1 DEF Departs, TeamRows
  <2>4. tmMember'[p].since = tmOps
    BY <1>3, <1>5
  <2> QED
    BY <1>0, <1>1, <2>2, <2>3, <2>4 DEF Departs
<1> QED
  BY <1>4, <1>5

(* Types and presence when somebody gets a seat of a team that is there.   *)
LEMMA SeatedThere ==
  ASSUME TeamsInv, NEW m \in Players, NEW t \in TeamIds, NEW c \in BOOLEAN,
         tmMember[m] = Outside, Joined(m, t, c), tmTeam'[t].here,
         tmTeam' \in [TeamIds -> [here : BOOLEAN, approval : BOOLEAN, used : BOOLEAN]],
         \A u \in TeamIds : tmTeam[u].here => tmTeam'[u].here,
         \A u \in TeamIds : tmTeam'[u].here => tmTeam'[u].used,
         tmReq' \in [Players -> TeamReqs],
         tmLock' \in [TeamIds -> Players \cup {"none"}],
         tmApps' \subseteq tmApps, UNCHANGED tmStale
  PROVE  TeamsTypes' /\ TeamsThere'
<1>0. tmOps \in Nat /\ tmOps' = tmOps + 1
  BY DEF TeamsInv, TeamsTypes, Joined
<1> DEFINE row == [team |-> t, captain |-> c, since |-> tmOps]
<1>1. \A x \in Players : tmMember'[x] = IF x = m THEN row ELSE tmMember[x]
  BY RosterGains
<1>2. row \in TeamRows /\ row.team = t /\ row.since = tmOps
  BY <1>0 DEF TeamRows
<1> HIDE DEF row
<1>3. tmMember' \in [Players -> TeamRows \cup {Outside}]
  <2>1. tmMember' = [tmMember EXCEPT ![m] = row]
    BY DEF Joined, row
  <2> QED
    BY <1>2, <2>1 DEF TeamsInv, TeamsTypes
<1>4. TeamsTypes'
  BY <1>0, <1>3 DEF TeamsInv, TeamsTypes
<1>5. \A x \in Players : tmMember'[x] # Outside =>
         tmTeam'[tmMember'[x].team].here /\ tmMember'[x].since < tmOps'
  <2> SUFFICES ASSUME NEW x \in Players, tmMember'[x] # Outside
               PROVE  tmTeam'[tmMember'[x].team].here /\ tmMember'[x].since < tmOps'
    OBVIOUS
  <2>1. CASE x = m
    BY <1>0, <1>1, <1>2, <2>1
  <2>2. CASE x # m
    <3>1. tmMember[x] \in TeamRows /\ tmMember'[x] = tmMember[x]
      BY <1>1, <2>2, MemberIs
    <3> QED
      BY <1>0, <3>1 DEF TeamsInv, TeamsThere, TeamRows
  <2> QED
    BY <2>1, <2>2
<1>6. TeamsThere'
  BY <1>5 DEF TeamsInv, TeamsThere, TeamsTypes
<1> QED
  BY <1>4, <1>6

(* The holder of the lock fills the seat it counted.                       *)
LEMMA SeatFilled ==
  ASSUME TeamsInv, NEW p \in Players, NEW m \in Players, NEW t \in TeamIds,
         tmMember[m] = Outside, Joined(m, t, FALSE), tmTeam[t].here,
         Locked(p, t), Unlocks(t), Ends(p), tmApps' \subseteq tmApps,
         UNCHANGED <<tmTeam, tmStale>>
  PROVE  TeamsInv'
<1> USE TeamsAssumption
<1>1. \A x \in Players : tmReq'[x] = IF x = p THEN IdleReq ELSE tmReq[x]
  BY DEF Ends, Goes, TeamsInv, TeamsTypes
<1>2. tmLock[t] = p /\ tmReq[p].pc \in {"joining", "approving"}
  BY DEF TeamsInv, SeatKept, Locked
<1>3. \A u \in TeamIds : tmLock'[u] = IF u = t THEN "none" ELSE tmLock[u]
  BY DEF Unlocks, TeamsInv, TeamsTypes
<1>4. /\ m \notin Roster(t)
      /\ \A u \in TeamIds : Roster(u)' = IF u = t THEN Roster(t) \cup {m} ELSE Roster(u)
      /\ \A u \in TeamIds : Captains(u)' = Captains(u)
  BY RosterGains
<1>5. TeamsTypes' /\ TeamsThere'
  <2>1. tmReq' \in [Players -> TeamReqs] /\ tmLock' \in [TeamIds -> Players \cup {"none"}]
    BY DEF Ends, Goes, Unlocks, TeamsInv, TeamsTypes, TeamReqs
  <2>2. /\ tmTeam' \in [TeamIds -> [here : BOOLEAN, approval : BOOLEAN, used : BOOLEAN]]
        /\ \A u \in TeamIds : tmTeam[u].here => tmTeam'[u].here
        /\ \A u \in TeamIds : tmTeam'[u].here => tmTeam'[u].used
    BY DEF TeamsInv, TeamsTypes, TeamsThere
  <2> QED
    BY <2>1, <2>2, SeatedThere
<1>6. SeatKept'
  <2> SUFFICES ASSUME NEW u \in TeamIds
               PROVE  /\ IsFiniteSet(Roster(u)') /\ Cardinality(Roster(u)') <= MaxTeamSize
                      /\ \A x \in Players : Locked(x, u)' <=> tmLock'[u] = x
                      /\ tmLock'[u] # "none" => tmTeam'[u].used /\ Cardinality(Roster(u)') < MaxTeamSize
    BY DEF SeatKept
  <2>1. \A x \in Players : Locked(x, u)' <=> tmLock'[u] = x
    <3>1. \A x \in Players : Locked(x, u)' <=> x # p /\ Locked(x, u)
      BY <1>1 DEF Locked, IdleReq
    <3>2. \A x \in Players : Locked(x, u) <=> tmLock[u] = x
      BY DEF TeamsInv, SeatKept
    <3>3. Locked(p, u) => u = t
      BY DEF Locked
    <3> QED
      BY <1>2, <1>3, <3>1, <3>2, <3>3
  <2>2. CASE u = t
    <3>1. IsFiniteSet(Roster(t)) /\ Cardinality(Roster(t)) < MaxTeamSize
      BY <1>2 DEF TeamsInv, SeatKept
    <3>2. /\ IsFiniteSet(Roster(t) \cup {m}) /\ Cardinality(Roster(t)) \in Nat
          /\ Cardinality(Roster(t) \cup {m}) = Cardinality(Roster(t)) + 1
      BY <1>4, <3>1, FS_AddElement, FS_CardinalityType
    <3> QED
      BY <1>3, <1>4, <2>1, <2>2, <3>1, <3>2
  <2>3. CASE u # t
    BY <1>3, <1>4, <2>1, <2>3 DEF TeamsInv, SeatKept
  <2> QED
    BY <2>2, <2>3
<1>7. \A x \in Players : Departure(x)'
  <2>1. \A x \in Players : Departs(x, tmReq[x], tmMember', tmOps')
    BY DepartureApart
  <2>2. Departs(p, IdleReq, tmMember', tmOps')
    BY DEF Departs, IdleReq
  <2> QED
    BY <1>1, <2>1, <2>2, DepartureIs
<1>8. Captaincy'
  BY <1>4 DEF TeamsInv, Captaincy
<1> QED
  BY <1>5, <1>6, <1>7, <1>8 DEF TeamsInv

(* A new team with its captain.                                            *)
LEMMA TeamFounded ==
  ASSUME TeamsInv, NEW p \in Players, NEW t \in TeamIds, NEW approval \in BOOLEAN,
         tmReq[p].pc = "create", ~ tmTeam[t].used, tmMember[p] = Outside,
         tmTeam' = [tmTeam EXCEPT ![t] = [here |-> TRUE, approval |-> approval, used |-> TRUE]],
         Joined(p, t, TRUE), Ends(p), UNCHANGED <<tmApps, tmLock, tmStale>>
  PROVE  TeamsInv'
<1> USE TeamsAssumption
<1>1. \A x \in Players : tmReq'[x] = IF x = p THEN IdleReq ELSE tmReq[x]
  BY DEF Ends, Goes, TeamsInv, TeamsTypes
<1>2. /\ tmTeam'[t].here /\ tmTeam'[t].used
      /\ \A u \in TeamIds \ {t} : tmTeam'[u] = tmTeam[u]
  BY DEF TeamsInv, TeamsTypes
<1>3. Roster(t) = {} /\ Captains(t) = {}
  <2>1. ~ tmTeam[t].here
    BY DEF TeamsInv, TeamsThere
  <2>2. \A x \in Players : tmMember[x].team # t
    BY <2>1, MemberIs DEF TeamsInv, TeamsThere
  <2> QED
    BY <2>2 DEF Roster, Captains
<1>4. /\ \A u \in TeamIds : Roster(u)' = IF u = t THEN Roster(t) \cup {p} ELSE Roster(u)
      /\ \A u \in TeamIds : Captains(u)' = IF u = t THEN Captains(t) \cup {p} ELSE Captains(u)
  BY RosterGains
<1>5. TeamsTypes' /\ TeamsThere'
  <2>1. tmReq' \in [Players -> TeamReqs] /\ tmLock' \in [TeamIds -> Players \cup {"none"}]
    BY DEF Ends, Goes, TeamsInv, TeamsTypes, TeamReqs
  <2>2. /\ tmTeam' \in [TeamIds -> [here : BOOLEAN, approval : BOOLEAN, used : BOOLEAN]]
    BY DEF TeamsInv, TeamsTypes
  <2>3. /\ \A u \in TeamIds : tmTeam[u].here => tmTeam'[u].here
        /\ \A u \in TeamIds : tmTeam'[u].here => tmTeam'[u].used
    BY <1>2 DEF TeamsInv, TeamsThere
  <2> QED
    BY <1>2, <2>1, <2>2, <2>3, SeatedThere
<1>6. SeatKept'
  <2> SUFFICES ASSUME NEW u \in TeamIds
               PROVE  /\ IsFiniteSet(Roster(u)') /\ Cardinality(Roster(u)') <= MaxTeamSize
                      /\ \A x \in Players : Locked(x, u)' <=> tmLock'[u] = x
                      /\ tmLock'[u] # "none" => tmTeam'[u].used /\ Cardinality(Roster(u)') < MaxTeamSize
    BY DEF SeatKept
  <2>1. \A x \in Players : Locked(x, u)' <=> tmLock'[u] = x
    <3>1. \A x \in Players : Locked(x, u)' <=> Locked(x, u)
      BY <1>1 DEF Locked, IdleReq
    <3> QED
      BY <3>1 DEF TeamsInv, SeatKept
  <2>2. CASE u = t
    <3>1. tmLock'[t] = "none"
      BY DEF TeamsInv, SeatKept
    <3>2. Roster(u)' = {p}
      BY <1>3, <1>4, <2>2
    <3>3. IsFiniteSet({p}) /\ Cardinality({p}) = 1
      BY FS_Singleton
    <3> QED
      BY <2>1, <2>2, <3>1, <3>2, <3>3
  <2>3. CASE u # t
    BY <1>2, <1>4, <2>1, <2>3 DEF TeamsInv, SeatKept
  <2> QED
    BY <2>2, <2>3
<1>7. \A x \in Players : Departure(x)'
  <2>1. \A x \in Players : Departs(x, tmReq[x], tmMember', tmOps')
    BY DepartureApart
  <2>2. Departs(p, IdleReq, tmMember', tmOps')
    BY DEF Departs, IdleReq
  <2> QED
    BY <1>1, <2>1, <2>2, DepartureIs
<1>8. Captaincy'
  BY <1>2, <1>3, <1>4 DEF TeamsInv, Captaincy
<1> QED
  BY <1>5, <1>6, <1>7, <1>8 DEF TeamsInv

(* The last member's departure takes the team with it.                     *)
LEMMA TeamGoes ==
  ASSUME TeamsInv, NEW p \in Players, LeaveCommit(p), tmReq[p].last
  PROVE  TeamsInv'
<1> USE TeamsAssumption
<1> DEFINE t == tmReq[p].row.team
<1>1. /\ tmReq[p].pc = "leaving" /\ tmLock[t] = "none" /\ Disband(t) /\ Ends(p)
      /\ \A x \in Roster(t) \ {p} : tmReq[x].pc # "leaving"
      /\ UNCHANGED <<tmLock, tmOps, tmStale>>
  BY DEF LeaveCommit, Deleting
<1>2. t \in TeamIds
  BY <1>1 DEF TeamsInv, TeamsTypes, TeamReqs, IdleReq, TeamRows
<1> HIDE DEF t
<1>3. \A x \in Players : tmReq'[x] = IF x = p THEN IdleReq ELSE tmReq[x]
  BY <1>1 DEF Ends, Goes, TeamsInv, TeamsTypes
<1>4. /\ \A x \in Players : tmMember'[x] = IF x \in Roster(t) THEN Outside ELSE tmMember[x]
      /\ \A x \in Players : tmMember[x].team = t <=> x \in Roster(t)
  BY <1>1 DEF Disband, Roster
<1>5. /\ ~ tmTeam'[t].here /\ tmTeam'[t].used = tmTeam[t].used
      /\ \A u \in TeamIds \ {t} : tmTeam'[u] = tmTeam[u]
      /\ tmTeam' \in [TeamIds -> [here : BOOLEAN, approval : BOOLEAN, used : BOOLEAN]]
  <2> DEFINE TeamRow == [here : BOOLEAN, approval : BOOLEAN, used : BOOLEAN]
  <2>1. tmTeam \in [TeamIds -> TeamRow]
    BY DEF TeamsInv, TeamsTypes
  <2>2. PICK g : g = [tmTeam[t] EXCEPT !.here = FALSE]
    OBVIOUS
  <2>3. tmTeam' = [tmTeam EXCEPT ![t] = g]
    BY <1>1, <2>2 DEF Disband
  <2>4. g \in TeamRow /\ ~ g.here /\ g.used = tmTeam[t].used
    BY <1>2, <2>1, <2>2
  <2> HIDE DEF TeamRow
  <2>5. tmTeam' \in [TeamIds -> TeamRow] /\ \A u \in TeamIds : tmTeam'[u] = IF u = t THEN g ELSE tmTeam[u]
    BY <2>1, <2>3, <2>4
  <2> QED
    BY <1>2, <2>4, <2>5 DEF TeamRow
<1>6. \A u \in TeamIds : /\ Roster(u)' = IF u = t THEN {} ELSE Roster(u)
                         /\ Captains(u)' = IF u = t THEN {} ELSE Captains(u)
  BY <1>4 DEF Roster, Captains, Outside
<1>7. TeamsTypes'
  <2>1. tmMember' \in [Players -> TeamRows \cup {Outside}]
    BY <1>1 DEF Disband, TeamsInv, TeamsTypes
  <2>2. tmReq' \in [Players -> TeamReqs]
    BY <1>1 DEF Ends, Goes, TeamsInv, TeamsTypes, TeamReqs
  <2> QED
    BY <1>1, <1>5, <2>1, <2>2 DEF Disband, TeamsInv, TeamsTypes
<1>8. TeamsThere'
  <2>1. \A x \in Players : tmMember'[x] # Outside =>
           tmTeam'[tmMember'[x].team].here /\ tmMember'[x].since < tmOps'
    <3> SUFFICES ASSUME NEW x \in Players, tmMember'[x] # Outside
                 PROVE  tmTeam'[tmMember'[x].team].here /\ tmMember'[x].since < tmOps'
      OBVIOUS
    <3>1. tmMember'[x] = tmMember[x] /\ tmMember[x].team # t
      BY <1>4
    <3>2. tmMember[x].team \in TeamIds
      BY <3>1, MemberIs DEF TeamRows
    <3> QED
      BY <1>1, <1>5, <3>1, <3>2 DEF TeamsInv, TeamsThere
  <2>2. \A a \in tmApps' : tmTeam'[a[1]].here
    BY <1>1, <1>5 DEF Disband, TeamsInv, TeamsThere, TeamsTypes
  <2>3. \A u \in TeamIds : tmTeam'[u].here => tmTeam'[u].used
    BY <1>5 DEF TeamsInv, TeamsThere
  <2> QED
    BY <2>1, <2>2, <2>3 DEF TeamsThere
<1>9. SeatKept'
  <2>1. \A u \in TeamIds, x \in Players : Locked(x, u)' <=> tmLock'[u] = x
    <3>1. \A u \in TeamIds, x \in Players : Locked(x, u)' <=> Locked(x, u)
      BY <1>1, <1>3 DEF Locked, IdleReq
    <3> QED
      BY <1>1, <3>1 DEF TeamsInv, SeatKept
  <2>2. IsFiniteSet({}) /\ Cardinality({}) = 0
    BY FS_EmptySet
  <2>3. \A u \in TeamIds : /\ IsFiniteSet(Roster(u)') /\ Cardinality(Roster(u)') <= MaxTeamSize
                           /\ tmLock'[u] # "none" => /\ tmTeam'[u].used
                                                     /\ Cardinality(Roster(u)') < MaxTeamSize
    <3> SUFFICES ASSUME NEW u \in TeamIds
                 PROVE  /\ IsFiniteSet(Roster(u)') /\ Cardinality(Roster(u)') <= MaxTeamSize
                        /\ tmLock'[u] # "none" => /\ tmTeam'[u].used
                                                  /\ Cardinality(Roster(u)') < MaxTeamSize
      OBVIOUS
    <3>1. CASE u = t
      <4>1. Roster(u)' = {} /\ tmLock'[u] = "none"
        BY <1>1, <1>6, <3>1
      <4> QED
        BY <2>2, <4>1
    <3>2. CASE u # t
      <4>1. Roster(u)' = Roster(u) /\ tmLock'[u] = tmLock[u] /\ tmTeam'[u] = tmTeam[u]
        BY <1>1, <1>5, <1>6, <3>2
      <4> QED
        BY <4>1 DEF TeamsInv, SeatKept
    <3> QED
      BY <3>1, <3>2
  <2> QED
    BY <2>1, <2>3 DEF SeatKept
<1>10. \A x \in Players : Departure(x)'
  <2> SUFFICES ASSUME NEW x \in Players
               PROVE  Departs(x, tmReq'[x], tmMember', tmOps')
    BY DepartureIs
  <2>1. CASE x = p
    BY <1>3, <2>1 DEF Departs, IdleReq
  <2>2. CASE x # p /\ x \notin Roster(t)
    <3>1. Departs(x, tmReq[x], tmMember, tmOps)
      BY DepartureIs DEF TeamsInv
    <3> QED
      BY <1>1, <1>3, <1>4, <2>2, <3>1 DEF Departs
  <2>3. CASE x # p /\ x \in Roster(t)
    <3>1. Departs(x, tmReq[x], tmMember, tmOps)
      BY DepartureIs DEF TeamsInv
    <3>2. tmReq'[x] = tmReq[x] /\ tmReq[x].pc # "leaving" /\ tmMember'[x].team \notin TeamIds
      BY <1>1, <1>3, <1>4, <2>3 DEF Outside
    <3>3. tmReq[x].pc = "leave" => tmReq[x].row.team \in TeamIds
      BY DEF TeamsInv, TeamsTypes, TeamReqs, IdleReq, TeamRows
    <3> QED
      BY <1>1, <3>1, <3>2, <3>3 DEF Departs
  <2> QED
    BY <2>1, <2>2, <2>3
<1>11. Captaincy'
  BY <1>1, <1>5, <1>6 DEF TeamsInv, Captaincy
<1> QED
  BY <1>7, <1>8, <1>9, <1>10, <1>11 DEF TeamsInv

(* A member goes, and from a captain the heir inherits.                    *)
LEMMA MemberGoes ==
  ASSUME TeamsInv, NEW p \in Players, LeaveCommit(p), ~ tmReq[p].last,
         \A h \in tmReq[p].heir : Same(h.who, h.row)
  PROVE  TeamsInv'
<1> USE TeamsAssumption
<1> DEFINE r == tmReq[p]   t == r.row.team   heirs == {h.who : h \in r.heir}
<1>1. /\ r.pc = "leaving" /\ Ends(p)
      /\ tmStale' = IF tmMember[p].captain # r.row.captain THEN tmStale \cup {t} ELSE tmStale
      /\ UNCHANGED <<tmLock, tmOps, tmTeam, tmApps>>
  BY DEF LeaveCommit, Deleting
<1>2. /\ r.row \in TeamRows /\ t \in TeamIds
      /\ r.heir \subseteq [who : Players, row : TeamRows]
  BY <1>1 DEF TeamsInv, TeamsTypes, TeamReqs, IdleReq, TeamRows
<1>3. Departs(p, r, tmMember, tmOps)
  BY DepartureIs DEF TeamsInv
<1>4. tmMember[p].team = t /\ tmMember[p] \in TeamRows
  BY <1>1, <1>2, <1>3, MemberIs DEF Departs
<1>5. \A x \in heirs : /\ x \in Players /\ x # p /\ tmMember[x].team = t /\ tmMember[x] \in TeamRows
                       /\ tmReq[x].pc # "leaving"
  <2> SUFFICES ASSUME NEW h \in r.heir
               PROVE  /\ h.who \in Players /\ h.who # p /\ tmMember[h.who].team = t
                      /\ tmMember[h.who] \in TeamRows /\ tmReq[h.who].pc # "leaving"
    OBVIOUS
  <2>1. h.who \in Players /\ h.who # p /\ h.row.team = t
    BY <1>1, <1>2, <1>3 DEF Departs
  <2>2. tmMember[h.who].team = t
    BY <2>1 DEF Same
  <2>3. ~ Deleting(h.who)
    BY DEF LeaveCommit
  <2> QED
    BY <1>2, <2>1, <2>2, <2>3, MemberIs DEF Deleting
<1>6. \A x \in Players : tmMember'[x] = IF x = p THEN Outside
                                        ELSE IF x \in heirs THEN [tmMember[x] EXCEPT !.captain = TRUE]
                                        ELSE tmMember[x]
  <2>1. tmMember' = [x \in Players |->
                       IF x = p THEN Outside
                       ELSE IF \E h \in r.heir : h.who = x
                       THEN [tmMember[x] EXCEPT !.captain = TRUE] ELSE tmMember[x]]
    BY DEF LeaveCommit
  <2>2. \A x : x \in heirs <=> \E h \in r.heir : h.who = x
    OBVIOUS
  <2> HIDE DEF heirs
  <2> QED
    BY <2>1, <2>2
<1>7. \A x \in Players : tmReq'[x] = IF x = p THEN IdleReq ELSE tmReq[x]
  BY <1>1 DEF Ends, Goes, TeamsInv, TeamsTypes
<1>8. r.row.captain => tmMember[p].captain
  BY <1>1, <1>3 DEF Departs
<1>9. /\ \A x, y \in heirs : x = y
      /\ heirs # {} => r.row.captain
      /\ r.row.captain => heirs # {}
  BY <1>1, <1>3 DEF Departs
<1> HIDE DEF r, t, heirs
<1>10. \A x \in Players \ {p} : /\ tmMember'[x].team = tmMember[x].team
                                /\ tmMember'[x].since = tmMember[x].since
                                /\ tmMember[x].captain => tmMember'[x].captain
                                /\ tmMember[x] = Outside => tmMember'[x] = Outside
                                /\ tmMember[x] \in TeamRows => tmMember'[x] \in TeamRows
                                /\ x \in heirs => tmMember'[x].captain
                                /\ x \notin heirs => tmMember'[x] = tmMember[x]
  <2> SUFFICES ASSUME NEW x \in Players, x # p
               PROVE  /\ tmMember'[x].team = tmMember[x].team
                      /\ tmMember'[x].since = tmMember[x].since
                      /\ tmMember[x].captain => tmMember'[x].captain
                      /\ tmMember[x] = Outside => tmMember'[x] = Outside
                      /\ tmMember[x] \in TeamRows => tmMember'[x] \in TeamRows
                      /\ x \in heirs => tmMember'[x].captain
                      /\ x \notin heirs => tmMember'[x] = tmMember[x]
    OBVIOUS
  <2>1. CASE x \in heirs
    <3>1. tmMember'[x] = [tmMember[x] EXCEPT !.captain = TRUE] /\ tmMember[x] \in TeamRows
      BY <1>5, <1>6, <2>1
    <3>2. tmMember[x] # Outside
      BY <3>1 DEF TeamRows, Outside
    <3> QED
      BY <2>1, <3>1, <3>2 DEF TeamRows
  <2>2. CASE x \notin heirs
    BY <1>6, <2>2
  <2> QED
    BY <2>1, <2>2
<1>11. \A u \in TeamIds : Roster(u)' = Roster(u) \ {p}
  <2>1. tmMember'[p].team \notin TeamIds
    <3>1. tmMember'[p] = Outside
      BY <1>6
    <3> QED
      BY <3>1 DEF Outside
  <2> QED
    BY <1>10, <2>1 DEF Roster
<1>12. \A u \in TeamIds : Captains(u)' = IF u = t THEN (Captains(u) \ {p}) \cup heirs ELSE Captains(u)
  <2>1. p \notin UNION {Captains(u)' : u \in TeamIds}
    BY <1>11 DEF Captains
  <2>2. \A u \in TeamIds, x \in Players \ {p} :
           x \in Captains(u)' <=> tmMember[x].team = u /\ (tmMember[x].captain \/ x \in heirs)
    BY <1>10, <1>11 DEF Captains, Roster
  <2> QED
    BY <1>4, <1>5, <2>1, <2>2 DEF Captains, Roster
<1>13. TeamsTypes'
  <2>1. tmMember' \in [Players -> TeamRows \cup {Outside}]
    <3>1. DOMAIN tmMember' = Players /\ tmMember' = [x \in Players |-> tmMember'[x]]
      BY DEF LeaveCommit
    <3>2. \A x \in Players : tmMember'[x] \in TeamRows \cup {Outside}
      BY <1>6, <1>10 DEF TeamsInv, TeamsTypes
    <3> QED
      BY <3>1, <3>2
  <2>2. tmReq' \in [Players -> TeamReqs]
    BY <1>1 DEF Ends, Goes, TeamsInv, TeamsTypes, TeamReqs
  <2> QED
    BY <1>1, <1>2, <2>1, <2>2 DEF TeamsInv, TeamsTypes
<1>14. TeamsThere'
  <2>1. \A x \in Players : tmMember'[x] # Outside =>
           tmTeam'[tmMember'[x].team].here /\ tmMember'[x].since < tmOps'
    BY <1>1, <1>6, <1>10 DEF TeamsInv, TeamsThere
  <2> QED
    BY <1>1, <2>1 DEF TeamsInv, TeamsThere
<1>15. SeatKept'
  <2>1. \A u \in TeamIds, x \in Players : Locked(x, u)' <=> tmLock'[u] = x
    <3>1. \A u \in TeamIds, x \in Players : Locked(x, u)' <=> Locked(x, u)
      BY <1>1, <1>7 DEF Locked, IdleReq, r
    <3> QED
      BY <1>1, <3>1 DEF TeamsInv, SeatKept
  <2>2. \A u \in TeamIds : /\ IsFiniteSet(Roster(u)') /\ Cardinality(Roster(u)') <= Cardinality(Roster(u))
                           /\ Cardinality(Roster(u)') \in Nat /\ Cardinality(Roster(u)) \in Nat
    <3> SUFFICES ASSUME NEW u \in TeamIds
                 PROVE  /\ IsFiniteSet(Roster(u)') /\ Cardinality(Roster(u)') <= Cardinality(Roster(u))
                        /\ Cardinality(Roster(u)') \in Nat /\ Cardinality(Roster(u)) \in Nat
      OBVIOUS
    <3>1. IsFiniteSet(Roster(u)) /\ Roster(u)' \subseteq Roster(u)
      BY <1>11 DEF TeamsInv, SeatKept
    <3> QED
      BY <3>1, FS_Subset, FS_CardinalityType
  <2> QED
    BY <1>1, <2>1, <2>2 DEF TeamsInv, SeatKept
<1>16. \A x \in Players : Departure(x)'
  <2> SUFFICES ASSUME NEW x \in Players
               PROVE  Departs(x, tmReq'[x], tmMember', tmOps')
    BY DepartureIs
  <2>1. CASE x = p
    BY <1>7, <2>1 DEF Departs, IdleReq
  <2>2. CASE x # p
    <3>1. Departs(x, tmReq[x], tmMember, tmOps)
      BY DepartureIs DEF TeamsInv
    <3> QED
      BY <1>1, <1>7, <1>10, <2>2, <3>1 DEF Departs
  <2> QED
    BY <2>1, <2>2
<1>17. Captaincy'
  <2> SUFFICES ASSUME NEW u \in TeamIds
               PROVE  /\ \A x, y \in Captains(u)' : x = y
                      /\ tmTeam'[u].here /\ u \notin tmStale' => Captains(u)' # {}
    BY DEF Captaincy
  <2>0. /\ \A x, y \in Captains(u) : x = y
        /\ tmTeam[u].here /\ u \notin tmStale => Captains(u) # {}
    BY DEF TeamsInv, Captaincy
  <2>1. CASE u # t
    BY <1>1, <1>12, <2>0, <2>1
  <2>2. CASE u = t /\ r.row.captain
    <3>1. p \in Captains(u)
      BY <1>4, <1>8, <2>2 DEF Captains, Roster
    <3>2. Captains(u)' = heirs
      BY <1>12, <2>0, <2>2, <3>1
    <3> QED
      BY <1>9, <2>2, <3>2
  <2>3. CASE u = t /\ ~ r.row.captain
    <3>1. Captains(u)' = Captains(u) \ {p}
      BY <1>9, <1>12, <2>3
    <3>2. u \notin tmStale' => ~ tmMember[p].captain /\ u \notin tmStale
      <4>1. tmMember[p].captain \in BOOLEAN /\ r.row.captain \in BOOLEAN
        BY <1>2, <1>4 DEF TeamRows
      <4> QED
        BY <1>1, <2>3, <4>1
    <3>3. u \notin tmStale' => p \notin Captains(u)
      BY <3>2 DEF Captains
    <3> QED
      BY <1>1, <2>0, <3>1, <3>2, <3>3
  <2> QED
    BY <2>1, <2>2, <2>3
<1> QED
  BY <1>13, <1>14, <1>15, <1>16, <1>17 DEF TeamsInv

(* A request that holds nothing moves no lock.                             *)
LEMMA NoLockMoves ==
  ASSUME TeamsInv, NEW p \in Players, NEW r, UNCHANGED tmLock,
         \A t \in TeamIds : Locked(p, t) <=> WouldLock(r, t)
  PROVE  LocksMove(p, r)
  BY TeamsAssumption DEF TeamsInv, TeamsTypes, SeatKept, LocksMove

(* A locked read finds a seat and keeps the row.                           *)
LEMMA LockTaken ==
  ASSUME TeamsInv, NEW p \in Players, NEW t \in TeamIds, NEW r,
         \A u \in TeamIds : ~ Locked(p, u), \A u \in TeamIds : WouldLock(r, u) <=> u = t,
         Locks(t, p), tmTeam[t].here, ~ Full(t)
  PROVE  LocksMove(p, r)
<1>1. tmLock' \in [TeamIds -> Players \cup {"none"}]
  BY DEF Locks, TeamsInv, TeamsTypes
<1>2. \A u \in TeamIds : tmLock'[u] = IF u = t THEN p ELSE tmLock[u]
  BY DEF Locks, TeamsInv, TeamsTypes
<1>3. tmTeam[t].used /\ Cardinality(Roster(t)) < MaxTeamSize
  <2>1. IsFiniteSet(Roster(t)) /\ Cardinality(Roster(t)) \in Nat
    BY FS_CardinalityType DEF TeamsInv, SeatKept
  <2> QED
    BY <2>1, TeamsAssumption DEF Full, TeamsInv, TeamsThere
<1>4. \A u \in TeamIds : tmLock[u] # p
  BY DEF TeamsInv, SeatKept
<1>5. tmLock[t] = "none" /\ "none" \notin Players
  BY TeamsAssumption DEF Locks
<1> QED
  BY <1>1, <1>2, <1>3, <1>4, <1>5 DEF LocksMove

(* The end of the request that had the row of t.                           *)
LEMMA LockGoes ==
  ASSUME TeamsInv, NEW p \in Players, NEW t \in TeamIds, Locked(p, t), Unlocks(t)
  PROVE  LocksMove(p, IdleReq)
<1>1. tmLock' \in [TeamIds -> Players \cup {"none"}]
  BY DEF Unlocks, TeamsInv, TeamsTypes
<1>2. \A u \in TeamIds : tmLock'[u] = IF u = t THEN "none" ELSE tmLock[u]
  BY DEF Unlocks, TeamsInv, TeamsTypes
<1>3. \A u \in TeamIds : tmLock[u] = p <=> u = t
  BY DEF TeamsInv, SeatKept, Locked
<1>4. \A u \in TeamIds : ~ WouldLock(IdleReq, u)
  BY DEF WouldLock, IdleReq
<1> QED
  BY <1>1, <1>2, <1>3, <1>4, TeamsAssumption DEF LocksMove

(* A request that is not a departure is none.                              *)
LEMMA NoDeparture ==
  ASSUME NEW p, NEW r, NEW member, NEW ops, r.pc \notin {"leave", "leaving"}
  PROVE  Departs(p, r, member, ops)
  BY DEF Departs

(* A request begins, and loads a membership if it is a departure.          *)
LEMMA RequestStarts ==
  ASSUME TeamsInv, NEW p \in Players, NEW r \in TeamReqs, Starts(p, r),
         r.pc \notin {"joining", "approving", "leaving"},
         r.pc = "leave" => tmMember[p] # Outside /\ r.row = tmMember[p],
         UNCHANGED <<tmTeam, tmMember, tmApps, tmLock, tmStale>>
  PROVE  TeamsInv'
<1>1. tmReq[p] = IdleReq /\ tmOps' = tmOps + 1 /\ tmOps \in Nat /\ tmReq' = [tmReq EXCEPT ![p] = r]
  BY DEF Starts, TeamsInv, TeamsTypes
<1>2. LocksMove(p, r)
  BY <1>1, NoLockMoves DEF Locked, WouldLock, IdleReq
<1>3. Departs(p, r, tmMember, tmOps')
  <2>1. r.pc = "leave" => tmMember[p].since < tmOps /\ tmMember[p].since \in Nat
    BY MemberIs DEF TeamsInv, TeamsThere, TeamRows
  <2> QED
    BY <1>1, <2>1 DEF Departs
<1>4. /\ tmApps' \subseteq TeamIds \X Players /\ \A a \in tmApps' : tmTeam[a[1]].here
      /\ tmStale' \subseteq TeamIds /\ tmStale \subseteq tmStale'
  BY DEF TeamsInv, TeamsTypes, TeamsThere
<1>5. tmOps' \in Nat /\ tmOps <= tmOps'
  BY <1>1
<1> QED
  BY <1>1, <1>2, <1>3, <1>4, <1>5, TeamReqMoves

(* A request goes on that begins no membership and ends none.              *)
LEMMA RequestGoes ==
  ASSUME TeamsInv, NEW p \in Players, NEW r \in TeamReqs, Goes(p, r), LocksMove(p, r),
         r.pc \notin {"leave", "leaving"},
         tmApps' \subseteq TeamIds \X Players, \A a \in tmApps' : tmTeam[a[1]].here,
         tmStale' \subseteq TeamIds, tmStale \subseteq tmStale',
         UNCHANGED <<tmTeam, tmMember, tmOps>>
  PROVE  TeamsInv'
<1>1. tmReq' = [tmReq EXCEPT ![p] = r] /\ tmOps' \in Nat /\ tmOps <= tmOps'
  BY DEF Goes, TeamsInv, TeamsTypes
<1>2. Departs(p, r, tmMember, tmOps')
  BY NoDeparture
<1> QED
  BY <1>1, <1>2, TeamReqMoves

(* The applications, unless an application is added.                       *)
LEMMA AppsStand ==
  ASSUME TeamsInv, tmApps' \subseteq tmApps
  PROVE  tmApps' \subseteq TeamIds \X Players /\ \A a \in tmApps' : tmTeam[a[1]].here
  BY DEF TeamsInv, TeamsTypes, TeamsThere

(* join_team.                                                              *)
LEMMA JoinTeamStep ==
  ASSUME TeamsInv, NEW p \in Players,
         (\E t \in TeamIds : JoinCheck(p, t)) \/ JoinLock(p) \/ JoinCommit(p)
  PROVE  TeamsInv'
<1>i. IdleReq \in TeamReqs /\ IdleReq.pc = "idle"
  BY DEF TeamReqs, IdleReq
<1>s. tmStale \subseteq TeamIds
  BY DEF TeamsInv, TeamsTypes
<1>1. ASSUME NEW t \in TeamIds, JoinCheck(p, t)
      PROVE  TeamsInv'
  <2>1. [pc |-> "join", team |-> t] \in TeamReqs
    BY DEF TeamReqs
  <2> QED
    BY <1>1, <2>1, RequestStarts DEF JoinCheck
<1>2. CASE JoinLock(p)
  <2> DEFINE t == tmReq[p].team   r == [pc |-> "joining", team |-> t, apply |-> tmTeam[t].approval]
  <2>1. tmReq[p].pc = "join" /\ t \in TeamIds /\ \A u \in TeamIds : ~ Locked(p, u)
    BY <1>2 DEF JoinLock, TeamsInv, TeamsTypes, TeamReqs, IdleReq, Locked
  <2>2. r \in TeamReqs /\ r.pc = "joining" /\ \A u \in TeamIds : WouldLock(r, u) <=> u = t
    <3>1. tmTeam[t].approval \in BOOLEAN
      BY <2>1 DEF TeamsInv, TeamsTypes
    <3> QED
      BY <2>1, <3>1 DEF TeamReqs, WouldLock
  <2>3. UNCHANGED <<tmTeam, tmMember, tmOps, tmStale, tmApps>>
    BY <1>2 DEF JoinLock
  <2>4. CASE tmTeam[t].here /\ ~ Full(t)
    <3>1. Locks(t, p) /\ Goes(p, r)
      BY <1>2, <2>4 DEF JoinLock
    <3> HIDE DEF r, t
    <3>2. LocksMove(p, r)
      BY <2>1, <2>2, <2>4, <3>1, LockTaken
    <3> QED
      BY <1>s, <2>2, <2>3, <3>1, <3>2, RequestGoes, AppsStand
  <2>5. CASE ~ (tmTeam[t].here /\ ~ Full(t))
    <3>1. UNCHANGED tmLock /\ Goes(p, IdleReq)
      BY <1>2, <2>5 DEF JoinLock, Ends
    <3>2. LocksMove(p, IdleReq)
      BY <2>1, <3>1, NoLockMoves DEF WouldLock, IdleReq
    <3> QED
      BY <1>i, <1>s, <2>3, <3>1, <3>2, RequestGoes, AppsStand
  <2> QED
    BY <2>4, <2>5
<1>3. CASE JoinCommit(p)
  <2> DEFINE t == tmReq[p].team
  <2>1. tmReq[p].pc = "joining" /\ t \in TeamIds /\ Unlocks(t) /\ Goes(p, IdleReq)
    BY <1>3 DEF JoinCommit, Ends, TeamsInv, TeamsTypes, TeamReqs, IdleReq
  <2>2. Locked(p, t)
    BY <2>1 DEF Locked
  <2>3. LocksMove(p, IdleReq)
    BY <2>1, <2>2, LockGoes
  <2>4. UNCHANGED <<tmTeam, tmStale>>
    BY <1>3 DEF JoinCommit
  <2>5. \/ /\ tmTeam[t].here /\ tmMember[p] = Outside /\ Joined(p, t, FALSE) /\ UNCHANGED tmApps
        \/ /\ tmTeam[t].here /\ tmApps' = tmApps \cup {<<t, p>>} /\ UNCHANGED <<tmMember, tmOps>>
        \/ UNCHANGED <<tmMember, tmApps, tmOps>>
    BY <1>3 DEF JoinCommit
  <2> HIDE DEF t
  <2>6. CASE tmTeam[t].here /\ tmMember[p] = Outside /\ Joined(p, t, FALSE) /\ UNCHANGED tmApps
    BY <2>1, <2>2, <2>4, <2>6, SeatFilled DEF Ends
  <2>7. CASE tmTeam[t].here /\ tmApps' = tmApps \cup {<<t, p>>} /\ UNCHANGED <<tmMember, tmOps>>
    <3>1. tmApps' \subseteq TeamIds \X Players /\ \A a \in tmApps' : tmTeam[a[1]].here
      BY <2>1, <2>7 DEF TeamsInv, TeamsTypes, TeamsThere
    <3> QED
      BY <1>i, <1>s, <2>1, <2>3, <2>4, <2>7, <3>1, RequestGoes
  <2>8. CASE UNCHANGED <<tmMember, tmApps, tmOps>>
    BY <1>i, <1>s, <2>1, <2>3, <2>4, <2>8, RequestGoes, AppsStand
  <2> QED
    BY <2>5, <2>6, <2>7, <2>8
<1> QED
  BY <1>1, <1>2, <1>3

(* approve_join_request and reject_join_request.                           *)
LEMMA ReviewStep ==
  ASSUME TeamsInv, NEW c \in Players,
         \/ \E a \in tmApps, v \in {"approve", "reject"} : ReviewCheck(c, a, v)
         \/ ApproveLock(c) \/ ApproveCommit(c) \/ RejectCommit(c)
  PROVE  TeamsInv'
<1>i. IdleReq \in TeamReqs /\ IdleReq.pc = "idle"
  BY DEF TeamReqs, IdleReq
<1>s. tmStale \subseteq TeamIds /\ tmApps \subseteq TeamIds \X Players
  BY DEF TeamsInv, TeamsTypes
<1>1. ASSUME NEW a \in tmApps, NEW v \in {"approve", "reject"}, ReviewCheck(c, a, v)
      PROVE  TeamsInv'
  <2>1. [pc |-> v, app |-> a] \in TeamReqs
    BY <1>s DEF TeamReqs
  <2> QED
    BY <1>1, <2>1, RequestStarts DEF ReviewCheck
<1>2. CASE ApproveLock(c)
  <2> DEFINE app == tmReq[c].app   t == app[1]   adds == tmMember[app[2]] = Outside
             r == [pc |-> "approving", app |-> app, adds |-> adds]
  <2>1. tmReq[c].pc = "approve" /\ app \in TeamIds \X Players /\ \A u \in TeamIds : ~ Locked(c, u)
    BY <1>2 DEF ApproveLock, TeamsInv, TeamsTypes, TeamReqs, IdleReq, Locked
  <2>a. t \in TeamIds /\ adds \in BOOLEAN
    BY <2>1
  <2>b. /\ tmTeam[t].here /\ ~ Full(t) => Locks(t, c) /\ Goes(c, r)
        /\ ~ (tmTeam[t].here /\ ~ Full(t)) => UNCHANGED tmLock /\ Goes(c, IdleReq)
    BY <1>2 DEF ApproveLock, Ends
  <2> HIDE DEF adds
  <2>2. r \in TeamReqs /\ r.pc = "approving" /\ \A u \in TeamIds : WouldLock(r, u) <=> u = t
    BY <2>1, <2>a DEF TeamReqs, WouldLock
  <2>3. UNCHANGED <<tmTeam, tmMember, tmOps, tmStale, tmApps>>
    BY <1>2 DEF ApproveLock
  <2> HIDE DEF r, t
  <2>4. CASE tmTeam[t].here /\ ~ Full(t)
    <3>1. LocksMove(c, r)
      BY <2>1, <2>2, <2>4, <2>a, <2>b, LockTaken
    <3> QED
      BY <1>s, <2>2, <2>3, <2>4, <2>b, <3>1, RequestGoes, AppsStand
  <2>5. CASE ~ (tmTeam[t].here /\ ~ Full(t))
    <3>1. LocksMove(c, IdleReq)
      BY <2>1, <2>5, <2>b, NoLockMoves DEF WouldLock, IdleReq
    <3> QED
      BY <1>i, <1>s, <2>3, <2>5, <2>b, <3>1, RequestGoes, AppsStand
  <2> QED
    BY <2>4, <2>5
<1>3. CASE ApproveCommit(c)
  <2> DEFINE app == tmReq[c].app   t == app[1]   m == app[2]
  <2>1. /\ tmReq[c].pc = "approving" /\ app \in TeamIds \X Players
        /\ Unlocks(t) /\ Goes(c, IdleReq)
    BY <1>3 DEF ApproveCommit, Ends, TeamsInv, TeamsTypes, TeamReqs, IdleReq
  <2>a. t \in TeamIds /\ m \in Players
    BY <2>1
  <2>2. Locked(c, t)
    BY <2>1 DEF Locked
  <2>3. LocksMove(c, IdleReq)
    BY <2>1, <2>2, <2>a, LockGoes
  <2>4. UNCHANGED <<tmTeam, tmStale>>
    BY <1>3 DEF ApproveCommit
  <2>5. \/ /\ app \in tmApps /\ tmMember[m] = Outside /\ Joined(m, t, FALSE)
           /\ tmApps' = tmApps \ {app}
        \/ tmApps' \subseteq tmApps /\ UNCHANGED <<tmMember, tmOps>>
    BY <1>3 DEF ApproveCommit
  <2>6. app \in tmApps => tmTeam[t].here
    BY DEF TeamsInv, TeamsThere
  <2> HIDE DEF t, m, app
  <2>7. CASE /\ app \in tmApps /\ tmMember[m] = Outside /\ Joined(m, t, FALSE)
             /\ tmApps' = tmApps \ {app}
    <3>1. tmApps' \subseteq tmApps
      BY <2>7
    <3> QED
      BY <2>1, <2>2, <2>4, <2>6, <2>7, <2>a, <3>1, SeatFilled DEF Ends
  <2>8. CASE tmApps' \subseteq tmApps /\ UNCHANGED <<tmMember, tmOps>>
    BY <1>i, <1>s, <2>1, <2>3, <2>4, <2>8, RequestGoes, AppsStand
  <2> QED
    BY <2>5, <2>7, <2>8
<1>4. CASE RejectCommit(c)
  <2>1. /\ tmApps' \subseteq tmApps /\ Goes(c, IdleReq)
        /\ UNCHANGED <<tmTeam, tmMember, tmLock, tmOps, tmStale>>
    BY <1>4 DEF RejectCommit, Ends
  <2>2. LocksMove(c, IdleReq)
    BY <1>4, <2>1, NoLockMoves DEF RejectCommit, Locked, WouldLock, IdleReq
  <2> QED
    BY <1>i, <1>s, <2>1, <2>2, RequestGoes, AppsStand
<1> QED
  BY <1>1, <1>2, <1>3, <1>4

(* create_team.                                                            *)
LEMMA CreateTeamStep ==
  ASSUME TeamsInv, NEW p \in Players,
         CreateCheck(p) \/ \E t \in TeamIds, a \in BOOLEAN : CreateTeam(p, t, a)
  PROVE  TeamsInv'
<1>1. CASE CreateCheck(p)
  <2>1. [pc |-> "create"] \in TeamReqs
    BY DEF TeamReqs
  <2> QED
    BY <1>1, <2>1, RequestStarts DEF CreateCheck
<1>2. ASSUME NEW t \in TeamIds, NEW a \in BOOLEAN, CreateTeam(p, t, a)
      PROVE  TeamsInv'
  <2>1. CASE tmMember[p] = Outside
    BY <1>2, <2>1, TeamFounded DEF CreateTeam
  <2>2. CASE tmMember[p] # Outside
    <3>1. /\ UNCHANGED <<tmTeam, tmMember, tmOps, tmApps, tmLock, tmStale>> /\ Goes(p, IdleReq)
          /\ tmReq[p].pc = "create"
      BY <1>2, <2>2 DEF CreateTeam, Ends
    <3>2. LocksMove(p, IdleReq)
      BY <3>1, NoLockMoves DEF Locked, WouldLock, IdleReq
    <3>3. IdleReq \in TeamReqs /\ IdleReq.pc = "idle" /\ tmStale \subseteq TeamIds
      BY DEF TeamReqs, IdleReq, TeamsInv, TeamsTypes
    <3> QED
      BY <3>1, <3>2, <3>3, RequestGoes, AppsStand
  <2> QED
    BY <2>1, <2>2
<1> QED
  BY <1>1, <1>2

(* The longest-standing member is one of them.                             *)
LEMMA EldestIs ==
  ASSUME TeamsInv, NEW rest \in SUBSET Players, rest # {},
         \A x \in rest : tmMember[x] \in TeamRows
  PROVE  Eldest(rest) \in rest
<1> DEFINE S == {tmMember[x].since : x \in rest}
<1>1. S \in SUBSET Nat /\ S # {}
  BY DEF TeamRows
<1>2. PICK n \in S : \A k \in S : n <= k
  BY <1>1, LeastOne
<1>3. PICK x \in rest : tmMember[x].since = n
  OBVIOUS
<1>4. \A y \in rest : tmMember[x].since <= tmMember[y].since
  BY <1>2, <1>3
<1> QED
  BY <1>4 DEF Eldest

(* leave_team.                                                             *)
LEMMA LeaveTeamStep ==
  ASSUME TeamsInv, NEW p \in Players, LeaveLoad(p) \/ LeaveFlush(p) \/ LeaveCommit(p)
  PROVE  TeamsInv'
<1>i. IdleReq \in TeamReqs /\ IdleReq.pc = "idle"
  BY DEF TeamReqs, IdleReq
<1>s. tmStale \subseteq TeamIds
  BY DEF TeamsInv, TeamsTypes
<1>1. CASE LeaveLoad(p)
  <2>1. [pc |-> "leave", row |-> tmMember[p]] \in TeamReqs
    BY <1>1, MemberIs DEF LeaveLoad, TeamReqs
  <2> QED
    BY <1>1, <2>1, RequestStarts DEF LeaveLoad
<1>2. CASE LeaveFlush(p)
  <2> DEFINE row == tmReq[p].row   rest == Roster(row.team) \ {p}   heir == Heir(p, rest)
             r == [pc |-> "leaving", row |-> row, last |-> rest = {}, heir |-> heir]
  <2>1. /\ tmReq[p].pc = "leave" /\ row \in TeamRows
        /\ UNCHANGED <<tmTeam, tmMember, tmApps, tmLock, tmOps, tmStale>>
    BY <1>2 DEF LeaveFlush, TeamsInv, TeamsTypes, TeamReqs, IdleReq
  <2>2. \A u \in TeamIds : ~ Locked(p, u)
    BY <2>1 DEF Locked
  <2>3. CASE ~ Same(p, row)
    <3>1. Goes(p, IdleReq)
      BY <1>2, <2>3 DEF LeaveFlush, Ends
    <3>2. LocksMove(p, IdleReq)
      BY <2>1, <2>2, NoLockMoves DEF WouldLock, IdleReq
    <3> QED
      BY <1>i, <1>s, <2>1, <3>1, <3>2, RequestGoes, AppsStand
  <2>4. CASE Same(p, row)
    <3>1. Goes(p, r)
      BY <1>2, <2>4 DEF LeaveFlush
    <3>2. \A x \in rest : x \in Players /\ x # p /\ tmMember[x].team = row.team /\ tmMember[x] \in TeamRows
      BY <2>1, MemberIs DEF Roster, TeamRows
    <3>3. rest # {} => Eldest(rest) \in rest
      BY <3>2, EldestIs
    <3>4. row.captain \in BOOLEAN /\ (rest = {}) \in BOOLEAN
      BY <2>1 DEF TeamRows
    <3> HIDE DEF rest, row
    <3>5. \/ heir = {} /\ ~ (rest # {} /\ row.captain)
          \/ /\ rest # {} /\ row.captain
             /\ heir = {[who |-> Eldest(rest), row |-> tmMember[Eldest(rest)]]}
      BY DEF Heir, row
    <3> HIDE DEF heir
    <3>6. \A h \in heir : /\ h.who \in Players /\ h.who # p /\ h.row \in TeamRows
                          /\ h.row.team = row.team /\ h.row.since < tmOps
                          /\ h = [who |-> h.who, row |-> h.row]
      <4> SUFFICES ASSUME NEW h \in heir
                   PROVE  /\ h.who \in Players /\ h.who # p /\ h.row \in TeamRows
                          /\ h.row.team = row.team /\ h.row.since < tmOps
                          /\ h = [who |-> h.who, row |-> h.row]
        OBVIOUS
      <4> DEFINE x == Eldest(rest)
      <4>1. h = [who |-> x, row |-> tmMember[x]] /\ rest # {}
        BY <3>5
      <4>2. x \in rest
        BY <3>3, <4>1
      <4>3. x \in Players /\ x # p /\ tmMember[x] \in TeamRows /\ tmMember[x].team = row.team
        BY <3>2, <4>2
      <4>4. tmMember[x].since < tmOps
        <5>1. tmMember[x] # Outside
          BY <4>3, TeamsAssumption DEF TeamRows, Outside
        <5> QED
          BY <4>3, <5>1 DEF TeamsInv, TeamsThere
      <4> HIDE DEF x
      <4> QED
        BY <4>1, <4>3, <4>4
    <3>7. heir \in SUBSET [who : Players, row : TeamRows]
      BY <3>6
    <3>8. r \in TeamReqs
      BY <2>1, <3>4, <3>7 DEF TeamReqs, row
    <3>9. LocksMove(p, r)
      BY <2>1, <2>2, NoLockMoves DEF WouldLock
    <3>10. Departs(p, r, tmMember, tmOps')
      <4>1. Departs(p, tmReq[p], tmMember, tmOps)
        BY DepartureIs DEF TeamsInv
      <4>2. /\ row.since < tmOps /\ tmMember[p].team = row.team /\ tmMember[p].since = row.since
            /\ row.captain => tmMember[p].captain
        BY <2>1, <2>4, <4>1 DEF Departs, Same, row
      <4>3. /\ \A g, h \in heir : g = h
            /\ heir # {} => row.captain
            /\ ~ (rest = {}) /\ row.captain => heir # {}
        BY <3>5
      <4> QED
        BY <2>1, <3>6, <4>2, <4>3 DEF Departs
    <3>11. tmReq' = [tmReq EXCEPT ![p] = r] /\ tmOps' \in Nat /\ tmOps <= tmOps'
      BY <2>1, <3>1 DEF Goes, TeamsInv, TeamsTypes
    <3> HIDE DEF r
    <3> QED
      BY <1>s, <2>1, <3>8, <3>9, <3>10, <3>11, TeamReqMoves, AppsStand
  <2> QED
    BY <2>3, <2>4
<1>3. CASE LeaveCommit(p)
  <2>1. CASE tmReq[p].last
    BY <1>3, <2>1, TeamGoes
  <2>2. CASE ~ tmReq[p].last /\ \A h \in tmReq[p].heir : Same(h.who, h.row)
    BY <1>3, <2>2, MemberGoes
  <2>3. CASE ~ tmReq[p].last /\ \E h \in tmReq[p].heir : ~ Same(h.who, h.row)
    <3>1. /\ UNCHANGED <<tmMember, tmTeam, tmApps, tmLock, tmOps>> /\ Goes(p, IdleReq)
          /\ tmReq[p].pc = "leaving"
          /\ tmStale' = IF tmMember[p].captain # tmReq[p].row.captain
                        THEN tmStale \cup {tmReq[p].row.team} ELSE tmStale
      BY <1>3, <2>3 DEF LeaveCommit, Ends, Deleting
    <3>2. LocksMove(p, IdleReq)
      BY <3>1, NoLockMoves DEF Locked, WouldLock, IdleReq
    <3>3. tmStale' \subseteq TeamIds /\ tmStale \subseteq tmStale'
      <4>1. tmReq[p].row.team \in TeamIds
        BY <3>1 DEF TeamsInv, TeamsTypes, TeamReqs, IdleReq, TeamRows
      <4> QED
        BY <1>s, <3>1, <4>1
    <3> QED
      BY <1>i, <3>1, <3>2, <3>3, RequestGoes, AppsStand
  <2> QED
    BY <2>1, <2>2, <2>3
<1> QED
  BY <1>1, <1>2, <1>3

(* Every step of the teams keeps the invariant.                            *)
LEMMA TeamsStep ==
  ASSUME TeamsInv, [TeamsNext]_tmVars
  PROVE  TeamsInv'
<1>1. CASE UNCHANGED tmVars
  <2> USE <1>1 DEF tmVars
  <2>1. TeamsTypes' /\ TeamsThere'
    BY DEF TeamsInv, TeamsTypes, TeamsThere
  <2>2. \A t : Roster(t)' = Roster(t) /\ Captains(t)' = Captains(t)
    BY DEF Roster, Captains
  <2>3. SeatKept' /\ Captaincy'
    BY <2>2 DEF TeamsInv, SeatKept, Locked, Captaincy
  <2>4. \A p \in Players : Departure(p)'
    BY DEF TeamsInv, Departure, Same
  <2> QED
    BY <2>1, <2>3, <2>4 DEF TeamsInv
<1>2. CASE TeamsNext
  BY <1>2, CreateTeamStep, JoinTeamStep, ReviewStep, LeaveTeamStep DEF TeamsNext
<1> QED
  BY <1>1, <1>2

(***************************************************************************)
(* Certificates.                                                           *)
(***************************************************************************)

(* The objects a request has stored for a design it has yet to commit, ... *)
HeldKeys(r) ==
    IF r.pc \in {"background", "font"} THEN {r.key}
    ELSE IF r.pc = "import" THEN r.fonts \cup r.back ELSE {}

(* ... those it is about to remove, ...                                    *)
DoomedKeys(r) == IF r.pc = "drop" THEN r.keys ELSE {}

(* ... and those it has read as superseded by its own.                     *)
ReadKeys(r) ==
    IF r.pc = "background" THEN {r.row.key} \ {NoKey}
    ELSE IF r.pc = "import" THEN r.olds \cup ({r.row.key} \ {NoKey}) ELSE {}

(* The objects the design names.                                           *)
NamedKeys == ctFonts \cup ({ctRow.key} \ {NoKey})

TemplateRow == [here : BOOLEAN, key : Backgrounds \cup {NoKey}, upload : BOOLEAN,
                fonts : SUBSET Fonts]

(* A request carries what its step needs.                                  *)
EditFits(r) ==
    /\ r.pc \in {"idle", "release", "recipients", "tell", "drop"} \cup DesignWrites
    /\ r.pc = "background" => r.row \in TemplateRow /\ r.key \in Backgrounds
    /\ r.pc = "font" => r.key \in Fonts
    /\ r.pc = "put" => r.row \in TemplateRow /\ r.upload \in BOOLEAN /\ r.fonts \subseteq Fonts
    /\ r.pc = "import" => /\ r.row \in TemplateRow /\ r.olds \subseteq Fonts
                          /\ r.fonts \subseteq Fonts /\ r.back \subseteq Backgrounds
                          /\ Cardinality(r.fonts) <= MaxCustomFonts
                          /\ Cardinality(r.back) <= 1
    /\ r.pc = "drop" => r.keys \subseteq Fonts \cup Backgrounds

(* Nobody removes what the design names or another is about to make it     *)
(* name: an object is named, held by one request, doomed or none of these. *)
AssetsApart ==
    /\ \A p \in Editors :
          /\ HeldKeys(ctReq[p]) \subseteq ctStore
          /\ DoomedKeys(ctReq[p]) \cup ReadKeys(ctReq[p]) \subseteq ctUsed
          /\ NamedKeys \cap (HeldKeys(ctReq[p]) \cup DoomedKeys(ctReq[p])) = {}
    /\ \A p, s \in Editors :
          /\ HeldKeys(ctReq[p]) \cap (DoomedKeys(ctReq[s]) \cup ReadKeys(ctReq[s])) = {}
          /\ p # s => HeldKeys(ctReq[p]) \cap HeldKeys(ctReq[s]) = {}
    /\ NamedKeys \subseteq ctStore

(* Only one release has the row, and it has not been released before.      *)
ReleaseHolds ==
    \A p \in Editors : ctReq[p].pc = "recipients" => ctLock = p /\ ~ ctReleased

(* Without an overlap a change of the design is based on what is there.    *)
EditIsCurrent(r, row, fonts) ==
    /\ r.pc \in {"background", "put", "import"} => r.row = row
    /\ r.pc = "put" /\ r.upload => row.key # NoKey
    /\ r.pc = "import" => r.olds = fonts
    /\ r.pc = "font" => Cardinality(fonts) < MaxCustomFonts

(* Every object is named, or some request is to name or to remove it.      *)
Covered ==
    \A k \in ctStore : \/ k \in NamedKeys
                        \/ \E p \in Editors : \/ k \in HeldKeys(ctReq[p])
                                              \/ k \in DoomedKeys(ctReq[p])

Orderly ==
    ~ ctRaced =>
        /\ \A p \in Editors : EditIsCurrent(ctReq[p], ctRow, ctFonts)
        /\ \A p, s \in Editors :
              ctReq[p].pc \in DesignWrites /\ ctReq[s].pc \in DesignWrites => p = s
        /\ Covered
        /\ ctRow.upload => ctRow.key # NoKey
        /\ Cardinality(ctFonts) <= MaxCustomFonts

CertInv ==
    /\ CertificatesTypeOK
    /\ DOMAIN ctReq = Editors /\ \A p \in Editors : EditFits(ctReq[p])
    /\ AssetsApart /\ ReleaseHolds /\ NotifiedOnce /\ Orderly

(* A step moves one request to another record and leaves the others.       *)
LEMMA OneEdit ==
    ASSUME DOMAIN ctReq = Editors, NEW q \in Editors, NEW r, Then(q, r)
    PROVE  /\ DOMAIN ctReq' = Editors /\ ctReq'[q] = r
           /\ \A p \in Editors \ {q} : ctReq'[p] = ctReq[p]
BY DEF Then

(* The objects stay apart in a step that stores fresh ones, removes doomed *)
(* ones only, and lets the design name only what the request held.         *)
LEMMA ApartStep ==
    ASSUME AssetsApart, DOMAIN ctReq = Editors, ctStore \subseteq ctUsed,
           NEW q \in Editors, NEW r, Then(q, r),
           NEW new, new \cap ctUsed = {},
           NEW gone, gone \subseteq DoomedKeys(ctReq[q]),
           ctStore' = (ctStore \cup new) \ gone, ctUsed' = ctUsed \cup new,
           HeldKeys(r) \subseteq new, HeldKeys(r) \cap gone = {},
           ReadKeys(r) \subseteq NamedKeys,
           DoomedKeys(r) \subseteq NamedKeys \cup HeldKeys(ctReq[q]) \cup ReadKeys(ctReq[q]),
           NamedKeys' \subseteq NamedKeys \cup HeldKeys(ctReq[q]),
           DoomedKeys(r) \cap NamedKeys' = {}
    PROVE  AssetsApart'
<1> DEFINE H(p) == HeldKeys(ctReq[p])   D(p) == DoomedKeys(ctReq[p])
           R(p) == ReadKeys(ctReq[p])   N == NamedKeys
           H1(p) == HeldKeys(ctReq'[p]) D1(p) == DoomedKeys(ctReq'[p])
           R1(p) == ReadKeys(ctReq'[p]) N1 == NamedKeys'
           hr == HeldKeys(r)  dr == DoomedKeys(r)  rr == ReadKeys(r)
<1>1. /\ \A p \in Editors : /\ H(p) \subseteq ctStore /\ D(p) \cup R(p) \subseteq ctUsed
                            /\ N \cap (H(p) \cup D(p)) = {}
      /\ \A p, s \in Editors : /\ H(p) \cap (D(s) \cup R(s)) = {}
                               /\ p # s => H(p) \cap H(s) = {}
      /\ N \subseteq ctStore
  BY DEF AssetsApart
<1>2. /\ H1(q) = hr /\ D1(q) = dr /\ R1(q) = rr
      /\ \A p \in Editors \ {q} : H1(p) = H(p) /\ D1(p) = D(p) /\ R1(p) = R(p)
  BY OneEdit
<1>3. /\ gone \subseteq D(q) /\ hr \subseteq new /\ hr \cap gone = {} /\ rr \subseteq N
      /\ dr \subseteq N \cup H(q) \cup R(q) /\ N1 \subseteq N \cup H(q) /\ dr \cap N1 = {}
  OBVIOUS
<1>4. AssetsApart' <=>
      /\ \A p \in Editors : /\ H1(p) \subseteq ctStore' /\ D1(p) \cup R1(p) \subseteq ctUsed'
                            /\ N1 \cap (H1(p) \cup D1(p)) = {}
      /\ \A p, s \in Editors : /\ H1(p) \cap (D1(s) \cup R1(s)) = {}
                               /\ p # s => H1(p) \cap H1(s) = {}
      /\ N1 \subseteq ctStore'
  BY DEF AssetsApart, HeldKeys, DoomedKeys, ReadKeys
<1> HIDE DEF H, D, R, N, H1, D1, R1, N1, hr, dr, rr
<1>5. N1 \subseteq ctStore'
  BY <1>1, <1>3
<1>6. ASSUME NEW p \in Editors
      PROVE  /\ H1(p) \subseteq ctStore' /\ D1(p) \cup R1(p) \subseteq ctUsed'
             /\ N1 \cap (H1(p) \cup D1(p)) = {}
  <2>1. CASE p = q
    BY <1>1, <1>2, <1>3, <2>1
  <2>2. CASE p # q
    <3>1. H(p) \cap D(q) = {} /\ H(p) \cap H(q) = {} /\ H(q) \cap D(p) = {}
      BY <1>1, <2>2
    <3> QED
      BY <1>1, <1>2, <1>3, <2>2, <3>1
  <2> QED
    BY <2>1, <2>2
<1>7. ASSUME NEW p \in Editors, NEW s \in Editors
      PROVE  /\ H1(p) \cap (D1(s) \cup R1(s)) = {}
             /\ p # s => H1(p) \cap H1(s) = {}
  <2>1. CASE p = q
    <3>1. H1(p) \subseteq new
      BY <1>2, <1>3, <2>1
    <3>2. D1(s) \cup R1(s) \subseteq ctUsed
      <4>1. CASE s = q
        BY <1>1, <1>2, <1>3, <4>1
      <4>2. CASE s # q
        BY <1>1, <1>2, <4>2
      <4> QED
        BY <4>1, <4>2
    <3>3. p # s => H1(s) \subseteq ctUsed
      BY <1>1, <1>2, <2>1
    <3> QED
      BY <3>1, <3>2, <3>3
  <2>2. CASE p # q
    <3>1. H1(p) = H(p) /\ H(p) \subseteq ctUsed
      BY <1>1, <1>2, <2>2
    <3>2. CASE s = q
      <4>1. D1(s) = dr /\ R1(s) = rr /\ H1(s) \subseteq new
        BY <1>2, <1>3, <3>2
      <4>2. H(p) \cap N = {} /\ H(p) \cap H(q) = {} /\ H(p) \cap R(q) = {}
        BY <1>1, <2>2
      <4> QED
        BY <1>3, <3>1, <4>1, <4>2
    <3>3. CASE s # q
      BY <1>1, <1>2, <2>2, <3>3
    <3> QED
      BY <3>2, <3>3
  <2> QED
    BY <2>1, <2>2
<1> QED
  BY <1>4, <1>5, <1>6, <1>7

(* No object is forgotten by such a step.                                  *)
LEMMA CoveredStep ==
    ASSUME Covered, DOMAIN ctReq = Editors, NEW q \in Editors, NEW r, Then(q, r),
           NEW new, NEW gone, ctStore' = (ctStore \cup new) \ gone,
           new \subseteq HeldKeys(r),
           NamedKeys \subseteq NamedKeys' \cup DoomedKeys(r),
           HeldKeys(ctReq[q]) \cup DoomedKeys(ctReq[q])
              \subseteq NamedKeys' \cup HeldKeys(r) \cup DoomedKeys(r) \cup gone
    PROVE  Covered'
<1> SUFFICES ASSUME NEW k \in ctStore'
             PROVE  \/ k \in NamedKeys'
                    \/ \E p \in Editors : \/ k \in HeldKeys(ctReq'[p])
                                          \/ k \in DoomedKeys(ctReq'[p])
  BY DEF Covered, HeldKeys, DoomedKeys
<1>1. ctReq'[q] = r /\ \A p \in Editors \ {q} : ctReq'[p] = ctReq[p]
  BY OneEdit
<1>2. CASE k \in new
  BY <1>1, <1>2
<1>3. CASE k \notin new
  <2>1. k \in ctStore /\ k \notin gone
    BY <1>3
  <2>2. CASE k \in NamedKeys
    BY <1>1, <2>2
  <2>3. CASE k \notin NamedKeys
    <3>1. PICK p \in Editors : k \in HeldKeys(ctReq[p]) \/ k \in DoomedKeys(ctReq[p])
      BY <2>1, <2>3 DEF Covered
    <3>2. CASE p = q
      BY <1>1, <2>1, <3>1, <3>2
    <3>3. CASE p # q
      BY <1>1, <3>1, <3>3
    <3> QED
      BY <3>2, <3>3
  <2> QED
    BY <2>2, <2>3
<1> QED
  BY <1>2, <1>3

(* What a step of an editor has to respect; the release stands aside.      *)
LEMMA DesignStep ==
    ASSUME CertInv, NEW q \in Editors, NEW r, Then(q, r), EditFits(r),
           r.pc # "recipients", CertSame, CertificatesTypeOK',
           NEW new, new \cap ctUsed = {},
           NEW gone, gone \subseteq DoomedKeys(ctReq[q]),
           ctStore' = (ctStore \cup new) \ gone, ctUsed' = ctUsed \cup new,
           HeldKeys(r) \subseteq new, HeldKeys(r) \cap gone = {},
           ReadKeys(r) \subseteq NamedKeys,
           DoomedKeys(r) \subseteq NamedKeys \cup HeldKeys(ctReq[q]) \cup ReadKeys(ctReq[q]),
           NamedKeys' \subseteq NamedKeys \cup HeldKeys(ctReq[q]),
           DoomedKeys(r) \cap NamedKeys' = {},
           ~ ctRaced' =>
              /\ ~ ctRaced
              /\ new \subseteq HeldKeys(r)
              /\ NamedKeys \subseteq NamedKeys' \cup DoomedKeys(r)
              /\ HeldKeys(ctReq[q]) \cup DoomedKeys(ctReq[q])
                    \subseteq NamedKeys' \cup HeldKeys(r) \cup DoomedKeys(r) \cup gone
              /\ EditIsCurrent(r, ctRow', ctFonts')
              /\ \A p \in Editors \ {q} :
                    ctReq[p].pc \in DesignWrites =>
                        r.pc \notin DesignWrites /\ ctRow' = ctRow /\ ctFonts' = ctFonts
              /\ ctRow'.upload => ctRow'.key # NoKey
              /\ Cardinality(ctFonts') <= MaxCustomFonts
    PROVE  CertInv'
<1>1. /\ DOMAIN ctReq' = Editors /\ ctReq'[q] = r
      /\ \A p \in Editors \ {q} : ctReq'[p] = ctReq[p]
  BY OneEdit DEF CertInv
<1>2. \A p \in Editors : EditFits(ctReq'[p])
  BY <1>1 DEF CertInv
<1>3. AssetsApart'
  BY ApartStep DEF CertInv, CertificatesTypeOK
<1>4. ReleaseHolds' /\ NotifiedOnce'
  BY <1>1 DEF CertInv, ReleaseHolds, NotifiedOnce, CertSame
<1>5. Orderly'
  <2> SUFFICES ASSUME ~ ctRaced'
               PROVE  /\ \A p \in Editors : EditIsCurrent(ctReq'[p], ctRow', ctFonts')
                      /\ \A p, s \in Editors :
                            ctReq'[p].pc \in DesignWrites /\ ctReq'[s].pc \in DesignWrites => p = s
                      /\ Covered'
                      /\ ctRow'.upload => ctRow'.key # NoKey
                      /\ Cardinality(ctFonts') <= MaxCustomFonts
    BY DEF Orderly, EditIsCurrent
  <2>1. /\ \A p \in Editors : EditIsCurrent(ctReq[p], ctRow, ctFonts)
        /\ \A p, s \in Editors :
              ctReq[p].pc \in DesignWrites /\ ctReq[s].pc \in DesignWrites => p = s
        /\ Covered
    BY DEF CertInv, Orderly
  <2>2. ASSUME NEW p \in Editors PROVE EditIsCurrent(ctReq'[p], ctRow', ctFonts')
    <3>1. CASE p = q
      BY <1>1, <3>1
    <3>2. CASE p # q /\ ctReq[p].pc \in DesignWrites
      BY <1>1, <2>1, <3>2
    <3>3. CASE p # q /\ ctReq[p].pc \notin DesignWrites
      BY <1>1, <3>3 DEF EditIsCurrent, DesignWrites
    <3> QED
      BY <3>1, <3>2, <3>3
  <2>3. ASSUME NEW p \in Editors, NEW s \in Editors,
               ctReq'[p].pc \in DesignWrites, ctReq'[s].pc \in DesignWrites
        PROVE  p = s
    BY <1>1, <2>1, <2>3
  <2>4. Covered'
    BY <2>1, CoveredStep DEF CertInv
  <2> QED
    BY <2>2, <2>3, <2>4
<1> QED
  BY <1>1, <1>2, <1>3, <1>4, <1>5 DEF CertInv, EditFits

(* A change that begins while no other is under way finds the design to    *)
(* itself.                                                                 *)
LEMMA BeginsAlone ==
    ASSUME CertInv, NEW q \in Editors, Begins(q)
    PROVE  /\ HeldKeys(ctReq[q]) = {} /\ DoomedKeys(ctReq[q]) = {} /\ ReadKeys(ctReq[q]) = {}
           /\ ctOps' \in 0..MaxCertOps /\ ctRaced' \in BOOLEAN
           /\ ~ ctRaced' => /\ ~ ctRaced /\ \A p \in Editors : ctReq[p].pc \notin DesignWrites
                            /\ ctRow.upload => ctRow.key # NoKey
                            /\ Cardinality(ctFonts) <= MaxCustomFonts
<1>1. ctOps' \in 0..MaxCertOps
  BY CertificatesAssumption DEF Begins, CertInv, CertificatesTypeOK
<1> QED
  BY <1>1 DEF Begins, CertInv, CertificatesTypeOK, Orderly, HeldKeys, DoomedKeys, ReadKeys

(* The first half of a change: what is there is read and fresh objects     *)
(* stored, or a font is taken out of the design.                           *)
LEMMA BeginStep ==
    ASSUME CertInv, NEW q \in Editors, Begins(q), CertSame, CertificatesTypeOK',
           NEW r, Then(q, r), EditFits(r), r.pc # "recipients",
           NEW new, new \cap ctUsed = {},
           ctStore' = ctStore \cup new, ctUsed' = ctUsed \cup new, ctRow' = ctRow,
           HeldKeys(r) = new, ReadKeys(r) \subseteq NamedKeys, DoomedKeys(r) \subseteq NamedKeys,
           NamedKeys' = NamedKeys \ DoomedKeys(r),
           ~ ctRaced' => /\ EditIsCurrent(r, ctRow', ctFonts')
                         /\ Cardinality(ctFonts') <= MaxCustomFonts
    PROVE  CertInv'
<1> DEFINE gone == {}
<1>1. ctStore' = (ctStore \cup new) \ gone
  OBVIOUS
<1>2. /\ gone \subseteq DoomedKeys(ctReq[q]) /\ HeldKeys(r) \cap gone = {}
      /\ HeldKeys(r) \subseteq new /\ NamedKeys' \subseteq NamedKeys \cup HeldKeys(ctReq[q])
      /\ DoomedKeys(r) \subseteq NamedKeys \cup HeldKeys(ctReq[q]) \cup ReadKeys(ctReq[q])
      /\ DoomedKeys(r) \cap NamedKeys' = {}
  OBVIOUS
<1>3. ~ ctRaced' =>
         /\ ~ ctRaced
         /\ new \subseteq HeldKeys(r)
         /\ NamedKeys \subseteq NamedKeys' \cup DoomedKeys(r)
         /\ HeldKeys(ctReq[q]) \cup DoomedKeys(ctReq[q])
               \subseteq NamedKeys' \cup HeldKeys(r) \cup DoomedKeys(r) \cup gone
         /\ EditIsCurrent(r, ctRow', ctFonts')
         /\ \A p \in Editors \ {q} :
               ctReq[p].pc \in DesignWrites =>
                   r.pc \notin DesignWrites /\ ctRow' = ctRow /\ ctFonts' = ctFonts
         /\ ctRow'.upload => ctRow'.key # NoKey
         /\ Cardinality(ctFonts') <= MaxCustomFonts
  BY BeginsAlone
<1> HIDE DEF gone
<1> QED
  BY <1>1, <1>2, <1>3, DesignStep

(* The second half: the design is written, and what it superseded is to be *)
(* removed.                                                                *)
LEMMA CommitStep ==
    ASSUME CertInv, NEW q \in Editors, ctReq[q].pc \in DesignWrites, CertSame,
           CertificatesTypeOK', UNCHANGED <<ctStore, ctUsed, ctOps, ctRaced>>,
           NEW r, Then(q, r), EditFits(r), r.pc \in {"idle", "drop"},
           DoomedKeys(r) \subseteq HeldKeys(ctReq[q]) \cup ReadKeys(ctReq[q]),
           NamedKeys' \subseteq NamedKeys \cup HeldKeys(ctReq[q]),
           DoomedKeys(r) \cap NamedKeys' = {},
           ~ ctRaced => /\ NamedKeys \cup HeldKeys(ctReq[q]) \subseteq NamedKeys' \cup DoomedKeys(r)
                        /\ ctRow'.upload => ctRow'.key # NoKey
                        /\ Cardinality(ctFonts') <= MaxCustomFonts
    PROVE  CertInv'
<1> DEFINE new == {}   gone == {}
<1>1. ctStore' = (ctStore \cup new) \ gone /\ ctUsed' = ctUsed \cup new
  OBVIOUS
<1>2. HeldKeys(r) = {} /\ ReadKeys(r) = {} /\ DoomedKeys(ctReq[q]) = {} /\ r.pc \notin DesignWrites
  BY DEF HeldKeys, ReadKeys, DoomedKeys, DesignWrites
<1>3. /\ gone \subseteq DoomedKeys(ctReq[q]) /\ HeldKeys(r) \cap gone = {}
      /\ HeldKeys(r) \subseteq new /\ ReadKeys(r) \subseteq NamedKeys
      /\ DoomedKeys(r) \subseteq NamedKeys \cup HeldKeys(ctReq[q]) \cup ReadKeys(ctReq[q])
      /\ new \cap ctUsed = {} /\ r.pc # "recipients"
  BY <1>2
<1>4. ~ ctRaced => \A p \in Editors \ {q} : ctReq[p].pc \notin DesignWrites
  BY DEF CertInv, Orderly
<1>5. EditIsCurrent(r, ctRow', ctFonts')
  BY DEF EditIsCurrent
<1>6. ~ ctRaced' =>
         /\ ~ ctRaced
         /\ new \subseteq HeldKeys(r)
         /\ NamedKeys \subseteq NamedKeys' \cup DoomedKeys(r)
         /\ HeldKeys(ctReq[q]) \cup DoomedKeys(ctReq[q])
               \subseteq NamedKeys' \cup HeldKeys(r) \cup DoomedKeys(r) \cup gone
         /\ EditIsCurrent(r, ctRow', ctFonts')
         /\ \A p \in Editors \ {q} :
               ctReq[p].pc \in DesignWrites =>
                   r.pc \notin DesignWrites /\ ctRow' = ctRow /\ ctFonts' = ctFonts
         /\ ctRow'.upload => ctRow'.key # NoKey
         /\ Cardinality(ctFonts') <= MaxCustomFonts
  BY <1>2, <1>4, <1>5
<1> HIDE DEF new, gone
<1> QED
  BY <1>1, <1>3, <1>6, DesignStep

(* upload_background, both halves.                                         *)
LEMMA BackgroundSteps ==
    ASSUME CertInv, NEW q \in Editors, UploadBackground(q) \/ BackgroundCommit(q)
    PROVE  CertInv'
<1>1. CASE UploadBackground(q)
  <2>1. PICK k \in Fresh(Backgrounds) :
           /\ ctStore' = ctStore \cup {k} /\ ctUsed' = ctUsed \cup {k}
           /\ Then(q, [pc |-> "background", row |-> ctRow, key |-> k])
    BY <1>1 DEF UploadBackground
  <2> DEFINE r == [pc |-> "background", row |-> ctRow, key |-> k]   new == {k}
  <2>2. k \in Backgrounds /\ k \notin ctUsed /\ new \cap ctUsed = {}
    BY <2>1 DEF Fresh
  <2>3. Begins(q) /\ UNCHANGED <<ctRow, ctFonts>> /\ CertSame /\ NamedKeys' = NamedKeys
    BY <1>1 DEF UploadBackground, NamedKeys
  <2>4. CertificatesTypeOK'
    BY <2>1, <2>2, <2>3, BeginsAlone DEF CertInv, CertificatesTypeOK, CertSame
  <2>5. /\ HeldKeys(r) = new /\ DoomedKeys(r) = {} /\ ReadKeys(r) \subseteq NamedKeys
        /\ EditIsCurrent(r, ctRow', ctFonts') /\ r.pc # "recipients"
    BY <2>3 DEF HeldKeys, DoomedKeys, ReadKeys, EditIsCurrent, NamedKeys
  <2>6. EditFits(r)
    BY <2>2 DEF EditFits, DesignWrites, CertInv, CertificatesTypeOK, TemplateRow
  <2>7. ctStore' = ctStore \cup new /\ ctUsed' = ctUsed \cup new /\ Then(q, r)
    BY <2>1
  <2> HIDE DEF r, new
  <2>8. ~ ctRaced' => Cardinality(ctFonts') <= MaxCustomFonts
    BY <2>3, BeginsAlone
  <2>9. DoomedKeys(r) \subseteq NamedKeys /\ NamedKeys' = NamedKeys \ DoomedKeys(r)
    BY <2>3, <2>5
  <2> QED
    BY <2>2, <2>3, <2>4, <2>5, <2>6, <2>7, <2>8, <2>9, BeginStep
<1>2. CASE BackgroundCommit(q)
  <2> DEFINE o == ctReq[q]
  <2>1. /\ o.pc = "background" /\ EditFits(o) /\ o.pc \in DesignWrites
        /\ o.row \in TemplateRow /\ o.key \in Backgrounds
    BY <1>2 DEF BackgroundCommit, CertInv, EditFits, DesignWrites
  <2>2. UNCHANGED <<ctFonts, ctStore, ctUsed, ctOps, ctRaced>> /\ CertSame
    BY <1>2 DEF BackgroundCommit
  <2>3. HeldKeys(o) = {o.key} /\ ReadKeys(o) = {o.row.key} \ {NoKey}
    BY <2>1 DEF HeldKeys, ReadKeys
  <2>4. CASE Conflict(o)
    <3>1. ctRow' = ctRow /\ Then(q, IdleEdit)
      BY <1>2, <2>4 DEF BackgroundCommit
    <3>2. ctRaced
      BY <2>1, <2>4 DEF Conflict, CertInv, Orderly, EditIsCurrent
    <3>3. NamedKeys' = NamedKeys
      BY <2>2, <3>1 DEF NamedKeys
    <3>4. CertificatesTypeOK'
      BY <2>2, <3>1 DEF CertInv, CertificatesTypeOK, CertSame
    <3>5. EditFits(IdleEdit) /\ IdleEdit.pc = "idle" /\ DoomedKeys(IdleEdit) = {}
      BY DEF EditFits, IdleEdit, DoomedKeys
    <3> QED
      BY <2>1, <2>2, <3>1, <3>2, <3>3, <3>4, <3>5, CommitStep
  <2>5. CASE ~ Conflict(o)
    <3> DEFINE r == [pc |-> "drop", keys |-> {o.row.key} \ {NoKey}]
    <3>1. /\ ctRow' = [ctRow EXCEPT !.here = TRUE, !.key = o.key,
                                    !.upload = IF o.row.upload THEN @ ELSE TRUE]
          /\ Then(q, r)
      BY <1>2, <2>5 DEF BackgroundCommit
    <3>2. ctRow \in TemplateRow
      BY DEF CertInv, CertificatesTypeOK, TemplateRow
    <3>3. ctRow' \in TemplateRow /\ ctRow'.key = o.key
      BY <2>1, <3>1, <3>2 DEF TemplateRow
    <3>4. CertificatesTypeOK'
      BY <2>2, <3>3 DEF CertInv, CertificatesTypeOK, CertSame, TemplateRow
    <3>5. r.pc = "drop" /\ DoomedKeys(r) = ReadKeys(o) /\ EditFits(r)
      BY <2>1, <2>3 DEF DoomedKeys, EditFits, TemplateRow
    <3>6. o.key # NoKey /\ NamedKeys' = ctFonts \cup {o.key}
      BY <2>1, <2>2, <3>3, CertificatesAssumption DEF NamedKeys
    <3>7. HeldKeys(o) \cap ReadKeys(o) = {}
      BY DEF CertInv, AssetsApart
    <3>8. DoomedKeys(r) \cap NamedKeys' = {}
      <4>1. DoomedKeys(r) \subseteq Backgrounds
        BY <2>1, <2>3, <3>5 DEF TemplateRow
      <4>2. ctFonts \cap Backgrounds = {}
        BY CertificatesAssumption DEF CertInv, CertificatesTypeOK
      <4> QED
        BY <2>3, <3>5, <3>6, <3>7, <4>1, <4>2
    <3>9. ~ ctRaced => /\ NamedKeys \cup HeldKeys(o) \subseteq NamedKeys' \cup DoomedKeys(r)
                       /\ ctRow'.upload => ctRow'.key # NoKey
                       /\ Cardinality(ctFonts') <= MaxCustomFonts
      <4> SUFFICES ASSUME ~ ctRaced
                   PROVE  /\ NamedKeys \cup HeldKeys(o) \subseteq NamedKeys' \cup DoomedKeys(r)
                          /\ Cardinality(ctFonts') <= MaxCustomFonts
        BY <3>3, <3>6
      <4>1. o.row = ctRow /\ Cardinality(ctFonts) <= MaxCustomFonts
        BY <2>1 DEF CertInv, Orderly, EditIsCurrent
      <4> QED
        BY <2>2, <2>3, <3>5, <3>6, <4>1 DEF NamedKeys
    <3> HIDE DEF r
    <3>10. NamedKeys' \subseteq NamedKeys \cup HeldKeys(o)
      BY <2>3, <3>6 DEF NamedKeys
    <3>11. DoomedKeys(r) \subseteq HeldKeys(o) \cup ReadKeys(o)
      BY <3>5
    <3> QED
      BY <2>1, <2>2, <3>1, <3>4, <3>5, <3>8, <3>9, <3>10, <3>11, CommitStep
  <2> QED
    BY <2>4, <2>5
<1> QED
  BY <1>1, <1>2

(* put_template, both halves.                                              *)
LEMMA PutSteps ==
    ASSUME CertInv, NEW q \in Editors,
           \/ \E up \in BOOLEAN, F \in SUBSET ctFonts : PutTemplate(q, up, F)
           \/ PutCommit(q)
    PROVE  CertInv'
<1>1. CASE \E up \in BOOLEAN, F \in SUBSET ctFonts : PutTemplate(q, up, F)
  <2>1. PICK up \in BOOLEAN, F \in SUBSET ctFonts : PutTemplate(q, up, F)
    BY <1>1
  <2> DEFINE r == [pc |-> "put", row |-> ctRow, upload |-> up, fonts |-> F]   new == {}
  <2>2. /\ Begins(q) /\ Then(q, r) /\ UNCHANGED <<ctRow, ctFonts, ctStore, ctUsed>> /\ CertSame
        /\ up => ctRow.key # NoKey
    BY <2>1 DEF PutTemplate
  <2>3. NamedKeys' = NamedKeys /\ ctStore' = ctStore \cup new /\ ctUsed' = ctUsed \cup new
        /\ new \cap ctUsed = {}
    BY <2>2 DEF NamedKeys
  <2>4. CertificatesTypeOK'
    BY <2>2, BeginsAlone DEF CertInv, CertificatesTypeOK, CertSame
  <2>5. /\ HeldKeys(r) = new /\ DoomedKeys(r) = {} /\ ReadKeys(r) = {}
        /\ EditIsCurrent(r, ctRow', ctFonts') /\ r.pc # "recipients"
    BY <2>2 DEF HeldKeys, DoomedKeys, ReadKeys, EditIsCurrent
  <2>6. EditFits(r)
    BY <2>1 DEF EditFits, DesignWrites, CertInv, CertificatesTypeOK, TemplateRow
  <2> HIDE DEF r, new
  <2>7. ~ ctRaced' => Cardinality(ctFonts') <= MaxCustomFonts
    BY <2>2, BeginsAlone
  <2>8. /\ DoomedKeys(r) \subseteq NamedKeys /\ NamedKeys' = NamedKeys \ DoomedKeys(r)
        /\ ReadKeys(r) \subseteq NamedKeys
    BY <2>3, <2>5
  <2> QED
    BY <2>2, <2>3, <2>4, <2>5, <2>6, <2>7, <2>8, BeginStep
<1>2. CASE PutCommit(q)
  <2> DEFINE o == ctReq[q]
  <2>1. /\ o.pc = "put" /\ EditFits(o) /\ o.pc \in DesignWrites
        /\ o.row \in TemplateRow /\ o.upload \in BOOLEAN /\ o.fonts \subseteq Fonts
    BY <1>2 DEF PutCommit, CertInv, EditFits, DesignWrites
  <2>2. /\ UNCHANGED <<ctFonts, ctStore, ctUsed, ctOps, ctRaced>> /\ CertSame
        /\ Then(q, IdleEdit)
        /\ ctRow' = IF Conflict(o) THEN ctRow
                    ELSE [ctRow EXCEPT !.here = TRUE,
                                       !.upload = IF o.upload = o.row.upload THEN @ ELSE o.upload,
                                       !.fonts = IF o.fonts = o.row.fonts THEN @ ELSE o.fonts]
    BY <1>2 DEF PutCommit
  <2>3. ctRow \in TemplateRow
    BY DEF CertInv, CertificatesTypeOK, TemplateRow
  <2>4. ctRow' \in TemplateRow /\ ctRow'.key = ctRow.key
    BY <2>1, <2>2, <2>3 DEF TemplateRow
  <2>5. CertificatesTypeOK'
    BY <2>2, <2>4 DEF CertInv, CertificatesTypeOK, CertSame, TemplateRow
  <2>6. EditFits(IdleEdit) /\ IdleEdit.pc \in {"idle", "drop"} /\ DoomedKeys(IdleEdit) = {}
    BY DEF EditFits, IdleEdit, DoomedKeys
  <2>7. HeldKeys(o) = {} /\ NamedKeys' = NamedKeys
    BY <2>1, <2>2, <2>4 DEF HeldKeys, NamedKeys
  <2>8. ~ ctRaced => /\ ctRow'.upload => ctRow'.key # NoKey
                     /\ Cardinality(ctFonts') <= MaxCustomFonts
    <3> SUFFICES ASSUME ~ ctRaced
                 PROVE  /\ ctRow'.upload => ctRow'.key # NoKey
                        /\ Cardinality(ctFonts') <= MaxCustomFonts
      OBVIOUS
    <3>1. /\ o.row = ctRow /\ (o.upload => ctRow.key # NoKey)
          /\ Cardinality(ctFonts) <= MaxCustomFonts /\ (ctRow.upload => ctRow.key # NoKey)
      BY <2>1 DEF CertInv, Orderly, EditIsCurrent
    <3>2. ctRow'.upload = o.upload \/ ctRow'.upload = ctRow.upload
      BY <2>1, <2>2, <2>3, <3>1 DEF TemplateRow
    <3> QED
      BY <2>2, <2>4, <3>1, <3>2
  <2> QED
    BY <2>1, <2>2, <2>5, <2>6, <2>7, <2>8, CommitStep
<1> QED
  BY <1>1, <1>2

(* upload_font, both halves, and delete_font.                              *)
LEMMA FontSteps ==
    ASSUME CertInv, NEW q \in Editors,
           UploadFont(q) \/ FontCommit(q) \/ \E f \in ctFonts : DeleteFont(q, f)
    PROVE  CertInv'
<1>0. ctFonts \subseteq Fonts /\ IsFiniteSet(ctFonts) /\ Cardinality(ctFonts) \in Nat
  BY CertificatesAssumption, FS_Subset, FS_CardinalityType DEF CertInv, CertificatesTypeOK
<1>1. CASE UploadFont(q)
  <2>1. PICK f \in Fresh(Fonts) :
           /\ ctStore' = ctStore \cup {f} /\ ctUsed' = ctUsed \cup {f}
           /\ Then(q, [pc |-> "font", key |-> f])
    BY <1>1 DEF UploadFont
  <2> DEFINE r == [pc |-> "font", key |-> f]   new == {f}
  <2>2. f \in Fonts /\ new \cap ctUsed = {}
    BY <2>1 DEF Fresh
  <2>3. /\ Begins(q) /\ UNCHANGED <<ctRow, ctFonts>> /\ CertSame /\ NamedKeys' = NamedKeys
        /\ Cardinality(ctFonts) < MaxCustomFonts
    BY <1>1 DEF UploadFont, NamedKeys
  <2>4. CertificatesTypeOK'
    BY <2>1, <2>2, <2>3, BeginsAlone DEF CertInv, CertificatesTypeOK, CertSame
  <2>5. /\ HeldKeys(r) = new /\ DoomedKeys(r) = {} /\ ReadKeys(r) = {}
        /\ EditIsCurrent(r, ctRow', ctFonts') /\ r.pc # "recipients"
    BY <2>3 DEF HeldKeys, DoomedKeys, ReadKeys, EditIsCurrent
  <2>6. EditFits(r)
    BY <2>2 DEF EditFits, DesignWrites
  <2>7. ctStore' = ctStore \cup new /\ ctUsed' = ctUsed \cup new /\ Then(q, r)
    BY <2>1
  <2> HIDE DEF r, new
  <2>8. ~ ctRaced' => Cardinality(ctFonts') <= MaxCustomFonts
    BY <2>3, BeginsAlone
  <2>9. /\ DoomedKeys(r) \subseteq NamedKeys /\ NamedKeys' = NamedKeys \ DoomedKeys(r)
        /\ ReadKeys(r) \subseteq NamedKeys
    BY <2>3, <2>5
  <2> QED
    BY <2>2, <2>3, <2>4, <2>5, <2>6, <2>7, <2>8, <2>9, BeginStep
<1>2. CASE FontCommit(q)
  <2> DEFINE o == ctReq[q]
  <2>1. o.pc = "font" /\ o.key \in Fonts /\ o.pc \in DesignWrites
    BY <1>2 DEF FontCommit, CertInv, EditFits, DesignWrites
  <2>2. /\ UNCHANGED <<ctRow, ctStore, ctUsed, ctOps, ctRaced>> /\ CertSame
        /\ Then(q, IdleEdit) /\ ctFonts' = ctFonts \cup {o.key}
    BY <1>2 DEF FontCommit
  <2>3. CertificatesTypeOK'
    BY <2>1, <2>2 DEF CertInv, CertificatesTypeOK, CertSame
  <2>4. EditFits(IdleEdit) /\ IdleEdit.pc \in {"idle", "drop"} /\ DoomedKeys(IdleEdit) = {}
    BY DEF EditFits, IdleEdit, DoomedKeys
  <2>5. HeldKeys(o) = {o.key} /\ NamedKeys' = NamedKeys \cup {o.key}
    BY <2>1, <2>2 DEF HeldKeys, NamedKeys
  <2>6. ~ ctRaced => /\ ctRow'.upload => ctRow'.key # NoKey
                     /\ Cardinality(ctFonts') <= MaxCustomFonts
    <3>1. Cardinality(ctFonts \cup {o.key}) \in {Cardinality(ctFonts), Cardinality(ctFonts) + 1}
      BY <1>0, FS_AddElement
    <3>2. ~ ctRaced => Cardinality(ctFonts) < MaxCustomFonts
      BY <2>1 DEF CertInv, Orderly, EditIsCurrent
    <3>3. ~ ctRaced => (ctRow.upload => ctRow.key # NoKey)
      BY DEF CertInv, Orderly
    <3> QED
      BY <1>0, <2>2, <3>1, <3>2, <3>3, CertificatesAssumption
  <2> QED
    BY <2>1, <2>2, <2>3, <2>4, <2>5, <2>6, CommitStep
<1>3. CASE \E f \in ctFonts : DeleteFont(q, f)
  <2>1. PICK f \in ctFonts : DeleteFont(q, f)
    BY <1>3
  <2> DEFINE r == [pc |-> "drop", keys |-> {f}]   new == {}
  <2>2. /\ Begins(q) /\ Then(q, r) /\ UNCHANGED <<ctRow, ctStore, ctUsed>> /\ CertSame
        /\ ctFonts' = ctFonts \ {f}
    BY <2>1 DEF DeleteFont
  <2>3. /\ ctStore' = ctStore \cup new /\ ctUsed' = ctUsed \cup new /\ new \cap ctUsed = {}
    BY <2>2
  <2>4. CertificatesTypeOK'
    BY <2>2, BeginsAlone DEF CertInv, CertificatesTypeOK, CertSame
  <2>5. /\ HeldKeys(r) = new /\ DoomedKeys(r) = {f} /\ ReadKeys(r) = {}
        /\ EditIsCurrent(r, ctRow', ctFonts') /\ r.pc # "recipients"
    BY <2>2 DEF HeldKeys, DoomedKeys, ReadKeys, EditIsCurrent
  <2>6. EditFits(r)
    BY <1>0, <2>1 DEF EditFits
  <2>7. NamedKeys' = NamedKeys \ {f} /\ {f} \subseteq NamedKeys
    <3>1. f \in Fonts /\ ctRow.key \in Backgrounds \cup {NoKey}
      BY <1>0, <2>1 DEF CertInv, CertificatesTypeOK
    <3>2. f # ctRow.key
      BY <3>1, CertificatesAssumption
    <3> QED
      BY <2>1, <2>2, <3>2 DEF NamedKeys
  <2> HIDE DEF r, new
  <2>8. ~ ctRaced' => Cardinality(ctFonts') <= MaxCustomFonts
    <3>1. Cardinality(ctFonts \ {f}) \in {Cardinality(ctFonts), Cardinality(ctFonts) - 1}
      BY <1>0, FS_RemoveElement
    <3> QED
      BY <1>0, <2>2, <3>1, BeginsAlone, CertificatesAssumption
  <2>9. /\ DoomedKeys(r) \subseteq NamedKeys /\ NamedKeys' = NamedKeys \ DoomedKeys(r)
        /\ ReadKeys(r) \subseteq NamedKeys
    BY <2>5, <2>7
  <2> QED
    BY <2>2, <2>3, <2>4, <2>5, <2>6, <2>8, <2>9, BeginStep
<1> QED
  BY <1>1, <1>2, <1>3

(* The removal of superseded objects.                                      *)
LEMMA DropOldStep ==
    ASSUME CertInv, NEW q \in Editors, DropOld(q)
    PROVE  CertInv'
<1> DEFINE new == {}   gone == ctReq[q].keys
<1>1. /\ ctReq[q].pc = "drop" /\ ctStore' = ctStore \ gone /\ Then(q, IdleEdit)
      /\ UNCHANGED <<ctRow, ctFonts, ctUsed, ctOps, ctRaced>> /\ CertSame
  BY DEF DropOld
<1>2. /\ DoomedKeys(ctReq[q]) = gone /\ HeldKeys(ctReq[q]) = {} /\ NamedKeys' = NamedKeys
      /\ HeldKeys(IdleEdit) = {} /\ DoomedKeys(IdleEdit) = {} /\ ReadKeys(IdleEdit) = {}
  BY <1>1 DEF DoomedKeys, HeldKeys, ReadKeys, NamedKeys, IdleEdit
<1>3. EditFits(IdleEdit) /\ IdleEdit.pc = "idle" /\ IdleEdit.pc \notin DesignWrites
      /\ EditIsCurrent(IdleEdit, ctRow', ctFonts') /\ IdleEdit.pc # "recipients"
  BY DEF EditFits, IdleEdit, DesignWrites, EditIsCurrent
<1>4. CertificatesTypeOK'
  BY <1>1 DEF CertInv, CertificatesTypeOK, CertSame
<1>5. ctStore' = (ctStore \cup new) \ gone /\ ctUsed' = ctUsed \cup new /\ new \cap ctUsed = {}
  BY <1>1
<1>6. ~ ctRaced => /\ ctRow.upload => ctRow.key # NoKey
                   /\ Cardinality(ctFonts) <= MaxCustomFonts
  BY DEF CertInv, Orderly
<1> HIDE DEF gone
<1>7. ~ ctRaced' =>
         /\ ~ ctRaced
         /\ new \subseteq HeldKeys(IdleEdit)
         /\ NamedKeys \subseteq NamedKeys' \cup DoomedKeys(IdleEdit)
         /\ HeldKeys(ctReq[q]) \cup DoomedKeys(ctReq[q])
               \subseteq NamedKeys' \cup HeldKeys(IdleEdit) \cup DoomedKeys(IdleEdit) \cup gone
         /\ EditIsCurrent(IdleEdit, ctRow', ctFonts')
         /\ \A p \in Editors \ {q} :
               ctReq[p].pc \in DesignWrites =>
                   IdleEdit.pc \notin DesignWrites /\ ctRow' = ctRow /\ ctFonts' = ctFonts
         /\ ctRow'.upload => ctRow'.key # NoKey
         /\ Cardinality(ctFonts') <= MaxCustomFonts
  BY <1>1, <1>2, <1>3, <1>6
<1> HIDE DEF new
<1>8. /\ gone \subseteq DoomedKeys(ctReq[q]) /\ HeldKeys(IdleEdit) \cap gone = {}
      /\ HeldKeys(IdleEdit) \subseteq new /\ ReadKeys(IdleEdit) \subseteq NamedKeys
      /\ DoomedKeys(IdleEdit) \subseteq NamedKeys \cup HeldKeys(ctReq[q]) \cup ReadKeys(ctReq[q])
      /\ NamedKeys' \subseteq NamedKeys \cup HeldKeys(ctReq[q])
      /\ DoomedKeys(IdleEdit) \cap NamedKeys' = {}
  BY <1>2
<1> QED
  BY <1>1, <1>3, <1>4, <1>5, <1>7, <1>8, DesignStep

(* A set of at most one element.                                           *)
LEMMA OnlyOne ==
    ASSUME NEW S, IsFiniteSet(S), Cardinality(S) <= 1, NEW x \in S
    PROVE  S = {x}
<1>1. IsFiniteSet(S \ {x}) /\ Cardinality(S \ {x}) = Cardinality(S) - 1
  BY FS_RemoveElement
<1>2. Cardinality(S) \in Nat /\ Cardinality(S \ {x}) \in Nat
  BY <1>1, FS_CardinalityType
<1>3. Cardinality(S \ {x}) = 0
  BY <1>1, <1>2
<1>4. S \ {x} = {}
  BY <1>1, <1>3, FS_EmptySet
<1> QED
  BY <1>4

(* The first half of an import.                                            *)
LEMMA ApplyImportStep ==
    ASSUME CertInv, NEW q \in Editors, ApplyImport(q)
    PROVE  CertInv'
<1>1. PICK F \in SUBSET Fresh(Fonts), K \in SUBSET Fresh(Backgrounds) :
         /\ Cardinality(F) <= MaxCustomFonts /\ Cardinality(K) <= 1
         /\ ctStore' = ctStore \cup F \cup K /\ ctUsed' = ctUsed \cup F \cup K
         /\ Then(q, [pc |-> "import", row |-> ctRow, olds |-> ctFonts, fonts |-> F, back |-> K])
  BY DEF ApplyImport
<1> DEFINE r == [pc |-> "import", row |-> ctRow, olds |-> ctFonts, fonts |-> F, back |-> K]
           new == F \cup K
<1>2. F \subseteq Fonts /\ K \subseteq Backgrounds /\ new \cap ctUsed = {}
  BY <1>1 DEF Fresh
<1>3. Begins(q) /\ UNCHANGED <<ctRow, ctFonts>> /\ CertSame /\ NamedKeys' = NamedKeys
  BY DEF ApplyImport, NamedKeys
<1>4. ctStore' = ctStore \cup new /\ ctUsed' = ctUsed \cup new /\ Then(q, r)
  BY <1>1
<1>5. CertificatesTypeOK'
  BY <1>2, <1>3, <1>4, BeginsAlone DEF CertInv, CertificatesTypeOK, CertSame
<1>6. /\ HeldKeys(r) = new /\ DoomedKeys(r) = {} /\ ReadKeys(r) = NamedKeys
      /\ EditIsCurrent(r, ctRow', ctFonts') /\ r.pc # "recipients"
  BY <1>3 DEF HeldKeys, DoomedKeys, ReadKeys, EditIsCurrent, NamedKeys
<1>7. EditFits(r)
  BY <1>1, <1>2 DEF EditFits, DesignWrites, CertInv, CertificatesTypeOK, TemplateRow
<1> HIDE DEF r, new
<1>8. ~ ctRaced' => Cardinality(ctFonts') <= MaxCustomFonts
  BY <1>3, BeginsAlone
<1>9. /\ DoomedKeys(r) \subseteq NamedKeys /\ NamedKeys' = NamedKeys \ DoomedKeys(r)
      /\ ReadKeys(r) \subseteq NamedKeys
  BY <1>3, <1>6
<1> QED
  BY <1>2, <1>3, <1>4, <1>5, <1>6, <1>7, <1>8, <1>9, BeginStep

(* The second half: one commit, and the losers' objects are to be removed. *)
LEMMA ImportCommitStep ==
    ASSUME CertInv, NEW q \in Editors, ImportCommit(q)
    PROVE  CertInv'
<1> DEFINE o == ctReq[q]
           key == IF o.back = {} THEN NoKey ELSE CHOOSE k \in o.back : TRUE
           Write(old, was, new) == IF was = new THEN old ELSE new
<1>1. /\ o.pc = "import" /\ o.pc \in DesignWrites /\ o.row \in TemplateRow
      /\ o.olds \subseteq Fonts /\ o.fonts \subseteq Fonts /\ o.back \subseteq Backgrounds
      /\ Cardinality(o.fonts) <= MaxCustomFonts /\ Cardinality(o.back) <= 1
  BY DEF ImportCommit, CertInv, EditFits, DesignWrites
<1>2. UNCHANGED <<ctStore, ctUsed, ctOps, ctRaced>> /\ CertSame
  BY DEF ImportCommit
<1>3. /\ HeldKeys(o) = o.fonts \cup o.back
      /\ ReadKeys(o) = o.olds \cup ({o.row.key} \ {NoKey})
      /\ HeldKeys(o) \cap ReadKeys(o) = {}
  BY <1>1 DEF HeldKeys, ReadKeys, CertInv, AssetsApart
<1>4. CASE Conflict(o)
  <2> DEFINE r == [pc |-> "drop", keys |-> o.fonts \cup o.back]
  <2>1. UNCHANGED <<ctRow, ctFonts>> /\ Then(q, r)
    BY <1>4 DEF ImportCommit
  <2>2. ctRaced
    BY <1>1, <1>4 DEF Conflict, CertInv, Orderly, EditIsCurrent
  <2>3. NamedKeys' = NamedKeys
    BY <2>1 DEF NamedKeys
  <2>4. CertificatesTypeOK'
    BY <1>2, <2>1 DEF CertInv, CertificatesTypeOK, CertSame
  <2>5. r.pc = "drop" /\ DoomedKeys(r) = HeldKeys(o) /\ EditFits(r)
    BY <1>1, <1>3 DEF DoomedKeys, EditFits
  <2>6. NamedKeys \cap HeldKeys(o) = {}
    BY DEF CertInv, AssetsApart
  <2> HIDE DEF r
  <2>7. /\ DoomedKeys(r) \subseteq HeldKeys(o) \cup ReadKeys(o) /\ DoomedKeys(r) \cap NamedKeys' = {}
        /\ NamedKeys' \subseteq NamedKeys \cup HeldKeys(o) /\ r.pc \in {"idle", "drop"}
    BY <2>3, <2>5, <2>6
  <2> QED
    BY <1>1, <1>2, <2>1, <2>2, <2>4, <2>5, <2>7, CommitStep
<1>5. CASE ~ Conflict(o)
  <2> DEFINE r == [pc |-> "drop", keys |-> o.olds \cup ({o.row.key} \ {NoKey})]
  <2>1. /\ ctRow' = [here |-> TRUE, key |-> Write(ctRow.key, o.row.key, key),
                     upload |-> Write(ctRow.upload, o.row.upload, o.back # {}),
                     fonts |-> Write(ctRow.fonts, o.row.fonts, o.fonts)]
        /\ ctFonts' = (ctFonts \ o.olds) \cup o.fonts
        /\ Then(q, r)
    BY <1>5 DEF ImportCommit
  <2>2. \/ o.back = {} /\ key = NoKey
        \/ o.back = {key} /\ key \in Backgrounds /\ key # NoKey
    <3>1. CASE o.back = {}
      BY <3>1
    <3>2. CASE o.back # {}
      <4>1. key \in o.back
        BY <3>2
      <4>2. o.back = {key}
        BY <1>1, <4>1, CertificatesAssumption, FS_Subset, OnlyOne
      <4> QED
        BY <1>1, <4>1, <4>2, CertificatesAssumption
    <3> QED
      BY <3>1, <3>2
  <2>3. /\ ctRow \in TemplateRow /\ ctFonts \subseteq Fonts
        /\ ctRow.key \in Backgrounds \cup {NoKey} /\ o.row.key \in Backgrounds \cup {NoKey}
    BY <1>1 DEF CertInv, CertificatesTypeOK, TemplateRow
  <2> HIDE DEF key
  <2>4. /\ ctRow'.key = (IF o.row.key = key THEN ctRow.key ELSE key)
        /\ ctRow'.upload = (IF o.row.upload = (o.back # {}) THEN ctRow.upload ELSE o.back # {})
        /\ ctRow' \in TemplateRow
    BY <1>1, <2>1, <2>2, <2>3 DEF TemplateRow
  <2>5. CertificatesTypeOK'
    BY <1>1, <1>2, <2>1, <2>3, <2>4 DEF CertInv, CertificatesTypeOK, CertSame, TemplateRow
  <2>6. r.pc = "drop" /\ DoomedKeys(r) = ReadKeys(o) /\ EditFits(r)
    BY <1>1, <1>3, <2>3 DEF DoomedKeys, EditFits
  <2>7. NamedKeys' = (ctFonts \ o.olds) \cup o.fonts \cup ({ctRow'.key} \ {NoKey})
    BY <2>1 DEF NamedKeys
  <2>8. NamedKeys' \subseteq NamedKeys \cup HeldKeys(o)
    BY <1>3, <2>2, <2>4, <2>7 DEF NamedKeys
  <2>9. DoomedKeys(r) \cap NamedKeys' = {}
    <3> SUFFICES ASSUME NEW x \in ReadKeys(o), x \in NamedKeys'
                 PROVE  FALSE
      BY <2>6
    <3>1. x \notin o.fonts
      BY <1>3
    <3>2. CASE x \in o.olds
      BY <1>1, <2>3, <2>4, <2>7, <3>1, <3>2, CertificatesAssumption DEF TemplateRow
    <3>3. CASE x = o.row.key /\ x # NoKey
      <4>1. x \in Backgrounds /\ x \notin Fonts
        BY <2>3, <3>3, CertificatesAssumption
      <4>2. x = ctRow'.key
        BY <1>1, <2>3, <2>7, <4>1
      <4>3. x \notin o.back
        BY <1>3
      <4> QED
        BY <2>2, <2>4, <3>3, <4>2, <4>3
    <3> QED
      BY <1>3, <3>2, <3>3
  <2>10. ~ ctRaced => /\ NamedKeys \cup HeldKeys(o) \subseteq NamedKeys' \cup DoomedKeys(r)
                      /\ ctRow'.upload => ctRow'.key # NoKey
                      /\ Cardinality(ctFonts') <= MaxCustomFonts
    <3> SUFFICES ASSUME ~ ctRaced
                 PROVE  /\ NamedKeys \cup HeldKeys(o) \subseteq NamedKeys' \cup DoomedKeys(r)
                        /\ ctRow'.upload => ctRow'.key # NoKey
                        /\ Cardinality(ctFonts') <= MaxCustomFonts
      OBVIOUS
    <3>1. o.row = ctRow /\ o.olds = ctFonts
      BY <1>1 DEF CertInv, Orderly, EditIsCurrent
    <3>2. ctRow'.key = key /\ (ctRow'.upload <=> o.back # {}) /\ ctFonts' = o.fonts
      BY <2>1, <2>3, <2>4, <3>1 DEF TemplateRow
    <3> QED
      BY <1>1, <1>3, <2>2, <2>6, <2>7, <3>1, <3>2 DEF NamedKeys
  <2> HIDE DEF r
  <2>11. DoomedKeys(r) \subseteq HeldKeys(o) \cup ReadKeys(o) /\ r.pc \in {"idle", "drop"}
    BY <2>6
  <2> QED
    BY <1>1, <1>2, <2>1, <2>5, <2>6, <2>8, <2>9, <2>10, <2>11, CommitStep
<1> QED
  BY <1>4, <1>5

(* The release leaves the design alone, and only its holder commits.       *)
LEMMA ReleaseSteps ==
    ASSUME CertInv, NEW q \in Editors,
           \/ ReleaseRead(q) \/ ReleaseUpdate(q) \/ ReleaseCommit(q) \/ ReleaseRaises(q)
           \/ ReleaseTell(q)
    PROVE  CertInv'
<1>1. PICK r : /\ Then(q, r)
               /\ r.pc \in {"idle", "release", "tell", "recipients"}
  <2> DEFINE a == [pc |-> "release"]  b == [pc |-> "recipients"]  c == [pc |-> "tell"]
  <2>1. a.pc = "release" /\ b.pc = "recipients" /\ c.pc = "tell" /\ IdleEdit.pc = "idle"
    BY DEF IdleEdit
  <2>2. Then(q, a) \/ Then(q, b) \/ Then(q, c) \/ Then(q, IdleEdit)
    BY DEF ReleaseRead, ReleaseUpdate, ReleaseCommit, ReleaseRaises, ReleaseTell
  <2> HIDE DEF a, b, c
  <2> QED
    BY <2>1, <2>2
<1>2. /\ UNCHANGED <<ctRow, ctFonts, ctStore, ctUsed, ctRaced>>
      /\ ctReq[q].pc \in {"idle", "release", "recipients", "tell"}
  BY DEF ReleaseRead, ReleaseUpdate, ReleaseCommit, ReleaseRaises, ReleaseTell
<1>3. /\ DOMAIN ctReq' = Editors /\ ctReq'[q] = r
      /\ \A p \in Editors \ {q} : ctReq'[p] = ctReq[p]
  BY <1>1, OneEdit DEF CertInv
<1>4. r.pc \in {"idle", "release", "recipients", "tell"}
  BY <1>1
<1>5. \A p \in Editors : EditFits(ctReq'[p])
  BY <1>3, <1>4 DEF CertInv, EditFits
<1>6. /\ HeldKeys(r) = {} /\ DoomedKeys(r) = {} /\ ReadKeys(r) = {}
      /\ HeldKeys(ctReq[q]) = {} /\ DoomedKeys(ctReq[q]) = {} /\ NamedKeys' = NamedKeys
      /\ EditIsCurrent(r, ctRow', ctFonts') /\ r.pc \notin DesignWrites
  BY <1>2, <1>4 DEF HeldKeys, DoomedKeys, ReadKeys, NamedKeys, EditIsCurrent, DesignWrites
<1> DEFINE none == {}
<1>7. /\ ctStore' = (ctStore \cup none) \ none /\ ctUsed' = ctUsed \cup none /\ none \cap ctUsed = {}
  BY <1>2
<1>8. /\ none \subseteq DoomedKeys(ctReq[q]) /\ HeldKeys(r) \cap none = {}
      /\ HeldKeys(r) \subseteq none /\ ReadKeys(r) \subseteq NamedKeys
      /\ DoomedKeys(r) \subseteq NamedKeys \cup HeldKeys(ctReq[q]) \cup ReadKeys(ctReq[q])
      /\ NamedKeys' \subseteq NamedKeys \cup HeldKeys(ctReq[q])
      /\ DoomedKeys(r) \cap NamedKeys' = {} /\ none \subseteq HeldKeys(r)
      /\ NamedKeys \subseteq NamedKeys' \cup DoomedKeys(r)
      /\ HeldKeys(ctReq[q]) \cup DoomedKeys(ctReq[q])
            \subseteq NamedKeys' \cup HeldKeys(r) \cup DoomedKeys(r) \cup none
  BY <1>6
<1> HIDE DEF none
<1>9. AssetsApart'
  BY <1>1, <1>7, <1>8, ApartStep DEF CertInv, CertificatesTypeOK
<1>10. ~ ctRaced => Covered'
  BY <1>1, <1>7, <1>8, CoveredStep DEF CertInv, Orderly
<1>11. Orderly'
  <2> SUFFICES ASSUME ~ ctRaced
               PROVE  /\ \A p \in Editors : EditIsCurrent(ctReq'[p], ctRow', ctFonts')
                      /\ \A p, s \in Editors :
                            ctReq'[p].pc \in DesignWrites /\ ctReq'[s].pc \in DesignWrites => p = s
                      /\ ctRow'.upload => ctRow'.key # NoKey
                      /\ Cardinality(ctFonts') <= MaxCustomFonts
    BY <1>2, <1>10 DEF Orderly, EditIsCurrent
  <2> QED
    BY <1>2, <1>3, <1>6 DEF CertInv, Orderly
<1>12. ReleaseHolds' /\ NotifiedOnce' /\ ctBell' \in Nat /\ ctLock' \in Editors \cup {NoKey}
       /\ ctReleased' \in BOOLEAN /\ ctUntold' \in BOOLEAN
  <2>0. /\ ctBell \in Nat /\ ctLock \in Editors \cup {NoKey} /\ ctReleased \in BOOLEAN
        /\ ctUntold \in BOOLEAN /\ NoKey \notin Editors
    BY CertificatesAssumption DEF CertInv, CertificatesTypeOK
  <2>1. CASE ReleaseUpdate(q)
    <3>1. /\ ctLock = NoKey /\ UNCHANGED <<ctReleased, ctBell, ctUntold>>
          /\ IF ctReleased THEN ctReq'[q].pc = "idle" /\ ctLock' = NoKey
             ELSE ctLock' = q
      BY <1>3, <2>1 DEF ReleaseUpdate, Unlocked, Then, IdleEdit
    <3>2. \A p \in Editors : ctReq[p].pc # "recipients"
      BY <2>0, <3>1 DEF CertInv, ReleaseHolds
    <3>3. \A p \in Editors \ {q} : ctReq'[p].pc # "recipients"
      BY <1>3, <3>2
    <3>4. ReleaseHolds'
      BY <3>1, <3>3 DEF ReleaseHolds
    <3> QED
      BY <2>0, <3>1, <3>4 DEF CertInv, NotifiedOnce
  <2>2. CASE ReleaseCommit(q)
    <3>1. ctReleased' = TRUE /\ ctBell' = ctBell + 1 /\ ctLock' = NoKey /\ ctUntold' = TRUE
          /\ ctReq[q].pc = "recipients" /\ ctReq'[q].pc = "tell"
      BY <1>3, <2>2 DEF ReleaseCommit, Then
    <3>2. ctLock = q /\ ~ ctReleased /\ ctBell = 0
      BY <3>1 DEF CertInv, ReleaseHolds, NotifiedOnce
    <3>3. \A p \in Editors : ctReq'[p].pc # "recipients"
      BY <1>3, <3>1, <3>2 DEF CertInv, ReleaseHolds
    <3> QED
      BY <2>0, <3>1, <3>2, <3>3 DEF ReleaseHolds, NotifiedOnce
  <2>3. CASE ReleaseRaises(q)
    <3>1. /\ UNCHANGED <<ctReleased, ctBell, ctUntold>> /\ ctLock' = NoKey
          /\ ctReq[q].pc = "recipients" /\ ctReq'[q].pc = "idle"
      BY <1>3, <2>3 DEF ReleaseRaises, Then, IdleEdit
    <3>2. \A p \in Editors : ctReq'[p].pc # "recipients"
      BY <1>3, <3>1 DEF CertInv, ReleaseHolds
    <3> QED
      BY <2>0, <3>1, <3>2 DEF CertInv, ReleaseHolds, NotifiedOnce
  <2>4. CASE ReleaseRead(q) \/ ReleaseTell(q)
    <3>1. /\ UNCHANGED <<ctReleased, ctBell, ctLock>> /\ ctUntold' \in BOOLEAN
          /\ ctReq'[q].pc # "recipients"
      <4>1. CASE ReleaseRead(q)
        BY <1>3, <2>0, <4>1 DEF ReleaseRead, Then, CertSame
      <4>2. CASE ReleaseTell(q)
        BY <1>3, <4>2 DEF ReleaseTell, Then, IdleEdit
      <4> QED
        BY <2>4, <4>1, <4>2
    <3> QED
      BY <1>3, <2>0, <3>1 DEF CertInv, ReleaseHolds, NotifiedOnce
  <2> QED
    BY <2>1, <2>2, <2>3, <2>4
<1>13. ctOps' \in 0..MaxCertOps
  BY CertificatesAssumption DEF CertInv, CertificatesTypeOK, ReleaseRead, ReleaseUpdate,
     ReleaseCommit, ReleaseRaises, ReleaseTell
<1>14. CertificatesTypeOK'
  BY <1>2, <1>12, <1>13 DEF CertInv, CertificatesTypeOK
<1> QED
  BY <1>3, <1>5, <1>9, <1>11, <1>12, <1>14 DEF CertInv, EditFits

(* Every object the design names is there and no release is told twice,    *)
(* whatever requests overlap; without an overlap nothing is left over.     *)
LEMMA CertInvImplies == CertInv => CertificateSafe
<1> SUFFICES ASSUME CertInv PROVE CertificateSafe
  OBVIOUS
<1>1. CertificatesTypeOK /\ NotifiedOnce
  BY DEF CertInv
<1>2. AssetsExist
  BY DEF CertInv, AssetsApart, AssetsExist, NamedKeys
<1>3. ASSUME ~ ctRaced
      PROVE  ctStore \subseteq ctFonts \cup {ctRow.key} \cup UNION {Pending(q) : q \in Editors}
  <2> SUFFICES ASSUME NEW k \in ctStore, k \notin NamedKeys
               PROVE  \E q \in Editors : k \in Pending(q)
    BY DEF NamedKeys
  <2>1. PICK q \in Editors : k \in HeldKeys(ctReq[q]) \/ k \in DoomedKeys(ctReq[q])
    BY <1>3 DEF CertInv, Orderly, Covered
  <2>2. k \in Pending(q)
    BY <2>1 DEF Pending, HeldKeys, DoomedKeys
  <2> QED
    BY <2>2
<1>4. TidyUnlessRaced
  BY <1>3 DEF CertInv, Orderly, TidyUnlessRaced
<1> QED
  BY <1>1, <1>2, <1>4 DEF CertificateSafe, CertificatesSafe

(* The invariant of the certificates holds at the start.                   *)
LEMMA CertInitInv == CertificatesInit => CertInv
<1> SUFFICES ASSUME CertificatesInit PROVE CertInv
  OBVIOUS
<1>1. \A p \in Editors : ctReq[p] = IdleEdit
  BY DEF CertificatesInit
<1>2. /\ EditFits(IdleEdit) /\ HeldKeys(IdleEdit) = {} /\ DoomedKeys(IdleEdit) = {}
      /\ ReadKeys(IdleEdit) = {} /\ IdleEdit.pc \notin DesignWrites /\ IdleEdit.pc # "recipients"
      /\ EditIsCurrent(IdleEdit, ctRow, ctFonts)
  BY DEF EditFits, HeldKeys, DoomedKeys, ReadKeys, IdleEdit, DesignWrites, EditIsCurrent
<1>3. NamedKeys = {} /\ ctStore = {}
  BY DEF CertificatesInit, NamedKeys
<1>4. CertificatesTypeOK
  <2>1. ctRow \in TemplateRow
    BY DEF CertificatesInit, TemplateRow
  <2>2. ctOps \in 0..MaxCertOps /\ ctBell \in Nat
    BY CertificatesAssumption DEF CertificatesInit
  <2> QED
    BY <2>1, <2>2 DEF CertificatesInit, CertificatesTypeOK, TemplateRow
<1>5. AssetsApart
  BY <1>1, <1>2, <1>3 DEF AssetsApart
<1>6. Cardinality(ctFonts) = 0
  BY FS_EmptySet DEF CertificatesInit
<1>7. Orderly
  BY <1>1, <1>2, <1>3, <1>6, CertificatesAssumption DEF Orderly, Covered, CertificatesInit
<1>8. ReleaseHolds /\ NotifiedOnce /\ DOMAIN ctReq = Editors
  BY <1>1, <1>2 DEF ReleaseHolds, NotifiedOnce, CertificatesInit
<1> QED
  BY <1>1, <1>2, <1>4, <1>5, <1>7, <1>8 DEF CertInv

(* However organisers upload, import, delete and release at once, with the *)
(* tick among them, the template's background and every font listed are    *)
(* stored and the certificate is announced once; without overlapping edits *)
(* no object is left over (routers/certificates.py).                       *)
THEOREM CertificatesHold == CertificatesSpec => []CertificateSafe
<1>1. CertInv /\ [CertificatesNext]_ctVars => CertInv'
  <2> SUFFICES ASSUME CertInv, [CertificatesNext]_ctVars PROVE CertInv'
    OBVIOUS
  <2>1. CASE CertificatesNext
    BY <2>1, BackgroundSteps, DropOldStep, PutSteps, FontSteps, ApplyImportStep,
       ImportCommitStep, ReleaseSteps DEF CertificatesNext
  <2>2. CASE UNCHANGED ctVars
    <3> USE <2>2 DEF ctVars
    <3>1. CertificatesTypeOK' /\ DOMAIN ctReq' = Editors
      BY DEF CertInv, CertificatesTypeOK
    <3>2. \A p \in Editors : EditFits(ctReq'[p])
      BY DEF CertInv
    <3>3. NamedKeys' = NamedKeys
      BY DEF NamedKeys
    <3>4. AssetsApart'
      BY <3>3 DEF CertInv, AssetsApart, HeldKeys, DoomedKeys, ReadKeys
    <3>5. ReleaseHolds' /\ NotifiedOnce'
      BY DEF CertInv, ReleaseHolds, NotifiedOnce
    <3>6. Covered => Covered'
      BY <3>3 DEF Covered, HeldKeys, DoomedKeys
    <3>7. Orderly'
      BY <3>6 DEF CertInv, Orderly, EditIsCurrent
    <3> QED
      BY <3>1, <3>2, <3>4, <3>5, <3>7 DEF CertInv, EditFits
  <2> QED
    BY <2>1, <2>2
<1> QED
  BY <1>1, CertInitInv, CertInvImplies, PTL DEF CertificatesSpec

(***************************************************************************)
(* Announcements.                                                          *)
(***************************************************************************)

PosterPcs == {"idle", "edit", "cancel", "publish", "withdraw", "scrubbed", "emit", "emit_withdrawn"}
AnnRows == [st : {"none", "draft", "live", "gone"}, clar : BOOLEAN, critical : BOOLEAN,
            withdrawn : BOOLEAN]
FanReqs == [pc : {"off", "load", "room", "batch", "commit", "recheck"}, w : BOOLEAN,
            left : SUBSET Recipients, frame : {"nothing", "answer", "withdrawn"}]

(* Types; a batch has a recipient, and only an answer is checked again.    *)
AnnTypes ==
    /\ anRow \in AnnRows
    /\ anOpen \in BOOLEAN /\ anOverlap \in BOOLEAN /\ anCut \in 0 .. MaxAnnFaults
    /\ anBell \in [Recipients -> [answer : Nat, blank : Nat, notice : Nat]]
    /\ anRoom \in {"nothing", "answer", "withdrawn"}
    /\ anReq \in [Posters -> PosterPcs]
    /\ anFan \in [FanIds -> FanReqs]
    /\ \A f \in FanIds : /\ anFan[f].pc = "commit" => anFan[f].left # {}
                         /\ anFan[f].pc = "recheck" => ~ anFan[f].w
    /\ anTold \in [live : Nat, withdrawn : Nat]

(* Nothing is withdrawn before it went live.                               *)
LiveFirst ==
    anRow.st \in {"none", "draft"} =>
        /\ ~ anRow.withdrawn /\ anTold.withdrawn = 0 /\ anTold.live = 0
        /\ \A r \in Posters : anReq[r] \notin {"withdraw", "scrubbed"}

(* Between a withdrawal's scrub and its commit no bell has the answer; from *)
(* then on one that has it is about to be checked again.                    *)
AnswersGo ==
    ~ anOverlap =>
        /\ (\E r \in Posters : anReq[r] = "scrubbed") => \A m \in Recipients : anBell[m].answer = 0
        /\ anRow.withdrawn /\ anCut = 0 =>
             \A m \in Recipients : anBell[m].answer > 0 => \E f \in FanIds : anFan[f].pc = "recheck"

(* The deliveries of answers (w = FALSE) and of withdrawals (w = TRUE): the *)
(* commits behind them, events not yet emitted, fan-outs under way, whom    *)
(* these have still to tell, and how often a member was told.               *)
Commits(w) == IF w THEN anTold.withdrawn ELSE anTold.live
EmitPc(w) == IF w THEN "emit_withdrawn" ELSE "emit"
Emitters(w) == {r \in Posters : anReq[r] = EmitPc(w)}
Fans(w) == {f \in FanIds : anFan[f].pc # "off" /\ anFan[f].w = w}
Ahead(f, m) == anFan[f].pc = "load" \/ m \in anFan[f].left
Times(w, m) == IF w THEN anBell[m].notice ELSE anBell[m].answer + anBell[m].blank

(* One commit has one event, one fan-out and one bell for each.            *)
OnceTold(w) ==
    /\ Commits(w) = 0 => /\ Emitters(w) = {} /\ Fans(w) = {}
                         /\ \A m \in Recipients : Times(w, m) = 0
    /\ Commits(w) <= 1 =>
         /\ \A r, s \in Emitters(w) : r = s
         /\ Emitters(w) # {} => Fans(w) = {} /\ \A m \in Recipients : Times(w, m) = 0
         /\ \A f, g \in Fans(w) : f = g
         /\ \A f \in Fans(w) : \A m \in Recipients : Ahead(f, m) => Times(w, m) = 0
         /\ \A m \in Recipients : Times(w, m) <= 1

(* Whoever wants it was told, or a delivery that will tell them is under   *)
(* way: any before the withdrawal, the withdrawal's own after it.          *)
Reached(w, m) ==
    Times(w, m) > 0 \/ Emitters(w) # {} \/ \E f \in Fans(w) : Ahead(f, m)

EveryoneReached ==
    anRow.st = "live" /\ anCut = 0 /\ anOpen =>
        \A m \in Recipients : Wanted(m) =>
            Reached(TRUE, m) \/ (~ anRow.withdrawn /\ Reached(FALSE, m))

AnnInv == /\ AnnTypes /\ LiveFirst /\ AnswersGo /\ EveryoneReached
          /\ \A w \in BOOLEAN : OnceTold(w)


(* A request moves.                                                        *)
LEMMA PosterMoves ==
  ASSUME AnnTypes, NEW r \in Posters, NEW pc \in PosterPcs, AnnGoes(r, pc)
  PROVE  /\ anReq' \in [Posters -> PosterPcs]
         /\ \A x \in Posters : anReq'[x] = IF x = r THEN pc ELSE anReq[x]
         /\ \A w \in BOOLEAN :
              /\ Emitters(w)' \subseteq Emitters(w) \cup {r}
              /\ pc # EmitPc(w) => Emitters(w)' \subseteq Emitters(w) \ {r}
              /\ anReq[r] # EmitPc(w) => Emitters(w) \subseteq Emitters(w)' /\ r \notin Emitters(w)
              /\ pc = EmitPc(w) => r \in Emitters(w)'
              /\ Emitters(w) \ {r} \subseteq Emitters(w)'
<1>1. /\ anReq' \in [Posters -> PosterPcs]
      /\ \A x \in Posters : anReq'[x] = IF x = r THEN pc ELSE anReq[x]
  BY DEF AnnTypes, AnnGoes
<1>2. \A w \in BOOLEAN : Emitters(w)' = {x \in Posters : anReq'[x] = EmitPc(w)}
  BY DEF Emitters
<1> QED
  BY <1>1, <1>2 DEF Emitters

(* A fan-out moves.                                                        *)
LEMMA FanMoves ==
  ASSUME AnnTypes, NEW f \in FanIds, NEW n \in FanReqs, anFan' = [anFan EXCEPT ![f] = n],
         n.pc = "commit" => n.left # {}, n.pc = "recheck" => ~ n.w
  PROVE  /\ anFan' \in [FanIds -> FanReqs]
         /\ \A g \in FanIds : anFan'[g] = IF g = f THEN n ELSE anFan[g]
         /\ \A g \in FanIds : /\ anFan'[g].pc = "commit" => anFan'[g].left # {}
                              /\ anFan'[g].pc = "recheck" => ~ anFan'[g].w
<1>1. /\ anFan' \in [FanIds -> FanReqs]
      /\ \A g \in FanIds : anFan'[g] = IF g = f THEN n ELSE anFan[g]
  BY DEF AnnTypes
<1> QED
  BY <1>1 DEF AnnTypes

(* Counts are numbers.                                                     *)
LEMMA TimesAreNat ==
  ASSUME AnnTypes, NEW w \in BOOLEAN, NEW m \in Recipients
  PROVE  /\ Times(w, m) \in Nat /\ Commits(w) \in Nat
         /\ anBell[m].answer \in Nat /\ anBell[m].blank \in Nat /\ anBell[m].notice \in Nat
<1>1. /\ anBell[m].answer \in Nat /\ anBell[m].blank \in Nat /\ anBell[m].notice \in Nat
      /\ anTold.live \in Nat /\ anTold.withdrawn \in Nat
  BY DEF AnnTypes
<1> QED
  BY <1>1 DEF Times, Commits

(* No more of a kind under way, and nobody told more often.                *)
LEMMA OnceKept ==
  ASSUME AnnTypes, AnnTypes', NEW w \in BOOLEAN, OnceTold(w), Commits(w)' = Commits(w),
         Emitters(w)' \subseteq Emitters(w), Fans(w)' \subseteq Fans(w),
         \A f \in Fans(w)' : \A m \in Recipients : Ahead(f, m)' => Ahead(f, m),
         \A m \in Recipients : Times(w, m)' <= Times(w, m)
  PROVE  OnceTold(w)'
<1>1. \A m \in Recipients : Times(w, m) \in Nat /\ Times(w, m)' \in Nat
  BY TimesAreNat DEF Times, AnnTypes
<1>2. ASSUME Commits(w)' = 0
      PROVE  Emitters(w)' = {} /\ Fans(w)' = {} /\ \A m \in Recipients : Times(w, m)' = 0
  <2>1. Emitters(w) = {} /\ Fans(w) = {} /\ \A m \in Recipients : Times(w, m) = 0
    BY <1>2 DEF OnceTold
  <2>2. \A m \in Recipients : Times(w, m)' = 0
    BY <1>1, <2>1
  <2> QED
    BY <2>1, <2>2
<1>3. ASSUME Commits(w)' <= 1
      PROVE  /\ \A r, s \in Emitters(w)' : r = s
             /\ Emitters(w)' # {} => Fans(w)' = {} /\ \A m \in Recipients : Times(w, m)' = 0
             /\ \A f, g \in Fans(w)' : f = g
             /\ \A f \in Fans(w)' : \A m \in Recipients : Ahead(f, m)' => Times(w, m)' = 0
             /\ \A m \in Recipients : Times(w, m)' <= 1
  <2>1. /\ \A r, s \in Emitters(w) : r = s
        /\ Emitters(w) # {} => Fans(w) = {} /\ \A m \in Recipients : Times(w, m) = 0
        /\ \A f, g \in Fans(w) : f = g
        /\ \A f \in Fans(w) : \A m \in Recipients : Ahead(f, m) => Times(w, m) = 0
        /\ \A m \in Recipients : Times(w, m) <= 1
    BY <1>3 DEF OnceTold
  <2>2. /\ \A r, s \in Emitters(w)' : r = s
        /\ \A f, g \in Fans(w)' : f = g
    BY <2>1
  <2>3. \A m \in Recipients : Times(w, m) = 0 => Times(w, m)' = 0
    BY <1>1
  <2>4. Emitters(w)' # {} => Fans(w)' = {} /\ \A m \in Recipients : Times(w, m)' = 0
    BY <2>1, <2>3
  <2>5. \A f \in Fans(w)' : \A m \in Recipients : Ahead(f, m)' => Times(w, m)' = 0
    BY <2>1, <2>3
  <2>6. \A m \in Recipients : Times(w, m)' <= 1
    BY <1>1, <2>1
  <2> QED
    BY <2>2, <2>4, <2>5, <2>6
<1> QED
  BY <1>2, <1>3 DEF OnceTold

(* As many of a kind under way, and nobody's bells taken.                  *)
LEMMA ReachedKept ==
  ASSUME AnnTypes, NEW w \in BOOLEAN, NEW m \in Recipients, Reached(w, m),
         Times(w, m)' = Times(w, m), Emitters(w) \subseteq Emitters(w)',
         \A f \in Fans(w) : Ahead(f, m) => f \in Fans(w)' /\ Ahead(f, m)'
  PROVE  Reached(w, m)'
BY DEF Reached

(* Nothing is delivered.                                                   *)
LEMMA NoDelivery ==
  ASSUME AnnTypes, Delivery
  PROVE  /\ \A w \in BOOLEAN :
              /\ Fans(w)' = Fans(w)
              /\ \A m \in Recipients : Times(w, m)' = Times(w, m) /\ Times(w, m)' <= Times(w, m)
         /\ \A f \in FanIds : \A m \in Recipients : Ahead(f, m)' <=> Ahead(f, m)
<1>1. /\ \A w \in BOOLEAN : Fans(w)' = Fans(w) /\ \A m \in Recipients : Times(w, m)' = Times(w, m)
      /\ \A f \in FanIds : \A m \in Recipients : Ahead(f, m)' <=> Ahead(f, m)
  BY DEF Delivery, Fans, Times, Ahead
<1>2. \A w \in BOOLEAN : \A m \in Recipients : Times(w, m) <= Times(w, m)
  BY TimesAreNat
<1> QED
  BY <1>1, <1>2

(* The start.                                                              *)
LEMMA AnnStart == AnnInit => AnnInv
<1> SUFFICES ASSUME AnnInit PROVE AnnInv
  OBVIOUS
<1> USE AnnAssumption
<1>1. /\ anRow = [st |-> "none", clar |-> FALSE, critical |-> FALSE, withdrawn |-> FALSE]
      /\ anOpen = TRUE /\ anBell = [m \in Recipients |-> NoBell] /\ anRoom = "nothing"
      /\ anReq = [r \in Posters |-> "idle"] /\ anFan = [f \in FanIds |-> FanOff]
      /\ anCut = 0 /\ anTold = [live |-> 0, withdrawn |-> 0] /\ anOverlap = FALSE
  BY DEF AnnInit
<1>2. /\ anRow \in AnnRows /\ anRow.st = "none" /\ ~ anRow.withdrawn
      /\ anTold \in [live : Nat, withdrawn : Nat] /\ anTold.live = 0 /\ anTold.withdrawn = 0
  BY <1>1 DEF AnnRows
<1>3. FanOff \in FanReqs /\ FanOff.pc = "off"
  BY DEF FanOff, FanReqs
<1>4. NoBell \in [answer : Nat, blank : Nat, notice : Nat]
      /\ NoBell.answer = 0 /\ NoBell.blank = 0 /\ NoBell.notice = 0
  BY DEF NoBell
<1>5. /\ \A r \in Posters : anReq[r] = "idle"
      /\ \A f \in FanIds : anFan[f] = FanOff
      /\ \A m \in Recipients : anBell[m] = NoBell
  BY <1>1
<1>6. AnnTypes
  <2>1. anBell \in [Recipients -> [answer : Nat, blank : Nat, notice : Nat]]
    BY <1>1, <1>4
  <2>2. anFan \in [FanIds -> FanReqs] /\ anReq \in [Posters -> PosterPcs]
    BY <1>1, <1>3 DEF PosterPcs
  <2>3. \A f \in FanIds : anFan[f].pc \notin {"commit", "recheck"}
    BY <1>3, <1>5
  <2>4. anCut \in 0 .. MaxAnnFaults
    BY <1>1
  <2> QED
    BY <1>1, <1>2, <2>1, <2>2, <2>3, <2>4 DEF AnnTypes
<1>7. LiveFirst /\ EveryoneReached /\ AnswersGo
  BY <1>1, <1>2, <1>5 DEF LiveFirst, EveryoneReached, AnswersGo
<1>8. \A w \in BOOLEAN : OnceTold(w)
  <2>1. \A m \in Recipients : \A w \in BOOLEAN : Times(w, m) = 0
    BY <1>4, <1>5 DEF Times
  <2>2. \A w \in BOOLEAN : Emitters(w) = {} /\ Fans(w) = {}
    BY <1>3, <1>5 DEF Emitters, EmitPc, Fans
  <2> QED
    BY <2>1, <2>2 DEF OnceTold
<1> QED
  BY <1>6, <1>7, <1>8 DEF AnnInv

(* A request that reads the row, or goes without a trace.                  *)
LEMMA QuietStep ==
  ASSUME AnnInv, NEW r \in Posters, NEW pc \in PosterPcs, AnnGoes(r, pc),
         anReq[r] \notin {"emit", "emit_withdrawn"},
         pc \notin {"emit", "emit_withdrawn", "scrubbed"},
         pc = "withdraw" => anRow.st = "live",
         UNCHANGED <<anRow, anTold>>, Delivery, Seen
  PROVE  AnnInv'
<1>1. /\ anReq' \in [Posters -> PosterPcs]
      /\ \A x \in Posters : anReq'[x] = IF x = r THEN pc ELSE anReq[x]
      /\ \A w \in BOOLEAN : Emitters(w)' = Emitters(w)
  <2>1. \A w \in BOOLEAN : pc # EmitPc(w) /\ anReq[r] # EmitPc(w)
    BY DEF EmitPc
  <2> QED
    BY <2>1, PosterMoves DEF AnnInv
<1>2. AnnTypes'
  BY <1>1 DEF AnnInv, AnnTypes, Delivery, Seen
<1>3. LiveFirst'
  BY <1>1 DEF AnnInv, LiveFirst
<1>4. AnswersGo'
  BY <1>1 DEF AnnInv, AnswersGo, Delivery, Seen
<1>5. \A w \in BOOLEAN : Commits(w)' = Commits(w)
  BY DEF Commits
<1>6. \A w \in BOOLEAN : OnceTold(w)'
  BY <1>1, <1>2, <1>5, NoDelivery, OnceKept DEF AnnInv, Fans
<1>7. EveryoneReached'
  <2>1. ASSUME NEW w \in BOOLEAN, NEW m \in Recipients, Reached(w, m) PROVE Reached(w, m)'
    BY <1>1, <2>1, NoDelivery DEF AnnInv, Reached, Fans
  <2>2. \A m \in Recipients : Wanted(m)' <=> Wanted(m)
    BY DEF Wanted
  <2> QED
    BY <2>1, <2>2 DEF AnnInv, EveryoneReached, Seen
<1> QED
  BY <1>2, <1>3, <1>4, <1>6, <1>7 DEF AnnInv

(* It goes live: one more event, at the poster.                            *)
LEMMA GoesLive ==
  ASSUME AnnInv, NEW r \in Posters, anReq[r] \in {"idle", "edit", "publish"}, AnnGoes(r, "emit"),
         anRow' \in AnnRows, anRow'.st = "live", anRow'.withdrawn = anRow.withdrawn,
         anRow.st \in {"none", "draft"} \/ (anRow.st = "live" /\ anRow'.critical = anRow.critical),
         anTold' \in [live : Nat, withdrawn : Nat], anTold'.live = anTold.live + 1,
         anTold'.withdrawn = anTold.withdrawn, Delivery, Seen
  PROVE  AnnInv'
<1>1. /\ anReq' \in [Posters -> PosterPcs]
      /\ \A x \in Posters : anReq'[x] = IF x = r THEN "emit" ELSE anReq[x]
      /\ r \in Emitters(FALSE)' /\ Emitters(FALSE)' \subseteq Emitters(FALSE) \cup {r}
      /\ Emitters(TRUE)' = Emitters(TRUE)
  <2>1. PICK pc : pc = "emit"
    OBVIOUS
  <2>2. pc \in PosterPcs /\ \A w \in BOOLEAN : (pc = EmitPc(w) <=> ~ w) /\ (w => anReq[r] # EmitPc(w))
    BY <2>1 DEF EmitPc, PosterPcs
  <2>3. /\ anReq' \in [Posters -> PosterPcs]
        /\ \A x \in Posters : anReq'[x] = IF x = r THEN pc ELSE anReq[x]
        /\ \A w \in BOOLEAN :
             /\ Emitters(w)' \subseteq Emitters(w) \cup {r}
             /\ ~ w => r \in Emitters(w)'
             /\ w => Emitters(w)' = Emitters(w)
    BY <2>1, <2>2, PosterMoves DEF AnnInv
  <2> QED
    BY <2>1, <2>3
<1>2. AnnTypes'
  BY <1>1 DEF AnnInv, AnnTypes, Delivery, Seen
<1>3. LiveFirst'
  BY DEF LiveFirst
<1>4. AnswersGo'
  BY <1>1 DEF AnnInv, AnswersGo, Delivery, Seen
<1>5. ASSUME NEW w \in BOOLEAN, w PROVE OnceTold(w)'
  <2>1. Commits(w)' = Commits(w) /\ Emitters(w)' = Emitters(w)
    BY <1>1, <1>5 DEF Commits
  <2> QED
    BY <1>2, <2>1, NoDelivery, OnceKept DEF AnnInv, Fans
<1>6. ASSUME NEW w \in BOOLEAN, ~ w PROVE OnceTold(w)'
  <2>1. Commits(w)' = Commits(w) + 1 /\ Commits(w) \in Nat
    BY <1>6 DEF Commits, AnnInv, AnnTypes
  <2>2. OnceTold(w)
    BY DEF AnnInv
  <2> SUFFICES ASSUME Commits(w) = 0 PROVE OnceTold(w)'
    BY <2>1 DEF OnceTold
  <2>3. Emitters(w) = {} /\ Fans(w) = {} /\ \A m \in Recipients : Times(w, m) = 0
    BY <2>2 DEF OnceTold
  <2>4. /\ Emitters(w)' = {r} /\ Fans(w)' = {}
        /\ \A m \in Recipients : Times(w, m)' = 0
    BY <1>1, <1>6, <2>3, NoDelivery DEF AnnInv
  <2> QED
    BY <2>1, <2>4 DEF OnceTold
<1>7. \A w \in BOOLEAN : OnceTold(w)'
  BY <1>5, <1>6
<1>8. EveryoneReached'
  <2> SUFFICES ASSUME anCut = 0, anOpen, NEW m \in Recipients, Wanted(m)'
               PROVE  Reached(TRUE, m)' \/ (~ anRow.withdrawn /\ Reached(FALSE, m)')
    BY DEF EveryoneReached, Seen
  <2>1. CASE anRow.withdrawn
    <3>1. anRow.st = "live" /\ Wanted(m)
      BY <2>1 DEF AnnInv, LiveFirst, Wanted
    <3>2. Reached(TRUE, m)
      BY <2>1, <3>1 DEF AnnInv, EveryoneReached
    <3> QED
      BY <1>1, <3>2, NoDelivery DEF AnnInv, Reached, Fans
  <2>2. CASE ~ anRow.withdrawn
    BY <1>1, <2>2 DEF Reached
  <2> QED
    BY <2>1, <2>2
<1> QED
  BY <1>2, <1>3, <1>4, <1>7, <1>8 DEF AnnInv

(* The steps of a request that only read the row.                          *)
LEMMA ReadSteps ==
  ASSUME AnnInv, NEW r \in Posters, NEW op \in {"edit", "cancel", "withdraw", "publish"},
         AnnouncementLoads(r, op) \/ EditCommits(r)
  PROVE  AnnInv'
<1>1. CASE AnnouncementLoads(r, op)
  <2>1. /\ AnnGoes(r, op) /\ anReq[r] = "idle" /\ (op = "withdraw" => anRow.st = "live")
        /\ UNCHANGED <<anRow, anTold>> /\ Delivery /\ Seen
    BY <1>1 DEF AnnouncementLoads
  <2>2. op \in PosterPcs /\ op \notin {"emit", "emit_withdrawn", "scrubbed"}
    BY DEF PosterPcs
  <2> QED
    BY <2>1, <2>2, QuietStep
<1>2. CASE EditCommits(r)
  <2>1. /\ AnnGoes(r, "idle") /\ anReq[r] = "edit"
        /\ UNCHANGED <<anRow, anTold>> /\ Delivery /\ Seen
    BY <1>2 DEF EditCommits
  <2>2. PICK pc : pc = "idle"
    OBVIOUS
  <2>3. pc \in PosterPcs
    BY <2>2 DEF PosterPcs
  <2> QED
    BY <2>1, <2>2, <2>3, QuietStep
<1> QED
  BY <1>1, <1>2

(* A new announcement, for now or for later.                               *)
LEMMA CreateStep ==
  ASSUME AnnInv, NEW r \in Posters, NEW scheduled \in BOOLEAN, NEW critical \in BOOLEAN,
         CreateAnnouncement(r, scheduled, critical)
  PROVE  AnnInv'
<1>1. /\ anReq[r] = "idle" /\ anRow.st = "none" /\ Delivery /\ Seen
      /\ anRow' = [anRow EXCEPT !.st = IF scheduled THEN "draft" ELSE "live", !.critical = critical]
      /\ anTold' = [anTold EXCEPT !.live = IF scheduled THEN 0 ELSE 1]
      /\ AnnGoes(r, IF scheduled THEN "idle" ELSE "emit")
  BY DEF CreateAnnouncement
<1>2. /\ anRow \in AnnRows /\ anTold \in [live : Nat, withdrawn : Nat]
      /\ ~ anRow.withdrawn /\ anTold.live = 0 /\ anTold.withdrawn = 0
  BY <1>1 DEF AnnInv, AnnTypes, LiveFirst
<1>3. CASE ~ scheduled
  <2>1. AnnGoes(r, "emit")
    BY <1>1, <1>3
  <2>2. /\ anRow' \in AnnRows /\ anRow'.st = "live" /\ anRow'.withdrawn = anRow.withdrawn
    BY <1>1, <1>2, <1>3 DEF AnnRows
  <2>3. /\ anTold' \in [live : Nat, withdrawn : Nat] /\ anTold'.live = anTold.live + 1
        /\ anTold'.withdrawn = anTold.withdrawn
    BY <1>1, <1>2, <1>3
  <2> QED
    BY <1>1, <2>1, <2>2, <2>3, GoesLive
<1>4. CASE scheduled
  <2>1. AnnGoes(r, "idle")
    BY <1>1, <1>4
  <2>2. /\ anRow' \in AnnRows /\ anRow'.st = "draft" /\ ~ anRow'.withdrawn
    BY <1>1, <1>2, <1>4 DEF AnnRows
  <2>3. /\ anTold' \in [live : Nat, withdrawn : Nat] /\ anTold'.live = 0 /\ anTold'.withdrawn = 0
    BY <1>1, <1>2, <1>4
  <2>4. /\ anReq' \in [Posters -> PosterPcs]
        /\ \A x \in Posters : anReq'[x] = IF x = r THEN "idle" ELSE anReq[x]
        /\ \A w \in BOOLEAN : Emitters(w)' \subseteq Emitters(w)
    <3>1. PICK pc : pc = "idle"
      OBVIOUS
    <3>2. pc \in PosterPcs /\ \A w \in BOOLEAN : pc # EmitPc(w)
      BY <3>1 DEF PosterPcs, EmitPc
    <3> QED
      BY <2>1, <3>1, <3>2, PosterMoves DEF AnnInv
  <2>5. AnnTypes'
    BY <1>1, <2>2, <2>3, <2>4 DEF AnnInv, AnnTypes, Delivery, Seen
  <2>6. LiveFirst' /\ AnswersGo' /\ EveryoneReached'
    <3>1. LiveFirst'
      BY <1>1, <2>2, <2>3, <2>4 DEF AnnInv, LiveFirst
    <3>2. AnswersGo'
      BY <1>1, <2>2, <2>4 DEF AnnInv, AnswersGo, LiveFirst
    <3>3. EveryoneReached'
      BY <2>2 DEF EveryoneReached
    <3> QED
      BY <3>1, <3>2, <3>3
  <2>7. \A w \in BOOLEAN : Commits(w)' = Commits(w)
    BY <1>2, <2>3 DEF Commits
  <2>8. \A w \in BOOLEAN : OnceTold(w)'
    BY <1>1, <2>4, <2>5, <2>7, NoDelivery, OnceKept DEF AnnInv, Fans
  <2> QED
    BY <2>5, <2>6, <2>8 DEF AnnInv
<1> QED
  BY <1>3, <1>4

(* A clarification goes live at once.                                      *)
LEMMA ClarifyStep ==
  ASSUME AnnInv, NEW r \in Posters, PostClarification(r)
  PROVE  AnnInv'
<1>1. /\ anReq[r] = "idle" /\ anRow.st = "none" /\ Delivery /\ Seen
      /\ anRow' = [anRow EXCEPT !.st = "live", !.clar = TRUE]
      /\ anTold' = [anTold EXCEPT !.live = 1] /\ AnnGoes(r, "emit")
  BY DEF PostClarification
<1>2. /\ anRow \in AnnRows /\ anTold \in [live : Nat, withdrawn : Nat] /\ anTold.live = 0
  BY <1>1 DEF AnnInv, AnnTypes, LiveFirst
<1>3. /\ anRow' \in AnnRows /\ anRow'.st = "live" /\ anRow'.withdrawn = anRow.withdrawn
  BY <1>1, <1>2 DEF AnnRows
<1>4. /\ anTold' \in [live : Nat, withdrawn : Nat] /\ anTold'.live = anTold.live + 1
      /\ anTold'.withdrawn = anTold.withdrawn
  BY <1>1, <1>2
<1> QED
  BY <1>1, <1>3, <1>4, GoesLive

(* The edit or the tick publishes the row, when it is there.               *)
LEMMA PublishStep ==
  ASSUME AnnInv, NEW r \in Posters, PublishCommits(r)
  PROVE  AnnInv'
<1>1. anReq[r] \in {"edit", "publish"} /\ Delivery /\ Seen
  BY DEF PublishCommits
<1>2. CASE anRow.st = "gone"
  <2>1. PICK pc : pc = "idle"
    OBVIOUS
  <2>2. pc \in PosterPcs
    BY <2>1 DEF PosterPcs
  <2>3. AnnGoes(r, pc) /\ UNCHANGED <<anRow, anTold>>
    BY <1>2, <2>1 DEF PublishCommits
  <2> QED
    BY <1>1, <2>1, <2>2, <2>3, QuietStep
<1>3. CASE anRow.st # "gone"
  <2>1. /\ anRow' = [anRow EXCEPT !.st = "live"] /\ anTold' = [anTold EXCEPT !.live = @ + 1]
        /\ AnnGoes(r, "emit")
    BY <1>3 DEF PublishCommits
  <2>2. /\ anRow \in AnnRows /\ anTold \in [live : Nat, withdrawn : Nat]
    BY DEF AnnInv, AnnTypes
  <2>3. /\ anRow' \in AnnRows /\ anRow'.st = "live" /\ anRow'.withdrawn = anRow.withdrawn
        /\ anRow'.critical = anRow.critical /\ anRow.st \in {"none", "draft", "live"}
    BY <1>3, <2>1, <2>2 DEF AnnRows
  <2>4. /\ anTold' \in [live : Nat, withdrawn : Nat] /\ anTold'.live = anTold.live + 1
        /\ anTold'.withdrawn = anTold.withdrawn
    BY <2>1, <2>2
  <2> QED
    BY <1>1, <2>1, <2>3, <2>4, GoesLive
<1> QED
  BY <1>2, <1>3

(* Deleting it takes every bell with it.                                   *)
LEMMA CancelStep ==
  ASSUME AnnInv, NEW r \in Posters, CancelCommits(r)
  PROVE  AnnInv'
<1>1. /\ anReq[r] = "cancel" /\ AnnGoes(r, "idle") /\ anRow' = [anRow EXCEPT !.st = "gone"]
      /\ anBell' = [m \in Recipients |-> NoBell]
      /\ UNCHANGED <<anRoom, anFan, anTold>> /\ Seen
  BY DEF CancelCommits
<1>2. PICK pc : pc = "idle"
  OBVIOUS
<1>3. pc \in PosterPcs /\ \A w \in BOOLEAN : pc # EmitPc(w)
  BY <1>2 DEF PosterPcs, EmitPc
<1>4. /\ anReq' \in [Posters -> PosterPcs]
      /\ \A x \in Posters : anReq'[x] = IF x = r THEN pc ELSE anReq[x]
      /\ \A w \in BOOLEAN : Emitters(w)' \subseteq Emitters(w)
  BY <1>1, <1>2, <1>3, PosterMoves DEF AnnInv
<1>5. anRow' \in AnnRows /\ anRow'.st = "gone" /\ anRow'.withdrawn = anRow.withdrawn
  BY <1>1 DEF AnnInv, AnnTypes, AnnRows
<1>6. /\ anBell' \in [Recipients -> [answer : Nat, blank : Nat, notice : Nat]]
      /\ \A m \in Recipients : anBell'[m].answer = 0 /\ anBell'[m].blank = 0 /\ anBell'[m].notice = 0
  <2>1. /\ NoBell \in [answer : Nat, blank : Nat, notice : Nat]
        /\ NoBell.answer = 0 /\ NoBell.blank = 0 /\ NoBell.notice = 0
    BY DEF NoBell
  <2>2. \A m \in Recipients : anBell'[m] = NoBell
    BY <1>1
  <2> QED
    BY <1>1, <2>1, <2>2
<1>7. AnnTypes'
  BY <1>1, <1>4, <1>5, <1>6 DEF AnnInv, AnnTypes, Seen
<1>8. LiveFirst' /\ EveryoneReached'
  BY <1>5 DEF LiveFirst, EveryoneReached
<1>9. AnswersGo'
  BY <1>6 DEF AnswersGo
<1>10. ASSUME NEW w \in BOOLEAN PROVE OnceTold(w)'
  <2>1. /\ Commits(w)' = Commits(w) /\ Fans(w)' = Fans(w)
        /\ \A f \in FanIds : \A m \in Recipients : Ahead(f, m)' <=> Ahead(f, m)
    BY <1>1 DEF Commits, Fans, Ahead
  <2>2. \A m \in Recipients : Times(w, m)' <= Times(w, m)
    BY <1>6, TimesAreNat DEF AnnInv, Times
  <2> QED
    BY <1>4, <1>7, <2>1, <2>2, OnceKept DEF AnnInv, Fans
<1> QED
  BY <1>7, <1>8, <1>9, <1>10 DEF AnnInv

(* A scrub empties the bells of the answer, and counts what was there.     *)
LEMMA Scrubs ==
  ASSUME AnnTypes, Scrub
  PROVE  /\ anBell' \in [Recipients -> [answer : Nat, blank : Nat, notice : Nat]]
         /\ \A m \in Recipients : anBell'[m].answer = 0
         /\ \A w \in BOOLEAN : \A m \in Recipients : Times(w, m)' = Times(w, m) /\ Times(w, m)' <= Times(w, m)
<1> DEFINE Bell == [answer : Nat, blank : Nat, notice : Nat]
<1>1. ASSUME NEW m \in Recipients
      PROVE  /\ anBell'[m] \in Bell /\ anBell'[m].answer = 0 /\ anBell'[m].notice = anBell[m].notice
             /\ anBell'[m].blank = anBell[m].blank + anBell[m].answer
  <2>1. anBell'[m] = [anBell[m] EXCEPT !.answer = 0, !.blank = @ + anBell[m].answer]
    BY DEF Scrub
  <2>2. /\ anBell[m] \in Bell /\ anBell[m].answer \in Nat /\ anBell[m].blank \in Nat
        /\ anBell[m].blank + anBell[m].answer \in Nat
    BY DEF AnnTypes
  <2>3. PICK b : b = anBell[m].blank + anBell[m].answer
    OBVIOUS
  <2>4. PICK z \in Bell : z = anBell[m]
    BY <2>2
  <2>5. anBell'[m] = [z EXCEPT !.answer = 0, !.blank = b] /\ b \in Nat
    BY <2>1, <2>2, <2>3, <2>4
  <2>6. [z EXCEPT !.answer = 0, !.blank = b] \in Bell
    BY <2>5
  <2>7. /\ anBell'[m].answer = 0 /\ anBell'[m].notice = z.notice /\ anBell'[m].blank = b
    BY <2>5
  <2> QED
    BY <2>3, <2>4, <2>5, <2>6, <2>7
<1>2. anBell' \in [Recipients -> Bell]
  BY <1>1 DEF Scrub
<1>3. ASSUME NEW w \in BOOLEAN, NEW m \in Recipients
      PROVE  Times(w, m)' = Times(w, m) /\ Times(w, m)' <= Times(w, m)
  <2>1. Times(w, m) \in Nat /\ anBell[m].answer \in Nat /\ anBell[m].blank \in Nat
    BY TimesAreNat
  <2>2. Times(w, m)' = Times(w, m)
    BY <1>1, <2>1 DEF Times
  <2> QED
    BY <2>1, <2>2
<1> QED
  BY <1>1, <1>2, <1>3

(* A withdrawal scrubs.                                                    *)
LEMMA WithdrawScrubsStep ==
  ASSUME AnnInv, NEW r \in Posters, WithdrawScrubs(r)
  PROVE  AnnInv'
<1>1. /\ anReq[r] = "withdraw" /\ Scrub /\ AnnGoes(r, "scrubbed")
      /\ UNCHANGED <<anRow, anRoom, anFan, anTold>> /\ Seen
  BY DEF WithdrawScrubs
<1>2. PICK pc : pc = "scrubbed"
  OBVIOUS
<1>3. pc \in PosterPcs /\ \A w \in BOOLEAN : pc # EmitPc(w) /\ anReq[r] # EmitPc(w)
  BY <1>1, <1>2 DEF PosterPcs, EmitPc
<1>4. /\ anReq' \in [Posters -> PosterPcs]
      /\ \A x \in Posters : anReq'[x] = IF x = r THEN pc ELSE anReq[x]
      /\ \A w \in BOOLEAN : Emitters(w)' = Emitters(w)
  BY <1>1, <1>2, <1>3, PosterMoves DEF AnnInv
<1>5. AnnTypes'
  BY <1>1, <1>4, Scrubs DEF AnnInv, AnnTypes, Seen
<1>6. LiveFirst'
  BY <1>1, <1>4 DEF AnnInv, LiveFirst
<1>7. AnswersGo'
  BY <1>1, Scrubs DEF AnnInv, AnswersGo
<1>8. ASSUME NEW w \in BOOLEAN
      PROVE  /\ Commits(w)' = Commits(w) /\ Fans(w)' = Fans(w)
             /\ \A f \in FanIds : \A m \in Recipients : Ahead(f, m)' <=> Ahead(f, m)
             /\ \A m \in Recipients : Times(w, m)' = Times(w, m) /\ Times(w, m)' <= Times(w, m)
  BY <1>1, Scrubs DEF AnnInv, Commits, Fans, Ahead
<1>9. \A w \in BOOLEAN : OnceTold(w)'
  BY <1>4, <1>5, <1>8, OnceKept DEF AnnInv, Fans
<1>10. EveryoneReached'
  <2>1. ASSUME NEW w \in BOOLEAN, NEW m \in Recipients, Reached(w, m) PROVE Reached(w, m)'
    BY <1>4, <1>8, <2>1 DEF Reached, Fans
  <2>2. \A m \in Recipients : Wanted(m)' <=> Wanted(m)
    BY <1>1 DEF Wanted
  <2> QED
    BY <1>1, <2>1, <2>2 DEF AnnInv, EveryoneReached, Seen
<1> QED
  BY <1>5, <1>6, <1>7, <1>9, <1>10 DEF AnnInv

(* A withdrawal commits: one more event of its kind, at the poster.        *)
LEMMA WithdrawCommitsStep ==
  ASSUME AnnInv, NEW r \in Posters, WithdrawCommits(r)
  PROVE  AnnInv'
<1>1. /\ anReq[r] = "scrubbed" /\ AnnGoes(r, "emit_withdrawn")
      /\ anRow' = [anRow EXCEPT !.withdrawn = TRUE]
      /\ anTold' = [anTold EXCEPT !.withdrawn = @ + 1] /\ Delivery /\ Seen
  BY DEF WithdrawCommits
<1>2. /\ anReq' \in [Posters -> PosterPcs]
      /\ \A x \in Posters : anReq'[x] = IF x = r THEN "emit_withdrawn" ELSE anReq[x]
      /\ \A w \in BOOLEAN : w => r \in Emitters(w)' /\ Emitters(w)' \subseteq Emitters(w) \cup {r}
      /\ \A w \in BOOLEAN : ~ w => Emitters(w)' = Emitters(w)
  <2>1. PICK pc : pc = "emit_withdrawn"
    OBVIOUS
  <2>2. /\ pc \in PosterPcs /\ \A w \in BOOLEAN : anReq[r] # EmitPc(w)
        /\ \A w \in BOOLEAN : w => pc = EmitPc(w)
        /\ \A w \in BOOLEAN : ~ w => pc # EmitPc(w)
    BY <1>1, <2>1 DEF PosterPcs, EmitPc
  <2>3. /\ anReq' \in [Posters -> PosterPcs]
        /\ \A x \in Posters : anReq'[x] = IF x = r THEN pc ELSE anReq[x]
        /\ \A w \in BOOLEAN :
             /\ Emitters(w)' \subseteq Emitters(w) \cup {r}
             /\ pc # EmitPc(w) => Emitters(w)' \subseteq Emitters(w) \ {r}
             /\ Emitters(w) \subseteq Emitters(w)'
             /\ pc = EmitPc(w) => r \in Emitters(w)'
    BY <1>1, <2>1, <2>2, PosterMoves DEF AnnInv
  <2> QED
    BY <2>1, <2>2, <2>3
<1>3. /\ anRow' \in AnnRows /\ anRow'.st = anRow.st /\ anRow'.withdrawn
      /\ anRow'.st \in {"live", "gone"}
  BY <1>1 DEF AnnInv, AnnTypes, LiveFirst, AnnRows
<1>4. /\ anTold' \in [live : Nat, withdrawn : Nat] /\ anTold'.live = anTold.live
      /\ anTold'.withdrawn = anTold.withdrawn + 1 /\ anTold.withdrawn \in Nat
  BY <1>1 DEF AnnInv, AnnTypes
<1>5. AnnTypes'
  BY <1>1, <1>2, <1>3, <1>4 DEF AnnInv, AnnTypes, Delivery, Seen
<1>6. LiveFirst'
  BY <1>3 DEF LiveFirst
<1>7. AnswersGo'
  <2> SUFFICES ASSUME ~ anOverlap PROVE \A m \in Recipients : anBell'[m].answer = 0
    BY <1>1 DEF AnswersGo, Seen
  <2> QED
    BY <1>1 DEF AnnInv, AnswersGo, Delivery
<1>8. ASSUME NEW w \in BOOLEAN, ~ w PROVE OnceTold(w)'
  <2>1. Commits(w)' = Commits(w) /\ Emitters(w)' = Emitters(w)
    BY <1>2, <1>4, <1>8 DEF Commits
  <2> QED
    BY <1>1, <1>5, <2>1, NoDelivery, OnceKept DEF AnnInv, Fans
<1>9. ASSUME NEW w \in BOOLEAN, w PROVE OnceTold(w)'
  <2>1. Commits(w)' = Commits(w) + 1 /\ Commits(w) \in Nat
    BY <1>4, <1>9 DEF Commits
  <2>2. OnceTold(w)
    BY DEF AnnInv
  <2> SUFFICES ASSUME Commits(w) = 0 PROVE OnceTold(w)'
    BY <2>1 DEF OnceTold
  <2>3. Emitters(w) = {} /\ Fans(w) = {} /\ \A m \in Recipients : Times(w, m) = 0
    BY <2>2 DEF OnceTold
  <2>4. /\ Emitters(w)' = {r} /\ Fans(w)' = {}
        /\ \A m \in Recipients : Times(w, m)' = 0
    BY <1>1, <1>2, <1>9, <2>3, NoDelivery DEF AnnInv
  <2> QED
    BY <2>1, <2>4 DEF OnceTold
<1>10. EveryoneReached'
  <2>1. \A m \in Recipients : Reached(TRUE, m)'
    BY <1>2 DEF Reached
  <2> QED
    BY <2>1 DEF EveryoneReached
<1> QED
  BY <1>5, <1>6, <1>7, <1>8, <1>9, <1>10 DEF AnnInv

(* The challenge is hidden, or an event is lost.                           *)
LEMMA HidesOrLost ==
  ASSUME AnnInv, NEW r \in Posters, ChallengeHides \/ EmitLost(r)
  PROVE  AnnInv'
<1> USE AnnAssumption
<1>1. CASE ChallengeHides
  <2>1. anOpen' = FALSE /\ UNCHANGED <<anRow, anReq, anCut, anTold, anOverlap>> /\ Delivery
    BY <1>1 DEF ChallengeHides
  <2>2. AnnTypes'
    BY <2>1 DEF AnnInv, AnnTypes, Delivery
  <2>3. LiveFirst' /\ EveryoneReached' /\ AnswersGo'
    BY <2>1 DEF AnnInv, LiveFirst, EveryoneReached, AnswersGo, Delivery
  <2>4. \A w \in BOOLEAN : Commits(w)' = Commits(w) /\ Emitters(w)' = Emitters(w)
    BY <2>1 DEF Commits, Emitters
  <2>5. \A w \in BOOLEAN : OnceTold(w)'
    BY <2>1, <2>2, <2>4, NoDelivery, OnceKept DEF AnnInv, Fans
  <2> QED
    BY <2>2, <2>3, <2>5 DEF AnnInv
<1>2. CASE EmitLost(r)
  <2>1. /\ anReq[r] \in {"emit", "emit_withdrawn"} /\ AnnGoes(r, "idle")
        /\ anCut < MaxAnnFaults /\ anCut' = anCut + 1
        /\ UNCHANGED <<anRow, anOpen, anTold, anOverlap>> /\ Delivery
    BY <1>2 DEF EmitLost
  <2>2. PICK pc : pc = "idle"
    OBVIOUS
  <2>3. pc \in PosterPcs /\ \A w \in BOOLEAN : pc # EmitPc(w)
    BY <2>2 DEF PosterPcs, EmitPc
  <2>4. /\ anReq' \in [Posters -> PosterPcs]
        /\ \A x \in Posters : anReq'[x] = IF x = r THEN pc ELSE anReq[x]
        /\ \A w \in BOOLEAN : Emitters(w)' \subseteq Emitters(w)
    BY <2>1, <2>2, <2>3, PosterMoves DEF AnnInv
  <2>5. anCut' \in 0 .. MaxAnnFaults /\ anCut' # 0
    BY <2>1 DEF AnnInv, AnnTypes
  <2>6. AnnTypes'
    BY <2>1, <2>4, <2>5 DEF AnnInv, AnnTypes, Delivery
  <2>7. LiveFirst' /\ EveryoneReached'
    BY <2>1, <2>2, <2>4, <2>5 DEF AnnInv, LiveFirst, EveryoneReached
  <2>8. AnswersGo'
    BY <2>1, <2>2, <2>4, <2>5 DEF AnnInv, AnswersGo, Delivery
  <2>9. \A w \in BOOLEAN : Commits(w)' = Commits(w)
    BY <2>1 DEF Commits
  <2>10. \A w \in BOOLEAN : OnceTold(w)'
    BY <2>1, <2>4, <2>6, <2>9, NoDelivery, OnceKept DEF AnnInv, Fans
  <2> QED
    BY <2>6, <2>7, <2>8, <2>10 DEF AnnInv
<1> QED
  BY <1>1, <1>2

(* An event starts its fan-out, which has everyone ahead.                  *)
LEMMA AnnEmitStep ==
  ASSUME AnnInv, NEW r \in Posters, AnnEmit(r)
  PROVE  AnnInv'
<1>1. /\ anReq[r] \in {"emit", "emit_withdrawn"} /\ AnnGoes(r, "idle")
      /\ UNCHANGED <<anRow, anBell, anRoom, anTold>> /\ Seen
  BY DEF AnnEmit
<1>2. PICK k \in BOOLEAN : anReq[r] = EmitPc(k) /\ (k <=> anReq[r] = "emit_withdrawn")
  BY <1>1 DEF EmitPc
<1>3. PICK f \in FanIds :
        /\ anFan[f].pc = "off"
        /\ anFan' = [anFan EXCEPT ![f] = [FanOff EXCEPT !.pc = "load", !.w = anReq[r] = "emit_withdrawn"]]
  BY DEF AnnEmit
<1>4. PICK n : n = [FanOff EXCEPT !.pc = "load", !.w = anReq[r] = "emit_withdrawn"]
  OBVIOUS
<1>5. n \in FanReqs /\ n.pc = "load" /\ n.w = k
  BY <1>2, <1>4 DEF FanOff, FanReqs
<1>6. /\ anFan' \in [FanIds -> FanReqs]
      /\ \A g \in FanIds : anFan'[g] = IF g = f THEN n ELSE anFan[g]
      /\ \A g \in FanIds : /\ anFan'[g].pc = "commit" => anFan'[g].left # {}
                           /\ anFan'[g].pc = "recheck" => ~ anFan'[g].w
  BY <1>3, <1>4, <1>5, FanMoves DEF AnnInv
<1>7. PICK pc : pc = "idle"
  OBVIOUS
<1>8. pc \in PosterPcs /\ \A w \in BOOLEAN : pc # EmitPc(w)
  BY <1>7 DEF PosterPcs, EmitPc
<1>9. /\ anReq' \in [Posters -> PosterPcs]
      /\ \A x \in Posters : anReq'[x] = IF x = r THEN pc ELSE anReq[x]
      /\ \A w \in BOOLEAN : Emitters(w)' = Emitters(w) \ {r}
      /\ \A w \in BOOLEAN : w # k => r \notin Emitters(w)
      /\ r \in Emitters(k)
  <2>1. /\ anReq' \in [Posters -> PosterPcs]
        /\ \A x \in Posters : anReq'[x] = IF x = r THEN pc ELSE anReq[x]
        /\ \A w \in BOOLEAN : /\ Emitters(w)' \subseteq Emitters(w) \ {r}
                              /\ Emitters(w) \ {r} \subseteq Emitters(w)'
    BY <1>1, <1>7, <1>8, PosterMoves DEF AnnInv
  <2>2. \A w \in BOOLEAN : w # k => r \notin Emitters(w)
    BY <1>2 DEF Emitters, EmitPc
  <2>3. r \in Emitters(k)
    BY <1>2 DEF Emitters
  <2> QED
    BY <2>1, <2>2, <2>3
<1>10. AnnTypes'
  BY <1>1, <1>6, <1>9 DEF AnnInv, AnnTypes, Seen
<1>11. LiveFirst'
  BY <1>1, <1>7, <1>9 DEF AnnInv, LiveFirst
<1>12. AnswersGo'
  BY <1>1, <1>3, <1>6, <1>7, <1>9 DEF AnnInv, AnswersGo, Seen
<1>13. /\ \A w \in BOOLEAN : /\ Commits(w)' = Commits(w)
                             /\ \A m \in Recipients : Times(w, m)' = Times(w, m)
                             /\ Fans(w)' = IF w = k THEN Fans(w) \cup {f} ELSE Fans(w)
       /\ f \in Fans(k)' /\ \A w \in BOOLEAN : f \notin Fans(w)
       /\ \A g \in FanIds \ {f} : \A m \in Recipients : Ahead(g, m)' <=> Ahead(g, m)
       /\ \A m \in Recipients : Ahead(f, m)'
  <2>1. \A w \in BOOLEAN : Commits(w)' = Commits(w) /\ \A m \in Recipients : Times(w, m)' = Times(w, m)
    BY <1>1 DEF Commits, Times
  <2>2. ASSUME NEW w \in BOOLEAN
        PROVE  Fans(w)' = IF w = k THEN Fans(w) \cup {f} ELSE Fans(w)
    <3>1. \A g \in FanIds \ {f} : g \in Fans(w)' <=> g \in Fans(w)
      BY <1>6 DEF Fans
    <3>2. f \in Fans(w)' <=> w = k
      BY <1>5, <1>6 DEF Fans
    <3>3. f \notin Fans(w)
      BY <1>3 DEF Fans
    <3>4. Fans(w) \subseteq FanIds /\ Fans(w)' \subseteq FanIds
      BY DEF Fans
    <3> QED
      BY <3>1, <3>2, <3>3, <3>4
  <2>3. /\ \A g \in FanIds \ {f} : \A m \in Recipients : Ahead(g, m)' <=> Ahead(g, m)
        /\ \A m \in Recipients : Ahead(f, m)'
    BY <1>5, <1>6 DEF Ahead
  <2>4. \A w \in BOOLEAN : f \notin Fans(w)
    BY <1>3 DEF Fans
  <2> QED
    BY <2>1, <2>2, <2>3, <2>4
<1>14. ASSUME NEW w \in BOOLEAN, w # k PROVE OnceTold(w)'
  <2>1. \A m \in Recipients : Times(w, m)' <= Times(w, m)
    BY <1>13, TimesAreNat DEF AnnInv
  <2>2. \A g \in Fans(w)' : g \in FanIds \ {f}
    BY <1>13, <1>14 DEF Fans
  <2> QED
    BY <1>9, <1>10, <1>13, <1>14, <2>1, <2>2, OnceKept DEF AnnInv
<1>15. OnceTold(k)'
  <2>1. OnceTold(k) /\ Commits(k) \in Nat
    BY <1>1, TimesAreNat DEF AnnInv, AnnTypes, Commits
  <2>2. Commits(k) # 0
    BY <1>9, <2>1 DEF OnceTold
  <2>3. ASSUME Commits(k) <= 1
        PROVE  /\ Emitters(k)' = {} /\ Fans(k)' = {f}
               /\ \A m \in Recipients : Times(k, m)' = 0
    <3>1. /\ \A x, y \in Emitters(k) : x = y
          /\ Fans(k) = {} /\ \A m \in Recipients : Times(k, m) = 0
      BY <1>9, <2>1, <2>3 DEF OnceTold
    <3> QED
      BY <1>9, <1>13, <3>1
  <2>4. Commits(k)' = Commits(k)
    BY <1>13
  <2> QED
    BY <2>2, <2>3, <2>4 DEF OnceTold
<1>16. EveryoneReached'
  <2>1. ASSUME NEW w \in BOOLEAN, NEW m \in Recipients, Reached(w, m) PROVE Reached(w, m)'
    <3>1. CASE w = k
      BY <1>13, <3>1 DEF Reached
    <3>2. CASE w # k
      <4>1. \A g \in Fans(w) : g \in FanIds \ {f}
        BY <1>13 DEF Fans
      <4> QED
        BY <1>9, <1>13, <2>1, <3>2, <4>1 DEF Reached
    <3> QED
      BY <3>1, <3>2
  <2>2. \A m \in Recipients : Wanted(m)' <=> Wanted(m)
    BY <1>1 DEF Wanted
  <2> QED
    BY <1>1, <2>1, <2>2 DEF AnnInv, EveryoneReached, Seen
<1> QED
  BY <1>10, <1>11, <1>12, <1>14, <1>15, <1>16 DEF AnnInv

(* A fan-out goes on or ends: there are no more of them, nor more ahead.   *)
LEMMA FanFewer ==
  ASSUME AnnTypes, NEW f \in FanIds, NEW n \in FanReqs, anFan[f].pc # "off",
         \A g \in FanIds : anFan'[g] = IF g = f THEN n ELSE anFan[g],
         \/ n.pc = "off"
         \/ /\ n.w = anFan[f].w /\ n.pc # "load"
            /\ \A m \in Recipients : m \in n.left => Ahead(f, m)
  PROVE  \A w \in BOOLEAN :
           /\ Fans(w)' \subseteq Fans(w)
           /\ \A g \in Fans(w)' : \A m \in Recipients : Ahead(g, m)' => Ahead(g, m)
           /\ w # anFan[f].w => f \notin Fans(w) /\ Fans(w)' = Fans(w)
           /\ \A g \in FanIds \ {f} : \A m \in Recipients : Ahead(g, m)' <=> Ahead(g, m)
           /\ \A g \in Fans(w) : g # f => g \in Fans(w)'
<1>1. \A w \in BOOLEAN : Fans(w)' \subseteq Fans(w)
  BY DEF Fans
<1>2. \A g \in FanIds \ {f} : \A m \in Recipients : Ahead(g, m)' <=> Ahead(g, m)
  BY DEF Ahead
<1>3. ASSUME NEW w \in BOOLEAN, NEW g \in Fans(w)', NEW m \in Recipients, Ahead(g, m)'
      PROVE  Ahead(g, m)
  <2>1. CASE g = f
    <3>1. n.pc # "off" /\ m \in n.left
      BY <1>3, <2>1 DEF Fans, Ahead
    <3> QED
      BY <2>1, <3>1
  <2>2. CASE g # f
    BY <1>2, <1>3, <2>2 DEF Fans
  <2> QED
    BY <2>1, <2>2
<1>4. \A w \in BOOLEAN : w # anFan[f].w => f \notin Fans(w) /\ Fans(w)' = Fans(w)
  BY DEF Fans
<1>5. \A w \in BOOLEAN : \A g \in Fans(w) : g # f => g \in Fans(w)'
  BY DEF Fans
<1> QED
  BY <1>1, <1>2, <1>3, <1>4, <1>5

(* A step of a fan-out that tells nobody and forgets nobody, but for a     *)
(* row that is gone, a challenge nobody sees, or an answer withdrawn.      *)
LEMMA FanStep ==
  ASSUME AnnInv, NEW f \in FanIds, NEW n \in FanReqs, anFan[f].pc # "off",
         anFan' = [anFan EXCEPT ![f] = n],
         n.pc = "commit" => n.left # {}, n.pc \notin {"load", "recheck"},
         n.pc # "off" => n.w = anFan[f].w /\ \A m \in Recipients : m \in n.left => Ahead(f, m),
         anFan[f].pc = "recheck" => ~ anRow.withdrawn,
         \A m \in Recipients : Ahead(f, m) /\ anRow.st = "live" /\ anOpen =>
           (n.pc # "off" /\ m \in n.left) \/ (~ anFan[f].w /\ anRow.withdrawn),
         Posted, anBell' = anBell, anRoom' \in {"nothing", "answer", "withdrawn"},
         anCut' = anCut, anOverlap' \in BOOLEAN, anOverlap => anOverlap'
  PROVE  AnnInv'
<1>1. /\ anFan' \in [FanIds -> FanReqs]
      /\ \A g \in FanIds : anFan'[g] = IF g = f THEN n ELSE anFan[g]
      /\ \A g \in FanIds : /\ anFan'[g].pc = "commit" => anFan'[g].left # {}
                           /\ anFan'[g].pc = "recheck" => ~ anFan'[g].w
  BY FanMoves DEF AnnInv
<1>2. \A w \in BOOLEAN :
        /\ Fans(w)' \subseteq Fans(w)
        /\ \A g \in Fans(w)' : \A m \in Recipients : Ahead(g, m)' => Ahead(g, m)
        /\ w # anFan[f].w => f \notin Fans(w) /\ Fans(w)' = Fans(w)
        /\ \A g \in FanIds \ {f} : \A m \in Recipients : Ahead(g, m)' <=> Ahead(g, m)
        /\ \A g \in Fans(w) : g # f => g \in Fans(w)'
  BY <1>1, FanFewer DEF AnnInv
<1>3. AnnTypes'
  BY <1>1 DEF AnnInv, AnnTypes, Posted
<1>4. LiveFirst'
  BY DEF AnnInv, LiveFirst, Posted
<1>5. AnswersGo'
  <2>1. (\E g \in FanIds : anFan[g].pc = "recheck") /\ anRow.withdrawn
          => \E g \in FanIds : anFan'[g].pc = "recheck"
    BY <1>1
  <2> QED
    BY <2>1 DEF AnnInv, AnswersGo, Posted
<1>6. \A w \in BOOLEAN : /\ Commits(w)' = Commits(w) /\ Emitters(w)' = Emitters(w)
                         /\ \A m \in Recipients : Times(w, m)' = Times(w, m)
  BY DEF Commits, Emitters, Times, Posted
<1>7. ASSUME NEW w \in BOOLEAN PROVE OnceTold(w)'
  <2>1. \A m \in Recipients : Times(w, m)' <= Times(w, m)
    BY <1>6, TimesAreNat DEF AnnInv
  <2> QED
    BY <1>2, <1>3, <1>6, <2>1, OnceKept DEF AnnInv
<1>8. EveryoneReached'
  <2> SUFFICES ASSUME anRow.st = "live", anCut = 0, anOpen, NEW m \in Recipients, Wanted(m)
               PROVE  Reached(TRUE, m)' \/ (~ anRow.withdrawn /\ Reached(FALSE, m)')
    BY DEF EveryoneReached, Posted, Wanted
  <2>1. ASSUME NEW w \in BOOLEAN, Reached(w, m), ~ (~ w /\ anRow.withdrawn) PROVE Reached(w, m)'
    <3>1. CASE \E g \in Fans(w) : Ahead(g, m)
      <4>1. PICK g \in Fans(w) : Ahead(g, m)
        BY <3>1
      <4>2. CASE g # f
        BY <1>2, <4>1, <4>2 DEF Reached, Fans
      <4>3. CASE g = f
        <5>1. anFan[f].w = w /\ n.pc # "off" /\ m \in n.left
          BY <2>1, <4>1, <4>3 DEF Fans
        <5>2. f \in Fans(w)' /\ Ahead(f, m)'
          BY <1>1, <5>1 DEF Fans, Ahead
        <5> QED
          BY <5>2 DEF Reached
      <4> QED
        BY <4>2, <4>3
    <3>2. CASE ~ \E g \in Fans(w) : Ahead(g, m)
      BY <1>6, <2>1, <3>2 DEF Reached
    <3> QED
      BY <3>1, <3>2
  <2>2. Reached(TRUE, m) \/ (~ anRow.withdrawn /\ Reached(FALSE, m))
    BY DEF AnnInv, EveryoneReached
  <2> QED
    BY <2>1, <2>2
<1> QED
  BY <1>3, <1>4, <1>5, <1>7, <1>8 DEF AnnInv

(* Reading the row, showing the room, checking before a batch.             *)
LEMMA FanQuietSteps ==
  ASSUME AnnInv, NEW f \in FanIds, FanLoads(f) \/ FanShowsRoom(f) \/ FanChecks(f)
  PROVE  AnnInv'
<1>0. FanOff \in FanReqs /\ FanOff.pc = "off"
  BY DEF FanOff, FanReqs
<1>1. PICK z \in FanReqs : z = anFan[f] /\ z.w \in BOOLEAN /\ z.left \subseteq Recipients
  BY DEF AnnInv, AnnTypes, FanReqs
<1>2. PICK off \in FanReqs : off = FanOff /\ off.pc = "off"
  BY <1>0
<1>3. anRoom \in {"nothing", "answer", "withdrawn"} /\ anOverlap \in BOOLEAN
  BY DEF AnnInv, AnnTypes
<1>4. CASE FanLoads(f)
  <2>1. z.pc = "load" /\ Posted /\ UNCHANGED <<anBell, anRoom, anCut, anOverlap>>
    BY <1>1, <1>4 DEF FanLoads
  <2>2. CASE anRow.st = "gone" \/ (z.w /\ ~ anOpen)
    <3>1. anFan' = [anFan EXCEPT ![f] = off]
      BY <1>1, <1>2, <1>4, <2>2 DEF FanLoads, FanEnds
    <3>2. ~ (anRow.st = "live" /\ anOpen)
      BY <2>2
    <3> QED
      BY <1>1, <1>2, <1>3, <2>1, <3>1, <3>2, FanStep
  <2>3. CASE ~ (anRow.st = "gone" \/ (z.w /\ ~ anOpen))
    <3>1. PICK frame \in {"withdrawn", "answer"} :
            frame = IF anRow.withdrawn THEN "withdrawn" ELSE "answer"
      OBVIOUS
    <3>2. PICK n : n = [z EXCEPT !.pc = "room", !.left = Recipients, !.frame = frame]
      OBVIOUS
    <3>3. n \in FanReqs /\ n.pc = "room" /\ n.w = z.w /\ n.left = Recipients
      BY <3>2 DEF FanReqs
    <3>4. anFan' = [anFan EXCEPT ![f] = n]
      BY <1>1, <1>4, <2>3, <3>1, <3>2 DEF FanLoads
    <3>5. \A m \in Recipients : Ahead(f, m)
      BY <1>1, <2>1 DEF Ahead
    <3> QED
      BY <1>1, <1>3, <2>1, <3>3, <3>4, <3>5, FanStep
  <2> QED
    BY <2>2, <2>3
<1>5. CASE FanShowsRoom(f)
  <2>1. /\ z.pc = "room" /\ Posted /\ UNCHANGED <<anBell, anCut, anOverlap>>
        /\ anRoom' = z.frame /\ anFan' = [anFan EXCEPT ![f] = [z EXCEPT !.pc = "batch"]]
    BY <1>1, <1>5 DEF FanShowsRoom, FanGoes, AnnInv, AnnTypes
  <2>2. PICK n : n = [z EXCEPT !.pc = "batch"]
    OBVIOUS
  <2>3. n \in FanReqs /\ n.pc = "batch" /\ n.w = z.w /\ n.left = z.left
    BY <2>2 DEF FanReqs
  <2>4. \A m \in Recipients : Ahead(f, m) <=> m \in z.left
    BY <1>1, <2>1 DEF Ahead
  <2>5. anRoom' \in {"nothing", "answer", "withdrawn"}
    BY <2>1 DEF FanReqs
  <2> QED
    BY <1>1, <1>3, <2>1, <2>2, <2>3, <2>4, <2>5, FanStep
<1>6. CASE FanChecks(f)
  <2>1. /\ z.pc = "batch" /\ Posted /\ UNCHANGED <<anBell, anRoom, anCut, anOverlap>>
    BY <1>1, <1>6 DEF FanChecks
  <2>2. \A m \in Recipients : Ahead(f, m) <=> m \in z.left
    BY <1>1, <2>1 DEF Ahead
  <2>3. CASE z.left = {} \/ (~ z.w /\ anRow.withdrawn)
    <3>1. anFan' = [anFan EXCEPT ![f] = off]
      BY <1>1, <1>2, <1>6, <2>3 DEF FanChecks, FanEnds
    <3> QED
      BY <1>1, <1>2, <1>3, <2>1, <2>2, <2>3, <3>1, FanStep
  <2>4. CASE ~ (z.left = {} \/ (~ z.w /\ anRow.withdrawn))
    <3>1. PICK n : n = [z EXCEPT !.pc = "commit"]
      OBVIOUS
    <3>2. n \in FanReqs /\ n.pc = "commit" /\ n.w = z.w /\ n.left = z.left
      BY <3>1 DEF FanReqs
    <3>3. anFan' = [anFan EXCEPT ![f] = n]
      BY <1>1, <1>6, <2>4, <3>1 DEF FanChecks, FanGoes, AnnInv, AnnTypes
    <3> QED
      BY <1>1, <1>3, <2>1, <2>2, <2>4, <3>2, <3>3, FanStep
  <2> QED
    BY <2>3, <2>4
<1> QED
  BY <1>4, <1>5, <1>6

(* A batch rings one bell.                                                 *)
LEMMA Rings ==
  ASSUME AnnTypes, NEW k \in BOOLEAN, NEW m \in Recipients,
         anBell' = [anBell EXCEPT ![m][IF k THEN "notice" ELSE "answer"] = @ + 1]
  PROVE  /\ anBell' \in [Recipients -> [answer : Nat, blank : Nat, notice : Nat]]
         /\ \A w \in BOOLEAN : \A x \in Recipients :
              Times(w, x)' = IF w = k /\ x = m THEN Times(w, x) + 1 ELSE Times(w, x)
         /\ k => \A x \in Recipients : anBell'[x].answer = anBell[x].answer
<1> DEFINE Bell == [answer : Nat, blank : Nat, notice : Nat]
<1>1. PICK z \in Bell : z = anBell[m]
  BY DEF AnnTypes
<1>2. z.answer \in Nat /\ z.blank \in Nat /\ z.notice \in Nat
  OBVIOUS
<1>3. CASE k
  <2>1. PICK n : n = z.notice + 1
    OBVIOUS
  <2>2. PICK b : b = [z EXCEPT !.notice = n]
    OBVIOUS
  <2>3. b \in Bell /\ b.answer = z.answer /\ b.blank = z.blank /\ b.notice = z.notice + 1
    BY <1>2, <2>1, <2>2
  <2>4. anBell' = [anBell EXCEPT ![m] = b]
    BY <1>1, <1>3, <2>1, <2>2
  <2>5. /\ anBell' \in [Recipients -> Bell]
        /\ \A x \in Recipients : anBell'[x] = IF x = m THEN b ELSE anBell[x]
    <3>1. PICK R : R = Bell
      OBVIOUS
    <3>2. anBell \in [Recipients -> R] /\ b \in R
      BY <2>3, <3>1 DEF AnnTypes
    <3>3. /\ anBell' \in [Recipients -> R]
          /\ \A x \in Recipients : anBell'[x] = IF x = m THEN b ELSE anBell[x]
      BY <2>4, <3>2
    <3> QED
      BY <3>1, <3>3
  <2>6. \A x \in Recipients : anBell'[x].answer = anBell[x].answer
    BY <1>1, <2>3, <2>5
  <2>7. ASSUME NEW w \in BOOLEAN, NEW x \in Recipients
        PROVE  Times(w, x)' = IF w = k /\ x = m THEN Times(w, x) + 1 ELSE Times(w, x)
    BY <1>1, <1>3, <2>3, <2>5 DEF Times
  <2> QED
    BY <2>5, <2>6, <2>7
<1>4. CASE ~ k
  <2>1. PICK n : n = z.answer + 1
    OBVIOUS
  <2>2. PICK b : b = [z EXCEPT !.answer = n]
    OBVIOUS
  <2>3. b \in Bell /\ b.answer = z.answer + 1 /\ b.blank = z.blank /\ b.notice = z.notice
    BY <1>2, <2>1, <2>2
  <2>4. anBell' = [anBell EXCEPT ![m] = b]
    BY <1>1, <1>4, <2>1, <2>2
  <2>5. /\ anBell' \in [Recipients -> Bell]
        /\ \A x \in Recipients : anBell'[x] = IF x = m THEN b ELSE anBell[x]
    <3>1. PICK R : R = Bell
      OBVIOUS
    <3>2. anBell \in [Recipients -> R] /\ b \in R
      BY <2>3, <3>1 DEF AnnTypes
    <3>3. /\ anBell' \in [Recipients -> R]
          /\ \A x \in Recipients : anBell'[x] = IF x = m THEN b ELSE anBell[x]
      BY <2>4, <3>2
    <3> QED
      BY <3>1, <3>3
  <2>6. ASSUME NEW w \in BOOLEAN, NEW x \in Recipients
        PROVE  Times(w, x)' = IF w = k /\ x = m THEN Times(w, x) + 1 ELSE Times(w, x)
    BY <1>1, <1>2, <1>4, <2>3, <2>5 DEF Times
  <2> QED
    BY <1>4, <2>5, <2>6
<1> QED
  BY <1>3, <1>4

(* A batch commits: its member is told, and is no longer ahead.            *)
LEMMA FanTellsStep ==
  ASSUME AnnInv, NEW f \in FanIds, FanCommits(f), anRow.st # "gone"
  PROVE  AnnInv'
<1>1. PICK z \in FanReqs : z = anFan[f] /\ z.w \in BOOLEAN /\ z.left \subseteq Recipients
  BY DEF AnnInv, AnnTypes, FanReqs
<1>2. PICK k \in BOOLEAN : k = z.w
  BY <1>1
<1>3. PICK m \in Recipients : m = FirstOf(z.left) /\ m \in z.left
  <2>1. z.left # {} /\ z.left \in SUBSET Nat
    BY <1>1, AnnAssumption DEF FanCommits, AnnInv, AnnTypes
  <2>2. \E x \in z.left : \A y \in z.left : x <= y
    BY <2>1, LeastOne
  <2>3. FirstOf(z.left) \in z.left
    BY <2>2 DEF FirstOf
  <2> QED
    BY <1>1, <2>3
<1>4. PICK pc : pc = IF k THEN "batch" ELSE "recheck"
  OBVIOUS
<1>5. PICK n : n = [z EXCEPT !.left = @ \ {m}, !.pc = pc]
  OBVIOUS
<1>6. /\ n \in FanReqs /\ n.w = k /\ n.left = z.left \ {m}
      /\ n.pc = (IF k THEN "batch" ELSE "recheck")
  BY <1>1, <1>2, <1>4, <1>5 DEF FanReqs
<1>7. /\ z.pc = "commit" /\ anFan' = [anFan EXCEPT ![f] = n]
      /\ anBell' = IF Wanted(m) THEN [anBell EXCEPT ![m][IF k THEN "notice" ELSE "answer"] = @ + 1]
                   ELSE anBell
      /\ anOverlap' = (anOverlap \/ \E r \in Posters : anReq[r] = "scrubbed")
      /\ Posted /\ UNCHANGED <<anRoom, anCut>>
  <2>1. anFan' = [anFan EXCEPT ![f].left = @ \ {m}, ![f].pc = IF k THEN "batch" ELSE "recheck"]
    BY <1>1, <1>2, <1>3 DEF FanCommits
  <2>2. anFan' = [anFan EXCEPT ![f] = n]
    BY <1>1, <1>4, <1>5, <2>1 DEF AnnInv, AnnTypes
  <2>3. anBell' = IF Wanted(m)
                  THEN [anBell EXCEPT ![m][IF k THEN "notice" ELSE "answer"] = @ + 1] ELSE anBell
    BY <1>1, <1>2, <1>3 DEF FanCommits
  <2> QED
    BY <1>1, <2>2, <2>3 DEF FanCommits
<1>8. /\ anFan' \in [FanIds -> FanReqs]
      /\ \A g \in FanIds : anFan'[g] = IF g = f THEN n ELSE anFan[g]
      /\ \A g \in FanIds : /\ anFan'[g].pc = "commit" => anFan'[g].left # {}
                           /\ anFan'[g].pc = "recheck" => ~ anFan'[g].w
  BY <1>6, <1>7, FanMoves DEF AnnInv
<1>9. \A x \in Recipients : Ahead(f, x) <=> x \in z.left
  BY <1>1, <1>7 DEF Ahead
<1>10. \A w \in BOOLEAN :
         /\ Fans(w)' \subseteq Fans(w)
         /\ \A g \in Fans(w)' : \A x \in Recipients : Ahead(g, x)' => Ahead(g, x)
         /\ w # k => f \notin Fans(w) /\ Fans(w)' = Fans(w)
         /\ \A g \in FanIds \ {f} : \A x \in Recipients : Ahead(g, x)' <=> Ahead(g, x)
         /\ \A g \in Fans(w) : g # f => g \in Fans(w)'
  BY <1>1, <1>2, <1>6, <1>7, <1>8, <1>9, FanFewer DEF AnnInv
<1>11. f \in Fans(k) /\ f \in Fans(k)' /\ \A x \in Recipients : Ahead(f, x)' <=> x \in z.left /\ x # m
  BY <1>1, <1>2, <1>6, <1>7, <1>8 DEF Fans, Ahead
<1>12. /\ anBell' \in [Recipients -> [answer : Nat, blank : Nat, notice : Nat]]
       /\ \A w \in BOOLEAN : \A x \in Recipients :
            Times(w, x)' = IF w = k /\ x = m /\ Wanted(m) THEN Times(w, x) + 1 ELSE Times(w, x)
       /\ k => \A x \in Recipients : anBell'[x].answer = anBell[x].answer
  <2>1. CASE Wanted(m)
    BY <1>7, <2>1, Rings DEF AnnInv
  <2>2. CASE ~ Wanted(m)
    BY <1>7, <2>2 DEF AnnInv, AnnTypes, Times
  <2> QED
    BY <2>1, <2>2
<1>13. AnnTypes'
  <2>1. anOverlap' \in BOOLEAN
    BY <1>7 DEF AnnInv, AnnTypes
  <2> QED
    BY <1>7, <1>8, <1>12, <2>1 DEF AnnInv, AnnTypes, Posted
<1>14. LiveFirst'
  BY <1>7 DEF AnnInv, LiveFirst, Posted
<1>15. AnswersGo'
  <2> SUFFICES ASSUME ~ anOverlap, ~ \E r \in Posters : anReq[r] = "scrubbed"
               PROVE  anRow.withdrawn /\ anCut = 0 => \A x \in Recipients :
                        anBell'[x].answer > 0 => \E g \in FanIds : anFan'[g].pc = "recheck"
    BY <1>7 DEF AnswersGo, Posted
  <2>1. CASE k
    <3>1. \A g \in FanIds : anFan[g].pc = "recheck" => anFan'[g].pc = "recheck"
      BY <1>1, <1>7, <1>8
    <3> QED
      BY <1>12, <2>1, <3>1 DEF AnnInv, AnswersGo
  <2>2. CASE ~ k
    BY <1>6, <1>8, <2>2
  <2> QED
    BY <2>1, <2>2
<1>16. \A w \in BOOLEAN : Commits(w)' = Commits(w) /\ Emitters(w)' = Emitters(w)
  BY <1>7 DEF Commits, Emitters, Posted
<1>17. ASSUME NEW w \in BOOLEAN, w # k PROVE OnceTold(w)'
  <2>1. \A x \in Recipients : Times(w, x)' <= Times(w, x)
    BY <1>12, <1>17, TimesAreNat DEF AnnInv
  <2> QED
    BY <1>10, <1>13, <1>16, <2>1, OnceKept DEF AnnInv
<1>18. OnceTold(k)'
  <2>1. OnceTold(k) /\ Commits(k) # 0
    BY <1>11 DEF AnnInv, OnceTold
  <2>2. ASSUME Commits(k) <= 1
        PROVE  /\ Emitters(k)' = {} /\ Fans(k)' = {f}
               /\ \A x \in Recipients : Ahead(f, x)' => Times(k, x)' = 0
               /\ \A x \in Recipients : Times(k, x)' <= 1
    <3>1. /\ Emitters(k) # {} => Fans(k) = {}
          /\ \A g, h \in Fans(k) : g = h
          /\ \A g \in Fans(k) : \A x \in Recipients : Ahead(g, x) => Times(k, x) = 0
          /\ \A x \in Recipients : Times(k, x) <= 1
      BY <2>1, <2>2 DEF OnceTold
    <3>2. Emitters(k)' = {} /\ Fans(k)' = {f}
      BY <1>10, <1>11, <1>16, <3>1
    <3>3. \A x \in Recipients : Ahead(f, x)' => Times(k, x)' = 0
      BY <1>9, <1>11, <1>12, <3>1
    <3>4. \A x \in Recipients : Times(k, x)' <= 1
      <4>1. Times(k, m) = 0
        BY <1>3, <1>9, <1>11, <3>1
      <4>2. Times(k, m)' <= 1
        BY <1>12, <4>1
      <4>3. \A x \in Recipients : x # m => Times(k, x)' <= 1
        BY <1>12, <3>1
      <4> QED
        BY <4>2, <4>3
    <3> QED
      BY <3>2, <3>3, <3>4
  <2>3. Commits(k)' = Commits(k)
    BY <1>16
  <2> QED
    BY <2>1, <2>2, <2>3 DEF OnceTold
<1>19. EveryoneReached'
  <2> SUFFICES ASSUME anRow.st = "live", anCut = 0, anOpen, NEW x \in Recipients, Wanted(x)
               PROVE  Reached(TRUE, x)' \/ (~ anRow.withdrawn /\ Reached(FALSE, x)')
    BY <1>7 DEF EveryoneReached, Posted, Wanted
  <2>1. ASSUME NEW w \in BOOLEAN, Reached(w, x) PROVE Reached(w, x)'
    <3>1. CASE Times(w, x) > 0
      <4>1. Times(w, x) \in Nat
        BY TimesAreNat DEF AnnInv
      <4>2. Times(w, x)' > 0
        BY <1>12, <3>1, <4>1
      <4> QED
        BY <4>2 DEF Reached
    <3>2. CASE Emitters(w) # {}
      BY <1>16, <3>2 DEF Reached
    <3>3. CASE \E g \in Fans(w) : Ahead(g, x)
      <4>1. PICK g \in Fans(w) : Ahead(g, x)
        BY <3>3
      <4>2. CASE g # f
        BY <1>10, <4>1, <4>2 DEF Reached, Fans
      <4>3. CASE g = f
        <5>1. w = k
          BY <1>10, <4>1, <4>3
        <5>2. CASE x = m
          <6>1. Times(k, m) \in Nat
            BY TimesAreNat DEF AnnInv
          <6>2. Times(w, x)' > 0
            BY <1>12, <5>1, <5>2, <6>1
          <6> QED
            BY <6>2 DEF Reached
        <5>3. CASE x # m
          BY <1>9, <1>11, <4>1, <4>3, <5>1, <5>3 DEF Reached
        <5> QED
          BY <5>2, <5>3
      <4> QED
        BY <4>2, <4>3
    <3> QED
      BY <2>1, <3>1, <3>2, <3>3 DEF Reached
  <2>2. Reached(TRUE, x) \/ (~ anRow.withdrawn /\ Reached(FALSE, x))
    BY DEF AnnInv, EveryoneReached
  <2> QED
    BY <2>1, <2>2
<1> QED
  BY <1>13, <1>14, <1>15, <1>17, <1>18, <1>19 DEF AnnInv

LEMMA FanCommitsStep ==
  ASSUME AnnInv, NEW f \in FanIds, FanCommits(f)
  PROVE  AnnInv'
<1>1. CASE anRow.st # "gone"
  BY <1>1, FanTellsStep
<1>2. CASE anRow.st = "gone"
  <2>0. FanOff \in FanReqs /\ FanOff.pc = "off"
    BY DEF FanOff, FanReqs
  <2>1. PICK off \in FanReqs : off = FanOff /\ off.pc = "off"
    BY <2>0
  <2>2. /\ anFan[f].pc = "commit" /\ anFan' = [anFan EXCEPT ![f] = off] /\ anBell' = anBell
        /\ Posted /\ UNCHANGED <<anRoom, anCut>>
        /\ anOverlap' = (anOverlap \/ \E r \in Posters : anReq[r] = "scrubbed")
    BY <1>2, <2>1 DEF FanCommits, FanEnds
  <2>3. anOverlap' \in BOOLEAN /\ (anOverlap => anOverlap')
        /\ anRoom' \in {"nothing", "answer", "withdrawn"}
    BY <2>2 DEF AnnInv, AnnTypes
  <2> QED
    BY <1>2, <2>1, <2>2, <2>3, FanStep
<1> QED
  BY <1>1, <1>2

(* After a batch: an answer withdrawn meanwhile is taken out again.        *)
LEMMA FanRechecksStep ==
  ASSUME AnnInv, NEW f \in FanIds, FanRechecks(f)
  PROVE  AnnInv'
<1>0. FanOff \in FanReqs /\ FanOff.pc = "off"
  BY DEF FanOff, FanReqs
<1>1. PICK z \in FanReqs : z = anFan[f] /\ z.w \in BOOLEAN /\ z.left \subseteq Recipients
  BY DEF AnnInv, AnnTypes, FanReqs
<1>2. PICK off \in FanReqs : off = FanOff /\ off.pc = "off"
  BY <1>0
<1>3. /\ z.pc = "recheck" /\ Posted /\ UNCHANGED <<anRoom, anCut, anOverlap>> /\ ~ z.w
  BY <1>1 DEF FanRechecks, AnnInv, AnnTypes
<1>4. CASE ~ anRow.withdrawn
  <2>1. PICK n : n = [z EXCEPT !.pc = "batch"]
    OBVIOUS
  <2>2. n \in FanReqs /\ n.pc = "batch" /\ n.w = z.w /\ n.left = z.left
    BY <2>1 DEF FanReqs
  <2>3. anFan' = [anFan EXCEPT ![f] = n] /\ anBell' = anBell
    BY <1>1, <1>4, <2>1 DEF FanRechecks, FanGoes, AnnInv, AnnTypes
  <2>4. \A m \in Recipients : Ahead(f, m) <=> m \in z.left
    BY <1>1, <1>3 DEF Ahead
  <2>5. anRoom \in {"nothing", "answer", "withdrawn"} /\ anOverlap \in BOOLEAN
    BY DEF AnnInv, AnnTypes
  <2> QED
    BY <1>1, <1>3, <1>4, <2>2, <2>3, <2>4, <2>5, FanStep
<1>5. CASE anRow.withdrawn
  <2>1. Scrub /\ anFan' = [anFan EXCEPT ![f] = off]
    BY <1>2, <1>5 DEF FanRechecks, FanEnds
  <2>2. /\ anFan' \in [FanIds -> FanReqs]
        /\ \A g \in FanIds : anFan'[g] = IF g = f THEN off ELSE anFan[g]
        /\ \A g \in FanIds : /\ anFan'[g].pc = "commit" => anFan'[g].left # {}
                             /\ anFan'[g].pc = "recheck" => ~ anFan'[g].w
    BY <1>2, <2>1, FanMoves DEF AnnInv
  <2>3. \A w \in BOOLEAN :
          /\ Fans(w)' \subseteq Fans(w)
          /\ \A g \in Fans(w)' : \A m \in Recipients : Ahead(g, m)' => Ahead(g, m)
          /\ w # anFan[f].w => f \notin Fans(w) /\ Fans(w)' = Fans(w)
          /\ \A g \in FanIds \ {f} : \A m \in Recipients : Ahead(g, m)' <=> Ahead(g, m)
    BY <1>1, <1>2, <1>3, <2>2, FanFewer DEF AnnInv
  <2>4. /\ anBell' \in [Recipients -> [answer : Nat, blank : Nat, notice : Nat]]
        /\ \A m \in Recipients : anBell'[m].answer = 0
        /\ \A w \in BOOLEAN : \A m \in Recipients :
             Times(w, m)' = Times(w, m) /\ Times(w, m)' <= Times(w, m)
    BY <2>1, Scrubs DEF AnnInv
  <2>5. AnnTypes'
    BY <1>3, <2>2, <2>4 DEF AnnInv, AnnTypes, Posted
  <2>6. LiveFirst'
    BY <1>3 DEF AnnInv, LiveFirst, Posted
  <2>7. AnswersGo'
    BY <2>4 DEF AnswersGo
  <2>8. \A w \in BOOLEAN : Commits(w)' = Commits(w) /\ Emitters(w)' = Emitters(w)
    BY <1>3 DEF Commits, Emitters, Posted
  <2>9. \A w \in BOOLEAN : OnceTold(w)'
    BY <2>3, <2>4, <2>5, <2>8, OnceKept DEF AnnInv
  <2>10. EveryoneReached'
    <3>1. ASSUME NEW w \in BOOLEAN, w, NEW m \in Recipients, Reached(w, m) PROVE Reached(w, m)'
      <4>1. Fans(w)' = Fans(w) /\ Fans(w) \subseteq FanIds \ {f}
        BY <1>1, <1>3, <2>3, <3>1 DEF Fans
      <4> QED
        BY <2>3, <2>4, <2>8, <3>1, <4>1 DEF Reached
    <3>2. \A m \in Recipients : Wanted(m)' <=> Wanted(m)
      BY <1>3 DEF Wanted, Posted
    <3> QED
      BY <1>3, <1>5, <3>1, <3>2 DEF AnnInv, EveryoneReached, Posted
  <2> QED
    BY <2>5, <2>6, <2>7, <2>9, <2>10 DEF AnnInv
<1> QED
  BY <1>4, <1>5

(* A fan-out is cut off, anywhere.                                         *)
LEMMA FanCutStep ==
  ASSUME AnnInv, NEW f \in FanIds, FanCut(f)
  PROVE  AnnInv'
<1> USE AnnAssumption
<1>0. FanOff \in FanReqs /\ FanOff.pc = "off"
  BY DEF FanOff, FanReqs
<1>1. PICK off \in FanReqs : off = FanOff /\ off.pc = "off"
  BY <1>0
<1>2. /\ anFan[f].pc # "off" /\ anFan' = [anFan EXCEPT ![f] = off]
      /\ anCut < MaxAnnFaults /\ anCut' = anCut + 1
      /\ Posted /\ UNCHANGED <<anBell, anRoom, anOverlap>>
  BY <1>1 DEF FanCut, FanEnds
<1>3. anCut' \in 0 .. MaxAnnFaults /\ anCut' # 0
  BY <1>2 DEF AnnInv, AnnTypes
<1>4. /\ anFan' \in [FanIds -> FanReqs]
      /\ \A g \in FanIds : anFan'[g] = IF g = f THEN off ELSE anFan[g]
      /\ \A g \in FanIds : /\ anFan'[g].pc = "commit" => anFan'[g].left # {}
                           /\ anFan'[g].pc = "recheck" => ~ anFan'[g].w
  BY <1>1, <1>2, FanMoves DEF AnnInv
<1>5. \A w \in BOOLEAN :
        /\ Fans(w)' \subseteq Fans(w)
        /\ \A g \in Fans(w)' : \A m \in Recipients : Ahead(g, m)' => Ahead(g, m)
  BY <1>1, <1>2, <1>4, FanFewer DEF AnnInv
<1>6. AnnTypes'
  BY <1>2, <1>3, <1>4 DEF AnnInv, AnnTypes, Posted
<1>7. LiveFirst'
  BY <1>2 DEF AnnInv, LiveFirst, Posted
<1>8. AnswersGo' /\ EveryoneReached'
  BY <1>2, <1>3 DEF AnnInv, AnswersGo, EveryoneReached, Posted
<1>9. \A w \in BOOLEAN : /\ Commits(w)' = Commits(w) /\ Emitters(w)' = Emitters(w)
                         /\ \A m \in Recipients : Times(w, m)' = Times(w, m)
  BY <1>2 DEF Commits, Emitters, Times, Posted
<1>10. ASSUME NEW w \in BOOLEAN PROVE OnceTold(w)'
  <2>1. \A m \in Recipients : Times(w, m)' <= Times(w, m)
    BY <1>9, TimesAreNat DEF AnnInv
  <2> QED
    BY <1>5, <1>6, <1>9, <2>1, OnceKept DEF AnnInv
<1> QED
  BY <1>6, <1>7, <1>8, <1>10 DEF AnnInv

LEMMA AnnStep == AnnInv /\ [AnnNext]_anVars => AnnInv'
<1> SUFFICES ASSUME AnnInv, [AnnNext]_anVars PROVE AnnInv'
  OBVIOUS
<1>1. CASE UNCHANGED anVars
  <2>1. UNCHANGED <<anRow, anOpen, anBell, anRoom, anReq, anFan, anCut, anTold, anOverlap>>
    BY <1>1 DEF anVars
  <2>2. AnnTypes' /\ LiveFirst' /\ AnswersGo'
    BY <2>1 DEF AnnInv, AnnTypes, LiveFirst, AnswersGo
  <2>3. /\ \A w \in BOOLEAN : /\ Commits(w)' = Commits(w) /\ Emitters(w)' = Emitters(w)
                              /\ Fans(w)' = Fans(w)
                              /\ \A m \in Recipients : Times(w, m)' = Times(w, m)
        /\ \A f \in FanIds : \A m \in Recipients : Ahead(f, m)' <=> Ahead(f, m)
    BY <2>1 DEF Commits, Emitters, Fans, Times, Ahead
  <2>4. \A w \in BOOLEAN : \A m \in Recipients : Times(w, m)' <= Times(w, m)
    BY <2>3, TimesAreNat DEF AnnInv
  <2>5. \A w \in BOOLEAN : OnceTold(w)'
    BY <2>2, <2>3, <2>4, OnceKept DEF AnnInv, Fans
  <2>6. \A w \in BOOLEAN : \A m \in Recipients : Reached(w, m) => Reached(w, m)'
    BY <2>3 DEF Reached, Fans
  <2>7. EveryoneReached'
    BY <2>1, <2>6 DEF AnnInv, EveryoneReached, Wanted
  <2> QED
    BY <2>2, <2>5, <2>7 DEF AnnInv
<1>2. ASSUME NEW r \in Posters, \E s, c \in BOOLEAN : CreateAnnouncement(r, s, c) PROVE AnnInv'
  BY <1>2, CreateStep
<1>3. ASSUME NEW r \in Posters,
             \E op \in {"edit", "cancel", "withdraw", "publish"} : AnnouncementLoads(r, op)
      PROVE  AnnInv'
  BY <1>3, ReadSteps
<1>4. ASSUME NEW r \in Posters,
             \/ PostClarification(r) \/ PublishCommits(r) \/ EditCommits(r) \/ CancelCommits(r)
             \/ WithdrawScrubs(r) \/ WithdrawCommits(r) \/ AnnEmit(r) \/ EmitLost(r)
      PROVE  AnnInv'
  BY <1>4, ClarifyStep, PublishStep, ReadSteps, CancelStep, WithdrawScrubsStep, WithdrawCommitsStep,
     AnnEmitStep, HidesOrLost
<1>5. ASSUME NEW f \in FanIds,
             \/ FanLoads(f) \/ FanShowsRoom(f) \/ FanChecks(f) \/ FanCommits(f)
             \/ FanRechecks(f) \/ FanCut(f)
      PROVE  AnnInv'
  BY <1>5, FanQuietSteps, FanCommitsStep, FanRechecksStep, FanCutStep
<1>6. CASE ChallengeHides
  <2>1. Scheduler \in Posters
    BY DEF Posters
  <2> QED
    BY <1>6, <2>1, HidesOrLost
<1> QED
  BY <1>1, <1>2, <1>3, <1>4, <1>5, <1>6 DEF AnnNext

(* What the invariant says of the announcements.                           *)
LEMMA AnnKept == AnnInv => AnnTypeOK /\ AnnouncementsSafe
<1> SUFFICES ASSUME AnnInv PROVE AnnTypeOK /\ AnnouncementsSafe
  OBVIOUS
<1>1. AnnTypeOK
  <2>1. \A m \in Recipients : \A k \in DOMAIN NoBell : anBell[m][k] \in Nat
    BY DEF AnnInv, AnnTypes, NoBell
  <2>2. \A f \in FanIds : /\ anFan[f].pc \in {"off", "load", "room", "batch", "commit", "recheck"}
                          /\ anFan[f].left \subseteq Recipients
    BY DEF AnnInv, AnnTypes, FanReqs
  <2>3. anRow.st \in {"none", "draft", "live", "gone"}
    BY DEF AnnInv, AnnTypes, AnnRows
  <2> QED
    BY <2>1, <2>2, <2>3 DEF AnnTypeOK, AnnInv, AnnTypes, PosterPcs
<1>2. ScrubbedUnlessOverlapped
  <2> SUFFICES ASSUME AnnQuiet, anRow.withdrawn, anCut = 0, ~ anOverlap, NEW m \in Recipients
               PROVE  anBell[m].answer = 0
    BY DEF ScrubbedUnlessOverlapped
  <2>1. anBell[m].answer \in Nat
    BY TimesAreNat DEF AnnInv
  <2>2. ~ (anBell[m].answer > 0)
    BY DEF AnnInv, AnswersGo, AnnQuiet
  <2> QED
    BY <2>1, <2>2
<1>3. ToldOnceUnlessRaced
  <2>1. ASSUME NEW m \in Recipients, NEW w \in BOOLEAN, w
        PROVE  /\ anTold.withdrawn <= 1 => anBell[m].notice <= 1
    <3>1. OnceTold(w) /\ Commits(w) = anTold.withdrawn /\ Times(w, m) = anBell[m].notice
      BY <2>1 DEF AnnInv, Commits, Times
    <3> QED
      BY <3>1 DEF OnceTold
  <2>2. ASSUME NEW m \in Recipients, NEW w \in BOOLEAN, ~ w
        PROVE  anTold.live <= 1 => anBell[m].answer + anBell[m].blank <= 1
    <3>1. /\ OnceTold(w) /\ Commits(w) = anTold.live
          /\ Times(w, m) = anBell[m].answer + anBell[m].blank
      BY <2>2 DEF AnnInv, Commits, Times
    <3> QED
      BY <3>1 DEF OnceTold
  <2> QED
    BY <2>1, <2>2 DEF ToldOnceUnlessRaced
<1>4. ToldUnlessCut
  <2> SUFFICES ASSUME AnnQuiet, anRow.st = "live", anCut = 0, anOpen,
                      NEW m \in Recipients, Wanted(m)
               PROVE  anBell[m].answer + anBell[m].blank + anBell[m].notice > 0
    BY DEF ToldUnlessCut
  <2>1. ASSUME NEW w \in BOOLEAN, Reached(w, m) PROVE Times(w, m) > 0
    <3>1. Emitters(w) = {} /\ Fans(w) = {}
      BY DEF AnnQuiet, Emitters, EmitPc, Fans
    <3> QED
      BY <2>1, <3>1 DEF Reached
  <2>2. \E w \in BOOLEAN : Reached(w, m)
    BY DEF AnnInv, EveryoneReached
  <2>3. anBell[m].answer \in Nat /\ anBell[m].blank \in Nat /\ anBell[m].notice \in Nat
    BY TimesAreNat DEF AnnInv
  <2> QED
    BY <2>1, <2>2, <2>3 DEF Times
<1> QED
  BY <1>1, <1>2, <1>3, <1>4 DEF AnnouncementsSafe

(***************************************************************************)
(* Tickets.                                                                *)
(***************************************************************************)

(* What a request on the ticket may look like: a message or a decision,    *)
(* an upload, a deletion.                                                  *)
MessageReqs ==
    [pc : {"write", "tell"}, op : {"reply", "resolve", "assign_staff", "assign_opener", "clarify"},
     who : {"opener", "staff"}, internal : BOOLEAN, was : {"open", "resolved"}, shot : {{}}]

UploadReqs == [pc : {"lock", "put", "insert"}, op : {"upload"}, who : {""}, internal : {FALSE},
               was : {""}, shot : {{s} : s \in Shots}]

DeletionReqs == [pc : {"unstore", "remove"}, op : {"delete"}, who : {""}, internal : {FALSE},
                 was : {""}, shot : {{s} : s \in Shots}]

TicketReqs == {IdleTicketReq} \cup MessageReqs \cup UploadReqs \cup DeletionReqs

(* Types; a clarification is the staff's, and screenshots are counted.     *)
TicketTypes ==
    /\ tkRow \in [status : {"open", "resolved"}, question : BOOLEAN,
                  assignee : {"nobody", "staff", "opener"}, author : {"opener", "staff"}]
    /\ tkShots \subseteq Shots /\ tkObjects \subseteq Shots /\ IsFiniteSet(tkShots)
    /\ tkLock \in TicketRequests \cup {NoReq}
    /\ tkReq \in [TicketRequests -> TicketReqs]
    /\ \A q \in TicketRequests : tkReq[q].op = "clarify" => tkReq[q].who = "staff"
    /\ tkRung \subseteq {"opener", "staff"}
    /\ tkOps \in 0 .. MaxTicketOps /\ tkCuts \in 0 .. MaxTicketFaults
    /\ tkLast \in {"reply", "resolve"} /\ tkRaced \in BOOLEAN

(* An upload past its count holds the row, and the place it counted on is  *)
(* still free.                                                             *)
PlaceKept ==
    /\ \A q \in TicketRequests : tkReq[q].pc \in {"put", "insert"} => tkLock = q
    /\ tkLock # NoReq => Cardinality(tkShots) < MaxShots
    /\ Cardinality(tkShots) <= MaxShots

(* Unless a request was cut off: nobody else is at a screenshot that is    *)
(* being uploaded, it is stored before its row, and a listed one that is   *)
(* no longer stored is about to be unlisted.                               *)
ListedIsStored ==
    tkCuts = 0 =>
        /\ \A q \in TicketRequests : tkReq[q].pc \in {"lock", "put", "insert"} =>
             /\ tkReq[q].shot \cap tkShots = {}
             /\ tkReq[q].pc = "insert" => tkReq[q].shot \subseteq tkObjects
             /\ \A p \in TicketRequests \ {q} : tkReq[p].shot # tkReq[q].shot
        /\ \A s \in tkShots \ tkObjects :
             \E q \in TicketRequests : tkReq[q].pc = "remove" /\ tkReq[q].shot = {s}

(* Unless a request was cut off, the opener's last word has rung for staff *)
(* or an event that will is under way.                                     *)
StaffIsTold ==
    tkCuts = 0 /\ tkRow.author = "opener" =>
        \/ "staff" \in tkRung \/ tkRow.assignee = "opener"
        \/ \E q \in TicketRequests :
             tkReq[q].pc = "tell" /\ \/ tkReq[q].op = "assign_staff"
                                     \/ tkReq[q].op = "reply" /\ tkReq[q].who = "opener"

TicketInv == TicketTypes /\ StatusTellsUnlessRaced /\ PlaceKept /\ ListedIsStored /\ StaffIsTold


(* A request is of the kind its step says.                                 *)
LEMMA TicketKinds ==
  ASSUME TicketTypes, NEW q \in TicketRequests
  PROVE  /\ tkReq[q] \in TicketReqs
         /\ tkReq[q].pc = "idle" => tkReq[q] = IdleTicketReq
         /\ tkReq[q].pc \in {"write", "tell"} => tkReq[q] \in MessageReqs
         /\ tkReq[q].pc \in {"lock", "put", "insert"} => tkReq[q] \in UploadReqs
         /\ tkReq[q].pc \in {"unstore", "remove"} => tkReq[q] \in DeletionReqs
         /\ tkReq[q].pc \in {"idle", "write", "tell"} => tkReq[q].shot = {}
         /\ tkReq[q].pc \in {"lock", "put", "insert", "unstore", "remove"} =>
              \E s \in Shots : tkReq[q].shot = {s}
<1>1. tkReq[q] \in TicketReqs
  BY DEF TicketTypes
<1>2. CASE tkReq[q] = IdleTicketReq
  <2>1. IdleTicketReq.pc = "idle"
    BY DEF IdleTicketReq
  <2>2. IdleTicketReq.shot = {}
    BY DEF IdleTicketReq
  <2>3. tkReq[q].pc = "idle" /\ tkReq[q].shot = {}
    BY <1>2, <2>1, <2>2
  <2> QED
    BY <1>1, <1>2, <2>3
<1>3. CASE tkReq[q] \in MessageReqs
  BY <1>1, <1>3 DEF MessageReqs
<1>4. CASE tkReq[q] \in UploadReqs
  BY <1>1, <1>4 DEF UploadReqs
<1>5. CASE tkReq[q] \in DeletionReqs
  BY <1>1, <1>5 DEF DeletionReqs
<1> QED
  BY <1>1, <1>2, <1>3, <1>4, <1>5 DEF TicketReqs

(* One request moves.                                                      *)
LEMMA TicketMoves ==
  ASSUME TicketTypes, NEW q \in TicketRequests, NEW r \in TicketReqs,
         r.op = "clarify" => r.who = "staff", tkReq' = [tkReq EXCEPT ![q] = r]
  PROVE  /\ tkReq' \in [TicketRequests -> TicketReqs]
         /\ \A x \in TicketRequests : tkReq'[x] = IF x = q THEN r ELSE tkReq[x]
         /\ \A x \in TicketRequests : tkReq'[x].op = "clarify" => tkReq'[x].who = "staff"
<1>1. /\ tkReq' \in [TicketRequests -> TicketReqs]
      /\ \A x \in TicketRequests : tkReq'[x] = IF x = q THEN r ELSE tkReq[x]
  BY DEF TicketTypes
<1> QED
  BY <1>1 DEF TicketTypes

(* Steps of messages and decisions leave uploads and deletions alone.      *)
LEMMA ThreadStep ==
  ASSUME TicketInv, NEW q \in TicketRequests, NEW r,
         tkReq[q].pc \in {"idle", "write", "tell"}, r.pc \in {"idle", "write", "tell"}, r.shot = {},
         \A x \in TicketRequests : tkReq'[x] = IF x = q THEN r ELSE tkReq[x],
         Files, tkCuts' = tkCuts
  PROVE  PlaceKept' /\ ListedIsStored'
<1>1. PlaceKept'
  BY DEF TicketInv, PlaceKept, Files
<1>2. ASSUME tkCuts' = 0, NEW x \in TicketRequests, tkReq'[x].pc \in {"lock", "put", "insert"}
      PROVE  /\ tkReq'[x].shot \cap tkShots' = {}
             /\ tkReq'[x].pc = "insert" => tkReq'[x].shot \subseteq tkObjects'
             /\ \A p \in TicketRequests \ {x} : tkReq'[p].shot # tkReq'[x].shot
  <2>1. x # q /\ tkReq'[x] = tkReq[x]
    BY <1>2
  <2>2. tkReq[x].shot # {}
    BY <1>2, <2>1, TicketKinds DEF TicketInv
  <2> QED
    BY <1>2, <2>1, <2>2 DEF TicketInv, ListedIsStored, Files
<1>3. ASSUME tkCuts' = 0, NEW s \in tkShots' \ tkObjects'
      PROVE  \E x \in TicketRequests : tkReq'[x].pc = "remove" /\ tkReq'[x].shot = {s}
  <2>1. PICK x \in TicketRequests : tkReq[x].pc = "remove" /\ tkReq[x].shot = {s}
    BY <1>3 DEF TicketInv, ListedIsStored, Files
  <2> QED
    BY <2>1
<1> QED
  BY <1>1, <1>2, <1>3 DEF ListedIsStored

(* Steps of uploads and deletions leave the thread alone.                  *)
LEMMA FileStep ==
  ASSUME TicketInv, NEW q \in TicketRequests, tkReq[q].pc # "tell",
         \A x \in TicketRequests \ {q} : tkReq'[x] = tkReq[x], Thread, tkCuts' = tkCuts
  PROVE  StatusTellsUnlessRaced' /\ StaffIsTold'
<1>1. StatusTellsUnlessRaced'
  BY DEF TicketInv, StatusTellsUnlessRaced, Thread
<1>2. ASSUME NEW x \in TicketRequests, tkReq[x].pc = "tell" PROVE tkReq'[x] = tkReq[x]
  BY <1>2
<1>3. StaffIsTold'
  BY <1>2 DEF TicketInv, StaffIsTold, Thread
<1> QED
  BY <1>1, <1>3

(* The idle request is one.                                                *)
LEMMA IdleTicket ==
  /\ IdleTicketReq \in TicketReqs /\ IdleTicketReq.pc = "idle" /\ IdleTicketReq.op = ""
  /\ IdleTicketReq.shot = {}
BY DEF TicketReqs, IdleTicketReq

(* The start.                                                              *)
LEMMA TicketStart == TicketInit => TicketInv
<1> SUFFICES ASSUME TicketInit PROVE TicketInv
  OBVIOUS
<1> USE TicketAssumption
<1>1. /\ tkReq = [q \in TicketRequests |-> IdleTicketReq] /\ tkShots = {} /\ tkObjects = {}
      /\ tkLock = NoReq /\ tkRung = {"staff"} /\ tkOps = 0 /\ tkCuts = 0 /\ tkLast = "reply"
      /\ tkRaced = FALSE /\ tkRow.status = "open"
      /\ tkRow \in [status : {"open", "resolved"}, question : BOOLEAN,
                    assignee : {"nobody", "staff", "opener"}, author : {"opener", "staff"}]
  BY DEF TicketInit
<1>2. \A q \in TicketRequests : tkReq[q] = IdleTicketReq
  BY <1>1
<1>3. TicketTypes
  <2>1. tkReq \in [TicketRequests -> TicketReqs]
    BY <1>1, IdleTicket
  <2>2. IsFiniteSet(tkShots)
    BY <1>1, FS_EmptySet
  <2>3. \A q \in TicketRequests : tkReq[q].op # "clarify"
    BY <1>2, IdleTicket
  <2>4. tkOps \in 0 .. MaxTicketOps /\ tkCuts \in 0 .. MaxTicketFaults
    BY <1>1
  <2>5. /\ tkShots \subseteq Shots /\ tkObjects \subseteq Shots
        /\ tkLock \in TicketRequests \cup {NoReq} /\ tkRung \subseteq {"opener", "staff"}
        /\ tkLast \in {"reply", "resolve"} /\ tkRaced \in BOOLEAN
    BY <1>1
  <2> QED
    BY <1>1, <2>1, <2>2, <2>3, <2>4, <2>5 DEF TicketTypes
<1>4. PlaceKept
  <2>1. Cardinality(tkShots) = 0
    BY <1>1, FS_EmptySet
  <2>2. \A q \in TicketRequests : tkReq[q].pc = "idle"
    BY <1>2, IdleTicket
  <2> QED
    BY <1>1, <2>1, <2>2 DEF PlaceKept
<1>5. ListedIsStored /\ StaffIsTold /\ StatusTellsUnlessRaced
  BY <1>1, <1>2, IdleTicket DEF ListedIsStored, StaffIsTold, StatusTellsUnlessRaced
<1> QED
  BY <1>3, <1>4, <1>5 DEF TicketInv

(* A message or a decision is begun.                                       *)
LEMMA TicketLoadsStep ==
  ASSUME TicketInv, NEW q \in TicketRequests, NEW who \in {"opener", "staff"},
         NEW internal \in BOOLEAN,
         NEW op \in {"reply", "resolve", "assign_staff", "assign_opener", "clarify"},
         TicketLoads(q, op, who, internal)
  PROVE  TicketInv'
<1> USE TicketAssumption
<1> DEFINE r == [IdleTicketReq EXCEPT !.pc = "write", !.op = op, !.who = who,
                                      !.internal = internal, !.was = tkRow.status]
<1>1. /\ tkReq[q].pc = "idle" /\ tkReq' = [tkReq EXCEPT ![q] = r]
      /\ tkOps < MaxTicketOps /\ tkOps' = tkOps + 1
      /\ Files /\ Thread /\ tkCuts' = tkCuts
  BY DEF TicketLoads, TkBegins
<1>2. r \in MessageReqs /\ r.pc = "write" /\ r.op = op /\ r.who = who /\ r.shot = {}
  BY DEF IdleTicketReq, MessageReqs, TicketInv, TicketTypes
<1>3. op = "clarify" => who = "staff"
  BY DEF TicketLoads
<1> HIDE DEF r
<1>4. /\ tkReq' \in [TicketRequests -> TicketReqs]
      /\ \A x \in TicketRequests : tkReq'[x] = IF x = q THEN r ELSE tkReq[x]
      /\ \A x \in TicketRequests : tkReq'[x].op = "clarify" => tkReq'[x].who = "staff"
  BY <1>1, <1>2, <1>3, TicketMoves DEF TicketInv, TicketReqs
<1>5. TicketTypes'
  BY <1>1, <1>4 DEF Files, Thread, TicketInv, TicketTypes
<1>6. PlaceKept' /\ ListedIsStored'
  BY <1>1, <1>2, <1>4, ThreadStep
<1>7. StatusTellsUnlessRaced' /\ StaffIsTold'
  BY <1>1, <1>4, FileStep
<1> QED
  BY <1>5, <1>6, <1>7 DEF TicketInv

(* A message is committed: it is the last word, and its event rings.       *)
LEMMA PostMessageStep ==
  ASSUME TicketInv, NEW q \in TicketRequests, PostMessage(q)
  PROVE  TicketInv'
<1> DEFINE r == tkReq[q]
           s == [r EXCEPT !.pc = "tell"]
           status == Written(r.was, AfterMessage(r))
           author == IF r.internal THEN tkRow.author ELSE r.who
<1>1. /\ r.pc = "write" /\ r.op \in {"reply", "clarify"}
      /\ tkRow' = [tkRow EXCEPT !.status = status, !.author = author]
      /\ tkRung' = IF r.internal THEN tkRung ELSE {}
      /\ tkLast' = IF tkRow.question /\ r.internal THEN tkLast ELSE "reply"
      /\ tkRaced' = (tkRaced \/ r.was # tkRow.status)
      /\ tkReq' = [tkReq EXCEPT ![q] = s]
      /\ Files /\ UNCHANGED <<tkOps, tkCuts>>
  BY DEF PostMessage, TkGoes
<1>2. r \in MessageReqs
  BY <1>1, TicketKinds DEF TicketInv
<1>3. s \in MessageReqs /\ s.pc = "tell" /\ s.op = r.op /\ s.who = r.who /\ s.shot = {}
  BY <1>2 DEF MessageReqs
<1>4. r.op = "clarify" => r.who = "staff"
  BY DEF TicketInv, TicketTypes
<1> HIDE DEF s
<1>5. /\ tkReq' \in [TicketRequests -> TicketReqs]
      /\ \A x \in TicketRequests : tkReq'[x] = IF x = q THEN s ELSE tkReq[x]
      /\ \A x \in TicketRequests : tkReq'[x].op = "clarify" => tkReq'[x].who = "staff"
  BY <1>1, <1>3, <1>4, TicketMoves DEF TicketInv, TicketReqs
<1>6. /\ status \in {"open", "resolved"}
      /\ ~ tkRow.question /\ r.was = tkRow.status => status = "open"
  BY <1>2 DEF Written, AfterMessage, MessageReqs, TicketInv, TicketTypes
<1>7. author \in {"opener", "staff"}
  BY <1>2 DEF MessageReqs, TicketInv, TicketTypes
<1> HIDE DEF status, author
<1>8. /\ tkRow' \in [status : {"open", "resolved"}, question : BOOLEAN,
                     assignee : {"nobody", "staff", "opener"}, author : {"opener", "staff"}]
      /\ tkRow'.status = status /\ tkRow'.question = tkRow.question
      /\ tkRow'.assignee = tkRow.assignee /\ tkRow'.author = author
  BY <1>1, <1>6, <1>7 DEF TicketInv, TicketTypes
<1>9. TicketTypes'
  BY <1>1, <1>2, <1>5, <1>8 DEF Files, MessageReqs, TicketInv, TicketTypes
<1>10. PlaceKept' /\ ListedIsStored'
  BY <1>1, <1>2, <1>3, <1>5, TicketKinds, ThreadStep DEF TicketInv
<1>11. StatusTellsUnlessRaced'
  BY <1>1, <1>6, <1>8 DEF StatusTellsUnlessRaced
<1>12. StaffIsTold'
  <2>1. CASE r.internal
    <3>1. tkRung' = tkRung /\ author = tkRow.author
      BY <1>1, <2>1 DEF author
    <3>2. ASSUME NEW x \in TicketRequests, tkReq[x].pc = "tell" PROVE tkReq'[x] = tkReq[x]
      BY <1>1, <1>5, <3>2
    <3> QED
      BY <1>1, <1>8, <3>1, <3>2 DEF TicketInv, StaffIsTold
  <2>2. CASE ~ r.internal
    <3>1. author = "opener" => tkReq'[q].pc = "tell" /\ tkReq'[q].op = "reply" /\ tkReq'[q].who = "opener"
      BY <1>1, <1>3, <1>4, <1>5, <2>2 DEF author
    <3> QED
      BY <1>8, <3>1 DEF StaffIsTold
  <2> QED
    BY <2>1, <2>2
<1> QED
  BY <1>9, <1>10, <1>11, <1>12 DEF TicketInv

(* The ticket is resolved, or assigned: its status follows the decision,   *)
(* and a new assignee of the staff is rung.                                *)
LEMMA DecideStep ==
  ASSUME TicketInv, NEW q \in TicketRequests, ResolveTicket(q) \/ AssignTicket(q)
  PROVE  TicketInv'
<1> DEFINE r == tkReq[q]   s == [r EXCEPT !.pc = "tell"]
<1>1. /\ r.pc = "write" /\ r.op \in {"resolve", "assign_staff", "assign_opener"}
      /\ tkReq' = [tkReq EXCEPT ![q] = s] /\ Files /\ UNCHANGED <<tkOps, tkCuts, tkRung>>
  BY DEF ResolveTicket, AssignTicket, TkGoes
<1>2. r \in MessageReqs
  BY <1>1, TicketKinds DEF TicketInv
<1>3. s \in MessageReqs /\ s.pc = "tell" /\ s.op = r.op /\ s.shot = {}
  BY <1>2 DEF MessageReqs
<1> HIDE DEF s
<1>4. /\ tkReq' \in [TicketRequests -> TicketReqs]
      /\ \A x \in TicketRequests : tkReq'[x] = IF x = q THEN s ELSE tkReq[x]
      /\ \A x \in TicketRequests : tkReq'[x].op = "clarify" => tkReq'[x].who = "staff"
  BY <1>1, <1>3, TicketMoves DEF TicketInv, TicketReqs
<1>5. /\ tkRow' \in [status : {"open", "resolved"}, question : BOOLEAN,
                     assignee : {"nobody", "staff", "opener"}, author : {"opener", "staff"}]
      /\ tkRow'.question = tkRow.question /\ tkRow'.author = tkRow.author
      /\ tkRow'.assignee = tkRow.assignee
           \/ tkRow'.assignee = "opener" \/ (tkRow'.assignee = "staff" /\ r.op = "assign_staff")
      /\ tkLast' \in {"reply", "resolve"} /\ tkRaced' \in BOOLEAN
      /\ StatusTellsUnlessRaced'
  <2>1. CASE ResolveTicket(q)
    <3>1. PICK status : status = Written(r.was, "resolved")
      OBVIOUS
    <3>2. /\ status \in {"open", "resolved"} /\ (r.was = tkRow.status => status = "resolved")
      BY <1>2, <3>1 DEF Written, MessageReqs, TicketInv, TicketTypes
    <3>3. /\ tkRow' = [tkRow EXCEPT !.status = status] /\ tkLast' = "resolve"
          /\ tkRaced' = (tkRaced \/ r.was # tkRow.status)
      BY <2>1, <3>1 DEF ResolveTicket
    <3> QED
      BY <3>2, <3>3 DEF TicketInv, TicketTypes, StatusTellsUnlessRaced
  <2>2. CASE AssignTicket(q)
    <3>1. PICK a : a = IF r.op = "assign_staff" THEN "staff" ELSE "opener"
      OBVIOUS
    <3>2. tkRow' = [tkRow EXCEPT !.assignee = a] /\ UNCHANGED <<tkLast, tkRaced>>
      BY <2>2, <3>1 DEF AssignTicket
    <3> QED
      BY <3>1, <3>2 DEF TicketInv, TicketTypes, StatusTellsUnlessRaced
  <2> QED
    BY <2>1, <2>2
<1>6. TicketTypes'
  BY <1>1, <1>4, <1>5 DEF Files, TicketInv, TicketTypes
<1>7. PlaceKept' /\ ListedIsStored'
  BY <1>1, <1>3, <1>4, ThreadStep
<1>8. StaffIsTold'
  <2>1. ASSUME NEW x \in TicketRequests, tkReq[x].pc = "tell" PROVE tkReq'[x] = tkReq[x]
    BY <1>1, <1>4, <2>1
  <2>2. tkReq'[q].pc = "tell" /\ tkReq'[q].op = r.op
    BY <1>3, <1>4
  <2> QED
    BY <1>1, <1>5, <2>1, <2>2 DEF TicketInv, StaffIsTold
<1> QED
  BY <1>5, <1>6, <1>7, <1>8 DEF TicketInv

(* The event of a message or a decision rings.                             *)
LEMMA TicketEventStep ==
  ASSUME TicketInv, NEW q \in TicketRequests, TicketEvent(q)
  PROVE  TicketInv'
<1> DEFINE r == tkReq[q]
<1>1. /\ r.pc = "tell" /\ tkReq' = [tkReq EXCEPT ![q] = IdleTicketReq]
      /\ tkRung' = tkRung \cup TicketRecipients(r)
      /\ Files /\ UNCHANGED <<tkRow, tkOps, tkCuts, tkLast, tkRaced>>
  BY DEF TicketEvent, TkEnds
<1>2. r \in MessageReqs
  BY <1>1, TicketKinds DEF TicketInv
<1>3. IdleTicketReq.op # "clarify"
  BY IdleTicket
<1>4. /\ tkReq' \in [TicketRequests -> TicketReqs]
      /\ \A x \in TicketRequests : tkReq'[x] = IF x = q THEN IdleTicketReq ELSE tkReq[x]
      /\ \A x \in TicketRequests : tkReq'[x].op = "clarify" => tkReq'[x].who = "staff"
  BY <1>1, <1>3, IdleTicket, TicketMoves DEF TicketInv
<1>5. tkRow.assignee \in {"nobody", "staff", "opener"}
  BY DEF TicketInv, TicketTypes
<1>6. TicketRecipients(r) \subseteq {"opener", "staff"}
  <2>1. /\ r.op \in {"reply", "resolve", "assign_staff", "assign_opener", "clarify"}
        /\ r.who \in {"opener", "staff"}
    BY <1>2 DEF MessageReqs
  <2> QED
    BY <1>5, <2>1 DEF TicketRecipients
<1>7. r.op = "assign_staff" \/ (r.op = "reply" /\ r.who = "opener" /\ tkRow.assignee # "opener")
        => "staff" \in TicketRecipients(r)
  <2>1. CASE r.op = "assign_staff"
    BY <2>1 DEF TicketRecipients
  <2>2. CASE r.op = "reply" /\ r.who = "opener" /\ tkRow.assignee # "opener"
    <3>1. TicketRecipients(r) = (IF tkRow.assignee = "nobody" THEN {"staff"} ELSE {tkRow.assignee}) \ {"opener"}
      BY <2>2 DEF TicketRecipients
    <3> QED
      BY <1>5, <2>2, <3>1
  <2> QED
    BY <2>1, <2>2
<1>8. TicketTypes'
  BY <1>1, <1>4, <1>6 DEF Files, TicketInv, TicketTypes
<1>9. PlaceKept' /\ ListedIsStored'
  <2>1. PICK idle : idle = IdleTicketReq
    OBVIOUS
  <2>2. idle.pc = "idle" /\ idle.shot = {}
    BY <2>1, IdleTicket
  <2>3. \A x \in TicketRequests : tkReq'[x] = IF x = q THEN idle ELSE tkReq[x]
    BY <1>4, <2>1
  <2> QED
    BY <1>1, <2>2, <2>3, ThreadStep
<1>10. StatusTellsUnlessRaced'
  BY <1>1 DEF TicketInv, StatusTellsUnlessRaced
<1>11. StaffIsTold'
  <2> SUFFICES ASSUME tkCuts = 0, tkRow.author = "opener", "staff" \notin tkRung',
                      tkRow.assignee # "opener"
               PROVE  \E x \in TicketRequests :
                        tkReq'[x].pc = "tell" /\ \/ tkReq'[x].op = "assign_staff"
                                                 \/ tkReq'[x].op = "reply" /\ tkReq'[x].who = "opener"
    BY <1>1 DEF StaffIsTold
  <2>1. PICK x \in TicketRequests :
          tkReq[x].pc = "tell" /\ \/ tkReq[x].op = "assign_staff"
                                  \/ tkReq[x].op = "reply" /\ tkReq[x].who = "opener"
    BY <1>1 DEF TicketInv, StaffIsTold
  <2>2. x # q
    BY <1>1, <1>7, <2>1
  <2> QED
    BY <1>4, <2>1, <2>2
<1> QED
  BY <1>8, <1>9, <1>10, <1>11 DEF TicketInv

(* An upload or a deletion is begun: the screenshot is nobody else's.      *)
LEMMA FileLoadsStep ==
  ASSUME TicketInv, NEW q \in TicketRequests, NEW s \in Shots, UploadLoads(q, s) \/ DeleteLoads(q, s)
  PROVE  TicketInv'
<1> USE TicketAssumption
<1>1. PICK r \in UploadReqs \cup DeletionReqs :
        /\ r.shot = {s} /\ r.op # "clarify"
        /\ \/ /\ r.pc = "lock" /\ s \notin tkObjects
              /\ \A p \in TicketRequests : tkReq[p].shot # {s}
           \/ r.pc = "unstore" /\ s \in tkShots
        /\ tkReq[q].pc = "idle" /\ tkReq' = [tkReq EXCEPT ![q] = r]
        /\ tkOps < MaxTicketOps /\ tkOps' = tkOps + 1 /\ Files /\ Thread /\ tkCuts' = tkCuts
  <2>1. CASE UploadLoads(q, s)
    <3> DEFINE r == [IdleTicketReq EXCEPT !.pc = "lock", !.op = "upload", !.shot = {s}]
    <3>1. r \in UploadReqs /\ r.shot = {s} /\ r.op # "clarify" /\ r.pc = "lock"
      BY DEF IdleTicketReq, UploadReqs
    <3>2. /\ s \notin tkObjects /\ \A p \in TicketRequests : tkReq[p].shot # {s}
          /\ tkReq[q].pc = "idle" /\ tkReq' = [tkReq EXCEPT ![q] = r]
          /\ tkOps < MaxTicketOps /\ tkOps' = tkOps + 1 /\ Files /\ Thread /\ tkCuts' = tkCuts
      BY <2>1 DEF UploadLoads, TkBegins
    <3> HIDE DEF r
    <3> QED
      BY <3>1, <3>2
  <2>2. CASE DeleteLoads(q, s)
    <3> DEFINE r == [IdleTicketReq EXCEPT !.pc = "unstore", !.op = "delete", !.shot = {s}]
    <3>1. r \in DeletionReqs /\ r.shot = {s} /\ r.op # "clarify" /\ r.pc = "unstore"
      BY DEF IdleTicketReq, DeletionReqs
    <3>2. /\ s \in tkShots /\ tkReq[q].pc = "idle" /\ tkReq' = [tkReq EXCEPT ![q] = r]
          /\ tkOps < MaxTicketOps /\ tkOps' = tkOps + 1 /\ Files /\ Thread /\ tkCuts' = tkCuts
      BY <2>2 DEF DeleteLoads, TkBegins
    <3> HIDE DEF r
    <3> QED
      BY <3>1, <3>2
  <2> QED
    BY <2>1, <2>2
<1>2. /\ tkReq' \in [TicketRequests -> TicketReqs]
      /\ \A x \in TicketRequests : tkReq'[x] = IF x = q THEN r ELSE tkReq[x]
      /\ \A x \in TicketRequests : tkReq'[x].op = "clarify" => tkReq'[x].who = "staff"
  BY <1>1, TicketMoves DEF TicketInv, TicketReqs
<1>3. TicketTypes'
  BY <1>1, <1>2 DEF Files, Thread, TicketInv, TicketTypes
<1>4. StatusTellsUnlessRaced' /\ StaffIsTold'
  BY <1>1, <1>2, FileStep
<1>5. PlaceKept'
  BY <1>1, <1>2 DEF Files, TicketInv, PlaceKept
<1>6. ListedIsStored'
  <2>1. ASSUME tkCuts' = 0, NEW x \in tkShots' \ tkObjects'
        PROVE  \E p \in TicketRequests : tkReq'[p].pc = "remove" /\ tkReq'[p].shot = {x}
    <3>1. PICK p \in TicketRequests : tkReq[p].pc = "remove" /\ tkReq[p].shot = {x}
      BY <1>1, <2>1 DEF Files, TicketInv, ListedIsStored
    <3> QED
      BY <1>1, <1>2, <3>1
  <2>2. tkCuts' = 0 /\ r.pc = "lock" => s \notin tkShots
    BY <1>1, <2>1, <1>2 DEF Files, TicketInv, ListedIsStored
  <2>3. ASSUME tkCuts' = 0, NEW x \in TicketRequests, tkReq'[x].pc \in {"lock", "put", "insert"}
        PROVE  /\ tkReq'[x].shot \cap tkShots' = {}
               /\ tkReq'[x].pc = "insert" => tkReq'[x].shot \subseteq tkObjects'
               /\ \A p \in TicketRequests \ {x} : tkReq'[p].shot # tkReq'[x].shot
    <3>1. CASE x = q
      <4>1. tkReq'[x] = r /\ r.pc = "lock"
        BY <1>1, <1>2, <2>3, <3>1
      <4> QED
        BY <1>1, <1>2, <2>2, <2>3, <3>1, <4>1 DEF Files
    <3>2. CASE x # q
      <4>1. tkReq'[x] = tkReq[x]
        BY <1>2, <3>2
      <4>2. tkReq[x].shot \cap tkShots = {} /\ (tkReq[x].pc = "insert" => tkReq[x].shot \subseteq tkObjects)
            /\ \A p \in TicketRequests \ {x} : tkReq[p].shot # tkReq[x].shot
        BY <1>1, <2>3, <4>1 DEF TicketInv, ListedIsStored
      <4>3. tkReq[x].shot # {s}
        BY <1>1, <4>2
      <4> QED
        BY <1>1, <1>2, <4>1, <4>2, <4>3 DEF Files
    <3> QED
      BY <3>1, <3>2
  <2> QED
    BY <2>1, <2>3 DEF ListedIsStored
<1> QED
  BY <1>3, <1>4, <1>5, <1>6 DEF TicketInv

(* An upload or a deletion goes on: same kind, same screenshot.            *)
LEMMA FileGoes ==
  ASSUME TicketTypes, NEW q \in TicketRequests, NEW pc, TkGoes(q, pc),
         \/ tkReq[q].pc \in {"lock", "put", "insert"} /\ pc \in {"lock", "put", "insert"}
         \/ tkReq[q].pc \in {"unstore", "remove"} /\ pc \in {"unstore", "remove"}
  PROVE  \E r \in TicketReqs :
           /\ r.pc = pc /\ r.shot = tkReq[q].shot
           /\ tkReq' \in [TicketRequests -> TicketReqs]
           /\ \A x \in TicketRequests : tkReq'[x] = IF x = q THEN r ELSE tkReq[x]
           /\ \A x \in TicketRequests : tkReq'[x].op = "clarify" => tkReq'[x].who = "staff"
<1> DEFINE r == [tkReq[q] EXCEPT !.pc = pc]
<1>1. /\ r \in TicketReqs /\ r.pc = pc /\ r.shot = tkReq[q].shot /\ r.op # "clarify"
  <2>1. CASE tkReq[q] \in UploadReqs /\ pc \in {"lock", "put", "insert"}
    BY <2>1 DEF UploadReqs, TicketReqs
  <2>2. CASE tkReq[q] \in DeletionReqs /\ pc \in {"unstore", "remove"}
    BY <2>2 DEF DeletionReqs, TicketReqs
  <2> QED
    BY <2>1, <2>2, TicketKinds
<1>2. tkReq' = [tkReq EXCEPT ![q] = r]
  BY DEF TkGoes, TicketTypes
<1> HIDE DEF r
<1> QED
  BY <1>1, <1>2, TicketMoves

(* A request ends.                                                         *)
LEMMA TicketEnds ==
  ASSUME TicketTypes, NEW q \in TicketRequests, TkEnds(q)
  PROVE  /\ tkReq' \in [TicketRequests -> TicketReqs]
         /\ tkReq'[q].pc = "idle" /\ tkReq'[q].shot = {}
         /\ \A x \in TicketRequests \ {q} : tkReq'[x] = tkReq[x]
         /\ \A x \in TicketRequests : tkReq'[x].op = "clarify" => tkReq'[x].who = "staff"
<1>1. IdleTicketReq.op = "clarify" => IdleTicketReq.who = "staff"
  BY IdleTicket
<1>2. /\ tkReq' \in [TicketRequests -> TicketReqs]
      /\ \A x \in TicketRequests : tkReq'[x] = IF x = q THEN IdleTicketReq ELSE tkReq[x]
      /\ \A x \in TicketRequests : tkReq'[x].op = "clarify" => tkReq'[x].who = "staff"
  BY <1>1, IdleTicket, TicketMoves DEF TkEnds
<1> QED
  BY <1>2, IdleTicket

(* The listed screenshots when a request moves on or ends, adding no row   *)
(* and taking no other's object away.                                      *)
LEMMA ListedKept ==
  ASSUME TicketInv, NEW q \in TicketRequests,
         \A x \in TicketRequests \ {q} : tkReq'[x] = tkReq[x],
         tkReq'[q].shot = tkReq[q].shot \/ tkReq'[q].shot = {},
         tkReq'[q].pc \in {"lock", "put", "insert"} =>
           /\ tkReq[q].pc \in {"lock", "put", "insert"} /\ tkReq'[q].shot = tkReq[q].shot
           /\ tkReq'[q].pc = "insert" => tkReq[q].shot \subseteq tkObjects',
         tkShots' \subseteq tkShots,
         \/ tkObjects \subseteq tkObjects'
         \/ /\ tkReq[q].pc = "unstore" /\ tkReq'[q].pc = "remove" /\ tkReq'[q].shot = tkReq[q].shot
            /\ tkObjects \ tkReq[q].shot \subseteq tkObjects',
         tkReq[q].pc = "remove" => tkShots' \cap tkReq[q].shot = {},
         tkCuts' = 0 => tkCuts = 0
  PROVE  ListedIsStored'
<1>1. ASSUME tkCuts' = 0, NEW x \in TicketRequests, tkReq'[x].pc \in {"lock", "put", "insert"}
      PROVE  /\ tkReq'[x].shot \cap tkShots' = {}
             /\ tkReq'[x].pc = "insert" => tkReq'[x].shot \subseteq tkObjects'
             /\ \A p \in TicketRequests \ {x} : tkReq'[p].shot # tkReq'[x].shot
  <2>1. /\ tkReq[x].pc \in {"lock", "put", "insert"} /\ tkReq'[x].shot = tkReq[x].shot
    BY <1>1
  <2>2. /\ tkReq[x].shot \cap tkShots = {} /\ (tkReq[x].pc = "insert" => tkReq[x].shot \subseteq tkObjects)
        /\ \A p \in TicketRequests \ {x} : tkReq[p].shot # tkReq[x].shot
    BY <1>1, <2>1 DEF TicketInv, ListedIsStored
  <2>3. PICK s \in Shots : tkReq[x].shot = {s}
    BY <2>1, TicketKinds DEF TicketInv
  <2>4. ASSUME NEW p \in TicketRequests \ {x} PROVE tkReq'[p].shot # tkReq'[x].shot
    BY <2>1, <2>2, <2>3
  <2>5. tkReq'[x].shot \cap tkShots' = {}
    BY <2>1, <2>2
  <2>6. ASSUME tkReq'[x].pc = "insert" PROVE tkReq'[x].shot \subseteq tkObjects'
    <3>1. CASE x = q
      BY <2>6, <3>1, <1>1
    <3>2. CASE x # q
      <4>1. tkReq[x].shot \subseteq tkObjects /\ s \in tkObjects
        BY <2>2, <2>3, <2>6, <3>2
      <4>2. CASE tkObjects \subseteq tkObjects'
        BY <2>1, <4>1, <4>2
      <4>3. CASE tkReq[q].pc = "unstore" /\ tkObjects \ tkReq[q].shot \subseteq tkObjects'
        <5>1. PICK t \in Shots : tkReq[q].shot = {t}
          BY <4>3, TicketKinds DEF TicketInv
        <5>2. t # s
          BY <2>2, <2>3, <3>2, <5>1
        <5> QED
          BY <2>1, <2>3, <4>1, <4>3, <5>1, <5>2
      <4> QED
        BY <4>2, <4>3
    <3> QED
      BY <3>1, <3>2
  <2> QED
    BY <2>4, <2>5, <2>6
<1>2. ASSUME tkCuts' = 0, NEW s \in tkShots' \ tkObjects'
      PROVE  \E x \in TicketRequests : tkReq'[x].pc = "remove" /\ tkReq'[x].shot = {s}
  <2>1. CASE s \notin tkObjects
    <3>1. PICK x \in TicketRequests : tkReq[x].pc = "remove" /\ tkReq[x].shot = {s}
      BY <1>2, <2>1 DEF TicketInv, ListedIsStored
    <3> QED
      BY <1>2, <3>1
  <2>2. CASE s \in tkObjects
    <3>1. /\ tkReq[q].pc = "unstore" /\ tkReq'[q].pc = "remove" /\ tkReq'[q].shot = tkReq[q].shot
          /\ s \in tkReq[q].shot
      BY <1>2, <2>2
    <3>2. tkReq[q].shot = {s}
      BY <3>1, TicketKinds DEF TicketInv
    <3> QED
      BY <3>1, <3>2
  <2> QED
    BY <2>1, <2>2
<1> QED
  BY <1>1, <1>2 DEF ListedIsStored

(* The row is locked and the screenshots counted.                          *)
LEMMA UploadLocksStep ==
  ASSUME TicketInv, NEW q \in TicketRequests, UploadLocks(q)
  PROVE  TicketInv'
<1> USE TicketAssumption
<1>1. /\ tkReq[q].pc = "lock" /\ tkLock = NoReq
      /\ Thread /\ UNCHANGED <<tkShots, tkObjects, tkOps, tkCuts>>
  BY DEF UploadLocks
<1>2. Cardinality(tkShots) \in Nat
  BY FS_CardinalityType DEF TicketInv, TicketTypes
<1>3. CASE Cardinality(tkShots) >= MaxShots
  <2>1. TkEnds(q) /\ tkLock' = tkLock
    BY <1>3 DEF UploadLocks
  <2>2. /\ tkReq' \in [TicketRequests -> TicketReqs]
        /\ tkReq'[q].pc = "idle" /\ tkReq'[q].shot = {}
        /\ \A x \in TicketRequests \ {q} : tkReq'[x] = tkReq[x]
        /\ \A x \in TicketRequests : tkReq'[x].op = "clarify" => tkReq'[x].who = "staff"
    BY <2>1, TicketEnds DEF TicketInv
  <2>3. TicketTypes'
    BY <1>1, <2>1, <2>2 DEF Thread, TicketInv, TicketTypes
  <2>4. PlaceKept'
    BY <1>1, <2>1, <2>2 DEF TicketInv, PlaceKept
  <2>5. ListedIsStored'
    BY <1>1, <2>2, ListedKept
  <2> QED
    BY <1>1, <2>2, <2>3, <2>4, <2>5, FileStep DEF TicketInv
<1>4. CASE ~ (Cardinality(tkShots) >= MaxShots)
  <2>1. TkGoes(q, "put") /\ tkLock' = q
    BY <1>4 DEF UploadLocks
  <2>2. PICK r \in TicketReqs :
           /\ r.pc = "put" /\ r.shot = tkReq[q].shot
           /\ tkReq' \in [TicketRequests -> TicketReqs]
           /\ \A x \in TicketRequests : tkReq'[x] = IF x = q THEN r ELSE tkReq[x]
           /\ \A x \in TicketRequests : tkReq'[x].op = "clarify" => tkReq'[x].who = "staff"
    BY <1>1, <2>1, FileGoes DEF TicketInv
  <2>3. TicketTypes'
    BY <1>1, <2>1, <2>2 DEF Thread, TicketInv, TicketTypes
  <2>4. PlaceKept'
    <3>1. ASSUME NEW x \in TicketRequests, tkReq'[x].pc \in {"put", "insert"} PROVE x = q
      BY <1>1, <2>2, <3>1 DEF TicketInv, PlaceKept
    <3>2. Cardinality(tkShots) < MaxShots
      BY <1>2, <1>4
    <3> QED
      BY <1>1, <2>1, <3>1, <3>2 DEF TicketInv, PlaceKept
  <2>5. ListedIsStored'
    BY <1>1, <2>2, ListedKept
  <2> QED
    BY <1>1, <2>2, <2>3, <2>4, <2>5, FileStep DEF TicketInv
<1> QED
  BY <1>3, <1>4

(* The object is stored.                                                   *)
LEMMA UploadPutsStep ==
  ASSUME TicketInv, NEW q \in TicketRequests, UploadPuts(q)
  PROVE  TicketInv'
<1>1. /\ tkReq[q].pc = "put" /\ TkGoes(q, "insert") /\ tkObjects' = tkObjects \cup tkReq[q].shot
      /\ Thread /\ UNCHANGED <<tkShots, tkLock, tkOps, tkCuts>>
  BY DEF UploadPuts
<1>2. PICK r \in TicketReqs :
         /\ r.pc = "insert" /\ r.shot = tkReq[q].shot
         /\ tkReq' \in [TicketRequests -> TicketReqs]
         /\ \A x \in TicketRequests : tkReq'[x] = IF x = q THEN r ELSE tkReq[x]
         /\ \A x \in TicketRequests : tkReq'[x].op = "clarify" => tkReq'[x].who = "staff"
  BY <1>1, FileGoes DEF TicketInv
<1>3. \E s \in Shots : tkReq[q].shot = {s}
  BY <1>1, TicketKinds DEF TicketInv
<1>4. TicketTypes'
  BY <1>1, <1>2, <1>3 DEF Thread, TicketInv, TicketTypes
<1>5. PlaceKept'
  BY <1>1, <1>2 DEF TicketInv, PlaceKept
<1>6. ListedIsStored'
  BY <1>1, <1>2, ListedKept
<1> QED
  BY <1>1, <1>2, <1>4, <1>5, <1>6, FileStep DEF TicketInv

(* The row is added, at the place it counted on.                           *)
LEMMA UploadCommitsStep ==
  ASSUME TicketInv, NEW q \in TicketRequests, UploadCommits(q)
  PROVE  TicketInv'
<1> USE TicketAssumption
<1>1. /\ tkReq[q].pc = "insert" /\ TkEnds(q) /\ tkShots' = tkShots \cup tkReq[q].shot
      /\ tkLock' = (IF tkLock = q THEN NoReq ELSE tkLock)
      /\ Thread /\ UNCHANGED <<tkObjects, tkOps, tkCuts>>
  BY DEF UploadCommits, TicketUnlocks
<1>2. /\ tkReq' \in [TicketRequests -> TicketReqs]
      /\ tkReq'[q].pc = "idle" /\ tkReq'[q].shot = {}
      /\ \A x \in TicketRequests \ {q} : tkReq'[x] = tkReq[x]
      /\ \A x \in TicketRequests : tkReq'[x].op = "clarify" => tkReq'[x].who = "staff"
  BY <1>1, TicketEnds DEF TicketInv
<1>3. PICK s \in Shots : tkReq[q].shot = {s}
  BY <1>1, TicketKinds DEF TicketInv
<1>4. tkLock = q /\ tkLock' = NoReq
  BY <1>1 DEF TicketInv, PlaceKept
<1>5. /\ IsFiniteSet(tkShots') /\ tkShots' = tkShots \cup {s}
      /\ Cardinality(tkShots') = IF s \in tkShots THEN Cardinality(tkShots) ELSE Cardinality(tkShots) + 1
      /\ Cardinality(tkShots) \in Nat
  BY <1>1, <1>3, FS_AddElement, FS_CardinalityType DEF TicketInv, TicketTypes
<1>6. TicketTypes'
  BY <1>1, <1>2, <1>3, <1>4, <1>5 DEF Thread, TicketInv, TicketTypes
<1>7. PlaceKept'
  <2>1. Cardinality(tkShots') <= MaxShots
    BY <1>4, <1>5 DEF TicketInv, PlaceKept
  <2>2. \A x \in TicketRequests : tkReq'[x].pc \notin {"put", "insert"}
    BY <1>2, <1>4 DEF TicketInv, PlaceKept
  <2> QED
    BY <1>4, <2>1, <2>2 DEF PlaceKept
<1>8. ListedIsStored'
  <2> SUFFICES ASSUME tkCuts = 0 PROVE ListedIsStored'
    BY <1>1 DEF ListedIsStored
  <2>1. s \in tkObjects
    BY <1>1, <1>3 DEF TicketInv, ListedIsStored
  <2>2. ASSUME NEW x \in tkShots' \ tkObjects'
        PROVE  \E p \in TicketRequests : tkReq'[p].pc = "remove" /\ tkReq'[p].shot = {x}
    <3>1. PICK p \in TicketRequests : tkReq[p].pc = "remove" /\ tkReq[p].shot = {x}
      BY <1>1, <1>5, <2>1, <2>2 DEF TicketInv, ListedIsStored
    <3> QED
      BY <1>1, <1>2, <3>1
  <2>3. ASSUME NEW x \in TicketRequests, tkReq'[x].pc \in {"lock", "put", "insert"}
        PROVE  /\ tkReq'[x].shot \cap tkShots' = {}
               /\ tkReq'[x].pc = "insert" => tkReq'[x].shot \subseteq tkObjects'
               /\ \A p \in TicketRequests \ {x} : tkReq'[p].shot # tkReq'[x].shot
    <3>1. x # q /\ tkReq'[x] = tkReq[x]
      BY <1>2, <2>3
    <3>2. /\ tkReq[x].shot \cap tkShots = {} /\ (tkReq[x].pc = "insert" => tkReq[x].shot \subseteq tkObjects)
          /\ \A p \in TicketRequests \ {x} : tkReq[p].shot # tkReq[x].shot
      BY <2>3, <3>1 DEF TicketInv, ListedIsStored
    <3>3. PICK t \in Shots : tkReq[x].shot = {t}
      BY <2>3, <3>1, TicketKinds DEF TicketInv
    <3>4. t # s
      BY <1>3, <3>1, <3>2, <3>3
    <3> QED
      BY <1>1, <1>2, <1>5, <3>1, <3>2, <3>3, <3>4
  <2> QED
    BY <2>2, <2>3 DEF ListedIsStored
<1> QED
  BY <1>1, <1>2, <1>6, <1>7, <1>8, FileStep DEF TicketInv

(* The object is dropped, or not.                                          *)
LEMMA DeleteObjectStep ==
  ASSUME TicketInv, NEW q \in TicketRequests, DeleteObject(q)
  PROVE  TicketInv'
<1>1. /\ tkReq[q].pc = "unstore" /\ TkGoes(q, "remove")
      /\ tkObjects' = tkObjects \ tkReq[q].shot \/ tkObjects' = tkObjects
      /\ Thread /\ UNCHANGED <<tkShots, tkLock, tkOps, tkCuts>>
  BY DEF DeleteObject
<1>2. PICK r \in TicketReqs :
         /\ r.pc = "remove" /\ r.shot = tkReq[q].shot
         /\ tkReq' \in [TicketRequests -> TicketReqs]
         /\ \A x \in TicketRequests : tkReq'[x] = IF x = q THEN r ELSE tkReq[x]
         /\ \A x \in TicketRequests : tkReq'[x].op = "clarify" => tkReq'[x].who = "staff"
  BY <1>1, FileGoes DEF TicketInv
<1>3. TicketTypes'
  BY <1>1, <1>2 DEF Thread, TicketInv, TicketTypes
<1>4. PlaceKept'
  BY <1>1, <1>2 DEF TicketInv, PlaceKept
<1>5. ListedIsStored'
  BY <1>1, <1>2, ListedKept
<1> QED
  BY <1>1, <1>2, <1>3, <1>4, <1>5, FileStep DEF TicketInv

(* The row is removed.                                                     *)
LEMMA DeleteRowStep ==
  ASSUME TicketInv, NEW q \in TicketRequests, DeleteRow(q)
  PROVE  TicketInv'
<1> USE TicketAssumption
<1>1. /\ tkReq[q].pc = "remove" /\ TkEnds(q) /\ tkShots' = tkShots \ tkReq[q].shot
      /\ Thread /\ UNCHANGED <<tkObjects, tkLock, tkOps, tkCuts>>
  BY DEF DeleteRow
<1>2. /\ tkReq' \in [TicketRequests -> TicketReqs]
      /\ tkReq'[q].pc = "idle" /\ tkReq'[q].shot = {}
      /\ \A x \in TicketRequests \ {q} : tkReq'[x] = tkReq[x]
      /\ \A x \in TicketRequests : tkReq'[x].op = "clarify" => tkReq'[x].who = "staff"
  BY <1>1, TicketEnds DEF TicketInv
<1>3. /\ IsFiniteSet(tkShots') /\ Cardinality(tkShots') <= Cardinality(tkShots)
      /\ Cardinality(tkShots') \in Nat /\ Cardinality(tkShots) \in Nat
  BY <1>1, FS_Subset, FS_CardinalityType DEF TicketInv, TicketTypes
<1>4. TicketTypes'
  BY <1>1, <1>2, <1>3 DEF Thread, TicketInv, TicketTypes
<1>5. PlaceKept'
  <2>1. \A x \in TicketRequests : tkReq'[x].pc \in {"put", "insert"} => tkLock' = x
    BY <1>1, <1>2 DEF TicketInv, PlaceKept
  <2>2. (tkLock' # NoReq => Cardinality(tkShots') < MaxShots) /\ Cardinality(tkShots') <= MaxShots
    BY <1>1, <1>3 DEF TicketInv, PlaceKept
  <2> QED
    BY <2>1, <2>2 DEF PlaceKept
<1>6. ListedIsStored'
  BY <1>1, <1>2, ListedKept
<1> QED
  BY <1>1, <1>2, <1>4, <1>5, <1>6, FileStep DEF TicketInv

(* A request is cut off: what held for want of that is off.                *)
LEMMA TicketCrashStep ==
  ASSUME TicketInv, NEW q \in TicketRequests, TicketCrash(q)
  PROVE  TicketInv'
<1> USE TicketAssumption
<1>1. /\ TkEnds(q) /\ tkLock' = (IF tkLock = q THEN NoReq ELSE tkLock)
      /\ tkCuts < MaxTicketFaults /\ tkCuts' = tkCuts + 1
      /\ Thread /\ UNCHANGED <<tkShots, tkObjects, tkOps>>
  BY DEF TicketCrash, TicketUnlocks
<1>2. /\ tkReq' \in [TicketRequests -> TicketReqs]
      /\ tkReq'[q].pc = "idle" /\ tkReq'[q].shot = {}
      /\ \A x \in TicketRequests \ {q} : tkReq'[x] = tkReq[x]
      /\ \A x \in TicketRequests : tkReq'[x].op = "clarify" => tkReq'[x].who = "staff"
  BY <1>1, TicketEnds DEF TicketInv
<1>3. tkCuts' # 0 /\ tkCuts' \in 0 .. MaxTicketFaults
  BY <1>1 DEF TicketInv, TicketTypes
<1>4. TicketTypes'
  BY <1>1, <1>2, <1>3 DEF Thread, TicketInv, TicketTypes
<1>5. PlaceKept'
  BY <1>1, <1>2 DEF TicketInv, PlaceKept
<1>6. ListedIsStored' /\ StaffIsTold'
  BY <1>3 DEF ListedIsStored, StaffIsTold
<1>7. StatusTellsUnlessRaced'
  BY <1>1 DEF Thread, TicketInv, StatusTellsUnlessRaced
<1> QED
  BY <1>4, <1>5, <1>6, <1>7 DEF TicketInv

(* Every step keeps the invariant, and it says what is promised.           *)
LEMMA TicketStep == TicketInv /\ [TicketNext]_tkVars => TicketInv'
<1> SUFFICES ASSUME TicketInv, [TicketNext]_tkVars PROVE TicketInv'
  OBVIOUS
<1>1. CASE UNCHANGED tkVars
  <2>1. TicketTypes' /\ PlaceKept'
    BY <1>1 DEF tkVars, TicketInv, TicketTypes, PlaceKept
  <2>2. ListedIsStored' /\ StaffIsTold' /\ StatusTellsUnlessRaced'
    BY <1>1 DEF tkVars, TicketInv, ListedIsStored, StaffIsTold, StatusTellsUnlessRaced
  <2> QED
    BY <2>1, <2>2 DEF TicketInv
<1>2. CASE TicketNext
  BY <1>2, TicketLoadsStep, PostMessageStep, DecideStep, TicketEventStep, FileLoadsStep,
     UploadLocksStep, UploadPutsStep, UploadCommitsStep, DeleteObjectStep, DeleteRowStep,
     TicketCrashStep DEF TicketNext
<1> QED
  BY <1>1, <1>2

LEMMA TicketKept == TicketInv => TicketTypeOK /\ TicketsSafe
<1> SUFFICES ASSUME TicketInv PROVE TicketTypeOK /\ TicketsSafe
  OBVIOUS
<1>1. TicketTypeOK
  <2>1. \A q \in TicketRequests : tkReq[q].pc \in
          {"idle", "write", "tell", "lock", "put", "insert", "unstore", "remove"}
    <3> SUFFICES ASSUME NEW q \in TicketRequests
                 PROVE tkReq[q].pc \in
                   {"idle", "write", "tell", "lock", "put", "insert", "unstore", "remove"}
      OBVIOUS
    <3>1. tkReq[q] \in TicketReqs
      BY DEF TicketInv, TicketTypes
    <3> QED
      BY <3>1, IdleTicket DEF TicketReqs, MessageReqs, UploadReqs, DeletionReqs
  <2> QED
    BY <2>1 DEF TicketInv, TicketTypes, TicketTypeOK
<1>2. ShotsStored
  BY DEF TicketInv, ListedIsStored, ShotsStored, TicketQuiet
<1>3. AwaitingHasRung
  BY DEF TicketInv, StaffIsTold, AwaitingHasRung, TicketQuiet
<1> QED
  BY <1>1, <1>2, <1>3 DEF TicketInv, PlaceKept, ShotsCapped, TicketsSafe

(***************************************************************************)
(* The components side by side.                                            *)
(***************************************************************************)

(* Seats, joining and hints beside everything else of the run.             *)
CommunityInv == HintsInv /\ JoiningInv /\ TeamsInv

(* No team passes its size and a team is led by one, a link lets in no     *)
(* more than its cap and whoever rules were asked of has accepted a text   *)
(* in force since the competition last got an override, whatever is        *)
(* cleared or edited in the meantime, and a hint is charged once and       *)
(* announced (routers/teams.py, invite_links.py, competitions.py,          *)
(* site_settings.py, hints.py), whatever overlaps except what the property *)
(* names.                                                                  *)
THEOREM MembershipHolds == CommunitySpec => []MembershipSafe
<1>1. CommunityInit => CommunityInv
  BY HintsStart, JoiningStart, TeamsStart DEF CommunityInit, CommunityInv
<1>2. CommunityInv /\ [CommunityNext]_communityVars => CommunityInv'
  <2> SUFFICES ASSUME CommunityInv, [CommunityNext]_communityVars
               PROVE  CommunityInv'
    OBVIOUS
  <2>1. [HintsNext]_hnVars /\ [JoiningNext]_jnVars /\ [TeamsNext]_tmVars
    BY DEF CommunityNext, communityVars
  <2> QED
    BY <2>1, HintsStep, JoiningStep, TeamsStep DEF CommunityInv
<1>3. CommunityInv => MembershipSafe
  BY HintsKept, JoiningKept, TeamsKept DEF CommunityInv, MembershipSafe
<1> QED
  BY <1>1, <1>2, <1>3, PTL DEF CommunitySpec

(* Announcements reach everyone who wants them, once, and a withdrawn      *)
(* answer leaves no bell with it (routers/announcements.py,                *)
(* plugins/announcements); a ticket's status says who is waited for, its   *)
(* screenshots keep to their cap and stay stored, and staff is told of     *)
(* what awaits them (routers/tickets.py, ticket_attachments.py): whatever  *)
(* overlaps except what the property names.                                *)
THEOREM NoticesHold == CommunitySpec => []NoticesSafe
<1>1. CommunityInit => AnnInv /\ TicketInv
  BY AnnStart, TicketStart DEF CommunityInit
<1>2. AnnInv /\ TicketInv /\ [CommunityNext]_communityVars => (AnnInv /\ TicketInv)'
  <2> SUFFICES ASSUME AnnInv, TicketInv, [CommunityNext]_communityVars
               PROVE  AnnInv' /\ TicketInv'
    OBVIOUS
  <2>1. [AnnNext]_anVars /\ [TicketNext]_tkVars
    BY DEF CommunityNext, communityVars
  <2> QED
    BY <2>1, AnnStep, TicketStep
<1>3. AnnInv /\ TicketInv => NoticesSafe
  BY AnnKept, TicketKept DEF NoticesSafe
<1> QED
  BY <1>1, <1>2, <1>3, PTL DEF CommunitySpec

(* A cached board is the current one unless its reading was overtaken by   *)
(* an event, a frozen room is shown nothing later than the freeze, the     *)
(* room ends at the current board unless an older one was sent last        *)
(* (utils/scoreboard.py, plugins/scoring), and the last of a burst of      *)
(* pings reaches whoever is there (utils/coalesce.py).                     *)
THEOREM BoardHolds == CommunitySpec => []BoardSafe
<1>1. CommunityInit => BoardInv /\ CoalInv
  BY BoardStart, CoalStart DEF CommunityInit
<1>2. BoardInv /\ CoalInv /\ [CommunityNext]_communityVars => (BoardInv /\ CoalInv)'
  <2> SUFFICES ASSUME BoardInv, CoalInv, [CommunityNext]_communityVars
               PROVE  BoardInv' /\ CoalInv'
    OBVIOUS
  <2>1. [LiveBoardNext]_bdVars /\ [CoalescerNext]_coVars
    BY DEF CommunityNext, communityVars
  <2> QED
    BY <2>1, BoardStep, CoalStep
<1>3. BoardInv /\ CoalInv => BoardSafe
  BY BoardKept, CoalKept DEF BoardSafe
<1> QED
  BY <1>1, <1>2, <1>3, PTL DEF CommunitySpec
=============================================================================
