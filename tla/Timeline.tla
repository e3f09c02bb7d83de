------------------------------ MODULE Timeline ------------------------------
(***************************************************************************)
(* The points-over-time chart beside the scoreboard                        *)
(* (utils/scoreboard_timeline.py), computed from the same four sources as  *)
(* the board's totals (utils/scoreboard.py) under every order of solves    *)
(* (dated now or earlier, revoked or moved later), hint reveals,           *)
(* adjustments and awards, with a freeze and a scheduled start anywhere    *)
(* among them.                                                             *)
(***************************************************************************)
EXTENDS Scoring, SequencesExt

CONSTANTS ChartSubjects,
          ChartScoring,  \* the scoring fields of the one challenge
          Freezes,       \* the instants of the freeze to try
          Starts,        \* the scheduled starts to try
          ChartCap,      \* max_points
          LastInstant,   \* bound: the clock
          MaxChartRows   \* bound: scoring rows

ASSUME ChartAssumption ==
    /\ ChartScoring.scoring \in ScoringTypes
    /\ ChartCap \in Nat /\ LastInstant \in Nat /\ MaxChartRows \in Nat
    /\ Freezes \subseteq 0..LastInstant /\ Starts \subseteq 0..LastInstant

VARIABLES tlRows,   \* the rows of the four sources, in the order written
          tlNow,    \* the clock
          tlFreeze, \* scoreboard_frozen_at
          tlStart   \* starts_at

tlVars == <<tlRows, tlNow, tlFreeze, tlStart>>

(* A solve's `points` are points_awarded and `penalty` its mc_penalty; of  *)
(* the others `points` is the signed value.  The four sources, in the      *)
(* order they are read:                                                    *)
SourceNo == [solve |-> 1, hint |-> 2, adjustment |-> 3, award |-> 4]
NoCutoff == -1
RowsUpto(rows, cut) == {i \in DOMAIN rows : cut = NoCutoff \/ rows[i].at <= cut}
SolvesUpto(rows, cut) == {i \in RowsUpto(rows, cut) : rows[i].kind = "solve"}
ChartRows(rows, s, cut) == {i \in RowsUpto(rows, cut) : rows[i].who = s}

-----------------------------------------------------------------------------
(* awarded_solves: live, the stored points; frozen, the worth after the    *)
(* solves up to the cutoff, net of the solver's penalty.                   *)
AwardedSolve_Stored(rows, cut, i) == rows[i].points
AwardedSolve(rows, cut, i) ==
    IF cut = NoCutoff THEN rows[i].points
    ELSE Revalued(ChallengeValue(ChartScoring, Cardinality(SolvesUpto(rows, cut))), rows[i].penalty)

(* _point_events: a subject's deltas, sorted by time; the stable sort      *)
(* keeps the order of the sources at one instant.                          *)
Delta(rows, cut, i) == IF rows[i].kind = "solve" THEN AwardedSolve(rows, cut, i) ELSE rows[i].points
Before(rows, i, j) ==
    LET a == rows[i]
        b == rows[j]
    IN  \/ a.at < b.at
        \/ a.at = b.at /\ SourceNo[a.kind] < SourceNo[b.kind]
        \/ a.at = b.at /\ a.kind = b.kind /\ i < j
PointEvents(rows, s, cut) ==
    LET mine == ChartRows(rows, s, cut)
    IN  [k \in 1..Cardinality(mine) |->
            CHOOSE i \in mine : Cardinality({j \in mine : Before(rows, j, i)}) = k - 1]

(* _downsample: at most cap points, the first and the last exact.          *)
Truncated(n, d) == IF n >= 0 THEN n \div d ELSE -((-n) \div d)   \* int() of a quotient
Downsample_DropsLast(raw, cap) == IF Len(raw) <= cap THEN raw ELSE SubSeq(raw, 1, cap)
Downsample(raw, cap) ==
    LET first == raw[1]
        last == raw[Len(raw)]
        span == last.at - first.at
        buckets == cap - 2
        slot(i) == LET b == Truncated((raw[i].at - first.at) * buckets, span)
                   IN  IF b >= buckets THEN buckets - 1 ELSE b
        \* the events are by time, so a slot's points are neighbours and the last one is kept
        kept == SelectSeq([i \in 1..Len(raw) |-> i],
                          LAMBDA i : i \in 2..(Len(raw) - 1) /\ (i = Len(raw) - 1 \/ slot(i) # slot(i + 1)))
    IN  IF Len(raw) <= cap THEN raw
        ELSE IF cap < 3 \/ span <= 0 THEN <<first, last>>
        ELSE <<first>> \o [k \in 1..Len(kept) |-> raw[kept[k]]] \o <<last>>

(* _series_points: the running total, clamped at zero, from a zero at the  *)
(* start.                                                                  *)
SeriesPoints(rows, s, cut, start, cap) ==
    LET mine == ChartRows(rows, s, cut)
        events == PointEvents(rows, s, cut)
        running(i) == MapThenSumSet(LAMBDA j : Delta(rows, cut, j), {j \in mine : j = i \/ Before(rows, j, i)})
        raw == <<[at |-> start, points |-> 0]>>
                 \o [k \in 1..Len(events) |-> [at |-> rows[events[k]].at, points |-> AtLeast(0, running(events[k]))]]
    IN  Downsample(raw, cap)

(* compute_timeline, of one subject; `live` passes over the freeze.        *)
FreezeCutoff == IF tlNow >= tlFreeze THEN tlFreeze ELSE NoCutoff
Cutoff(live) == IF live THEN NoCutoff ELSE FreezeCutoff
Chart(s, live) == SeriesPoints(tlRows, s, Cutoff(live), tlStart, ChartCap)

(* compute_scoreboard's net points of the subject: the four sums, solves   *)
(* valued by _awarded_by_subject.                                          *)
BoardTotal(s, live) ==
    LET cut == Cutoff(live)
        mine == ChartRows(tlRows, s, cut)
        solved == mine \cap SolvesUpto(tlRows, cut)
        worth == ChallengeValue(ChartScoring, Cardinality(SolvesUpto(tlRows, cut)))
        earned == MapThenSumSet(LAMBDA i : IF cut = NoCutoff THEN tlRows[i].points
                                           ELSE Revalued(worth, tlRows[i].penalty), solved)
    IN  AtLeast(0, earned + MapThenSumSet(LAMBDA i : tlRows[i].points, mine \ solved))

-----------------------------------------------------------------------------
ChartInit ==
    /\ tlRows = <<>> /\ tlNow = 0
    /\ tlFreeze \in Freezes /\ tlStart \in Starts

TimePasses ==
    /\ tlNow < LastInstant /\ tlNow' = tlNow + 1
    /\ UNCHANGED <<tlRows, tlFreeze, tlStart>>

(* Every awarded solve is re-valued in place, at what the challenge is     *)
(* worth after all of them.                                                *)
SweptRows(rows) ==
    LET worth == ChallengeValue(ChartScoring, Cardinality(SolvesUpto(rows, NoCutoff)))
    IN  [i \in DOMAIN rows |->
            IF rows[i].kind = "solve" THEN [rows[i] EXCEPT !.points = Revalued(worth, rows[i].penalty)]
            ELSE rows[i]]
SolvesOf(s) == {i \in SolvesUpto(tlRows, NoCutoff) : tlRows[i].who = s}

(* record_grade: the new solve.  A flag's is dated now; a judged code's    *)
(* when the code was submitted (created_at), however late its verdict.     *)
SolveRow(s, at, penalty) ==
    /\ Len(tlRows) < MaxChartRows /\ SolvesOf(s) = {}
    /\ tlRows' = SweptRows(Append(tlRows, [who |-> s, at |-> at, kind |-> "solve", points |-> 0, penalty |-> penalty]))
    /\ UNCHANGED <<tlNow, tlFreeze, tlStart>>

(* regrade, of a subject whose award goes: revoked, or moved to another of *)
(* their codes, of another date.                                           *)
RevokeRow(s) ==
    /\ \E i \in SolvesOf(s) : tlRows' = SweptRows(RemoveAt(tlRows, i))
    /\ UNCHANGED <<tlNow, tlFreeze, tlStart>>
MoveRow(s, at) ==
    /\ \E i \in SolvesOf(s) : tlRows' = SweptRows([tlRows EXCEPT ![i].at = at])
    /\ UNCHANGED <<tlNow, tlFreeze, tlStart>>

(* A hint costs; an adjustment may take away; an award adds.               *)
OtherRow(s, kind, points) ==
    /\ Len(tlRows) < MaxChartRows
    /\ tlRows' = Append(tlRows, [who |-> s, at |-> tlNow, kind |-> kind, points |-> points, penalty |-> 0])
    /\ UNCHANGED <<tlNow, tlFreeze, tlStart>>

ChartNext ==
    \/ TimePasses
    \/ \E s \in ChartSubjects :
        \/ \E at \in 0..tlNow : MoveRow(s, at) \/ \E p \in {0, 2} : SolveRow(s, at, p)
        \/ RevokeRow(s)
        \/ OtherRow(s, "hint", -1) \/ OtherRow(s, "adjustment", -3) \/ OtherRow(s, "award", 1)

ChartSpec == ChartInit /\ [][ChartNext]_tlVars
-----------------------------------------------------------------------------
ChartTypeOK ==
    /\ tlNow \in 0..LastInstant /\ Len(tlRows) <= MaxChartRows
    /\ \A i \in 1..Len(tlRows) : tlRows[i].who \in ChartSubjects /\ tlRows[i].at \in 0..LastInstant

(* "each line ends exactly on that subject's board total", live and        *)
(* frozen, downsampled or not; and a line that begins before its events    *)
(* keeps to the cap.                                                       *)
ChartAgrees ==
    \A s \in ChartSubjects, live \in BOOLEAN :
        LET c == Chart(s, live) IN
        /\ c[Len(c)].points = BoardTotal(s, live)
        /\ (\A i \in 1..Len(tlRows) : tlRows[i].at >= tlStart) =>
               Len(c) <= (IF ChartCap < 2 THEN 2 ELSE ChartCap)

(* What may move the frozen board (_moves_frozen_board): "a solve, or a    *)
(* revoked solve, only when that solve is dated at or before the cutoff (a *)
(* backdated judge verdict, a rejudge of a pre-cutoff solve)".  So past    *)
(* the cutoff neither the frozen chart nor the frozen total of anybody     *)
(* moves in a step that leaves the awards dated up to it as they are,      *)
(* whatever else is solved, revoked, moved, re-valued, revealed or         *)
(* adjusted.                                                               *)
FrozenAwards == {[tlRows[i] EXCEPT !.points = 0] : i \in SolvesUpto(tlRows, tlFreeze)}
FrozenStays ==
    tlNow > tlFreeze /\ FrozenAwards' = FrozenAwards
        => \A s \in ChartSubjects : /\ Chart(s, FALSE)' = Chart(s, FALSE)
                                    /\ BoardTotal(s, FALSE)' = BoardTotal(s, FALSE)

(* _downsample: "Bound a cumulative series to max_points points".          *)
CapIsKept == \A s \in ChartSubjects : Len(Chart(s, TRUE)) <= ChartCap
=============================================================================
