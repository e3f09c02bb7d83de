---------------------------- MODULE PointsProofs ----------------------------
(***************************************************************************)
(* What concurrent answers and verdicts may do to points, for any number   *)
(* of requests, subjects, codes and judgings and for any scoring.          *)
(***************************************************************************)
EXTENDS FlagGrading, Verdicts, FiniteSetTheorems, TLAPS

(***************************************************************************)
(* Flags.  The argument: a request holds its subject's lock from the count *)
(* of the guesses to the end of its transaction (LockHeld), so the count   *)
(* is still right when its row is written.  A row is written once, by its  *)
(* own request (RowState, RowMatch), and a rival's pending award blocks    *)
(* the insert, so no subject has two awarded rows (OneAward); a correct    *)
(* answer that won nothing has a winner beside it (HasWinner).  A          *)
(* count of solves only gets staler downwards, and the value falls with    *)
(* the solves, so what an award was promised never undercuts the current   *)
(* value (Promised); when no two awards overlap it is exact (Undisturbed). *)
(***************************************************************************)

(* Past the guess cap, with a transaction open.                            *)
InFlight == {"grade", "prior", "wrong", "insert", "sweep", "update", "commit"}

Working(s) == {r \in Requests : SubjectOf[r] = s /\ req[r].pc \in InFlight}

Counted(s) == {r \in RowsOf(s) : sub[r].fresh}

WrongRows(s) == {q \in RowsOf(s) : ~sub[q].correct}

(* Under a guess limit a request in flight holds its subject's lock.       *)
LockHeld == Capped => \A r \in Requests :
                          req[r].pc \in InFlight => holder[SubjectOf[r]] = r

(* Where a request is tells where its row is.                              *)
RowState(r) ==
    /\ req[r].pc \in {"new", "cap", "grade", "prior", "wrong", "insert"}
          => sub[r].state = "none"
    /\ req[r].pc \in {"sweep", "update", "commit"} => sub[r].state = "pending"
    /\ req[r].pc \in {"attempted", "solved"} => sub[r].state = "committed"
    /\ req[r].pc = "done" => sub[r].state # "pending"

(* A row says what its request decided.                                    *)
RowMatch(r) ==
    /\ sub[r].state = "none" => ~sub[r].correct /\ ~sub[r].duplicate
    /\ sub[r].state # "none" => /\ sub[r].correct = req[r].correct
                                /\ AwardedRow(r) <=> req[r].award
    /\ sub[r].duplicate => sub[r].points = 0
    /\ req[r].award => req[r].correct
    /\ req[r].pc \in {"new", "cap", "grade"} => ~req[r].correct
    /\ req[r].pc \in {"prior", "wrong", "sweep", "update", "solved"} => req[r].award

(* A correct answer that won nothing has a winner beside it.               *)
HasWinner(r) ==
    req[r].correct /\ ~req[r].award => \E q \in Awarded : SubjectOf[q] = SubjectOf[r]

(* What a sweep took is awarded, and only an award sweeps.                 *)
SweepAwarded(r) ==
    /\ req[r].sweep \ {r} \subseteq Awarded
    /\ req[r].pc \in {"new", "cap", "grade", "prior", "wrong", "insert", "sweep"}
          => req[r].sweep = {}
    /\ ~req[r].award => req[r].sweep = {}

RowFacts(r) == RowState(r) /\ RowMatch(r) /\ HasWinner(r) /\ SweepAwarded(r)

(* The unique index: one awarded row of a subject, committed or not.       *)
OneAward ==
    \A r, q \in Requests :
        SubjectOf[r] = SubjectOf[q] /\ AwardedRow(r) /\ AwardedRow(q) => r = q

RowsInv == OneAward /\ \A r \in Requests : RowFacts(r)

ToldIsAwarded == \A r \in Requests : "solved" \in told[r] => r \in Awarded

(* The attempts counted were wrong ones, or the subject has solved since   *)
(* and this request will lose.                                             *)
CountedWereWrong ==
    \A r \in Requests :
        \/ req[r].wrong <= Cardinality(WrongRows(SubjectOf[r]))
        \/ \E q \in Awarded \ {r} : SubjectOf[q] = SubjectOf[r]

WithinBase == \A r \in Requests : req[r].points <= req[r].base

(* What the next solve is worth.                                           *)
NextValue == ChallengeValue(Challenge, Cardinality(Awarded) + 1)

(* The base an award read is at least what the next solve is worth, and    *)
(* its pending row is the base less the penalty.                           *)
Promised ==
    \A r \in Requests :
        InAward(r) =>
            /\ req[r].base >= NextValue
            /\ req[r].pc \in {"sweep", "update", "commit"} =>
                  sub[r].points = Revalued(req[r].base, sub[r].penalty)

(* As long as no two awards overlapped.                                    *)
Undisturbed ==
    ~overlap =>
        /\ Converged
        /\ \A r, q \in Requests : InAward(r) /\ InAward(q) => r = q
        /\ \A r \in Requests :
              InAward(r) =>
                  /\ req[r].base = NextValue
                  /\ Challenge.scoring = "dynamic" /\ req[r].pc \in {"update", "commit"}
                        => req[r].sweep = Awarded \cup {r}

PointsInv ==
    /\ GradingTypeOK /\ WithinBase /\ RowsInv /\ ToldIsAwarded
    /\ CountedWereWrong /\ Promised /\ NeverUnderpaid /\ Undisturbed

-----------------------------------------------------------------------------
(* Arithmetic. *)

(* What \div and % promise, for a positive divisor.                        *)
LEMMA DivMod ==
    ASSUME NEW a \in Int, NEW d \in Nat \ {0}
    PROVE  /\ a \div d \in Int /\ a % d \in 0..(d - 1)
           /\ a = d * (a \div d) + (a % d)
<1>1. a \div d \in Int
  OBVIOUS
<1>2. a % d \in 0..(d - 1)
  OBVIOUS
<1>3. a = d * (a \div d) + (a % d)
  OBVIOUS
<1> QED
  BY <1>1, <1>2, <1>3

(* Rounding a larger numerator gives no smaller a value.                   *)
LEMMA RoundMonotone ==
    ASSUME NEW a \in Int, NEW b \in Int, NEW d \in Nat \ {0}, a <= b
    PROVE  /\ Round(a, d) \in Int /\ Round(b, d) \in Int
           /\ Round(a, d) <= Round(b, d)
<1> DEFINE e == 2 * d
           m == 2 * a + d   n == 2 * b + d
           p == m \div e    q == n \div e
<1>1. e \in Nat \ {0} /\ m \in Int /\ n \in Int /\ m <= n
  OBVIOUS
<1>2. p \in Int /\ q \in Int /\ m % e \in 0..(e - 1) /\ n % e \in 0..(e - 1)
      /\ m = e * p + (m % e) /\ n = e * q + (n % e)
  BY <1>1, DivMod
<1> HIDE DEF e, m, n, p, q
<1>3. p <= q
  <2> SUFFICES ASSUME q + 1 <= p PROVE FALSE
    BY <1>2
  <2>1. e * (q + 1) <= e * p
    BY <1>1, <1>2
  <2>2. e * (q + 1) = e * q + e
    BY <1>1, <1>2
  <2>3. e * p \in Int /\ e * q \in Int
    BY <1>1, <1>2
  <2>4. n < e * q + e
    BY <1>1, <1>2, <2>3
  <2>5. e * p <= m
    BY <1>1, <1>2, <2>3
  <2> QED
    BY <1>1, <2>1, <2>2, <2>3, <2>4, <2>5
<1>4. ASSUME p = q, n % e = 0 PROVE m % e = 0
  <2>1. e * p = e * q
    BY <1>4
  <2> QED
    BY <1>1, <1>2, <1>4, <2>1
<1>5. /\ Round(a, d) = IF m % e = 0 /\ p % 2 = 1 THEN p - 1 ELSE p
      /\ Round(b, d) = IF n % e = 0 /\ q % 2 = 1 THEN q - 1 ELSE q
  BY DEF Round, e, m, n, p, q
<1>6. CASE p = q
  BY <1>2, <1>4, <1>5, <1>6
<1>7. CASE p < q
  BY <1>2, <1>5, <1>7
<1> QED
  BY <1>2, <1>3, <1>6, <1>7

(* Nothing rounds to nothing, so no share of something is negative.        *)
LEMMA RoundNatural ==
    ASSUME NEW a \in Nat, NEW d \in Nat \ {0}
    PROVE  Round(a, d) \in Nat
<1>1. Round(0, d) = 0
  <2> DEFINE e == 2 * d
             q == d \div e
  <2>1. /\ e \in Nat \ {0} /\ q \in Int /\ d % e \in 0..(e - 1)
        /\ d = e * q + (d % e)
    BY DivMod
  <2>2. 2 * 0 + d = d
    OBVIOUS
  <2>3. Round(0, d) = IF d % e = 0 /\ q % 2 = 1 THEN q - 1 ELSE q
    BY <2>2 DEF Round
  <2>4. q = 0
    <3>1. q < 1
      <4> SUFFICES ASSUME q >= 1 PROVE FALSE
        BY <2>1
      <4>1. e * q >= e
        BY <2>1
      <4> QED
        BY <2>1, <4>1
    <3>2. q > -1
      <4> SUFFICES ASSUME q <= -1 PROVE FALSE
        BY <2>1
      <4>1. e * q <= -e
        BY <2>1
      <4> QED
        BY <2>1, <4>1
    <3> QED
      BY <2>1, <3>1, <3>2
  <2> QED
    BY <2>3, <2>4
<1> QED
  BY <1>1, RoundMonotone

(* A whole number is its own rounding.                                     *)
LEMMA RoundExact ==
    ASSUME NEW x \in Int, NEW d \in Nat \ {0}
    PROVE  Round(x * d, d) = x
<1> DEFINE e == 2 * d
           n == 2 * (x * d) + d
<1>1. e \in Nat \ {0} /\ n \in Int /\ d \in 0..(e - 1)
  OBVIOUS
<1>2. n = e * x + d
  OBVIOUS
<1> HIDE DEF e, n
<1>3. n \div e = x /\ n % e = d
  BY <1>1, <1>2
<1>4. Round(x * d, d) = IF n % e = 0 /\ (n \div e) % 2 = 1 THEN n \div e - 1
                                                           ELSE n \div e
  BY DEF Round, e, n
<1> QED
  BY <1>3, <1>4

(* The scoring fields of a challenge _validate_scoring lets through.       *)
ValidScoring(ch) ==
    /\ ch.scoring \in ScoringTypes
    /\ ch.points \in Nat /\ ch.minimum \in Nat /\ ch.decay \in Nat
    /\ ch.scoring = "dynamic" => ch.decay >= 1 /\ ch.minimum <= ch.points

(* The numerator of the decay falls with the solves.                       *)
LEMMA QuadraticFalls ==
    ASSUME NEW k \in Int, NEW c \in Int, k <= 0, NEW m \in Nat, NEW n \in Nat, m <= n
    PROVE  /\ c + k * m * m \in Int /\ c + k * n * n \in Int
           /\ c + k * n * n <= c + k * m * m
           /\ c + k * m * m <= c
<1>1. m * m \in Nat /\ n * n \in Nat /\ m * m <= n * n
  OBVIOUS
<1> DEFINE a == m * m   b == n * n
<1>2. a \in Nat /\ b \in Nat /\ a <= b
  BY <1>1
<1>3. k * m * m = k * a /\ k * n * n = k * b
  OBVIOUS
<1> HIDE DEF a, b
<1>4. k * a \in Int /\ k * b \in Int /\ k * b <= k * a /\ k * a <= 0
  BY <1>2
<1> QED
  BY <1>3, <1>4

(* dynamic_value and challenge_value, for every challenge that             *)
(* _validate_scoring lets through and any number of solves: a value lies   *)
(* within the challenge's worth, and no further solve raises it, although  *)
(* the quotient is rounded half to even.                                   *)
THEOREM ValueFalls ==
    ASSUME NEW ch, ValidScoring(ch), NEW m \in Nat, NEW n \in Nat, m <= n
    PROVE  /\ ChallengeValue(ch, m) \in 0..ch.points
           /\ ChallengeValue(ch, n) \in 0..ch.points
           /\ ChallengeValue(ch, n) <= ChallengeValue(ch, m)
<1>1. CASE ch.scoring # "dynamic"
  BY <1>1 DEF ChallengeValue, ValidScoring
<1>2. CASE ch.scoring = "dynamic"
  <2> DEFINE p == ch.points   l == ch.minimum
             d == ch.decay    e == d * d
             k == l - p       c == p * d * d
             u == c + k * m * m
             v == c + k * n * n
  <2>1. p \in Nat /\ l \in Nat /\ d \in Nat /\ d >= 1 /\ l <= p
    BY <1>2 DEF ValidScoring
  <2>2. e \in Nat \ {0} /\ k \in Int /\ k <= 0 /\ c \in Int /\ c = p * e
    BY <2>1
  <2>3. /\ ChallengeValue(ch, m) = AtLeast(Round(u, e), l)
        /\ ChallengeValue(ch, n) = AtLeast(Round(v, e), l)
    BY <1>2, <2>1 DEF ChallengeValue, DynamicValue
  <2> HIDE DEF p, l, d, e, k, c
  <2>4. u \in Int /\ v \in Int /\ v <= u /\ u <= c
    BY <2>2, QuadraticFalls
  <2> HIDE DEF u, v
  <2>5. Round(c, e) = p
    BY <2>1, <2>2, RoundExact
  <2>6. /\ Round(u, e) \in Int /\ Round(v, e) \in Int
        /\ Round(v, e) <= Round(u, e)
    BY <2>2, <2>4, RoundMonotone
  <2>7. Round(u, e) <= Round(c, e)
    BY <2>2, <2>4, RoundMonotone
  <2>8. p = ch.points
    BY DEF p
  <2> QED
    BY <2>1, <2>3, <2>5, <2>6, <2>7, <2>8 DEF AtLeast
<1> QED
  BY <1>1, <1>2

(* The two ends of dynamic_value: full value before the first solve,       *)
(* exactly the floor from the decay-th on, and never under the floor.      *)
THEOREM DecayKeepsItsEnds ==
    ASSUME NEW ch, ValidScoring(ch), ch.scoring = "dynamic", NEW n \in Nat
    PROVE  /\ ChallengeValue(ch, 0) = ch.points
           /\ n >= ch.decay => ChallengeValue(ch, n) = ch.minimum
           /\ ChallengeValue(ch, n) >= ch.minimum
<1> DEFINE p == ch.points   l == ch.minimum
           d == ch.decay    e == d * d
           k == l - p       c == p * d * d
           Num(s) == c + k * s * s
<1>1. p \in Nat /\ l \in Nat /\ d \in Nat /\ d >= 1 /\ l <= p
  BY DEF ValidScoring
<1>2. e \in Nat \ {0} /\ k \in Int /\ k <= 0 /\ c \in Int /\ c = p * e
  BY <1>1
<1>3. \A s \in Nat : ChallengeValue(ch, s) = AtLeast(Round(Num(s), e), l)
  BY <1>1 DEF ChallengeValue, DynamicValue
<1>4. Num(0) = p * e
  BY <1>2
<1>5. Num(d) = l * e
  <2>1. k * d * d = k * e
    BY <1>1, <1>2
  <2>2. p * e + k * e = l * e
    BY <1>1, <1>2
  <2> QED
    BY <1>2, <2>1, <2>2
<1>6. n >= d => Num(n) <= Num(d) /\ Num(n) \in Int /\ Num(d) \in Int
  BY <1>1, <1>2, QuadraticFalls
<1>7. Num(n) \in Int
  BY <1>2, QuadraticFalls
<1>10. /\ ch.points = p /\ ch.minimum = l /\ ch.decay = d
  OBVIOUS
<1> HIDE DEF p, l, d, e, k, c, Num
<1>8. Round(p * e, e) = p /\ Round(l * e, e) = l
  BY <1>1, <1>2, RoundExact
<1>9. Round(Num(n), e) \in Int /\ (n >= d => Round(Num(n), e) <= Round(Num(d), e))
  BY <1>2, <1>6, <1>7, RoundMonotone
<1> QED
  BY <1>1, <1>3, <1>4, <1>5, <1>8, <1>9, <1>10 DEF AtLeast

(* A rounding is off by half a unit at most.                               *)
LEMMA RoundNearest ==
    ASSUME NEW a \in Int, NEW d \in Nat \ {0}
    PROVE  2 * (d * Round(a, d)) - 2 * a \in (-d)..d
<1> DEFINE e == 2 * d   n == 2 * a + d   q == n \div e   t == n % e
<1>1. e \in Nat \ {0} /\ n \in Int
  OBVIOUS
<1>2. q \in Int /\ t \in 0..(e - 1) /\ n = e * q + t
  BY <1>1, DivMod
<1>3. Round(a, d) = IF t = 0 /\ q % 2 = 1 THEN q - 1 ELSE q
  BY DEF Round
<1>4. 2 * a = n - d /\ e = 2 * d
  OBVIOUS
<1> HIDE DEF e, n, q, t
<1>5. e * q = 2 * (d * q) /\ 2 * (d * (q - 1)) = 2 * (d * q) - 2 * d /\ d * q \in Int
  BY <1>2, <1>4
<1> DEFINE w == d * q
<1>6. w \in Int /\ e * q = 2 * w /\ 2 * (d * (q - 1)) = 2 * w - 2 * d
  BY <1>5
<1> HIDE DEF w
<1>7. CASE t = 0 /\ q % 2 = 1
  BY <1>2, <1>3, <1>4, <1>6, <1>7
<1>8. CASE ~(t = 0 /\ q % 2 = 1)
  <2>1. 2 * (d * Round(a, d)) = 2 * w
    BY <1>3, <1>8 DEF w
  <2> QED
    BY <1>2, <1>4, <1>6, <2>1
<1> QED
  BY <1>7, <1>8

(* penalised_value is linear: each wrong guess costs the same share of the *)
(* base, to within half a point, until nothing is left.                    *)
THEOREM PenaltyIsProportional ==
    ASSUME NEW base \in Nat, NEW pct \in 0..100, NEW wrong \in Nat
    PROVE  LET left == PenalisedValue(base, pct, wrong)
               exact == 100 * base - base * pct * wrong
           IN  IF exact <= 0 THEN left = 0 ELSE 100 * left - exact \in -50..50
<1> DEFINE cost == base * pct * wrong
           full == base * 100
           share == Round(cost, 100)
<1>1. cost \in Nat /\ full \in Nat /\ 100 \in Nat \ {0} /\ full = 100 * base
  OBVIOUS
<1>2. Round(full, 100) = base
  BY RoundExact
<1>6. (pct = 0 \/ wrong <= 0) => cost = 0
  OBVIOUS
<1>7. PenalisedValue(base, pct, wrong) =
        IF pct = 0 \/ wrong <= 0 THEN base ELSE AtLeast(0, base - share)
  BY DEF PenalisedValue
<1>8. base * pct * wrong = cost
  OBVIOUS
<1> HIDE DEF cost, full
<1>3. share \in Nat
  BY <1>1, RoundNatural
<1>4. (cost >= full => share >= base) /\ (cost <= full => share <= base)
  BY <1>1, <1>2, RoundMonotone
<1>5. 2 * (100 * share) - 2 * cost \in (-100)..100
  <2>1. PICK d \in Nat \ {0} : d = 100
    BY <1>1
  <2>2. 2 * (d * Round(cost, d)) - 2 * cost \in (-d)..d
    BY <1>1, RoundNearest
  <2>3. share = Round(cost, d)
    BY <2>1
  <2> HIDE DEF share
  <2> QED
    BY <2>1, <2>2, <2>3
<1> HIDE DEF share
<1> QED
  BY <1>1, <1>3, <1>4, <1>5, <1>6, <1>7, <1>8 DEF AtLeast

(* A penalty takes at most the whole base.                                 *)
LEMMA PenaltyWithin ==
    ASSUME NEW base \in Nat, NEW pct \in 0..100, NEW wrong \in Nat
    PROVE  PenalisedValue(base, pct, wrong) \in 0..base
<1>1. base * pct * wrong \in Nat
  OBVIOUS
<1>2. Round(base * pct * wrong, 100) \in Nat
  BY <1>1, RoundNatural
<1> QED
  BY <1>2 DEF PenalisedValue, AtLeast

(* The points left of a larger value are no fewer, the penalty being equal.*)
LEMMA RevaluedMonotone ==
    ASSUME NEW a \in Nat, NEW b \in Nat, a <= b, NEW p \in Nat
    PROVE  /\ Revalued(a, p) \in Nat /\ Revalued(b, p) \in Nat
           /\ Revalued(a, p) <= Revalued(b, p)
BY DEF Revalued

-----------------------------------------------------------------------------
(* Flags. *)

(* A contest's scoring fields, as the request schemas bound them.          *)
LEMMA ContestFacts ==
    contest \in Contests => /\ ValidScoring(Challenge)
                            /\ contest.choice \in BOOLEAN
                            /\ contest.limit \in Nat
                            /\ contest.penalty \in 0..100
BY GradingAssumption DEF ValidScoring, Challenge

(* The rows the grading counts are finitely many.                          *)
LEMMA CountsAreNatural ==
    /\ IsFiniteSet(Awarded) /\ Cardinality(Awarded) \in Nat
    /\ \A s : /\ IsFiniteSet(RowsOf(s))
              /\ IsFiniteSet(Counted(s)) /\ AttemptCount(s) \in Nat
              /\ AttemptCount(s) = Cardinality(Counted(s))
              /\ IsFiniteSet(WrongRows(s)) /\ Cardinality(WrongRows(s)) \in Nat
              /\ IsFiniteSet(Working(s)) /\ Cardinality(Working(s)) \in Nat
<1>1. ASSUME NEW S, S \subseteq Requests PROVE IsFiniteSet(S) /\ Cardinality(S) \in Nat
  BY <1>1, GradingAssumption, FS_Subset, FS_CardinalityType
<1>2. Awarded \subseteq Requests
  BY DEF Awarded, Committed
<1>3. ASSUME NEW s PROVE /\ RowsOf(s) \subseteq Requests /\ Counted(s) \subseteq Requests
                         /\ WrongRows(s) \subseteq Requests /\ Working(s) \subseteq Requests
  BY DEF RowsOf, Committed, Counted, WrongRows, Working
<1>4. \A s : AttemptCount(s) = Cardinality(Counted(s))
  BY DEF AttemptCount, Counted
<1> QED
  BY <1>1, <1>2, <1>3, <1>4

(* The value read is a number of points, whatever was counted.             *)
LEMMA NextValueNatural ==
    contest \in Contests => /\ NextValue \in Nat
                            /\ \A n \in Nat : ChallengeValue(Challenge, n) \in Nat
<1> SUFFICES ASSUME contest \in Contests
             PROVE  \A n \in Nat : ChallengeValue(Challenge, n) \in Nat
  BY CountsAreNatural DEF NextValue
<1> TAKE n \in Nat
<1>1. ChallengeValue(Challenge, n) \in 0..Challenge.points
  BY ContestFacts, ValueFalls, n <= n
<1>2. Challenge.points \in Nat
  BY ContestFacts DEF ValidScoring
<1> QED
  BY <1>1, <1>2

(* Whoever sends a request is one of the subjects.                         *)
LEMMA SubjectsOfRequests == \A r \in Requests : SubjectOf[r] \in Subjects
BY DEF Subjects

(* Every variable keeps its type, and no award is more than its base. *)
LEMMA GradingTypeStep ==
    GradingTypeOK /\ WithinBase /\ [GradingNext]_gradingVars
        => GradingTypeOK' /\ WithinBase'
<1> SUFFICES ASSUME GradingTypeOK, WithinBase, [GradingNext]_gradingVars
             PROVE  GradingTypeOK' /\ WithinBase'
  OBVIOUS
<1> USE DEF GradingTypeOK, WithinBase
<1>a. ASSUME NEW r \in Requests, NEW pc \in RequestSteps, Goto(r, pc)
      PROVE  req' \in [Requests -> Request] /\ WithinBase'
  <2>1. req' = [req EXCEPT ![r].pc = pc]
    BY <1>a DEF Goto
  <2>2. req' \in [Requests -> Request]
    BY <2>1 DEF Request
  <2>3. \A k \in Requests : /\ req'[k].points = req[k].points
                            /\ req'[k].base = req[k].base
    BY <2>1 DEF Request
  <2> QED
    BY <2>2, <2>3
<1>b. ASSUME NEW r \in Requests, NEW q \in Request, q.points <= q.base,
             req' = [req EXCEPT ![r] = q]
      PROVE  req' \in [Requests -> Request] /\ WithinBase'
  <2>1. req' \in [Requests -> Request]
    BY <1>b
  <2>2. \A k \in Requests : req'[k] = IF k = r THEN q ELSE req[k]
    BY <1>b
  <2> QED
    BY <1>b, <2>1, <2>2
<1>h. ASSUME NEW r \in Requests
      PROVE  Released(r) \in [Subjects -> Requests \cup {NoRequest}]
  BY SubjectsOfRequests DEF Released
<1>1. ASSUME NEW r \in Requests, Gate(r) PROVE GradingTypeOK' /\ WithinBase'
  BY <1>1, <1>a DEF Gate, RequestSteps
<1>2. ASSUME NEW r \in Requests, CheckCap(r) PROVE GradingTypeOK' /\ WithinBase'
  BY <1>2, <1>a, SubjectsOfRequests DEF CheckCap, RequestSteps
<1>3. ASSUME NEW r \in Requests, Grade(r) PROVE GradingTypeOK' /\ WithinBase'
  <2>1. PICK correct \in BOOLEAN :
           LET award == correct /\ ~HasSolved(SubjectOf[r])
           IN  req' = [req EXCEPT
                  ![r] = [@ EXCEPT !.pc = IF award THEN "prior" ELSE "insert",
                                   !.correct = correct, !.award = award]]
    BY <1>3 DEF Grade
  <2> DEFINE award == correct /\ ~HasSolved(SubjectOf[r])
             q == [req[r] EXCEPT !.pc = IF award THEN "prior" ELSE "insert",
                                 !.correct = correct, !.award = award]
  <2>2. award \in BOOLEAN
    BY DEF HasSolved
  <2> HIDE DEF award
  <2>3. q \in Request /\ q.points <= q.base
    <3>1. req[r] \in Request /\ req[r].points <= req[r].base
      OBVIOUS
    <3>2. q \in Request
      BY <2>2, <3>1 DEF Request, RequestSteps
    <3>3. q.points = req[r].points /\ q.base = req[r].base
      BY <3>1 DEF Request
    <3> QED
      BY <3>1, <3>2, <3>3
  <2>4. req' = [req EXCEPT ![r] = q]
    BY <2>1 DEF award
  <2> HIDE DEF q
  <2> QED
    BY <1>3, <1>b, <2>3, <2>4 DEF Grade
<1>4. ASSUME NEW r \in Requests, ReadPrior(r) PROVE GradingTypeOK' /\ WithinBase'
  <2> DEFINE prior == Cardinality(Awarded)
             base == ChallengeValue(Challenge, CountWithThis(prior))
  <2>1. base \in Nat
    BY NextValueNatural, CountsAreNatural DEF CountWithThis
  <2> HIDE DEF base
  <2> DEFINE q == [req[r] EXCEPT
                 !.pc = IF contest.choice /\ contest.penalty # 0
                       THEN "wrong" ELSE "insert",
                 !.first = prior = 0, !.base = base, !.points = base]
  <2>2. q \in Request /\ q.points <= q.base
    <3>1. req[r] \in Request
      OBVIOUS
    <3>2. q \in Request
      BY <2>1, <3>1 DEF Request, RequestSteps
    <3>3. q.points = base /\ q.base = base
      BY <3>1 DEF Request
    <3> QED
      BY <2>1, <3>2, <3>3
  <2>5. req' = [req EXCEPT ![r] = q]
    BY <1>4 DEF ReadPrior, base
  <2> HIDE DEF q
  <2>3. req' \in [Requests -> Request] /\ WithinBase'
    BY <1>b, <2>2, <2>5
  <2>4. overlap' \in BOOLEAN
    BY <1>4 DEF ReadPrior, InAward
  <2> QED
    BY <1>4, <2>3, <2>4 DEF ReadPrior
<1>5. ASSUME NEW r \in Requests, CountWrong(r) PROVE GradingTypeOK' /\ WithinBase'
  <2> DEFINE wrong == AttemptCount(SubjectOf[r])
             points == PenalisedValue(req[r].base, contest.penalty, wrong)
  <2>1. wrong \in Nat
    BY CountsAreNatural
  <2>2. req[r].base \in Nat
    BY DEF Request
  <2>3. points \in Nat /\ points <= req[r].base
    <3>1. contest.penalty \in 0..100
      BY ContestFacts
    <3>2. points \in 0..req[r].base
      BY <2>1, <2>2, <3>1, PenaltyWithin
    <3> QED
      BY <2>2, <3>2
  <2> HIDE DEF wrong, points
  <2> DEFINE q == [req[r] EXCEPT !.pc = "insert", !.wrong = wrong, !.points = points]
  <2>4. q \in Request /\ q.points <= q.base
    <3>1. req[r] \in Request
      OBVIOUS
    <3>2. q \in Request
      BY <2>1, <2>3, <3>1 DEF Request, RequestSteps
    <3>3. q.points = points /\ q.base = req[r].base
      BY <3>1 DEF Request
    <3> QED
      BY <2>3, <3>2, <3>3
  <2>6. req' = [req EXCEPT ![r] = q]
    BY <1>5 DEF CountWrong, wrong, points
  <2> HIDE DEF q
  <2>5. req' \in [Requests -> Request] /\ WithinBase'
    BY <1>b, <2>4, <2>6
  <2> QED
    BY <1>5, <2>5 DEF CountWrong
<1>6. ASSUME NEW r \in Requests, Insert(r) PROVE GradingTypeOK' /\ WithinBase'
  <2>1. ASSUME NEW duplicate \in BOOLEAN PROVE NewRow(r, duplicate) \in Submission
    BY DEF NewRow, Submission, Request
  <2>2. req[r].correct \in BOOLEAN
    BY DEF Request
  <2>3. sub' \in [Requests -> Submission]
    BY <1>6, <2>1, <2>2 DEF Insert
  <2>4. ASSUME req' = [req EXCEPT ![r] = LostRace(@)]
        PROVE  req' \in [Requests -> Request] /\ WithinBase'
    <3> DEFINE q == LostRace(req[r])
    <3>1. q \in Request /\ q.points <= q.base
      <4>1. req[r] \in Request
        OBVIOUS
      <4>2. q \in Request
        BY <4>1 DEF LostRace, Request, RequestSteps
      <4>3. q.points = 0 /\ q.base = req[r].base /\ req[r].base \in Nat
        BY <4>1 DEF LostRace, Request
      <4> QED
        BY <4>2, <4>3
    <3>2. req' = [req EXCEPT ![r] = q]
      BY <2>4
    <3> HIDE DEF q
    <3> QED
      BY <1>b, <3>1, <3>2
  <2> QED
    BY <1>6, <1>a, <2>3, <2>4 DEF Insert, RequestSteps
<1>7. ASSUME NEW r \in Requests, SweepStart(r) PROVE GradingTypeOK' /\ WithinBase'
  <2>1. Awarded \cup {r} \in SUBSET Requests
    BY DEF Awarded, Committed
  <2> DEFINE q == [req[r] EXCEPT !.pc = "update", !.sweep = Awarded \cup {r}]
  <2>2. q \in Request /\ q.points <= q.base
    <3>1. req[r] \in Request /\ req[r].points <= req[r].base
      OBVIOUS
    <3>2. q \in Request
      BY <2>1, <3>1 DEF Request, RequestSteps
    <3>3. q.points = req[r].points /\ q.base = req[r].base
      BY <3>1 DEF Request
    <3> QED
      BY <3>1, <3>2, <3>3
  <2>3. req' = [req EXCEPT ![r] = q]
    BY <1>7 DEF SweepStart
  <2> HIDE DEF q
  <2> QED
    BY <1>7, <1>b, <2>2, <2>3 DEF SweepStart
<1>8. ASSUME NEW r \in Requests, SweepLocks(r) PROVE GradingTypeOK' /\ WithinBase'
  BY <1>8, <1>a DEF SweepLocks, RequestSteps
<1>9. ASSUME NEW r \in Requests, Commit(r) PROVE GradingTypeOK' /\ WithinBase'
  <2>1. ASSUME NEW q \in Requests
        PROVE  /\ [sub[q] EXCEPT !.state = "committed"] \in Submission
               /\ [sub[q] EXCEPT !.points = Revalued(req[r].base, sub[q].penalty)]
                     \in Submission
    <3>1. Revalued(req[r].base, sub[q].penalty) \in Nat
      BY DEF Revalued, Request, Submission
    <3> QED
      BY <3>1 DEF Submission
  <2>2. sub' \in [Requests -> Submission]
    BY <1>9, <2>1 DEF Commit
  <2> QED
    BY <1>9, <1>a, <1>h, <2>2 DEF Commit, RequestSteps
<1>10. ASSUME NEW r \in Requests, EmitAttempted(r) PROVE GradingTypeOK' /\ WithinBase'
  BY <1>10, <1>a DEF EmitAttempted, RequestSteps
<1>11. ASSUME NEW r \in Requests, EmitSolved(r) PROVE GradingTypeOK' /\ WithinBase'
  BY <1>11, <1>a DEF EmitSolved, RequestSteps
<1>12. ASSUME NEW r \in Requests, Crash(r) PROVE GradingTypeOK' /\ WithinBase'
  <2>1. NoSubmission \in Submission
    BY DEF NoSubmission, Submission
  <2>2. crashes' \in 0..MaxCrashes
    BY <1>12, GradingAssumption DEF Crash
  <2> QED
    BY <1>12, <1>a, <1>h, <2>1, <2>2 DEF Crash, RequestSteps
<1>13. ASSUME NEW S, ResetGuesses(S) PROVE GradingTypeOK' /\ WithinBase'
  <2>1. sub' \in [Requests -> Submission]
    <3>1. \A q \in Requests : /\ sub[q] \in Submission
                              /\ [sub[q] EXCEPT !.fresh = FALSE] \in Submission
      BY DEF Submission
    <3> QED
      BY <1>13, <3>1 DEF ResetGuesses
  <2>2. resets' \in 0..MaxResets
    BY <1>13, GradingAssumption DEF ResetGuesses
  <2> QED
    BY <1>13, <2>1, <2>2 DEF ResetGuesses
<1>14. CASE UNCHANGED gradingVars
  BY <1>14 DEF gradingVars
<1> QED
  BY <1>1, <1>2, <1>3, <1>4, <1>5, <1>6, <1>7, <1>8, <1>9, <1>10, <1>11, <1>12,
     <1>13, <1>14 DEF GradingNext, SubmitFlag

(* Rows keep to their requests, and awards are kept.                       *)
RowsStep == RowsInv' /\ Awarded \subseteq Awarded'

SameRow(q) == /\ sub'[q].state = sub[q].state
              /\ sub'[q].correct = sub[q].correct
              /\ sub'[q].duplicate = sub[q].duplicate

(* What a request's step does not touch stays true.                        *)
LEMMA OthersKept ==
    ASSUME RowsInv, NEW r \in Requests,
           \A q \in Requests \ {r} :
               /\ req'[q] = req[q] /\ SameRow(q)
               /\ sub'[q].points = sub[q].points \/ q \in Awarded,
           Awarded \subseteq Awarded',
           OneAward', RowFacts(r)'
    PROVE  RowsStep
<1>1. ASSUME NEW q \in Requests \ {r} PROVE RowFacts(q)'
  <2>1. req'[q] = req[q] /\ SameRow(q) /\ RowFacts(q)
    BY <1>1 DEF RowsInv
  <2>2. AwardedRow(q)' <=> AwardedRow(q)
    BY <2>1 DEF AwardedRow, SameRow
  <2>3. RowState(q)'
    BY <2>1 DEF RowFacts, RowState, SameRow
  <2>4. sub'[q].duplicate => sub'[q].points = 0
    BY <1>1, <2>1 DEF RowFacts, RowMatch, SameRow, Awarded, AwardedRow
  <2>5. RowMatch(q)'
    BY <2>1, <2>2, <2>4 DEF RowFacts, RowMatch, SameRow
  <2>6. HasWinner(q)'
    BY <2>1 DEF RowFacts, HasWinner
  <2>7. SweepAwarded(q)'
    BY <2>1 DEF RowFacts, SweepAwarded
  <2> QED
    BY <2>3, <2>5, <2>6, <2>7 DEF RowFacts
<1> QED
  BY <1>1 DEF RowsInv, RowsStep

(* A step that leaves the table alone disturbs only its own request.       *)
LEMMA LocalStep ==
    ASSUME RowsInv, NEW r \in Requests, sub' = sub,
           \A q \in Requests \ {r} : req'[q] = req[q],
           RowFacts(r)'
    PROVE  RowsStep
<1>1. Awarded' = Awarded /\ \A q \in Requests : AwardedRow(q)' <=> AwardedRow(q)
  BY DEF Awarded, Committed, AwardedRow
<1>2. OneAward'
  BY <1>1 DEF RowsInv, OneAward
<1> QED
  BY <1>1, <1>2, OthersKept DEF SameRow

(* A subject that has a correct row has an awarded one.                    *)
LEMMA SolvedHasAward ==
    ASSUME RowsInv, NEW s, HasSolved(s)
    PROVE  \E q \in Awarded : SubjectOf[q] = s
<1>1. PICK q \in RowsOf(s) : sub[q].correct
  BY DEF HasSolved
<1>2. q \in Requests /\ sub[q].state = "committed" /\ SubjectOf[q] = s
  BY DEF RowsOf, Committed
<1>3. RowMatch(q) /\ HasWinner(q)
  BY <1>2 DEF RowsInv, RowFacts
<1>4. CASE req[q].award
  BY <1>2, <1>3, <1>4 DEF RowMatch, Awarded, Committed
<1>5. CASE ~req[q].award
  BY <1>1, <1>2, <1>3, <1>5 DEF RowMatch, HasWinner
<1> QED
  BY <1>4, <1>5

(* What any step may do to rows, awards and announcements.                 *)
LEMMA RowsKept ==
    ASSUME GradingTypeOK, GradingTypeOK', WithinBase, RowsInv, [GradingNext]_gradingVars
    PROVE  RowsStep
<1>t. ASSUME NEW r \in Requests
      PROVE  /\ req[r] \in Request /\ sub[r] \in Submission /\ RowFacts(r)
             /\ req'[r] \in Request /\ sub'[r] \in Submission
  BY DEF GradingTypeOK, RowsInv
<1>g. ASSUME NEW r \in Requests, NEW pc, Goto(r, pc)
      PROVE  /\ \A q \in Requests \ {r} : req'[q] = req[q]
             /\ req'[r].pc = pc /\ req'[r].correct = req[r].correct
             /\ req'[r].award = req[r].award /\ req'[r].sweep = req[r].sweep
  BY <1>g DEF Goto, GradingTypeOK, Request
<1>l. ASSUME NEW r \in Requests, NEW pc, Goto(r, pc), sub' = sub,
             \/ req[r].pc = "new" /\ pc \in {"cap", "grade", "done"}
             \/ req[r].pc = "cap" /\ pc \in {"grade", "done"}
             \/ req[r].pc = "update" /\ pc = "commit"
             \/ req[r].pc = "attempted" /\ (pc = "done" \/ (pc = "solved" /\ req[r].award))
             \/ req[r].pc = "solved" /\ pc = "done"
      PROVE  RowsStep
  <2>1. RowFacts(r)
    BY <1>t
  <2>2. Awarded' = Awarded /\ (AwardedRow(r)' <=> AwardedRow(r))
    BY <1>l DEF Awarded, Committed, AwardedRow
  <2>3. RowState(r)' /\ RowMatch(r)'
    BY <1>g, <1>l, <2>1, <2>2 DEF RowFacts, RowState, RowMatch
  <2>4. HasWinner(r)' /\ SweepAwarded(r)'
    BY <1>g, <1>l, <2>1, <2>2 DEF RowFacts, HasWinner, SweepAwarded
  <2> QED
    BY <1>g, <1>l, <2>3, <2>4, LocalStep DEF RowFacts
<1>1. ASSUME NEW r \in Requests, Gate(r) PROVE RowsStep
  BY <1>1, <1>l DEF Gate
<1>2. ASSUME NEW r \in Requests, CheckCap(r) PROVE RowsStep
  BY <1>2, <1>l DEF CheckCap
<1>3. ASSUME NEW r \in Requests, Grade(r) PROVE RowsStep
  <2>1. PICK correct \in BOOLEAN :
           LET award == correct /\ ~HasSolved(SubjectOf[r])
           IN  req' = [req EXCEPT
                  ![r] = [@ EXCEPT !.pc = IF award THEN "prior" ELSE "insert",
                                   !.correct = correct, !.award = award]]
    BY <1>3 DEF Grade
  <2> DEFINE award == correct /\ ~HasSolved(SubjectOf[r])
  <2>2. correct /\ ~award => \E q \in Awarded : SubjectOf[q] = SubjectOf[r]
    BY SolvedHasAward
  <2>3. award => correct
    OBVIOUS
  <2>4. /\ \A q \in Requests \ {r} : req'[q] = req[q]
        /\ req'[r].pc = IF award THEN "prior" ELSE "insert"
        /\ req'[r].correct = correct /\ req'[r].award = award
        /\ req'[r].sweep = req[r].sweep
        /\ req[r].pc = "grade" /\ sub' = sub
    <3> DEFINE p == [req[r] EXCEPT !.pc = IF award THEN "prior" ELSE "insert",
                                   !.correct = correct, !.award = award]
    <3>1. req'[r] = p /\ \A q \in Requests \ {r} : req'[q] = req[q]
      BY <2>1 DEF GradingTypeOK
    <3>2. req[r] \in Request
      BY <1>t
    <3> HIDE DEF award
    <3>3. /\ p.pc = IF award THEN "prior" ELSE "insert"
          /\ p.correct = correct /\ p.award = award /\ p.sweep = req[r].sweep
      BY <3>2 DEF Request
    <3> HIDE DEF p
    <3> QED
      BY <1>3, <3>1, <3>3 DEF Grade
  <2> HIDE DEF award
  <2>5. RowFacts(r)
    BY <1>t
  <2>6. Awarded' = Awarded
    BY <2>4 DEF Awarded, Committed, AwardedRow
  <2>7. RowState(r)' /\ RowMatch(r)'
    BY <2>3, <2>4, <2>5 DEF RowFacts, RowState, RowMatch
  <2>8. HasWinner(r)' /\ SweepAwarded(r)'
    BY <2>2, <2>4, <2>5, <2>6 DEF RowFacts, HasWinner, SweepAwarded
  <2> QED
    BY <2>4, <2>7, <2>8, LocalStep DEF RowFacts
<1>m. ASSUME NEW r \in Requests, req[r].pc \in {"prior", "wrong"},
             req'[r].pc \in {"wrong", "insert"}, sub' = sub,
             \A q \in Requests \ {r} : req'[q] = req[q],
             req'[r].correct = req[r].correct, req'[r].award = req[r].award,
             req'[r].sweep = req[r].sweep
      PROVE  RowsStep
  <2>1. RowFacts(r)
    BY <1>t
  <2>2. Awarded' = Awarded
    BY <1>m DEF Awarded, Committed, AwardedRow
  <2>3. RowState(r)' /\ RowMatch(r)'
    BY <1>m, <2>1 DEF RowFacts, RowState, RowMatch
  <2>4. HasWinner(r)' /\ SweepAwarded(r)'
    BY <1>m, <2>1, <2>2 DEF RowFacts, HasWinner, SweepAwarded
  <2> QED
    BY <1>m, <2>3, <2>4, LocalStep DEF RowFacts
<1>4. ASSUME NEW r \in Requests, ReadPrior(r) PROVE RowsStep
  <2>1. /\ req[r].pc = "prior" /\ req'[r].pc \in {"wrong", "insert"} /\ sub' = sub
        /\ \A q \in Requests \ {r} : req'[q] = req[q]
        /\ req'[r].correct = req[r].correct /\ req'[r].award = req[r].award
        /\ req'[r].sweep = req[r].sweep
    BY <1>4 DEF ReadPrior, GradingTypeOK, Request
  <2> QED
    BY <2>1, <1>m
<1>5. ASSUME NEW r \in Requests, CountWrong(r) PROVE RowsStep
  <2>1. /\ req[r].pc = "wrong" /\ req'[r].pc = "insert" /\ sub' = sub
        /\ \A q \in Requests \ {r} : req'[q] = req[q]
        /\ req'[r].correct = req[r].correct /\ req'[r].award = req[r].award
        /\ req'[r].sweep = req[r].sweep
    BY <1>5 DEF CountWrong, GradingTypeOK, Request
  <2> QED
    BY <2>1, <1>m
<1>6. ASSUME NEW r \in Requests, Insert(r) PROVE RowsStep
  <2>1. /\ req[r].pc = "insert" /\ sub[r].state = "none" /\ RowFacts(r)
        /\ req[r].correct \in BOOLEAN /\ req[r].sweep = {}
    BY <1>6, <1>t DEF Insert, RowFacts, RowState, SweepAwarded, Request
  <2>2. /\ \A q \in Requests \ {r} : req'[q] = req[q] /\ sub'[q] = sub[q]
        /\ sub'[r].state = "pending" /\ sub'[r].correct = req[r].correct
        /\ sub'[r].duplicate => sub'[r].points = 0
        /\ req'[r].correct = req[r].correct /\ req'[r].sweep = {}
    <3>1. PICK duplicate : sub' = [sub EXCEPT ![r] = NewRow(r, duplicate)]
      BY <1>6 DEF Insert
    <3>2. sub'[r] = NewRow(r, duplicate) /\ \A q \in Requests \ {r} : sub'[q] = sub[q]
      BY <3>1 DEF GradingTypeOK
    <3>3. /\ sub'[r].state = "pending" /\ sub'[r].correct = req[r].correct
          /\ sub'[r].duplicate => sub'[r].points = 0
      BY <3>2 DEF NewRow
    <3>4. ASSUME NEW pc, Goto(r, pc)
          PROVE  /\ \A q \in Requests \ {r} : req'[q] = req[q]
                 /\ req'[r].correct = req[r].correct /\ req'[r].sweep = {}
      BY <3>4, <1>g, <2>1
    <3>5. ASSUME req' = [req EXCEPT ![r] = LostRace(@)]
          PROVE  /\ \A q \in Requests \ {r} : req'[q] = req[q]
                 /\ req'[r].correct = req[r].correct /\ req'[r].sweep = {}
      <4>1. /\ req'[r] = LostRace(req[r])
            /\ \A q \in Requests \ {r} : req'[q] = req[q]
        BY <3>5 DEF GradingTypeOK
      <4>2. LostRace(req[r]).correct = req[r].correct /\ LostRace(req[r]).sweep = {}
        BY <1>t, <2>1 DEF LostRace, Request
      <4> QED
        BY <4>1, <4>2
    <3> QED
      BY <1>6, <3>2, <3>3, <3>4, <3>5 DEF Insert
  <2>3. \A q \in Requests \ {r} : SameRow(q) /\ (AwardedRow(q)' <=> AwardedRow(q))
    BY <2>2 DEF SameRow, AwardedRow
  <2>4. Awarded' = Awarded
    BY <2>1, <2>2, <2>3 DEF Awarded, Committed
  <2>5. ASSUME req[r].award, IndexEntry(r) = {},
               sub' = [sub EXCEPT ![r] = NewRow(r, FALSE)],
               Goto(r, IF Challenge.scoring = "dynamic" THEN "sweep" ELSE "commit")
        PROVE  RowsStep
    <3>1. /\ req'[r].award /\ req'[r].pc \in {"sweep", "commit"}
          /\ sub'[r].duplicate = FALSE /\ req[r].correct
      BY <1>g, <2>1, <2>5 DEF NewRow, GradingTypeOK, RowFacts, RowMatch
    <3>2. AwardedRow(r)'
      BY <2>2, <3>1 DEF AwardedRow
    <3>3. ASSUME NEW q \in Requests \ {r}, SubjectOf[q] = SubjectOf[r] PROVE ~AwardedRow(q)
      <4>1. RowMatch(q)
        BY <3>3, <1>t DEF RowFacts
      <4> QED
        BY <2>5, <3>3, <4>1 DEF IndexEntry, RowMatch, AwardedRow
    <3>4. OneAward'
      BY <2>3, <3>3 DEF RowsInv, OneAward
    <3>5. RowState(r)' /\ RowMatch(r)'
      BY <2>2, <3>1, <3>2 DEF RowState, RowMatch
    <3>6. HasWinner(r)' /\ SweepAwarded(r)'
      BY <2>2, <3>1 DEF HasWinner, SweepAwarded
    <3> QED
      BY <2>2, <2>3, <2>4, <3>4, <3>5, <3>6, OthersKept DEF RowFacts
  <2>6. ASSUME ~req'[r].award, req'[r].pc = "commit", ~AwardedRow(r)',
               req[r].correct => \E q \in Awarded : SubjectOf[q] = SubjectOf[r]
        PROVE  RowsStep
    <3>1. OneAward'
      BY <2>3, <2>6 DEF RowsInv, OneAward
    <3>2. RowState(r)' /\ RowMatch(r)'
      BY <2>2, <2>6 DEF RowState, RowMatch
    <3>3. HasWinner(r)' /\ SweepAwarded(r)'
      BY <2>2, <2>4, <2>6 DEF HasWinner, SweepAwarded
    <3> QED
      BY <2>2, <2>3, <2>4, <3>1, <3>2, <3>3, OthersKept DEF RowFacts
  <2>7. ASSUME req[r].award, IndexEntry(r) \cap Committed # {},
               sub' = [sub EXCEPT ![r] = NewRow(r, TRUE)],
               req' = [req EXCEPT ![r] = LostRace(@)]
        PROVE  RowsStep
    <3>1. ~req'[r].award /\ req'[r].pc = "commit"
      BY <1>t, <2>7 DEF LostRace, GradingTypeOK, Request
    <3>2. ~AwardedRow(r)'
      BY <2>7 DEF NewRow, AwardedRow, GradingTypeOK
    <3>3. \E q \in Awarded : SubjectOf[q] = SubjectOf[r]
      BY <2>7 DEF IndexEntry, Awarded
    <3> QED
      BY <2>6, <3>1, <3>2, <3>3
  <2>8. ASSUME ~req[r].award, sub' = [sub EXCEPT ![r] = NewRow(r, req[r].correct)],
               Goto(r, "commit")
        PROVE  RowsStep
    <3>1. ~req'[r].award /\ req'[r].pc = "commit"
      BY <1>g, <2>8
    <3>2. ~AwardedRow(r)'
      BY <2>1, <2>8 DEF NewRow, AwardedRow, GradingTypeOK
    <3>3. req[r].correct => \E q \in Awarded : SubjectOf[q] = SubjectOf[r]
      BY <2>1, <2>8 DEF RowFacts, HasWinner
    <3> QED
      BY <2>6, <3>1, <3>2, <3>3
  <2> QED
    BY <1>6, <2>5, <2>7, <2>8 DEF Insert
<1>7. ASSUME NEW r \in Requests, SweepStart(r) PROVE RowsStep
  <2>1. /\ req[r].pc = "sweep" /\ req'[r].pc = "update" /\ sub' = sub
        /\ \A q \in Requests \ {r} : req'[q] = req[q]
        /\ req'[r].correct = req[r].correct /\ req'[r].award = req[r].award
        /\ req'[r].sweep = Awarded \cup {r}
    BY <1>7 DEF SweepStart, GradingTypeOK, Request
  <2>2. RowFacts(r)
    BY <1>t
  <2>3. Awarded' = Awarded /\ (AwardedRow(r)' <=> AwardedRow(r))
    BY <2>1 DEF Awarded, Committed, AwardedRow
  <2>4. RowState(r)' /\ RowMatch(r)'
    BY <2>1, <2>2, <2>3 DEF RowFacts, RowState, RowMatch
  <2>5. HasWinner(r)'
    BY <2>1, <2>2, <2>3 DEF RowFacts, HasWinner
  <2>6. SweepAwarded(r)'
    BY <2>1, <2>2, <2>3 DEF RowFacts, RowMatch, SweepAwarded
  <2> QED
    BY <2>1, <2>4, <2>5, <2>6, LocalStep DEF RowFacts
<1>8. ASSUME NEW r \in Requests, SweepLocks(r) PROVE RowsStep
  BY <1>8, <1>l DEF SweepLocks
<1>9. ASSUME NEW r \in Requests, Commit(r) PROVE RowsStep
  <2>1. /\ req[r].pc = "commit" /\ sub[r].state = "pending" /\ RowFacts(r)
        /\ Goto(r, "attempted")
    BY <1>9, <1>t DEF Commit, RowFacts, RowState
  <2>2. \A q \in Requests : sub'[q] =
          CASE q = r -> [sub[q] EXCEPT !.state = "committed"]
            [] q \in req[r].sweep \ {r} ->
                  [sub[q] EXCEPT
                     !.points = Revalued(req[r].base, sub[q].penalty)]
            [] OTHER -> sub[q]
    BY <1>9 DEF Commit
  <2>3. \A q \in Requests \ {r} : /\ SameRow(q)
                                  /\ sub'[q].points = sub[q].points \/ q \in Awarded
    <3> SUFFICES ASSUME NEW q \in Requests \ {r}
                 PROVE  SameRow(q) /\ (sub'[q].points = sub[q].points \/ q \in Awarded)
      OBVIOUS
    <3>1. CASE q \in req[r].sweep \ {r}
      <4>1. q \in Awarded
        BY <2>1, <3>1 DEF RowFacts, SweepAwarded
      <4>2. sub'[q] = [sub[q] EXCEPT !.points = Revalued(req[r].base, sub[q].penalty)]
        BY <2>2, <3>1
      <4> QED
        BY <1>t, <4>1, <4>2 DEF SameRow, Submission
    <3>2. CASE q \notin req[r].sweep \ {r}
      <4>1. sub'[q] = sub[q]
        BY <2>2, <3>2
      <4> QED
        BY <4>1 DEF SameRow
    <3> QED
      BY <3>1, <3>2
  <2>4. /\ sub'[r].state = "committed" /\ sub'[r].correct = sub[r].correct
        /\ sub'[r].duplicate = sub[r].duplicate /\ sub'[r].points = sub[r].points
    BY <1>t, <2>2 DEF Submission
  <2>5. \A q \in Requests : AwardedRow(q)' <=> AwardedRow(q)
    BY <2>3, <2>4 DEF SameRow, AwardedRow
  <2>6. Awarded \subseteq Awarded'
    BY <2>3, <2>4, <2>5 DEF Awarded, Committed, SameRow
  <2>7. OneAward'
    BY <2>5 DEF RowsInv, OneAward
  <2>8. RowState(r)' /\ RowMatch(r)'
    BY <1>g, <2>1, <2>4, <2>5 DEF RowFacts, RowState, RowMatch
  <2>9. HasWinner(r)' /\ SweepAwarded(r)'
    BY <1>g, <2>1, <2>6 DEF RowFacts, HasWinner, SweepAwarded
  <2> QED
    BY <1>g, <2>1, <2>3, <2>6, <2>7, <2>8, <2>9, OthersKept DEF RowFacts
<1>10. ASSUME NEW r \in Requests, EmitAttempted(r) PROVE RowsStep
  <2>1. CASE req[r].award
    BY <1>10, <1>l, <2>1 DEF EmitAttempted
  <2>2. CASE ~req[r].award
    <3>1. Goto(r, "done") /\ sub' = sub /\ req[r].pc = "attempted"
      BY <1>10, <2>2 DEF EmitAttempted
    <3> QED
      BY <1>l, <3>1
  <2> QED
    BY <2>1, <2>2
<1>11. ASSUME NEW r \in Requests, EmitSolved(r) PROVE RowsStep
  BY <1>11, <1>l DEF EmitSolved
<1>12. ASSUME NEW r \in Requests, Crash(r) PROVE RowsStep
  <2>1. /\ RowFacts(r) /\ Goto(r, "done")
        /\ \A q \in Requests : sub'[q] =
              IF q = r /\ sub[r].state # "committed" THEN NoSubmission ELSE sub[q]
    BY <1>12, <1>t DEF Crash, GradingTypeOK
  <2>2. \A q \in Requests \ {r} : sub'[q] = sub[q]
    BY <2>1
  <2>3. \A q \in Requests \ {r} : SameRow(q) /\ (AwardedRow(q)' <=> AwardedRow(q))
    BY <2>2 DEF SameRow, AwardedRow
  <2>4. CASE sub[r].state = "committed"
    <3>1. sub'[r] = sub[r]
      BY <2>1, <2>4
    <3>2. (AwardedRow(r)' <=> AwardedRow(r)) /\ Awarded' = Awarded
      BY <2>2, <3>1 DEF AwardedRow, Awarded, Committed
    <3>3. OneAward'
      BY <2>3, <3>2 DEF RowsInv, OneAward
    <3>4. RowState(r)' /\ RowMatch(r)'
      BY <1>g, <2>1, <2>4, <3>1, <3>2 DEF RowFacts, RowState, RowMatch
    <3>5. HasWinner(r)' /\ SweepAwarded(r)'
      BY <1>g, <2>1, <3>2 DEF RowFacts, HasWinner, SweepAwarded
    <3> QED
      BY <1>g, <2>1, <2>2, <2>3, <3>2, <3>3, <3>4, <3>5, OthersKept DEF RowFacts
  <2>5. CASE sub[r].state # "committed"
    <3>1. sub'[r] = NoSubmission
      BY <2>1, <2>5
    <3>2. ~AwardedRow(r)' /\ Awarded' = Awarded
      BY <2>2, <2>5, <3>1 DEF AwardedRow, Awarded, Committed, NoSubmission
    <3>3. OneAward'
      BY <2>3, <3>2 DEF RowsInv, OneAward
    <3>4. RowState(r)' /\ RowMatch(r)'
      BY <1>g, <2>1, <3>1 DEF RowFacts, RowState, RowMatch, NoSubmission
    <3>5. HasWinner(r)' /\ SweepAwarded(r)'
      BY <1>g, <2>1, <3>2 DEF RowFacts, HasWinner, SweepAwarded
    <3> QED
      BY <1>g, <2>1, <2>2, <2>3, <3>2, <3>3, <3>4, <3>5, OthersKept DEF RowFacts
  <2> QED
    BY <2>4, <2>5
<1>13. ASSUME NEW S, ResetGuesses(S) PROVE RowsStep
  <2>1. /\ req' = req
        /\ \A q \in Requests : SameRow(q) /\ sub'[q].points = sub[q].points
    BY <1>13, <1>t DEF ResetGuesses, SameRow, Submission
  <2>2. /\ \A q \in Requests : AwardedRow(q)' <=> AwardedRow(q)
        /\ Awarded' = Awarded
    BY <2>1 DEF SameRow, AwardedRow, Awarded, Committed
  <2>3. OneAward'
    BY <2>2 DEF RowsInv, OneAward
  <2>4. ASSUME NEW q \in Requests PROVE RowFacts(q)'
    <3>1. RowFacts(q)
      BY <1>t
    <3>2. RowState(q)' /\ RowMatch(q)'
      BY <2>1, <2>2, <3>1 DEF RowFacts, RowState, RowMatch, SameRow
    <3>3. HasWinner(q)' /\ SweepAwarded(q)'
      BY <2>1, <2>2, <3>1 DEF RowFacts, HasWinner, SweepAwarded
    <3> QED
      BY <3>2, <3>3 DEF RowFacts
  <2> QED
    BY <2>2, <2>3, <2>4 DEF RowsInv, RowsStep
<1>14. CASE UNCHANGED gradingVars
  <2>1. req' = req /\ sub' = sub
    BY <1>14 DEF gradingVars
  <2>2. Awarded' = Awarded /\ \A q \in Requests : AwardedRow(q)' <=> AwardedRow(q)
    BY <2>1 DEF Awarded, Committed, AwardedRow
  <2>3. OneAward'
    BY <2>2 DEF RowsInv, OneAward
  <2>4. ASSUME NEW q \in Requests PROVE RowFacts(q)'
    BY <1>t, <2>1, <2>2 DEF RowFacts, RowState, RowMatch, HasWinner, SweepAwarded
  <2> QED
    BY <2>2, <2>3, <2>4 DEF RowsInv, RowsStep
<1> QED
  BY <1>1, <1>2, <1>3, <1>4, <1>5, <1>6, <1>7, <1>8, <1>9, <1>10, <1>11, <1>12,
     <1>13, <1>14 DEF GradingNext, SubmitFlag

-----------------------------------------------------------------------------
(* The guess cap. *)

(* A request in flight is the only one of its subject.                     *)
LEMMA WorkingIsHolder ==
    ASSUME Capped, LockHeld, NEW s \in Subjects
    PROVE  \A r \in Working(s) : r = holder[s]
BY DEF LockHeld, Working

(* A step that commits no row and takes nobody past the cap keeps it.      *)
LEMMA CapShrinks ==
    ASSUME contest \in Contests, GuessCap, contest' = contest,
           \A s \in Subjects : /\ HasSolved(s) => HasSolved(s)'
                               /\ Counted(s)' \subseteq Counted(s)
                               /\ Capped => Working(s)' \subseteq Working(s)
    PROVE  GuessCap'
<1> SUFFICES ASSUME Capped', NEW s \in Subjects, ~HasSolved(s)'
             PROVE  AttemptCount(s)' + Cardinality(Working(s))' <= contest'.limit
  BY DEF GuessCap, Working, InFlight
<1>1. Capped /\ ~HasSolved(s)
  BY DEF Capped
<1>2. AttemptCount(s) + Cardinality(Working(s)) <= contest.limit
  BY <1>1 DEF GuessCap, Working, InFlight
<1>3. /\ IsFiniteSet(Counted(s)) /\ AttemptCount(s) = Cardinality(Counted(s))
      /\ AttemptCount(s) \in Nat /\ Cardinality(Working(s)) \in Nat /\ IsFiniteSet(Working(s))
  BY CountsAreNatural
<1>4. /\ Cardinality(Counted(s)') <= Cardinality(Counted(s))
      /\ Cardinality(Working(s)') <= Cardinality(Working(s))
      /\ Cardinality(Counted(s)') \in Nat /\ Cardinality(Working(s)') \in Nat
  BY <1>1, <1>3, FS_Subset, FS_CardinalityType
<1>5. AttemptCount(s)' = Cardinality(Counted(s)')
  BY DEF AttemptCount, Counted
<1>6. contest'.limit \in Nat
  BY ContestFacts
<1> QED
  BY <1>2, <1>3, <1>4, <1>5, <1>6

-----------------------------------------------------------------------------
(* What a step does to the table: only a commit shows.                     *)

(* The contest is fixed, and a race once noted is not forgotten.           *)
LEMMA GoesOn ==
    ASSUME [GradingNext]_gradingVars
    PROVE  contest' = contest /\ (overlap => overlap')
<1> DEFINE Kept == contest' = contest /\ (overlap => overlap')
<1>1. ASSUME NEW r \in Requests, SubmitFlag(r) PROVE Kept
  <2>1. Gate(r) \/ CheckCap(r) \/ SweepStart(r) \/ SweepLocks(r) => Kept
    BY DEF Gate, CheckCap, SweepStart, SweepLocks
  <2>2. Grade(r) => Kept
    BY DEF Grade
  <2>4. CountWrong(r) => Kept
    BY DEF CountWrong
  <2>5. ReadPrior(r) => Kept
    BY DEF ReadPrior
  <2>6. Insert(r) => Kept
    BY DEF Insert
  <2>3. Commit(r) \/ EmitAttempted(r) \/ EmitSolved(r) => Kept
    BY DEF Commit, EmitAttempted, EmitSolved
  <2> QED
    BY <1>1, <2>1, <2>2, <2>3, <2>4, <2>5, <2>6 DEF SubmitFlag
<1>2. ASSUME NEW r \in Requests, Crash(r) PROVE Kept
  BY <1>2 DEF Crash
<1>3. ASSUME NEW S, ResetGuesses(S) PROVE Kept
  BY <1>3 DEF ResetGuesses
<1>4. CASE UNCHANGED gradingVars
  BY <1>4 DEF gradingVars
<1> QED
  BY <1>1, <1>2, <1>3, <1>4 DEF GradingNext

(* A committed row is touched only by another request's commit or a reset. *)
SeenRow(q) ==
    /\ q \in Committed' <=> q \in Committed
    /\ q \in Committed => /\ sub'[q].correct = sub[q].correct
                          /\ sub'[q].duplicate = sub[q].duplicate
                          /\ sub'[q].points = sub[q].points
                          /\ sub'[q].penalty = sub[q].penalty
                          /\ sub'[q].fresh => sub[q].fresh

(* Without a commit the rows others can see stay as they are.              *)
LEMMA QuietRows ==
    ASSUME GradingTypeOK, RowsInv, [GradingNext]_gradingVars,
           \A r \in Requests : ~Commit(r)
    PROVE  \A q \in Requests : SeenRow(q)
<1>1. CASE sub' = sub
  BY <1>1 DEF SeenRow, Committed
<1>2. ASSUME NEW r \in Requests, Insert(r) PROVE \A q \in Requests : SeenRow(q)
  <2>1. sub[r].state = "none"
    BY <1>2 DEF Insert, RowsInv, RowFacts, RowState
  <2>2. PICK duplicate : sub' = [sub EXCEPT ![r] = NewRow(r, duplicate)]
    BY <1>2 DEF Insert
  <2>3. sub'[r].state = "pending" /\ \A q \in Requests \ {r} : sub'[q] = sub[q]
    BY <2>2 DEF GradingTypeOK, NewRow
  <2> QED
    BY <2>1, <2>3 DEF SeenRow, Committed
<1>3. ASSUME NEW r \in Requests, Crash(r) PROVE \A q \in Requests : SeenRow(q)
  <2>1. \A q \in Requests : sub'[q] =
           IF q = r /\ sub[r].state # "committed" THEN NoSubmission ELSE sub[q]
    BY <1>3 DEF Crash, GradingTypeOK
  <2> QED
    BY <2>1 DEF SeenRow, Committed, NoSubmission
<1>4. ASSUME NEW S, ResetGuesses(S) PROVE \A q \in Requests : SeenRow(q)
  <2> SUFFICES ASSUME NEW q \in Requests PROVE SeenRow(q)
    OBVIOUS
  <2>1. sub[q] \in Submission
    BY DEF GradingTypeOK
  <2>2. sub'[q] = [sub[q] EXCEPT !.fresh = FALSE] \/ sub'[q] = sub[q]
    BY <1>4 DEF ResetGuesses
  <2>3. /\ sub'[q].correct = sub[q].correct /\ sub'[q].state = sub[q].state
        /\ sub'[q].duplicate = sub[q].duplicate /\ sub'[q].points = sub[q].points
        /\ sub'[q].penalty = sub[q].penalty /\ (sub'[q].fresh => sub[q].fresh)
    BY <2>1, <2>2 DEF Submission
  <2> QED
    BY <2>3 DEF SeenRow, Committed
<1> QED
  BY <1>1, <1>2, <1>3, <1>4
  DEF GradingNext, SubmitFlag, Gate, CheckCap, Grade, ReadPrior, CountWrong,
      SweepStart, SweepLocks, EmitAttempted, EmitSolved, gradingVars

(* So nothing that is counted changes. *)
LEMMA QuietTable ==
    ASSUME GradingTypeOK, RowsInv, [GradingNext]_gradingVars,
           \A r \in Requests : ~Commit(r)
    PROVE  /\ Awarded' = Awarded /\ NextValue' = NextValue
           /\ \A s : /\ WrongRows(s)' = WrongRows(s)
                     /\ Counted(s)' \subseteq Counted(s)
                     /\ HasSolved(s)' <=> HasSolved(s)
<1>1. \A q \in Requests : SeenRow(q)
  BY QuietRows
<1>2. Committed' = Committed
  BY <1>1 DEF SeenRow, Committed
<1>3. \A q \in Committed : /\ sub'[q].correct = sub[q].correct
                           /\ sub'[q].duplicate = sub[q].duplicate
                           /\ sub'[q].fresh => sub[q].fresh
  BY <1>1 DEF SeenRow, Committed
<1>4. Awarded' = Awarded
  BY <1>2, <1>3 DEF Awarded, AwardedRow
<1>5. NextValue' = NextValue
  BY <1>4, GoesOn DEF NextValue, Challenge
<1>6. ASSUME NEW s PROVE /\ WrongRows(s)' = WrongRows(s)
                         /\ Counted(s)' \subseteq Counted(s)
                         /\ HasSolved(s)' <=> HasSolved(s)
  <2>1. RowsOf(s)' = RowsOf(s) /\ RowsOf(s) \subseteq Committed
    BY <1>2 DEF RowsOf
  <2> QED
    BY <1>3, <2>1 DEF WrongRows, Counted, HasSolved
<1> QED
  BY <1>4, <1>5, <1>6

(* A commit shows one row, and re-values the rows of its sweep. *)
LEMMA CommitTable ==
    ASSUME GradingTypeOK, RowsInv, NEW r \in Requests, Commit(r)
    PROVE  /\ contest' = contest /\ r \notin Committed /\ req[r].pc = "commit"
           /\ Committed' = Committed \cup {r}
           /\ Awarded' = Awarded \cup (IF req[r].award THEN {r} ELSE {})
           /\ \A q \in Requests : /\ sub'[q].correct = sub[q].correct
                                  /\ sub'[q].penalty = sub[q].penalty
                                  /\ sub'[q].fresh = sub[q].fresh
           /\ sub'[r].points = sub[r].points
           /\ \A q \in Requests \ {r} :
                 /\ req'[q] = req[q]
                 /\ sub'[q].points = IF q \in req[r].sweep
                                     THEN Revalued(req[r].base, sub[q].penalty)
                                     ELSE sub[q].points
           /\ req'[r].pc = "attempted" /\ req'[r].wrong = req[r].wrong
<1>1. /\ req[r].pc = "commit" /\ contest' = contest /\ sub[r].state = "pending"
      /\ AwardedRow(r) <=> req[r].award
  BY DEF Commit, RowsInv, RowFacts, RowState, RowMatch
<1>2. sub[r] \in Submission /\ sub'[r] = [sub[r] EXCEPT !.state = "committed"]
  BY DEF Commit, GradingTypeOK
<1>3. /\ sub'[r].state = "committed" /\ sub'[r].correct = sub[r].correct
      /\ sub'[r].duplicate = sub[r].duplicate /\ sub'[r].points = sub[r].points
      /\ sub'[r].penalty = sub[r].penalty /\ sub'[r].fresh = sub[r].fresh
  BY <1>2 DEF Submission
<1>4. ASSUME NEW q \in Requests \ {r}
      PROVE  /\ sub'[q].state = sub[q].state /\ sub'[q].correct = sub[q].correct
             /\ sub'[q].duplicate = sub[q].duplicate
             /\ sub'[q].penalty = sub[q].penalty /\ sub'[q].fresh = sub[q].fresh
             /\ sub'[q].points = IF q \in req[r].sweep
                                 THEN Revalued(req[r].base, sub[q].penalty)
                                 ELSE sub[q].points
  <2>1. sub[q] \in Submission
    BY DEF GradingTypeOK
  <2>2. sub'[q] = IF q \in req[r].sweep
                  THEN [sub[q] EXCEPT !.points = Revalued(req[r].base, sub[q].penalty)]
                  ELSE sub[q]
    BY DEF Commit
  <2> QED
    BY <2>1, <2>2 DEF Submission
<1>5. r \notin Committed /\ Committed' = Committed \cup {r}
  BY <1>1, <1>3, <1>4 DEF Committed
<1>6. /\ AwardedRow(r)' <=> req[r].award
      /\ \A q \in Requests \ {r} : AwardedRow(q)' <=> AwardedRow(q)
  BY <1>1, <1>3, <1>4 DEF AwardedRow
<1>7. Awarded' = Awarded \cup (IF req[r].award THEN {r} ELSE {})
  <2>1. \A q \in Awarded' : q \in Awarded \/ (q = r /\ req[r].award)
    BY <1>5, <1>6 DEF Awarded, Committed
  <2>2. Awarded \subseteq Awarded'
    BY <1>5, <1>6 DEF Awarded, Committed
  <2>3. req[r].award => r \in Awarded'
    BY <1>5, <1>6 DEF Awarded, Committed
  <2> QED
    BY <2>1, <2>2, <2>3
<1>8. /\ \A q \in Requests \ {r} : req'[q] = req[q]
      /\ req'[r].pc = "attempted" /\ req'[r].wrong = req[r].wrong
  BY DEF Commit, Goto, GradingTypeOK, Request
<1> QED
  BY <1>1, <1>3, <1>4, <1>5, <1>7, <1>8

-----------------------------------------------------------------------------
(* The guess cap, continued. *)

(* A step of one request keeps the others' locks. *)
LEMMA LockLocal ==
    ASSUME GradingTypeOK, LockHeld, NEW r \in Requests, contest' = contest,
           \A q \in Requests \ {r} : req'[q] = req[q],
           \/ /\ holder' = holder
              /\ req'[r].pc \in InFlight => req[r].pc \in InFlight
           \/ holder' = Released(r) /\ req'[r].pc \notin InFlight
    PROVE  LockHeld'
<1> SUFFICES ASSUME Capped, NEW q \in Requests, req'[q].pc \in InFlight
             PROVE  holder'[SubjectOf[q]] = q
  BY DEF LockHeld, Capped, InFlight
<1>1. CASE q = r
  BY <1>1 DEF LockHeld
<1>2. CASE q # r
  <2>1. holder[SubjectOf[q]] = q
    BY <1>2 DEF LockHeld
  <2>2. SubjectOf[q] \in Subjects /\ SubjectOf[r] \in Subjects
    BY SubjectsOfRequests
  <2> QED
    BY <1>2, <2>1, <2>2 DEF Released, GradingTypeOK
<1> QED
  BY <1>1, <1>2

(* Whoever works under the subject's lock keeps holding it.                *)
LEMMA LockKept ==
    ASSUME GradingTypeOK, LockHeld, [GradingNext]_gradingVars
    PROVE  LockHeld'
<1>c. contest' = contest
  BY GoesOn
<1>0. ASSUME NEW r \in Requests PROVE req[r] \in Request /\ req[r].pc \in RequestSteps
  BY DEF GradingTypeOK, Request
<1>g. ASSUME NEW r \in Requests, NEW pc, Goto(r, pc)
      PROVE  (\A q \in Requests \ {r} : req'[q] = req[q]) /\ req'[r].pc = pc
  BY <1>g DEF Goto, GradingTypeOK, Request
<1>1. ASSUME NEW r \in Requests, Gate(r) PROVE LockHeld'
  <2>1. CASE Capped
    <3>1. PICK pc \in {"done", "cap"} : Goto(r, pc)
      BY <1>1, <2>1 DEF Gate
    <3> QED
      BY <1>1, <1>c, <1>g, <3>1, LockLocal DEF Gate, InFlight
  <2>2. CASE ~Capped
    BY <1>c, <2>2 DEF LockHeld, Capped
  <2> QED
    BY <2>1, <2>2
<1>2. ASSUME NEW r \in Requests, CheckCap(r) PROVE LockHeld'
  <2>1. CASE Goto(r, "done") /\ UNCHANGED holder
    BY <1>c, <1>g, <2>1, LockLocal DEF InFlight
  <2>2. CASE Goto(r, "grade") /\ holder' = [holder EXCEPT ![SubjectOf[r]] = r]
    <3> SUFFICES ASSUME Capped, NEW q \in Requests, req'[q].pc \in InFlight
                 PROVE  holder'[SubjectOf[q]] = q
      BY <1>c DEF LockHeld, Capped, InFlight
    <3>1. SubjectOf[q] \in Subjects /\ SubjectOf[r] \in Subjects
      BY SubjectsOfRequests
    <3>2. CASE q = r
      BY <2>2, <3>1, <3>2 DEF GradingTypeOK
    <3>3. CASE q # r
      <4>1. holder[SubjectOf[q]] = q
        BY <1>g, <2>2, <3>3 DEF LockHeld
      <4>2. holder[SubjectOf[r]] = NoRequest
        BY <1>2 DEF CheckCap, LockFree
      <4>3. SubjectOf[q] # SubjectOf[r]
        BY <4>1, <4>2, GradingAssumption
      <4> QED
        BY <2>2, <3>1, <4>1, <4>3 DEF GradingTypeOK
    <3> QED
      BY <3>2, <3>3
  <2> QED
    BY <1>2, <2>1, <2>2 DEF CheckCap
<1>f. ASSUME NEW r \in Requests, req[r].pc \in InFlight, holder' = holder,
             \A q \in Requests \ {r} : req'[q] = req[q]
      PROVE  LockHeld'
  BY <1>c, <1>f, LockLocal
<1>3. ASSUME NEW r \in Requests, Grade(r) \/ ReadPrior(r) \/ CountWrong(r) PROVE LockHeld'
  <2>1. CASE Grade(r)
    BY <1>f, <2>1 DEF Grade, InFlight, GradingTypeOK
  <2>2. CASE ReadPrior(r)
    BY <1>f, <2>2 DEF ReadPrior, InFlight, GradingTypeOK
  <2>3. CASE CountWrong(r)
    BY <1>f, <2>3 DEF CountWrong, InFlight, GradingTypeOK
  <2> QED
    BY <1>3, <2>1, <2>2, <2>3
<1>4. ASSUME NEW r \in Requests, Insert(r) PROVE LockHeld'
  BY <1>4, <1>f, <1>g DEF Insert, InFlight, GradingTypeOK
<1>5. ASSUME NEW r \in Requests, SweepStart(r) \/ SweepLocks(r) PROVE LockHeld'
  <2>1. CASE SweepStart(r)
    BY <1>f, <2>1 DEF SweepStart, InFlight, GradingTypeOK
  <2>2. CASE SweepLocks(r)
    BY <1>f, <1>g, <2>2 DEF SweepLocks, InFlight
  <2> QED
    BY <1>5, <2>1, <2>2
<1>6. ASSUME NEW r \in Requests, NEW pc \in {"attempted", "solved", "done"},
             Goto(r, pc), holder' = holder \/ holder' = Released(r)
      PROVE  LockHeld'
  BY <1>6, <1>c, <1>g, LockLocal DEF InFlight
<1>7. ASSUME NEW r \in Requests, Commit(r) \/ EmitAttempted(r) \/ EmitSolved(r) \/ Crash(r)
      PROVE  LockHeld'
  BY <1>6, <1>7 DEF Commit, EmitAttempted, EmitSolved, Crash
<1>8. ASSUME req' = req, holder' = holder PROVE LockHeld'
  BY <1>8, <1>c DEF LockHeld, Capped
<1> QED
  BY <1>1, <1>2, <1>3, <1>4, <1>5, <1>7, <1>8
  DEF GradingNext, SubmitFlag, ResetGuesses, gradingVars

(* Only the guess cap lets a request of a capped contest in.               *)
LEMMA WorkingShrinks ==
    ASSUME GradingTypeOK, Capped, [GradingNext]_gradingVars,
           \A r \in Requests : ~CheckCap(r)
    PROVE  \A s : Working(s)' \subseteq Working(s)
<1> DEFINE Fewer == \A q \in Requests : req'[q].pc \in InFlight => req[q].pc \in InFlight
<1> SUFFICES Fewer
  BY DEF Working, InFlight
<1>g. ASSUME NEW r \in Requests, NEW pc, Goto(r, pc)
      PROVE  (\A q \in Requests \ {r} : req'[q] = req[q]) /\ req'[r].pc = pc
  BY <1>g DEF Goto, GradingTypeOK, Request
<1>1. ASSUME NEW r \in Requests, Gate(r) PROVE Fewer
  <2>1. PICK pc \in {"done", "cap"} : Goto(r, pc)
    BY <1>1 DEF Gate
  <2> QED
    BY <1>g, <2>1 DEF InFlight
<1>f. ASSUME NEW r \in Requests, req[r].pc \in InFlight,
             \A q \in Requests \ {r} : req'[q] = req[q]
      PROVE  Fewer
  BY <1>f
<1>2. ASSUME NEW r \in Requests, Grade(r) PROVE Fewer
  BY <1>f, <1>2 DEF Grade, InFlight, GradingTypeOK
<1>3. ASSUME NEW r \in Requests, ReadPrior(r) PROVE Fewer
  BY <1>f, <1>3 DEF ReadPrior, InFlight, GradingTypeOK
<1>4. ASSUME NEW r \in Requests, CountWrong(r) PROVE Fewer
  BY <1>f, <1>4 DEF CountWrong, InFlight, GradingTypeOK
<1>5. ASSUME NEW r \in Requests, Insert(r) PROVE Fewer
  BY <1>5, <1>f, <1>g DEF Insert, InFlight, GradingTypeOK
<1>6. ASSUME NEW r \in Requests, SweepStart(r) PROVE Fewer
  BY <1>f, <1>6 DEF SweepStart, InFlight, GradingTypeOK
<1>7. ASSUME NEW r \in Requests, NEW pc \in {"attempted", "solved", "done"}, Goto(r, pc)
      PROVE  Fewer
  BY <1>7, <1>g DEF InFlight
<1>8. ASSUME NEW r \in Requests, SweepLocks(r) PROVE Fewer
  BY <1>8, <1>f, <1>g DEF SweepLocks, InFlight
<1>9. ASSUME NEW r \in Requests, Commit(r) \/ EmitAttempted(r) \/ EmitSolved(r) \/ Crash(r)
      PROVE  Fewer
  BY <1>7, <1>9 DEF Commit, EmitAttempted, EmitSolved, Crash
<1>10. ASSUME req' = req PROVE Fewer
  BY <1>10
<1> HIDE DEF Fewer
<1> QED
  BY <1>1, <1>2, <1>3, <1>4, <1>5, <1>6, <1>8, <1>9, <1>10
  DEF GradingNext, SubmitFlag, ResetGuesses, gradingVars

(* No step lets the counted rows and those under way pass the limit.       *)
LEMMA CapKept ==
    ASSUME GradingTypeOK, RowsInv, LockHeld, GuessCap, [GradingNext]_gradingVars
    PROVE  GuessCap'
<1>0. contest \in Contests /\ contest' = contest
  BY GoesOn DEF GradingTypeOK
<1>1. ASSUME NEW r \in Requests, CheckCap(r) PROVE GuessCap'
  <2> DEFINE s == SubjectOf[r]
  <2>1. /\ sub' = sub /\ holder[s] = NoRequest /\ s \in Subjects
        /\ \A q \in Requests \ {r} : req'[q] = req[q]
    BY <1>1, SubjectsOfRequests DEF CheckCap, LockFree, Goto, GradingTypeOK
  <2>2. \A t : /\ HasSolved(t)' <=> HasSolved(t)
               /\ Counted(t)' = Counted(t) /\ AttemptCount(t)' = AttemptCount(t)
    BY <2>1 DEF HasSolved, Counted, AttemptCount, RowsOf, Committed
  <2>3. CASE req'[r].pc = "done"
    <3>1. \A t : Working(t)' \subseteq Working(t)
      BY <2>1, <2>3 DEF Working, InFlight
    <3> QED
      BY <1>0, <2>2, <3>1, CapShrinks
  <2>4. CASE /\ HasSolved(s) \/ ~(AttemptCount(s) >= contest.limit)
             /\ Goto(r, "grade")
    <3> SUFFICES ASSUME Capped, NEW t \in Subjects, ~HasSolved(t)
                 PROVE  AttemptCount(t) + Cardinality(Working(t)') <= contest.limit
      BY <1>0, <2>2 DEF GuessCap, Working, InFlight, Capped
    <3>1. CASE t = s
      <4>1. Working(s) = {}
        BY <2>1, WorkingIsHolder, GradingAssumption DEF Working
      <4>2. Working(s)' \subseteq {r}
        BY <2>1, <4>1 DEF Working
      <4>3. Cardinality(Working(s)') <= 1 /\ Cardinality(Working(s)') \in Nat
        <5>1. IsFiniteSet({r}) /\ Cardinality({r}) = 1
          BY FS_Singleton
        <5>2. IsFiniteSet(Working(s)') /\ Cardinality(Working(s)') <= Cardinality({r})
          BY <4>2, <5>1, FS_Subset
        <5> QED
          BY <5>1, <5>2, FS_CardinalityType
      <4>4. AttemptCount(s) < contest.limit /\ AttemptCount(s) \in Nat /\ contest.limit \in Nat
        BY <1>0, <2>4, <3>1, CountsAreNatural, ContestFacts
      <4> QED
        BY <3>1, <4>3, <4>4
    <3>2. CASE t # s
      <4>1. Working(t)' = Working(t)
        BY <2>1, <3>2 DEF Working
      <4>2. AttemptCount(t) + Cardinality(Working(t)) <= contest.limit
        BY DEF GuessCap, Working, InFlight
      <4> QED
        BY <4>1, <4>2
    <3> QED
      BY <3>1, <3>2
  <2> QED
    <3>1. Goto(r, "done") => req'[r].pc = "done"
      BY DEF Goto, GradingTypeOK, Request
    <3> QED
      BY <1>1, <2>3, <2>4, <3>1 DEF CheckCap
<1>2. ASSUME NEW r \in Requests, Commit(r), \A q \in Requests : ~CheckCap(q)
      PROVE  GuessCap'
  <2> DEFINE s == SubjectOf[r]
  <2>1. /\ r \notin Committed /\ req[r].pc = "commit" /\ Committed' = Committed \cup {r}
        /\ \A q \in Requests : sub'[q].correct = sub[q].correct
                               /\ sub'[q].fresh = sub[q].fresh
        /\ req'[r].pc = "attempted" /\ s \in Subjects
    BY <1>2, CommitTable, SubjectsOfRequests
  <2>2. \A t : Counted(t)' \subseteq Counted(t) \cup (IF t = s THEN {r} ELSE {})
    BY <2>1 DEF Counted, RowsOf, Committed
  <2>3. \A t : HasSolved(t) => HasSolved(t)'
    BY <2>1 DEF HasSolved, RowsOf, Committed
  <2> SUFFICES ASSUME Capped, NEW t \in Subjects, ~HasSolved(t)'
               PROVE  Cardinality(Counted(t)') + Cardinality(Working(t)') <= contest.limit
    BY <1>0 DEF GuessCap, Working, InFlight, Capped, AttemptCount, Counted
  <2>4. /\ Cardinality(Counted(t)) + Cardinality(Working(t)) <= contest.limit
        /\ Cardinality(Counted(t)) \in Nat /\ Cardinality(Working(t)) \in Nat
        /\ IsFiniteSet(Counted(t)) /\ IsFiniteSet(Working(t)) /\ contest.limit \in Nat
    <3>1. AttemptCount(t) + Cardinality(Working(t)) <= contest.limit
      BY <2>3 DEF GuessCap, Working, InFlight
    <3> QED
      BY <1>0, <3>1, CountsAreNatural, ContestFacts
  <2>5. Working(t)' \subseteq Working(t)
    BY <1>2, WorkingShrinks
  <2>6. CASE t = s
    <3>1. Working(s) = {r}
      BY <2>1, WorkingIsHolder DEF Working, InFlight
    <3>2. Working(s)' = {}
      BY <2>1, <2>5, <2>6, <3>1 DEF Working, InFlight
    <3>3. Cardinality(Working(s)) = 1 /\ Cardinality(Working(s)') = 0
      BY <3>1, <3>2, FS_Singleton, FS_EmptySet
    <3>4. /\ IsFiniteSet(Counted(s) \cup {r})
          /\ Cardinality(Counted(s) \cup {r}) = Cardinality(Counted(s)) + 1
      <4>1. r \notin Counted(s)
        BY <2>1 DEF Counted, RowsOf
      <4> QED
        BY <2>4, <2>6, <4>1, FS_AddElement
    <3>5. Cardinality(Counted(s)') <= Cardinality(Counted(s)) + 1
      BY <2>2, <3>4, FS_Subset
    <3>6. Cardinality(Counted(s)') \in Nat
      BY <2>2, <3>4, FS_Subset, FS_CardinalityType
    <3> QED
      BY <2>4, <2>6, <3>3, <3>5, <3>6
  <2>7. CASE t # s
    <3>1. Counted(t)' \subseteq Counted(t)
      BY <2>2, <2>7
    <3>2. /\ Cardinality(Counted(t)') <= Cardinality(Counted(t))
          /\ Cardinality(Working(t)') <= Cardinality(Working(t))
          /\ Cardinality(Counted(t)') \in Nat /\ Cardinality(Working(t)') \in Nat
      BY <2>4, <2>5, <3>1, FS_Subset, FS_CardinalityType
    <3> QED
      BY <2>4, <3>2
  <2> QED
    BY <2>6, <2>7
<1>3. CASE (\A r \in Requests : ~CheckCap(r)) /\ (\A r \in Requests : ~Commit(r))
  BY <1>0, <1>3, QuietTable, WorkingShrinks, CapShrinks
<1> QED
  BY <1>1, <1>2, <1>3

CapInv == GradingTypeOK /\ WithinBase /\ RowsInv /\ LockHeld /\ GuessCap

(* Both invariants of the grading hold at the start.                       *)
LEMMA GradingStarts == GradingInit => CapInv /\ PointsInv
<1> SUFFICES ASSUME GradingInit PROVE CapInv /\ PointsInv
  OBVIOUS
<1> USE DEF GradingInit
<1>1. GradingTypeOK /\ WithinBase
  <2>1. NewRequest \in Request /\ NewRequest.points <= NewRequest.base
    BY DEF NewRequest, Request, RequestSteps
  <2>2. NoSubmission \in Submission
    BY DEF NoSubmission, Submission
  <2>3. resets \in 0..MaxResets /\ crashes \in 0..MaxCrashes
    BY GradingAssumption
  <2> QED
    BY <2>1, <2>2, <2>3 DEF GradingTypeOK, WithinBase
<1>2. ASSUME NEW r \in Requests PROVE req[r] = NewRequest /\ sub[r] = NoSubmission /\ told[r] = {}
  OBVIOUS
<1> HIDE DEF GradingInit
<1>3. ASSUME NEW r \in Requests
      PROVE  /\ req[r].pc = "new" /\ ~req[r].correct /\ ~req[r].award /\ req[r].sweep = {}
             /\ req[r].wrong = 0 /\ sub[r].state = "none" /\ ~sub[r].correct
             /\ ~sub[r].duplicate /\ sub[r].points = 0
  BY <1>2 DEF NewRequest, NoSubmission
<1>4. Committed = {} /\ Awarded = {}
  BY <1>3 DEF Committed, Awarded
<1>5. RowsInv
  BY <1>3, <1>4 DEF RowsInv, OneAward, RowFacts, RowState, RowMatch, HasWinner,
     SweepAwarded, AwardedRow
<1>6. LockHeld
  BY <1>3 DEF LockHeld, InFlight
<1>7. ToldIsAwarded
  BY <1>2 DEF ToldIsAwarded
<1>8. CountedWereWrong
  BY <1>3, CountsAreNatural DEF CountedWereWrong
<1>9. Promised /\ NeverUnderpaid /\ Undisturbed
  BY <1>3, <1>4 DEF Promised, NeverUnderpaid, Undisturbed, InAward, Converged
<1>10. GuessCap
  <2> SUFFICES ASSUME NEW s \in Subjects PROVE AttemptCount(s) + Cardinality(Working(s)) <= contest.limit
    BY DEF GuessCap, Working, InFlight
  <2>1. Counted(s) = {} /\ Working(s) = {}
    BY <1>3, <1>4 DEF Counted, RowsOf, Working, InFlight
  <2>2. AttemptCount(s) = 0 /\ Cardinality(Working(s)) = 0
    BY <2>1, CountsAreNatural, FS_EmptySet
  <2>3. contest.limit \in Nat
    BY <1>1, ContestFacts DEF GradingTypeOK
  <2> QED
    BY <2>2, <2>3
<1> QED
  BY <1>1, <1>5, <1>6, <1>7, <1>8, <1>9, <1>10 DEF CapInv, PointsInv

(* Every variable of the flag submissions keeps its type. *)
THEOREM GradingTypeCorrect == GradingSpec => []GradingTypeOK
<1>1. GradingInit => GradingTypeOK /\ WithinBase
  BY GradingStarts DEF CapInv
<1>2. GradingTypeOK /\ WithinBase /\ [GradingNext]_gradingVars => (GradingTypeOK /\ WithinBase)'
  BY GradingTypeStep
<1> QED
  BY <1>1, <1>2, PTL DEF GradingSpec

(* A burst of guesses never buys more than the limit (submit_flag's        *)
(* lock_subject), whatever requests, resets and crashes interleave.        *)
THEOREM GuessesCapped == GradingSpec => []GuessCap
<1>1. GradingInit => CapInv
  BY GradingStarts
<1>2. CapInv /\ [GradingNext]_gradingVars => CapInv'
  <2> SUFFICES ASSUME CapInv, [GradingNext]_gradingVars PROVE CapInv'
    OBVIOUS
  <2>1. GradingTypeOK' /\ WithinBase'
    BY GradingTypeStep DEF CapInv
  <2>2. RowsInv'
    BY <2>1, RowsKept DEF CapInv, RowsStep
  <2>3. LockHeld'
    BY LockKept DEF CapInv
  <2>4. GuessCap'
    BY CapKept DEF CapInv
  <2> QED
    BY <2>1, <2>2, <2>3, <2>4 DEF CapInv
<1>3. CapInv => GuessCap
  BY DEF CapInv
<1> QED
  BY <1>1, <1>2, <1>3, PTL DEF GradingSpec

-----------------------------------------------------------------------------
(* What is paid. *)

(* Events are of awarded rows, and awards are kept.                        *)
LEMMA ToldKept ==
    ASSUME GradingTypeOK, RowsInv, ToldIsAwarded, Awarded \subseteq Awarded',
           [GradingNext]_gradingVars
    PROVE  ToldIsAwarded'
<1>1. ASSUME NEW r \in Requests, EmitAttempted(r) PROVE ToldIsAwarded'
  BY <1>1 DEF EmitAttempted, ToldIsAwarded, GradingTypeOK
<1>2. ASSUME NEW r \in Requests, EmitSolved(r) PROVE ToldIsAwarded'
  <2>1. r \in Awarded
    BY <1>2 DEF EmitSolved, RowsInv, RowFacts, RowState, RowMatch, Awarded, Committed
  <2> QED
    BY <1>2, <2>1 DEF EmitSolved, ToldIsAwarded, GradingTypeOK
<1>3. CASE told' = told
  BY <1>3 DEF ToldIsAwarded
<1> QED
  BY <1>1, <1>2, <1>3
  DEF GradingNext, SubmitFlag, Gate, CheckCap, Grade, ReadPrior, CountWrong, Insert,
      SweepStart, SweepLocks, Commit, Crash, ResetGuesses, gradingVars

(* The wrong guesses of a subject only become more.                        *)
LEMMA WrongGrow ==
    ASSUME GradingTypeOK, RowsInv, [GradingNext]_gradingVars
    PROVE  \A s : Cardinality(WrongRows(s)) <= Cardinality(WrongRows(s)')
<1> SUFFICES ASSUME NEW s PROVE Cardinality(WrongRows(s)) <= Cardinality(WrongRows(s)')
  OBVIOUS
<1>1. WrongRows(s) \subseteq WrongRows(s)'
  <2>1. ASSUME NEW r \in Requests, Commit(r) PROVE WrongRows(s) \subseteq WrongRows(s)'
    <3>1. /\ Committed' = Committed \cup {r}
          /\ \A q \in Requests : sub'[q].correct = sub[q].correct
      BY <2>1, CommitTable
    <3> QED
      BY <3>1 DEF WrongRows, RowsOf, Committed
  <2> QED
    BY <2>1, QuietTable
<1>2. IsFiniteSet(WrongRows(s)')
  <2>1. WrongRows(s)' \subseteq Requests
    BY DEF WrongRows, RowsOf, Committed
  <2> QED
    BY <2>1, GradingAssumption, FS_Subset
<1> QED
  BY <1>1, <1>2, FS_Subset

(* The wrong guesses a request has counted stay wrong guesses.             *)
LEMMA CountedKept ==
    ASSUME GradingTypeOK, GradingTypeOK', RowsInv, CountedWereWrong,
           Awarded \subseteq Awarded', [GradingNext]_gradingVars
    PROVE  CountedWereWrong'
<1>n. ASSUME NEW r \in Requests
      PROVE  /\ req[r].wrong \in Nat /\ req'[r].wrong \in Nat
             /\ Cardinality(WrongRows(SubjectOf[r])) \in Nat
             /\ Cardinality(WrongRows(SubjectOf[r])') \in Nat
             /\ Cardinality(WrongRows(SubjectOf[r])) <= Cardinality(WrongRows(SubjectOf[r])')
  <2>1. WrongRows(SubjectOf[r])' \subseteq Requests
    BY DEF WrongRows, RowsOf, Committed
  <2>2. Cardinality(WrongRows(SubjectOf[r])') \in Nat
    BY <2>1, GradingAssumption, FS_Subset, FS_CardinalityType
  <2> QED
    BY <2>2, WrongGrow, CountsAreNatural DEF GradingTypeOK, Request
<1>s. ASSUME NEW r \in Requests, req'[r].wrong = req[r].wrong
      PROVE  \/ req'[r].wrong <= Cardinality(WrongRows(SubjectOf[r])')
             \/ \E q \in Awarded' \ {r} : SubjectOf[q] = SubjectOf[r]
  BY <1>n, <1>s DEF CountedWereWrong
<1>a. ASSUME \A r \in Requests : req'[r].wrong = req[r].wrong PROVE CountedWereWrong'
  BY <1>a, <1>s DEF CountedWereWrong
<1>1. ASSUME NEW r \in Requests, CountWrong(r) PROVE CountedWereWrong'
  <2> DEFINE s == SubjectOf[r]
  <2>1. /\ req'[r].wrong = AttemptCount(s) /\ req[r].pc = "wrong"
        /\ \A q \in Requests \ {r} : req'[q].wrong = req[q].wrong
    BY <1>1 DEF CountWrong, GradingTypeOK, Request
  <2>2. \/ req'[r].wrong <= Cardinality(WrongRows(s)')
        \/ \E q \in Awarded' \ {r} : SubjectOf[q] = s
    <3>1. CASE HasSolved(s)
      <4>1. PICK q \in Awarded : SubjectOf[q] = s
        BY <3>1, SolvedHasAward
      <4>2. r \notin Awarded
        BY <2>1 DEF RowsInv, RowFacts, RowState, Awarded, Committed
      <4> QED
        BY <4>1, <4>2
    <3>2. CASE ~HasSolved(s)
      <4>1. Counted(s) \subseteq WrongRows(s)
        BY <3>2 DEF Counted, WrongRows, HasSolved
      <4>2. AttemptCount(s) <= Cardinality(WrongRows(s))
        BY <4>1, CountsAreNatural, FS_Subset
      <4> QED
        BY <1>n, <2>1, <4>2
    <3> QED
      BY <3>1, <3>2
  <2> QED
    BY <1>s, <2>1, <2>2 DEF CountedWereWrong
<1>g. ASSUME NEW r \in Requests, NEW pc, Goto(r, pc)
      PROVE  \A q \in Requests : req'[q].wrong = req[q].wrong
  BY <1>g DEF Goto, GradingTypeOK, Request
<1>2. ASSUME NEW r \in Requests, Gate(r) \/ CheckCap(r) \/ SweepLocks(r) \/ Commit(r)
                                   \/ EmitAttempted(r) \/ EmitSolved(r) \/ Crash(r)
      PROVE  CountedWereWrong'
  BY <1>2, <1>a, <1>g
  DEF Gate, CheckCap, SweepLocks, Commit, EmitAttempted, EmitSolved, Crash
<1>3. ASSUME NEW r \in Requests, Grade(r) PROVE CountedWereWrong'
  <2>1. \A q \in Requests : req'[q].wrong = req[q].wrong
    BY <1>3 DEF Grade, GradingTypeOK, Request
  <2> QED
    BY <1>a, <2>1
<1>4. ASSUME NEW r \in Requests, ReadPrior(r) PROVE CountedWereWrong'
  <2>1. \A q \in Requests : req'[q].wrong = req[q].wrong
    BY <1>4 DEF ReadPrior, GradingTypeOK, Request
  <2> QED
    BY <1>a, <2>1
<1>5. ASSUME NEW r \in Requests, Insert(r) PROVE CountedWereWrong'
  <2>1. LostRace(req[r]).wrong = req[r].wrong
    BY DEF LostRace, GradingTypeOK, Request
  <2>2. \A q \in Requests : req'[q].wrong = req[q].wrong
    BY <1>5, <1>g, <2>1 DEF Insert, GradingTypeOK
  <2> QED
    BY <1>a, <2>2
<1>6. ASSUME NEW r \in Requests, SweepStart(r) PROVE CountedWereWrong'
  <2>1. \A q \in Requests : req'[q].wrong = req[q].wrong
    BY <1>6 DEF SweepStart, GradingTypeOK, Request
  <2> QED
    BY <1>a, <2>1
<1>7. ASSUME req' = req PROVE CountedWereWrong'
  BY <1>7, <1>a
<1> QED
  BY <1>1, <1>2, <1>3, <1>4, <1>5, <1>6, <1>7
  DEF GradingNext, SubmitFlag, ResetGuesses, gradingVars

(* How an award under way got there, when nothing is committed: it has     *)
(* just read its base, or it was under way and keeps it.                   *)
AwardMoved(q) ==
    \/ ReadPrior(q) /\ req'[q].base = NextValue /\ req'[q].pc \in {"wrong", "insert"}
    \/ /\ InAward(q) /\ req'[q].base = req[q].base
       /\ req'[q].pc \in {"sweep", "update", "commit"} =>
             \/ sub'[q].points = Revalued(req'[q].base, sub'[q].penalty)
             \/ /\ req[q].pc \in {"sweep", "update", "commit"}
                /\ sub'[q].points = sub[q].points /\ sub'[q].penalty = sub[q].penalty
       /\ Challenge.scoring = "dynamic" /\ req'[q].pc \in {"update", "commit"} =>
             \/ req'[q].sweep = Awarded \cup {q}
             \/ req[q].pc \in {"update", "commit"} /\ req'[q].sweep = req[q].sweep

(* Where a request on its way to an award can have come from.              *)
LEMMA AwardMoves ==
    ASSUME GradingTypeOK, WithinBase, RowsInv, [GradingNext]_gradingVars,
           \A r \in Requests : ~Commit(r), NEW q \in Requests, InAward(q)'
    PROVE  AwardMoved(q)
<1>0. req[q] \in Request /\ sub[q] \in Submission
  BY DEF GradingTypeOK
<1>k. ASSUME req'[q] = req[q], sub'[q].points = sub[q].points, sub'[q].penalty = sub[q].penalty
      PROVE  AwardMoved(q)
  BY <1>k DEF AwardMoved, InAward
<1>o. ASSUME NEW r \in Requests, r # q, SubmitFlag(r) \/ Crash(r)
      PROVE  req'[q] = req[q] /\ sub'[q] = sub[q]
  <2>1. CASE Gate(r) \/ CheckCap(r) \/ SweepLocks(r) \/ EmitAttempted(r) \/ EmitSolved(r)
    BY <1>o, <2>1 DEF Gate, CheckCap, SweepLocks, EmitAttempted, EmitSolved, Goto, GradingTypeOK
  <2>2. CASE Grade(r)
    BY <1>o, <2>2 DEF Grade, GradingTypeOK
  <2>3. CASE ReadPrior(r)
    BY <1>o, <2>3 DEF ReadPrior, GradingTypeOK
  <2>4. CASE CountWrong(r)
    BY <1>o, <2>4 DEF CountWrong, GradingTypeOK
  <2>5. CASE Insert(r)
    BY <1>o, <2>5 DEF Insert, Goto, GradingTypeOK
  <2>6. CASE SweepStart(r)
    BY <1>o, <2>6 DEF SweepStart, GradingTypeOK
  <2>7. CASE Crash(r)
    BY <1>o, <2>7 DEF Crash, Goto, GradingTypeOK
  <2> QED
    BY <1>o, <2>1, <2>2, <2>3, <2>4, <2>5, <2>6, <2>7 DEF SubmitFlag
<1>g. ASSUME NEW pc, Goto(q, pc)
      PROVE  /\ req'[q].pc = pc /\ req'[q].award = req[q].award
             /\ req'[q].base = req[q].base /\ req'[q].sweep = req[q].sweep
  BY <1>0, <1>g DEF Goto, GradingTypeOK, Request
<1>1. ~Gate(q) /\ ~CheckCap(q) /\ ~EmitAttempted(q) /\ ~EmitSolved(q) /\ ~Crash(q)
  <2>1. ASSUME NEW pc, Goto(q, pc) PROVE pc \in {"wrong", "insert", "sweep", "update", "commit"}
    BY <1>g, <2>1 DEF InAward
  <2>2. ASSUME NEW pc \in {"done", "cap"}, Goto(q, pc) PROVE FALSE
    BY <2>1, <2>2
  <2>3. ASSUME Goto(q, "grade") PROVE FALSE
    BY <2>1, <2>3
  <2>4. ASSUME Goto(q, "solved") PROVE FALSE
    BY <2>1, <2>4
  <2> QED
    BY <2>2, <2>3, <2>4 DEF Gate, CheckCap, EmitAttempted, EmitSolved, Crash
<1>2. ~Grade(q)
  <2> SUFFICES ASSUME Grade(q) PROVE FALSE
    OBVIOUS
  <2>1. PICK correct \in BOOLEAN :
           LET award == correct /\ ~HasSolved(SubjectOf[q])
           IN  req' = [req EXCEPT
                  ![q] = [@ EXCEPT !.pc = IF award THEN "prior" ELSE "insert",
                                   !.correct = correct, !.award = award]]
    BY DEF Grade
  <2> DEFINE award == correct /\ ~HasSolved(SubjectOf[q])
  <2>2. /\ req'[q].pc = IF award THEN "prior" ELSE "insert"
        /\ req'[q].award = award
    BY <1>0, <2>1 DEF GradingTypeOK, Request
  <2> QED
    BY <2>2 DEF InAward
<1>3. CASE ReadPrior(q)
  <2>1. req'[q].base = NextValue /\ req'[q].pc \in {"wrong", "insert"}
    BY <1>0, <1>3 DEF ReadPrior, NextValue, CountWithThis, GradingTypeOK, Request
  <2> QED
    BY <1>3, <2>1 DEF AwardMoved
<1>4. CASE CountWrong(q)
  <2>1. /\ req'[q].pc = "insert" /\ req[q].pc = "wrong" /\ req'[q].base = req[q].base
        /\ req'[q].award = req[q].award
    BY <1>0, <1>4 DEF CountWrong, GradingTypeOK, Request
  <2> QED
    BY <2>1 DEF AwardMoved, InAward
<1>5. CASE Insert(q)
  <2>1. req'[q].award /\ req[q].pc = "insert"
    BY <1>5 DEF Insert, InAward
  <2>2. ~(req' = [req EXCEPT ![q] = LostRace(@)])
    <3> SUFFICES ASSUME req' = [req EXCEPT ![q] = LostRace(@)] PROVE FALSE
      OBVIOUS
    <3>1. req'[q] = LostRace(req[q])
      BY DEF GradingTypeOK
    <3>2. ~LostRace(req[q]).award
      BY <1>0 DEF LostRace, Request
    <3> QED
      BY <2>1, <3>1, <3>2
  <2>3. PICK pc : Goto(q, pc)
    BY <1>5, <2>2 DEF Insert
  <2>4. /\ req[q].award
        /\ sub' = [sub EXCEPT ![q] = NewRow(q, FALSE)]
        /\ Goto(q, IF Challenge.scoring = "dynamic" THEN "sweep" ELSE "commit")
    BY <1>5, <1>g, <2>1, <2>2, <2>3 DEF Insert
  <2>5. /\ req'[q].base = req[q].base
        /\ Challenge.scoring = "dynamic" => req'[q].pc = "sweep"
    BY <1>g, <2>4
  <2>6. /\ sub'[q].points = req[q].points
        /\ sub'[q].penalty = req[q].base - req[q].points
    BY <2>4 DEF NewRow, GradingTypeOK
  <2>7. req[q].points \in Nat /\ req[q].base \in Nat /\ req[q].points <= req[q].base
    BY <1>0 DEF Request, WithinBase
  <2>8. sub'[q].points = Revalued(req'[q].base, sub'[q].penalty)
    BY <2>5, <2>6, <2>7 DEF Revalued
  <2> QED
    BY <2>1, <2>4, <2>5, <2>8 DEF AwardMoved, InAward
<1>6. CASE SweepStart(q)
  <2>1. /\ req'[q].pc = "update" /\ req[q].pc = "sweep" /\ req'[q].base = req[q].base
        /\ req'[q].award = req[q].award /\ req'[q].sweep = Awarded \cup {q} /\ sub' = sub
    BY <1>0, <1>6 DEF SweepStart, GradingTypeOK, Request
  <2> QED
    BY <2>1 DEF AwardMoved, InAward
<1>7. CASE SweepLocks(q)
  <2>1. /\ req'[q].pc = "commit" /\ req[q].pc = "update" /\ req'[q].base = req[q].base
        /\ req'[q].award = req[q].award /\ req'[q].sweep = req[q].sweep /\ sub' = sub
    BY <1>7, <1>g DEF SweepLocks
  <2> QED
    BY <2>1 DEF AwardMoved, InAward
<1>8. ASSUME NEW S, ResetGuesses(S) PROVE AwardMoved(q)
  <2>1. /\ req' = req /\ sub'[q].points = sub[q].points /\ sub'[q].penalty = sub[q].penalty
    BY <1>0, <1>8 DEF ResetGuesses, Submission
  <2> QED
    BY <1>k, <2>1
<1>9. CASE UNCHANGED gradingVars
  BY <1>9, <1>k DEF gradingVars
<1>10. ASSUME NEW r \in Requests, SubmitFlag(r) \/ Crash(r) PROVE AwardMoved(q)
  <2>1. CASE r # q
    BY <1>10, <1>o, <1>k, <2>1
  <2>2. CASE r = q
    BY <1>10, <1>1, <1>2, <1>3, <1>4, <1>5, <1>6, <1>7, <2>2 DEF SubmitFlag
  <2> QED
    BY <2>1, <2>2
<1> QED
  BY <1>8, <1>9, <1>10 DEF GradingNext

(* What a request intends to pay stays no less than the next value.        *)
LEMMA PromiseKept ==
    ASSUME GradingTypeOK, WithinBase, RowsInv, Promised, [GradingNext]_gradingVars
    PROVE  Promised'
<1>0. contest \in Contests
  BY DEF GradingTypeOK
<1> SUFFICES ASSUME NEW q \in Requests, InAward(q)'
             PROVE  /\ req'[q].base >= NextValue'
                    /\ req'[q].pc \in {"sweep", "update", "commit"} =>
                          sub'[q].points = Revalued(req'[q].base, sub'[q].penalty)
  BY DEF Promised
<1>1. CASE \A r \in Requests : ~Commit(r)
  <2>1. AwardMoved(q) /\ NextValue' = NextValue /\ NextValue \in Nat
    BY <1>0, <1>1, AwardMoves, QuietTable, NextValueNatural
  <2>2. CASE InAward(q)
    BY <2>1, <2>2 DEF AwardMoved, Promised
  <2>3. CASE ~InAward(q)
    BY <2>1, <2>3 DEF AwardMoved
  <2> QED
    BY <2>2, <2>3
<1>2. ASSUME NEW r \in Requests, Commit(r)
      PROVE  /\ req'[q].base >= NextValue'
             /\ req'[q].pc \in {"sweep", "update", "commit"} =>
                   sub'[q].points = Revalued(req'[q].base, sub'[q].penalty)
  <2>1. /\ contest' = contest /\ Awarded \subseteq Awarded' /\ req'[r].pc = "attempted"
        /\ \A p \in Requests \ {r} :
              /\ req'[p] = req[p] /\ sub'[p].penalty = sub[p].penalty
              /\ p \notin req[r].sweep => sub'[p].points = sub[p].points
    BY <1>2, CommitTable
  <2>2. q # r
    BY <2>1 DEF InAward
  <2>3. InAward(q) /\ req'[q] = req[q]
    BY <2>1, <2>2 DEF InAward
  <2>4. NextValue' <= NextValue /\ NextValue \in Nat /\ NextValue' \in Nat
    <3>1. IsFiniteSet(Awarded')
      <4>1. Awarded' \subseteq Requests
        BY DEF Awarded, Committed
      <4> QED
        BY <4>1, GradingAssumption, FS_Subset
    <3>2. /\ Cardinality(Awarded) <= Cardinality(Awarded')
          /\ Cardinality(Awarded) \in Nat /\ Cardinality(Awarded') \in Nat
      BY <2>1, <3>1, FS_Subset, FS_CardinalityType
    <3>3. NextValue' = ChallengeValue(Challenge, Cardinality(Awarded') + 1)
      BY <2>1 DEF NextValue, Challenge
    <3>4. /\ ChallengeValue(Challenge, Cardinality(Awarded') + 1)
                <= ChallengeValue(Challenge, Cardinality(Awarded) + 1)
      BY <1>0, <3>2, ContestFacts, ValueFalls
    <3> QED
      BY <1>0, <3>2, <3>3, <3>4, NextValueNatural DEF NextValue
  <2>5. req[q].base \in Nat
    BY DEF GradingTypeOK, Request
  <2>6. ASSUME req[q].pc \in {"sweep", "update", "commit"}
        PROVE  sub'[q].points = sub[q].points
    <3>1. q \notin Awarded
      BY <2>6 DEF RowsInv, RowFacts, RowState, Awarded, Committed
    <3>2. q \notin req[r].sweep
      BY <2>2, <3>1 DEF RowsInv, RowFacts, SweepAwarded
    <3> QED
      BY <2>1, <2>2, <3>2
  <2> QED
    BY <2>1, <2>2, <2>3, <2>4, <2>5, <2>6 DEF Promised
<1> QED
  BY <1>1, <1>2

(* What a commit leaves an awarded row with. *)
LEMMA CommitPays ==
    ASSUME GradingTypeOK, RowsInv, Promised, NEW r \in Requests, Commit(r),
           NEW q \in Awarded'
    PROVE  /\ sub'[q].penalty = sub[q].penalty /\ sub[q].penalty \in Nat
           /\ \/ /\ req[r].award /\ InAward(r) /\ (q = r \/ q \in req[r].sweep)
                 /\ sub'[q].points = Revalued(req[r].base, sub[q].penalty)
              \/ /\ q \in Awarded /\ q # r /\ q \notin req[r].sweep
                 /\ sub'[q].points = sub[q].points
<1>0. q \in Requests /\ sub[q].penalty \in Nat
  BY DEF Awarded, Committed, GradingTypeOK, Submission
<1>1. /\ req[r].pc = "commit" /\ r \notin Committed
      /\ Awarded' = Awarded \cup (IF req[r].award THEN {r} ELSE {})
      /\ sub'[q].penalty = sub[q].penalty /\ sub'[r].points = sub[r].points
      /\ \A p \in Requests \ {r} : sub'[p].points =
            IF p \in req[r].sweep THEN Revalued(req[r].base, sub[p].penalty)
                                  ELSE sub[p].points
  BY <1>0, CommitTable
<1>2. req[r].award => InAward(r)
  BY <1>1 DEF InAward
<1>3. CASE q = r
  <2>1. req[r].award
    BY <1>1, <1>3 DEF Awarded
  <2>2. sub[r].points = Revalued(req[r].base, sub[r].penalty)
    BY <1>1, <1>2, <2>1 DEF Promised
  <2> QED
    BY <1>0, <1>1, <1>2, <1>3, <2>1, <2>2
<1>4. CASE q # r /\ q \in req[r].sweep
  <2>1. req[r].award
    BY <1>4 DEF RowsInv, RowFacts, SweepAwarded
  <2> QED
    BY <1>0, <1>1, <1>2, <1>4, <2>1
<1>5. CASE q # r /\ q \notin req[r].sweep
  BY <1>0, <1>1, <1>5
<1> QED
  BY <1>3, <1>4, <1>5

(* The value of the solves after a commit. *)
Worth == ChallengeValue(Challenge, Cardinality(Awarded))

(* A committed award lowers the current value to the next one.             *)
LEMMA CommitWorth ==
    ASSUME GradingTypeOK, RowsInv, NEW r \in Requests, Commit(r)
    PROVE  /\ Worth \in Nat /\ Worth' \in Nat /\ Worth' <= Worth
           /\ req[r].award => Worth' = NextValue
           /\ ~req[r].award => Worth' = Worth /\ Awarded' = Awarded
<1>0. contest \in Contests
  BY DEF GradingTypeOK
<1>1. /\ contest' = contest /\ r \notin Committed
      /\ Awarded' = Awarded \cup (IF req[r].award THEN {r} ELSE {})
  BY CommitTable
<1>2. Worth' = ChallengeValue(Challenge, Cardinality(Awarded'))
  BY <1>1 DEF Worth, Challenge
<1>3. IsFiniteSet(Awarded) /\ Cardinality(Awarded) \in Nat /\ r \notin Awarded
  BY <1>1, CountsAreNatural DEF Awarded
<1>4. CASE req[r].award
  <2>1. Cardinality(Awarded') = Cardinality(Awarded) + 1
    BY <1>1, <1>3, <1>4, FS_AddElement
  <2>2. Cardinality(Awarded) + 1 \in Nat /\ Cardinality(Awarded) <= Cardinality(Awarded) + 1
    BY <1>3
  <2>3. ChallengeValue(Challenge, Cardinality(Awarded) + 1) <= Worth
    BY <1>0, <1>3, <2>2, ContestFacts, ValueFalls DEF Worth
  <2> QED
    BY <1>0, <1>2, <1>3, <1>4, <2>1, <2>2, <2>3, NextValueNatural DEF NextValue, Worth
<1>5. CASE ~req[r].award
  <2>1. Awarded' = Awarded
    BY <1>1, <1>5
  <2>2. Worth \in Nat
    BY <1>0, <1>3, NextValueNatural DEF Worth
  <2> QED
    BY <1>2, <1>5, <2>1, <2>2 DEF Worth
<1> QED
  BY <1>4, <1>5

(* No step leaves a solver under the current value.                        *)
LEMMA PaidEnoughKept ==
    ASSUME GradingTypeOK, GradingTypeOK', RowsInv, Promised, NeverUnderpaid,
           [GradingNext]_gradingVars
    PROVE  NeverUnderpaid'
<1> SUFFICES ASSUME NEW q \in Awarded'
             PROVE  sub'[q].points >= Revalued(Worth', sub'[q].penalty)
  BY DEF NeverUnderpaid, Worth
<1>1. CASE \A r \in Requests : ~Commit(r)
  <2>1. Awarded' = Awarded /\ contest' = contest
    BY <1>1, QuietTable, GoesOn
  <2>2. Worth' = Worth
    BY <2>1 DEF Worth, Challenge
  <2>3. sub'[q].points = sub[q].points /\ sub'[q].penalty = sub[q].penalty
    BY <1>1, <2>1, QuietRows DEF SeenRow, Awarded, Committed
  <2> QED
    BY <2>1, <2>2, <2>3 DEF NeverUnderpaid, Worth
<1>2. ASSUME NEW r \in Requests, Commit(r)
      PROVE  sub'[q].points >= Revalued(Worth', sub'[q].penalty)
  <2>1. /\ sub'[q].penalty = sub[q].penalty /\ sub[q].penalty \in Nat
        /\ \/ /\ req[r].award /\ InAward(r)
              /\ sub'[q].points = Revalued(req[r].base, sub[q].penalty)
           \/ q \in Awarded /\ sub'[q].points = sub[q].points
    BY <1>2, CommitPays
  <2>2. /\ Worth \in Nat /\ Worth' \in Nat /\ Worth' <= Worth
        /\ req[r].award => Worth' = NextValue
    BY <1>2, CommitWorth
  <2>3. CASE /\ req[r].award /\ InAward(r)
             /\ sub'[q].points = Revalued(req[r].base, sub[q].penalty)
    <3>1. Worth' <= req[r].base /\ req[r].base \in Nat
      BY <2>2, <2>3 DEF Promised, GradingTypeOK, Request
    <3>2. /\ Revalued(Worth', sub[q].penalty) <= Revalued(req[r].base, sub[q].penalty)
          /\ Revalued(Worth', sub[q].penalty) \in Nat
          /\ Revalued(req[r].base, sub[q].penalty) \in Nat
      BY <2>1, <2>2, <3>1, RevaluedMonotone
    <3> QED
      BY <2>1, <2>3, <3>2
  <2>4. CASE q \in Awarded /\ sub'[q].points = sub[q].points
    <3>1. sub[q].points >= Revalued(Worth, sub[q].penalty) /\ sub[q].points \in Nat
      BY <2>4 DEF NeverUnderpaid, Worth, GradingTypeOK, Submission, Awarded, Committed
    <3>2. /\ Revalued(Worth', sub[q].penalty) <= Revalued(Worth, sub[q].penalty)
          /\ Revalued(Worth', sub[q].penalty) \in Nat
          /\ Revalued(Worth, sub[q].penalty) \in Nat
      BY <2>1, <2>2, RevaluedMonotone
    <3> QED
      BY <2>1, <2>4, <3>1, <3>2
  <2> QED
    BY <2>1, <2>3, <2>4
<1> QED
  BY <1>1, <1>2

(* As long as nothing raced, what is read is what is current.              *)
LEMMA UndisturbedKept ==
    ASSUME GradingTypeOK, WithinBase, RowsInv, Promised, Undisturbed,
           [GradingNext]_gradingVars
    PROVE  Undisturbed'
<1>c. contest' = contest /\ (overlap => overlap')
  BY GoesOn
<1> SUFFICES ASSUME ~overlap'
             PROVE  /\ Converged'
                    /\ \A p, q \in Requests : InAward(p)' /\ InAward(q)' => p = q
                    /\ \A q \in Requests :
                          InAward(q)' =>
                             /\ req'[q].base = NextValue'
                             /\ Challenge.scoring = "dynamic"
                                  /\ req'[q].pc \in {"update", "commit"}
                                => req'[q].sweep = Awarded' \cup {q}
  BY <1>c DEF Undisturbed, Challenge
<1>0. /\ ~overlap /\ Converged
      /\ \A p, q \in Requests : InAward(p) /\ InAward(q) => p = q
      /\ \A q \in Requests :
            InAward(q) => /\ req[q].base = NextValue
                          /\ Challenge.scoring = "dynamic" /\ req[q].pc \in {"update", "commit"}
                                => req[q].sweep = Awarded \cup {q}
  BY <1>c DEF Undisturbed
<1>1. CASE \A r \in Requests : ~Commit(r)
  <2>1. /\ Awarded' = Awarded /\ NextValue' = NextValue
        /\ \A q \in Requests : InAward(q)' => AwardMoved(q)
    BY <1>1, AwardMoves, QuietTable
  <2>2. Converged'
    <3> SUFFICES ASSUME NEW q \in Awarded'
                 PROVE  sub'[q].points = Revalued(Worth', sub'[q].penalty)
      BY DEF Converged, Worth
    <3>1. Worth' = Worth
      BY <1>c, <2>1 DEF Worth, Challenge
    <3>2. sub'[q].points = sub[q].points /\ sub'[q].penalty = sub[q].penalty
      BY <1>1, <2>1, QuietRows DEF SeenRow, Awarded, Committed
    <3> QED
      BY <1>0, <2>1, <3>1, <3>2 DEF Converged, Worth
  <2>3. ASSUME NEW p \in Requests, ReadPrior(p), NEW q \in Requests, InAward(q)'
        PROVE  p = q
    <3> SUFFICES ASSUME p # q PROVE FALSE
      OBVIOUS
    <3>1. req'[q] = req[q]
      BY <2>3 DEF ReadPrior, GradingTypeOK
    <3>2. InAward(q)
      BY <2>3, <3>1 DEF InAward
    <3> QED
      BY <2>3, <3>2 DEF ReadPrior
  <2>4. ASSUME NEW p \in Requests, NEW q \in Requests, InAward(p)', InAward(q)'
        PROVE  p = q
    <3>1. CASE ReadPrior(p) \/ ReadPrior(q)
      BY <2>3, <2>4, <3>1
    <3>2. CASE ~ReadPrior(p) /\ ~ReadPrior(q)
      BY <1>0, <2>1, <2>4, <3>2 DEF AwardMoved
    <3> QED
      BY <3>1, <3>2
  <2>5. ASSUME NEW q \in Requests, InAward(q)'
        PROVE  /\ req'[q].base = NextValue'
               /\ Challenge.scoring = "dynamic" /\ req'[q].pc \in {"update", "commit"}
                     => req'[q].sweep = Awarded' \cup {q}
    BY <1>0, <2>1, <2>5 DEF AwardMoved
  <2> QED
    BY <2>2, <2>4, <2>5
<1>2. ASSUME NEW r \in Requests, Commit(r)
      PROVE  /\ Converged'
             /\ \A p, q \in Requests : InAward(p)' /\ InAward(q)' => p = q
             /\ \A q \in Requests :
                   InAward(q)' =>
                      /\ req'[q].base = NextValue'
                      /\ Challenge.scoring = "dynamic" /\ req'[q].pc \in {"update", "commit"}
                            => req'[q].sweep = Awarded' \cup {q}
  <2>1. /\ req[r].pc = "commit" /\ req'[r].pc = "attempted"
        /\ \A q \in Requests \ {r} : req'[q] = req[q]
    BY <1>2, CommitTable
  <2>2. \A q \in Requests : InAward(q)' => q # r /\ InAward(q) /\ req'[q] = req[q]
    BY <2>1 DEF InAward
  <2>3. /\ req[r].award => Worth' = NextValue
        /\ ~req[r].award => Worth' = Worth /\ Awarded' = Awarded
    BY <1>2, CommitWorth
  <2>4. Converged'
    <3> SUFFICES ASSUME NEW q \in Awarded'
                 PROVE  sub'[q].points = Revalued(Worth', sub'[q].penalty)
      BY DEF Converged, Worth
    <3>1. /\ sub'[q].penalty = sub[q].penalty
          /\ \/ /\ req[r].award /\ InAward(r)
                /\ sub'[q].points = Revalued(req[r].base, sub[q].penalty)
             \/ /\ q \in Awarded /\ q # r /\ q \notin req[r].sweep
                /\ sub'[q].points = sub[q].points
      BY <1>2, CommitPays
    <3>2. CASE /\ req[r].award /\ InAward(r)
               /\ sub'[q].points = Revalued(req[r].base, sub[q].penalty)
      BY <1>0, <2>3, <3>1, <3>2
    <3>3. CASE /\ q \in Awarded /\ q # r /\ q \notin req[r].sweep
               /\ sub'[q].points = sub[q].points
      <4>1. sub[q].points = Revalued(Worth, sub[q].penalty)
        BY <1>0, <3>3 DEF Converged, Worth
      <4>2. Worth' = Worth
        <5>1. CASE ~req[r].award
          BY <2>3, <5>1
        <5>2. CASE req[r].award
          <6>1. InAward(r)
            BY <2>1, <5>2 DEF InAward
          <6>2. Challenge.scoring # "dynamic"
            BY <1>0, <2>1, <3>3, <6>1
          <6> QED
            BY <2>3, <5>2, <6>2 DEF NextValue, Worth, ChallengeValue
        <5> QED
          BY <5>1, <5>2
      <4> QED
        BY <3>1, <3>3, <4>1, <4>2
    <3> QED
      BY <3>1, <3>2, <3>3
  <2>5. ASSUME NEW q \in Requests, InAward(q)'
        PROVE  /\ req'[q].base = NextValue'
               /\ Challenge.scoring = "dynamic" /\ req'[q].pc \in {"update", "commit"}
                     => req'[q].sweep = Awarded' \cup {q}
    <3>1. q # r /\ InAward(q) /\ req'[q] = req[q]
      BY <2>2, <2>5
    <3>2. ~req[r].award
      BY <1>0, <2>1, <3>1 DEF InAward
    <3>3. Awarded' = Awarded
      BY <2>3, <3>2
    <3>4. NextValue' = NextValue
      BY <1>c, <3>3 DEF NextValue, Challenge
    <3> QED
      BY <1>0, <3>1, <3>3, <3>4
  <2> QED
    BY <1>0, <2>2, <2>4, <2>5
<1> QED
  BY <1>1, <1>2

(* The invariant says what a burst of answers may do. *)
LEMMA PointsInvSafe == PointsInv => GradingSafe
<1> SUFFICES ASSUME PointsInv PROVE GradingSafe
  OBVIOUS
<1> USE DEF PointsInv
<1>1. PaidOnce
  <2> SUFFICES ASSUME NEW s \in Subjects
               PROVE  /\ {r \in RowsOf(s) : sub[r].correct} # {} =>
                           \E a \in {r \in RowsOf(s) : sub[r].correct} :
                              /\ ~sub[a].duplicate
                              /\ \A r \in {r \in RowsOf(s) : sub[r].correct} \ {a} :
                                    sub[r].duplicate /\ sub[r].points = 0
                      /\ Cardinality({r \in Requests : /\ SubjectOf[r] = s
                                                       /\ "solved" \in told[r]}) <= 1
    BY DEF PaidOnce
  <2>1. ASSUME {r \in RowsOf(s) : sub[r].correct} # {}
        PROVE  \E a \in {r \in RowsOf(s) : sub[r].correct} :
                  /\ ~sub[a].duplicate
                  /\ \A r \in {r \in RowsOf(s) : sub[r].correct} \ {a} :
                        sub[r].duplicate /\ sub[r].points = 0
    <3>1. HasSolved(s)
      BY <2>1 DEF HasSolved
    <3>2. PICK a \in Awarded : SubjectOf[a] = s
      BY <3>1, SolvedHasAward
    <3>3. a \in RowsOf(s) /\ sub[a].correct /\ ~sub[a].duplicate
      BY <3>2 DEF RowsOf, Awarded, AwardedRow
    <3>4. ASSUME NEW r \in RowsOf(s), sub[r].correct, r # a
          PROVE  sub[r].duplicate /\ sub[r].points = 0
      <4>1. r \in Requests /\ a \in Requests /\ SubjectOf[r] = s
        BY <3>2 DEF RowsOf, Committed, Awarded
      <4>2. sub[r].duplicate
        BY <3>2, <3>3, <3>4, <4>1 DEF RowsInv, OneAward, AwardedRow
      <4> QED
        BY <4>1, <4>2 DEF RowsInv, RowFacts, RowMatch
    <3> QED
      BY <3>3, <3>4
  <2>2. Cardinality({r \in Requests : SubjectOf[r] = s /\ "solved" \in told[r]}) <= 1
    <3> DEFINE S == {r \in Requests : SubjectOf[r] = s /\ "solved" \in told[r]}
    <3>1. \A r, q \in S : r = q
      BY DEF ToldIsAwarded, RowsInv, OneAward, Awarded
    <3>2. CASE S = {}
      BY <3>2, FS_EmptySet
    <3>3. CASE S # {}
      <4>1. PICK r \in S : TRUE
        BY <3>3
      <4>2. S = {r}
        BY <3>1, <4>1
      <4>3. Cardinality({r}) = 1
        BY FS_Singleton
      <4>4. Cardinality(S) = 1
        BY <4>2, <4>3
      <4> QED
        BY <4>4
    <3> QED
      BY <3>2, <3>3
  <2> QED
    BY <2>1, <2>2
<1>2. SolvedIsRecorded
  BY DEF SolvedIsRecorded, ToldIsAwarded
<1>3. DockedForWrongGuesses
  <2> SUFFICES ASSUME NEW r \in Awarded
               PROVE  req[r].wrong <= Cardinality(WrongRows(SubjectOf[r]))
    BY DEF DockedForWrongGuesses, WrongRows
  <2>1. r \in Requests /\ \A q \in Awarded \ {r} : SubjectOf[q] # SubjectOf[r]
    BY DEF RowsInv, OneAward, Awarded, Committed
  <2> QED
    BY <2>1 DEF CountedWereWrong
<1>4. ConvergesUnlessRaced
  BY DEF ConvergesUnlessRaced, Undisturbed
<1> QED
  BY <1>1, <1>2, <1>3, <1>4 DEF GradingSafe

(* A burst of answers pays each subject once, announces only recorded      *)
(* solves, docks wrong guesses only, and errs upwards where two solves     *)
(* raced and only there (record_grade, emit_grade).                        *)
THEOREM GradingIsSafe == GradingSpec => []GradingSafe
<1>1. GradingInit => PointsInv
  BY GradingStarts
<1>2. PointsInv /\ [GradingNext]_gradingVars => PointsInv'
  <2> SUFFICES ASSUME PointsInv, [GradingNext]_gradingVars PROVE PointsInv'
    OBVIOUS
  <2> USE DEF PointsInv
  <2>1. GradingTypeOK' /\ WithinBase'
    BY GradingTypeStep
  <2>2. RowsInv' /\ Awarded \subseteq Awarded'
    BY <2>1, RowsKept DEF RowsStep
  <2>3. ToldIsAwarded'
    BY <2>2, ToldKept
  <2>4. CountedWereWrong'
    BY <2>1, <2>2, CountedKept
  <2>5. Promised'
    BY PromiseKept
  <2>6. NeverUnderpaid'
    BY <2>1, PaidEnoughKept
  <2>7. Undisturbed'
    BY UndisturbedKept
  <2> QED
    BY <2>1, <2>2, <2>3, <2>4, <2>5, <2>6, <2>7
<1> QED
  BY <1>1, <1>2, PointsInvSafe, PTL DEF GradingSpec

-----------------------------------------------------------------------------
(***************************************************************************)
(* Verdicts.  The argument: whatever the rows were, regrade leaves every   *)
(* subject's award on its earliest correct code (Settled) and every award  *)
(* at the value of the solves there are (Valued), and record_grade keeps   *)
(* both when it pays or records a wrong answer; a row says what the newest *)
(* finished judging said; and an event is put in the outbox exactly when a *)
(* subject's award comes or goes, by a judging that has no event waiting.  *)
(***************************************************************************)

GradedRow == [recorded : BOOLEAN, correct : BOOLEAN, duplicate : BOOLEAN,
              points : 0..JudgedChallenge.points]

Table == [Codes -> GradedRow]

SubjectSettled(S, s) ==
    \A c \in CorrectRows(S, s) :
        IF c = Earliest(CorrectRows(S, s)) THEN ~S[c].duplicate
        ELSE S[c].duplicate /\ S[c].points = 0

Settled(S) == \A s \in CodeSubjects : SubjectSettled(S, s)

Valued(S) ==
    \A c \in AwardedRows(S) :
        S[c].points = ChallengeValue(JudgedChallenge, Cardinality(AwardedRows(S)))

(* Rows after a verdict on code c: it says x, and the other rows say what  *)
(* they said; other subjects' awards stay where they are.                  *)
Judged(S, T, c, x) ==
    /\ T \in Table /\ Settled(T) /\ Valued(T)
    /\ T[c].recorded /\ T[c].correct = x
    /\ \A d \in Codes \ {c} : T[d].recorded = S[d].recorded /\ T[d].correct = S[d].correct
    /\ \A d \in Codes : CodeSubject[d] # CodeSubject[c] => T[d].duplicate = S[d].duplicate

(* The judged challenge is never worth more than its points.               *)
LEMMA JudgedValues ==
    \A n \in Nat : ChallengeValue(JudgedChallenge, n) \in 0..JudgedChallenge.points
<1>1. ValidScoring(JudgedChallenge)
  BY VerdictsAssumption DEF ValidScoring
<1> TAKE n \in Nat
<1> QED
  BY <1>1, ValueFalls, n <= n

(* The awards are finitely many.                                           *)
LEMMA AwardsAreFinite ==
    \A S : IsFiniteSet(AwardedRows(S)) /\ Cardinality(AwardedRows(S)) \in Nat
<1> TAKE S
<1>1. AwardedRows(S) \subseteq Codes
  BY DEF AwardedRows
<1> QED
  BY <1>1, VerdictsAssumption, FS_Subset, FS_CardinalityType

(* The sweep over the solvers changes points only.                         *)
LEMMA SweptRows ==
    ASSUME NEW S \in Table, NEW base \in 0..JudgedChallenge.points
    PROVE  /\ Swept(S, base) \in Table
           /\ \A c \in Codes :
                 /\ Swept(S, base)[c].recorded = S[c].recorded
                 /\ Swept(S, base)[c].correct = S[c].correct
                 /\ Swept(S, base)[c].duplicate = S[c].duplicate
                 /\ Swept(S, base)[c].points = IF c \in AwardedRows(S) THEN base
                                                                       ELSE S[c].points
           /\ AwardedRows(Swept(S, base)) = AwardedRows(S)
           /\ \A s : CorrectRows(Swept(S, base), s) = CorrectRows(S, s)
<1> DEFINE T == Swept(S, base)
<1>1. ASSUME NEW c \in Codes
      PROVE  /\ T[c] \in GradedRow
             /\ T[c].recorded = S[c].recorded /\ T[c].correct = S[c].correct
             /\ T[c].duplicate = S[c].duplicate
             /\ T[c].points = IF c \in AwardedRows(S) THEN base ELSE S[c].points
  <2>1. S[c] \in GradedRow
    BY DEF Table
  <2>2. T[c] = IF c \in AwardedRows(S) THEN [S[c] EXCEPT !.points = base] ELSE S[c]
    BY DEF Swept
  <2> QED
    BY <2>1, <2>2 DEF GradedRow
<1>2. T \in Table
  <2>1. T = [c \in Codes |-> T[c]]
    BY DEF Swept
  <2> HIDE DEF T
  <2> QED
    BY <1>1, <2>1 DEF Table
<1> HIDE DEF T
<1>3. AwardedRows(T) = AwardedRows(S) /\ \A s : CorrectRows(T, s) = CorrectRows(S, s)
  BY <1>1 DEF AwardedRows, CorrectRows
<1> QED
  BY <1>1, <1>2, <1>3 DEF T

(* The reconciliation of a subject changes its own correct rows only.      *)
LEMMA ReconciledRows ==
    ASSUME NEW S \in Table, NEW s
    PROVE  /\ Reconciled(S, s) \in Table
           /\ \A c \in Codes :
                 /\ Reconciled(S, s)[c].recorded = S[c].recorded
                 /\ Reconciled(S, s)[c].correct = S[c].correct
                 /\ c \notin CorrectRows(S, s) => Reconciled(S, s)[c] = S[c]
           /\ \A t : CorrectRows(Reconciled(S, s), t) = CorrectRows(S, t)
           /\ SubjectSettled(Reconciled(S, s), s)
<1> DEFINE T == Reconciled(S, s)
           mine == CorrectRows(S, s)
<1>1. ASSUME NEW c \in Codes
      PROVE  /\ T[c] \in GradedRow
             /\ T[c].recorded = S[c].recorded /\ T[c].correct = S[c].correct
             /\ c \notin mine => T[c] = S[c]
             /\ c \in mine /\ c = Earliest(mine) => ~T[c].duplicate
             /\ c \in mine /\ c # Earliest(mine) => T[c].duplicate /\ T[c].points = 0
  <2>1. S[c] \in GradedRow /\ 0 \in 0..JudgedChallenge.points
    BY VerdictsAssumption DEF Table
  <2>2. T[c] = CASE c \notin mine -> S[c]
                 [] c \in mine /\ c = Earliest(mine) -> [S[c] EXCEPT !.duplicate = FALSE]
                 [] OTHER -> Row(TRUE, TRUE, 0)
    BY DEF Reconciled
  <2>3. c \in mine => S[c].recorded = TRUE /\ S[c].correct = TRUE
    BY <2>1 DEF CorrectRows, GradedRow
  <2> HIDE DEF mine, T
  <2>4. CASE c \notin mine
    BY <2>1, <2>2, <2>4
  <2>5. CASE c \in mine /\ c = Earliest(mine)
    <3>1. T[c] = [S[c] EXCEPT !.duplicate = FALSE]
      BY <2>2, <2>5
    <3> QED
      BY <2>1, <2>5, <3>1 DEF GradedRow
  <2>6. CASE c \in mine /\ c # Earliest(mine)
    <3>1. T[c] = Row(TRUE, TRUE, 0)
      BY <2>2, <2>6
    <3>2. /\ Row(TRUE, TRUE, 0) \in GradedRow /\ Row(TRUE, TRUE, 0).duplicate
          /\ Row(TRUE, TRUE, 0).recorded = TRUE /\ Row(TRUE, TRUE, 0).correct = TRUE
          /\ Row(TRUE, TRUE, 0).points = 0
      BY <2>1 DEF GradedRow, Row
    <3> QED
      BY <2>3, <2>6, <3>1, <3>2
  <2> QED
    BY <2>4, <2>5, <2>6
<1>2. T \in Table
  <2>1. T = [c \in Codes |-> T[c]]
    BY DEF Reconciled
  <2> HIDE DEF T
  <2> QED
    BY <1>1, <2>1 DEF Table
<1>3. \A t : CorrectRows(T, t) = CorrectRows(S, t)
  <2> HIDE DEF T
  <2> QED
    BY <1>1 DEF CorrectRows
<1>4. SubjectSettled(T, s)
  <2>1. CorrectRows(T, s) = mine /\ mine \subseteq Codes
    BY <1>3 DEF CorrectRows
  <2> HIDE DEF T, mine
  <2> QED
    BY <1>1, <2>1 DEF SubjectSettled
<1> HIDE DEF T
<1> QED
  BY <1>1, <1>2, <1>3, <1>4 DEF T

(* regrade mends whatever the subject's rows were. *)
LEMMA RegradeSettles ==
    ASSUME NEW S \in Table, NEW c \in Codes, NEW x \in BOOLEAN,
           \A t \in CodeSubjects \ {CodeSubject[c]} : SubjectSettled(S, t)
    PROVE  Judged(S, Regrade(S, c, x), c, x)
<1> DEFINE s == CodeSubject[c]
           U == [S EXCEPT ![c] = Row(x, x, 0)]
           T == Reconciled(U, s)
           base == ChallengeValue(JudgedChallenge, Cardinality(AwardedRows(T)))
           R == Swept(T, base)
<1>0. Regrade(S, c, x) = R
  BY DEF Regrade
<1>1. /\ U \in Table /\ U[c] = Row(x, x, 0) /\ \A d \in Codes \ {c} : U[d] = S[d]
  <2>1. Row(x, x, 0) \in GradedRow
    BY VerdictsAssumption DEF Row, GradedRow
  <2> QED
    BY <2>1 DEF Table
<1>2. U[c].recorded = TRUE /\ U[c].correct = x
  BY <1>1 DEF Row
<1> HIDE DEF U
<1>3. /\ T \in Table
      /\ \A d \in Codes : /\ T[d].recorded = U[d].recorded /\ T[d].correct = U[d].correct
                          /\ d \notin CorrectRows(U, s) => T[d] = U[d]
      /\ \A t : CorrectRows(T, t) = CorrectRows(U, t)
      /\ SubjectSettled(T, s)
  BY <1>1, ReconciledRows
<1>4. base \in 0..JudgedChallenge.points
  BY AwardsAreFinite, JudgedValues
<1> HIDE DEF T
<1>5. /\ R \in Table
      /\ \A d \in Codes : /\ R[d].recorded = T[d].recorded /\ R[d].correct = T[d].correct
                          /\ R[d].duplicate = T[d].duplicate
                          /\ R[d].points = IF d \in AwardedRows(T) THEN base
                                                                   ELSE T[d].points
      /\ AwardedRows(R) = AwardedRows(T) /\ \A t : CorrectRows(R, t) = CorrectRows(T, t)
  BY <1>3, <1>4, SweptRows
<1>6. Valued(R)
  <2>1. \A d \in AwardedRows(R) : d \in Codes /\ R[d].points = base
    BY <1>5 DEF AwardedRows
  <2>2. base = ChallengeValue(JudgedChallenge, Cardinality(AwardedRows(R)))
    BY <1>5
  <2> HIDE DEF R, base
  <2> QED
    BY <2>1, <2>2 DEF Valued
<1> HIDE DEF R, base
<1>7. ASSUME NEW d \in Codes, CodeSubject[d] # s PROVE T[d] = S[d]
  <2>1. d # c /\ d \notin CorrectRows(U, s)
    BY <1>7 DEF CorrectRows
  <2> QED
    BY <1>1, <1>3, <2>1
<1>8. ASSUME NEW t \in CodeSubjects PROVE SubjectSettled(T, t)
  <2>1. CASE t = s
    BY <1>3, <2>1
  <2>2. CASE t # s
    <3>1. CorrectRows(T, t) = CorrectRows(S, t)
      BY <1>7, <2>2 DEF CorrectRows
    <3>2. \A d \in CorrectRows(T, t) : T[d] = S[d]
      BY <1>7, <2>2 DEF CorrectRows
    <3>3. SubjectSettled(S, t)
      BY <2>2
    <3> QED
      BY <3>1, <3>2, <3>3 DEF SubjectSettled
  <2> QED
    BY <2>1, <2>2
<1>9. Settled(R)
  <2> SUFFICES ASSUME NEW t \in CodeSubjects, NEW d \in CorrectRows(R, t)
               PROVE  IF d = Earliest(CorrectRows(R, t)) THEN ~R[d].duplicate
                      ELSE R[d].duplicate /\ R[d].points = 0
    BY DEF Settled, SubjectSettled
  <2>1. CorrectRows(R, t) = CorrectRows(T, t) /\ d \in Codes
    BY <1>5 DEF CorrectRows
  <2>2. IF d = Earliest(CorrectRows(R, t)) THEN ~T[d].duplicate
        ELSE T[d].duplicate /\ T[d].points = 0
    BY <1>8, <2>1 DEF SubjectSettled
  <2>3. T[d].duplicate => d \notin AwardedRows(T)
    BY DEF AwardedRows
  <2> QED
    BY <1>5, <2>1, <2>2, <2>3
<1> QED
  BY <1>0, <1>1, <1>2, <1>3, <1>5, <1>6, <1>7, <1>9 DEF Judged

(* record_verdict keeps the award with the earliest and the values equal.  *)
LEMMA ScoredSettles ==
    ASSUME NEW S \in Table, Settled(S), Valued(S), NEW c \in Codes, NEW x \in BOOLEAN
    PROVE  Judged(S, Scored(S, c, x), c, x)
<1>s. \A t \in CodeSubjects \ {CodeSubject[c]} : SubjectSettled(S, t)
  BY DEF Settled
<1>1. CASE S[c].recorded
  BY <1>1, <1>s, RegradeSettles DEF Scored
<1>2. CASE ~S[c].recorded
  <2> DEFINE s == CodeSubject[c]
             award == x /\ CorrectRows(S, s) = {}
             base == ChallengeValue(JudgedChallenge, Cardinality(AwardedRows(S)) + 1)
             T == [S EXCEPT ![c] = IF award THEN Row(TRUE, FALSE, base) ELSE Row(x, x, 0)]
             G == RecordGrade(S, c, x)
  <2>1. /\ G = IF award /\ JudgedChallenge.scoring = "dynamic" THEN Swept(T, base) ELSE T
        /\ Scored(S, c, x) = IF G[c].correct /\ G[c].duplicate THEN Regrade(G, c, TRUE) ELSE G
    BY <1>2 DEF RecordGrade, Scored
  <2>2. base \in 0..JudgedChallenge.points /\ 0 \in 0..JudgedChallenge.points
    <3>1. Cardinality(AwardedRows(S)) + 1 \in Nat
      BY AwardsAreFinite
    <3> QED
      BY <3>1, JudgedValues, VerdictsAssumption
  <2>3. c \notin AwardedRows(S) /\ \A t : c \notin CorrectRows(S, t)
    BY <1>2 DEF AwardedRows, CorrectRows
  <2>4. CASE award
    <3>1. /\ T \in Table /\ T[c] = Row(TRUE, FALSE, base)
          /\ \A d \in Codes \ {c} : T[d] = S[d]
      <4>1. Row(TRUE, FALSE, base) \in GradedRow
        BY <2>2 DEF Row, GradedRow
      <4> QED
        BY <2>4, <4>1 DEF Table
    <3>2. /\ T[c].recorded = TRUE /\ T[c].correct = TRUE /\ T[c].duplicate = FALSE
          /\ T[c].points = base
      BY <3>1 DEF Row
    <3>3. CorrectRows(S, s) = {} /\ x = TRUE
      BY <2>4
    <3> HIDE DEF T, award, base
    <3>4. /\ AwardedRows(T) = AwardedRows(S) \cup {c}
          /\ CorrectRows(T, s) = {c}
          /\ \A t : t # s => CorrectRows(T, t) = CorrectRows(S, t)
      BY <2>3, <3>1, <3>2, <3>3 DEF AwardedRows, CorrectRows
    <3>5. base = ChallengeValue(JudgedChallenge, Cardinality(AwardedRows(T)))
      <4>1. Cardinality(AwardedRows(T)) = Cardinality(AwardedRows(S)) + 1
        BY <2>3, <3>4, AwardsAreFinite, FS_AddElement
      <4> QED
        BY <4>1 DEF base
    <3>6. Earliest({c}) = c
      <4>1. c \in {c} /\ \A d \in {c} : c <= d
        BY VerdictsAssumption
      <4> QED
        BY <4>1 DEF Earliest
    <3>7. ASSUME NEW t \in CodeSubjects PROVE SubjectSettled(T, t)
      <4>1. CASE t = s
        BY <3>2, <3>4, <3>6, <4>1 DEF SubjectSettled
      <4>2. CASE t # s
        <5>1. CorrectRows(T, t) = CorrectRows(S, t) /\ SubjectSettled(S, t)
          BY <3>4, <4>2 DEF Settled
        <5>2. \A d \in CorrectRows(S, t) : T[d] = S[d]
          BY <2>3, <3>1 DEF CorrectRows
        <5> QED
          BY <5>1, <5>2 DEF SubjectSettled
      <4> QED
        BY <4>1, <4>2
    <3>8. CASE JudgedChallenge.scoring # "dynamic"
      <4>1. G = T /\ Scored(S, c, x) = T
        BY <2>1, <3>2, <3>8
      <4>2. Valued(T)
        <5>1. ASSUME NEW d \in AwardedRows(T)
              PROVE  T[d].points = ChallengeValue(JudgedChallenge, Cardinality(AwardedRows(T)))
          <6>1. CASE d = c
            BY <3>2, <3>5, <6>1
          <6>2. CASE d # c
            <7>1. d \in AwardedRows(S) /\ T[d] = S[d]
              BY <3>1, <3>4, <6>2 DEF AwardedRows
            <7>2. S[d].points = ChallengeValue(JudgedChallenge, Cardinality(AwardedRows(S)))
              BY <7>1 DEF Valued
            <7> QED
              BY <3>8, <7>1, <7>2 DEF ChallengeValue
          <6> QED
            BY <6>1, <6>2
        <5> QED
          BY <5>1 DEF Valued
      <4> QED
        BY <3>1, <3>2, <3>3, <3>7, <4>1, <4>2 DEF Judged, Settled
    <3>9. CASE JudgedChallenge.scoring = "dynamic"
      <4> DEFINE R == Swept(T, base)
      <4>1. /\ R \in Table
            /\ \A d \in Codes : /\ R[d].recorded = T[d].recorded /\ R[d].correct = T[d].correct
                                /\ R[d].duplicate = T[d].duplicate
                                /\ R[d].points = IF d \in AwardedRows(T) THEN base
                                                                         ELSE T[d].points
            /\ AwardedRows(R) = AwardedRows(T) /\ \A t : CorrectRows(R, t) = CorrectRows(T, t)
        BY <2>2, <3>1, SweptRows
      <4>2. G = R /\ Scored(S, c, x) = R
        <5>1. G = R
          BY <2>1, <2>4, <3>9 DEF award
        <5> QED
          BY <2>1, <3>2, <4>1, <5>1
      <4>3. Valued(R)
        <5>1. \A d \in AwardedRows(R) : d \in Codes /\ R[d].points = base
          BY <4>1 DEF AwardedRows
        <5> HIDE DEF R
        <5> QED
          BY <3>5, <4>1, <5>1 DEF Valued
      <4> HIDE DEF R
      <4>4. ASSUME NEW t \in CodeSubjects PROVE SubjectSettled(R, t)
        <5> SUFFICES ASSUME NEW d \in CorrectRows(R, t)
                     PROVE  IF d = Earliest(CorrectRows(R, t)) THEN ~R[d].duplicate
                            ELSE R[d].duplicate /\ R[d].points = 0
          BY DEF SubjectSettled
        <5>1. CorrectRows(R, t) = CorrectRows(T, t) /\ d \in Codes
          BY <4>1 DEF CorrectRows
        <5>2. IF d = Earliest(CorrectRows(R, t)) THEN ~T[d].duplicate
              ELSE T[d].duplicate /\ T[d].points = 0
          BY <3>7, <5>1 DEF SubjectSettled
        <5>3. T[d].duplicate => d \notin AwardedRows(T)
          BY DEF AwardedRows
        <5> QED
          BY <4>1, <5>1, <5>2, <5>3
      <4>5. \A d \in Codes \ {c} : /\ R[d].recorded = S[d].recorded /\ R[d].correct = S[d].correct
                                   /\ R[d].duplicate = S[d].duplicate
        BY <3>1, <4>1
      <4> QED
        BY <3>2, <3>3, <4>1, <4>2, <4>3, <4>4, <4>5 DEF Judged, Settled
    <3> QED
      BY <3>8, <3>9
  <2>5. CASE ~award
    <3>1. /\ T \in Table /\ T[c] = Row(x, x, 0) /\ \A d \in Codes \ {c} : T[d] = S[d]
      <4>1. Row(x, x, 0) \in GradedRow
        BY <2>2 DEF Row, GradedRow
      <4> QED
        BY <2>5, <4>1 DEF Table
    <3> HIDE DEF T
    <3>2. T[c].recorded = TRUE /\ T[c].correct = x /\ T[c].duplicate = x
      BY <3>1 DEF Row
    <3>3. G = T
      BY <2>1, <2>5
    <3> HIDE DEF award, base, G
    <3>4. ASSUME NEW t, t # s \/ ~x
          PROVE  /\ CorrectRows(T, t) = CorrectRows(S, t)
                 /\ \A d \in CorrectRows(S, t) : T[d] = S[d]
      BY <2>3, <3>1, <3>2, <3>4 DEF CorrectRows
    <3>5. ASSUME NEW t \in CodeSubjects, t # s \/ ~x PROVE SubjectSettled(T, t)
      <4>1. SubjectSettled(S, t) /\ CorrectRows(T, t) = CorrectRows(S, t)
        BY <3>4, <3>5 DEF Settled
      <4>2. \A d \in CorrectRows(S, t) : T[d] = S[d]
        BY <3>4, <3>5
      <4> QED
        BY <4>1, <4>2 DEF SubjectSettled
    <3>6. CASE x
      <4>1. Scored(S, c, x) = Regrade(T, c, TRUE)
        BY <2>1, <3>2, <3>3, <3>6
      <4>2. Judged(T, Regrade(T, c, TRUE), c, TRUE)
        BY <3>1, <3>5, RegradeSettles
      <4>3. Judged(S, Regrade(T, c, TRUE), c, TRUE)
        BY <3>1, <4>2 DEF Judged
      <4> QED
        BY <3>6, <4>1, <4>3
    <3>7. CASE ~x
      <4>1. Scored(S, c, x) = T
        BY <2>1, <3>2, <3>3, <3>7
      <4>2. AwardedRows(T) = AwardedRows(S) /\ \A d \in AwardedRows(S) : T[d] = S[d]
        BY <2>3, <3>1, <3>2, <3>7 DEF AwardedRows
      <4>3. Valued(T)
        BY <4>2 DEF Valued
      <4> QED
        BY <3>1, <3>2, <3>5, <3>7, <4>1, <4>3 DEF Judged, Settled
    <3> QED
      BY <3>6, <3>7
  <2> QED
    BY <2>4, <2>5
<1> QED
  BY <1>1, <1>2

(* So only the subject of the judged code can win or lose an award.        *)
LEMMA OthersKeepAwards ==
    ASSUME NEW S \in Table, NEW T, NEW c \in Codes, NEW x, Judged(S, T, c, x),
           NEW t, t # CodeSubject[c]
    PROVE  HasAward(T, t) <=> HasAward(S, t)
<1>1. \A d \in Codes : CodeSubject[d] = t => (d \in AwardedRows(T) <=> d \in AwardedRows(S))
  BY DEF Judged, AwardedRows
<1>2. AwardedRows(S) \subseteq Codes /\ AwardedRows(T) \subseteq Codes
  BY DEF AwardedRows
<1> QED
  BY <1>1, <1>2 DEF HasAward

(* A judging has its code, and an event waits only for a finished one.     *)
JudgingsInv ==
    \A j \in Ids : /\ j > made => judging[j].status = "none"
                   /\ judging[j].status # "none" => judging[j].code \in Codes
                   /\ outbox[j].event # "none" => judging[j].status = "done"

(* The newest finished judging exists, and the row says what it said.      *)
LatestCounts ==
    \A c \in Codes :
        Finished(c) # {} =>
            \E m \in Finished(c) : /\ \A k \in Finished(c) : k <= m
                                   /\ graded[c].recorded
                                   /\ graded[c].correct = judging[m].accepted

VerdictInv == /\ VerdictTypeOK /\ JudgingsInv /\ LatestCounts
              /\ Settled(graded) /\ Valued(graded) /\ EventsBalance

(* Finished judgings are left alone. *)
DoneKept == \A j \in Ids : /\ judging'[j].status = "done" <=> judging[j].status = "done"
                           /\ judging[j].status = "done" => judging'[j] = judging[j]

(* Judgings are numbered, and finitely many.                               *)
LEMMA IdsAreNatural == Ids \subseteq Nat /\ IsFiniteSet(Ids)
<1>1. 1 \in Int /\ MaxJudgings \in Int
  BY VerdictsAssumption
<1>2. IsFiniteSet(1..MaxJudgings)
  BY <1>1, FS_Interval
<1> QED
  BY <1>2 DEF Ids

(* A new row of the judgings table. *)
LEMMA JudgingAdded ==
    ASSUME VerdictTypeOK, JudgingsInv, made < MaxJudgings, NEW c \in Codes,
           NEW origin \in Origins, NEW status \in {"queued", "ended"},
           NEW accepted \in BOOLEAN, made' = made + 1, outbox' = outbox,
           judging' = [judging EXCEPT ![made + 1] = Inserted(c, origin, status, accepted)]
    PROVE  /\ judging' \in [Ids -> Judging] /\ made' \in 0..MaxJudgings
           /\ JudgingsInv' /\ DoneKept
<1> DEFINE new == Inserted(c, origin, status, accepted)
<1>1. made \in Nat /\ made + 1 \in Ids /\ judging[made + 1].status = "none"
  <2>1. made \in Nat /\ made + 1 \in Ids /\ made + 1 > made
    BY VerdictsAssumption DEF VerdictTypeOK, Ids
  <2> QED
    BY <2>1 DEF JudgingsInv
<1>2. new \in Judging /\ new.status = status /\ new.code = c
  BY DEF Inserted, Judging, JudgingStatuses
<1>3. judging' \in [Ids -> Judging] /\ made' \in 0..MaxJudgings
  BY <1>1, <1>2, VerdictsAssumption DEF VerdictTypeOK
<1>4. judging'[made + 1] = new /\ \A j \in Ids \ {made + 1} : judging'[j] = judging[j]
  BY <1>1 DEF VerdictTypeOK
<1> HIDE DEF new
<1>5. DoneKept
  BY <1>1, <1>2, <1>4 DEF DoneKept
<1>6. JudgingsInv'
  <2> SUFFICES ASSUME NEW j \in Ids
               PROVE  /\ j > made' => judging'[j].status = "none"
                      /\ judging'[j].status # "none" => judging'[j].code \in Codes
                      /\ outbox'[j].event # "none" => judging'[j].status = "done"
    BY DEF JudgingsInv
  <2>1. j \in Nat
    BY IdsAreNatural
  <2>2. CASE j = made + 1
    BY <1>1, <1>2, <1>4, <2>2 DEF JudgingsInv
  <2>3. CASE j # made + 1
    BY <1>1, <1>4, <2>1, <2>3 DEF JudgingsInv
  <2> QED
    BY <2>2, <2>3
<1> QED
  BY <1>3, <1>5, <1>6

(* A judging under way moves on. *)
LEMMA JudgingMoved ==
    ASSUME VerdictTypeOK, JudgingsInv, NEW j \in Ids, NEW q \in Judging,
           judging[j].status \in {"queued", "running"},
           q.status \in {"queued", "running", "ended", "failed"},
           q.code = judging[j].code, judging' = [judging EXCEPT ![j] = q],
           made' = made, outbox' = outbox
    PROVE  judging' \in [Ids -> Judging] /\ JudgingsInv' /\ DoneKept
<1>1. /\ judging' \in [Ids -> Judging] /\ judging'[j] = q
      /\ \A k \in Ids \ {j} : judging'[k] = judging[k]
  BY DEF VerdictTypeOK
<1>2. DoneKept
  BY <1>1 DEF DoneKept
<1>3. JudgingsInv'
  <2> SUFFICES ASSUME NEW k \in Ids
               PROVE  /\ k > made' => judging'[k].status = "none"
                      /\ judging'[k].status # "none" => judging'[k].code \in Codes
                      /\ outbox'[k].event # "none" => judging'[k].status = "done"
    BY DEF JudgingsInv
  <2>1. CASE k = j
    BY <1>1, <2>1 DEF JudgingsInv
  <2>2. CASE k # j
    BY <1>1, <2>2 DEF JudgingsInv
  <2> QED
    BY <2>1, <2>2
<1> QED
  BY <1>1, <1>2, <1>3

(* Everything but recording and emitting leaves the board alone.           *)
LEMMA QuietVerdict ==
    ASSUME VerdictTypeOK, JudgingsInv, [VerdictNext]_verdictVars,
           \A j \in Ids : ~RecordVerdict(j) /\ ~EmitRecorded(j)
    PROVE  /\ VerdictTypeOK' /\ JudgingsInv' /\ DoneKept
           /\ graded' = graded /\ outbox' = outbox /\ net' = net
<1> DEFINE Quietly == /\ VerdictTypeOK' /\ JudgingsInv' /\ DoneKept
                      /\ graded' = graded /\ outbox' = outbox /\ net' = net
<1>1. ASSUME NEW c \in Codes, SubmitCode(c) PROVE Quietly
  <2>1. judging' \in [Ids -> Judging] /\ made' \in 0..MaxJudgings /\ JudgingsInv' /\ DoneKept
    BY <1>1, JudgingAdded DEF SubmitCode, Origins
  <2> QED
    BY <1>1, <2>1 DEF SubmitCode, VerdictTypeOK
<1>2. ASSUME NEW c \in Codes, RejudgeCheck(c) PROVE Quietly
  <2>1. asks' \in 0..MaxAsks /\ asks + 1 \in 1..MaxAsks
    BY <1>2, VerdictsAssumption DEF RejudgeCheck, VerdictTypeOK
  <2>2. ask' \subseteq Codes \X (1..MaxAsks)
    BY <1>2, <2>1 DEF RejudgeCheck, VerdictTypeOK
  <2>3. JudgingsInv' /\ DoneKept
    BY <1>2 DEF RejudgeCheck, JudgingsInv, DoneKept
  <2> QED
    BY <1>2, <2>1, <2>2, <2>3 DEF RejudgeCheck, VerdictTypeOK
<1>3. ASSUME NEW c \in Codes, OverrideVerdict(c) PROVE Quietly
  <2>1. PICK accepted \in BOOLEAN :
           judging' = [judging EXCEPT ![made + 1] = Inserted(c, "override", "ended", accepted)]
    BY <1>3 DEF OverrideVerdict
  <2>2. judging' \in [Ids -> Judging] /\ made' \in 0..MaxJudgings /\ JudgingsInv' /\ DoneKept
    BY <1>3, <2>1, JudgingAdded DEF OverrideVerdict, Origins
  <2>3. asks' \in 0..MaxAsks
    BY <1>3, VerdictsAssumption DEF OverrideVerdict, VerdictTypeOK
  <2> QED
    BY <1>3, <2>2, <2>3 DEF OverrideVerdict, VerdictTypeOK
<1>4. ASSUME NEW j \in Ids, NEW status \in {"queued", "running", "failed"},
             judging' = [judging EXCEPT ![j].status = status],
             judging[j].status \in {"queued", "running"}, made' = made, outbox' = outbox
      PROVE  judging' \in [Ids -> Judging] /\ JudgingsInv' /\ DoneKept
  <2> DEFINE q == [judging[j] EXCEPT !.status = status]
  <2>1. judging[j] \in Judging
    BY DEF VerdictTypeOK
  <2>2. q \in Judging /\ q.status = status /\ q.code = judging[j].code
    BY <2>1 DEF Judging, JudgingStatuses
  <2>3. judging' = [judging EXCEPT ![j] = q]
    BY <1>4
  <2> HIDE DEF q
  <2> QED
    BY <1>4, <2>2, <2>3, JudgingMoved
<1>5. ASSUME NEW j \in Ids, Start(j) PROVE Quietly
  BY <1>4, <1>5 DEF Start, VerdictTypeOK
<1>6. ASSUME NEW j \in Ids, Retry(j) PROVE Quietly
  <2>1. retries' \in 0..MaxRetries
    BY <1>6, VerdictsAssumption DEF Retry, VerdictTypeOK
  <2> QED
    BY <1>4, <1>6, <2>1 DEF Retry, VerdictTypeOK
<1>7. ASSUME NEW j \in Ids, GiveUp(j) PROVE Quietly
  BY <1>4, <1>7 DEF GiveUp, VerdictTypeOK
<1>8. ASSUME NEW j \in Ids, RunEnds(j) PROVE Quietly
  <2>1. PICK accepted \in BOOLEAN :
           judging' = [judging EXCEPT
              ![j] = [@ EXCEPT !.status = "ended", !.accepted = accepted]]
    BY <1>8 DEF RunEnds
  <2> DEFINE q == [judging[j] EXCEPT !.status = "ended", !.accepted = accepted]
  <2>2. judging[j] \in Judging
    BY DEF VerdictTypeOK
  <2>3. q \in Judging /\ q.status = "ended" /\ q.code = judging[j].code
    BY <2>2 DEF Judging, JudgingStatuses
  <2>4. judging' = [judging EXCEPT ![j] = q]
    BY <2>1
  <2> HIDE DEF q
  <2>5. judging' \in [Ids -> Judging] /\ JudgingsInv' /\ DoneKept
    BY <1>8, <2>3, <2>4, JudgingMoved DEF RunEnds
  <2> QED
    BY <1>8, <2>5 DEF RunEnds, VerdictTypeOK
<1>9. ASSUME NEW a \in ask, RejudgeAdd(a) PROVE Quietly
  <2>1. a[1] \in Codes
    BY DEF VerdictTypeOK
  <2>2. judging' \in [Ids -> Judging] /\ made' \in 0..MaxJudgings /\ JudgingsInv' /\ DoneKept
    BY <1>9, <2>1, JudgingAdded DEF RejudgeAdd, Origins
  <2> QED
    BY <1>9, <2>2 DEF RejudgeAdd, VerdictTypeOK
<1>10. ASSUME BulkRead PROVE Quietly
  <2>1. asks' \in 0..MaxAsks
    BY <1>10, VerdictsAssumption DEF BulkRead, VerdictTypeOK
  <2>2. \A only : Chosen(only) \subseteq Codes
    BY DEF Chosen
  <2>3. bulk' \in [reading : BOOLEAN, codes : SUBSET Codes]
    BY <1>10, <2>2 DEF BulkRead
  <2>4. JudgingsInv' /\ DoneKept
    BY <1>10 DEF BulkRead, JudgingsInv, DoneKept
  <2> QED
    BY <1>10, <2>1, <2>3, <2>4 DEF BulkRead, VerdictTypeOK
<1>11. ASSUME BulkAdd PROVE Quietly
  <2> DEFINE at(c) == made + Cardinality({d \in bulk.codes : d <= c})
             new(j) == Inserted(CHOOSE c \in bulk.codes : j = at(c), "bulk", "queued", FALSE)
  <2>1. /\ judging' = [j \in Ids |-> IF \E c \in bulk.codes : j = at(c) THEN new(j)
                                                                     ELSE judging[j]]
        /\ made' = made + Cardinality(bulk.codes) /\ made' <= MaxJudgings
        /\ bulk' = [reading |-> FALSE, codes |-> {}]
        /\ UNCHANGED <<graded, ask, outbox, net, bloods, asks, retries>>
    BY <1>11 DEF BulkAdd
  <2>2. /\ bulk.codes \subseteq Codes /\ IsFiniteSet(bulk.codes)
        /\ Cardinality(bulk.codes) \in Nat /\ made \in Nat
    <3>1. bulk.codes \subseteq Codes /\ made \in Nat
      BY VerdictsAssumption DEF VerdictTypeOK
    <3> QED
      BY <3>1, VerdictsAssumption, FS_Subset, FS_CardinalityType
  <2>3. ASSUME NEW c \in bulk.codes PROVE at(c) > made /\ at(c) <= made' /\ at(c) \in Nat
    <3> DEFINE D == {d \in bulk.codes : d <= c}
    <3>1. D \subseteq bulk.codes /\ c \in D
      <4>1. c \in Nat
        BY <2>2, VerdictsAssumption
      <4>2. c <= c
        BY <4>1
      <4> QED
        BY <4>2
    <3> HIDE DEF D
    <3>2. /\ IsFiniteSet(D) /\ Cardinality(D) <= Cardinality(bulk.codes)
          /\ Cardinality(D) \in Nat
      BY <2>2, <3>1, FS_Subset, FS_CardinalityType
    <3>3. Cardinality(D) # 0
      BY <3>1, <3>2, FS_EmptySet
    <3>4. at(c) = made + Cardinality(D)
      BY DEF D
    <3> HIDE DEF at
    <3> QED
      BY <2>1, <2>2, <3>2, <3>3, <3>4
  <2>4. ASSUME NEW j \in Ids, \E c \in bulk.codes : j = at(c)
        PROVE  /\ new(j) \in Judging /\ new(j).status = "queued" /\ new(j).code \in Codes
               /\ judging[j].status = "none" /\ j <= made' /\ judging'[j] = new(j)
    <3>1. (CHOOSE c \in bulk.codes : j = at(c)) \in Codes
      BY <2>2, <2>4
    <3>2. new(j) \in Judging /\ new(j).status = "queued" /\ new(j).code \in Codes
      BY <3>1 DEF Inserted, Judging, JudgingStatuses, Origins
    <3>3. j > made /\ j <= made'
      BY <2>3, <2>4
    <3> QED
      BY <2>1, <2>4, <3>2, <3>3 DEF JudgingsInv
  <2>5. ASSUME NEW j \in Ids, ~\E c \in bulk.codes : j = at(c) PROVE judging'[j] = judging[j]
    BY <2>1, <2>5
  <2> HIDE DEF at, new
  <2>6. judging' \in [Ids -> Judging]
    BY <2>1, <2>4, <2>5 DEF VerdictTypeOK
  <2>7. made' \in 0..MaxJudgings /\ made <= made'
    BY <2>1, <2>2, VerdictsAssumption
  <2>8. DoneKept
    BY <2>4, <2>5 DEF DoneKept
  <2>9. JudgingsInv'
    <3> SUFFICES ASSUME NEW j \in Ids
                 PROVE  /\ j > made' => judging'[j].status = "none"
                        /\ judging'[j].status # "none" => judging'[j].code \in Codes
                        /\ outbox'[j].event # "none" => judging'[j].status = "done"
      BY DEF JudgingsInv
    <3>1. j \in Nat /\ made' \in Nat
      BY <2>7, IdsAreNatural
    <3>2. CASE \E c \in bulk.codes : j = at(c)
      BY <2>1, <2>4, <3>1, <3>2 DEF JudgingsInv
    <3>3. CASE ~\E c \in bulk.codes : j = at(c)
      BY <2>1, <2>2, <2>5, <2>7, <3>1, <3>3 DEF JudgingsInv
    <3> QED
      BY <3>2, <3>3
  <2> QED
    BY <2>1, <2>6, <2>7, <2>8, <2>9 DEF VerdictTypeOK
<1>12. ASSUME UNCHANGED verdictVars PROVE Quietly
  <2>1. JudgingsInv' /\ DoneKept
    BY <1>12 DEF verdictVars, JudgingsInv, DoneKept
  <2> QED
    BY <1>12, <2>1 DEF verdictVars, VerdictTypeOK
<1> HIDE DEF Quietly
<1>13. Quietly
  <2>1. ASSUME NEW c \in Codes, SubmitCode(c) \/ RejudgeCheck(c) \/ OverrideVerdict(c)
        PROVE  Quietly
    BY <1>1, <1>2, <1>3, <2>1
  <2>2. ASSUME NEW j \in Ids, \/ Start(j) \/ Retry(j) \/ GiveUp(j) \/ RunEnds(j)
                              \/ RecordVerdict(j) \/ EmitRecorded(j)
        PROVE  Quietly
    BY <1>5, <1>6, <1>7, <1>8, <2>2
  <2> QED
    BY <1>9, <1>10, <1>11, <1>12, <2>1, <2>2 DEF VerdictNext
<1> QED
  BY <1>13 DEF Quietly

(* Whose events of a kind wait. *)
WaitingFor(s, event) == {j \in Ids : /\ outbox[j].event = event
                                     /\ CodeSubject[judging[j].code] = s}

(* The events still to be emitted are finitely many.                       *)
LEMMA WaitingIsFinite ==
    \A s, event : /\ IsFiniteSet(WaitingFor(s, event))
                  /\ Waiting(s, event) = Cardinality(WaitingFor(s, event))
                  /\ Waiting(s, event) \in Nat
<1> TAKE s, event
<1>1. WaitingFor(s, event) \subseteq Ids
  BY DEF WaitingFor
<1>2. IsFiniteSet(WaitingFor(s, event)) /\ Cardinality(WaitingFor(s, event)) \in Nat
  BY <1>1, IdsAreNatural, FS_Subset, FS_CardinalityType
<1> QED
  BY <1>2 DEF Waiting, WaitingFor

(* The steps that neither record nor emit keep the invariant.              *)
LEMMA QuietBoard ==
    ASSUME VerdictInv, [VerdictNext]_verdictVars,
           \A j \in Ids : ~RecordVerdict(j) /\ ~EmitRecorded(j)
    PROVE  VerdictInv'
<1>1. /\ VerdictTypeOK' /\ JudgingsInv' /\ DoneKept
      /\ graded' = graded /\ outbox' = outbox /\ net' = net
  BY QuietVerdict DEF VerdictInv
<1>2. LatestCounts'
  <2> SUFFICES ASSUME NEW c \in Codes, Finished(c)' # {}
               PROVE  \E m \in Finished(c)' : /\ \A k \in Finished(c)' : k <= m
                                              /\ graded'[c].recorded
                                              /\ graded'[c].correct = judging'[m].accepted
    BY DEF LatestCounts
  <2>1. Finished(c)' = Finished(c)
    BY <1>1 DEF DoneKept, Finished, JudgingsOf
  <2>2. \A m \in Finished(c) : judging'[m] = judging[m]
    BY <1>1 DEF DoneKept, Finished, JudgingsOf
  <2> QED
    BY <1>1, <2>1, <2>2 DEF VerdictInv, LatestCounts
<1>3. Settled(graded)' /\ Valued(graded)'
  BY <1>1 DEF VerdictInv, Settled, SubjectSettled, Valued, CorrectRows, AwardedRows
<1>4. ASSUME NEW s, NEW event \in {"solved", "revoked"} PROVE Waiting(s, event)' = Waiting(s, event)
  <2>1. \A j \in Ids : outbox[j].event = event => judging'[j] = judging[j]
    BY <1>1 DEF VerdictInv, JudgingsInv, DoneKept
  <2> QED
    BY <1>1, <2>1 DEF Waiting
<1>5. EventsBalance'
  <2>1. \A s : HasAward(graded, s)' <=> HasAward(graded, s)
    BY <1>1 DEF HasAward, AwardedRows
  <2> QED
    BY <1>1, <1>4, <2>1 DEF VerdictInv, EventsBalance
<1> QED
  BY <1>1, <1>2, <1>3, <1>5 DEF VerdictInv

(* Emitting an event keeps the balance.                                    *)
LEMMA EmittedBoard ==
    ASSUME VerdictInv, NEW j \in Ids, EmitRecorded(j)
    PROVE  VerdictInv'
<1>0. VerdictTypeOK /\ JudgingsInv
  BY DEF VerdictInv
<1> DEFINE s == CodeSubject[judging[j].code]
<1>1. /\ outbox[j].event # "none" /\ judging' = judging /\ graded' = graded /\ made' = made
      /\ outbox' = [outbox EXCEPT ![j] = Silence]
      /\ net' = [net EXCEPT ![s] = IF outbox[j].event = "solved" THEN @ + 1 ELSE @ - 1]
  BY DEF EmitRecorded
<1>2. outbox[j].event \in {"solved", "revoked"} /\ s \in CodeSubjects
  <2>1. outbox[j].event \in Events /\ judging[j].code \in Codes
    BY <1>0, <1>1 DEF VerdictTypeOK, JudgingsInv
  <2> QED
    BY <1>1, <2>1 DEF Events, CodeSubjects
<1>3. outbox'[j] = Silence /\ \A k \in Ids \ {j} : outbox'[k] = outbox[k]
  BY <1>0, <1>1 DEF VerdictTypeOK
<1>4. VerdictTypeOK'
  <2>1. Silence \in [event : Events, first : BOOLEAN]
    BY DEF Silence, Events
  <2>2. outbox' \in [Ids -> [event : Events, first : BOOLEAN]]
    BY <1>0, <1>1, <2>1 DEF VerdictTypeOK
  <2>3. net' \in [CodeSubjects -> Int]
    BY <1>0, <1>1, <1>2 DEF VerdictTypeOK
  <2>4. bloods' \subseteq CodeSubjects
    BY <1>0, <1>2 DEF EmitRecorded, VerdictTypeOK
  <2> QED
    BY <1>0, <2>2, <2>3, <2>4 DEF EmitRecorded, VerdictTypeOK
<1>5. JudgingsInv'
  <2> SUFFICES ASSUME NEW k \in Ids
               PROVE  /\ k > made' => judging'[k].status = "none"
                      /\ judging'[k].status # "none" => judging'[k].code \in Codes
                      /\ outbox'[k].event # "none" => judging'[k].status = "done"
    BY DEF JudgingsInv
  <2>1. outbox'[k].event # "none" => k # j
    BY <1>3 DEF Silence
  <2> QED
    BY <1>0, <1>1, <1>3, <2>1 DEF JudgingsInv
<1>6. LatestCounts' /\ Settled(graded)' /\ Valued(graded)'
  BY <1>1 DEF VerdictInv, LatestCounts, Finished, JudgingsOf, Settled, SubjectSettled,
     Valued, CorrectRows, AwardedRows
<1>7. ASSUME NEW t, NEW event \in {"solved", "revoked"}
      PROVE  Waiting(t, event)' = IF t = s /\ event = outbox[j].event
                                  THEN Waiting(t, event) - 1 ELSE Waiting(t, event)
  <2>1. Waiting(t, event)' = Cardinality(WaitingFor(t, event)')
    BY DEF Waiting, WaitingFor
  <2>2. WaitingFor(t, event)' = WaitingFor(t, event) \ {j}
    <3>1. outbox'[j].event # event
      BY <1>3, <1>7 DEF Silence
    <3> QED
      BY <1>1, <1>3, <3>1 DEF WaitingFor
  <2>3. j \in WaitingFor(t, event) <=> t = s /\ event = outbox[j].event
    BY DEF WaitingFor
  <2>4. Cardinality(WaitingFor(t, event) \ {j}) =
           IF j \in WaitingFor(t, event) THEN Cardinality(WaitingFor(t, event)) - 1
                                         ELSE Cardinality(WaitingFor(t, event))
    BY WaitingIsFinite, FS_RemoveElement
  <2> QED
    BY <2>1, <2>2, <2>3, <2>4, WaitingIsFinite
<1>8. EventsBalance'
  <2> SUFFICES ASSUME NEW t \in CodeSubjects
               PROVE  net'[t] + Waiting(t, "solved")' - Waiting(t, "revoked")'
                        = IF HasAward(graded, t)' THEN 1 ELSE 0
    BY DEF EventsBalance
  <2>1. net[t] + Waiting(t, "solved") - Waiting(t, "revoked")
          = IF HasAward(graded, t) THEN 1 ELSE 0
    BY DEF VerdictInv, EventsBalance
  <2>2. HasAward(graded, t)' <=> HasAward(graded, t)
    BY <1>1 DEF HasAward, AwardedRows
  <2>3. net'[t] = IF t # s THEN net[t]
                  ELSE IF outbox[j].event = "solved" THEN net[t] + 1 ELSE net[t] - 1
    BY <1>0, <1>1, <1>2 DEF VerdictTypeOK
  <2>4. net[t] \in Int /\ Waiting(t, "solved") \in Nat /\ Waiting(t, "revoked") \in Nat
    BY <1>0, WaitingIsFinite DEF VerdictTypeOK
  <2>5. /\ Waiting(t, "solved")' = IF t = s /\ "solved" = outbox[j].event
                                   THEN Waiting(t, "solved") - 1 ELSE Waiting(t, "solved")
        /\ Waiting(t, "revoked")' = IF t = s /\ "revoked" = outbox[j].event
                                    THEN Waiting(t, "revoked") - 1 ELSE Waiting(t, "revoked")
    BY <1>7
  <2> HIDE DEF s
  <2> QED
    BY <1>2, <2>1, <2>2, <2>3, <2>4, <2>5
<1> QED
  BY <1>4, <1>5, <1>6, <1>8 DEF VerdictInv

(* Recording a verdict, with sweep and reconciliation, keeps the invariant.*)
LEMMA RecordedBoard ==
    ASSUME VerdictInv, NEW j \in Ids, RecordVerdict(j)
    PROVE  VerdictInv'
<1>0. /\ VerdictTypeOK /\ JudgingsInv /\ LatestCounts /\ Settled(graded) /\ Valued(graded)
      /\ graded \in Table
  BY DEF VerdictInv, VerdictTypeOK, Table, GradedRow
<1> DEFINE c == judging[j].code
           x == judging[j].accepted
           s == CodeSubject[c]
<1>1. /\ judging[j].status = "ended" /\ made' = made /\ net' = net
      /\ judging' = [judging EXCEPT ![j].status = "done"]
  BY DEF RecordVerdict
<1>2. c \in Codes /\ x \in BOOLEAN /\ outbox[j].event = "none"
  BY <1>0, <1>1 DEF JudgingsInv, VerdictTypeOK, Judging
<1>3. /\ judging' \in [Ids -> Judging] /\ judging'[j].status = "done"
      /\ judging'[j].code = c /\ judging'[j].accepted = x
      /\ \A k \in Ids \ {j} : judging'[k] = judging[k]
  <2>1. judging[j] \in Judging
    BY <1>0 DEF VerdictTypeOK
  <2>2. [judging[j] EXCEPT !.status = "done"] \in Judging
    BY <2>1 DEF Judging, JudgingStatuses
  <2>3. /\ judging'[j] = [judging[j] EXCEPT !.status = "done"]
        /\ \A k \in Ids \ {j} : judging'[k] = judging[k]
    BY <1>0, <1>1 DEF VerdictTypeOK
  <2>4. judging' \in [Ids -> Judging]
    BY <1>0, <1>1, <2>2 DEF VerdictTypeOK
  <2> QED
    BY <2>1, <2>3, <2>4 DEF Judging
<1>4. CASE IsLatestFinished(j)
  <2>1. /\ graded' = Scored(graded, c, x)
        /\ outbox' = [outbox EXCEPT ![j] = Announcement(graded, graded', s)]
    BY <1>4 DEF RecordVerdict
  <2>2. Judged(graded, graded', c, x)
    BY <1>0, <1>2, <2>1, ScoredSettles
  <2> DEFINE said == Announcement(graded, graded', s)
  <2>3. /\ said \in [event : Events, first : BOOLEAN]
        /\ said.event = IF ~HasAward(graded, s) /\ HasAward(graded', s) THEN "solved"
                        ELSE IF HasAward(graded, s) /\ ~HasAward(graded', s) THEN "revoked"
                        ELSE "none"
    BY DEF Announcement, Events
  <2>4. outbox'[j] = said /\ \A k \in Ids \ {j} : outbox'[k] = outbox[k]
    BY <1>0, <2>1 DEF VerdictTypeOK
  <2>5. outbox' \in [Ids -> [event : Events, first : BOOLEAN]]
    BY <1>0, <2>1, <2>3 DEF VerdictTypeOK
  <2> HIDE DEF said
  <2>6. VerdictTypeOK'
    <3>1. graded' \in Table
      BY <2>2 DEF Judged
    <3> QED
      BY <1>0, <1>3, <2>5, <3>1 DEF RecordVerdict, VerdictTypeOK, Table, GradedRow
  <2>7. JudgingsInv'
    <3> SUFFICES ASSUME NEW k \in Ids
                 PROVE  /\ k > made' => judging'[k].status = "none"
                        /\ judging'[k].status # "none" => judging'[k].code \in Codes
                        /\ outbox'[k].event # "none" => judging'[k].status = "done"
      BY DEF JudgingsInv
    <3>1. CASE k = j
      BY <1>0, <1>1, <1>2, <1>3, <3>1 DEF JudgingsInv
    <3>2. CASE k # j
      BY <1>0, <1>1, <1>3, <2>4, <3>2 DEF JudgingsInv
    <3> QED
      BY <3>1, <3>2
  <2>8. LatestCounts'
    <3> SUFFICES ASSUME NEW d \in Codes, Finished(d)' # {}
                 PROVE  \E m \in Finished(d)' : /\ \A k \in Finished(d)' : k <= m
                                                /\ graded'[d].recorded
                                                /\ graded'[d].correct = judging'[m].accepted
      BY DEF LatestCounts
    <3>1. CASE d = c
      <4>1. \A k \in Finished(d)' : k = j \/ k \in Finished(d)
        BY <1>3, <3>1 DEF Finished, JudgingsOf
      <4>2. j \in Finished(d)'
        BY <1>3, <3>1 DEF Finished, JudgingsOf
      <4>3. \A k \in Finished(d) : k < j /\ k \in Nat /\ j \in Nat
        BY <1>4, <3>1, IdsAreNatural DEF IsLatestFinished, Finished, JudgingsOf
      <4>4. j <= j
        BY IdsAreNatural
      <4>5. \A k \in Finished(d)' : k <= j
        BY <4>1, <4>3, <4>4
      <4>6. graded'[d].recorded /\ graded'[d].correct = judging'[j].accepted
        BY <1>3, <2>2, <3>1 DEF Judged
      <4> QED
        BY <3>1, <4>2, <4>5, <4>6
    <3>2. CASE d # c
      <4>1. Finished(d)' = Finished(d) /\ \A m \in Finished(d) : judging'[m] = judging[m]
        BY <1>1, <1>3, <3>2 DEF Finished, JudgingsOf
      <4>2. graded'[d].recorded = graded[d].recorded /\ graded'[d].correct = graded[d].correct
        BY <2>2, <3>2 DEF Judged
      <4> QED
        BY <1>0, <4>1, <4>2 DEF LatestCounts
    <3> QED
      BY <3>1, <3>2
  <2>9. Settled(graded)' /\ Valued(graded)'
    BY <2>2 DEF Judged, Settled, SubjectSettled, Valued, CorrectRows, AwardedRows
  <2>10. ASSUME NEW t, NEW event \in {"solved", "revoked"}
         PROVE  Waiting(t, event)' = IF t = s /\ event = said.event
                                     THEN Waiting(t, event) + 1 ELSE Waiting(t, event)
    <3>1. Waiting(t, event)' = Cardinality(WaitingFor(t, event)')
      BY DEF Waiting, WaitingFor
    <3>2. j \notin WaitingFor(t, event)
      BY <1>2, <2>10 DEF WaitingFor
    <3>3. CASE t = s /\ event = said.event
      <4>1. WaitingFor(t, event)' = WaitingFor(t, event) \cup {j}
        BY <1>3, <2>4, <3>3 DEF WaitingFor
      <4>2. Cardinality(WaitingFor(t, event) \cup {j}) = Cardinality(WaitingFor(t, event)) + 1
        BY <3>2, WaitingIsFinite, FS_AddElement
      <4> QED
        BY <3>1, <3>3, <4>1, <4>2, WaitingIsFinite
    <3>4. CASE ~(t = s /\ event = said.event)
      <4>1. WaitingFor(t, event)' = WaitingFor(t, event)
        BY <1>2, <1>3, <2>4, <2>10, <3>4 DEF WaitingFor
      <4> QED
        BY <3>1, <3>4, <4>1, WaitingIsFinite
    <3> QED
      BY <3>3, <3>4
  <2>11. EventsBalance'
    <3> SUFFICES ASSUME NEW t \in CodeSubjects
                 PROVE  net[t] + Waiting(t, "solved")' - Waiting(t, "revoked")'
                          = IF HasAward(graded', t) THEN 1 ELSE 0
      BY <1>1 DEF EventsBalance, HasAward, AwardedRows
    <3>1. net[t] + Waiting(t, "solved") - Waiting(t, "revoked")
            = IF HasAward(graded, t) THEN 1 ELSE 0
      BY DEF VerdictInv, EventsBalance
    <3>2. net[t] \in Int /\ Waiting(t, "solved") \in Nat /\ Waiting(t, "revoked") \in Nat
      BY <1>0, WaitingIsFinite DEF VerdictTypeOK
    <3>3. /\ Waiting(t, "solved")' = IF t = s /\ "solved" = said.event
                                     THEN Waiting(t, "solved") + 1 ELSE Waiting(t, "solved")
          /\ Waiting(t, "revoked")' = IF t = s /\ "revoked" = said.event
                                      THEN Waiting(t, "revoked") + 1 ELSE Waiting(t, "revoked")
      BY <2>10
    <3>4. CASE t = s
      BY <2>3, <3>1, <3>2, <3>3, <3>4
    <3>5. CASE t # s
      <4>1. HasAward(graded', t) <=> HasAward(graded, t)
        BY <1>0, <1>2, <2>2, <3>5, OthersKeepAwards
      <4> QED
        BY <3>1, <3>3, <3>5, <4>1
    <3> QED
      BY <3>4, <3>5
  <2> QED
    BY <2>6, <2>7, <2>8, <2>9, <2>11 DEF VerdictInv
<1>5. CASE ~IsLatestFinished(j)
  <2>1. graded' = graded /\ outbox' = outbox
    BY <1>5 DEF RecordVerdict
  <2>2. VerdictTypeOK'
    BY <1>0, <1>3, <2>1 DEF RecordVerdict, VerdictTypeOK
  <2>3. JudgingsInv'
    <3> SUFFICES ASSUME NEW k \in Ids
                 PROVE  /\ k > made' => judging'[k].status = "none"
                        /\ judging'[k].status # "none" => judging'[k].code \in Codes
                        /\ outbox'[k].event # "none" => judging'[k].status = "done"
      BY DEF JudgingsInv
    <3>1. CASE k = j
      BY <1>0, <1>1, <1>2, <1>3, <3>1 DEF JudgingsInv
    <3>2. CASE k # j
      BY <1>0, <1>1, <1>3, <2>1, <3>2 DEF JudgingsInv
    <3> QED
      BY <3>1, <3>2
  <2>4. LatestCounts'
    <3> SUFFICES ASSUME NEW d \in Codes, Finished(d)' # {}
                 PROVE  \E m \in Finished(d)' : /\ \A k \in Finished(d)' : k <= m
                                                /\ graded'[d].recorded
                                                /\ graded'[d].correct = judging'[m].accepted
      BY DEF LatestCounts
    <3>1. CASE d = c
      <4>1. \A k \in Finished(d)' : k = j \/ k \in Finished(d)
        BY <1>3, <3>1 DEF Finished, JudgingsOf
      <4>2. PICK k \in Finished(d) : ~(k < j)
        BY <1>5, <3>1 DEF IsLatestFinished
      <4>3. PICK m \in Finished(d) : /\ \A i \in Finished(d) : i <= m
                                     /\ graded[d].recorded
                                     /\ graded[d].correct = judging[m].accepted
        BY <1>0, <1>2, <4>2 DEF LatestCounts
      <4>4. m \in Nat /\ k \in Nat /\ j \in Nat /\ k <= m
        BY <4>3, IdsAreNatural DEF Finished, JudgingsOf
      <4>5. m # j /\ m \in Ids /\ judging[m].status = "done" /\ judging[m].code = d
        BY <1>1 DEF Finished, JudgingsOf
      <4>6. judging'[m] = judging[m] /\ m \in Finished(d)'
        BY <1>3, <4>5 DEF Finished, JudgingsOf
      <4>7. j <= m
        BY <4>2, <4>4
      <4>8. \A i \in Finished(d)' : i <= m
        BY <4>1, <4>3, <4>7
      <4> QED
        BY <2>1, <3>1, <4>3, <4>6, <4>8
    <3>2. CASE d # c
      <4>1. Finished(d)' = Finished(d) /\ \A m \in Finished(d) : judging'[m] = judging[m]
        BY <1>1, <1>3, <3>2 DEF Finished, JudgingsOf
      <4> QED
        BY <1>0, <2>1, <4>1 DEF LatestCounts
    <3> QED
      BY <3>1, <3>2
  <2>5. Settled(graded)' /\ Valued(graded)'
    BY <1>0, <2>1 DEF Settled, SubjectSettled, Valued, CorrectRows, AwardedRows
  <2>6. EventsBalance'
    <3>1. \A t, event : Waiting(t, event)' = Waiting(t, event)
      <4> TAKE t, event
      <4>1. WaitingFor(t, event)' = WaitingFor(t, event)
        BY <1>3, <2>1 DEF WaitingFor
      <4> QED
        BY <4>1 DEF Waiting, WaitingFor
    <3>2. \A t : HasAward(graded, t)' <=> HasAward(graded, t)
      BY <2>1 DEF HasAward, AwardedRows
    <3> QED
      BY <1>1, <3>1, <3>2 DEF VerdictInv, EventsBalance
  <2> QED
    BY <2>2, <2>3, <2>4, <2>5, <2>6 DEF VerdictInv
<1> QED
  BY <1>4, <1>5

(* The invariant of the verdicts holds at the start.                       *)
LEMMA VerdictsStart == VerdictInit => VerdictInv
<1> SUFFICES ASSUME VerdictInit PROVE VerdictInv
  OBVIOUS
<1> USE DEF VerdictInit
<1>1. /\ NoJudging \in Judging /\ NoJudging.status = "none"
      /\ Silence \in [event : Events, first : BOOLEAN] /\ Silence.event = "none"
  BY DEF NoJudging, Judging, Origins, JudgingStatuses, Silence, Events
<1>2. NoRow \in GradedRow /\ NoRow.recorded = FALSE
  <2>1. Row(FALSE, FALSE, 0) \in GradedRow
    BY VerdictsAssumption DEF Row, GradedRow
  <2> QED
    BY <2>1 DEF NoRow, GradedRow
<1>3. VerdictTypeOK
  BY <1>1, <1>2, VerdictsAssumption DEF VerdictTypeOK, GradedRow
<1>4. JudgingsInv
  BY <1>1 DEF JudgingsInv
<1>5. LatestCounts
  BY <1>1 DEF LatestCounts, Finished, JudgingsOf
<1>6. AwardedRows(graded) = {} /\ \A s : CorrectRows(graded, s) = {}
  BY <1>2 DEF AwardedRows, CorrectRows
<1>7. Settled(graded) /\ Valued(graded)
  BY <1>6 DEF Settled, SubjectSettled, Valued
<1>8. EventsBalance
  <2>1. ASSUME NEW s, NEW event \in {"solved", "revoked"} PROVE Waiting(s, event) = 0
    <3>1. WaitingFor(s, event) = {}
      BY <1>1, <2>1 DEF WaitingFor
    <3> QED
      BY <3>1, WaitingIsFinite, FS_EmptySet
  <2>2. \A s \in CodeSubjects : net[s] = 0 /\ ~HasAward(graded, s)
    BY <1>6 DEF HasAward
  <2> QED
    BY <2>1, <2>2 DEF EventsBalance
<1> QED
  BY <1>3, <1>4, <1>5, <1>7, <1>8 DEF VerdictInv

(* The invariant contains what is promised.                               *)
LEMMA VerdictInvSafe == VerdictInv => VerdictsSafe
<1> SUFFICES ASSUME VerdictInv PROVE VerdictsSafe
  OBVIOUS
<1>1. NewestCounts
  <2> SUFFICES ASSUME NEW c \in Codes, Finished(c) # {}
               PROVE  /\ graded[c].recorded
                      /\ graded[c].correct = judging[Newest(Finished(c))].accepted
    BY DEF NewestCounts
  <2>1. PICK m \in Finished(c) : /\ \A k \in Finished(c) : k <= m
                                 /\ graded[c].recorded
                                 /\ graded[c].correct = judging[m].accepted
    BY DEF VerdictInv, LatestCounts
  <2>2. Finished(c) \subseteq Nat
    BY IdsAreNatural DEF Finished, JudgingsOf
  <2>3. /\ Newest(Finished(c)) \in Finished(c)
        /\ \A k \in Finished(c) : k <= Newest(Finished(c))
    BY <2>1 DEF Newest
  <2>4. Newest(Finished(c)) = m
    BY <2>1, <2>2, <2>3
  <2> QED
    BY <2>1, <2>4
<1>2. EarliestHoldsAward
  BY DEF VerdictInv, Settled, SubjectSettled, EarliestHoldsAward
<1>3. BoardConverges
  BY DEF VerdictInv, Valued, BoardConverges
<1> QED
  BY <1>1, <1>2, <1>3 DEF VerdictInv, VerdictsSafe

(* In whatever order judgings finish: every row is typed, none worth more  *)
(* than the challenge, the newest verdict of a code counts,                *)
(* the earliest correct code holds its subject's award, every award has    *)
(* the current value, and the events emitted and waiting add up to the     *)
(* awards (record_verdict, regrade, emit_recorded).                        *)
THEOREM VerdictsAreSafe == VerdictSpec => []VerdictsSafe
<1>1. VerdictInv /\ [VerdictNext]_verdictVars => VerdictInv'
  BY QuietBoard, EmittedBoard, RecordedBoard
<1> QED
  BY <1>1, VerdictsStart, VerdictInvSafe, PTL DEF VerdictSpec

=============================================================================
