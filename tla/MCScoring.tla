----------------------------- MODULE MCScoring -----------------------------
(***************************************************************************)
(* Points: answers to flags, verdicts on code, the score chart, and the    *)
(* arithmetic they all use under every sequence of solves and wrong        *)
(* guesses.  They share no state; the scene says which of them a behaviour *)
(* is about.                                                               *)
(***************************************************************************)
EXTENDS FlagGrading, Verdicts, Timeline, TLC

CONSTANTS r1, r2, r3, ann, bob, cyd, Scenes

(* The walk: a challenge of any scoring, solved again and again, watched   *)
(* by one competitor who has guessed wrong so many times and by one solver *)
(* whose penalty was fixed when they solved.                               *)
CONSTANTS MaxPoints,  \* bound: the initial value
          MaxDecay,   \* bound: the decay
          MaxSolves,  \* bound: solves of the challenge
          MaxWrong,   \* bound: wrong guesses
          Percents    \* the values of mc_penalty_pct to try

ASSUME WalkAssumption ==
    /\ MaxPoints \in Nat /\ MaxDecay \in Nat \ {0}
    /\ MaxSolves \in Nat /\ MaxWrong \in Nat
    /\ Percents \subseteq 0..100

VARIABLES challenge, \* the scoring fields of the challenge
          pct,       \* mc_penalty_pct
          solves,    \* awarded rows on the challenge
          wrong,     \* wrong guesses of the competitor watching
          penalty    \* the mc_penalty recorded by the solver watching

walkVars == <<challenge, pct, solves, wrong, penalty>>

(* What _validate_scoring lets through.                                    *)
ValidChallenges ==
    {ch \in [scoring : ScoringTypes, points : 0..MaxPoints,
             minimum : 0..MaxPoints, decay : 0..MaxDecay] :
        IF ch.scoring = "dynamic"
        THEN ch.decay >= 1 /\ ch.minimum <= ch.points
        ELSE ch.minimum = 0 /\ ch.decay = 0}

Value == ChallengeValue(challenge, solves)

WalkInit ==
    /\ challenge \in ValidChallenges
    /\ pct \in Percents
    /\ solves = 0 /\ wrong = 0 /\ penalty = 0

(* Somebody else solves it.                                                *)
Solve ==
    /\ solves < MaxSolves
    /\ solves' = solves + 1
    /\ UNCHANGED <<challenge, pct, wrong, penalty>>

(* The competitor solves it: the penalty of their guesses is recorded.     *)
OwnSolve ==
    /\ penalty = 0
    /\ solves < MaxSolves
    /\ solves' = solves + 1
    /\ penalty' = ChallengeValue(challenge, solves + 1)
                    - PenalisedValue(ChallengeValue(challenge, solves + 1),
                                     pct, wrong)
    /\ UNCHANGED <<challenge, pct, wrong>>

WrongGuess ==
    /\ wrong < MaxWrong
    /\ wrong' = wrong + 1
    /\ UNCHANGED <<challenge, pct, solves, penalty>>

WalkNext == Solve \/ OwnSolve \/ WrongGuess

(* Every value is a possible number of points. *)
WalkTypeOK ==
    /\ Value \in 0..MaxPoints
    /\ PenalisedValue(Value, pct, wrong) \in 0..MaxPoints
    /\ penalty \in 0..MaxPoints

(* The quadratic keeps to its two ends: full value with no solve, exactly  *)
(* the floor from the decay-th solve on, and never under the floor between *)
(* (dynamic_value's docstring).                                            *)
DecayEndpoints ==
    challenge.scoring = "dynamic" =>
        /\ solves = 0 => Value = challenge.points
        /\ solves >= challenge.decay => Value = challenge.minimum
        /\ Value >= challenge.minimum

(* Each wrong guess costs the same share of the base, to within rounding,  *)
(* until nothing is left (penalised_value: "applied linearly").            *)
PenaltyIsLinear ==
    LET left == PenalisedValue(Value, pct, wrong)
        exact == 100 * Value - Value * pct * wrong
    IN  IF exact <= 0 THEN left = 0
        ELSE 100 * left - exact \in -50..50

(* A solve never raises what the challenge is worth, and so never what an  *)
(* earlier solver holds: the re-value sweep only lowers points.            *)
SolvesLower ==
    /\ Value' <= Value
    /\ penalty' = penalty => Revalued(Value', penalty) <= Revalued(Value, penalty)

-----------------------------------------------------------------------------
VARIABLE scene

scoringVars == <<scene, gradingVars, verdictVars, tlVars, walkVars>>

OnGrading(A) == scene = "grading" /\ A /\ UNCHANGED <<scene, verdictVars, tlVars, walkVars>>
OnVerdicts(A) == scene = "verdicts" /\ A /\ UNCHANGED <<scene, gradingVars, tlVars, walkVars>>
OnChart(A) == scene = "chart" /\ A /\ UNCHANGED <<scene, gradingVars, verdictVars, walkVars>>
OnWalk(A) == scene = "walk" /\ A /\ UNCHANGED <<scene, gradingVars, verdictVars, tlVars>>

(* A component off the scene has one of its initial states, whichever.     *)
ScoringInit ==
    /\ scene \in Scenes
    /\ GradingInit /\ VerdictInit /\ ChartInit /\ WalkInit
    /\ scene # "grading" => contest = CHOOSE c \in Contests : TRUE
    /\ scene # "chart" => tlFreeze = 1 /\ tlStart = 0
    /\ scene # "walk" => /\ challenge = CHOOSE c \in ValidChallenges : TRUE
                         /\ pct = CHOOSE p \in Percents : TRUE

ScoringNext == \/ OnGrading(GradingNext) \/ OnVerdicts(VerdictNext)
               \/ OnChart(ChartNext) \/ OnWalk(WalkNext)

ScoringSpec == ScoringInit /\ [][ScoringNext]_scoringVars

(* Two requests of one subject and one of another.                         *)
TwoSubjects == r1 :> ann @@ r2 :> ann @@ r3 :> bob

ThreeSubjects == r1 :> ann @@ r2 :> bob @@ r3 :> cyd

Decaying == [scoring |-> "dynamic", points |-> 100, minimum |-> 20,
             decay |-> 3]

Fixed == [scoring |-> "static", points |-> 100, minimum |-> 0, decay |-> 0]

ChartDecay == [scoring |-> "dynamic", points |-> 5, minimum |-> 1, decay |-> 2]

(* A plain flag, a question with one guess, and one with any number of     *)
(* guesses and a penalty that eats the award at the second wrong one.      *)
AllKinds == {[challenge |-> Fixed, choice |-> FALSE, limit |-> 0,
              penalty |-> 75],
             [challenge |-> Decaying, choice |-> TRUE, limit |-> 1,
              penalty |-> 0],
             [challenge |-> Decaying, choice |-> TRUE, limit |-> 0,
              penalty |-> 75]}

PlainFlag == {[challenge |-> Decaying, choice |-> FALSE, limit |-> 0,
               penalty |-> 0]}

(* Two requests of one subject can change places, and so can the two       *)
(* competitors of the chart.                                               *)
ScoringSymmetry == Permutations({r1, r2}) \cup Permutations(ChartSubjects)

(* The first and the last code are of the same subject.                    *)
Alternating == [c \in 1..3 |-> IF c = 2 THEN bob ELSE ann]

(* The arithmetic of decay and penalties, no value ever negative or past   *)
(* the challenge's, and the chart that replays it: at every instant the    *)
(* chart's end is the board's total.                                       *)
ValuesSafe ==
    /\ scene = "walk" => WalkTypeOK /\ DecayEndpoints /\ PenaltyIsLinear
    /\ scene = "chart" => ChartTypeOK /\ ChartAgrees

(* A solve never raises what anybody holds; a frozen chart moves only when *)
(* an award of before the freeze comes, goes or changes its date.          *)
PointsSteps ==
    [][/\ scene = "walk" => SolvesLower
       /\ scene = "chart" => FrozenStays]_scoringVars
=============================================================================
