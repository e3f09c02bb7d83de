SPECIFICATION ScoringSpec
CONSTANTS
  Scenes = {"grading", "verdicts", "chart", "walk"}
  r1 = r1
  r2 = r2
  r3 = r3
  ann = ann
  bob = bob
  cyd = cyd
  NoRequest = none
  Requests = {r1, r2, r3}
  SubjectOf <- TwoSubjects
  Contests <- AllKinds
  MaxResets = 1
  MaxCrashes = 1
  Codes = {1, 2, 3}
  CodeSubject <- Alternating
  JudgedChallenge <- Decaying
  MaxJudgings = 4
  MaxAsks = 1
  MaxRetries = 1
  ChartSubjects = {cat, dan}
  ChartScoring <- ChartDecay
  Freezes = {1}
  Starts = {0, 2}
  ChartCap = 3
  LastInstant = 2
  MaxChartRows = 3
  MaxPoints = 9
  MaxDecay = 5
  MaxSolves = 6
  MaxWrong = 4
  Percents = {0, 7, 25, 50, 100}
INVARIANTS GradingTypeOK GuessCap GradingSafe VerdictsSafe ValuesSafe
PROPERTIES PointsSteps
SYMMETRY ScoringSymmetry
CHECK_DEADLOCK FALSE
