SPECIFICATION ScoringSpec
CONSTANTS
  Scenes = {"grading"}
  r1 = r1
  r2 = r2
  r3 = r3
  ann = ann
  bob = bob
  cyd = cyd
  NoRequest = none
  Requests = {r1, r2, r3}
  SubjectOf <- ThreeSubjects
  Contests <- PlainFlag
  MaxResets = 0
  MaxCrashes = 0
  Codes = {1, 2, 3}
  CodeSubject <- Alternating
  JudgedChallenge <- Decaying
  MaxJudgings = 4
  MaxAsks = 2
  MaxRetries = 1
  ChartSubjects = {cat, dan}
  ChartScoring <- ChartDecay
  Freezes = {1}
  Starts = {0, 2}
  ChartCap = 3
  LastInstant = 3
  MaxChartRows = 3
  MaxPoints = 9
  MaxDecay = 5
  MaxSolves = 6
  MaxWrong = 4
  Percents = {0, 7, 25, 50, 100}
INVARIANTS EverySolverConverges
CHECK_DEADLOCK FALSE
