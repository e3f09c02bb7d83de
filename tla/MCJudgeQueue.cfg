SPECIFICATION FairSpec
CONSTANTS
  Procs = {p1, p2}
  Judgings = {1}
  RunJudgings = {1}
  MaxAttempts = 2
  MaxConcurrent = 1
  CandidateLimit = 5
  ReapBatch = 50
  MaxUpsets = 1
  Verdicts = {accepted, rejected}
  InternalError = internal_error
  NoVerdict = none
  NoProc = noproc
INVARIANTS TypeOK AttemptBudget FencingToken OutcomeOfHolder CompletedOnce SourceAvailable
PROPERTIES EventuallyJudged RowsFollowLifecycle
CHECK_DEADLOCK FALSE
