SPECIFICATION Spec
CONSTANTS
  Procs = {p1, p2}
  Judgings = {1, 2}
  RunJudgings = {2}
  MaxAttempts = 1
  MaxConcurrent = 2
  CandidateLimit = 5
  ReapBatch = 1
  MaxUpsets = 0
  Verdicts = {accepted}
  InternalError = internal_error
  NoVerdict = none
  NoProc = noproc
INVARIANTS SlotBound
CHECK_DEADLOCK FALSE
