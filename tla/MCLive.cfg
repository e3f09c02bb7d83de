SPECIFICATION LiveSpec
CONSTANTS
  Scenes = {"sockets", "presence", "automation", "gate", "jobs", "sandbox", "flags"}
  s1 = s1
  s2 = s2
  s3 = s3
  w1 = w1
  w2 = w2
  Sockets = {s1, s2}
  Workers = {w1, w2}
  Host <- SocketHost
  EvictAttempts = 1
  MaxRevocations = 1
  MaxFaults = 2
  Tabs = {s1, s2, s3}
  PresWorkers = {w1, w2}
  TabHost <- TabHosts
  MaxOpens = 4
  AutoRules = {"bonus", "alert", "clock"}
  Trigger <- AutoTrigger
  Actions <- AutoActions
  Personal = {"alert"}
  MaxDepth = 2
  TaskIds = {1, 2, 3, 4}
  MaxEvents = 1
  MaxMishaps = 1
  GateRequests = {q1, q2}
  LastHour = 2
  MaxGateMoves = 2
  Jobs = {1, 2}
  Reports = {2}
  MaxJobFaults = 1
  Installs = {"own", "other"}
  Tried = {1}
  HomeOf <- SandboxHome
  TriesOf <- SandboxTries
  Sweepers = {"own"}
  MaxSandboxFaults = 1
  FlagPlayers = {p1, p2}
  FlagTeams = {t1, t2}
  MaxFlagInstances = 2
  MaxSwitches = 1
  q1 = q1
  q2 = q2
  q3 = q3
  ann = ann
  bob = bob
  NoRequest = none
  Requests = {q1, q2}
  SubjectOf <- Askers
  Contests <- Questions
  MaxResets = 1
  MaxCrashes = 1
INVARIANTS SocketsSafe PresenceSafe AutomationSafe JobsSafe FlagsSafe
SYMMETRY LiveSymmetry
CHECK_DEADLOCK FALSE
