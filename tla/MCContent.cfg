SPECIFICATION SomeContentSpec
CONSTANTS
  Scenes = {"authoring", "cloning", "surveys", "problems", "code", "settings", "harness", "backup", "assistant"}
  Setters = {r1, r2}
  Problems = {a, b}
  Opts = {x, y}
  ChoiceLists = {{x}, {y}}
  MaxSetterOps = 3
  Originals = {a, b}
  MaxCloneEdits = 3
  MaxCloneFaults = 1
  SurveyStaff = {r1, r2}
  Submits = {a, b}
  VoterOf <- OneVoter
  Asks = {qa, qb}
  AskTypes = {"rating", "text"}
  MaxSurveyOps = 3
  Authors = {r1, r2}
  Cases = {c1, c2, c3}
  MaxCases = 2
  MaxKeys = 4
  MaxContentOps = 4
  MaxContentFaults = 1
  NoAuthor = none
  CodeRequests = {r1, r2}
  NoRequest = none
  MaxInFlight = 1
  MaxCodeFaults = 1
  Admins = {r1, r2}
  Languages = {l1, l2}
  Presets = {l1}
  MaxAdminWrites = 5
  NoAdmin = none
  CpuLimit = 1
  OutputLimit = 1
  MemoryLimit = 1
  Layouts <- TestLayouts
  Comparisons <- TestComparisons
  MaxWork = 3
  MaxHarnessFaults = 1
  Importers = {r1, r2}
  Selections <- BackupSelections
  NoImporter = none
  MaxSourceChanges = 1
  MaxBackupCrashes = 1
  AiRequests = {r1, r2}
  AiProcs = {a, b}
  Threads = {1}
  MaxExchanges = 1
  MaxToolRounds = 1
  MaxAiPosts = 2
  MaxAiSwitches = 1
  MaxAiFaults = 1
INVARIANTS  JudgeSideSafe TransferSafe
SYMMETRY ContentSymmetry
CHECK_DEADLOCK FALSE
