SPECIFICATION RuntimeFairSpec
CONSTANTS
  Scenes = {"life", "backends"}
  l1 = l1
  l2 = l2
  l3 = l3
  l4 = l4
  l5 = l5
  l6 = l6
  ann = ann
  bob = bob
  web = web
  pwn = pwn
  rev = rev
  NoLaunch = none
  Launches = {l1, l2, l3, l4, l5, l6}
  SubjectOf <- Who
  ChallengeOf <- What
  Configured = TRUE
  SubjectCap = 1
  MaxAlive = 2
  MaxConcurrent = 3
  SpawnLimit = 2
  PortMin = 30000
  PortMax = 30002
  PortCount <- HowMany
  Instances = {i1}
  Killers = {user}
  Reaper = reaper
  MaxExtends = 1
  WindowTicks = 1
  MaxFaults = 1
  MaxCrashes = 1
  MaxBackendFaults = 2
  Testers = {r1, r2}
  MaxProbeFaults = 1
PROPERTIES RuntimeEnds
CHECK_DEADLOCK FALSE
