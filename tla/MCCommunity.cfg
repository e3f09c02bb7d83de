SPECIFICATION CommunitySpec
CONSTANTS
  Scenes = {"board", "pings", "hints", "teams", "joining", "announcements", "tickets", "certificates"}
  Subjects = {a, b}
  Moves <- ScoringMoves
  MaxCommits = 2
  MaxHits = 5
  MaxFlips = 2
  HintTeams = {a, b}
  HintRequests = {p1, p2, p3}
  Costs = {1, 2}
  MaxReveals = 3
  MaxEdits = 2
  Players = {p1, p2, p3}
  TeamIds = {1, 2}
  NoTeam = 0
  MaxTeamSize = 2
  MaxTeamOps = 9
  People = {a, b}
  JoinRequests = {a, b}
  LinkCaps = {0, 1}
  NoHolder = noholder
  MaxJoins = 2
  MaxChanges = 1
  Editors = {a, b}
  Backgrounds = {b1, b2}
  Fonts = {f1, f2}
  NoKey = nokey
  MaxCustomFonts = 1
  MaxCertOps = 4
  AnnRequests = {a, b}
  Recipients = {1, 2, 3}
  Muted = {2}
  FanIds = {1, 2, 3}
  MaxAnnFaults = 1
  TicketRequests = {a, b}
  Shots = {s1, s2, s3}
  MaxShots = 1
  MaxTicketOps = 4
  MaxTicketFaults = 1
  NoReq = noreq
INVARIANTS BoardSafe MembershipSafe NoticesSafe CertificateSafe
SYMMETRY CommunitySymmetry
CHECK_DEADLOCK FALSE
