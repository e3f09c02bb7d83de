SPECIFICATION AccessSpec
CONSTANTS
  Scenes = {"sessions", "email", "roles", "sso", "import"}
  r1 = r1
  r2 = r2
  p1 = p1
  p2 = p2
  l1 = l1
  l2 = l2
  n1 = n1
  n2 = n2
  m1 = m1
  SessionRequests = {r1, r2}
  MaxSessions = 3
  MaxApiTokens = 1
  MaxSweeps = 1
  EmailRequests = {r1, r2}
  Users = {p1, p2}
  Addresses = {"a", "b"}
  Subjects = {s}
  NoAddr = "none"
  NoOne = nobody
  SubjectAddr <- AssertedAddress
  MaxLinks = 1
  MaxMailSteps = 5
  Staff = {o, d, g}
  Administrator = administrator
  Customs = {c1}
  Catalog = {mr, mu, q}
  RoleRequests = {r1, r2}
  NoRole = norole
  Nobody = nobody
  Owner = o
  Deputy = d
  Delegate = g
  ManageRoles = mr
  ManageUsers = mu
  MaxGrants = 4
  MaxDecisions = 4
  Logins = {l1, l2}
  Browsers = {b1, b2}
  Persons = {p1, p2}
  Callbacks = {r1, r2}
  Kinds = {"oidc", "oauth2", "saml", "ldap"}
  NoLogin = nologin
  MaxProviderEdits = 1
  ImportReqs = {r1, r2}
  ImpNames = {n1, n2}
  ImpMails = {m1}
  NoEmail = noemail
  ImportFiles <- CsvFiles
  MaxImportRows = 3
  MaxAccounts = 5
  MaxImpChanges = 1
INVARIANTS SessionsSafe SignInSafe RolesSafe UsersImportSafe
SYMMETRY AccessSymmetry
CHECK_DEADLOCK FALSE
