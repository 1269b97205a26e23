CONSTANTS
  Parts = {"webhooks"}
  root = root
  r1 = r1
  r2 = r2
  q1 = q1
  u1 = u1
  u2 = u2
  c1 = c1
  sweep = sweep
  checker = checker
  None = None
  Missing = Missing
  Nobody = Nobody
  Root = root
  Registries = {r1, r2}
  MemberOf <- MCMemberOf
  MaxAllowedPathLen = 2
  PathLens = {1, 2}
  Urls = {u1}
  RootUrl = u1
  ThisCode = {u1}
  Operations = {"issue"}
  Requests = {q1}
  MaxIssued = 3
  Agents = {alice}
  CertLife = 1
  TokenLife = 1
  SessionLife = 2
  StateLife = 1
  People = {p1}
  OwnedBy <- MCOwnedBy
  MaxTokens = 1
  MaxCA = 2
  MaxDay = 4
  RowRequests = {q1, q2}
  Subs = {s1, s2}
  Owners = {alice}
  Events = {e1}
  Attempts = 3
  Keys = {k1}
  Endpoints = {u1}
  Calls = {c1, c2}
  TTL = 1
  Timeout = 1
  MaxTime = 6
  Goroutines = {c1}
  ClientTTL = 1
  ClientTimeout = 1
  Reports = {1, 2, 3, 4, 5}
  Filings = {f1, f2}
  OpenLimit = 3
  Count = 14
  Refusers <- MCRefusers
  Undoes <- MCUndoes
  Emptying = {2}
  Runs = {m1, m2}
  Callers = {c1, c2}
  Life = 4
  RefreshBuffer = 2
  HttpTimeout = 1
  MaxClock = 7
  Claims = {m1, m2}
  Revokes = {c1}
  Card = 2
SPECIFICATION ServicesSpec
INVARIANTS
  GivenUpAfterRetries
CHECK_DEADLOCK FALSE
