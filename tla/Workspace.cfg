SPECIFICATION WorkspaceSpec
CONSTANTS
    Desks = {"limiter", "campus", "passwords", "members", "guests", "handins"}
    r1 = r1  r2 = r2  x1 = x1  x2 = x2  o1 = o1  e1 = e1
    p1 = p1  p2 = p2  m1 = m1  i1 = i1  w1 = w1
    Addresses = {x1, x2, o1}  Askers = {r1, r2}  Burst = 1  Every = 2  MaxKeys = 2  LastTick = 5
    Students = {x1, x2}  Applications = {e1}  Clerks = {r1, r2}  Buildings = {o1}  Rooms = {o1}
    Allocations = {x1, x2}  Books = {o1}  Loans = {x1, x2}  Sizes = {0, 1}
    People = {p1, p2}  Tenants = {x1, x2}  Links = {m1}  Invitations = {i1}
    Visits = {r1, r2}  Hands = {w1}  MaxSessions = 2  MaxJobs <- OneJob  RevokeAttempts = 2
    Uploads = {x1, x2}  Tabs = {r1, r2}  MaxFiles = {1}  Points = {0, 1}
SYMMETRY Alike
VIEW WithoutKept
INVARIANTS
    WorkspaceTypeOK
    WithinBudget MapIsBounded RetryIsHonoured
    NeverOverdrawn AdmittedOnce
    OwnerRemains SpentOnce RevocationIsChased
    WithinLimit MarkAgrees
PROPERTIES NothingAttachedLate
CHECK_DEADLOCK FALSE
