SPECIFICATION LearnerSpec
CONSTANTS
    r1 = r1  r2 = r2  o1 = o1  o2 = o2  s1 = s1  c1 = c1
    choice = choice  essay1 = essay1  q1 = q1  w1 = w1
    p1 = p1  p2 = p2  m1 = m1  m2 = m2  x1 = x1  x2 = x2  x3 = x3
    Orders = {o1, o2}  Batches = {{o1, o2}}  Seats = {s1}  Courses = {c1}  Calls = {r1, r2}
    SeatOf <- OneSeat  CourseOf <- OneCourse  GatewayOf <- FakeAndSSL  None = None  ChaseAttempts = 1
    Lessons = {1, 2}  Editable = {2}  Previews = {}  Txs = {r1, r2}
    Passed = {1, 2}  Finished = {3, 4, 5}  HonorRollCourses = 2  Givers = {r1, r2}
    Questions = {choice, essay1}  Essays = {essay1}  Revisable = {essay1}
    Numbers = {1, 2}  Limit = 0  GradeAttempts = 1  Bars = {50}
    Requests = {q1}  Workers = {w1}  Markers = {r1, r2}
    Talkers = {p1, p2}  Texts = {m1, m2}  Sockets = {x1, x2, x3}  Instances = {r1, r2}
SYMMETRY Alike
INVARIANTS
    LearnerTypeOK
    MoneyIsReal RefundIsChased
    StatusFollowsRollup
    StandingIsEarned
    BestIsKept PassIsSettled
    HeardInOneOrder PresenceIsTrue
PROPERTIES TerminalStays LostOnlyToCancel AloneAgrees
