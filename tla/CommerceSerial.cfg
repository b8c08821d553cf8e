SPECIFICATION FairSerialSpec
CONSTANTS
    o1 = o1  o2 = o2  o3 = o3  s1 = s1  c1 = c1  k1 = k1  k2 = k2
    None = None  ChaseAttempts = 2
    Orders = {o1, o2, o3}
    Batches = {{o1, o2}, {o3}}
    Seats = {s1}
    Courses = {c1}
    Calls = {k1, k2}
    SeatOf <- OneSeat
    CourseOf <- OneCourse
    GatewayOf <- OneOfEach
INVARIANTS PaidMeansEnrolled RefundIsChased
PROPERTIES KeepsShop TakenIsSettled RefundIsHeard
