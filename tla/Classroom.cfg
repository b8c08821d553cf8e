SPECIFICATION ClassroomSpec
CONSTANTS
    r1 = r1  r2 = r2  x1 = x1  x2 = x2  k1 = k1  k2 = k2  k3 = k3
    choice = choice  essay1 = essay1  essay2 = essay2
    w1 = w1  acme = acme  news = news  reply = reply
    Questions = {choice, essay1, essay2}  Essays = {essay1, essay2}
    Revisable = {essay1}  Numbers = {1}  Limit = 1  GradeAttempts = 2  Bars = {50, 100}
    Requests = {k1}  Workers = {w1}  Markers = {x1, x2}
    Keys = {x1, x2}  Callers = {r1, r2}  Found = {acme}
    MaxEntries = 1  TTL = 1  NegativeTTL = 0  Slowest = 1  MaxTime = 2
    Siblings = {k1, k2, k3}  Writers = {r1, r2}  MaxPosition = 3
    Catalogue = {k1, k2, k3}  Authors = {r1, r2}
    People = {x1, x2}  Announcements = {news}  Happenings = {reply}
SYMMETRY Alike
INVARIANTS
    ClassroomTypeOK
    GradingHasJob GradedMeansMarked
    LoadsAreNeeded SizeIsBounded AnswersAreRecent WaitersHaveFlight
    MailedOnce
PROPERTIES HandMarksStay OrderIsKept AloneStaysAcyclic
