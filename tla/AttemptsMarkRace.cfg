SPECIFICATION QuizSpec
CONSTANTS
    choice = choice  essay1 = essay1  essay2 = essay2
    r1 = r1  r2 = r2  w1 = w1  m1 = m1  m2 = m2
    Questions = {essay1, essay2}
    Essays = {essay1, essay2}
    Revisable = {}
    Numbers = {1}
    Limit = 1  GradeAttempts = 2
    Bars = {50}
    Requests = {r1}
    Workers = {w1}
    Markers = {m1, m2}
SYMMETRY EitherOne
INVARIANTS AwaitingHasWork
