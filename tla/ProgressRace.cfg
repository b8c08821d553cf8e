SPECIFICATION LessonsSpec
CONSTANTS
    t1 = t1  t2 = t2
    Lessons = {1, 2}
    Editable = {}
    Previews = {}
    Txs = {t1, t2}
SYMMETRY EitherTx
INVARIANTS RollupAgrees
