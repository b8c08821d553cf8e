SPECIFICATION LoopSpec
CONSTANTS
    c1 = c1  c2 = c2  c3 = c3  a1 = a1  a2 = a2
    Catalogue = {c1, c2, c3}
    Authors = {a1, a2}
SYMMETRY EitherOne
INVARIANTS WayForward
