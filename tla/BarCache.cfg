SPECIFICATION Spec
CONSTANTS
    r1 = r1
    r2 = r2
    Reader = {r1, r2}
    MaxDay = 6
    Trading = {1, 2, 4, 5}
    Unpriced = {2, 5}
    Scaled = {1, 2, 5}
    PlainDividends = {4}
    ProvenDividends = {1}
    UnprovenDividends = {2}
    MaxReads = 3
    MaxRevisions = 1
SYMMETRY Readers
CHECK_DEADLOCK FALSE
INVARIANT AnswerIsWhole
INVARIANT ConflictMeansRevised
