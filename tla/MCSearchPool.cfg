CONSTANTS
    Reservers = {t1}
    Releasers = {r1, r2}
    MaxSegments = 5
    WordBits = 3
SPECIFICATION Spec
SYMMETRY Symmetry
INVARIANTS OneHolder OverlooksOnePerWord
