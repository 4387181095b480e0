CONSTANTS
    Reservers = {t1, t2}
    Releasers = {r1}
    MaxSegments = 4
    WordBits = 2
SPECIFICATION Spec
SYMMETRY Symmetry
INVARIANT AllUnique
