SPECIFICATION Spec
CONSTANTS
    r1 = r1
    r2 = r2
    r3 = r3
    Req = {r1, r2, r3}
    User = {1}
    Images <- MCImages
    encoded = 8
    pixels = 20
    bgr = 48
    jobs = 2
    intMax = 30
    side = 3
    maxResized = 40
SYMMETRY Symmetry
INVARIANTS
    WorkIsBounded
    StatusIsTrue
CHECK_DEADLOCK FALSE
