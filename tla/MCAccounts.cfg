SPECIFICATION Spec
CONSTANTS
    r1 = r1
    r2 = r2
    r3 = r3
    p1 = p1
    p2 = p2
    Req = {r1, r2, r3}
    Name = {1}
    Password = {p1, p2}
    MaxResets = 1
SYMMETRY Symmetry
INVARIANTS
    CredentialIsLatest
    AnswersAreTrue
CHECK_DEADLOCK FALSE
