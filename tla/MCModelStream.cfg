SPECIFICATION StreamSpec
CONSTANTS
    NL = NL
    None = None
    LineTexts <- MCText
    EventOf <- MCEventOf
    Bodies <- MCBodies
INVARIANT CommitsWholeAnswers
CHECK_DEADLOCK FALSE
