SPECIFICATION Spec
CONSTANTS
    CR = "CR"
    LF = "LF"
    Malformed = Malformed
    Text <- MCText
    LineOf <- MCLineOf
    FieldOf <- MCFieldOf
    Plans <- MCPlans
    handlers_ <- MCHandlers
    allowedOrigins = {"*"}
    maxBodyLength = 25
    MaxTokens = 2
    MaxMessages = 2
INVARIANTS
    StoppedIsClosing
CHECK_DEADLOCK FALSE
