\* One browser with two requests on their way at a time, lost answers, delayed
\* duplicates, and commands from other devices.
SPECIFICATION Spec
CONSTANTS
    Browsers = {b1}
    MaxSessions = 3
    MaxAttempts = 2
    MaxRequests = 2
    NoSession = NoSession
    None = None
INVARIANTS
    TypeOK
    OneHead
    LostAnswerRecoverable
PROPERTIES
    EndedStaysEnded
    LogoutEndsLogin
CHECK_DEADLOCK FALSE
