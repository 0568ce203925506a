\* The same instance: a refresh, then a password change.
SPECIFICATION Spec
CONSTANTS
    Browsers = {b1}
    MaxSessions = 3
    MaxAttempts = 2
    MaxRequests = 2
    NoSession = NoSession
    None = None
INVARIANT CredentialChangeEndsTokens
CHECK_DEADLOCK FALSE
