\* An unconfirmed verification and the settlement that follows it.
SPECIFICATION Spec
CONSTANTS
    unconfirmed = unconfirmed
    verified = verified
    failed = failed
    Events = {unconfirmed, failed}
    TopicOf <- MCTopicOf
    Relays = {r1}
    Workers = {w1, w2}
    MaxAttempts = 1
    JobAttempts = 1
    MaxStalls = 0
    MaxFaults = 0
    MaxReplays = 0
    NoEvent = NoEvent
    NoClaim = NoClaim
    NoTxn = NoTxn
    NoReplay = NoReplay
INVARIANT ReconciliationClosed
CHECK_DEADLOCK FALSE
