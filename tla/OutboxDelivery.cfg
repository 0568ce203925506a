\* One event, delivered by two relay passes and two jobs at a time.
SPECIFICATION SmsFairSpec
CONSTANTS
    verified = verified
    Events = {verified}
    TopicOf <- MCTopicOf
    Relays = {r1, r2}
    Workers = {w1, w2}
    MaxAttempts = 1
    JobAttempts = 2
    MaxStalls = 0
    MaxFaults = 1
    MaxReplays = 1
    NoEvent = NoEvent
    NoClaim = NoClaim
    NoTxn = NoTxn
    NoReplay = NoReplay
    Senders = {s1, s2}
    MaxSmsAttempts = 2
    NoPass = NoPass
INVARIANTS
    SmsTypeOK
    DeadLettersEarned
    OneMessage
PROPERTIES
    ConsumedNotReplayed
    EventHandled
CHECK_DEADLOCK FALSE
