\* Two requests for one place in the queue and one place in the store.
SPECIFICATION FairSpec
CONSTANTS
    MaxJobs = 2
    Workers = {w1, w2}
    MaxAttempts = 2
    MaxPending = 1
    MaxArtifacts = 1
    Batch = 1
    MaxData = 1
    NoJob = NoJob
    NoWork = NoWork
    None = None
INVARIANTS
    TypeOK
    CountersExact
    OneReading
PROPERTIES
    KeepsPromise
    EveryExportEnds
