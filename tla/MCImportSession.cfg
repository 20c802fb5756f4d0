SPECIFICATION Spec
CONSTANTS
    SessionIdent = 1
    MaxFramePayload = 4
    PipeCapacity = 2
    ParentBudgets <- MCParentBudgets
    MaximumEntries = 2
    MaximumEntryBytes = 2
    MaximumTotalBytes = 3
    MaxCounter = 3
    Entries <- MCEntries
    MaximumReads = 2
    MaximumReplyBytes = 6
    MaxSequence = 2
    Tokens = {1, 2}
    WorkerBudgets <- MCWorkerBudgets
    MaximumDispatchSteps = 6
    WorkerEntries = 2
    WorkerEntryBytes = 2
    WorkerTotalBytes = 3
    Batches <- MCBatches
    StreamSizes = {0, 2, 3}
    ChunkSizes = {1, 2}
    WorkerMaxSequence = 2
INVARIANTS NoOrderingFailure OutcomeAgreement CatalogIsWholeEnumeration StreamIsExact
PROPERTIES RequestsEnd CancelsResolve WorkerEnds
CHECK_DEADLOCK FALSE
