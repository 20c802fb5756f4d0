SPECIFICATION UntrustedSpec
CONSTANTS
    SessionIdent = 1
    MaxFramePayload = 4
    PipeCapacity = 1
    ParentBudgets <- MCBudgets
    MaximumEntries = 2
    MaximumEntryBytes = 2
    MaximumTotalBytes = 3
    MaxCounter = 2
    MaximumReads = 3
    MaximumReplyBytes = 5
    MaxSequence = 2
    Tokens = {1, 3}
    Entries <- MCEntries
    WorkerFrames <- MCWorkerFrames
INVARIANTS CatalogIsSound PhaseAgrees SinkIsBounded ReadsAreCharged
CHECK_DEADLOCK FALSE
