SPECIFICATION AnyParentSpec
CONSTANTS
    SessionIdent = 1
    MaxFramePayload = 4
    PipeCapacity = 1
    ParentBudgets <- MCBudgets
    MaximumEntries = 2
    MaximumEntryBytes = 2
    MaximumTotalBytes = 3
    MaxCounter = 2
    Entries <- MCEntries
    WorkerBudgets <- MCBudgets
    MaximumDispatchSteps = 3
    WorkerEntries = 2
    WorkerEntryBytes = 2
    WorkerTotalBytes = 3
    Batches <- MCBatches
    StreamSizes = {0, 2, 3}
    ChunkSizes = {1, 2}
    WorkerMaxSequence = 2
    ParentFrames <- MCParentFrames
INVARIANTS DispatcherReleasedOnce ServiceInStep
CHECK_DEADLOCK FALSE
