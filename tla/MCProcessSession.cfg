SPECIFICATION Spec
CONSTANTS
    Threads = {owner, other}
    Owner = owner
    Free = Free
INVARIANTS AbortIsKept LifetimeEndsOnce NoWorkerLeftBehind
PROPERTIES AbortWakes EscalationEnds
CHECK_DEADLOCK FALSE
