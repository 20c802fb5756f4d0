SPECIFICATION Spec
CONSTANTS
    ArchivePaths <- MCArchivePaths
    MaxEntries = 4
INVARIANTS ReplanningAgrees LayoutIsExtractable RefusalsAreReal
CHECK_DEADLOCK FALSE
