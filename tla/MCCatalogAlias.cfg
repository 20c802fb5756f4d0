SPECIFICATION Spec
CONSTANTS
    ArchivePaths <- MCArchivePaths
    MaxEntries = 4
INVARIANTS CatalogIsPrefixFree
CHECK_DEADLOCK FALSE
