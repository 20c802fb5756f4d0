SPECIFICATION Spec
CONSTANTS
    Importers = {p, q}
    EntryCount = 1
    EntrySize <- OneEntry
    MaxChunk = 2
    MaxRuns = 2
    MaxSourceChanges = 1
    MaxOutsideSteps = 1
    Absent = Absent
    Outsider = Outsider
INVARIANTS StopPreventsPublication PublishedIsWhole ReportIsTrue
PROPERTIES ImplementsPublishedPayload
SYMMETRY Interchangeable
CHECK_DEADLOCK FALSE
