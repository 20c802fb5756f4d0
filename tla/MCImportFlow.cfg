\* Two programs with the same recipe or with two, stopped, killed, restarted.
SPECIFICATION Spec
CONSTANTS
  Programs <- TwoPrograms
  Recipes <- OneOrTwo
  Files = 1
  MaxClears = 1
  MaxRestarts = 1
INVARIANTS
  OutcomeIsTrue
  EntryIsWhole
PROPERTIES
  ImportIsFound
  ProgramsExit
CHECK_DEADLOCK FALSE
