SPECIFICATION FairSpec
CONSTANTS
  c1 = c1
  c2 = c2
  c3 = c3
  none = none
  None = none
  Calls <- Triple
  Requests <- Boundaries
  Stems <- Overlapping
  Names <- Files
  NameOf <- Suffixed
  Attempts = 2
  Utf8TempDir = TRUE
  MaxCleanups = 2
INVARIANTS
  LostOnlyToSecondCleanup
  ResultDecodes
  OrphansComeFromFailure
  ExhaustedByRivals
PROPERTY CallReturns
CHECK_DEADLOCK FALSE
