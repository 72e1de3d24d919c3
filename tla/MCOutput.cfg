SPECIFICATION WireSpec
CONSTANTS
  Project <- ProjectOutput
  Calls <- AnyCall
  Outputs <- AnyOutput
  Rendered <- FrameworkResults
  Listed <- ListRows
  MaxRows = 2
  Spelling <- Spelled
  CommandActions <- Usage
  RootActions <- Root
  Codes = {"auth", "net"}
  MaxFields = 2
INVARIANTS
  SelectionIsWhatWasNamed
  MissesAreNamed
  SelectNeverWipes
  AdvertisedPathsProject
  DoctorIsActionable
  LinesReadBack
  TimestampsAreTrue
CHECK_DEADLOCK FALSE
