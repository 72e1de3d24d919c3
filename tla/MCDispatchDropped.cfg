SPECIFICATION Spec
CONSTANTS
  Shape <- AllShapes
  Spelled <- Spellings
  Inputs <- Lines
  Framework <- FrameworkFlags
  Reserved <- ReservedFlags
  Select = "select"
  DryRun = "dry-run"
  Json = "json"
  MaxTokens = 4
  NormalTexts = {"z"}
  RawTexts = {"grep", "z", "--dry-run", "--=x"}
INVARIANTS
  PrefixFlagNeverDropped
