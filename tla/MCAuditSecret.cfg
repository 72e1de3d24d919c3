SPECIFICATION AuditSpec
CONSTANTS
  Shape <- AllShapes
  Spelled <- Spellings
  Inputs = {}
  Filler <- Fillers
  Framework <- FrameworkFlags
  Reserved <- ReservedFlags
  Select = "select"
  DryRun = "dry-run"
  Json = "json"
  Hooked = {}
  Numbers = {}
  Infinite = {}
  MaxTokens = 0
  Texts = {}
  MaxUsage = 2
  MaxOther = 0
  MaxAction = 0
INVARIANT UnwarnedSecretsMasked
