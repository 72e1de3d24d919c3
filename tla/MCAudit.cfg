SPECIFICATION AuditSpec
CONSTANTS
  Shape <- AllShapes
  Spelled <- Spellings
  Inputs <- AnyInput
  Filler <- Fillers
  Framework <- FrameworkFlags
  Reserved <- ReservedFlags
  Select = "select"
  DryRun = "dry-run"
  Json = "json"
  Hooked = {"h"}
  Numbers = {"true"}
  Infinite = {"put"}
  MaxTokens = 3
  Texts = {"vault", "open", "put", "run", "z", "h", "--key", "--key=z", "--v", "--select", "--dry-run", "--odd", "--odd=z", "-vk", "--", "--=x"}
  MaxUsage = 3
  MaxOther = 2
  MaxAction = 3
INVARIANTS
  SecretPositionalsMasked
  SecretFlagsMasked
  RefusalsRepeatNothingMasked
  ReadsWereGiven
  OpaqueMasksMore
  RawValuesMasked
  CleanTemplatesRun
  ResolvedActionsRun
  CleanSecretsMasked
  ScannersAgree
