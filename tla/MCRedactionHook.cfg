SPECIFICATION Spec
CONSTANTS
  Shape <- AllShapes
  Spelled <- Spellings
  Inputs <- AnyLine
  Framework <- FrameworkFlags
  Reserved <- ReservedFlags
  Select = "select"
  DryRun = "dry-run"
  Json = "json"
  Hooked = {"--v"}
  Filler <- Fillers
  Numbers = {}
  Infinite = {}
  MaxUsage = 0
  MaxOther = 0
  MaxAction = 0
  MaxTokens = 2
  Texts = {"vault", "open", "put", "run", "z", "h", "--key", "--key=z", "--v", "--json", "--odd", "--odd=z", "-vk", "--", "--=x"}
INVARIANT RawValuesMasked
