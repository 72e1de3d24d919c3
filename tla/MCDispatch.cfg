SPECIFICATION Spec
CONSTANTS
  Shape <- AllShapes
  Spelled <- Spellings
  Inputs <- Lines
  Framework <- FrameworkFlags
  Reserved <- ReservedFlags
  Select = "select"
  DryRun = "dry-run"
  Json = "json"
  MaxTokens = 4
  NormalTexts = {"get", "put", "tail", "z", "--v", "--x", "-vx", "--dry-run", "--json=z", "--help", "--"}
  RawTexts = {"code", "grep", "deep", "z", "--x", "--json", "--dry-run", "--version", "--=x", "help", "todo", "skill", "version"}
INVARIANTS
  TokensDelivered
  HelpAndRepeatsRunNothing
  DryRunHonored
  ParsedByOwnSchema
  RawOwnsItsTail
  StreamRefusalsAreNdjson
