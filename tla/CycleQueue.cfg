SPECIFICATION Spec
CONSTANTS
  Configs <- AnyConfig
  TokenCap = 3
  MaxTokens = 1
  MaxItems = 3
INVARIANTS EventProtocol TradeIsJustified ResultTellsTheEnd ContextReleased
PROPERTIES ServiceSpec DrainServesAll
CHECK_DEADLOCK FALSE
