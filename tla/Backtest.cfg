SPECIFICATION Spec
CONSTANTS
  t1 = t1
  t2 = t2
  Universe <- MCUniverse
  Prices = {1, 2}
  Unit = 4
  TopK = 1
  Lookback = 1
  Cost = 1
  Strategies = {"hold", "momentum", "reversion"}
  Starts = {1, 2}
  MaxDays = 4
INVARIANTS ReturnsCompound RankRespected MetricsAgree
PROPERTY NoLookahead
CHECK_DEADLOCK FALSE
