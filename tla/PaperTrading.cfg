SPECIFICATION Spec
CONSTANTS
  a = a
  b = b
  Tickers <- MCTickers
  Runners = {r1, r2}
  Decisions <- MCDecisions
  Prices = {2, 3}
  PermitSets <- MCPermitSets
  Capital = 10
  AccountCap = 1
  Units = 10
  AvgUnits = 10
  WeightUnits = 6
  NoDay = NoDay
  NoConfig = NoConfig
  NoTrade = NoTrade
  MaxDay = 1
  MaxTrades = 3
SYMMETRY RunnerSymmetry
INVARIANTS NoTradeOverDailyLoss  OverdraftBounded BooksBalance
CHECK_DEADLOCK FALSE
