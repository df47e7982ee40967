SPECIFICATION Spec
CONSTANTS
  Cycles = {c1}
  Tickers = {1, 2}
  MaxQty = 1
  Targets <- BuyBothThenSellOne
  FillIds = {f1}
  Cap = 1
  MaxLoss = 0
  MaxExecs = 2
  MaxCrashes = 1
  NoOrder = NoOrder
  NoUpdate = NoUpdate
PROPERTY KillSwitchRefusesOrders
CHECK_DEADLOCK FALSE
