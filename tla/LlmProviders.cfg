SPECIFICATION ProvidersSpec
CONSTANTS
  Calls = {c1, c2}
  Setups <- MCSetups
  Life = 2
  FallbackTtl = 2
  MaxTime = 3
INVARIANTS EachTriedOnce
PROPERTY Settles
CHECK_DEADLOCK FALSE
