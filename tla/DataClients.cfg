SPECIFICATION DataSpec
CONSTANTS
  Calls = {c1, c2}
  Cap = 1
  TicksPerDay = 2
  MaxTime = 8
  Clients = {"jquants", "gamma", "clob", "edinet", "edinetdb", "yfinance", "archive"}
  Interval <- MCInterval
  Schedule <- MCSchedule
  MaxRetries = 2
  EmptyLimit = 3
  Ttl = 2
  Keys = {k1}
SYMMETRY Symmetry
INVARIANTS  AnswersAreCounted PacedByCaller GiveUpOutlasts ExhaustedMeansEmpties ArchiveWhole
CHECK_DEADLOCK FALSE
