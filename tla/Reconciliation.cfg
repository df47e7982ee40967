SPECIFICATION Spec
CONSTANTS
  jquants = jquants
  edinetdb = edinetdb
  jq = jq
  sec = sec
  edi = edi
  edi2 = edi2
  nameA = nameA
  nameB = nameB
  IssuerIds = {i1, i2, i3}
  Keys <- MCKeys
  Names <- MCNames
  Docs = {d1}
  Sources = {s1}
  NoIssuer = NoIssuer
  NoName = NoName
  MaxRecords = 1
  Loaders <- MCLoaders
  Feed <- MCFeed
  Nobody = Nobody
  MaxRuns = 2
  MaxEdits = 2
SYMMETRY IssuerSymmetry
INVARIANTS NoDangling RerunIsNoop
PROPERTY HistoryFollows
CHECK_DEADLOCK FALSE
