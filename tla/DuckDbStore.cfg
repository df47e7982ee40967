SPECIFICATION Spec
CONSTANTS
  s1 = s1
  s2 = s2
  s3 = s3
  IssuerIds = {i1, i2}
  Keys = {k1, k2}
  Names = {n1, n2}
  Docs = {d1}
  NoIssuer = NoIssuer
  NoName = NoName
  Times = {1}
  Values = {v1, v2}
  SourceOrder <- MCSourceOrder
  Priority <- MCPriority
  MaxRecords = 2
  MaxPoints = 2
SYMMETRY Symmetry
INVARIANTS DisagreementReported AnswersAgree
PROPERTY ImplementsStore
CHECK_DEADLOCK FALSE
