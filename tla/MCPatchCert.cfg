SPECIFICATION Spec
CONSTANTS
  Old = Old
  New = New
  Short = Short
  Empty = Empty
  None = None
  ExtraSpace = 1
  Twins = FALSE
  Certificates = {New, Short, None}
  CertLen <- MCCertLen
  Jobs <- MCJobs
CHECK_DEADLOCK FALSE
INVARIANTS
  TypeOK
  DigestsFollow
  OthersIntact
  TreesInOrder
  HeadersAgree
  XzAllOrNothing
PROPERTIES
  ImplementsContract
  RunEnds
