SPECIFICATION Spec
CONSTANTS
  Old = Old
  New = New
  Short = Short
  Empty = Empty
  None = None
  ExtraSpace = 1
  Twins = TRUE
  Certificates = {New, Short}
  CertLen <- MCCertLen
  Jobs <- MCJobs
CHECK_DEADLOCK FALSE
INVARIANT CountedAsPatched
