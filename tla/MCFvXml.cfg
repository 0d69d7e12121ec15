SPECIFICATION Spec
CONSTANTS
  None = None
  Unknown = Unknown
  Torn = Torn
  Images = Images
  Guid1 = Guid1
  File1 = File1
  File2 = File2
  File3 = File3
  File4 = File4
  File5 = File5
  Binary = {File1, File2, File3, File4, File5}
  Part <- MCPart
  RefusedPart <- MCRefused
  TypeGuid = {Guid1}
  MatchId = {}
  Dir = {Images}
  Rank <- MCRank
  Jobs <- MCJobs
CHECK_DEADLOCK FALSE
INVARIANTS
  TypeOK
  EntriesOfWinners
  PairedOnce
  GeneratedAccepted
