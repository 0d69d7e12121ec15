SPECIFICATION Spec
CONSTANTS
  None = None
  Unknown = Unknown
  Torn = Torn
  MetadataGuid = MetadataGuid
  EcGuid = EcGuid
  EcFirmware = EcFirmware
  Binary <- MCBinary
  Part <- MCPart
  RefusedPart <- MCRefusedPart
  TypeGuid <- MCTypeGuid
  MatchId <- MCMatchId
  Dir <- MCDir
  FfsName <- MCFfsName
  MetadataFfs = "Metadata.ffs"
  EcFfs = "EC_FW.ffs"
  StemOf <- MCStemOf
  Renamed <- MCRenamed
  Jobs <- MCJobs
  MaxRuns = 2
INVARIANTS
  TypeOK
  PackedPairs
  GuidsDistinct
  NothingStalePacked
  DevicePathsAsWritten
  CleanupComplete
PROPERTIES
  OnlyOwnFfsRemoved
  RunEnds
  ImplementsContract
CHECK_DEADLOCK FALSE
