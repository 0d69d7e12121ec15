SPECIFICATION Spec
CONSTANTS
  None = None
  Unknown = Unknown
  Torn = Torn
  MetadataGuid = MetadataGuid
  EcGuid = EcGuid
  EcFirmware = EcFirmware
  Binary <- MCBinary
  Part <- MCPart
  RefusedPart <- MCRefusedPart
  TypeGuid <- MCTypeGuid
  MatchId <- MCMatchId
  Dir <- MCDir
  FfsName <- MCFfsName
  MetadataFfs = "Metadata.ffs"
  EcFfs = "EC_FW.ffs"
  StemOf <- MCStemOf
  Renamed <- MCRenamed
  Jobs <- MCJobs
  MaxRuns = 2
INVARIANT
  DevicePathsExclusive
CHECK_DEADLOCK FALSE
