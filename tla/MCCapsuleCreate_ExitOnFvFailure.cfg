SPECIFICATION Spec
CONSTANTS
  None = None
  Torn = Torn
  Half = 2
  Version <- MCVersion
  Malformed <- MCMalformed
  WordOf <- MCVersionWord
  Word <- MCWord
  ImagePath <- MCImagePath
  BaseName <- MCBaseName
  ConfigName <- MCConfigName
  DefaultConfig = "config.json"
  Configs <- MCConfigs
  Jobs <- MCJobs
  MaxRuns = 2
CHECK_DEADLOCK FALSE
INVARIANT ExitOnFvFailure
