CONSTANTS
  Interval = 1
  Target = 1
  MinSamples = 2
  MaxDuration = 4
  MinReady = 2
  SampleTime = 1
  Generations = 2
  WorldLimit = 1
  CrashLimit = 1
  Services = {"demo-api", "worker"}
  GivenId = "demo-api"
  Containers <- MCContainers
  HexIds <- MCHexIds
  Answers <- MCAnswers
  Samples <- MCSamples
SPECIFICATION FairSpec
PROPERTIES MissingSignalResets
\* An attempt ends.
CHECK_DEADLOCK FALSE
