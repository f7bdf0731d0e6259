CONSTANTS
  w1 = w1
  None = None
  Workers = {w1}
  Height = 2
  Width = 2
  Scenes <- MCScenes
  Devices <- MCDevices
  MostParams = 2
  ParamCount <- MCParamCount
  Switches <- MCSwitches
  Points <- MCPoints
  Modes = {0, 6}
  Names = {"mine", "lead"}
  Values = {0, 1}
  Jobs <- MCJobs
  MaxCalls <- MCMaxCalls
  Rounds = 2
  MaxLag = 2
  MaxPlayer = 1
  Starts <- MCStarts
SPECIFICATION FairSpec
INVARIANTS TypeOK EndsAsAsked
PROPERTY CallsReturn
CHECK_DEADLOCK FALSE
