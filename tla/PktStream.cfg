SPECIFICATION FairStreamSpec
CONSTANTS
  N = 3
  Nm = 4
  NBors = 1
  McntMod = 40
  WordMod = 16
  SidVerdicts = {TRUE}
  MaxCount = 8
  MaxFlight = 2
  MaxLosses = 1
  MaxRestarts = 1
INVARIANTS MissedIsGaps NetmcntIsLastFilled
PROPERTY BlocksKeepComing
