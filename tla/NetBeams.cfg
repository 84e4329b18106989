SPECIFICATION FairSpec
CONSTANTS
  N = 3
  Nm = 2
  N_BEAMS = 2
  McntMod = 28
  WordMod = 8
  StartMcnts = {19}
  StraySids = {2}
  MaxSkew = 1
  MaxFaults = 1
INVARIANTS MissedIsGapsPerBeam TotalsAgree
PROPERTIES ResetNeedsEveryBeam ImplementsInputRing BlocksKeepComing
