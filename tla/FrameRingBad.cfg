SPECIFICATION FairSpec
CONSTANTS
  NFRAMES = 4
  Kinds = {"data", "other", "bad_size"}
  MaxBadSize = 1
  SerialMod = 6
PROPERTY KeepsReceiving
CHECK_DEADLOCK FALSE
