SPECIFICATION FairSpec
CONSTANTS
  NFRAMES = 4
  Kinds = {"data", "other", "bad_size"}
  MaxBadSize = 2
  SerialMod = 6
PROPERTIES SeenInOrder KeepsReceivingWellSized
CHECK_DEADLOCK FALSE
