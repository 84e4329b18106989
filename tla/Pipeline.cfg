SPECIFICATION FairSpec
CONSTANTS
  N_INPUT_BLOCKS = 4
  N_OUTPUT_BLOCKS = 3
  StampMod = 8
INVARIANTS RmsIsRecent NoCircularWait
PROPERTIES ImplementsFifo FilledIsRecorded
CHECK_DEADLOCK FALSE
