SPECIFICATION Spec
CONSTANTS
  N = 3
  Nm = 2
  NBors = 1
  McntMod = 13
  WordMod = 8
  SidVerdicts = {TRUE, FALSE}
  MaxCount = 3
INVARIANTS TypeOK HoldsTwoBlocks FillsInRingOrder HeadersCoverWindow CountersAgree
PROPERTIES FilledBlocksAreStable ImplementsInputRing
