SPECIFICATION Spec
CONSTANTS
  Receivers = {"A", "B"}
  Sid = 1
  MaxBlocks = 3
  MaxSecond = 1
  MaxRestarts = 1
INVARIANTS ClosedIsRenamedOrReported CountsIntegrations NamedForItsReceiver
INVARIANTS  WrittenIsKept
PROPERTY ReadyIsFinal
CHECK_DEADLOCK FALSE
