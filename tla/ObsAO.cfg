SPECIFICATION Spec
CONSTANTS
  Groups = {"AGC", "IF2", "TT"}
  ScramLagTolerance = 1
  Settings = {{"alfon", "turret_alfa", "gregorian"}, {"turret_327", "syn2_327", "gregorian"}, {"alfon"}}
  MaxChanges = 1
INVARIANT StaleAnswersBounded
PROPERTIES AlfaIsRecent DeadDaemonIsNoticed
