SPECIFICATION Spec
CONSTANTS
  MysqlTolerance = 0
  CleoTolerance = 0
  Circuits = {"Rcvr1_2", "Rcvr8_10"}
  MaxChanges = 2
  MaxErrors = 1
INVARIANTS TypeOK FileIsOfCircuit OffTakesEffect
PROPERTIES StaticIsNoticed
CHECK_DEADLOCK FALSE
