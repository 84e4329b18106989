SPECIFICATION FairShareSpec
CONSTANTS
  Instances = {"instance1", "instance2"}
INVARIANTS ShareTypeOK Serialized
PROPERTY NobodyWaitsForTheDead
