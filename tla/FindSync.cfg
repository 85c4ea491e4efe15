SPECIFICATION Spec
CONSTANTS
  Node = {1, 2}
  Block <- MCBlock
  Genesis = "g"
  Parent <- MCParent
  Ancestors <- MCAncestors
  Start <- MCStart
  BatchSize = 2
  Dense = 2
  MaxReorg = 2
  MaxOrphans = 1
  MaxFaults = 0
CHECK_DEADLOCK FALSE
PROPERTY ForksResolve
