SPECIFICATION FairSpec
CONSTANTS
  Ids = {i1, i2}
  Capacity = 2
  Batch = 1
CHECK_DEADLOCK FALSE
 
PROPERTIES KeepsContract 
