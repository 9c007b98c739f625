SPECIFICATION FairSpec
CONSTANTS
  Ids = {i1, i2}
  NoId = NoId
  Slots = {k1, k2}
  NoSlot = NoSlot
  QueueLimit = 2
  MaxSubscriptions = 1
  MaxChanges = 3
  Good <- Transient
  MayCancel = TRUE
  MayExpire = TRUE
  MayFail = TRUE
CHECK_DEADLOCK FALSE
INVARIANTS SleeperCurrent 
 
