SPECIFICATION FairTransferSpec
CONSTANTS
  MaxOutput = 3
  Retained = 2
  ReadLimit = 1
  Blocks = 2
  MaxEdits = 1
  MaxTries = 2
CHECK_DEADLOCK FALSE
INVARIANTS NothingLeft OutputExact
PROPERTIES  FilesWhole
