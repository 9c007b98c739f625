SPECIFICATION FairSpec
CONSTANTS
  Clients = {c1}
  Generations = {1, 2, 3}
  Dirs = {d1, d2}
  Layouts = {l1}
  Commands <- BulkCommands
  Requests = {"execute", "respawn"}
  Loop = loop
  NoClient = none
  WriterMayFail = FALSE
  Started = 1
  MaxTitles = 2
PROPERTIES TitlesPublished
CHECK_DEADLOCK FALSE
