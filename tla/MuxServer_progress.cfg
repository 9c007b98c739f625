SPECIFICATION FairSpec
CONSTANTS
  Clients = {c1, c2}
  Generations = {1, 2}
  Dirs = {d1}
  Layouts = {l1, l2}
  Commands <- SplitOnly
  Requests = {"prepare", "layout"}
  Loop = loop
  NoClient = none
  WriterMayFail = FALSE
  Started = 1
  MaxTitles = 0
PROPERTIES ReservationReleased WaitsEnd
CHECK_DEADLOCK FALSE
