SPECIFICATION FairSpec
CONSTANTS
  Clients = {c1, c2}
  Generations = {1, 2}
  Dirs = {d1}
  Layouts = {l1}
  Commands <- SplitOnly
  Requests = {"prepare", "layout"}
  Loop = loop
  NoClient = none
  WriterMayFail = TRUE
  Started = 1
  MaxTitles = 0
PROPERTIES ReservationReleased
CHECK_DEADLOCK FALSE
