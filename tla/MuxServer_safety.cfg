SPECIFICATION Spec
CONSTANTS
  Clients = {c1, c2}
  Generations = {1, 2, 3}
  Dirs = {d1}
  Layouts = {l1}
  Commands <- CoreCommands
  Requests = {"prepare", "execute"}
  Loop = loop
  NoClient = none
  WriterMayFail = TRUE
  Started = 1
  MaxTitles = 0
SYMMETRY ClientSymmetry
INVARIANTS PanesMatchTopology NoLeakedProcess
PROPERTIES RemovedPanesStopped ReservationFreezesPanes ImplementsStore
CHECK_DEADLOCK FALSE
