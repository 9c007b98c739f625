CONSTANTS
  MaxMailbox = 1
  MaxEffects = 1
  MaxEpoch = 2
  MaxLinks = 2
  MaxEvents = 3
SPECIFICATION FairSpec
INVARIANTS EndShown
PROPERTIES NeverGoesBack FramesReach SignalsReach AsksAnswered
CHECK_DEADLOCK FALSE
