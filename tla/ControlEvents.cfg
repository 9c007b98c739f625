SPECIFICATION FairSpec
CONSTANTS
  Subs = {s1}
  Calls = {c1, c2}
  NoCall = NoCall
  Topics = {t1, t2}
  Sizes <- FitsAndTooLarge
  BatchBytes = 2
  QueueLimit = 2
  MaxSubscriptions = 1
  MaxSequence <- OneTooFew
  MaxEvents = 4
CHECK_DEADLOCK FALSE
INVARIANTS QueueExact
PROPERTIES WaitAnswered ImplementsStream
