SPECIFICATION FairSpec
CONSTANTS
  Senders <- AllSenders
  High <- HighSenders
  QueueLen = 2
  Attempts = 2
  MaxMsgs = 2
INVARIANTS TypeOK NoLeak
PROPERTIES NormalInOrder CallersReturn StarvedByUrgentOnly KeepsPromise
