SPECIFICATION FairSpec
CONSTANTS
  Clients = {u1, u2}
  Threads <- TwoThreads
  Elevated = {u1, u2}
  Plans <- PairOrQuit
  MaxNotes = 1
  None = None
INVARIANTS TypeOK OwnReplies LiveIsServed
PROPERTIES CallsEnd QuitterHearsNothing
CHECK_DEADLOCK FALSE
