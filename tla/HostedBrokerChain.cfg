CONSTANTS
  Relations = {q1}
  Workers = {w1}
  ClaimLimit = 1
  FirstSequence = 1
  FirstState = "planning"
  LaterStates = {"pending"}
  MaxEvents = 2
  MaxDigest = 2
  MaxReplies = 2
  NoWorker = NoWorker
  NoRow = NoRow
  NoDigest = NoDigest
CHECK_DEADLOCK FALSE
SPECIFICATION FairSpec
PROPERTIES FrozenIsResolved
