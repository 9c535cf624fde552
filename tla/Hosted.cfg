CONSTANTS
  Relations = {q1}
  Workers = {w1, w2}
  ClaimLimit = 1
  FirstSequence = 0
  FirstState = "pending"
  LaterStates = {"approved", "executing", "denied"}
  MaxEvents = 3
  MaxDigest = 4
  MaxReplies = 2
  NoWorker = NoWorker
  NoRow = NoRow
  NoDigest = NoDigest
CHECK_DEADLOCK FALSE
SPECIFICATION FairSpec
INVARIANTS ProjectionIsSignedHistory ResyncUnderWay
PROPERTIES UnderstoodIsResolved
