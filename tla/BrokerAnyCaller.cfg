CONSTANTS
  Connections = {c1, c2}
  Requests = {r1}
  Uids = {u1}
  OperationKeys = {k1}
  Packages = {p1}
  Allowed <- MCAllowed
  SigningKeys = {s1, s2}
  Credentials = {w1}
  SignCounts = {1}
  Lifetimes = {1}
  Obligations <- NoRules
  MaxGeneration = 1
  MaxTime = 0
  MaxBoots = 1
  NoKey = NoKey
  NoInput = NoInput
  NoBinding = NoBinding
  NoReceipt = NoReceipt
  NoCredential = NoCredential
  NoCall = NoCall
CHECK_DEADLOCK FALSE
SPECIFICATION FairSpec
INVARIANTS ReceiptIffTerminal EventsFollowLifecycle
PROPERTIES ClosedIsFinal VerifiedDecisionAnswered
