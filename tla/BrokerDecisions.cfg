CONSTANTS
  Connections = {c1, c2}
  Requests = {r1}
  Uids = {u1}
  OperationKeys = {k1}
  Packages = {p1}
  Allowed <- MCAllowed
  SigningKeys = {s1}
  Credentials = {w1, w2}
  SignCounts = {1}
  Lifetimes = {1, 2}
  Obligations <- AllRules
  MaxGeneration = 2
  MaxTime = 1
  MaxBoots = 2
  NoKey = NoKey
  NoInput = NoInput
  NoBinding = NoBinding
  NoReceipt = NoReceipt
  NoCredential = NoCredential
  NoCall = NoCall
CHECK_DEADLOCK FALSE
SYMMETRY Symmetry
SPECIFICATION Spec
INVARIANTS TypeOK LiveWorkIsOfThisBoot PendingIsBound ReceiptMatchesHistory
PROPERTIES DecisionAuthorised
