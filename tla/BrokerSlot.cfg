CONSTANTS
  Connections = {c1, c2}
  Requests = {r1, r2}
  Uids = {u1}
  OperationKeys = {k1, k2}
  Packages = {p1, p2}
  Allowed <- MCAllowed
  SigningKeys = {s1}
  Credentials = {w1}
  SignCounts = {1, 2}
  Lifetimes = {1}
  Obligations <- AllRules
  MaxGeneration = 1
  MaxTime = 0
  MaxBoots = 2
  NoKey = NoKey
  NoInput = NoInput
  NoBinding = NoBinding
  NoReceipt = NoReceipt
  NoCredential = NoCredential
  NoCall = NoCall
CHECK_DEADLOCK FALSE
SYMMETRY Symmetry
SPECIFICATION Spec
INVARIANTS OneActive RetriesAgree
PROPERTIES CountersOnlyRise ImplementsLifecycle
