CONSTANTS
  Packages = {p1, p2}
  Digests = {d1, d2}
  MaxGeneration = 2
  MaxTime = 3
  NoPlan = NoPlan
  NoReceipt = NoReceipt
  NoRequest = NoRequest
SYMMETRY Symmetry
SPECIFICATION Spec
INVARIANTS ReceiptSealsChain ExecutesRequestedPackage
PROPERTIES GuardsWinFirst ErrorsOnlyClose ImplementsLifecycle
