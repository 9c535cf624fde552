CONSTANTS
  Accounts = {a1, a2}
  TenantOf <- MCTenantOf
  Devices = {d1}
  Pairings = {p1, p2}
  Credentials = {c1, c2}
  Requests = {q1}
  Calls = {h1, h2}
  MaxCredentials = 5
  MaxOutbox = 2
  Nobody = Nobody
  None = None
CHECK_DEADLOCK FALSE
SYMMETRY Symmetry
SPECIFICATION Spec
INVARIANTS ForwardedOnce NoDecisionAfterRevocation DecisionsStayInTenant
           LockedHasNoCredential ActivatedForItsClaimer
PROPERTIES LastRevocationLocks
