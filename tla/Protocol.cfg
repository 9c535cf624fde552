SPECIFICATION Spec
CONSTANTS
    Limits <- MCLimits
    Alphabet <- MCAlphabet
    Starts <- MCStarts
    MaxMore = 5
    MaxI64 = 2
    MaxU64 = 5
    MaxPayload = 2
    MessageBytes = {1, 2}
    Alterations <- MCAlterations
    MaxAltered = 2
    SigningKeys = {k1, k2}
    Payloads = {p1, p2}
    ContentTypes = {1, 2}
    Domains = {"Request", "Decision"}
    KeyRoles = {"Broker", "Revocation"}
    KidBytes = {7, 8, 32}
    MaxTime = 2
    MaxIssued = 2
    Texts <- MCTexts
    MaxArgs = 8
INVARIANTS
    OneEncoding
    EncodesTheProfile
    ReadBackIsTheMessage
    EndsAgree
    OneKind
    VerifiesExactlyTheSigned
    ClientAgreesWithBroker
SYMMETRY SignersAndPayloads
CHECK_DEADLOCK FALSE
