CONSTANTS
  Envelopes <- MCRetryEnvelopes
  MaxEnvelope = 1
  MaxRetained = 2
  MaxShift = 3
  MaxBackoff = 3
  MaxAttempts = 3
  MaxTime = 4
  MaxBoots = 2
  MaxSnapshots = 3
  Closed = Closed
  NoCall = NoCall
CHECK_DEADLOCK FALSE
SPECIFICATION Spec
INVARIANTS RetryIsBounded
