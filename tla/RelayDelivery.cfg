CONSTANTS
  Envelopes <- MCEnvelopes
  SequenceOf <- MCSequenceOf
  MaxEnvelope = 1
  MaxRetained = 2
  MaxShift = 1
  MaxBackoff = 1
  MaxAttempts = 1
  MaxTime = 1
  MaxBoots = 1
  MaxSnapshots = 2
  Closed = Closed
  NoCall = NoCall
  NoDigest = NoDigest
  MaxReplies = 1
CHECK_DEADLOCK FALSE
SPECIFICATION DeliverySpec
INVARIANTS NoEventForgotten RetryIsBounded
PROPERTIES ImplementsContract
