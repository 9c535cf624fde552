CONSTANTS
  Envelopes <- MCEnvelopes
  MaxEnvelope = 1
  MaxRetained = 1
  MaxShift = 1
  MaxBackoff = 1
  MaxAttempts = 1
  MaxTime = 1
  MaxBoots = 2
  MaxSnapshots = 4
  Closed = Closed
  NoCall = NoCall
CHECK_DEADLOCK FALSE
SPECIFICATION Spec
INVARIANTS AcceptedSurvives AcknowledgedStaysGone SpoolReopens
