---------------------------- MODULE MCRelaySpool -----------------------------
(***************************************************************************)
(* Small instances of RelaySpool for TLC.                                  *)
(***************************************************************************)
EXTENDS RelaySpool

Envelope(id, key, direction, kind, size) ==
  [id |-> id, key |-> key, direction |-> direction, kind |-> kind, size |-> size]

\* Two envelopes that reuse an id under different keys, one for each direction,
\* and two that OpaqueEnvelope::new refuses.
MCEnvelopes ==
  {Envelope(1, "a", "broker_to_service", "Receipt", 1),
   Envelope(1, "b", "broker_to_service", "LifecycleEvent", 1),
   Envelope(2, "c", "service_to_broker", "DecisionSubmission", 1),
   Envelope(2, "d", "service_to_broker", "Receipt", 1),
   Envelope(3, "e", "broker_to_service", "Request", 2),
   Envelope(3, "f", "broker_to_service", "Request", 1)}

\* One envelope; its retries are what the run is about.
MCRetryEnvelopes == {Envelope(1, "a", "broker_to_service", "Receipt", 1)}
=============================================================================
