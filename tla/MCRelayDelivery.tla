--------------------------- MODULE MCRelayDelivery ---------------------------
(***************************************************************************)
(* Small instances of RelayDelivery for TLC.                               *)
(***************************************************************************)
EXTENDS RelayDelivery

EventEnvelope(id, key) ==
  [id |-> id, key |-> key, direction |-> "broker_to_service",
   kind |-> "LifecycleEvent", size |-> 1]

\* Three events whose envelope ids are not in the order of the events.
MCEnvelopes == {EventEnvelope(2, "a"), EventEnvelope(1, "b"), EventEnvelope(3, "c")}
MCSequenceOf == [e \in MCEnvelopes |-> CASE e.id = 2 -> 1 [] e.id = 1 -> 2 [] OTHER -> 3]
=============================================================================
