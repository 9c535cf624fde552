--------------------------- MODULE ProjectionChain ---------------------------
(***************************************************************************)
(* ProjectionChain of rp-relay: the guard a hosted projection keeps for    *)
(* one request under at-least-once, out-of-order delivery.  Events are     *)
(* verified before they get here.                                          *)
(***************************************************************************)
EXTENDS Naturals, Sequences

CONSTANT NoDigest

VARIABLES
  applied,         \* sequence -> event_digest
  next_sequence,   \* 0 in a default value, which stands for 1
  frozen_gap

chainVars == <<applied, next_sequence, frozen_gap>>

Empty == [s \in {} |-> NoDigest]

ChainInit == applied = Empty /\ next_sequence = 0 /\ frozen_gap = FALSE

Expected == IF next_sequence = 0 THEN 1 ELSE next_sequence

\* The results of ingest.
IsApplied(e) == ~frozen_gap /\ e.sequence = Expected

IsDuplicate(e) ==
  /\ ~frozen_gap
  /\ e.sequence < Expected
  /\ e.sequence \in DOMAIN applied /\ applied[e.sequence] = e.digest

IsFrozenGap(e) == ~IsApplied(e) /\ ~IsDuplicate(e)

\* Fault: an event from the future is applied and what it skipped is forgotten.
ingest_forward(e) ==
  /\ e.sequence >= Expected
  /\ applied' = [s \in DOMAIN applied \cup {e.sequence} |->
                   IF s = e.sequence THEN e.digest ELSE applied[s]]
  /\ next_sequence' = e.sequence + 1
  /\ UNCHANGED frozen_gap

\* ingest.
ingest(e) ==
  \/ /\ IsApplied(e)
     /\ applied' = [s \in DOMAIN applied \cup {e.sequence} |->
                      IF s = e.sequence THEN e.digest ELSE applied[s]]
     /\ next_sequence' = Expected + 1
     /\ UNCHANGED frozen_gap
  \/ IsDuplicate(e) /\ UNCHANGED chainVars
  \/ IsFrozenGap(e) /\ frozen_gap' = TRUE /\ UNCHANGED <<applied, next_sequence>>

\* Fault: any run of successive events is accepted.
Contiguous(events) ==
  \A i \in 1 .. Len(events) - 1 : events[i + 1].sequence = events[i].sequence + 1

\* A default value answers Applied to each of the events in turn.
Restores(events) == \A i \in 1 .. Len(events) : events[i].sequence = i

\* restore_contiguous; on an error nothing changes.
restore_contiguous(events) ==
  /\ Restores(events)
  /\ applied' = [s \in {events[i].sequence : i \in 1 .. Len(events)} |->
                   events[CHOOSE i \in 1 .. Len(events) : events[i].sequence = s].digest]
  /\ next_sequence' = IF events = <<>> THEN 0 ELSE events[Len(events)].sequence + 1
  /\ frozen_gap' = FALSE
=============================================================================
