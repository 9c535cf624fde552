---------------------------- MODULE OutboxLease -----------------------------
(***************************************************************************)
(* The transactional outbox of the hosted service: rows that              *)
(* rootpermit.claim_outbox leases to workers, and runOnce of               *)
(* TransactionalOutboxWorker, which delivers a claimed row and then        *)
(* completes or reschedules it.  Every statement is a transaction of its   *)
(* own, so other workers and the API run in between.                       *)
(*                                                                         *)
(* Clocks are abstracted: a delay that passes and a lease that lapses are  *)
(* steps.  A row id and its lease_generation are only ever compared with   *)
(* what a worker was given when it claimed the row, so a row remembers     *)
(* whose claim was the last one and a fresh row that it has none.          *)
(***************************************************************************)
EXTENDS Integers, Sequences, FiniteSets

CONSTANTS
  Relations,    \* what rows relate to; the dedupe key allows one row for each
  Workers,      \* TransactionalOutboxWorker instances
  ClaimLimit,   \* the limit passed to runOnce
  NoWorker, NoRow

ASSUME ClaimLimitAssumption == ClaimLimit \in Nat \ {0}
ASSUME NoWorkerAssumption == NoWorker \notin Workers

VARIABLES
  outbox,    \* the row of a relation, or NoRow
  queue,     \* the claimed rows a worker still has to work off
  phase      \* where it is with the first of them

outboxVars == <<outbox, queue, phase>>

Rows == [due : BOOLEAN,      \* visible_after <= now
         leased : BOOLEAN,   \* leased_until > now
         claimant : Workers \cup {NoWorker}]

ASSUME NoRowAssumption == NoRow \notin Rows

OutboxTypeOK ==
  /\ outbox \in [Relations -> Rows \cup {NoRow}]
  /\ queue \in [Workers -> Seq(Relations)]
  /\ phase \in [Workers -> {"deliver", "complete", "reschedule"}]

OutboxInit ==
  /\ outbox = [r \in Relations |-> NoRow]
  /\ queue = [w \in Workers |-> <<>>]
  /\ phase = [w \in Workers |-> "deliver"]

------------------------------------------------------------------------------
\* Time.

DelayPasses(r) ==
  /\ outbox[r] # NoRow /\ ~outbox[r].due
  /\ outbox' = [outbox EXCEPT ![r].due = TRUE]
  /\ UNCHANGED <<queue, phase>>

LeaseLapses(r) ==
  /\ outbox[r] # NoRow /\ outbox[r].leased
  /\ outbox' = [outbox EXCEPT ![r].leased = FALSE]
  /\ UNCHANGED <<queue, phase>>

------------------------------------------------------------------------------
\* claim_outbox.

\* Fault: a row whose lease lapsed is not offered again.
ClaimableOnce(r) ==
  outbox[r] # NoRow /\ outbox[r].due /\ outbox[r].claimant = NoWorker

Claimable(r) == outbox[r] # NoRow /\ outbox[r].due /\ ~outbox[r].leased

\* runOnce begins: up to ClaimLimit claimable rows, in any order; SKIP LOCKED may
\* leave some of them to others.
Claim(w) ==
  /\ queue[w] = <<>>
  /\ \E n \in 1 .. ClaimLimit : \E batch \in [1 .. n -> {r \in Relations : Claimable(r)}] :
       /\ \A i, j \in 1 .. n : batch[i] = batch[j] => i = j
       /\ queue' = [queue EXCEPT ![w] = batch]
       /\ outbox' = [r \in Relations |->
                       IF \E i \in 1 .. n : batch[i] = r
                         THEN [outbox[r] EXCEPT !.leased = TRUE, !.claimant = w]
                         ELSE outbox[r]]
  /\ UNCHANGED phase

------------------------------------------------------------------------------
\* The loop of runOnce, for the first row of the batch.

Working(w, p) == queue[w] # <<>> /\ phase[w] = p

\* The id and the lease generation are still the ones that were claimed.
StillClaimed(w) ==
  LET row == outbox[Head(queue[w])] IN row # NoRow /\ row.claimant = w

\* delivery.deliver returned.
DeliverReturns(w) ==
  /\ Working(w, "deliver")
  /\ phase' = [phase EXCEPT ![w] = "complete"]
  /\ UNCHANGED <<outbox, queue>>

\* delivery.deliver, or after it complete, threw.
WorkThrows(w) ==
  /\ Working(w, "deliver") \/ Working(w, "complete")
  /\ phase' = [phase EXCEPT ![w] = "reschedule"]
  /\ UNCHANGED <<outbox, queue>>

NextOfBatch(w) ==
  /\ queue' = [queue EXCEPT ![w] = Tail(@)]
  /\ phase' = [phase EXCEPT ![w] = "deliver"]

\* complete: the row is deleted if it is still the claimed one.
Complete(w) ==
  /\ Working(w, "complete")
  /\ outbox' = IF StillClaimed(w) THEN [outbox EXCEPT ![Head(queue[w])] = NoRow] ELSE outbox
  /\ NextOfBatch(w)

\* reschedule: visible_after moves, and the trigger releases the lease.
Reschedule(w) ==
  /\ Working(w, "reschedule")
  /\ outbox' = IF StillClaimed(w)
                 THEN [outbox EXCEPT ![Head(queue[w])].due = FALSE,
                                     ![Head(queue[w])].leased = FALSE]
                 ELSE outbox
  /\ NextOfBatch(w)

\* The process dies, reschedule throws, or claimedItem refuses a row: the rest of
\* the batch stays leased.
Stop(w) ==
  /\ queue[w] # <<>>
  /\ queue' = [queue EXCEPT ![w] = <<>>]
  /\ phase' = [phase EXCEPT ![w] = "deliver"]
  /\ UNCHANGED outbox

------------------------------------------------------------------------------
\* What the API does to the rows, inside its own transactions.

\* INSERT ... ON CONFLICT DO UPDATE SET visible_after = now(), with the trigger.
Armed(row) ==
  IF row = NoRow THEN [due |-> TRUE, leased |-> FALSE, claimant |-> NoWorker]
                 ELSE [row EXCEPT !.due = TRUE, !.leased = FALSE]

Arm(r) == outbox' = [outbox EXCEPT ![r] = Armed(@)]
Disarm(r) == outbox' = [outbox EXCEPT ![r] = NoRow]
=============================================================================
