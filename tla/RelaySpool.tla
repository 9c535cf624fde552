----------------------------- MODULE RelaySpool ------------------------------
(***************************************************************************)
(* FileRelaySpool of rp-relay: a map of opaque envelopes in memory and one *)
(* snapshot file that every successful operation replaces.  The operations *)
(* take &mut self, so one runs at a time; what can come in between is the  *)
(* death of the process or the loss of power.  persist is two steps, the   *)
(* rename and the sync of the directory, because only the second makes the *)
(* first durable; the temporary file is never read and is left out.        *)
(***************************************************************************)
EXTENDS Integers, FiniteSets, Functions

CONSTANTS
  Envelopes,      \* what producers hand to OpaqueEnvelope::new
  MaxEnvelope,    \* MAX_OPAQUE_ENVELOPE_BYTES
  MaxRetained,    \* MAX_RETAINED_ENVELOPES
  MaxShift,       \* the largest exponent of the backoff
  MaxBackoff,     \* the largest backoff, in units of the smallest
  MaxAttempts,    \* bound: deliveries of one retained entry
  MaxTime,        \* bound: the monotonic clock
  MaxBoots,       \* bound: boots of the host
  MaxSnapshots,   \* bound: renames the directory has not made durable, plus one
  Closed, NoCall

VARIABLES
  memory,    \* the open FileRelaySpool's map, or Closed
  file,      \* the snapshot the path names
  stable,    \* the snapshots it may name after a power loss
  call,      \* the operation inside persist
  owed,      \* enqueue returned Ok, no matching acknowledgement began
  gone,      \* acknowledge returned Ok, not handed to enqueue again
  sent,      \* envelopes next_delivery handed out
  mono, boots

ghosts == <<owed, gone, sent>>
clock == <<mono, boots>>
vars == <<memory, file, stable, call, ghosts, clock>>

------------------------------------------------------------------------------
Directions == {"broker_to_service", "service_to_broker"}
FromBroker == {"EnrollmentAcknowledgement", "Request", "LifecycleEvent", "Receipt",
               "KeysetAcknowledgement"}
FromService == {"ServiceKeyset", "DecisionSubmission", "RevocationEvent",
                "ResyncRequest"}

ASSUME RelayAssumption ==
  /\ \A e \in Envelopes : /\ DOMAIN e = {"id", "key", "direction", "kind", "size"}
                          /\ e.id \in Nat /\ e.size \in Nat
                          /\ e.direction \in Directions
                          /\ e.kind \in FromBroker \cup FromService
  /\ {MaxEnvelope, MaxRetained, MaxShift, MaxBackoff, MaxAttempts, MaxTime,
      MaxSnapshots} \subseteq Nat
  /\ MaxBoots \in Nat \ {0}

\* An idempotency key belongs to one envelope under its id.
ASSUME KeyAssumption ==
  \A e, f \in Envelopes : e.id = f.id /\ e.key = f.key => e = f

Ids == {e.id : e \in Envelopes}

\* SpoolEntry; next is next_attempt_mono_ns.
Entries == [envelope : Envelopes, attempts : 0 .. MaxAttempts, next : Nat]
EmptySpool == [i \in {} |-> NoCall]

IsSpool(s) ==
  /\ DOMAIN s \subseteq Ids
  /\ \A i \in DOMAIN s : s[i] \in Entries /\ s[i].envelope.id = i

\* Every map is keyed by the id of its envelopes.
TypeOK ==
  /\ memory = Closed \/ IsSpool(memory)
  /\ IsSpool(file) /\ \A s \in stable : IsSpool(s)
  /\ call = NoCall \/ (memory # Closed /\ IsSpool(call.candidate))
  /\ owed \subseteq Envelopes /\ gone \subseteq Envelopes /\ sent \subseteq Envelopes
  /\ mono \in 0 .. MaxTime /\ boots \in 1 .. MaxBoots

Holds(s, e) == e.id \in DOMAIN s /\ s[e.id].envelope = e
Recoverable == stable \cup {file}

------------------------------------------------------------------------------
\* ObjectKind::permitted_in and OpaqueEnvelope::new.
permitted_in(kind, direction) ==
  \/ kind \in FromBroker /\ direction = "broker_to_service"
  \/ kind \in FromService /\ direction = "service_to_broker"

OpaqueEnvelope(e) == permitted_in(e.kind, e.direction) /\ e.size <= MaxEnvelope

\* Fault: one envelope too many.
HasRoomForOneMore(s) == Cardinality(DOMAIN s) <= MaxRetained

HasRoom(s) == Cardinality(DOMAIN s) < MaxRetained

\* decode_spool accepts a snapshot: its length and every envelope are checked again.
decode_spool(s) ==
  /\ Cardinality(DOMAIN s) <= MaxRetained
  /\ \A i \in DOMAIN s : OpaqueEnvelope(s[i].envelope)

\* The entries next_delivery may hand out.
Due(s) == {i \in DOMAIN s : s[i].next <= mono}

\* Fault: the cap is forgotten.
uncapped_backoff(attempts) ==
  2 ^ (IF attempts < MaxShift THEN attempts ELSE MaxShift)

\* retry_with_backoff's delay: doubled by every attempt, capped twice.
backoff(attempts) ==
  LET shift == IF attempts < MaxShift THEN attempts ELSE MaxShift
  IN IF 2 ^ shift < MaxBackoff THEN 2 ^ shift ELSE MaxBackoff

------------------------------------------------------------------------------
Init ==
  /\ memory = Closed /\ file = EmptySpool /\ stable = {EmptySpool} /\ call = NoCall
  /\ owed = {} /\ gone = {} /\ sent = {}
  /\ mono = 0 /\ boots = 1

Tick ==
  /\ mono < MaxTime
  /\ mono' = mono + 1
  /\ UNCHANGED <<memory, file, stable, call, ghosts, boots>>

\* The process dies.
Crash ==
  /\ memory # Closed
  /\ memory' = Closed /\ call' = NoCall
  /\ UNCHANGED <<file, stable, ghosts, clock>>

\* Power is lost: the path names any snapshot the directory may still hold, and
\* the monotonic clock starts over.
PowerLoss ==
  /\ boots < MaxBoots
  /\ \E s \in stable : file' = s /\ stable' = {s}
  /\ memory' = Closed /\ call' = NoCall
  /\ mono' = 0 /\ boots' = boots + 1
  /\ UNCHANGED ghosts

\* open: a missing file is the empty map.
Open ==
  /\ memory = Closed
  /\ decode_spool(file)
  /\ memory' = file
  /\ UNCHANGED <<file, stable, call, ghosts, clock>>

Idle == memory # Closed /\ call = NoCall

Persist(kind, e, candidate) ==
  call' = [kind |-> kind, envelope |-> e, candidate |-> candidate, renamed |-> FALSE]

\* RelaySpool::enqueue on a copy of the map.
Inserted(s, e) ==
  [i \in DOMAIN s \cup {e.id} |->
     IF i = e.id THEN [envelope |-> e, attempts |-> 0, next |-> mono] ELSE s[i]]

\* enqueue up to persist.
Enqueue(e) ==
  /\ Idle
  /\ OpaqueEnvelope(e)
  /\ e.id \notin DOMAIN memory
  /\ HasRoom(memory)
  /\ Persist("enqueue", e, Inserted(memory, e))
  /\ gone' = gone \ {e}
  /\ UNCHANGED <<memory, file, stable, owed, sent, clock>>

\* next_delivery: the due entry of the smallest id; the count stays in memory.
NextDelivery ==
  /\ Idle
  /\ \E i \in Due(memory) :
       /\ \A j \in Due(memory) : i <= j
       /\ memory[i].attempts < MaxAttempts
       /\ memory' = [memory EXCEPT ![i].attempts = @ + 1]
       /\ sent' = sent \cup {memory[i].envelope}
  /\ UNCHANGED <<file, stable, call, owed, gone, clock>>

\* Fault: the idempotency key of an acknowledgement is not compared.
AcknowledgesId(entry, e) == TRUE

\* The retained idempotency key is the acknowledged one.
Acknowledges(entry, e) == entry.envelope.key = e.key

\* RelaySpool::acknowledge on a copy of the map.
Removed(s, e) == Restrict(s, DOMAIN s \ {e.id})

\* acknowledge up to persist.  The service acknowledges what it received, once or
\* again, at any later time.
Acknowledge(e) ==
  /\ Idle
  /\ e \in sent /\ e.id \in DOMAIN memory
  /\ Acknowledges(memory[e.id], e)
  /\ Persist("acknowledge", e, Removed(memory, e))
  /\ owed' = owed \ {e}
  /\ UNCHANGED <<memory, file, stable, gone, sent, clock>>

\* RelaySpool::retry_later on a copy of the map.
Postponed(s, i, delay) == [s EXCEPT ![i].next = mono + delay]

\* retry_with_backoff up to persist.
RetryWithBackoff(i) ==
  /\ Idle
  /\ i \in DOMAIN memory
  /\ Persist("retry", memory[i].envelope,
             Postponed(memory, i, backoff(memory[i].attempts)))
  /\ UNCHANGED <<memory, file, stable, ghosts, clock>>

\* persist: the snapshot replaces the file.
Rename ==
  /\ call # NoCall /\ ~call.renamed
  /\ file' = call.candidate
  /\ stable' = stable \cup {call.candidate}
  /\ Cardinality(stable') <= MaxSnapshots
  /\ call' = [call EXCEPT !.renamed = TRUE]
  /\ UNCHANGED <<memory, ghosts, clock>>

\* Fault: success is reported without the directory sync.
SyncNothing == UNCHANGED stable

\* The directory sync: only the current snapshot can come back.
SyncDirectory == stable' = {file}

\* persist returns and the operation reports success.
Finish ==
  /\ call # NoCall /\ call.renamed
  /\ SyncDirectory
  /\ memory' = call.candidate
  /\ owed' = IF call.kind = "enqueue" THEN owed \cup {call.envelope} ELSE owed
  /\ gone' = IF call.kind = "acknowledge" THEN gone \cup {call.envelope} ELSE gone
  /\ call' = NoCall
  /\ UNCHANGED <<file, sent, clock>>

\* A write, the rename or the directory sync fails: the operation reports a storage
\* error and memory keeps the old map, whatever the path names by now.
Fail ==
  /\ call # NoCall
  /\ call' = NoCall
  /\ UNCHANGED <<memory, file, stable, ghosts, clock>>

Next ==
  \/ Tick \/ Crash \/ PowerLoss \/ Open \/ NextDelivery \/ Rename \/ Finish \/ Fail
  \/ \E e \in Envelopes : Enqueue(e) \/ Acknowledge(e)
  \/ \E i \in Ids : RetryWithBackoff(i)

Spec == Init /\ [][Next]_vars

------------------------------------------------------------------------------
\* Properties.

\* An envelope whose enqueue succeeded is in memory and in every snapshot a crash
\* or a power loss may leave, until its own acknowledgement is processed: not one
\* with another idempotency key, and not because an operation in between failed
\* half way ("must write the envelope before returning from `enqueue` and delete
\* it only after `acknowledge`").
AcceptedSurvives ==
  \A e \in owed :
    /\ memory # Closed => Holds(memory, e)
    /\ \A s \in Recoverable : Holds(s, e)

\* An envelope whose acknowledge succeeded never reappears, although the file was
\* replaced by rename and power may be lost at any time (persist: "the old
\* snapshot reappears after a crash").
AcknowledgedStaysGone ==
  \A e \in gone :
    /\ memory # Closed => ~Holds(memory, e)
    /\ \A s \in Recoverable : ~Holds(s, e)

\* Whatever crash comes when, open accepts the snapshot it finds: the relay never
\* writes a file its own decode_spool calls corrupt.
SpoolReopens == \A s \in Recoverable : decode_spool(s)

\* No retained envelope waits longer than the largest backoff ("Schedules a
\* bounded exponential retry", retry_with_backoff).
RetryIsBounded ==
  memory # Closed => \A i \in DOMAIN memory : memory[i].next <= mono + MaxBackoff
=============================================================================
