-------------------------- MODULE RelaySpoolProofs ---------------------------
(***************************************************************************)
(* The durability of the relay spool, for every set of envelopes, every    *)
(* capacity and every number of crashes, power losses and failed writes.   *)
(***************************************************************************)
EXTENDS RelaySpool, FiniteSetTheorems, TLAPS

\* The maps the spool lives in: the one in memory, every snapshot that may come
\* back and the candidate of the operation that is running.
IsMap(s) ==
  \/ memory # Closed /\ s = memory
  \/ s \in stable
  \/ call # NoCall /\ s = call.candidate

\* Entries are records of three fields.
Shaped(s) ==
  \A i \in DOMAIN s :
    s[i] = [envelope |-> s[i].envelope, attempts |-> s[i].attempts, next |-> s[i].next]

\* Where the snapshots come from: the path names one that may come back, and
\* between the rename and the directory sync it names the candidate.
SnapshotInv ==
  /\ file \in stable
  /\ call # NoCall => memory # Closed
  /\ call # NoCall /\ call.renamed => file = call.candidate
  /\ \A s : IsMap(s) => Shaped(s)
  /\ owed \subseteq Envelopes

\* The candidate of an enqueue holds the new envelope, that of an acknowledge no
\* longer holds the old one.
CandidateInv ==
  call # NoCall =>
    /\ call.kind = "enqueue" =>
         call.envelope \in Envelopes /\ Holds(call.candidate, call.envelope)
    /\ call.kind = "acknowledge" => ~Holds(call.candidate, call.envelope)

\* What is owed is in every map, what is gone is in none.
LedgerInv ==
  /\ \A e \in owed : \A s : IsMap(s) => Holds(s, e)
  /\ \A e \in gone : \A s : IsMap(s) => ~Holds(s, e)

SpoolInv == SnapshotInv /\ CandidateInv /\ LedgerInv

------------------------------------------------------------------------------
\* RelaySpool::enqueue adds its envelope and touches no other.
LEMMA InsertedHolds ==
  ASSUME NEW s, NEW e, e.id \notin DOMAIN s, Shaped(s)
  PROVE  /\ Shaped(Inserted(s, e))
         /\ Holds(Inserted(s, e), e)
         /\ \A x : Holds(s, x) => Holds(Inserted(s, e), x)
         /\ \A x : x # e /\ ~Holds(s, x) => ~Holds(Inserted(s, e), x)
BY DEF Inserted, Holds, Shaped

\* RelaySpool::acknowledge removes the entry of one id and touches no other.
LEMMA RemovedHolds ==
  ASSUME NEW s, NEW e, Shaped(s)
  PROVE  /\ Shaped(Removed(s, e))
         /\ ~Holds(Removed(s, e), e)
         /\ \A x : Holds(s, x) /\ x.id # e.id => Holds(Removed(s, e), x)
         /\ \A x : ~Holds(s, x) => ~Holds(Removed(s, e), x)
BY DEF Removed, Restrict, Holds, Shaped

\* Neither a retry nor a delivery changes which envelopes a map holds.
LEMMA PostponedHolds ==
  ASSUME NEW s, NEW i \in DOMAIN s, NEW delay, Shaped(s)
  PROVE  /\ Shaped(Postponed(s, i, delay))
         /\ \A x : Holds(Postponed(s, i, delay), x) <=> Holds(s, x)
BY DEF Postponed, Holds, Shaped

LEMMA CountedHolds ==
  ASSUME NEW s, NEW i \in DOMAIN s, Shaped(s)
  PROVE  /\ Shaped([s EXCEPT ![i].attempts = @ + 1])
         /\ \A x : Holds([s EXCEPT ![i].attempts = @ + 1], x) <=> Holds(s, x)
BY DEF Holds, Shaped

------------------------------------------------------------------------------
LEMMA InitSpool == Init => SpoolInv
<1> SUFFICES ASSUME Init PROVE SpoolInv
  OBVIOUS
<1>1. \A s : IsMap(s) => s = EmptySpool
  BY DEF Init, IsMap
<1>2. Shaped(EmptySpool)
  BY DEF Shaped, EmptySpool
<1> QED
  BY <1>1, <1>2 DEF Init, SpoolInv, SnapshotInv, CandidateInv, LedgerInv

\* A step after which every map is one of the maps from before keeps the ledger,
\* as long as the ledger gains nothing.
LEMMA FewerMaps ==
  ASSUME SpoolInv, \A s : IsMap(s)' => IsMap(s), owed' = owed, gone' = gone
  PROVE  LedgerInv' /\ (\A s : IsMap(s) => Shaped(s))'
BY DEF SpoolInv, SnapshotInv, LedgerInv, Holds, Shaped

\* An operation that enters persist keeps the maps and adds its candidate.
LEMMA OneMoreMap ==
  ASSUME NEW kind, NEW e, NEW candidate, Persist(kind, e, candidate),
         UNCHANGED <<memory, file, stable>>
  PROVE  \A s : IsMap(s)' =>
           s = candidate \/ s \in stable \/ (memory # Closed /\ s = memory)
BY DEF Persist, IsMap

LEMMA EnqueueSpool ==
  ASSUME SpoolInv, NEW e \in Envelopes, Enqueue(e)
  PROVE  SpoolInv'
<1> DEFINE c == Inserted(memory, e)
<1>1. IsMap(memory) /\ Shaped(memory) /\ e.id \notin DOMAIN memory
  BY DEF SpoolInv, SnapshotInv, Enqueue, Idle, IsMap
<1>2. /\ Shaped(c) /\ Holds(c, e)
      /\ \A x : Holds(memory, x) => Holds(c, x)
      /\ \A x : x # e /\ ~Holds(memory, x) => ~Holds(c, x)
  BY <1>1, InsertedHolds
<1>3. \A s : IsMap(s)' => s = c \/ IsMap(s)
  BY OneMoreMap DEF Enqueue, IsMap
<1>4. call' = [kind |-> "enqueue", envelope |-> e, candidate |-> c, renamed |-> FALSE]
  BY DEF Enqueue, Persist
<1> HIDE DEF c
<1>5. SnapshotInv'
  BY <1>2, <1>3, <1>4 DEF Enqueue, Idle, SpoolInv, SnapshotInv, Shaped
<1>6. CandidateInv'
  BY <1>2, <1>4 DEF CandidateInv, Holds
<1>7. LedgerInv'
  BY <1>1, <1>2, <1>3 DEF Enqueue, SpoolInv, LedgerInv, Holds
<1> QED
  BY <1>5, <1>6, <1>7 DEF SpoolInv

LEMMA AcknowledgeSpool ==
  ASSUME SpoolInv, NEW e \in Envelopes, Acknowledge(e)
  PROVE  SpoolInv'
<1> DEFINE c == Removed(memory, e)
<1>1. IsMap(memory) /\ Shaped(memory)
  BY DEF SpoolInv, SnapshotInv, Acknowledge, Idle, IsMap
<1>2. /\ Shaped(c) /\ ~Holds(c, e)
      /\ \A x : Holds(memory, x) /\ x.id # e.id => Holds(c, x)
      /\ \A x : ~Holds(memory, x) => ~Holds(c, x)
  BY <1>1, RemovedHolds
<1>3. \A s : IsMap(s)' => s = c \/ IsMap(s)
  BY OneMoreMap DEF Acknowledge, IsMap
<1>4. call' = [kind |-> "acknowledge", envelope |-> e, candidate |-> c, renamed |-> FALSE]
  BY DEF Acknowledge, Persist
<1>5. \A x \in owed' : x.id # e.id
  <2> SUFFICES ASSUME NEW x \in owed, x # e, x.id = e.id PROVE FALSE
    BY DEF Acknowledge
  <2>1. Holds(memory, x) /\ x \in Envelopes
    BY <1>1 DEF SpoolInv, LedgerInv, SnapshotInv
  <2>2. x.key = e.key
    BY <2>1 DEF Holds, Acknowledge, Acknowledges
  <2> QED
    BY <2>1, <2>2, KeyAssumption
<1> HIDE DEF c
<1>6. SnapshotInv'
  BY <1>2, <1>3, <1>4 DEF Acknowledge, Idle, SpoolInv, SnapshotInv, Shaped
<1>7. CandidateInv'
  BY <1>2, <1>4 DEF CandidateInv, Holds
<1>8. LedgerInv'
  BY <1>1, <1>2, <1>3, <1>5 DEF Acknowledge, SpoolInv, LedgerInv, Holds
<1> QED
  BY <1>6, <1>7, <1>8 DEF SpoolInv

LEMMA RetrySpool ==
  ASSUME SpoolInv, NEW i \in Ids, RetryWithBackoff(i)
  PROVE  SpoolInv'
<1> DEFINE c == Postponed(memory, i, backoff(memory[i].attempts))
<1>1. IsMap(memory) /\ Shaped(memory) /\ i \in DOMAIN memory
  BY DEF SpoolInv, SnapshotInv, RetryWithBackoff, Idle, IsMap
<1>2. Shaped(c) /\ \A x : Holds(c, x) <=> Holds(memory, x)
  BY <1>1, PostponedHolds
<1>3. \A s : IsMap(s)' => s = c \/ IsMap(s)
  BY OneMoreMap DEF RetryWithBackoff, IsMap
<1>4. call' = [kind |-> "retry", envelope |-> memory[i].envelope, candidate |-> c,
               renamed |-> FALSE]
  BY DEF RetryWithBackoff, Persist
<1> HIDE DEF c
<1>5. SnapshotInv'
  BY <1>2, <1>3, <1>4 DEF RetryWithBackoff, Idle, ghosts, SpoolInv, SnapshotInv, Shaped
<1>6. CandidateInv'
  BY <1>4 DEF CandidateInv
<1>7. LedgerInv'
  BY <1>1, <1>2, <1>3 DEF RetryWithBackoff, ghosts, SpoolInv, LedgerInv, Holds
<1> QED
  BY <1>5, <1>6, <1>7 DEF SpoolInv

LEMMA DeliverySpool == SpoolInv /\ NextDelivery => SpoolInv'
<1> SUFFICES ASSUME SpoolInv, NextDelivery PROVE SpoolInv'
  OBVIOUS
<1>1. PICK i \in DOMAIN memory : memory' = [memory EXCEPT ![i].attempts = @ + 1]
  BY DEF NextDelivery, Due
<1>2. IsMap(memory) /\ Shaped(memory) /\ memory # Closed
  BY DEF SpoolInv, SnapshotInv, NextDelivery, Idle, IsMap
<1>3. Shaped(memory') /\ \A x : Holds(memory', x) <=> Holds(memory, x)
  BY <1>1, <1>2, CountedHolds
<1>4. \A s : IsMap(s)' => s = memory' \/ IsMap(s)
  BY DEF NextDelivery, IsMap
<1>5. call' = NoCall /\ file' \in stable' /\ owed' = owed /\ gone' = gone
  BY DEF NextDelivery, Idle, SpoolInv, SnapshotInv
<1>6. SnapshotInv'
  BY <1>3, <1>4, <1>5 DEF SpoolInv, SnapshotInv, Shaped
<1>7. CandidateInv'
  BY <1>5 DEF CandidateInv
<1>8. LedgerInv'
  BY <1>2, <1>3, <1>4, <1>5 DEF SpoolInv, LedgerInv, Holds
<1> QED
  BY <1>6, <1>7, <1>8 DEF SpoolInv

LEMMA OutsideSpool == SpoolInv /\ (Tick \/ Crash \/ PowerLoss) => SpoolInv'
<1> SUFFICES ASSUME SpoolInv, Tick \/ Crash \/ PowerLoss PROVE SpoolInv'
  OBVIOUS
<1>1. \A s : IsMap(s)' => IsMap(s)
  BY DEF Tick, Crash, PowerLoss, IsMap
<1>2. owed' = owed /\ gone' = gone
  BY DEF Tick, Crash, PowerLoss, ghosts
<1>3. LedgerInv' /\ (\A s : IsMap(s) => Shaped(s))'
  BY <1>1, <1>2, FewerMaps
<1>4. SnapshotInv'
  BY <1>2, <1>3 DEF Tick, Crash, PowerLoss, SpoolInv, SnapshotInv
<1>5. CandidateInv'
  BY DEF Tick, Crash, PowerLoss, SpoolInv, CandidateInv, Holds
<1> QED
  BY <1>3, <1>4, <1>5 DEF SpoolInv

LEMMA OpenSpool == SpoolInv /\ Open => SpoolInv'
<1> SUFFICES ASSUME SpoolInv, Open PROVE SpoolInv'
  OBVIOUS
<1>1. \A s : IsMap(s)' => IsMap(s)
  BY DEF Open, IsMap, SpoolInv, SnapshotInv
<1>2. LedgerInv' /\ (\A s : IsMap(s) => Shaped(s))'
  BY <1>1, FewerMaps DEF Open, ghosts
<1>3. call' = NoCall
  BY DEF Open, SpoolInv, SnapshotInv
<1> QED
  BY <1>2, <1>3 DEF Open, ghosts, SpoolInv, SnapshotInv, CandidateInv

LEMMA RenameSpool == SpoolInv /\ Rename => SpoolInv'
<1> SUFFICES ASSUME SpoolInv, Rename PROVE SpoolInv'
  OBVIOUS
<1>1. \A s : IsMap(s)' => IsMap(s)
  BY DEF Rename, IsMap
<1>2. LedgerInv' /\ (\A s : IsMap(s) => Shaped(s))'
  BY <1>1, FewerMaps DEF Rename, ghosts
<1> QED
  BY <1>2 DEF Rename, ghosts, SpoolInv, SnapshotInv, CandidateInv, Holds

LEMMA FailSpool == SpoolInv /\ Fail => SpoolInv'
<1> SUFFICES ASSUME SpoolInv, Fail PROVE SpoolInv'
  OBVIOUS
<1>1. \A s : IsMap(s)' => IsMap(s)
  BY DEF Fail, IsMap
<1>2. LedgerInv' /\ (\A s : IsMap(s) => Shaped(s))'
  BY <1>1, FewerMaps DEF Fail, ghosts
<1> QED
  BY <1>2 DEF Fail, ghosts, SpoolInv, SnapshotInv, CandidateInv

\* The only step that adds to the ledger: by then every map is the candidate.
LEMMA FinishSpool == SpoolInv /\ Finish => SpoolInv'
<1> SUFFICES ASSUME SpoolInv, Finish PROVE SpoolInv'
  OBVIOUS
<1> DEFINE c == call.candidate
<1>1. file = c /\ IsMap(c) /\ Shaped(c)
  BY DEF Finish, SpoolInv, SnapshotInv, IsMap
<1>2. \A s : IsMap(s)' => s = c
  BY <1>1 DEF Finish, SyncDirectory, IsMap
<1>3. /\ \A e \in owed' : Holds(c, e)
      /\ owed' \subseteq Envelopes
  BY <1>1 DEF Finish, SpoolInv, SnapshotInv, LedgerInv, CandidateInv
<1>4. \A e \in gone' : ~Holds(c, e)
  BY <1>1 DEF Finish, SpoolInv, LedgerInv, CandidateInv
<1>5. file' \in stable' /\ call' = NoCall
  BY DEF Finish, SyncDirectory
<1> HIDE DEF c
<1>6. SnapshotInv'
  BY <1>1, <1>2, <1>3, <1>5 DEF SnapshotInv, Shaped
<1>7. LedgerInv'
  BY <1>2, <1>3, <1>4 DEF LedgerInv, Holds
<1> QED
  BY <1>5, <1>6, <1>7 DEF SpoolInv, CandidateInv

LEMMA StutterSpool == SpoolInv /\ UNCHANGED vars => SpoolInv'
<1> SUFFICES ASSUME SpoolInv, UNCHANGED vars PROVE SpoolInv'
  OBVIOUS
<1>1. \A s : IsMap(s)' => IsMap(s)
  BY DEF vars, IsMap
<1>2. LedgerInv' /\ (\A s : IsMap(s) => Shaped(s))'
  BY <1>1, FewerMaps DEF vars, ghosts
<1> QED
  BY <1>2 DEF vars, ghosts, SpoolInv, SnapshotInv, CandidateInv, Holds

LEMMA SpoolStep == SpoolInv /\ [Next]_vars => SpoolInv'
BY EnqueueSpool, AcknowledgeSpool, RetrySpool, DeliverySpool, OutsideSpool, OpenSpool,
   RenameSpool, FailSpool, FinishSpool, StutterSpool DEF Next

LEMMA SpoolInductive == Spec => []SpoolInv
BY InitSpool, SpoolStep, PTL DEF Spec

------------------------------------------------------------------------------
\* An envelope whose enqueue succeeded is in memory and in every snapshot a crash or
\* a power loss may leave, until its own acknowledgement is processed
\* (FileRelaySpool::enqueue, acknowledge and persist).
THEOREM AcceptedIsDurable == Spec => []AcceptedSurvives
<1>1. SpoolInv => AcceptedSurvives
  BY DEF SpoolInv, SnapshotInv, LedgerInv, IsMap, AcceptedSurvives, Recoverable
<1> QED
  BY <1>1, SpoolInductive, PTL

\* An envelope whose acknowledge succeeded never comes back, whatever crash or power
\* loss follows (FileRelaySpool::acknowledge and persist).
THEOREM AcknowledgedIsFinal == Spec => []AcknowledgedStaysGone
<1>1. SpoolInv => AcknowledgedStaysGone
  BY DEF SpoolInv, SnapshotInv, LedgerInv, IsMap, AcknowledgedStaysGone, Recoverable
<1> QED
  BY <1>1, SpoolInductive, PTL

------------------------------------------------------------------------------
(***************************************************************************)
(* What every map of the spool satisfies.                                  *)
(***************************************************************************)

\* One attempt more for the entry i, in memory only.
Counted(s, i) == [s EXCEPT ![i].attempts = @ + 1]

\* The open map after an operation that adds no envelope.
KeptMap(s) ==
  /\ IsMap(memory)
  /\ \/ \E e \in Envelopes : s = Removed(memory, e)
     \/ \E i \in DOMAIN memory :
          \/ s = Postponed(memory, i, backoff(memory[i].attempts))
          \/ s = Counted(memory, i)

\* A map that was not there before.
NewMap(s) ==
  \/ KeptMap(s)
  \/ IsMap(memory) /\ \E e \in Envelopes : Enqueue(e) /\ s = Inserted(memory, e)

\* The maps after enqueue entered persist.
LEMMA EnqueueMaps ==
  ASSUME NEW e \in Envelopes, Enqueue(e), NEW s, IsMap(s)'
  PROVE  IsMap(memory) /\ (IsMap(s) \/ s = Inserted(memory, e))
<1>1. s = Inserted(memory, e) \/ IsMap(s)
  BY OneMoreMap DEF Enqueue, IsMap
<1> QED
  BY <1>1 DEF IsMap, Enqueue, Idle

\* The maps after any other step.
LEMMA OtherMaps ==
  ASSUME SpoolInv, NEW s, IsMap(s)',
         \/ Tick \/ Crash \/ PowerLoss \/ Open \/ NextDelivery \/ Rename \/ Finish \/ Fail
         \/ \E e \in Envelopes : Acknowledge(e)
         \/ \E i \in Ids : RetryWithBackoff(i)
         \/ UNCHANGED vars
  PROVE  IsMap(s) \/ KeptMap(s)
<1>1. ASSUME NEW e \in Envelopes, Acknowledge(e)
      PROVE  IsMap(s) \/ KeptMap(s)
  <2>1. s = Removed(memory, e) \/ IsMap(s)
    BY <1>1, OneMoreMap DEF Acknowledge, IsMap
  <2> QED
    BY <1>1, <2>1 DEF KeptMap, IsMap, Acknowledge, Idle
<1>2. ASSUME NEW i \in Ids, RetryWithBackoff(i)
      PROVE  IsMap(s) \/ KeptMap(s)
  <2>1. s = Postponed(memory, i, backoff(memory[i].attempts)) \/ IsMap(s)
    BY <1>2, OneMoreMap DEF RetryWithBackoff, IsMap
  <2> QED
    BY <1>2, <2>1 DEF KeptMap, IsMap, RetryWithBackoff, Idle
<1>3. CASE NextDelivery
  <2>1. PICK i \in DOMAIN memory : memory' = Counted(memory, i)
    BY <1>3 DEF NextDelivery, Due, Counted
  <2>2. s = memory' \/ IsMap(s)
    BY <1>3 DEF NextDelivery, IsMap
  <2> QED
    BY <1>3, <2>1, <2>2 DEF KeptMap, IsMap, NextDelivery, Idle
<1>4. CASE Tick \/ Crash \/ PowerLoss \/ Fail \/ UNCHANGED vars
  BY <1>4 DEF Tick, Crash, PowerLoss, Fail, vars, IsMap
<1>5. CASE Open \/ Finish
  BY <1>5 DEF Open, Finish, SyncDirectory, SpoolInv, SnapshotInv, IsMap
<1>6. CASE Rename
  BY <1>6 DEF Rename, IsMap
<1> QED
  BY <1>1, <1>2, <1>3, <1>4, <1>5, <1>6

\* Every map after a step was one before it, or is the open map after one operation.
LEMMA MapOrigins ==
  ASSUME SpoolInv, [Next]_vars, NEW s, IsMap(s)'
  PROVE  IsMap(s) \/ NewMap(s)
BY EnqueueMaps, OtherMaps DEF Next, NewMap

\* What decode_spool checks, with the count of a finite map.
Decodable(s) == IsFiniteSet(DOMAIN s) /\ decode_spool(s)

ReopenInv == \A s : IsMap(s) => Decodable(s)

\* An operation turns a map decode_spool accepts into one it accepts.
LEMMA NewMapDecodable ==
  ASSUME SpoolInv, ReopenInv, NEW s, NewMap(s)
  PROVE  Decodable(s)
<1>0. /\ IsFiniteSet(DOMAIN memory) /\ Cardinality(DOMAIN memory) <= MaxRetained
      /\ \A i \in DOMAIN memory : OpaqueEnvelope(memory[i].envelope)
      /\ MaxRetained \in Nat /\ Cardinality(DOMAIN memory) \in Nat /\ Shaped(memory)
  BY FS_CardinalityType, RelayAssumption
     DEF NewMap, KeptMap, ReopenInv, Decodable, decode_spool, SpoolInv, SnapshotInv
<1>1. ASSUME NEW e \in Envelopes, Enqueue(e), s = Inserted(memory, e)
      PROVE  Decodable(s)
  <2>1. /\ Cardinality(DOMAIN memory) < MaxRetained /\ OpaqueEnvelope(e)
        /\ e.id \notin DOMAIN memory
    BY <1>1 DEF Enqueue, HasRoom
  <2>2. DOMAIN s = DOMAIN memory \cup {e.id}
    BY <1>1 DEF Inserted
  <2>3. /\ IsFiniteSet(DOMAIN s)
        /\ Cardinality(DOMAIN s) = Cardinality(DOMAIN memory) + 1
    <3>1. /\ IsFiniteSet(DOMAIN memory \cup {e.id})
          /\ Cardinality(DOMAIN memory \cup {e.id}) =
               IF e.id \in DOMAIN memory THEN Cardinality(DOMAIN memory)
                                         ELSE Cardinality(DOMAIN memory) + 1
      BY <1>0, FS_AddElement
    <3> QED
      BY <2>1, <2>2, <3>1
  <2>4. \A i \in DOMAIN s : s[i].envelope = IF i = e.id THEN e ELSE memory[i].envelope
    BY <1>1 DEF Inserted
  <2> QED
    BY <1>0, <2>1, <2>2, <2>3, <2>4 DEF Decodable, decode_spool
<1>2. ASSUME NEW e \in Envelopes, s = Removed(memory, e)
      PROVE  Decodable(s)
  <2>1. /\ DOMAIN s \subseteq DOMAIN memory
        /\ \A i \in DOMAIN s : s[i].envelope = memory[i].envelope
    BY <1>2 DEF Removed, Restrict
  <2>2. IsFiniteSet(DOMAIN s) /\ Cardinality(DOMAIN s) <= Cardinality(DOMAIN memory)
    BY <1>0, <2>1, FS_Subset
  <2>3. Cardinality(DOMAIN s) \in Nat
    BY <2>2, FS_CardinalityType
  <2> QED
    BY <1>0, <2>1, <2>2, <2>3 DEF Decodable, decode_spool
<1>3. ASSUME NEW i \in DOMAIN memory, NEW delay,
             s = Postponed(memory, i, delay) \/ s = Counted(memory, i)
      PROVE  Decodable(s)
  <2>1. /\ DOMAIN s = DOMAIN memory
        /\ \A j \in DOMAIN s : s[j].envelope = memory[j].envelope
    BY <1>0, <1>3 DEF Postponed, Counted, Shaped
  <2> QED
    BY <1>0, <2>1 DEF Decodable, decode_spool
<1> QED
  BY <1>1, <1>2, <1>3 DEF NewMap, KeptMap

\* Whatever crash or power loss comes when, the snapshot that is found afterwards is
\* one that open accepts: persist never writes a file decode_spool would reject.
THEOREM SpoolAlwaysReopens == Spec => []SpoolReopens
<1>1. Init => ReopenInv
  <2> SUFFICES ASSUME Init, NEW s, IsMap(s) PROVE Decodable(s)
    BY DEF ReopenInv
  <2>1. s = EmptySpool /\ DOMAIN s = {}
    BY DEF Init, IsMap, EmptySpool
  <2>2. IsFiniteSet({}) /\ Cardinality({}) = 0
    BY FS_EmptySet
  <2> QED
    BY <2>1, <2>2, RelayAssumption DEF Decodable, decode_spool
<1>2. SpoolInv /\ ReopenInv /\ [Next]_vars => ReopenInv'
  <2> SUFFICES ASSUME SpoolInv, ReopenInv, [Next]_vars, NEW s, IsMap(s)'
               PROVE  Decodable(s)
    BY DEF ReopenInv, Decodable, decode_spool, OpaqueEnvelope
  <2> QED
    BY MapOrigins, NewMapDecodable DEF ReopenInv
<1>3. SpoolInv /\ ReopenInv => SpoolReopens
  BY DEF SpoolInv, SnapshotInv, ReopenInv, Decodable, SpoolReopens, Recoverable, IsMap
<1> QED
  BY <1>1, <1>2, <1>3, SpoolInductive, PTL DEF Spec

------------------------------------------------------------------------------
(***************************************************************************)
(* The backoff.                                                            *)
(***************************************************************************)

\* The numbers of an entry, and how far ahead of the clock its next attempt is.
Numbered(s) == \A i \in DOMAIN s : s[i].attempts \in Nat /\ s[i].next \in Int
WaitsAtMost(s, until) == \A i \in DOMAIN s : s[i].next <= until

\* Within one boot every map, saved or not, is at most the largest backoff ahead.
WaitInv ==
  /\ mono \in Nat /\ boots \in Nat \ {0}
  /\ \A s : IsMap(s) => Numbered(s) /\ (boots = 1 => WaitsAtMost(s, mono + MaxBackoff))

\* retry_with_backoff's delay is a whole number that the cap bounds.
LEMMA BackoffBounded ==
  ASSUME NEW attempts \in Nat
  PROVE  backoff(attempts) \in Int /\ backoff(attempts) <= MaxBackoff
<1>1. MaxShift \in Nat /\ MaxBackoff \in Nat
  BY RelayAssumption
<1> DEFINE shift == IF attempts < MaxShift THEN attempts ELSE MaxShift
<1>2. shift \in Nat
  BY <1>1
<1> HIDE DEF shift
<1>3. 2 ^ shift \in Int
  BY <1>2
<1> QED
  BY <1>1, <1>3 DEF backoff, shift

\* A new map keeps the numbers and the bound.
LEMMA NewMapWaits ==
  ASSUME SpoolInv, WaitInv, NEW s, NewMap(s)
  PROVE  Numbered(s) /\ (boots = 1 => WaitsAtMost(s, mono + MaxBackoff))
<1>0. /\ mono \in Nat /\ MaxBackoff \in Nat /\ Shaped(memory) /\ Numbered(memory)
      /\ boots = 1 => WaitsAtMost(memory, mono + MaxBackoff)
  BY RelayAssumption DEF WaitInv, NewMap, KeptMap, SpoolInv, SnapshotInv
<1>1. ASSUME NEW e \in Envelopes, s = Inserted(memory, e)
      PROVE  Numbered(s) /\ (boots = 1 => WaitsAtMost(s, mono + MaxBackoff))
  BY <1>0, <1>1 DEF Inserted, Numbered, WaitsAtMost
<1>2. ASSUME NEW e \in Envelopes, s = Removed(memory, e)
      PROVE  Numbered(s) /\ (boots = 1 => WaitsAtMost(s, mono + MaxBackoff))
  BY <1>0, <1>2 DEF Removed, Restrict, Numbered, WaitsAtMost
<1>3. ASSUME NEW i \in DOMAIN memory,
             s = Postponed(memory, i, backoff(memory[i].attempts))
      PROVE  Numbered(s) /\ (boots = 1 => WaitsAtMost(s, mono + MaxBackoff))
  <2> DEFINE delay == backoff(memory[i].attempts)
  <2>1. delay \in Int /\ delay <= MaxBackoff
    BY <1>0, BackoffBounded DEF Numbered
  <2> HIDE DEF delay
  <2>2. /\ DOMAIN s = DOMAIN memory
        /\ \A j \in DOMAIN s :
             /\ s[j].attempts = memory[j].attempts
             /\ s[j].next = IF j = i THEN mono + delay ELSE memory[j].next
    BY <1>0, <1>3 DEF Postponed, Shaped, delay
  <2> QED
    BY <1>0, <2>1, <2>2 DEF Numbered, WaitsAtMost
<1>4. ASSUME NEW i \in DOMAIN memory, s = Counted(memory, i)
      PROVE  Numbered(s) /\ (boots = 1 => WaitsAtMost(s, mono + MaxBackoff))
  <2>1. /\ DOMAIN s = DOMAIN memory
        /\ \A j \in DOMAIN s :
             /\ s[j].attempts = memory[j].attempts + (IF j = i THEN 1 ELSE 0)
             /\ s[j].next = memory[j].next
    BY <1>0, <1>4 DEF Counted, Shaped, Numbered
  <2> QED
    BY <1>0, <2>1 DEF Numbered, WaitsAtMost
<1> QED
  BY <1>1, <1>2, <1>3, <1>4 DEF NewMap, KeptMap

\* Within a boot the clock never goes back, and a boot after the first is never the
\* first again.
LEMMA ClockStep ==
  ASSUME WaitInv, [Next]_vars
  PROVE  /\ mono' \in Nat /\ boots' \in Nat \ {0}
         /\ boots' = 1 => boots = 1 /\ mono <= mono'
<1>0. mono \in Nat /\ boots \in Nat \ {0}
  BY DEF WaitInv
<1>1. CASE Tick
  BY <1>0, <1>1 DEF Tick
<1>2. CASE PowerLoss
  BY <1>0, <1>2 DEF PowerLoss
<1>3. CASE UNCHANGED clock
  BY <1>0, <1>3 DEF clock
<1> QED
  BY <1>1, <1>2, <1>3 DEF Next, Crash, Open, NextDelivery, Rename, Finish, Fail, Enqueue,
                          Acknowledge, RetryWithBackoff, vars

\* Until the host reboots, no retained envelope waits longer than the largest
\* backoff, however often the relay crashes, fails to write or retries
\* (retry_with_backoff).  A reboot restarts the monotonic clock under the saved
\* instants, which is the counterexample of the run that allows one.
THEOREM BackoffIsBounded == Spec => [](boots = 1 => RetryIsBounded)
<1>1. Init => WaitInv
  BY DEF Init, WaitInv, IsMap, EmptySpool, Numbered, WaitsAtMost
<1>2. SpoolInv /\ WaitInv /\ [Next]_vars => WaitInv'
  <2> SUFFICES ASSUME SpoolInv, WaitInv, [Next]_vars
               PROVE  WaitInv'
    OBVIOUS
  <2>1. /\ mono' \in Nat /\ boots' \in Nat \ {0}
        /\ boots' = 1 => boots = 1 /\ mono <= mono'
    BY ClockStep
  <2>2. ASSUME NEW s, IsMap(s)'
        PROVE  Numbered(s) /\ (boots' = 1 => WaitsAtMost(s, mono' + MaxBackoff))
    <3>1. Numbered(s) /\ (boots = 1 => WaitsAtMost(s, mono + MaxBackoff))
      BY <2>2, MapOrigins, NewMapWaits DEF WaitInv
    <3>2. mono \in Nat /\ MaxBackoff \in Nat
      BY RelayAssumption DEF WaitInv
    <3> QED
      BY <2>1, <3>1, <3>2 DEF Numbered, WaitsAtMost
  <2> QED
    BY <2>1, <2>2 DEF WaitInv, Numbered, WaitsAtMost
<1>3. WaitInv => (boots = 1 => RetryIsBounded)
  BY DEF WaitInv, WaitsAtMost, RetryIsBounded, IsMap
<1> QED
  BY <1>1, <1>2, <1>3, SpoolInductive, PTL DEF Spec
=============================================================================
