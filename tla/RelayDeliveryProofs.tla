------------------------- MODULE RelayDeliveryProofs -------------------------
(***************************************************************************)
(* The way from the broker's chain to the hosted projection, for every set *)
(* of envelopes, every capacity and any number of crashes, duplicates and  *)
(* resync replies, each used any number of times: nothing accepted is      *)
(* forgotten but by a reply that ends before it, and the projection keeps  *)
(* its contract.                                                           *)
(***************************************************************************)
EXTENDS RelayDelivery, RelaySpoolProofs, SequenceTheorems

\* The chain holds the beginning of what the broker signed.
ChainInv ==
  /\ length \in Nat /\ next_sequence \in Nat /\ frozen_gap \in BOOLEAN
  /\ DOMAIN applied = 1 .. Expected - 1
  /\ Expected - 1 <= length

\* Every reply is a part of the broker's chain.
ReplyInv ==
  \A events \in replies : \E m, n \in Nat \ {0} :
    m <= n /\ n <= length /\ events = Segment(m, n)

\* Only signed events travel.
IsSigned(e) == e \in Envelopes /\ SequenceOf[e] <= length

SignedInv ==
  /\ \A s : IsMap(s) => \A i \in DOMAIN s : IsSigned(s[i].envelope)
  /\ \A e \in sent : IsSigned(e)

\* What is acknowledged, or is being acknowledged, was imported, and what was imported
\* is in the projection unless a reply that ends before it was taken.
ImportInv ==
  /\ \A e \in imported : e \in Envelopes /\ SequenceOf[e] \in DOMAIN applied \cup cutOff
  /\ gone \subseteq imported
  /\ call # NoCall /\ call.kind = "acknowledge" => call.envelope \in imported

DeliveryInv == SpoolInv /\ ChainInv /\ ReplyInv /\ SignedInv /\ ImportInv

------------------------------------------------------------------------------
(***************************************************************************)
(* The resync reply.                                                       *)
(***************************************************************************)

\* A part of the broker's chain has one event for every number.
LEMMA SegmentShape ==
  ASSUME NEW m \in Nat \ {0}, NEW n \in Nat \ {0}, m <= n
  PROVE  /\ Segment(m, n) \in Seq([sequence : Nat, digest : Nat])
         /\ Len(Segment(m, n)) = n - m + 1 /\ Segment(m, n) # <<>>
         /\ \A i \in 1 .. n - m + 1 : Segment(m, n)[i].sequence = m + i - 1
PROOF
  <1> DEFINE k == n - m + 1
  <1>1. k \in Nat \ {0}
    OBVIOUS
  <1>2. \A i \in 1 .. k : /\ Event(m + i - 1) \in [sequence : Nat, digest : Nat]
                          /\ Event(m + i - 1).sequence = m + i - 1
    BY DEF Event
  <1>3. Segment(m, n) = [i \in 1 .. k |-> Event(m + i - 1)]
    BY DEF Segment
  <1>4. DOMAIN Segment(m, n) = 1 .. k /\ \A i \in 1 .. k : Segment(m, n)[i] = Event(m + i - 1)
    BY <1>3
  <1>5. Segment(m, n) \in [1 .. k -> [sequence : Nat, digest : Nat]]
    BY <1>2, <1>3
  <1> HIDE DEF k
  <1>6. Segment(m, n) \in Seq([sequence : Nat, digest : Nat])
    BY <1>1, <1>5, SeqDef
  <1>7. Len(Segment(m, n)) = k
    BY <1>1, <1>4, <1>6, LenProperties
  <1> QED
    BY <1>1, <1>2, <1>4, <1>6, <1>7, EmptySeq DEF k

\* restore_contiguous accepts only a reply that starts at 1, and then the projection
\* shows exactly its events.
LEMMA RestoreShape ==
  ASSUME NEW m \in Nat \ {0}, NEW n \in Nat \ {0}, m <= n,
         restore_contiguous(Segment(m, n))
  PROVE  DOMAIN applied' = 1 .. n /\ next_sequence' = n + 1 /\ frozen_gap' = FALSE
PROOF
  <1> DEFINE events == Segment(m, n)
  <1>1. /\ Len(events) = n - m + 1 /\ events # <<>>
        /\ \A i \in 1 .. n - m + 1 : events[i].sequence = m + i - 1
    BY SegmentShape
  <1>2. /\ Restores(events) /\ frozen_gap' = FALSE
        /\ DOMAIN applied' = {events[i].sequence : i \in 1 .. Len(events)}
        /\ next_sequence' = IF events = <<>> THEN 0 ELSE events[Len(events)].sequence + 1
    BY DEF restore_contiguous
  <1> HIDE DEF events
  <1>3. m = 1
    <2>1. 1 \in 1 .. Len(events)
      BY <1>1
    <2> QED
      BY <1>1, <1>2, <2>1 DEF Restores
  <1>4. Len(events) = n /\ \A i \in 1 .. n : events[i].sequence = i
    BY <1>1, <1>3
  <1>5. DOMAIN applied' = 1 .. n
    BY <1>2, <1>4
  <1>6. next_sequence' = n + 1
    BY <1>1, <1>2, <1>4
  <1> QED
    BY <1>2, <1>5, <1>6

------------------------------------------------------------------------------
(***************************************************************************)
(* What a step does to the chain.                                          *)
(***************************************************************************)

\* An event counted as cut off stays so until it is shown.
KeepsCutOff == cutOff \subseteq DOMAIN applied' \cup cutOff'

Signs == length' = length + 1 /\ UNCHANGED <<chainVars, replies, cutOff>>

Applies ==
  /\ ~frozen_gap /\ Expected <= length
  /\ DOMAIN applied' = 1 .. Expected /\ next_sequence' = Expected + 1
  /\ UNCHANGED <<frozen_gap, length, replies>> /\ KeepsCutOff

Freezes ==
  /\ frozen_gap' = TRUE /\ UNCHANGED <<applied, next_sequence, length, replies>>
  /\ KeepsCutOff

RestoresTo(n) ==
  /\ n <= length
  /\ DOMAIN applied' = 1 .. n /\ next_sequence' = n + 1
  /\ frozen_gap' = FALSE /\ UNCHANGED <<length, replies>>
  /\ KeepsCutOff /\ DOMAIN applied \subseteq DOMAIN applied' \cup cutOff'

KeepsChain ==
  /\ UNCHANGED <<chainVars, length>> /\ KeepsCutOff
  /\ replies' = replies \/ \E m \in 1 .. length : replies' = replies \cup {Segment(m, length)}

\* A step of the delivery is a step of the spool, or leaves it alone.
LEMMA DeliveryMovesSpool ==
  ASSUME [DeliveryNext]_allVars
  PROVE  [Next]_vars
PROOF
  BY DEF DeliveryNext, allVars, spoolVars, BrokerSigns, SpoolWorks, ServiceRestores,
         BrokerReplies, ProducerEnqueues, ServiceIngests, ServiceAcknowledges, Next

\* ingest of an event the broker signed.
LEMMA IngestStep ==
  ASSUME DeliveryInv, NEW e \in Envelopes, ServiceIngests(e)
  PROVE  /\ Applies \/ Freezes \/ KeepsChain
         /\ \A x \in imported' : x \in imported \/ (x = e /\ SequenceOf[e] \in DOMAIN applied')
PROOF
  <1> DEFINE n == SequenceOf[e]
             event == Event(n)
  <1>0. /\ n \in Nat \ {0} /\ n <= length /\ UNCHANGED <<length, replies>>
        /\ KeepsCutOff
        /\ next_sequence \in Nat /\ length \in Nat /\ frozen_gap \in BOOLEAN
        /\ DOMAIN applied = 1 .. Expected - 1
    BY SequenceAssumption
       DEF ServiceIngests, KeepsCutOff, DeliveryInv, SignedInv, IsSigned, ChainInv
  <1>1. event.sequence = n /\ event.digest = n
    BY DEF Event
  <1>2. Expected \in Nat \ {0}
    BY <1>0 DEF Expected
  <1>3. /\ ingest(event)
        /\ imported' = IF IsFrozenGap(event) THEN imported ELSE imported \cup {e}
    BY DEF ServiceIngests
  <1> HIDE DEF event, n
  <1>4. CASE IsApplied(event)
    <2>1. ~frozen_gap /\ n = Expected /\ ~IsFrozenGap(event) /\ ~IsDuplicate(event)
      BY <1>0, <1>1, <1>2, <1>4 DEF IsApplied, IsFrozenGap, IsDuplicate
    <2>2. /\ DOMAIN applied' = DOMAIN applied \cup {n} /\ next_sequence' = Expected + 1
          /\ UNCHANGED frozen_gap
      BY <1>1, <1>3, <2>1 DEF ingest
    <2>3. DOMAIN applied' = 1 .. Expected
      BY <1>0, <1>2, <2>1, <2>2
    <2>4. Applies
      BY <1>0, <2>1, <2>2, <2>3 DEF Applies
    <2>5. n \in DOMAIN applied'
      BY <2>2
    <2> QED
      BY <1>3, <2>1, <2>4, <2>5 DEF n
  <1>5. CASE IsDuplicate(event)
    <2>1. /\ ~IsFrozenGap(event) /\ ~IsApplied(event) /\ n \in DOMAIN applied
      BY <1>0, <1>1, <1>2, <1>5 DEF IsDuplicate, IsFrozenGap, IsApplied
    <2>2. UNCHANGED chainVars
      BY <1>3, <2>1 DEF ingest
    <2>3. KeepsChain
      BY <1>0, <2>2 DEF KeepsChain
    <2>4. applied' = applied
      BY <2>2 DEF chainVars
    <2> QED
      BY <1>3, <2>1, <2>3, <2>4 DEF n
  <1>6. CASE IsFrozenGap(event)
    <2>1. ~IsApplied(event) /\ ~IsDuplicate(event)
      BY <1>6 DEF IsFrozenGap
    <2>2. Freezes
      BY <1>0, <1>3, <2>1 DEF ingest, Freezes
    <2> QED
      BY <1>3, <1>6, <2>2
  <1> QED
    BY <1>4, <1>5, <1>6 DEF IsFrozenGap

\* restore_contiguous, or its error, on a reply that arrives once or again.
LEMMA RestoreStep ==
  ASSUME DeliveryInv, ServiceRestores
  PROVE  KeepsChain \/ \E n \in Nat \ {0} : RestoresTo(n)
PROOF
  <1>0. PICK events \in replies :
          \/ /\ restore_contiguous(events)
             /\ cutOff' = (cutOff \cup Beyond(events)) \ DOMAIN applied'
          \/ UNCHANGED <<chainVars, cutOff>>
    BY DEF ServiceRestores
  <1>1. CASE UNCHANGED <<chainVars, cutOff>>
    BY <1>1 DEF ServiceRestores, KeepsChain, KeepsCutOff
  <1>2. CASE /\ restore_contiguous(events)
             /\ cutOff' = (cutOff \cup Beyond(events)) \ DOMAIN applied'
    <2>1. PICK m \in Nat \ {0}, n \in Nat \ {0} :
            m <= n /\ n <= length /\ events = Segment(m, n)
      BY DEF DeliveryInv, ReplyInv
    <2>2. DOMAIN applied' = 1 .. n /\ next_sequence' = n + 1 /\ frozen_gap' = FALSE
      BY <1>2, <2>1, RestoreShape
    <2>3. events[Len(events)].sequence = n
      <3>1. n - m + 1 \in 1 .. n - m + 1 /\ m + (n - m + 1) - 1 = n
        BY <2>1
      <3> QED
        BY <2>1, <3>1, SegmentShape
    <2>4. DOMAIN applied \subseteq DOMAIN applied' \cup cutOff'
      <3> SUFFICES ASSUME NEW x \in DOMAIN applied, x \notin DOMAIN applied'
                   PROVE  x \in cutOff'
        OBVIOUS
      <3>1. x \in Nat \ {0}
        BY DEF DeliveryInv, ChainInv, Expected
      <3>2. x > n
        BY <2>2, <3>1
      <3> QED
        BY <1>2, <2>3, <3>2 DEF Beyond
    <2>5. RestoresTo(n)
      BY <1>2, <2>1, <2>2, <2>4 DEF ServiceRestores, RestoresTo, KeepsCutOff
    <2> QED
      BY <2>5
  <1> QED
    BY <1>0, <1>1, <1>2

\* The disjuncts of DeliveryNext, by what they do to the chain.
LEMMA ChainMoves ==
  ASSUME DeliveryInv, [DeliveryNext]_allVars
  PROVE  \/ Signs \/ Applies \/ Freezes \/ KeepsChain
         \/ \E n \in Nat \ {0} : RestoresTo(n)
PROOF
  <1>1. CASE BrokerSigns
    BY <1>1 DEF BrokerSigns, Signs
  <1>2. CASE SpoolWorks \/ UNCHANGED allVars
    BY <1>2 DEF SpoolWorks, allVars, deliveryVars, KeepsChain, KeepsCutOff
  <1>3. ASSUME NEW m \in 1 .. MaxEvents, BrokerReplies(m)
        PROVE  KeepsChain
    BY <1>3 DEF BrokerReplies, KeepsChain, KeepsCutOff
  <1>4. ASSUME NEW e \in Envelopes, ProducerEnqueues(e) \/ ServiceAcknowledges(e)
        PROVE  KeepsChain
    BY <1>4 DEF ProducerEnqueues, ServiceAcknowledges, deliveryVars, KeepsChain, KeepsCutOff
  <1> QED
    BY <1>1, <1>2, <1>3, <1>4, IngestStep, RestoreStep DEF DeliveryNext

\* What the chain has applied stays applied unless a reply cuts it off, and what is
\* cut off stays so until it is shown again.
LEMMA ChainStep ==
  ASSUME DeliveryInv, [DeliveryNext]_allVars
  PROVE  /\ ChainInv' /\ ReplyInv' /\ length <= length'
         /\ DOMAIN applied \cup cutOff \subseteq DOMAIN applied' \cup cutOff'
PROOF
  <1>0. /\ length \in Nat /\ next_sequence \in Nat /\ frozen_gap \in BOOLEAN
        /\ DOMAIN applied = 1 .. Expected - 1 /\ Expected - 1 <= length
        /\ Expected \in Nat \ {0}
    BY DEF DeliveryInv, ChainInv, Expected
  <1>1. CASE Signs
    <2>1. ChainInv'
      BY <1>0, <1>1 DEF Signs, ChainInv, chainVars, Expected
    <2>2. ReplyInv'
      BY <1>0, <1>1 DEF Signs, DeliveryInv, ReplyInv
    <2> QED
      BY <1>0, <1>1, <2>1, <2>2 DEF Signs, chainVars
  <1>2. CASE Applies
    <2>1. Expected' = Expected + 1
      BY <1>0, <1>2 DEF Applies, Expected
    <2>2. ChainInv'
      BY <1>0, <1>2, <2>1 DEF Applies, ChainInv
    <2>3. ReplyInv'
      BY <1>2 DEF Applies, DeliveryInv, ReplyInv
    <2> QED
      BY <1>0, <1>2, <2>2, <2>3 DEF Applies, KeepsCutOff
  <1>3. CASE Freezes
    <2>1. Expected' = Expected
      BY <1>3 DEF Freezes, Expected
    <2>2. ChainInv' /\ ReplyInv'
      BY <1>0, <1>3, <2>1 DEF Freezes, DeliveryInv, ChainInv, ReplyInv
    <2> QED
      BY <1>0, <1>3, <2>2 DEF Freezes, KeepsCutOff
  <1>4. ASSUME NEW n \in Nat \ {0}, RestoresTo(n)
        PROVE  /\ ChainInv' /\ ReplyInv' /\ length <= length'
               /\ DOMAIN applied \cup cutOff \subseteq DOMAIN applied' \cup cutOff'
    <2>1. Expected' = n + 1
      BY <1>4 DEF RestoresTo, Expected
    <2>2. ChainInv'
      <3>1. /\ length' = length /\ n <= length /\ next_sequence' = n + 1
            /\ frozen_gap' = FALSE /\ DOMAIN applied' = 1 .. n
        BY <1>4 DEF RestoresTo
      <3>2. Expected' - 1 = n /\ next_sequence' \in Nat
        BY <2>1, <3>1
      <3> QED
        BY <1>0, <3>1, <3>2 DEF ChainInv
    <2>3. ReplyInv'
      BY <1>4 DEF RestoresTo, DeliveryInv, ReplyInv
    <2> QED
      BY <1>0, <1>4, <2>2, <2>3 DEF RestoresTo, KeepsCutOff
  <1>5. CASE KeepsChain
    <2>1. UNCHANGED <<applied, next_sequence, frozen_gap, length>> /\ Expected' = Expected
      BY <1>5 DEF KeepsChain, chainVars, Expected
    <2>2. ChainInv'
      BY <1>0, <2>1 DEF ChainInv
    <2>3. ReplyInv'
      <3>1. CASE replies' = replies
        BY <2>1, <3>1 DEF DeliveryInv, ReplyInv
      <3>2. ASSUME NEW m \in 1 .. length, replies' = replies \cup {Segment(m, length)}
            PROVE  ReplyInv'
        <4>1. m \in Nat \ {0} /\ length \in Nat \ {0} /\ m <= length /\ length <= length'
          BY <1>0, <2>1, <3>2
        <4> QED
          BY <2>1, <3>2, <4>1 DEF DeliveryInv, ReplyInv
      <3> QED
        BY <1>5, <3>1, <3>2 DEF KeepsChain
    <2> QED
      BY <1>0, <1>5, <2>1, <2>2, <2>3 DEF KeepsChain, KeepsCutOff
  <1> QED
    BY <1>1, <1>2, <1>3, <1>4, <1>5, ChainMoves

------------------------------------------------------------------------------
(***************************************************************************)
(* What travels, and what was imported.                                    *)
(***************************************************************************)

\* An operation that adds no envelope leaves only signed ones.
LEMMA KeptMapSigned ==
  ASSUME SpoolInv, SignedInv, NEW s, KeptMap(s)
  PROVE  \A i \in DOMAIN s : IsSigned(s[i].envelope)
PROOF
  <1>0. Shaped(memory) /\ \A i \in DOMAIN memory : IsSigned(memory[i].envelope)
    BY DEF KeptMap, SpoolInv, SnapshotInv, SignedInv
  <1>1. ASSUME NEW e \in Envelopes, s = Removed(memory, e)
        PROVE  \A i \in DOMAIN s : i \in DOMAIN memory /\ s[i].envelope = memory[i].envelope
    BY <1>1 DEF Removed, Restrict
  <1>2. ASSUME NEW j \in DOMAIN memory, NEW delay,
               s = Postponed(memory, j, delay) \/ s = Counted(memory, j)
        PROVE  \A i \in DOMAIN s : i \in DOMAIN memory /\ s[i].envelope = memory[i].envelope
    BY <1>0, <1>2 DEF Postponed, Counted, Shaped
  <1> QED
    BY <1>0, <1>1, <1>2 DEF KeptMap

\* The producer enqueues an event only after it was signed.
LEMMA SignedStep ==
  ASSUME DeliveryInv, [DeliveryNext]_allVars
  PROVE  SignedInv'
PROOF
  <1>0. /\ SpoolInv /\ SignedInv /\ length \in Nat /\ length <= length' /\ length' \in Nat
    BY ChainStep DEF DeliveryInv, ChainInv
  <1>1. \A e : IsSigned(e) => IsSigned(e)'
    BY <1>0, SequenceAssumption DEF IsSigned
  <1>2. ASSUME NEW s, IsMap(s)'
        PROVE  \A i \in DOMAIN s : IsSigned(s[i].envelope)
    <2>1. ASSUME NEW e \in Envelopes, ProducerEnqueues(e)
          PROVE  \A i \in DOMAIN s : IsSigned(s[i].envelope)
      <3>1. Enqueue(e) /\ IsSigned(e)
        BY <2>1 DEF ProducerEnqueues, IsSigned
      <3>2. IsMap(memory) /\ (IsMap(s) \/ s = Inserted(memory, e))
        BY <1>2, <3>1, EnqueueMaps
      <3>3. \A i \in DOMAIN Inserted(memory, e) :
              \/ Inserted(memory, e)[i].envelope = e
              \/ i \in DOMAIN memory /\ Inserted(memory, e)[i].envelope = memory[i].envelope
        BY DEF Inserted
      <3> QED
        BY <1>0, <3>1, <3>2, <3>3 DEF SignedInv
    <2>2. CASE ~\E e \in Envelopes : ProducerEnqueues(e)
      <3>1. \/ Tick \/ Crash \/ PowerLoss \/ Open \/ NextDelivery \/ Rename \/ Finish \/ Fail
            \/ \E e \in Envelopes : Acknowledge(e)
            \/ \E i \in Ids : RetryWithBackoff(i)
            \/ UNCHANGED vars
        BY <2>2 DEF DeliveryNext, allVars, spoolVars, BrokerSigns, SpoolWorks, ServiceRestores,
                    BrokerReplies, ServiceIngests, ServiceAcknowledges
      <3>2. IsMap(s) \/ KeptMap(s)
        BY <1>0, <1>2, <3>1, OtherMaps
      <3> QED
        BY <1>0, <3>2, KeptMapSigned DEF SignedInv
    <2> QED
      BY <2>1, <2>2
  <1>3. \A e \in sent' : IsSigned(e)
    <2>1. CASE UNCHANGED sent
      BY <1>0, <2>1 DEF SignedInv
    <2>2. CASE NextDelivery
      <3>1. PICK i \in DOMAIN memory : sent' = sent \cup {memory[i].envelope}
        BY <2>2 DEF NextDelivery, Due
      <3>2. IsMap(memory)
        BY <2>2 DEF NextDelivery, Idle, IsMap
      <3> QED
        BY <1>0, <3>1, <3>2 DEF SignedInv
    <2> QED
      BY <2>1, <2>2, DeliveryMovesSpool
         DEF Next, vars, ghosts, Tick, Crash, PowerLoss, Open, Rename, Finish, Fail, Enqueue,
             Acknowledge, RetryWithBackoff
  <1> QED
    BY <1>1, <1>2, <1>3 DEF SignedInv

\* An acknowledgement follows the import of its envelope, and only a reply that ends
\* before it undoes an import.
LEMMA ImportStep ==
  ASSUME DeliveryInv, [DeliveryNext]_allVars
  PROVE  ImportInv'
PROOF
  <1>0. ImportInv /\ DOMAIN applied \cup cutOff \subseteq DOMAIN applied' \cup cutOff'
    BY ChainStep DEF DeliveryInv
  <1>1. \A e \in imported' :
          e \in Envelopes /\ SequenceOf[e] \in DOMAIN applied' \cup cutOff'
    <2>1. ASSUME NEW e \in Envelopes, ServiceIngests(e)
          PROVE  \A x \in imported' :
                   x \in Envelopes /\ SequenceOf[x] \in DOMAIN applied' \cup cutOff'
      BY <1>0, <2>1, IngestStep DEF ImportInv
    <2>2. CASE UNCHANGED imported
      BY <1>0, <2>2 DEF ImportInv
    <2> QED
      BY <2>1, <2>2 DEF DeliveryNext, allVars, deliveryVars, BrokerSigns, SpoolWorks,
                        ServiceRestores, BrokerReplies, ProducerEnqueues, ServiceAcknowledges
  <1>2. imported \subseteq imported'
    BY DEF DeliveryNext, allVars, deliveryVars, BrokerSigns, SpoolWorks, ServiceRestores,
           BrokerReplies, ProducerEnqueues, ServiceIngests, ServiceAcknowledges
  <1> DEFINE Acknowledged ==
        /\ gone' \subseteq imported
        /\ call' # NoCall /\ call'.kind = "acknowledge" => call'.envelope \in imported
  <1>3. Acknowledged
    <2>1. ASSUME NEW e \in Envelopes, ServiceAcknowledges(e)
          PROVE  Acknowledged
      BY <1>0, <2>1 DEF ServiceAcknowledges, Acknowledge, Persist, ImportInv
    <2>2. ASSUME NEW e \in Envelopes, ProducerEnqueues(e)
          PROVE  Acknowledged
      BY <1>0, <2>2 DEF ProducerEnqueues, Enqueue, Persist, ImportInv
    <2>3. CASE UNCHANGED <<gone, call>>
      BY <1>0, <2>3 DEF ImportInv
    <2>4. CASE SpoolWorks
      <3>1. CASE Tick \/ Open \/ NextDelivery
        BY <1>0, <3>1 DEF Tick, Open, NextDelivery, ghosts, ImportInv
      <3>2. CASE Crash \/ PowerLoss \/ Fail
        BY <1>0, <3>2 DEF Crash, PowerLoss, Fail, ghosts, ImportInv
      <3>3. CASE Rename
        BY <1>0, <3>3 DEF Rename, ghosts, ImportInv
      <3>4. CASE Finish
        BY <1>0, <3>4 DEF Finish, ImportInv
      <3>5. CASE \E i \in Ids : RetryWithBackoff(i)
        BY <1>0, <3>5 DEF RetryWithBackoff, Persist, ghosts, ImportInv
      <3> QED
        BY <2>4, <3>1, <3>2, <3>3, <3>4, <3>5 DEF SpoolWorks
    <2> QED
      BY <2>1, <2>2, <2>3, <2>4
         DEF DeliveryNext, allVars, spoolVars, vars, ghosts, BrokerSigns, ServiceRestores,
             BrokerReplies, ServiceIngests
  <1> QED
    BY <1>1, <1>2, <1>3 DEF ImportInv

\* The delivery keeps its invariant.
LEMMA DeliveryInductive == DeliverySpec => []DeliveryInv
PROOF
  <1>1. DeliveryInit => DeliveryInv
    <2> SUFFICES ASSUME DeliveryInit
                 PROVE  DeliveryInv
      OBVIOUS
    <2>1. SpoolInv
      BY InitSpool DEF DeliveryInit
    <2>2. ChainInv
      <3>1. DOMAIN applied = {} /\ Expected = 1 /\ 1 .. Expected - 1 = {}
        BY DEF DeliveryInit, ChainInit, Empty, Expected
      <3>2. length = 0 /\ next_sequence = 0 /\ frozen_gap = FALSE
        BY DEF DeliveryInit, ChainInit
      <3>3. length \in Nat /\ next_sequence \in Nat /\ Expected - 1 <= length
        BY <3>1, <3>2
      <3>4. frozen_gap \in BOOLEAN
        BY <3>2
      <3>5. DOMAIN applied = 1 .. Expected - 1
        BY <3>1
      <3> QED
        BY <3>3, <3>4, <3>5, Zenon DEF ChainInv
    <2>3. ReplyInv /\ ImportInv
      BY DEF DeliveryInit, Init, ReplyInv, ImportInv
    <2>4. SignedInv
      BY DEF DeliveryInit, Init, SignedInv, IsMap, EmptySpool
    <2> QED
      BY <2>1, <2>2, <2>3, <2>4 DEF DeliveryInv
  <1>2. DeliveryInv /\ [DeliveryNext]_allVars => DeliveryInv'
    <2> SUFFICES ASSUME DeliveryInv, [DeliveryNext]_allVars
                 PROVE  DeliveryInv'
      OBVIOUS
    <2>1. SpoolInv'
      BY DeliveryMovesSpool, SpoolStep DEF DeliveryInv
    <2> QED
      BY <2>1, ChainStep, SignedStep, ImportStep DEF DeliveryInv
  <1> QED
    BY <1>1, <1>2, PTL DEF DeliverySpec

------------------------------------------------------------------------------
(***************************************************************************)
(* Theorems.                                                               *)
(***************************************************************************)

\* An event whose enqueue succeeded is in the spool or in the projection, whatever
\* envelopes were lost, repeated or reordered: acknowledge follows ingest.  A resync
\* reply, fresh, late or repeated, takes back only the events after its own last one,
\* because restore_contiguous accepts nothing but a beginning of the chain.
THEOREM NothingIsForgotten == DeliverySpec => []NoEventForgotten
PROOF
  <1>1. DeliveryInv => NoEventForgotten
    <2> SUFFICES ASSUME DeliveryInv, NEW e \in owed \cup gone
                 PROVE  \/ SequenceOf[e] \in DOMAIN applied \cup cutOff
                        \/ \A s \in Recoverable : Holds(s, e)
      BY DEF NoEventForgotten
    <2>1. CASE e \in owed
      BY <2>1 DEF DeliveryInv, SpoolInv, SnapshotInv, LedgerInv, IsMap, Recoverable
    <2>2. CASE e \in gone
      BY <2>2 DEF DeliveryInv, ImportInv
    <2> QED
      BY <2>1, <2>2
  <1> QED
    BY <1>1, DeliveryInductive, PTL

\* The projection behind the spool implements its contract: every step of the
\* delivery is a step of ProjectionContract or leaves its variables alone.
THEOREM DeliveryImplementsContract == DeliverySpec => ImplementsContract
PROOF
  <1>1. DeliveryInit => Contract!Init
    BY DEF DeliveryInit, ChainInit, Empty, Contract!Init
  <1>2. ASSUME DeliveryInv, [DeliveryNext]_allVars
        PROVE  [Contract!Next]_(Contract!vars)
    <2>0. /\ length \in Nat /\ DOMAIN applied = 1 .. Expected - 1 /\ Expected \in Nat \ {0}
      BY <1>2 DEF DeliveryInv, ChainInv, Expected
    <2>1. CASE Signs
      BY <2>1 DEF Signs, chainVars, Contract!Next, Contract!BrokerAppends
    <2>2. CASE Applies
      <3>1. /\ Expected - 1 \in 0 .. length - 1
            /\ DOMAIN applied' = 1 .. (Expected - 1) + 1
        BY <2>0, <2>2 DEF Applies
      <3>2. Contract!Advance
        BY <2>0, <2>2, <3>1 DEF Applies, Contract!Advance
      <3> QED
        BY <3>2 DEF Contract!Next
    <2>3. CASE Freezes
      BY <2>3 DEF Freezes, Contract!Next, Contract!Freeze
    <2>4. ASSUME NEW n \in Nat \ {0}, RestoresTo(n)
          PROVE  [Contract!Next]_(Contract!vars)
      <3>1. n \in 0 .. length
        BY <2>0, <2>4 DEF RestoresTo
      <3>2. Contract!Resync
        BY <2>4, <3>1 DEF RestoresTo, Contract!Resync
      <3> QED
        BY <3>2 DEF Contract!Next
    <2>5. CASE KeepsChain
      BY <2>5 DEF KeepsChain, chainVars, Contract!vars
    <2> QED
      BY <1>2, <2>1, <2>2, <2>3, <2>4, <2>5, ChainMoves
  <1> QED
    BY <1>1, <1>2, DeliveryInductive, PTL DEF DeliverySpec, ImplementsContract, Contract!Spec

\* The delivery uses the spool as RelaySpool says: what is proved of the spool alone
\* holds on the way to the projection too.
THEOREM DeliveryUsesSpool == DeliverySpec => Spec
PROOF
  <1>1. DeliveryInit => Init
    BY DEF DeliveryInit
  <1>2. [DeliveryNext]_allVars => [Next]_vars
    BY DeliveryMovesSpool
  <1> QED
    BY <1>1, <1>2, PTL DEF DeliverySpec, Spec

\* In particular the backoff of retry_with_backoff stays bounded until a reboot.
THEOREM DeliveryBackoffIsBounded == DeliverySpec => [](boots = 1 => RetryIsBounded)
PROOF
  BY DeliveryUsesSpool, BackoffIsBounded, PTL
=============================================================================
