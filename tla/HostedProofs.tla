---------------------------- MODULE HostedProofs -----------------------------
(***************************************************************************)
(* Theorems about HostedProjection for every set of requests and workers   *)
(* and for all bounds, wherever the chain starts and whatever states it    *)
(* goes through: the projection is a signed history, and a frozen          *)
(* projection of a chain the service can read never loses its resync.      *)
(***************************************************************************)
EXTENDS HostedProjection, SequenceTheorems, TLAPS

------------------------------------------------------------------------------
(***************************************************************************)
(* The projection.                                                         *)
(***************************************************************************)

\* Every message on its way carries signed events only.
AllSigned(r, c) == \A i \in 1 .. Len(c) : c[i] \in signed[r]

\* Event by event, the numbers run on and each event names the one before.
Linked(c) ==
  /\ c # <<>>
  /\ \A i \in 1 .. Len(c) :
       /\ c[i].sequence = FirstSequence + i - 1
       /\ c[i].previous = IF i = 1 THEN NoDigest ELSE c[i - 1].digest

Genuine(r, c) == AllSigned(r, c) /\ Linked(c)

SignedInv ==
  /\ rows = [r \in Requests |-> rows[r]]
  /\ verified \in [Requests -> Nat \cup {-1}]
  /\ chain \in [Requests -> Seq(Events)]
  /\ signed \in [Requests -> SUBSET Events]
  /\ replies \in [Requests -> SUBSET Seq(Events)]
  /\ answered \in [Requests -> SUBSET Seq(Events)]
  /\ \A r \in Requests : /\ Genuine(r, chain[r])
                         /\ \A c \in replies[r] \cup answered[r] : Genuine(r, c)
  /\ ProjectionIsSignedHistory

\* One request's projection under a given set of signed events.
SignedHistory(table, last, events) ==
  /\ DOMAIN table = 0 .. last
  /\ \A s \in DOMAIN table : \E e \in events :
       /\ e.sequence = s /\ e.digest = table[s]
       /\ e.previous = IF s = 0 THEN NoDigest ELSE table[s - 1]

\* ProjectionIsSignedHistory says SignedHistory of every request.
LEMMA HistoriesAreSigned ==
  ProjectionIsSignedHistory
    <=> \A r \in Requests : SignedHistory(rows[r], verified[r], signed[r])
PROOF
  BY DEF ProjectionIsSignedHistory, SignedHistory

\* Signing more events takes nothing away from a history.
LEMMA HistoryGrows ==
  ASSUME NEW table, NEW last, NEW S, NEW T, S \subseteq T, SignedHistory(table, last, S)
  PROVE  SignedHistory(table, last, T)
PROOF
  BY DEF SignedHistory

\* One event more, numbered and linked behind the last one.
LEMMA LinkedGrows ==
  ASSUME NEW c \in Seq(Events), Linked(c), NEW e \in Events,
         e.sequence = FirstSequence + Len(c), e.previous = c[Len(c)].digest
  PROVE  Linked(Append(c, e))
PROOF
  <1> DEFINE d == Append(c, e)
  <1>1. /\ Len(c) \in Nat \ {0} /\ Len(d) = Len(c) + 1 /\ d[Len(c) + 1] = e
        /\ \A i \in 1 .. Len(c) : d[i] = c[i]
    BY DEF Linked
  <1>2. d # <<>>
    BY <1>1
  <1> HIDE DEF d
  <1>3. FirstSequence \in Nat
    BY ProjectionAssumption
  <1>4. ASSUME NEW i \in 1 .. Len(d)
        PROVE  /\ d[i].sequence = FirstSequence + i - 1
               /\ d[i].previous = IF i = 1 THEN NoDigest ELSE d[i - 1].digest
    <2>1. CASE i = Len(c) + 1
      <3>1. i # 1 /\ d[i - 1] = c[Len(c)] /\ d[i] = e
        BY <1>1, <2>1
      <3> QED
        BY <1>1, <1>3, <2>1, <3>1
    <2>2. CASE i \in 1 .. Len(c)
      <3>1. d[i] = c[i] /\ (i # 1 => d[i - 1] = c[i - 1])
        BY <1>1, <2>2
      <3> QED
        BY <2>2, <3>1 DEF Linked
    <2> QED
      BY <1>1, <2>1, <2>2
  <1> QED
    BY <1>2, <1>4 DEF Linked, d

\* The broker signs an event on top of a beginning of its chain.
LEMMA SigningKept ==
  ASSUME SignedInv, NEW r \in Requests, NEW history \in Seq(Events), NEW t \in LaterStates,
         Genuine(r, history), Signs(r, history, t)
  PROVE  SignedInv'
PROOF
  <1> DEFINE e == NextEvent(r, history, t)
  <1>1. /\ e.digest \in Digests
        /\ chain' = [chain EXCEPT ![r] = Append(history, e)]
        /\ signed' = [signed EXCEPT ![r] = @ \cup {e}]
        /\ UNCHANGED <<rows, verified, replies, answered>>
    BY DEF Signs, projectionVars, transitVars
  <1>2. Len(history) \in Nat /\ history # <<>> /\ history[Len(history)] \in Events
    BY DEF Genuine, Linked
  <1>3. /\ e \in Events /\ e.sequence = FirstSequence + Len(history)
        /\ e.previous = history[Len(history)].digest
    <2>1. history[Len(history)].digest \in Digests
      BY <1>2 DEF Events
    <2>2. FirstSequence + Len(history) \in Nat /\ t \in States
      BY <1>2, ProjectionAssumption
    <2> QED
      BY <1>1, <2>1, <2>2 DEF Events, NextEvent
  <1> HIDE DEF e
  <1>4. /\ chain' \in [Requests -> Seq(Events)] /\ signed' \in [Requests -> SUBSET Events]
        /\ \A q \in Requests : signed[q] \subseteq signed'[q]
        /\ e \in signed'[r] /\ chain'[r] = Append(history, e)
        /\ \A q \in Requests \ {r} : chain'[q] = chain[q]
    BY <1>1, <1>3 DEF SignedInv
  <1>5. \A i \in 1 .. Len(chain'[r]) : chain'[r][i] \in signed'[r]
    <2>1. /\ Len(chain'[r]) = Len(history) + 1 /\ chain'[r][Len(history) + 1] = e
          /\ \A i \in 1 .. Len(history) : chain'[r][i] = history[i]
      BY <1>3, <1>4
    <2>2. \A i \in 1 .. Len(history) : history[i] \in signed[r]
      BY DEF Genuine, AllSigned
    <2> QED
      BY <1>2, <1>4, <2>1, <2>2
  <1>6. Linked(chain'[r])
    BY <1>3, <1>4, LinkedGrows DEF Genuine
  <1>7. \A q \in Requests : Genuine(q, chain[q])'
    <2>1. \A q \in Requests \ {r} : Genuine(q, chain[q])'
      BY <1>4 DEF SignedInv, Genuine, AllSigned, Linked
    <2>2. Genuine(r, chain[r])'
      BY <1>5, <1>6 DEF Genuine, AllSigned, Linked
    <2> QED
      BY <1>4, <2>1, <2>2
  <1>8. (\A q \in Requests : \A c \in replies[q] \cup answered[q] : Genuine(q, c))'
    BY <1>1, <1>4 DEF SignedInv, Genuine, AllSigned, Linked
  <1>9. \A q \in Requests : SignedHistory(rows'[q], verified'[q], signed'[q])
    BY <1>1, <1>4, HistoriesAreSigned, HistoryGrows DEF SignedInv
  <1>10. ProjectionIsSignedHistory'
    BY <1>9 DEF ProjectionIsSignedHistory, SignedHistory
  <1>11. /\ rows' = [q \in Requests |-> rows'[q]]
         /\ verified' \in [Requests -> Nat \cup {-1}]
         /\ replies' \in [Requests -> SUBSET Seq(Events)]
         /\ answered' \in [Requests -> SUBSET Seq(Events)]
    BY <1>1 DEF SignedInv
  <1> QED
    BY <1>4, <1>7, <1>8, <1>10, <1>11 DEF SignedInv

\* The tail of a history without holes is its last verified number.
LEMMA TailOfHistory ==
  ASSUME NEW r \in Requests, verified[r] \in Nat \cup {-1},
         DOMAIN rows[r] = 0 .. verified[r]
  PROVE  /\ NoRows(r) <=> verified[r] = -1
         /\ ~NoRows(r) => LastRow(r) = verified[r]
         /\ expectedSequence(r) = verified[r] + 1
PROOF
  <1>1. NoRows(r) <=> verified[r] = -1
    BY DEF NoRows
  <1>2. ASSUME ~NoRows(r) PROVE LastRow(r) = verified[r]
    <2>1. verified[r] \in DOMAIN rows[r] /\ \A t \in DOMAIN rows[r] : t <= verified[r]
      BY <1>1, <1>2
    <2>2. \A s \in DOMAIN rows[r] :
            (\A t \in DOMAIN rows[r] : t <= s) => s = verified[r]
      BY <2>1
    <2> QED
      BY <2>1, <2>2 DEF LastRow
  <1> QED
    BY <1>1, <1>2 DEF expectedSequence

\* applyVerifiedEvent extends the history by its signed successor.
LEMMA ApplyKept ==
  ASSUME SignedInv, NEW r \in Requests, NEW e \in signed[r], ApplyNext(r, e)
  PROVE  SignedInv'
PROOF
  <1> DEFINE v == verified[r]
             table == rows'[r]
  <1>1. v \in Nat \cup {-1} /\ SignedHistory(rows[r], v, signed[r])
    BY HistoriesAreSigned DEF SignedInv
  <1>2. /\ NoRows(r) <=> v = -1
        /\ ~NoRows(r) => LastRow(r) = v
        /\ expectedSequence(r) = v + 1
    BY <1>1, TailOfHistory DEF SignedHistory
  <1>3. /\ e.sequence = v + 1
        /\ e.previous = IF v = -1 THEN NoDigest ELSE rows[r][v]
    BY <1>2 DEF ApplyNext, Continues, previousMatches
  <1>4. /\ table = [s \in (0 .. v) \cup {v + 1} |->
                      IF s = v + 1 THEN e.digest ELSE rows[r][s]]
        /\ verified' = [verified EXCEPT ![r] = v + 1]
        /\ \A q \in Requests \ {r} : rows'[q] = rows[q]
        /\ rows' = [q \in Requests |-> rows'[q]]
        /\ UNCHANGED <<chain, signed, replies, answered>>
    <2>1. /\ rows' = [rows EXCEPT ![r] = [s \in DOMAIN @ \cup {e.sequence} |->
                                            IF s = e.sequence THEN e.digest ELSE @[s]]]
          /\ verified' = [verified EXCEPT ![r] = e.sequence]
          /\ UNCHANGED <<chain, signed, replies, answered>>
      BY DEF ApplyNext, insertProjection, brokerVars, transitVars
    <2>2. /\ table = [s \in DOMAIN rows[r] \cup {e.sequence} |->
                        IF s = e.sequence THEN e.digest ELSE rows[r][s]]
          /\ \A q \in Requests \ {r} : rows'[q] = rows[q]
          /\ rows' = [q \in Requests |-> rows'[q]]
      BY <2>1 DEF SignedInv
    <2>3. DOMAIN rows[r] = 0 .. v
      BY <1>1 DEF SignedHistory
    <2> QED
      BY <1>3, <2>1, <2>2, <2>3
  <1>5. DOMAIN table = 0 .. v + 1
    BY <1>1, <1>4
  <1>6. ASSUME NEW s \in 0 .. v + 1
        PROVE \E f \in signed[r] :
                /\ f.sequence = s /\ f.digest = table[s]
                /\ f.previous = IF s = 0 THEN NoDigest ELSE table[s - 1]
    <2>1. CASE s = v + 1
      <3>1. table[s] = e.digest /\ e.sequence = s
        BY <1>3, <1>4, <2>1
      <3>2. e.previous = IF s = 0 THEN NoDigest ELSE table[s - 1]
        BY <1>1, <1>3, <1>4, <2>1
      <3> QED
        BY <3>1, <3>2
    <2>2. CASE s # v + 1
      <3>1. s \in DOMAIN rows[r]
        BY <1>1, <2>2 DEF SignedHistory
      <3>2. table[s] = rows[r][s] /\ (s # 0 => table[s - 1] = rows[r][s - 1])
        BY <1>1, <1>4, <2>2
      <3> QED
        BY <1>1, <3>1, <3>2 DEF SignedHistory
    <2> QED
      BY <2>1, <2>2
  <1>7. SignedHistory(table, v + 1, signed[r])
    BY <1>5, <1>6 DEF SignedHistory
  <1>8. \A q \in Requests : SignedHistory(rows'[q], verified'[q], signed'[q])
    BY <1>4, <1>7, HistoriesAreSigned DEF SignedInv
  <1>9. ProjectionIsSignedHistory'
    BY <1>8 DEF ProjectionIsSignedHistory, SignedHistory
  <1>10. verified' \in [Requests -> Nat \cup {-1}]
    BY <1>1, <1>4 DEF SignedInv
  <1> QED
    BY <1>4, <1>9, <1>10 DEF SignedInv, Genuine, AllSigned

\* replaceFromVerifiedResync installs a signed history from its first event on.
LEMMA ReplaceKept ==
  ASSUME SignedInv, NEW r \in Requests, NEW events \in replies[r] \cup answered[r],
         Replaces(r, events), UNCHANGED <<chain, signed, answered>>,
         replies' \in [Requests -> SUBSET Seq(Events)],
         \A q \in Requests : replies'[q] \subseteq replies[q]
  PROVE  SignedInv'
PROOF
  <1> DEFINE n == Len(events)
             table == replaceRows(r, events)
  <1>1. events \in Seq(Events) /\ AllSigned(r, events)
    BY DEF SignedInv, Genuine
  <1>2. /\ n \in Nat \ {0}
        /\ \A i \in 1 .. n : /\ events[i].sequence = i - 1
                             /\ events[i].previous = IF i = 1 THEN NoDigest
                                                              ELSE events[i - 1].digest
    BY <1>1 DEF Replaces, Accepted, validateContiguousChain
  <1>3. {events[i].sequence : i \in 1 .. n} = 0 .. n - 1
    <2>1. \A i \in 1 .. n : events[i].sequence \in 0 .. n - 1
      BY <1>2
    <2>2. \A s \in 0 .. n - 1 : s + 1 \in 1 .. n /\ events[s + 1].sequence = s
      BY <1>2
    <2> QED
      BY <2>1, <2>2
  <1>4. table = [s \in 0 .. n - 1 |-> events[s + 1].digest]
    <2> DEFINE D == {events[i].sequence : i \in 1 .. Len(events)}
    <2>1. table = [s \in D |-> events[s + 1].digest]
      BY DEF replaceRows
    <2>2. D = 0 .. n - 1
      BY <1>3
    <2> HIDE DEF D, table, n
    <2> QED
      BY <2>1, <2>2
  <1>5. ASSUME NEW s \in 0 .. n - 1
        PROVE \E f \in signed[r] :
                /\ f.sequence = s /\ f.digest = table[s]
                /\ f.previous = IF s = 0 THEN NoDigest ELSE table[s - 1]
    <2>1. s + 1 \in 1 .. n /\ (s # 0 => s - 1 \in 0 .. n - 1)
      BY <1>2
    <2>2. events[s + 1] \in signed[r]
      BY <1>1, <2>1 DEF AllSigned
    <2>3. /\ events[s + 1].sequence = s /\ events[s + 1].digest = table[s]
          /\ events[s + 1].previous = IF s = 0 THEN NoDigest ELSE table[s - 1]
      BY <1>2, <1>4, <2>1
    <2> QED
      BY <2>2, <2>3
  <1>6. SignedHistory(table, n - 1, signed[r])
    BY <1>4, <1>5 DEF SignedHistory
  <1>7. /\ rows' = [rows EXCEPT ![r] = table]
        /\ verified' = [verified EXCEPT ![r] = n - 1]
    <2>1. events[n].sequence = n - 1
      BY <1>2
    <2>2. /\ rows' = [rows EXCEPT ![r] = table]
          /\ verified' = [verified EXCEPT ![r] = events[n].sequence]
      BY Zenon DEF Replaces
    <2> QED
      BY <2>1, <2>2, Zenon
  <1> HIDE DEF table, n
  <1>8. /\ rows' = [q \in Requests |-> rows'[q]] /\ rows'[r] = table
        /\ \A q \in Requests \ {r} : rows'[q] = rows[q]
    BY <1>7 DEF SignedInv
  <1>9. \A q \in Requests : SignedHistory(rows'[q], verified'[q], signed'[q])
    BY <1>6, <1>7, <1>8, HistoriesAreSigned DEF SignedInv
  <1>10. ProjectionIsSignedHistory'
    BY <1>9 DEF ProjectionIsSignedHistory, SignedHistory
  <1>11. verified' \in [Requests -> Nat \cup {-1}]
    BY <1>2, <1>7 DEF SignedInv
  <1>12. \A q \in Requests : \A c \in replies'[q] \cup answered[q] : Genuine(q, c)
    BY DEF SignedInv
  <1> QED
    BY <1>8, <1>10, <1>11, <1>12 DEF SignedInv, Genuine, AllSigned

\* A resync reply arrives, for the first time or again, and is taken or refused.
LEMMA ResyncKept ==
  ASSUME SignedInv, NEW r \in Requests, ResyncArrives(r) \/ ResyncRepeated(r)
  PROVE  SignedInv'
PROOF
  <1>1. PICK events \in replies[r] \cup answered[r] :
          /\ ReplaceFromVerifiedResync(r, events)
          /\ replies' = replies \/ replies' = [replies EXCEPT ![r] = @ \ {events}]
    BY DEF ResyncArrives, ResyncRepeated
  <1>2. /\ replies' \in [Requests -> SUBSET Seq(Events)]
        /\ \A q \in Requests : replies'[q] \subseteq replies[q]
    BY <1>1 DEF SignedInv
  <1>3. UNCHANGED <<chain, signed, answered>>
    BY <1>1 DEF ReplaceFromVerifiedResync, brokerVars
  <1>4. CASE Replaces(r, events)
    BY <1>2, <1>3, <1>4, ReplaceKept
  <1>5. CASE UNCHANGED projectionVars
    <2>1. UNCHANGED <<rows, verified>>
      BY <1>5 DEF projectionVars
    <2>2. ProjectionIsSignedHistory
      BY DEF SignedInv
    <2>3. ProjectionIsSignedHistory'
      BY <1>3, <2>1, <2>2 DEF ProjectionIsSignedHistory
    <2> QED
      BY <1>2, <1>3, <2>1, <2>3 DEF SignedInv, Genuine, AllSigned
  <1> QED
    BY <1>1, <1>4, <1>5 DEF ReplaceFromVerifiedResync

\* Every step keeps the projections signed histories.
LEMMA SignedInvKept == SignedInv /\ [Next]_vars => SignedInv'
PROOF
  <1> SUFFICES ASSUME SignedInv, [Next]_vars PROVE SignedInv'
    OBVIOUS
  <1>1. CASE UNCHANGED <<rows, verified, chain, signed, replies, answered>>
    BY <1>1 DEF SignedInv, Genuine, AllSigned, ProjectionIsSignedHistory
  <1>2. CASE UNCHANGED vars
    BY <1>1, <1>2 DEF vars, projectionVars, brokerVars, transitVars
  <1>3. ASSUME NEW w \in Workers, Deliver(w) \/ Throw(w) \/ WorkerStep(w) \/ WorkerStops(w)
        PROVE SignedInv'
    BY <1>1, <1>3 DEF Deliver, Throw, WorkerStep, WorkerStops, projectionVars, brokerVars,
                      transitVars
  <1>4. ASSUME NEW r \in Requests, BrokerSigns(r) PROVE SignedInv'
    BY <1>4, SigningKept DEF BrokerSigns, SignedInv
  <1>5. ASSUME NEW r \in Requests, NEW n \in 1 .. MaxEvents, BrokerRestored(r, n)
        PROVE SignedInv'
    <2> DEFINE history == SubSeq(chain[r], 1, n)
    <2>1. PICK t \in LaterStates : Signs(r, history, t)
      BY <1>5 DEF BrokerRestored
    <2>2. /\ chain[r] \in Seq(Events) /\ n \in 1 .. Len(chain[r]) - 1
          /\ AllSigned(r, chain[r]) /\ Linked(chain[r])
      BY <1>5 DEF BrokerRestored, SignedInv, Genuine
    <2>3. /\ history \in Seq(Events) /\ Len(history) = n
          /\ \A i \in 1 .. n : history[i] = chain[r][i]
      <3>1. n \in Int /\ 1 <= n /\ \A i \in 1 .. n : chain[r][i] \in Events
        BY <2>2
      <3>2. /\ history \in Seq(Events)
            /\ Len(history) = IF 1 <= n THEN n - 1 + 1 ELSE 0
            /\ \A i \in 1 .. n - 1 + 1 : history[i] = chain[r][1 + i - 1]
        BY <3>1, SubSeqProperties
      <3> HIDE DEF history
      <3> QED
        BY <3>1, <3>2
    <2> HIDE DEF history
    <2>4. Genuine(r, history)
      <3>1. \A i \in 1 .. n : i \in 1 .. Len(chain[r])
        BY <2>2
      <3>2. AllSigned(r, history)
        BY <2>2, <2>3, <3>1 DEF AllSigned
      <3>3. history # <<>>
        BY <2>2, <2>3
      <3>4. \A i \in 1 .. n : i # 1 => i - 1 \in 1 .. n
        OBVIOUS
      <3> QED
        BY <2>2, <2>3, <3>1, <3>2, <3>3, <3>4 DEF Genuine, Linked
    <2> QED
      BY <2>1, <2>3, <2>4, SigningKept, Zenon
  <1>6. ASSUME NEW r \in Requests, BrokerAnswers(r) PROVE SignedInv'
    <2>1. /\ replies' = [replies EXCEPT ![r] = @ \cup {chain[r]}]
          /\ answered' = [answered EXCEPT ![r] = @ \cup {chain[r]}]
          /\ UNCHANGED <<rows, verified, chain, signed>>
      BY <1>6 DEF BrokerAnswers, projectionVars, brokerVars
    <2>2. /\ replies' \in [Requests -> SUBSET Seq(Events)]
          /\ answered' \in [Requests -> SUBSET Seq(Events)]
      BY <2>1 DEF SignedInv
    <2>3. \A q \in Requests : \A c \in replies'[q] \cup answered'[q] : Genuine(q, c)
      BY <2>1 DEF SignedInv
    <2>4. UNCHANGED <<rows, verified, chain, signed>>
      BY <2>1
    <2>5. ProjectionIsSignedHistory /\ ProjectionIsSignedHistory'
      <3>1. ProjectionIsSignedHistory
        BY DEF SignedInv
      <3> QED
        BY <2>4, <3>1 DEF ProjectionIsSignedHistory
    <2> QED
      BY <2>2, <2>3, <2>4, <2>5 DEF SignedInv, Genuine, AllSigned
  <1>7. ASSUME NEW r \in Requests, ResyncArrives(r) \/ ResyncRepeated(r) PROVE SignedInv'
    BY <1>7, ResyncKept
  <1>8. ASSUME NEW r \in Requests, TimePasses(r) PROVE SignedInv'
    BY <1>1, <1>8 DEF TimePasses, projectionVars, brokerVars, transitVars
  <1>9. ASSUME NEW r \in Requests, NEW e \in signed[r], ApplyNext(r, e) PROVE SignedInv'
    BY <1>9, ApplyKept
  <1>10. ASSUME NEW r \in Requests, NEW e \in signed[r], ApplyConflicting(r, e)
         PROVE SignedInv'
    BY <1>1, <1>10 DEF ApplyConflicting, brokerVars, transitVars
  <1> QED
    BY <1>2, <1>3, <1>4, <1>5, <1>6, <1>7, <1>8, <1>9, <1>10 DEF Next

\* At first nothing is shown, and the first event of every chain is signed.
LEMMA SignedInit == Init => SignedInv
PROOF
  <1> SUFFICES ASSUME Init PROVE SignedInv
    OBVIOUS
  <1>1. FirstEvent \in Events
    BY ProjectionAssumption DEF FirstEvent, Events, Digests
  <1>2. /\ chain \in [Requests -> Seq(Events)] /\ signed \in [Requests -> SUBSET Events]
        /\ \A r \in Requests : Len(chain[r]) = 1 /\ chain[r][1] = FirstEvent
        /\ \A r \in Requests : FirstEvent \in signed[r]
    BY <1>1 DEF Init
  <1>3. ProjectionIsSignedHistory
    BY DEF Init, ProjectionIsSignedHistory
  <1>4. FirstEvent.sequence = FirstSequence + 1 - 1 /\ FirstEvent.previous = NoDigest
    BY ProjectionAssumption DEF FirstEvent
  <1>5. \A r \in Requests : Genuine(r, chain[r])
    <2>1. \A r \in Requests : chain[r] # <<>>
      BY <1>2
    <2> QED
      BY <1>2, <1>4, <2>1 DEF Genuine, AllSigned, Linked
  <1> QED
    BY <1>2, <1>3, <1>5 DEF Init, SignedInv

\* Whatever the relay delivers late, twice or out of order, and however often the
\* broker is restored from a backup and signs other events under used numbers, the
\* hosted projection of every request is a history without holes in which each
\* event is the signed successor of the one before (applyVerifiedEvent,
\* replaceFromVerifiedResync).
THEOREM SignedProjection == Spec => []ProjectionIsSignedHistory
PROOF
  <1>1. SignedInv => ProjectionIsSignedHistory
    BY DEF SignedInv
  <1> QED
    BY <1>1, SignedInit, SignedInvKept, PTL DEF Spec

------------------------------------------------------------------------------
(***************************************************************************)
(* The resync.                                                             *)
(***************************************************************************)

\* A worker about to delete the row it claimed has handed the request over, and the
\* request or its answer is still on the way: an answer that is applied removes the
\* row together with itself, and of a chain the service can read no answer is refused.
HandedOver(w) ==
  Working(w, "complete") /\ StillClaimed(w) /\ Understood(Head(queue[w])) =>
    asked[Head(queue[w])] \/ replies[Head(queue[w])] # {}

ResyncInv ==
  /\ OutboxTypeOK
  /\ frozen \in [Requests -> BOOLEAN] /\ asked \in [Requests -> BOOLEAN]
  /\ replies = [r \in Requests |-> replies[r]]
  /\ \A w \in Workers : (queue[w] = <<>> => phase[w] = "deliver") /\ HandedOver(w)
  /\ ResyncUnderWay

\* The first row of a batch is the row of some request.
LEMMA HeadTyped ==
  ASSUME OutboxTypeOK, NEW w \in Workers, queue[w] # <<>>
  PROVE  Head(queue[w]) \in Requests /\ Tail(queue[w]) \in Seq(Requests)
PROOF
  BY DEF OutboxTypeOK, Requests

\* What the service cannot read it will not be able to read later.
LEMMA UnderstoodOnlyFalls ==
  ASSUME NEW r \in Requests, signed[r] \subseteq signed'[r], Understood(r)'
  PROVE  Understood(r)
PROOF
  BY DEF Understood, validateEvent, LIFECYCLE_STATES

\* A reply that carries a chain the service can read is accepted.
LEMMA UnderstoodIsAccepted ==
  ASSUME SignedInv, NEW r \in Requests, Understood(r), NEW c \in replies[r]
  PROVE  Accepted(c)
PROOF
  <1>1. c \in Seq(Events) /\ AllSigned(r, c) /\ Linked(c) /\ FirstSequence = 0
    BY DEF SignedInv, Genuine, Understood
  <1>2. \A i \in 1 .. Len(c) : validateEvent(c[i])
    BY <1>1 DEF AllSigned, Understood
  <1>3. validateContiguousChain(c)
    BY <1>1 DEF Linked, validateContiguousChain
  <1> QED
    BY <1>2, <1>3 DEF Accepted

\* Arming a row keeps whose claim was the last one; a fresh row has none.
LEMMA ArmedRow ==
  ASSUME NEW row \in Rows \cup {NoRow}
  PROVE  /\ Armed(row) \in Rows /\ Armed(row) # NoRow
         /\ row = NoRow => Armed(row).claimant = NoWorker
         /\ row # NoRow => Armed(row).claimant = row.claimant
PROOF
  <1>1. Armed(row) \in Rows
    BY DEF Armed, Rows
  <1> QED
    BY <1>1, NoRowAssumption DEF Armed, Rows

\* Steps that touch neither the outbox nor the workers nor what is on the way, and
\* freeze nothing.
LEMMA ResyncUntouched ==
  ASSUME ResyncInv, UNCHANGED <<outboxVars, asked, replies>>,
         frozen' \in [Requests -> BOOLEAN], \A r \in Requests : frozen'[r] => frozen[r],
         \A r \in Requests : signed[r] \subseteq signed'[r]
  PROVE  ResyncInv'
PROOF
  <1>1. \A r \in Requests : Understood(r)' => Understood(r)
    BY UnderstoodOnlyFalls
  <1>2. \A w \in Workers : queue[w] # <<>> => Head(queue[w]) \in Requests
    BY HeadTyped DEF ResyncInv
  <1>3. UNCHANGED <<outbox, queue, phase>>
    BY DEF outboxVars
  <1>4. ASSUME NEW w \in Workers PROVE HandedOver(w)'
    BY <1>1, <1>2, <1>3 DEF ResyncInv, HandedOver, Working, StillClaimed
  <1> QED
    BY <1>1, <1>3, <1>4 DEF ResyncInv, OutboxTypeOK, ResyncUnderWay

\* A worker hands a request over, or a delivery throws.
LEMMA DeliveryKept ==
  ASSUME ResyncInv, NEW w \in Workers, Deliver(w) \/ Throw(w)
  PROVE  ResyncInv'
PROOF
  <1>0. /\ OutboxTypeOK /\ queue[w] # <<>> /\ UNCHANGED <<outbox, queue, frozen, replies>>
        /\ UNCHANGED signed
    BY DEF ResyncInv, Deliver, Throw, DeliverReturns, WorkThrows, Working, projectionVars,
           brokerVars
  <1> DEFINE r == Head(queue[w])
  <1>1. r \in Requests
    BY <1>0, HeadTyped
  <1>2. PICK p \in {"complete", "reschedule"} :
          /\ phase' = [phase EXCEPT ![w] = p]
          /\ asked' = [asked EXCEPT ![r] = TRUE] \/ (p = "reschedule" /\ asked' = asked)
    BY DEF Deliver, Throw, DeliverReturns, WorkThrows, HandOver
  <1>3. phase' \in [Workers -> {"deliver", "complete", "reschedule"}] /\ phase'[w] = p
    BY <1>0, <1>2 DEF OutboxTypeOK
  <1>4. asked' \in [Requests -> BOOLEAN] /\ \A q \in Requests : asked[q] => asked'[q]
    BY <1>1, <1>2 DEF ResyncInv
  <1>5. asked'[r] \/ phase'[w] # "complete"
    BY <1>1, <1>2, <1>3 DEF ResyncInv
  <1>6. ASSUME NEW v \in Workers
        PROVE (queue'[v] = <<>> => phase'[v] = "deliver") /\ HandedOver(v)'
    <2>1. CASE v = w
      BY <1>0, <1>5, <2>1 DEF HandedOver, Working
    <2>2. CASE v # w
      <3>1. phase'[v] = phase[v]
        BY <1>0, <1>2, <2>2 DEF OutboxTypeOK
      <3>2. queue[v] # <<>> => Head(queue[v]) \in Requests
        BY <1>0, HeadTyped
      <3> QED
        BY <1>0, <1>4, <3>1, <3>2
        DEF ResyncInv, HandedOver, Working, StillClaimed, Understood
    <2> QED
      BY <2>1, <2>2
  <1>7. ResyncUnderWay'
    BY <1>0, <1>4 DEF ResyncInv, ResyncUnderWay, Understood
  <1> QED
    BY <1>0, <1>3, <1>4, <1>6, <1>7 DEF ResyncInv, OutboxTypeOK

\* claim_outbox takes rows over from the workers that had them.
LEMMA ClaimKept ==
  ASSUME ResyncInv, NEW w \in Workers, Claim(w), UNCHANGED <<frozen, asked, replies, signed>>
  PROVE  ResyncInv'
PROOF
  <1>0. OutboxTypeOK /\ phase' = phase /\ queue[w] = <<>> /\ phase[w] = "deliver"
    BY DEF ResyncInv, Claim
  <1>1. PICK n \in 1 .. ClaimLimit :
          \E batch \in [1 .. n -> {r \in Relations : Claimable(r)}] :
            /\ queue' = [queue EXCEPT ![w] = batch]
            /\ outbox' = [r \in Relations |->
                            IF \E i \in 1 .. n : batch[i] = r
                              THEN [outbox[r] EXCEPT !.leased = TRUE, !.claimant = w]
                              ELSE outbox[r]]
    BY DEF Claim
  <1>2. PICK batch \in [1 .. n -> {r \in Relations : Claimable(r)}] :
          /\ queue' = [queue EXCEPT ![w] = batch]
          /\ outbox' = [r \in Relations |->
                          IF \E i \in 1 .. n : batch[i] = r
                            THEN [outbox[r] EXCEPT !.leased = TRUE, !.claimant = w]
                            ELSE outbox[r]]
    BY <1>1
  <1>3. batch \in Seq(Relations)
    <2>1. n \in Nat
      BY ClaimLimitAssumption
    <2>2. batch \in [1 .. n -> Relations]
      OBVIOUS
    <2> QED
      BY <2>1, <2>2, SeqDef
  <1>4. ASSUME NEW r \in Relations, outbox[r] # NoRow
        PROVE LET new == [outbox[r] EXCEPT !.leased = TRUE, !.claimant = w]
              IN new \in Rows /\ new # NoRow /\ new.claimant = w
    <2>1. outbox[r] \in Rows
      BY <1>0, <1>4 DEF OutboxTypeOK
    <2>2. [outbox[r] EXCEPT !.leased = TRUE, !.claimant = w] \in Rows
      BY <2>1 DEF Rows
    <2> QED
      BY <2>1, <2>2, NoRowAssumption DEF Rows
  <1>5. \A r \in Relations : (\E i \in 1 .. n : batch[i] = r) => outbox[r] # NoRow
    BY <1>2 DEF Claimable
  <1>6. \A r \in Relations :
          \/ outbox'[r] = outbox[r]
          \/ outbox'[r] \in Rows /\ outbox'[r] # NoRow /\ outbox'[r].claimant = w
    BY <1>2, <1>4, <1>5
  <1>7. OutboxTypeOK'
    <2>1. outbox' \in [Relations -> Rows \cup {NoRow}]
      <3>1. outbox' = [r \in Relations |-> outbox'[r]]
        BY <1>2
      <3>2. \A r \in Relations : outbox'[r] \in Rows \cup {NoRow}
        BY <1>0, <1>6 DEF OutboxTypeOK
      <3> QED
        BY <3>1, <3>2
    <2> QED
      BY <1>0, <1>2, <1>3, <2>1 DEF OutboxTypeOK
  <1>8. ASSUME NEW v \in Workers
        PROVE (queue'[v] = <<>> => phase'[v] = "deliver") /\ HandedOver(v)'
    <2>1. CASE v = w
      BY <1>0, <2>1 DEF HandedOver, Working
    <2>2. CASE v # w
      <3>1. queue'[v] = queue[v]
        BY <1>0, <1>2, <2>2 DEF OutboxTypeOK
      <3>2. queue[v] # <<>> => Head(queue[v]) \in Relations
        BY <1>0, HeadTyped DEF Requests
      <3>3. queue[v] # <<>> /\ StillClaimed(v)' => StillClaimed(v)
        BY <1>6, <2>2, <3>1, <3>2 DEF StillClaimed
      <3> QED
        BY <1>0, <3>1, <3>3 DEF ResyncInv, HandedOver, Working, Understood
    <2> QED
      BY <2>1, <2>2
  <1>9. ResyncUnderWay'
    <2>1. \A r \in Requests : outbox[r] # NoRow => outbox'[r] # NoRow
      BY <1>6 DEF Requests
    <2> QED
      BY <2>1 DEF ResyncInv, ResyncUnderWay, Understood
  <1> QED
    BY <1>7, <1>8, <1>9 DEF ResyncInv

\* The worker is done with a row: it may delete or reschedule it, and goes on.
LEMMA FinishKept ==
  ASSUME ResyncInv, NEW w \in Workers, Complete(w) \/ Reschedule(w),
         UNCHANGED <<frozen, asked, replies, signed>>
  PROVE  ResyncInv'
PROOF
  <1> DEFINE r == Head(queue[w])
  <1>0. OutboxTypeOK /\ queue[w] # <<>> /\ NextOfBatch(w)
    BY DEF ResyncInv, Complete, Reschedule, Working
  <1>1. r \in Requests /\ Tail(queue[w]) \in Seq(Requests)
    BY <1>0, HeadTyped
  <1>2. /\ queue' \in [Workers -> Seq(Relations)]
        /\ phase' \in [Workers -> {"deliver", "complete", "reschedule"}]
        /\ phase'[w] = "deliver"
        /\ \A v \in Workers \ {w} : queue'[v] = queue[v] /\ phase'[v] = phase[v]
    BY <1>0, <1>1 DEF OutboxTypeOK, NextOfBatch, Requests
  <1>3. /\ outbox' \in [Relations -> Rows \cup {NoRow}]
        /\ \A q \in Relations \ {r} : outbox'[q] = outbox[q]
        /\ \/ outbox'[r] = NoRow /\ Working(w, "complete") /\ StillClaimed(w)
           \/ /\ outbox[r] # NoRow => outbox'[r] # NoRow
              /\ outbox'[r] # NoRow => /\ outbox[r] # NoRow
                                       /\ outbox'[r].claimant = outbox[r].claimant
    <2>1. CASE outbox' = outbox
      BY <1>0, <2>1 DEF OutboxTypeOK
    <2>2. CASE outbox' # outbox /\ Complete(w)
      <3>1. /\ outbox' = [outbox EXCEPT ![r] = NoRow]
            /\ Working(w, "complete") /\ StillClaimed(w)
        BY <2>2 DEF Complete
      <3> QED
        BY <1>0, <1>1, <3>1 DEF OutboxTypeOK, Requests
    <2>3. CASE outbox' # outbox /\ Reschedule(w)
      <3> DEFINE row == [[outbox[r] EXCEPT !.due = FALSE] EXCEPT !.leased = FALSE]
      <3>1. /\ StillClaimed(w)
            /\ outbox' = [outbox EXCEPT ![r].due = FALSE, ![r].leased = FALSE]
        BY <2>3 DEF Reschedule
      <3>2. outbox[r] \in Rows
        BY <1>0, <1>1, <3>1 DEF StillClaimed, OutboxTypeOK, Requests
      <3>3. outbox' = [outbox EXCEPT ![r] = row]
        BY <1>0, <1>1, <3>1 DEF OutboxTypeOK, Requests
      <3>4. row \in Rows /\ row # NoRow /\ row.claimant = outbox[r].claimant
        <4>1. row \in Rows /\ row.claimant = outbox[r].claimant
          BY <3>2 DEF Rows
        <4> QED
          BY <4>1, NoRowAssumption
      <3> HIDE DEF row
      <3> QED
        BY <1>0, <1>1, <3>2, <3>3, <3>4, NoRowAssumption DEF OutboxTypeOK, Requests
    <2> QED
      BY <2>1, <2>2, <2>3
  <1>4. ASSUME NEW v \in Workers
        PROVE (queue'[v] = <<>> => phase'[v] = "deliver") /\ HandedOver(v)'
    <2>1. CASE v = w
      BY <1>2, <2>1 DEF HandedOver, Working
    <2>2. CASE v # w
      <3>1. queue'[v] = queue[v] /\ phase'[v] = phase[v]
        BY <1>2, <2>2
      <3>2. queue[v] # <<>> => Head(queue[v]) \in Relations
        BY <1>0, HeadTyped DEF Requests
      <3>3. queue[v] # <<>> /\ StillClaimed(v)' => StillClaimed(v)
        BY <1>3, <3>1, <3>2 DEF StillClaimed
      <3> QED
        BY <3>1, <3>3 DEF ResyncInv, HandedOver, Working, Understood
    <2> QED
      BY <2>1, <2>2
  <1>5. ResyncUnderWay'
    <2>1. ASSUME NEW q \in Requests, frozen[q], Understood(q)
          PROVE outbox'[q] # NoRow \/ asked[q] \/ replies[q] # {}
      <3>1. outbox[q] # NoRow \/ asked[q] \/ replies[q] # {}
        BY <2>1 DEF ResyncInv, ResyncUnderWay
      <3>2. CASE q = r /\ outbox'[r] = NoRow /\ Working(w, "complete") /\ StillClaimed(w)
        BY <2>1, <3>2 DEF ResyncInv, HandedOver
      <3> QED
        BY <1>3, <3>1, <3>2 DEF Requests
    <2> QED
      BY <2>1 DEF ResyncUnderWay, Understood
  <1> QED
    BY <1>2, <1>3, <1>4, <1>5 DEF ResyncInv, OutboxTypeOK

\* A worker that stops leaves its rows to others.
LEMMA StopKept ==
  ASSUME ResyncInv, NEW w \in Workers, Stop(w), UNCHANGED <<frozen, asked, replies, signed>>
  PROVE  ResyncInv'
PROOF
  <1>0. OutboxTypeOK /\ outbox' = outbox
    BY DEF ResyncInv, Stop
  <1>1. /\ queue' \in [Workers -> Seq(Relations)]
        /\ phase' \in [Workers -> {"deliver", "complete", "reschedule"}]
        /\ phase'[w] = "deliver"
        /\ \A v \in Workers \ {w} : queue'[v] = queue[v] /\ phase'[v] = phase[v]
    BY <1>0 DEF OutboxTypeOK, Stop
  <1>2. ASSUME NEW v \in Workers
        PROVE (queue'[v] = <<>> => phase'[v] = "deliver") /\ HandedOver(v)'
    <2>1. CASE v = w
      BY <1>1, <2>1 DEF HandedOver, Working
    <2>2. CASE v # w
      <3>1. queue'[v] = queue[v] /\ phase'[v] = phase[v]
        BY <1>1, <2>2
      <3> QED
        BY <1>0, <3>1 DEF ResyncInv, HandedOver, Working, StillClaimed, Understood
    <2> QED
      BY <2>1, <2>2
  <1> QED
    BY <1>0, <1>1, <1>2 DEF ResyncInv, OutboxTypeOK, ResyncUnderWay, Understood

\* A step on one row that keeps its claimant, or makes it nobody's: time, arming and
\* disarming.
LEMMA RowStepKept ==
  ASSUME ResyncInv, NEW r \in Requests, UNCHANGED <<queue, phase, asked, signed>>,
         replies' = [q \in Requests |-> replies'[q]],
         frozen' \in [Requests -> BOOLEAN], outbox' \in [Relations -> Rows \cup {NoRow}],
         \A q \in Requests \ {r} : /\ outbox'[q] = outbox[q] /\ replies'[q] = replies[q]
                                   /\ frozen'[q] = frozen[q],
         frozen'[r] /\ Understood(r) => outbox'[r] # NoRow \/ asked[r] \/ replies'[r] # {},
         outbox'[r] # NoRow /\ outbox'[r].claimant # NoWorker =>
           /\ outbox[r] # NoRow /\ outbox'[r].claimant = outbox[r].claimant
           /\ replies'[r] = replies[r]
  PROVE  ResyncInv'
PROOF
  <1>0. OutboxTypeOK /\ OutboxTypeOK'
    BY DEF ResyncInv, OutboxTypeOK
  <1>1. ASSUME NEW v \in Workers
        PROVE (queue'[v] = <<>> => phase'[v] = "deliver") /\ HandedOver(v)'
    <2> DEFINE h == Head(queue[v])
    <2>1. v # NoWorker
      BY NoWorkerAssumption
    <2>2. queue[v] # <<>> => h \in Requests
      BY <1>0, HeadTyped
    <2>3. queue[v] # <<>> /\ StillClaimed(v)' => StillClaimed(v) /\ replies'[h] = replies[h]
      <3>1. CASE h = r
        BY <2>1, <3>1 DEF StillClaimed
      <3>2. CASE h # r
        BY <2>2, <3>2 DEF StillClaimed
      <3> QED
        BY <3>1, <3>2
    <2> QED
      BY <2>3 DEF ResyncInv, HandedOver, Working, Understood
  <1>2. ResyncUnderWay'
    BY DEF ResyncInv, ResyncUnderWay, Understood
  <1> QED
    BY <1>0, <1>1, <1>2 DEF ResyncInv

\* Time passes over a row, which keeps its claimant.
LEMMA TimeKept ==
  ASSUME ResyncInv, NEW r \in Requests, DelayPasses(r) \/ LeaseLapses(r),
         UNCHANGED <<frozen, asked, replies, signed>>
  PROVE  ResyncInv'
PROOF
  <1>1. outbox \in [Relations -> Rows \cup {NoRow}] /\ r \in Relations /\ outbox[r] \in Rows
    BY DEF ResyncInv, OutboxTypeOK, DelayPasses, LeaseLapses, Requests
  <1>2. PICK row \in Rows : /\ outbox' = [outbox EXCEPT ![r] = row]
                            /\ row.claimant = outbox[r].claimant
    <2>1. CASE DelayPasses(r)
      <3>1. [outbox[r] EXCEPT !.due = TRUE] \in Rows
        BY <1>1 DEF Rows
      <3> QED
        BY <1>1, <2>1, <3>1 DEF DelayPasses, Rows
    <2>2. CASE LeaseLapses(r)
      <3>1. [outbox[r] EXCEPT !.leased = FALSE] \in Rows
        BY <1>1 DEF Rows
      <3> QED
        BY <1>1, <2>2, <3>1 DEF LeaseLapses, Rows
    <2> QED
      BY <2>1, <2>2
  <1>3. /\ outbox' \in [Relations -> Rows \cup {NoRow}]
        /\ outbox'[r] = row /\ row # NoRow /\ outbox[r] # NoRow
        /\ \A q \in Requests \ {r} : outbox'[q] = outbox[q]
    BY <1>1, <1>2, NoRowAssumption DEF Requests
  <1>4. UNCHANGED <<queue, phase>>
    BY DEF DelayPasses, LeaseLapses
  <1>5. /\ replies' = [q \in Requests |-> replies'[q]] /\ frozen' \in [Requests -> BOOLEAN]
        /\ frozen[r] /\ Understood(r) => outbox[r] # NoRow \/ asked[r] \/ replies[r] # {}
    BY DEF ResyncInv, ResyncUnderWay
  <1> QED
    BY <1>2, <1>3, <1>4, <1>5, RowStepKept

\* freezeAndQueueResync arms the row together with the freeze.
LEMMA FreezeKept ==
  ASSUME ResyncInv, NEW r \in Requests, NEW e, ApplyConflicting(r, e)
  PROVE  ResyncInv'
PROOF
  <1>1. outbox \in [Relations -> Rows \cup {NoRow}] /\ r \in Relations
    BY DEF ResyncInv, OutboxTypeOK, Requests
  <1> DEFINE row == Armed(outbox[r])
  <1>2. /\ outbox' = [outbox EXCEPT ![r] = row] /\ frozen' = [frozen EXCEPT ![r] = TRUE]
        /\ UNCHANGED <<queue, phase, asked, replies, signed>>
    BY DEF ApplyConflicting, Arm, transitVars, brokerVars
  <1>3. /\ row \in Rows /\ row # NoRow
        /\ row.claimant # NoWorker =>
             outbox[r] # NoRow /\ row.claimant = outbox[r].claimant
    BY <1>1, ArmedRow
  <1> HIDE DEF row
  <1>4. /\ outbox' \in [Relations -> Rows \cup {NoRow}] /\ outbox'[r] = row
        /\ \A q \in Requests \ {r} : outbox'[q] = outbox[q]
    BY <1>1, <1>2, <1>3 DEF Requests
  <1>5. /\ replies' = [q \in Requests |-> replies'[q]] /\ frozen' \in [Requests -> BOOLEAN]
        /\ \A q \in Requests \ {r} : frozen'[q] = frozen[q]
    BY <1>2 DEF ResyncInv
  <1> QED
    BY <1>2, <1>3, <1>4, <1>5, RowStepKept

\* replaceFromVerifiedResync removes the row with the answer and unfreezes.
LEMMA ReplaceKeepsResync ==
  ASSUME ResyncInv, NEW r \in Requests, NEW events, Replaces(r, events),
         UNCHANGED <<queue, phase, asked, signed>>,
         replies' = replies \/ replies' = [replies EXCEPT ![r] = @ \ {events}]
  PROVE  ResyncInv'
PROOF
  <1>1. outbox \in [Relations -> Rows \cup {NoRow}] /\ r \in Relations
    BY DEF ResyncInv, OutboxTypeOK, Requests
  <1>2. outbox' = [outbox EXCEPT ![r] = NoRow] /\ frozen' = [frozen EXCEPT ![r] = FALSE]
    BY DEF Replaces, ClearResync, Disarm
  <1>3. /\ outbox' \in [Relations -> Rows \cup {NoRow}] /\ outbox'[r] = NoRow
        /\ \A q \in Requests \ {r} : outbox'[q] = outbox[q]
    BY <1>1, <1>2 DEF Requests
  <1>4. /\ replies' = [q \in Requests |-> replies'[q]]
        /\ \A q \in Requests \ {r} : replies'[q] = replies[q]
    BY DEF ResyncInv
  <1>5. /\ frozen' \in [Requests -> BOOLEAN] /\ ~frozen'[r]
        /\ \A q \in Requests \ {r} : frozen'[q] = frozen[q]
    BY <1>2 DEF ResyncInv
  <1> QED
    BY <1>3, <1>4, <1>5, RowStepKept

\* A reply that is refused takes nothing from a chain the service can read.
LEMMA RefusalKeepsResync ==
  ASSUME ResyncInv, NEW r \in Requests, ~Understood(r),
         UNCHANGED <<outbox, queue, phase, frozen, asked, signed>>,
         replies' = [q \in Requests |-> replies'[q]],
         \A q \in Requests \ {r} : replies'[q] = replies[q]
  PROVE  ResyncInv'
PROOF
  <1>1. \A q \in Requests : Understood(q)' <=> Understood(q)
    BY DEF Understood
  <1>2. \A w \in Workers : queue[w] # <<>> => Head(queue[w]) \in Requests
    BY HeadTyped DEF ResyncInv
  <1>3. ASSUME NEW w \in Workers PROVE HandedOver(w)'
    BY <1>1, <1>2 DEF ResyncInv, HandedOver, Working, StillClaimed
  <1> QED
    BY <1>1, <1>3 DEF ResyncInv, OutboxTypeOK, ResyncUnderWay

\* A resync reply arrives, for the first time or again.
LEMMA ResyncKeepsResync ==
  ASSUME ResyncInv, SignedInv, NEW r \in Requests, ResyncArrives(r) \/ ResyncRepeated(r)
  PROVE  ResyncInv'
PROOF
  <1>1. PICK events \in replies[r] \cup answered[r] :
          /\ ReplaceFromVerifiedResync(r, events)
          /\ \/ replies' = replies
             \/ events \in replies[r] /\ replies' = [replies EXCEPT ![r] = @ \ {events}]
    BY DEF ResyncArrives, ResyncRepeated
  <1>2. UNCHANGED <<queue, phase, asked, signed>>
    BY <1>1 DEF ReplaceFromVerifiedResync, brokerVars
  <1>3. CASE Replaces(r, events)
    BY <1>1, <1>2, <1>3, ReplaceKeepsResync
  <1>4. CASE ~Accepted(events) /\ UNCHANGED <<outbox, projectionVars>>
    <2>1. UNCHANGED <<outbox, frozen>>
      BY <1>4 DEF projectionVars
    <2>2. CASE replies' = replies
      <3>1. frozen \in [Requests -> BOOLEAN]
        BY DEF ResyncInv
      <3> QED
        BY <1>2, <2>1, <2>2, <3>1, ResyncUntouched DEF outboxVars
    <2>3. CASE events \in replies[r] /\ replies' = [replies EXCEPT ![r] = @ \ {events}]
      <3>1. ~Understood(r)
        BY <1>4, <2>3, UnderstoodIsAccepted
      <3>2. /\ replies' = [q \in Requests |-> replies'[q]]
            /\ \A q \in Requests \ {r} : replies'[q] = replies[q]
        BY <2>3 DEF ResyncInv
      <3> QED
        BY <1>2, <2>1, <3>1, <3>2, RefusalKeepsResync
    <2> QED
      BY <1>1, <2>2, <2>3
  <1> QED
    BY <1>1, <1>3, <1>4 DEF ReplaceFromVerifiedResync

\* The broker's answer takes the place of the request.
LEMMA AnswerKept ==
  ASSUME ResyncInv, NEW r \in Requests, BrokerAnswers(r)
  PROVE  ResyncInv'
PROOF
  <1>1. /\ asked' = [asked EXCEPT ![r] = FALSE]
        /\ replies' = [replies EXCEPT ![r] = @ \cup {chain[r]}]
        /\ UNCHANGED <<outbox, queue, phase, frozen, signed>>
    BY DEF BrokerAnswers, outboxVars, projectionVars, brokerVars
  <1>2. /\ asked' \in [Requests -> BOOLEAN] /\ replies' = [q \in Requests |-> replies'[q]]
        /\ replies'[r] # {}
        /\ \A q \in Requests \ {r} : asked'[q] = asked[q] /\ replies'[q] = replies[q]
    BY <1>1 DEF ResyncInv
  <1>3. ASSUME NEW v \in Workers
        PROVE (queue'[v] = <<>> => phase'[v] = "deliver") /\ HandedOver(v)'
    <2>1. queue[v] # <<>> => Head(queue[v]) \in Requests
      BY HeadTyped DEF ResyncInv
    <2> QED
      BY <1>1, <1>2, <2>1 DEF ResyncInv, HandedOver, Working, StillClaimed, Understood
  <1>4. ResyncUnderWay'
    BY <1>1, <1>2 DEF ResyncInv, ResyncUnderWay, Understood
  <1>5. OutboxTypeOK'
    BY <1>1 DEF ResyncInv, OutboxTypeOK
  <1> QED
    BY <1>1, <1>2, <1>3, <1>4, <1>5 DEF ResyncInv

\* Every step keeps the resync of every frozen projection under way.
LEMMA ResyncInvKept == ResyncInv /\ SignedInv /\ [Next]_vars => ResyncInv'
PROOF
  <1> SUFFICES ASSUME ResyncInv, SignedInv, [Next]_vars PROVE ResyncInv'
    OBVIOUS
  <1>0. frozen \in [Requests -> BOOLEAN]
    BY DEF ResyncInv
  <1>1. CASE UNCHANGED vars
    BY <1>0, <1>1, ResyncUntouched DEF vars, projectionVars, transitVars, brokerVars
  <1>2. ASSUME NEW w \in Workers, Deliver(w) \/ Throw(w) \/ WorkerStep(w) \/ WorkerStops(w)
        PROVE ResyncInv'
    BY <1>2, DeliveryKept, ClaimKept, FinishKept, StopKept
    DEF WorkerStep, WorkerStops, projectionVars, transitVars, brokerVars
  <1>3. ASSUME NEW r \in Requests,
               BrokerSigns(r) \/ \E n \in 1 .. MaxEvents : BrokerRestored(r, n)
        PROVE ResyncInv'
    <2>1. PICK history, t : Signs(r, history, t)
      BY <1>3 DEF BrokerSigns, BrokerRestored
    <2>2. UNCHANGED <<outboxVars, frozen, asked, replies>>
      BY <2>1 DEF Signs, projectionVars, transitVars
    <2>3. PICK e : signed' = [signed EXCEPT ![r] = @ \cup {e}]
      BY <2>1 DEF Signs
    <2>4. \A q \in Requests : signed[q] \subseteq signed'[q]
      BY <2>3 DEF SignedInv
    <2> QED
      BY <1>0, <2>2, <2>4, ResyncUntouched
  <1>4. ASSUME NEW r \in Requests, BrokerAnswers(r) PROVE ResyncInv'
    BY <1>4, AnswerKept
  <1>5. ASSUME NEW r \in Requests, ResyncArrives(r) \/ ResyncRepeated(r) PROVE ResyncInv'
    BY <1>5, ResyncKeepsResync
  <1>6. ASSUME NEW r \in Requests, TimePasses(r) PROVE ResyncInv'
    BY <1>6, TimeKept DEF TimePasses, projectionVars, transitVars, brokerVars
  <1>7. ASSUME NEW r \in Requests, NEW e \in signed[r], ApplyNext(r, e) PROVE ResyncInv'
    <2>1. /\ UNCHANGED <<outboxVars, asked, replies, signed>>
          /\ frozen' = [frozen EXCEPT ![r] = FALSE]
      BY <1>7 DEF ApplyNext, transitVars, brokerVars
    <2>2. frozen' \in [Requests -> BOOLEAN] /\ \A q \in Requests : frozen'[q] => frozen[q]
      BY <1>0, <2>1
    <2> QED
      BY <2>1, <2>2, ResyncUntouched
  <1>8. ASSUME NEW r \in Requests, NEW e \in signed[r], ApplyConflicting(r, e)
        PROVE ResyncInv'
    BY <1>8, FreezeKept
  <1> QED
    BY <1>1, <1>2, <1>3, <1>4, <1>5, <1>6, <1>7, <1>8 DEF Next

\* A frozen projection of a chain the service can read always has its resync under way:
\* a row in the outbox, a request on its way to the broker or an answer on its way
\* back that it has not had.  No worker that loses its lease, dies between delivery
\* and delete, or deletes a row that was armed again, takes the last of them, and no
\* answer is refused (freezeAndQueueResync, runOnce, complete, validateEvent).
THEOREM ResyncNeverLost == Spec => []ResyncUnderWay
PROOF
  <1>1. Init => ResyncInv
    BY DEF Init, OutboxInit, ResyncInv, OutboxTypeOK, HandedOver, Working, ResyncUnderWay,
           Requests
  <1>2. ResyncInv => ResyncUnderWay
    BY DEF ResyncInv
  <1> QED
    BY <1>1, <1>2, SignedInit, SignedInvKept, ResyncInvKept, PTL DEF Spec

------------------------------------------------------------------------------
(***************************************************************************)
(* What a resync may take back, and what the projection shows of a broker  *)
(* that is never restored from a backup.                                   *)
(***************************************************************************)

\* A step hides or rewrites an event the projection shows.
TakenBack(r) ==
  \E s \in DOMAIN rows[r] : s \notin DOMAIN rows'[r] \/ rows'[r][s] # rows[r][s]

\* Only replaceFromVerifiedResync hides or rewrites what is shown.
ResyncTaken(r) == ResyncArrives(r) \/ ResyncRepeated(r)
TakenBackByResync == \A r \in Requests : TakenBack(r) => ResyncTaken(r)
OnlyResyncTakesBack == [][TakenBackByResync]_vars

\* applyVerifiedEvent adds behind the tail and touches nothing else.
LEMMA ApplyTakesNothing ==
  ASSUME SignedInv, NEW r \in Requests, NEW e \in signed[r], ApplyNext(r, e),
         NEW q \in Requests, NEW s \in DOMAIN rows[q]
  PROVE  s \in DOMAIN rows'[q] /\ rows'[q][s] = rows[q][s]
PROOF
  <1>1. rows' = [rows EXCEPT ![r] = [t \in DOMAIN @ \cup {e.sequence} |->
                                       IF t = e.sequence THEN e.digest ELSE @[t]]]
    BY DEF ApplyNext, insertProjection
  <1>2. e.sequence \notin DOMAIN rows[r]
    BY DEF ApplyNext
  <1>3. CASE q # r
    BY <1>1, <1>3 DEF SignedInv
  <1>4. CASE q = r
    <2>1. rows'[r] = [t \in DOMAIN rows[r] \cup {e.sequence} |->
                        IF t = e.sequence THEN e.digest ELSE rows[r][t]]
      BY <1>1 DEF SignedInv
    <2> QED
      BY <1>2, <1>4, <2>1
  <1> QED
    BY <1>3, <1>4

\* A resync of one request leaves the projections of the others alone.
LEMMA ResyncIsLocal ==
  ASSUME SignedInv, NEW r \in Requests, ResyncTaken(r), NEW q \in Requests, q # r
  PROVE  rows'[q] = rows[q]
PROOF
  <1>1. PICK events : ReplaceFromVerifiedResync(r, events)
    BY DEF ResyncTaken, ResyncArrives, ResyncRepeated
  <1>2. CASE UNCHANGED projectionVars
    BY <1>2 DEF projectionVars
  <1>3. CASE Replaces(r, events)
    <2>1. rows' = [rows EXCEPT ![r] = replaceRows(r, events)]
      BY <1>3, Zenon DEF Replaces
    <2> QED
      BY <2>1 DEF SignedInv
  <1> QED
    BY <1>1, <1>2, <1>3 DEF ReplaceFromVerifiedResync

\* Late, repeated and reordered deliveries, workers, leases and a broker restored
\* from a backup never make the projection forget or rewrite an event it shows; a
\* resync reply does, and only of its own request (applyVerifiedEvent inserts behind
\* the tail, replaceFromVerifiedResync compares no lengths).
THEOREM ShownUntilResync == Spec => OnlyResyncTakesBack
PROOF
  <1>1. SignedInv /\ [Next]_vars => TakenBackByResync
    <2> SUFFICES ASSUME SignedInv, [Next]_vars, NEW q \in Requests, TakenBack(q)
                 PROVE  ResyncTaken(q)
      BY DEF TakenBackByResync
    <2>0. rows'[q] # rows[q]
      BY DEF TakenBack
    <2>1. CASE UNCHANGED rows
      BY <2>0, <2>1
    <2>2. CASE UNCHANGED vars
      BY <2>1, <2>2 DEF vars, projectionVars
    <2>3. ASSUME NEW w \in Workers,
                 Deliver(w) \/ Throw(w) \/ WorkerStep(w) \/ WorkerStops(w)
          PROVE FALSE
      BY <2>0, <2>3 DEF Deliver, Throw, WorkerStep, WorkerStops, projectionVars
    <2>4. ASSUME NEW r \in Requests,
                 \/ BrokerSigns(r) \/ BrokerAnswers(r) \/ TimePasses(r)
                 \/ \E n \in 1 .. MaxEvents : BrokerRestored(r, n)
          PROVE FALSE
      BY <2>0, <2>4 DEF BrokerSigns, BrokerAnswers, TimePasses, BrokerRestored, Signs,
                        projectionVars
    <2>5. ASSUME NEW r \in Requests, NEW e \in signed[r], ApplyConflicting(r, e)
          PROVE FALSE
      BY <2>0, <2>5 DEF ApplyConflicting
    <2>6. ASSUME NEW r \in Requests, NEW e \in signed[r], ApplyNext(r, e) PROVE FALSE
      BY <2>6, ApplyTakesNothing DEF TakenBack
    <2>7. ASSUME NEW r \in Requests, ResyncTaken(r) PROVE ResyncTaken(q)
      BY <2>0, <2>7, ResyncIsLocal
    <2> QED
      BY <2>2, <2>3, <2>4, <2>5, <2>6, <2>7 DEF Next, ResyncTaken
  <1> QED
    BY <1>1, SignedInit, SignedInvKept, PTL DEF Spec, OnlyResyncTakesBack

\* No backup of the broker's database is ever put in its place.
NeverRestored ==
  [][\A r \in Requests, n \in 1 .. MaxEvents : ~BrokerRestored(r, n)]_vars

\* The projection is the beginning of the chain in the broker's database, event by
\* event.
ShowsTheChain ==
  \A r \in Requests :
    /\ DOMAIN rows[r] = 0 .. verified[r] /\ verified[r] < Len(chain[r])
    /\ \A s \in DOMAIN rows[r] : rows[r][s] = chain[r][s + 1].digest

\* The events signed for a request are those of its chain, numbered in order.
OneChain(events, c) ==
  /\ \A e \in events : \E i \in 1 .. Len(c) : e = c[i]
  /\ \A i \in 1 .. Len(c) : c[i].sequence = FirstSequence + i - 1

SteadyInv ==
  SignedInv /\ \A r \in Requests : chain[r] # <<>> /\ OneChain(signed[r], chain[r])

\* One event more on the chain.
LEMMA OneChainGrows ==
  ASSUME NEW c \in Seq(Events), NEW S \in SUBSET Events, OneChain(S, c),
         NEW e \in Events, e.sequence = FirstSequence + Len(c)
  PROVE  OneChain(S \cup {e}, Append(c, e)) /\ Append(c, e) # <<>>
PROOF
  <1> DEFINE d == Append(c, e)
  <1>1. /\ Len(c) \in Nat /\ Len(d) = Len(c) + 1 /\ d[Len(c) + 1] = e
        /\ \A i \in 1 .. Len(c) : d[i] = c[i]
    OBVIOUS
  <1>2. d # <<>>
    BY <1>1
  <1> HIDE DEF d
  <1>3. FirstSequence \in Nat
    BY ProjectionAssumption
  <1>4. ASSUME NEW f \in S \cup {e} PROVE \E i \in 1 .. Len(d) : f = d[i]
    <2>1. CASE f = e
      BY <1>1, <2>1
    <2>2. CASE f \in S
      <3>1. PICK i \in 1 .. Len(c) : f = c[i]
        BY <2>2 DEF OneChain
      <3> QED
        BY <1>1, <3>1
    <2> QED
      BY <2>1, <2>2
  <1>5. ASSUME NEW i \in 1 .. Len(d) PROVE d[i].sequence = FirstSequence + i - 1
    <2>1. CASE i = Len(c) + 1
      BY <1>1, <1>3, <2>1
    <2>2. CASE i \in 1 .. Len(c)
      BY <1>1, <2>2 DEF OneChain
    <2> QED
      BY <1>1, <2>1, <2>2
  <1> QED
    BY <1>2, <1>4, <1>5 DEF OneChain, d

\* A step without a restored backup keeps one chain for each request.
LEMMA SteadyInvKept ==
  SteadyInv /\ [Next]_vars
    /\ [\A r \in Requests, n \in 1 .. MaxEvents : ~BrokerRestored(r, n)]_vars => SteadyInv'
PROOF
  <1> SUFFICES ASSUME SteadyInv, [Next]_vars,
                      [\A r \in Requests, n \in 1 .. MaxEvents : ~BrokerRestored(r, n)]_vars
               PROVE  SteadyInv'
    OBVIOUS
  <1>0. SignedInv /\ SignedInv'
    BY SignedInvKept DEF SteadyInv
  <1>1. CASE UNCHANGED brokerVars
    BY <1>0, <1>1 DEF SteadyInv, OneChain, brokerVars
  <1>2. CASE UNCHANGED vars
    BY <1>1, <1>2 DEF vars
  <1>3. ASSUME NEW w \in Workers, Deliver(w) \/ Throw(w) \/ WorkerStep(w) \/ WorkerStops(w)
        PROVE UNCHANGED brokerVars
    BY <1>3 DEF Deliver, Throw, WorkerStep, WorkerStops
  <1>4. ASSUME NEW r \in Requests,
               \/ BrokerAnswers(r) \/ ResyncArrives(r) \/ ResyncRepeated(r) \/ TimePasses(r)
               \/ \E e \in signed[r] : ApplyNext(r, e) \/ ApplyConflicting(r, e)
        PROVE UNCHANGED brokerVars
    BY <1>4 DEF BrokerAnswers, ResyncArrives, ResyncRepeated, ReplaceFromVerifiedResync,
                TimePasses, ApplyNext, ApplyConflicting
  <1>5. ASSUME NEW r \in Requests, BrokerSigns(r) PROVE SteadyInv'
    <2>0. PICK t \in LaterStates : Signs(r, chain[r], t)
      BY <1>5 DEF BrokerSigns
    <2> DEFINE e == NextEvent(r, chain[r], t)
    <2>1. /\ e.sequence = FirstSequence + Len(chain[r])
          /\ chain' = [chain EXCEPT ![r] = Append(chain[r], e)]
          /\ signed' = [signed EXCEPT ![r] = @ \cup {e}]
      BY <2>0 DEF Signs, NextEvent
    <2> HIDE DEF e
    <2>2. /\ chain \in [Requests -> Seq(Events)] /\ signed \in [Requests -> SUBSET Events]
          /\ signed' \in [Requests -> SUBSET Events]
      BY <1>0 DEF SignedInv
    <2>3. signed'[r] = signed[r] \cup {e} /\ chain'[r] = Append(chain[r], e)
      BY <2>1, <2>2
    <2>4. e \in Events
      BY <2>2, <2>3
    <2>5. OneChain(signed'[r], chain'[r]) /\ chain'[r] # <<>>
      BY <2>1, <2>2, <2>3, <2>4, OneChainGrows DEF SteadyInv
    <2>6. \A q \in Requests \ {r} : signed'[q] = signed[q] /\ chain'[q] = chain[q]
      BY <2>1, <2>2
    <2>7. \A q \in Requests : chain'[q] # <<>> /\ OneChain(signed'[q], chain'[q])
      BY <2>5, <2>6 DEF SteadyInv
    <2> QED
      BY <1>0, <2>7 DEF SteadyInv, OneChain
  <1>6. ASSUME NEW r \in Requests, NEW n \in 1 .. MaxEvents, BrokerRestored(r, n)
        PROVE UNCHANGED vars
    BY <1>6
  <1> QED
    BY <1>1, <1>2, <1>3, <1>4, <1>5, <1>6 DEF Next

\* Where there is one chain, a signed history is a beginning of it.
LEMMA HistoryIsTheChain == SteadyInv => ShowsTheChain
PROOF
  <1> SUFFICES ASSUME SteadyInv, NEW r \in Requests
               PROVE  /\ DOMAIN rows[r] = 0 .. verified[r]
                      /\ verified[r] < Len(chain[r])
                      /\ \A s \in DOMAIN rows[r] : rows[r][s] = chain[r][s + 1].digest
    BY DEF ShowsTheChain
  <1>1. /\ DOMAIN rows[r] = 0 .. verified[r] /\ verified[r] \in Nat \cup {-1}
        /\ \A s \in DOMAIN rows[r] :
             \E e \in signed[r] : e.sequence = s /\ e.digest = rows[r][s]
    <2>1. verified \in [Requests -> Nat \cup {-1}] /\ ProjectionIsSignedHistory
      BY DEF SteadyInv, SignedInv
    <2>2. verified[r] \in Nat \cup {-1}
      BY <2>1
    <2>3. SignedHistory(rows[r], verified[r], signed[r])
      BY <2>1, HistoriesAreSigned
    <2> QED
      BY <2>2, <2>3 DEF SignedHistory
  <1>2. chain[r] \in Seq(Events) /\ chain[r] # <<>> /\ FirstSequence \in Nat
    BY ProjectionAssumption DEF SteadyInv, SignedInv
  <1>3. ASSUME NEW s \in DOMAIN rows[r]
        PROVE  \E i \in 1 .. Len(chain[r]) : /\ s = FirstSequence + i - 1
                                             /\ rows[r][s] = chain[r][i].digest
    <2>1. PICK e \in signed[r] : e.sequence = s /\ e.digest = rows[r][s]
      BY <1>1
    <2>2. PICK i \in 1 .. Len(chain[r]) : e = chain[r][i]
      BY DEF SteadyInv, OneChain
    <2>3. chain[r][i].sequence = FirstSequence + i - 1
      BY DEF SteadyInv, OneChain
    <2> QED
      BY <2>1, <2>2, <2>3
  <1>4. CASE verified[r] = -1
    <2>1. Len(chain[r]) > 0 /\ DOMAIN rows[r] = {}
      BY <1>1, <1>2, <1>4
    <2> QED
      BY <1>1, <1>4, <2>1
  <1>5. CASE verified[r] \in Nat
    <2>1. 0 \in DOMAIN rows[r] /\ verified[r] \in DOMAIN rows[r]
      BY <1>1, <1>5
    <2>2. FirstSequence = 0
      <3>1. PICK i \in 1 .. Len(chain[r]) : 0 = FirstSequence + i - 1
        BY <1>3, <2>1
      <3> QED
        BY <1>2, <3>1
    <2>3. verified[r] < Len(chain[r])
      <3>1. PICK i \in 1 .. Len(chain[r]) : verified[r] = FirstSequence + i - 1
        BY <1>3, <2>1
      <3> QED
        BY <1>2, <2>2, <3>1
    <2>4. ASSUME NEW s \in DOMAIN rows[r] PROVE rows[r][s] = chain[r][s + 1].digest
      <3>1. PICK i \in 1 .. Len(chain[r]) : /\ s = FirstSequence + i - 1
                                            /\ rows[r][s] = chain[r][i].digest
        BY <1>3
      <3>2. i = s + 1
        BY <2>2, <3>1
      <3> QED
        BY <3>1, <3>2
    <2> QED
      BY <1>1, <2>3, <2>4
  <1> QED
    BY <1>1, <1>4, <1>5

\* As long as no backup of the broker is put in place, whatever the relay delivers
\* late, twice or out of order and whichever resync reply comes when, the hosted
\* projection of every request is a beginning of the broker's own chain, digest by
\* digest; so what a late resync reply takes back it never rewrites.
THEOREM SteadyProjection == Spec /\ NeverRestored => []ShowsTheChain
PROOF
  <1>1. Init => SteadyInv
    <2> SUFFICES ASSUME Init PROVE SteadyInv
      OBVIOUS
    <2>1. \A r \in Requests : chain[r] = <<FirstEvent>> /\ signed[r] = {FirstEvent}
      BY DEF Init
    <2>2. Len(<<FirstEvent>>) = 1 /\ <<FirstEvent>>[1] = FirstEvent /\ <<FirstEvent>> # <<>>
      OBVIOUS
    <2>3. FirstEvent.sequence = FirstSequence + 1 - 1
      BY ProjectionAssumption DEF FirstEvent
    <2>4. OneChain({FirstEvent}, <<FirstEvent>>)
      BY <2>2, <2>3 DEF OneChain
    <2>5. \A r \in Requests : chain[r] # <<>> /\ OneChain(signed[r], chain[r])
      <3> SUFFICES ASSUME NEW r \in Requests
                   PROVE  chain[r] # <<>> /\ OneChain(signed[r], chain[r])
        OBVIOUS
      <3>1. chain[r] = <<FirstEvent>> /\ signed[r] = {FirstEvent}
        BY <2>1
      <3> QED
        BY <2>2, <2>4, <3>1
    <2> QED
      BY <2>5, SignedInit DEF SteadyInv
  <1> QED
    BY <1>1, SteadyInvKept, HistoryIsTheChain, PTL DEF Spec, NeverRestored
=============================================================================
