# RootPermit: TLA+ models and proofs

RootPermit lets an unprivileged agent ask for one privileged operation, the
installation of a package, and lets a person approve it with a passkey. This
directory models the parts of the repository that keep state, checks them with
TLC on small instances, and proves the most important properties with TLAPS for
all values of the constants.

## 1. The system

| Part | State it keeps | Operations that change it |
|---|---|---|
| Durable broker store, `crates/rp-broker-core` (`BrokerStore`) | one SQLite file: identity, boot epoch, credentials and their generation, requests, request events, receipts; per connection a cached device id | `open`, `initialize_identity`, `start_boot`, `submit`, `transition_nonterminal`, `transition_terminal`, `prepare_for_decision`, `replace_credentials`, `apply_webauthn_submission`, `reconcile_recovery` |
| Value object, `crates/rp-broker-core` (`LifecycleRecord`) | one request: state, plan, events, draft receipt | `new`, `apply_plan`, `apply_verified_decision`, `cancel`, `begin_execution`, `finish_execution`, `reconcile` |
| Relay spool, `crates/rp-relay` (`RelaySpool`, `FileRelaySpool`) | a map of opaque envelopes and its snapshot file | `open`, `enqueue`, `next_delivery`, `acknowledge`, `retry_with_backoff` |
| Projection chain, `crates/rp-relay` (`ProjectionChain`) | applied sequence numbers, a frozen flag | `ingest`, `restore_contiguous` |
| WebAuthn verification, `crates/rp-web-authn` | none | `verify_submission` |
| Protocol objects, `crates/rp-protocol` | none | canonical CBOR, schema objects, signed envelopes |
| Broker API, `crates/rp-broker-api`, and peer credentials, `crates/rp-peercred` | none | frames, typed requests and responses, `receive` |
| Command line client, `crates/rp-cli` | none | `parse_package_install` |
| Hosted projection, `service/api` and `service/migrations` | projections, sync states, outbox rows | `applyVerifiedEvent`, `replaceFromVerifiedResync` |
| Outbox worker, `service/worker` and `claim_outbox` | leases of outbox rows | `runOnce`: claim, deliver, complete or reschedule |
| Hosted API runtime, `service/api/src/m3-runtime.ts` | sessions, pairings, devices, credentials, requests, messages to the broker | its routes |
| APT helper start, web page | none | validation, rendering |

How they interact: the broker records a request, freezes and signs a plan, and
appends signed lifecycle events and receipts; the relay carries these as opaque
envelopes to the hosted service and brings decision submissions back; the hosted
service keeps a projection of the events and shows it to the person; the broker
alone verifies the assertion and decides. There is no daemon in the repository:
the broker operations are called by tests only, so the order in which a daemon
calls them is not fixed by code. The models treat it as open.

What is hard here:

- several connections to one database, and `apply_webauthn_submission`, which
  reads the request, the generation and the credentials in separate statements
  before its transaction;
- reboots, which reset the monotonic clock that deadlines and retry instants use;
- crashes and power loss between the rename of a snapshot and the directory sync;
- repeated, late or reordered submissions, acknowledgements and events;
- workers that lose their lease or die while the row they work on is armed again;
- handlers of one JavaScript thread that await and find other state afterwards;
- writers and readers of one object, and three validators of one grammar, that are
  separate code and may drift apart;
- callers that use the generic transition functions for what the special ones
  are meant to do.

Properties that make each part correct: one active request per device, a receipt
exactly for closed requests, a chain of events that follows the lifecycle,
decisions only by a credential that is pinned when they commit, nothing
surviving a reboot on a meaningless deadline (broker); expiry and generation
changes win against everything before execution (value object); what was
accepted is delivered at least once, what was acknowledged never again (spool);
a projection that is a prefix of the broker's chain or says it is not
(projection); no lost resync request (outbox); one forwarded decision, none
behind a revocation and none across tenants (runtime); one encoding per value, a reader that takes
exactly what a writer means, signatures that hold for one domain, role and key
(protocol).

The list of hazards, each at its line and with the properties that watch it, is
in `PROJECT.json`.

## 2. Modules

| Module | What it is |
|---|---|
| `RequestState` | the alphabet: states, `is_terminal`, `permits`, the reasons |
| `RequestLifecycle` | the abstract specification: one slot, edges of `permits`, and a receipt that appears in the closing step |
| `BrokerStore` | the database and its connections |
| `LifecycleRecord` | the value object |
| `RelaySpool` | the spool and its file |
| `ProjectionContract` | the abstract specification of a projection: the beginning of the broker's chain, one event at a time, still while frozen |
| `ProjectionChain` | `ingest` and `restore_contiguous` of the relay crate |
| `RelayDelivery` | `RelaySpool` and `ProjectionChain` composed: the way of an event from the broker to the projection |
| `OutboxLease` | `claim_outbox` and the workers |
| `HostedProjection` | the projection repository, composed with `OutboxLease`, the broker's chain and the resync messages |
| `M3Runtime` | the hosted runtime |
| `CborScalar`, `Cbor` | bytes of a message: heads, lengths, scalars and key order; arrays, maps and tags |
| `Schema`, `CoseSign1`, `Intake` | the layers above: objects and frames, signed envelope, supplied text |
| `MC...` | the instances: policy, caller rules, envelopes, symmetry |
| `...Proofs` | the theorems |

`BrokerStore` and `LifecycleRecord` both implement `RequestLifecycle`
(`ImplementsLifecycle` in each); `RelayDelivery` implements `ProjectionContract`
(`ImplementsContract`).

### BrokerStore

The first twelve variables are the database; `cached`, `call`, `acks` and the
clocks are volatile. An operation that runs in one `BEGIN IMMEDIATE` transaction
is one action. An operation of one action that fails rolls back, changes nothing and
is not written down. `apply_webauthn_submission` is `BeginDecision` (the row and the
deadlines), `ReadGeneration`, `ReadCredentials` (with `verify_submission`), and
one of `CommitDecision`, `CommitStale` and `CloseUndecided`; every other connection may
act between them. At any point the call may fail instead (`AbandonDecision`: a lost
compare-and-set, another signer, a busy database, an I/O or signing error) and hand its
caller the error (`ReturnError`). `requests.boot_epoch` is never
written by the code and keeps its default 0, so `BootWork` compares 0 with the
new epoch.

Because no daemon exists, the constant `Obligations` names the rules the callers
keep:

| Rule | Meaning |
|---|---|
| `pin_first` | a connection submits only after its device id is the pinned one |
| `boot_first` | after a reboot `start_boot` comes before other work, with a new epoch |
| `advance_generation` | `replace_credentials` names a larger generation |
| `decide` | approvals and denials come from `apply_webauthn_submission` |
| `prepare` | `pending` is entered by `prepare_for_decision` |
| `reconcile` | `recovery_required` is left by `reconcile_recovery` |

A rule restricts which calls are made, never what they do. The run
`BrokerAnyCaller` and the theorems about receipts, events and closed requests
need no rule at all. The rules stand for what comments and the specification
promise and the store does not enforce, and each is needed:

- without `pin_first`, `submit` (line 735) looks the slot up under the device id its
  connection cached when it was opened; a connection older than the identity uses
  the zero id and admits a second active request (`OneActive`);
- without `advance_generation`, `replace_credentials` (line 957) stores whatever
  generation it is given, so a replacement that ends on the same number hides from
  the recheck of line 1124 (`DecisionAuthorised`);
- without `decide` and `prepare` the generic transitions approve without an
  assertion and enter `pending` without a signed plan;
- without `reconcile`, `transition_terminal` leaves `recovery_required` without
  evidence, although `reconcile_recovery` says it is the only way out;
- without `boot_first`, `start_boot` with epoch 0, the default of the column it
  compares, expires nothing (`LiveWorkIsOfThisBoot`).

Two promises no rule can restore, because the code compares too little whoever
calls it: a decision in time when verification began may commit after the
deadline (line 1076, "Expiry and credential-generation changes win first"), so
`DecisionAuthorised` speaks of the instants the call was given; and
`transition_nonterminal` (line 780) starts an execution under a generation that
was replaced since the approval, as it compares the state alone. That the approval
itself was there holds for every caller (theorem `ExecutionWasApproved`).

Left out as data: bytes of CBOR and COSE objects, nonces, policy and plan
digests, the counter anomaly flag of a denial, the permission checks of `open`.
A receipt keeps what the properties tell apart: state, signer, epoch, which digest it
names, the deciding credential, and whether it carries recovery evidence.

### LifecycleRecord

One record from `new` on. `now` and `active` are the instant and the generation
the next caller will pass; both change between calls, the generation to any
value. A refused call is an action as well, since `pre_execution_guard` closes
the record before it returns its error; `answer` is the result of the last call.
Digests of events are their positions.

### RelaySpool

`memory` is the map of the open `FileRelaySpool`, `file` the snapshot its path
names, `stable` the set of snapshots the path may name after a power loss. Every
changing operation computes a candidate and runs `persist`: `Rename` makes it
visible, `Finish` syncs the directory and reports success, `Fail` reports an
error from any of the system calls and leaves memory as it was. `Crash` keeps
`file`, `PowerLoss` picks any member of `stable` and restarts the clock. The
delivery count is in memory only, as in the code. `owed`, `gone` and `sent` record
what the callers were told.

### RelayDelivery

The broker signs events; their envelopes are enqueued in any order and again after
an error; the spool delivers the smallest id that is due; the service ingests,
acknowledges what it imported, and asks for a resync when it is frozen, which the
broker may answer with all events or a later part. A reply once sent arrives at any
time and any number of times, also when the projection is not frozen any more. The loop
around the spool is not in the repository and is external in the map: it may do whatever
the spool's interface allows, except to acknowledge an event before it is imported.

`restore_contiguous` checks neither that the projection is frozen nor how far the reply
reaches, so a late or repeated reply can take acknowledged events out of the projection,
and the spool has let go of them. `cutOff` records the events that are not shown for this
reason; `NoEventForgotten` says that there is no other way to lose one.

### HostedProjection and OutboxLease

`applyVerifiedEvent` and `replaceFromVerifiedResync` lock the request's row and are
one transaction and one action each; so are `claim_outbox`, `complete` and
`reschedule`, each comparing the lease generation. `Deliver` is the await between
them, where a worker may die or its lease lapse. Time is abstracted to the step in
which a lease or a delay runs out. The broker can be rewound (a restored backup), so
that it signs other events under numbers it used before; `signed` keeps all of them.
A resync reply arrives once (`ResyncArrives`) and may arrive again at any later time
(`ResyncRepeated`, without fairness).

`validateEvent` comes first in both operations and throws for a state outside
`LIFECYCLE_STATES`, which lacks `planning`, `denied`, `no_change` and `invalid`; a throw
changes nothing, and a resync reply with such an event is refused as a whole. How the
broker's chain starts is therefore a parameter. The repository's own tests of the service
use `pending` at number 0; the broker signs `planning` at number 1. The run `Hosted` takes
the first, with `denied` among the later states, and its liveness property speaks of chains
the service can read (`Understood`): numbers from 0, known states only. `HostedBrokerChain`
takes the second and shows that such a projection stays frozen.

An event that continues the applied tail is applied and clears `frozen_gap` (line
155), also when a conflicting event caused the freeze: the projection repository
releases earlier than `ProjectionContract`, which describes the relay crate's chain and
stands still until a resync. A resync reply that is older than the projection takes
it back. Neither breaks `ProjectionIsSignedHistory`, nothing but a resync takes anything
back (`ShownUntilResync`), and while the broker is not restored from a backup the shorter
projection is still a beginning of its chain (`SteadyProjection`).

### M3Runtime

A handler is uninterrupted up to an await; a route that awaits the body or the
verifier is a Begin and an End action and reads again what the code reads again.
Expiry is a step of its own. `typed` records who entered the right comparison code.
A second pairing of a device overwrites its owner and leaves its credentials and
requests, as the map does; `DecisionsStayInTenant` says that no decision mixes the two.
Read-only routes, the relay inbox, cookies and headers are left out.

### Protocol layers

`CborScalar` and `Cbor` are the encoder and decoder at the level of bytes, checked
against each other: 64-bit numbers are their eight bytes, so the boundaries of head
forms are the code's own, and text is checked for UTF-8 as `core::str::from_utf8` does it,
up to four bytes a character. `CborScalar` has what does not nest and is proved about;
`Cbor` adds arrays, maps and tags, is recursive and checked by TLC only. `Schema`
describes each object by the rules its writer and its reader follow, with `validate` and
the frames of the broker API; a message is altered on its way. `CoseSign1` signs and
verifies symbolically; on its way an envelope may lose its tag, an item or the kind of one,
or any part of its content. `Intake` has the three validators of the package name and the
other texts. A text is the classes of its characters and its length. `MCProtocol` picks
one layer per behaviour; the layers share no state.

## 3. Runs

| Run | Bounds | Shows |
|---|---|---|
| `BrokerDecisions` | 1 request, 2 connections, 2 credentials, generations 0..2, 1 tick, 2 boots | decisions are authorised at the commit, work does not outlive its boot, pending work is bound, receipts tell the history |
| `BrokerSlot` | 2 requests, 2 keys, 2 packages, 2 counters, 2 boots | one slot, consistent retries, counters, the refinement |
| `BrokerAnyCaller` | 1 request, 2 connections, 2 signing keys, generations 0..1, no caller rules, fairness | receipts, events and closed requests need no discipline of the callers; a verified decision settles its request or its caller gets an error |
| `LifecycleRecord` | 2 packages, 2 digests, generations 0..2, time 0..3 | every order of calls: guards win first, errors only close, the receipt seals the chain, the refinement |
| `RelayDurability` | 4 valid and 2 refused envelopes on 3 ids, room for 1, 2 boots, 3 unsynced renames, 1 tick | durability through crashes, power loss, failed writes |
| `RelayDelivery` | 3 events whose ids are in another order, room for 2, exponent and cap of the backoff reached, 1 boot, 1 resync reply that may come late and again | no accepted event is forgotten but by a reply that ends before it, the contract, bounded retries within a boot |
| `Hosted` | 1 request, chains of 3 events, 4 signed events, first state `pending`, later `approved`, `executing`, `denied`, 2 workers, 2 replies on their way and any repeated, fairness | what is shown is signed history; a frozen projection of a chain the service can read has its resync under way and is resolved |
| `M3Runtime` | 2 accounts of 2 tenants, 1 device, 2 pairings, 2 credentials, 1 request, 2 handlers in flight, 2 messages | one forwarded decision, none behind a revocation or across tenants, locks and activation |
| `Protocol` | bytes: 14 byte values, up to 5 behind 14 starts; objects: every kind, 2 alterations; envelopes: 2 keys, 2 signed, times 0..2, keys and payloads symmetric; texts: up to 8 arguments | one encoding, exact readers, one kind per message, bound signatures, agreeing validators |

Why the bounds are enough: two connections give every interleaving of one call with
another; two requests are what a slot or a retry can confuse; three generations let
one be replaced and come back; two boots put work on the wrong side of a reboot; a
reused id lets a late acknowledgement hit the wrong envelope (room for one in
`RelayDurability`, where renames pile up, room for two in `RelayDelivery`, where
envelopes do); three events with two workers let a gap, a late event and a re-armed
row meet, and a fourth signed event puts a second history under a used number; two
handlers in flight are what an await can confuse. Time is 0 in the runs about slots
and receipts, where no action depends on it. Deadlock is checked only in
`LifecycleRecord`: elsewhere the system may stop at the end of its bounded clocks,
generations, messages or alterations, as it may when no caller calls.

The components with state define a type invariant (`TypeOK`, `OutboxTypeOK`); the
runs check the broker's, which is also proved, and spend the rest on behaviour.

Runs that are expected to be violated, each with a finding in `PROJECT.json`:

| Run | What a comment says | What happens |
|---|---|---|
| `RelayReboot` | bounded retry | monotonic instants are persisted and outlive their clock |
| `HostedBrokerChain` | a frozen projection is blocked until a verified contiguous chain arrives | the broker's chain begins with `planning` at one, the hosted projection knows no `planning` and counts from zero: the first event is refused, the second freezes it, and every resync is refused, for either reason |
| `IntakePreparable` | lowercase letters, digits, `+`, `-`, `.` | the signed request wants a letter first, the client and the broker's intake do not: such a request is stored and never prepared |

Fairness. `BrokerAnyCaller` assumes weak fairness of the steps of a call that is
running: the call is straight-line code. It waits for SQLite's write lock no longer than
the busy timeout of the connection and then fails, which is a step as well
(`AbandonDecision`), so a process that is scheduled finishes the call one way or the
other; a process that dies is covered by `Crash`.
Nothing else is assumed, in particular not that anybody calls. `Hosted` and
`HostedBrokerChain` assume that a worker is run again and again (weak fairness of its
steps; it polls), that a delivery retried for ever is not refused for ever (strong
fairness of `Deliver`, whose backoff exists for that), that leases and delays run
out, and that a resync request handed over is answered and the answer applied, which
the relay's retained envelopes stand for. That events arrive is not
assumed, and workers may die at any step.

## 4. Proofs

All theorems hold for every value of the constants; the assumptions are the named
`ASSUME`s of the modules, which TLC evaluates in every run: bounds are numbers, null
values are none of the real ones, an idempotency key under an id belongs to one envelope
(`RelaySpool`), there is a digest and none of them stands for the event before the first
(`HostedProjection`), an altered field is a CBOR value: an integer's type is its sign
(`Schema`), and the limits of the decoder on strings and collections are below 2^24, those
of the code being far smaller (`CborScalar`). Where a theorem needs a
caller rule it says so as `ASSUME Obliged(...)`; the rules are those of section 2, and
the runs that check the property have them.

- `BrokerStoreProofs`: `TypeCorrect`, `ReceiptsCertify`, `EventChain`,
  `ClosedForever` without caller rules; `OneSlot` and `Refinement` under
  `pin_first`. `ReceiptIffTerminal` is inductive only with the identity part: the
  pinned key never changes once set, so a receipt's signer stays the pinned one.
  One step per action, one case per conjunct it can disturb.
- `BrokerDecisionProofs`: `DecisionsAuthorised` under `advance_generation` and
  `decide`. The invariant `CallInv` says what a call still knows in each phase:
  past the credentials read, either its credential is pinned or the generation
  has moved past the request's. It is needed because the recheck compares
  generations and not credentials; growing generations make it enough. Then what the
  broker remembers. `IdempotentSubmission` needs no rule: a requester and a key
  name one row, and rows never go away (`AckInv`). `CountersRise` under
  `advance_generation`, `PendingBound` under `prepare`. `WorkOfThisBoot` under
  `boot_first`, from `BootInv`: only `start_boot` moves the epoch, and it closes what it
  leaves behind in the same transaction. `ReceiptsTellHistory` under `prepare`,
  `decide` and `reconcile`, from `HistoryInv`, which says of an open request
  already what its receipt will have to tell. `ExecutionWasApproved` needs no rule: it reads
  `EventChain` and `ReceiptsCertify` backwards, since only one path of `permits` leads
  to `executing`. `VerifiedDecisionIsAnswered` states the step facts under the liveness
  property `VerifiedDecisionAnswered`: no step of another connection takes a verified call
  back, and the call's own step settles the request, finds it settled, or fails with every
  table as it was.
- `LifecycleRecordProofs`: every step is a refusal, the creation, or one edge of
  `permits` through `winner` (`StepKinds`), from which the chain, the receipt and
  the plan follow, and `AssertionHolds` (the assertion in `winner` never fires;
  proved only, no run repeats it); `GuardsFirst` is proved from what the guard leaves possible.
  `ErrorsClose` needs `AnswerInv`: the last answer is still the error of the state.
  `RecordImplements` is the refinement to `RequestLifecycle`, one abstract action per kind
  of step.
- `RelaySpoolProofs`: the maps are memory, every recoverable snapshot and the
  running candidate. The invariant: each of them holds all that is owed and nothing
  that is gone, and after the rename the file is the candidate. The candidate must be part of it,
  because a crash may make it the file at any time. `SpoolAlwaysReopens` and
  `BackoffIsBounded` are invariants over the same maps. The second holds while
  `boots = 1` only: `RelayReboot` is its counterexample afterwards.
- `RelayDeliveryProofs`: `DeliveryUsesSpool` (every step of the composition is a step of the
  spool or a stutter), so the spool's theorems carry over; `NothingIsForgotten` and
  `DeliveryImplementsContract` from `DeliveryInv`: the chain is the beginning of what
  was signed, only signed events travel, every reply is a stretch of what was signed, and
  what was imported is shown or was cut off by a reply, for any number of replies.
- `HostedProofs`: `SignedProjection` from `SignedInv` (all that travels is signed, also
  after a rewind of the broker). `ResyncNeverLost` from `ResyncInv`: a worker about to
  delete the row it claimed has handed the request over, and the request or its answer is
  still on the way (`HandedOver`), unless the chain has become unreadable. Without it the
  deletion could be the last trace.
  `ShownUntilResync` is an action property from `SignedInv`. `SteadyProjection` assumes
  that no step restores the broker (`NeverRestored`); its invariant `SteadyInv` adds that
  the signed events are those of one chain, so no number stands for two events.
- `M3RuntimeProofs`: `RuntimeInvariant`, one induction over all routes: the types with
  what a handler behind an await still refers to, the pairing ceremony, and what is
  queued was decided or quarantined and stays so. It is why the check that a route
  makes again behind its await is enough. The four safety properties follow;
  `LastOneLocks` is an action property from the same invariant.
  `NoDecisionAcrossTenants` adds that an awaited ceremony is of its caller's tenant
  (`CeremoniesInTenant`) and that no step, a second pairing included, moves a credential
  or a request to another tenant or device (`OwnersKept`).
- `ProtocolProofs`: the reader and the writer table of each of the twelve kinds agree
  (`TablesAgree`), hence what was read is written back (`RoundTrip`), and from that
  `MessagesReadBack` and `SenderAndReceiverAgree`. `OneKindOnly`: two kinds differ
  in how many fields they require and know, or else in the type or code of one field.
  `SignedForOnePurpose`: an envelope carries a signature that was made, and
  the signed structure determines the rest. `GrammarsAgree`: what the client parses has a
  name and a key the broker's types admit. Then the bytes: `OneHead` over all 64-bit
  numbers, major types and surrounding bytes, from the four widths of `HeadWidth`;
  `OneScalarEncoding` from it, in both directions and with the limits; and
  `KeyOrderIsStrictAndTotal`, which is what sorting and the comparison of neighbouring
  keys rely on.

Only model-checked: the two liveness properties (`VerifiedDecisionAnswered`,
`UnderstoodIsResolved`), since fairness is out of the prover's reach (the steps under the
first are proved), and `OneEncoding` and `EncodesTheProfile` of `Cbor`, whose decoder is
recursive over its input: that needs induction over data and `RECURSIVE` operators. The
leaves of that recursion, heads, scalars and the key order, are proved.
`FrozenIsResolved` and `StoredNameCanBePrepared` are false and so only have their runs. Every other property of the
runs is a theorem.

## 5. Plan

1. Done: the broker, the value object, the spool, the projection chain, the hosted
   projection with the outbox, the way from broker to projection, the hosted runtime,
   the protocol layers and intake; the theorems above.
2. Theorems that are left: the steps under the liveness property `UnderstoodIsResolved`
   (what a resync answer leaves when it is applied). The encoding of nested items stays
   with TLC until induction over data is available.
3. Pure operators that are left: the single checks of `verify_submission`, the
   helper's startup contract.

## 6. Not modelled

- Cryptography and hashing: signatures and digests are taken to be what they stand
  for. The single checks of `verify_submission` (client data, origin, flags): the broker
  uses its outcome.
- Sockets: binding, accepting, `SO_PEERCRED`, file modes and owners. Pure I/O.
- The signing key file: a process that dies between creating and writing it leaves
  a file every later start refuses.
- Admin command names and the JSON the client prints; the web page and its
  rendering; the APT helper, which executes nothing yet; test support.
- Read-only routes and the inbox of the runtime; the table repositories that
  only route by tenant.
- Several owners of one spool file: nothing in the crate provides for them.
