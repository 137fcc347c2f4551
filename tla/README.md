# MeshSettle in TLA+

MeshSettle simulates offline payments: a payer's device seals a payment in a
signed and encrypted packet, neighbouring devices carry it hop by hop, a bridge
with connectivity puts it on a queue, and a settlement service pays it exactly
once however many copies arrive. This directory models the parts that carry that
promise (packet and keys, mesh, settlement, and the whole journey) and the demo page
that shows it, checks them with TLC on small instances and proves the central
properties with TLAPS for instances of any size.

## 1. The system

| part | state | operations |
|---|---|---|
| sender (`services/sender`) | none but its HTTP client | `create_packet`, `submit_packet` (seal, sign, POST to a relay) |
| mesh relay (`services/mesh_relay`) | none; the packet carries its hops | `relay`: verify, hop limit, record the hop, POST to the next relay or the bridge |
| bridge (`services/bridge/app.py`) | none | `bridge`: verify, publish, answer 202 or 503 |
| publisher (`services/bridge/publisher.py`) | broker channel | `publish` with publisher confirms |
| RabbitMQ (external) | durable queue: ready and unacked messages | store, deliver, ack, nack-requeue, requeue of a closed channel's messages |
| consumer (`settlement/consumer.py`) | channel, one task per delivery (prefetch) | `start`, `stop`, `_handle_message`: ack, or nack with requeue |
| processor (`settlement/processor.py`) | in-process metrics | `process`: parse, verify, freshness, AAD, claim, decrypt, insert, mark, or reject |
| dedupe store (`settlement/dedupe.py`) | Redis: key -> `claimed` / `settled` with TTLs | `claim` (SET NX EX, then GET), `mark_settled`, `release_claim` |
| tables (`settlement/db.py`, migration) | `settlements` with two unique constraints, `rejected_packets` | insert; reads for the API |
| settlement API (`settlement/app.py`) | none | lifespan wires the above; read-only endpoints |
| packet format, cryptography (`shared/models.py`, `crypto.py`) | the keys a process has loaded | canonical bytes, signature, envelope, idempotency key, key pairs and their loaders |
| key generation and bootstrap (`shared/keygen.py`, `scripts/bootstrap_env.py`) | `.env`, `.env.infra` | write both files, refuse to overwrite, `--force`; print new keys |
| demo UI (`services/ui`) | page: current packet, attempts, last settled amount, buttons; its proxy has none | mint, submit, poll, replay |

Interaction: sender -> relay -> ... -> bridge is a chain of nested HTTP calls; each
node answers only after the node it called has answered or its own timeout is
over. Bridge and settlement share nothing but the queue. Settlement replicas
share Redis and Postgres and run several handlers each.

What is hard in it:

* every `await` in `process` is a point where another handler, replica, crash or
  reconnect may intervene, so that the marker read, the claim held or the
  delivery tag may be stale when used;
* Redis and Postgres calls can take effect and still raise;
* three clocks race: the claim's TTL, the settled marker's TTL and the packet's
  freshness window with its skew tolerance;
* the broker redelivers at once what a dead or disconnected replica held;
* callers in the mesh give up on calls that go on to succeed;
* keys change while packets travel and services restart one by one, each with the
  keys it started with;
* every node parses a body and writes it anew, and the dedupe key must survive that;
* the page's handlers share `state` and the buttons, and read them after awaits.

The properties that make each part correct are those of section 4; `PROJECT.json`
lists the hazards, each at its line, with the properties that cover it.

## 2. Modules

| module | what it is |
|---|---|
| `Settlement` | consumer, processor, dedupe store, tables and broker as one state machine |
| `SettlementLedger` | abstract specification: a ledger that pays a key at most once and confirms at most one copy, after the payment |
| `SettlementRefinement` | the mapping from `Settlement` to `SettlementLedger` |
| `MCSettlement` | a catalogue of messages for TLC: copies, a copy with a bad signature under a genuine key, unparsable, stale, dated-ahead, relabelled, undecryptable and mismatched packets, and a second packet with the same id |
| `SettlementProofs` | theorems about `Settlement`: types, exactly-once, markers and acks with their rows, deliveries |
| `ClaimProofs` | theorems about `Settlement`: what the checks before the claim, the markers and the claim itself achieve |
| `LedgerProofs` | theorem: `Settlement` implements `SettlementLedger` |
| `CountProofs` | theorems about `Settlement`: the counters and the evidence of refusals |
| `MeshJourney` | sender, relays, bridge and publisher |
| `MCMeshJourney`, `MeshProofs` | its instances and theorems |
| `EndToEnd`, `MCEndToEnd` | `MeshJourney` and `Settlement` composed at the queue |
| `JourneyProofs` | theorems about `EndToEnd`, and that dropped copies lose nothing |
| `PacketFormat` | what a packet is made of and what the cryptography does with it, as operators |
| `KeyRollout` | key files, processes with the keys they read, and packets in between; extends `PacketFormat` and is its own TLC instance |
| `RolloutProofs` | theorems about `KeyRollout` |
| `DemoPage`, `MCDemoPage`, `PageProofs` | the page of the demo UI, its instance and theorems |

### Settlement

One action per await. `pc[h]` says which await handler `h` is at, `msg[h]` which
message it has, `outcome[h]` what it is about to return, and `live[h]` whether its
delivery tag is still valid. `Validate` is the synchronous prefix of `_process`
(steps 1 to 2b). `ClaimWon`/`ClaimLost` are the SET NX and `GetMarker` the
loser's GET, a step of its own because the marker can change in between.
`WriteSettlement` is the transaction with its `IntegrityError` branch,
`MarkSettled` the marker, `ReleaseClaim` the `except` branch, `ReleaseRejected`
the release after a refusal behind the claim. Each call that leaves the process
has a `...Fails` twin, in which it raises having taken effect or not. `claim()` is
outside the `try` block and so its failure leaves `process` (`Raise`); failures
after it go to `release`, an unexpected exception while opening (`OpenInstructionFails`)
included.

A replica that loses its broker has its deliveries requeued (`Requeued`) and its tags
are void. In `Crash`, a process that dies or is stopped (the lifespan closes consumer,
Redis and engine, and the process ends), all its tasks and counters go too. In
`ConnectionLost` the process lives; whether aio_pika cancels a task whose delivery is
void cannot be read from this code, so any of them may go and any may run on.

Messages are abstract. A message has a key (its signed region's hash), may parse,
may be signed; a key fixes the header fields (packet id, creation time), whether
the AAD matches and what opening gives. That they follow from the key is what
`signing_bytes` and `derive_idempotency_key` ensure, because the region covers
these fields; collisions are left out.

`verdict[m]` is a history variable: the outcome the ack of `m` stood for. A Redis
marker carries its expiry; `Tick` advances the clock and drops what has run out.
`Faults` selects the failures of an instance: `postgres`, `redis` (a call raises),
`unexpected` (opening raises), `crash`, `connection`, `eviction`, and `slow` (the clock
may tick while a handler runs; without it handlers are quicker than a tick, as they
are against the default TTL of 60 s). `NoKey` is a NULL key.

### MeshJourney

A submission's calls are a chain of levels: 0 is the client, 1.. the services.
`stage[s][n]` is the handler at level `n`, `reply[s][n]` its answer to level `n-1`:
`accepted` (202) or `failed` (any error status; callers only ask
`raise_for_status`). `Hops(s, n)` is the number of hops on the packet when level
`n` receives it. `IsBridge` is `next_destination`: every relay has a hop
count target of its own (`HopCountTarget[s][n]`), so relays that disagree on one route and
rings of misconfigured relays are included. The hop limit is one for all of them. `Post` may lose or
alter the body. `GiveUp` is the caller's timeout, and the service called works on,
as an ASGI handler does when its client disconnects. `PublishFails` may or may not have
stored the message. A rate limiter's budget is abstracted to "may answer 429".

### EndToEnd

A submission of `MeshJourney` is a message of `Settlement`. `Carry` is a step of the
mesh; if it stores the body at the broker, the same step is `Settlement`'s `Publish`
(`Hand`). Nothing else is shared, so the 202 may reach the payer before, during or
after settlement. `SettlementStep` is everything `Settlement` does but publishing.
`MaxFailures` bounds the failures of both halves together.

### PacketFormat and KeyRollout

Cryptography is symbolic. A key pair is the generation it was made in, a signature is
its key and the region it covers, a wrapped content key says for whom, a ciphertext
says under which key, nonce and AAD it was sealed; SHA-256 is injective, so the
dedupe key is the region itself. A timestamp is an instant and the way it is written:
`canonical_timestamp` and `Reserialised` write UTC, a time without an offset does not
parse. The order of `Verdict`'s checks is that of `_process`.

`KeyRollout` has the two files (`Bootstrap` is the check for existing files and the
first write, `BootstrapInfra` the second, `BootstrapKilled` the end of a run between
them, `PasteKeys` the lines of `keygen.py` put into `.env`), a process per service
(`Start` takes the keys in `.env`, or in a restarted container the ones it had;
settlement does not come up without keys, the others come up and answer 500), and copies
of packets that meet each process with the keys that process has. `Alter` changes any
one field or only the way the time is written. `SubmitRelabelled` is a device that signs
an envelope under another packet id: as it is (`Relabelled`), which the AAD check
refuses, or sealed anew with the AAD of the new header (`Resealed`), which only the
comparison of the ids inside and outside in `open_instruction` refuses. Settlement's
decision is one step here, since its races are the subject of `Settlement`.

### DemoPage

A flow is one invocation of `sendNewPayment` or `replayPacket`; `at[f]` is the await
it is at (`mint`, `submit`, `poll`) and `flow[f]` its local variables. The other
variables are the page's `state`, its attempts table, status line and two buttons.
`ClickSend` and `ClickReplay` run to the first await, `Minted`, `Refused`,
`Accepted`, `SettlementSeen`, `PollTimesOut` and `Throws` from one await to the next
or to the end, the `finally` block (`Done`) included. `Accepted` reads
`state.settledAmount` and `state.idempotencyKey` when the answer is there, as the
code does. The proxy turns upstream errors into error answers (`Refused`; for
polls, a miss), and a `fetch` that rejects is `Throws`. The backend is reduced to
the packets minted, handed in and settled: a packet may settle at any time once it
was handed in, even if the page was told that the mesh refused it. `overlapped` is a
history variable: a payment was started while a replay was in flight, which the
page permits because a replay leaves the send button enabled.

## 3. Bounds

| bound | value | why it is enough |
|---|---|---|
| handlers, replicas | 2 | every race in the code is between the holder of a claim and one other; one replica where counters are compared |
| messages | 1 to 6 | two genuine copies are needed for a duplicate; the one with a bad signature shares their key |
| `MaxFaults` | 1 to 3 | a lost payment needs one or two failures; more repeat the same recovery |
| `MaxTime` | 1 to 5 | past the freshness window and the markers' TTLs of the run |
| `MaxMeshFaults` | 2 | one failure on the way in and one on the way back |
| `Flow`, `Packet`, `MaxAttempts` | 2, 2, 3 | a replay and a payment that overlap; an attempt that sees nothing, one that does, one after it |
| `HopLimit` | 3 | one above the default target of two, so that the limit bites |
| `end_to_end`: submissions, `MaxFailures`, `MaxTime` | 2, 1, 2 | a payment and a replay of it; one failure anywhere plus any delay (`slow` is not counted), past the claim's TTL and the window of 1 |
| `key_rollout`: `MaxGeneration`, `MaxMinted`, `MaxStops` | 2, 2, 1 | old and new keys; a packet of each; services that started before and after the change, and one restart |
| `key_rollout`: `Copy`, `MaxHarm`, `MaxHops` | 1, 1, 2 | one copy at a time, sent again as often as one likes, meets every row there can be; a checksum is as broken by one field as by two |
| `mesh`: hop count targets | 2 everywhere; above the limit; 3 at the first relay and 1 at the rest | relays that agree, relays that never find the bridge, and one that forwards where the next delivers at once |

The theorems of section 5 need no bound.

## 4. Runs

| run | result | question |
|---|---|---|
| `all_faults` | pass | Everything fails: `TypeOK`, `ExactlyOnce`, `SettledNeverOverstated`, `SettledMarkerSound`, `AckedSettledHasRow`, `OneLiveDelivery`, `ImplementsLedger` (refinement), and under fairness `QueueDrains` |
| `prompt` | pass | Handlers within their claim, Redis up: `ClaimExclusive`, `SettledWhileFresh`, `SettledMarkerKept`; and until something fails, with a marker that outlives window plus skew, `NoDuplicateReachesPostgres`, `SettledCountedOnce` |
| `refusals` | pass | Refusals through Redis errors, crashes and reconnects: `EvidencePerRefusal` (Postgres up: storing evidence is best effort), `SettlesOnlyPayable`, `OnlyGenuineOccupy` (a forged copy cannot block the genuine one's key) |
| `end_to_end` | pass | A payment and its replay from the payer to the table, against timeouts, database errors, evictions and slow handlers: `NoPaymentLost`, `AcceptedNotForgotten`, and under fairness `AcceptedIsPaid` |
| `key_rollout` | pass | Keys change, services restart, bodies are altered and re-encoded: `RolloutTypeOK`, `SettledAsMinted`, `KeyFollowsSignedRegion`, `RefusedOnlyAcrossKeys`, `DriftOnlyInterrupted`, `QueuedIsPaid` |
| `mesh` | pass | `MeshTypeOK`, `AcceptedIsQueued`, `QueuedOnceIntact`, `HopsAsConfigured`, `EverySubmissionAnswered` |
| `demo_page` | pass | Interleaved payments and replays: `PageTypeOK`, `OneSender`, `ReplayHasPacket`, `SettledIsTrue`, `RowsAreOwn`, `AlarmOnlyAtFirstSight`, `SendComesBack` |
| `crash_loses_payment` | violation | `NoPaymentLost` when a replica dies behind its claim |
| `release_drops_marker` | violation | `SettledMarkerKept` when a claim has expired under its holder |
| `default_ttls` | violation | `NoDuplicateReachesPostgres` with marker TTL = freshness window |
| `packet_id_conflict` | violation | `SettledMarkerSound` when two signed packets share a packet id |
| `mesh_failure_queued` | violation | `FailedIsNotQueued`: the sender's 502 |

Every property of a passing run has a mutant: an operator next to the definition
it alters, with the mistake named in its comment, under which TLC finds the
property violated.

What the violations show:

* **A crash between claim and commit can lose the payment.** The broker redelivers
  at once, the dead handler's claim lives on for 60 s, so the redelivery is
  `IN_FLIGHT`, reported as a duplicate and acked. `ARCHITECTURE.md` says such a
  claim is "allowed to proceed"; `settlement_exists` has no caller. The same
  happens when a connection is lost together with its tasks, when the answer to SET NX is
  lost (`claim()` raises with the claim set, and the redelivery is dropped as a duplicate
  of itself) and when the release fails; set `Faults` of `CrashLosesPayment.cfg` to
  `{"connection"}` or `{"redis"}` to see these. `end_to_end` shows that timeouts, database
  errors, evictions and slow handlers lose nothing.
* **`release_claim` deletes whatever is there.** A handler that outlived its claim
  can delete the settled marker of the one that settled. Exactly-once survives
  through the unique constraint.
* **The default marker TTL equals the freshness window.** A packet dated ahead
  within the tolerance stays fresh after its marker is gone, and a copy of it
  reaches Postgres, which refuses it.
* **A packet id conflict is taken for a duplicate**, acked, and marks a key settled
  that has no row.
* **A 502 from the mesh does not mean "not accepted".** The timeout of a caller can
  run out on a call that succeeds; a payer who submits anew gets a new packet id.

What `demo_page` shows besides: the page's alarm "the settled amount changed, which
should not happen" is raised without any change when the first attempt was refused
or timed out and a replay is the first to see the settlement, since the amount is
then compared with `null`; `AlarmOnlyAtFirstSight` states that this is the only case.
`SettledIsTrue` and `RowsAreOwn` need their `~overlapped`: without it TLC finds a
replay that ends after a new payment has reset the page and is listed under it, although
the table is headed "Submissions of this packet".

What `key_rollout` shows besides: `bootstrap_env.py` says of its two files that they
"cannot drift", and `DriftOnlyInterrupted` states the one exception, a run killed
between its two writes: after one with `--force`, `.env` has new passwords and `.env.infra`
the old ones, and without `--force` the next run refuses to repair it.
After `--force` a packet made with the old keys can pass every relay that was not
restarted and be refused by a settlement service that was; `RefusedOnlyAcrossKeys`
says that nothing but an operator's new keys leads to this.

### Fairness

`Fairness` in `Settlement`: the broker keeps pushing a ready message to a free slot
and the event loop resumes every task whose call returned or raised; both are weak
fairness on single actions, per message and per handler. Clock, faults and
publication have none: a property must not depend on more copies or on time
passing. Failures end because `MaxFaults` bounds them: a database that is down for
good lets no payment settle. In `MeshJourney`, each submission's services and HTTP
clients keep working (`httpx` enforces the timeout); nobody is forced to submit.
`EndToEnd` has the fairness of its halves. In `KeyRollout` every copy goes on and every
stopped service is started again (`restart: unless-stopped` in `docker-compose.yml`); no
operator has to act and nothing has to stop or to be altered. In `DemoPage` a flow goes on: the proxy answers within its own timeout and polling has a
deadline. Nobody has to click, no call has to fail, nothing has to settle.

## 5. Theorems

Every invariant of the passing runs, the refinement and the action property are
theorems, for any number of replicas, handlers, messages, keys and clock ticks and for
any settings. Where a theorem has a hypothesis on the failures, this table has it, and
what goes wrong without it.

| theorem | of | hypothesis | without it |
|---|---|---|---|
| `TypeCorrect`, `SettledExactlyOnce`, `DeliveriesMatch`, `OnlyPayableSettles`, `OnlyGenuineHaveMarkers`, `CountersNeverOverstate`, `EachSettlementCountedOnce`, `ServiceImplementsLedger` | `Spec` | none | |
| `SettledMarkerHasRow`, `AckOnlyAfterCommit` | `Spec` | `DistinctPacketIds` | `packet_id_conflict` |
| `SettlesInsideWindow` | `Spec` | `Prompt`: no handler outlives a tick | the window ends between check and insert |
| `ClaimIsExclusive`, `SettledMarkerStays` | `Spec` | `Prompt`, `RedisReliable`: no Redis call raises, no key is evicted | `release_drops_marker` |
| `DuplicatesStopAtRedis` | `Spec` | `Prompt`, `MarkerOutlastsWindow`: `SettledTTL` above window plus skew | `default_ttls` |
| `RefusalsHaveEvidence` | `Spec` | `PostgresAnswers` | storing evidence is best effort |
| `DroppedCopiesLoseNothing` | `Spec` | `DistinctPacketIds`, `SteadyService`: no crash, no lost connection, no Redis error | `crash_loses_payment` and its variants in section 4 |
| `AcceptedStaysInView` | `JourneySpec` | the same, and `NoneAhead` | a packet dated ahead is refused for good |
| `JourneyRefinesItsHalves` | `JourneySpec` | none | |
| all of `MeshProofs`, `PageProofs`, `RolloutProofs` | their specifications | none | |

`SettlementProofs`:

* `TypeCorrect`. The inductive invariant is `TypeOK` with `HandlersOK`: a busy
  handler has a message, and its outcome fits its `pc`. Without the second part
  `metrics` and `rejections` could be indexed by an outcome that is none.
* `SettledExactlyOnce`. `TableSteps` reduces every step to "no change" or "one
  row that `CanInsert` admitted"; then `ExactlyOnce` is inductive.
* `SettledMarkerHasRow`, `AckOnlyAfterCommit`. The invariant `ReportsHaveRows` follows
  a report from the insert through `mark` and the marker to the ack, and from the
  marker through the loser's GET to its ack. `SettledStays` (rows stay) carries it
  across other handlers' steps; `RowsOK` turns a refusal by either constraint into
  a row for the key.
* `DeliveriesMatch`: `OneLiveDelivery` is inductive with the type invariant.

`ClaimProofs`. `PipelineMove` says where a handler's next await is (`Follows`), and
that it keeps its message; every proof below uses it to skip the steps that do not matter.

* `OnlyPayableSettles`, from `AdmittedOK`: who is past the checks has a genuine
  message of the queue, and who is at the insert a payable one.
* `OnlyGenuineHaveMarkers`, from the same: a key gets a marker only from the claim or the
  mark of a handler past the checks (`NewMarkerStep`), so a marker is always of a packet
  that came signed and with matching AAD (`MarkersVouched`).
* `SettlesInsideWindow`, from `StillFresh`: a handler that is prompt inserts at the
  time at which it checked.
* `ClaimIsExclusive` and `SettledMarkerStays`: whoever works past the claim has the
  marker, still as a claim, so nobody else is there and no release can hit a settled one.
* `DuplicatesStopAtRedis`, as long as nothing failed: every row's marker is about to be
  written or is there until its TTL runs out (`MarkedUntilExpiry`), which by
  `MarkerOutlastsWindow` is after the last moment at which a copy is fresh. So a claim
  can only be won without a row, and the row does not come meanwhile.

`LedgerProofs`: `ServiceImplementsLedger`. The mapping confirms a copy when its first
`SETTLED` is acked; `OneReceipt` says that for a key at most one handler or ack has that
outcome, and only after the row, and `VerdictIsFinal` that an ack is never overwritten.
Then each step of the service is an insert, a confirmation or a stutter of the ledger,
for every failure.

`CountProofs`. The settled counters are the set `SettledCounts` of one pair per count, so
that adding them up is a cardinality. A row is counted, is being marked, or was
never reported (`CountInv`); only marking counts, and it ends one `Settling`. For
`RefusalsHaveEvidence` the same is done per key and reason: `EvidenceInv` counts acks and
the handlers between storing the row and the ack, and a redelivery stores a row of its own.

`JourneyProofs`:

* `DroppedCopiesLoseNothing`. `MarkersHeld`: the marker of a payable packet that is not
  settled belongs to a handler that works on it. So a copy dropped as a duplicate leaves
  a copy behind (`CopyLeft`): in the queue, expired, or with a handler that is `Carrying`
  it, that is, one that will settle it, hand it back to the queue, refuse it as expired
  or drop it for another such copy; `CarrierStep` is this argument step by step. It needs
  that a handler that fails can still hand its message back: `AnswersHeard`. Database
  errors, unexpected exceptions, evictions and slow handlers are allowed, and nothing more
  could be: TLC finds a payment lost for each of `{"redis"}`, `{"crash"}`, `{"connection"}`.
* `AcceptedStaysInView`. The broker has what the mesh accepted (`HandedOver`); what it is
  done with was answered for good (`DoneIsAnswered`), a genuine and payable packet
  is refused only for its date (`RefusedForCause`), and a duplicate is covered by the
  theorem above.
* `JourneyRefinesItsHalves` makes every theorem about a half one about the journey.

`MeshProofs`, for any submissions, any hop limit and any target of each relay: `MeshTypeCorrect`,
`AcceptanceMeansQueued`, `SubmissionQueuedOnce`, `HopsBounded`. The invariant
`MeshInv` says that a service was called by a node that forwards and is no bridge
(`ChainOK`), that every stored message was stored by a bridge that has answered
(`QueueOK`), and that acceptance at any level is backed (`AcceptancesBacked`).
`OneBridge` is the crux: hops only grow along a chain, so its first bridge is its last
node, and nothing is stored twice. Steps are first sorted into calls, answers and
publications (`StepShapes`), and each kind is shown to preserve the invariant.

`PageProofs`, for any flows, packets and attempts: every safety property of `demo_page`.
`PageTypeCorrect`, `OnePaymentAtATime` and `ReplayNeedsPacket` follow from `PageInv`, which adds
that a payment past minting still has its packet on the page (`FlowsOK`): without it
the end of a payment could enable the replay button on a page that was reset.
`SettledStatusIsTrue`, `RowsBelong` and `AlarmIsFirstSighting` follow from `Apart`: without
overlap one flow runs at a time, what it read before its await is what the page still
holds (`OwnFlow`), and an amount is remembered exactly when a settlement was seen.

`RolloutProofs`, for any copies, packets, generations of keys, restarts and alterations:

* `SettlesWhatWasMinted`. `Sound` is what settlement asks of a packet, for the keys the
  packet itself names; what the sender makes is sound (`CreateSound`), and hops and
  re-encoding leave it so. The invariant `Signatures` follows the signature: a body
  carries the one of what was posted or nobody's, and what was posted was minted or is
  `Mismatched`: its AAD, or the id in the instruction inside, is for another packet. So a body that verifies under a real key has the signed region
  of a minted packet (`AcceptedIsMinted`). `Guards` is needed because settlement with no
  key at all could take nobody's signature for its own.
* `OnlyNewKeysRefuse`. `KeysOK` says that all keys in use were generated and that without
  an operator's request there is one generation; `CopiesOK` that unaltered copies stay
  sound. A reader that refuses one then has other keys.
* `FilesAgree`. `FilesOK` adds that a run that has written `.env` still holds its passwords.
* `KeyIdentifiesRegion`. `Image(q, H)` is the signed region of `q` once the fields in `H` are
  altered. Hops and re-encoding leave a body's region as it is, and each alteration of a
  field that was not altered yet adds it to `H` (`HarmedImage`), so that a body's region
  is the image of its packet's (`RegionsTracked`). Nothing in a packet that was made is
  zero (`Real`), so the image differs as soon as `H` has a signed field (`ImageSame`).
* `RolloutTypeCorrect`. Every body, altered or relabelled, is in `Packet`; that the packets
  made are finitely many makes the next id a number.

The assumptions are those named in the component modules (types of the constants),
which TLC evaluates on every run. The stronger invariants (`CountInv`, `EvidenceInv`,
`LossInv`, `RegionInv` and the others) were checked with TLC before they were proved.

Only model-checked are the properties that something happens: `QueueDrains`,
`AcceptedIsPaid`, `EverySubmissionAnswered`, `SendComesBack` and `QueuedIsPaid`. They rest on fairness and so
on ENABLED, which the prover does not reason about. The violations are TLC's as well.

## 6. Not modelled

* Cryptography below its symbolic meaning: base64, PEM text, padding. In `Settlement`
  and `MeshJourney` whether a signature verifies or an envelope opens is a constant of
  the message; `PacketFormat` says which messages those are.
* Field patterns and sizes of the packet format: a payment is valid or it is not. Logging.
* Crashes and Redis errors in the run of `EndToEnd`: they lose payments already in `Settlement`
  alone (`crash_loses_payment` and its variants), and `all_faults` checks what survives
  them. So may a lost connection, if the client library cancels tasks with it.
* Relays with different hop limits, and a plaintext that makes opening raise every time:
  such a message would be redelivered for ever, and unexpected exceptions are bounded here.
* After `--force`, Postgres and RabbitMQ volumes keep the passwords they were
  initialised with: that is in the images, not in this code.
* Read-only endpoints (`/settlements`, `/metrics`, health checks) and queries.
* The page's metrics strip and stepper; Kubernetes manifests and scripts. A pod's
  restart is `Crash`.
* Rate limiters' windows; the database pool; RabbitMQ losing its durable queue.

## 7. Plan

Done: `Settlement` with its ledger, the mesh, the demo page, the whole journey, the
packet format and the change of keys, their runs, the theorems above. Next:

1. A broker that never confirms (`publish` has no timeout) in the mesh's liveness.
2. A bound on how late a holder may be, in place of "a handler is quicker than a tick",
   so that `ClaimIsExclusive` and `SettledMarkerStays` hold for handlers that take time but
   stay within `ClaimTTL`.
