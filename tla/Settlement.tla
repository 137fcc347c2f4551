----------------------------- MODULE Settlement -----------------------------
(***************************************************************************)
(* The settlement service of MeshSettle: consumers that take packets off   *)
(* the RabbitMQ queue (consumer.py) and drive each through one pipeline    *)
(* (processor.py): parse, verify, freshness, AAD, Redis claim (dedupe.py), *)
(* decrypt, Postgres insert (db.py), settled marker, then ack or nack.     *)
(*                                                                         *)
(* Every await of the pipeline is a step of its own, because at each of    *)
(* them another handler, another replica or the broker may act.  What runs *)
(* between two awaits is one step.                                         *)
(***************************************************************************)
EXTENDS Integers, Sequences, FiniteSets

CONSTANTS
  Consumer,         \* settlement replicas (processes)
  Handler,          \* delivery slots: concurrent _handle_message tasks
  ConsumerOf,       \* [Handler -> Consumer]; a replica's slots are its prefetch
  Msg,              \* messages: the copies of packets that reach the queue
  NoMsg,            \* an idle slot's message
  Key,              \* idempotency keys, one per signed region
  PacketId,
  KeyOf,            \* [Msg -> Key]: the key a body's signed region hashes to
  WellFormed,       \* the messages whose body parses as a PaymentPacket
  Signed,           \* the messages whose signature verifies
  PacketIdOf,       \* [Key -> PacketId]: header fields are inside the signed
  CreatedAt,        \* [Key -> Int]       region, so they follow from the key
  AadMatches,       \* keys whose envelope AAD is the one the header implies
  Opens,            \* [Key -> OpenResult]: what open_instruction does
  FreshnessWindow, ClockSkewTolerance, ClaimTTL, SettledTTL,
  Faults,           \* the kinds of failure the environment may produce
  MaxFaults,        \* bound: failures in a behaviour
  MaxTime           \* bound: the last value of the clock

OpenResult == {"instruction", "undecryptable", "mismatched"}

\* "postgres", "redis": a call raises, applied or not.  "crash": a replica dies.
\* "connection": a replica loses its broker connection and goes on with a new one.
\* "eviction": Redis loses a key early.  "slow": a handler outlives a clock tick.
\* "unexpected": the code raises where no except clause names the exception.
FaultKind == {"postgres", "redis", "crash", "connection", "eviction", "slow", "unexpected"}

ASSUME HandlerAssumption == ConsumerOf \in [Handler -> Consumer]

\* What a packet is, as far as settlement looks at it: a body may parse and its
\* signature may verify; everything else follows from the signed region, whose hash
\* is the key.  Hops are outside of it, so copies that took different ways agree.
PacketsOK ==
  /\ NoMsg \notin Msg
  /\ KeyOf \in [Msg -> Key]
  /\ WellFormed \subseteq Msg
  /\ Signed \subseteq Msg
  /\ PacketIdOf \in [Key -> PacketId]
  /\ CreatedAt \in [Key -> Int]
  /\ AadMatches \subseteq Key
  /\ Opens \in [Key -> OpenResult]

\* The settings' bounds.  dedupe_ttl_seconds has none of its own, but SET EX refuses
\* a TTL that is not positive.
SettingsOK ==
  /\ FreshnessWindow \in Nat \ {0}
  /\ ClockSkewTolerance \in Nat
  /\ ClaimTTL \in Nat \ {0}
  /\ SettledTTL \in Nat \ {0}

ASSUME PacketAssumption == PacketsOK
ASSUME SettingsAssumption == SettingsOK

ASSUME FaultAssumption ==
  /\ Faults \subseteq FaultKind
  /\ MaxFaults \in Nat
  /\ MaxTime \in Nat

VARIABLES
  broker,       \* [Msg -> BrokerState]: where the broker has each message
  verdict,      \* [Msg -> Outcome or "none"]: what the ack of m stood for
  redis,        \* [Key -> Marker]
  expires,      \* [Key -> Nat]: when the marker's TTL runs out
  settlements,  \* the settlements table, in commit order
  rejections,   \* the rejected_packets table: rows per key (or none) and reason
  pc, msg,      \* per handler: the await it is at, and its message
  outcome,      \* per handler: the outcome it is about to return
  live,         \* per handler: whether its delivery tag is still valid
  metrics,      \* per replica: the in-process counters
  now,          \* the settlement side's wall clock
  faults        \* failures so far

brokerVars  == <<broker, verdict>>
redisVars   == <<redis, expires>>
dbVars      == <<settlements, rejections>>
handlerVars == <<pc, msg, outcome, live>>
envVars     == <<now, faults>>
vars == <<brokerVars, redisVars, dbVars, handlerVars, metrics, envVars>>

BrokerState == {"unpublished", "ready", "unacked", "done"}
Marker      == {"absent", "claimed", "settled"}

\* A DUPLICATE_PACKET outcome carries one of two details; they are told apart.
Duplicate     == {"ALREADY_SETTLED", "IN_FLIGHT"}
RejectReason  == {"MALFORMED_PAYLOAD", "INVALID_SIGNATURE", "DECRYPTION_FAILED",
                  "PACKET_EXPIRED", "PACKET_NOT_YET_VALID"}
Outcome       == {"SETTLED", "INTERNAL_ERROR"} \cup Duplicate \cup RejectReason
Counter       == {"settled", "duplicates", "internal_errors"} \cup RejectReason

PC == {"idle", "validate", "persist", "claim", "get", "open", "persistClaimed",
       "releaseRejected", "write", "mark", "release", "ack", "nack"}

NoKey == "no key"
Row == [key : Key, packetId : PacketId, settledAt : Nat]

\* A payload too malformed to parse has no derivable key.
EvidenceKey(m) == IF m \in WellFormed THEN KeyOf[m] ELSE NoKey

-----------------------------------------------------------------------------
(* Operators of the pipeline. *)

\* Mutant of TooOld: the clock-skew tolerance is granted at the old edge as well.
TooOldWithSkew(k, t) == t - CreatedAt[k] > FreshnessWindow + ClockSkewTolerance

\* Both edges of the freshness window are inclusive.
TooOld(k, t)       == t - CreatedAt[k] > FreshnessWindow
TooFarAhead(k, t)  == CreatedAt[k] - t > ClockSkewTolerance

\* Mutant of PreClaimVerdict: the signature is left to the relays and the bridge.
VerdictUnverified(m, t) ==
  IF m \notin WellFormed                THEN "MALFORMED_PAYLOAD"
  ELSE IF TooOld(KeyOf[m], t)           THEN "PACKET_EXPIRED"
  ELSE IF TooFarAhead(KeyOf[m], t)      THEN "PACKET_NOT_YET_VALID"
  ELSE IF KeyOf[m] \notin AadMatches    THEN "MALFORMED_PAYLOAD"
  ELSE "none"

\* The synchronous prefix of _process: the first check that refuses m, in order.
PreClaimVerdict(m, t) ==
  IF m \notin WellFormed                THEN "MALFORMED_PAYLOAD"
  ELSE IF m \notin Signed               THEN "INVALID_SIGNATURE"
  ELSE IF TooOld(KeyOf[m], t)           THEN "PACKET_EXPIRED"
  ELSE IF TooFarAhead(KeyOf[m], t)      THEN "PACKET_NOT_YET_VALID"
  ELSE IF KeyOf[m] \notin AadMatches    THEN "MALFORMED_PAYLOAD"
  ELSE "none"

\* Mutant of CanInsert: a migration without the unique constraints.
InsertUnconstrained(k) == TRUE

\* The two unique constraints of the settlements table.
CanInsert(k) ==
  \A i \in DOMAIN settlements :
    /\ settlements[i].key # k
    /\ settlements[i].packetId # PacketIdOf[k]

NewRow(k) == [key |-> k, packetId |-> PacketIdOf[k], settledAt |-> now]

\* Mutant of CounterOf: a duplicate of a settled packet counts as settled.
CounterOfLoose(o) == CASE o \in {"SETTLED", "ALREADY_SETTLED"} -> "settled"
                       [] o = "IN_FLIGHT"                      -> "duplicates"
                       [] o = "INTERNAL_ERROR"                 -> "internal_errors"
                       [] OTHER                                -> o

\* The counter that SettlementMetrics.record increments for an outcome.
CounterOf(o) == CASE o = "SETTLED"        -> "settled"
                  [] o \in Duplicate      -> "duplicates"
                  [] o = "INTERNAL_ERROR" -> "internal_errors"
                  [] OTHER                -> o

HKey(h) == KeyOf[msg[h]]

Goto(h, l) == pc' = [pc EXCEPT ![h] = l]

SetMarker(k, marker, until) ==
  /\ redis' = [redis EXCEPT ![k] = marker]
  /\ expires' = [expires EXCEPT ![k] = until]

\* Mutant of Delete: the marker is blanked, the key stays.
Blank(k) == SetMarker(k, "", 0)

Delete(k) == SetMarker(k, "absent", 0)

\* Mutant of Return: every outcome is acked, the retryable one too.
ReturnAcked(h, o) ==
  /\ outcome' = [outcome EXCEPT ![h] = o]
  /\ metrics' = [metrics EXCEPT ![ConsumerOf[h]][CounterOf(o)] = @ + 1]
  /\ Goto(h, "ack")

\* process(): the pipeline returned o; count it, then ack unless it is retryable.
Return(h, o) ==
  /\ outcome' = [outcome EXCEPT ![h] = o]
  /\ metrics' = [metrics EXCEPT ![ConsumerOf[h]][CounterOf(o)] = @ + 1]
  /\ Goto(h, IF o = "INTERNAL_ERROR" THEN "nack" ELSE "ack")

\* An exception left process(): nothing is counted, the message is requeued.
Raise(h) ==
  /\ outcome' = [outcome EXCEPT ![h] = "none"]
  /\ Goto(h, "nack")
  /\ UNCHANGED metrics

Fault(kind) ==
  /\ kind \in Faults
  /\ faults < MaxFaults
  /\ faults' = faults + 1
  /\ UNCHANGED now

-----------------------------------------------------------------------------
Init ==
  /\ broker = [m \in Msg |-> "unpublished"]
  /\ verdict = [m \in Msg |-> "none"]
  /\ redis = [k \in Key |-> "absent"]
  /\ expires = [k \in Key |-> 0]
  /\ settlements = <<>>
  /\ rejections = [k \in Key \cup {NoKey} |-> [r \in RejectReason |-> 0]]
  /\ pc = [h \in Handler |-> "idle"]
  /\ msg = [h \in Handler |-> NoMsg]
  /\ outcome = [h \in Handler |-> "none"]
  /\ live = [h \in Handler |-> FALSE]
  /\ metrics = [c \in Consumer |-> [n \in Counter |-> 0]]
  /\ now = 0
  /\ faults = 0

(* The broker. *)

\* The bridge's publish: one more copy of a packet is on the durable queue.
Publish(m) ==
  /\ broker[m] = "unpublished"
  /\ broker' = [broker EXCEPT ![m] = "ready"]
  /\ UNCHANGED <<verdict, redisVars, dbVars, handlerVars, metrics, envVars>>

\* The broker pushes a ready message to a free slot; it stays unacked there.
Deliver(h, m) ==
  /\ pc[h] = "idle"
  /\ broker[m] = "ready"
  /\ broker' = [broker EXCEPT ![m] = "unacked"]
  /\ msg' = [msg EXCEPT ![h] = m]
  /\ live' = [live EXCEPT ![h] = TRUE]
  /\ Goto(h, "validate")
  /\ UNCHANGED <<verdict, redisVars, dbVars, outcome, metrics, envVars>>

(* The pipeline. *)

\* Steps 1 to 2b: parse, verify, freshness, AAD.  No await, so one step.
Validate(h) ==
  LET v == PreClaimVerdict(msg[h], now) IN
  /\ pc[h] = "validate"
  /\ outcome' = [outcome EXCEPT ![h] = v]
  /\ Goto(h, IF v = "none" THEN "claim" ELSE "persist")
  /\ UNCHANGED <<brokerVars, redisVars, dbVars, msg, live, metrics, envVars>>

\* What follows the attempt to store evidence: before the claim the outcome is
\* returned, after it the claim is released first.
AfterPersist(h) ==
  \/ /\ pc[h] = "persist"
     /\ Return(h, outcome[h])
  \/ /\ pc[h] = "persistClaimed"
     /\ Goto(h, "releaseRejected")
     /\ UNCHANGED <<outcome, metrics>>

\* Mutant of PersistRejection: one row per key and reason.
PersistRejectionOnce(h) ==
  /\ AfterPersist(h)
  /\ rejections' = [rejections EXCEPT ![EvidenceKey(msg[h])][outcome[h]] = 1]
  /\ UNCHANGED <<brokerVars, redisVars, settlements, msg, live, envVars>>

StoreEvidence(h) ==
  rejections' = [rejections EXCEPT ![EvidenceKey(msg[h])][outcome[h]] = @ + 1]

PersistRejection(h) ==
  /\ AfterPersist(h)
  /\ StoreEvidence(h)
  /\ UNCHANGED <<brokerVars, redisVars, settlements, msg, live, envVars>>

\* Best effort: a database error is swallowed and the rejection stands, its row
\* committed or not.
PersistRejectionFails(h) ==
  /\ Fault("postgres")
  /\ AfterPersist(h)
  /\ UNCHANGED rejections \/ StoreEvidence(h)
  /\ UNCHANGED <<brokerVars, redisVars, settlements, msg, live>>

\* Mutant of ClaimWon: a plain SET, without NX.
ClaimOverwrites(h) ==
  /\ pc[h] = "claim"
  /\ SetMarker(HKey(h), "claimed", now + ClaimTTL)
  /\ Goto(h, "open")
  /\ UNCHANGED <<brokerVars, dbVars, msg, outcome, live, metrics, envVars>>

\* Step 3: SET key claimed NX EX claim_ttl.
ClaimWon(h) ==
  /\ pc[h] = "claim"
  /\ redis[HKey(h)] = "absent"
  /\ SetMarker(HKey(h), "claimed", now + ClaimTTL)
  /\ Goto(h, "open")
  /\ UNCHANGED <<brokerVars, dbVars, msg, outcome, live, metrics, envVars>>

ClaimLost(h) ==
  /\ pc[h] = "claim"
  /\ redis[HKey(h)] # "absent"
  /\ Goto(h, "get")
  /\ UNCHANGED <<brokerVars, redisVars, dbVars, msg, outcome, live, metrics, envVars>>

\* The SET raises, with or without having taken effect at the server.  It is
\* outside the try block, so the exception leaves process().
ClaimFails(h) ==
  /\ pc[h] = "claim"
  /\ Fault("redis")
  /\ \/ UNCHANGED redisVars
     \/ /\ redis[HKey(h)] = "absent"
        /\ SetMarker(HKey(h), "claimed", now + ClaimTTL)
  /\ Raise(h)
  /\ UNCHANGED <<brokerVars, dbVars, msg, live>>

\* Mutant of GetMarker: the loser of the race also releases the key on its way out.
GetMarkerReleases(h) ==
  /\ pc[h] = "get"
  /\ Delete(HKey(h))
  /\ Return(h, IF redis[HKey(h)] = "settled" THEN "ALREADY_SETTLED" ELSE "IN_FLIGHT")
  /\ UNCHANGED <<brokerVars, dbVars, msg, live, envVars>>

\* Mutant of GetMarker: a duplicate is signalled by an exception and so requeued.
GetMarkerRaises(h) ==
  /\ pc[h] = "get"
  /\ Raise(h)
  /\ UNCHANGED <<brokerVars, redisVars, dbVars, msg, live, envVars>>

\* The loser's GET: anything but a settled marker, absence included, is IN_FLIGHT.
GetMarker(h) ==
  /\ pc[h] = "get"
  /\ Return(h, IF redis[HKey(h)] = "settled" THEN "ALREADY_SETTLED" ELSE "IN_FLIGHT")
  /\ UNCHANGED <<brokerVars, redisVars, dbVars, msg, live, envVars>>

GetMarkerFails(h) ==
  /\ pc[h] = "get"
  /\ Fault("redis")
  /\ Raise(h)
  /\ UNCHANGED <<brokerVars, redisVars, dbVars, msg, live>>

\* Steps 4 and 5: decrypt, and check the inner packet id against the outer one.
OpenInstruction(h) ==
  LET result == Opens[HKey(h)] IN
  /\ pc[h] = "open"
  /\ \/ /\ result = "instruction"
        /\ Goto(h, "write")
        /\ UNCHANGED outcome
     \/ /\ result # "instruction"
        /\ Goto(h, "persistClaimed")
        /\ outcome' = [outcome EXCEPT ![h] =
             IF result = "undecryptable" THEN "DECRYPTION_FAILED"
                                         ELSE "MALFORMED_PAYLOAD"]
  /\ UNCHANGED <<brokerVars, redisVars, dbVars, msg, live, metrics, envVars>>

\* Opening raises something else: the except branch releases, for a redelivery.  The
\* fault is bounded, so a plaintext that raises every time is not among these.
OpenInstructionFails(h) ==
  /\ pc[h] = "open"
  /\ Fault("unexpected")
  /\ Goto(h, "release")
  /\ UNCHANGED <<brokerVars, redisVars, dbVars, msg, outcome, live, metrics>>

\* The release at the end of _reject_after_claim: an unconditional DEL.
ReleaseRejected(h) ==
  /\ pc[h] = "releaseRejected"
  /\ Delete(HKey(h))
  /\ Return(h, outcome[h])
  /\ UNCHANGED <<brokerVars, dbVars, msg, live, envVars>>

\* It raises inside the try block, so the except branch releases once more.
ReleaseRejectedFails(h) ==
  /\ pc[h] = "releaseRejected"
  /\ Fault("redis")
  /\ UNCHANGED redisVars \/ Delete(HKey(h))
  /\ Goto(h, "release")
  /\ UNCHANGED <<brokerVars, dbVars, msg, outcome, live, metrics>>

\* Mutant of WriteSettlement: the constraint's refusal is reported as settled.
WriteReportsSettled(h) ==
  /\ pc[h] = "write"
  /\ settlements' = IF CanInsert(HKey(h)) THEN Append(settlements, NewRow(HKey(h)))
                                          ELSE settlements
  /\ outcome' = [outcome EXCEPT ![h] = "SETTLED"]
  /\ Goto(h, "mark")
  /\ UNCHANGED <<brokerVars, redisVars, rejections, msg, live, metrics, envVars>>

\* Step 6: the insert commits, or a unique constraint refuses it and the copy
\* is reported as a duplicate.  Either way the settled marker is written next.
WriteSettlement(h) ==
  /\ pc[h] = "write"
  /\ \/ /\ CanInsert(HKey(h))
        /\ settlements' = Append(settlements, NewRow(HKey(h)))
        /\ outcome' = [outcome EXCEPT ![h] = "SETTLED"]
     \/ /\ ~CanInsert(HKey(h))
        /\ outcome' = [outcome EXCEPT ![h] = "ALREADY_SETTLED"]
        /\ UNCHANGED settlements
  /\ Goto(h, "mark")
  /\ UNCHANGED <<brokerVars, redisVars, rejections, msg, live, metrics, envVars>>

\* Mutant of WriteSettlementFails: any database error is taken for a duplicate.
WriteFailsAsDuplicate(h) ==
  /\ pc[h] = "write"
  /\ Fault("postgres")
  /\ outcome' = [outcome EXCEPT ![h] = "ALREADY_SETTLED"]
  /\ Goto(h, "mark")
  /\ UNCHANGED <<brokerVars, redisVars, dbVars, msg, live, metrics>>

\* The transaction raises anything but IntegrityError: nothing was committed,
\* or it was and the connection died before the answer.
WriteSettlementFails(h) ==
  /\ pc[h] = "write"
  /\ Fault("postgres")
  /\ \/ UNCHANGED settlements
     \/ /\ CanInsert(HKey(h))
        /\ settlements' = Append(settlements, NewRow(HKey(h)))
  /\ Goto(h, "release")
  /\ UNCHANGED <<brokerVars, redisVars, rejections, msg, outcome, live, metrics>>

\* Mutant of MarkSettled: the marker keeps the short TTL of a claim.
MarkSettledBriefly(h) ==
  /\ pc[h] = "mark"
  /\ SetMarker(HKey(h), "settled", now + ClaimTTL)
  /\ Return(h, outcome[h])
  /\ UNCHANGED <<brokerVars, dbVars, msg, live, envVars>>

MarkSettled(h) ==
  /\ pc[h] = "mark"
  /\ SetMarker(HKey(h), "settled", now + SettledTTL)
  /\ Return(h, outcome[h])
  /\ UNCHANGED <<brokerVars, dbVars, msg, live, envVars>>

MarkSettledFails(h) ==
  /\ pc[h] = "mark"
  /\ Fault("redis")
  /\ UNCHANGED redisVars \/ SetMarker(HKey(h), "settled", now + SettledTTL)
  /\ Goto(h, "release")
  /\ UNCHANGED <<brokerVars, dbVars, msg, outcome, live, metrics>>

\* except Exception: release whatever marker the key has, ask for redelivery.
ReleaseClaim(h) ==
  /\ pc[h] = "release"
  /\ Delete(HKey(h))
  /\ Return(h, "INTERNAL_ERROR")
  /\ UNCHANGED <<brokerVars, dbVars, msg, live, envVars>>

ReleaseClaimFails(h) ==
  /\ pc[h] = "release"
  /\ Fault("redis")
  /\ UNCHANGED redisVars \/ Delete(HKey(h))
  /\ Raise(h)
  /\ UNCHANGED <<brokerVars, dbVars, msg, live>>

(* The answer to the broker.  One on a dead channel has no effect there. *)

Finish(h) ==
  /\ Goto(h, "idle")
  /\ msg' = [msg EXCEPT ![h] = NoMsg]
  /\ outcome' = [outcome EXCEPT ![h] = "none"]
  /\ live' = [live EXCEPT ![h] = FALSE]
  /\ UNCHANGED <<redisVars, dbVars, metrics, envVars>>

Ack(h) ==
  /\ pc[h] = "ack"
  /\ \/ /\ live[h]
        /\ broker' = [broker EXCEPT ![msg[h]] = "done"]
        /\ verdict' = [verdict EXCEPT ![msg[h]] = outcome[h]]
     \/ /\ ~live[h]
        /\ UNCHANGED brokerVars
  /\ Finish(h)

\* Mutant of Nack: a requeue on a dead channel reaches the broker all the same.
NackStale(h) ==
  /\ pc[h] = "nack"
  /\ broker' = [broker EXCEPT ![msg[h]] = "ready"]
  /\ Finish(h)
  /\ UNCHANGED verdict

Nack(h) ==
  /\ pc[h] = "nack"
  /\ \/ /\ live[h]
        /\ broker' = [broker EXCEPT ![msg[h]] = "ready"]
     \/ /\ ~live[h]
        /\ UNCHANGED broker
  /\ Finish(h)
  /\ UNCHANGED verdict

(* The environment. *)

Own(c) == {h \in Handler : ConsumerOf[h] = c}

\* The broker requeues what the replica's channel held unacked.
Requeued(c) ==
  LET held == {msg[h] : h \in {g \in Own(c) : live[g]}} IN
  broker' = [m \in Msg |-> IF m \in held THEN "ready" ELSE broker[m]]

\* The replica's deliveries are void and its tasks in hs are gone; Redis and Postgres
\* keep what was applied.
Disconnected(c, hs) ==
  /\ Requeued(c)
  /\ pc' = [h \in Handler |-> IF h \in hs THEN "idle" ELSE pc[h]]
  /\ msg' = [h \in Handler |-> IF h \in hs THEN NoMsg ELSE msg[h]]
  /\ outcome' = [h \in Handler |-> IF h \in hs THEN "none" ELSE outcome[h]]
  /\ live' = [h \in Handler |-> live[h] /\ h \notin Own(c)]
  /\ UNCHANGED <<verdict, redisVars, dbVars>>

\* A replica dies, or is stopped and its process ends, and is restarted: tasks and
\* counters are gone.
Crash(c) ==
  /\ \E h \in Own(c) : pc[h] # "idle"
  /\ Fault("crash")
  /\ Disconnected(c, Own(c))
  /\ metrics' = [metrics EXCEPT ![c] = [n \in Counter |-> 0]]

\* A replica's robust connection breaks and is made anew.  Whether the client library
\* cancels a task whose delivery is void is not in the code: any may go or run on.
ConnectionLost(c) ==
  /\ \E h \in Own(c) : live[h]
  /\ Fault("connection")
  /\ \E hs \in SUBSET Own(c) : Disconnected(c, hs)
  /\ UNCHANGED metrics

\* Redis loses a key before its TTL: memory pressure, a flush, a failover.
Evict(k) ==
  /\ redis[k] # "absent"
  /\ Fault("eviction")
  /\ Delete(k)
  /\ UNCHANGED <<brokerVars, dbVars, handlerVars, metrics>>

\* Time passes, and a marker whose TTL has run out is gone.  Without "slow" a
\* tick is longer than any handler takes.
Tick ==
  /\ now < MaxTime
  /\ "slow" \in Faults \/ \A h \in Handler : pc[h] = "idle"
  /\ now' = now + 1
  /\ redis' = [k \in Key |-> IF expires[k] <= now + 1 THEN "absent" ELSE redis[k]]
  /\ expires' = [k \in Key |-> IF expires[k] <= now + 1 THEN 0 ELSE expires[k]]
  /\ UNCHANGED <<brokerVars, dbVars, handlerVars, metrics, faults>>

\* The queue is drained and every slot waits for a delivery.
Drained ==
  /\ \A m \in Msg : broker[m] = "done"
  /\ \A h \in Handler : pc[h] = "idle"
  /\ UNCHANGED vars

-----------------------------------------------------------------------------
HandlerStep(h) ==
  \/ Validate(h)
  \/ PersistRejection(h) \/ PersistRejectionFails(h)
  \/ ClaimWon(h) \/ ClaimLost(h) \/ ClaimFails(h)
  \/ GetMarker(h) \/ GetMarkerFails(h)
  \/ OpenInstruction(h) \/ OpenInstructionFails(h)
  \/ ReleaseRejected(h) \/ ReleaseRejectedFails(h)
  \/ WriteSettlement(h) \/ WriteSettlementFails(h)
  \/ MarkSettled(h) \/ MarkSettledFails(h)
  \/ ReleaseClaim(h) \/ ReleaseClaimFails(h)
  \/ Ack(h) \/ Nack(h)

Next ==
  \/ \E m \in Msg : Publish(m)
  \/ \E h \in Handler, m \in Msg : Deliver(h, m)
  \/ \E h \in Handler : HandlerStep(h)
  \/ \E c \in Consumer : Crash(c) \/ ConnectionLost(c)
  \/ \E k \in Key : Evict(k)
  \/ Tick
  \/ Drained

Spec == Init /\ [][Next]_vars

\* The broker keeps pushing what is ready, and the event loop resumes every task
\* whose awaited call has returned or failed.
Fairness ==
  /\ \A m \in Msg : WF_vars(\E h \in Handler : Deliver(h, m))
  /\ \A h \in Handler : WF_vars(HandlerStep(h))

FairSpec == Spec /\ Fairness

-----------------------------------------------------------------------------
(* Properties. *)

Settled(k)  == \E i \in DOMAIN settlements : settlements[i].key = k
Genuine(m)  == m \in WellFormed \cap Signed
Payable(k)  == k \in AadMatches /\ Opens[k] = "instruction"

\* Between winning the claim and the end of the pipeline.
Holding(h) == pc[h] \in {"open", "persistClaimed", "releaseRejected",
                         "write", "mark", "release"}

\* Every variable has its type.
TypeOK ==
  /\ broker \in [Msg -> BrokerState]
  /\ verdict \in [Msg -> Outcome \cup {"none"}]
  /\ redis \in [Key -> Marker]
  /\ expires \in [Key -> Nat]
  /\ settlements \in Seq(Row)
  /\ rejections \in [Key \cup {NoKey} -> [RejectReason -> Nat]]
  /\ pc \in [Handler -> PC]
  /\ msg \in [Handler -> Msg \cup {NoMsg}]
  /\ outcome \in [Handler -> Outcome \cup {"none"}]
  /\ live \in [Handler -> BOOLEAN]
  /\ metrics \in [Consumer -> [Counter -> Nat]]
  /\ now \in Nat
  /\ faults \in 0..MaxFaults

\* A forged or altered copy cannot occupy a packet's key: what has a marker in Redis, and
\* what a handler works on past the claim, arrived well formed and signed with the AAD of
\* its header (the checks before try_claim in _process).
OnlyGenuineOccupy ==
  /\ \A k \in Key : redis[k] # "absent" =>
       /\ k \in AadMatches
       /\ \E m \in Msg : Genuine(m) /\ KeyOf[m] = k /\ broker[m] # "unpublished"
  /\ \A h \in Handler : Holding(h) => Genuine(msg[h]) /\ HKey(h) \in AadMatches

\* No two settlement rows are for the same signed packet or the same packet id,
\* whatever fails or races (Settlement.__table_args__, _write_settlement).
ExactlyOnce ==
  \A i, j \in DOMAIN settlements :
    i # j => /\ settlements[i].key # settlements[j].key
             /\ settlements[i].packetId # settlements[j].packetId

\* A row is only ever written for a packet that arrived well formed and signed,
\* with the AAD its header implies, and that opened to an instruction: the order
\* of the checks in _process lets no other packet through.
SettlesOnlyPayable ==
  \A i \in DOMAIN settlements :
    /\ Payable(settlements[i].key)
    /\ \E m \in Msg : /\ Genuine(m)
                      /\ KeyOf[m] = settlements[i].key
                      /\ broker[m] # "unpublished"

\* A row is committed within the freshness window of its packet: redeliveries
\* are checked again, so a retry cannot settle what has expired (_check_freshness).
SettledWhileFresh ==
  \A i \in DOMAIN settlements :
    settlements[i].settledAt - CreatedAt[settlements[i].key]
      \in (0 - ClockSkewTolerance)..FreshnessWindow

\* mark_settled is "called only after the Postgres transaction has committed": a
\* settled marker always has its row (_write_settlement).
SettledMarkerSound == \A k \in Key : redis[k] = "settled" => Settled(k)

\* "Ack only after commit": a message acked as settled, or as a duplicate of
\* something settled, has its row (_handle_message, ClaimOutcome.ALREADY_SETTLED).
AckedSettledHasRow ==
  \A m \in Msg : verdict[m] \in {"SETTLED", "ALREADY_SETTLED"} => Settled(KeyOf[m])

\* "Nothing is lost by dropping the extra copy": once a copy of a payable packet
\* is dropped as a duplicate, the packet is settled, or a genuine copy of it is
\* still at the broker or in a handler, or one has been refused as expired
\* (DedupeStore.claim, the ack in _handle_message).
NoPaymentLost ==
  \A m \in Msg :
    verdict[m] \in Duplicate /\ Payable(KeyOf[m]) =>
      \/ Settled(KeyOf[m])
      \/ \E n \in Msg :
           /\ Genuine(n)
           /\ KeyOf[n] = KeyOf[m]
           /\ \/ broker[n] \in {"ready", "unacked"}
              \/ \E h \in Handler : msg[h] = n
              \/ verdict[n] = "PACKET_EXPIRED"

\* Two handlers never work past the claim for one key at the same time, as long
\* as no handler outlives its claim and Redis answers (SET NX in claim).
ClaimExclusive ==
  \A g, h \in Handler :
    g # h /\ Holding(g) /\ Holding(h) => HKey(g) # HKey(h)

\* "A duplicate packet never reaches the database": as long as nothing has failed, no
\* handler gets to the insert for a key that has a row (the marker's TTL against the
\* freshness window).
NoDuplicateReachesPostgres ==
  faults = 0 => \A h \in Handler : pc[h] = "write" => ~Settled(HKey(h))

\* The broker has a message out unacked exactly when one live delivery holds it,
\* so an ack or a requeue can never be for somebody else's delivery
\* (_handle_message, against crashes and reconnects).
OneLiveDelivery ==
  /\ \A h \in Handler : live[h] => pc[h] # "idle" /\ broker[msg[h]] = "unacked"
  /\ \A g, h \in Handler : live[g] /\ live[h] /\ msg[g] = msg[h] => g = h
  /\ \A m \in Msg : broker[m] = "unacked" => \E h \in Handler : live[h] /\ msg[h] = m

\* "A settled one keeps it": a settled marker goes away by its TTL (or eviction),
\* never because a handler releases a claim (release_claim).
SettledMarkerKept ==
  [][\A k \in Key : redis[k] = "settled" => redis'[k] = "settled" \/ now' # now]_vars

\* The settled counters of all replicas, one pair for each settlement counted.
SettledCounts == UNION {{c} \X (1..metrics[c]["settled"]) : c \in Consumer}
Settling == {h \in Handler : pc[h] = "mark" /\ outcome[h] = "SETTLED"}

\* The replicas' settled counters, with the settlements being marked right now,
\* never add up to more than the rows (SettlementMetrics.record).
SettledNeverOverstated ==
  Cardinality(SettledCounts) + Cardinality(Settling) <= Len(settlements)

\* Until something fails they add up to exactly the rows (SettlementMetrics.record,
\* once per process()).
SettledCountedOnce ==
  faults = 0 => Cardinality(SettledCounts) + Cardinality(Settling) = Len(settlements)

\* Every message acked as refused for cause has a rejected_packets row of its own
\* with its key and reason (_persist_rejection).
EvidencePerRefusal ==
  \A k \in Key \cup {NoKey}, r \in RejectReason :
    rejections[k][r] >= Cardinality({m \in Msg : EvidenceKey(m) = k /\ verdict[m] = r})

\* The queue is empty again in the end: whatever is requeued is acked at last, since
\* only outcomes that can change are requeued, "requeueing would spin forever"
\* otherwise (_handle_message).
QueueDrains ==
  (\E m \in Msg : broker[m] = "ready")
    ~> (\A m \in Msg : broker[m] \in {"unpublished", "done"})
=============================================================================
