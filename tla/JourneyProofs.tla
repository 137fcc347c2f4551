---------------------------- MODULE JourneyProofs ----------------------------
(***************************************************************************)
(* No payment is lost: what settlement drops as a duplicate is settled or  *)
(* still on its way in another copy, and so, over the whole journey, is    *)
(* what a payer was told is accepted.                                      *)
(***************************************************************************)
EXTENDS EndToEnd, LedgerProofs, MeshProofs

USE HandlerAssumption, PacketAssumption, SettingsAssumption, FaultAssumption
USE DEF PacketsOK, SettingsOK
USE DEF vars, brokerVars, redisVars, dbVars, handlerVars, envVars

-----------------------------------------------------------------------------
(* Refusals have a cause. *)

\* A genuine and payable packet is refused only for its date.
Justified(m, r) ==
  \/ r = "PACKET_EXPIRED"
  \/ ~Genuine(m)
  \/ ~Payable(KeyOf[m])
  \/ r = "PACKET_NOT_YET_VALID" /\ CreatedAt[KeyOf[m]] > ClockSkewTolerance

\* A handler that is about to refuse its message, or to tell the broker so.
Refuses(h) ==
  \/ pc[h] \in {"persist", "persistClaimed", "releaseRejected"}
  \/ pc[h] = "ack" /\ outcome[h] \in RejectReason

RefusedForCause ==
  /\ \A h \in Handler :
       /\ Refuses(h) => Justified(msg[h], outcome[h])
       /\ pc[h] \in {"persistClaimed", "releaseRejected"} => ~Payable(HKey(h))
  /\ \A m \in Msg : verdict[m] \in RejectReason => Justified(m, verdict[m])

\* What the broker is done with has been answered for, and not with a retryable outcome.
DoneIsAnswered ==
  \A m \in Msg : broker[m] = "done" => verdict[m] \notin {"none", "INTERNAL_ERROR"}

-----------------------------------------------------------------------------
(* What holds while every handler comes to an end that the broker hears of. *)

\* No replica dies or loses its connection, and no call to Redis raises.  The database
\* may fail, opening may raise, Redis may lose keys and handlers may be slow.
SteadyService == Faults \cap {"redis", "crash", "connection"} = {}

\* Every delivery in a handler's hands is still its own.
AnswersHeard == \A h \in Handler : pc[h] # "idle" => live[h]

\* A payable packet's marker has its row, or a handler that works on it.
MarkersHeld ==
  \A k \in Key : Payable(k) /\ redis[k] # "absent" =>
    Settled(k) \/ \E h \in Handler : Holding(h) /\ HKey(h) = k

\* A packet that got as far as the claim is not dated too far ahead any more.
ArrivedInTime == \A h \in Handler : Admitted(h) => ~TooFarAhead(HKey(h), now)

\* A handler whose message will be settled, requeued, refused as expired, or dropped
\* in favour of another copy of which this can be said.
Carrying(h) ==
  \/ Holding(h)
  \/ live[h] /\ \/ pc[h] \in {"validate", "claim", "nack"}
                \/ pc[h] \in {"persist", "ack"} /\ outcome[h] = "PACKET_EXPIRED"

\* A copy of the packet is waiting, in such a handler's hands, or has expired.
CopyLeft(k) ==
  \E n \in Msg : /\ Genuine(n)
                 /\ KeyOf[n] = k
                 /\ \/ broker[n] = "ready"
                    \/ verdict[n] = "PACKET_EXPIRED"
                    \/ \E h \in Handler : Carrying(h) /\ msg[h] = n

\* A copy of the packet is being dropped, or has been dropped, as a duplicate.
DropsCopy(h) == pc[h] = "get" \/ (pc[h] = "ack" /\ outcome[h] \in Duplicate)
Dropping(k) ==
  \/ \E h \in Handler : DropsCopy(h) /\ HKey(h) = k
  \/ \E m \in Msg : verdict[m] \in Duplicate /\ KeyOf[m] = k

DropsAreSafe ==
  \A k \in Key : Dropping(k) /\ Payable(k) =>
    ~TooFarAhead(k, now) /\ (Settled(k) \/ CopyLeft(k))

\* What the argument rests on of the other modules' invariants.
ServiceInv ==
  TypeInv /\ AdmittedOK /\ ReportsHaveRows /\ OneLiveDelivery /\ VerdictIsFinal

LossInv ==
  /\ RefusedForCause /\ AnswersHeard
  /\ MarkersHeld /\ ArrivedInTime /\ DropsAreSafe

-----------------------------------------------------------------------------
(* Each part is kept by every step. *)

LEMMA PreClaimJustified ==
  ASSUME NEW m \in Msg, NEW t \in Nat, PreClaimVerdict(m, t) # "none"
  PROVE  Justified(m, PreClaimVerdict(m, t))
BY DEF PreClaimVerdict, Justified, Genuine, Payable, TooFarAhead

\* Where a refusal begins: a check before the claim fails, or the envelope does not open.
LEMMA RefusalStep ==
  ASSUME TypeInv, NEW h \in Handler, HandlerStep(h), Refuses(h)'
  PROVE  /\ msg'[h] = msg[h] /\ msg[h] \in Msg
         /\ \/ /\ Refuses(h) /\ outcome'[h] = outcome[h]
               /\ pc'[h] \in {"persistClaimed", "releaseRejected"}
                    => pc[h] \in {"persistClaimed", "releaseRejected"}
            \/ /\ outcome'[h] = PreClaimVerdict(msg[h], now)
               /\ PreClaimVerdict(msg[h], now) # "none"
               /\ pc'[h] = "persist"
            \/ Opens[HKey(h)] # "instruction"
<1>0. TypeOK /\ HandlersOK
  BY DEF TypeInv
<1>1. pc[h] \in Pipeline /\ pc'[h] \in Follows[pc[h]] /\ msg'[h] = msg[h]
  BY PipelineMove DEF Refuses
<1>2. msg[h] \in Msg
  BY <1>1, HKeyType DEF Pipeline
<1>3. CASE Validate(h)
  BY <1>0, <1>1, <1>2, <1>3 DEF Validate, Goto, TypeOK, Refuses
<1>4. CASE OpenInstruction(h)
  BY <1>0, <1>1, <1>2, <1>4 DEF OpenInstruction, Goto, TypeOK, Refuses
<1>5. CASE PersistRejection(h) \/ PersistRejectionFails(h)
  BY <1>0, <1>1, <1>2, <1>5
  DEF PersistRejection, PersistRejectionFails, AfterPersist, Return, Goto, TypeOK, Refuses
<1>6. CASE ReleaseRejected(h)
  BY <1>0, <1>1, <1>2, <1>6 DEF ReleaseRejected, Return, Goto, TypeOK, Refuses
<1>7. CASE /\ ~Validate(h) /\ ~OpenInstruction(h) /\ ~PersistRejection(h)
           /\ ~PersistRejectionFails(h) /\ ~ReleaseRejected(h)
  <2>1. ~Refuses(h)'
    BY <1>0, HandlerStep(h), <1>7
    DEF HandlerStep, HandlersOK, TypeOK, Refuses, RejectReason, ClaimWon, ClaimLost,
        ClaimFails, GetMarker, GetMarkerFails, OpenInstructionFails, ReleaseRejectedFails,
        WriteSettlement, WriteSettlementFails, MarkSettled, MarkSettledFails, ReleaseClaim,
        ReleaseClaimFails, Ack, Nack, Finish, Return, Raise, Goto
  <2> QED
    BY <2>1
<1> QED
  BY <1>3, <1>4, <1>5, <1>6, <1>7

LEMMA RefusedForCauseNext == TypeInv /\ RefusedForCause /\ [Next]_vars => RefusedForCause'
<1> SUFFICES ASSUME TypeInv, RefusedForCause, [Next]_vars PROVE RefusedForCause'
  OBVIOUS
<1>0. TypeOK /\ HandlersOK
  BY DEF TypeInv
<1> DEFINE Claimed(h) == pc[h] \in {"persistClaimed", "releaseRejected"}
           OK(h) == /\ Refuses(h) => Justified(msg[h], outcome[h])
                    /\ Claimed(h) => ~Payable(HKey(h))
<1>1. ASSUME NEW h \in Handler, pc'[h] = pc[h], msg'[h] = msg[h], outcome'[h] = outcome[h]
      PROVE  OK(h)'
  BY <1>1 DEF RefusedForCause, Refuses, Justified, Genuine, Payable, HKey
<1>2. ASSUME NEW h \in Handler, pc'[h] \in {"idle", "validate"} PROVE OK(h)'
  BY <1>2 DEF Refuses
<1>3. ASSUME NEW h \in Handler, HandlerStep(h), NEW g \in Handler PROVE OK(g)'
  <2>1. CASE g # h
    BY <1>0, <1>1, <1>3, <2>1, HandlerFrame
  <2>2. CASE ~Refuses(h)' /\ g = h
    BY <2>2 DEF Refuses
  <2>3. CASE Refuses(h)' /\ g = h
    <3>1. /\ msg'[h] = msg[h] /\ msg[h] \in Msg /\ HKey(h) = KeyOf[msg[h]]
          /\ HKey(h)' = HKey(h)
      BY <1>3, <2>3, RefusalStep DEF HKey
    <3>2. CASE Refuses(h) /\ outcome'[h] = outcome[h] /\ (Claimed(h)' => Claimed(h))
      BY <2>3, <3>1, <3>2 DEF RefusedForCause, Justified, Genuine, Payable
    <3>3. CASE /\ outcome'[h] = PreClaimVerdict(msg[h], now)
               /\ PreClaimVerdict(msg[h], now) # "none" /\ pc'[h] = "persist"
      <4>1. Justified(msg[h], outcome'[h])
        BY <1>0, <3>1, <3>3, PreClaimJustified DEF TypeOK
      <4> QED
        BY <2>3, <3>1, <3>3, <4>1 DEF Justified, Genuine, Payable
    <3>4. CASE Opens[HKey(h)] # "instruction"
      BY <2>3, <3>1, <3>4 DEF Justified, Genuine, Payable
    <3> QED
      BY <1>3, <2>3, <3>2, <3>3, <3>4, RefusalStep
  <2> QED
    BY <2>1, <2>2, <2>3
<1>4. ASSUME NEW h \in Handler, NEW m \in Msg, Deliver(h, m), NEW g \in Handler PROVE OK(g)'
  <2>1. CASE g # h
    BY <1>0, <1>1, <1>4, <2>1 DEF Deliver, Goto, TypeOK
  <2>2. CASE g = h
    BY <1>0, <1>2, <1>4, <2>2 DEF Deliver, Goto, TypeOK
  <2> QED
    BY <2>1, <2>2
<1>5. ASSUME NEW c \in Consumer, NEW hs \in SUBSET Own(c), Disconnected(c, hs),
             NEW g \in Handler
      PROVE  OK(g)'
  BY <1>1, <1>2, <1>5 DEF Disconnected
<1>6. ASSUME UNCHANGED <<pc, msg, outcome>>, NEW g \in Handler PROVE OK(g)'
  BY <1>1, <1>6
<1>7. \A g \in Handler : OK(g)'
  BY <1>3, <1>4, <1>5, <1>6, Disconnections DEF Next, Publish, Evict, Tick, Drained
<1>8. ASSUME NEW m \in Msg, verdict'[m] \in RejectReason PROVE Justified(m, verdict'[m])
  <2>1. CASE verdict'[m] = verdict[m]
    BY <1>8, <2>1 DEF RefusedForCause
  <2>2. CASE verdict'[m] # verdict[m]
    <3>1. PICK h \in Handler : Ack(h) /\ msg[h] = m /\ verdict'[m] = outcome[h]
      BY <2>2, VerdictStep
    <3> QED
      BY <1>8, <3>1 DEF RefusedForCause, Refuses, Ack
  <2> QED
    BY <2>1, <2>2
<1> QED
  BY <1>7, <1>8 DEF RefusedForCause, Justified, Genuine, Payable

LEMMA DoneIsAnsweredNext == TypeInv /\ DoneIsAnswered /\ [Next]_vars => DoneIsAnswered'
<1> SUFFICES ASSUME TypeInv, DoneIsAnswered, [Next]_vars, NEW m \in Msg, broker'[m] = "done"
             PROVE  verdict'[m] \notin {"none", "INTERNAL_ERROR"}
  BY DEF DoneIsAnswered
<1>0. TypeOK /\ HandlersOK
  BY DEF TypeInv
<1>1. ASSUME NEW h \in Handler, Ack(h) PROVE verdict'[m] \notin {"none", "INTERNAL_ERROR"}
  <2>1. outcome[h] \notin {"none", "INTERNAL_ERROR"}
    BY <1>0, <1>1 DEF Ack, HandlersOK, Outcome, Duplicate, RejectReason
  <2> QED
    BY <1>0, <1>1, <2>1, HKeyType DEF Ack, DoneIsAnswered, TypeOK
<1>2. ASSUME ~\E h \in Handler : Ack(h) PROVE broker[m] = "done" /\ verdict'[m] = verdict[m]
  <2>1. verdict'[m] = verdict[m]
    BY <1>2, VerdictStep
  <2>2. ASSUME NEW h \in Handler, HandlerStep(h) PROVE broker[m] = "done"
    <3>1. CASE Nack(h)
      BY <1>0, <3>1, HKeyType DEF Nack, TypeOK
    <3> QED
      BY <1>2, <2>2, <3>1, PipelineStep
  <2>3. ASSUME NEW c \in Consumer, Crash(c) \/ ConnectionLost(c) PROVE broker[m] = "done"
    BY <2>3, Disconnections DEF Disconnected, Requeued
  <2> QED
    BY <1>0, <2>1, <2>2, <2>3 DEF Next, Publish, Deliver, Evict, Tick, Drained, TypeOK
<1> QED
  BY <1>1, <1>2 DEF DoneIsAnswered

\* What can happen to a steady service.
LEMMA SteadySteps ==
  ASSUME SteadyService, [Next]_vars
  PROVE  \/ \E h \in Handler : HandlerStep(h)
         \/ \E h \in Handler, m \in Msg : Deliver(h, m)
         \/ \E m \in Msg : Publish(m)
         \/ \E k \in Key : Evict(k)
         \/ Tick
         \/ Drained
         \/ UNCHANGED vars
BY DEF SteadyService, Next, Crash, ConnectionLost, Fault

\* Only a crash or a lost connection would take a delivery from its handler.
LEMMA AnswersHeardNext ==
  ASSUME SteadyService
  PROVE  TypeInv /\ AnswersHeard /\ [Next]_vars => AnswersHeard'
<1> SUFFICES ASSUME TypeInv, AnswersHeard, [Next]_vars PROVE AnswersHeard'
  OBVIOUS
<1>0. TypeOK
  BY DEF TypeInv
<1>1. ASSUME NEW h \in Handler, HandlerStep(h) PROVE AnswersHeard'
  <2>1. CASE Ack(h) \/ Nack(h)
    BY <1>0, <2>1 DEF Ack, Nack, Finish, Goto, TypeOK, AnswersHeard
  <2>2. CASE ~Ack(h) /\ ~Nack(h)
    <3>1. live'[h] = live[h] /\ pc[h] # "idle"
      BY <1>1, <2>2, PipelineStep, PipelineMove DEF Pipeline
    <3>2. \A g \in Handler : g # h => pc'[g] = pc[g] /\ live'[g] = live[g]
      BY <1>0, <1>1, HandlerFrame
    <3> QED
      BY <3>1, <3>2 DEF AnswersHeard
  <2> QED
    BY <2>1, <2>2
<1>2. ASSUME NEW h \in Handler, NEW m \in Msg, Deliver(h, m) PROVE AnswersHeard'
  BY <1>0, <1>2 DEF Deliver, Goto, TypeOK, AnswersHeard
<1>3. CASE UNCHANGED <<pc, live>>
  BY <1>3 DEF AnswersHeard
<1> QED
  BY <1>1, <1>2, <1>3, SteadySteps DEF Publish, Evict, Tick, Drained

LEMMA NowGrows == TypeInv /\ [Next]_vars => now' \in Nat /\ now' >= now
<1> SUFFICES ASSUME TypeInv, [Next]_vars PROVE now' \in Nat /\ now' >= now
  OBVIOUS
<1>0. now \in Nat
  BY DEF TypeInv, TypeOK
<1>1. ASSUME NEW h \in Handler, HandlerStep(h) PROVE now' = now
  BY <1>1
  DEF HandlerStep, Validate, PersistRejection, PersistRejectionFails, ClaimWon, ClaimLost,
      ClaimFails, GetMarker, GetMarkerFails, OpenInstruction, OpenInstructionFails,
      ReleaseRejected, ReleaseRejectedFails, WriteSettlement, WriteSettlementFails,
      MarkSettled, MarkSettledFails, ReleaseClaim, ReleaseClaimFails, Ack, Nack, Finish,
      Fault
<1> QED
  BY <1>0, <1>1
  DEF Next, Publish, Deliver, Crash, ConnectionLost, Disconnected, Evict, Tick, Drained,
      Fault

\* Once a packet's date is within the tolerance it stays so.
LEMMA InTimeStays ==
  ASSUME TypeInv, [Next]_vars, NEW k \in Key, ~TooFarAhead(k, now)
  PROVE  ~TooFarAhead(k, now)'
<1>1. now \in Nat /\ CreatedAt[k] \in Int
  BY DEF TypeInv, TypeOK
<1> QED
  BY <1>1, NowGrows DEF TooFarAhead

LEMMA ArrivedInTimeNext ==
  TypeInv /\ ArrivedInTime /\ [Next]_vars => ArrivedInTime'
<1> SUFFICES ASSUME TypeInv, ArrivedInTime, [Next]_vars, NEW g \in Handler, Admitted(g)'
             PROVE  ~TooFarAhead(HKey(g), now)'
  BY DEF ArrivedInTime
<1>0. TypeOK
  BY DEF TypeInv
<1> DEFINE Was == /\ HKey(g)' = HKey(g) /\ HKey(g) \in Key
                  /\ ~TooFarAhead(HKey(g), now)
<1>1. CASE Was
  <2>1. ASSUME NEW k \in Key, k = HKey(g), ~TooFarAhead(k, now) PROVE ~TooFarAhead(k, now)'
    BY <2>1, InTimeStays
  <2> QED
    BY <1>1, <2>1 DEF TooFarAhead
<1>2. ASSUME pc'[g] = pc[g], msg'[g] = msg[g] PROVE Was
  BY <1>2, HKeyType DEF ArrivedInTime, Admitted, Holding, HKey
<1>3. ASSUME NEW h \in Handler, HandlerStep(h) PROVE Was
  <2>1. CASE g # h
    BY <1>0, <1>2, <1>3, <2>1, HandlerFrame
  <2>2. CASE g = h
    <3>1. /\ pc[g] \in Pipeline /\ pc'[g] \in Follows[pc[g]]
          /\ HKey(g)' = HKey(g) /\ HKey(g) \in Key
      BY <1>3, <2>2, PipelineMove, HKeyType DEF Admitted, Holding, HKey, Pipeline
    <3>2. CASE Validate(g)
      BY <1>0, <3>1, <3>2
      DEF Validate, PreClaimVerdict, Goto, TypeOK, Admitted, Holding, HKey
    <3>3. CASE pc[g] # "validate"
      BY <3>1, <3>3 DEF Admitted, Holding, Follows, Pipeline, ArrivedInTime
    <3>4. CASE pc[g] = "validate" /\ ~Validate(g)
      BY <1>3, <2>2, <3>4
      DEF HandlerStep, PersistRejection, PersistRejectionFails, AfterPersist, ClaimWon,
          ClaimLost, ClaimFails, GetMarker, GetMarkerFails, OpenInstruction,
          OpenInstructionFails, ReleaseRejected, ReleaseRejectedFails, WriteSettlement,
          WriteSettlementFails, MarkSettled, MarkSettledFails, ReleaseClaim,
          ReleaseClaimFails, Ack, Nack
    <3> QED
      BY <3>2, <3>3, <3>4
  <2> QED
    BY <2>1, <2>2
<1>4. ASSUME NEW h \in Handler, NEW m \in Msg, Deliver(h, m) PROVE Was
  BY <1>0, <1>2, <1>4 DEF Deliver, Goto, TypeOK, Admitted, Holding
<1>5. ASSUME NEW c \in Consumer, NEW hs \in SUBSET Own(c), Disconnected(c, hs) PROVE Was
  BY <1>2, <1>5 DEF Disconnected, Admitted, Holding
<1> QED
  BY <1>1, <1>2, <1>3, <1>4, <1>5, Disconnections DEF Next, Publish, Evict, Tick, Drained

\* A handler stops holding a payable packet's claim only when it is settled or released.
LEMMA HoldingEnds ==
  ASSUME SteadyService, TypeInv, RefusedForCause, AnswersHeard, ReportsHaveRows, [Next]_vars,
         NEW k \in Key, Payable(k), NEW h \in Handler, Holding(h), HKey(h) = k
  PROVE  \/ Holding(h)' /\ HKey(h)' = k
         \/ Settled(k)
         \/ redis'[k] = "absent" /\ pc'[h] = "nack" /\ msg'[h] = msg[h] /\ live'[h]
<1>0. TypeOK
  BY DEF TypeInv
<1>1. CASE HandlerStep(h)
  <2>1. pc[h] \in Pipeline /\ pc'[h] \in Follows[pc[h]] /\ msg'[h] = msg[h]
    BY <1>1, PipelineMove DEF Holding
  <2>2. CASE pc[h] \in {"open", "write"}
    BY <2>1, <2>2 DEF Holding, Follows, HKey
  <2>3. CASE pc[h] \in {"persistClaimed", "releaseRejected"}
    BY <2>3 DEF RefusedForCause
  <2>4. CASE pc[h] = "mark"
    BY <2>4 DEF ReportsHaveRows
  <2>5. CASE pc[h] = "release"
    <3>1. ReleaseClaim(h) \/ ReleaseClaimFails(h)
      BY <1>1, <2>5
      DEF HandlerStep, Validate, PersistRejection, PersistRejectionFails, AfterPersist,
          ClaimWon, ClaimLost, ClaimFails, GetMarker, GetMarkerFails, OpenInstruction,
          OpenInstructionFails, ReleaseRejected, ReleaseRejectedFails, WriteSettlement,
          WriteSettlementFails, MarkSettled, MarkSettledFails, Ack, Nack
    <3>2. redis'[k] = "absent"
      BY <1>0, <3>1 DEF ReleaseClaim, ReleaseClaimFails, SteadyService, Fault, Delete,
                        SetMarker, TypeOK
    <3>3. live[h]
      BY <2>5 DEF AnswersHeard
    <3>4. live'[h]
      BY <3>1, <3>3 DEF ReleaseClaim, ReleaseClaimFails
    <3> QED
      BY <2>1, <2>5, <3>2, <3>4 DEF Follows
  <2> QED
    BY <2>2, <2>3, <2>4, <2>5 DEF Holding
<1>2. ASSUME NEW g \in Handler, HandlerStep(g), g # h PROVE Holding(h)' /\ HKey(h)' = k
  BY <1>0, <1>2, HandlerFrame DEF Holding, HKey
<1>3. ASSUME NEW g \in Handler, NEW m \in Msg, Deliver(g, m)
      PROVE  Holding(h)' /\ HKey(h)' = k
  BY <1>0, <1>3 DEF Deliver, Goto, TypeOK, Holding, HKey
<1>4. CASE UNCHANGED <<pc, msg>>
  BY <1>4 DEF Holding, HKey
<1> QED
  BY <1>1, <1>2, <1>3, <1>4, SteadySteps DEF Publish, Evict, Tick, Drained

LEMMA MarkersHeldNext ==
  ASSUME SteadyService
  PROVE  /\ TypeInv /\ RefusedForCause /\ AnswersHeard /\ ReportsHaveRows /\ MarkersHeld
         /\ [Next]_vars
         => MarkersHeld'
<1> SUFFICES ASSUME TypeInv, RefusedForCause, AnswersHeard, ReportsHaveRows, MarkersHeld,
                    [Next]_vars, NEW k \in Key, Payable(k), redis'[k] # "absent"
             PROVE  Settled(k)' \/ \E h \in Handler : (Holding(h) /\ HKey(h) = k)'
  BY DEF MarkersHeld, Payable
<1>0. TypeOK
  BY DEF TypeInv
<1>1. CASE redis[k] # "absent"
  <2>1. CASE Settled(k)
    BY <2>1, SettledStays
  <2>2. ASSUME NEW h \in Handler, Holding(h), HKey(h) = k
        PROVE  Settled(k) \/ (Holding(h)' /\ HKey(h)' = k)
    BY <2>2, HoldingEnds
  <2> QED
    BY <1>1, <2>1, <2>2 DEF MarkersHeld
<1>2. CASE redis[k] = "absent"
  <2>1. ASSUME NEW h \in Handler, HandlerStep(h)
        PROVE  Settled(k) \/ (Holding(h)' /\ HKey(h)' = k)
    <3>1. CASE ClaimWon(h)
      BY <1>0, <1>2, <3>1, HKeyType DEF ClaimWon, SetMarker, Goto, TypeOK, Holding, HKey
    <3>2. CASE MarkSettled(h)
      BY <1>0, <1>2, <3>2, HKeyType DEF MarkSettled, SetMarker, TypeOK, ReportsHaveRows
    <3>3. CASE ~ClaimWon(h) /\ ~MarkSettled(h)
      <4>1. redis'[k] = redis[k] \/ redis'[k] = "absent"
        BY <1>0, <2>1, <3>3
        DEF HandlerStep, SteadyService, TypeOK, Validate, PersistRejection,
            PersistRejectionFails, ClaimLost, ClaimFails, GetMarker, GetMarkerFails,
            OpenInstruction, OpenInstructionFails, ReleaseRejected, ReleaseRejectedFails,
            WriteSettlement, WriteSettlementFails, MarkSettledFails, ReleaseClaim,
            ReleaseClaimFails, Ack, Nack, Finish, Fault, Delete, SetMarker
      <4> QED
        BY <1>2, <4>1
    <3> QED
      BY <3>1, <3>2, <3>3
  <2>2. ASSUME ~\E h \in Handler : HandlerStep(h) PROVE redis'[k] = "absent"
    BY <1>0, <1>2, <2>2, SteadySteps
    DEF Publish, Deliver, Evict, Delete, SetMarker, Tick, Drained, TypeOK
  <2> QED
    BY <2>1, <2>2, SettledStays
<1> QED
  BY <1>1, <1>2

-----------------------------------------------------------------------------
(* A copy that is left stays so until the packet is settled. *)

LEMMA HolderCarries ==
  ASSUME TypeInv, AdmittedOK, NEW h \in Handler, Holding(h)
  PROVE  CopyLeft(HKey(h))
BY HKeyType DEF AdmittedOK, Admitted, CopyLeft, Carrying, Holding, HKey

\* A handler that carries a payable packet whose date is not too far ahead.
LEMMA CarrierStep ==
  ASSUME SteadyService, ServiceInv, LossInv, [Next]_vars,
         NEW k \in Key, Payable(k), ~TooFarAhead(k, now),
         NEW h \in Handler, HandlerStep(h), Carrying(h),
         msg[h] \in Msg, Genuine(msg[h]), KeyOf[msg[h]] = k
  PROVE  \/ Settled(k)'
         \/ Carrying(h)' /\ msg'[h] = msg[h]
         \/ broker'[msg[h]] = "ready"
         \/ verdict'[msg[h]] = "PACKET_EXPIRED"
         \/ \E g \in Handler : Holding(g)' /\ HKey(g)' = k /\ Genuine(msg[g]) /\ msg'[g] = msg[g]
<1>0. TypeInv /\ TypeOK /\ HandlersOK
  BY DEF ServiceInv, TypeInv
<1>a. HKey(h) = k
  BY DEF HKey
<1>1. CASE Holding(h)
  BY <1>0, <1>a, <1>1, HoldingEnds, PipelineMove, SettledStays
  DEF LossInv, ServiceInv, Carrying, Holding, Pipeline
<1>2. CASE pc[h] = "validate"
  <2>1. Validate(h)
    BY <1>2
    DEF HandlerStep, PersistRejection, PersistRejectionFails, AfterPersist, ClaimWon,
        ClaimLost, ClaimFails, GetMarker, GetMarkerFails, OpenInstruction,
        OpenInstructionFails, ReleaseRejected, ReleaseRejectedFails, WriteSettlement,
        WriteSettlementFails, MarkSettled, MarkSettledFails, ReleaseClaim,
        ReleaseClaimFails, Ack, Nack
  <2>2. PreClaimVerdict(msg[h], now) \in {"none", "PACKET_EXPIRED"}
    BY DEF PreClaimVerdict, Genuine, Payable
  <2> QED
    BY <1>0, <1>2, <2>1, <2>2 DEF Validate, Goto, TypeOK, Carrying, Holding
<1>3. CASE pc[h] = "claim"
  <2>1. ClaimWon(h) \/ ClaimLost(h)
    BY <1>3
    DEF SteadyService, Fault, HandlerStep, Validate, PersistRejection,
        PersistRejectionFails, AfterPersist, ClaimFails, GetMarker, GetMarkerFails,
        OpenInstruction, OpenInstructionFails, ReleaseRejected, ReleaseRejectedFails,
        WriteSettlement, WriteSettlementFails, MarkSettled, MarkSettledFails,
        ReleaseClaim, ReleaseClaimFails, Ack, Nack
  <2>2. CASE ClaimWon(h)
    BY <1>0, <2>2 DEF ClaimWon, Goto, TypeOK, Carrying, Holding
  <2>3. CASE ClaimLost(h)
    <3>1. Settled(k) \/ \E g \in Handler : Holding(g) /\ HKey(g) = k
      BY <1>a, <2>3 DEF ClaimLost, LossInv, MarkersHeld
    <3>2. ASSUME NEW g \in Handler, Holding(g), HKey(g) = k
          PROVE  /\ Holding(g)' /\ HKey(g)' = k /\ Genuine(msg[g]) /\ msg'[g] = msg[g]
      <4>1. g # h
        BY <1>3, <3>2 DEF Holding
      <4> QED
        BY <1>0, <3>2, <4>1, HandlerFrame
        DEF Holding, HKey, ServiceInv, AdmittedOK, Admitted
    <3> QED
      BY <1>0, <3>1, <3>2, SettledStays
  <2> QED
    BY <2>1, <2>2, <2>3
<1>4. CASE pc[h] = "nack"
  <2>1. Nack(h) /\ live[h]
    BY <1>4
    DEF Carrying, Holding, HandlerStep, Validate, PersistRejection, PersistRejectionFails,
        AfterPersist, ClaimWon, ClaimLost, ClaimFails, GetMarker, GetMarkerFails,
        OpenInstruction, OpenInstructionFails, ReleaseRejected, ReleaseRejectedFails,
        WriteSettlement, WriteSettlementFails, MarkSettled, MarkSettledFails,
        ReleaseClaim, ReleaseClaimFails, Ack
  <2> QED
    BY <1>0, <2>1 DEF Nack, TypeOK
<1>5. CASE pc[h] = "persist" /\ outcome[h] = "PACKET_EXPIRED"
  <2>1. AfterPersist(h) /\ msg'[h] = msg[h] /\ live'[h] = live[h]
    BY <1>5
    DEF HandlerStep, Validate, PersistRejection, PersistRejectionFails, ClaimWon,
        ClaimLost, ClaimFails, GetMarker, GetMarkerFails, OpenInstruction,
        OpenInstructionFails, ReleaseRejected, ReleaseRejectedFails, WriteSettlement,
        WriteSettlementFails, MarkSettled, MarkSettledFails, ReleaseClaim,
        ReleaseClaimFails, Ack, Nack
  <2> QED
    BY <1>0, <1>5, <2>1 DEF AfterPersist, Return, Goto, TypeOK, Carrying, Holding
<1>6. CASE pc[h] = "ack" /\ outcome[h] = "PACKET_EXPIRED"
  <2>1. Ack(h) /\ live[h]
    BY <1>6
    DEF Carrying, Holding, HandlerStep, Validate, PersistRejection, PersistRejectionFails,
        AfterPersist, ClaimWon, ClaimLost, ClaimFails, GetMarker, GetMarkerFails,
        OpenInstruction, OpenInstructionFails, ReleaseRejected, ReleaseRejectedFails,
        WriteSettlement, WriteSettlementFails, MarkSettled, MarkSettledFails,
        ReleaseClaim, ReleaseClaimFails, Nack
  <2> QED
    BY <1>0, <1>6, <2>1 DEF Ack, TypeOK
<1> QED
  BY <1>1, <1>2, <1>3, <1>4, <1>5, <1>6 DEF Carrying

LEMMA CopyLeftStays ==
  ASSUME SteadyService, ServiceInv, LossInv, [Next]_vars,
         NEW k \in Key, Payable(k), ~TooFarAhead(k, now), CopyLeft(k)
  PROVE  Settled(k)' \/ CopyLeft(k)'
<1>0. TypeInv /\ TypeOK /\ HandlersOK
  BY DEF ServiceInv, TypeInv
<1>1. PICK n \in Msg : /\ Genuine(n)
                       /\ KeyOf[n] = k
                       /\ \/ broker[n] = "ready"
                          \/ verdict[n] = "PACKET_EXPIRED"
                          \/ \E h \in Handler : Carrying(h) /\ msg[h] = n
  BY DEF CopyLeft
<1>a. ASSUME NEW m \in Msg, Genuine(m), KeyOf[m] = k,
             \/ broker'[m] = "ready"
             \/ verdict'[m] = "PACKET_EXPIRED"
             \/ \E h \in Handler : Carrying(h)' /\ msg'[h] = m
      PROVE  CopyLeft(k)'
  BY <1>a DEF CopyLeft, Genuine
<1>2. CASE verdict[n] = "PACKET_EXPIRED"
  BY <1>1, <1>2, <1>a, <1>0, VerdictStays DEF ServiceInv
<1>3. CASE broker[n] = "ready"
  <2>1. \A h \in Handler : live[h] => msg[h] # n
    BY <1>3 DEF ServiceInv, OneLiveDelivery
  <2>2. ASSUME NEW h \in Handler, HandlerStep(h) PROVE broker'[n] = "ready"
    <3>1. CASE Ack(h) \/ Nack(h)
      BY <1>0, <1>3, <2>1, <3>1 DEF Ack, Nack, TypeOK
    <3>2. CASE ~Ack(h) /\ ~Nack(h)
      BY <1>0, <1>3, <2>2, <3>2, PipelineStep
    <3> QED
      BY <3>1, <3>2
  <2>3. ASSUME NEW h \in Handler, NEW m \in Msg, Deliver(h, m)
        PROVE  broker'[n] = "ready" \/ (Carrying(h)' /\ msg'[h] = n)
    BY <1>0, <1>3, <2>3 DEF Deliver, Goto, TypeOK, Carrying
  <2>4. CASE broker'[n] = "ready"
    BY <1>1, <1>a, <2>4
  <2> QED
    BY <1>0, <1>1, <1>3, <1>a, <2>2, <2>3, <2>4, SteadySteps
    DEF Publish, Evict, Tick, Drained, TypeOK
<1>4. ASSUME NEW h \in Handler, Carrying(h), msg[h] = n
      PROVE  Settled(k)' \/ CopyLeft(k)'
  <2>1. CASE Carrying(h)' /\ msg'[h] = msg[h]
    BY <1>1, <1>4, <1>a, <2>1
  <2>2. CASE HandlerStep(h)
    <3>1. ASSUME NEW g \in Handler, Holding(g)', HKey(g)' = k, Genuine(msg[g]), msg'[g] = msg[g]
          PROVE  CopyLeft(k)'
      BY <1>a, <3>1 DEF Carrying, HKey, Genuine
    <3> QED
      BY <1>1, <1>4, <1>a, <2>1, <2>2, <3>1, CarrierStep
  <2>3. ASSUME NEW g \in Handler, HandlerStep(g), g # h
        PROVE  Carrying(h)' /\ msg'[h] = msg[h]
    BY <1>0, <1>4, <2>3, HandlerFrame DEF Carrying, Holding
  <2>4. ASSUME NEW g \in Handler, NEW m \in Msg, Deliver(g, m)
        PROVE  Carrying(h)' /\ msg'[h] = msg[h]
    BY <1>0, <1>4, <2>4 DEF Deliver, Goto, TypeOK, Carrying, Holding
  <2>5. CASE UNCHANGED <<pc, msg, outcome, live>>
    BY <1>4, <2>1, <2>5 DEF Carrying, Holding
  <2> QED
    BY <2>1, <2>2, <2>3, <2>4, <2>5, SteadySteps DEF Publish, Evict, Tick, Drained
<1> QED
  BY <1>1, <1>2, <1>3, <1>4

\* A copy begins to be dropped when it loses the claim, or when the insert was refused.
LEMMA DropStep ==
  ASSUME SteadyService, ServiceInv, [Next]_vars, NEW k \in Key, Dropping(k)', ~Dropping(k)
  PROVE  \E h \in Handler : /\ HKey(h) = k
                            /\ Admitted(h)
                            /\ ClaimLost(h) \/ MarkSettled(h)
<1>0. TypeInv /\ TypeOK /\ HandlersOK
  BY DEF ServiceInv, TypeInv
<1>1. ASSUME NEW m \in Msg, verdict'[m] \in Duplicate, KeyOf[m] = k PROVE FALSE
  <2>1. verdict'[m] # verdict[m]
    BY <1>1 DEF Dropping
  <2>2. PICK h \in Handler : Ack(h) /\ msg[h] = m /\ verdict'[m] = outcome[h]
    BY <1>0, <2>1, VerdictStep
  <2> QED
    BY <1>1, <2>2 DEF Dropping, DropsCopy, Ack, HKey
<1>2. PICK h \in Handler : DropsCopy(h)' /\ HKey(h)' = k
  BY <1>1 DEF Dropping
<1>3. ~(DropsCopy(h) /\ HKey(h) = k)
  BY DEF Dropping
<1>4. CASE HandlerStep(h)
  <2>1. pc[h] \in Pipeline /\ pc'[h] \in Follows[pc[h]] /\ HKey(h) = k
    BY <1>0, <1>2, <1>4, PipelineMove DEF DropsCopy, HKey
  <2>2. CASE ClaimLost(h) \/ MarkSettled(h)
    BY <2>1, <2>2 DEF ClaimLost, MarkSettled, Admitted, Holding
  <2>3. CASE ~ClaimLost(h) /\ ~MarkSettled(h)
    <3>1. ~GetMarker(h) /\ ~GetMarkerFails(h)
      BY <1>3, <2>1 DEF GetMarker, GetMarkerFails, DropsCopy
    <3>2. ~DropsCopy(h)'
      BY <1>0, <1>4, <2>3, <3>1
      DEF HandlerStep, HandlersOK, TypeOK, DropsCopy, Duplicate, RejectReason, Validate,
          PersistRejection, PersistRejectionFails, AfterPersist, ClaimWon, ClaimFails,
          OpenInstruction, OpenInstructionFails, ReleaseRejected, ReleaseRejectedFails,
          WriteSettlement, WriteSettlementFails, MarkSettledFails, ReleaseClaim,
          ReleaseClaimFails, Ack, Nack, Finish, Return, Raise, Goto
    <3> QED
      BY <1>2, <3>2
  <2> QED
    BY <2>2, <2>3
<1>5. ASSUME NEW g \in Handler, HandlerStep(g), g # h PROVE FALSE
  BY <1>0, <1>2, <1>3, <1>5, HandlerFrame DEF DropsCopy, HKey
<1>6. ASSUME NEW g \in Handler, NEW m \in Msg, Deliver(g, m) PROVE FALSE
  BY <1>0, <1>2, <1>3, <1>6 DEF Deliver, Goto, TypeOK, DropsCopy, HKey
<1>7. CASE UNCHANGED <<pc, msg, outcome>>
  BY <1>2, <1>3, <1>7 DEF DropsCopy, HKey
<1> QED
  BY <1>4, <1>5, <1>6, <1>7, SteadySteps DEF Publish, Evict, Tick, Drained

LEMMA DropsAreSafeNext ==
  ASSUME SteadyService
  PROVE  ServiceInv /\ LossInv /\ [Next]_vars => DropsAreSafe'
<1> SUFFICES ASSUME ServiceInv, LossInv, [Next]_vars,
                    NEW k \in Key, Dropping(k)', Payable(k)
             PROVE  ~TooFarAhead(k, now)' /\ (Settled(k)' \/ CopyLeft(k)')
  BY DEF DropsAreSafe, Payable, TooFarAhead
<1>0. TypeInv /\ AdmittedOK /\ ReportsHaveRows
  BY DEF ServiceInv
<1>1. ~TooFarAhead(k, now) /\ (Settled(k) \/ CopyLeft(k))
  <2>1. CASE Dropping(k)
    BY <2>1 DEF LossInv, DropsAreSafe
  <2>2. ASSUME NEW h \in Handler, HKey(h) = k, Admitted(h), ClaimLost(h) \/ MarkSettled(h)
        PROVE  ~TooFarAhead(k, now) /\ (Settled(k) \/ CopyLeft(k))
    <3>1. ~TooFarAhead(k, now)
      BY <2>2 DEF LossInv, ArrivedInTime
    <3>2. CASE ClaimLost(h)
      <4>1. Settled(k) \/ \E g \in Handler : Holding(g) /\ HKey(g) = k
        BY <2>2, <3>2 DEF ClaimLost, LossInv, MarkersHeld
      <4> QED
        BY <1>0, <3>1, <4>1, HolderCarries
    <3>3. CASE MarkSettled(h)
      BY <1>0, <2>2, <3>1, <3>3 DEF MarkSettled, ReportsHaveRows
    <3> QED
      BY <2>2, <3>2, <3>3
  <2> QED
    BY <2>1, <2>2, DropStep
<1> QED
  BY <1>0, <1>1, InTimeStays, CopyLeftStays, SettledStays

-----------------------------------------------------------------------------
(* The invariants of settlement. *)

LEMMA ServiceInvAlways ==
  ASSUME DistinctPacketIds
  PROVE  Spec => []ServiceInv
<1>1. Init => AdmittedOK /\ OneLiveDelivery /\ VerdictIsFinal
  BY DEF Init, AdmittedOK, Admitted, Holding, OneLiveDelivery, VerdictIsFinal
<1> QED
  BY <1>1, AdmittedOKNext, OneLiveDeliveryNext, VerdictIsFinalNext, ReportsHaveRowsAlways,
     TypeInvAlways, PTL DEF Spec, ServiceInv

LEMMA LossInvAlways ==
  ASSUME DistinctPacketIds, SteadyService
  PROVE  Spec => []LossInv
<1>1. Init => LossInv
  BY DEF Init, LossInv, RefusedForCause, Refuses, AnswersHeard, MarkersHeld, ArrivedInTime,
         Admitted, Holding, DropsAreSafe, Dropping, DropsCopy, RejectReason, Duplicate
<1>2. ServiceInv /\ LossInv /\ [Next]_vars => LossInv'
  BY RefusedForCauseNext, AnswersHeardNext, MarkersHeldNext, ArrivedInTimeNext,
     DropsAreSafeNext DEF ServiceInv, LossInv
<1> QED
  BY <1>1, <1>2, ServiceInvAlways, PTL DEF Spec

\* If packet ids are distinct, no replica dies, Redis answers, and connections and Postgres
\* do not both fail, then dropping an extra copy loses nothing, however early Redis forgets
\* a claim and however slow the handlers are: the packet is settled, or a genuine copy of it
\* is still at the broker or in a handler, or has expired (DedupeStore.claim, the ack in
\* _handle_message).
THEOREM DroppedCopiesLoseNothing ==
  ASSUME DistinctPacketIds, SteadyService
  PROVE  Spec => []NoPaymentLost
<1>1. LossInv => NoPaymentLost
  BY DEF LossInv, DropsAreSafe, Dropping, CopyLeft, NoPaymentLost
<1> QED
  BY <1>1, LossInvAlways, PTL

-----------------------------------------------------------------------------
(* The journey is its two halves. *)

\* Whatever the journey does, each half takes a step of its own or none.
LEMMA HalvesStep ==
  [JourneyNext]_journeyVars => [Next]_vars /\ [MeshNext]_meshVars
<1> SUFFICES ASSUME [JourneyNext]_journeyVars PROVE [Next]_vars /\ [MeshNext]_meshVars
  OBVIOUS
<1>a. Msg = Submission
  BY JourneyAssumption
<1> USE DEF meshVars
<1>1. ASSUME NEW t \in Submission, Pay(t) \/ Carry(t) PROVE [Next]_vars /\ [MeshNext]_meshVars
  <2>1. UNCHANGED vars \/ Publish(t)
    BY <1>1 DEF Pay, Carry, Hand
  <2>2. Submit(t) \/ MeshStep(t)
    BY <1>1 DEF Pay, Carry
  <2> QED
    BY <1>a, <2>1, <2>2 DEF Next, MeshNext
<1>2. CASE SettlementStep
  BY <1>2 DEF SettlementStep, Next
<1>3. CASE Rest \/ UNCHANGED journeyVars
  BY <1>3 DEF Rest, journeyVars, AllAnswered
<1> QED
  BY <1>1, <1>2, <1>3 DEF JourneyNext

\* So the journey has every property that is proved of one of its halves.
THEOREM JourneyRefinesItsHalves == JourneySpec => Spec /\ MeshSpec
BY HalvesStep, PTL DEF JourneySpec, JourneyInit, Spec, MeshSpec

-----------------------------------------------------------------------------
(* What is accepted is not forgotten. *)

\* What the bridge verified is genuine, and the broker of settlement has it.
HandedOver ==
  /\ \A t \in Submission : intact[t] => t \in Verifies
  /\ \A t \in Submission : Queued(t) => t \in Verifies /\ broker[t] # "unpublished"

\* A step of the mesh that changes the queue stores a verified submission.
LEMMA MeshStores ==
  ASSUME MeshTypeOK, NEW t \in Submission, Submit(t) \/ MeshStep(t)
  PROVE  /\ \A u \in Submission : intact'[u] => intact[u]
         /\ \/ queue' = queue
            \/ MeshStep(t) /\ intact[t] /\ \E n \in Service : Stored(t, n)
<1>1. ASSUME NEW n, Post(t, n) PROVE \A u \in Submission : intact'[u] => intact[u]
  BY <1>1 DEF Post, MeshTypeOK
<1>2. CASE Submit(t)
  BY <1>1, <1>2 DEF Submit
<1>3. CASE MeshStep(t)
  BY <1>1, <1>3
  DEF MeshStep, RelayRefuses, RelayForwards, BridgeRefuses, BridgePublishes, PublishFails,
      RateLimited, PassAnswer, GiveUp
<1> QED
  BY <1>2, <1>3

LEMMA HandedOverNext ==
  TypeInv /\ MeshTypeOK /\ HandedOver /\ [JourneyNext]_journeyVars => HandedOver'
<1> SUFFICES ASSUME TypeInv, MeshTypeOK, HandedOver, [JourneyNext]_journeyVars
             PROVE  HandedOver'
  OBVIOUS
<1>a. Msg = Submission /\ [Next]_vars
  BY JourneyAssumption, HalvesStep
<1>b. ASSUME NEW u \in Submission, broker[u] # "unpublished" PROVE broker'[u] # "unpublished"
  BY <1>a, <1>b, PublishedStays
<1>1. ASSUME NEW t \in Submission, Pay(t) \/ Carry(t) PROVE HandedOver'
  <2>1. Submit(t) \/ MeshStep(t)
    BY <1>1 DEF Pay, Carry
  <2>2. CASE queue' = queue
    BY <1>b, <2>1, <2>2, MeshStores DEF HandedOver, Queued
  <2>3. CASE queue' # queue
    <3>1. PICK n \in Service : Stored(t, n)
      BY <2>1, <2>3, MeshStores
    <3>2. intact[t] /\ \A u \in Submission : intact'[u] => intact[u]
      BY <2>1, <2>3, MeshStores
    <3>3. broker'[t] = "ready"
      <4>1. Publish(t)
        BY <1>1, <2>3 DEF Pay, Carry, Hand, Submit
      <4> QED
        BY <1>a, <4>1 DEF Publish, TypeInv, TypeOK
    <3>4. ASSUME NEW u \in Submission, Queued(u)' PROVE Queued(u) \/ u = t
      <4> DEFINE e == [submission |-> t, hops |-> Hops(t, n), intact |-> intact[t]]
      <4>1. queue' = Append(queue, e) /\ e.submission = t /\ queue \in Seq(Entry)
        BY <3>1 DEF Stored, MeshTypeOK
      <4> HIDE DEF e
      <4>2. PICK i \in DOMAIN queue' : queue'[i].submission = u
        BY <3>4 DEF Queued
      <4>3. (i \in DOMAIN queue /\ queue'[i] = queue[i]) \/ queue'[i] = e
        BY <4>1, <4>2
      <4> QED
        BY <4>1, <4>2, <4>3 DEF Queued
    <3> QED
      BY <1>b, <3>2, <3>3, <3>4 DEF HandedOver
  <2> QED
    BY <2>2, <2>3
<1>2. CASE UNCHANGED meshVars
  BY <1>b, <1>2 DEF meshVars, HandedOver, Queued
<1> QED
  BY <1>1, <1>2 DEF JourneyNext, SettlementStep, Rest, AllAnswered, journeyVars

\* No packet is dated further ahead than the tolerance when the journey begins.
NoneAhead == \A k \in Key : CreatedAt[k] <= ClockSkewTolerance

\* Under the same conditions, and if no packet is dated too far ahead, a payer who was told
\* 202 is not forgotten: the packet is settled, or a copy of it is at the broker or in a
\* handler, or it has expired, whatever fails on the way to the queue (submit_packet, relay,
\* bridge, publish, _handle_message).
THEOREM AcceptedStaysInView ==
  ASSUME DistinctPacketIds, SteadyService, NoneAhead
  PROVE  JourneySpec => []AcceptedNotForgotten
<1>1. JourneyInit => DoneIsAnswered /\ HandedOver
  <2>1. Init => DoneIsAnswered
    BY DEF Init, DoneIsAnswered
  <2>2. MeshInit => \A t \in Submission : intact[t] => t \in Verifies
    BY Zenon DEF MeshInit
  <2>3. MeshInit => \A t \in Submission : ~Queued(t)
    BY DEF MeshInit, Queued
  <2> QED
    BY <2>1, <2>2, <2>3 DEF JourneyInit, HandedOver
<1>2. TypeInv /\ MeshTypeOK /\ DoneIsAnswered /\ HandedOver /\ [JourneyNext]_journeyVars
        => DoneIsAnswered' /\ HandedOver'
  BY HandedOverNext, DoneIsAnsweredNext, HalvesStep
<1>3. /\ ServiceInv /\ LossInv /\ NoPaymentLost /\ DoneIsAnswered /\ HandedOver
      /\ MeshTypeOK /\ AcceptedIsQueued
      => AcceptedNotForgotten
  <2> SUFFICES ASSUME ServiceInv, LossInv, NoPaymentLost, DoneIsAnswered, HandedOver,
                      AcceptedIsQueued, NEW t \in Submission,
                      reply[t][0] = "accepted", Payable(KeyOf[t])
               PROVE  \/ Settled(KeyOf[t])
                      \/ Underway(KeyOf[t])
                      \/ \E m \in Msg : KeyOf[m] = KeyOf[t] /\ verdict[m] = "PACKET_EXPIRED"
    BY DEF AcceptedNotForgotten
  <2>1. t \in Msg /\ Genuine(t) /\ broker[t] # "unpublished"
    BY JourneyAssumption DEF AcceptedIsQueued, HandedOver, Genuine
  <2>2. /\ broker[t] \in BrokerState /\ verdict[t] \in Outcome \cup {"none"}
        /\ CreatedAt[KeyOf[t]] <= ClockSkewTolerance
        /\ CreatedAt[KeyOf[t]] \in Int /\ KeyOf[t] \in Key
    BY <2>1 DEF ServiceInv, TypeInv, TypeOK, NoneAhead
  <2>3. CASE broker[t] \in {"ready", "unacked"}
    BY <2>1, <2>3 DEF Underway
  <2>4. CASE broker[t] = "done"
    <3>1. verdict[t] \in Outcome \ {"INTERNAL_ERROR"}
      BY <2>1, <2>2, <2>4 DEF DoneIsAnswered
    <3>2. CASE verdict[t] \in {"SETTLED", "ALREADY_SETTLED"}
      BY <2>1, <3>2 DEF ServiceInv, ReportsHaveRows, AckedSettledHasRow
    <3>3. CASE verdict[t] \in Duplicate
      BY <2>1, <3>3 DEF NoPaymentLost, Underway
    <3>4. CASE verdict[t] \in RejectReason
      <4>1. Justified(t, verdict[t])
        BY <2>1, <3>4 DEF LossInv, RefusedForCause
      <4>2. verdict[t] = "PACKET_EXPIRED"
        BY <2>1, <2>2, <4>1 DEF Justified
      <4> QED
        BY <2>1, <4>2
    <3> QED
      BY <3>1, <3>2, <3>3, <3>4 DEF Outcome
  <2> QED
    BY <2>1, <2>2, <2>3, <2>4 DEF BrokerState
<1> QED
  BY <1>1, <1>2, <1>3, ServiceInvAlways, LossInvAlways, DroppedCopiesLoseNothing,
     TypeInvAlways,
     AcceptanceMeansQueued, MeshTypeCorrect, JourneyRefinesItsHalves, PTL DEF JourneySpec
=============================================================================
