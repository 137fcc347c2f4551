----------------------------- MODULE ClaimProofs -----------------------------
(***************************************************************************)
(* What the order of the checks and the claim in Redis achieve: only a     *)
(* packet that passed every check is settled, whatever fails; it is        *)
(* settled while fresh, by one handler at a time and without a duplicate   *)
(* reaching the database, as long as no handler outlives its claim and     *)
(* Redis keeps what it was told.                                           *)
(***************************************************************************)
EXTENDS SettlementProofs

USE HandlerAssumption, PacketAssumption, SettingsAssumption, FaultAssumption
USE DEF PacketsOK, SettingsOK
USE DEF vars, brokerVars, redisVars, dbVars, handlerVars, envVars

-----------------------------------------------------------------------------
(* Where a handler's next await is. *)

\* The awaits that follow each await, with a failure and without.
Follows ==
  [validate        |-> {"claim", "persist"},
   persist         |-> {"ack", "nack"},
   claim           |-> {"open", "get", "nack"},
   get             |-> {"ack", "nack"},
   open            |-> {"write", "persistClaimed", "release"},
   persistClaimed  |-> {"releaseRejected"},
   releaseRejected |-> {"ack", "nack", "release"},
   write           |-> {"mark", "release"},
   mark            |-> {"ack", "nack", "release"},
   release         |-> {"nack"}]

Pipeline == {"validate", "persist", "claim", "get", "open", "persistClaimed",
             "releaseRejected", "write", "mark", "release"}

\* A handler either answers the broker and is idle, or goes on with its message at
\* an await that follows the one it was at.
LEMMA PipelineMove ==
  ASSUME TypeInv, NEW h \in Handler, HandlerStep(h)
  PROVE  \/ pc[h] \in {"ack", "nack"} /\ pc'[h] = "idle"
         \/ /\ pc[h] \in Pipeline
            /\ pc'[h] \in Follows[pc[h]]
            /\ msg'[h] = msg[h]
<1>0. TypeOK
  BY DEF TypeInv
<1>1. CASE Ack(h) \/ Nack(h)
  BY <1>0, <1>1 DEF Ack, Nack, Finish, Goto, TypeOK
<1>2. CASE Validate(h) \/ ClaimWon(h) \/ ClaimLost(h) \/ ClaimFails(h)
  BY <1>0, <1>2 DEF Validate, ClaimWon, ClaimLost, ClaimFails, Raise, Goto, TypeOK,
                    Follows, Pipeline
<1>3. CASE PersistRejection(h) \/ PersistRejectionFails(h)
  BY <1>0, <1>3 DEF PersistRejection, PersistRejectionFails, AfterPersist, Return, Goto,
                    TypeOK, Follows, Pipeline
<1>4. CASE GetMarker(h) \/ GetMarkerFails(h) \/ OpenInstruction(h)
           \/ OpenInstructionFails(h)
  BY <1>0, <1>4 DEF GetMarker, GetMarkerFails, OpenInstruction, OpenInstructionFails,
                    Return, Raise, Goto, TypeOK, Follows, Pipeline
<1>5. CASE ReleaseRejected(h) \/ ReleaseRejectedFails(h)
  BY <1>0, <1>5 DEF ReleaseRejected, ReleaseRejectedFails, Return, Goto, TypeOK,
                    Follows, Pipeline
<1>6. CASE WriteSettlement(h) \/ WriteSettlementFails(h)
  BY <1>0, <1>6 DEF WriteSettlement, WriteSettlementFails, Goto, TypeOK, Follows, Pipeline
<1>7. CASE MarkSettled(h) \/ MarkSettledFails(h)
  BY <1>0, <1>7 DEF MarkSettled, MarkSettledFails, Return, Goto, TypeOK, Follows, Pipeline
<1>8. CASE ReleaseClaim(h) \/ ReleaseClaimFails(h)
  BY <1>0, <1>8 DEF ReleaseClaim, ReleaseClaimFails, Return, Raise, Goto, TypeOK,
                    Follows, Pipeline
<1> QED
  BY <1>1, <1>2, <1>3, <1>4, <1>5, <1>6, <1>7, <1>8 DEF HandlerStep

-----------------------------------------------------------------------------
(* Only what passed every check is settled. *)

\* The awaits from the claim on: those that only a packet which passed the checks
\* before the claim gets to.
Admitted(h) == pc[h] \in {"claim", "get"} \/ Holding(h)

\* A handler's message came from the queue; from the claim on it has passed the checks
\* before it, and at the insert it has been opened as well.
AdmittedOK ==
  \A h \in Handler :
    /\ pc[h] # "idle" => broker[msg[h]] # "unpublished"
    /\ Admitted(h) => Genuine(msg[h]) /\ HKey(h) \in AadMatches
    /\ pc[h] = "write" => Opens[HKey(h)] = "instruction"

\* What was published stays so: no answer, requeue or crash takes a message back.
LEMMA PublishedStays ==
  ASSUME TypeInv, [Next]_vars, NEW m \in Msg, broker[m] # "unpublished"
  PROVE  broker'[m] # "unpublished"
<1>0. TypeOK
  BY DEF TypeInv
<1>1. ASSUME NEW h \in Handler, HandlerStep(h) PROVE broker'[m] # "unpublished"
  <2>1. CASE Ack(h) \/ Nack(h)
    BY <1>0, <2>1, HKeyType DEF Ack, Nack, TypeOK
  <2>2. CASE ~Ack(h) /\ ~Nack(h)
    BY <1>1, <2>2, PipelineStep
  <2> QED
    BY <2>1, <2>2
<1>2. ASSUME NEW c \in Consumer, Crash(c) \/ ConnectionLost(c)
      PROVE  broker'[m] # "unpublished"
  BY <1>2, Disconnections DEF Disconnected, Requeued
<1> QED
  BY <1>0, <1>1, <1>2 DEF Next, Publish, Deliver, Evict, Tick, Drained, TypeOK

LEMMA AdmittedOKNext == TypeInv /\ AdmittedOK /\ [Next]_vars => AdmittedOK'
<1> SUFFICES ASSUME TypeInv, AdmittedOK, [Next]_vars PROVE AdmittedOK'
  OBVIOUS
<1>0. TypeOK /\ HandlersOK
  BY DEF TypeInv
<1> DEFINE OK(h) == /\ pc[h] # "idle" => broker[msg[h]] # "unpublished"
                    /\ Admitted(h) => Genuine(msg[h]) /\ HKey(h) \in AadMatches
                    /\ pc[h] = "write" => Opens[HKey(h)] = "instruction"
<1>1. ASSUME NEW h \in Handler, pc'[h] = pc[h], msg'[h] = msg[h] PROVE OK(h)'
  BY <1>0, <1>1, PublishedStays DEF AdmittedOK, HandlersOK, Admitted, Holding, HKey
<1>2. ASSUME NEW h \in Handler, pc'[h] = "idle" PROVE OK(h)'
  BY <1>2 DEF Admitted, Holding
<1>3. ASSUME NEW h \in Handler, NEW m \in Msg, Deliver(h, m), NEW g \in Handler
      PROVE  OK(g)'
  <2>1. CASE g # h
    BY <1>0, <1>1, <1>3, <2>1 DEF Deliver, Goto, TypeOK
  <2>2. CASE g = h
    BY <1>0, <1>3, <2>2 DEF Deliver, Goto, TypeOK, Admitted, Holding
  <2> QED
    BY <2>1, <2>2
<1>4. ASSUME NEW h \in Handler, HandlerStep(h), NEW g \in Handler PROVE OK(g)'
  <2>1. CASE g # h
    BY <1>0, <1>1, <1>4, <2>1, HandlerFrame
  <2>2. CASE pc'[h] = "idle" /\ g = h
    BY <1>2, <2>2
  <2>3. CASE pc'[h] # "idle" /\ g = h
    <3>1. /\ pc[h] \in Pipeline /\ pc'[h] \in Follows[pc[h]]
          /\ msg'[h] = msg[h] /\ msg[h] \in Msg /\ HKey(h)' = HKey(h)
      BY <1>0, <1>4, <2>3, PipelineMove DEF HandlersOK, Pipeline, HKey
    <3>2. broker'[msg[h]] # "unpublished"
      BY <3>1, PublishedStays DEF AdmittedOK, Pipeline
    <3>3. Admitted(h)' => Genuine(msg[h]) /\ HKey(h) \in AadMatches
      <4>1. CASE Validate(h)
        BY <1>0, <4>1
        DEF Validate, PreClaimVerdict, Goto, TypeOK, Admitted, Holding, Genuine, HKey
      <4>2. CASE pc[h] # "validate"
        BY <3>1, <4>2 DEF AdmittedOK, Admitted, Holding, Follows, Pipeline
      <4>3. CASE pc[h] = "validate" /\ ~Validate(h)
        BY <1>4, <4>3
        DEF HandlerStep, PersistRejection, PersistRejectionFails, AfterPersist, ClaimWon,
            ClaimLost, ClaimFails, GetMarker, GetMarkerFails, OpenInstruction,
            OpenInstructionFails, ReleaseRejected, ReleaseRejectedFails, WriteSettlement,
            WriteSettlementFails, MarkSettled, MarkSettledFails, ReleaseClaim,
            ReleaseClaimFails, Ack, Nack
      <4> QED
        BY <4>1, <4>2, <4>3
    <3>4. pc'[h] = "write" => Opens[HKey(h)] = "instruction"
      <4>1. CASE OpenInstruction(h)
        BY <1>0, <4>1 DEF OpenInstruction, Goto, TypeOK
      <4>2. CASE pc[h] # "open"
        BY <3>1, <4>2 DEF Follows, Pipeline
      <4>3. CASE pc[h] = "open" /\ ~OpenInstruction(h)
        BY <1>0, <1>4, <4>3
        DEF HandlerStep, Validate, PersistRejection, PersistRejectionFails, AfterPersist,
            ClaimWon, ClaimLost, ClaimFails, GetMarker, GetMarkerFails,
            OpenInstructionFails, ReleaseRejected, ReleaseRejectedFails, WriteSettlement,
            WriteSettlementFails, MarkSettled, MarkSettledFails, ReleaseClaim,
            ReleaseClaimFails, Ack, Nack, Goto, TypeOK
      <4> QED
        BY <4>1, <4>2, <4>3
    <3> QED
      BY <2>3, <3>1, <3>2, <3>3, <3>4
  <2> QED
    BY <2>1, <2>2, <2>3
<1>5. ASSUME NEW c \in Consumer, NEW hs \in SUBSET Own(c), Disconnected(c, hs),
             NEW g \in Handler
      PROVE  OK(g)'
  BY <1>1, <1>2, <1>5 DEF Disconnected
<1>6. CASE UNCHANGED <<pc, msg>>
  <2>1. ASSUME NEW g \in Handler PROVE OK(g)'
    BY <1>1, <1>6
  <2> QED
    BY <2>1 DEF AdmittedOK
<1> QED
  BY <1>3, <1>4, <1>5, <1>6, Disconnections
  DEF AdmittedOK, Next, Publish, Evict, Tick, Drained

LEMMA SettlesOnlyPayableNext ==
  TypeInv /\ AdmittedOK /\ SettlesOnlyPayable /\ [Next]_vars => SettlesOnlyPayable'
<1> SUFFICES ASSUME TypeInv, AdmittedOK, SettlesOnlyPayable, [Next]_vars
             PROVE  SettlesOnlyPayable'
  OBVIOUS
<1> DEFINE Good(k) == /\ Payable(k)
                      /\ \E m \in Msg : /\ Genuine(m) /\ KeyOf[m] = k
                                        /\ broker[m] # "unpublished"
<1>1. ASSUME NEW k, Good(k) PROVE Good(k)'
  BY <1>1, PublishedStays DEF Genuine, Payable
<1>2. CASE UNCHANGED settlements
  BY <1>1, <1>2 DEF SettlesOnlyPayable
<1>3. ASSUME NEW h \in Handler, pc[h] = "write",
             settlements' = Append(settlements, NewRow(HKey(h)))
      PROVE  SettlesOnlyPayable'
  <2>1. HKey(h) \in Key /\ TypeOK /\ msg[h] \in Msg
    BY <1>3, HKeyType DEF TypeInv
  <2>2. Good(HKey(h))
    BY <1>3, <2>1 DEF AdmittedOK, Admitted, Holding, Payable, HKey
  <2>3. NewRow(HKey(h)).key = HKey(h)
    BY DEF NewRow
  <2>4. \A i \in DOMAIN settlements : Good(settlements[i].key)
    BY DEF SettlesOnlyPayable
  <2>5. \A i \in DOMAIN settlements' : Good(settlements'[i].key)
    <3> HIDE DEF Good, NewRow
    <3> QED
      BY <1>3, <2>1, <2>2, <2>3, <2>4, InsertedRows
  <2>6. ASSUME NEW i \in DOMAIN settlements', NEW k, k = settlements'[i].key PROVE Good(k)'
    BY <1>1, <2>5, <2>6
  <2> QED
    BY <2>6 DEF SettlesOnlyPayable
<1> QED
  BY <1>2, <1>3, TableSteps DEF TableStep

\* Only a packet that arrived well formed and signed, with matching AAD, and that
\* opened to an instruction is ever settled, whatever fails or is retried.
THEOREM OnlyPayableSettles == Spec => []SettlesOnlyPayable
<1>1. Init => AdmittedOK /\ SettlesOnlyPayable
  BY DEF Init, AdmittedOK, Admitted, Holding, SettlesOnlyPayable
<1> QED
  BY <1>1, AdmittedOKNext, SettlesOnlyPayableNext, TypeInvAlways, PTL DEF Spec

-----------------------------------------------------------------------------
(* Only what passed the checks before the claim has a marker. *)

\* A marker where there was none was set by the claim, or by the mark at the end, of a
\* handler past the checks.
LEMMA NewMarkerStep ==
  ASSUME TypeInv, [Next]_vars, NEW k \in Key, redis[k] = "absent", redis'[k] # "absent"
  PROVE  \E h \in Handler : pc[h] \in {"claim", "mark"} /\ HKey(h) = k
<1>0. TypeOK
  BY DEF TypeInv
<1>1. ASSUME NEW h \in Handler, HandlerStep(h)
      PROVE  \E g \in Handler : pc[g] \in {"claim", "mark"} /\ HKey(g) = k
  BY <1>0, <1>1
  DEF HandlerStep, TypeOK, Validate, PersistRejection, PersistRejectionFails,
      ClaimWon, ClaimLost, ClaimFails, GetMarker, GetMarkerFails, OpenInstruction,
      OpenInstructionFails, ReleaseRejected, ReleaseRejectedFails, WriteSettlement,
      WriteSettlementFails, MarkSettled, MarkSettledFails, ReleaseClaim,
      ReleaseClaimFails, Ack, Nack, Finish, SetMarker, Delete
<1>2. ASSUME NEW j \in Key, Evict(j) PROVE redis'[k] = "absent"
  BY <1>0, <1>2 DEF Evict, Delete, SetMarker, TypeOK
<1>3. CASE Tick
  BY <1>0, <1>3 DEF Tick, TypeOK
<1> QED
  BY <1>1, <1>2, <1>3
  DEF Next, Publish, Deliver, Crash, ConnectionLost, Disconnected, Drained

\* A packet whose key has a marker came from the queue, signed, with matching AAD.
Vouched(k) ==
  /\ k \in AadMatches
  /\ \E m \in Msg : Genuine(m) /\ KeyOf[m] = k /\ broker[m] # "unpublished"

MarkersVouched == \A k \in Key : redis[k] # "absent" => Vouched(k)

LEMMA MarkersVouchedNext ==
  TypeInv /\ AdmittedOK /\ MarkersVouched /\ [Next]_vars => MarkersVouched'
<1> SUFFICES ASSUME TypeInv, AdmittedOK, MarkersVouched, [Next]_vars,
                    NEW k \in Key, redis'[k] # "absent"
             PROVE  Vouched(k)'
  BY DEF MarkersVouched
<1>1. Vouched(k)
  <2>1. CASE redis[k] # "absent"
    BY <2>1 DEF MarkersVouched
  <2>2. CASE redis[k] = "absent"
    <3>1. PICK h \in Handler : pc[h] \in {"claim", "mark"} /\ HKey(h) = k
      BY <2>2, NewMarkerStep
    <3>2. msg[h] \in Msg
      BY <3>1, HKeyType
    <3> QED
      BY <3>1, <3>2 DEF AdmittedOK, Admitted, Holding, Vouched, HKey
  <2> QED
    BY <2>1, <2>2
<1> QED
  BY <1>1, PublishedStays DEF Vouched, Genuine

\* A forged or altered copy never occupies a key, whatever fails: every marker is of a
\* packet that came from the queue signed and with matching AAD, and so is what any
\* handler holds, or takes itself to hold, a claim on.
THEOREM OnlyGenuineHaveMarkers == Spec => []OnlyGenuineOccupy
<1>1. Init => AdmittedOK /\ MarkersVouched
  BY DEF Init, AdmittedOK, Admitted, Holding, MarkersVouched
<1>2. AdmittedOK /\ MarkersVouched => OnlyGenuineOccupy
  BY DEF AdmittedOK, Admitted, MarkersVouched, Vouched, OnlyGenuineOccupy
<1> QED
  BY <1>1, <1>2, AdmittedOKNext, MarkersVouchedNext, TypeInvAlways, PTL DEF Spec

-----------------------------------------------------------------------------
(* What is settled is settled while fresh. *)

\* A tick is longer than any handler takes.
Prompt == "slow" \notin Faults

\* Up to its insert, a handler works at the time at which it checked its packet.
StillFresh ==
  \A h \in Handler :
    pc[h] \in {"claim", "open", "write"}
      => ~TooOld(HKey(h), now) /\ ~TooFarAhead(HKey(h), now)

\* The clock stands still while a handler works.
LEMMA ClockStep ==
  ASSUME Prompt, TypeInv, [Next]_vars
  PROVE  \/ now' = now
         \/ Tick /\ \A h \in Handler : pc[h] = "idle" /\ pc'[h] = "idle"
<1>1. ASSUME NEW h \in Handler, HandlerStep(h) PROVE now' = now
  BY <1>1
  DEF HandlerStep, Validate, PersistRejection, PersistRejectionFails, ClaimWon, ClaimLost,
      ClaimFails, GetMarker, GetMarkerFails, OpenInstruction, OpenInstructionFails,
      ReleaseRejected, ReleaseRejectedFails, WriteSettlement, WriteSettlementFails,
      MarkSettled, MarkSettledFails, ReleaseClaim, ReleaseClaimFails, Ack, Nack, Finish,
      Fault
<1> QED
  BY <1>1 DEF Prompt, Next, Publish, Deliver, Crash, ConnectionLost, Disconnected, Evict,
              Tick, Drained, Fault

LEMMA StillFreshNext ==
  ASSUME Prompt
  PROVE  TypeInv /\ StillFresh /\ [Next]_vars => StillFresh'
<1> SUFFICES ASSUME TypeInv, StillFresh, [Next]_vars PROVE StillFresh'
  OBVIOUS
<1>0. TypeOK /\ HandlersOK
  BY DEF TypeInv
<1> DEFINE OK(h) == pc[h] \in {"claim", "open", "write"}
                      => ~TooOld(HKey(h), now) /\ ~TooFarAhead(HKey(h), now)
<1>1. CASE \A h \in Handler : pc'[h] = "idle"
  BY <1>1 DEF StillFresh
<1>2. ASSUME now' = now, NEW h \in Handler, pc'[h] = pc[h], msg'[h] = msg[h] PROVE OK(h)'
  BY <1>2 DEF StillFresh, HKey, TooOld, TooFarAhead
<1>3. ASSUME now' = now, NEW h \in Handler, NEW m \in Msg, Deliver(h, m), NEW g \in Handler
      PROVE  OK(g)'
  BY <1>0, <1>2, <1>3 DEF Deliver, Goto, TypeOK
<1>4. ASSUME now' = now, NEW h \in Handler, HandlerStep(h), NEW g \in Handler PROVE OK(g)'
  <2>1. CASE g # h
    BY <1>0, <1>2, <1>4, <2>1, HandlerFrame
  <2>2. CASE g = h /\ pc'[h] \in {"claim", "open", "write"}
    <3>1. /\ pc[h] \in {"validate", "claim", "open"}
          /\ pc'[h] \in Follows[pc[h]] /\ HKey(h)' = HKey(h)
      BY <1>4, <2>2, PipelineMove DEF Follows, Pipeline, HKey
    <3>2. CASE pc[h] # "validate"
      BY <1>4, <2>2, <3>1, <3>2 DEF StillFresh, TooOld, TooFarAhead
    <3>3. CASE pc[h] = "validate"
      <4>1. Validate(h)
        BY <1>4, <3>3
        DEF HandlerStep, PersistRejection, PersistRejectionFails, AfterPersist, ClaimWon,
            ClaimLost, ClaimFails, GetMarker, GetMarkerFails, OpenInstruction,
            OpenInstructionFails, ReleaseRejected, ReleaseRejectedFails, WriteSettlement,
            WriteSettlementFails, MarkSettled, MarkSettledFails, ReleaseClaim,
            ReleaseClaimFails, Ack, Nack
      <4>2. PreClaimVerdict(msg[h], now) = "none"
        BY <1>0, <2>2, <4>1 DEF Validate, Goto, TypeOK
      <4> QED
        BY <1>4, <2>2, <3>1, <4>2 DEF PreClaimVerdict, HKey, TooOld, TooFarAhead
    <3> QED
      BY <3>2, <3>3
  <2> QED
    BY <2>1, <2>2
<1>5. ASSUME now' = now, NEW c \in Consumer, NEW hs \in SUBSET Own(c), Disconnected(c, hs),
             NEW g \in Handler
      PROVE  OK(g)'
  BY <1>2, <1>5 DEF Disconnected
<1>6. ASSUME now' = now, UNCHANGED <<pc, msg>>, NEW g \in Handler PROVE OK(g)'
  BY <1>2, <1>6
<1>7. CASE now' = now
  <2>1. \A g \in Handler : OK(g)'
    BY <1>3, <1>4, <1>5, <1>6, <1>7, Disconnections
    DEF Next, Publish, Evict, Tick, Drained
  <2> QED
    BY <2>1 DEF StillFresh
<1> QED
  BY <1>1, <1>7, ClockStep

\* The arithmetic of the window: neither too old nor too far ahead.
LEMMA InsideWindow ==
  ASSUME NEW k \in Key, NEW t \in Nat, ~TooOld(k, t), ~TooFarAhead(k, t)
  PROVE  t - CreatedAt[k] \in (0 - ClockSkewTolerance)..FreshnessWindow
BY DEF TooOld, TooFarAhead

LEMMA SettledWhileFreshNext ==
  TypeInv /\ StillFresh /\ SettledWhileFresh /\ [Next]_vars => SettledWhileFresh'
<1> SUFFICES ASSUME TypeInv, StillFresh, SettledWhileFresh, [Next]_vars
             PROVE  SettledWhileFresh'
  OBVIOUS
<1>1. CASE UNCHANGED settlements
  BY <1>1 DEF SettledWhileFresh
<1>2. ASSUME NEW h \in Handler, pc[h] = "write",
             settlements' = Append(settlements, NewRow(HKey(h)))
      PROVE  SettledWhileFresh'
  <2>1. HKey(h) \in Key /\ TypeOK /\ now \in Nat
    BY <1>2, HKeyType DEF TypeInv, TypeOK
  <2>2. NewRow(HKey(h)).settledAt - CreatedAt[NewRow(HKey(h)).key]
          \in (0 - ClockSkewTolerance)..FreshnessWindow
    BY <1>2, <2>1, InsideWindow DEF StillFresh, NewRow
  <2> HIDE DEF NewRow
  <2> QED
    BY <1>2, <2>1, <2>2, InsertedRows DEF SettledWhileFresh
<1> QED
  BY <1>1, <1>2, TableSteps DEF TableStep

\* As long as no handler outlives a tick, a row is committed inside its packet's
\* freshness window: a retry, a redelivery or a restart checks again.
THEOREM SettlesInsideWindow ==
  ASSUME Prompt
  PROVE  Spec => []SettledWhileFresh
<1>1. Init => StillFresh /\ SettledWhileFresh
  BY DEF Init, StillFresh, SettledWhileFresh
<1> QED
  BY <1>1, StillFreshNext, SettledWhileFreshNext, TypeInvAlways, PTL DEF Spec

-----------------------------------------------------------------------------
(* The claim is exclusive. *)

\* Redis does what it is told and keeps what it was told until its TTL is over.
RedisReliable == "redis" \notin Faults /\ "eviction" \notin Faults

\* A step in which Redis does so.
RedisAnswers == RedisReliable \/ faults' = 0

\* Whoever works past the claim has the marker, still as a claim: only the holder
\* settles or releases it.
HoldersHaveClaim == \A h \in Handler : Holding(h) => redis[HKey(h)] = "claimed"

ClaimInv == HoldersHaveClaim /\ ClaimExclusive

LEMMA ClaimInvInit == Init => ClaimInv
BY DEF Init, ClaimInv, HoldersHaveClaim, ClaimExclusive, Holding

\* A handler's step as the claims see it: it wins one, keeps it or has none, or
\* gives it up with its marker.
Wins(h) ==
  /\ ~Holding(h) /\ Holding(h)'
  /\ redis[HKey(h)] = "absent"
  /\ SetMarker(HKey(h), "claimed", now + ClaimTTL)

Keeps(h) == (Holding(h)' <=> Holding(h)) /\ UNCHANGED redisVars

GivesUp(h) ==
  /\ Holding(h) /\ ~Holding(h)'
  /\ \/ Delete(HKey(h))
     \/ pc[h] = "mark" /\ SetMarker(HKey(h), "settled", now + SettledTTL)

LEMMA ClaimStep ==
  ASSUME TypeInv, RedisAnswers, NEW h \in Handler, HandlerStep(h)
  PROVE  /\ Wins(h) \/ Keeps(h) \/ GivesUp(h)
         /\ Holding(h)' => HKey(h)' = HKey(h)
<1>0. TypeOK
  BY DEF TypeInv
<1>1. Holding(h)' => HKey(h)' = HKey(h)
  BY PipelineMove DEF Holding, HKey
<1>2. CASE ClaimWon(h)
  BY <1>0, <1>1, <1>2 DEF ClaimWon, Goto, TypeOK, Wins, Holding
<1>3. CASE ReleaseRejected(h) \/ ReleaseClaim(h)
  BY <1>0, <1>3 DEF ReleaseRejected, ReleaseClaim, Return, Goto, TypeOK, GivesUp, Holding
<1>4. CASE MarkSettled(h)
  BY <1>0, <1>4 DEF MarkSettled, Return, Goto, TypeOK, GivesUp, Holding
<1>5. CASE Validate(h) \/ PersistRejection(h) \/ PersistRejectionFails(h)
  BY <1>0, <1>1, <1>5
  DEF Validate, PersistRejection, PersistRejectionFails, AfterPersist, Return,
                    Goto, TypeOK, Keeps, Holding
<1>6. CASE ClaimLost(h) \/ GetMarker(h) \/ OpenInstruction(h) \/ OpenInstructionFails(h)
  BY <1>0, <1>1, <1>6
  DEF ClaimLost, GetMarker, OpenInstruction, OpenInstructionFails, Return, Goto, TypeOK,
      Keeps, Holding
<1>7. CASE WriteSettlement(h) \/ WriteSettlementFails(h) \/ Ack(h) \/ Nack(h)
  BY <1>0, <1>1, <1>7
  DEF WriteSettlement, WriteSettlementFails, Ack, Nack, Finish, Goto, TypeOK,
                    Keeps, Holding
<1>8. ~ClaimFails(h) /\ ~GetMarkerFails(h) /\ ~ReleaseRejectedFails(h)
      /\ ~MarkSettledFails(h) /\ ~ReleaseClaimFails(h)
  BY <1>0 DEF RedisAnswers, RedisReliable, ClaimFails, GetMarkerFails, ReleaseRejectedFails,
              MarkSettledFails, ReleaseClaimFails, Fault, TypeOK
<1> QED
  BY <1>1, <1>2, <1>3, <1>4, <1>5, <1>6, <1>7, <1>8 DEF HandlerStep

LEMMA ClaimInvNext ==
  ASSUME Prompt
  PROVE  TypeInv /\ ClaimInv /\ [Next]_vars /\ RedisAnswers => ClaimInv'
<1> SUFFICES ASSUME TypeInv, ClaimInv, [Next]_vars, RedisAnswers PROVE ClaimInv'
  OBVIOUS
<1>0. TypeOK
  BY DEF TypeInv
<1>a. \A h \in Handler : Holding(h) => HKey(h) \in Key
  BY HKeyType DEF Holding
<1>1. ASSUME NEW h \in Handler, HandlerStep(h) PROVE ClaimInv'
  <2>1. ASSUME NEW g \in Handler, g # h
        PROVE  (Holding(g)' <=> Holding(g)) /\ HKey(g)' = HKey(g)
    BY <1>0, <1>1, <2>1, HandlerFrame DEF Holding, HKey
  <2>2. HKey(h) \in Key /\ (Holding(h)' => HKey(h)' = HKey(h))
    BY <1>1, ClaimStep, PipelineMove, HKeyType DEF Pipeline
  <2>3. CASE Wins(h)
    <3>1. ASSUME NEW g \in Handler, g # h, Holding(g) PROVE HKey(g) # HKey(h)
      BY <2>3, <3>1 DEF Wins, ClaimInv, HoldersHaveClaim
    <3>2. \A k \in Key : redis'[k] = IF k = HKey(h) THEN "claimed" ELSE redis[k]
      BY <1>0, <2>2, <2>3 DEF Wins, SetMarker, TypeOK
    <3> QED
      BY <1>a, <2>1, <2>2, <2>3, <3>1, <3>2
      DEF Wins, ClaimInv, HoldersHaveClaim, ClaimExclusive
  <2>4. CASE Keeps(h)
    BY <2>1, <2>2, <2>4 DEF Keeps, ClaimInv, HoldersHaveClaim, ClaimExclusive
  <2>5. CASE GivesUp(h)
    <3>1. \A k \in Key : k # HKey(h) => redis'[k] = redis[k]
      BY <1>0, <2>5 DEF GivesUp, Delete, SetMarker, TypeOK
    <3>2. \A g \in Handler : g # h /\ Holding(g) => HKey(g) # HKey(h)
      BY <2>5 DEF GivesUp, ClaimInv, ClaimExclusive
    <3> QED
      BY <1>a, <2>1, <2>2, <2>5, <3>1, <3>2
      DEF GivesUp, ClaimInv, HoldersHaveClaim, ClaimExclusive
  <2> QED
    BY <1>1, <2>3, <2>4, <2>5, ClaimStep
<1>2. ASSUME NEW h \in Handler, NEW m \in Msg, Deliver(h, m) PROVE ClaimInv'
  <2>1. ~Holding(h)' /\ \A g \in Handler : g # h => (Holding(g)' <=> Holding(g))
                                                    /\ HKey(g)' = HKey(g)
    BY <1>0, <1>2 DEF Deliver, Goto, TypeOK, Holding, HKey
  <2> QED
    BY <1>2, <2>1 DEF Deliver, ClaimInv, HoldersHaveClaim, ClaimExclusive
<1>3. ASSUME NEW c \in Consumer, NEW hs \in SUBSET Own(c), Disconnected(c, hs)
      PROVE  ClaimInv'
  <2>1. \A g \in Handler : Holding(g)' => Holding(g) /\ HKey(g)' = HKey(g)
    BY <1>3 DEF Disconnected, Holding, HKey
  <2> QED
    BY <1>3, <2>1 DEF Disconnected, ClaimInv, HoldersHaveClaim, ClaimExclusive
<1>4. CASE Tick
  BY <1>4 DEF Tick, Prompt, ClaimInv, HoldersHaveClaim, ClaimExclusive, Holding
<1>5. CASE UNCHANGED <<pc, msg, redis>>
  BY <1>5 DEF ClaimInv, HoldersHaveClaim, ClaimExclusive, Holding, HKey
<1> QED
  BY <1>0, <1>1, <1>2, <1>3, <1>4, <1>5, Disconnections
  DEF Next, Publish, Evict, Fault, RedisAnswers, RedisReliable, Drained, TypeOK

LEMMA ClaimInvAlways ==
  ASSUME Prompt, RedisReliable
  PROVE  Spec => []ClaimInv
<1>1. TypeInv /\ ClaimInv /\ [Next]_vars => ClaimInv'
  BY ClaimInvNext DEF RedisAnswers
<1> QED
  BY <1>1, ClaimInvInit, TypeInvAlways, PTL DEF Spec

\* With prompt handlers and a reliable Redis, no two handlers of any replicas work past
\* the claim for one key, through database errors, crashes and reconnects.
THEOREM ClaimIsExclusive ==
  ASSUME Prompt, RedisReliable
  PROVE  Spec => []ClaimExclusive
<1>1. ClaimInv => ClaimExclusive
  BY DEF ClaimInv
<1> QED
  BY <1>1, ClaimInvAlways, PTL

\* With prompt handlers and a reliable Redis, a settled marker stays until its TTL:
\* every release is of the releaser's own claim.
THEOREM SettledMarkerStays ==
  ASSUME Prompt, RedisReliable
  PROVE  Spec => SettledMarkerKept
<1> DEFINE Kept == \A k \in Key : redis[k] = "settled" => redis'[k] = "settled" \/ now' # now
<1>1. TypeInv /\ ClaimInv /\ [Next]_vars => [Kept]_vars
  <2> SUFFICES ASSUME TypeInv, ClaimInv, [Next]_vars PROVE Kept
    OBVIOUS
  <2>0. TypeOK
    BY DEF TypeInv
  <2>1. ASSUME NEW h \in Handler, HandlerStep(h) PROVE Kept
    <3>1. HKey(h) \in Key
      BY <2>1, PipelineMove, HKeyType DEF Pipeline
    <3>2. CASE Wins(h)
      BY <2>0, <3>1, <3>2 DEF Wins, SetMarker, TypeOK
    <3>3. CASE Keeps(h)
      BY <3>3 DEF Keeps
    <3>4. CASE GivesUp(h)
      BY <2>0, <3>1, <3>4
      DEF GivesUp, Delete, SetMarker, TypeOK, ClaimInv, HoldersHaveClaim
    <3> QED
      BY <2>1, <3>2, <3>3, <3>4, ClaimStep DEF RedisAnswers
  <2>2. CASE Tick
    BY <2>0, <2>2 DEF Tick, TypeOK
  <2>3. CASE UNCHANGED redis
    BY <2>3
  <2> QED
    BY <2>1, <2>2, <2>3
    DEF Next, Publish, Deliver, Crash, ConnectionLost, Disconnected, Evict, Fault,
        RedisReliable, Drained
<1> QED
  BY <1>1, ClaimInvAlways, TypeInvAlways, PTL DEF Spec, SettledMarkerKept

-----------------------------------------------------------------------------
(* No duplicate reaches Postgres. *)

\* A settled marker outlasts the time in which a copy of the packet is still accepted,
\* even if the first copy settled as far ahead of its date as the tolerance allows.
MarkerOutlastsWindow == SettledTTL > FreshnessWindow + ClockSkewTolerance

\* A row's marker is about to be written, or is there for as long as its TTL says.
MarkedUntilExpiry(row) ==
  /\ row.settledAt <= now
  /\ \/ \E h \in Handler : pc[h] = "mark" /\ HKey(h) = row.key
     \/ redis[row.key] = "settled" /\ expires[row.key] >= row.settledAt + SettledTTL
     \/ row.settledAt + SettledTTL <= now

RowsMarked == \A i \in DOMAIN settlements : MarkedUntilExpiry(settlements[i])

\* From the claim to the insert there is no row for the handler's packet.
NoRowYet == \A h \in Handler : pc[h] \in {"open", "write"} => ~Settled(HKey(h))

\* What holds until the first failure.
UndisturbedInv == ClaimInv /\ RowsMarked /\ NoRowYet

\* The marker's clock: what has expired by now + 1 was due by then.
LEMMA ExpiryArithmetic ==
  ASSUME NEW s \in Nat, NEW e \in Nat, NEW t \in Nat, s <= t
  PROVE  /\ t + SettledTTL >= s + SettledTTL
         /\ e >= s + SettledTTL /\ e <= t + 1 => s + SettledTTL <= t + 1
         /\ s + SettledTTL <= t => s + SettledTTL <= t + 1
         /\ s <= t + 1
OBVIOUS

LEMMA RowFields ==
  ASSUME TypeOK, NEW i \in DOMAIN settlements
  PROVE  /\ settlements[i] \in Row
         /\ settlements[i].key \in Key /\ settlements[i].settledAt \in Nat
<1>1. settlements[i] \in Row
  BY DEF TypeOK
<1> QED
  BY <1>1 DEF Row

\* Without failures, the table's only change is an insert that WriteSettlement commits.
LEMMA InsertSteps ==
  ASSUME TypeInv, [Next]_vars, faults' = 0
  PROVE  \/ UNCHANGED settlements
         \/ \E h \in Handler : /\ WriteSettlement(h)
                               /\ settlements' = Append(settlements, NewRow(HKey(h)))
<1>0. TypeOK
  BY DEF TypeInv
<1>1. ASSUME NEW h \in Handler, HandlerStep(h)
      PROVE  UNCHANGED settlements
             \/ (WriteSettlement(h) /\ settlements' = Append(settlements, NewRow(HKey(h))))
  <2>1. ~WriteSettlementFails(h)
    BY <1>0 DEF WriteSettlementFails, Fault, TypeOK
  <2> QED
    BY <1>1, <2>1
    DEF HandlerStep, Validate, PersistRejection, PersistRejectionFails, ClaimWon,
        ClaimLost, ClaimFails, GetMarker, GetMarkerFails, OpenInstruction,
        OpenInstructionFails, ReleaseRejected, ReleaseRejectedFails, WriteSettlement,
        MarkSettled, MarkSettledFails, ReleaseClaim, ReleaseClaimFails, Ack, Nack, Finish
<1> QED
  BY <1>1 DEF Next, Publish, Deliver, Crash, ConnectionLost, Disconnected, Evict, Tick,
              Drained

\* Without failures, only mark_settled leaves the mark, and it writes the marker.
LEMMA MarkLeft ==
  ASSUME TypeInv, [Next]_vars, faults' = 0,
         NEW h \in Handler, pc[h] = "mark", pc'[h] # "mark" \/ msg'[h] # msg[h]
  PROVE  MarkSettled(h) /\ SetMarker(HKey(h), "settled", now + SettledTTL)
<1>0. TypeOK
  BY DEF TypeInv
<1>1. ASSUME NEW g \in Handler, HandlerStep(g) PROVE MarkSettled(h)
  <2>1. g = h
    BY <1>0, <1>1, HandlerFrame
  <2>2. ~MarkSettledFails(h)
    BY <1>0 DEF MarkSettledFails, Fault, TypeOK
  <2> QED
    BY <1>1, <2>1, <2>2
    DEF HandlerStep, Validate, PersistRejection, PersistRejectionFails, AfterPersist,
        ClaimWon, ClaimLost, ClaimFails, GetMarker, GetMarkerFails, OpenInstruction,
        OpenInstructionFails, ReleaseRejected, ReleaseRejectedFails, WriteSettlement,
        WriteSettlementFails, ReleaseClaim, ReleaseClaimFails, Ack, Nack
<1>2. ASSUME NEW g \in Handler, NEW m \in Msg, Deliver(g, m) PROVE FALSE
  BY <1>0, <1>2 DEF Deliver, Goto, TypeOK
<1>3. MarkSettled(h)
  BY <1>0, <1>1, <1>2
  DEF Next, Publish, Crash, ConnectionLost, Disconnected, Evict, Tick, Drained, Fault,
      TypeOK
<1> QED
  BY <1>3 DEF MarkSettled

\* A row stays marked in a step without failures.
LEMMA MarkedStays ==
  ASSUME Prompt, TypeInv, ClaimInv, [Next]_vars, faults' = 0,
         NEW row \in Row, MarkedUntilExpiry(row)
  PROVE  MarkedUntilExpiry(row)'
<1>0. TypeOK /\ row.key \in Key /\ row.settledAt \in Nat
  BY DEF TypeInv, Row
<1>1. now' \in Nat /\ (now' = now \/ now' = now + 1)
  BY <1>0, ClockStep DEF TypeOK, Tick
<1>2. now \in Nat /\ expires[row.key] \in Nat
  BY <1>0 DEF TypeOK
<1> DEFINE until == row.settledAt + SettledTTL
<1>3. row.settledAt <= now' /\ (until <= now => until <= now')
  BY <1>0, <1>1, <1>2, ExpiryArithmetic DEF MarkedUntilExpiry
<1>4. CASE until <= now
  BY <1>3, <1>4 DEF MarkedUntilExpiry
<1>5. ASSUME NEW h \in Handler, pc[h] = "mark", HKey(h) = row.key
      PROVE  MarkedUntilExpiry(row)'
  <2>1. CASE pc'[h] = "mark" /\ msg'[h] = msg[h]
    BY <1>3, <1>5, <2>1 DEF MarkedUntilExpiry, HKey
  <2>2. CASE pc'[h] # "mark" \/ msg'[h] # msg[h]
    <3>1. redis'[row.key] = "settled" /\ expires'[row.key] = now + SettledTTL
      BY <1>0, <1>5, <2>2, MarkLeft DEF SetMarker, TypeOK
    <3>2. expires'[row.key] >= until
      BY <1>0, <1>2, <3>1, ExpiryArithmetic DEF MarkedUntilExpiry
    <3> QED
      BY <1>3, <3>1, <3>2 DEF MarkedUntilExpiry
  <2> QED
    BY <2>1, <2>2
<1>6. CASE redis[row.key] = "settled" /\ expires[row.key] >= until
  <2>1. ASSUME NEW h \in Handler, HandlerStep(h) PROVE MarkedUntilExpiry(row)'
    <3>1. HKey(h) \in Key
      BY <2>1, PipelineMove, HKeyType DEF Pipeline
    <3>2. CASE redis'[row.key] = redis[row.key] /\ expires'[row.key] = expires[row.key]
      BY <1>3, <1>6, <3>2 DEF MarkedUntilExpiry
    <3>3. CASE Wins(h)
      BY <1>0, <1>6, <3>1, <3>2, <3>3 DEF Wins, SetMarker, TypeOK
    <3>4. CASE Keeps(h)
      BY <3>2, <3>4 DEF Keeps
    <3>5. CASE GivesUp(h)
      <4>1. CASE Delete(HKey(h))
        BY <1>0, <1>6, <3>1, <3>2, <3>5, <4>1
        DEF GivesUp, Delete, SetMarker, TypeOK, ClaimInv, HoldersHaveClaim
      <4>2. CASE pc[h] = "mark"
        BY <1>5, <1>0, <1>6, <3>1, <3>2, <3>5, <4>2 DEF GivesUp, Delete, SetMarker, TypeOK
      <4> QED
        BY <3>5, <4>1, <4>2 DEF GivesUp
    <3> QED
      BY <2>1, <3>3, <3>4, <3>5, ClaimStep DEF RedisAnswers
  <2>2. CASE Tick
    <3>1. CASE expires[row.key] <= now + 1
      <4>1. until <= now'
        BY <1>0, <1>2, <1>6, <2>2, <3>1, ExpiryArithmetic DEF Tick, MarkedUntilExpiry
      <4> QED
        BY <1>3, <4>1 DEF MarkedUntilExpiry
    <3>2. CASE ~(expires[row.key] <= now + 1)
      BY <1>0, <1>3, <1>6, <2>2, <3>2 DEF Tick, MarkedUntilExpiry
    <3> QED
      BY <3>1, <3>2
  <2>3. CASE UNCHANGED redisVars
    BY <1>3, <1>6, <2>3 DEF MarkedUntilExpiry
  <2> QED
    BY <1>0, <2>1, <2>2, <2>3
    DEF Next, Publish, Deliver, Crash, ConnectionLost, Disconnected, Evict, Fault,
        Drained, TypeOK
<1> QED
  BY <1>4, <1>5, <1>6 DEF MarkedUntilExpiry

LEMMA RowsMarkedNext ==
  ASSUME Prompt
  PROVE  TypeInv /\ UndisturbedInv /\ [Next]_vars /\ faults' = 0 => RowsMarked'
<1> SUFFICES ASSUME TypeInv, UndisturbedInv, [Next]_vars, faults' = 0 PROVE RowsMarked'
  OBVIOUS
<1>0. TypeOK
  BY DEF TypeInv
<1>1. ASSUME NEW i \in DOMAIN settlements, NEW row, row = settlements[i]
      PROVE  MarkedUntilExpiry(row)'
  BY <1>0, <1>1, MarkedStays, RowFields DEF UndisturbedInv, RowsMarked
<1>2. CASE UNCHANGED settlements
  BY <1>1, <1>2 DEF RowsMarked
<1>3. ASSUME NEW h \in Handler, WriteSettlement(h),
             settlements' = Append(settlements, NewRow(HKey(h)))
      PROVE  RowsMarked'
  <2>1. HKey(h) \in Key /\ HKey(h)' = HKey(h) /\ pc'[h] = "mark" /\ now' = now /\ now \in Nat
    BY <1>0, <1>3, HKeyType DEF WriteSettlement, Goto, TypeOK, HKey
  <2>2. ASSUME NEW row, row = NewRow(HKey(h)) PROVE MarkedUntilExpiry(row)'
    BY <2>1, <2>2 DEF NewRow, MarkedUntilExpiry
  <2>3. \A i \in DOMAIN settlements' : \/ i \in DOMAIN settlements /\ settlements'[i] = settlements[i]
                                       \/ settlements'[i] = NewRow(HKey(h))
    BY <1>0, <1>3, <2>1, InsertedRows
  <2>4. ASSUME NEW i \in DOMAIN settlements', NEW row, row = settlements'[i]
        PROVE  MarkedUntilExpiry(row)'
    BY <1>1, <2>2, <2>3, <2>4
  <2> QED
    BY <2>4 DEF RowsMarked
<1> QED
  BY <1>2, <1>3, InsertSteps

\* What the arithmetic of the window and of the marker's TTL says of a fresh packet.
LEMMA FreshMeansMarked ==
  ASSUME MarkerOutlastsWindow, NEW k \in Key, NEW s \in Nat, NEW t \in Nat,
         s - CreatedAt[k] \in (0 - ClockSkewTolerance)..FreshnessWindow,
         ~TooOld(k, t)
  PROVE  ~(s + SettledTTL <= t)
BY DEF MarkerOutlastsWindow, TooOld

\* A handler that wins its claim finds no row: the row's marker would still be there.
LEMMA WonMeansNoRow ==
  ASSUME MarkerOutlastsWindow, TypeInv, UndisturbedInv, StillFresh, SettledWhileFresh,
         NEW h \in Handler, ClaimWon(h)
  PROVE  ~Settled(HKey(h))
<1>0. TypeOK /\ now \in Nat /\ HKey(h) \in Key
  BY HKeyType DEF TypeInv, TypeOK, ClaimWon
<1> SUFFICES ASSUME NEW i \in DOMAIN settlements, settlements[i].key = HKey(h) PROVE FALSE
  BY DEF Settled
<1>1. settlements[i].settledAt \in Nat
  BY <1>0, RowFields
<1>2. settlements[i].settledAt - CreatedAt[HKey(h)]
        \in (0 - ClockSkewTolerance)..FreshnessWindow
  BY DEF SettledWhileFresh
<1>3. ~TooOld(HKey(h), now)
  BY DEF StillFresh, ClaimWon
<1>4. ~(settlements[i].settledAt + SettledTTL <= now)
  BY <1>0, <1>1, <1>2, <1>3, FreshMeansMarked
<1>5. \A g \in Handler : pc[g] = "mark" => redis[HKey(g)] = "claimed"
  BY DEF UndisturbedInv, ClaimInv, HoldersHaveClaim, Holding
<1> QED
  BY <1>4, <1>5 DEF UndisturbedInv, RowsMarked, MarkedUntilExpiry, ClaimWon

LEMMA NoRowYetNext ==
  ASSUME Prompt, MarkerOutlastsWindow
  PROVE  /\ TypeInv /\ UndisturbedInv /\ StillFresh /\ SettledWhileFresh
         /\ [Next]_vars /\ faults' = 0
         => NoRowYet'
<1> SUFFICES ASSUME TypeInv, UndisturbedInv, StillFresh, SettledWhileFresh,
                    [Next]_vars, faults' = 0,
                    NEW g \in Handler, pc'[g] \in {"open", "write"}
             PROVE  ~Settled(HKey(g))'
  BY DEF NoRowYet
<1>0. TypeOK
  BY DEF TypeInv
<1>1. /\ HKey(g)' = HKey(g)
      /\ \/ pc[g] \in {"open", "write"} /\ ~Settled(HKey(g))
         \/ ClaimWon(g)
  <2>1. ASSUME NEW h \in Handler, HandlerStep(h), g # h
        PROVE  pc'[g] = pc[g] /\ msg'[g] = msg[g]
    BY <1>0, <2>1, HandlerFrame
  <2>2. ASSUME HandlerStep(g), pc[g] # "open" PROVE ClaimWon(g)
    BY <1>0, <2>2
    DEF HandlerStep, Validate, PersistRejection, PersistRejectionFails, AfterPersist,
        ClaimLost, ClaimFails, GetMarker, GetMarkerFails, OpenInstruction,
        OpenInstructionFails, ReleaseRejected, ReleaseRejectedFails, WriteSettlement,
        WriteSettlementFails, MarkSettled, MarkSettledFails, ReleaseClaim,
        ReleaseClaimFails, Ack, Nack, Finish, Return, Raise, Goto, TypeOK
  <2>3. ASSUME HandlerStep(g) PROVE msg'[g] = msg[g]
    BY <2>3, PipelineMove
  <2>4. \/ pc'[g] = pc[g] /\ msg'[g] = msg[g]
        \/ HandlerStep(g)
    BY <1>0, <2>1
    DEF Next, Publish, Deliver, Goto, Crash, ConnectionLost, Disconnected, Evict, Tick,
        Drained, TypeOK
  <2> QED
    BY <2>2, <2>3, <2>4 DEF UndisturbedInv, NoRowYet, HKey
<1>2. ~Settled(HKey(g))
  BY <1>1, WonMeansNoRow
<1>3. CASE UNCHANGED settlements
  BY <1>1, <1>2, <1>3 DEF Settled
<1>4. ASSUME NEW h \in Handler, WriteSettlement(h),
             settlements' = Append(settlements, NewRow(HKey(h)))
      PROVE  ~Settled(HKey(g))'
  <2>1. HKey(h) \in Key
    BY <1>4, HKeyType DEF WriteSettlement
  <2>2. HKey(h) # HKey(g)
    <3>1. g # h
      BY <1>0, <1>4 DEF WriteSettlement, Goto, TypeOK
    <3>2. Holding(h) /\ redis[HKey(h)] = "claimed"
      BY <1>4 DEF WriteSettlement, Holding, UndisturbedInv, ClaimInv, HoldersHaveClaim
    <3>3. CASE ClaimWon(g)
      BY <3>2, <3>3 DEF ClaimWon
    <3>4. CASE pc[g] \in {"open", "write"}
      BY <3>1, <3>2, <3>4 DEF UndisturbedInv, ClaimInv, ClaimExclusive, Holding
    <3> QED
      BY <1>1, <3>3, <3>4
  <2>3. NewRow(HKey(h)).key = HKey(h)
    BY DEF NewRow
  <2> HIDE DEF NewRow
  <2> QED
    BY <1>0, <1>1, <1>2, <1>4, <2>1, <2>2, <2>3, InsertedRows DEF Settled
<1> QED
  BY <1>3, <1>4, InsertSteps

\* With prompt handlers and a settled marker that outlasts the freshness window plus
\* the tolerance, no handler gets to the insert for a packet that has a row, until the
\* first failure.  With the default TTL it does.
THEOREM DuplicatesStopAtRedis ==
  ASSUME Prompt, MarkerOutlastsWindow
  PROVE  Spec => []NoDuplicateReachesPostgres
<1> DEFINE Inv == StillFresh /\ SettledWhileFresh /\ (faults = 0 => UndisturbedInv)
<1>1. Init => Inv
  BY ClaimInvInit
  DEF Init, StillFresh, SettledWhileFresh, UndisturbedInv, RowsMarked, NoRowYet
<1>2. TypeInv /\ Inv /\ [Next]_vars => Inv'
  <2> SUFFICES ASSUME TypeInv, Inv, [Next]_vars PROVE Inv'
    OBVIOUS
  <2>1. StillFresh' /\ SettledWhileFresh'
    BY StillFreshNext, SettledWhileFreshNext
  <2>2. ASSUME faults' = 0 PROVE UndisturbedInv'
    <3>1. faults = 0
      <4>1. ASSUME NEW h \in Handler, HandlerStep(h) PROVE faults = 0
        BY <2>2, <4>1
        DEF HandlerStep, Validate, PersistRejection, PersistRejectionFails, ClaimWon,
            ClaimLost, ClaimFails, GetMarker, GetMarkerFails, OpenInstruction,
            OpenInstructionFails, ReleaseRejected, ReleaseRejectedFails, WriteSettlement,
            WriteSettlementFails, MarkSettled, MarkSettledFails, ReleaseClaim,
            ReleaseClaimFails, Ack, Nack, Finish, Fault, TypeInv, TypeOK
      <4> QED
        BY <2>2, <4>1
        DEF Next, Publish, Deliver, Crash, ConnectionLost, Disconnected, Evict, Tick,
            Drained, Fault, TypeInv, TypeOK
    <3>2. ClaimInv'
      BY <2>2, <3>1, ClaimInvNext DEF UndisturbedInv, RedisAnswers
    <3> QED
      BY <2>2, <3>1, <3>2, RowsMarkedNext, NoRowYetNext DEF UndisturbedInv
  <2> QED
    BY <2>1, <2>2
<1>3. Inv => NoDuplicateReachesPostgres
  BY DEF UndisturbedInv, NoRowYet, NoDuplicateReachesPostgres
<1> QED
  BY <1>1, <1>2, <1>3, TypeInvAlways, PTL DEF Spec
=============================================================================
