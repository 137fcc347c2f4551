----------------------------- MODULE CountProofs -----------------------------
(***************************************************************************)
(* The counting theorems: the replicas' settled counters against the rows  *)
(* of the settlements table, and the refusals that were acked against the  *)
(* rows of rejected_packets.                                               *)
(***************************************************************************)
EXTENDS ClaimProofs, FiniteSetTheorems

USE HandlerAssumption, PacketAssumption, SettingsAssumption, FaultAssumption
USE DEF PacketsOK, SettingsOK
USE DEF vars, brokerVars, redisVars, dbVars, handlerVars, envVars

-----------------------------------------------------------------------------
(* Settlements are counted once. *)

\* Each row has been counted, is being marked, or was never reported.
CountInv ==
  /\ IsFiniteSet(SettledCounts)
  /\ IsFiniteSet(Settling)
  /\ SettledNeverOverstated

LEMMA SettledCounter ==
  ASSUME NEW o \in Outcome
  PROVE  CounterOf(o) = "settled" <=> o = "SETTLED"
BY DEF CounterOf, Outcome, Duplicate, RejectReason

LEMMA InSettledCounts ==
  ASSUME NEW u
  PROVE  u \in SettledCounts
           <=> \E c \in Consumer : \E n \in 1..metrics[c]["settled"] : u = <<c, n>>
BY DEF SettledCounts

\* What a returned outcome adds to the settled counters: one if it is SETTLED.
LEMMA ReturnCounts ==
  ASSUME TypeInv, NEW h \in Handler, NEW o \in Outcome, Return(h, o)
  PROVE  \A c \in Consumer :
           metrics'[c]["settled"] = IF o = "SETTLED" /\ c = ConsumerOf[h]
                                    THEN metrics[c]["settled"] + 1
                                    ELSE metrics[c]["settled"]
<1>0. TypeOK /\ ConsumerOf[h] \in Consumer
  BY DEF TypeInv
<1>1. CounterOf(o) \in Counter /\ (CounterOf(o) = "settled" <=> o = "SETTLED")
  BY SettledCounter, CounterOfType
<1>2. "settled" \in Counter
  BY DEF Counter
<1>3. metrics' = [metrics EXCEPT ![ConsumerOf[h]][CounterOf(o)] = @ + 1]
  BY DEF Return
<1> HIDE DEF Return, CounterOf
<1> QED
  BY <1>0, <1>1, <1>2, <1>3 DEF TypeOK

\* A handler's step that counts a settlement is the marking of one it committed.
CountsOne(h) ==
  /\ MarkSettled(h) /\ outcome[h] = "SETTLED"
  /\ \A c \in Consumer :
       metrics'[c]["settled"] = IF c = ConsumerOf[h] THEN metrics[c]["settled"] + 1
                                                     ELSE metrics[c]["settled"]

CountsNone == \A c \in Consumer : metrics'[c]["settled"] = metrics[c]["settled"]

LEMMA CounterStep ==
  ASSUME TypeInv, NEW h \in Handler, HandlerStep(h)
  PROVE  \/ CountsOne(h)
         \/ CountsNone /\ ~(MarkSettled(h) /\ outcome[h] = "SETTLED")
<1>0. TypeOK /\ HandlersOK
  BY DEF TypeInv
<1>a. ASSUME NEW o \in Outcome, Return(h, o), o # "SETTLED" PROVE CountsNone
  BY <1>a, ReturnCounts DEF CountsNone
<1>1. CASE MarkSettled(h)
  <2>1. outcome[h] \in Outcome /\ Return(h, outcome[h])
    BY <1>0, <1>1 DEF MarkSettled, HandlersOK, Outcome, Duplicate
  <2> QED
    BY <1>1, <2>1, ReturnCounts DEF CountsOne, CountsNone
<1>2. CASE PersistRejection(h) \/ PersistRejectionFails(h)
  <2>1. ~MarkSettled(h) /\ (UNCHANGED metrics \/ Return(h, outcome[h]))
    BY <1>2 DEF PersistRejection, PersistRejectionFails, AfterPersist, MarkSettled
  <2>2. outcome[h] \in Outcome /\ outcome[h] # "SETTLED"
    BY <1>0, <1>2
    DEF PersistRejection, PersistRejectionFails, AfterPersist, HandlersOK, RejectReason,
        Outcome
  <2> QED
    BY <1>a, <2>1, <2>2 DEF CountsNone
<1>3. CASE ReleaseRejected(h)
  <2>1. ~MarkSettled(h) /\ Return(h, outcome[h])
    BY <1>3 DEF ReleaseRejected, MarkSettled
  <2>2. outcome[h] \in Outcome /\ outcome[h] # "SETTLED"
    BY <1>0, <1>3 DEF ReleaseRejected, HandlersOK, RejectReason, Outcome
  <2> QED
    BY <1>a, <2>1, <2>2
<1>4. CASE GetMarker(h)
  <2>1. PICK o \in Duplicate : Return(h, o)
    BY <1>4 DEF GetMarker, Duplicate
  <2>2. o \in Outcome /\ o # "SETTLED"
    BY <2>1 DEF Duplicate, Outcome
  <2> QED
    BY <1>a, <1>4, <2>1, <2>2 DEF GetMarker, MarkSettled
<1>5. CASE ReleaseClaim(h)
  <2>1. Return(h, "INTERNAL_ERROR") /\ "INTERNAL_ERROR" \in Outcome
    BY <1>5 DEF ReleaseClaim, Outcome
  <2> QED
    BY <1>a, <1>5, <2>1 DEF ReleaseClaim, MarkSettled
<1>6. CASE /\ ~MarkSettled(h) /\ ~PersistRejection(h) /\ ~PersistRejectionFails(h)
           /\ ~ReleaseRejected(h) /\ ~GetMarker(h) /\ ~ReleaseClaim(h)
  BY <1>6, HandlerStep(h)
  DEF HandlerStep, Validate, ClaimWon, ClaimLost, ClaimFails, GetMarkerFails,
      OpenInstruction, OpenInstructionFails,
      ReleaseRejectedFails, WriteSettlement, WriteSettlementFails, MarkSettledFails,
      ReleaseClaimFails, Ack, Nack, Finish, Raise, CountsNone
<1> QED
  BY <1>1, <1>2, <1>3, <1>4, <1>5, <1>6

\* The counters' set with and without the settlement a step counts.
LEMMA CountsNoneSame == ASSUME CountsNone PROVE SettledCounts' = SettledCounts
<1>1. \A c \in Consumer : {c} \X (1..metrics'[c]["settled"]) = {c} \X (1..metrics[c]["settled"])
  BY DEF CountsNone
<1> QED
  BY <1>1 DEF SettledCounts

LEMMA CountsOneMore ==
  ASSUME TypeInv, NEW h \in Handler, CountsOne(h)
  PROVE  \E u : u \notin SettledCounts /\ SettledCounts' = SettledCounts \cup {u}
<1> DEFINE n == metrics[ConsumerOf[h]]["settled"]
           u == <<ConsumerOf[h], n + 1>>
<1>0. ConsumerOf[h] \in Consumer /\ \A c \in Consumer : metrics[c]["settled"] \in Nat
  BY DEF TypeInv, TypeOK, Counter
<1>1. u \notin SettledCounts
  <2> SUFFICES ASSUME NEW c \in Consumer, NEW i \in 1..metrics[c]["settled"], u = <<c, i>>
               PROVE  FALSE
    BY InSettledCounts
  <2> QED
    BY <1>0
<1>2. \A c \in Consumer : metrics'[c]["settled"] = IF c = ConsumerOf[h] THEN n + 1
                                                                        ELSE metrics[c]["settled"]
  BY DEF CountsOne
<1>3. \A c \in Consumer : \A i : i \in 1..metrics'[c]["settled"]
                                   <=> \/ i \in 1..metrics[c]["settled"]
                                       \/ c = ConsumerOf[h] /\ i = n + 1
  BY <1>0, <1>2
<1>4. ASSUME NEW v
      PROVE  v \in SettledCounts'
               <=> \E c \in Consumer : \E i \in 1..metrics'[c]["settled"] : v = <<c, i>>
  BY DEF SettledCounts
<1>5. ASSUME NEW v PROVE v \in SettledCounts' <=> v \in SettledCounts \/ v = u
  BY <1>0, <1>3, <1>4, InSettledCounts
<1>6. SettledCounts' = SettledCounts \cup {u}
  BY <1>5
<1> QED
  BY <1>1, <1>6

\* What a step does to what the counting relates: it commits a settlement, counts one
\* that is committed, loses count of some after a failure, or does none of these.
Commits ==
  /\ \E h \in Handler : h \notin Settling /\ Settling' = Settling \cup {h}
  /\ SettledCounts' = SettledCounts
  /\ Len(settlements') = Len(settlements) + 1

Counts ==
  /\ \E h \in Settling : Settling' = Settling \ {h}
  /\ \E u : u \notin SettledCounts /\ SettledCounts' = SettledCounts \cup {u}
  /\ Len(settlements') = Len(settlements)

LosesCount ==
  /\ faults' # 0
  /\ Settling' \subseteq Settling
  /\ SettledCounts' \subseteq SettledCounts
  /\ Len(settlements') >= Len(settlements)

CountsAsBefore == UNCHANGED <<Settling, SettledCounts>> /\ Len(settlements') = Len(settlements)

LEMMA CountSteps ==
  TypeInv /\ [Next]_vars => Commits \/ Counts \/ LosesCount \/ CountsAsBefore
<1> SUFFICES ASSUME TypeInv, [Next]_vars
             PROVE  Commits \/ Counts \/ LosesCount \/ CountsAsBefore
  OBVIOUS
<1>0. TypeOK /\ HandlersOK /\ Len(settlements) \in Nat /\ faults \in Nat
  BY DEF TypeInv, TypeOK
<1>1. ASSUME NEW h \in Handler, HandlerStep(h)
      PROVE  Commits \/ Counts \/ LosesCount \/ CountsAsBefore
  <2>1. \A g \in Handler : g # h => (g \in Settling' <=> g \in Settling)
    BY <1>0, <1>1, HandlerFrame DEF Settling
  <2>2. Settling \subseteq Handler /\ Settling' \subseteq Handler
    BY DEF Settling
  <2>3. CASE WriteSettlement(h)
    <3>1. h \notin Settling /\ SettledCounts' = SettledCounts
      BY <2>3, CountsNoneSame DEF WriteSettlement, Settling, CountsNone
    <3>2. CASE settlements' = Append(settlements, NewRow(HKey(h))) /\ outcome'[h] = "SETTLED"
      <4>1. h \in Settling'
        BY <1>0, <2>3, <3>2 DEF WriteSettlement, Goto, TypeOK, Settling
      <4>2. Settling' = Settling \cup {h}
        BY <2>1, <2>2, <4>1
      <4>3. Len(settlements') = Len(settlements) + 1
        BY <1>0, <2>3, <3>2, HKeyType, InsertedRows DEF WriteSettlement
      <4> QED
        BY <3>1, <4>2, <4>3 DEF Commits
    <3>3. CASE UNCHANGED settlements /\ outcome'[h] = "ALREADY_SETTLED"
      <4>1. h \notin Settling'
        BY <3>3 DEF Settling
      <4>2. Settling' = Settling
        BY <2>1, <2>2, <3>1, <4>1
      <4> QED
        BY <3>1, <3>3, <4>2 DEF CountsAsBefore
    <3> QED
      BY <1>0, <2>3, <3>2, <3>3 DEF WriteSettlement, TypeOK
  <2>4. CASE CountsOne(h)
    <3>1. h \in Settling /\ h \notin Settling' /\ UNCHANGED settlements
      BY <1>0, <2>4 DEF CountsOne, MarkSettled, Return, Goto, TypeOK, Settling
    <3>2. Settling' = Settling \ {h}
      BY <2>1, <2>2, <3>1
    <3> QED
      BY <2>4, <3>1, <3>2, CountsOneMore DEF Counts
  <2>5. CASE WriteSettlementFails(h) \/ MarkSettledFails(h)
    <3>1. faults' # 0
      BY <1>0, <2>5 DEF WriteSettlementFails, MarkSettledFails, Fault
    <3>2. h \notin Settling'
      BY <1>0, <2>5 DEF WriteSettlementFails, MarkSettledFails, Goto, TypeOK, Settling
    <3>3. SettledCounts' = SettledCounts
      BY <2>5, CountsNoneSame DEF WriteSettlementFails, MarkSettledFails, CountsNone
    <3>4. Len(settlements') >= Len(settlements)
      BY <1>0, <2>5, HKeyType, InsertedRows DEF WriteSettlementFails, MarkSettledFails
    <3> QED
      BY <2>1, <2>2, <3>1, <3>2, <3>3, <3>4 DEF LosesCount
  <2>6. CASE /\ ~WriteSettlement(h) /\ ~CountsOne(h)
             /\ ~WriteSettlementFails(h) /\ ~MarkSettledFails(h)
    <3>1. SettledCounts' = SettledCounts /\ ~(MarkSettled(h) /\ outcome[h] = "SETTLED")
      BY <1>1, <2>6, CounterStep, CountsNoneSame
    <3>2. h \notin Settling
      BY <1>1, <2>6, <3>1
      DEF HandlerStep, Settling, Validate, PersistRejection, PersistRejectionFails,
          AfterPersist, ClaimWon, ClaimLost, ClaimFails, GetMarker, GetMarkerFails,
          OpenInstruction, OpenInstructionFails, ReleaseRejected, ReleaseRejectedFails,
          ReleaseClaim, ReleaseClaimFails, Ack, Nack
    <3>3. pc'[h] # "mark" /\ UNCHANGED settlements
      BY <1>0, <1>1, <2>6
      DEF HandlerStep, TypeOK, Validate, PersistRejection, PersistRejectionFails,
          AfterPersist, ClaimWon, ClaimLost, ClaimFails, GetMarker, GetMarkerFails,
          OpenInstruction, OpenInstructionFails, ReleaseRejected, ReleaseRejectedFails,
          MarkSettled, ReleaseClaim, ReleaseClaimFails, Ack, Nack, Finish, Return, Raise,
          Goto
    <3>4. h \notin Settling'
      BY <3>3 DEF Settling
    <3>5. \A g \in Handler : g \in Settling' <=> g \in Settling
      BY <2>1, <3>2, <3>4
    <3> QED
      BY <2>2, <3>1, <3>3, <3>5 DEF CountsAsBefore
  <2> QED
    BY <2>3, <2>4, <2>5, <2>6
<1>2. ASSUME NEW h \in Handler, NEW m \in Msg, Deliver(h, m) PROVE CountsAsBefore
  <2>1. Settling' = Settling
    BY <1>0, <1>2 DEF Deliver, Goto, TypeOK, Settling
  <2> QED
    BY <1>2, <2>1, CountsNoneSame DEF Deliver, CountsNone, CountsAsBefore
<1>3. ASSUME NEW c \in Consumer, Crash(c) \/ ConnectionLost(c) PROVE LosesCount
  <2>0. PICK hs \in SUBSET Own(c) : Disconnected(c, hs)
    BY <1>3, Disconnections
  <2>1. faults' # 0 /\ UNCHANGED settlements
    BY <1>0, <1>3, <2>0 DEF Crash, ConnectionLost, Disconnected, Fault
  <2>2. Settling' \subseteq Settling
    BY <2>0 DEF Disconnected, Settling
  <2>3. SettledCounts' \subseteq SettledCounts
    <3>1. CASE Crash(c)
      <4>1. \A d \in Consumer :
              metrics'[d]["settled"] = IF d = c THEN 0 ELSE metrics[d]["settled"]
        BY <1>0, <3>1 DEF Crash, TypeOK, Counter
      <4>2. \A d \in Consumer : {d} \X (1..metrics'[d]["settled"])
                                \subseteq {d} \X (1..metrics[d]["settled"])
        BY <4>1
      <4> QED
        BY <4>2 DEF SettledCounts
    <3>2. CASE ConnectionLost(c)
      BY <3>2 DEF ConnectionLost, SettledCounts
    <3> QED
      BY <1>3, <3>1, <3>2
  <2> QED
    BY <1>0, <2>1, <2>2, <2>3 DEF LosesCount
<1>4. CASE UNCHANGED <<pc, outcome, metrics, settlements>>
  BY <1>4, CountsNoneSame DEF CountsAsBefore, CountsNone, Settling
<1> QED
  BY <1>1, <1>2, <1>3, <1>4 DEF Next, Publish, Evict, Tick, Drained

LEMMA CountInvNext ==
  ASSUME TypeInv, CountInv, [Next]_vars
  PROVE  CountInv' /\ (SettledCountedOnce /\ faults' = 0 /\ faults = 0 => SettledCountedOnce')
<1>0. Len(settlements) \in Nat /\ Len(settlements') \in Nat
  BY TypeOKNext DEF TypeInv, TypeOK
<1>1. /\ IsFiniteSet(Settling) /\ Cardinality(Settling) \in Nat
      /\ IsFiniteSet(SettledCounts) /\ Cardinality(SettledCounts) \in Nat
      /\ Cardinality(SettledCounts) + Cardinality(Settling) <= Len(settlements)
  BY FS_CardinalityType DEF CountInv, SettledNeverOverstated
<1> DEFINE Goal(F, S) ==
      /\ IsFiniteSet(S) /\ IsFiniteSet(F)
      /\ Cardinality(S) + Cardinality(F) <= Len(settlements')
      /\ SettledCountedOnce /\ faults' = 0 /\ faults = 0
           => Cardinality(S) + Cardinality(F) = Len(settlements')
<1>2. Goal(Settling', SettledCounts')
  <2>1. CASE Commits
    <3>1. PICK h \in Handler : h \notin Settling /\ Settling' = Settling \cup {h}
      BY <2>1 DEF Commits
    <3>2. IsFiniteSet(Settling') /\ Cardinality(Settling') = Cardinality(Settling) + 1
      BY <1>1, <3>1, FS_AddElement
    <3>3. SettledCounts' = SettledCounts /\ Len(settlements') = Len(settlements) + 1
      BY <2>1 DEF Commits
    <3>4. Cardinality(SettledCounts') = Cardinality(SettledCounts) /\ IsFiniteSet(SettledCounts')
      BY <1>1, <3>3
    <3>5. Cardinality(SettledCounts') + Cardinality(Settling') <= Len(settlements')
      BY <1>0, <1>1, <3>2, <3>3, <3>4
    <3> QED
      BY <1>0, <1>1, <3>2, <3>3, <3>4, <3>5 DEF SettledCountedOnce
  <2>2. CASE Counts
    <3>1. PICK h \in Settling : Settling' = Settling \ {h}
      BY <2>2 DEF Counts
    <3>2. PICK u : u \notin SettledCounts /\ SettledCounts' = SettledCounts \cup {u}
      BY <2>2 DEF Counts
    <3>3. IsFiniteSet(Settling') /\ Cardinality(Settling') = Cardinality(Settling) - 1
      BY <1>1, <3>1, FS_RemoveElement
    <3>4. IsFiniteSet(SettledCounts') /\ Cardinality(SettledCounts') = Cardinality(SettledCounts) + 1
      BY <1>1, <3>2, FS_AddElement
    <3> QED
      BY <1>0, <1>1, <2>2, <3>3, <3>4 DEF Counts, SettledCountedOnce
  <2>3. CASE LosesCount
    <3>1. /\ IsFiniteSet(Settling') /\ Cardinality(Settling') <= Cardinality(Settling)
          /\ IsFiniteSet(SettledCounts') /\ Cardinality(SettledCounts') <= Cardinality(SettledCounts)
          /\ Cardinality(Settling') \in Nat /\ Cardinality(SettledCounts') \in Nat
      BY <1>1, <2>3, FS_Subset, FS_CardinalityType DEF LosesCount
    <3> QED
      BY <1>0, <1>1, <2>3, <3>1 DEF LosesCount
  <2>4. CASE CountsAsBefore
    BY <1>0, <1>1, <2>4 DEF CountsAsBefore, SettledCountedOnce
  <2> QED
    BY <2>1, <2>2, <2>3, <2>4, CountSteps
<1> QED
  BY <1>2 DEF CountInv, SettledNeverOverstated, SettledCountedOnce

LEMMA CountInvInit == Init => CountInv /\ SettledCountedOnce
<1> SUFFICES ASSUME Init PROVE CountInv /\ SettledCountedOnce
  OBVIOUS
<1>1. Settling = {}
  BY DEF Init, Settling
<1>2. SettledCounts = {}
  <2>1. \A c \in Consumer : metrics[c]["settled"] = 0
    BY DEF Init, Counter
  <2> QED
    BY <2>1, InSettledCounts
<1>3. Len(settlements) = 0
  BY DEF Init
<1> QED
  BY <1>1, <1>2, <1>3, FS_EmptySet DEF CountInv, SettledNeverOverstated, SettledCountedOnce

\* The replicas' settled counters, with the settlements being marked right now, never
\* add up to more than the rows, whatever fails or is retried.
THEOREM CountersNeverOverstate == Spec => []SettledNeverOverstated
<1>1. TypeInv /\ CountInv /\ [Next]_vars => CountInv'
  BY CountInvNext
<1>2. CountInv => SettledNeverOverstated
  BY DEF CountInv
<1> QED
  BY <1>1, <1>2, CountInvInit, TypeInvAlways, PTL DEF Spec

\* Failures are not forgotten.
LEMMA FaultsOnlyGrow == TypeInv /\ [Next]_vars /\ faults' = 0 => faults = 0
<1> SUFFICES ASSUME TypeInv, [Next]_vars, faults' = 0 PROVE faults = 0
  OBVIOUS
<1>1. ASSUME NEW h \in Handler, HandlerStep(h) PROVE faults = 0
  BY <1>1
  DEF HandlerStep, Validate, PersistRejection, PersistRejectionFails, ClaimWon, ClaimLost,
      ClaimFails, GetMarker, GetMarkerFails, OpenInstruction, OpenInstructionFails,
      ReleaseRejected, ReleaseRejectedFails, WriteSettlement, WriteSettlementFails,
      MarkSettled, MarkSettledFails, ReleaseClaim, ReleaseClaimFails, Ack, Nack, Finish,
      Fault, TypeInv, TypeOK
<1> QED
  BY <1>1 DEF Next, Publish, Deliver, Crash, ConnectionLost, Disconnected, Evict, Tick,
              Drained, Fault, TypeInv, TypeOK

\* Until the first failure they add up to exactly the rows: each settlement is counted,
\* and once.
THEOREM EachSettlementCountedOnce == Spec => []SettledCountedOnce
<1>1. TypeInv /\ CountInv /\ SettledCountedOnce /\ [Next]_vars => CountInv' /\ SettledCountedOnce'
  <2> SUFFICES ASSUME TypeInv, CountInv, SettledCountedOnce, [Next]_vars
               PROVE  CountInv' /\ SettledCountedOnce'
    OBVIOUS
  <2>1. CASE faults' = 0
    BY <2>1, CountInvNext, FaultsOnlyGrow
  <2>2. CASE faults' # 0
    BY <2>2, CountInvNext DEF SettledCountedOnce
  <2> QED
    BY <2>1, <2>2
<1> QED
  BY <1>1, CountInvInit, TypeInvAlways, PTL DEF Spec

-----------------------------------------------------------------------------
(* Every refusal that is acked has its evidence. *)

\* The database answers: what _persist_rejection stores is stored.
PostgresAnswers == "postgres" \notin Faults

\* The messages acked as refused with a key and a reason, and the handlers that have
\* stored their evidence and are on the way to that ack.
Refused(k, r)  == {m \in Msg : EvidenceKey(m) = k /\ verdict[m] = r}
Refusing(k, r) == {h \in Handler : /\ pc[h] \in {"releaseRejected", "ack"}
                                   /\ outcome[h] = r
                                   /\ EvidenceKey(msg[h]) = k}

\* There is a row for each of them.
EvidenceStored(k, r) ==
  /\ IsFiniteSet(Refused(k, r))
  /\ IsFiniteSet(Refusing(k, r))
  /\ Cardinality(Refused(k, r)) + Cardinality(Refusing(k, r)) <= rejections[k][r]

EvidenceInv == \A k \in Key \cup {NoKey}, r \in RejectReason : EvidenceStored(k, r)

\* What a step does to one key and reason: it stores a row for a handler, which goes on
\* to refuse; it acks a refusal; or it adds no refusal.
Stores(k, r) ==
  /\ Refused(k, r)' \subseteq Refused(k, r)
  /\ \E h \in Handler : Refusing(k, r)' \subseteq Refusing(k, r) \cup {h}
  /\ rejections'[k][r] = rejections[k][r] + 1

AcksRefusal(k, r) ==
  /\ \E m \in Msg : Refused(k, r)' \subseteq Refused(k, r) \cup {m}
  /\ \E h \in Refusing(k, r) : Refusing(k, r)' \subseteq Refusing(k, r) \ {h}
  /\ rejections'[k][r] = rejections[k][r]

NoRefusal(k, r) ==
  /\ Refused(k, r)' \subseteq Refused(k, r)
  /\ Refusing(k, r)' \subseteq Refusing(k, r)
  /\ rejections'[k][r] = rejections[k][r]

LEMMA EvidenceSteps ==
  ASSUME PostgresAnswers, TypeInv, [Next]_vars, NEW k \in Key \cup {NoKey}, NEW r \in RejectReason
  PROVE  Stores(k, r) \/ AcksRefusal(k, r) \/ NoRefusal(k, r)
<1>0. TypeOK /\ HandlersOK
  BY DEF TypeInv
<1>1. CASE UNCHANGED <<verdict, rejections, pc, msg, outcome>>
  BY <1>1 DEF NoRefusal, Refused, Refusing
<1>2. ASSUME NEW h \in Handler, NEW m \in Msg, Deliver(h, m) PROVE NoRefusal(k, r)
  BY <1>0, <1>2 DEF Deliver, Goto, TypeOK, NoRefusal, Refused, Refusing
<1>3. ASSUME NEW c \in Consumer, NEW hs \in SUBSET Own(c), Disconnected(c, hs)
      PROVE  NoRefusal(k, r)
  BY <1>3 DEF Disconnected, NoRefusal, Refused, Refusing
<1>4. ASSUME NEW h \in Handler, HandlerStep(h)
      PROVE  Stores(k, r) \/ AcksRefusal(k, r) \/ NoRefusal(k, r)
  <2>1. \A g \in Handler : g # h => (g \in Refusing(k, r)' <=> g \in Refusing(k, r))
    BY <1>0, <1>4, HandlerFrame DEF Refusing
  <2>2. Refusing(k, r)' \subseteq Handler /\ Refusing(k, r) \subseteq Handler
    BY DEF Refusing
  <2>3. CASE PersistRejection(h)
    <3>1. outcome[h] \in RejectReason /\ EvidenceKey(msg[h]) \in Key \cup {NoKey}
      BY <1>0, <2>3, AfterPersistType, HKeyType DEF PersistRejection, EvidenceKey, HKey
    <3>2. UNCHANGED <<verdict, msg>>
      BY <2>3 DEF PersistRejection
    <3>3. outcome'[h] = outcome[h]
      BY <1>0, <2>3 DEF PersistRejection, AfterPersist, Return, TypeOK
    <3>4. Refused(k, r)' = Refused(k, r)
      BY <3>2 DEF Refused
    <3>5. CASE EvidenceKey(msg[h]) = k /\ outcome[h] = r
      <4>1. rejections'[k][r] = rejections[k][r] + 1
        BY <1>0, <2>3, <3>1, <3>5 DEF PersistRejection, StoreEvidence, TypeOK
      <4>2. Refusing(k, r)' \subseteq Refusing(k, r) \cup {h}
        BY <2>1, <2>2
      <4> QED
        BY <3>4, <4>1, <4>2 DEF Stores
    <3>6. CASE ~(EvidenceKey(msg[h]) = k /\ outcome[h] = r)
      <4>1. rejections'[k][r] = rejections[k][r]
        BY <1>0, <2>3, <3>1, <3>6 DEF PersistRejection, StoreEvidence, TypeOK
      <4>2. h \notin Refusing(k, r)'
        BY <3>2, <3>3, <3>6 DEF Refusing
      <4> QED
        BY <2>1, <2>2, <3>4, <4>1, <4>2 DEF NoRefusal
    <3> QED
      BY <3>5, <3>6
  <2>4. CASE Ack(h)
    <3>1. h \notin Refusing(k, r)' /\ UNCHANGED rejections
      BY <1>0, <2>4 DEF Ack, Finish, Goto, TypeOK, Refusing
    <3>2. msg[h] \in Msg
      BY <2>4, HKeyType DEF Ack
    <3>3. \A m \in Msg : verdict'[m] = verdict[m] \/ (m = msg[h] /\ verdict'[m] = outcome[h])
      BY <1>0, <2>4 DEF Ack, TypeOK
    <3>4. CASE h \in Refusing(k, r)
      <4>1. Refused(k, r)' \subseteq Refused(k, r) \cup {msg[h]}
        BY <3>3 DEF Refused
      <4>2. Refusing(k, r)' \subseteq Refusing(k, r) \ {h}
        BY <2>1, <2>2, <3>1
      <4> QED
        BY <3>1, <3>2, <3>4, <4>1, <4>2 DEF AcksRefusal
    <3>5. CASE h \notin Refusing(k, r)
      <4>1. Refused(k, r)' \subseteq Refused(k, r)
        BY <2>4, <3>3, <3>5 DEF Refused, Refusing, Ack
      <4> QED
        BY <2>1, <2>2, <3>1, <4>1 DEF NoRefusal
    <3> QED
      BY <3>4, <3>5
  <2>5. CASE ~PersistRejection(h) /\ ~Ack(h)
    <3>1. UNCHANGED <<verdict, rejections>>
      BY <1>4, <2>5
      DEF HandlerStep, PostgresAnswers, Validate, PersistRejectionFails, ClaimWon,
          ClaimLost, ClaimFails, GetMarker, GetMarkerFails, OpenInstruction,
          OpenInstructionFails, ReleaseRejected, ReleaseRejectedFails, WriteSettlement,
          WriteSettlementFails, MarkSettled, MarkSettledFails, ReleaseClaim,
          ReleaseClaimFails, Nack, Finish, Fault
    <3>2. h \in Refusing(k, r)' => h \in Refusing(k, r)
      <4>1. CASE ReleaseRejected(h)
        BY <1>0, <4>1 DEF ReleaseRejected, Return, TypeOK, Refusing
      <4>2. CASE ~ReleaseRejected(h)
        BY <1>0, <1>4, <2>5, <4>2
        DEF HandlerStep, HandlersOK, PostgresAnswers, Validate, PersistRejectionFails,
            ClaimWon, ClaimLost, ClaimFails, GetMarker, GetMarkerFails, OpenInstruction,
            OpenInstructionFails, ReleaseRejectedFails, WriteSettlement,
            WriteSettlementFails, MarkSettled, MarkSettledFails, ReleaseClaim,
            ReleaseClaimFails, Nack, Finish, Fault, Return, Raise, Goto, TypeOK, Refusing,
            RejectReason
      <4> QED
        BY <4>1, <4>2
    <3>3. Refused(k, r)' = Refused(k, r)
      BY <3>1 DEF Refused
    <3> QED
      BY <2>1, <2>2, <3>1, <3>2, <3>3 DEF NoRefusal
  <2> QED
    BY <2>3, <2>4, <2>5
<1> QED
  BY <1>1, <1>2, <1>3, <1>4, Disconnections DEF Next, Publish, Evict, Tick, Drained

\* A finite set that gains, or loses, at most one element.
LEMMA AtMostOneMore ==
  ASSUME NEW S, IsFiniteSet(S), NEW x, NEW T, T \subseteq S \cup {x}
  PROVE  IsFiniteSet(T) /\ Cardinality(T) \in Nat /\ Cardinality(T) <= Cardinality(S) + 1
<1>1. Cardinality(S) \in Nat
  BY FS_CardinalityType
<1>2. /\ IsFiniteSet(S \cup {x})
      /\ Cardinality(S \cup {x}) = IF x \in S THEN Cardinality(S) ELSE Cardinality(S) + 1
  BY FS_AddElement
<1>3. IsFiniteSet(T) /\ Cardinality(T) \in Nat /\ Cardinality(T) <= Cardinality(S \cup {x})
  BY <1>2, FS_Subset, FS_CardinalityType
<1> QED
  BY <1>1, <1>2, <1>3

LEMMA NoMore ==
  ASSUME NEW S, IsFiniteSet(S), NEW T, T \subseteq S
  PROVE  IsFiniteSet(T) /\ Cardinality(T) \in Nat /\ Cardinality(T) <= Cardinality(S)
BY FS_Subset, FS_CardinalityType

LEMMA OneLess ==
  ASSUME NEW S, IsFiniteSet(S), NEW x \in S, NEW T, T \subseteq S \ {x}
  PROVE  IsFiniteSet(T) /\ Cardinality(T) \in Nat /\ Cardinality(T) <= Cardinality(S) - 1
<1>1. /\ IsFiniteSet(S \ {x}) /\ Cardinality(S) \in Nat
      /\ Cardinality(S \ {x}) = Cardinality(S) - 1
  BY FS_RemoveElement, FS_CardinalityType
<1> QED
  BY <1>1, FS_Subset, FS_CardinalityType

\* The arithmetic of a step: a refusal more at most where there is a row more, or one
\* less on its way where there is one more acked.
LEMMA CountsFit ==
  ASSUME NEW a \in Nat, NEW b \in Nat, NEW n \in Nat, a + b <= n,
         NEW x \in Nat, NEW y \in Nat, NEW z,
         \/ x <= a /\ y <= b + 1 /\ z = n + 1
         \/ x <= a + 1 /\ y <= b - 1 /\ z = n
         \/ x <= a /\ y <= b /\ z = n
  PROVE  x + y <= z
OBVIOUS

LEMMA EvidenceStoredNext ==
  ASSUME PostgresAnswers, TypeInv, [Next]_vars, NEW k \in Key \cup {NoKey}, NEW r \in RejectReason,
         EvidenceStored(k, r)
  PROVE  EvidenceStored(k, r)'
<1> DEFINE a == Cardinality(Refused(k, r))
           b == Cardinality(Refusing(k, r))
           n == rejections[k][r]
<1>0. n \in Nat
  BY DEF TypeInv, TypeOK
<1>1. a \in Nat /\ b \in Nat /\ a + b <= n
  BY NoMore DEF EvidenceStored
<1>2. /\ IsFiniteSet(Refused(k, r)') /\ IsFiniteSet(Refusing(k, r)')
      /\ a' + b' <= n'
  <2>1. CASE Stores(k, r)
    <3>1. IsFiniteSet(Refused(k, r)') /\ a' \in Nat /\ a' <= a
      BY <2>1, NoMore DEF Stores, EvidenceStored
    <3>2. IsFiniteSet(Refusing(k, r)') /\ b' \in Nat /\ b' <= b + 1
      BY <2>1, AtMostOneMore DEF Stores, EvidenceStored
    <3>3. n' = n + 1
      BY <2>1 DEF Stores
    <3> QED
      BY <1>0, <1>1, <3>1, <3>2, <3>3, CountsFit
  <2>2. CASE AcksRefusal(k, r)
    <3>1. IsFiniteSet(Refused(k, r)') /\ a' \in Nat /\ a' <= a + 1
      BY <2>2, AtMostOneMore DEF AcksRefusal, EvidenceStored
    <3>2. IsFiniteSet(Refusing(k, r)') /\ b' \in Nat /\ b' <= b - 1
      BY <2>2, OneLess DEF AcksRefusal, EvidenceStored
    <3>3. n' = n
      BY <2>2 DEF AcksRefusal
    <3> QED
      BY <1>0, <1>1, <3>1, <3>2, <3>3, CountsFit
  <2>3. CASE NoRefusal(k, r)
    <3>1. IsFiniteSet(Refused(k, r)') /\ a' \in Nat /\ a' <= a
      BY <2>3, NoMore DEF NoRefusal, EvidenceStored
    <3>2. IsFiniteSet(Refusing(k, r)') /\ b' \in Nat /\ b' <= b
      BY <2>3, NoMore DEF NoRefusal, EvidenceStored
    <3>3. n' = n
      BY <2>3 DEF NoRefusal
    <3> QED
      BY <1>0, <1>1, <3>1, <3>2, <3>3, CountsFit
  <2> QED
    BY <2>1, <2>2, <2>3, EvidenceSteps
<1> QED
  BY <1>2 DEF EvidenceStored

\* As long as the database answers, every message acked as refused has a rejected_packets
\* row of its own with its key and reason, through crashes, redeliveries and Redis errors.
THEOREM RefusalsHaveEvidence ==
  ASSUME PostgresAnswers
  PROVE  Spec => []EvidencePerRefusal
<1>1. Init => EvidenceInv
  <2> SUFFICES ASSUME Init, NEW k \in Key \cup {NoKey}, NEW r \in RejectReason
               PROVE  EvidenceStored(k, r)
    BY DEF EvidenceInv
  <2>1. Refused(k, r) = {} /\ Refusing(k, r) = {} /\ rejections[k][r] = 0
    BY DEF Init, Refused, Refusing, RejectReason
  <2> QED
    BY <2>1, FS_EmptySet DEF EvidenceStored
<1>2. TypeInv /\ EvidenceInv /\ [Next]_vars => EvidenceInv'
  BY EvidenceStoredNext DEF EvidenceInv
<1>3. TypeInv /\ EvidenceInv => EvidencePerRefusal
  <2> SUFFICES ASSUME TypeInv, EvidenceInv, NEW k \in Key \cup {NoKey}, NEW r \in RejectReason
               PROVE  rejections[k][r] >= Cardinality(Refused(k, r))
    BY DEF EvidencePerRefusal, Refused
  <2>1. EvidenceStored(k, r) /\ rejections[k][r] \in Nat
    BY DEF EvidenceInv, TypeInv, TypeOK
  <2>2. Cardinality(Refused(k, r)) \in Nat /\ Cardinality(Refusing(k, r)) \in Nat
    BY <2>1, NoMore DEF EvidenceStored
  <2> QED
    BY <2>1, <2>2 DEF EvidenceStored
<1> QED
  BY <1>1, <1>2, <1>3, TypeInvAlways, PTL DEF Spec
=============================================================================
