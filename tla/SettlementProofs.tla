-------------------------- MODULE SettlementProofs --------------------------
(***************************************************************************)
(* Theorems about the settlement service, for any number of replicas,      *)
(* handlers, messages and keys, and with every kind of failure.            *)
(***************************************************************************)
EXTENDS Settlement, TLAPS

\* What a handler's position says about its message and its outcome.
HandlersOK ==
  \A h \in Handler :
    /\ pc[h] # "idle" => msg[h] \in Msg
    /\ live[h] => pc[h] # "idle"
    /\ pc[h] \in {"persist", "persistClaimed", "releaseRejected"}
         => outcome[h] \in RejectReason
    /\ pc[h] = "mark" => outcome[h] \in {"SETTLED", "ALREADY_SETTLED"}
    /\ pc[h] = "ack" => outcome[h] \in Outcome \ {"INTERNAL_ERROR"}

TypeInv == TypeOK /\ HandlersOK

USE HandlerAssumption, PacketAssumption, SettingsAssumption, FaultAssumption
USE DEF PacketsOK, SettingsOK
USE DEF vars, brokerVars, redisVars, dbVars, handlerVars, envVars

LEMMA TypeInvInit == Init => TypeInv
BY DEF Init, TypeInv, TypeOK, HandlersOK, BrokerState, Marker, PC, Counter, Row

-----------------------------------------------------------------------------
(* The operators the actions are built from keep their variables' types. *)

LEMMA CounterOfType == ASSUME NEW o \in Outcome PROVE CounterOf(o) \in Counter
BY DEF CounterOf, Outcome, Counter, Duplicate, RejectReason

LEMMA HKeyType ==
  ASSUME NEW h \in Handler, TypeInv, pc[h] # "idle"
  PROVE  msg[h] \in Msg /\ HKey(h) \in Key
BY DEF TypeInv, HandlersOK, HKey

LEMMA GotoType ==
  ASSUME NEW h \in Handler, NEW l \in PC, TypeOK, Goto(h, l)
  PROVE  pc' \in [Handler -> PC]
BY DEF TypeOK, Goto

LEMMA SetMarkerType ==
  ASSUME NEW k \in Key, NEW v \in Marker, NEW t \in Nat, TypeOK, SetMarker(k, v, t)
  PROVE  redis' \in [Key -> Marker] /\ expires' \in [Key -> Nat]
BY DEF TypeOK, SetMarker

LEMMA DeleteType ==
  ASSUME NEW k \in Key, TypeOK, Delete(k)
  PROVE  redis' \in [Key -> Marker] /\ expires' \in [Key -> Nat]
BY SetMarkerType DEF Delete, Marker

LEMMA ReturnType ==
  ASSUME NEW h \in Handler, NEW o \in Outcome, TypeInv, Return(h, o)
  PROVE  /\ outcome' \in [Handler -> Outcome \cup {"none"}]
         /\ metrics' \in [Consumer -> [Counter -> Nat]]
         /\ pc' \in [Handler -> PC]
<1>1. ConsumerOf[h] \in Consumer
  OBVIOUS
<1>2. CounterOf(o) \in Counter
  BY CounterOfType
<1> QED
  BY <1>1, <1>2 DEF TypeInv, TypeOK, Return, Goto, PC

LEMMA RaiseType ==
  ASSUME NEW h \in Handler, TypeOK, Raise(h)
  PROVE  /\ outcome' \in [Handler -> Outcome \cup {"none"}]
         /\ metrics' \in [Consumer -> [Counter -> Nat]]
         /\ pc' \in [Handler -> PC]
BY DEF TypeOK, Raise, Goto, PC

LEMMA FaultType ==
  ASSUME NEW kind, TypeOK, Fault(kind)
  PROVE  now' \in Nat /\ faults' \in 0..MaxFaults
BY DEF TypeOK, Fault

LEMMA AfterPersistType ==
  ASSUME NEW h \in Handler, TypeInv, AfterPersist(h)
  PROVE  /\ outcome' \in [Handler -> Outcome \cup {"none"}]
         /\ metrics' \in [Consumer -> [Counter -> Nat]]
         /\ pc' \in [Handler -> PC]
         /\ pc[h] # "idle"
         /\ outcome[h] \in RejectReason
<1>1. outcome[h] \in RejectReason /\ outcome[h] \in Outcome
  BY DEF AfterPersist, TypeInv, HandlersOK, Outcome
<1>2. CASE pc[h] = "persist" /\ Return(h, outcome[h])
  BY <1>1, <1>2, ReturnType
<1>3. CASE /\ pc[h] = "persistClaimed" /\ Goto(h, "releaseRejected")
           /\ UNCHANGED <<outcome, metrics>>
  BY <1>1, <1>3 DEF Goto, PC, TypeInv, TypeOK
<1> QED
  BY <1>2, <1>3 DEF AfterPersist

LEMMA StoreEvidenceType ==
  ASSUME NEW h \in Handler, TypeInv, AfterPersist(h), StoreEvidence(h)
  PROVE  rejections' \in [Key \cup {NoKey} -> [RejectReason -> Nat]]
<1>1. EvidenceKey(msg[h]) \in Key \cup {NoKey}
  BY AfterPersistType, HKeyType DEF EvidenceKey, HKey
<1>2. outcome[h] \in RejectReason
  BY AfterPersistType
<1> QED
  BY <1>1, <1>2 DEF StoreEvidence, TypeInv, TypeOK

\* A crash and a lost connection void a replica's deliveries and end some of its tasks.
LEMMA Disconnections ==
  ASSUME NEW c \in Consumer, Crash(c) \/ ConnectionLost(c)
  PROVE  \E hs \in SUBSET Own(c) : Disconnected(c, hs)
BY DEF Crash, ConnectionLost

-----------------------------------------------------------------------------
(* Type correctness. *)

LEMMA TypeOKNext == TypeInv /\ [Next]_vars => TypeOK'
<1> SUFFICES ASSUME TypeInv, [Next]_vars PROVE TypeOK'
  OBVIOUS
<1>0. TypeOK
  BY DEF TypeInv
<1>a. \A t \in Nat : t + ClaimTTL \in Nat /\ t + SettledTTL \in Nat
  OBVIOUS
<1>1. ASSUME NEW m \in Msg, Publish(m) PROVE TypeOK'
  BY <1>0, <1>1 DEF TypeOK, Publish, BrokerState
<1>2. ASSUME NEW h \in Handler, NEW m \in Msg, Deliver(h, m) PROVE TypeOK'
  BY <1>0, <1>2 DEF TypeOK, Deliver, Goto, BrokerState, PC
<1>3. ASSUME NEW h \in Handler, Validate(h) PROVE TypeOK'
  BY <1>0, <1>3 DEF TypeOK, Validate, Goto, PC, PreClaimVerdict, Outcome, RejectReason
<1>4. ASSUME NEW h \in Handler, PersistRejection(h) PROVE TypeOK'
  BY <1>0, <1>4, AfterPersistType, StoreEvidenceType DEF PersistRejection, TypeOK
<1>5. ASSUME NEW h \in Handler, PersistRejectionFails(h) PROVE TypeOK'
  <2>1. rejections' \in [Key \cup {NoKey} -> [RejectReason -> Nat]]
    BY <1>0, <1>5, StoreEvidenceType DEF PersistRejectionFails, TypeOK
  <2> QED
    BY <1>0, <1>5, <2>1, AfterPersistType, FaultType DEF PersistRejectionFails, TypeOK
<1>6. ASSUME NEW h \in Handler, ClaimWon(h) PROVE TypeOK'
  BY <1>0, <1>6, <1>a, HKeyType, SetMarkerType, GotoType
  DEF ClaimWon, TypeOK, Marker, PC
<1>7. ASSUME NEW h \in Handler, ClaimLost(h) PROVE TypeOK'
  BY <1>0, <1>7, GotoType DEF ClaimLost, TypeOK, PC
<1>8. ASSUME NEW h \in Handler, ClaimFails(h) PROVE TypeOK'
  <2>1. redis' \in [Key -> Marker] /\ expires' \in [Key -> Nat]
    BY <1>0, <1>8, <1>a, HKeyType, SetMarkerType DEF ClaimFails, TypeOK, Marker
  <2> QED
    BY <1>0, <1>8, <2>1, FaultType, RaiseType DEF ClaimFails, TypeOK
<1>9. ASSUME NEW h \in Handler, GetMarker(h) PROVE TypeOK'
  BY <1>0, <1>9, ReturnType DEF GetMarker, TypeOK, Outcome, Duplicate
<1>10. ASSUME NEW h \in Handler, GetMarkerFails(h) PROVE TypeOK'
  BY <1>0, <1>10, FaultType, RaiseType DEF GetMarkerFails, TypeOK
<1>11. ASSUME NEW h \in Handler, OpenInstruction(h) \/ OpenInstructionFails(h) PROVE TypeOK'
  <2>1. CASE OpenInstruction(h)
    BY <1>0, <2>1 DEF OpenInstruction, Goto, TypeOK, PC, Outcome, RejectReason
  <2>2. CASE OpenInstructionFails(h)
    BY <1>0, <2>2, FaultType, GotoType DEF OpenInstructionFails, TypeOK, PC
  <2> QED
    BY <1>11, <2>1, <2>2
<1>12. ASSUME NEW h \in Handler, ReleaseRejected(h) PROVE TypeOK'
  <2>1. outcome[h] \in Outcome
    BY <1>12 DEF ReleaseRejected, TypeInv, HandlersOK, Outcome
  <2> QED
    BY <1>0, <1>12, <2>1, HKeyType, DeleteType, ReturnType DEF ReleaseRejected, TypeOK
<1>13. ASSUME NEW h \in Handler, ReleaseRejectedFails(h) PROVE TypeOK'
  <2>1. redis' \in [Key -> Marker] /\ expires' \in [Key -> Nat]
    BY <1>0, <1>13, HKeyType, DeleteType DEF ReleaseRejectedFails, TypeOK
  <2> QED
    BY <1>0, <1>13, <2>1, FaultType, GotoType DEF ReleaseRejectedFails, TypeOK, PC
<1>14. ASSUME NEW k \in Key, settlements' = Append(settlements, NewRow(k))
       PROVE  settlements' \in Seq(Row)
  BY <1>0, <1>14 DEF NewRow, Row, TypeOK
<1>15. ASSUME NEW h \in Handler, WriteSettlement(h) PROVE TypeOK'
  <2>1. settlements' \in Seq(Row)
    BY <1>0, <1>14, <1>15, HKeyType DEF WriteSettlement, TypeOK
  <2>2. outcome' \in [Handler -> Outcome \cup {"none"}]
    BY <1>0, <1>15 DEF WriteSettlement, TypeOK, Outcome, Duplicate
  <2> QED
    BY <1>0, <1>15, <2>1, <2>2, GotoType DEF WriteSettlement, TypeOK, PC
<1>16. ASSUME NEW h \in Handler, WriteSettlementFails(h) PROVE TypeOK'
  <2>1. settlements' \in Seq(Row)
    BY <1>0, <1>14, <1>16, HKeyType DEF WriteSettlementFails, TypeOK
  <2> QED
    BY <1>0, <1>16, <2>1, FaultType, GotoType DEF WriteSettlementFails, TypeOK, PC
<1>17. ASSUME NEW h \in Handler, MarkSettled(h) PROVE TypeOK'
  <2>1. outcome[h] \in Outcome
    BY <1>17 DEF MarkSettled, TypeInv, HandlersOK, Outcome, Duplicate
  <2> QED
    BY <1>0, <1>17, <1>a, <2>1, HKeyType, SetMarkerType, ReturnType
    DEF MarkSettled, TypeOK, Marker
<1>18. ASSUME NEW h \in Handler, MarkSettledFails(h) PROVE TypeOK'
  <2>1. redis' \in [Key -> Marker] /\ expires' \in [Key -> Nat]
    BY <1>0, <1>18, <1>a, HKeyType, SetMarkerType DEF MarkSettledFails, TypeOK, Marker
  <2> QED
    BY <1>0, <1>18, <2>1, FaultType, GotoType DEF MarkSettledFails, TypeOK, PC
<1>19. ASSUME NEW h \in Handler, ReleaseClaim(h) PROVE TypeOK'
  BY <1>0, <1>19, HKeyType, DeleteType, ReturnType DEF ReleaseClaim, TypeOK, Outcome
<1>20. ASSUME NEW h \in Handler, ReleaseClaimFails(h) PROVE TypeOK'
  <2>1. redis' \in [Key -> Marker] /\ expires' \in [Key -> Nat]
    BY <1>0, <1>20, HKeyType, DeleteType DEF ReleaseClaimFails, TypeOK
  <2> QED
    BY <1>0, <1>20, <2>1, FaultType, RaiseType DEF ReleaseClaimFails, TypeOK
<1>21. ASSUME NEW h \in Handler, Ack(h) PROVE TypeOK'
  BY <1>0, <1>21, HKeyType DEF Ack, Finish, Goto, TypeOK, PC, BrokerState
<1>22. ASSUME NEW h \in Handler, Nack(h) PROVE TypeOK'
  BY <1>0, <1>22, HKeyType DEF Nack, Finish, Goto, TypeOK, PC, BrokerState
<1>23. ASSUME NEW c \in Consumer, Requeued(c) PROVE broker' \in [Msg -> BrokerState]
  BY <1>0, <1>23 DEF Requeued, TypeOK, BrokerState
<1>24. ASSUME NEW c \in Consumer, Crash(c) \/ ConnectionLost(c) PROVE TypeOK'
  <2>1. metrics' \in [Consumer -> [Counter -> Nat]]
    <3>1. CASE Crash(c)
      BY <1>0, <3>1 DEF Crash, TypeOK
    <3>2. CASE ConnectionLost(c)
      BY <1>0, <3>2 DEF ConnectionLost, TypeOK
    <3> QED
      BY <1>24, <3>1, <3>2
  <2>2. PICK hs \in SUBSET Own(c) : Disconnected(c, hs)
    BY <1>24, Disconnections
  <2>3. /\ pc' \in [Handler -> PC]
        /\ msg' \in [Handler -> Msg \cup {NoMsg}]
        /\ outcome' \in [Handler -> Outcome \cup {"none"}]
        /\ live' \in [Handler -> BOOLEAN]
    BY <1>0, <2>2 DEF Disconnected, TypeOK, PC
  <2>4. now' \in Nat /\ faults' \in 0..MaxFaults
    BY <1>0, <1>24, FaultType DEF Crash, ConnectionLost
  <2> QED
    BY <1>0, <1>23, <2>1, <2>2, <2>3, <2>4 DEF Disconnected, TypeOK
<1>26. ASSUME NEW k \in Key, Evict(k) PROVE TypeOK'
  BY <1>0, <1>26, DeleteType, FaultType DEF Evict, TypeOK
<1>27. CASE Tick
  BY <1>0, <1>27 DEF Tick, TypeOK, Marker
<1>28. CASE UNCHANGED vars
  BY <1>0, <1>28 DEF TypeOK
<1> QED
  BY <1>1, <1>2, <1>3, <1>4, <1>5, <1>6, <1>7, <1>8, <1>9, <1>10, <1>11, <1>12,
     <1>13, <1>15, <1>16, <1>17, <1>18, <1>19, <1>20, <1>21, <1>22, <1>24, <1>26,
     <1>27, <1>28
  DEF Next, HandlerStep, Drained

\* A handler's step leaves every other handler where it is.
LEMMA HandlerFrame ==
  ASSUME NEW h \in Handler, TypeOK, HandlerStep(h), NEW g \in Handler, g # h
  PROVE  /\ pc'[g] = pc[g]
         /\ msg'[g] = msg[g]
         /\ outcome'[g] = outcome[g]
         /\ live'[g] = live[g]
<1>1. CASE Validate(h)
  BY <1>1 DEF Validate, Goto, TypeOK
<1>2. CASE PersistRejection(h)
  BY <1>2 DEF PersistRejection, AfterPersist, Return, Goto, TypeOK
<1>3. CASE PersistRejectionFails(h)
  BY <1>3 DEF PersistRejectionFails, AfterPersist, Return, Goto, TypeOK
<1>4. CASE ClaimWon(h)
  BY <1>4 DEF ClaimWon, Goto, TypeOK
<1>5. CASE ClaimLost(h)
  BY <1>5 DEF ClaimLost, Goto, TypeOK
<1>6. CASE ClaimFails(h)
  BY <1>6 DEF ClaimFails, Raise, Goto, TypeOK
<1>7. CASE GetMarker(h)
  BY <1>7 DEF GetMarker, Return, Goto, TypeOK
<1>8. CASE GetMarkerFails(h)
  BY <1>8 DEF GetMarkerFails, Raise, Goto, TypeOK
<1>9. CASE OpenInstruction(h) \/ OpenInstructionFails(h)
  BY <1>9 DEF OpenInstruction, OpenInstructionFails, Goto, TypeOK
<1>10. CASE ReleaseRejected(h)
  BY <1>10 DEF ReleaseRejected, Return, Goto, TypeOK
<1>11. CASE ReleaseRejectedFails(h)
  BY <1>11 DEF ReleaseRejectedFails, Goto, TypeOK
<1>12. CASE WriteSettlement(h)
  BY <1>12 DEF WriteSettlement, Goto, TypeOK
<1>13. CASE WriteSettlementFails(h)
  BY <1>13 DEF WriteSettlementFails, Goto, TypeOK
<1>14. CASE MarkSettled(h)
  BY <1>14 DEF MarkSettled, Return, Goto, TypeOK
<1>15. CASE MarkSettledFails(h)
  BY <1>15 DEF MarkSettledFails, Goto, TypeOK
<1>16. CASE ReleaseClaim(h)
  BY <1>16 DEF ReleaseClaim, Return, Goto, TypeOK
<1>17. CASE ReleaseClaimFails(h)
  BY <1>17 DEF ReleaseClaimFails, Raise, Goto, TypeOK
<1>18. CASE Ack(h)
  BY <1>18 DEF Ack, Finish, Goto, TypeOK
<1>19. CASE Nack(h)
  BY <1>19 DEF Nack, Finish, Goto, TypeOK
<1> QED
  BY <1>1, <1>2, <1>3, <1>4, <1>5, <1>6, <1>7, <1>8, <1>9, <1>10, <1>11, <1>12, <1>13,
     <1>14, <1>15, <1>16, <1>17, <1>18, <1>19
  DEF HandlerStep

LEMMA HandlersOKNext == TypeInv /\ [Next]_vars => HandlersOK'
<1> SUFFICES ASSUME TypeInv, [Next]_vars PROVE HandlersOK'
  OBVIOUS
<1>0. TypeOK /\ HandlersOK
  BY DEF TypeInv
<1> DEFINE OK(h) ==
      /\ pc[h] # "idle" => msg[h] \in Msg
      /\ live[h] => pc[h] # "idle"
      /\ pc[h] \in {"persist", "persistClaimed", "releaseRejected"}
           => outcome[h] \in RejectReason
      /\ pc[h] = "mark" => outcome[h] \in {"SETTLED", "ALREADY_SETTLED"}
      /\ pc[h] = "ack" => outcome[h] \in Outcome \ {"INTERNAL_ERROR"}
<1>1. ASSUME NEW m \in Msg, Publish(m) PROVE HandlersOK'
  BY <1>0, <1>1 DEF HandlersOK, Publish
<1>2. ASSUME NEW h \in Handler, NEW m \in Msg, Deliver(h, m) PROVE HandlersOK'
  BY <1>0, <1>2 DEF HandlersOK, TypeOK, Deliver, Goto
<1>3. ASSUME NEW h \in Handler, HandlerStep(h) PROVE HandlersOK'
  <2>1. ASSUME NEW g \in Handler, g # h PROVE OK(g)'
    BY <1>0, <1>3, <2>1, HandlerFrame DEF HandlersOK
  <2>2. OK(h)'
    <3>1. CASE Validate(h)
      BY <1>0, <3>1 DEF Validate, Goto, TypeOK, HandlersOK, PreClaimVerdict, RejectReason
    <3>2. CASE PersistRejection(h)
      BY <1>0, <3>2
      DEF PersistRejection, AfterPersist, Return, Goto, TypeOK, HandlersOK, Outcome,
          RejectReason
    <3>3. CASE PersistRejectionFails(h)
      BY <1>0, <3>3
      DEF PersistRejectionFails, AfterPersist, Return, Goto, TypeOK, HandlersOK, Outcome,
          RejectReason
    <3>4. CASE ClaimWon(h)
      BY <1>0, <3>4 DEF ClaimWon, Goto, TypeOK, HandlersOK
    <3>5. CASE ClaimLost(h)
      BY <1>0, <3>5 DEF ClaimLost, Goto, TypeOK, HandlersOK
    <3>6. CASE ClaimFails(h)
      BY <1>0, <3>6 DEF ClaimFails, Raise, Goto, TypeOK, HandlersOK
    <3>7. CASE GetMarker(h)
      BY <1>0, <3>7 DEF GetMarker, Return, Goto, TypeOK, HandlersOK, Outcome, Duplicate
    <3>8. CASE GetMarkerFails(h)
      BY <1>0, <3>8 DEF GetMarkerFails, Raise, Goto, TypeOK, HandlersOK
    <3>9. CASE OpenInstruction(h) \/ OpenInstructionFails(h)
      BY <1>0, <3>9 DEF OpenInstruction, OpenInstructionFails, Goto, TypeOK, HandlersOK,
                        RejectReason
    <3>10. CASE ReleaseRejected(h)
      BY <1>0, <3>10
      DEF ReleaseRejected, Return, Goto, TypeOK, HandlersOK, Outcome, RejectReason
    <3>11. CASE ReleaseRejectedFails(h)
      BY <1>0, <3>11 DEF ReleaseRejectedFails, Goto, TypeOK, HandlersOK
    <3>12. CASE WriteSettlement(h)
      BY <1>0, <3>12 DEF WriteSettlement, Goto, TypeOK, HandlersOK
    <3>13. CASE WriteSettlementFails(h)
      BY <1>0, <3>13 DEF WriteSettlementFails, Goto, TypeOK, HandlersOK
    <3>14. CASE MarkSettled(h)
      BY <1>0, <3>14 DEF MarkSettled, Return, Goto, TypeOK, HandlersOK, Outcome, Duplicate
    <3>15. CASE MarkSettledFails(h)
      BY <1>0, <3>15 DEF MarkSettledFails, Goto, TypeOK, HandlersOK
    <3>16. CASE ReleaseClaim(h)
      BY <1>0, <3>16 DEF ReleaseClaim, Return, Goto, TypeOK, HandlersOK
    <3>17. CASE ReleaseClaimFails(h)
      BY <1>0, <3>17 DEF ReleaseClaimFails, Raise, Goto, TypeOK, HandlersOK
    <3>18. CASE Ack(h)
      BY <1>0, <3>18 DEF Ack, Finish, Goto, TypeOK, HandlersOK
    <3>19. CASE Nack(h)
      BY <1>0, <3>19 DEF Nack, Finish, Goto, TypeOK, HandlersOK
    <3> QED
      BY <1>3, <3>1, <3>2, <3>3, <3>4, <3>5, <3>6, <3>7, <3>8, <3>9, <3>10, <3>11, <3>12,
         <3>13, <3>14, <3>15, <3>16, <3>17, <3>18, <3>19
      DEF HandlerStep
  <2> QED
    BY <2>1, <2>2 DEF HandlersOK
<1>4. ASSUME NEW c \in Consumer, NEW hs \in SUBSET Own(c), Disconnected(c, hs)
      PROVE  HandlersOK'
  BY <1>0, <1>4 DEF HandlersOK, TypeOK, Disconnected, Own
<1>5. ASSUME NEW k \in Key, Evict(k) PROVE HandlersOK'
  BY <1>0, <1>5 DEF HandlersOK, Evict
<1>6. CASE Tick \/ UNCHANGED vars
  BY <1>0, <1>6 DEF HandlersOK, Tick
<1> QED
  BY <1>1, <1>2, <1>3, <1>4, <1>5, <1>6, Disconnections DEF Next, Drained

LEMMA TypeInvNext == TypeInv /\ [Next]_vars => TypeInv'
BY TypeOKNext, HandlersOKNext DEF TypeInv

LEMMA TypeInvAlways == Spec => []TypeInv
BY TypeInvInit, TypeInvNext, PTL DEF Spec

\* Every reachable state is well typed, under any failures.
THEOREM TypeCorrect == Spec => []TypeOK
<1>1. TypeInv => TypeOK
  BY DEF TypeInv
<1> QED
  BY <1>1, TypeInvAlways, PTL
-----------------------------------------------------------------------------
(* The settlements table. *)

\* The only change any step makes to the table: nothing, or a row for the key of
\* some handler's message, which the unique constraints admitted.
TableStep ==
  \/ UNCHANGED settlements
  \/ \E h \in Handler : /\ pc[h] = "write"
                        /\ CanInsert(HKey(h))
                        /\ settlements' = Append(settlements, NewRow(HKey(h)))

LEMMA TableSteps == TypeInv /\ [Next]_vars => TableStep
<1> SUFFICES ASSUME TypeInv, [Next]_vars PROVE TableStep
  OBVIOUS
<1>1. ASSUME NEW h \in Handler, HandlerStep(h) PROVE TableStep
  BY <1>1 DEF HandlerStep, TableStep, Validate, PersistRejection, PersistRejectionFails,
     ClaimWon, ClaimLost, ClaimFails, GetMarker, GetMarkerFails, OpenInstruction,
     OpenInstructionFails, ReleaseRejected, ReleaseRejectedFails, WriteSettlement,
     WriteSettlementFails, MarkSettled, MarkSettledFails, ReleaseClaim, ReleaseClaimFails,
     Ack, Nack, Finish
<1> QED
  BY <1>1 DEF Next, TableStep, Publish, Deliver, Crash, ConnectionLost, Disconnected,
              Evict, Tick, Drained

\* What an insert does to the table: one row more, the others as they were.
LEMMA InsertedRows ==
  ASSUME NEW k \in Key, TypeOK, settlements' = Append(settlements, NewRow(k))
  PROVE  /\ Len(settlements) \in Nat
         /\ Len(settlements') = Len(settlements) + 1
         /\ DOMAIN settlements = 1 .. Len(settlements)
         /\ DOMAIN settlements' = 1 .. (Len(settlements) + 1)
         /\ settlements'[Len(settlements) + 1] = NewRow(k)
         /\ \A i \in 1 .. Len(settlements) : settlements'[i] = settlements[i]
BY DEF TypeOK

LEMMA ExactlyOnceNext == TypeInv /\ ExactlyOnce /\ [Next]_vars => ExactlyOnce'
<1> SUFFICES ASSUME TypeInv, ExactlyOnce, TableStep PROVE ExactlyOnce'
  BY TableSteps
<1>1. CASE UNCHANGED settlements
  BY <1>1 DEF ExactlyOnce
<1>2. ASSUME NEW h \in Handler, pc[h] = "write", CanInsert(HKey(h)),
             settlements' = Append(settlements, NewRow(HKey(h)))
      PROVE  ExactlyOnce'
  <2>1. HKey(h) \in Key /\ TypeOK
    BY <1>2, HKeyType DEF TypeInv
  <2>2. NewRow(HKey(h)).key = HKey(h) /\ NewRow(HKey(h)).packetId = PacketIdOf[HKey(h)]
    BY DEF NewRow
  <2> HIDE DEF NewRow
  <2> QED
    BY <1>2, <2>1, <2>2, InsertedRows DEF ExactlyOnce, CanInsert
<1> QED
  BY <1>1, <1>2 DEF TableStep

\* No packet, and no packet id, is ever settled twice: the unique constraints
\* hold against every interleaving of handlers, retries and failures.
THEOREM SettledExactlyOnce == Spec => []ExactlyOnce
<1>1. Init => ExactlyOnce
  BY DEF Init, ExactlyOnce
<1> QED
  BY <1>1, ExactlyOnceNext, TypeInvAlways, PTL DEF Spec

\* Rows stay: what is settled once is settled from then on.
LEMMA SettledStays ==
  ASSUME TypeInv, [Next]_vars, NEW k \in Key, Settled(k)
  PROVE  Settled(k)'
<1>1. TableStep
  BY TableSteps
<1>2. CASE UNCHANGED settlements
  BY <1>2 DEF Settled
<1>3. ASSUME NEW h \in Handler, pc[h] = "write", CanInsert(HKey(h)),
             settlements' = Append(settlements, NewRow(HKey(h)))
      PROVE  Settled(k)'
  <2>1. HKey(h) \in Key /\ TypeOK
    BY <1>3, HKeyType DEF TypeInv
  <2> QED
    BY <1>3, <2>1, InsertedRows DEF Settled
<1> QED
  BY <1>1, <1>2, <1>3 DEF TableStep

-----------------------------------------------------------------------------
(* Reports of settlement. *)

\* Packet ids name packets: no two signed regions carry the same one.
DistinctPacketIds ==
  \A j, k \in Key : PacketIdOf[j] = PacketIdOf[k] => j = k

SettledReport == {"SETTLED", "ALREADY_SETTLED"}

\* A row's packet id is the one its key stands for.
RowsOK ==
  \A i \in DOMAIN settlements : settlements[i].packetId = PacketIdOf[settlements[i].key]

\* Wherever the service is about to say, or has said, that a packet is settled,
\* its row is there: before the marker is written, in the marker, in the outcome
\* on its way to the ack, and in the ack.
ReportsHaveRows ==
  /\ RowsOK
  /\ \A h \in Handler :
       pc[h] = "mark" \/ (pc[h] = "ack" /\ outcome[h] \in SettledReport)
         => Settled(HKey(h))
  /\ SettledMarkerSound
  /\ AckedSettledHasRow

LEMMA ReportsHaveRowsInit == Init => ReportsHaveRows
BY DEF Init, ReportsHaveRows, RowsOK, SettledMarkerSound, AckedSettledHasRow, SettledReport

LEMMA RowsOKNext == TypeInv /\ RowsOK /\ [Next]_vars => RowsOK'
<1> SUFFICES ASSUME TypeInv, RowsOK, TableStep PROVE RowsOK'
  BY TableSteps
<1>1. CASE UNCHANGED settlements
  BY <1>1 DEF RowsOK
<1>2. ASSUME NEW h \in Handler, pc[h] = "write",
             settlements' = Append(settlements, NewRow(HKey(h)))
      PROVE  RowsOK'
  <2>1. HKey(h) \in Key /\ TypeOK
    BY <1>2, HKeyType DEF TypeInv
  <2>2. NewRow(HKey(h)).packetId = PacketIdOf[NewRow(HKey(h)).key]
    BY DEF NewRow
  <2> QED
    BY <1>2, <2>1, <2>2, InsertedRows DEF RowsOK
<1> QED
  BY <1>1, <1>2 DEF TableStep

\* After the insert, committed or refused, the row is there.
LEMMA WriteHasRow ==
  ASSUME DistinctPacketIds, TypeInv, RowsOK, NEW h \in Handler, WriteSettlement(h)
  PROVE  Settled(HKey(h))'
<1>1. HKey(h) \in Key /\ TypeOK /\ HKey(h)' = HKey(h)
  BY HKeyType DEF TypeInv, WriteSettlement, HKey
<1>2. CASE settlements' = Append(settlements, NewRow(HKey(h)))
  <2>1. NewRow(HKey(h)).key = HKey(h)
    BY DEF NewRow
  <2>2. /\ Len(settlements) + 1 \in DOMAIN settlements'
        /\ settlements'[Len(settlements) + 1].key = HKey(h)
    BY <1>1, <1>2, <2>1, InsertedRows
  <2> QED
    BY <1>1, <2>2 DEF Settled
<1>3. CASE ~CanInsert(HKey(h)) /\ UNCHANGED settlements
  <2>1. PICK i \in DOMAIN settlements :
          settlements[i].key = HKey(h) \/ settlements[i].packetId = PacketIdOf[HKey(h)]
    BY <1>3 DEF CanInsert
  <2>2. settlements[i] \in Row
    BY <1>1, <2>1 DEF TypeOK
  <2>3. settlements[i].key = HKey(h)
    BY <1>1, <2>1, <2>2 DEF RowsOK, DistinctPacketIds, Row
  <2> QED
    BY <1>1, <1>3, <2>3 DEF Settled
<1> QED
  BY <1>2, <1>3 DEF WriteSettlement

\* A settled marker appears only by mark_settled.
LEMMA SettledMarkerStep ==
  ASSUME TypeInv, [Next]_vars, NEW k \in Key, redis'[k] = "settled", redis[k] # "settled"
  PROVE  \E h \in Handler : pc[h] = "mark" /\ HKey(h) = k
<1>0. TypeOK
  BY DEF TypeInv
<1>1. ASSUME NEW h \in Handler, HandlerStep(h)
      PROVE  \E g \in Handler : pc[g] = "mark" /\ HKey(g) = k
  BY <1>0, <1>1
  DEF HandlerStep, TypeOK, Validate, PersistRejection, PersistRejectionFails, ClaimWon,
      ClaimLost, ClaimFails, GetMarker, GetMarkerFails, OpenInstruction,
      OpenInstructionFails, ReleaseRejected, ReleaseRejectedFails, WriteSettlement,
      WriteSettlementFails, MarkSettled, MarkSettledFails, ReleaseClaim,
      ReleaseClaimFails, Ack, Nack, Finish, SetMarker, Delete
<1> QED
  BY <1>0, <1>1
  DEF Next, Publish, Deliver, Crash, ConnectionLost, Disconnected, Evict, Delete,
      SetMarker, Tick, Drained, TypeOK

\* A message's verdict is the outcome of the live delivery that acks it.
LEMMA VerdictStep ==
  ASSUME TypeInv, [Next]_vars, NEW m \in Msg, verdict'[m] # verdict[m]
  PROVE  \E h \in Handler : /\ Ack(h) /\ live[h] /\ msg[h] = m
                            /\ verdict'[m] = outcome[h]
<1>0. TypeOK
  BY DEF TypeInv
<1>1. ASSUME NEW h \in Handler, HandlerStep(h)
      PROVE  \E g \in Handler : /\ Ack(g) /\ live[g] /\ msg[g] = m
                                /\ verdict'[m] = outcome[g]
  <2>1. Ack(h)
    BY <1>1
    DEF HandlerStep, Validate, PersistRejection, PersistRejectionFails, ClaimWon,
        ClaimLost, ClaimFails, GetMarker, GetMarkerFails, OpenInstruction,
        OpenInstructionFails, ReleaseRejected, ReleaseRejectedFails, WriteSettlement,
        WriteSettlementFails, MarkSettled, MarkSettledFails, ReleaseClaim,
        ReleaseClaimFails, Nack
  <2> QED
    BY <1>0, <2>1 DEF Ack, TypeOK
<1> QED
  BY <1>0, <1>1
  DEF Next, Publish, Deliver, Crash, ConnectionLost, Disconnected, Evict, Tick, Drained

LEMMA ReportsHaveRowsNext ==
  ASSUME DistinctPacketIds
  PROVE  TypeInv /\ ReportsHaveRows /\ [Next]_vars => ReportsHaveRows'
<1> SUFFICES ASSUME TypeInv, ReportsHaveRows, [Next]_vars PROVE ReportsHaveRows'
  OBVIOUS
<1>0. TypeOK /\ HandlersOK
  BY DEF TypeInv
<1> DEFINE Reporting(h) == pc[h] = "mark" \/ (pc[h] = "ack" /\ outcome[h] \in SettledReport)
           HandlerReports == \A h \in Handler : Reporting(h) => Settled(HKey(h))
<1>1. ASSUME NEW k \in Key, Settled(k) PROVE Settled(k)'
  BY <1>1, SettledStays
<1>2. RowsOK'
  BY RowsOKNext DEF ReportsHaveRows
<1>3. \A h \in Handler : Reporting(h) => HKey(h) \in Key
  BY HKeyType
<1>4. HandlerReports'
  <2>1. ASSUME NEW h \in Handler, HandlerStep(h) PROVE HandlerReports'
    <3>1. ASSUME NEW g \in Handler, g # h, Reporting(g)' PROVE Settled(HKey(g))'
      BY <1>0, <1>1, <1>3, <2>1, <3>1, HandlerFrame DEF ReportsHaveRows, HKey
    <3>2. ASSUME Reporting(h)' PROVE Settled(HKey(h))'
      <4>1. CASE WriteSettlement(h)
        BY <4>1, WriteHasRow DEF ReportsHaveRows
      <4>2. CASE MarkSettled(h)
        BY <1>1, <1>3, <4>2 DEF MarkSettled, HKey, ReportsHaveRows
      <4>3. CASE GetMarker(h)
        <5>1. redis[HKey(h)] = "settled" /\ HKey(h) \in Key /\ HKey(h)' = HKey(h)
          BY <1>0, <3>2, <4>3, HKeyType
          DEF GetMarker, Return, Goto, TypeOK, SettledReport, HKey
        <5> QED
          BY <1>1, <5>1 DEF ReportsHaveRows, SettledMarkerSound
      <4>4. CASE ~WriteSettlement(h) /\ ~MarkSettled(h) /\ ~GetMarker(h)
        BY <1>0, <2>1, <3>2, <4>4
        DEF HandlerStep, HandlersOK, TypeOK, RejectReason, SettledReport, Validate,
            PersistRejection, PersistRejectionFails, AfterPersist, ClaimWon, ClaimLost,
            ClaimFails, GetMarkerFails, OpenInstruction, OpenInstructionFails,
            ReleaseRejected, ReleaseRejectedFails, WriteSettlementFails, MarkSettledFails,
            ReleaseClaim, ReleaseClaimFails, Ack, Nack, Finish, Return, Raise, Goto
      <4> QED
        BY <4>1, <4>2, <4>3, <4>4
    <3> QED
      BY <3>1, <3>2
  <2>2. ASSUME NEW h \in Handler, NEW m \in Msg, Deliver(h, m) PROVE HandlerReports'
    BY <1>0, <1>1, <1>3, <2>2 DEF Deliver, Goto, TypeOK, HKey, ReportsHaveRows
  <2>3. ASSUME NEW c \in Consumer, NEW hs \in SUBSET Own(c), Disconnected(c, hs)
        PROVE  HandlerReports'
    BY <1>0, <1>1, <1>3, <2>3 DEF Disconnected, TypeOK, HKey, ReportsHaveRows
  <2>4. CASE UNCHANGED <<pc, msg, outcome>>
    BY <1>1, <1>3, <2>4 DEF HKey, ReportsHaveRows
  <2> QED
    BY <2>1, <2>2, <2>3, <2>4, Disconnections DEF Next, Publish, Evict, Tick, Drained
<1>5. SettledMarkerSound'
  <2> SUFFICES ASSUME NEW k \in Key, redis'[k] = "settled" PROVE Settled(k)'
    BY DEF SettledMarkerSound
  <2>1. CASE redis[k] = "settled"
    BY <1>1, <2>1 DEF ReportsHaveRows, SettledMarkerSound
  <2>2. CASE redis[k] # "settled"
    <3>1. PICK h \in Handler : pc[h] = "mark" /\ HKey(h) = k
      BY <2>2, SettledMarkerStep
    <3> QED
      BY <1>1, <3>1 DEF ReportsHaveRows
  <2> QED
    BY <2>1, <2>2
<1>6. AckedSettledHasRow'
  <2> SUFFICES ASSUME NEW m \in Msg, verdict'[m] \in SettledReport
               PROVE  Settled(KeyOf[m])'
    BY DEF AckedSettledHasRow, SettledReport
  <2>1. CASE verdict'[m] = verdict[m]
    BY <1>1, <2>1 DEF ReportsHaveRows, AckedSettledHasRow, SettledReport
  <2>2. CASE verdict'[m] # verdict[m]
    <3>1. PICK h \in Handler : Ack(h) /\ msg[h] = m /\ verdict'[m] = outcome[h]
      BY <2>2, VerdictStep
    <3> QED
      BY <1>1, <3>1 DEF ReportsHaveRows, Ack, HKey
  <2> QED
    BY <2>1, <2>2
<1> QED
  BY <1>2, <1>4, <1>5, <1>6 DEF ReportsHaveRows

LEMMA ReportsHaveRowsAlways ==
  ASSUME DistinctPacketIds
  PROVE  Spec => []ReportsHaveRows
BY ReportsHaveRowsInit, ReportsHaveRowsNext, TypeInvAlways, PTL DEF Spec

\* If packet ids are distinct, a settled marker in Redis always has its row,
\* under any failures: rejecting a duplicate on its word is safe.
THEOREM SettledMarkerHasRow ==
  ASSUME DistinctPacketIds
  PROVE  Spec => []SettledMarkerSound
<1>1. ReportsHaveRows => SettledMarkerSound
  BY DEF ReportsHaveRows
<1> QED
  BY <1>1, ReportsHaveRowsAlways, PTL

\* If packet ids are distinct, a message acked as settled or as already settled
\* has its row, under any failures: "ack only after commit".
THEOREM AckOnlyAfterCommit ==
  ASSUME DistinctPacketIds
  PROVE  Spec => []AckedSettledHasRow
<1>1. ReportsHaveRows => AckedSettledHasRow
  BY DEF ReportsHaveRows
<1> QED
  BY <1>1, ReportsHaveRowsAlways, PTL

-----------------------------------------------------------------------------
(* Deliveries. *)

\* Until it answers the broker, a handler's step leaves its delivery alone.
LEMMA PipelineStep ==
  ASSUME TypeInv, NEW h \in Handler, HandlerStep(h), ~Ack(h), ~Nack(h)
  PROVE  UNCHANGED <<broker, msg, live>> /\ pc'[h] # "idle"
<1>0. TypeOK
  BY DEF TypeInv
<1> QED
  BY <1>0 DEF HandlerStep, TypeOK, Validate, PersistRejection, PersistRejectionFails,
      AfterPersist, ClaimWon, ClaimLost, ClaimFails, GetMarker, GetMarkerFails,
      OpenInstruction, OpenInstructionFails, ReleaseRejected, ReleaseRejectedFails,
      WriteSettlement, WriteSettlementFails, MarkSettled, MarkSettledFails, ReleaseClaim,
      ReleaseClaimFails, Return, Raise, Goto

LEMMA OneLiveDeliveryNext == TypeInv /\ OneLiveDelivery /\ [Next]_vars => OneLiveDelivery'
<1> SUFFICES ASSUME TypeInv, OneLiveDelivery, [Next]_vars PROVE OneLiveDelivery'
  OBVIOUS
<1>0. TypeOK /\ HandlersOK
  BY DEF TypeInv
<1>a. \A h \in Handler : live[h] => msg[h] \in Msg
  BY <1>0 DEF HandlersOK
<1>1. ASSUME NEW m \in Msg, Publish(m) PROVE OneLiveDelivery'
  BY <1>0, <1>a, <1>1 DEF Publish, OneLiveDelivery, TypeOK
<1>2. ASSUME NEW h \in Handler, NEW m \in Msg, Deliver(h, m) PROVE OneLiveDelivery'
  <2>1. \A g \in Handler : live[g] => msg[g] # m /\ g # h
    BY <1>2 DEF Deliver, OneLiveDelivery
  <2>2. /\ live'[h] = TRUE /\ msg'[h] = m /\ pc'[h] = "validate" /\ broker'[m] = "unacked"
        /\ \A g \in Handler : g # h => /\ live'[g] = live[g] /\ msg'[g] = msg[g]
                                       /\ pc'[g] = pc[g]
        /\ \A n \in Msg : n # m => broker'[n] = broker[n]
    BY <1>0, <1>2 DEF Deliver, Goto, TypeOK
  <2> QED
    BY <1>a, <2>1, <2>2 DEF OneLiveDelivery
<1>3. ASSUME NEW h \in Handler, HandlerStep(h) PROVE OneLiveDelivery'
  <2>1. CASE ~Ack(h) /\ ~Nack(h)
    BY <1>0, <1>3, <2>1, PipelineStep, HandlerFrame DEF OneLiveDelivery
  <2>2. CASE Ack(h) \/ Nack(h)
    <3>1. /\ ~live'[h]
          /\ \A g \in Handler : g # h => /\ live'[g] = live[g] /\ msg'[g] = msg[g]
                                         /\ pc'[g] = pc[g]
      BY <1>0, <2>2 DEF Ack, Nack, Finish, Goto, TypeOK
    <3>2. /\ live[h] => broker'[msg[h]] # "unacked"
          /\ ~live[h] => broker' = broker
          /\ \A n \in Msg : n # msg[h] => broker'[n] = broker[n]
      BY <1>0, <1>a, <2>2 DEF Ack, Nack, TypeOK
    <3> QED
      BY <1>a, <3>1, <3>2 DEF OneLiveDelivery
  <2> QED
    BY <2>1, <2>2
<1>4. ASSUME NEW c \in Consumer, Crash(c) \/ ConnectionLost(c) PROVE OneLiveDelivery'
  <2>0. PICK hs \in SUBSET Own(c) : Disconnected(c, hs)
    BY <1>4, Disconnections
  <2>1. ASSUME NEW h \in Handler
        PROVE  /\ live'[h] <=> live[h] /\ ConsumerOf[h] # c
               /\ ConsumerOf[h] # c => pc'[h] = pc[h] /\ msg'[h] = msg[h]
    BY <1>0, <2>0 DEF Disconnected, Own, TypeOK
  <2>2. ASSUME NEW m \in Msg
        PROVE  broker'[m] = IF \E g \in Handler : ConsumerOf[g] = c /\ live[g] /\ msg[g] = m
                            THEN "ready" ELSE broker[m]
    <3> DEFINE held == {msg[h] : h \in {g \in Own(c) : live[g]}}
    <3>1. broker'[m] = IF m \in held THEN "ready" ELSE broker[m]
      BY <2>0 DEF Disconnected, Requeued
    <3>2. m \in held <=> \E g \in Handler : ConsumerOf[g] = c /\ live[g] /\ msg[g] = m
      BY DEF Own
    <3> QED
      BY <3>1, <3>2
  <2> QED
    BY <1>a, <2>1, <2>2 DEF OneLiveDelivery
<1>5. CASE UNCHANGED <<broker, pc, msg, live>>
  BY <1>5 DEF OneLiveDelivery
<1> QED
  BY <1>1, <1>2, <1>3, <1>4, <1>5 DEF Next, Evict, Tick, Drained

\* The broker has a message out unacked exactly when one live delivery holds it,
\* through every crash and reconnect: no answer is ever for another's delivery.
THEOREM DeliveriesMatch == Spec => []OneLiveDelivery
<1>1. Init => OneLiveDelivery
  BY DEF Init, OneLiveDelivery
<1> QED
  BY <1>1, OneLiveDeliveryNext, TypeInvAlways, PTL DEF Spec
=============================================================================
