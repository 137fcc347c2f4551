---------------------------- MODULE LedgerProofs ----------------------------
(***************************************************************************)
(* The settlement service implements the ledger, with every kind of        *)
(* failure: its behaviours, seen through the refinement mapping, are       *)
(* behaviours of the ledger.                                               *)
(***************************************************************************)
EXTENDS SettlementRefinement, ClaimProofs, SequenceTheorems

USE HandlerAssumption, PacketAssumption, SettingsAssumption, FaultAssumption
USE DEF PacketsOK, SettingsOK
USE DEF vars, brokerVars, redisVars, dbVars, handlerVars, envVars

-----------------------------------------------------------------------------
(* At most one copy of a packet is reported as the one that settled. *)

\* A handler that committed the row and has not told the broker yet.
Winning(h) == pc[h] \in {"mark", "ack"} /\ outcome[h] = "SETTLED"

\* A copy that was acked as the one that settled.
Receipt(m) == verdict[m] = "SETTLED"

\* A message has a verdict only once the broker is done with it.
VerdictIsFinal == \A m \in Msg : verdict[m] # "none" => broker[m] = "done"

\* The commit of a row is reported by one handler or one ack, and never by two.
OneReceipt ==
  /\ \A h \in Handler : Winning(h) => Settled(HKey(h))
  /\ \A m \in Msg : Receipt(m) => Settled(KeyOf[m])
  /\ \A g, h \in Handler : g # h /\ Winning(g) /\ Winning(h) => HKey(g) # HKey(h)
  /\ \A h \in Handler, m \in Msg : Winning(h) /\ Receipt(m) => HKey(h) # KeyOf[m]
  /\ \A m, n \in Msg : m # n /\ Receipt(m) /\ Receipt(n) => KeyOf[m] # KeyOf[n]

LEMMA VerdictIsFinalNext ==
  TypeInv /\ OneLiveDelivery /\ VerdictIsFinal /\ [Next]_vars => VerdictIsFinal'
<1> SUFFICES ASSUME TypeInv, OneLiveDelivery, VerdictIsFinal, [Next]_vars,
                    NEW m \in Msg, verdict'[m] # "none"
             PROVE  broker'[m] = "done"
  BY DEF VerdictIsFinal
<1>0. TypeOK
  BY DEF TypeInv
<1>1. CASE verdict'[m] # verdict[m]
  BY <1>0, <1>1, VerdictStep DEF Ack, TypeOK
<1>2. CASE verdict'[m] = verdict[m]
  <2>1. broker[m] = "done"
    BY <1>2 DEF VerdictIsFinal
  <2>2. \A h \in Handler : live[h] => msg[h] # m
    BY <2>1 DEF OneLiveDelivery
  <2>3. ASSUME NEW h \in Handler, HandlerStep(h) PROVE broker'[m] = "done"
    <3>1. CASE Ack(h) \/ Nack(h)
      BY <1>0, <2>1, <2>2, <3>1 DEF Ack, Nack, TypeOK
    <3>2. CASE ~Ack(h) /\ ~Nack(h)
      BY <2>1, <2>3, <3>2, PipelineStep
    <3> QED
      BY <3>1, <3>2
  <2>4. ASSUME NEW c \in Consumer, Crash(c) \/ ConnectionLost(c) PROVE broker'[m] = "done"
    BY <2>1, <2>2, <2>4, Disconnections DEF Disconnected, Requeued, Own
  <2> QED
    BY <1>0, <2>1, <2>3, <2>4 DEF Next, Publish, Deliver, Evict, Tick, Drained, TypeOK
<1> QED
  BY <1>1, <1>2

\* A live delivery's message has no verdict yet.
LEMMA LiveHasNoVerdict ==
  ASSUME OneLiveDelivery, VerdictIsFinal, NEW h \in Handler, live[h], msg[h] \in Msg
  PROVE  verdict[msg[h]] = "none"
BY DEF OneLiveDelivery, VerdictIsFinal

\* A verdict is never replaced.
LEMMA VerdictStays ==
  ASSUME TypeInv, OneLiveDelivery, VerdictIsFinal, [Next]_vars,
         NEW m \in Msg, verdict[m] # "none"
  PROVE  verdict'[m] = verdict[m]
BY VerdictStep, LiveHasNoVerdict

\* A handler starts to win only by committing the row.
LEMMA WinStep ==
  ASSUME TypeInv, [Next]_vars, NEW g \in Handler, Winning(g)'
  PROVE  /\ HKey(g)' = HKey(g)
         /\ \/ Winning(g)
            \/ /\ pc[g] = "write" /\ CanInsert(HKey(g))
               /\ settlements' = Append(settlements, NewRow(HKey(g)))
               /\ UNCHANGED verdict
<1>0. TypeOK /\ HandlersOK
  BY DEF TypeInv
<1>1. ASSUME NEW h \in Handler, HandlerStep(h), g # h
      PROVE  Winning(g) /\ HKey(g)' = HKey(g)
  BY <1>0, <1>1, HandlerFrame DEF Winning, HKey
<1>2. CASE HandlerStep(g)
  <2>1. HKey(g)' = HKey(g)
    BY <1>2, PipelineMove DEF Winning, HKey
  <2>2. CASE WriteSettlement(g)
    BY <1>0, <2>1, <2>2 DEF WriteSettlement, Winning, TypeOK
  <2>3. CASE MarkSettled(g)
    BY <1>0, <2>1, <2>3 DEF MarkSettled, Return, Goto, Winning, TypeOK
  <2>4. CASE ~WriteSettlement(g) /\ ~MarkSettled(g)
    BY <1>0, <1>2, <2>4
    DEF Winning, HandlerStep, HandlersOK, TypeOK, RejectReason, Validate,
        PersistRejection, PersistRejectionFails, AfterPersist, ClaimWon, ClaimLost,
        ClaimFails, GetMarker, GetMarkerFails, OpenInstruction, OpenInstructionFails,
        ReleaseRejected, ReleaseRejectedFails, WriteSettlementFails, MarkSettledFails,
        ReleaseClaim, ReleaseClaimFails, Ack, Nack, Finish, Return, Raise, Goto
  <2> QED
    BY <2>2, <2>3, <2>4
<1>3. ASSUME NEW h \in Handler, NEW m \in Msg, Deliver(h, m)
      PROVE  Winning(g) /\ HKey(g)' = HKey(g)
  BY <1>0, <1>3 DEF Deliver, Goto, Winning, HKey, TypeOK
<1>4. ASSUME NEW c \in Consumer, NEW hs \in SUBSET Own(c), Disconnected(c, hs)
      PROVE  Winning(g) /\ HKey(g)' = HKey(g)
  BY <1>0, <1>4 DEF Disconnected, Winning, HKey, TypeOK
<1>5. CASE UNCHANGED <<pc, msg, outcome>>
  BY <1>5 DEF Winning, HKey
<1> QED
  BY <1>1, <1>2, <1>3, <1>4, <1>5, Disconnections
  DEF Next, Publish, Evict, Tick, Drained

\* The row a handler commits is a new one: nobody has reported its packet yet.
LEMMA CanInsertUnsettled ==
  ASSUME NEW k \in Key, CanInsert(k)
  PROVE  ~Settled(k)
BY DEF CanInsert, Settled

LEMMA InsertSettles ==
  ASSUME TypeOK, NEW k \in Key, settlements' = Append(settlements, NewRow(k))
  PROVE  Settled(k)'
<1>1. NewRow(k).key = k
  BY DEF NewRow
<1>2. Len(settlements) + 1 \in DOMAIN settlements'
      /\ settlements'[Len(settlements) + 1].key = k
  BY <1>1, InsertedRows
<1> QED
  BY <1>2 DEF Settled

LEMMA OneReceiptNext ==
  TypeInv /\ OneLiveDelivery /\ VerdictIsFinal /\ OneReceipt /\ [Next]_vars => OneReceipt'
<1> SUFFICES ASSUME TypeInv, OneLiveDelivery, VerdictIsFinal, OneReceipt, [Next]_vars
             PROVE  OneReceipt'
  OBVIOUS
<1>0. TypeOK
  BY DEF TypeInv
<1>a. \A h \in Handler : Winning(h) \/ Winning(h)' \/ pc[h] = "write" => HKey(h) \in Key
  BY WinStep, HKeyType DEF Winning
<1>b. \A k \in Key : Settled(k) => Settled(k)'
  BY SettledStays
<1>c. ASSUME NEW m \in Msg, Receipt(m)', ~Receipt(m)
      PROVE  \E h \in Handler : /\ Winning(h) /\ ~Winning(h)' /\ HKey(h) = KeyOf[m]
                                /\ UNCHANGED settlements /\ msg[h] = m
  <2>1. PICK h \in Handler : Ack(h) /\ msg[h] = m /\ verdict'[m] = outcome[h]
    BY <1>c, VerdictStep DEF Receipt
  <2> QED
    BY <1>0, <1>c, <2>1 DEF Ack, Finish, Goto, Winning, Receipt, HKey, TypeOK
<1>1. CASE \E h \in Handler : Winning(h)' /\ ~Winning(h)
  <2>1. PICK h \in Handler : Winning(h)' /\ ~Winning(h)
    BY <1>1
  <2>2. /\ pc[h] = "write" /\ CanInsert(HKey(h)) /\ HKey(h) \in Key
        /\ settlements' = Append(settlements, NewRow(HKey(h)))
        /\ UNCHANGED verdict /\ HKey(h)' = HKey(h)
    BY <1>a, <2>1, WinStep
  <2>3. Settled(HKey(h))' /\ ~Settled(HKey(h))
    BY <1>0, <2>2, InsertSettles, CanInsertUnsettled
  <2>4. \A g \in Handler : g # h /\ Winning(g)' => Winning(g) /\ HKey(g)' = HKey(g)
    <3>1. SUFFICES ASSUME NEW g \in Handler, g # h, Winning(g)', ~Winning(g) PROVE FALSE
      BY WinStep
    <3>2. ASSUME NEW f \in Handler, HandlerStep(f), f # h PROVE FALSE
      BY <1>0, <2>1, <3>2, HandlerFrame DEF Winning
    <3>3. ASSUME NEW f \in Handler, HandlerStep(f), f # g PROVE FALSE
      BY <1>0, <3>1, <3>3, HandlerFrame DEF Winning
    <3>4. \E f \in Handler : HandlerStep(f)
      BY <1>0, <2>1, <2>2
      DEF Next, Publish, Deliver, Goto, Crash, ConnectionLost, Disconnected, Evict, Tick,
          Drained, Winning, TypeOK
    <3> QED
      BY <3>1, <3>2, <3>3, <3>4
  <2>5. \A m \in Msg : Receipt(m)' <=> Receipt(m)
    BY <2>2 DEF Receipt
  <2> QED
    BY <1>a, <1>b, <2>1, <2>2, <2>3, <2>4, <2>5 DEF OneReceipt
<1>2. CASE \A h \in Handler : Winning(h)' => Winning(h)
  <2>1. \A h \in Handler : Winning(h)' => Winning(h) /\ HKey(h)' = HKey(h)
    BY <1>2, WinStep
  <2>2. \A m \in Msg : Receipt(m)' => \/ Receipt(m)
                                      \/ \E h \in Handler : /\ Winning(h) /\ ~Winning(h)'
                                                            /\ HKey(h) = KeyOf[m]
                                                            /\ msg[h] = m
    BY <1>c
  <2> QED
    BY <1>a, <1>b, <2>1, <2>2 DEF OneReceipt
<1> QED
  BY <1>1, <1>2

-----------------------------------------------------------------------------
(* The refinement mapping, variable by variable. *)

submittedBar == {m \in Msg : broker[m] # "unpublished"}
ledgerBar    == [i \in DOMAIN settlements |-> settlements[i].key]
receiptsBar  == {m \in Msg : verdict[m] = "SETTLED"}

\* A commit appends the packet's key to the ledger.
LEMMA LedgerAppends ==
  ASSUME TypeOK, NEW k \in Key, settlements' = Append(settlements, NewRow(k))
  PROVE  ledgerBar' = Append(ledgerBar, k)
<1>1. NewRow(k).key = k
  BY DEF NewRow
<1>2. /\ Len(settlements) \in Nat
      /\ DOMAIN settlements = 1 .. Len(settlements)
      /\ DOMAIN settlements' = 1 .. (Len(settlements) + 1)
      /\ settlements'[Len(settlements) + 1] = NewRow(k)
      /\ \A i \in 1 .. Len(settlements) : settlements'[i] = settlements[i]
  BY InsertedRows
<1>3. \A i \in 1 .. Len(settlements) : settlements[i].key \in Key
  BY <1>2, RowFields
<1>4. ledgerBar \in Seq(Key) /\ Len(ledgerBar) = Len(settlements)
  BY <1>2, <1>3 DEF ledgerBar
<1>5. ledgerBar' = [i \in 1 .. (Len(settlements) + 1) |-> settlements'[i].key]
  BY <1>2 DEF ledgerBar
<1>6. /\ Append(ledgerBar, k) \in Seq(Key)
      /\ Len(Append(ledgerBar, k)) = Len(settlements) + 1
      /\ Append(ledgerBar, k)[Len(settlements) + 1] = k
      /\ \A i \in 1 .. Len(settlements) : Append(ledgerBar, k)[i] = ledgerBar[i]
  BY <1>2, <1>4, AppendProperties
<1>7. \A i \in 1 .. (Len(settlements) + 1) : settlements'[i].key = Append(ledgerBar, k)[i]
  <2>1. \A i \in 1 .. Len(settlements) : settlements'[i].key = Append(ledgerBar, k)[i]
    BY <1>2, <1>6 DEF ledgerBar
  <2>2. settlements'[Len(settlements) + 1].key = Append(ledgerBar, k)[Len(settlements) + 1]
    BY <1>1, <1>2, <1>6
  <2>3. \A i \in 1 .. (Len(settlements) + 1) : i = Len(settlements) + 1 \/ i \in 1 .. Len(settlements)
    BY <1>2
  <2> QED
    BY <2>1, <2>2, <2>3
<1>8. Append(ledgerBar, k) \in [1 .. (Len(settlements) + 1) -> Key]
  BY <1>6, LenProperties
<1> QED
  BY <1>5, <1>7, <1>8

\* The ledger has paid what the table has settled.
LEMMA PaidIsSettled ==
  ASSUME NEW k
  PROVE  Ledger!Paid(k) <=> Settled(k)
BY DEF Ledger!Paid, Settled

\* Who changes what the ledger sees: a publication, a commit or an ack, one at a time.
PublishesOnly == \E m \in Msg : Publish(m)

CommitsOnly ==
  \E h \in Handler : /\ pc[h] = "write" /\ CanInsert(HKey(h))
                     /\ settlements' = Append(settlements, NewRow(HKey(h)))
                     /\ UNCHANGED <<broker, verdict>>

AcksOnly ==
  \E h \in Handler : Ack(h) /\ live[h] /\ UNCHANGED settlements

\* Only the bridge's publish puts a message on the queue.
LEMMA SubmittedStep ==
  ASSUME TypeInv, OneLiveDelivery, [Next]_vars, ~PublishesOnly
  PROVE  submittedBar' = submittedBar
<1>0. TypeOK
  BY DEF TypeInv
<1> SUFFICES ASSUME NEW m \in Msg, broker[m] = "unpublished" PROVE broker'[m] = "unpublished"
  BY PublishedStays DEF submittedBar
<1>1. \A h \in Handler : live[h] => msg[h] # m
  BY DEF OneLiveDelivery
<1>2. ASSUME NEW h \in Handler, HandlerStep(h) PROVE broker'[m] = "unpublished"
  <2>1. CASE Ack(h) \/ Nack(h)
    BY <1>0, <1>1, <2>1 DEF Ack, Nack, TypeOK
  <2>2. CASE ~Ack(h) /\ ~Nack(h)
    BY <1>2, <2>2, PipelineStep
  <2> QED
    BY <2>1, <2>2
<1>3. ASSUME NEW c \in Consumer, Crash(c) \/ ConnectionLost(c)
      PROVE  broker'[m] = "unpublished"
  BY <1>1, <1>3, Disconnections DEF Disconnected, Requeued, Own
<1> QED
  BY <1>0, <1>2, <1>3 DEF PublishesOnly, Next, Deliver, Evict, Tick, Drained, TypeOK

LEMMA VisibleStep ==
  ASSUME TypeInv, OneLiveDelivery, [Next]_vars
  PROVE  \/ PublishesOnly
         \/ CommitsOnly
         \/ AcksOnly
         \/ UNCHANGED <<submittedBar, settlements, verdict>>
<1>1. CASE verdict' # verdict
  <2>1. PICK h \in Handler : Ack(h)
    BY <1>1
    DEF Next, HandlerStep, Validate, PersistRejection, PersistRejectionFails, ClaimWon,
        ClaimLost, ClaimFails, GetMarker, GetMarkerFails, OpenInstruction,
        OpenInstructionFails, ReleaseRejected, ReleaseRejectedFails, WriteSettlement,
        WriteSettlementFails, MarkSettled, MarkSettledFails, ReleaseClaim,
        ReleaseClaimFails, Nack, Publish, Deliver, Crash, ConnectionLost, Disconnected,
        Evict, Tick, Drained
  <2> QED
    BY <1>1, <2>1 DEF Ack, Finish, AcksOnly
<1>2. CASE verdict' = verdict /\ settlements' # settlements
  <2>1. PICK h \in Handler : WriteSettlement(h) \/ WriteSettlementFails(h)
    BY <1>2
    DEF Next, HandlerStep, Validate, PersistRejection, PersistRejectionFails, ClaimWon,
        ClaimLost, ClaimFails, GetMarker, GetMarkerFails, OpenInstruction,
        OpenInstructionFails, ReleaseRejected, ReleaseRejectedFails, MarkSettled,
        MarkSettledFails, ReleaseClaim, ReleaseClaimFails, Ack, Nack, Finish, Publish,
        Deliver, Crash, ConnectionLost, Disconnected, Evict, Tick, Drained
  <2> QED
    BY <1>2, <2>1 DEF WriteSettlement, WriteSettlementFails, CommitsOnly
<1> QED
  BY <1>1, <1>2, SubmittedStep

-----------------------------------------------------------------------------
(* Every step of the service is a step of the ledger, or none. *)

RefinementInv == TypeInv /\ AdmittedOK /\ OneLiveDelivery /\ VerdictIsFinal /\ OneReceipt

LEMMA LedgerStarts == Init => Ledger!LedgerInit
<1> SUFFICES ASSUME Init PROVE Ledger!LedgerInit
  OBVIOUS
<1>1. {m \in Msg : broker[m] # "unpublished"} = {} /\ {m \in Msg : verdict[m] = "SETTLED"} = {}
  BY DEF Init
<1>2. [i \in DOMAIN settlements |-> settlements[i].key] = <<>>
  BY DEF Init
<1> QED
  BY <1>1, <1>2 DEF Ledger!LedgerInit

LEMMA PublishSubmits ==
  ASSUME TypeInv, NEW m \in Msg, Publish(m)
  PROVE  Ledger!Submit(m)
<1>0. TypeOK
  BY DEF TypeInv
<1>1. submittedBar' = submittedBar \cup {m}
  BY <1>0 DEF Publish, submittedBar, TypeOK
<1>2. UNCHANGED <<ledgerBar, receiptsBar>>
  BY DEF Publish, ledgerBar, receiptsBar
<1> QED
  BY <1>1, <1>2 DEF Ledger!Submit, submittedBar, ledgerBar, receiptsBar

LEMMA CommitPays ==
  ASSUME RefinementInv, CommitsOnly
  PROVE  \E m \in Msg : Ledger!Pay(m)
<1>0. TypeOK /\ TypeInv
  BY DEF RefinementInv, TypeInv
<1>1. PICK h \in Handler : /\ pc[h] = "write" /\ CanInsert(HKey(h))
                           /\ settlements' = Append(settlements, NewRow(HKey(h)))
                           /\ UNCHANGED <<broker, verdict>>
  BY DEF CommitsOnly
<1>2. PICK m \in Msg : msg[h] = m /\ HKey(h) \in Key /\ HKey(h) = KeyOf[m]
  BY <1>0, <1>1, HKeyType DEF HKey
<1>3. broker[m] # "unpublished" /\ Genuine(m) /\ Payable(HKey(h))
  BY <1>1, <1>2 DEF RefinementInv, AdmittedOK, Admitted, Holding, Payable
<1>4. ~Ledger!Paid(KeyOf[m])
  BY <1>1, <1>2, CanInsertUnsettled, PaidIsSettled
<1>5. ledgerBar' = Append(ledgerBar, KeyOf[m])
  BY <1>0, <1>1, <1>2, LedgerAppends
<1>6. UNCHANGED <<submittedBar, receiptsBar>>
  BY <1>1 DEF submittedBar, receiptsBar
<1>7. Ledger!Pay(m)
  BY <1>2, <1>3, <1>4, <1>5, <1>6 DEF Ledger!Pay, submittedBar, ledgerBar, receiptsBar
<1> QED
  BY <1>7

LEMMA AckConfirms ==
  ASSUME RefinementInv, [Next]_vars, AcksOnly, ~PublishesOnly
  PROVE  (\E m \in Msg : Ledger!Confirm(m)) \/ UNCHANGED Ledger!ledgerVars
<1>0. TypeOK /\ TypeInv
  BY DEF RefinementInv, TypeInv
<1>1. PICK h \in Handler : Ack(h) /\ live[h] /\ UNCHANGED settlements
  BY DEF AcksOnly
<1>2. PICK m \in Msg : msg[h] = m /\ HKey(h) \in Key /\ HKey(h) = KeyOf[m]
  BY <1>0, <1>1, HKeyType DEF Ack, HKey
<1>3. UNCHANGED <<submittedBar, ledgerBar>>
  BY <1>0, <1>1, SubmittedStep DEF RefinementInv, ledgerBar
<1>4. verdict[m] = "none"
  BY <1>1, <1>2, LiveHasNoVerdict DEF RefinementInv
<1>5. verdict' = [verdict EXCEPT ![m] = outcome[h]]
  BY <1>1, <1>2 DEF Ack
<1>6. CASE outcome[h] # "SETTLED"
  <2>1. receiptsBar' = receiptsBar
    BY <1>0, <1>2, <1>4, <1>5, <1>6 DEF receiptsBar, TypeOK
  <2> QED
    BY <1>3, <2>1 DEF Ledger!ledgerVars, submittedBar, ledgerBar, receiptsBar
<1>7. CASE outcome[h] = "SETTLED"
  <2>1. receiptsBar' = receiptsBar \cup {m}
    BY <1>0, <1>2, <1>5, <1>7 DEF receiptsBar, TypeOK
  <2>2. Winning(h)
    BY <1>1, <1>7 DEF Winning, Ack
  <2>3. Ledger!Paid(KeyOf[m])
    BY <1>2, <2>2, PaidIsSettled DEF RefinementInv, OneReceipt
  <2>4. \A n \in receiptsBar : KeyOf[n] # KeyOf[m]
    BY <1>2, <2>2 DEF RefinementInv, OneReceipt, Receipt, receiptsBar
  <2>5. m \in submittedBar
    BY <1>1, <1>2 DEF RefinementInv, AdmittedOK, Ack, submittedBar
  <2>6. Ledger!Confirm(m)
    BY <1>3, <2>1, <2>3, <2>4, <2>5 DEF Ledger!Confirm, submittedBar, ledgerBar, receiptsBar
  <2> QED
    BY <2>6
<1> QED
  BY <1>6, <1>7

LEMMA LedgerSteps == RefinementInv /\ [Next]_vars => [Ledger!LedgerNext]_(Ledger!ledgerVars)
<1> SUFFICES ASSUME RefinementInv, [Next]_vars
             PROVE  [Ledger!LedgerNext]_(Ledger!ledgerVars)
  OBVIOUS
<1>1. CASE PublishesOnly
  BY <1>1, PublishSubmits DEF PublishesOnly, RefinementInv, Ledger!LedgerNext
<1>2. CASE CommitsOnly
  BY <1>2, CommitPays DEF Ledger!LedgerNext
<1>3. CASE AcksOnly /\ ~PublishesOnly
  BY <1>3, AckConfirms DEF Ledger!LedgerNext
<1>4. CASE UNCHANGED <<submittedBar, settlements, verdict>>
  BY <1>4 DEF Ledger!ledgerVars, submittedBar
<1> QED
  BY <1>1, <1>2, <1>3, <1>4, VisibleStep DEF RefinementInv

LEMMA RefinementInvAlways == Spec => []RefinementInv
<1>1. Init => AdmittedOK /\ OneLiveDelivery /\ VerdictIsFinal /\ OneReceipt
  BY DEF Init, AdmittedOK, Admitted, Holding, OneLiveDelivery, VerdictIsFinal, OneReceipt,
         Winning, Receipt
<1>2. RefinementInv /\ [Next]_vars => RefinementInv'
  BY TypeInvNext, AdmittedOKNext, OneLiveDeliveryNext, VerdictIsFinalNext, OneReceiptNext
  DEF RefinementInv
<1>3. Init => TypeInv
  BY TypeInvInit
<1>4. Init => RefinementInv
  BY <1>1, <1>3 DEF RefinementInv
<1> QED
  BY <1>2, <1>4, PTL DEF Spec

\* The settlement service implements the ledger, whatever fails: each payment is added
\* at most once, for a genuine copy that was submitted, and at most one copy is ever
\* reported as the one that settled, after its row.
THEOREM ServiceImplementsLedger == Spec => ImplementsLedger
BY LedgerStarts, LedgerSteps, RefinementInvAlways, PTL
DEF Spec, ImplementsLedger, Ledger!LedgerSpec
=============================================================================
