-------------------------- MODULE SettlementLedger --------------------------
(***************************************************************************)
(* What the settlement service promises: a ledger to which each payment is *)
(* added at most once, only on behalf of a copy that was really submitted  *)
(* and that may be paid, and of which at most one copy is ever reported as *)
(* the one that settled, after the payment is in the ledger.               *)
(* Duplicates, failures and retries leave no trace at this level.          *)
(***************************************************************************)
EXTENDS Naturals, Sequences

CONSTANTS
  Msg, Key,
  KeyOf,      \* [Msg -> Key]
  Eligible    \* the copies that may cause a payment

VARIABLES
  submitted,  \* copies handed to the queue
  ledger,     \* keys paid, in order
  receipts    \* copies reported as settled

ledgerVars == <<submitted, ledger, receipts>>

Paid(k) == \E i \in DOMAIN ledger : ledger[i] = k

LedgerInit ==
  /\ submitted = {}
  /\ ledger = <<>>
  /\ receipts = {}

Submit(m) ==
  /\ submitted' = submitted \cup {m}
  /\ UNCHANGED <<ledger, receipts>>

Pay(m) ==
  /\ m \in submitted \cap Eligible
  /\ ~Paid(KeyOf[m])
  /\ ledger' = Append(ledger, KeyOf[m])
  /\ UNCHANGED <<submitted, receipts>>

Confirm(m) ==
  /\ m \in submitted
  /\ Paid(KeyOf[m])
  /\ \A n \in receipts : KeyOf[n] # KeyOf[m]
  /\ receipts' = receipts \cup {m}
  /\ UNCHANGED <<submitted, ledger>>

LedgerNext == \E m \in Msg : Submit(m) \/ Pay(m) \/ Confirm(m)

LedgerSpec == LedgerInit /\ [][LedgerNext]_ledgerVars
=============================================================================
