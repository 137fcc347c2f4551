------------------------ MODULE SettlementRefinement ------------------------
(***************************************************************************)
(* The settlement service implements the ledger.  The ledger's keys are    *)
(* those of the settlements table in commit order, a copy is submitted     *)
(* once it is on the queue, and its receipt is an ack with SETTLED.        *)
(***************************************************************************)
EXTENDS Settlement

Ledger == INSTANCE SettlementLedger WITH
  Eligible  <- {m \in Msg : Genuine(m) /\ Payable(KeyOf[m])},
  submitted <- {m \in Msg : broker[m] # "unpublished"},
  ledger    <- [i \in DOMAIN settlements |-> settlements[i].key],
  receipts  <- {m \in Msg : verdict[m] = "SETTLED"}

\* Every step of the service, with any failures, is a step of the ledger or
\* leaves it as it is: rows appear one by one, once per key, for a genuine copy
\* that was published, and at most one copy is acked as settled, after its row
\* (_write_settlement, _handle_message).
ImplementsLedger == Ledger!LedgerSpec
=============================================================================
