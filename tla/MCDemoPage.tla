----------------------------- MODULE MCDemoPage -----------------------------
(* Instances of DemoPage for TLC. *)
EXTENDS DemoPage

\* Two packets with different amounts, so that one is not taken for the other.
MCAmountOf == [p \in Packet |-> IF p = "p1" THEN 100 ELSE 200]
=============================================================================
