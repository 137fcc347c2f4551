----------------------------- MODULE MCEndToEnd -----------------------------
(* Instances of EndToEnd for TLC: a payment and a replay of the same packet. *)
EXTENDS EndToEnd

Payments == {"first", "replay"}
OneKey == [m \in Payments |-> "K"]
OneId == [k \in {"K"} |-> "K"]
MadeNow == [k \in {"K"} |-> 0]
OpensWell == [k \in {"K"} |-> "instruction"]
NoHops == [s \in Payments |-> 0]
OneHop == [s \in Payments |-> [n \in Level |-> 1]]
TwoReplicas == [h \in Handler |-> IF h = "h1" THEN "c1" ELSE "c2"]
=============================================================================
