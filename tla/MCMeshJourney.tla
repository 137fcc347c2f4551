--------------------------- MODULE MCMeshJourney ---------------------------
(* Instances of MeshJourney for TLC. *)
EXTENDS MeshJourney

\* "fresh" starts without hops, among relays that disagree: the first wants three
\* hops, the others are content with one.  "carried" has hops already, "looping"
\* meets relays whose target is beyond the limit, "bad" does not verify.
MCInitialHops == [s \in Submission |-> IF s = "carried" THEN 2 ELSE 0]
MCHopCountTarget ==
  [s \in Submission |->
     [n \in Level |-> CASE s = "looping"          -> HopLimit + 1
                       [] s = "fresh" /\ n = 1    -> 3
                       [] s = "fresh" /\ n # 1    -> 1
                       [] OTHER                   -> 2]]
MCVerifies == Submission \ {"bad"}
=============================================================================
