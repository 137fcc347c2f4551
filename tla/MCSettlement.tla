---------------------------- MODULE MCSettlement ----------------------------
(***************************************************************************)
(* Instances of Settlement for TLC.  A catalogue names the messages and    *)
(* keys the runs draw from; each configuration picks Msg and Key from it.  *)
(***************************************************************************)
EXTENDS SettlementRefinement

\* Each message of the catalogue, with its key.  "copy1" and "copy2" are the same
\* packet by different mesh paths; "twin" is another packet sealed for the same
\* packet id.  "early1" and "early2" are copies of a packet dated ahead within the
\* tolerance, and "spoofed" has their signed region but another signature;
\* "ahead" is dated beyond the tolerance.
MCKeyOf ==
  [m \in Msg |->
     CASE m \in {"copy1", "copy2"}              -> "K"
       [] m = "twin"                            -> "T"
       [] m \in {"early1", "early2", "spoofed"} -> "E"
       [] m = "ahead"                           -> "ahead"
       [] m = "garbled"                         -> "L"
       [] m = "relabelled"                      -> "relabelled"
       [] m \in {"sealed1", "sealed2"}          -> "sealed"
       [] m = "mismatched"                      -> "mismatched"]

MCWellFormed == Msg \ {"garbled"}
MCSigned     == Msg \ {"spoofed", "garbled"}
MCAadMatches == Key \ {"relabelled"}

\* A header's packet id; the twin carries the one of packet K.
MCPacketIdOf == [k \in Key |-> IF k = "T" THEN "K" ELSE k]
MCPacketId   == Key \cup {"K"}

\* In ticks, relative to the clock's start.
MCCreatedAt ==
  [k \in Key |-> CASE k = "E"     -> ClockSkewTolerance
                   [] k = "ahead" -> ClockSkewTolerance + 1
                   [] OTHER       -> 0]

MCOpens ==
  [k \in Key |-> CASE k = "sealed"     -> "undecryptable"
                   [] k = "mismatched" -> "mismatched"
                   [] OTHER            -> "instruction"]

TwoReplicas == [h \in Handler |-> IF h = "h1" THEN "c1" ELSE "c2"]
OneReplica  == [h \in Handler |-> "c1"]
=============================================================================
