------------------------------ MODULE EndToEnd ------------------------------
(***************************************************************************)
(* The whole journey: MeshJourney carries each submission to the queue and *)
(* Settlement takes it from there.  A submission is a message once the     *)
(* broker has stored it; the two halves share nothing else, so the payer's *)
(* answer and the settlement of the packet may come in either order.       *)
(***************************************************************************)
EXTENDS Settlement, MeshJourney

CONSTANT MaxFailures   \* bound: failures of both halves together

\* Every submission may become a message, and the mesh verifies with the same key.
ASSUME JourneyAssumption ==
  /\ Msg = Submission
  /\ Verifies = WellFormed \cap Signed
  /\ MaxFailures \in Nat

journeyVars == <<vars, meshVars>>

JourneyInit == Init /\ MeshInit

\* Mutant of Hand: the queue is not durable, what the broker confirmed may be gone.
HandVolatile(s) == UNCHANGED vars \/ (queue' # queue /\ Publish(s))

\* What a step of the mesh stores at the broker is a ready message of the queue.
Hand(s) == IF queue' = queue THEN UNCHANGED vars ELSE Publish(s)

\* A payer submits; a node of the mesh works on a submission.
Pay(s)   == Submit(s) /\ UNCHANGED vars
Carry(s) == MeshStep(s) /\ Hand(s)

\* A step of settlement, its broker or its stores.
SettlementStep ==
  /\ \/ \E h \in Handler, m \in Msg : Deliver(h, m)
     \/ \E h \in Handler : HandlerStep(h)
     \/ \E c \in Consumer : Crash(c) \/ ConnectionLost(c)
     \/ \E k \in Key : Evict(k)
     \/ Tick
  /\ UNCHANGED meshVars

Rest == AllAnswered /\ (\A h \in Handler : pc[h] = "idle")
                    /\ (\A m \in Msg : broker[m] \in {"unpublished", "done"})
                    /\ UNCHANGED vars

JourneyNext ==
  \/ /\ \/ \E s \in Submission : Pay(s) \/ Carry(s)
        \/ SettlementStep
     /\ faults' + meshFaults' <= MaxFailures
  \/ Rest

\* The fairness of the two halves.
JourneyFairness ==
  /\ \A s \in Submission : WF_journeyVars(Carry(s))
  /\ \A m \in Msg : WF_journeyVars((\E h \in Handler : Deliver(h, m)) /\ UNCHANGED meshVars)
  /\ \A h \in Handler : WF_journeyVars(HandlerStep(h) /\ UNCHANGED meshVars)

JourneySpec == JourneyInit /\ [][JourneyNext]_journeyVars /\ JourneyFairness

-----------------------------------------------------------------------------
(* Properties. *)

\* A copy of packet k is at the broker or in a handler.
Underway(k) ==
  \E m \in Msg : KeyOf[m] = k /\ \/ broker[m] \in {"ready", "unacked"}
                                 \/ \E h \in Handler : msg[h] = m

\* A payer who was told 202 is not forgotten: the packet is settled, or a copy of it
\* is still at the broker or in a handler, or it was refused as expired, whoever else
\* submitted it and whatever failed on the way (from submit_packet's answer to
\* _handle_message's ack).
AcceptedNotForgotten ==
  \A s \in Submission :
    reply[s][0] = "accepted" /\ Payable(KeyOf[s]) =>
      \/ Settled(KeyOf[s])
      \/ Underway(KeyOf[s])
      \/ \E m \in Msg : KeyOf[m] = KeyOf[s] /\ verdict[m] = "PACKET_EXPIRED"

\* A payer who was told 202, and one who was told of a failure although the broker
\* has the packet, is paid in the end unless the packet expires first: database errors
\* are retried until then (submit_packet, relay, bridge, publish, _handle_message and
\* the except branch of _process).
AcceptedIsPaid ==
  \A k \in Key :
    (\E s \in Submission : /\ KeyOf[s] = k
                           /\ Genuine(s) /\ Payable(k)
                           /\ reply[s][0] = "accepted" \/ broker[s] = "ready")
      ~> (Settled(k) \/ TooOld(k, now))
=============================================================================
