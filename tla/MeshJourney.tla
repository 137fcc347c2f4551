----------------------------- MODULE MeshJourney -----------------------------
(***************************************************************************)
(* A packet's way to the queue: a client (the sender service, or the demo  *)
(* page through the UI's proxy) POSTs it to a relay, each relay verifies   *)
(* it, records a hop and POSTs it on, and the bridge publishes it.  The    *)
(* calls are nested: a node answers its caller only after the node it      *)
(* called has answered, or after its HTTP client has given up.             *)
(*                                                                         *)
(* A submission's calls form a chain.  Level 0 is the client, level n the  *)
(* n-th service the packet meets: relays, then the bridge.  A service that *)
(* has received a request works on whether or not its caller still waits.  *)
(***************************************************************************)
EXTENDS Integers, Sequences, FiniteSets

CONSTANTS
  Submission,      \* hand-offs of a packet to the mesh, replays included
  InitialHops,     \* [Submission -> Nat]: hops the packet already carries
  Verifies,        \* the submissions whose packet parses and verifies
  HopCountTarget,  \* [Submission -> [Level -> Nat]]: the target of the relay it
                   \* meets at each level; relays need not agree
  HopLimit,
  MeshFaults,      \* the kinds of failure the network may produce
  MaxMeshFaults    \* bound: failures in a behaviour

\* "network": a request never arrives.  "timeout": the caller gives up on a
\* service that is still at work, or its answer is lost.  "publish": the broker
\* does not confirm, having stored the message or not.  "corrupt": a body is
\* altered on the way.  "limit": a rate limiter answers 429.
MeshFaultKind == {"network", "timeout", "publish", "corrupt", "limit"}

\* One level more than a chain can have; Forward never gets past it.
MaxLevel == HopLimit + 2
Level == 0..MaxLevel

\* The settings' bounds; each relay has its own target and all share the limit.
MeshSettingsOK ==
  /\ HopCountTarget \in [Submission -> [Level -> Nat]]
  /\ HopLimit \in Nat \ {0}

ASSUME MeshSettingsAssumption == MeshSettingsOK

ASSUME MeshAssumption ==
  /\ InitialHops \in [Submission -> Nat]
  /\ Verifies \subseteq Submission
  /\ MeshFaults \subseteq MeshFaultKind
  /\ MaxMeshFaults \in Nat

VARIABLES
  stage,       \* [Submission -> [Level -> Stage]]: each service's handler
  reply,       \* [Submission -> [Level -> Reply]]: what it answered its caller
  intact,      \* [Submission -> BOOLEAN]: the body on its way still verifies
  queue,       \* what the broker has stored, in order
  meshFaults   \* failures so far

meshVars == <<stage, reply, intact, queue, meshFaults>>

Stage == {"none", "received", "forwarding", "answered"}
Reply == {"none", "accepted", "failed"}
Entry == [submission : Submission, hops : Nat, intact : BOOLEAN]

\* Hops on the packet as level n receives it.
Hops(s, n) == InitialHops[s] + n - 1

\* RelayConfig.next_destination, asked by the relay one level up, which counts its
\* own hop: the packet goes to the bridge once it has enough of them for that relay.
IsBridge(s, n) == n > 1 /\ Hops(s, n) >= HopCountTarget[s][n - 1]

Queued(s) == \E i \in DOMAIN queue : queue[i].submission = s

MeshFault(kind) ==
  /\ kind \in MeshFaults
  /\ meshFaults < MaxMeshFaults
  /\ meshFaults' = meshFaults + 1

Answer(s, n, r) ==
  /\ stage' = [stage EXCEPT ![s][n] = "answered"]
  /\ reply' = [reply EXCEPT ![s][n] = r]

-----------------------------------------------------------------------------
MeshInit ==
  /\ stage = [s \in Submission |-> [n \in Level |-> "none"]]
  /\ reply = [s \in Submission |-> [n \in Level |-> "none"]]
  /\ intact = [s \in Submission |-> s \in Verifies]
  /\ queue = <<>>
  /\ meshFaults = 0

\* The POST from level n to level n + 1: it arrives, arrives altered, or is lost.
Post(s, n) ==
  \/ /\ stage' = [stage EXCEPT ![s][n] = "forwarding", ![s][n + 1] = "received"]
     /\ UNCHANGED <<intact, meshFaults>>
  \/ /\ MeshFault("corrupt")
     /\ stage' = [stage EXCEPT ![s][n] = "forwarding", ![s][n + 1] = "received"]
     /\ intact' = [intact EXCEPT ![s] = FALSE]
  \/ /\ MeshFault("network")
     /\ stage' = [stage EXCEPT ![s][n] = "forwarding"]
     /\ UNCHANGED intact

\* submit_packet, or the page's replay of a packet it holds.
Submit(s) ==
  /\ stage[s][0] = "none"
  /\ Post(s, 0)
  /\ UNCHANGED <<reply, queue>>

\* A relay's early returns: 422 or 400 for what does not parse or verify, 400 at
\* the hop limit.
RelayRefuses(s, n) ==
  /\ stage[s][n] = "received"
  /\ ~IsBridge(s, n)
  /\ ~intact[s] \/ Hops(s, n) >= HopLimit
  /\ Answer(s, n, "failed")
  /\ UNCHANGED <<intact, queue, meshFaults>>

\* Mutant of RelayForwards: the limit is checked after the hop is recorded, with >.
ForwardsAtLimit(s, n) ==
  /\ stage[s][n] = "received"
  /\ ~IsBridge(s, n)
  /\ intact[s]
  /\ n + 1 \in Level
  /\ Post(s, n)
  /\ UNCHANGED <<reply, queue>>

\* A relay records its hop and calls the next node.
RelayForwards(s, n) ==
  /\ stage[s][n] = "received"
  /\ ~IsBridge(s, n)
  /\ intact[s]
  /\ Hops(s, n) < HopLimit
  /\ Post(s, n)
  /\ UNCHANGED <<reply, queue>>

BridgeRefuses(s, n) ==
  /\ stage[s][n] = "received"
  /\ IsBridge(s, n)
  /\ ~intact[s]
  /\ Answer(s, n, "failed")
  /\ UNCHANGED <<intact, queue, meshFaults>>

Stored(s, n) ==
  queue' = Append(queue, [submission |-> s, hops |-> Hops(s, n), intact |-> intact[s]])

\* Mutant of BridgePublishes: the bridge trusts the relays to have verified.
BridgePublishesUnverified(s, n) ==
  /\ stage[s][n] = "received"
  /\ IsBridge(s, n)
  /\ Stored(s, n)
  /\ Answer(s, n, "accepted")
  /\ UNCHANGED <<intact, meshFaults>>

\* The broker confirms the message; only now does the bridge answer 202.
BridgePublishes(s, n) ==
  /\ stage[s][n] = "received"
  /\ IsBridge(s, n)
  /\ intact[s]
  /\ Stored(s, n)
  /\ Answer(s, n, "accepted")
  /\ UNCHANGED <<intact, meshFaults>>

\* No confirmation: PublishError and 503, whether or not the broker stored it.
PublishFails(s, n) ==
  /\ stage[s][n] = "received"
  /\ IsBridge(s, n)
  /\ intact[s]
  /\ MeshFault("publish")
  /\ UNCHANGED queue \/ Stored(s, n)
  /\ Answer(s, n, "failed")
  /\ UNCHANGED intact

\* The rate limiter answers before the handler runs.
RateLimited(s, n) ==
  /\ stage[s][n] = "received"
  /\ MeshFault("limit")
  /\ Answer(s, n, "failed")
  /\ UNCHANGED <<intact, queue>>

\* Mutant of PassAnswer: the answer's status code is not looked at.
PassAnyAnswer(s, n) ==
  /\ stage[s][n] = "forwarding"
  /\ stage[s][n + 1] = "answered"
  /\ Answer(s, n, "accepted")
  /\ UNCHANGED <<intact, queue, meshFaults>>

\* Mutant of PassAnswer: an error status is passed up as it came.
PassRawStatus(s, n) ==
  /\ stage[s][n] = "forwarding"
  /\ stage[s][n + 1] = "answered"
  /\ Answer(s, n, IF reply[s][n + 1] = "accepted" THEN "accepted" ELSE "400")
  /\ UNCHANGED <<intact, queue, meshFaults>>

\* The call returned: success is passed up, any error status becomes a 502.
PassAnswer(s, n) ==
  /\ stage[s][n] = "forwarding"
  /\ stage[s][n + 1] = "answered"
  /\ Answer(s, n, reply[s][n + 1])
  /\ UNCHANGED <<intact, queue, meshFaults>>

\* Mutant of GiveUp: a lost request is waited for without end.
NeverGiveUp(s, n) ==
  /\ stage[s][n] = "forwarding"
  /\ stage[s][n + 1] # "none"
  /\ MeshFault("timeout")
  /\ Answer(s, n, "failed")
  /\ UNCHANGED <<intact, queue>>

\* mesh_forward_timeout_seconds is over, or the connection broke: a 502.
GiveUp(s, n) ==
  /\ stage[s][n] = "forwarding"
  /\ \/ stage[s][n + 1] = "none" /\ UNCHANGED meshFaults
     \/ stage[s][n + 1] # "none" /\ MeshFault("timeout")
  /\ Answer(s, n, "failed")
  /\ UNCHANGED <<intact, queue>>

AllAnswered ==
  /\ \A s \in Submission, n \in Level : stage[s][n] \in {"none", "answered"}
  /\ \A s \in Submission : stage[s][0] # "none"
  /\ UNCHANGED meshVars

Caller  == 0..(MaxLevel - 1)
Service == 1..MaxLevel

MeshStep(s) ==
  \/ \E n \in Service : \/ RelayRefuses(s, n) \/ RelayForwards(s, n)
                        \/ BridgeRefuses(s, n) \/ BridgePublishes(s, n)
                        \/ PublishFails(s, n) \/ RateLimited(s, n)
  \/ \E n \in Caller : PassAnswer(s, n) \/ GiveUp(s, n)

MeshNext ==
  \/ \E s \in Submission : Submit(s) \/ MeshStep(s)
  \/ AllAnswered

MeshSpec == MeshInit /\ [][MeshNext]_meshVars

\* Every service and every HTTP client keeps working; no payer has to submit.
MeshFairSpec == MeshSpec /\ \A s \in Submission : WF_meshVars(MeshStep(s))

-----------------------------------------------------------------------------
\* Every variable has its type.
MeshTypeOK ==
  /\ stage \in [Submission -> [Level -> Stage]]
  /\ reply \in [Submission -> [Level -> Reply]]
  /\ intact \in [Submission -> BOOLEAN]
  /\ queue \in Seq(Entry)
  /\ meshFaults \in 0..MaxMeshFaults

\* A payer who is told 202 has a packet on the queue: acceptance is only passed up
\* a chain whose last link is the broker's confirmation (submit_packet, relay, bridge).
AcceptedIsQueued ==
  \A s \in Submission : reply[s][0] = "accepted" => Queued(s)

\* A submission is queued at most once, verified at every node up to the bridge.
QueuedOnceIntact ==
  /\ \A i, j \in DOMAIN queue : queue[i].submission = queue[j].submission => i = j
  /\ \A i \in DOMAIN queue : queue[i].intact

\* A queued packet was handed to the bridge by the first relay whose own target its
\* hops had reached, at least one and never more than the limit, whatever the targets
\* of the relays on its way (next_destination, the loop protection in relay).
HopsAsConfigured ==
  \A i \in DOMAIN queue :
    LET s      == queue[i].submission
        relays == queue[i].hops - InitialHops[s]
    IN /\ queue[i].hops <= HopLimit
       /\ relays >= 1
       /\ \A n \in 1..relays :
            InitialHops[s] + n >= HopCountTarget[s][n] <=> n = relays

\* The sender's 502 says "no mesh node accepted the packet": then it is not queued.
FailedIsNotQueued ==
  \A s \in Submission : reply[s][0] = "failed" => ~Queued(s)

\* Whoever submits gets an answer, even if a request or an answer is lost
\* (mesh_forward_timeout_seconds).
EverySubmissionAnswered ==
  \A s \in Submission : (stage[s][0] = "forwarding") ~> (stage[s][0] = "answered")
=============================================================================
