----------------------------- MODULE MeshProofs -----------------------------
(***************************************************************************)
(* Theorems about a packet's way to the queue, for any number of           *)
(* submissions, any hop limit and any configuration of the relays.         *)
(***************************************************************************)
EXTENDS MeshJourney, TLAPS

\* A service below the hop limit that passes packets on.
Forwards(s, n) == ~IsBridge(s, n) /\ Hops(s, n) < HopLimit

\* A service is called only by a caller that has begun to forward, and every service
\* the packet met before is a relay below the hop limit.
CalledProperly(s, n) ==
  stage[s][n] # "none" =>
    /\ stage[s][n - 1] \in {"forwarding", "answered"}
    /\ \A k \in Service : k < n => Forwards(s, k)

ChainOK == \A s \in Submission, n \in Service : CalledProperly(s, n)

\* Every stored message was put there by a bridge that has answered since.
StoredBy(e, n) ==
  /\ IsBridge(e.submission, n)
  /\ stage[e.submission][n] = "answered"
  /\ e.hops = Hops(e.submission, n)
  /\ e.intact

QueueOK == \A i \in DOMAIN queue : \E n \in Service : StoredBy(queue[i], n)

QueuedOnce ==
  \A i, j \in DOMAIN queue : queue[i].submission = queue[j].submission => i = j

\* Acceptance, at every level of the chain, has a message behind it.
AcceptancesBacked ==
  \A s \in Submission, n \in Level : reply[s][n] = "accepted" => Queued(s)

MeshInv == MeshTypeOK /\ ChainOK /\ QueueOK /\ QueuedOnce /\ AcceptancesBacked

USE DEF meshVars

LEMMA LimitFacts == HopLimit \in Nat /\ HopLimit > 0 /\ MaxMeshFaults \in Nat
BY MeshAssumption, MeshSettingsAssumption DEF MeshSettingsOK

USE LimitFacts

LEMMA LevelFacts ==
  /\ \A n \in Service : n \in Level /\ n \in Nat /\ n >= 1
  /\ \A n \in Caller : n \in Level /\ n + 1 \in Service /\ n \in Nat
BY DEF Service, Caller, Level, MaxLevel

LEMMA HopFacts ==
  ASSUME NEW s \in Submission, NEW n \in Service
  PROVE  /\ InitialHops[s] \in Nat
         /\ Hops(s, n) = InitialHops[s] + n - 1
         /\ HopCountTarget[s][n] \in Nat
BY LevelFacts, MeshAssumption, MeshSettingsAssumption DEF Hops, MeshSettingsOK

LEMMA EntryType ==
  ASSUME MeshTypeOK, NEW i \in DOMAIN queue
  PROVE  /\ queue[i].submission \in Submission
         /\ queue[i].hops \in Nat
<1>1. queue[i] \in Entry
  BY DEF MeshTypeOK
<1> QED
  BY <1>1 DEF Entry

LEMMA MeshInvInit == MeshInit => MeshInv
<1> SUFFICES ASSUME MeshInit PROVE MeshInv
  OBVIOUS
<1>1. MeshTypeOK
  BY MeshAssumption DEF MeshInit, MeshTypeOK, Stage, Reply
<1>2. ChainOK /\ QueueOK /\ QueuedOnce /\ AcceptancesBacked
  BY LevelFacts
  DEF MeshInit, ChainOK, CalledProperly, QueueOK, QueuedOnce, AcceptancesBacked
<1> QED
  BY <1>1, <1>2 DEF MeshInv

-----------------------------------------------------------------------------
(* The three kinds of step.  A step calls the next node, or answers without *)
(* storing anything, or stores the packet and answers.                      *)

Calls(s, n) ==
  /\ n \in Caller
  /\ stage[s][n] = IF n = 0 THEN "none" ELSE "received"
  /\ n > 0 => ~IsBridge(s, n) /\ Hops(s, n) < HopLimit
  /\ Post(s, n)
  /\ UNCHANGED <<reply, queue>>

AnswersOnly(s, n, r) ==
  /\ stage[s][n] \in {"received", "forwarding"}
  /\ r \in Reply
  /\ r = "accepted" => \E k \in Level : reply[s][k] = "accepted"
  /\ Answer(s, n, r)
  /\ UNCHANGED <<intact, queue>>
  /\ meshFaults' \in 0..MaxMeshFaults

Publishes(s, n, r) ==
  /\ n \in Service
  /\ r \in Reply
  /\ stage[s][n] = "received"
  /\ IsBridge(s, n)
  /\ intact[s]
  /\ Stored(s, n)
  /\ Answer(s, n, r)
  /\ UNCHANGED intact
  /\ meshFaults' \in 0..MaxMeshFaults

StepShape ==
  \/ \E s \in Submission, n \in Level :
       \/ Calls(s, n)
       \/ \E r \in Reply : AnswersOnly(s, n, r) \/ Publishes(s, n, r)
  \/ UNCHANGED meshVars

LEMMA FaultBound ==
  ASSUME NEW kind, MeshTypeOK, MeshFault(kind)
  PROVE  meshFaults' \in 0..MaxMeshFaults
BY DEF MeshFault, MeshTypeOK

LEMMA StepShapes == MeshTypeOK /\ [MeshNext]_meshVars => StepShape
<1> SUFFICES ASSUME MeshTypeOK, [MeshNext]_meshVars PROVE StepShape
  OBVIOUS
<1>a. {"failed", "accepted"} \subseteq Reply
  BY DEF Reply
<1>b. meshFaults \in 0..MaxMeshFaults
  BY DEF MeshTypeOK
<1>1. ASSUME NEW s \in Submission, Submit(s) PROVE StepShape
  <2>1. 0 \in Caller /\ 0 \in Level
    BY DEF Caller, Level, MaxLevel
  <2>2. Calls(s, 0)
    BY <1>1, <2>1 DEF Submit, Calls
  <2> QED
    BY <2>1, <2>2 DEF StepShape
<1>2. ASSUME NEW s \in Submission, NEW n \in Service, RelayForwards(s, n) PROVE StepShape
  <2>0. Hops(s, n) < HopLimit /\ InitialHops[s] \in Nat /\ Hops(s, n) = InitialHops[s] + n - 1
    BY <1>2, HopFacts DEF RelayForwards
  <2>1. n \in Caller /\ n \in Level
    BY <2>0 DEF Service, Caller, Level, MaxLevel
  <2>2. Calls(s, n)
    BY <1>2, <2>1 DEF RelayForwards, Calls, Service
  <2> QED
    BY <2>1, <2>2 DEF StepShape
<1>3. ASSUME NEW s \in Submission, NEW n \in Service,
             \/ RelayRefuses(s, n) \/ BridgeRefuses(s, n) \/ RateLimited(s, n)
      PROVE  StepShape
  <2>1. meshFaults' \in 0..MaxMeshFaults
    BY <1>3, <1>b, FaultBound DEF RelayRefuses, BridgeRefuses, RateLimited
  <2>2. AnswersOnly(s, n, "failed")
    BY <1>3, <1>a, <2>1 DEF RelayRefuses, BridgeRefuses, RateLimited, AnswersOnly
  <2> QED
    BY <1>a, <2>2, LevelFacts DEF StepShape
<1>4. ASSUME NEW s \in Submission, NEW n \in Service, BridgePublishes(s, n) PROVE StepShape
  <2>1. Publishes(s, n, "accepted")
    BY <1>4, <1>a, <1>b DEF BridgePublishes, Publishes
  <2> QED
    BY <1>a, <2>1, LevelFacts DEF StepShape
<1>5. ASSUME NEW s \in Submission, NEW n \in Service, PublishFails(s, n) PROVE StepShape
  <2>1. meshFaults' \in 0..MaxMeshFaults
    BY <1>5, FaultBound DEF PublishFails
  <2>2. AnswersOnly(s, n, "failed") \/ Publishes(s, n, "failed")
    BY <1>5, <1>a, <2>1 DEF PublishFails, AnswersOnly, Publishes
  <2> QED
    BY <1>a, <2>2, LevelFacts DEF StepShape
<1>6. ASSUME NEW s \in Submission, NEW n \in Caller, PassAnswer(s, n) PROVE StepShape
  <2>1. n + 1 \in Level
    BY LevelFacts
  <2>2. reply[s][n + 1] \in Reply
    BY <2>1 DEF MeshTypeOK
  <2>3. AnswersOnly(s, n, reply[s][n + 1])
    BY <1>6, <1>b, <2>1, <2>2 DEF PassAnswer, AnswersOnly
  <2> QED
    BY <2>2, <2>3, LevelFacts DEF StepShape
<1>7. ASSUME NEW s \in Submission, NEW n \in Caller, GiveUp(s, n) PROVE StepShape
  <2>1. meshFaults' \in 0..MaxMeshFaults
    BY <1>7, <1>b, FaultBound DEF GiveUp
  <2>2. AnswersOnly(s, n, "failed")
    BY <1>7, <1>a, <2>1 DEF GiveUp, AnswersOnly
  <2> QED
    BY <1>a, <2>2, LevelFacts DEF StepShape
<1>8. CASE AllAnswered \/ UNCHANGED meshVars
  BY <1>8 DEF AllAnswered, StepShape
<1> QED
  BY <1>1, <1>2, <1>3, <1>4, <1>5, <1>6, <1>7, <1>8 DEF MeshNext, MeshStep

-----------------------------------------------------------------------------
(* Each kind of step preserves the invariant. *)

LEMMA CallKeepsInv ==
  ASSUME MeshInv, NEW s \in Submission, NEW n \in Level, Calls(s, n)
  PROVE  MeshInv'
<1>0. MeshTypeOK /\ ChainOK /\ QueueOK /\ QueuedOnce /\ AcceptancesBacked
  BY DEF MeshInv
<1>1. n \in Caller /\ n \in Nat /\ n + 1 \in Level /\ n + 1 \in Service
  BY LevelFacts DEF Calls
<1>2. MeshTypeOK'
  <2>1. stage' \in [Submission -> [Level -> Stage]]
    <3>1. {"forwarding", "received"} \subseteq Stage /\ stage \in [Submission -> [Level -> Stage]]
      BY <1>0 DEF MeshTypeOK, Stage
    <3>2. CASE stage' = [stage EXCEPT ![s][n] = "forwarding"]
      BY <3>1, <3>2
    <3>3. CASE stage' = [stage EXCEPT ![s][n] = "forwarding", ![s][n + 1] = "received"]
      BY <1>1, <3>1, <3>3
    <3> QED
      BY <3>2, <3>3 DEF Calls, Post
  <2>2. intact' \in [Submission -> BOOLEAN]
    BY <1>0 DEF Calls, Post, MeshTypeOK
  <2>3. meshFaults' \in 0..MaxMeshFaults
    BY <1>0, FaultBound DEF Calls, Post, MeshTypeOK
  <2> QED
    BY <1>0, <2>1, <2>2, <2>3 DEF Calls, MeshTypeOK
<1>3. stage[s][n + 1] = "none" /\ stage[s][n] \in {"none", "received"}
  BY <1>0, <1>1 DEF ChainOK, CalledProperly, Calls
<1>4. /\ stage'[s][n] = "forwarding"
      /\ \A t \in Submission, k \in Level :
           t # s \/ (k # n /\ k # n + 1) => stage'[t][k] = stage[t][k]
  BY <1>0, <1>1 DEF Calls, Post, MeshTypeOK
<1>5. ChainOK'
  <2> SUFFICES ASSUME NEW t \in Submission, NEW k \in Service, stage'[t][k] # "none"
               PROVE  /\ stage'[t][k - 1] \in {"forwarding", "answered"}
                      /\ \A j \in Service : j < k => Forwards(t, j)
    BY DEF ChainOK, CalledProperly, Forwards, IsBridge, Hops
  <2>1. k \in Level /\ k - 1 \in Level /\ k \in Nat
    BY DEF Service, Level, MaxLevel
  <2>2. CASE stage[t][k] # "none"
    BY <1>0, <1>1, <1>3, <1>4, <2>1, <2>2 DEF ChainOK, CalledProperly
  <2>3. CASE stage[t][k] = "none" /\ k = n + 1 /\ t = s
    <3>1. stage'[t][k - 1] = "forwarding"
      BY <1>1, <1>4, <2>3
    <3>2. ASSUME NEW j \in Service, j < k PROVE Forwards(t, j)
      <4>1. CASE j = n
        BY <2>3, <4>1, LevelFacts DEF Calls, Forwards
      <4>2. CASE j # n
        <5>1. n \in Service /\ j < n /\ n # 0
          <6>1. j \in Nat /\ j >= 1 /\ n \in Nat /\ j < n
            <7>1. j \in Nat /\ j >= 1
              BY LevelFacts
            <7>2. n \in Nat /\ j < n + 1 /\ j # n
              BY <1>1, <2>3, <3>2, <4>2
            <7> QED
              BY <7>1, <7>2
          <6>2. n < HopLimit + 2
            BY <1>1, <6>1 DEF Caller, MaxLevel
          <6> QED
            BY <6>1, <6>2 DEF Service, MaxLevel
        <5>2. stage[s][n] = "received"
          BY <5>1 DEF Calls
        <5> QED
          BY <1>0, <2>3, <5>1, <5>2 DEF ChainOK, CalledProperly
      <4> QED
        BY <4>1, <4>2
    <3> QED
      BY <3>1, <3>2
  <2>4. CASE stage[t][k] = "none" /\ k = n /\ t = s
    <3>1. n > 0
      BY <2>4 DEF Service
    <3> QED
      BY <1>0, <1>1, <1>3, <2>1, <2>4, <3>1 DEF Calls
  <2>5. CASE stage[t][k] = "none" /\ (t # s \/ (k # n /\ k # n + 1))
    BY <1>4, <2>1, <2>5
  <2> QED
    BY <2>2, <2>3, <2>4, <2>5
<1>6. QueueOK'
  <2> SUFFICES ASSUME NEW i \in DOMAIN queue
               PROVE  \E k \in Service : StoredBy(queue[i], k)'
    BY DEF QueueOK, Calls
  <2>1. PICK k \in Service : StoredBy(queue[i], k)
    BY <1>0 DEF QueueOK
  <2>2. k \in Level /\ queue[i].submission \in Submission /\ queue' = queue
    BY <1>0, LevelFacts, EntryType DEF Calls
  <2>3. stage'[queue[i].submission][k] = "answered"
    BY <1>3, <1>4, <2>1, <2>2 DEF StoredBy
  <2> QED
    BY <2>1, <2>2, <2>3 DEF StoredBy, IsBridge, Hops
<1>7. QueuedOnce' /\ AcceptancesBacked'
  BY <1>0 DEF QueuedOnce, AcceptancesBacked, Queued, Calls
<1> QED
  BY <1>2, <1>5, <1>6, <1>7 DEF MeshInv

\* What an answer does to the handlers, and to the replies.
LEMMA AnswerEffect ==
  ASSUME MeshTypeOK, NEW s \in Submission, NEW n \in Level, NEW r \in Reply, Answer(s, n, r)
  PROVE  /\ stage' \in [Submission -> [Level -> Stage]]
         /\ reply' \in [Submission -> [Level -> Reply]]
         /\ stage'[s][n] = "answered" /\ reply'[s][n] = r
         /\ \A t \in Submission, k \in Level :
              t # s \/ k # n => stage'[t][k] = stage[t][k] /\ reply'[t][k] = reply[t][k]
BY DEF MeshTypeOK, Answer, Stage

LEMMA AnswerKeepsChain ==
  ASSUME MeshTypeOK, ChainOK, NEW s \in Submission, NEW n \in Level, NEW r \in Reply,
         stage[s][n] # "none", Answer(s, n, r)
  PROVE  ChainOK'
<1> SUFFICES ASSUME NEW t \in Submission, NEW k \in Service, stage'[t][k] # "none"
             PROVE  /\ stage'[t][k - 1] \in {"forwarding", "answered"}
                    /\ \A j \in Service : j < k => Forwards(t, j)
  BY DEF ChainOK, CalledProperly, Forwards, IsBridge, Hops
<1>1. k \in Level /\ k - 1 \in Level
  BY DEF Service, Level, MaxLevel
<1>2. stage[t][k] # "none"
  <2>1. CASE t = s /\ k = n
    BY <2>1
  <2>2. CASE t # s \/ k # n
    BY <1>1, <2>2, AnswerEffect
  <2> QED
    BY <2>1, <2>2
<1>3. /\ stage[t][k - 1] \in {"forwarding", "answered"}
      /\ \A j \in Service : j < k => Forwards(t, j)
  BY <1>2 DEF ChainOK, CalledProperly
<1>4. CASE t = s /\ k - 1 = n
  <2>1. stage'[t][k - 1] = "answered"
    BY <1>4, AnswerEffect
  <2> QED
    BY <1>3, <2>1
<1>5. CASE t # s \/ k - 1 # n
  <2>1. stage'[t][k - 1] = stage[t][k - 1]
    BY <1>1, <1>5, AnswerEffect
  <2> QED
    BY <1>3, <2>1
<1> QED
  BY <1>4, <1>5

LEMMA AnswerKeepsBacked ==
  ASSUME MeshTypeOK, AcceptancesBacked,
         NEW s \in Submission, NEW n \in Level, NEW r \in Reply, Answer(s, n, r),
         \A t \in Submission : Queued(t) => Queued(t)',
         r = "accepted" => Queued(s)'
  PROVE  AcceptancesBacked'
<1> SUFFICES ASSUME NEW t \in Submission, NEW k \in Level, reply'[t][k] = "accepted"
             PROVE  Queued(t)'
  BY DEF AcceptancesBacked
<1>1. CASE t = s /\ k = n
  BY <1>1, AnswerEffect
<1>2. CASE t # s \/ k # n
  <2>1. reply[t][k] = "accepted"
    BY <1>2, AnswerEffect
  <2> QED
    BY <2>1 DEF AcceptancesBacked
<1> QED
  BY <1>1, <1>2

LEMMA AnswerKeepsInv ==
  ASSUME MeshInv, NEW s \in Submission, NEW n \in Level, NEW r \in Reply, AnswersOnly(s, n, r)
  PROVE  MeshInv'
<1>0. MeshTypeOK /\ ChainOK /\ QueueOK /\ QueuedOnce /\ AcceptancesBacked
  BY DEF MeshInv
<1>1. Answer(s, n, r) /\ stage[s][n] # "none" /\ UNCHANGED queue
  BY DEF AnswersOnly
<1>2. MeshTypeOK'
  BY <1>0, <1>1, AnswerEffect DEF MeshTypeOK, AnswersOnly
<1>3. ChainOK'
  BY <1>0, <1>1, AnswerKeepsChain
<1>4. QueueOK'
  <2> SUFFICES ASSUME NEW i \in DOMAIN queue
               PROVE  \E k \in Service : StoredBy(queue[i], k)'
    BY <1>1 DEF QueueOK, StoredBy, IsBridge, Hops
  <2>1. PICK k \in Service : StoredBy(queue[i], k)
    BY <1>0 DEF QueueOK
  <2>2. k \in Level /\ queue[i].submission \in Submission
    BY <1>0, LevelFacts, EntryType
  <2> QED
    BY <1>0, <1>1, <2>1, <2>2, AnswerEffect DEF StoredBy, IsBridge, Hops
<1>5. QueuedOnce'
  BY <1>0, <1>1 DEF QueuedOnce
<1>6. AcceptancesBacked'
  <2>1. \A t \in Submission : Queued(t) <=> Queued(t)'
    BY <1>1 DEF Queued
  <2>2. r = "accepted" => Queued(s)
    BY <1>0 DEF AnswersOnly, AcceptancesBacked
  <2> QED
    BY <1>0, <2>1, <2>2, AnswerKeepsBacked, <1>1
<1> QED
  BY <1>2, <1>3, <1>4, <1>5, <1>6 DEF MeshInv

\* A submission's chain ends at its first bridge.
LEMMA OneBridge ==
  ASSUME ChainOK, NEW s \in Submission, NEW j \in Service, NEW k \in Service,
         IsBridge(s, j), IsBridge(s, k), stage[s][j] # "none", stage[s][k] # "none"
  PROVE  j = k
<1>1. j \in Int /\ k \in Int /\ ~(j < k) /\ ~(k < j)
  BY LevelFacts DEF ChainOK, CalledProperly, Forwards
<1> QED
  BY <1>1

LEMMA PublishKeepsInv ==
  ASSUME MeshInv, NEW s \in Submission, NEW n \in Level, NEW r \in Reply, Publishes(s, n, r)
  PROVE  MeshInv'
<1>0. MeshTypeOK /\ ChainOK /\ QueueOK /\ QueuedOnce /\ AcceptancesBacked
  BY DEF MeshInv
<1> DEFINE e == [submission |-> s, hops |-> Hops(s, n), intact |-> intact[s]]
<1>1. /\ Answer(s, n, r) /\ stage[s][n] = "received" /\ n \in Service
      /\ queue' = Append(queue, e) /\ IsBridge(s, n) /\ intact[s]
  BY DEF Publishes, Stored
<1>2. e \in Entry
  <2>1. Hops(s, n) \in Nat
    BY <1>1, HopFacts, LevelFacts
  <2> QED
    BY <1>0, <2>1 DEF Entry, MeshTypeOK
<1>3. /\ e.submission = s /\ e.hops = Hops(s, n) /\ e.intact
  BY <1>1
<1> HIDE DEF e
<1>4. /\ queue' \in Seq(Entry)
      /\ Len(queue) \in Nat
      /\ DOMAIN queue = 1..Len(queue)
      /\ DOMAIN queue' = 1..(Len(queue) + 1)
      /\ queue'[Len(queue) + 1] = e
      /\ \A i \in DOMAIN queue : queue'[i] = queue[i]
  BY <1>0, <1>1, <1>2 DEF MeshTypeOK
<1>5. MeshTypeOK'
  BY <1>0, <1>1, <1>4, AnswerEffect DEF MeshTypeOK, Publishes
<1>6. ChainOK'
  BY <1>0, <1>1, AnswerKeepsChain
<1>7. ASSUME NEW i \in DOMAIN queue PROVE queue[i].submission # s
  <2>1. PICK k \in Service : StoredBy(queue[i], k)
    BY <1>0, <1>7 DEF QueueOK
  <2>2. SUFFICES ASSUME queue[i].submission = s PROVE FALSE
    OBVIOUS
  <2> QED
    BY <1>0, <1>1, <2>1, <2>2, OneBridge DEF StoredBy
<1>8. QueueOK'
  <2> SUFFICES ASSUME NEW i \in 1..(Len(queue) + 1)
               PROVE  \E k \in Service : StoredBy(queue[i], k)'
    BY <1>4 DEF QueueOK
  <2>1. CASE i \in DOMAIN queue
    <3>1. PICK k \in Service : StoredBy(queue[i], k)
      BY <1>0, <2>1 DEF QueueOK
    <3>2. k \in Level /\ queue[i].submission \in Submission
      BY <1>0, <2>1, LevelFacts, EntryType
    <3>3. queue'[i] = queue[i]
      BY <1>4, <2>1
    <3>4. stage'[queue[i].submission][k] = "answered"
      BY <1>0, <1>1, <3>1, <3>2, AnswerEffect DEF StoredBy
    <3> QED
      BY <3>1, <3>3, <3>4 DEF StoredBy, IsBridge, Hops
  <2>2. CASE i = Len(queue) + 1
    <3>1. stage'[s][n] = "answered"
      BY <1>0, <1>1, AnswerEffect
    <3> QED
      BY <1>1, <1>3, <1>4, <2>2, <3>1 DEF StoredBy, IsBridge, Hops
  <2> QED
    BY <1>4, <2>1, <2>2
<1>9. QueuedOnce'
  BY <1>0, <1>3, <1>4, <1>7 DEF QueuedOnce
<1>10. AcceptancesBacked'
  <2>1. \A t \in Submission : Queued(t) => Queued(t)'
    BY <1>4 DEF Queued
  <2>2. Queued(s)'
    <3>1. Len(queue) + 1 \in DOMAIN queue' /\ queue'[Len(queue) + 1].submission = s
      BY <1>3, <1>4
    <3> QED
      BY <3>1 DEF Queued
  <2> QED
    BY <1>0, <1>1, <2>1, <2>2, AnswerKeepsBacked
<1> QED
  BY <1>5, <1>6, <1>8, <1>9, <1>10 DEF MeshInv

LEMMA MeshInvNext == MeshInv /\ [MeshNext]_meshVars => MeshInv'
<1> SUFFICES ASSUME MeshInv, StepShape PROVE MeshInv'
  BY StepShapes DEF MeshInv
<1>1. CASE UNCHANGED meshVars
  BY <1>1 DEF MeshInv, MeshTypeOK, ChainOK, CalledProperly, QueueOK, StoredBy, QueuedOnce,
              AcceptancesBacked, Queued, Forwards, IsBridge, Hops
<1> QED
  BY <1>1, CallKeepsInv, AnswerKeepsInv, PublishKeepsInv DEF StepShape

LEMMA MeshInvAlways == MeshSpec => []MeshInv
BY MeshInvInit, MeshInvNext, PTL DEF MeshSpec

-----------------------------------------------------------------------------
\* Every reachable state of the mesh is well typed.
THEOREM MeshTypeCorrect == MeshSpec => []MeshTypeOK
<1>1. MeshInv => MeshTypeOK
  BY DEF MeshInv
<1> QED
  BY <1>1, MeshInvAlways, PTL

\* A client that is told 202 has its packet on the queue, however many relays
\* are between it and the bridge and whatever is lost, altered or late.
THEOREM AcceptanceMeansQueued == MeshSpec => []AcceptedIsQueued
<1>1. MeshInv => AcceptedIsQueued
  BY DEF MeshInv, AcceptancesBacked, AcceptedIsQueued, Level, MaxLevel
<1> QED
  BY <1>1, MeshInvAlways, PTL

\* No submission is queued twice, and none unverified: retries are the client's,
\* and the bridge does not rely on the relays' checks.
THEOREM SubmissionQueuedOnce == MeshSpec => []QueuedOnceIntact
<1>1. MeshInv => QueuedOnceIntact
  BY DEF MeshInv, QueuedOnce, QueueOK, StoredBy, QueuedOnceIntact
<1> QED
  BY <1>1, MeshInvAlways, PTL

\* Loop protection: whatever the relays' targets, no queued packet has more hops
\* than the limit, and the relay that handed it to the bridge is the first one whose
\* target its hops had reached.
THEOREM HopsBounded == MeshSpec => []HopsAsConfigured
<1>1. MeshInv => HopsAsConfigured
  <2> SUFFICES ASSUME MeshInv, NEW i \in DOMAIN queue
               PROVE  LET s == queue[i].submission
                          m == queue[i].hops - InitialHops[s]
                      IN /\ queue[i].hops <= HopLimit
                         /\ m >= 1
                         /\ \A n \in 1..m :
                              InitialHops[s] + n >= HopCountTarget[s][n] <=> n = m
    BY DEF HopsAsConfigured
  <2> DEFINE s == queue[i].submission
             m == queue[i].hops - InitialHops[s]
  <2>1. PICK b \in Service : StoredBy(queue[i], b)
    BY DEF MeshInv, QueueOK
  <2>2. s \in Submission /\ queue[i].hops = Hops(s, b) /\ IsBridge(s, b)
    BY <2>1, EntryType DEF MeshInv, StoredBy
  <2>3. \A k \in Service : k < b => Forwards(s, k)
    BY <2>1, <2>2 DEF MeshInv, ChainOK, CalledProperly, StoredBy
  <2>4. b \in Nat /\ b > 1 /\ b <= MaxLevel /\ MaxLevel \in Nat
    BY <2>2 DEF IsBridge, Service, MaxLevel
  <2>5. m = b - 1
    BY <2>2, <2>4, HopFacts
  <2>6. m \in Service
    BY <2>4, <2>5 DEF Service
  <2>7. queue[i].hops <= HopLimit
    <3>1. Hops(s, m) < HopLimit
      BY <2>3, <2>4, <2>5, <2>6 DEF Forwards
    <3>2. Hops(s, m) = InitialHops[s] + m - 1 /\ Hops(s, b) = InitialHops[s] + b - 1
      BY <2>2, <2>6, HopFacts
    <3> QED
      BY <2>2, <2>4, <2>5, <3>1, <3>2, HopFacts
  <2>8. ASSUME NEW n \in 1..m
        PROVE  InitialHops[s] + n >= HopCountTarget[s][n] <=> n = m
    <3> HIDE DEF s, m
    <3>1. n \in Service /\ n + 1 \in Service /\ n \in Nat /\ n <= b - 1
      BY <2>4, <2>5 DEF Service
    <3>2. Hops(s, n + 1) = InitialHops[s] + n
      BY <2>2, <3>1, HopFacts
    <3>3. IsBridge(s, n + 1) <=> InitialHops[s] + n >= HopCountTarget[s][n]
      BY <3>1, <3>2 DEF IsBridge
    <3>4. n + 1 < b => ~IsBridge(s, n + 1)
      BY <2>3, <3>1 DEF Forwards
    <3> QED
      <4>1. CASE n = m
        BY <2>2, <2>4, <2>5, <3>3, <4>1
      <4>2. CASE n # m
        BY <2>4, <2>5, <3>1, <3>3, <3>4, <4>2
      <4> QED
        BY <4>1, <4>2
  <2> HIDE DEF s, m
  <2> QED
    BY <2>4, <2>7, <2>8, <2>5 DEF s, m
<1> QED
  BY <1>1, MeshInvAlways, PTL
=============================================================================
