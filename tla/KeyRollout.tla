----------------------------- MODULE KeyRollout -----------------------------
(***************************************************************************)
(* Where the keys come from and what packets meet while they change.  An   *)
(* operator writes .env and .env.infra (bootstrap_env.py) or pastes new    *)
(* keys (keygen.py); each service reads .env when its process starts and   *)
(* keeps what it read (config.py, the cached loaders of crypto.py); the    *)
(* sender mints, copies of a packet travel, are altered or written         *)
(* differently on the way, and meet relays, the bridge and settlement,     *)
(* each with the keys of its own process.                                  *)
(*                                                                         *)
(* Freshness, races and failures of settlement are Settlement's subject,   *)
(* routing and answers MeshJourney's; here a node's decision is one step.  *)
(***************************************************************************)
EXTENDS PacketFormat

CONSTANTS
  Copy,         \* copies of packets on their way
  NoPacket,     \* what a copy is before it is sent
  MaxGeneration, MaxMinted, MaxHops, MaxStops, MaxHarm    \* bounds

ASSUME RolloutAssumption ==
  /\ NoPacket \notin Packet
  /\ {MaxGeneration, MaxMinted, MaxHops, MaxStops, MaxHarm} \subseteq Nat

Service == {"sender", "relay", "bridge", "settlement"}

VARIABLES
  envFile,      \* .env: whether it exists, and the generations of keys and passwords
  infraFile,    \* .env.infra: the same, for its passwords
  script,       \* what a bootstrap run has yet to write to .env.infra; 0: none runs
  interrupted,  \* the last bootstrap run was killed between its two writes
  generation,   \* the last generation of keys and passwords made
  rekeyed,      \* an operator asked for new keys
  process,      \* [Service -> whether it runs, and the keys it has or had]
  stops,        \* processes stopped so far
  minted,       \* the packets the sender has made
  at,           \* [Copy -> where a copy is]
  carried,      \* [Copy -> the body it now is]
  copyOf,       \* [Copy -> the packet it is a copy of]
  harm,         \* [Copy -> what was altered in it]
  rows          \* the settlements table: dedupe key and instruction

fileVars    == <<envFile, infraFile, script, interrupted, generation, rekeyed>>
processVars == <<process, stops>>
copyVars    == <<at, carried, copyOf, harm>>
rolloutVars == <<fileVars, processVars, minted, copyVars, rows>>

Place    == {"nowhere", "relay", "bridge", "queue"}
KeyOfRow == {r.key : r \in rows}
IdOfRow  == {r.instruction.packet_id : r \in rows}
NextId   == Cardinality(minted) + 1

Up(s) == process[s].up

TotalHarm == Cardinality(UNION {{<<c, h>> : h \in harm[c]} : c \in Copy})

Unaltered(c) == harm[c] \subseteq {"encoding"}

-----------------------------------------------------------------------------
RolloutInit ==
  /\ envFile = [written |-> FALSE, keys |-> 0, passwords |-> 0]
  /\ infraFile = [written |-> FALSE, passwords |-> 0]
  /\ script = 0
  /\ interrupted = FALSE
  /\ generation = 0
  /\ rekeyed = FALSE
  /\ process = [s \in Service |-> [up |-> FALSE, keys |-> 0]]
  /\ stops = 0
  /\ minted = {}
  /\ at = [c \in Copy |-> "nowhere"]
  /\ carried = [c \in Copy |-> NoPacket]
  /\ copyOf = [c \in Copy |-> NoPacket]
  /\ harm = [c \in Copy |-> {}]
  /\ rows = {}

(* The operator. *)

\* Both key pairs are made anew; passwords made with them share their generation.
Generate ==
  /\ generation < MaxGeneration
  /\ generation' = generation + 1

\* build_files and the first of the two writes.
WriteEnv ==
  /\ Generate
  /\ envFile' = [written |-> TRUE, keys |-> generation', passwords |-> generation']
  /\ script' = generation'
  /\ UNCHANGED <<infraFile, interrupted, processVars, minted, copyVars, rows>>

\* Mutant of Bootstrap: existing files are not looked for.
BootstrapClobbers(force) ==
  /\ script = 0
  /\ rekeyed' = (rekeyed \/ force)
  /\ WriteEnv

\* bootstrap_env.py: without --force it refuses when either file exists.
Bootstrap(force) ==
  /\ script = 0
  /\ force \/ ~(envFile.written \/ infraFile.written)
  /\ rekeyed' = (rekeyed \/ force)
  /\ WriteEnv

\* Mutant of BootstrapInfra: the second file gets a password of its own.
BootstrapInfraAnew ==
  /\ script # 0
  /\ infraFile' = [written |-> TRUE, passwords |-> script + 1]
  /\ script' = 0
  /\ interrupted' = FALSE
  /\ UNCHANGED <<envFile, generation, rekeyed, processVars, minted, copyVars, rows>>

\* The second write.
BootstrapInfra ==
  /\ script # 0
  /\ infraFile' = [written |-> TRUE, passwords |-> script]
  /\ script' = 0
  /\ interrupted' = FALSE
  /\ UNCHANGED <<envFile, generation, rekeyed, processVars, minted, copyVars, rows>>

BootstrapKilled ==
  /\ script # 0
  /\ script' = 0
  /\ interrupted' = TRUE
  /\ UNCHANGED <<envFile, infraFile, generation, rekeyed, processVars, minted, copyVars,
                 rows>>

\* The four lines of keygen.py replace those in .env; the passwords stay.
PasteKeys ==
  /\ envFile.written
  /\ script = 0
  /\ Generate
  /\ envFile' = [envFile EXCEPT !.keys = generation']
  /\ rekeyed' = TRUE
  /\ UNCHANGED <<infraFile, script, interrupted, processVars, minted, copyVars, rows>>

(* The processes. *)

\* Mutant of Start: settlement consumes before it has loaded its keys.
StartKeyless(s) ==
  /\ ~Up(s)
  /\ \E keys \in {envFile.keys, process[s].keys} :
       process' = [process EXCEPT ![s] = [up |-> TRUE, keys |-> keys]]
  /\ UNCHANGED <<fileVars, stops, minted, copyVars, rows>>

\* A process has the keys that are in .env as it starts, or, in a container that is
\* restarted and not created anew, the ones it had; it never looks again.  Settlement
\* loads its keys in its lifespan and does not come up without them; the others load
\* theirs with the first request.
Start(s) ==
  /\ ~Up(s)
  /\ \E keys \in {envFile.keys, process[s].keys} :
       /\ s = "settlement" => keys # 0
       /\ process' = [process EXCEPT ![s] = [up |-> TRUE, keys |-> keys]]
  /\ UNCHANGED <<fileVars, stops, minted, copyVars, rows>>

\* Copies that are answered, refused or lost.
Gone(cs) ==
  /\ at' = [c \in Copy |-> IF c \in cs THEN "nowhere" ELSE at[c]]
  /\ carried' = [c \in Copy |-> IF c \in cs THEN NoPacket ELSE carried[c]]
  /\ copyOf' = [c \in Copy |-> IF c \in cs THEN NoPacket ELSE copyOf[c]]
  /\ harm' = [c \in Copy |-> IF c \in cs THEN {} ELSE harm[c]]

\* A process stops or dies: requests at it are lost, messages stay in the queue.
Stop(s) ==
  /\ Up(s)
  /\ stops < MaxStops
  /\ stops' = stops + 1
  /\ process' = [process EXCEPT ![s].up = FALSE]
  /\ Gone({c \in Copy : at[c] = s})
  /\ UNCHANGED <<fileVars, minted, rows>>

(* Packets. *)

\* A copy goes from one place to the next.
Moves(c, place, p) ==
  /\ at' = [at EXCEPT ![c] = place]
  /\ carried' = [carried EXCEPT ![c] = p]
  /\ UNCHANGED <<copyOf, harm>>

\* A POST to the next node: lost when nothing listens there.
SendTo(c, s, p) ==
  \/ Up(s) /\ Moves(c, s, p)
  \/ ~Up(s) /\ Gone({c})

\* create_packet: a valid request, and keys to sign and seal with.
CreatePacket(payment) ==
  LET keys == process["sender"].keys IN
  /\ Up("sender")
  /\ keys # 0
  /\ payment \in ValidPayments
  /\ NextId <= MaxMinted
  /\ minted' = minted \cup
       {Create(to_instruction(payment, NextId, 0), keys, keys, 0, NextId)}
  /\ UNCHANGED <<fileVars, processVars, copyVars, rows>>

\* A client POSTs a body to a relay.
Enter(c, p, h) ==
  /\ at[c] = "nowhere"
  /\ at' = [at EXCEPT ![c] = "relay"]
  /\ carried' = [carried EXCEPT ![c] = p]
  /\ copyOf' = [copyOf EXCEPT ![c] = p]
  /\ harm' = [harm EXCEPT ![c] = h]
  /\ UNCHANGED <<fileVars, processVars, minted, rows>>

\* The hand-off in submit_packet, or the page sending a packet it holds, again maybe.
Submit(c, p) ==
  /\ Up("relay")
  /\ Enter(c, p, {})

\* A packet put together wrongly by a device that has the signing key.
SubmitRelabelled(c, p) ==
  /\ Up("relay")
  /\ \E q \in {Relabelled(p, MaxMinted + 1, p.signature.by),
              Resealed(p, MaxMinted + 1, p.signature.by)} :
       Enter(c, q, {"relabelled"})

\* A body is altered, or written differently, between two nodes.
Alter(c, h) ==
  /\ at[c] \in {"relay", "bridge"}
  /\ TotalHarm < MaxHarm
  /\ h \notin harm[c]
  /\ carried' = [carried EXCEPT ![c] = Harmed(@, h)]
  /\ harm' = [harm EXCEPT ![c] = @ \cup {h}]
  /\ UNCHANGED <<fileVars, processVars, minted, at, copyOf, rows>>

\* What a relay and the bridge ask of a packet: it parses, and verifies under the key
\* of their process, if that has one.
Passes(p, s) ==
  /\ Parses(p)
  /\ process[s].keys # 0
  /\ Verifies(p, process[s].keys)

\* 422, 400, or 500 for want of a key: the packet goes no further.
Refuses(c, s) ==
  /\ at[c] = s
  /\ ~Passes(carried[c], s)
  /\ Gone({c})
  /\ UNCHANGED <<fileVars, processVars, minted, rows>>

\* A hop is recorded, and the packet goes to another relay or to the bridge.
Relay(c, next) ==
  LET p == append_hop(carried[c]) IN
  /\ at[c] = "relay"
  /\ Passes(carried[c], "relay")
  /\ next = "relay" => p.hops < MaxHops
  /\ SendTo(c, next, Reserialised(p))
  /\ UNCHANGED <<fileVars, processVars, minted, rows>>

\* The bridge publishes what it has parsed, serialised anew.
Bridge(c) ==
  /\ at[c] = "bridge"
  /\ Passes(carried[c], "bridge")
  /\ Moves(c, "queue", Reserialised(carried[c]))
  /\ UNCHANGED <<fileVars, processVars, minted, rows>>

\* What settlement makes of a packet with the keys it started with.
Decision(p) == Verdict(p, process["settlement"].keys, process["settlement"].keys)

IsNew(p) == IdempotencyKey(p) \notin KeyOfRow /\ p.packet_id \notin IdOfRow
Row(p)   == [key |-> IdempotencyKey(p), instruction |-> p.envelope.ciphertext.seals]

\* Settlement decides and acks.  A key or packet id that has a row is a duplicate.
Settle(c) ==
  /\ at[c] = "queue"
  /\ Up("settlement")
  /\ rows' = IF Decision(carried[c]) = "SETTLED" /\ IsNew(carried[c])
             THEN rows \cup {Row(carried[c])} ELSE rows
  /\ Gone({c})
  /\ UNCHANGED <<fileVars, processVars, minted>>

\* Nothing is between two nodes.
Quiet ==
  /\ \A c \in Copy : at[c] \in {"nowhere", "queue"}
  /\ UNCHANGED rolloutVars

CopyStep(c) ==
  \/ \E s \in {"relay", "bridge"} : Refuses(c, s)
  \/ \E next \in {"relay", "bridge"} : Relay(c, next)
  \/ Bridge(c)
  \/ Settle(c)

RolloutNext ==
  \/ \E force \in BOOLEAN : Bootstrap(force)
  \/ BootstrapInfra \/ BootstrapKilled \/ PasteKeys
  \/ \E s \in Service : Start(s) \/ Stop(s)
  \/ \E payment \in Payment : CreatePacket(payment)
  \/ \E c \in Copy, p \in minted : Submit(c, p) \/ SubmitRelabelled(c, p)
  \/ \E c \in Copy, h \in Harm : Alter(c, h)
  \/ \E c \in Copy : CopyStep(c)
  \/ Quiet

\* The orchestrator restarts what stopped, and every node works on.
RolloutFairness ==
  /\ \A s \in Service : WF_rolloutVars(Start(s))
  /\ \A c \in Copy : WF_rolloutVars(CopyStep(c))

RolloutSpec == RolloutInit /\ [][RolloutNext]_rolloutVars /\ RolloutFairness

-----------------------------------------------------------------------------
(* Properties. *)

\* Every variable has its type.
RolloutTypeOK ==
  /\ envFile \in [written : BOOLEAN, keys : 0..MaxGeneration, passwords : 0..MaxGeneration]
  /\ infraFile \in [written : BOOLEAN, passwords : 0..MaxGeneration]
  /\ {script, generation} \subseteq 0..MaxGeneration
  /\ {interrupted, rekeyed} \subseteq BOOLEAN
  /\ process \in [Service -> [up : BOOLEAN, keys : 0..MaxGeneration]]
  /\ stops \in 0..MaxStops
  /\ minted \subseteq Packet
  /\ at \in [Copy -> Place]
  /\ {carried, copyOf} \subseteq [Copy -> Packet \cup {NoPacket}]
  /\ \A c \in Copy : /\ at[c] = "nowhere" <=> carried[c] = NoPacket
                     /\ at[c] = "nowhere" <=> copyOf[c] = NoPacket
  /\ harm \in [Copy -> SUBSET (Harm \cup {"relabelled"})]
  /\ rows \subseteq [key : Region, instruction : Instruction]

\* Every row is a packet the sender made, under the dedupe key the sender told the
\* client, and pays what the client asked for; and no two rows are the same packet:
\* hops, offsets and alterations on the way change none of it (PaymentPacket.verify,
\* open_instruction, derive_idempotency_key).
SettledAsMinted ==
  /\ \A r \in rows : \E p \in minted : /\ r.key = IdempotencyKey(p)
                                       /\ r.instruction = p.envelope.ciphertext.seals
  /\ \A r, q \in rows : r.instruction.packet_id = q.instruction.packet_id => r = q

\* A copy keeps the dedupe key of its packet however many hops it makes and in
\* whatever offset its time is written, and has another key as soon as anything the
\* signature covers is altered (canonical_timestamp, signing_bytes, append_hop).
KeyFollowsSignedRegion ==
  \A c \in Copy :
    carried[c] # NoPacket =>
      (IdempotencyKey(carried[c]) = IdempotencyKey(copyOf[c]))
        <=> (harm[c] \cap SignedField = {})

\* The process that will look at a copy, and whether it runs and will refuse it: a
\* relay or the bridge with a key, settlement with or without any.
Reader(c) == IF at[c] = "queue" THEN "settlement" ELSE at[c]

WouldRefuse(c) ==
  /\ at[c] # "nowhere"
  /\ Up(Reader(c))
  /\ IF at[c] = "queue" THEN Decision(carried[c]) # "SETTLED"
                        ELSE process[at[c]].keys # 0 /\ ~Passes(carried[c], at[c])

\* "Keys will persist across restarts": wherever an unaltered packet is, it is only
\* refused if an operator asked for new keys and the process there has not the keys
\* the packet was made with; no order of restarts alone leads to that, and settlement
\* never runs without keys (bootstrap_env.main, the cached loaders, the settlement
\* lifespan).
RefusedOnlyAcrossKeys ==
  \A c \in Copy :
    Unaltered(c) /\ WouldRefuse(c) =>
      rekeyed /\ process[Reader(c)].keys # copyOf[c].signature.by

\* The passwords in the two files agree, unless the script is between its two writes
\* or was killed there: "credentials match across both files" (bootstrap_env.main).
DriftOnlyInterrupted ==
  script = 0 /\ ~interrupted => infraFile.passwords = envFile.passwords

\* An unaltered packet on the queue is settled in the end, whatever restarts, unless
\* an operator asked for new keys meanwhile (settlement lifespan, restart policy).
QueuedIsPaid ==
  \A id \in 1..MaxMinted :
    (\E c \in Copy : at[c] = "queue" /\ Unaltered(c) /\ copyOf[c].packet_id = id)
      ~> (rekeyed \/ id \in IdOfRow)
=============================================================================
