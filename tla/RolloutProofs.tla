--------------------------- MODULE RolloutProofs ---------------------------
(***************************************************************************)
(* Theorems about KeyRollout, for any number of copies, generations of     *)
(* keys, restarts and alterations.                                         *)
(***************************************************************************)
EXTENDS KeyRollout, FiniteSetTheorems, TLAPS

\* The parts of a packet, so that altering one leaves the others.
Shaped(p) ==
  p = [packet_id  |-> p.packet_id,
       sender_id  |-> p.sender_id,
       created_at |-> [instant |-> p.created_at.instant, offset |-> p.created_at.offset],
       envelope   |-> p.envelope,
       signature  |-> p.signature,
       hops       |-> p.hops]

\* Everything settlement asks of a packet, for the keys the packet names itself.
Sound(p) ==
  /\ Shaped(p)
  /\ Parses(p)
  /\ Verifies(p, p.signature.by)
  /\ p.envelope.aad = expected_aad(p)
  /\ Decrypts(p.envelope, p.signature.by)
  /\ p.envelope.ciphertext.seals.packet_id = p.packet_id
  /\ p.envelope.ciphertext.seals.payment \in ValidPayments

-----------------------------------------------------------------------------
(* Packets. *)

\* The signed region of a packet whose time is written differently.
LEMMA OffsetUnsigned ==
  ASSUME NEW p, Shaped(p), NEW o
  PROVE  LET q == [p EXCEPT !.created_at.offset = o] IN
         /\ Shaped(q)
         /\ q.created_at.offset = o
         /\ q.signature = p.signature
         /\ q.envelope = p.envelope
         /\ q.packet_id = p.packet_id
         /\ q.sender_id = p.sender_id
         /\ SigningBytes(q) = SigningBytes(p)
BY DEF Shaped, SigningBytes, canonical_timestamp

\* The signed region of a packet that has made a hop.
LEMMA HopsUnsigned ==
  ASSUME NEW p, Shaped(p)
  PROVE  LET q == append_hop(p) IN
         /\ Shaped(q)
         /\ q.created_at = p.created_at
         /\ q.signature = p.signature
         /\ q.envelope = p.envelope
         /\ q.packet_id = p.packet_id
         /\ q.sender_id = p.sender_id
         /\ SigningBytes(q) = SigningBytes(p)
BY DEF Shaped, SigningBytes, canonical_timestamp, append_hop

\* Soundness is about the signed region, the signature and a readable time.
LEMMA SoundCarries ==
  ASSUME NEW p, NEW q, Sound(p), Shaped(q), Parses(q),
         q.signature = p.signature, q.envelope = p.envelope,
         q.packet_id = p.packet_id, q.sender_id = p.sender_id,
         SigningBytes(q) = SigningBytes(p)
  PROVE  Sound(q)
BY DEF Sound, Verifies, expected_aad

\* A packet that is serialised anew is sound, with its signature.
LEMMA ReserialisedSound ==
  ASSUME NEW p, Sound(p)
  PROVE  Sound(Reserialised(p)) /\ Reserialised(p).signature = p.signature
<1> DEFINE q == [p EXCEPT !.created_at.offset = "utc"]
<1>1. Shaped(p)
  BY DEF Sound
<1>2. /\ Shaped(q) /\ q.created_at.offset = "utc" /\ q.signature = p.signature
      /\ q.envelope = p.envelope /\ q.packet_id = p.packet_id
      /\ q.sender_id = p.sender_id /\ SigningBytes(q) = SigningBytes(p)
  BY <1>1, OffsetUnsigned
<1>3. Parses(q)
  BY <1>2 DEF Parses
<1>4. Reserialised(p) = q
  BY DEF Reserialised
<1> QED
  BY <1>2, <1>3, <1>4, SoundCarries

\* A packet with one more hop is sound, with its signature.
LEMMA HopSound ==
  ASSUME NEW p, Sound(p)
  PROVE  Sound(append_hop(p)) /\ append_hop(p).signature = p.signature
<1>1. Shaped(p) /\ Parses(p)
  BY DEF Sound
<1>2. LET q == append_hop(p) IN
      /\ Shaped(q) /\ q.created_at = p.created_at /\ q.signature = p.signature
      /\ q.envelope = p.envelope /\ q.packet_id = p.packet_id
      /\ q.sender_id = p.sender_id /\ SigningBytes(q) = SigningBytes(p)
  BY <1>1, HopsUnsigned
<1>3. Parses(append_hop(p))
  BY <1>1, <1>2 DEF Parses
<1> QED
  BY <1>2, <1>3, SoundCarries

\* A packet whose time is written with another offset is sound, with its signature.
LEMMA EncodedSound ==
  ASSUME NEW p, Sound(p)
  PROVE  Sound(Harmed(p, "encoding")) /\ Harmed(p, "encoding").signature = p.signature
<1> DEFINE q == [p EXCEPT !.created_at.offset = "shifted"]
<1>1. Shaped(p)
  BY DEF Sound
<1>2. /\ Shaped(q) /\ q.created_at.offset = "shifted" /\ q.signature = p.signature
      /\ q.envelope = p.envelope /\ q.packet_id = p.packet_id
      /\ q.sender_id = p.sender_id /\ SigningBytes(q) = SigningBytes(p)
  BY <1>1, OffsetUnsigned
<1>3. Parses(q)
  BY <1>2 DEF Parses
<1>4. Harmed(p, "encoding") = q
  BY DEF Harmed
<1> QED
  BY <1>2, <1>3, <1>4, SoundCarries

\* What the sender makes is sound, and names the keys it was made with.
LEMMA CreateSound ==
  ASSUME NEW payment \in ValidPayments, NEW id, NEW k, NEW f
  PROVE  LET p == Create(to_instruction(payment, id, 0), k, k, 0, f) IN
         Sound(p) /\ p.signature.by = k
<1> DEFINE aad == build_aad(id, sender_id_for(k))
           i   == to_instruction(payment, id, 0)
           raw == [packet_id  |-> id,
                   sender_id  |-> sender_id_for(k),
                   created_at |-> [instant |-> 0, offset |-> "utc"],
                   envelope   |-> encrypt_payload(i, k, aad, f),
                   signature  |-> 0,
                   hops       |-> 0]
           p   == Create(i, k, k, 0, f)
<1>1. i.packet_id = id /\ i.payment = payment
  BY DEF to_instruction
<1>2. p = [raw EXCEPT !.signature = sign_bytes(SigningBytes(raw), k)]
  BY <1>1 DEF Create, Signed
<1>3. /\ p.packet_id = id /\ p.sender_id = sender_id_for(k)
      /\ p.created_at = [instant |-> 0, offset |-> "utc"]
      /\ p.envelope = encrypt_payload(i, k, aad, f)
      /\ p.signature = sign_bytes(SigningBytes(raw), k)
      /\ Shaped(p)
  BY <1>2 DEF Shaped
<1>4. SigningBytes(p) = SigningBytes(raw)
  BY <1>3 DEF SigningBytes, canonical_timestamp
<1>5. p.signature.by = k /\ Verifies(p, k)
  BY <1>3, <1>4 DEF Verifies, sign_bytes
<1>6. Parses(p)
  BY <1>3 DEF Parses
<1>7. p.envelope.aad = expected_aad(p) /\ Decrypts(p.envelope, k)
  BY <1>3 DEF expected_aad, encrypt_payload, Decrypts
<1>8. p.envelope.ciphertext.seals = i
  BY <1>3 DEF encrypt_payload
<1> QED
  BY <1>1, <1>3, <1>5, <1>6, <1>7, <1>8 DEF Sound

\* No node refuses a sound packet if it has the keys the packet was made with.
LEMMA SoundAccepted ==
  ASSUME NEW p, Sound(p)
  PROVE  /\ Parses(p) /\ Verifies(p, p.signature.by)
         /\ Verdict(p, p.signature.by, p.signature.by) = "SETTLED"
<1>1. OpenInstruction(p, p.signature.by) = "instruction"
  BY DEF Sound, OpenInstruction
<1> QED
  BY <1>1 DEF Sound, Verdict

-----------------------------------------------------------------------------
(* The files. *)

\* The types the files' proof needs, and what a run of the script has written so far.
FilesOK ==
  /\ generation \in Nat
  /\ script \in Nat
  /\ interrupted \in BOOLEAN
  /\ rekeyed \in BOOLEAN
  /\ envFile \in [written : BOOLEAN, keys : Nat, passwords : Nat]
  /\ infraFile \in [written : BOOLEAN, passwords : Nat]
  /\ script # 0 => envFile.passwords = script

FilesInv == FilesOK /\ DriftOnlyInterrupted

\* Before the script has run there are no files.
LEMMA FilesInit ==
  ASSUME RolloutInit
  PROVE  FilesInv
<1>1. /\ generation = 0 /\ script = 0
      /\ envFile = [written |-> FALSE, keys |-> 0, passwords |-> 0]
      /\ infraFile = [written |-> FALSE, passwords |-> 0]
  BY DEF RolloutInit
<1>2. interrupted \in BOOLEAN /\ rekeyed \in BOOLEAN
  BY Zenon DEF RolloutInit
<1>3. /\ envFile \in [written : BOOLEAN, keys : Nat, passwords : Nat]
      /\ infraFile \in [written : BOOLEAN, passwords : Nat]
      /\ infraFile.passwords = envFile.passwords
  BY <1>1
<1>4. generation \in Nat /\ script \in Nat
  BY <1>1
<1> QED
  BY <1>1, <1>2, <1>3, <1>4, Zenon DEF FilesInv, FilesOK, DriftOnlyInterrupted

\* Only the operator's steps touch the files.
LEMMA FileSteps ==
  ASSUME RolloutNext
  PROVE  \/ \E force \in BOOLEAN : Bootstrap(force)
         \/ BootstrapInfra
         \/ BootstrapKilled
         \/ PasteKeys
         \/ UNCHANGED fileVars
BY DEF RolloutNext, Start, Stop, CreatePacket, Submit, SubmitRelabelled, Enter, Alter,
       CopyStep, Refuses, Relay, Bridge, Settle, Quiet, rolloutVars

\* The first write: the second is due, with the same passwords.
LEMMA WriteEnvKeeps ==
  ASSUME FilesInv, WriteEnv, rekeyed' \in BOOLEAN
  PROVE  FilesInv'
<1>1. generation + 1 \in Nat /\ generation + 1 # 0
  BY DEF FilesInv, FilesOK
<1> QED
  BY <1>1 DEF FilesInv, FilesOK, DriftOnlyInterrupted, WriteEnv, Generate

\* No step makes the files drift apart.
LEMMA FilesStep ==
  ASSUME FilesInv, [RolloutNext]_rolloutVars
  PROVE  FilesInv'
<1>1. ASSUME NEW force \in BOOLEAN, Bootstrap(force)
      PROVE  FilesInv'
  <2>1. rekeyed' \in BOOLEAN /\ WriteEnv
    BY <1>1 DEF Bootstrap, FilesInv, FilesOK
  <2> QED
    BY <2>1, WriteEnvKeeps
<1>2. CASE BootstrapInfra
  BY <1>2 DEF FilesInv, FilesOK, DriftOnlyInterrupted, BootstrapInfra
<1>3. CASE BootstrapKilled
  BY <1>3 DEF FilesInv, FilesOK, DriftOnlyInterrupted, BootstrapKilled
<1>4. CASE PasteKeys
  BY <1>4 DEF FilesInv, FilesOK, DriftOnlyInterrupted, PasteKeys, Generate
<1>5. CASE UNCHANGED fileVars
  BY <1>5 DEF FilesInv, FilesOK, DriftOnlyInterrupted, fileVars
<1>6. CASE UNCHANGED rolloutVars
  BY <1>5, <1>6 DEF rolloutVars
<1> QED
  BY <1>1, <1>2, <1>3, <1>4, <1>5, <1>6, FileSteps

\* .env and .env.infra have the same passwords whenever no run of the script is, or was
\* killed, between its two writes: however often the files are regenerated or keys
\* pasted, in every behaviour (bootstrap_env.main).
THEOREM FilesAgree == RolloutSpec => []DriftOnlyInterrupted
<1>1. RolloutInit => FilesInv
  BY FilesInit
<1>2. FilesInv /\ [RolloutNext]_rolloutVars => FilesInv'
  BY FilesStep
<1>3. FilesInv => DriftOnlyInterrupted
  BY DEF FilesInv
<1> QED
  BY <1>1, <1>2, <1>3, PTL DEF RolloutSpec

-----------------------------------------------------------------------------
(* The keys. *)

\* What is signed names a key that was made, and while no operator asked for new keys
\* only one generation was.
KeysOK ==
  /\ process \in [Service -> [up : BOOLEAN, keys : Nat]]
  /\ envFile.keys <= generation
  /\ ~envFile.written => generation = 0
  /\ ~rekeyed => generation <= 1
  /\ \A s \in Service : process[s].keys <= generation
  /\ \A p \in minted : Sound(p) /\ p.signature.by \in 1..generation

\* A copy that was not altered is as sound as its packet and has its signature.
CopiesOK ==
  /\ at \in [Copy -> Place]
  /\ carried = [c \in Copy |-> carried[c]]
  /\ copyOf = [c \in Copy |-> copyOf[c]]
  /\ harm = [c \in Copy |-> harm[c]]
  /\ \A c \in Copy :
       at[c] # "nowhere" /\ Unaltered(c) =>
         /\ Sound(carried[c])
         /\ copyOf[c] \in minted
         /\ carried[c].signature = copyOf[c].signature

RolloutInv == FilesInv /\ KeysOK /\ CopiesOK

\* Steps that make keys.
LEMMA GenerateKeeps ==
  ASSUME FilesInv, KeysOK, Generate, UNCHANGED <<process, minted>>,
         envFile'.keys <= generation', envFile'.written,
         rekeyed' \/ generation = 0
  PROVE  KeysOK'
<1>1. generation \in Nat /\ generation' = generation + 1
  BY DEF FilesInv, FilesOK, Generate
<1>2. \A s \in Service : process[s].keys \in Nat
  BY DEF KeysOK
<1>3. \A s \in Service : process'[s].keys <= generation'
  BY <1>1, <1>2 DEF KeysOK
<1>4. \A p \in minted' : Sound(p) /\ p.signature.by \in 1..generation'
  BY <1>1 DEF KeysOK
<1>5. ~rekeyed' => generation' <= 1
  BY <1>1
<1> QED
  BY <1>3, <1>4, <1>5 DEF KeysOK

\* Every step keeps the keys in order.
LEMMA KeysStep ==
  ASSUME FilesInv, KeysOK, [RolloutNext]_rolloutVars
  PROVE  KeysOK'
<1>1. ASSUME NEW force \in BOOLEAN, Bootstrap(force)
      PROVE  KeysOK'
  <2>1. Generate /\ UNCHANGED <<process, minted>>
    BY <1>1 DEF Bootstrap, WriteEnv, processVars
  <2>2. envFile'.keys = generation' /\ envFile'.written
    BY <1>1 DEF Bootstrap, WriteEnv
  <2>3. generation' \in Nat
    BY <2>1 DEF FilesInv, FilesOK, Generate
  <2>4. rekeyed' \/ generation = 0
    BY <1>1 DEF Bootstrap, KeysOK
  <2> QED
    BY <2>1, <2>2, <2>3, <2>4, GenerateKeeps
<1>2. CASE PasteKeys
  <2>1. Generate /\ UNCHANGED <<process, minted>> /\ rekeyed'
    BY <1>2 DEF PasteKeys, processVars
  <2>2. envFile'.keys = generation' /\ envFile'.written
    BY <1>2 DEF PasteKeys, FilesInv, FilesOK
  <2>3. generation' \in Nat
    BY <2>1 DEF FilesInv, FilesOK, Generate
  <2> QED
    BY <2>1, <2>2, <2>3, GenerateKeeps
<1>3. ASSUME NEW s \in Service, Start(s)
      PROVE  KeysOK'
  <2>1. PICK keys \in {envFile.keys, process[s].keys} :
          process' = [process EXCEPT ![s] = [up |-> TRUE, keys |-> keys]]
    BY <1>3 DEF Start
  <2>2. keys \in Nat /\ keys <= generation
    BY <2>1 DEF FilesInv, FilesOK, KeysOK
  <2>3. process' \in [Service -> [up : BOOLEAN, keys : Nat]]
    BY <2>1, <2>2 DEF KeysOK
  <2>4. \A t \in Service : process'[t].keys <= generation
    BY <2>1, <2>2 DEF KeysOK
  <2> QED
    BY <1>3, <2>3, <2>4 DEF Start, fileVars, KeysOK
<1>4. ASSUME NEW s \in Service, Stop(s)
      PROVE  KeysOK'
  <2>1. process' = [process EXCEPT ![s].up = FALSE]
    BY <1>4 DEF Stop
  <2>2. process' \in [Service -> [up : BOOLEAN, keys : Nat]]
    BY <2>1 DEF KeysOK
  <2>3. \A t \in Service : process'[t].keys = process[t].keys
    BY <2>1 DEF KeysOK
  <2> QED
    BY <1>4, <2>2, <2>3 DEF Stop, fileVars, KeysOK
<1>5. ASSUME NEW payment \in Payment, CreatePacket(payment)
      PROVE  KeysOK'
  <2> DEFINE keys == process["sender"].keys
             p    == Create(to_instruction(payment, NextId, 0), keys, keys, 0, NextId)
  <2>1. /\ payment \in ValidPayments /\ keys # 0
        /\ minted' = minted \cup {p}
        /\ UNCHANGED <<fileVars, process>>
    BY <1>5 DEF CreatePacket, processVars
  <2>2. Sound(p) /\ p.signature.by = keys
    BY <2>1, CreateSound
  <2>3. "sender" \in Service
    BY DEF Service
  <2>4. keys \in Nat /\ keys <= generation
    BY <2>3 DEF KeysOK
  <2>5. generation \in Nat
    BY DEF FilesInv, FilesOK
  <2>6. p.signature.by \in 1..generation
    BY <2>1, <2>2, <2>4, <2>5
  <2>7. \A q \in minted' : Sound(q) /\ q.signature.by \in 1..generation
    BY <2>1, <2>2, <2>6 DEF KeysOK
  <2> QED
    BY <2>1, <2>7 DEF fileVars, KeysOK
<1>6. CASE UNCHANGED <<generation, envFile, rekeyed, process, minted>>
  BY <1>6 DEF KeysOK
<1>7. CASE BootstrapInfra \/ BootstrapKilled
  BY <1>6, <1>7 DEF BootstrapInfra, BootstrapKilled, processVars
<1>8. ASSUME NEW c \in Copy, NEW p \in minted, Submit(c, p) \/ SubmitRelabelled(c, p)
      PROVE  KeysOK'
  BY <1>6, <1>8 DEF Submit, SubmitRelabelled, Enter, fileVars, processVars
<1>9. ASSUME NEW c \in Copy, NEW h \in Harm, Alter(c, h)
      PROVE  KeysOK'
  BY <1>6, <1>9 DEF Alter, fileVars, processVars
<1>10. ASSUME NEW c \in Copy, CopyStep(c)
       PROVE  KeysOK'
  BY <1>6, <1>10 DEF CopyStep, Refuses, Relay, Bridge, Settle, fileVars, processVars
<1>11. CASE UNCHANGED rolloutVars
  BY <1>6, <1>11 DEF rolloutVars, fileVars, processVars
<1> QED
  BY <1>1, <1>2, <1>3, <1>4, <1>5, <1>7, <1>8, <1>9, <1>10, <1>11
     DEF RolloutNext, Quiet

-----------------------------------------------------------------------------
(* The copies. *)

\* Copies that are gone leave the others as they are.
LEMMA GoneKeeps ==
  ASSUME CopiesOK, NEW cs, Gone(cs), UNCHANGED minted
  PROVE  CopiesOK'
<1>1. at' \in [Copy -> Place]
  BY DEF CopiesOK, Gone, Place
<1>2. /\ carried' = [c \in Copy |-> carried'[c]]
      /\ copyOf' = [c \in Copy |-> copyOf'[c]]
      /\ harm' = [c \in Copy |-> harm'[c]]
  BY DEF Gone
<1>3. ASSUME NEW c \in Copy, at'[c] # "nowhere"
      PROVE  /\ at'[c] = at[c] /\ carried'[c] = carried[c]
             /\ copyOf'[c] = copyOf[c] /\ harm'[c] = harm[c]
  BY <1>3 DEF Gone
<1> QED
  BY <1>1, <1>2, <1>3 DEF CopiesOK, Unaltered

\* A copy that goes on as soundly as it came.
LEMMA MovesKeeps ==
  ASSUME CopiesOK, NEW c \in Copy, at[c] # "nowhere", NEW place \in Place, NEW p,
         Sound(carried[c]) => Sound(p) /\ p.signature = carried[c].signature,
         Moves(c, place, p), UNCHANGED minted
  PROVE  CopiesOK'
<1>1. at' \in [Copy -> Place]
  BY DEF CopiesOK, Moves
<1>2. /\ carried' = [d \in Copy |-> carried'[d]]
      /\ carried'[c] = p
      /\ \A d \in Copy \ {c} : carried'[d] = carried[d] /\ at'[d] = at[d]
  BY DEF CopiesOK, Moves
<1>3. copyOf' = copyOf /\ harm' = harm
  BY DEF Moves
<1> QED
  BY <1>1, <1>2, <1>3 DEF CopiesOK, Unaltered

\* A body that is posted: a minted packet, or one that counts as altered.
LEMMA EnterKeeps ==
  ASSUME KeysOK, CopiesOK, NEW c \in Copy, NEW p, NEW h,
         h \subseteq {"encoding"} => p \in minted,
         Enter(c, p, h)
  PROVE  CopiesOK'
<1>1. at' \in [Copy -> Place]
  BY DEF CopiesOK, Enter, Place
<1>2. /\ carried' = [d \in Copy |-> carried'[d]]
      /\ copyOf' = [d \in Copy |-> copyOf'[d]]
      /\ harm' = [d \in Copy |-> harm'[d]]
  BY DEF CopiesOK, Enter
<1>3. carried'[c] = p /\ copyOf'[c] = p /\ harm'[c] = h /\ minted' = minted
  BY DEF CopiesOK, Enter
<1>4. \A d \in Copy \ {c} : /\ carried'[d] = carried[d] /\ copyOf'[d] = copyOf[d]
                            /\ harm'[d] = harm[d] /\ at'[d] = at[d]
  BY DEF CopiesOK, Enter
<1>5. \A q \in minted : Sound(q)
  BY DEF KeysOK
<1> QED
  BY <1>1, <1>2, <1>3, <1>4, <1>5 DEF CopiesOK, Unaltered

\* An alteration: only another offset leaves a copy unaltered.
LEMMA AlterKeeps ==
  ASSUME CopiesOK, NEW c \in Copy, NEW h, Alter(c, h)
  PROVE  CopiesOK'
<1>1. at' = at /\ copyOf' = copyOf /\ minted' = minted /\ at[c] # "nowhere"
  BY DEF Alter
<1>2. /\ carried' = [d \in Copy |-> carried'[d]]
      /\ harm' = [d \in Copy |-> harm'[d]]
  BY DEF CopiesOK, Alter
<1>3. /\ carried'[c] = Harmed(carried[c], h) /\ harm'[c] = harm[c] \cup {h}
      /\ \A d \in Copy \ {c} : carried'[d] = carried[d] /\ harm'[d] = harm[d]
  BY DEF CopiesOK, Alter
<1>4. ASSUME harm'[c] \subseteq {"encoding"}
      PROVE  h = "encoding" /\ harm[c] \subseteq {"encoding"}
  BY <1>3, <1>4
<1>5. Sound(carried[c]) =>
        /\ Sound(Harmed(carried[c], "encoding"))
        /\ Harmed(carried[c], "encoding").signature = carried[c].signature
  BY EncodedSound
<1> QED
  BY <1>1, <1>2, <1>3, <1>4, <1>5 DEF CopiesOK, Unaltered

\* Every step keeps the copies in order.
LEMMA CopiesStep ==
  ASSUME KeysOK, CopiesOK, [RolloutNext]_rolloutVars
  PROVE  CopiesOK'
<1>1. ASSUME UNCHANGED copyVars, minted \subseteq minted'
      PROVE  CopiesOK'
  BY <1>1 DEF copyVars, CopiesOK, Unaltered
<1>2. ASSUME NEW force \in BOOLEAN, Bootstrap(force)
      PROVE  CopiesOK'
  BY <1>1, <1>2 DEF Bootstrap, WriteEnv
<1>3. CASE BootstrapInfra \/ BootstrapKilled \/ PasteKeys
  BY <1>1, <1>3 DEF BootstrapInfra, BootstrapKilled, PasteKeys
<1>4. ASSUME NEW s \in Service, Start(s)
      PROVE  CopiesOK'
  BY <1>1, <1>4 DEF Start
<1>5. ASSUME NEW s \in Service, Stop(s)
      PROVE  CopiesOK'
  <2>1. Gone({c \in Copy : at[c] = s}) /\ UNCHANGED minted
    BY <1>5 DEF Stop
  <2> QED
    BY <2>1, GoneKeeps
<1>6. ASSUME NEW payment \in Payment, CreatePacket(payment)
      PROVE  CopiesOK'
  BY <1>1, <1>6 DEF CreatePacket
<1>7. ASSUME NEW c \in Copy, NEW p \in minted, Submit(c, p)
      PROVE  CopiesOK'
  BY <1>7, EnterKeeps DEF Submit
<1>8. ASSUME NEW c \in Copy, NEW p \in minted, SubmitRelabelled(c, p)
      PROVE  CopiesOK'
  <2>1. ~({"relabelled"} \subseteq {"encoding"})
    OBVIOUS
  <2> QED
    BY <1>8, <2>1, EnterKeeps DEF SubmitRelabelled
<1>9. ASSUME NEW c \in Copy, NEW h \in Harm, Alter(c, h)
      PROVE  CopiesOK'
  BY <1>9, AlterKeeps
<1>10. ASSUME NEW c \in Copy, NEW s, Refuses(c, s)
       PROVE  CopiesOK'
  BY <1>10, GoneKeeps DEF Refuses
<1>11. ASSUME NEW c \in Copy, NEW next \in {"relay", "bridge"}, Relay(c, next)
       PROVE  CopiesOK'
  <2> DEFINE p == Reserialised(append_hop(carried[c]))
  <2>1. at[c] # "nowhere" /\ SendTo(c, next, p) /\ UNCHANGED minted
    BY <1>11 DEF Relay
  <2>2. Sound(carried[c]) => Sound(p) /\ p.signature = carried[c].signature
    BY HopSound, ReserialisedSound
  <2>3. next \in Place
    BY DEF Place
  <2>4. CASE Moves(c, next, p)
    BY <2>1, <2>2, <2>3, <2>4, MovesKeeps
  <2>5. CASE Gone({c})
    BY <2>1, <2>5, GoneKeeps
  <2> QED
    BY <2>1, <2>4, <2>5 DEF SendTo
<1>12. ASSUME NEW c \in Copy, Bridge(c)
       PROVE  CopiesOK'
  <2> DEFINE p == Reserialised(carried[c])
  <2>1. at[c] # "nowhere" /\ Moves(c, "queue", p) /\ UNCHANGED minted
    BY <1>12 DEF Bridge
  <2>2. Sound(carried[c]) => Sound(p) /\ p.signature = carried[c].signature
    BY ReserialisedSound
  <2>3. "queue" \in Place
    BY DEF Place
  <2> QED
    BY <2>1, <2>2, <2>3, MovesKeeps
<1>13. ASSUME NEW c \in Copy, Settle(c)
       PROVE  CopiesOK'
  BY <1>13, GoneKeeps DEF Settle
<1>14. ASSUME NEW c \in Copy, CopyStep(c)
       PROVE  CopiesOK'
  BY <1>10, <1>11, <1>12, <1>13, <1>14 DEF CopyStep
<1>15. CASE UNCHANGED rolloutVars
  BY <1>1, <1>15 DEF rolloutVars
<1> QED
  BY <1>2, <1>3, <1>4, <1>5, <1>6, <1>7, <1>8, <1>9, <1>14, <1>15
     DEF RolloutNext, Quiet

-----------------------------------------------------------------------------
(* Who refuses a packet. *)

\* At first there are no keys, packets or copies.
LEMMA RolloutInvInit ==
  ASSUME RolloutInit
  PROVE  RolloutInv
<1>1. /\ envFile = [written |-> FALSE, keys |-> 0, passwords |-> 0] /\ generation = 0
      /\ process = [s \in Service |-> [up |-> FALSE, keys |-> 0]] /\ minted = {}
  BY DEF RolloutInit
<1>2. KeysOK
  BY <1>1 DEF KeysOK
<1>3. CopiesOK
  BY DEF RolloutInit, CopiesOK, Place
<1> QED
  BY <1>2, <1>3, FilesInit DEF RolloutInv

\* Every step keeps files, keys and copies in order.
LEMMA RolloutInvStep ==
  ASSUME RolloutInv, [RolloutNext]_rolloutVars
  PROVE  RolloutInv'
BY FilesStep, KeysStep, CopiesStep DEF RolloutInv

\* Settlement only runs with keys, and no packet has the id relabelled ones get.
Guards ==
  /\ Up("settlement") => process["settlement"].keys # 0
  /\ \A p \in minted : p.packet_id # MaxMinted + 1

\* Start is the only step that brings settlement up, CreatePacket the only one that mints.
LEMMA GuardsStep ==
  ASSUME RolloutInv, Guards, [RolloutNext]_rolloutVars
  PROVE  Guards'
<1>1. CASE UNCHANGED <<process, minted>>
  BY <1>1 DEF Guards, Up
<1>2. ASSUME NEW s \in Service, Start(s)
      PROVE  Guards'
  <2>1. PICK keys : /\ s = "settlement" => keys # 0
                    /\ process' = [process EXCEPT ![s] = [up |-> TRUE, keys |-> keys]]
    BY <1>2 DEF Start
  <2>2. process \in [Service -> [up : BOOLEAN, keys : Nat]] /\ "settlement" \in Service
    BY DEF RolloutInv, KeysOK, Service
  <2>3. process'["settlement"].up => process'["settlement"].keys # 0
    BY <2>1, <2>2 DEF Guards, Up
  <2> QED
    BY <1>2, <2>3 DEF Start, Guards, Up
<1>3. ASSUME NEW s \in Service, Stop(s)
      PROVE  Guards'
  <2>1. process' = [process EXCEPT ![s].up = FALSE]
    BY <1>3 DEF Stop
  <2>2. process \in [Service -> [up : BOOLEAN, keys : Nat]] /\ "settlement" \in Service
    BY DEF RolloutInv, KeysOK, Service
  <2>3. process'["settlement"].up => process'["settlement"].keys # 0
    BY <2>1, <2>2 DEF Guards, Up
  <2> QED
    BY <1>3, <2>3 DEF Stop, Guards, Up
<1>4. ASSUME NEW payment \in Payment, CreatePacket(payment)
      PROVE  Guards'
  <2> DEFINE keys == process["sender"].keys
             q    == Create(to_instruction(payment, NextId, 0), keys, keys, 0, NextId)
  <2>1. /\ NextId <= MaxMinted /\ payment \in ValidPayments
        /\ minted' = minted \cup {q} /\ process' = process
    BY <1>4 DEF CreatePacket, processVars
  <2>2. NextId # MaxMinted + 1
    BY <2>1, RolloutAssumption
  <2>3. q.packet_id = NextId
    BY DEF Create, to_instruction, Signed
  <2> QED
    BY <2>1, <2>2, <2>3 DEF Guards, Up
<1>5. CASE \/ \E force \in BOOLEAN : Bootstrap(force)
           \/ BootstrapInfra \/ BootstrapKilled \/ PasteKeys
  BY <1>1, <1>5 DEF Bootstrap, WriteEnv, BootstrapInfra, BootstrapKilled, PasteKeys,
                    processVars
<1>6. ASSUME NEW c \in Copy, NEW p \in minted, Submit(c, p) \/ SubmitRelabelled(c, p)
      PROVE  Guards'
  BY <1>1, <1>6 DEF Submit, SubmitRelabelled, Enter, processVars
<1>7. ASSUME NEW c \in Copy, NEW h \in Harm, Alter(c, h)
      PROVE  Guards'
  BY <1>1, <1>7 DEF Alter, processVars
<1>8. ASSUME NEW c \in Copy, CopyStep(c)
      PROVE  Guards'
  BY <1>1, <1>8 DEF CopyStep, Refuses, Relay, Bridge, Settle, processVars
<1>9. CASE UNCHANGED rolloutVars
  BY <1>1, <1>9 DEF rolloutVars, processVars
<1> QED
  BY <1>2, <1>3, <1>4, <1>5, <1>6, <1>7, <1>8, <1>9 DEF RolloutNext, Quiet

\* A process that is about to refuse an unaltered copy has other keys than its packet.
LEMMA RefusedByOtherKeys ==
  ASSUME RolloutInv, Guards, NEW c \in Copy, Unaltered(c), WouldRefuse(c)
  PROVE  rekeyed /\ process[Reader(c)].keys # copyOf[c].signature.by
<1> DEFINE keys == process[Reader(c)].keys
           made == copyOf[c].signature.by
<1>1. at[c] # "nowhere" /\ at[c] \in Place
  BY DEF WouldRefuse, RolloutInv, CopiesOK
<1>2. /\ Sound(carried[c]) /\ copyOf[c] \in minted
      /\ carried[c].signature.by = made
  BY <1>1 DEF RolloutInv, CopiesOK
<1>3. keys # 0 /\ Reader(c) \in Service
  BY <1>1 DEF WouldRefuse, Reader, Place, Service, Guards
<1>4. ASSUME keys = made
      PROVE  FALSE
  <2>1. /\ Parses(carried[c]) /\ Verifies(carried[c], keys)
        /\ Verdict(carried[c], keys, keys) = "SETTLED"
    BY <1>2, <1>4, SoundAccepted
  <2>2. CASE at[c] = "queue"
    BY <2>1, <2>2 DEF WouldRefuse, Reader, Decision
  <2>3. CASE at[c] # "queue"
    BY <1>3, <2>1, <2>3 DEF WouldRefuse, Reader, Passes
  <2> QED
    BY <2>2, <2>3
<1>5. ASSUME ~rekeyed
      PROVE  FALSE
  <2>1. generation \in Nat /\ generation <= 1
    BY <1>5 DEF RolloutInv, FilesInv, FilesOK, KeysOK
  <2>2. keys \in Nat /\ keys <= generation
    BY <1>3 DEF RolloutInv, KeysOK
  <2>3. made \in 1..generation
    BY <1>2 DEF RolloutInv, KeysOK
  <2>4. keys = made
    BY <1>3, <2>1, <2>2, <2>3
  <2> QED
    BY <1>4, <2>4
<1> QED
  BY <1>4, <1>5

\* Wherever an unaltered packet is, whatever restarted, was killed or resubmitted, the
\* process there refuses it only if an operator asked for new keys and the process has
\* not the packet's (bootstrap_env.main, the cached loaders, verify, open_instruction).
THEOREM OnlyNewKeysRefuse == RolloutSpec => []RefusedOnlyAcrossKeys
<1>1. RolloutInit => RolloutInv /\ Guards
  <2>1. RolloutInit => Guards
    BY DEF RolloutInit, Guards, Up, Service
  <2> QED
    BY <2>1, RolloutInvInit
<1>2. RolloutInv /\ Guards /\ [RolloutNext]_rolloutVars => (RolloutInv /\ Guards)'
  BY RolloutInvStep, GuardsStep
<1>3. RolloutInv /\ Guards => RefusedOnlyAcrossKeys
  BY RefusedByOtherKeys DEF RefusedOnlyAcrossKeys
<1> QED
  BY <1>1, <1>2, <1>3, PTL DEF RolloutSpec

-----------------------------------------------------------------------------
(* What settles. *)

\* A packet that has all its parts, its signature's included.
Formed(p) ==
  /\ Shaped(p)
  /\ p.signature = [by |-> p.signature.by, over |-> p.signature.over]

\* A signature that is over the packet's own region.
SelfSigned(p) == p.signature = sign_bytes(SigningBytes(p), p.signature.by)

\* A packet whose envelope, or the instruction inside it, belongs under another header.
Mismatched(p) ==
  \/ p.envelope.aad # expected_aad(p)
  \/ p.envelope.ciphertext.seals.packet_id # p.packet_id

\* A body on its way has the signature of what was posted, or nobody's; what was posted
\* is a minted packet, or a mismatched one.
Signatures ==
  \A c \in Copy : at[c] # "nowhere" =>
    /\ Formed(carried[c])
    /\ carried[c].signature.by = 0 \/ carried[c].signature = copyOf[c].signature
    /\ SelfSigned(copyOf[c])
    /\ copyOf[c] \in minted \/ Mismatched(copyOf[c])

\* Only settlement adds a row, and only one for a new key and id.
RowsInv == RolloutInv /\ Guards /\ Signatures /\ SettledAsMinted

\* A sound packet is formed and signed by itself.
LEMMA SoundFormed ==
  ASSUME NEW p, Sound(p)
  PROVE  Formed(p) /\ SelfSigned(p)
<1>1. Shaped(p) /\ p.signature = sign_bytes(SigningBytes(p), p.signature.by)
  BY DEF Sound, Verifies
<1>2. p.signature.over = SigningBytes(p)
  BY <1>1 DEF sign_bytes
<1> QED
  BY <1>1, <1>2 DEF Formed, SelfSigned, sign_bytes

\* An alteration keeps the signature, or makes it nobody's.
LEMMA HarmedFormed ==
  ASSUME NEW p, Formed(p), NEW h \in Harm
  PROVE  LET q == Harmed(p, h) IN
         Formed(q) /\ (q.signature = p.signature \/ q.signature.by = 0)
<1> USE DEF Formed, Shaped
<1>1. CASE h = "packet_id"
  <2>1. Harmed(p, h) = [p EXCEPT !.packet_id = 0]
    BY <1>1 DEF Harmed
  <2> QED
    BY <2>1
<1>2. CASE h = "sender_id"
  <2>1. Harmed(p, h) = [p EXCEPT !.sender_id = 0]
    BY <1>2 DEF Harmed
  <2> QED
    BY <2>1
<1>3. CASE h = "created_at"
  <2>1. Harmed(p, h) = [p EXCEPT !.created_at.instant = @ + 1]
    BY <1>3 DEF Harmed
  <2> QED
    BY <2>1
<1>4. CASE h = "encrypted_key"
  <2>1. Harmed(p, h) = [p EXCEPT !.envelope.encrypted_key.wraps = 0]
    BY <1>4 DEF Harmed
  <2> QED
    BY <2>1
<1>5. CASE h = "nonce"
  <2>1. Harmed(p, h) = [p EXCEPT !.envelope.nonce = 0]
    BY <1>5 DEF Harmed
  <2> QED
    BY <2>1
<1>6. CASE h = "ciphertext"
  <2>1. Harmed(p, h) = [p EXCEPT !.envelope.ciphertext.under = 0]
    BY <1>6 DEF Harmed
  <2> QED
    BY <2>1
<1>7. CASE h = "aad"
  <2>1. Harmed(p, h) = [p EXCEPT !.envelope.aad.packet_id = 0]
    BY <1>7 DEF Harmed
  <2> QED
    BY <2>1
<1>8. CASE h = "signature"
  <2>1. Harmed(p, h) = [p EXCEPT !.signature.by = 0]
    BY <1>8 DEF Harmed
  <2> QED
    BY <2>1
<1>9. CASE h = "timezone"
  <2>1. Harmed(p, h) = [p EXCEPT !.created_at.offset = "naive"]
    BY <1>9 DEF Harmed
  <2> QED
    BY <2>1
<1>10. CASE h = "encoding"
  <2>1. Harmed(p, h) = [p EXCEPT !.created_at.offset = "shifted"]
    BY <1>10 DEF Harmed
  <2> QED
    BY <2>1
<1> QED
  BY <1>1, <1>2, <1>3, <1>4, <1>5, <1>6, <1>7, <1>8, <1>9, <1>10
     DEF Harm, SignedField

\* A hop and a new serialisation keep the signature.
LEMMA SentFormed ==
  ASSUME NEW p, Formed(p)
  PROVE  /\ Formed(append_hop(p)) /\ append_hop(p).signature = p.signature
         /\ Formed(Reserialised(p)) /\ Reserialised(p).signature = p.signature
BY DEF Formed, Shaped, append_hop, Reserialised

\* A packet that is given another id and signed anew keeps the rest.
LEMMA RelabelledParts ==
  ASSUME NEW p, Shaped(p), NEW id, NEW k
  PROVE  LET q == Relabelled(p, id, k) IN
         /\ Formed(q) /\ SelfSigned(q)
         /\ q.packet_id = id /\ q.sender_id = p.sender_id /\ q.envelope = p.envelope
<1> DEFINE r == [p EXCEPT !.packet_id = id]
           q == Relabelled(p, id, k)
<1>1. /\ Shaped(r) /\ r.packet_id = id /\ r.envelope = p.envelope
      /\ r.sender_id = p.sender_id
  BY DEF Shaped
<1>2. q = [r EXCEPT !.signature = sign_bytes(SigningBytes(r), k)]
  BY DEF Relabelled, Signed
<1> HIDE DEF r, q
<1>3. /\ Shaped(q) /\ q.packet_id = id /\ q.envelope = r.envelope
      /\ q.sender_id = r.sender_id /\ q.created_at = r.created_at
      /\ q.signature = sign_bytes(SigningBytes(r), k)
  BY <1>1, <1>2 DEF Shaped
<1>4. SigningBytes(q) = SigningBytes(r)
  BY <1>1, <1>3 DEF SigningBytes
<1>5. Formed(q) /\ SelfSigned(q)
  BY <1>3, <1>4 DEF Formed, SelfSigned, sign_bytes
<1> QED
  BY <1>1, <1>3, <1>5 DEF q

\* A relabelled packet's AAD names another id.
LEMMA RelabelledMismatched ==
  ASSUME NEW p, Sound(p), NEW id, p.packet_id # id, NEW k
  PROVE  LET q == Relabelled(p, id, k) IN Formed(q) /\ SelfSigned(q) /\ Mismatched(q)
<1>1. Shaped(p) /\ p.envelope.aad.packet_id = p.packet_id
  BY DEF Sound, expected_aad, build_aad
<1> QED
  BY <1>1, RelabelledParts DEF Mismatched, expected_aad, build_aad

\* A resealed packet's AAD is in order, but the instruction inside names another id.
LEMMA ResealedMismatched ==
  ASSUME NEW p, Sound(p), NEW id, p.packet_id # id, NEW k
  PROVE  LET q == Resealed(p, id, k) IN Formed(q) /\ SelfSigned(q) /\ Mismatched(q)
<1> DEFINE seals == p.envelope.ciphertext.seals
           e     == encrypt_payload(seals, p.envelope.encrypted_key.for,
                                    build_aad(id, p.sender_id), id)
           r     == [p EXCEPT !.envelope = e]
           q     == Resealed(p, id, k)
<1>1. Shaped(p) /\ seals.packet_id = p.packet_id
  BY DEF Sound
<1>2. e.ciphertext.seals = seals
  BY DEF encrypt_payload
<1> HIDE DEF e
<1>3. Shaped(r) /\ r.envelope = e
  BY <1>1 DEF Shaped
<1>4. q = Relabelled(r, id, k)
  BY DEF Resealed, e
<1> HIDE DEF r, q
<1>5. Formed(q) /\ SelfSigned(q) /\ q.packet_id = id /\ q.envelope = e
  BY <1>3, <1>4, RelabelledParts
<1>6. Mismatched(q)
  BY <1>1, <1>2, <1>5 DEF Mismatched
<1> QED
  BY <1>5, <1>6 DEF q

\* Copies that are gone have no signature to speak of.
LEMMA GoneSigned ==
  ASSUME Signatures, NEW cs, Gone(cs), UNCHANGED minted
  PROVE  Signatures'
<1>1. ASSUME NEW c \in Copy, at'[c] # "nowhere"
      PROVE  at'[c] = at[c] /\ carried'[c] = carried[c] /\ copyOf'[c] = copyOf[c]
  BY <1>1 DEF Gone
<1> QED
  BY <1>1 DEF Signatures

\* A body that goes on, or is altered, keeps its signature or has nobody's.
LEMMA BodySigned ==
  ASSUME CopiesOK, Signatures, NEW c \in Copy, NEW p,
         at[c] # "nowhere",
         Formed(carried[c]) => /\ Formed(p)
                               /\ p.signature = carried[c].signature \/ p.signature.by = 0,
         carried' = [carried EXCEPT ![c] = p],
         \A d \in Copy \ {c} : at'[d] = at[d],
         UNCHANGED <<copyOf, minted>>
  PROVE  Signatures'
<1>1. carried'[c] = p /\ \A d \in Copy \ {c} : carried'[d] = carried[d]
  BY DEF CopiesOK
<1> QED
  BY <1>1 DEF Signatures

\* A body that is posted is signed by itself.
LEMMA EnterSigned ==
  ASSUME CopiesOK, Signatures, NEW c \in Copy, NEW p, NEW h, Enter(c, p, h),
         Formed(p), SelfSigned(p), p \in minted \/ Mismatched(p)
  PROVE  Signatures'
<1>1. carried'[c] = p /\ copyOf'[c] = p /\ minted' = minted
  BY DEF CopiesOK, Enter
<1>2. \A d \in Copy \ {c} :
        carried'[d] = carried[d] /\ copyOf'[d] = copyOf[d] /\ at'[d] = at[d]
  BY DEF CopiesOK, Enter
<1> QED
  BY <1>1, <1>2 DEF Signatures

\* Every step keeps the signatures.
LEMMA SignaturesStep ==
  ASSUME RolloutInv, Guards, Signatures, [RolloutNext]_rolloutVars
  PROVE  Signatures'
<1> USE DEF RolloutInv
<1>1. ASSUME UNCHANGED copyVars, minted \subseteq minted'
      PROVE  Signatures'
  BY <1>1 DEF copyVars, Signatures
<1>2. CASE \/ \E force \in BOOLEAN : Bootstrap(force)
           \/ BootstrapInfra \/ BootstrapKilled \/ PasteKeys
           \/ \E s \in Service : Start(s)
           \/ \E payment \in Payment : CreatePacket(payment)
  BY <1>1, <1>2 DEF Bootstrap, WriteEnv, BootstrapInfra, BootstrapKilled, PasteKeys,
                    Start, CreatePacket
<1>3. ASSUME NEW s \in Service, Stop(s)
      PROVE  Signatures'
  BY <1>3, GoneSigned DEF Stop
<1>4. ASSUME NEW c \in Copy, NEW p \in minted, Submit(c, p)
      PROVE  Signatures'
  <2>1. Formed(p) /\ SelfSigned(p)
    BY SoundFormed DEF KeysOK
  <2> QED
    BY <1>4, <2>1, EnterSigned DEF Submit
<1>5. ASSUME NEW c \in Copy, NEW p \in minted, SubmitRelabelled(c, p)
      PROVE  Signatures'
  <2>1. Sound(p) /\ p.packet_id # MaxMinted + 1
    BY DEF KeysOK, Guards
  <2>2. PICK q \in {Relabelled(p, MaxMinted + 1, p.signature.by),
                    Resealed(p, MaxMinted + 1, p.signature.by)} :
          Enter(c, q, {"relabelled"})
    BY <1>5 DEF SubmitRelabelled
  <2>3. Formed(q) /\ SelfSigned(q) /\ Mismatched(q)
    BY <2>1, RelabelledMismatched, ResealedMismatched
  <2> QED
    BY <2>2, <2>3, EnterSigned
<1>6. ASSUME NEW c \in Copy, NEW h \in Harm, Alter(c, h)
      PROVE  Signatures'
  <2>1. /\ at[c] # "nowhere" /\ carried' = [carried EXCEPT ![c] = Harmed(carried[c], h)]
        /\ at' = at /\ UNCHANGED <<copyOf, minted>>
    BY <1>6 DEF Alter
  <2>2. Formed(carried[c]) =>
          LET q == Harmed(carried[c], h) IN
          Formed(q) /\ (q.signature = carried[c].signature \/ q.signature.by = 0)
    BY HarmedFormed
  <2> QED
    BY <2>1, <2>2, BodySigned
<1>7. ASSUME NEW c \in Copy, NEW s, Refuses(c, s)
      PROVE  Signatures'
  BY <1>7, GoneSigned DEF Refuses
<1>8. ASSUME NEW c \in Copy, NEW next, Relay(c, next)
      PROVE  Signatures'
  <2> DEFINE q == Reserialised(append_hop(carried[c]))
  <2>1. at[c] # "nowhere" /\ SendTo(c, next, q) /\ UNCHANGED minted
    BY <1>8 DEF Relay
  <2>2. Formed(carried[c]) => Formed(q) /\ q.signature = carried[c].signature
    BY SentFormed
  <2>3. CASE Moves(c, next, q)
    <3>1. /\ carried' = [carried EXCEPT ![c] = q] /\ UNCHANGED copyOf
          /\ \A d \in Copy \ {c} : at'[d] = at[d]
      BY <2>3 DEF Moves, CopiesOK
    <3> QED
      BY <2>1, <2>2, <3>1, BodySigned
  <2>4. CASE Gone({c})
    BY <2>1, <2>4, GoneSigned
  <2> QED
    BY <2>1, <2>3, <2>4 DEF SendTo
<1>9. ASSUME NEW c \in Copy, Bridge(c)
      PROVE  Signatures'
  <2> DEFINE q == Reserialised(carried[c])
  <2>1. /\ at[c] # "nowhere" /\ UNCHANGED <<minted, copyOf>>
        /\ carried' = [carried EXCEPT ![c] = q]
        /\ \A d \in Copy \ {c} : at'[d] = at[d]
    BY <1>9 DEF Bridge, Moves, CopiesOK
  <2>2. Formed(carried[c]) => Formed(q) /\ q.signature = carried[c].signature
    BY SentFormed
  <2> QED
    BY <2>1, <2>2, BodySigned
<1>10. ASSUME NEW c \in Copy, Settle(c)
       PROVE  Signatures'
  BY <1>10, GoneSigned DEF Settle
<1>11. ASSUME NEW c \in Copy, CopyStep(c)
       PROVE  Signatures'
  BY <1>7, <1>8, <1>9, <1>10, <1>11 DEF CopyStep
<1>12. CASE UNCHANGED rolloutVars
  BY <1>1, <1>12 DEF rolloutVars
<1> QED
  BY <1>2, <1>3, <1>4, <1>5, <1>6, <1>11, <1>12 DEF RolloutNext, Quiet

\* A body settlement accepts is, in its signed region, a packet that was minted.
LEMMA AcceptedIsMinted ==
  ASSUME RowsInv, NEW c \in Copy, at[c] = "queue", Up("settlement"),
         Decision(carried[c]) = "SETTLED"
  PROVE  /\ copyOf[c] \in minted
         /\ SigningBytes(carried[c]) = SigningBytes(copyOf[c])
         /\ carried[c].envelope.ciphertext.seals.packet_id = carried[c].packet_id
<1> DEFINE k == process["settlement"].keys
           p == carried[c]
           q == copyOf[c]
<1>1. k # 0 /\ at[c] # "nowhere"
  BY DEF RowsInv, Guards
<1>2. /\ Verifies(p, k) /\ p.envelope.aad = expected_aad(p)
      /\ OpenInstruction(p, k) = "instruction"
  BY DEF Decision, Verdict
<1>3. p.signature.by = k /\ p.signature.over = SigningBytes(p)
  BY <1>2 DEF Verifies, sign_bytes
<1>4. /\ p.signature.by = 0 \/ p.signature = q.signature
      /\ SelfSigned(q) /\ (q \in minted \/ Mismatched(q))
  BY <1>1 DEF RowsInv, Signatures
<1>5. SigningBytes(p) = SigningBytes(q)
  BY <1>1, <1>3, <1>4 DEF SelfSigned, sign_bytes
<1>6. p.packet_id = q.packet_id /\ p.sender_id = q.sender_id /\ p.envelope = q.envelope
  BY <1>5 DEF SigningBytes
<1>7. p.envelope.ciphertext.seals.packet_id = p.packet_id
  BY <1>2 DEF OpenInstruction
<1>8. q \in minted
  BY <1>2, <1>4, <1>6, <1>7 DEF Mismatched, expected_aad
<1> QED
  BY <1>5, <1>7, <1>8

\* Every step keeps the rows.
LEMMA RowsStep ==
  ASSUME RowsInv, [RolloutNext]_rolloutVars
  PROVE  SettledAsMinted'
<1>1. ASSUME rows' = rows, minted \subseteq minted'
      PROVE  SettledAsMinted'
  BY <1>1 DEF RowsInv, SettledAsMinted
<1>2. ASSUME NEW c \in Copy, Settle(c)
      PROVE  SettledAsMinted'
  <2> DEFINE p == carried[c]
             q == copyOf[c]
  <2>1. CASE rows' = rows
    BY <1>1, <1>2, <2>1 DEF Settle
  <2>2. CASE rows' # rows
    <3>1. /\ Decision(p) = "SETTLED" /\ IsNew(p) /\ rows' = rows \cup {Row(p)}
          /\ at[c] = "queue" /\ Up("settlement") /\ minted' = minted
      BY <1>2, <2>2 DEF Settle
    <3>2. /\ q \in minted /\ SigningBytes(p) = SigningBytes(q)
          /\ p.envelope.ciphertext.seals.packet_id = p.packet_id
      BY <3>1, AcceptedIsMinted
    <3>3. p.envelope = q.envelope
      BY <3>2 DEF SigningBytes
    <3>4. /\ Row(p).key = IdempotencyKey(q)
          /\ Row(p).instruction = q.envelope.ciphertext.seals
          /\ Row(p).instruction.packet_id = p.packet_id
      BY <3>2, <3>3 DEF Row, IdempotencyKey
    <3>5. \A r \in rows : r.instruction.packet_id # p.packet_id
      BY <3>1 DEF IsNew, IdOfRow
    <3> QED
      BY <3>1, <3>2, <3>4, <3>5 DEF RowsInv, SettledAsMinted
  <2> QED
    BY <2>1, <2>2
<1>3. CASE \/ \E force \in BOOLEAN : Bootstrap(force)
           \/ BootstrapInfra \/ BootstrapKilled \/ PasteKeys
           \/ \E s \in Service : Start(s) \/ Stop(s)
           \/ \E payment \in Payment : CreatePacket(payment)
  BY <1>1, <1>3 DEF Bootstrap, WriteEnv, BootstrapInfra, BootstrapKilled, PasteKeys,
                    Start, Stop, CreatePacket
<1>4. ASSUME NEW c \in Copy, NEW p \in minted, Submit(c, p) \/ SubmitRelabelled(c, p)
      PROVE  SettledAsMinted'
  BY <1>1, <1>4 DEF Submit, SubmitRelabelled, Enter
<1>5. ASSUME NEW c \in Copy, NEW h \in Harm, Alter(c, h)
      PROVE  SettledAsMinted'
  BY <1>1, <1>5 DEF Alter
<1>6. ASSUME NEW c \in Copy, CopyStep(c)
      PROVE  SettledAsMinted'
  BY <1>1, <1>2, <1>6 DEF CopyStep, Refuses, Relay, Bridge
<1>7. CASE UNCHANGED rolloutVars
  BY <1>1, <1>7 DEF rolloutVars
<1> QED
  BY <1>3, <1>4, <1>5, <1>6, <1>7 DEF RolloutNext, Quiet

\* Every row of the settlements table is a packet the sender made, with the key and the
\* payment it was made with, and no packet has two rows: for any number of packets and
\* copies, whatever is altered, resubmitted, relabelled or restarted and whatever keys
\* the services have (verify_signature, the AAD check, open_instruction's comparison of
\* the two ids, the constraints).
THEOREM SettlesWhatWasMinted == RolloutSpec => []SettledAsMinted
<1>1. RolloutInit => RowsInv
  <2> SUFFICES ASSUME RolloutInit
               PROVE  Guards /\ Signatures /\ SettledAsMinted
    BY RolloutInvInit DEF RowsInv
  <2>1. Guards
    BY DEF RolloutInit, Guards, Up, Service
  <2>2. Signatures
    BY DEF RolloutInit, Signatures
  <2>3. SettledAsMinted
    BY DEF RolloutInit, SettledAsMinted
  <2> QED
    BY <2>1, <2>2, <2>3
<1>2. RowsInv /\ [RolloutNext]_rolloutVars => RowsInv'
  BY RolloutInvStep, GuardsStep, SignaturesStep, RowsStep DEF RowsInv
<1>3. RowsInv => SettledAsMinted
  BY DEF RowsInv
<1> QED
  BY <1>1, <1>2, <1>3, PTL DEF RolloutSpec

-----------------------------------------------------------------------------
(* What a dedupe key identifies. *)

\* The signed region of q once the fields in H are altered.
Image(q, H) ==
  LET e == q.envelope
      Put(h, new, old) == IF h \in H THEN new ELSE old
  IN [packet_id  |-> Put("packet_id", 0, q.packet_id),
      sender_id  |-> Put("sender_id", 0, q.sender_id),
      created_at |-> <<Put("created_at", q.created_at.instant + 1, q.created_at.instant),
                       "utc">>,
      envelope   |->
        [encrypted_key |-> [wraps |-> Put("encrypted_key", 0, e.encrypted_key.wraps),
                            for |-> e.encrypted_key.for],
         nonce         |-> Put("nonce", 0, e.nonce),
         ciphertext    |-> [under |-> Put("ciphertext", 0, e.ciphertext.under),
                            nonce |-> e.ciphertext.nonce,
                            aad   |-> e.ciphertext.aad,
                            seals |-> e.ciphertext.seals],
         aad           |-> [packet_id |-> Put("aad", 0, e.aad.packet_id),
                            sender_id |-> e.aad.sender_id]]]

\* Zero is what an alteration leaves, so it stands nowhere in a packet that was made.
Real(q) ==
  /\ q.packet_id # 0 /\ q.sender_id # 0
  /\ q.envelope.encrypted_key.wraps # 0 /\ q.envelope.nonce # 0
  /\ q.envelope.ciphertext.under # 0 /\ q.envelope.aad.packet_id # 0

\* An envelope is its parts.
LEMMA EnvelopeParts ==
  ASSUME NEW e \in Envelope
  PROVE  e = [encrypted_key |-> [wraps |-> e.encrypted_key.wraps, for |-> e.encrypted_key.for],
              nonce |-> e.nonce,
              ciphertext |-> [under |-> e.ciphertext.under, nonce |-> e.ciphertext.nonce,
                              aad |-> e.ciphertext.aad, seals |-> e.ciphertext.seals],
              aad |-> [packet_id |-> e.aad.packet_id, sender_id |-> e.aad.sender_id]]
BY DEF Envelope, Aad

\* Alterations change the signed region exactly when one is of a field in it.
LEMMA ImageSame ==
  ASSUME NEW q \in Packet, Real(q), NEW H
  PROVE  Image(q, H) = SigningBytes(q) <=> H \cap SignedField = {}
<1> DEFINE e == q.envelope
<1>1. e \in Envelope /\ q.created_at.instant \in Nat
  BY DEF Packet, Moment
<1>2. ASSUME H \cap SignedField = {} PROVE Image(q, H) = SigningBytes(q)
  BY <1>1, <1>2, EnvelopeParts DEF Image, SigningBytes, canonical_timestamp, SignedField
<1>3. ASSUME Image(q, H) = SigningBytes(q), NEW h \in H \cap SignedField PROVE FALSE
  BY <1>1, <1>3 DEF Image, SigningBytes, canonical_timestamp, SignedField, Real
<1> QED
  BY <1>2, <1>3

\* What an alteration leaves is still a packet.
LEMMA HarmedPacket ==
  ASSUME NEW p \in Packet, NEW h \in Harm
  PROVE  Harmed(p, h) \in Packet
<1>1. CASE h \in {"packet_id", "sender_id"}
  BY <1>1 DEF Harmed, Packet
<1>2. CASE h = "created_at"
  BY <1>2 DEF Harmed, Packet, Moment
<1>3. CASE h \in {"timezone", "encoding"}
  BY <1>3 DEF Harmed, Packet, Moment
<1>4. CASE h \in {"encrypted_key", "nonce"}
  BY <1>4 DEF Harmed, Packet, Envelope
<1>5. CASE h \in {"ciphertext", "aad"}
  BY <1>5 DEF Harmed, Packet, Envelope, Aad
<1>6. CASE h = "signature"
  BY <1>6 DEF Harmed, Packet, Signature
<1> QED
  BY <1>1, <1>2, <1>3, <1>4, <1>5, <1>6 DEF Harm, SignedField

\* One more alteration, of a field that was not altered yet.
LEMMA HarmedImage ==
  ASSUME NEW p \in Packet, NEW q \in Packet, NEW H, SigningBytes(p) = Image(q, H),
         NEW h \in Harm, h \notin H
  PROVE  SigningBytes(Harmed(p, h)) = Image(q, H \cup {h})
<1>1. CASE h = "packet_id"
  BY <1>1 DEF Harmed, Packet, Image, SigningBytes, canonical_timestamp
<1>2. CASE h = "sender_id"
  BY <1>2 DEF Harmed, Packet, Image, SigningBytes, canonical_timestamp
<1>3. CASE h = "created_at"
  BY <1>3 DEF Harmed, Packet, Moment, Image, SigningBytes, canonical_timestamp
<1>4. CASE h = "encrypted_key"
  BY <1>4 DEF Harmed, Packet, Envelope, Image, SigningBytes, canonical_timestamp
<1>5. CASE h = "nonce"
  BY <1>5 DEF Harmed, Packet, Envelope, Image, SigningBytes, canonical_timestamp
<1>6. CASE h = "ciphertext"
  BY <1>6 DEF Harmed, Packet, Envelope, Image, SigningBytes, canonical_timestamp
<1>7. CASE h = "aad"
  BY <1>7 DEF Harmed, Packet, Envelope, Aad, Image, SigningBytes, canonical_timestamp
<1>8. CASE h \in {"signature", "timezone", "encoding"}
  <2>1. SigningBytes(Harmed(p, h)) = SigningBytes(p)
    BY <1>8 DEF Harmed, Packet, Moment, SigningBytes, canonical_timestamp
  <2>2. Image(q, H \cup {h}) = Image(q, H)
    BY <1>8 DEF Image
  <2> QED
    BY <2>1, <2>2
<1> QED
  BY <1>1, <1>2, <1>3, <1>4, <1>5, <1>6, <1>7, <1>8 DEF Harm, SignedField

\* A hop and a new serialisation leave the signed region as it is.
LEMMA SentPacket ==
  ASSUME NEW p \in Packet
  PROVE  /\ Reserialised(p) \in Packet /\ SigningBytes(Reserialised(p)) = SigningBytes(p)
         /\ append_hop(p) \in Packet /\ SigningBytes(append_hop(p)) = SigningBytes(p)
BY DEF Packet, Moment, Reserialised, append_hop, SigningBytes, canonical_timestamp

\* What is signed has the type of a region.
LEMMA RegionType ==
  ASSUME NEW p \in Packet
  PROVE  SigningBytes(p) \in Region
BY DEF Packet, Moment, Region, SigningBytes, canonical_timestamp

\* What the sender makes is a packet, and nothing in it is zero.
LEMMA CreatePacketType ==
  ASSUME NEW payment \in ValidPayments, NEW id \in Nat \ {0}, NEW k \in Nat \ {0}
  PROVE  LET p == Create(to_instruction(payment, id, 0), k, k, 0, id) IN
         p \in Packet /\ Real(p)
<1> DEFINE aad == build_aad(id, sender_id_for(k))
           i   == to_instruction(payment, id, 0)
           raw == [packet_id  |-> id,
                   sender_id  |-> sender_id_for(k),
                   created_at |-> [instant |-> 0, offset |-> "utc"],
                   envelope   |-> encrypt_payload(i, k, aad, id),
                   signature  |-> 0,
                   hops       |-> 0]
           p   == Create(i, k, k, 0, id)
<1>1. i \in Instruction /\ i.packet_id = id
  BY PaymentAssumption DEF to_instruction, Instruction
<1>2. encrypt_payload(i, k, aad, id) \in Envelope
  BY <1>1 DEF encrypt_payload, Envelope, Aad, build_aad, sender_id_for
<1>3. p = [raw EXCEPT !.signature = sign_bytes(SigningBytes(raw), k)]
  BY <1>1 DEF Create, Signed
<1>4. SigningBytes(raw) \in Region
  BY <1>2 DEF SigningBytes, canonical_timestamp, Region, sender_id_for
<1>5. p \in Packet
  BY <1>2, <1>3, <1>4 DEF Packet, Moment, Signature, sign_bytes, sender_id_for
<1>6. Real(p)
  BY <1>3 DEF Real, encrypt_payload, build_aad, sender_id_for
<1> QED
  BY <1>5, <1>6

\* So is what a device makes of it under another id.
LEMMA RelabelledType ==
  ASSUME NEW p \in Packet, Real(p), NEW id \in Nat \ {0}
  PROVE  LET q == Relabelled(p, id, p.signature.by) IN q \in Packet /\ Real(q)
<1> DEFINE r == [p EXCEPT !.packet_id = id]
           q == Relabelled(p, id, p.signature.by)
<1>1. r \in Packet /\ Real(r)
  BY DEF Packet, Real
<1>2. SigningBytes(r) \in Region
  BY <1>1, RegionType
<1>3. q = [r EXCEPT !.signature = sign_bytes(SigningBytes(r), p.signature.by)]
  BY DEF Relabelled, Signed
<1>4. sign_bytes(SigningBytes(r), p.signature.by) \in Signature
  BY <1>2 DEF Signature, Packet, sign_bytes
<1> HIDE DEF r, q
<1>5. q \in Packet
  BY <1>1, <1>3, <1>4 DEF Packet
<1>6. Real(q)
  BY <1>1, <1>3 DEF Packet, Real
<1> QED
  BY <1>5, <1>6 DEF q

LEMMA ResealedType ==
  ASSUME NEW p \in Packet, Real(p), NEW id \in Nat \ {0}
  PROVE  LET q == Resealed(p, id, p.signature.by) IN q \in Packet /\ Real(q)
<1> DEFINE f == p.envelope
           e == encrypt_payload(f.ciphertext.seals, f.encrypted_key.for,
                                build_aad(id, p.sender_id), id)
           r == [p EXCEPT !.envelope = e]
<1>1. f.ciphertext.seals \in Instruction /\ f.encrypted_key.for \in Nat /\ p.sender_id \in Nat
  BY DEF Packet, Envelope
<1>2. e \in Envelope
  BY <1>1 DEF encrypt_payload, Envelope, Aad, build_aad
<1>3. /\ e.encrypted_key.wraps # 0 /\ e.nonce # 0
      /\ e.ciphertext.under # 0 /\ e.aad.packet_id # 0
  BY DEF encrypt_payload, build_aad
<1> HIDE DEF e
<1>4. r \in Packet /\ r.signature = p.signature
  BY <1>2 DEF Packet
<1>5. Real(r)
  BY <1>3 DEF Real, Packet
<1>6. Resealed(p, id, p.signature.by) = Relabelled(r, id, r.signature.by)
  BY <1>4 DEF Resealed, e
<1> HIDE DEF r
<1> QED
  BY <1>4, <1>5, <1>6, RelabelledType

\* A copy that is somewhere has a body, and is a copy of something.
CopiesTyped ==
  /\ at \in [Copy -> Place]
  /\ {carried, copyOf} \subseteq [Copy -> Packet \cup {NoPacket}]
  /\ \A c \in Copy : /\ at[c] = "nowhere" <=> carried[c] = NoPacket
                     /\ at[c] = "nowhere" <=> copyOf[c] = NoPacket
  /\ harm \in [Copy -> SUBSET (Harm \cup {"relabelled"})]

\* The signed region of each body is that of its packet, as altered.
RegionsTracked ==
  \A c \in Copy : at[c] # "nowhere" =>
    /\ Real(copyOf[c])
    /\ SigningBytes(carried[c]) = Image(copyOf[c], harm[c])

CopiesInv == CopiesTyped /\ RegionsTracked

\* Copies that are gone leave the others as they are.
LEMMA GoneTracked ==
  ASSUME CopiesInv, NEW cs, Gone(cs)
  PROVE  CopiesInv'
<1>1. CopiesTyped'
  BY DEF CopiesInv, CopiesTyped, Gone, Place
<1>2. ASSUME NEW c \in Copy, at'[c] # "nowhere"
      PROVE  /\ at'[c] = at[c] /\ carried'[c] = carried[c]
             /\ copyOf'[c] = copyOf[c] /\ harm'[c] = harm[c]
  BY <1>2 DEF Gone
<1>3. RegionsTracked'
  BY <1>2 DEF CopiesInv, RegionsTracked
<1> QED
  BY <1>1, <1>3 DEF CopiesInv

\* A copy that goes on keeps its region.
LEMMA MovesTracked ==
  ASSUME CopiesInv, NEW c \in Copy, at[c] # "nowhere",
         NEW place \in Place \ {"nowhere"}, NEW p \in Packet,
         SigningBytes(p) = SigningBytes(carried[c]), Moves(c, place, p)
  PROVE  CopiesInv'
<1>1. CopiesTyped'
  BY RolloutAssumption DEF CopiesInv, CopiesTyped, Moves
<1>2. /\ carried'[c] = p
      /\ \A d \in Copy \ {c} : carried'[d] = carried[d] /\ at'[d] = at[d]
      /\ copyOf' = copyOf /\ harm' = harm
  BY DEF CopiesInv, CopiesTyped, Moves
<1>3. RegionsTracked'
  BY <1>2 DEF CopiesInv, RegionsTracked
<1> QED
  BY <1>1, <1>3 DEF CopiesInv

\* A body that is posted is its own original.
LEMMA EnterTracked ==
  ASSUME CopiesInv, NEW c \in Copy, NEW p \in Packet, Real(p),
         NEW h \in SUBSET {"relabelled"}, Enter(c, p, h)
  PROVE  CopiesInv'
<1>1. CopiesTyped'
  BY RolloutAssumption DEF CopiesInv, CopiesTyped, Enter, Place
<1>2. /\ carried'[c] = p /\ copyOf'[c] = p /\ harm'[c] = h
      /\ \A d \in Copy \ {c} : /\ carried'[d] = carried[d] /\ copyOf'[d] = copyOf[d]
                               /\ harm'[d] = harm[d] /\ at'[d] = at[d]
  BY DEF CopiesInv, CopiesTyped, Enter
<1>3. h \cap SignedField = {}
  BY DEF SignedField
<1>4. Image(p, h) = SigningBytes(p)
  BY <1>3, ImageSame
<1>5. RegionsTracked'
  BY <1>2, <1>4 DEF CopiesInv, RegionsTracked
<1> QED
  BY <1>1, <1>5 DEF CopiesInv

\* An alteration is added to those made before.
LEMMA AlterTracked ==
  ASSUME CopiesInv, NEW c \in Copy, NEW h \in Harm, Alter(c, h)
  PROVE  CopiesInv'
<1>1. /\ at' = at /\ copyOf' = copyOf /\ at[c] # "nowhere" /\ h \notin harm[c]
      /\ carried[c] \in Packet /\ copyOf[c] \in Packet
  BY DEF CopiesInv, CopiesTyped, Alter
<1>2. Harmed(carried[c], h) \in Packet
  BY <1>1, HarmedPacket
<1>3. /\ carried' = [carried EXCEPT ![c] = Harmed(carried[c], h)]
      /\ harm' = [harm EXCEPT ![c] = harm[c] \cup {h}]
  BY DEF Alter
<1>4. CopiesTyped'
  BY <1>1, <1>2, <1>3, RolloutAssumption DEF CopiesInv, CopiesTyped
<1>5. /\ carried'[c] = Harmed(carried[c], h) /\ harm'[c] = harm[c] \cup {h}
      /\ \A d \in Copy \ {c} : carried'[d] = carried[d] /\ harm'[d] = harm[d]
  BY <1>3 DEF CopiesInv, CopiesTyped
<1>6. SigningBytes(carried[c]) = Image(copyOf[c], harm[c])
  BY <1>1 DEF CopiesInv, RegionsTracked
<1>7. SigningBytes(Harmed(carried[c], h)) = Image(copyOf[c], harm[c] \cup {h})
  BY <1>1, <1>6, HarmedImage
<1>8. RegionsTracked'
  BY <1>1, <1>5, <1>7 DEF CopiesInv, RegionsTracked
<1> QED
  BY <1>4, <1>8 DEF CopiesInv

\* The parts of the type invariant.
FilesTyped ==
  /\ envFile \in [written : BOOLEAN, keys : 0..MaxGeneration, passwords : 0..MaxGeneration]
  /\ infraFile \in [written : BOOLEAN, passwords : 0..MaxGeneration]
  /\ script \in 0..MaxGeneration /\ generation \in 0..MaxGeneration
  /\ interrupted \in BOOLEAN /\ rekeyed \in BOOLEAN

ProcessTyped ==
  /\ process \in [Service -> [up : BOOLEAN, keys : 0..MaxGeneration]]
  /\ stops \in 0..MaxStops

\* The next id is a number, as long as the packets made can be counted.
MintedTyped ==
  /\ minted \subseteq Packet
  /\ IsFiniteSet(minted)
  /\ \A p \in minted : Real(p)

RowsTyped == rows \subseteq [key : Region, instruction : Instruction]

\* The types, and what a body has to do with its packet, together.
RegionInv == FilesTyped /\ ProcessTyped /\ MintedTyped /\ CopiesInv /\ RowsTyped

\* Every step keeps the types.
LEMMA FilesTypedStep ==
  ASSUME FilesTyped, [RolloutNext]_rolloutVars
  PROVE  FilesTyped'
<1>a. MaxGeneration \in Nat
  BY RolloutAssumption
<1>1. ASSUME Generate PROVE generation' \in 0..MaxGeneration
  BY <1>a, <1>1 DEF Generate, FilesTyped
<1>2. ASSUME NEW force \in BOOLEAN, Bootstrap(force)
      PROVE  FilesTyped'
  BY <1>1, <1>2 DEF Bootstrap, WriteEnv, FilesTyped
<1>3. CASE BootstrapInfra \/ BootstrapKilled
  <2>1. 0 \in 0..MaxGeneration
    BY <1>a
  <2>2. CASE BootstrapInfra
    BY <2>1, <2>2 DEF BootstrapInfra, FilesTyped
  <2>3. CASE BootstrapKilled
    BY <2>1, <2>3 DEF BootstrapKilled, FilesTyped
  <2> QED
    BY <1>3, <2>2, <2>3
<1>4. CASE PasteKeys
  BY <1>1, <1>4 DEF PasteKeys, FilesTyped
<1>5. CASE UNCHANGED fileVars
  BY <1>5 DEF FilesTyped, fileVars
<1>6. CASE UNCHANGED rolloutVars
  BY <1>5, <1>6 DEF rolloutVars
<1> QED
  BY <1>2, <1>3, <1>4, <1>5, <1>6
  DEF RolloutNext, Start, Stop, CreatePacket, Submit, SubmitRelabelled, Enter, Alter,
      CopyStep, Refuses, Relay, Bridge, Settle, Quiet

LEMMA ProcessTypedStep ==
  ASSUME FilesTyped, ProcessTyped, [RolloutNext]_rolloutVars
  PROVE  ProcessTyped'
<1>1. ASSUME NEW s \in Service, Start(s)
      PROVE  ProcessTyped'
  BY <1>1 DEF Start, FilesTyped, ProcessTyped
<1>2. ASSUME NEW s \in Service, Stop(s)
      PROVE  ProcessTyped'
  <2>1. stops' \in 0..MaxStops
    BY <1>2, RolloutAssumption DEF Stop, ProcessTyped
  <2>2. process' \in [Service -> [up : BOOLEAN, keys : 0..MaxGeneration]]
    BY <1>2 DEF Stop, ProcessTyped
  <2> QED
    BY <2>1, <2>2 DEF ProcessTyped
<1>3. CASE UNCHANGED processVars
  BY <1>3 DEF ProcessTyped, processVars
<1>4. CASE UNCHANGED rolloutVars
  BY <1>3, <1>4 DEF rolloutVars
<1> QED
  BY <1>1, <1>2, <1>3, <1>4
  DEF RolloutNext, Bootstrap, WriteEnv, BootstrapInfra, BootstrapKilled, PasteKeys,
      CreatePacket, Submit, SubmitRelabelled, Enter, Alter, CopyStep, Refuses, Relay,
      Bridge, Settle, Quiet

LEMMA MintedTypedStep ==
  ASSUME ProcessTyped, MintedTyped, [RolloutNext]_rolloutVars
  PROVE  MintedTyped'
<1>1. ASSUME NEW payment \in Payment, CreatePacket(payment)
      PROVE  MintedTyped'
  <2> DEFINE keys == process["sender"].keys
             p    == Create(to_instruction(payment, NextId, 0), keys, keys, 0, NextId)
  <2>1. payment \in ValidPayments /\ minted' = minted \cup {p}
    BY <1>1 DEF CreatePacket
  <2>2. keys \in Nat \ {0}
    BY <1>1, RolloutAssumption DEF CreatePacket, ProcessTyped, Service
  <2>3. NextId \in Nat \ {0}
    BY FS_CardinalityType DEF NextId, MintedTyped
  <2>4. p \in Packet /\ Real(p)
    BY <2>1, <2>2, <2>3, CreatePacketType
  <2>5. IsFiniteSet(minted \cup {p})
    BY FS_AddElement DEF MintedTyped
  <2> HIDE DEF p
  <2> QED
    BY <2>1, <2>4, <2>5 DEF MintedTyped
<1>2. CASE UNCHANGED minted
  BY <1>2 DEF MintedTyped
<1> QED
  BY <1>1, <1>2
  DEF RolloutNext, Bootstrap, WriteEnv, BootstrapInfra, BootstrapKilled, PasteKeys, Start,
      Stop, Submit, SubmitRelabelled, Enter, Alter, CopyStep, Refuses, Relay, Bridge,
      Settle, Quiet, rolloutVars

\* Every step keeps the bodies and what they are copies of.
LEMMA CopiesInvStep ==
  ASSUME MintedTyped, CopiesInv, [RolloutNext]_rolloutVars
  PROVE  CopiesInv'
<1>1. CASE UNCHANGED copyVars
  BY <1>1 DEF copyVars, CopiesInv, CopiesTyped, RegionsTracked
<1>2. ASSUME NEW s \in Service, Stop(s)
      PROVE  CopiesInv'
  BY <1>2, GoneTracked DEF Stop
<1>3. ASSUME NEW c \in Copy, NEW p \in minted, Submit(c, p)
      PROVE  CopiesInv'
  BY <1>3, EnterTracked DEF Submit, MintedTyped
<1>4. ASSUME NEW c \in Copy, NEW p \in minted, SubmitRelabelled(c, p)
      PROVE  CopiesInv'
  <2>1. MaxMinted + 1 \in Nat \ {0}
    BY RolloutAssumption
  <2>2. PICK q \in {Relabelled(p, MaxMinted + 1, p.signature.by),
                    Resealed(p, MaxMinted + 1, p.signature.by)} :
          Enter(c, q, {"relabelled"})
    BY <1>4 DEF SubmitRelabelled
  <2>3. q \in Packet /\ Real(q)
    BY <2>1, RelabelledType, ResealedType DEF MintedTyped
  <2> QED
    BY <2>2, <2>3, EnterTracked
<1>5. ASSUME NEW c \in Copy, NEW h \in Harm, Alter(c, h)
      PROVE  CopiesInv'
  BY <1>5, AlterTracked
<1>6. ASSUME NEW c \in Copy, NEW s, Refuses(c, s)
      PROVE  CopiesInv'
  BY <1>6, GoneTracked DEF Refuses
<1>7. ASSUME NEW c \in Copy, at[c] # "nowhere" PROVE carried[c] \in Packet
  BY <1>7 DEF CopiesInv, CopiesTyped
<1>8. ASSUME NEW c \in Copy, NEW next \in {"relay", "bridge"}, Relay(c, next)
      PROVE  CopiesInv'
  <2> DEFINE q == Reserialised(append_hop(carried[c]))
  <2>1. at[c] # "nowhere" /\ SendTo(c, next, q)
    BY <1>8 DEF Relay
  <2>2. q \in Packet /\ SigningBytes(q) = SigningBytes(carried[c])
    BY <1>7, <2>1, SentPacket
  <2>3. next \in Place \ {"nowhere"}
    BY DEF Place
  <2> HIDE DEF q
  <2> QED
    BY <2>1, <2>2, <2>3, GoneTracked, MovesTracked DEF SendTo
<1>9. ASSUME NEW c \in Copy, Bridge(c)
      PROVE  CopiesInv'
  <2> DEFINE q == Reserialised(carried[c])
  <2>1. at[c] # "nowhere" /\ Moves(c, "queue", q)
    BY <1>9 DEF Bridge
  <2>2. q \in Packet /\ SigningBytes(q) = SigningBytes(carried[c])
    BY <1>7, <2>1, SentPacket
  <2>3. "queue" \in Place \ {"nowhere"}
    BY DEF Place
  <2> HIDE DEF q
  <2> QED
    BY <2>1, <2>2, <2>3, MovesTracked
<1>10. ASSUME NEW c \in Copy, Settle(c)
       PROVE  CopiesInv'
  BY <1>10, GoneTracked DEF Settle
<1>11. ASSUME NEW c \in Copy, CopyStep(c)
       PROVE  CopiesInv'
  BY <1>6, <1>8, <1>9, <1>10, <1>11 DEF CopyStep
<1>12. CASE UNCHANGED rolloutVars
  BY <1>1, <1>12 DEF rolloutVars
<1> QED
  BY <1>1, <1>2, <1>3, <1>4, <1>5, <1>11, <1>12
  DEF RolloutNext, Bootstrap, WriteEnv, BootstrapInfra, BootstrapKilled, PasteKeys, Start,
      CreatePacket, Quiet

\* A row is of a region and an instruction.
LEMMA RowsTypedStep ==
  ASSUME CopiesInv, RowsTyped, [RolloutNext]_rolloutVars
  PROVE  RowsTyped'
<1>1. ASSUME NEW c \in Copy, Settle(c)
      PROVE  RowsTyped'
  <2>1. carried[c] \in Packet
    BY <1>1 DEF Settle, CopiesInv, CopiesTyped
  <2>2. Row(carried[c]) \in [key : Region, instruction : Instruction]
    BY <2>1, RegionType DEF Row, IdempotencyKey, Packet, Envelope
  <2> QED
    BY <1>1, <2>2 DEF Settle, RowsTyped
<1>2. CASE UNCHANGED rows
  BY <1>2 DEF RowsTyped
<1> QED
  BY <1>1, <1>2
  DEF RolloutNext, Bootstrap, WriteEnv, BootstrapInfra, BootstrapKilled, PasteKeys, Start,
      Stop, CreatePacket, Submit, SubmitRelabelled, Enter, Alter, CopyStep, Refuses, Relay,
      Bridge, Quiet, rolloutVars

\* At first there is nothing.
LEMMA RegionInvInit ==
  ASSUME RolloutInit
  PROVE  RegionInv
<1>1. FilesTyped
  <2>1. interrupted \in BOOLEAN /\ rekeyed \in BOOLEAN
    BY Zenon DEF RolloutInit
  <2> QED
    BY <2>1, RolloutAssumption DEF RolloutInit, FilesTyped
<1>2. ProcessTyped
  BY RolloutAssumption DEF RolloutInit, ProcessTyped
<1>3. MintedTyped
  BY FS_EmptySet DEF RolloutInit, MintedTyped
<1>4. CopiesInv
  BY DEF RolloutInit, CopiesInv, CopiesTyped, RegionsTracked, Place
<1>5. RowsTyped
  BY DEF RolloutInit, RowsTyped
<1> QED
  BY <1>1, <1>2, <1>3, <1>4, <1>5 DEF RegionInv

\* So types and regions are kept in every behaviour.
LEMMA RegionInvAlways == RolloutSpec => []RegionInv
<1>1. RegionInv /\ [RolloutNext]_rolloutVars => RegionInv'
  BY FilesTypedStep, ProcessTypedStep, MintedTypedStep, CopiesInvStep, RowsTypedStep
  DEF RegionInv
<1> QED
  BY <1>1, RegionInvInit, PTL DEF RolloutSpec

\* Every variable has its type: the ids and nonces of what is made, altered, relabelled
\* or stored included (PaymentPacket, EncryptedEnvelope).
THEOREM RolloutTypeCorrect == RolloutSpec => []RolloutTypeOK
<1>1. RegionInv => RolloutTypeOK
  BY
  DEF RegionInv, FilesTyped, ProcessTyped, MintedTyped, CopiesInv, CopiesTyped, RowsTyped,
         RolloutTypeOK
<1> QED
  BY <1>1, RegionInvAlways, PTL

\* However many copies of however many packets make their hops, are written anew or in
\* another offset, and are altered in whatever fields and order: a copy has the dedupe key
\* of its packet exactly as long as nothing the signature covers was altered
\* (canonical_timestamp, signing_bytes, append_hop, derive_idempotency_key).
THEOREM KeyIdentifiesRegion == RolloutSpec => []KeyFollowsSignedRegion
<1>1. ASSUME RegionInv, NEW c \in Copy, carried[c] # NoPacket
      PROVE  (IdempotencyKey(carried[c]) = IdempotencyKey(copyOf[c]))
               <=> (harm[c] \cap SignedField = {})
  <2>1. at[c] # "nowhere" /\ copyOf[c] \in Packet
    BY <1>1 DEF RegionInv, CopiesInv, CopiesTyped
  <2>2. Real(copyOf[c]) /\ SigningBytes(carried[c]) = Image(copyOf[c], harm[c])
    BY <1>1, <2>1 DEF RegionInv, CopiesInv, RegionsTracked
  <2> QED
    BY <2>1, <2>2, ImageSame DEF IdempotencyKey
<1>2. RegionInv => KeyFollowsSignedRegion
  BY <1>1 DEF KeyFollowsSignedRegion
<1> QED
  BY <1>2, RegionInvAlways, PTL
=============================================================================
