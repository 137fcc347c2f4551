---------------------------- MODULE PacketFormat ----------------------------
(***************************************************************************)
(* What a PaymentPacket is made of (models.py) and what the cryptography   *)
(* does with it (crypto.py), symbolically: a key pair is the generation it *)
(* was made in, an Ed25519 signature names its key and what it covers, a   *)
(* wrapped content key names whom it is wrapped for, a ciphertext says     *)
(* under which key, nonce and AAD it was sealed, and SHA-256 has no        *)
(* collisions.  Zero is never a real id, key, nonce or generation.         *)
(***************************************************************************)
EXTENDS Integers, FiniteSets

CONSTANTS
  Payment,         \* payer, payee, amount and currency of a request
  ValidPayments    \* those that TransactionRequest and PaymentInstruction accept

ASSUME PaymentAssumption == ValidPayments \subseteq Payment

\* A timestamp on the wire: an instant, written in UTC, with another offset, or
\* without one.
Moment == [instant : Nat, offset : {"utc", "shifted", "naive"}]

Instruction == [packet_id : Nat, payment : Payment, instant : Nat]
Aad         == [packet_id : Nat, sender_id : Nat]
Envelope    == [encrypted_key : [wraps : Nat, for : Nat],
                nonce : Nat,
                ciphertext : [under : Nat, nonce : Nat, aad : Aad, seals : Instruction],
                aad : Aad]

\* What the signature covers, and a packet: the region, its signature and the hops made.
Region    == [packet_id : Nat, sender_id : Nat, created_at : Nat \X {"utc"},
              envelope : Envelope]
Signature == [by : Nat, over : Region]
Packet    == [packet_id : Nat, sender_id : Nat, created_at : Moment, envelope : Envelope,
              signature : Signature, hops : Nat]

-----------------------------------------------------------------------------
(* Encoding. *)

\* Mutant of canonical_timestamp: the offset is part of the text.
OffsetKept(m) == <<m.instant, m.offset>>

\* The text that is signed: equal instants give equal text.
canonical_timestamp(m) == <<m.instant, "utc">>

build_aad(id, sender) == [packet_id |-> id, sender_id |-> sender]

\* The signed region: header and envelope, not the hops.
SigningBytes(p) ==
  [packet_id |-> p.packet_id, sender_id |-> p.sender_id,
   created_at |-> canonical_timestamp(p.created_at), envelope |-> p.envelope]

\* The dedupe key is the hash of the signed region.
IdempotencyKey(p) == SigningBytes(p)

-----------------------------------------------------------------------------
(* Sealing and signing.  fresh stands for the random content key and nonce. *)

encrypt_payload(plaintext, recipient, aad, fresh) ==
  [encrypted_key |-> [wraps |-> fresh, for |-> recipient],
   nonce |-> fresh,
   ciphertext |-> [under |-> fresh, nonce |-> fresh, aad |-> aad, seals |-> plaintext],
   aad |-> aad]

\* The content key unwraps, and the GCM tag matches key, nonce and AAD.
Decrypts(envelope, recipient) ==
  /\ envelope.encrypted_key.for = recipient
  /\ envelope.ciphertext.under = envelope.encrypted_key.wraps
  /\ envelope.ciphertext.nonce = envelope.nonce
  /\ envelope.ciphertext.aad = envelope.aad

sign_bytes(bytes, key) == [by |-> key, over |-> bytes]

Verifies(p, key) == p.signature = sign_bytes(SigningBytes(p), key)

-----------------------------------------------------------------------------
(* The packet. *)

to_instruction(payment, id, now) ==
  [packet_id |-> id, payment |-> payment, instant |-> now]

\* The device's id is a fingerprint of the key that signs.
sender_id_for(key) == key

Signed(p, key) == [p EXCEPT !.signature = sign_bytes(SigningBytes(p), key)]

\* PaymentPacket.create: the AAD binds the envelope to the header, the signature
\* covers both.
Create(instruction, signing, recipient, now, fresh) ==
  LET id  == instruction.packet_id
      aad == build_aad(id, sender_id_for(signing))
  IN Signed([packet_id  |-> id,
             sender_id  |-> sender_id_for(signing),
             created_at |-> [instant |-> now, offset |-> "utc"],
             envelope   |-> encrypt_payload(instruction, recipient, aad, fresh),
             signature  |-> 0,
             hops       |-> 0], signing)

append_hop(p) == [p EXCEPT !.hops = @ + 1]

\* Validation of a body: a timestamp without an offset is refused.
Parses(p) == p.created_at.offset # "naive"

\* What a node sends on or publishes is serialised from the model, in UTC.
Reserialised(p) == [p EXCEPT !.created_at.offset = "utc"]

expected_aad(p) == build_aad(p.packet_id, p.sender_id)

\* Mutant of OpenInstruction: the inner id is not compared with the outer one.
OpensAnyId(p, recipient) ==
  IF ~Decrypts(p.envelope, recipient) THEN "undecryptable"
  ELSE IF p.envelope.ciphertext.seals.payment \notin ValidPayments THEN "mismatched"
  ELSE "instruction"

\* open_instruction: decrypt, validate, compare the inner id with the outer one.
OpenInstruction(p, recipient) ==
  IF ~Decrypts(p.envelope, recipient) THEN "undecryptable"
  ELSE IF \/ p.envelope.ciphertext.seals.packet_id # p.packet_id
          \/ p.envelope.ciphertext.seals.payment \notin ValidPayments
       THEN "mismatched"
  ELSE "instruction"

\* The settlement side's checks, in order, for a packet that is fresh and new.
Verdict(p, signing, recipient) ==
  IF ~Parses(p)                               THEN "MALFORMED_PAYLOAD"
  ELSE IF ~Verifies(p, signing)               THEN "INVALID_SIGNATURE"
  ELSE IF p.envelope.aad # expected_aad(p)    THEN "MALFORMED_PAYLOAD"
  ELSE CASE OpenInstruction(p, recipient) = "instruction"   -> "SETTLED"
         [] OpenInstruction(p, recipient) = "undecryptable" -> "DECRYPTION_FAILED"
         [] OTHER                                           -> "MALFORMED_PAYLOAD"

-----------------------------------------------------------------------------
(* What can happen to a body on its way. *)

SignedField == {"packet_id", "sender_id", "created_at", "encrypted_key", "nonce",
                "ciphertext", "aad"}

\* "encoding": another offset for the same instant.  "timezone": the offset is gone.
Harm == SignedField \cup {"signature", "timezone", "encoding"}

\* One field of a body is altered; the new value belongs to nobody.
Harmed(p, harm) ==
  CASE harm = "packet_id"     -> [p EXCEPT !.packet_id = 0]
    [] harm = "sender_id"     -> [p EXCEPT !.sender_id = 0]
    [] harm = "created_at"    -> [p EXCEPT !.created_at.instant = @ + 1]
    [] harm = "encrypted_key" -> [p EXCEPT !.envelope.encrypted_key.wraps = 0]
    [] harm = "nonce"         -> [p EXCEPT !.envelope.nonce = 0]
    [] harm = "ciphertext"    -> [p EXCEPT !.envelope.ciphertext.under = 0]
    [] harm = "aad"           -> [p EXCEPT !.envelope.aad.packet_id = 0]
    [] harm = "signature"     -> [p EXCEPT !.signature.by = 0]
    [] harm = "timezone"      -> [p EXCEPT !.created_at.offset = "naive"]
    [] harm = "encoding"      -> [p EXCEPT !.created_at.offset = "shifted"]

\* The envelope of p under another id, signed by the sender's key: the AAD still names
\* the old id.
Relabelled(p, id, key) == Signed([p EXCEPT !.packet_id = id], key)

\* The instruction of p sealed for a header with another id: the AAD is the one that
\* header implies, and only the id inside the instruction tells.
Resealed(p, id, key) ==
  LET e   == p.envelope
      aad == build_aad(id, p.sender_id)
  IN Relabelled([p EXCEPT !.envelope =
       encrypt_payload(e.ciphertext.seals, e.encrypted_key.for, aad, id)], id, key)
=============================================================================
