----------------------------- MODULE TeriCrypt -----------------------------
(***************************************************************************)
(* The device cryptography of direct messages (crates/tericrypt): sealing, *)
(* opening, the wire layout, key validation and recovery phrases.          *)
(*                                                                         *)
(* The primitives are the ideal ones of a free term algebra: a public key, *)
(* an agreed secret, a derived key, a signature and a ciphertext are equal *)
(* only if they are made from equal parts, a signature verifies only if it *)
(* was made over these parts, and a ciphertext opens only under its key    *)
(* and nonce.  What is modelled is what the crate does with them: which    *)
(* parts it binds, in which order it checks, what it refuses.              *)
(***************************************************************************)
EXTENDS Integers, Sequences

CONSTANTS
    Secrets,    \* 32-byte secret values: signing seeds, agreement and ephemeral secrets
    Nonces,
    Texts,      \* plaintexts
    Sha256      \* the digest of each recovery entropy: its bits

-----------------------------------------------------------------------------
(* Primitives of the libraries.                                            *)

PublicKey(secret) == [public |-> secret]

\* The degenerate all-zero key: no secret belongs to it.
ZeroKey == [public |-> "zero"]

\* Both ends agree on the same secret.
DiffieHellman(secret, key) == {secret, key.public}

Hkdf(salt, shared, info) == [salt |-> salt, shared |-> shared, info |-> info]

Encrypt(key, nonce, text) == [key |-> key, nonce |-> nonce, text |-> text]

Opens(key, nonce, ciphertext) == ciphertext = Encrypt(key, nonce, ciphertext.text)

Sign(secret, parts) == [by |-> secret, over |-> parts]

VerifyStrict(key, parts, signature) == signature = Sign(key.public, parts)

-----------------------------------------------------------------------------
(* Identities and keys.                                                    *)

\* The two secrets are drawn independently.
IdentityKeypair == [signing: Secrets, agreement: Secrets]

identity_verify_key(device) == PublicKey(device.signing)

agreement_pubkey(device) == PublicKey(device.agreement)

\* Other encodings that do not parse are not represented by a key.
valid_verify_key(key) == key # ZeroKey

valid_agreement_key(key) == key # ZeroKey

-----------------------------------------------------------------------------
(* Sealing and opening.                                                    *)

Error(what) == [error |-> what]

HKDF_INFO == "terichat-dm-v2"

envelope_key(shared, ephemeral_pub, sender_verify, recipient_agreement) ==
    Hkdf(ephemeral_pub, shared, <<HKDF_INFO, sender_verify, recipient_agreement>>)

\* What the sender signs, and what the recipient verifies.
SignedParts(sender_verify, recipient_agreement, envelope) ==
    <<sender_verify, recipient_agreement, envelope.ephemeral_pub, envelope.nonce,
      envelope.ciphertext>>

\* The envelope of a text that fits, for a recipient key that is not degenerate;
\* ephemeral and nonce are what the system's randomness yields.
Sealed(sender, recipient_agreement, text, ephemeral, nonce) ==
    LET ephemeral_pub == PublicKey(ephemeral)
        key == envelope_key(DiffieHellman(ephemeral, recipient_agreement), ephemeral_pub,
                            identity_verify_key(sender), recipient_agreement)
        blank == [ephemeral_pub |-> ephemeral_pub, nonce |-> nonce,
                  ciphertext |-> Encrypt(key, nonce, text)]
    IN [ephemeral_pub |-> ephemeral_pub, nonce |-> nonce, ciphertext |-> blank.ciphertext,
        signature |-> Sign(sender.signing,
                           SignedParts(identity_verify_key(sender), recipient_agreement, blank))]

seal(sender, recipient_agreement, text, size, max, ephemeral, nonce) ==
    CASE size > max -> Error("TooLarge")
      [] size <= max /\ ~valid_agreement_key(recipient_agreement) -> Error("InvalidAgreementKey")
      [] OTHER -> Sealed(sender, recipient_agreement, text, ephemeral, nonce)

\* The signature is checked before anything is decrypted.
Authentic(recipient, sender_verify, envelope) ==
    VerifyStrict(sender_verify, SignedParts(sender_verify, agreement_pubkey(recipient), envelope),
                 envelope.signature)

KeyOf(recipient, sender_verify, envelope) ==
    envelope_key(DiffieHellman(recipient.agreement, envelope.ephemeral_pub),
                 envelope.ephemeral_pub, sender_verify, agreement_pubkey(recipient))

open(recipient, sender_verify, envelope) ==
    CASE ~valid_verify_key(sender_verify) -> Error("InvalidSignature")
      [] valid_verify_key(sender_verify) /\ ~Authentic(recipient, sender_verify, envelope) ->
             Error("InvalidSignature")
      [] OTHER ->
             IF Opens(KeyOf(recipient, sender_verify, envelope), envelope.nonce, envelope.ciphertext)
             THEN [text |-> envelope.ciphertext.text] ELSE Error("DecryptFailed")

-----------------------------------------------------------------------------
(* The wire.                                                               *)

Byte == 0..255

EPHEMERAL_LEN == 32
NONCE_LEN == 24
SIGNATURE_LEN == 64
HEADER_LEN == EPHEMERAL_LEN + NONCE_LEN + SIGNATURE_LEN
TAG_LEN == 16
MAX_ENVELOPE == 1024 * 1024
MAX_PLAINTEXT_BYTES == MAX_ENVELOPE - HEADER_LEN - TAG_LEN

Bytes(n) == {s \in Seq(Byte) : Len(s) = n}

SealedEnvelope ==
    [ephemeral_pub: Bytes(EPHEMERAL_LEN), nonce: Bytes(NONCE_LEN),
     signature: Bytes(SIGNATURE_LEN), ciphertext: Seq(Byte)]

to_bytes(e) == e.ephemeral_pub \o (e.nonce \o (e.signature \o e.ciphertext))

from_bytes(raw) ==
    IF Len(raw) < HEADER_LEN THEN Error("InvalidEnvelope")
    ELSE [ephemeral_pub |-> SubSeq(raw, 1, 32),
          nonce |-> SubSeq(raw, 33, 56),
          signature |-> SubSeq(raw, 57, 120),
          ciphertext |-> SubSeq(raw, 121, Len(raw))]

-----------------------------------------------------------------------------
(* Recovery phrases: 256 bits of entropy and a checksum of 8, cut into 24  *)
(* words of 11 bits.  A phrase is its words and whether it is written in   *)
(* the canonical way (lower case, single spaces, NFKD).                    *)

WORD_COUNT == 24
ENTROPY_BITS == 256
WORD_BITS == 11
ALL_BITS == WORD_COUNT * WORD_BITS

Entropy == [1..ENTROPY_BITS -> {0, 1}]

\* A word of the English list, by its number.
Word == [1..WORD_BITS -> {0, 1}]

\* The first bits of SHA-256 of the entropy.
Checksum(entropy) == [i \in 1..(ALL_BITS - ENTROPY_BITS) |-> Sha256[entropy][i]]

AllBits(entropy) ==
    [i \in 1..ALL_BITS |-> IF i <= ENTROPY_BITS THEN entropy[i]
                           ELSE Checksum(entropy)[i - ENTROPY_BITS]]

\* Mnemonic::from_entropy_in
Words(entropy) ==
    [w \in 1..WORD_COUNT |-> [b \in 1..WORD_BITS |-> AllBits(entropy)[(w - 1) * WORD_BITS + b]]]

BitOf(words, i) == words[((i - 1) \div WORD_BITS) + 1][((i - 1) % WORD_BITS) + 1]

\* Mnemonic::to_entropy
EntropyOf(words) == [i \in 1..ENTROPY_BITS |-> BitOf(words, i)]

\* Mnemonic::parse_in_normalized
ChecksumFits(words) ==
    \A i \in 1..(ALL_BITS - ENTROPY_BITS) :
        BitOf(words, ENTROPY_BITS + i) = Checksum(EntropyOf(words))[i]

Phrase == [words: Seq(Word \cup {"unknown"}), canonical: BOOLEAN]

encode(entropy) == [words |-> Words(entropy), canonical |-> TRUE]

normalize(phrase) == [words |-> phrase.words, canonical |-> TRUE]

check_canonical(phrase) ==
    IF normalize(phrase) = phrase THEN [ok |-> TRUE] ELSE Error("NotNormalized")

\* Length, words and checksum, in this order.
parse(phrase) ==
    CASE Len(phrase.words) # WORD_COUNT -> Error("BadLength")
      [] Len(phrase.words) = WORD_COUNT
           /\ \E i \in 1..WORD_COUNT : phrase.words[i] \notin Word -> Error("BadWord")
      [] OTHER -> IF ChecksumFits(phrase.words) THEN [entropy |-> EntropyOf(phrase.words)]
                  ELSE Error("BadChecksum")

decode(phrase) == parse(normalize(phrase))

=============================================================================
