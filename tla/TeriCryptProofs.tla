-------------------------- MODULE TeriCryptProofs --------------------------
(***************************************************************************)
(* Proofs about TeriCrypt, for all identities, texts, keys and bytes.      *)
(***************************************************************************)
EXTENDS TeriCrypt, SequenceTheorems, TLAPS

-----------------------------------------------------------------------------
(* Sealing and opening.                                                    *)

\* Drawn secrets are not the degenerate one.
Real(device) == device \in IdentityKeypair /\ "zero" \notin {device.signing, device.agreement}

LEMMA KeysValid ==
    ASSUME NEW device, Real(device)
    PROVE  valid_verify_key(identity_verify_key(device)) /\ valid_agreement_key(agreement_pubkey(device))
  BY DEF Real, valid_verify_key, valid_agreement_key, identity_verify_key, agreement_pubkey,
         PublicKey, ZeroKey

\* What an answer with a text says: the signature verifies, and the ciphertext
\* opens under the derived key.
LEMMA OpenedMeans ==
    ASSUME NEW r, NEW K, NEW env, NEW t, open(r, K, env) = [text |-> t]
    PROVE  /\ Authentic(r, K, env)
           /\ Opens(KeyOf(r, K, env), env.nonce, env.ciphertext)
           /\ t = env.ciphertext.text
  <1>1. \A w : Error(w) # [text |-> t]
    <2>1. \A w : DOMAIN Error(w) = {"error"} /\ DOMAIN [text |-> t] = {"text"}
      BY DEF Error
    <2> QED
      BY <2>1
  <1>2. valid_verify_key(K) /\ Authentic(r, K, env)
    BY <1>1 DEF open
  <1>3. Opens(KeyOf(r, K, env), env.nonce, env.ciphertext)
    BY <1>1, <1>2 DEF open
  <1>4. [text |-> env.ciphertext.text] = [text |-> t]
    BY <1>2, <1>3 DEF open
  <1> QED
    BY <1>2, <1>3, <1>4

\* The recipient opens what was sealed for it, under its sender's key.
THEOREM OpensWhatWasSealed ==
    ASSUME NEW s, NEW r, Real(s), Real(r), NEW text, NEW ephemeral, NEW nonce
    PROVE  open(r, identity_verify_key(s), Sealed(s, agreement_pubkey(r), text, ephemeral, nonce))
               = [text |-> text]
  <1> DEFINE env == Sealed(s, agreement_pubkey(r), text, ephemeral, nonce)
             K == identity_verify_key(s)
  <1>1. valid_verify_key(K)
    BY KeysValid
  <1>2. Authentic(r, K, env)
    BY DEF Authentic, VerifyStrict, Sealed, SignedParts, Sign, identity_verify_key, PublicKey
  <1>3. /\ env.nonce = nonce /\ env.ephemeral_pub = PublicKey(ephemeral)
        /\ env.ciphertext = Encrypt(envelope_key(DiffieHellman(ephemeral, agreement_pubkey(r)),
                                        PublicKey(ephemeral), K, agreement_pubkey(r)), nonce, text)
    BY DEF Sealed
  <1>4. DiffieHellman(r.agreement, PublicKey(ephemeral)) = DiffieHellman(ephemeral, agreement_pubkey(r))
    BY DEF DiffieHellman, agreement_pubkey, PublicKey
  <1>5. KeyOf(r, K, env) = envelope_key(DiffieHellman(ephemeral, agreement_pubkey(r)),
                                        PublicKey(ephemeral), K, agreement_pubkey(r))
    BY <1>3, <1>4 DEF KeyOf
  <1>6. env.ciphertext = Encrypt(KeyOf(r, K, env), nonce, text) /\ env.ciphertext.text = text
    BY <1>3, <1>5 DEF Encrypt
  <1>7. Opens(KeyOf(r, K, env), env.nonce, env.ciphertext)
    BY <1>3, <1>6 DEF Opens
  <1> QED
    BY <1>1, <1>2, <1>6, <1>7 DEF open

\* An envelope that carries the signature of a sealed one, whatever its other
\* parts, opens only as that one: for the device it was sealed for, under the
\* key of the device that sealed it, and to its text (lib.rs:18, "a forwarded or
\* re-signed envelope never verifies as another conversation").
THEOREM NeverAnotherConversation ==
    ASSUME NEW s, NEW P, NEW text, NEW ephemeral, NEW nonce,
           NEW r, NEW K, NEW env, NEW t,
           K = PublicKey(K.public),
           env.signature = Sealed(s, P, text, ephemeral, nonce).signature,
           open(r, K, env) = [text |-> t]
    PROVE  /\ K = identity_verify_key(s)
           /\ P = agreement_pubkey(r)
           /\ t = text
  <1> DEFINE sealed == Sealed(s, P, text, ephemeral, nonce)
  <1>1. /\ Authentic(r, K, env)
        /\ t = env.ciphertext.text
    BY OpenedMeans
  <1>2. sealed.signature = Sign(s.signing, SignedParts(identity_verify_key(s), P, sealed))
    BY DEF Sealed, SignedParts
  <1>3. Sign(K.public, SignedParts(K, agreement_pubkey(r), env)) =
            Sign(s.signing, SignedParts(identity_verify_key(s), P, sealed))
    BY <1>1, <1>2 DEF Authentic, VerifyStrict
  <1>4. SignedParts(K, agreement_pubkey(r), env) = SignedParts(identity_verify_key(s), P, sealed)
    BY <1>3 DEF Sign
  <1>5. /\ K = identity_verify_key(s) /\ agreement_pubkey(r) = P
        /\ env.ciphertext = sealed.ciphertext
    BY <1>4 DEF SignedParts
  <1>6. sealed.ciphertext.text = text
    BY DEF Sealed, Encrypt
  <1> QED
    BY <1>1, <1>5, <1>6

\* A device that puts its own signature on another's envelope is not believed to
\* be the other, and does not get it opened in its own name either: the derived
\* key names the sender that sealed.
THEOREM ResignedNeverOpens ==
    ASSUME NEW s, NEW m, NEW r, Real(s), Real(m), s.signing # m.signing,
           NEW P, NEW text, NEW ephemeral, NEW nonce, NEW parts, NEW env, NEW K,
           K \in {identity_verify_key(s), identity_verify_key(m)},
           env.signature = Sign(m.signing, parts),
           env.ciphertext = Sealed(s, P, text, ephemeral, nonce).ciphertext,
           NEW t
    PROVE  open(r, K, env) # [text |-> t]
  <1> SUFFICES ASSUME open(r, K, env) = [text |-> t] PROVE FALSE
    OBVIOUS
  <1>1. Authentic(r, K, env) /\ Opens(KeyOf(r, K, env), env.nonce, env.ciphertext)
    BY OpenedMeans
  <1>2. K.public = m.signing
    BY <1>1 DEF Authentic, VerifyStrict, Sign
  <1>3. K = identity_verify_key(m)
    BY <1>2 DEF identity_verify_key, PublicKey
  <1>4. env.ciphertext.key = KeyOf(r, K, env)
    BY <1>1 DEF Opens, Encrypt
  <1>5. env.ciphertext.key.info = <<HKDF_INFO, identity_verify_key(s), P>>
    BY DEF Sealed, Encrypt, envelope_key, Hkdf
  <1>6. KeyOf(r, K, env).info = <<HKDF_INFO, K, agreement_pubkey(r)>>
    BY DEF KeyOf, envelope_key, Hkdf
  <1>7. K = identity_verify_key(s)
    BY <1>4, <1>5, <1>6
  <1> QED
    BY <1>3, <1>7 DEF identity_verify_key, PublicKey

-----------------------------------------------------------------------------
(* The wire.                                                               *)

\* A part of a concatenation, cut out at its offsets.
LEMMA CutsOut ==
    ASSUME NEW S, NEW p \in Seq(S), NEW q \in Seq(S), NEW z \in Seq(S)
    PROVE  SubSeq(p \o (q \o z), Len(p) + 1, Len(p) + Len(q)) = q
  <1> DEFINE raw == p \o (q \o z)
             cut == SubSeq(raw, Len(p) + 1, Len(p) + Len(q))
  <1>1. q \o z \in Seq(S) /\ Len(q \o z) = Len(q) + Len(z)
        /\ \A i \in 1 .. Len(q) : (q \o z)[i] = q[i]
    BY ConcatProperties
  <1>2. \A i \in 1 .. Len(q) : raw[Len(p) + i] = q[i]
    BY <1>1, ConcatProperties
  <1>3. \A i \in Len(p) + 1 .. Len(p) + Len(q) : raw[i] \in S
    BY <1>1, ConcatProperties
  <1>4. /\ cut \in Seq(S) /\ Len(cut) = Len(q)
        /\ \A i \in 1 .. Len(q) : cut[i] = raw[i + Len(p)]
    BY <1>3, SubSeqProperties
  <1>5. \A i \in 1 .. Len(q) : cut[i] = q[i]
    BY <1>2, <1>4
  <1> QED
    BY <1>4, <1>5, SeqEqual

\* Regrouping four sequences.
LEMMA Regroup ==
    ASSUME NEW S, NEW a \in Seq(S), NEW b \in Seq(S), NEW c \in Seq(S), NEW d \in Seq(S)
    PROVE  /\ a \o (b \o (c \o d)) = (a \o b) \o (c \o d)
           /\ a \o (b \o (c \o d)) = ((a \o b) \o c) \o d
  <1>1. c \o d \in Seq(S) /\ a \o b \in Seq(S)
    BY ConcatProperties
  <1>2. (a \o b) \o (c \o d) = a \o (b \o (c \o d))
    BY <1>1, ConcatAssociative
  <1>3. ((a \o b) \o c) \o d = (a \o b) \o (c \o d)
    BY <1>1, ConcatAssociative
  <1> QED
    BY <1>2, <1>3

\* The four parts of a concatenation, cut out at the offsets of their lengths.
LEMMA FourParts ==
    ASSUME NEW S, NEW a \in Seq(S), NEW b \in Seq(S), NEW c \in Seq(S), NEW d \in Seq(S),
           NEW raw, raw = a \o (b \o (c \o d))
    PROVE  /\ Len(raw) = Len(a) + Len(b) + Len(c) + Len(d)
           /\ SubSeq(raw, 1, Len(a)) = a
           /\ SubSeq(raw, Len(a) + 1, Len(a) + Len(b)) = b
           /\ SubSeq(raw, Len(a) + Len(b) + 1, Len(a) + Len(b) + Len(c)) = c
           /\ SubSeq(raw, Len(a) + Len(b) + Len(c) + 1, Len(raw)) = d
  <1>1. c \o d \in Seq(S) /\ Len(c \o d) = Len(c) + Len(d)
    BY ConcatProperties
  <1>2. b \o (c \o d) \in Seq(S) /\ Len(b \o (c \o d)) = Len(b) + Len(c) + Len(d)
    BY <1>1, ConcatProperties
  <1>3. raw \in Seq(S) /\ Len(raw) = Len(a) + Len(b) + Len(c) + Len(d)
    BY <1>2, ConcatProperties
  <1>4. a \o b \in Seq(S) /\ Len(a \o b) = Len(a) + Len(b)
    BY ConcatProperties
  <1>5. (a \o b) \o c \in Seq(S) /\ Len((a \o b) \o c) = Len(a) + Len(b) + Len(c)
    BY <1>4, ConcatProperties
  <1>6. raw = (a \o b) \o (c \o d) /\ raw = ((a \o b) \o c) \o d
    <2>1. (a \o b) \o (c \o d) = a \o (b \o (c \o d))
      BY <1>1, <1>4, ConcatAssociative
    <2>2. ((a \o b) \o c) \o d = (a \o b) \o (c \o d)
      BY <1>1, <1>4, ConcatAssociative
    <2> QED
      BY <2>1, <2>2, Zenon
  <1>8. <<>> \in Seq(S) /\ Len(<<>>) = 0
    OBVIOUS
  <1>9. SubSeq(raw, 1, Len(a)) = a
    <2>1. raw = <<>> \o raw
      BY <1>3, ConcatEmptySeq
    <2> QED
      BY <1>2, <1>8, <2>1, CutsOut
  <1>10. SubSeq(raw, Len(a) + 1, Len(a) + Len(b)) = b
    BY <1>1, CutsOut
  <1>11. SubSeq(raw, Len(a) + Len(b) + 1, Len(a) + Len(b) + Len(c)) = c
    BY <1>4, <1>6, CutsOut
  <1>12. SubSeq(raw, Len(a) + Len(b) + Len(c) + 1, Len(raw)) = d
    <2>1. d \o <<>> = d
      BY ConcatEmptySeq
    <2>2. raw = ((a \o b) \o c) \o (d \o <<>>)
      BY <1>6, <2>1
    <2>3. SubSeq(raw, Len((a \o b) \o c) + 1, Len((a \o b) \o c) + Len(d)) = d
      BY <1>5, <1>8, <2>2, CutsOut
    <2> QED
      BY <1>3, <1>5, <2>3
  <1> QED
    BY <1>3, <1>9, <1>10, <1>11, <1>12

\* The wire layout loses nothing: what from_bytes reads at its fixed offsets is
\* what to_bytes wrote (lib.rs:163, 178).
THEOREM WireRoundTrip ==
    ASSUME NEW e \in SealedEnvelope
    PROVE  from_bytes(to_bytes(e)) = e
  <1>1. /\ e.ephemeral_pub \in Seq(Byte) /\ Len(e.ephemeral_pub) = 32
        /\ e.nonce \in Seq(Byte) /\ Len(e.nonce) = 24
        /\ e.signature \in Seq(Byte) /\ Len(e.signature) = 64
        /\ e.ciphertext \in Seq(Byte)
    BY DEF SealedEnvelope, Bytes, EPHEMERAL_LEN, NONCE_LEN, SIGNATURE_LEN
  <1>2. PICK a \in Seq(Byte), b \in Seq(Byte), c \in Seq(Byte), d \in Seq(Byte) :
            /\ a = e.ephemeral_pub /\ b = e.nonce /\ c = e.signature /\ d = e.ciphertext
    BY <1>1
  <1>3. PICK raw : raw = to_bytes(e)
    OBVIOUS
  <1>4. Len(a) = 32 /\ Len(b) = 24 /\ Len(c) = 64 /\ Len(d) \in Nat
    BY <1>1, <1>2
  <1>9. raw = a \o (b \o (c \o d))
    BY <1>2, <1>3 DEF to_bytes
  <1>5. /\ Len(raw) = Len(a) + Len(b) + Len(c) + Len(d)
        /\ SubSeq(raw, 1, Len(a)) = a
        /\ SubSeq(raw, Len(a) + 1, Len(a) + Len(b)) = b
        /\ SubSeq(raw, Len(a) + Len(b) + 1, Len(a) + Len(b) + Len(c)) = c
        /\ SubSeq(raw, Len(a) + Len(b) + Len(c) + 1, Len(raw)) = d
    BY <1>9, FourParts, SMTT(60)
  <1>6. /\ Len(raw) = 120 + Len(d)
        /\ SubSeq(raw, 1, 32) = a /\ SubSeq(raw, 33, 56) = b
        /\ SubSeq(raw, 57, 120) = c /\ SubSeq(raw, 121, Len(raw)) = d
    <2>1. /\ Len(a) + 1 = 33 /\ Len(a) + Len(b) = 56 /\ Len(a) + Len(b) + 1 = 57
          /\ Len(a) + Len(b) + Len(c) = 120 /\ Len(a) + Len(b) + Len(c) + 1 = 121
      BY <1>4, SMT
    <2>2. Len(raw) = 120 + Len(d)
      BY <1>4, <1>5, SMT
    <2> QED
      BY <1>4, <1>5, <2>1, <2>2, Zenon
  <1>7. e = [ephemeral_pub |-> a, nonce |-> b, signature |-> c, ciphertext |-> d]
    BY <1>2 DEF SealedEnvelope
  <1>8. ~(Len(raw) < HEADER_LEN)
    BY <1>4, <1>6, SMT DEF HEADER_LEN, EPHEMERAL_LEN, NONCE_LEN, SIGNATURE_LEN
  <1> QED
    BY <1>3, <1>6, <1>7, <1>8 DEF from_bytes

\* A text of the largest size that seal accepts fits the server's cap on an
\* envelope (lib.rs:58).
THEOREM LargestFits ==
    ASSUME NEW e \in SealedEnvelope, NEW size \in 0..MAX_PLAINTEXT_BYTES,
           Len(e.ciphertext) = size + TAG_LEN
    PROVE  Len(to_bytes(e)) <= MAX_ENVELOPE
  <1>3. /\ e.ephemeral_pub \in Seq(Byte) /\ e.nonce \in Seq(Byte)
        /\ e.signature \in Seq(Byte) /\ e.ciphertext \in Seq(Byte)
        /\ Len(e.ephemeral_pub) = EPHEMERAL_LEN /\ Len(e.nonce) = NONCE_LEN
        /\ Len(e.signature) = SIGNATURE_LEN
    BY DEF SealedEnvelope, Bytes
  <1>4. Len(to_bytes(e)) = Len(e.ephemeral_pub) + Len(e.nonce) + Len(e.signature) + Len(e.ciphertext)
    <2>1. PICK a \in Seq(Byte), b \in Seq(Byte), c \in Seq(Byte), d \in Seq(Byte) :
              /\ a = e.ephemeral_pub /\ b = e.nonce /\ c = e.signature /\ d = e.ciphertext
      BY <1>3
    <2>2. PICK raw : raw = to_bytes(e)
      OBVIOUS
    <2>3. raw = a \o (b \o (c \o d))
      BY <2>1, <2>2 DEF to_bytes
    <2>4. Len(raw) = Len(a) + Len(b) + Len(c) + Len(d)
      BY <2>3, FourParts, SMTT(60)
    <2> QED
      BY <2>1, <2>2, <2>4, Zenon
  <1>1. Len(to_bytes(e)) = HEADER_LEN + Len(e.ciphertext)
    BY <1>3, <1>4, Zenon DEF HEADER_LEN
  <1>2. HEADER_LEN \in Nat /\ TAG_LEN \in Nat /\ MAX_ENVELOPE \in Nat
    BY SMT DEF HEADER_LEN, EPHEMERAL_LEN, NONCE_LEN, SIGNATURE_LEN, TAG_LEN, MAX_ENVELOPE
  <1> QED
    BY <1>1, <1>2, SMT DEF MAX_PLAINTEXT_BYTES

-----------------------------------------------------------------------------
(* Recovery phrases.                                                       *)

\* Where a bit of the phrase lies.
LEMMA BitPlace ==
    ASSUME NEW i \in 1..264
    PROVE  /\ ((i - 1) \div 11) + 1 \in 1..24
           /\ ((i - 1) % 11) + 1 \in 1..11
           /\ (((i - 1) \div 11) * 11) + ((i - 1) % 11) + 1 = i
  BY SMT

\* What encode writes is read back bit by bit.
LEMMA WordsHoldBits ==
    ASSUME NEW entropy, NEW i \in 1..264
    PROVE  BitOf(Words(entropy), i) = AllBits(entropy)[i]
  <1> DEFINE w == ((i - 1) \div 11) + 1
             b == ((i - 1) % 11) + 1
  <1>2. w \in 1..24 /\ b \in 1..11 /\ ((w - 1) * 11) + b = i
    BY BitPlace, SMT
  <1> HIDE DEF w, b
  <1>3. Words(entropy)[w][b] = AllBits(entropy)[((w - 1) * 11) + b]
    BY <1>2, Zenon DEF Words, WORD_COUNT, WORD_BITS
  <1>4. BitOf(Words(entropy), i) = Words(entropy)[w][b]
    BY Zenon DEF BitOf, WORD_BITS, w, b
  <1> QED
    BY <1>2, <1>3, <1>4, Zenon

LEMMA WordsTyped ==
    ASSUME NEW entropy \in Entropy,
           Checksum(entropy) \in [1..(ALL_BITS - ENTROPY_BITS) -> {0, 1}]
    PROVE  Words(entropy) \in [1..24 -> Word]
  <1>1. AllBits(entropy) \in [1..264 -> {0, 1}]
    BY SMT DEF AllBits, Entropy, ALL_BITS, ENTROPY_BITS, WORD_COUNT, WORD_BITS
  <1>2. \A w \in 1..24, b \in 1..11 : ((w - 1) * 11) + b \in 1..264
    BY SMT
  <1>3. \A w \in 1..24, b \in 1..11 : AllBits(entropy)[((w - 1) * 11) + b] \in {0, 1}
    BY <1>1, <1>2, Zenon
  <1> QED
    BY <1>3, Zenon DEF Words, Word, WORD_COUNT, WORD_BITS

\* A phrase that encode wrote decodes to its entropy, in whatever case, spacing
\* or normal form it is typed in (recovery.rs:79, 92).
THEOREM PhraseRoundTrip ==
    ASSUME NEW entropy \in Entropy, NEW phrase \in Phrase, phrase.words = Words(entropy),
           Checksum(entropy) \in [1..(ALL_BITS - ENTROPY_BITS) -> {0, 1}]
    PROVE  decode(phrase) = [entropy |-> entropy]
  <1>1. normalize(phrase).words = Words(entropy)
    BY DEF normalize
  <1>2. Words(entropy) \in [1..24 -> Word]
    BY WordsTyped
  <1>3. Len(Words(entropy)) = WORD_COUNT
    BY <1>2, SMT DEF Phrase, WORD_COUNT
  <1>4. \A j \in 1..WORD_COUNT : Words(entropy)[j] \in Word
    BY <1>2, Zenon DEF WORD_COUNT
  <1>5. \A j \in 1..ALL_BITS : BitOf(Words(entropy), j) = AllBits(entropy)[j]
    <2>1. ALL_BITS = 264
      BY SMT DEF ALL_BITS, WORD_COUNT, WORD_BITS
    <2> QED
      BY <2>1, WordsHoldBits
  <1>6. EntropyOf(Words(entropy)) = entropy
    <2>1. \A j \in 1..ENTROPY_BITS : j \in 1..ALL_BITS /\ j <= ENTROPY_BITS
      BY SMT DEF ENTROPY_BITS, ALL_BITS, WORD_COUNT, WORD_BITS
    <2>2. \A j \in 1..ENTROPY_BITS : AllBits(entropy)[j] = entropy[j]
      BY <2>1, Zenon DEF AllBits
    <2>3. \A j \in 1..ENTROPY_BITS : BitOf(Words(entropy), j) = entropy[j]
      BY <1>5, <2>1, <2>2, Zenon
    <2> QED
      BY <2>3, Zenon DEF EntropyOf, Entropy
  <1>7. ChecksumFits(Words(entropy))
    <2>1. \A j \in 1..(ALL_BITS - ENTROPY_BITS) :
              /\ ENTROPY_BITS + j \in 1..ALL_BITS
              /\ ~(ENTROPY_BITS + j <= ENTROPY_BITS)
              /\ (ENTROPY_BITS + j) - ENTROPY_BITS = j
      BY SMT DEF ENTROPY_BITS, ALL_BITS, WORD_COUNT, WORD_BITS
    <2>2. \A j \in 1..(ALL_BITS - ENTROPY_BITS) :
              AllBits(entropy)[ENTROPY_BITS + j] = Checksum(entropy)[j]
      BY <2>1, Zenon DEF AllBits
    <2> QED
      BY <1>5, <1>6, <2>1, <2>2, Zenon DEF ChecksumFits
  <1> QED
    BY <1>1, <1>3, <1>4, <1>6, <1>7, Zenon DEF decode, parse

=============================================================================
