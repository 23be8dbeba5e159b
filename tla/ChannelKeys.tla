------------------------------ MODULE ChannelKeys ------------------------------
(***************************************************************************)
(* typescript/src/encryption-key.ts and seal.ts: a wallet derives an X25519 *)
(* key from a signature, publishes its public half as a claim, and others  *)
(* seal to it; a gateway is sealed to by its Ed25519 key.                   *)
(*                                                                         *)
(* Cryptography is symbolic: a point names its secret, a shared secret is   *)
(* the set of the two secrets that make it, a digest is the tuple of what   *)
(* was hashed, and a ciphertext opens under exactly the key, nonce and      *)
(* associated data it was made with.  Boxes are replicated to every node,   *)
(* and a replica may hand one out with a part of another in it; so are      *)
(* claims, whose value is text, and a replica may have it wrong.            *)
(***************************************************************************)
EXTENDS Base58, FiniteSets

CONSTANTS
  Wallets,
  Gateways,
  Texts,
  KeyLength,    \* bytes of a public key
  KeyBytes(_),  \* the bytes of a point
  SampleBytes,  \* short strings of these are spelt and read back
  MaxSeals,     \* bound on the number of boxes
  MaxSignatures \* bound on a wallet's randomised signatures

ASSUME KeysAssumption ==
  MaxSeals \in Nat /\ MaxSignatures \in Nat /\ KeyLength \in Nat \ {0}

VARIABLES
  signed,  \* wallet -> randomised signatures so far
  held,    \* wallet -> its EncryptionKeypair, for as long as a call takes
  claims,  \* wallet -> the value of its EncryptionKey claim
  sealed,  \* what was sealed: [box, to, text]
  grants,  \* values that parsed, and whether sealing to them worked
  opened   \* the last box that opened: [by, box, text]

keysVars == <<signed, held, claims, sealed, grants, opened>>

-----------------------------------------------------------------------------
(* Points, shared secrets, digests, ciphertexts.                           *)

\* What is not there, or was refused with an error.
Nothing == [nothing |-> TRUE]

SmallOrder == [of |-> <<"nobody">>]
getPublicKey(secret) == [of |-> secret]

\* Throws on the all-zero result of a point of small order.
getSharedSecret(secret, point) ==
  IF point = SmallOrder THEN Nothing ELSE [between |-> {secret, point.of}]

derive(ephemeralPublic, recipient, shared) ==
  [key |-> <<"key", ephemeralPublic, recipient, shared>>,
   nonce |-> <<"nonce", ephemeralPublic, recipient, shared>>]

encrypt(key, nonce, associated, text) ==
  [key |-> key, nonce |-> nonce, associated |-> associated, text |-> text]

decrypt(ciphertext, key, nonce, associated) ==
  IF ciphertext = encrypt(key, nonce, associated, ciphertext.text)
  THEN ciphertext.text ELSE Nothing

-----------------------------------------------------------------------------
(* Wallet software.  The same wallet may be in the hands of one that signs  *)
(* the message as it is, one that wraps it, one whose signatures are not    *)
(* deterministic, and one whose signature is longer.                        *)

Signature(wallet, software, salt) ==
  [of |-> wallet, over |-> IF software = "wrapping" THEN "envelope" ELSE "message",
   salt |-> IF software = "randomised" THEN salt ELSE 0,
   length |-> IF software = "long" THEN 65 ELSE 64]

Software == {"raw", "wrapping", "randomised", "long"}

-----------------------------------------------------------------------------
(* encryption-key.ts.  A signature is 64 bytes; wallets that wrap what they *)
(* sign may give more.                                                      *)

Keypair(signature) ==
  LET secret == <<"derived", signature>>
  IN [secret |-> secret, publicKey |-> getPublicKey(secret)]

deriveEncryptionKeypairOfAnyLength(signature) == Keypair(signature)
deriveEncryptionKeypair(signature) ==
  IF signature.length # 64 THEN Nothing ELSE Keypair(signature)

KnownPoints ==
  {Keypair(Signature(w, software, salt)).publicKey :
     w \in Wallets, software \in Software, salt \in 0 .. MaxSignatures}
Whose == [bytes \in {KeyBytes(p) : p \in KnownPoints} |->
            CHOOSE p \in KnownPoints : KeyBytes(p) = bytes]

\* Keys are of one length, none is the key of two secrets, and no secret's is
\* the point of small order.
ASSUME KeyBytesAssumption ==
  /\ \A p \in KnownPoints :
       /\ KeyBytes(p) \in [1 .. KeyLength -> 0 .. 255]
       /\ KeyBytes(p) # [i \in 1 .. KeyLength |-> 0]
       /\ \A q \in KnownPoints : KeyBytes(p) = KeyBytes(q) => p = q
  /\ SampleBytes \subseteq 0 .. 255

\* Any bytes of the right length are a point; most are nobody's.
PointOf(bytes) ==
  CASE bytes = [i \in 1 .. KeyLength |-> 0] -> SmallOrder
    [] bytes \in DOMAIN Whose -> Whose[bytes]
    [] OTHER -> [of |-> <<"unknown", bytes>>]

encodeEncryptionPublicKey(point) == encodeBase58(KeyBytes(point))

\* The bytes a claim's value spells, if it is base58 at all.
ParsedAs(value, Usable(_)) ==
  LET bytes == decodeBase58(value) IN
  IF bytes.ok /\ Len(bytes.value) = KeyLength /\ Usable(PointOf(bytes.value))
  THEN PointOf(bytes.value) ELSE Nothing

parseEncryptionPublicKeyByLength(value) == ParsedAs(value, LAMBDA point : TRUE)

\* Usable means that sealing to it would work.
parseEncryptionPublicKey(value) ==
  ParsedAs(value, LAMBDA point : getSharedSecret(<<"ones">>, point) # Nothing)

(* seal.ts.                                                                *)

\* A secret of its own for every box.
randomSecretKey == <<"ephemeral", Cardinality(sealed)>>

SealWith(secret, recipientMontgomery, plaintext) ==
  LET ephemeralPublic == getPublicKey(secret)
      shared == getSharedSecret(secret, recipientMontgomery)
      d == derive(ephemeralPublic, recipientMontgomery, shared)
  IN [ephemeral_public |-> ephemeralPublic, nonce |-> d.nonce,
      ciphertext |-> encrypt(d.key, d.nonce, ephemeralPublic, plaintext)]

sealToWithOneEphemeral(recipientMontgomery, plaintext) ==
  IF recipientMontgomery = SmallOrder THEN Nothing
  ELSE SealWith(<<"ephemeral", 0>>, recipientMontgomery, plaintext)

\* Nothing: SealError.
sealTo(recipientMontgomery, plaintext) ==
  IF recipientMontgomery = SmallOrder THEN Nothing
  ELSE SealWith(randomSecretKey, recipientMontgomery, plaintext)

\* An Ed25519 key goes to its Montgomery form first, where it has one.
toMontgomery(edwards) == edwards.montgomery
seal(recipient, plaintext) ==
  IF toMontgomery(recipient) = Nothing THEN Nothing
  ELSE sealTo(toMontgomery(recipient), plaintext)

openSealedTakingItsNonceAgain(secret, box) ==
  LET shared == getSharedSecret(secret, box.ephemeral_public)
      d == derive(box.ephemeral_public, getPublicKey(secret), shared)
  IN decrypt(box.ciphertext, d.key, d.nonce, box.ephemeral_public)
openSealedHashingItsOwnKeyFirst(secret, box) ==
  LET shared == getSharedSecret(secret, box.ephemeral_public)
      d == derive(getPublicKey(secret), box.ephemeral_public, shared)
  IN decrypt(box.ciphertext, d.key, box.nonce, box.ephemeral_public)

\* Nothing: SealError, whatever the reason.  The nonce is the box's.
openSealed(secret, box) ==
  LET shared == getSharedSecret(secret, box.ephemeral_public)
      d == derive(box.ephemeral_public, getPublicKey(secret), shared)
  IN IF shared = Nothing THEN Nothing
     ELSE decrypt(box.ciphertext, d.key, box.nonce, box.ephemeral_public)

-----------------------------------------------------------------------------
\* signMessage, `times' times.
signMessage(wallet, software, times) ==
  IF software = "randomised"
  THEN /\ signed[wallet] + times <= MaxSignatures
       /\ signed' = [signed EXCEPT ![wallet] = @ + times]
  ELSE UNCHANGED signed

\* A gateway's registered key; one whose bytes are no point; and one that is
\* a point of small order.
GatewayKey(g) == [montgomery |-> getPublicKey(<<"gateway", g>>)]
RegisteredKeys == {GatewayKey(g) : g \in Gateways}
                    \cup {[montgomery |-> Nothing], [montgomery |-> SmallOrder]}

KeysInit ==
  /\ signed = [w \in Wallets |-> 0]
  /\ held = [w \in Wallets |-> Nothing]
  /\ claims = [w \in Wallets |-> Nothing]
  /\ sealed = {}
  /\ grants = {}
  /\ opened = Nothing

\* An app enrols a wallet once: it has it sign twice and publishes the key
\* only if both signatures give the same one.
Enrol(wallet, software) ==
  LET first == deriveEncryptionKeypair(Signature(wallet, software, signed[wallet] + 1))
      second == deriveEncryptionKeypair(Signature(wallet, software, signed[wallet] + 2))
  IN
  /\ claims[wallet] = Nothing
  /\ signMessage(wallet, software, 2)
  /\ first # Nothing /\ first = second
  /\ claims' = [claims EXCEPT ![wallet] = encodeEncryptionPublicKey(first.publicKey)]
  /\ UNCHANGED <<held, sealed, grants, opened>>

\* Afterwards it derives the key again for each call, on any device, and
\* holds it only if it is the published one.
Derive(wallet, software) ==
  LET pair == deriveEncryptionKeypair(Signature(wallet, software, signed[wallet] + 1)) IN
  /\ claims[wallet] # Nothing
  /\ held[wallet] = Nothing
  /\ signMessage(wallet, software, 1)
  /\ pair # Nothing
  /\ held' = [held EXCEPT ![wallet] =
                IF encodeEncryptionPublicKey(pair.publicKey) = claims[wallet]
                THEN pair ELSE Nothing]
  /\ UNCHANGED <<claims, sealed, grants, opened>>

Forget(wallet) ==
  /\ held[wallet] # Nothing
  /\ held' = [held EXCEPT ![wallet] = Nothing]
  /\ UNCHANGED <<signed, claims, sealed, grants, opened>>

Sealed(box, to, text) == sealed' = sealed \cup {[box |-> box, to |-> to, text |-> text]}

\* Whatever value a node serves for the claim is parsed, and sealed to if it
\* is usable.
SealToClaim(value, text) ==
  LET point == parseEncryptionPublicKey(value)  box == sealTo(point, text) IN
  /\ Cardinality(sealed) < MaxSeals
  /\ point # Nothing
  /\ grants' = grants \cup {box # Nothing}
  /\ IF box # Nothing THEN Sealed(box, point, text) ELSE UNCHANGED sealed
  /\ UNCHANGED <<signed, held, claims, opened>>

SealToGateway(key, text) ==
  LET box == seal(key, text) IN
  /\ Cardinality(sealed) < MaxSeals
  /\ box # Nothing
  /\ Sealed(box, toMontgomery(key), text)
  /\ UNCHANGED <<signed, held, claims, grants, opened>>

\* What replicas hand out: boxes put together from the parts of boxes.
Replicated ==
  {[ephemeral_public |-> a.box.ephemeral_public, nonce |-> b.box.nonce,
    ciphertext |-> c.box.ciphertext] : a \in sealed, b \in sealed, c \in sealed}

Opens(by, secret, box) ==
  LET text == openSealed(secret, box) IN
  /\ text # Nothing
  /\ opened' = [by |-> getPublicKey(secret), box |-> box, text |-> text]
  /\ UNCHANGED <<signed, held, claims, sealed, grants>>

Open(wallet, box) == held[wallet] # Nothing /\ Opens(wallet, held[wallet].secret, box)

\* A gateway opens with the other implementation of the same construction.
GatewayOpens(g, box) == Opens(g, <<"gateway", g>>, box)

\* A text that lost or gained its first character, or has another for its
\* last: one outside the alphabet, or another digit.
Altered(text) ==
  {Tail(text), <<0>> \o text,
   [text EXCEPT ![Len(text)] = NotInAlphabet],
   [text EXCEPT ![Len(text)] = (@ + 1) % 58]}

\* What replicas hand out for claims.
Served ==
  LET published == {claims[w] : w \in {v \in Wallets : claims[v] # Nothing}}
  IN published \cup UNION {Altered(text) : text \in published}
       \cup {encodeEncryptionPublicKey(SmallOrder)}

KeysNext ==
  \/ \E w \in Wallets, software \in Software : Enrol(w, software) \/ Derive(w, software)
  \/ \E w \in Wallets : Forget(w)
  \/ \E text \in Texts :
       \/ \E value \in Served : SealToClaim(value, text)
       \/ \E key \in RegisteredKeys : SealToGateway(key, text)
  \/ \E box \in Replicated :
       \/ \E w \in Wallets : Open(w, box)
       \/ \E g \in Gateways : GatewayOpens(g, box)

KeysSpec == KeysInit /\ [][KeysNext]_keysVars

-----------------------------------------------------------------------------
(* Properties.                                                             *)

NumberOf(digits, base) == FoldLeft(LAMBDA n, digit : n * base + digit, 0, digits)

ShortTextsAreNumbers ==
  \A bytes \in UNION {[1 .. n -> SampleBytes] : n \in 0 .. 3} :
    LET text == encodeBase58(bytes) IN
    /\ \A i \in DOMAIN text : text[i] \in 0 .. 57
    /\ NumberOf(text, 58) = NumberOf(bytes, 256)
    /\ Leading(text) = Leading(bytes)
    /\ decodeBase58(text) = [ok |-> TRUE, value |-> bytes]

\* A claim's text is one key: it is read back as the key its wallet signed
\* for, by whoever reads it, and the text with one character lost, added or
\* changed is another key or none.  A key in hand is the published one, made of
\* a whole signature.  Behind it, every short byte string is the number its
\* text is in base 58, behind as many ones as it begins with zeros, and is read
\* back from it.
TextIsTheKey ==
  /\ \A w \in Wallets : claims[w] # Nothing =>
       LET key == parseEncryptionPublicKey(claims[w]) IN
       /\ key # Nothing
       /\ key.of[2].length = 64 /\ key.of[2].of = w
       /\ \A text \in Altered(claims[w]) : parseEncryptionPublicKey(text) # key
       /\ held[w] # Nothing => held[w].publicKey = key
  /\ \A w \in Wallets : claims[w] = Nothing => held[w] = Nothing
  /\ ShortTextsAreNumbers

\* What opens is what was sealed: a box that somebody sealed, to the one who
\* opens it, with no part of it exchanged, and to the same text.
OpensToWhatWasSealed ==
  opened # Nothing =>
    [box |-> opened.box, to |-> opened.by, text |-> opened.text] \in sealed

\* No two boxes share a key and nonce, to whomever they go and whatever is in
\* them.
NoKeyStreamTwice ==
  \A a, b \in sealed :
    a.box.ciphertext.key = b.box.ciphertext.key
      /\ a.box.ciphertext.nonce = b.box.ciphertext.nonce => a = b

\* No box is sealed under a secret everybody knows: neither a claim nor a
\* gateway's registered key of small order gets that far; a claim of that kind
\* is turned down where it is parsed, so sealing to one that parsed succeeds.
SealedForOne == (\A s \in sealed : s.to # SmallOrder) /\ FALSE \notin grants

\* A wallet reads its whole history: with the key it derived today every
\* intact box ever sealed to its claim opens.
HistoryStaysReadable ==
  \A w \in Wallets, s \in sealed :
    held[w] # Nothing /\ s.to = held[w].publicKey
      => openSealed(held[w].secret, s.box) = s.text
=============================================================================
