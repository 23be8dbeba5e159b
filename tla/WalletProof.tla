----------------------------- MODULE WalletProof -----------------------------
(***************************************************************************)
(* The challenge exchange behind the gated reads (methods/wallet.ts,       *)
(* getMySettlements, getMyReservations, getMyDisputes, getMyTrades) and    *)
(* the provider earnings read (methods/providers.ts).  A read asks the     *)
(* node for a nonce, awaits it, signs "<domain>:<subject>:<nonce>", awaits *)
(* the signature and presents the proof.  Reads of several wallets and     *)
(* surfaces run at once, nonces expire, either call may fail, and a proof  *)
(* that was seen on the wire may be presented again, anywhere.             *)
(***************************************************************************)
EXTENDS Naturals, Sequences, FiniteSets

CONSTANTS
  Reads,    \* the gated reads in progress, each one SDK call
  Wallets,  \* wallets, each the holder of one keypair and of one service
  Surfaces  \* the read methods among {"settlements", ..., "earnings"}

ASSUME SurfacesAssumption ==
  Surfaces \subseteq
    {"settlements", "reservations", "disputes", "trades", "earnings"}

VARIABLES
  key,       \* key[r]: the wallet whose keypair the caller of r passed
  surface,   \* surface[r]: the method r calls
  service,   \* service[r]: the service id an earnings read names
  phase,     \* phase[r]: idle, asking, signing, presenting, or how it ended
  challenge, \* challenge[r]: the challenge r was given
  ledger,    \* ledger[n]: the subject nonce n was issued for, and its fate
  asked,     \* the reads whose challenge request is on its way
  carried,   \* the proofs on their way to the node
  seen,      \* every proof that was ever on the wire
  replayed,  \* the reads whose proof was presented again
  disclosed  \* what the node disclosed, in order

readVars == <<key, surface, service>>
proofVars == <<readVars, phase, challenge, ledger, asked, carried, seen, replayed, disclosed>>

-----------------------------------------------------------------------------
\* The node's canonical spelling of a wallet and the one the SDK encodes.
NodeSpelling(w) == <<"node", w>>
SdkSpelling(w) == <<"sdk", w>>
ServiceOf(w) == <<"service", w>>

Subjects == {NodeSpelling(w) : w \in Wallets} \cup
            {SdkSpelling(w) : w \in Wallets} \cup
            {ServiceOf(w) : w \in Wallets}

NoChallenge == [subject |-> <<>>, nonce |-> 0]

\* The node decodes a spelling, and looks a service's registrant up.
HolderOf(subject) == subject[2]

OneDomain(s) == "openfiat-my"

\* The CHALLENGE_DOMAIN constants, and the earnings domain.
Domain(s) ==
  CASE s = "settlements" -> "openfiat-my-settlements"
    [] s = "reservations" -> "openfiat-my-reservations"
    [] s = "disputes" -> "openfiat-my-disputes"
    [] s = "trades" -> "openfiat-my-trades"
    [] s = "earnings" -> "openfiat-earnings"

\* `${domain}:${subject}:${nonce}`.  No domain and no nonce holds a colon,
\* so the three parts can be told apart in the bytes.
ChallengeBytes(s, c) == <<Domain(s), c.subject, c.nonce>>

Signature(w, bytes) == [by |-> w, over |-> bytes]

ProofReencoded(r) ==
  [read |-> r, surface |-> surface[r], public_key |-> key[r],
   wallet |-> IF surface[r] = "earnings" THEN challenge[r].subject
              ELSE SdkSpelling(key[r]),
   nonce |-> challenge[r].nonce,
   signature |->
     Signature(key[r],
               ChallengeBytes(surface[r],
                              [challenge[r] EXCEPT !.subject = SdkSpelling(key[r])]))]

\* walletProof's and getProviderEarnings' return: the node's own subject is
\* echoed, and the signature is over the challenge as the node spelled it.
Proof(r) ==
  [read |-> r, surface |-> surface[r], public_key |-> key[r],
   wallet |-> challenge[r].subject, nonce |-> challenge[r].nonce,
   signature |-> Signature(key[r], ChallengeBytes(surface[r], challenge[r]))]

-----------------------------------------------------------------------------
ProofInit ==
  /\ key \in [Reads -> Wallets]
  /\ surface \in [Reads -> Surfaces]
  /\ service \in [Reads -> {ServiceOf(w) : w \in Wallets}]
  /\ phase = [r \in Reads |-> "idle"]
  /\ challenge = [r \in Reads |-> NoChallenge]
  /\ ledger = <<>>
  /\ asked = {}
  /\ carried = {}
  /\ seen = {}
  /\ replayed = {}
  /\ disclosed = <<>>

(* The SDK.                                                                *)

\* getWalletChallenge for the wallet derived from the keypair, or
\* getProviderEarningsChallenge for the service id given.
AskChallenge(r) ==
  /\ phase[r] = "idle"
  /\ phase' = [phase EXCEPT ![r] = "asking"]
  /\ asked' = asked \cup {r}
  /\ UNCHANGED <<readVars, challenge, ledger, carried, seen, replayed, disclosed>>

PresentProofUnawaited(r) ==
  /\ phase[r] \in {"asking", "signing"}
  /\ phase' = [phase EXCEPT ![r] = "presenting"]
  /\ carried' = carried \cup {Proof(r)}
  /\ seen' = seen \cup {Proof(r)}
  /\ UNCHANGED <<readVars, challenge, ledger, asked, replayed, disclosed>>

\* The signature is awaited, and the proof is sent with it.
PresentProof(r) ==
  /\ phase[r] = "signing"
  /\ phase' = [phase EXCEPT ![r] = "presenting"]
  /\ carried' = carried \cup {Proof(r)}
  /\ seen' = seen \cup {Proof(r)}
  /\ UNCHANGED <<readVars, challenge, ledger, asked, replayed, disclosed>>

\* Either call rejects with a transport error: the read rejects with it.
\* What was sent stays sent.
ReadFails(r) ==
  /\ phase[r] \in {"asking", "presenting"}
  /\ phase' = [phase EXCEPT ![r] = "failed"]
  /\ UNCHANGED <<readVars, challenge, ledger, asked, carried, seen, replayed, disclosed>>

(* The node.                                                               *)

SubjectAskedBy(r) ==
  IF surface[r] = "earnings" THEN service[r] ELSE NodeSpelling(key[r])

\* A fresh nonce for the subject.  Its answer reaches the read if the read
\* still waits for it, and otherwise is lost.
IssueChallenge(r) ==
  /\ r \in asked
  /\ asked' = asked \ {r}
  /\ ledger' = Append(ledger, [subject |-> SubjectAskedBy(r), fate |-> "open"])
  /\ \/ /\ phase[r] = "asking"
        /\ challenge' = [challenge EXCEPT
             ![r] = [subject |-> SubjectAskedBy(r), nonce |-> Len(ledger) + 1]]
        /\ phase' = [phase EXCEPT ![r] = "signing"]
     \/ UNCHANGED <<challenge, phase>>
  /\ UNCHANGED <<readVars, carried, seen, replayed, disclosed>>

Expire(n) ==
  /\ n \in DOMAIN ledger
  /\ ledger[n].fate = "open"
  /\ ledger' = [ledger EXCEPT ![n].fate = "expired"]
  /\ UNCHANGED <<readVars, phase, challenge, asked, carried, seen, replayed, disclosed>>

\* The check on a proof presented at surface s, in the order the SDK's docs
\* give: the key derives to the wallet before the nonce is touched, the
\* nonce is spent before the signature is verified.  An earnings proof
\* carries no key: the node has the registrant's.  Services have an issuer
\* of their own.
KeyMatches(p, s) ==
  s = "earnings" \/ HolderOf(p.wallet) = p.public_key

IssuedFor(subject, p, s) ==
  /\ subject[1] = "service" <=> s = "earnings"
  /\ HolderOf(subject) = HolderOf(p.wallet)

NonceIsOpen(p, s) ==
  ledger[p.nonce].fate = "open" /\ IssuedFor(ledger[p.nonce].subject, p, s)

SignatureVerifies(p, s) ==
  p.signature = Signature(HolderOf(p.wallet),
                          <<Domain(s), ledger[p.nonce].subject, p.nonce>>)

Admitted(p, s) == KeyMatches(p, s) /\ NonceIsOpen(p, s) /\ SignatureVerifies(p, s)

SpendAndDisclose(p, s) ==
  /\ ledger' = IF KeyMatches(p, s) /\ NonceIsOpen(p, s)
               THEN [ledger EXCEPT ![p.nonce].fate = "spent"] ELSE ledger
  /\ disclosed' = IF Admitted(p, s)
                  THEN Append(disclosed, [surface |-> s, nonce |-> p.nonce,
                                          records |-> HolderOf(p.wallet)])
                  ELSE disclosed

CheckProof(p) ==
  /\ p \in carried
  /\ carried' = carried \ {p}
  /\ SpendAndDisclose(p, p.surface)
  /\ \/ /\ phase[p.read] = "presenting"
        /\ phase' = [phase EXCEPT ![p.read] =
             IF Admitted(p, p.surface) THEN "answered" ELSE "refused"]
     \/ UNCHANGED phase
  /\ UNCHANGED <<readVars, challenge, asked, seen, replayed>>

\* A proof that was seen is presented again, on any surface.
PresentAgain(p, s) ==
  /\ p \in seen
  /\ SpendAndDisclose(p, s)
  /\ replayed' = replayed \cup {p.read}
  /\ UNCHANGED <<readVars, phase, challenge, asked, carried, seen>>

-----------------------------------------------------------------------------
ProofNext ==
  \/ \E r \in Reads :
       \/ AskChallenge(r) \/ PresentProof(r) \/ ReadFails(r)
       \/ IssueChallenge(r)
  \/ \E n \in DOMAIN ledger : Expire(n)
  \/ \E p \in carried : CheckProof(p)
  \/ \E p \in seen, s \in Surfaces : PresentAgain(p, s)

ProofSpec == ProofInit /\ [][ProofNext]_proofVars

-----------------------------------------------------------------------------
Proofs ==
  [read : Reads, surface : Surfaces, public_key : Wallets, wallet : Subjects,
   nonce : Nat \ {0},
   signature : [by : Wallets,
                over : {Domain(s) : s \in Surfaces} \X Subjects \X (Nat \ {0})]]

(* Type invariant: in particular every nonce a read holds was issued.      *)
ProofTypeOK ==
  /\ key \in [Reads -> Wallets]
  /\ surface \in [Reads -> Surfaces]
  /\ service \in [Reads -> {ServiceOf(w) : w \in Wallets}]
  /\ phase \in [Reads -> {"idle", "asking", "signing", "presenting",
                          "answered", "refused", "failed"}]
  /\ \A r \in Reads :
       \/ challenge[r] = NoChallenge
       \/ /\ challenge[r].subject \in Subjects
          /\ challenge[r].nonce \in DOMAIN ledger
  /\ ledger \in Seq([subject : Subjects, fate : {"open", "expired", "spent"}])
  /\ asked \subseteq Reads
  /\ carried \subseteq seen
  /\ seen \subseteq Proofs
  /\ disclosed \in Seq([surface : Surfaces, nonce : Nat, records : Wallets])

(* A wallet's records are disclosed only where the holder of that wallet   *)
(* asked for them: on that very surface, under that very nonce, by a read  *)
(* made with that wallet's key.  A signature collected on another surface, *)
(* or another read's nonce, opens nothing (settlement.ts CHALLENGE_DOMAIN).*)
DisclosedWhereAsked ==
  \A i \in DOMAIN disclosed :
    LET d == disclosed[i] IN
    \E r \in Reads :
      /\ key[r] = d.records
      /\ surface[r] = d.surface
      /\ challenge[r].nonce = d.nonce
      /\ phase[r] \in {"presenting", "answered", "refused", "failed"}

(* A read made with the right key is refused only if its nonce expired, or *)
(* its own proof was presented by someone else before it arrived.  Reads   *)
(* that run side by side never cost each other their nonce, and the echo   *)
(* of the node's spelling never fails to verify.                           *)
RefusedForAReason ==
  [][\A r \in Reads :
       phase[r] # "refused" /\ phase'[r] = "refused" =>
         \/ ledger[challenge[r].nonce].fate = "expired"
         \/ r \in replayed
         \/ surface[r] = "earnings" /\ service[r] # ServiceOf(key[r])]_proofVars
=============================================================================
