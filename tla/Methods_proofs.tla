----------------------------- MODULE Methods_proofs -----------------------------
(***************************************************************************)
(* Proofs about what the typed methods do with a call: the proofs of gated  *)
(* reads (WalletProof), the generator over the book (AdvertisementWalk) and *)
(* the events of a trade (TradeLifecycle).                                  *)
(***************************************************************************)
EXTENDS WalletProof, AdvertisementWalk, TradeLifecycle, SequenceTheorems,
        FiniteSetTheorems, TLAPS

-----------------------------------------------------------------------------
(***************************************************************************)
(* WalletProof, for any reads, wallets and surfaces: what a wallet holds is *)
(* disclosed only where its own key asked, and no read is refused without a *)
(* reason, although nonces are issued, lost, expired and presented again    *)
(* without bound.                                                           *)
(***************************************************************************)

Entry == [subject : Subjects, fate : {"open", "expired", "spent"}]

Disclosure == [surface : Surfaces, nonce : Nat, records : Wallets]

Presented == {"presenting", "answered", "refused", "failed"}

ChallengeIsTyped ==
  challenge \in [Reads -> [subject : Subjects \cup {<<>>}, nonce : Nat]]

(* A read signs only what the node gave it.                                *)
SigningHasChallenge ==
  \A r \in Reads : phase[r] = "signing" =>
    challenge[r].subject \in Subjects /\ challenge[r].nonce \in DOMAIN ledger

(* A proof on the wire is the one its read made, of a challenge that can   *)
(* no longer change.                                                       *)
SeenIsMade ==
  \A p \in seen : p = Proof(p.read) /\ phase[p.read] \in Presented

(* The nonce of a proof on the wire was issued.                            *)
SeenIsIssued == \A p \in seen : p.nonce \in DOMAIN ledger

ProofInv ==
  /\ ProofTypeOK
  /\ ChallengeIsTyped
  /\ SigningHasChallenge
  /\ SeenIsMade
  /\ SeenIsIssued
  /\ DisclosedWhereAsked
-----------------------------------------------------------------------------
LEMMA SubjectsHaveHolders ==
  ASSUME NEW subject \in Subjects
  PROVE  HolderOf(subject) \in Wallets
BY DEF Subjects, HolderOf, NodeSpelling, SdkSpelling, ServiceOf

(* No two surfaces sign under one domain.                                  *)
LEMMA DomainsDiffer ==
  ASSUME NEW s \in Surfaces, NEW t \in Surfaces, Domain(s) = Domain(t)
  PROVE  s = t
BY SurfacesAssumption DEF Domain

(* Spending a nonce, or letting it expire, changes its fate alone.         *)
LEMMA FateChanges ==
  ASSUME ledger \in Seq(Entry), NEW n \in DOMAIN ledger,
         NEW fate \in {"expired", "spent"}
  PROVE  /\ [ledger EXCEPT ![n].fate = fate] \in Seq(Entry)
         /\ DOMAIN [ledger EXCEPT ![n].fate = fate] = DOMAIN ledger
<1>1. [ledger[n] EXCEPT !.fate = fate] \in Entry
  <2>1. ledger[n] \in Entry
    BY ElementOfSeq, LenProperties
  <2> QED  BY <2>1 DEF Entry
<1>2. [ledger EXCEPT ![n].fate = fate] = [ledger EXCEPT ![n] = [ledger[n] EXCEPT !.fate = fate]]
  OBVIOUS
<1> QED  BY <1>1, <1>2, ExceptSeq, LenProperties

(* Issuing appends an open nonce.                                          *)
LEMMA IssueAppends ==
  ASSUME ledger \in Seq(Entry), NEW subject \in Subjects,
         ledger' = Append(ledger, [subject |-> subject, fate |-> "open"])
  PROVE  /\ ledger' \in Seq(Entry)
         /\ DOMAIN ledger \subseteq DOMAIN ledger'
         /\ Len(ledger) + 1 \in DOMAIN ledger'
<1>1. [subject |-> subject, fate |-> "open"] \in Entry
  BY DEF Entry
<1>2. ledger' \in Seq(Entry) /\ Len(ledger') = Len(ledger) + 1
  BY <1>1, AppendProperties
<1>3. DOMAIN ledger = 1..Len(ledger) /\ DOMAIN ledger' = 1..Len(ledger') /\ Len(ledger) \in Nat
  BY <1>2, LenProperties
<1> QED  BY <1>2, <1>3

(* What presenting a proof does to the node, wherever it is presented.     *)
LEMMA PresentingKeepsLedger ==
  ASSUME ledger \in Seq(Entry), NEW p, p.nonce \in DOMAIN ledger, NEW s,
         SpendAndDisclose(p, s)
  PROVE  ledger' \in Seq(Entry) /\ DOMAIN ledger' = DOMAIN ledger
<1>1. CASE KeyMatches(p, s) /\ NonceIsOpen(p, s)
  BY <1>1, FateChanges DEF SpendAndDisclose
<1>2. CASE ~(KeyMatches(p, s) /\ NonceIsOpen(p, s))
  BY <1>2 DEF SpendAndDisclose
<1> QED  BY <1>1, <1>2

(* The heart of it: a proof is admitted only where its read asked.         *)
LEMMA AdmittedIsAsked ==
  ASSUME ProofTypeOK, SeenIsMade, NEW p \in seen, NEW s \in Surfaces, Admitted(p, s)
  PROVE  /\ p.read \in Reads
         /\ key[p.read] = HolderOf(p.wallet)
         /\ surface[p.read] = s
         /\ challenge[p.read].nonce = p.nonce
         /\ phase[p.read] \in Presented
<1> DEFINE r == p.read
<1>1. r \in Reads /\ p = Proof(r) /\ phase[r] \in Presented
  BY DEF ProofTypeOK, Proofs, SeenIsMade
<1>2. p.nonce = challenge[r].nonce
  BY <1>1 DEF Proof
<1>3. p.signature = [by |-> key[r], over |-> <<Domain(surface[r]),
                     challenge[r].subject, challenge[r].nonce>>]
  BY <1>1 DEF Proof, Signature, ChallengeBytes
<1>4. p.signature = [by |-> HolderOf(p.wallet),
                     over |-> <<Domain(s), ledger[p.nonce].subject, p.nonce>>]
  BY DEF Admitted, SignatureVerifies, Signature
<1>5. key[r] = HolderOf(p.wallet)
  <2>1. p.signature.by = key[r]
    BY <1>3
  <2>2. p.signature.by = HolderOf(p.wallet)
    BY <1>4
  <2> QED  BY <2>1, <2>2
<1>6. Domain(surface[r]) = Domain(s)
  <2>1. p.signature.over[1] = Domain(surface[r])
    BY <1>3
  <2>2. p.signature.over[1] = Domain(s)
    BY <1>4
  <2> QED  BY <2>1, <2>2
<1>7. surface[r] = s
  BY <1>1, <1>6, DomainsDiffer DEF ProofTypeOK
<1> QED  BY <1>1, <1>2, <1>5, <1>7

(* Presenting a proof anywhere discloses, if anything, what was asked for. *)
LEMMA PresentingDiscloses ==
  ASSUME ProofTypeOK, SeenIsMade, SeenIsIssued, DisclosedWhereAsked,
         NEW p \in seen, NEW s \in Surfaces, SpendAndDisclose(p, s),
         UNCHANGED <<key, surface, challenge>>,
         \A r \in Reads : phase[r] \in Presented => phase'[r] \in Presented
  PROVE  disclosed' \in Seq(Disclosure) /\ DisclosedWhereAsked'
<1>1. disclosed \in Seq(Disclosure)
  BY DEF ProofTypeOK, Disclosure
<1>2. CASE Admitted(p, s)
  <2> DEFINE d == [surface |-> s, nonce |-> p.nonce, records |-> HolderOf(p.wallet)]
  <2>1. disclosed' = Append(disclosed, d)
    BY <1>2 DEF SpendAndDisclose
  <2>2. d \in Disclosure
    BY SubjectsHaveHolders DEF ProofTypeOK, Proofs, Disclosure
  <2> HIDE DEF d
  <2>3. /\ disclosed' \in Seq(Disclosure)
        /\ Len(disclosed') = Len(disclosed) + 1
        /\ \A i \in 1..Len(disclosed) : disclosed'[i] = disclosed[i]
        /\ disclosed'[Len(disclosed) + 1] = d
    BY <1>1, <2>1, <2>2, AppendProperties
  <2>4. /\ DOMAIN disclosed = 1..Len(disclosed) /\ Len(disclosed) \in Nat
        /\ DOMAIN disclosed' = 1..Len(disclosed')
    BY <1>1, <2>3, LenProperties
  <2>5. ASSUME NEW i \in DOMAIN disclosed'
        PROVE  \E r \in Reads :
                 /\ key'[r] = disclosed'[i].records
                 /\ surface'[r] = disclosed'[i].surface
                 /\ challenge'[r].nonce = disclosed'[i].nonce
                 /\ phase'[r] \in Presented
    <3>1. CASE i \in DOMAIN disclosed
      BY <2>3, <2>4, <3>1 DEF DisclosedWhereAsked, Presented
    <3>2. CASE i = Len(disclosed) + 1
      BY <1>2, <2>3, <3>2, AdmittedIsAsked DEF d
    <3> QED  BY <2>3, <2>4, <3>1, <3>2
  <2> QED  BY <2>3, <2>5 DEF DisclosedWhereAsked, Presented
<1>3. CASE ~Admitted(p, s)
  <2>1. disclosed' = disclosed
    BY <1>3 DEF SpendAndDisclose
  <2> QED  BY <1>1, <2>1 DEF DisclosedWhereAsked, Presented
<1> QED  BY <1>2, <1>3
-----------------------------------------------------------------------------
LEMMA ProofStarts == ProofInit => ProofInv
<1> SUFFICES ASSUME ProofInit PROVE ProofInv
  OBVIOUS
<1>1. ProofTypeOK /\ ChallengeIsTyped
  BY EmptySeq DEF ProofInit, ProofTypeOK, ChallengeIsTyped, NoChallenge
<1>2. SigningHasChallenge /\ SeenIsMade /\ SeenIsIssued /\ DisclosedWhereAsked
  BY DEF ProofInit, SigningHasChallenge, SeenIsMade, SeenIsIssued, DisclosedWhereAsked
<1> QED  BY <1>1, <1>2 DEF ProofInv

(* A proof is not affected by what happens to other reads, or to its own   *)
(* once it was presented.                                                  *)
LEMMA SeenStays ==
  ASSUME ProofInv, UNCHANGED readVars, seen' = seen,
         \A r \in Reads : phase[r] \in Presented =>
           phase'[r] \in Presented /\ challenge'[r] = challenge[r],
         DOMAIN ledger \subseteq DOMAIN ledger'
  PROVE  SeenIsMade' /\ SeenIsIssued'
<1>1. ASSUME NEW p \in seen PROVE p = Proof(p.read)' /\ phase'[p.read] \in Presented
  <2>1. p.read \in Reads /\ p = Proof(p.read) /\ phase[p.read] \in Presented
    BY DEF ProofInv, ProofTypeOK, Proofs, SeenIsMade
  <2>2. /\ challenge'[p.read] = challenge[p.read] /\ phase'[p.read] \in Presented
        /\ key' = key /\ surface' = surface
    BY <2>1 DEF readVars
  <2> QED  BY <2>1, <2>2 DEF Proof, ChallengeBytes
<1> QED  BY <1>1 DEF ProofInv, SeenIsMade, SeenIsIssued

(* What was disclosed was asked for, whatever happens to the read since.   *)
LEMMA DisclosedStays ==
  ASSUME ProofInv, UNCHANGED <<readVars, disclosed>>,
         \A r \in Reads : phase[r] \in Presented =>
           phase'[r] \in Presented /\ challenge'[r] = challenge[r]
  PROVE  DisclosedWhereAsked'
BY DEF ProofInv, readVars, DisclosedWhereAsked, Presented

LEMMA ProofAskKeeps == ASSUME ProofInv, NEW r \in Reads, AskChallenge(r) PROVE ProofInv'
<1>1. ProofTypeOK' /\ ChallengeIsTyped' /\ SigningHasChallenge'
  BY DEF AskChallenge, ProofInv, ProofTypeOK, ChallengeIsTyped, SigningHasChallenge, readVars
<1>2. \A q \in Reads : phase[q] \in Presented => phase'[q] \in Presented
  BY DEF AskChallenge, ProofInv, ProofTypeOK, Presented
<1> QED  BY <1>1, <1>2, SeenStays, DisclosedStays DEF AskChallenge, ProofInv

LEMMA FailKeeps == ASSUME ProofInv, NEW r \in Reads, ReadFails(r) PROVE ProofInv'
<1>1. ProofTypeOK' /\ ChallengeIsTyped' /\ SigningHasChallenge'
  BY DEF ReadFails, ProofInv, ProofTypeOK, ChallengeIsTyped, SigningHasChallenge, readVars
<1>2. \A q \in Reads : phase[q] \in Presented => phase'[q] \in Presented
  BY DEF ReadFails, ProofInv, ProofTypeOK, Presented
<1> QED  BY <1>1, <1>2, SeenStays, DisclosedStays DEF ReadFails, ProofInv

LEMMA PresentKeeps == ASSUME ProofInv, NEW r \in Reads, PresentProof(r) PROVE ProofInv'
<1>1. challenge[r].subject \in Subjects /\ challenge[r].nonce \in DOMAIN ledger
  BY DEF PresentProof, ProofInv, SigningHasChallenge
<1>2. challenge[r].nonce \in Nat \ {0}
  BY <1>1, LenProperties DEF ProofInv, ProofTypeOK
<1>3. Proof(r) \in Proofs /\ Proof(r).read = r /\ Proof(r).nonce = challenge[r].nonce
  BY <1>1, <1>2 DEF Proof, Proofs, Signature, ChallengeBytes, ProofInv, ProofTypeOK
<1>4. phase' = [phase EXCEPT ![r] = "presenting"] /\ phase[r] = "signing"
  BY DEF PresentProof
<1>5. ProofTypeOK' /\ ChallengeIsTyped' /\ SigningHasChallenge'
  BY <1>3, <1>4 DEF PresentProof, ProofInv, ProofTypeOK, ChallengeIsTyped,
     SigningHasChallenge, readVars
<1>6. \A q \in Reads : phase[q] \in Presented => phase'[q] \in Presented
  BY <1>4 DEF ProofInv, ProofTypeOK, Presented
<1>7. \A q : Proof(q)' = Proof(q)
  BY DEF PresentProof, readVars, Proof, ChallengeBytes
<1>8. SeenIsMade'
  <2> SUFFICES ASSUME NEW p \in seen'
               PROVE  p = Proof(p.read) /\ phase'[p.read] \in Presented
    BY <1>7 DEF SeenIsMade
  <2>1. CASE p = Proof(r)
    BY <1>3, <1>4, <2>1 DEF ProofInv, ProofTypeOK, Presented
  <2>2. CASE p \in seen
    BY <1>6, <2>2 DEF ProofInv, ProofTypeOK, Proofs, SeenIsMade
  <2> QED  BY <2>1, <2>2 DEF PresentProof
<1>9. SeenIsIssued'
  BY <1>1, <1>3 DEF PresentProof, ProofInv, SeenIsIssued
<1>10. DisclosedWhereAsked'
  BY <1>6, DisclosedStays DEF PresentProof
<1> QED  BY <1>5, <1>8, <1>9, <1>10 DEF ProofInv

LEMMA IssueKeeps == ASSUME ProofInv, NEW r \in Reads, IssueChallenge(r) PROVE ProofInv'
<1> DEFINE c == [subject |-> SubjectAskedBy(r), nonce |-> Len(ledger) + 1]
<1>1. SubjectAskedBy(r) \in Subjects
  BY DEF SubjectAskedBy, ProofInv, ProofTypeOK, Subjects
<1>2. /\ ledger' \in Seq(Entry)
      /\ DOMAIN ledger \subseteq DOMAIN ledger'
      /\ Len(ledger) + 1 \in DOMAIN ledger' /\ Len(ledger) + 1 \in Nat
  BY <1>1, IssueAppends, LenProperties DEF IssueChallenge, ProofInv, ProofTypeOK, Entry
<1>3. c.subject \in Subjects /\ c.nonce \in DOMAIN ledger' /\ c.nonce \in Nat
  BY <1>1, <1>2
<1>4. \/ /\ phase[r] = "asking"
         /\ challenge' = [challenge EXCEPT ![r] = c]
         /\ phase' = [phase EXCEPT ![r] = "signing"]
      \/ UNCHANGED <<challenge, phase>>
  BY DEF IssueChallenge
<1> HIDE DEF c
<1>5. ChallengeIsTyped' /\ SigningHasChallenge'
  <2>1. c \in [subject : Subjects \cup {<<>>}, nonce : Nat]
    BY <1>3 DEF c
  <2>2. ChallengeIsTyped'
    BY <1>4, <2>1 DEF ProofInv, ChallengeIsTyped
  <2>3. SigningHasChallenge'
    <3>1. CASE challenge' = [challenge EXCEPT ![r] = c] /\ phase' = [phase EXCEPT ![r] = "signing"]
      BY <1>2, <1>3, <3>1 DEF ProofInv, ProofTypeOK, ChallengeIsTyped, SigningHasChallenge
    <3>2. CASE UNCHANGED <<challenge, phase>>
      BY <1>2, <3>2 DEF ProofInv, SigningHasChallenge
    <3> QED  BY <1>4, <3>1, <3>2
  <2> QED  BY <2>2, <2>3
<1>6. \A q \in Reads :
        \/ challenge'[q] = NoChallenge
        \/ challenge'[q].subject \in Subjects /\ challenge'[q].nonce \in DOMAIN ledger'
  BY <1>2, <1>3, <1>4 DEF ProofInv, ProofTypeOK, ChallengeIsTyped
<1>7. ProofTypeOK'
  <2>1. phase' \in [Reads -> {"idle", "asking", "signing", "presenting",
                            "answered", "refused", "failed"}]
    BY <1>4 DEF ProofInv, ProofTypeOK
  <2>2. /\ UNCHANGED <<key, surface, service, carried, seen, disclosed>>
        /\ asked' \subseteq asked
    BY DEF IssueChallenge, readVars
  <2>3. ledger' \in Seq([subject : Subjects, fate : {"open", "expired", "spent"}])
    BY <1>2 DEF Entry
  <2> QED  BY <1>6, <2>1, <2>2, <2>3 DEF ProofInv, ProofTypeOK
<1>8. \A q \in Reads : phase[q] \in Presented =>
        phase'[q] \in Presented /\ challenge'[q] = challenge[q]
  BY <1>4 DEF ProofInv, ProofTypeOK, ChallengeIsTyped, Presented
<1> QED  BY <1>2, <1>5, <1>7, <1>8, SeenStays, DisclosedStays DEF IssueChallenge, ProofInv

LEMMA ExpireKeeps == ASSUME ProofInv, NEW n \in DOMAIN ledger, Expire(n) PROVE ProofInv'
<1>1. ledger' \in Seq(Entry) /\ DOMAIN ledger' = DOMAIN ledger
  BY FateChanges DEF Expire, ProofInv, ProofTypeOK, Entry
<1>2. ProofTypeOK' /\ ChallengeIsTyped' /\ SigningHasChallenge'
  BY <1>1 DEF Expire, ProofInv, ProofTypeOK, ChallengeIsTyped, SigningHasChallenge, readVars, Entry
<1> QED  BY <1>1, <1>2, SeenStays, DisclosedStays DEF Expire, ProofInv

(* A proof that is presented, by its read or again, on any surface.        *)
LEMMA PresentedKeeps ==
  ASSUME ProofInv, NEW p \in seen, NEW s \in Surfaces, SpendAndDisclose(p, s),
         UNCHANGED <<readVars, challenge, asked, seen>>, carried' \subseteq carried,
         \/ phase' = phase
         \/ /\ phase[p.read] = "presenting"
            /\ \E end \in {"answered", "refused"} :
                 phase' = [phase EXCEPT ![p.read] = end]
  PROVE  ProofInv'
<1>1. ledger' \in Seq(Entry) /\ DOMAIN ledger' = DOMAIN ledger
  <2>1. ledger \in Seq(Entry) /\ p.nonce \in DOMAIN ledger
    BY DEF ProofInv, ProofTypeOK, Entry, SeenIsIssued
  <2> QED  BY <2>1, PresentingKeepsLedger
<1>2. p.read \in Reads
  BY DEF ProofInv, ProofTypeOK, Proofs
<1>3. /\ \A r \in Reads : phase[r] \in Presented => phase'[r] \in Presented
      /\ \A r \in Reads : phase'[r] = "signing" => phase[r] = "signing"
      /\ phase' \in [Reads -> {"idle", "asking", "signing", "presenting",
                              "answered", "refused", "failed"}]
  BY <1>2 DEF ProofInv, ProofTypeOK, Presented
<1>4. disclosed' \in Seq(Disclosure) /\ DisclosedWhereAsked'
  BY <1>3, PresentingDiscloses DEF ProofInv, readVars
<1>5. ProofTypeOK' /\ ChallengeIsTyped' /\ SigningHasChallenge'
  BY <1>1, <1>3, <1>4 DEF ProofInv, ProofTypeOK, ChallengeIsTyped, SigningHasChallenge,
     readVars, Entry, Disclosure
<1> QED  BY <1>1, <1>3, <1>4, <1>5, SeenStays DEF ProofInv

LEMMA CheckKeeps == ASSUME ProofInv, NEW p \in carried, CheckProof(p) PROVE ProofInv'
<1>1. p \in seen /\ p.surface \in Surfaces
  BY DEF ProofInv, ProofTypeOK, Proofs
<1>2. \/ phase' = phase
      \/ /\ phase[p.read] = "presenting"
         /\ \E end \in {"answered", "refused"} :
              phase' = [phase EXCEPT ![p.read] = end]
  BY DEF CheckProof
<1>3. /\ SpendAndDisclose(p, p.surface) /\ carried' \subseteq carried
      /\ UNCHANGED <<readVars, challenge, asked, seen>>
  BY DEF CheckProof
<1> QED  BY <1>1, <1>2, <1>3, PresentedKeeps

LEMMA AgainKeeps ==
  ASSUME ProofInv, NEW p \in seen, NEW s \in Surfaces, PresentAgain(p, s) PROVE ProofInv'
BY PresentedKeeps DEF PresentAgain

LEMMA ProofInvariance == ProofSpec => []ProofInv
<1>1. ProofInv /\ [ProofNext]_proofVars => ProofInv'
  <2> SUFFICES ASSUME ProofInv, [ProofNext]_proofVars PROVE ProofInv'
    OBVIOUS
  <2>1. CASE ProofNext
    BY <2>1, ProofAskKeeps, PresentKeeps, FailKeeps, IssueKeeps, ExpireKeeps, CheckKeeps,
       AgainKeeps DEF ProofNext
  <2>2. CASE UNCHANGED proofVars
    <3>1. ProofTypeOK' /\ ChallengeIsTyped' /\ SigningHasChallenge'
      BY <2>2 DEF proofVars, readVars, ProofInv, ProofTypeOK, ChallengeIsTyped, SigningHasChallenge
    <3> QED  BY <2>2, <3>1, SeenStays, DisclosedStays DEF proofVars, ProofInv
  <2> QED  BY <2>1, <2>2
<1> QED  BY ProofStarts, <1>1, PTL DEF ProofSpec

(* For any reads, wallets and surfaces: every nonce a read holds was       *)
(* issued, and every proof on the wire is one a read can make.             *)
THEOREM ProofTypeCorrect == ProofSpec => []ProofTypeOK
<1>1. ProofInv => ProofTypeOK
  BY DEF ProofInv
<1> QED  BY ProofInvariance, <1>1, PTL

(* The separation of the challenge domains, and the signature over the     *)
(* subject, keep a wallet's records to the surfaces its holder asked on,   *)
(* however often and wherever a proof is presented again.                  *)
THEOREM DisclosureIsAsked == ProofSpec => []DisclosedWhereAsked
<1>1. ProofInv => DisclosedWhereAsked
  BY DEF ProofInv
<1> QED  BY ProofInvariance, <1>1, PTL

-----------------------------------------------------------------------------
(* Refusals.  A nonce that is still open belongs to one read, and the node   *)
(* and the read agree on whom it was issued for.                            *)

Given(r) == challenge[r] # NoChallenge
Fate(r) == ledger[challenge[r].nonce].fate

(* What a read was given is what was asked for it, as the ledger has it.     *)
ChallengeIsOwn ==
  \A r \in Reads : Given(r) =>
    /\ challenge[r].nonce \in DOMAIN ledger
    /\ challenge[r].subject = SubjectAskedBy(r)
    /\ ledger[challenge[r].nonce].subject = SubjectAskedBy(r)

(* No two reads hold one nonce.                                            *)
NoncesDiffer ==
  \A r, q \in Reads : Given(r) /\ Given(q) /\ r # q => challenge[r].nonce # challenge[q].nonce

(* Nothing spends a nonce before its read's own proof, but a replay of it.   *)
SpentByItsRead ==
  /\ \A r \in Reads : phase[r] = "signing" => Fate(r) # "spent"
  /\ \A p \in carried : Fate(p.read) = "spent" => p.read \in replayed

RInv == ChallengeIsOwn /\ NoncesDiffer /\ SpentByItsRead

LEMMA GivenOnceIssued ==
  ASSUME ProofInv
  PROVE  /\ \A r \in Reads : phase[r] = "signing" => Given(r)
         /\ \A p \in seen : /\ p.read \in Reads /\ p = Proof(p.read)
                            /\ p.nonce = challenge[p.read].nonce
                            /\ phase[p.read] \in Presented /\ Given(p.read)
<1>1. DOMAIN ledger = 1 .. Len(ledger) /\ Len(ledger) \in Nat
  BY LenProperties DEF ProofInv, ProofTypeOK
<1>2. 0 \notin DOMAIN ledger
  BY <1>1
<1>3. ASSUME NEW r \in Reads, phase[r] = "signing"  PROVE Given(r)
  BY <1>2, <1>3 DEF ProofInv, SigningHasChallenge, Given, NoChallenge
<1>4. ASSUME NEW p \in seen
      PROVE  /\ p.read \in Reads /\ p = Proof(p.read)
             /\ p.nonce = challenge[p.read].nonce
             /\ phase[p.read] \in Presented /\ Given(p.read)
  <2>1. p.read \in Reads /\ p = Proof(p.read) /\ phase[p.read] \in Presented
    BY DEF ProofInv, ProofTypeOK, Proofs, SeenIsMade
  <2>2. p.nonce = challenge[p.read].nonce
    BY <2>1 DEF Proof
  <2>3. p.nonce \in DOMAIN ledger
    BY DEF ProofInv, SeenIsIssued
  <2> QED  BY <1>2, <2>1, <2>2, <2>3 DEF Given, NoChallenge
<1> QED  BY <1>3, <1>4

(* The ledger's subjects, and who holds what, survive any fate.              *)
LEMMA OwnStays ==
  ASSUME ProofInv, ChallengeIsOwn, NoncesDiffer, UNCHANGED <<readVars, challenge>>,
         \A n \in DOMAIN ledger : n \in DOMAIN ledger' /\ ledger'[n].subject = ledger[n].subject
  PROVE  ChallengeIsOwn' /\ NoncesDiffer'
BY DEF ChallengeIsOwn, NoncesDiffer, Given, SubjectAskedBy, readVars

LEMMA InitRInv == ProofInit => ProofInv /\ RInv
<1> SUFFICES ASSUME ProofInit PROVE RInv
  BY ProofStarts
<1> QED
  BY DEF ProofInit, RInv, ChallengeIsOwn, NoncesDiffer, SpentByItsRead, Given

(* The node's ledger does not move.                                        *)
LEMMA QuietKeeps ==
  ASSUME ProofInv, RInv, UNCHANGED <<readVars, challenge, ledger, replayed>>,
         \A r \in Reads : phase'[r] = "signing" => phase[r] = "signing",
         \A p \in carried' : p \in carried \/ (phase[p.read] = "signing" /\ p.read \in Reads)
  PROVE  RInv'
<1>1. ChallengeIsOwn' /\ NoncesDiffer'
  BY OwnStays DEF RInv
<1>2. SpentByItsRead'
  BY DEF RInv, SpentByItsRead, Fate
<1> QED  BY <1>1, <1>2 DEF RInv

LEMMA IssueKeepsRInv ==
  ASSUME ProofInv, RInv, NEW r \in Reads, IssueChallenge(r)
  PROVE  RInv'
<1> DEFINE n == Len(ledger) + 1
           c == [subject |-> SubjectAskedBy(r), nonce |-> n]
<1>1. ledger \in Seq(Entry) /\ SubjectAskedBy(r) \in Subjects
  BY DEF SubjectAskedBy, ProofInv, ProofTypeOK, Subjects, Entry
<1>2. /\ DOMAIN ledger = 1 .. Len(ledger) /\ Len(ledger) \in Nat
      /\ DOMAIN ledger \subseteq DOMAIN ledger' /\ n \in DOMAIN ledger' /\ n \notin DOMAIN ledger
      /\ \A m \in DOMAIN ledger : ledger'[m] = ledger[m]
      /\ ledger'[n].subject = SubjectAskedBy(r) /\ ledger'[n].fate = "open"
  <2>1. [subject |-> SubjectAskedBy(r), fate |-> "open"] \in Entry
    BY <1>1 DEF Entry
  <2>2. ledger' = Append(ledger, [subject |-> SubjectAskedBy(r), fate |-> "open"])
    BY DEF IssueChallenge
  <2>3. DOMAIN ledger = 1 .. Len(ledger) /\ Len(ledger) \in Nat
    BY <1>1, LenProperties
  <2> QED  BY <1>1, <2>1, <2>2, <2>3, AppendProperties, IssueAppends
<1>3. \/ /\ phase[r] = "asking"
         /\ challenge' = [challenge EXCEPT ![r] = c]
         /\ phase' = [phase EXCEPT ![r] = "signing"]
      \/ UNCHANGED <<challenge, phase>>
  BY DEF IssueChallenge
<1>4. UNCHANGED <<readVars, carried, replayed>> /\ carried \subseteq seen
  BY DEF IssueChallenge, ProofInv, ProofTypeOK
<1>5. \A q \in Reads : SubjectAskedBy(q)' = SubjectAskedBy(q)
  BY <1>4 DEF SubjectAskedBy, readVars
<1>6. challenge \in [Reads -> [subject : Subjects \cup {<<>>}, nonce : Nat]]
      /\ phase \in [Reads -> {"idle", "asking", "signing", "presenting",
                              "answered", "refused", "failed"}]
  BY DEF ProofInv, ChallengeIsTyped, ProofTypeOK
<1>7. /\ \A q \in Reads : phase[q] = "signing" => Given(q)
      /\ \A p \in carried : p.read \in Reads /\ phase[p.read] \in Presented /\ Given(p.read)
  BY <1>4, GivenOnceIssued
<1>8. c.subject = SubjectAskedBy(r) /\ c.nonce = n
  OBVIOUS
<1> HIDE DEF n, c
<1>9. CASE UNCHANGED <<challenge, phase>>
  <2>1. ChallengeIsOwn' /\ NoncesDiffer'
    BY <1>2, <1>4, <1>9, OwnStays DEF RInv
  <2>2. \A q \in Reads : Given(q) => Fate(q)' = Fate(q)
    BY <1>2, <1>9 DEF RInv, ChallengeIsOwn, Fate
  <2>3. SpentByItsRead'
    BY <1>4, <1>7, <1>9, <2>2 DEF RInv, SpentByItsRead
  <2> QED  BY <2>1, <2>3 DEF RInv
<1>10. CASE /\ phase[r] = "asking"
            /\ challenge' = [challenge EXCEPT ![r] = c]
            /\ phase' = [phase EXCEPT ![r] = "signing"]
  <2>1. challenge'[r] = c /\ \A q \in Reads \ {r} : challenge'[q] = challenge[q] /\ phase'[q] = phase[q]
    BY <1>6, <1>10
  <2>2. ChallengeIsOwn'
    BY <1>2, <1>5, <1>8, <2>1 DEF RInv, ChallengeIsOwn, Given
  <2>3. NoncesDiffer'
    BY <1>2, <1>8, <2>1 DEF RInv, NoncesDiffer, ChallengeIsOwn, Given
  <2>4. \A q \in Reads \ {r} : Given(q) => Fate(q)' = Fate(q)
    BY <1>2, <2>1 DEF RInv, ChallengeIsOwn, Fate
  <2>5. Fate(r)' = "open"
    BY <1>2, <1>8, <2>1 DEF Fate
  <2>6. \A p \in carried : p.read # r
    BY <1>7, <1>10 DEF Presented
  <2>7. SpentByItsRead'
    BY <1>4, <1>7, <2>1, <2>4, <2>5, <2>6 DEF RInv, SpentByItsRead
  <2> QED  BY <2>2, <2>3, <2>7 DEF RInv
<1> QED  BY <1>3, <1>9, <1>10

LEMMA LedgerHasEntries ==
  ASSUME ProofInv, NEW n \in DOMAIN ledger
  PROVE  ledger[n] \in Entry
<1>1. ledger \in Seq(Entry)
  BY DEF ProofInv, ProofTypeOK, Entry
<1> QED  BY <1>1, ElementOfSeq, LenProperties

LEMMA ExpireKeepsRInv ==
  ASSUME ProofInv, RInv, NEW n \in DOMAIN ledger, Expire(n)
  PROVE  RInv'
<1>1. /\ DOMAIN ledger' = DOMAIN ledger
      /\ \A m \in DOMAIN ledger :
           /\ ledger'[m].subject = ledger[m].subject
           /\ ledger'[m].fate = "spent" => ledger[m].fate = "spent"
  <2>1. ledger[n] \in Entry
    BY LedgerHasEntries
  <2>2. ledger' = [ledger EXCEPT ![n].fate = "expired"]
    BY DEF Expire
  <2> QED  BY <2>1, <2>2 DEF Entry
<1>2. ChallengeIsOwn' /\ NoncesDiffer'
  BY <1>1, OwnStays DEF Expire, RInv
<1>3. /\ \A r \in Reads : phase[r] = "signing" => challenge[r].nonce \in DOMAIN ledger
      /\ \A p \in carried : challenge[p.read].nonce \in DOMAIN ledger
  BY GivenOnceIssued DEF ProofInv, ProofTypeOK, RInv, ChallengeIsOwn
<1>4. SpentByItsRead'
  BY <1>1, <1>3 DEF Expire, RInv, SpentByItsRead, Fate
<1> QED  BY <1>2, <1>4 DEF RInv

(* A proof presented by its read is gone, and by anybody else is known of:   *)
(* no other read's nonce is touched.                                        *)
LEMMA PresentedKeepsRInv ==
  ASSUME ProofInv, RInv, NEW p \in seen, NEW s, SpendAndDisclose(p, s),
         UNCHANGED <<readVars, challenge>>, replayed \subseteq replayed',
         \A r \in Reads : phase'[r] = "signing" => phase[r] = "signing",
         carried' \subseteq carried, p \in carried' => p.read \in replayed'
  PROVE  RInv'
<1>1. /\ p.read \in Reads /\ p.nonce = challenge[p.read].nonce
      /\ phase[p.read] \in Presented /\ Given(p.read)
  BY GivenOnceIssued
<1>2. /\ DOMAIN ledger' = DOMAIN ledger
      /\ \A m \in DOMAIN ledger :
           /\ ledger'[m].subject = ledger[m].subject
           /\ m # p.nonce => ledger'[m].fate = ledger[m].fate
  <2>1. ledger[p.nonce] \in Entry /\ p.nonce \in DOMAIN ledger
    BY LedgerHasEntries DEF ProofInv, SeenIsIssued
  <2>2. ledger' = [ledger EXCEPT ![p.nonce].fate = "spent"] \/ ledger' = ledger
    BY DEF SpendAndDisclose
  <2> QED  BY <2>1, <2>2 DEF Entry
<1>3. ChallengeIsOwn' /\ NoncesDiffer'
  BY <1>2, OwnStays DEF RInv
<1>4. ASSUME NEW r \in Reads, Given(r), r # p.read
      PROVE  Fate(r)' = Fate(r)
  <2>1. challenge[r].nonce \in DOMAIN ledger /\ challenge[r].nonce # p.nonce
    BY <1>1, <1>4 DEF RInv, ChallengeIsOwn, NoncesDiffer
  <2> QED  BY <1>2, <2>1 DEF Fate
<1>5. ASSUME NEW r \in Reads, phase'[r] = "signing"
      PROVE  Fate(r)' # "spent"
  <2>1. phase[r] = "signing" /\ Given(r)
    BY <1>5, GivenOnceIssued
  <2>2. r # p.read
    BY <1>1, <2>1 DEF Presented
  <2> QED  BY <1>4, <2>1, <2>2 DEF RInv, SpentByItsRead
<1>6. ASSUME NEW q \in carried', Fate(q.read)' = "spent"
      PROVE  q.read \in replayed'
  <2>1. /\ q \in carried /\ q.read \in Reads /\ q = Proof(q.read) /\ Given(q.read)
    BY GivenOnceIssued DEF ProofInv, ProofTypeOK
  <2>2. CASE q.read = p.read
    <3>1. q = p
      BY <2>1, <2>2, GivenOnceIssued
    <3> QED  BY <1>6, <3>1
  <2>3. CASE q.read # p.read
    BY <1>4, <1>6, <2>1, <2>3 DEF RInv, SpentByItsRead
  <2> QED  BY <2>2, <2>3
<1> QED  BY <1>3, <1>5, <1>6 DEF RInv, SpentByItsRead

LEMMA StepKeepsRInv ==
  ASSUME ProofInv, RInv, [ProofNext]_proofVars
  PROVE  RInv'
<1>1. phase \in [Reads -> {"idle", "asking", "signing", "presenting",
                           "answered", "refused", "failed"}]
  BY DEF ProofInv, ProofTypeOK
<1>2. ASSUME NEW r \in Reads, AskChallenge(r) \/ ReadFails(r)
      PROVE  RInv'
  <2>1. UNCHANGED <<readVars, challenge, ledger, replayed, carried>>
    BY <1>2 DEF AskChallenge, ReadFails
  <2>2. \A q \in Reads : phase'[q] = "signing" => phase[q] = "signing"
    BY <1>1, <1>2 DEF AskChallenge, ReadFails
  <2> QED  BY <2>1, <2>2, QuietKeeps
<1>3. ASSUME NEW r \in Reads, PresentProof(r)
      PROVE  RInv'
  <2>1. Proof(r).read = r
    BY DEF Proof
  <2>2. /\ UNCHANGED <<readVars, challenge, ledger, replayed>>
        /\ carried' = carried \cup {Proof(r)} /\ phase[r] = "signing"
    BY <1>3 DEF PresentProof
  <2>3. \A q \in Reads : phase'[q] = "signing" => phase[q] = "signing"
    BY <1>1, <1>3 DEF PresentProof
  <2>4. \A p \in carried' : p \in carried \/ (phase[p.read] = "signing" /\ p.read \in Reads)
    BY <2>1, <2>2
  <2> QED  BY <2>2, <2>3, <2>4, QuietKeeps
<1>4. ASSUME NEW p \in carried, CheckProof(p)
      PROVE  RInv'
  <2>1. p \in seen /\ p.read \in Reads
    BY GivenOnceIssued DEF ProofInv, ProofTypeOK
  <2>2. /\ SpendAndDisclose(p, p.surface) /\ UNCHANGED <<readVars, challenge, replayed>>
        /\ carried' = carried \ {p}
        /\ \/ phase' = phase
           \/ \E end \in {"answered", "refused"} : phase' = [phase EXCEPT ![p.read] = end]
    BY <1>4 DEF CheckProof
  <2>3. \A r \in Reads : phase'[r] = "signing" => phase[r] = "signing"
    BY <1>1, <2>1, <2>2
  <2> QED  BY <2>1, <2>2, <2>3, PresentedKeepsRInv
<1>5. ASSUME NEW p \in seen, NEW s \in Surfaces, PresentAgain(p, s)
      PROVE  RInv'
  BY <1>5, PresentedKeepsRInv DEF PresentAgain
<1>6. CASE UNCHANGED proofVars
  <2>1. UNCHANGED <<readVars, challenge, ledger, replayed, carried, phase>>
    BY <1>6 DEF proofVars
  <2> QED  BY <2>1, QuietKeeps
<1> QED
  BY <1>2, <1>3, <1>4, <1>5, <1>6, IssueKeepsRInv, ExpireKeepsRInv DEF ProofNext

(* An open nonce admits the proof of its read: the subjects agree, and the   *)
(* signature is over what the ledger says.                                 *)
LEMMA OpenNonceAdmits ==
  ASSUME ProofInv, RInv, NEW p \in seen, Fate(p.read) = "open",
         surface[p.read] = "earnings" => service[p.read] = ServiceOf(key[p.read])
  PROVE  Admitted(p, p.surface)
<1> DEFINE r == p.read
<1>1. r \in Reads /\ p = Proof(r) /\ Given(r) /\ p.nonce = challenge[r].nonce
  BY GivenOnceIssued
<1>2. /\ p.surface = surface[r] /\ p.public_key = key[r] /\ p.wallet = challenge[r].subject
      /\ p.signature = Signature(key[r], ChallengeBytes(surface[r], challenge[r]))
  BY <1>1 DEF Proof
<1>3. challenge[r].subject = SubjectAskedBy(r) /\ ledger[p.nonce].subject = SubjectAskedBy(r)
  BY <1>1 DEF RInv, ChallengeIsOwn
<1>4. /\ HolderOf(SubjectAskedBy(r)) = key[r]
      /\ SubjectAskedBy(r)[1] = "service" <=> surface[r] = "earnings"
  BY DEF SubjectAskedBy, HolderOf, NodeSpelling, ServiceOf
<1>5. KeyMatches(p, p.surface)
  BY <1>2, <1>3, <1>4 DEF KeyMatches
<1>6. NonceIsOpen(p, p.surface)
  BY <1>1, <1>2, <1>3, <1>4 DEF NonceIsOpen, IssuedFor, Fate
<1>7. SignatureVerifies(p, p.surface)
  BY <1>1, <1>2, <1>3, <1>4 DEF SignatureVerifies, ChallengeBytes
<1> QED  BY <1>5, <1>6, <1>7 DEF Admitted

RefusedWithReason ==
  \A r \in Reads :
    phase[r] # "refused" /\ phase'[r] = "refused" =>
      \/ ledger[challenge[r].nonce].fate = "expired"
      \/ r \in replayed
      \/ surface[r] = "earnings" /\ service[r] # ServiceOf(key[r])

LEMMA RefusalsHaveReasons ==
  ASSUME ProofInv, RInv, [ProofNext]_proofVars
  PROVE  RefusedWithReason
<1> SUFFICES ASSUME NEW r \in Reads, phase[r] # "refused", phase'[r] = "refused",
                    Fate(r) # "expired", r \notin replayed,
                    surface[r] = "earnings" => service[r] = ServiceOf(key[r])
             PROVE  FALSE
  BY DEF RefusedWithReason, Fate
<1>1. phase \in [Reads -> {"idle", "asking", "signing", "presenting",
                           "answered", "refused", "failed"}]
  BY DEF ProofInv, ProofTypeOK
<1>2. PICK p \in carried : CheckProof(p)
  BY <1>1 DEF ProofNext, proofVars, AskChallenge, PresentProof, ReadFails, IssueChallenge, Expire,
     PresentAgain
<1>3. p \in seen /\ p.read \in Reads /\ p.nonce = challenge[p.read].nonce
  BY GivenOnceIssued DEF ProofInv, ProofTypeOK
<1>4. r = p.read /\ ~Admitted(p, p.surface)
  BY <1>1, <1>2, <1>3 DEF CheckProof
<1>5. Fate(r) \in {"open", "spent"}
  <2>1. p.nonce \in DOMAIN ledger
    BY <1>3 DEF ProofInv, SeenIsIssued
  <2>2. ledger[p.nonce] \in Entry
    BY <2>1, LedgerHasEntries
  <2> QED  BY <1>3, <1>4, <2>2 DEF Entry, Fate
<1>6. Fate(r) # "spent"
  BY <1>4 DEF RInv, SpentByItsRead
<1> QED  BY <1>3, <1>4, <1>5, <1>6, OpenNonceAdmits

(* Reads that run side by side never cost each other their nonce, and the    *)
(* echo of the node's spelling never fails to verify: walletProof signs the  *)
(* challenge as it came, and nonces are each given to one read.             *)
THEOREM RefusalsAreExplained == ProofSpec => RefusedForAReason
<1>1. ProofInit => ProofInv /\ RInv
  BY InitRInv
<1>2. ProofInv /\ RInv /\ [ProofNext]_proofVars => RInv'
  BY StepKeepsRInv
<1>3. ProofInv /\ RInv /\ [ProofNext]_proofVars => [RefusedWithReason]_proofVars
  BY RefusalsHaveReasons
<1> QED
  BY <1>1, <1>2, <1>3, ProofInvariance, PTL DEF ProofSpec, RefusedForAReason, RefusedWithReason

-----------------------------------------------------------------------------
(***************************************************************************)
(* AdvertisementWalk, for any finite set of advertisements, any ordering of *)
(* them and any number of changes while the walk runs: no row comes twice,  *)
(* and none that stayed on offer is left out.                               *)
(***************************************************************************)

Cursors == Ads \cup {NoCursor}

(* What never changes, and the shape of a page.                            *)
FrameOK ==
  /\ rank \in [Ads -> 1..Cardinality(Ads)]
  /\ start \in Cursors
  /\ page \in [rows : Seq(Ads), next : Cursors \cup {MissingCursor}]
  /\ request.filtered

RequestFollows == generator = "asking" => request.after = after

(* What was yielded lies behind the cursor, or before the page at hand.    *)
YieldedIsBehind ==
  /\ generator \in {"ready", "asking"} =>
       \A i \in DOMAIN yielded : rank[yielded[i]] <= Place(after)
  /\ generator = "yielding" =>
       \A i \in DOMAIN yielded :
         /\ \A j \in DOMAIN page.rows : rank[yielded[i]] < rank[page.rows[j]]
         /\ page.next \in Ads => rank[yielded[i]] <= rank[page.next]

PageIsOrdered ==
  generator = "yielding" =>
    /\ Ordered(page.rows)
    /\ page.next \in Ads =>
         \A j \in DOMAIN page.rows : rank[page.rows[j]] <= rank[page.next]

Due == Beyond(steady \cap wanted, start)

(* What is due and lies behind the cursor, or on the page, is accounted    *)
(* for.                                                                    *)
DueIsCovered ==
  ~omits =>
    /\ generator \in {"ready", "asking"} =>
         \A a \in Due : rank[a] <= Place(after) => a \in Range(yielded)
    /\ generator = "yielding" =>
         /\ page.next \in Cursors
         /\ \A a \in Due :
              page.next = NoCursor \/ rank[a] <= rank[page.next] =>
                a \in Range(yielded) \cup Range(page.rows)

WalkInv ==
  /\ WalkTypeOK
  /\ FrameOK
  /\ RequestFollows
  /\ YieldedIsBehind
  /\ PageIsOrdered
  /\ NoRowTwice
  /\ DueIsCovered
  /\ NothingSkipped
-----------------------------------------------------------------------------
(* Places in the node's order are numbers; a cursor that is no             *)
(* advertisement has the least.                                            *)
LEMMA Places ==
  ASSUME FrameOK
  PROVE  /\ \A a \in Ads : rank[a] \in Nat \ {0} /\ Place(a) = rank[a]
         /\ \A c \in Cursors : Place(c) \in Nat
         /\ NoCursor \notin Ads /\ MissingCursor \notin Cursors
<1>1. Cardinality(Ads) \in Nat
  BY AdsAssumption, FS_CardinalityType
<1> QED  BY <1>1, AdsAssumption DEF FrameOK, Place, Cursors, NoCursor, MissingCursor

LEMMA RangeOfAppend ==
  ASSUME NEW S, NEW s \in Seq(S), NEW e \in S
  PROVE  Range(Append(s, e)) = Range(s) \cup {e}
<1>1. /\ Append(s, e) \in Seq(S) /\ Len(Append(s, e)) = Len(s) + 1
      /\ \A i \in 1..Len(s) : Append(s, e)[i] = s[i]
      /\ Append(s, e)[Len(s) + 1] = e
  BY AppendProperties
<1>2. /\ DOMAIN s = 1..Len(s) /\ Len(s) \in Nat
      /\ DOMAIN Append(s, e) = 1..(Len(s) + 1)
  BY <1>1, LenProperties
<1>3. Range(Append(s, e)) \subseteq Range(s) \cup {e}
  BY <1>1, <1>2 DEF Range
<1>4. Range(s) \subseteq Range(Append(s, e))
  BY <1>1, <1>2 DEF Range
<1>5. e \in Range(Append(s, e))
  BY <1>1, <1>2 DEF Range
<1> QED  BY <1>3, <1>4, <1>5

LEMMA RangeOfTail ==
  ASSUME NEW S, NEW s \in Seq(S), s # <<>>
  PROVE  Range(s) \subseteq {Head(s)} \cup Range(Tail(s))
<1>1. /\ Tail(s) \in Seq(S) /\ Len(Tail(s)) = Len(s) - 1
      /\ \A i \in 1..Len(Tail(s)) : Tail(s)[i] = s[i + 1]
      /\ Head(s) = s[1]
  BY HeadTailProperties
<1>2. DOMAIN s = 1..Len(s) /\ Len(s) \in Nat /\ DOMAIN Tail(s) = 1..(Len(s) - 1)
  BY <1>1, LenProperties
<1> SUFFICES ASSUME NEW i \in 1..Len(s) PROVE s[i] \in {Head(s)} \cup Range(Tail(s))
  BY <1>2 DEF Range
<1>3. CASE i = 1
  BY <1>1, <1>3
<1>4. CASE i # 1
  <2>1. i - 1 \in DOMAIN Tail(s) /\ Tail(s)[i - 1] = s[i]
    BY <1>1, <1>2, <1>4
  <2> QED  BY <2>1 DEF Range
<1> QED  BY <1>3, <1>4

(* The node's page: the rows it selected, once each and in order.          *)
LEMMA AnswerReturns ==
  ASSUME FrameOK, WalkTypeOK, NEW rows \in SUBSET Ads, Cardinality(rows) <= MaxLimit,
         NEW next \in Cursors, Answer(rows, next)
  PROVE  /\ page' \in [rows : Seq(Ads), next : Cursors \cup {MissingCursor}]
         /\ Len(page'.rows) <= MaxLimit
         /\ Ordered(page'.rows) /\ Range(page'.rows) = rows
         /\ page'.next \in {next, MissingCursor} /\ (~omits => page'.next = next)
<1>1. Cardinality(rows) \in Nat
  BY AdsAssumption, FS_Subset, FS_CardinalityType
<1>2. PICK s \in InOrder(rows) :
        page' = [rows |-> s, next |-> IF omits THEN MissingCursor ELSE next]
  BY DEF Answer
<1>3. s \in [1..Cardinality(rows) -> rows] /\ Ordered(s) /\ Range(s) = rows
  BY <1>2 DEF InOrder
<1>4. s \in Seq(Ads) /\ Len(s) = Cardinality(rows)
  BY <1>1, <1>3
<1> QED  BY <1>2, <1>3, <1>4
-----------------------------------------------------------------------------
(* The rows stay in order, and nothing due is passed over, as long as a    *)
(* step leaves the walk alone or ends it, and the book only loses rows     *)
(* that were on offer all along.                                           *)
LEMMA RestKeeps ==
  ASSUME WalkInv, UNCHANGED <<rank, wanted, omits, start, after, request, page, yielded>>,
         steady' \subseteq steady, WalkTypeOK',
         generator' = generator \/ generator' \in {"thrown", "stopped"}
  PROVE  WalkInv'
<1>1. FrameOK' /\ RequestFollows' /\ NoRowTwice'
  BY DEF WalkInv, FrameOK, RequestFollows, NoRowTwice, Ordered
<1>2. YieldedIsBehind' /\ PageIsOrdered'
  BY DEF WalkInv, YieldedIsBehind, PageIsOrdered, Ordered, Place
<1>3. Due' \subseteq Due
  BY DEF Due, Beyond, Place
<1>4. DueIsCovered'
  BY <1>3 DEF WalkInv, DueIsCovered, Place
<1>5. NothingSkipped'
  BY <1>3 DEF WalkInv, NothingSkipped, Due
<1> QED  BY <1>1, <1>2, <1>4, <1>5 DEF WalkInv

LEMMA WalkAskKeeps == ASSUME WalkInv, Ask PROVE WalkInv'
<1>1. UNCHANGED <<rank, wanted, omits, start, book, changes, steady, after, page, yielded>>
  BY DEF Ask, queryVars, bookVars
<1>2. /\ generator = "ready" /\ generator' = "asking"
      /\ request' = [filtered |-> TRUE, after |-> after]
  BY DEF Ask
<1>3. WalkTypeOK' /\ FrameOK' /\ RequestFollows' /\ NoRowTwice'
  BY <1>1, <1>2 DEF WalkInv, WalkTypeOK, FrameOK, RequestFollows, NoRowTwice, Ordered
<1>4. YieldedIsBehind' /\ PageIsOrdered'
  BY <1>1, <1>2 DEF WalkInv, YieldedIsBehind, PageIsOrdered, Place
<1>5. Due' = Due
  BY <1>1 DEF Due, Beyond, Place
<1>6. DueIsCovered' /\ NothingSkipped'
  BY <1>1, <1>2, <1>5 DEF WalkInv, DueIsCovered, NothingSkipped, Place
<1> QED  BY <1>3, <1>4, <1>6 DEF WalkInv

LEMMA YieldKeeps == ASSUME WalkInv, YieldRow PROVE WalkInv'
<1> DEFINE row == Head(page.rows)
<1>1. /\ UNCHANGED <<rank, wanted, omits, start, book, changes, steady, generator, after, request>>
      /\ generator = "yielding"
  BY DEF YieldRow, queryVars, bookVars
<1>2. page.rows \in Seq(Ads) /\ page.rows # <<>> /\ yielded \in Seq(Ads)
  BY DEF YieldRow, WalkInv, WalkTypeOK
<1>3. /\ row \in Ads /\ row = page.rows[1]
      /\ Tail(page.rows) \in Seq(Ads) /\ Len(Tail(page.rows)) = Len(page.rows) - 1
      /\ \A j \in 1..Len(Tail(page.rows)) : Tail(page.rows)[j] = page.rows[j + 1]
      /\ DOMAIN Tail(page.rows) = 1..(Len(page.rows) - 1)
      /\ DOMAIN page.rows = 1..Len(page.rows) /\ Len(page.rows) \in Nat \ {0}
  BY <1>2, HeadTailProperties, LenProperties
<1>4. yielded' = Append(yielded, row) /\ page' = [page EXCEPT !.rows = Tail(page.rows)]
  BY DEF YieldRow
<1>5. page'.rows = Tail(page.rows) /\ page'.next = page.next
  BY <1>4 DEF WalkInv, FrameOK
<1> HIDE DEF row
<1>6. /\ yielded' \in Seq(Ads)
      /\ DOMAIN yielded' = 1..(Len(yielded) + 1) /\ DOMAIN yielded = 1..Len(yielded)
      /\ Len(yielded) \in Nat
      /\ \A i \in 1..Len(yielded) : yielded'[i] = yielded[i]
      /\ yielded'[Len(yielded) + 1] = row
  <2>1. /\ yielded' \in Seq(Ads) /\ Len(yielded') = Len(yielded) + 1
        /\ \A i \in 1..Len(yielded) : yielded'[i] = yielded[i]
        /\ yielded'[Len(yielded) + 1] = row
    BY <1>2, <1>3, <1>4, AppendProperties
  <2> QED  BY <1>2, <2>1, LenProperties
<1>7. \A a \in Ads : rank[a] \in Nat
  BY Places DEF WalkInv
<1>8. WalkTypeOK' /\ FrameOK' /\ RequestFollows'
  <2>1. page' \in [rows : Seq(Ads), next : Cursors \cup {MissingCursor}]
    BY <1>3, <1>4 DEF WalkInv, FrameOK
  <2>2. Len(page'.rows) <= MaxLimit
    BY <1>3, <1>5, BoundsAssumption DEF WalkInv, WalkTypeOK
  <2> QED  BY <1>1, <1>3, <1>5, <1>6, <2>1, <2>2 DEF WalkInv, WalkTypeOK, FrameOK, RequestFollows
<1>9. /\ \A i \in DOMAIN yielded : rank[yielded[i]] < rank[row]
      /\ \A j \in DOMAIN page'.rows :
           /\ rank[row] < rank[page'.rows[j]]
           /\ \A i \in DOMAIN yielded : rank[yielded[i]] < rank[page'.rows[j]]
           /\ page.next \in Ads => rank[page'.rows[j]] <= rank[page.next]
      /\ page.next \in Ads => rank[row] <= rank[page.next]
  BY <1>1, <1>3, <1>5 DEF WalkInv, YieldedIsBehind, PageIsOrdered, Ordered
<1>10. NoRowTwice'
  BY <1>1, <1>6, <1>9 DEF WalkInv, NoRowTwice, Ordered
<1>11. YieldedIsBehind'
  BY <1>1, <1>5, <1>6, <1>9 DEF WalkInv, YieldedIsBehind
<1>12. PageIsOrdered'
  <2>1. ASSUME NEW i \in DOMAIN page'.rows, NEW j \in DOMAIN page'.rows, i < j
        PROVE  rank[page'.rows[i]] < rank[page'.rows[j]]
    <3>1. /\ i + 1 \in DOMAIN page.rows /\ j + 1 \in DOMAIN page.rows /\ i + 1 < j + 1
          /\ page'.rows[i] = page.rows[i + 1] /\ page'.rows[j] = page.rows[j + 1]
      BY <1>3, <1>5, <2>1
    <3> QED  BY <1>1, <3>1 DEF WalkInv, PageIsOrdered, Ordered
  <2> QED  BY <1>1, <1>5, <1>9, <2>1 DEF PageIsOrdered, Ordered
<1>13. Range(yielded) \cup Range(page.rows) \subseteq Range(yielded') \cup Range(page'.rows)
  BY <1>2, <1>3, <1>4, <1>5, RangeOfAppend, RangeOfTail DEF row
<1>14. Due' = Due
  BY <1>1 DEF Due, Beyond, Place
<1>15. DueIsCovered' /\ NothingSkipped'
  BY <1>1, <1>5, <1>13, <1>14 DEF WalkInv, DueIsCovered, NothingSkipped
<1> QED  BY <1>8, <1>10, <1>11, <1>12, <1>15 DEF WalkInv

LEMMA TurnKeeps == ASSUME WalkInv, TurnPage PROVE WalkInv'
<1>1. /\ UNCHANGED <<rank, wanted, omits, start, book, changes, steady, request, page, yielded>>
      /\ generator = "yielding" /\ page.rows = <<>>
  BY DEF TurnPage, queryVars, bookVars
<1>2. Due' = Due
  BY <1>1 DEF Due, Beyond, Place
<1>3. Range(page.rows) = {}
  BY <1>1 DEF Range
<1>4. CASE Ends(page.next)
  <2>1. generator' = "done" /\ after' = after
    BY <1>4 DEF TurnPage
  <2>2. ~omits => page.next = NoCursor
    BY <1>1, <1>4, Places DEF Ends, WalkInv, DueIsCovered
  <2>3. WalkTypeOK' /\ FrameOK' /\ RequestFollows' /\ NoRowTwice'
    BY <1>1, <2>1 DEF WalkInv, WalkTypeOK, FrameOK, RequestFollows, NoRowTwice, Ordered
  <2>4. YieldedIsBehind' /\ PageIsOrdered' /\ DueIsCovered'
    BY <2>1 DEF YieldedIsBehind, PageIsOrdered, DueIsCovered
  <2>5. NothingSkipped'
    BY <1>1, <1>2, <1>3, <2>2 DEF WalkInv, DueIsCovered, NothingSkipped, Due
  <2> QED  BY <2>3, <2>4, <2>5 DEF WalkInv
<1>5. CASE ~Ends(page.next)
  <2>1. generator' = "ready" /\ after' = page.next
    BY <1>5 DEF TurnPage
  <2>2. page.next \in Ads
    BY <1>5 DEF Ends, WalkInv, WalkTypeOK
  <2>3. WalkTypeOK' /\ FrameOK' /\ RequestFollows' /\ NoRowTwice'
    BY <1>1, <2>1, <2>2 DEF WalkInv, WalkTypeOK, FrameOK, RequestFollows, NoRowTwice, Ordered
  <2>4. Place(after)' = rank[page.next]
    BY <1>1, <2>1, <2>2 DEF Place
  <2>5. YieldedIsBehind' /\ PageIsOrdered'
    BY <1>1, <2>1, <2>2, <2>4 DEF WalkInv, YieldedIsBehind, PageIsOrdered
  <2>6. DueIsCovered' /\ NothingSkipped'
    BY <1>1, <1>2, <1>3, <2>1, <2>2, <2>4 DEF WalkInv, DueIsCovered, NothingSkipped
  <2> QED  BY <2>3, <2>5, <2>6 DEF WalkInv
<1> QED  BY <1>4, <1>5

(* One page.  Its rows lie behind the cursor that was sent; they are all   *)
(* there is up to the cursor that comes back, or to the end.               *)
LEMMA PageKeeps ==
  ASSUME WalkInv, generator = "asking", NEW rows, Cardinality(rows) <= MaxLimit,
         rows \subseteq Beyond(book, request.after),
         NEW next \in Cursors, Answer(rows, next),
         next \in Ads => /\ rank[next] > Place(request.after)
                         /\ \A a \in rows : rank[a] <= rank[next],
         \A a \in book \cap wanted :
           /\ rank[a] > Place(request.after)
           /\ next = NoCursor \/ rank[a] <= rank[next]
           => a \in rows
  PROVE  WalkInv'
<1>1. /\ UNCHANGED <<rank, wanted, omits, start, book, changes, steady, after, request, yielded>>
      /\ generator' = "yielding"
  BY DEF Answer, queryVars, bookVars
<1>2. request.after = after /\ rows \subseteq Ads /\ after \in Cursors
  BY DEF WalkInv, RequestFollows, WalkTypeOK, Beyond, Cursors
<1>3. /\ page' \in [rows : Seq(Ads), next : Cursors \cup {MissingCursor}]
      /\ Len(page'.rows) <= MaxLimit
      /\ Ordered(page'.rows) /\ Range(page'.rows) = rows
      /\ page'.next \in {next, MissingCursor} /\ (~omits => page'.next = next)
  BY <1>2, AnswerReturns DEF WalkInv
<1>4. /\ \A a \in Ads : rank[a] \in Nat
      /\ Place(after) \in Nat /\ MissingCursor \notin Cursors /\ NoCursor \notin Ads
  BY <1>2, Places DEF WalkInv
<1>5. \A j \in DOMAIN page'.rows : page'.rows[j] \in rows
  BY <1>3 DEF Range
<1>6. \A a \in rows : a \in Ads /\ rank[a] > Place(after)
  BY <1>2 DEF Beyond
<1>7. WalkTypeOK' /\ FrameOK' /\ RequestFollows' /\ NoRowTwice'
  BY <1>1, <1>3 DEF WalkInv, WalkTypeOK, FrameOK, RequestFollows, NoRowTwice, Ordered, Cursors
<1>8. \A i \in DOMAIN yielded : yielded[i] \in Ads /\ rank[yielded[i]] <= Place(after)
  BY LenProperties, ElementOfSeq DEF WalkInv, WalkTypeOK, YieldedIsBehind
<1>9. YieldedIsBehind'
  <2> SUFFICES ASSUME NEW i \in DOMAIN yielded
               PROVE  /\ \A j \in DOMAIN page'.rows : rank[yielded[i]] < rank[page'.rows[j]]
                      /\ page'.next \in Ads => rank[yielded[i]] <= rank[page'.next]
    BY <1>1 DEF YieldedIsBehind
  <2>1. ASSUME NEW j \in DOMAIN page'.rows
        PROVE  rank[yielded[i]] < rank[page'.rows[j]]
    BY <1>4, <1>5, <1>6, <1>8
  <2>2. ASSUME page'.next \in Ads PROVE rank[yielded[i]] <= rank[page'.next]
    <3>1. page'.next = next /\ next \in Ads
      BY <1>3, <1>4, <2>2 DEF Cursors
    <3> QED  BY <1>2, <1>4, <1>8, <3>1
  <2> QED  BY <2>1, <2>2
<1>10. PageIsOrdered'
  <2>1. Ordered(page.rows)'
    BY <1>1, <1>3 DEF Ordered
  <2>2. page'.next \in Ads => page'.next = next /\ next \in Ads
    BY <1>3, <1>4 DEF Cursors
  <2>3. page'.next \in Ads => \A j \in DOMAIN page'.rows : rank[page'.rows[j]] <= rank[page'.next]
    BY <1>5, <2>2
  <2> QED  BY <1>1, <2>1, <2>3 DEF PageIsOrdered
<1>11. Due' = Due
  BY <1>1 DEF Due, Beyond, Place
<1>12. DueIsCovered'
  <2> SUFFICES ASSUME ~omits
               PROVE  /\ page'.next \in Cursors
                      /\ \A a \in Due :
                           page'.next = NoCursor \/ rank[a] <= rank[page'.next] =>
                             a \in Range(yielded) \cup Range(page'.rows)
    BY <1>1, <1>11 DEF DueIsCovered
  <2>1. ASSUME NEW a \in Due, next = NoCursor \/ rank[a] <= rank[next]
        PROVE  a \in Range(yielded) \cup rows
    <3>1. a \in book \cap wanted /\ a \in Ads
      BY DEF Due, Beyond, WalkInv, WalkTypeOK
    <3>2. CASE rank[a] <= Place(after)
      BY <3>2 DEF WalkInv, DueIsCovered
    <3>3. CASE rank[a] > Place(after)
      BY <1>2, <2>1, <3>1, <3>3
    <3> QED  BY <1>4, <3>1, <3>2, <3>3
  <2> QED  BY <1>3, <2>1
<1>13. NothingSkipped'
  BY <1>1 DEF NothingSkipped
<1> QED  BY <1>7, <1>9, <1>10, <1>12, <1>13 DEF WalkInv

LEMMA PartKeeps == ASSUME WalkInv, AnswerPart PROVE WalkInv'
<1>1. PICK last \in Beyond(book, request.after) :
        LET rows == {a \in Matching(Beyond(book, request.after)) : rank[a] <= rank[last]}
        IN  Cardinality(rows) <= MaxLimit /\ Answer(rows, last)
  BY DEF AnswerPart
<1> DEFINE rows == {a \in Matching(Beyond(book, request.after)) : rank[a] <= rank[last]}
<1>2. /\ last \in Ads /\ rank[last] > Place(request.after)
      /\ Matching(Beyond(book, request.after)) = Beyond(book, request.after) \cap wanted
  BY DEF Matching, Beyond, WalkInv, WalkTypeOK, FrameOK
<1>3. Cardinality(rows) <= MaxLimit /\ Answer(rows, last) /\ generator = "asking"
  BY <1>1 DEF AnswerPart
<1>4. /\ rows \subseteq Beyond(book, request.after)
      /\ \A a \in rows : rank[a] <= rank[last]
      /\ \A a \in book \cap wanted :
           rank[a] > Place(request.after) /\ rank[a] <= rank[last] => a \in rows
  BY <1>2 DEF Beyond
<1>5. last \in Cursors /\ last # NoCursor
  BY <1>2, Places DEF Cursors, WalkInv
<1> HIDE DEF rows
<1> QED  BY <1>2, <1>3, <1>4, <1>5, PageKeeps

LEMMA RestOfBookKeeps == ASSUME WalkInv, AnswerRest PROVE WalkInv'
<1> DEFINE rows == Matching(Beyond(book, request.after))
<1>1. /\ rows = Beyond(book, request.after) \cap wanted
      /\ Cardinality(rows) <= MaxLimit /\ Answer(rows, NoCursor) /\ generator = "asking"
  BY DEF AnswerRest, Matching, WalkInv, FrameOK
<1>2. NoCursor \in Cursors /\ NoCursor \notin Ads
  BY Places DEF Cursors, WalkInv
<1>3. /\ rows \subseteq Beyond(book, request.after)
      /\ \A a \in book \cap wanted : rank[a] > Place(request.after) => a \in rows
  BY <1>1 DEF Beyond
<1> HIDE DEF rows
<1> QED  BY <1>1, <1>2, <1>3, PageKeeps

LEMMA MerchantsKeep ==
  ASSUME WalkInv, NEW a \in Ads, Publish(a) \/ Withdraw(a) PROVE WalkInv'
<1>1. /\ UNCHANGED <<rank, wanted, omits, start, generator, after, request, page, yielded>>
      /\ steady' \subseteq steady
  BY DEF Publish, Withdraw, queryVars, generatorVars
<1>2. book' \subseteq Ads /\ steady' \subseteq book' /\ changes' \in 0..MaxChanges
  BY BoundsAssumption DEF Publish, Withdraw, WalkInv, WalkTypeOK
<1>3. WalkTypeOK'
  BY <1>1, <1>2 DEF WalkInv, WalkTypeOK
<1> QED  BY <1>1, <1>3, RestKeeps

LEMMA EndsKeep == ASSUME WalkInv, AskFails \/ ConsumerStops PROVE WalkInv'
<1>1. /\ UNCHANGED <<rank, wanted, omits, start, book, changes, steady, after, request, page, yielded>>
      /\ generator' \in {"thrown", "stopped"}
  BY DEF AskFails, ConsumerStops, queryVars, bookVars
<1>2. WalkTypeOK'
  BY <1>1 DEF WalkInv, WalkTypeOK
<1> QED  BY <1>1, <1>2, RestKeeps

LEMMA WalkStarts == WalkInit => WalkInv
<1> SUFFICES ASSUME WalkInit PROVE WalkInv
  OBVIOUS
<1>1. /\ WalkTypeOK /\ FrameOK /\ RequestFollows
  BY BoundsAssumption, EmptySeq
     DEF WalkInit, WalkTypeOK, FrameOK, RequestFollows, EmptyPage, Cursors
<1>2. YieldedIsBehind /\ PageIsOrdered /\ NoRowTwice /\ NothingSkipped
  BY DEF WalkInit, YieldedIsBehind, PageIsOrdered, NoRowTwice, NothingSkipped, Ordered
<1>3. DueIsCovered
  <2> SUFFICES ASSUME NEW a \in Due, rank[a] <= Place(after) PROVE FALSE
    BY DEF WalkInit, DueIsCovered
  <2>1. a \in Ads /\ rank[a] > Place(start) /\ after = start /\ start \in Cursors
    BY DEF WalkInit, Due, Beyond, Cursors
  <2>2. rank[a] \in Nat /\ Place(start) \in Nat
    BY <1>1, <2>1, Places
  <2> QED  BY <2>1, <2>2
<1> QED  BY <1>1, <1>2, <1>3 DEF WalkInv

LEMMA WalkInvariance == WalkSpec => []WalkInv
<1>1. WalkInv /\ [WalkNext]_walkVars => WalkInv'
  <2> SUFFICES ASSUME WalkInv, [WalkNext]_walkVars PROVE WalkInv'
    OBVIOUS
  <2>1. CASE WalkNext
    BY <2>1, WalkAskKeeps, YieldKeeps, TurnKeeps, EndsKeep, PartKeeps, RestOfBookKeeps,
       MerchantsKeep DEF WalkNext, Walk
  <2>2. CASE UNCHANGED walkVars
    <3>1. WalkTypeOK'
      BY <2>2 DEF walkVars, bookVars, generatorVars, queryVars, WalkInv, WalkTypeOK
    <3> QED  BY <2>2, <3>1, RestKeeps DEF walkVars, bookVars, generatorVars, queryVars
  <2> QED  BY <2>1, <2>2
<1> QED  BY WalkStarts, <1>1, PTL DEF WalkSpec

(* For any book: the cursor is always an advertisement or absent, and no   *)
(* page exceeds the ceiling.                                               *)
THEOREM WalkTypeCorrect == WalkSpec => []WalkTypeOK
<1>1. WalkInv => WalkTypeOK
  BY DEF WalkInv
<1> QED  BY WalkInvariance, <1>1, PTL

(* eachAdvertisement yields in the node's order, each row once, for any    *)
(* book, page size and number of changes.                                  *)
THEOREM RowsComeOnce == WalkSpec => []NoRowTwice
<1>1. WalkInv => NoRowTwice
  BY DEF WalkInv
<1> QED  BY WalkInvariance, <1>1, PTL

(* A walk that runs to its end has yielded every matching row that stayed. *)
THEOREM WalkIsComplete == WalkSpec => []NothingSkipped
<1>1. WalkInv => NothingSkipped
  BY DEF WalkInv
<1> QED  BY WalkInvariance, <1>1, PTL

-----------------------------------------------------------------------------
(***************************************************************************)
(* TradeLifecycle, for any number of calls: the buyer's money is never      *)
(* cancelled away, and what a party reads was brought about by the events   *)
(* it stands for.                                                           *)
(***************************************************************************)

Reversal == "sendPaymentReversed"

(* The settlements in which a declared payment is on file.                 *)
Declared == {"PaymentSubmitted", "Approved", "Rejected", "Completed", "Disputed"}

IdleCarriesNothing == \A c \in Calls : stage[c] = "idle" => event[c] = NoEvent

(* What the node has yet to decide is one of the eight events.             *)
UndecidedIsAnEvent ==
  \A c \in Calls : stage[c] # "idle" /\ decision[c] = "none" => event[c] \in Methods

(* A reversal whose call is over, and which may still land, was not        *)
(* answered, and the buyer knows it.                                       *)
StrayReversalIsKnown ==
  \A c \in Calls : stage[c] = "done" /\ event[c] = Reversal => unsure

NoReversalOpen == \A c \in Calls : ~(stage[c] = "open" /\ event[c] = Reversal)

(* A declaration read with no reversal about is still on file.             *)
ReadIsFresh ==
  read.settlement = "PaymentSubmitted" /\ ~unsure /\ NoReversalOpen =>
    settlement \in Declared

(* Once the money left, no reversal is about and the declaration stands.   *)
WiredIsDeclared ==
  wired => settlement \in Declared /\ \A c \in Calls : event[c] # Reversal

(* What the node has on file was brought about by its events.              *)
SettlementHasItsEvent ==
  /\ settlement \in {"Approved", "Completed"} => "sendSettlementApproved" \in applied
  /\ settlement = "Rejected" => "sendSettlementRejected" \in applied
  /\ settlement \in Declared => "sendPaymentSubmitted" \in applied

TradeInv ==
  /\ TradeTypeOK
  /\ UndecidedIsAnEvent
  /\ IdleCarriesNothing
  /\ StrayReversalIsKnown
  /\ ReadIsFresh
  /\ WiredIsDeclared
  /\ SettlementHasItsEvent
  /\ StatusHasItsEvent
-----------------------------------------------------------------------------
(* What a send of any of the eight events does.                            *)
LEMMA SendSubmits ==
  ASSUME NEW c \in Calls, Send(c)
  PROVE  \E method \in Methods : Submit(c, method) /\ (method = Reversal => ~wired)
BY DEF Send, Methods, Reversal, sendReservationRequest, sendReservationCancel,
       sendSettlementInitiate, sendPaymentSubmitted, sendPaymentReversed,
       sendSettlementApproved, sendSettlementRejected, sendSettlementCancelled

(* A call that ends keeps its event exactly when the node had not decided. *)
LEMMA ReturnKeeps ==
  ASSUME TradeTypeOK, NEW c \in Calls, Return(c)
  PROVE  /\ stage[c] = "open" /\ stage' = [stage EXCEPT ![c] = "done"]
         /\ report'[c] \in {"success", "refusal", "unknown"}
         /\ report'[c] = "success" => decision[c] = "applied"
         /\ report'[c] = "refusal" => decision[c] = "refused"
         /\ event' = IF decision[c] # "none"
                     THEN [event EXCEPT ![c] = NoEvent] ELSE event
         /\ UNCHANGED <<decision, nodeVars, wired>> /\ read' = Unread
BY DEF TradeTypeOK, Return, Rpc!Return, Remembered

(* The node's decision changes its records as the event says, or nothing.  *)
LEMMA DecideEffect ==
  ASSUME TradeTypeOK, NEW c \in Calls, Decide(c)
  PROVE  /\ stage[c] # "idle"
         /\ event' = event \/ event' = [event EXCEPT ![c] = NoEvent]
         /\ UNCHANGED <<stage, report, read, unsure, wired>>
         /\ \/ /\ Legal(event[c])
               /\ settlement' = SettlementAfter(event[c])
               /\ reservation' = ReservationAfter(event[c])
               /\ applied' = applied \cup {event[c]}
            \/ UNCHANGED nodeVars
BY DEF TradeTypeOK, Decide, Rpc!Decide, Remembered

(* A declaration goes out of the file only by a reversal.                  *)
LEMMA OnlyReversalUndeclares ==
  ASSUME NEW method \in Methods \cup {NoEvent}, Legal(method),
         settlement \in Declared, method # Reversal
  PROVE  SettlementAfter(method) \in Declared
BY DEF Methods, NoEvent, Legal, SettlementAfter, Declared, Reversal
-----------------------------------------------------------------------------
LEMMA TypeInductive ==
  TradeTypeOK /\ UndecidedIsAnEvent /\ [TradeNext]_tradeVars => TradeTypeOK' /\ UndecidedIsAnEvent'
<1> SUFFICES ASSUME TradeTypeOK, UndecidedIsAnEvent, [TradeNext]_tradeVars
             PROVE  TradeTypeOK' /\ UndecidedIsAnEvent'
  OBVIOUS
<1>1. ASSUME NEW c \in Calls, Send(c) PROVE TradeTypeOK' /\ UndecidedIsAnEvent'
  <2>1. PICK method \in Methods : Submit(c, method)
    BY <1>1, SendSubmits
  <2> QED  BY <2>1 DEF Submit, Rpc!Begin, TradeTypeOK, UndecidedIsAnEvent, nodeVars, Unread
<1>2. ASSUME NEW c \in Calls, Answered(c) \/ CallFails(c)
      PROVE  TradeTypeOK' /\ UndecidedIsAnEvent'
  <2>1. unsure' \in BOOLEAN /\ Return(c)
    BY <1>2 DEF Answered, CallFails, TradeTypeOK
  <2>2. TradeTypeOK'
    BY <2>1 DEF Return, Rpc!Return, Remembered, TradeTypeOK, nodeVars, Unread
  <2>3. UndecidedIsAnEvent'
    BY <2>1, ReturnKeeps DEF UndecidedIsAnEvent, TradeTypeOK
  <2> QED  BY <2>2, <2>3
<1>3. ASSUME NEW c \in Calls, Decide(c) PROVE TradeTypeOK' /\ UndecidedIsAnEvent'
  <2>1. /\ decision' \in [Calls -> {"none", "applied", "refused"}]
        /\ decision'[c] # "none" /\ event[c] \in Methods
        /\ \A d \in Calls \ {c} : decision'[d] = decision[d]
    BY <1>3 DEF Decide, Rpc!Decide, TradeTypeOK, UndecidedIsAnEvent
  <2>2. /\ event' = event \/ event' = [event EXCEPT ![c] = NoEvent]
        /\ UNCHANGED <<stage, report, read, unsure, wired>>
    BY <1>3, DecideEffect
  <2>3. /\ reservation' \in {"none", "EscrowLocked", "Cancelled", "Expired"}
        /\ settlement' \in SettlementState \cup {"none"}
        /\ applied' \subseteq Methods
    <3>1. ReservationAfter(event[c]) \in {reservation, "EscrowLocked", "Cancelled"}
      BY DEF ReservationAfter
    <3>2. SettlementAfter(event[c]) \in SettlementState \cup {settlement}
      BY DEF SettlementAfter, SettlementState, TradeStatus
    <3> QED  BY <1>3, <2>1, <3>1, <3>2, DecideEffect DEF TradeTypeOK, nodeVars
  <2>4. UndecidedIsAnEvent'
    BY <2>1, <2>2 DEF UndecidedIsAnEvent, TradeTypeOK
  <2> QED  BY <2>1, <2>2, <2>3, <2>4 DEF TradeTypeOK
<1>4. CASE getMyTrades
  BY <1>4 DEF getMyTrades, tradeStatus, TradeTypeOK, UndecidedIsAnEvent, callVars,
     nodeVars, SettlementState, TradeStatus
<1>5. CASE ReservationExpires \/ ReleaseConfirmed \/ DisputeOpened \/ WireFiat
  <2>1. UNCHANGED <<callVars, event, applied, read, unsure>>
    BY <1>5 DEF ReservationExpires, ReleaseConfirmed, DisputeOpened, WireFiat, nodeVars
  <2>2. /\ reservation' \in {reservation, "Expired"}
        /\ settlement' \in {settlement, "Completed", "Disputed"}
        /\ wired' \in {wired, TRUE}
    BY <1>5 DEF ReservationExpires, ReleaseConfirmed, DisputeOpened, WireFiat, nodeVars
  <2>3. /\ reservation' \in {"none", "EscrowLocked", "Cancelled", "Expired"}
        /\ settlement' \in SettlementState \cup {"none"}
    BY <2>2 DEF TradeTypeOK, SettlementState, TradeStatus
  <2>4. wired' \in BOOLEAN
    BY <2>2 DEF TradeTypeOK
  <2> QED  BY <2>1, <2>3, <2>4 DEF TradeTypeOK, UndecidedIsAnEvent, callVars
<1>6. CASE UNCHANGED tradeVars
  BY <1>6 DEF tradeVars, callVars, nodeVars, TradeTypeOK, UndecidedIsAnEvent
<1> QED  BY <1>1, <1>2, <1>3, <1>4, <1>5, <1>6 DEF TradeNext
-----------------------------------------------------------------------------
(* The buyer's side: what they may take a declaration they read for.       *)
Buyer == IdleCarriesNothing /\ StrayReversalIsKnown /\ ReadIsFresh /\ WiredIsDeclared

LEMMA BuyerInductive == TradeTypeOK /\ Buyer /\ [TradeNext]_tradeVars => Buyer'
<1> SUFFICES ASSUME TradeTypeOK, Buyer, [TradeNext]_tradeVars PROVE Buyer'
  OBVIOUS
<1> USE DEF Buyer
<1>1. ASSUME NEW c \in Calls, Send(c) PROVE Buyer'
  <2>1. PICK method \in Methods : Submit(c, method) /\ (method = Reversal => ~wired)
    BY <1>1, SendSubmits
  <2>2. /\ stage' = [stage EXCEPT ![c] = "open"]
        /\ event' = [event EXCEPT ![c] = method]
        /\ read'.settlement # "PaymentSubmitted"
        /\ UNCHANGED <<settlement, unsure, wired>>
    BY <2>1 DEF Submit, Rpc!Begin, nodeVars, Unread
  <2>3. IdleCarriesNothing' /\ StrayReversalIsKnown'
    BY <2>2 DEF IdleCarriesNothing, StrayReversalIsKnown, TradeTypeOK
  <2>4. ReadIsFresh'
    BY <2>2 DEF ReadIsFresh
  <2>5. WiredIsDeclared'
    BY <2>1, <2>2 DEF WiredIsDeclared, TradeTypeOK
  <2> QED  BY <2>3, <2>4, <2>5
<1>2. ASSUME NEW c \in Calls, Answered(c) \/ CallFails(c) PROVE Buyer'
  <2>1. Return(c)
    BY <1>2 DEF Answered, CallFails
  <2>2. /\ stage[c] = "open" /\ stage' = [stage EXCEPT ![c] = "done"]
        /\ read'.settlement # "PaymentSubmitted"
        /\ UNCHANGED <<settlement, wired>>
    BY <2>1, ReturnKeeps DEF nodeVars, Unread
  <2>3. event' = event \/ event' = [event EXCEPT ![c] = NoEvent]
    BY <2>1, ReturnKeeps
  <2>4. event'[c] = Reversal => unsure'
    <3>1. CASE Answered(c)
      BY <3>1, <2>1, ReturnKeeps DEF Answered, TradeTypeOK, NoEvent, Reversal
    <3>2. CASE CallFails(c)
      BY <3>2, <2>3 DEF CallFails, TradeTypeOK, NoEvent, Reversal
    <3> QED  BY <1>2, <3>1, <3>2
  <2>5. unsure => unsure'
    BY <1>2 DEF Answered, CallFails
  <2>6. IdleCarriesNothing'
    BY <2>2, <2>3 DEF IdleCarriesNothing, TradeTypeOK
  <2>7. StrayReversalIsKnown'
    BY <2>2, <2>3, <2>4, <2>5 DEF StrayReversalIsKnown, TradeTypeOK, NoEvent, Reversal
  <2>8. ReadIsFresh'
    BY <2>2 DEF ReadIsFresh
  <2>9. WiredIsDeclared'
    BY <2>2, <2>3 DEF WiredIsDeclared, TradeTypeOK, NoEvent, Reversal
  <2> QED  BY <2>6, <2>7, <2>8, <2>9
<1>3. ASSUME NEW c \in Calls, Decide(c) PROVE Buyer'
  <2>1. /\ stage[c] # "idle"
        /\ event' = event \/ event' = [event EXCEPT ![c] = NoEvent]
        /\ UNCHANGED <<stage, read, unsure, wired>>
    BY <1>3, DecideEffect
  <2>2. settlement \in Declared /\ event[c] # Reversal => settlement' \in Declared
    BY <1>3, DecideEffect, OnlyReversalUndeclares DEF TradeTypeOK, nodeVars
  <2>3. IdleCarriesNothing' /\ StrayReversalIsKnown'
    BY <2>1 DEF IdleCarriesNothing, StrayReversalIsKnown, TradeTypeOK, NoEvent, Reversal
  <2>4. ReadIsFresh'
    <3> SUFFICES ASSUME read.settlement = "PaymentSubmitted", ~unsure, NoReversalOpen'
                 PROVE  settlement' \in Declared
      BY <2>1 DEF ReadIsFresh
    <3>1. event[c] # Reversal
      <4>1. CASE stage[c] = "done"
        BY <4>1 DEF StrayReversalIsKnown
      <4>2. CASE stage[c] = "open"
        <5>1. event' = event
          BY <1>3, <4>2 DEF Decide, Rpc!Decide, Remembered
        <5> QED  BY <2>1, <4>2, <5>1 DEF NoReversalOpen
      <4> QED  BY <2>1, <4>1, <4>2 DEF TradeTypeOK
    <3>2. NoReversalOpen
      BY <2>1, <3>1 DEF NoReversalOpen, TradeTypeOK
    <3> QED  BY <2>2, <3>1, <3>2 DEF ReadIsFresh
  <2>5. WiredIsDeclared'
    BY <2>1, <2>2 DEF WiredIsDeclared, TradeTypeOK, NoEvent, Reversal
  <2> QED  BY <2>3, <2>4, <2>5
<1>4. CASE getMyTrades
  <2>1. /\ read'.settlement = settlement
        /\ UNCHANGED <<stage, event, settlement, unsure, wired>>
    BY <1>4 DEF getMyTrades, callVars, nodeVars
  <2> QED  BY <2>1 DEF IdleCarriesNothing, StrayReversalIsKnown, ReadIsFresh,
              WiredIsDeclared, Declared
<1>5. CASE ReservationExpires \/ ReleaseConfirmed \/ DisputeOpened
  <2>1. /\ settlement' = settlement \/ settlement' \in Declared
        /\ UNCHANGED <<stage, event, read, unsure, wired>>
    BY <1>5 DEF ReservationExpires, ReleaseConfirmed, DisputeOpened, callVars, Declared
  <2> QED  BY <2>1 DEF IdleCarriesNothing, StrayReversalIsKnown, ReadIsFresh,
              NoReversalOpen, WiredIsDeclared
<1>6. CASE WireFiat
  <2>1. /\ read.settlement = "PaymentSubmitted" /\ ~unsure /\ NoReversalOpen
        /\ UNCHANGED <<stage, event, read, settlement, unsure>>
    BY <1>6 DEF WireFiat, callVars, nodeVars, NoReversalOpen, Reversal
  <2>2. \A c \in Calls : event[c] # Reversal
    BY <2>1 DEF TradeTypeOK, NoReversalOpen, IdleCarriesNothing, StrayReversalIsKnown,
       NoEvent, Reversal
  <2> QED  BY <2>1, <2>2 DEF IdleCarriesNothing, StrayReversalIsKnown, ReadIsFresh,
              NoReversalOpen, WiredIsDeclared
<1>7. CASE UNCHANGED tradeVars
  BY <1>7 DEF tradeVars, callVars, nodeVars, IdleCarriesNothing, StrayReversalIsKnown,
     ReadIsFresh, NoReversalOpen, WiredIsDeclared
<1> QED  BY <1>1, <1>2, <1>3, <1>4, <1>5, <1>6, <1>7 DEF TradeNext
-----------------------------------------------------------------------------
(* The node's side: an event stays applied, and the file follows from it.  *)
LEMMA FileInductive ==
  /\ TradeTypeOK /\ UndecidedIsAnEvent /\ SettlementHasItsEvent /\ StatusHasItsEvent
  /\ [TradeNext]_tradeVars
  => SettlementHasItsEvent' /\ StatusHasItsEvent'
<1> SUFFICES ASSUME TradeTypeOK, UndecidedIsAnEvent, SettlementHasItsEvent,
                    StatusHasItsEvent, [TradeNext]_tradeVars
             PROVE  SettlementHasItsEvent' /\ StatusHasItsEvent'
  OBVIOUS
<1>1. ASSUME UNCHANGED nodeVars, read' = read \/ read' = Unread
      PROVE  SettlementHasItsEvent' /\ StatusHasItsEvent'
  BY <1>1 DEF nodeVars, Unread, SettlementHasItsEvent, StatusHasItsEvent, Declared
<1>2. ASSUME NEW c \in Calls, Send(c) \/ Answered(c) \/ CallFails(c)
      PROVE  UNCHANGED nodeVars /\ read' = Unread
  <2>1. CASE Send(c)
    BY <2>1, SendSubmits DEF Submit
  <2>2. CASE Answered(c) \/ CallFails(c)
    BY <2>2 DEF Answered, CallFails, Return
  <2> QED  BY <1>2, <2>1, <2>2
<1>3. ASSUME NEW c \in Calls, Decide(c)
      PROVE  SettlementHasItsEvent' /\ StatusHasItsEvent'
  <2>1. CASE UNCHANGED nodeVars
    BY <1>1, <1>3, <2>1, DecideEffect
  <2>2. CASE /\ Legal(event[c])
             /\ settlement' = SettlementAfter(event[c])
             /\ applied' = applied \cup {event[c]}
    <3>1. event[c] \in Methods /\ read' = read
      BY <1>3, DecideEffect DEF Decide, Rpc!Decide, UndecidedIsAnEvent
    <3>2. SettlementHasItsEvent'
      BY <2>2, <3>1 DEF Methods, Legal, SettlementAfter, SettlementHasItsEvent, Declared
    <3>3. StatusHasItsEvent'
      BY <2>2, <3>1 DEF StatusHasItsEvent
    <3> QED  BY <3>2, <3>3
  <2> QED  BY <1>3, <2>1, <2>2, DecideEffect
<1>4. CASE getMyTrades
  <2>1. UNCHANGED nodeVars /\ read'.status = tradeStatus(reservation, settlement)
    BY <1>4 DEF getMyTrades
  <2>2. SettlementHasItsEvent'
    BY <2>1 DEF nodeVars, SettlementHasItsEvent, Declared
  <2>3. StatusHasItsEvent'
    BY <2>1 DEF nodeVars, tradeStatus, SettlementHasItsEvent, StatusHasItsEvent, Declared
  <2> QED  BY <2>2, <2>3
<1>5. CASE ReservationExpires \/ ReleaseConfirmed \/ DisputeOpened \/ WireFiat
  <2>1. read' = read /\ applied' = applied
    BY <1>5 DEF ReservationExpires, ReleaseConfirmed, DisputeOpened, WireFiat, nodeVars
  <2>2. \/ settlement' = settlement
        \/ settlement = "Approved" /\ settlement' = "Completed"
        \/ settlement \in {"PaymentSubmitted", "Rejected"} /\ settlement' = "Disputed"
    BY <1>5 DEF ReservationExpires, ReleaseConfirmed, DisputeOpened, WireFiat, nodeVars
  <2> QED  BY <2>1, <2>2 DEF SettlementHasItsEvent, StatusHasItsEvent, Declared
<1>6. CASE UNCHANGED tradeVars
  BY <1>1, <1>6 DEF tradeVars
<1> QED  BY <1>1, <1>2, <1>3, <1>4, <1>5, <1>6 DEF TradeNext
-----------------------------------------------------------------------------
LEMMA TradeStarts == TradeInit => TradeInv
<1> SUFFICES ASSUME TradeInit PROVE TradeInv
  OBVIOUS
<1>1. /\ \A c \in Calls : stage[c] = "idle" /\ event[c] = NoEvent
      /\ read = Unread /\ ~wired
  BY DEF TradeInit, Rpc!Init
<1>2. TradeTypeOK
  <2>1. /\ stage \in [Calls -> {"idle", "open", "done"}]
        /\ decision \in [Calls -> {"none", "applied", "refused"}]
        /\ report \in [Calls -> {"none", "success", "refusal", "unknown"}]
        /\ event \in [Calls -> Methods \cup {NoEvent}]
    BY DEF TradeInit, Rpc!Init
  <2>2. /\ reservation \in {"none", "EscrowLocked", "Cancelled", "Expired"}
        /\ settlement \in SettlementState \cup {"none"}
        /\ applied \subseteq Methods
    BY DEF TradeInit, Methods, SettlementState, TradeStatus
  <2>3. /\ read.status \in TradeStatus \cup {"unread"}
        /\ read.settlement \in SettlementState \cup {"none"}
        /\ unsure \in BOOLEAN /\ wired \in BOOLEAN
    BY DEF TradeInit, Unread
  <2> QED  BY <2>1, <2>2, <2>3 DEF TradeTypeOK
<1>3. UndecidedIsAnEvent /\ IdleCarriesNothing /\ StrayReversalIsKnown
  BY <1>1 DEF UndecidedIsAnEvent, IdleCarriesNothing, StrayReversalIsKnown
<1>4. ReadIsFresh /\ WiredIsDeclared
  BY <1>1 DEF ReadIsFresh, WiredIsDeclared, Unread
<1>5. SettlementHasItsEvent /\ StatusHasItsEvent
  BY <1>1 DEF TradeInit, Unread, SettlementHasItsEvent, StatusHasItsEvent, Declared
<1> QED  BY <1>2, <1>3, <1>4, <1>5 DEF TradeInv

LEMMA TradeInvariance == TradeSpec => []TradeInv
<1>1. TradeInv /\ [TradeNext]_tradeVars => TradeInv'
  BY TypeInductive, BuyerInductive, FileInductive DEF TradeInv, Buyer
<1> QED  BY TradeStarts, <1>1, PTL DEF TradeSpec

(* However many calls the parties make, the calls and the node's records   *)
(* keep their types, and what a party reads is a TradeStatus.              *)
THEOREM TradeTypeCorrect == TradeSpec => []TradeTypeOK
<1>1. TradeInv => TradeTypeOK
  BY DEF TradeInv
<1> QED  BY TradeInvariance, <1>1, PTL

(* A buyer who wires only on a declaration they read back, and never with  *)
(* a reversal of theirs unaccounted for, does not see the trade cancelled  *)
(* under their money, whatever either party sends and whenever it lands.   *)
THEOREM MoneyStaysSafe == TradeSpec => []MoneyIsSafe
<1>1. TradeInv => MoneyIsSafe
  BY DEF TradeInv, WiredIsDeclared, Declared, MoneyIsSafe
<1> QED  BY TradeInvariance, <1>1, PTL

(* What tradeStatus shows was brought about by the events it stands for.   *)
THEOREM StatusIsEarned == TradeSpec => []StatusHasItsEvent
<1>1. TradeInv => StatusHasItsEvent
  BY DEF TradeInv
<1> QED  BY TradeInvariance, <1>1, PTL
=============================================================================
