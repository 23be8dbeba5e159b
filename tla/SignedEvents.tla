----------------------------- MODULE SignedEvents -----------------------------
(***************************************************************************)
(* From a keyfile to an event on file: processes that share a wallet.json  *)
(* save and load it (wallet.ts), and sign and submit events with the       *)
(* wallet they hold (domain.ts, tags.ts and the send methods of            *)
(* advertisements.ts, providers.ts, oracles.ts and notifications.ts; those *)
(* of a trade are in TradeLifecycle).  A keyfile is written in place and   *)
(* in parts, a process may die at any moment, and the payload a caller     *)
(* passed is an object they may go on editing while its signature is       *)
(* awaited.  The node is external.                                         *)
(***************************************************************************)
EXTENDS Naturals, Sequences

CONSTANTS
  Processes, \* programs that use one keyfile, each with a wallet of its own
  None       \* no wallet, no key, nothing written

VARIABLES
  file,    \* what the keyfile holds
  writing, \* writing[p]: the part p's save writes next, 0 if p is not saving
  wallet,  \* wallet[p]: the seed of the wallet p holds
  call,    \* call[p]: p's send call
  onFile   \* onFile[d]: the key that founded the service, or the advertisement

vars == <<file, writing, wallet, call, onFile>>

-----------------------------------------------------------------------------
(* Keys.  A seed has two halves, so that one can be of two minds.          *)

Seed(p) == <<p, p>>
PublicKey(seed) == [derivedFrom |-> seed]
Sign(seed, bytes) == [by |-> PublicKey(seed), over |-> bytes]
peerIdFromPublicKey(publicKey) == [of |-> publicKey]

(* Events, by the domain they belong to.                                   *)

Registry == {"Registration", "HealthUpdate", "Withdrawal"}
Oracles == {"OraclePublish"}
Notifications == {"SubscriptionUpdate", "DeliveryReport"}
Advertisements ==
  {"AdvertisementCreate", "AdvertisementStatusSet", "AdvertisementTermsUpdate",
   "AdvertisementPriceUpdate"}

DomainOf(kind) ==
  CASE kind \in Registry -> "registry"
    [] kind \in Oracles -> "oracles"
    [] kind \in Notifications -> "notifications"
    [] kind \in Advertisements -> "advertisements"

tagsOneRowOff(kind) ==
  <<DomainOf(kind),
    IF kind = "AdvertisementPriceUpdate" THEN "AdvertisementTermsUpdate" ELSE kind>>

tags(kind) == <<DomainOf(kind), kind>>

\* The node's own table.
CoreTag(kind) == <<DomainOf(kind), kind>>

\* A payload names its sender.  Its text has every field in the order the
\* node declares them, or it has not: a field moved, or an optional one left
\* out.
Payload(peer, declared) == [from |-> peer, declared |-> declared, content |-> "agreed"]

preimageOf(tag, payload) == <<tag, payload>>

\* A node verifies what its own struct serialises to.
Reserialised(payload) == [payload EXCEPT !.declared = TRUE]

-----------------------------------------------------------------------------
(* The keyfile.  Its text is an array of both halves of the seed and the    *)
(* public key.                                                              *)

Text(seed) == <<seed[1], seed[2], PublicKey(seed)>>

\* writeFile opens the file, which empties it.
saveWalletFile(p) ==
  /\ wallet[p] # None
  /\ writing[p] = 0
  /\ file' = <<>>
  /\ writing' = [writing EXCEPT ![p] = 1]
  /\ UNCHANGED <<wallet, call, onFile>>

\* Each writer at its own position, whatever became of the file meanwhile.
WritePart(p) ==
  LET at == writing[p]
      size == IF at > Len(file) THEN at ELSE Len(file)
  IN
  /\ at # 0
  /\ file' = [i \in 1 .. size |->
                IF i = at THEN Text(wallet[p])[at]
                ELSE IF i <= Len(file) THEN file[i] ELSE None]
  /\ writing' = [writing EXCEPT ![p] = IF at = 3 THEN 0 ELSE at + 1]
  /\ UNCHANGED <<wallet, call, onFile>>

\* A text that is cut off or has a hole in it is no array of 64 numbers.
Whole == Len(file) = 3 /\ \A i \in 1 .. 3 : file[i] # None

loadWithoutTheCheck(p) ==
  /\ wallet[p] = None
  /\ Whole
  /\ wallet' = [wallet EXCEPT ![p] = <<file[1], file[2]>>]
  /\ UNCHANGED <<file, writing, call, onFile>>

\* Anything else is a KeyfileError, and the process goes on without.
loadWalletFile(p) ==
  /\ wallet[p] = None
  /\ Whole
  /\ file[3] = PublicKey(<<file[1], file[2]>>)
  /\ wallet' = [wallet EXCEPT ![p] = <<file[1], file[2]>>]
  /\ UNCHANGED <<file, writing, call, onFile>>

NoCall == [stage |-> "idle"]

\* What was sent stays sent.
Crash(p) ==
  /\ wallet[p] # None
  /\ wallet' = [wallet EXCEPT ![p] = None]
  /\ writing' = [writing EXCEPT ![p] = 0]
  /\ call' = [call EXCEPT ![p] = IF @.stage = "signing" THEN NoCall ELSE @]
  /\ UNCHANGED <<file, onFile>>

-----------------------------------------------------------------------------
(* Sending.                                                                *)

\* The bytes to sign are taken at the call, the payload once the signature is
\* there.  A process has one call on its way at a time.
Send(p, kind) ==
  /\ wallet[p] # None
  /\ call[p].stage \notin {"signing", "sent"}
  /\ \E declared \in BOOLEAN :
       LET payload == Payload(peerIdFromPublicKey(PublicKey(wallet[p])), declared)
       IN call' = [call EXCEPT ![p] =
                     [stage |-> "signing", kind |-> kind, payload |-> payload,
                      meant |-> payload, bytes |-> preimageOf(tags(kind), payload)]]
  /\ UNCHANGED <<file, writing, wallet, onFile>>

sendProviderRegister(p) == Send(p, "Registration")
sendProviderHealthUpdate(p) == Send(p, "HealthUpdate")
sendProviderWithdraw(p) == Send(p, "Withdrawal")
sendOraclePublish(p) == Send(p, "OraclePublish")
sendSubscriptionUpdate(p) == Send(p, "SubscriptionUpdate")
sendDeliveryReport(p) == Send(p, "DeliveryReport")
sendAdvertisementCreate(p) == Send(p, "AdvertisementCreate")
sendAdvertisementStatusSet(p) == Send(p, "AdvertisementStatusSet")
sendAdvertisementTermsUpdate(p) == Send(p, "AdvertisementTermsUpdate")
sendAdvertisementPriceUpdate(p) == Send(p, "AdvertisementPriceUpdate")

\* The caller goes on editing the object they passed.
EditPayload(p) ==
  /\ call[p].stage = "signing"
  /\ call[p].payload.content = "agreed"
  /\ call' = [call EXCEPT ![p].payload.content = "edited"]
  /\ UNCHANGED <<file, writing, wallet, onFile>>

SubmitSignedLate(p) ==
  /\ call[p].stage = "signing"
  /\ call' = [call EXCEPT ![p] =
       [stage |-> "sent", kind |-> @.kind, payload |-> @.payload, meant |-> @.meant,
        signature |-> Sign(wallet[p], preimageOf(tags(@.kind), @.payload))]]
  /\ UNCHANGED <<file, writing, wallet, onFile>>

\* The signature resolves, and the event goes out with it.
Submit(p) ==
  /\ call[p].stage = "signing"
  /\ call' = [call EXCEPT ![p] =
       [stage |-> "sent", kind |-> @.kind, payload |-> @.payload, meant |-> @.meant,
        signature |-> Sign(wallet[p], @.bytes)]]
  /\ UNCHANGED <<file, writing, wallet, onFile>>

Lost(p) ==
  /\ call[p].stage = "sent"
  /\ call' = [call EXCEPT ![p] = NoCall]
  /\ UNCHANGED <<file, writing, wallet, onFile>>

-----------------------------------------------------------------------------
(* The node.  The records of one service and of one advertisement, each     *)
(* under the key that founded it.                                           *)

Founding == {"Registration", "AdvertisementCreate"}
Domains == {DomainOf(kind) : kind \in Founding}

\* They carry no key of their own.
UnderTheKeyOnFile ==
  {"HealthUpdate", "Withdrawal", "AdvertisementStatusSet", "AdvertisementTermsUpdate",
   "AdvertisementPriceUpdate"}

Provided == {"OraclePublish", "DeliveryReport"}

\* The key a payload states, or should have.
KeyOf(event) == event.payload.from.of

VerifyingKey(event) ==
  IF event.kind \in UnderTheKeyOnFile THEN onFile[DomainOf(event.kind)] ELSE KeyOf(event)

Verifies(event) ==
  event.signature =
    [by |-> VerifyingKey(event),
     over |-> preimageOf(CoreTag(event.kind), Reserialised(event.payload))]

\* An id is founded once, and a provider's event needs a registered provider.
Legal(event) ==
  /\ event.kind \in Founding => onFile[DomainOf(event.kind)] = None
  /\ event.kind \in UnderTheKeyOnFile => onFile[DomainOf(event.kind)] # None
  /\ event.kind \in Provided => onFile["registry"] = KeyOf(event)

Decide(p) ==
  LET event == call[p]
      answer == IF ~Legal(event) THEN "refused"
                ELSE IF Verifies(event) THEN "accepted" ELSE "invalidSignature"
  IN
  /\ event.stage = "sent"
  /\ call' = [call EXCEPT ![p] = [stage |-> answer]]
  /\ onFile' =
       IF answer # "accepted" THEN onFile
       ELSE IF event.kind \in Founding
       THEN [onFile EXCEPT ![DomainOf(event.kind)] = KeyOf(event)]
       ELSE IF event.kind = "Withdrawal"
       THEN [onFile EXCEPT !["registry"] = None] ELSE onFile
  /\ UNCHANGED <<file, writing, wallet>>

\* A service not seen for a while, an advertisement taken down for good.
Expire(d) ==
  /\ onFile[d] # None
  /\ onFile' = [onFile EXCEPT ![d] = None]
  /\ UNCHANGED <<file, writing, wallet, call>>

-----------------------------------------------------------------------------
\* Every process has just generated its keypair.
Init ==
  /\ file = <<>>
  /\ writing = [p \in Processes |-> 0]
  /\ wallet = [p \in Processes |-> Seed(p)]
  /\ call = [p \in Processes |-> NoCall]
  /\ onFile = [d \in Domains |-> None]

SendSomething(p) ==
  \/ sendProviderRegister(p) \/ sendProviderHealthUpdate(p) \/ sendProviderWithdraw(p)
  \/ sendOraclePublish(p) \/ sendSubscriptionUpdate(p) \/ sendDeliveryReport(p)
  \/ sendAdvertisementCreate(p) \/ sendAdvertisementStatusSet(p)
  \/ sendAdvertisementTermsUpdate(p) \/ sendAdvertisementPriceUpdate(p)

UseKeyfile(p) == saveWalletFile(p) \/ WritePart(p) \/ loadWalletFile(p)

Next ==
  \/ \E p \in Processes :
       \/ UseKeyfile(p) \/ Crash(p)
       \/ SendSomething(p) \/ EditPayload(p) \/ Submit(p) \/ Lost(p) \/ Decide(p)
  \/ \E d \in Domains : Expire(d)

Spec == Init /\ [][Next]_vars

-----------------------------------------------------------------------------
(* Properties.                                                             *)

\* Type invariant: in particular no process ever holds a wallet that none
\* generated, whatever saves and crashes left in the keyfile (wallet.ts on
\* loadWalletFile: "catching a truncated or corrupted file").
TypeOK ==
  /\ wallet \in [Processes -> {Seed(p) : p \in Processes} \cup {None}]
  /\ writing \in [Processes -> 0 .. 3]
  /\ Len(file) <= 3
  /\ \A p \in Processes :
       call[p].stage \in {"idle", "signing", "sent", "accepted", "refused", "invalidSignature"}
  /\ onFile \in [Domains -> {PublicKey(Seed(p)) : p \in Processes} \cup {None}]

Decided(p, answer) == call[p].stage = "sent" /\ call'[p].stage = answer

\* What the node takes is what its sender meant: the payload as it stood when
\* the send method was called, and, if it changes a record, by the wallet the
\* record is filed under.  A caller who reuses the object for their next
\* event, or who restarted from a keyfile another process wrote, is refused
\* rather than misunderstood.
AcceptedAsMeant ==
  [][\A p \in Processes :
       Decided(p, "accepted") =>
         /\ call[p].payload = call[p].meant
         /\ call[p].kind \in UnderTheKeyOnFile =>
              onFile[DomainOf(call[p].kind)] = call[p].meant.from.of]_vars

\* A signature is refused for a reason the sender can know of: the payload was
\* edited under way, or is not laid out as the node declares it (types.ts on
\* Registration and SubscriptionUpdate), or the record is another wallet's.
SignatureRefusedForAReason ==
  [][\A p \in Processes :
       Decided(p, "invalidSignature") =>
         \/ call[p].payload # call[p].meant
         \/ ~call[p].payload.declared
         \/ /\ call[p].kind \in UnderTheKeyOnFile
            /\ onFile[DomainOf(call[p].kind)] # call[p].meant.from.of]_vars
=============================================================================
