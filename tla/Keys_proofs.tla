------------------------------ MODULE Keys_proofs ------------------------------
(***************************************************************************)
(* Proofs about what is signed, what is spelt and what is sealed.           *)
(* SignedEvents, for any number of processes: a process holds only wallets  *)
(* somebody generated, and what the node makes of an event agrees with what *)
(* its sender meant.  Base58, for byte strings of any length: the text is   *)
(* the same number behind the same zeros, and is read back.  ChannelKeys,   *)
(* for any number of wallets, gateways and boxes: a claim's text is one key, *)
(* what opens is what was sealed, no key stream is used twice, no box is    *)
(* everybody's, and a wallet reads its whole history.                       *)
(***************************************************************************)
EXTENDS SignedEvents, ChannelKeys, Induction, SequenceTheorems, FiniteSetTheorems

Seeds == {Seed(p) : p \in Processes}
Keys == {PublicKey(Seed(p)) : p \in Processes}
Parts == Processes \cup Keys \cup {None}
Payloads ==
  [from : {peerIdFromPublicKey(key) : key \in Keys}, declared : BOOLEAN,
   content : {"agreed", "edited"}]

(* Each part of the keyfile is the same part of somebody's text.            *)
FileIsOfTexts ==
  /\ file \in Seq(Parts)
  /\ Len(file) <= 3
  /\ \A i \in 1 .. Len(file) : file[i] # None =>
       /\ i \in {1, 2} => file[i] \in Processes
       /\ i = 3 => file[i] \in Keys

(* Who saves has something to save.                                        *)
WalletsAreOwn ==
  /\ wallet \in [Processes -> Seeds \cup {None}]
  /\ writing \in [Processes -> 0 .. 3]
  /\ \A p \in Processes : writing[p] # 0 => wallet[p] # None

(* What is being sent: the payload differs from what was meant at most by an *)
(* edit, and the sender it names is the wallet's own.                       *)
Meant(c, seed) ==
  /\ c.meant \in Payloads
  /\ c.meant.content = "agreed"
  /\ c.meant.from.of = PublicKey(seed)
  /\ c.payload \in Payloads
  /\ c.payload.from = c.meant.from
  /\ c.payload.declared = c.meant.declared

BeingSigned(p) ==
  /\ wallet[p] \in Seeds /\ wallet[p] # None
  /\ DOMAIN call[p] = {"stage", "kind", "payload", "meant", "bytes"}
  /\ Meant(call[p], wallet[p])
  /\ call[p].bytes = preimageOf(tags(call[p].kind), call[p].meant)

OnItsWay(p) ==
  \E seed \in Seeds :
    /\ Meant(call[p], seed)
    /\ call[p].signature = Sign(seed, preimageOf(tags(call[p].kind), call[p].meant))

Stages == {"idle", "signing", "sent", "accepted", "refused", "invalidSignature"}

CallsAreMeant ==
  /\ call = [p \in Processes |-> call[p]]
  /\ \A p \in Processes :
       /\ call[p].stage \in Stages
       /\ call[p].stage = "signing" => BeingSigned(p)
       /\ call[p].stage = "sent" => OnItsWay(p)

FiledUnderKeys == onFile \in [Domains -> Keys \cup {None}]

EventInv == FileIsOfTexts /\ WalletsAreOwn /\ CallsAreMeant /\ FiledUnderKeys

-----------------------------------------------------------------------------
LEMMA EventStarts == Init => EventInv
<1> SUFFICES ASSUME Init PROVE EventInv
  OBVIOUS
<1>1. FileIsOfTexts
  BY DEF Init, FileIsOfTexts
<1>2. WalletsAreOwn
  BY DEF Init, WalletsAreOwn, Seeds
<1>3. CallsAreMeant
  BY DEF Init, CallsAreMeant, NoCall, Stages
<1>4. FiledUnderKeys
  BY DEF Init, FiledUnderKeys
<1> QED  BY <1>1, <1>2, <1>3, <1>4 DEF EventInv

(* A step that leaves the calls and the wallets in use alone.               *)
LEMMA CallsStay ==
  ASSUME CallsAreMeant, call' = call,
         \A p \in Processes : call[p].stage = "signing" => wallet'[p] = wallet[p]
  PROVE  CallsAreMeant'
<1>1. \A p \in Processes : call[p].stage = "signing" => BeingSigned(p)'
  BY DEF CallsAreMeant, BeingSigned, Meant
<1>2. \A p \in Processes : OnItsWay(p)' <=> OnItsWay(p)
  BY DEF OnItsWay, Meant
<1> QED  BY <1>1, <1>2 DEF CallsAreMeant

(* What becomes of one call is nothing to the others.                       *)
LEMMA CallsElsewhere ==
  ASSUME CallsAreMeant, NEW p \in Processes,
         call' = [q \in Processes |-> call'[q]],
         \A q \in Processes \ {p} : call'[q] = call[q] /\ wallet'[q] = wallet[q],
         call'[p].stage \in Stages,
         call'[p].stage = "signing" => BeingSigned(p)',
         call'[p].stage = "sent" => OnItsWay(p)' \/ call'[p] = call[p]
  PROVE  CallsAreMeant'
<1>1. ASSUME NEW q \in Processes \ {p}
      PROVE  /\ call'[q].stage \in Stages
             /\ call'[q].stage = "signing" => BeingSigned(q)'
             /\ call'[q].stage = "sent" => OnItsWay(q)'
  BY <1>1 DEF CallsAreMeant, BeingSigned, OnItsWay, Meant
<1>2. call'[p] = call[p] /\ call[p].stage = "sent" => OnItsWay(p)'
  BY DEF CallsAreMeant, OnItsWay, Meant
<1> QED  BY <1>1, <1>2 DEF CallsAreMeant

LEMMA SaveKeeps ==
  ASSUME EventInv, NEW p \in Processes, saveWalletFile(p)
  PROVE  EventInv'
<1> USE DEF EventInv
<1>1. FileIsOfTexts'
  BY DEF FileIsOfTexts, saveWalletFile
<1>2. WalletsAreOwn'
  BY DEF WalletsAreOwn, saveWalletFile
<1>3. CallsAreMeant'
  BY CallsStay DEF saveWalletFile
<1> QED  BY <1>1, <1>2, <1>3 DEF FiledUnderKeys, saveWalletFile

(* A save writes every part at its place, over whatever is there.           *)
LEMMA WriteKeeps ==
  ASSUME EventInv, NEW p \in Processes, WritePart(p)
  PROVE  EventInv'
<1> DEFINE at == writing[p]
           size == IF at > Len(file) THEN at ELSE Len(file)
           part(i) == IF i = at THEN Text(wallet[p])[at]
                      ELSE IF i <= Len(file) THEN file[i] ELSE None
<1> USE DEF EventInv
<1>1. /\ at \in 1 .. 3
      /\ Len(file) \in 0 .. 3
      /\ file \in [1 .. Len(file) -> Parts]
      /\ size \in 1 .. 3
  <2>1. Len(file) \in Nat /\ Len(file) <= 3 /\ file \in [1 .. Len(file) -> Parts]
    BY LenProperties DEF FileIsOfTexts
  <2>2. at \in 1 .. 3
    BY DEF WritePart, WalletsAreOwn
  <2> QED  BY <2>1, <2>2
<1>2. PICK q \in Processes : wallet[p] = <<q, q>>
  BY <1>1 DEF WalletsAreOwn, Seeds, Seed
<1>3. /\ at \in {1, 2} => Text(wallet[p])[at] \in Processes
      /\ at = 3 => Text(wallet[p])[at] \in Keys
  BY <1>1, <1>2 DEF Text, Keys, Seed
<1>4. file' = [i \in 1 .. size |-> part(i)]
  BY DEF WritePart
<1>5. \A i \in 1 .. size : part(i) \in Parts
  BY <1>1, <1>3 DEF Parts
<1>6. file' \in [1 .. size -> Parts]
  BY <1>4, <1>5
<1>7. file' \in Seq(Parts) /\ Len(file') = size
  <2>1. size \in Nat
    BY <1>1
  <2> HIDE DEF size, part
  <2>2. file' \in Seq(Parts)
    BY <1>6, <2>1, SeqDef
  <2>3. Len(file') \in Nat /\ DOMAIN file' = 1 .. Len(file')
    BY <2>2, LenProperties
  <2>4. DOMAIN file' = 1 .. size
    BY <1>6
  <2>5. \A m, n \in Nat : 1 .. m = 1 .. n => m = n
    OBVIOUS
  <2>6. Len(file') = size
    BY <2>1, <2>3, <2>4, <2>5
  <2> QED  BY <2>2, <2>6
<1>8. FileIsOfTexts'
  <2>1. \A i \in 1 .. size : part(i) # None =>
          /\ i \in {1, 2} => part(i) \in Processes
          /\ i = 3 => part(i) \in Keys
    BY <1>1, <1>3 DEF FileIsOfTexts
  <2> QED  BY <2>1, <1>1, <1>4, <1>7 DEF FileIsOfTexts
<1>9. WalletsAreOwn'
  BY <1>1 DEF WalletsAreOwn, WritePart
<1>10. CallsAreMeant'
  BY CallsStay DEF WritePart
<1> QED  BY <1>8, <1>9, <1>10 DEF FiledUnderKeys, WritePart

(* The public key at the end of a keyfile vouches for both halves.          *)
LEMMA LoadKeeps ==
  ASSUME EventInv, NEW p \in Processes, loadWalletFile(p)
  PROVE  EventInv'
<1> USE DEF EventInv
<1>1. /\ Len(file) = 3
      /\ file[1] \in Processes /\ file[2] \in Processes /\ file[3] \in Keys
      /\ file[3] = PublicKey(<<file[1], file[2]>>)
  BY DEF loadWalletFile, Whole, FileIsOfTexts
<1>2. PICK q \in Processes : file[3] = PublicKey(<<q, q>>)
  BY <1>1 DEF Keys, Seed
<1>3. <<file[1], file[2]>> = <<q, q>>
  BY <1>1, <1>2 DEF PublicKey
<1>4. <<file[1], file[2]>> \in Seeds
  BY <1>3 DEF Seeds, Seed
<1>5. wallet' = [wallet EXCEPT ![p] = <<file[1], file[2]>>] /\ UNCHANGED <<file, writing, call, onFile>>
  BY DEF loadWalletFile
<1>6. WalletsAreOwn'
  BY <1>4, <1>5 DEF WalletsAreOwn, loadWalletFile
<1>7. FileIsOfTexts' /\ FiledUnderKeys'
  BY <1>5 DEF FileIsOfTexts, FiledUnderKeys
<1>8. CallsAreMeant'
  <2>1. wallet[p] = None
    BY DEF loadWalletFile
  <2> QED  BY <2>1, <1>5, CallsStay DEF CallsAreMeant, BeingSigned, WalletsAreOwn
<1> QED  BY <1>6, <1>7, <1>8

(* A process that dies while a signature is awaited sends nothing.          *)
LEMMA CrashKeeps ==
  ASSUME EventInv, NEW p \in Processes, Crash(p)
  PROVE  EventInv'
<1> USE DEF EventInv
<1>1. /\ wallet' = [wallet EXCEPT ![p] = None]
      /\ writing' = [writing EXCEPT ![p] = 0]
      /\ call' = [call EXCEPT ![p] = IF @.stage = "signing" THEN NoCall ELSE @]
      /\ UNCHANGED <<file, onFile>>
  BY DEF Crash
<1>2. FileIsOfTexts' /\ FiledUnderKeys'
  BY <1>1 DEF FileIsOfTexts, FiledUnderKeys
<1>3. WalletsAreOwn'
  BY <1>1 DEF WalletsAreOwn
<1>4. /\ call'[p] = IF call[p].stage = "signing" THEN NoCall ELSE call[p]
      /\ \A q \in Processes \ {p} : call'[q] = call[q] /\ wallet'[q] = wallet[q]
      /\ call' = [q \in Processes |-> call'[q]]
  BY <1>1 DEF CallsAreMeant, WalletsAreOwn
<1>5. call'[p].stage \in Stages /\ call'[p].stage # "signing"
  BY <1>4 DEF NoCall, Stages, CallsAreMeant
<1>6. call'[p].stage = "sent" => call'[p] = call[p] /\ call[p].stage = "sent"
  BY <1>4 DEF NoCall
<1>7. CallsAreMeant'
  BY <1>4, <1>5, <1>6, CallsElsewhere
<1> QED  BY <1>2, <1>3, <1>7

-----------------------------------------------------------------------------
(* A call begins with a payload that names its sender, and means it.        *)
LEMMA SendKeeps ==
  ASSUME EventInv, NEW p \in Processes, NEW kind, Send(p, kind)
  PROVE  EventInv'
<1> USE DEF EventInv
<1>1. PICK declared \in BOOLEAN :
        LET payload == Payload(peerIdFromPublicKey(PublicKey(wallet[p])), declared)
        IN call' = [call EXCEPT ![p] =
                      [stage |-> "signing", kind |-> kind, payload |-> payload,
                       meant |-> payload, bytes |-> preimageOf(tags(kind), payload)]]
  BY DEF Send
<1> DEFINE payload == Payload(peerIdFromPublicKey(PublicKey(wallet[p])), declared)
<1>2. wallet[p] # None /\ wallet[p] \in Seeds /\ UNCHANGED <<file, writing, wallet, onFile>>
  BY DEF Send, WalletsAreOwn
<1>3. FileIsOfTexts' /\ FiledUnderKeys' /\ WalletsAreOwn'
  BY <1>2 DEF FileIsOfTexts, FiledUnderKeys, WalletsAreOwn
<1>4. /\ payload \in Payloads
      /\ payload.content = "agreed"
      /\ payload.from.of = PublicKey(wallet[p])
  BY <1>2 DEF Payload, Payloads, Keys, Seeds, peerIdFromPublicKey
<1> HIDE DEF payload
<1>5. /\ call'[p] = [stage |-> "signing", kind |-> kind, payload |-> payload,
                    meant |-> payload, bytes |-> preimageOf(tags(kind), payload)]
      /\ \A q \in Processes \ {p} : call'[q] = call[q]
      /\ call' = [q \in Processes |-> call'[q]]
  BY <1>1 DEF CallsAreMeant, payload
<1>6. BeingSigned(p)'
  BY <1>2, <1>4, <1>5 DEF BeingSigned, Meant
<1>7. CallsAreMeant'
  BY <1>2, <1>5, <1>6, CallsElsewhere DEF Stages
<1> QED  BY <1>3, <1>7

(* An edit changes what is in the payload, and not whose it is.             *)
LEMMA EditKeeps ==
  ASSUME EventInv, NEW p \in Processes, EditPayload(p)
  PROVE  EventInv'
<1> USE DEF EventInv
<1>1. /\ call[p].stage = "signing" /\ BeingSigned(p)
      /\ call' = [call EXCEPT ![p].payload.content = "edited"]
      /\ UNCHANGED <<file, writing, wallet, onFile>>
  BY DEF EditPayload, CallsAreMeant
<1>2. FileIsOfTexts' /\ FiledUnderKeys' /\ WalletsAreOwn'
  BY <1>1 DEF FileIsOfTexts, FiledUnderKeys, WalletsAreOwn
<1>3. /\ call'[p] = [call[p] EXCEPT !.payload.content = "edited"]
      /\ \A q \in Processes \ {p} : call'[q] = call[q]
      /\ call' = [q \in Processes |-> call'[q]]
  BY <1>1 DEF CallsAreMeant
<1>4. /\ DOMAIN call'[p] = DOMAIN call[p]
      /\ call'[p].stage = "signing" /\ call'[p].kind = call[p].kind
      /\ call'[p].meant = call[p].meant /\ call'[p].bytes = call[p].bytes
      /\ call'[p].payload = [call[p].payload EXCEPT !.content = "edited"]
  BY <1>1, <1>3 DEF BeingSigned
<1>5. /\ call'[p].payload \in Payloads
      /\ call'[p].payload.from = call[p].payload.from
      /\ call'[p].payload.declared = call[p].payload.declared
  BY <1>1, <1>4 DEF BeingSigned, Meant, Payloads
<1>6. BeingSigned(p)'
  BY <1>1, <1>4, <1>5 DEF BeingSigned, Meant
<1>7. CallsAreMeant'
  BY <1>1, <1>3, <1>4, <1>6, CallsElsewhere DEF Stages
<1> QED  BY <1>2, <1>7

(* What is signed is what was meant, by the wallet that was there.          *)
LEMMA SubmitKeeps ==
  ASSUME EventInv, NEW p \in Processes, Submit(p)
  PROVE  EventInv'
<1> USE DEF EventInv
<1>1. /\ call[p].stage = "signing" /\ BeingSigned(p)
      /\ call' = [call EXCEPT ![p] =
           [stage |-> "sent", kind |-> @.kind, payload |-> @.payload, meant |-> @.meant,
            signature |-> Sign(wallet[p], @.bytes)]]
      /\ UNCHANGED <<file, writing, wallet, onFile>>
  BY DEF Submit, CallsAreMeant
<1>2. FileIsOfTexts' /\ FiledUnderKeys' /\ WalletsAreOwn'
  BY <1>1 DEF FileIsOfTexts, FiledUnderKeys, WalletsAreOwn
<1>3. /\ call'[p] = [stage |-> "sent", kind |-> call[p].kind, payload |-> call[p].payload,
                    meant |-> call[p].meant, signature |-> Sign(wallet[p], call[p].bytes)]
      /\ \A q \in Processes \ {p} : call'[q] = call[q]
      /\ call' = [q \in Processes |-> call'[q]]
  BY <1>1 DEF CallsAreMeant
<1>4. Meant(call'[p], wallet[p])
  BY <1>1, <1>3 DEF BeingSigned, Meant
<1>5. call'[p].signature = Sign(wallet[p], preimageOf(tags(call'[p].kind), call'[p].meant))
  BY <1>1, <1>3 DEF BeingSigned
<1>6. OnItsWay(p)'
  BY <1>1, <1>4, <1>5 DEF OnItsWay, BeingSigned
<1>7. CallsAreMeant'
  BY <1>1, <1>3, <1>6, CallsElsewhere DEF Stages
<1> QED  BY <1>2, <1>7

(* An answer, or none, ends the call; a record that is founded is founded by *)
(* the key its payload states.                                              *)
LEMMA DecideKeeps ==
  ASSUME EventInv, NEW p \in Processes, Decide(p) \/ Lost(p)
  PROVE  EventInv'
<1> USE DEF EventInv
<1>1. /\ call[p].stage = "sent" /\ OnItsWay(p)
      /\ \E stage \in Stages \ {"signing", "sent"} :
           call' = [call EXCEPT ![p] = [stage |-> stage]]
      /\ UNCHANGED <<file, writing, wallet>>
  BY DEF Decide, Lost, CallsAreMeant, NoCall, Stages
<1>2. FileIsOfTexts' /\ WalletsAreOwn'
  BY <1>1 DEF FileIsOfTexts, WalletsAreOwn
<1>3. KeyOf(call[p]) \in Keys
  BY <1>1 DEF KeyOf, OnItsWay, Meant, Keys, Seeds
<1>4. \/ onFile' = onFile
      \/ \E d, key : key \in Keys \cup {None} /\ onFile' = [onFile EXCEPT ![d] = key]
  BY <1>3 DEF Decide, Lost
<1>5. FiledUnderKeys'
  BY <1>4 DEF FiledUnderKeys
<1>6. /\ call'[p].stage \in Stages \ {"signing", "sent"}
      /\ \A q \in Processes \ {p} : call'[q] = call[q]
      /\ call' = [q \in Processes |-> call'[q]]
  BY <1>1 DEF CallsAreMeant
<1>7. CallsAreMeant'
  BY <1>1, <1>6, CallsElsewhere
<1> QED  BY <1>2, <1>5, <1>7

LEMMA EventInvHolds ==
  ASSUME EventInv, [Next]_vars
  PROVE  EventInv'
<1>1. CASE \E p \in Processes : UseKeyfile(p)
  BY <1>1, SaveKeeps, WriteKeeps, LoadKeeps DEF UseKeyfile
<1>2. CASE \E p \in Processes : Crash(p)
  BY <1>2, CrashKeeps
<1>3. CASE \E p \in Processes : SendSomething(p)
  BY <1>3, SendKeeps
  DEF SendSomething, sendProviderRegister, sendProviderHealthUpdate, sendProviderWithdraw,
      sendOraclePublish, sendSubscriptionUpdate, sendDeliveryReport,
      sendAdvertisementCreate, sendAdvertisementStatusSet, sendAdvertisementTermsUpdate,
      sendAdvertisementPriceUpdate
<1>4. CASE \E p \in Processes : EditPayload(p) \/ Submit(p)
  BY <1>4, EditKeeps, SubmitKeeps
<1>5. CASE \E p \in Processes : Lost(p) \/ Decide(p)
  BY <1>5, DecideKeeps
<1>6. CASE \E d \in Domains : Expire(d)
  BY <1>6, CallsStay DEF Expire, EventInv, FileIsOfTexts, WalletsAreOwn, FiledUnderKeys
<1>7. CASE UNCHANGED vars
  BY <1>7, CallsStay DEF vars, EventInv, FileIsOfTexts, WalletsAreOwn, FiledUnderKeys
<1> QED  BY <1>1, <1>2, <1>3, <1>4, <1>5, <1>6, <1>7 DEF Next

LEMMA EventInvAlways == Spec => []EventInv
BY EventStarts, EventInvHolds, PTL DEF Spec

-----------------------------------------------------------------------------
(* No process ever holds a wallet that none generated: wallet.ts,           *)
(* loadWalletFile after saves that mixed or were cut off.                   *)
THEOREM TypeCorrect == Spec => []TypeOK
<1>1. EventInv => TypeOK
  BY DEF EventInv, TypeOK, FileIsOfTexts, WalletsAreOwn, CallsAreMeant, FiledUnderKeys,
         Stages, Seeds, Keys
<1> QED  BY <1>1, EventInvAlways, PTL

(* What the node checks the signature against, of a call that is on its way. *)
LEMMA VerifiesWhatWasMeant ==
  ASSUME EventInv, NEW p \in Processes, call[p].stage = "sent"
  PROVE  Verifies(call[p]) <=>
           /\ call[p].payload = call[p].meant
           /\ call[p].payload.declared
           /\ call[p].kind \in UnderTheKeyOnFile =>
                onFile[DomainOf(call[p].kind)] = call[p].meant.from.of
<1> DEFINE c == call[p]
<1>1. PICK seed \in Seeds :
        /\ Meant(c, seed)
        /\ c.signature = Sign(seed, preimageOf(tags(c.kind), c.meant))
  BY DEF EventInv, CallsAreMeant, OnItsWay
<1> HIDE DEF c
<1>2. /\ c.meant \in Payloads /\ c.payload \in Payloads
      /\ c.meant.content = "agreed"
      /\ c.payload.from = c.meant.from /\ c.payload.declared = c.meant.declared
      /\ c.meant.from.of = PublicKey(seed)
  BY <1>1 DEF Meant
<1>3. c.meant = Reserialised(c.payload) <=> c.payload = c.meant /\ c.payload.declared
  <2> DEFINE told == Reserialised(c.payload)
  <2>1. /\ told.from = c.payload.from /\ told.declared = TRUE
        /\ told.content = c.payload.content
        /\ told \in Payloads
    BY <1>2 DEF Reserialised, Payloads
  <2>2. \A a, b \in Payloads :
          a = b <=> a.from = b.from /\ a.declared = b.declared /\ a.content = b.content
    BY DEF Payloads
  <2> HIDE DEF told
  <2>3. c.payload.declared \in BOOLEAN
    BY <1>2 DEF Payloads
  <2>4. c.meant = told <=> c.payload.declared = TRUE /\ c.payload.content = c.meant.content
    <3>1. c.meant = told <=>
            c.meant.from = told.from /\ c.meant.declared = told.declared
            /\ c.meant.content = told.content
      BY <1>2, <2>1, <2>2
    <3>2. c.meant.from = told.from /\ told.declared = TRUE /\ told.content = c.payload.content
      BY <1>2, <2>1
    <3> QED  BY <1>2, <3>1, <3>2, Zenon
  <2>5. c.payload = c.meant <=> c.payload.content = c.meant.content
    BY <1>2, <2>2
  <2> QED  BY <2>3, <2>4, <2>5 DEF told
<1>4. tags(c.kind) = CoreTag(c.kind)
  BY DEF tags, CoreTag
<1>5. Verifies(c) <=> PublicKey(seed) = VerifyingKey(c) /\ c.meant = Reserialised(c.payload)
  BY <1>1, <1>4 DEF Verifies, Sign, preimageOf
<1>6. VerifyingKey(c) =
        IF c.kind \in UnderTheKeyOnFile THEN onFile[DomainOf(c.kind)] ELSE c.meant.from.of
  BY <1>2 DEF VerifyingKey, KeyOf
<1>7. Verifies(c) <=>
        /\ c.payload = c.meant
        /\ c.payload.declared
        /\ c.kind \in UnderTheKeyOnFile => onFile[DomainOf(c.kind)] = c.meant.from.of
  BY <1>2, <1>3, <1>5, <1>6
<1> QED  BY <1>7 DEF c

(* What is on its way stays as it is until it is lost or decided.           *)
LEMMA OnlyAnswered ==
  ASSUME EventInv, [Next]_vars, NEW p \in Processes, call[p].stage = "sent"
  PROVE  call'[p] = call[p] \/ Lost(p) \/ Decide(p)
<1> USE DEF EventInv, CallsAreMeant
<1>1. CASE \E q \in Processes : UseKeyfile(q)
  BY <1>1 DEF UseKeyfile, saveWalletFile, WritePart, loadWalletFile
<1>2. CASE \E q \in Processes : Crash(q)
  BY <1>2 DEF Crash
<1>3. CASE \E q \in Processes : SendSomething(q)
  <2>1. \E q \in Processes \ {p} : call' = [call EXCEPT ![q] = call'[q]]
    BY <1>3
    DEF SendSomething, sendProviderRegister, sendProviderHealthUpdate, sendProviderWithdraw,
        sendOraclePublish, sendSubscriptionUpdate, sendDeliveryReport,
        sendAdvertisementCreate, sendAdvertisementStatusSet, sendAdvertisementTermsUpdate,
        sendAdvertisementPriceUpdate, Send
  <2> QED  BY <2>1
<1>4. CASE \E q \in Processes : EditPayload(q) \/ Submit(q)
  BY <1>4 DEF EditPayload, Submit
<1>5. CASE \E q \in Processes : Lost(q) \/ Decide(q)
  BY <1>5 DEF Lost, Decide
<1>6. CASE (\E d \in Domains : Expire(d)) \/ UNCHANGED vars
  BY <1>6 DEF Expire, vars
<1> QED  BY <1>1, <1>2, <1>3, <1>4, <1>5, <1>6 DEF Next

(* The node's answer is a matter of the event it is asked about.            *)
LEMMA AnswersAreGiven ==
  ASSUME EventInv, [Next]_vars, NEW p \in Processes,
         NEW answer \in {"accepted", "invalidSignature"}, Decided(p, answer)
  PROVE  Verifies(call[p]) <=> answer = "accepted"
<1>1. call[p].stage = "sent" /\ call'[p].stage = answer
  BY DEF Decided
<1>2. Lost(p) \/ Decide(p)
  BY <1>1, OnlyAnswered
<1>3. CASE Lost(p)
  BY <1>1, <1>3 DEF Lost, NoCall, EventInv, CallsAreMeant
<1>4. CASE Decide(p)
  <2>1. answer = IF ~Legal(call[p]) THEN "refused"
                 ELSE IF Verifies(call[p]) THEN "accepted" ELSE "invalidSignature"
    BY <1>1, <1>4 DEF Decide, EventInv, CallsAreMeant
  <2> QED  BY <2>1
<1> QED  BY <1>2, <1>3, <1>4

(* What the node takes is the payload as it stood at the call, and a record  *)
(* changes only by the wallet it is filed under: domain.ts, submitEvent      *)
(* after a payload was edited, and wallet.ts, after a keyfile was replaced.  *)
THEOREM TakenAsMeant == Spec => AcceptedAsMeant
<1>1. ASSUME EventInv, [Next]_vars, NEW p \in Processes, Decided(p, "accepted")
      PROVE  /\ call[p].payload = call[p].meant
             /\ call[p].kind \in UnderTheKeyOnFile =>
                  onFile[DomainOf(call[p].kind)] = call[p].meant.from.of
  <2>1. call[p].stage = "sent"
    BY <1>1 DEF Decided
  <2>2. Verifies(call[p])
    BY <1>1, AnswersAreGiven
  <2> QED  BY <1>1, <2>1, <2>2, VerifiesWhatWasMeant
<1> DEFINE Step ==
      \A p \in Processes :
        Decided(p, "accepted") =>
          /\ call[p].payload = call[p].meant
          /\ call[p].kind \in UnderTheKeyOnFile =>
               onFile[DomainOf(call[p].kind)] = call[p].meant.from.of
<1>2. EventInv /\ [Next]_vars => [Step]_vars
  BY <1>1
<1>3. Spec => [][Step]_vars
  BY <1>2, EventInvAlways, PTL DEF Spec
<1> QED  BY <1>3 DEF AcceptedAsMeant

(* A signature is refused for nothing but an edit, a layout the node does    *)
(* not declare, or a record of another wallet's.                            *)
THEOREM RefusedForItsReason == Spec => SignatureRefusedForAReason
<1>1. ASSUME EventInv, [Next]_vars, NEW p \in Processes, Decided(p, "invalidSignature")
      PROVE  \/ call[p].payload # call[p].meant
             \/ ~call[p].payload.declared
             \/ /\ call[p].kind \in UnderTheKeyOnFile
                /\ onFile[DomainOf(call[p].kind)] # call[p].meant.from.of
  <2>1. call[p].stage = "sent"
    BY <1>1 DEF Decided
  <2>2. ~Verifies(call[p])
    BY <1>1, AnswersAreGiven
  <2> QED  BY <1>1, <2>1, <2>2, VerifiesWhatWasMeant
<1> DEFINE Step ==
      \A p \in Processes :
        Decided(p, "invalidSignature") =>
          \/ call[p].payload # call[p].meant
          \/ ~call[p].payload.declared
          \/ /\ call[p].kind \in UnderTheKeyOnFile
             /\ onFile[DomainOf(call[p].kind)] # call[p].meant.from.of
<1>2. EventInv /\ [Next]_vars => [Step]_vars
  BY <1>1
<1>3. Spec => [][Step]_vars
  BY <1>2, EventInvAlways, PTL DEF Spec
<1> QED  BY <1>3 DEF SignatureRefusedForAReason

-----------------------------------------------------------------------------
(* A fold from the left takes the indices of a sequence out of their set,    *)
(* largest first.                                                          *)

(* A set of indices has a largest one.                                      *)
LEMMA LargestIndex ==
  ASSUME NEW n \in Nat, NEW s \in SUBSET (1 .. n), s # {}
  PROVE  Max(s) \in s /\ \A y \in s : Max(s) >= y
<1> DEFINE T == {m \in Nat : \A y \in s : m >= y}
<1>1. T # {}
  <2>1. n \in T
    OBVIOUS
  <2> QED  BY <2>1
<1>2. PICK m \in T : \A k \in T : m <= k
  BY <1>1, LeastNumber
<1>3. m \in s
  <2> SUFFICES ASSUME m \notin s PROVE FALSE
    OBVIOUS
  <2>1. PICK y \in s : TRUE
    OBVIOUS
  <2>2. m >= 1 /\ m - 1 \in Nat
    BY <2>1
  <2>3. \A z \in s : m - 1 >= z
    OBVIOUS
  <2> QED  BY <1>2, <2>2, <2>3
<1>4. \E x \in s : \A y \in s : x >= y
  BY <1>3
<1> QED  BY <1>4 DEF Max

(* It is the only one that none of them exceeds.                            *)
LEMMA LargestOfAll ==
  ASSUME NEW n \in Nat, NEW s \in SUBSET (1 .. n), NEW k \in s, \A y \in s : k >= y
  PROVE  Max(s) = k
<1>1. Max(s) \in s /\ Max(s) >= k /\ k >= Max(s)
  BY LargestIndex
<1>2. \A y \in s : y \in Int
  OBVIOUS
<1>3. Max(s) \in Int /\ k \in Int
  BY <1>1, <1>2
<1> HIDE DEF Max
<1> QED  BY <1>1, <1>3

(* What a fold's recursion makes of every set of indices.                   *)
Runs(g, step, start, f, n) ==
  g = [s \in SUBSET (1 .. n) |->
         IF s = {} THEN start ELSE step[<<g[s \ {Max(s)}], f[Max(s)]>>]]

(* The recursion is well founded: there is such a function, by induction on *)
(* the length.                                                              *)
LEMMA RunsExist ==
  ASSUME NEW A, NEW X, NEW n \in Nat, NEW f, \A i \in 1 .. n : f[i] \in X,
         NEW start \in A, NEW step, \A p \in A \X X : step[p] \in A
  PROVE  \E g : Runs(g, step, start, f, n) /\ \A s \in SUBSET (1 .. n) : g[s] \in A
<1> DEFINE Body(g, s) == IF s = {} THEN start ELSE step[<<g[s \ {Max(s)}], f[Max(s)]>>]
           UpTo(m) == \E g : /\ g = [s \in SUBSET (1 .. m) |-> Body(g, s)]
                             /\ \A s \in SUBSET (1 .. m) : g[s] \in A
           T == {m \in Nat : m <= n => UpTo(m)}
<1>1. 0 \in T
  <2> DEFINE g == [s \in SUBSET (1 .. 0) |-> start]
  <2>1. \A s \in SUBSET (1 .. 0) : s = {}
    OBVIOUS
  <2>2. g = [s \in SUBSET (1 .. 0) |-> Body(g, s)] /\ \A s \in SUBSET (1 .. 0) : g[s] \in A
    BY <2>1
  <2> QED  BY <2>2
<1>2. ASSUME NEW m \in T PROVE m + 1 \in T
  <2> SUFFICES ASSUME m + 1 <= n PROVE UpTo(m + 1)
    <3> HIDE DEF UpTo
    <3> QED  OBVIOUS
  <2>0. UpTo(m)
    <3> HIDE DEF UpTo
    <3>1. m <= n
      OBVIOUS
    <3> QED  BY <3>1
  <2>1. PICK g : /\ g = [s \in SUBSET (1 .. m) |-> Body(g, s)]
                 /\ \A s \in SUBSET (1 .. m) : g[s] \in A
    BY <2>0
  <2> DEFINE h == [s \in SUBSET (1 .. m + 1) |->
                     IF m + 1 \in s THEN step[<<g[s \ {m + 1}], f[m + 1]>>] ELSE g[s]]
  <2>2. ASSUME NEW s \in SUBSET (1 .. m) PROVE s \in SUBSET (1 .. m + 1) /\ h[s] = g[s]
    <3>1. s \in SUBSET (1 .. m + 1) /\ m + 1 \notin s
      OBVIOUS
    <3> QED  BY <3>1
  <2>3. ASSUME NEW s \in SUBSET (1 .. m + 1) PROVE h[s] = Body(h, s) /\ h[s] \in A
    <3>1. CASE m + 1 \in s
      <4>1. Max(s) = m + 1
        <5>1. \A y \in s : m + 1 >= y
          OBVIOUS
        <5>2. m + 1 \in Nat
          OBVIOUS
        <5> QED  BY <3>1, <5>1, <5>2, LargestOfAll
      <4>2. s \ {m + 1} \in SUBSET (1 .. m)
        OBVIOUS
      <4>3. h[s \ {m + 1}] = g[s \ {m + 1}] /\ g[s \ {m + 1}] \in A
        BY <2>1, <2>2, <4>2
      <4>4. h[s] = step[<<g[s \ {m + 1}], f[m + 1]>>]
        BY <3>1
      <4>5. f[m + 1] \in X
        OBVIOUS
      <4> HIDE DEF h
      <4> QED  BY <3>1, <4>1, <4>3, <4>4, <4>5
    <3>2. CASE m + 1 \notin s
      <4>1. s \in SUBSET (1 .. m)
        BY <3>2
      <4>2. h[s] = g[s] /\ g[s] = Body(g, s) /\ g[s] \in A
        BY <2>1, <2>2, <4>1
      <4>3. s \ {Max(s)} \in SUBSET (1 .. m)
        BY <4>1
      <4>4. h[s \ {Max(s)}] = g[s \ {Max(s)}]
        BY <2>2, <4>3
      <4> HIDE DEF h
      <4> QED  BY <4>2, <4>4
    <3> QED  BY <3>1, <3>2
  <2>4. h = [s \in SUBSET (1 .. m + 1) |-> h[s]]
    OBVIOUS
  <2> HIDE DEF h, Body
  <2>5. h = [s \in SUBSET (1 .. m + 1) |-> Body(h, s)]
    BY <2>3, <2>4
  <2> QED  BY <2>3, <2>5
<1>3. T = Nat
  <2> HIDE DEF T
  <2>1. T \in SUBSET Nat
    BY DEF T
  <2> QED  BY <1>1, <1>2, <2>1, NumberInduction
<1>4. UpTo(n)
  <2> HIDE DEF UpTo
  <2>1. n <= n
    OBVIOUS
  <2> QED  BY <1>3, <2>1
<1> QED  BY <1>4 DEF Runs

\* One after the other.
Follows(h, step, start, f, n) ==
  h[0] = start /\ \A k \in 1 .. n : h[k] = step[<<h[k - 1], f[k]>>]

(* On the beginnings of a sequence it takes the elements one after the      *)
(* other.                                                                   *)
LEMMA RunsFollow ==
  ASSUME NEW A, NEW X, NEW n \in Nat, NEW f, \A i \in 1 .. n : f[i] \in X,
         NEW start \in A, NEW step, \A p \in A \X X : step[p] \in A,
         NEW g, Runs(g, step, start, f, n)
  PROVE  \E h : Follows(h, step, start, f, n) /\ \A k \in 0 .. n : h[k] \in A
<1> DEFINE h == [k \in 0 .. n |-> g[1 .. k]]
<1>1. \A k \in 0 .. n : h[k] = g[1 .. k]
  OBVIOUS
<1> HIDE DEF h
<1>2. h[0] = start
  <2>1. 1 .. 0 = {} /\ {} \in SUBSET (1 .. n) /\ 0 \in 0 .. n
    OBVIOUS
  <2>2. g[{}] = start
    BY <2>1 DEF Runs
  <2> QED  BY <1>1, <2>1, <2>2
<1>3. ASSUME NEW k \in 1 .. n PROVE h[k] = step[<<h[k - 1], f[k]>>]
  <2>1. /\ 1 .. k \in SUBSET (1 .. n) /\ 1 .. k # {} /\ k \in 1 .. k /\ \A y \in 1 .. k : k >= y
        /\ (1 .. k) \ {k} = 1 .. k - 1 /\ k \in 0 .. n /\ k - 1 \in 0 .. n
    OBVIOUS
  <2>2. Max(1 .. k) = k
    BY <2>1, LargestOfAll
  <2>3. g[1 .. k] = step[<<g[(1 .. k) \ {Max(1 .. k)}], f[Max(1 .. k)]>>]
    BY <2>1 DEF Runs
  <2> QED  BY <1>1, <2>1, <2>2, <2>3
<1>4. \A k \in 0 .. n : h[k] \in A
  <2> DEFINE T == {k \in Nat : k <= n => h[k] \in A}
  <2>1. 0 \in T
    BY <1>2
  <2>2. ASSUME NEW k \in T PROVE k + 1 \in T
    <3> SUFFICES ASSUME k + 1 <= n PROVE h[k + 1] \in A
      OBVIOUS
    <3>1. k + 1 \in 1 .. n /\ k + 1 - 1 = k /\ k <= n
      OBVIOUS
    <3>2. h[k] \in A /\ f[k + 1] \in X
      BY <3>1
    <3>3. <<h[k], f[k + 1]>> \in A \X X
      BY <3>2
    <3> QED  BY <1>3, <3>1, <3>3
  <2>3. T = Nat
    <3> HIDE DEF T
    <3>1. T \in SUBSET Nat
      BY DEF T
    <3> QED  BY <2>1, <2>2, <3>1, NumberInduction
  <2> QED  BY <2>3
<1> QED  BY <1>2, <1>3, <1>4 DEF Follows

\* Both, never leaving a set.
RunsWithin(A, g, h, step, start, f, n) ==
  /\ Runs(g, step, start, f, n)
  /\ \A s \in SUBSET (1 .. n) : g[s] \in A
  /\ Follows(h, step, start, f, n)
  /\ \A k \in 0 .. n : h[k] \in A

(* For every sequence there are both.                                       *)
LEMMA RunsInSteps ==
  ASSUME NEW A, NEW X, NEW n \in Nat, NEW f, \A i \in 1 .. n : f[i] \in X,
         NEW start \in A, NEW step, \A p \in A \X X : step[p] \in A
  PROVE  \E g, h : RunsWithin(A, g, h, step, start, f, n)
<1>1. PICK g : Runs(g, step, start, f, n) /\ \A s \in SUBSET (1 .. n) : g[s] \in A
  BY RunsExist
<1>2. \E h : Follows(h, step, start, f, n) /\ \A k \in 0 .. n : h[k] \in A
  BY <1>1, RunsFollow
<1> QED  BY <1>1, <1>2 DEF RunsWithin

(* The largest index of a beginning is its last.                            *)
LEMMA LastOfThem ==
  ASSUME NEW n \in Nat, NEW k \in 1 .. n
  PROVE  /\ 1 .. k \in SUBSET (1 .. n) /\ 1 .. k # {}
         /\ Max(1 .. k) = k /\ (1 .. k) \ {k} = 1 .. k - 1
<1>1. /\ 1 .. k \in SUBSET (1 .. n) /\ 1 .. k # {} /\ k \in 1 .. k /\ \A y \in 1 .. k : k >= y
      /\ (1 .. k) \ {k} = 1 .. k - 1
  OBVIOUS
<1> QED  BY <1>1, LargestOfAll

\* What goes the same way step by step arrives at the same.
LEMMA FoldsAlong ==
  ASSUME NEW n \in Nat, NEW g, NEW h, g[{}] = h[0],
         \A k \in 1 .. n : g[1 .. k - 1] = h[k - 1] => g[1 .. k] = h[k]
  PROVE  g[1 .. n] = h[n]
<1> DEFINE T == {m \in Nat : m <= n => g[1 .. m] = h[m]}
<1>1. 0 \in T
  <2>1. 1 .. 0 = {}
    OBVIOUS
  <2> QED  BY <2>1
<1>2. ASSUME NEW m \in T PROVE m + 1 \in T
  <2>1. CASE m + 1 <= n
    <3>1. m + 1 \in 1 .. n /\ m + 1 - 1 = m /\ m <= n
      BY <2>1
    <3> QED  BY <3>1
  <2> QED  BY <2>1
<1>3. T = Nat
  <2> HIDE DEF T
  <2>1. T \in SUBSET Nat
    BY DEF T
  <2> QED  BY <1>1, <1>2, <2>1, NumberInduction
<1> QED  BY <1>3

-----------------------------------------------------------------------------
(* Digits, least first, and what they are worth.                           *)

Digits(base) == Seq(0 .. base - 1)

\* A digit before what is worth the rest.
Before(digit, base, rest) == digit + base * rest

\* worth[i] is what the digits from the i-th on are worth.
Counts(worth, digits, base) ==
  /\ worth \in [1 .. Len(digits) + 1 -> Nat]
  /\ worth[Len(digits) + 1] = 0
  /\ \A i \in 1 .. Len(digits) : worth[i] = Before(digits[i], base, worth[i + 1])

Worths(digits, base) == CHOOSE worth : Counts(worth, digits, base)
Worth(digits, base) == Worths(digits, base)[1]

\* Base58's two bases, either way round.
ABase(base) == base = 58 \/ base = 256
Between(base, factor) == (base = 58 /\ factor = 256) \/ (base = 256 /\ factor = 58)

(* Every sequence of numbers is worth something, by induction from its end. *)
LEMMA DigitsAreWorthSomething ==
  ASSUME NEW base, ABase(base), NEW digits \in Seq(Nat)
  PROVE  Counts(Worths(digits, base), digits, base)
<1> DEFINE n == Len(digits)
           From(w, k) == /\ w \in [n + 1 - k .. n + 1 -> Nat]
                         /\ w[n + 1] = 0
                         /\ \A i \in n + 1 - k .. n : w[i] = Before(digits[i], base, w[i + 1])
           Down(k) == \E w : From(w, k)
           T == {k \in Nat : k <= n => Down(k)}
<1>1. n \in Nat /\ \A i \in 1 .. n : digits[i] \in Nat
  BY LenProperties
<1> HIDE DEF n
<1>2. 0 \in T
  <2> DEFINE w == [i \in n + 1 - 0 .. n + 1 |-> 0]
  <2>1. From(w, 0)
    BY <1>1
  <2> HIDE DEF w, From
  <2> QED  BY <2>1
<1>3. ASSUME NEW k \in T PROVE k + 1 \in T
  <2> SUFFICES ASSUME k + 1 <= n PROVE Down(k + 1)
    <3> HIDE DEF Down
    <3> QED  OBVIOUS
  <2>1. Down(k)
    <3> HIDE DEF Down
    <3>1. k <= n
      BY <1>1
    <3> QED  BY <3>1
  <2>2. PICK w : From(w, k)
    BY <2>1
  <2> DEFINE j == n - k
             v == [i \in j .. n + 1 |-> IF i = j THEN Before(digits[j], base, w[j + 1]) ELSE w[i]]
  <2>3. /\ j \in 1 .. n /\ n + 1 - (k + 1) = j /\ n + 1 - k = j + 1 /\ j # n + 1
        /\ \A i \in j .. n + 1 : i = j \/ i \in j + 1 .. n + 1
        /\ \A i \in j .. n : i + 1 \in j + 1 .. n + 1 /\ i + 1 # j /\ i + 1 \in j .. n + 1
        /\ j \in j .. n + 1 /\ n + 1 \in j .. n + 1 /\ j + 1 \in j + 1 .. n + 1
    BY <1>1
  <2> HIDE DEF j
  <2>4. /\ w \in [j + 1 .. n + 1 -> Nat] /\ w[n + 1] = 0
        /\ \A i \in j + 1 .. n : w[i] = Before(digits[i], base, w[i + 1])
    BY <2>2, <2>3
  <2>5. Before(digits[j], base, w[j + 1]) \in Nat
    <3>1. digits[j] \in Nat /\ w[j + 1] \in Nat
      BY <1>1, <2>3, <2>4
    <3>2. \A x, p \in Nat : x + 58 * p \in Nat /\ x + 256 * p \in Nat
      OBVIOUS
    <3> QED  BY <3>1, <3>2 DEF Before, ABase
  <2>6. v \in [j .. n + 1 -> Nat]
    BY <2>3, <2>4, <2>5
  <2>7. v[n + 1] = 0 /\ v[j] = Before(digits[j], base, w[j + 1])
    BY <2>3, <2>4
  <2>8. \A i \in j .. n : v[i + 1] = w[i + 1]
    BY <2>3
  <2>9. \A i \in j + 1 .. n : v[i] = w[i]
    BY <2>3
  <2> HIDE DEF v
  <2>10. \A i \in j .. n : v[i] = Before(digits[i], base, v[i + 1])
    <3> TAKE i \in j .. n
    <3>1. CASE i = j
      BY <2>7, <2>8, <3>1
    <3>2. CASE i # j
      <4>1. i \in j + 1 .. n
        BY <2>3, <3>2
      <4> QED  BY <2>4, <2>8, <2>9, <4>1
    <3> QED  BY <3>1, <3>2
  <2>11. From(v, k + 1)
    BY <2>3, <2>6, <2>7, <2>10
  <2> HIDE DEF From
  <2> QED  BY <2>11
<1>4. T = Nat
  <2> HIDE DEF T
  <2>1. T \in SUBSET Nat
    BY DEF T
  <2> QED  BY <1>2, <1>3, <2>1, NumberInduction
<1>5. Down(n)
  <2> HIDE DEF Down
  <2>1. n <= n
    BY <1>1
  <2> QED  BY <1>1, <1>4, <2>1
<1>6. \E w : Counts(w, digits, base)
  <2>1. n + 1 - n = 1
    BY <1>1
  <2> QED  BY <1>5, <2>1 DEF Counts, n
<1> QED  BY <1>6 DEF Worths

(* Digits without a superfluous zero at the end.                           *)
Proper(digits) == Len(digits) = 0 \/ digits[Len(digits)] # 0

(* Digits are numbers below the base, and are worth something.              *)
LEMMA DigitsAreNumbers ==
  ASSUME NEW base, ABase(base), NEW digits \in Digits(base)
  PROVE  /\ digits \in Seq(Nat) /\ Len(digits) \in Nat
         /\ \A i \in 1 .. Len(digits) : digits[i] \in 0 .. base - 1
         /\ digits = [i \in 1 .. Len(digits) |-> digits[i]]
         /\ Counts(Worths(digits, base), digits, base)
<1>1. /\ Len(digits) \in Nat /\ DOMAIN digits = 1 .. Len(digits)
      /\ \A i \in 1 .. Len(digits) : digits[i] \in 0 .. base - 1
      /\ digits \in [1 .. Len(digits) -> 0 .. base - 1]
  BY LenProperties DEF Digits
<1>2. 0 .. base - 1 \subseteq Nat /\ base \in Nat
  BY DEF ABase
<1>3. digits \in [1 .. Len(digits) -> Nat]
  BY <1>1, <1>2
<1>4. digits \in Seq(Nat)
  BY <1>1, <1>3, SeqDef
<1> QED  BY <1>1, <1>2, <1>4, DigitsAreWorthSomething

(* A digit and the rest fall apart in one way.                             *)
LEMMA OneDigit ==
  ASSUME NEW base, ABase(base), NEW x \in 0 .. base - 1, NEW y \in 0 .. base - 1,
         NEW p \in Nat, NEW q \in Nat, Before(x, base, p) = Before(y, base, q)
  PROVE  x = y /\ p = q
<1>1. CASE base = 58
  <2>1. x \in 0 .. 57 /\ y \in 0 .. 57 /\ x + 58 * p = y + 58 * q
    BY <1>1 DEF Before
  <2> QED  BY <2>1
<1>2. CASE base = 256
  <2>1. x \in 0 .. 255 /\ y \in 0 .. 255 /\ x + 256 * p = y + 256 * q
    BY <1>2 DEF Before
  <2> QED  BY <2>1
<1> QED  BY <1>1, <1>2 DEF ABase

(* What has a digit or a rest that is not zero is not zero.                 *)
LEMMA Positive ==
  ASSUME NEW base, ABase(base), NEW x \in Nat, NEW p \in Nat, x # 0 \/ p # 0
  PROVE  Before(x, base, p) \in Nat \ {0}
<1>1. CASE base = 58
  <2>1. x + 58 * p \in Nat \ {0}
    OBVIOUS
  <2> QED  BY <1>1, <2>1 DEF Before
<1>2. CASE base = 256
  <2>1. x + 256 * p \in Nat \ {0}
    OBVIOUS
  <2> QED  BY <1>2, <2>1 DEF Before
<1> QED  BY <1>1, <1>2 DEF ABase

(* Proper digits are worth something to the last.                          *)
LEMMA ProperToTheLast ==
  ASSUME NEW base, ABase(base), NEW d \in Digits(base), Proper(d),
         NEW i \in 1 .. Len(d)
  PROVE  Worths(d, base)[i] # 0
<1> DEFINE v == Worths(d, base)
           n == Len(d)
           Up == {k \in Nat : k < n => v[n - k] # 0}
<1>1. /\ n \in Nat /\ n # 0 /\ i \in 1 .. n
      /\ v \in [1 .. n + 1 -> Nat] /\ v[n + 1] = 0
      /\ \A j \in 1 .. n : d[j] \in Nat /\ v[j] = Before(d[j], base, v[j + 1])
      /\ d[n] # 0
  BY DigitsAreNumbers DEF Counts, Proper
<1> HIDE DEF v, n
<1>2. ASSUME NEW j \in 1 .. n, d[j] # 0 \/ v[j + 1] # 0 PROVE v[j] # 0
  <2>1. j + 1 \in 1 .. n + 1
    BY <1>1
  <2>2. d[j] \in Nat /\ v[j + 1] \in Nat /\ v[j] = Before(d[j], base, v[j + 1])
    <3>1. d[j] \in Nat /\ v[j] = Before(d[j], base, v[j + 1])
      BY <1>1
    <3>2. v \in [1 .. n + 1 -> Nat]
      BY <1>1
    <3>3. v[j + 1] \in Nat
      BY <2>1, <3>2
    <3> QED  BY <3>1, <3>3
  <2>3. Before(d[j], base, v[j + 1]) # 0
    BY <1>2, <2>2, Positive
  <2> QED  BY <2>2, <2>3
<1>3. 0 \in Up
  <2>1. n \in 1 .. n /\ n - 0 = n
    BY <1>1
  <2> QED  BY <1>1, <1>2, <2>1
<1>4. ASSUME NEW k \in Up PROVE k + 1 \in Up
  <2> SUFFICES ASSUME k + 1 < n PROVE v[n - (k + 1)] # 0
    OBVIOUS
  <2> DEFINE j == n - (k + 1)
  <2>1. k \in Nat /\ k < n /\ v[n - k] # 0
    BY <1>1
  <2>2. j \in 1 .. n /\ j + 1 = n - k
    BY <1>1, <2>1
  <2> HIDE DEF j
  <2>3. v[j] # 0
    BY <1>2, <2>1, <2>2
  <2> QED  BY <2>3 DEF j
<1>5. Up = Nat
  <2> HIDE DEF Up
  <2>1. Up \in SUBSET Nat
    BY DEF Up
  <2> QED  BY <1>3, <1>4, <2>1, NumberInduction
<1>6. n - i \in Nat /\ n - i < n /\ n - (n - i) = i
  BY <1>1
<1>7. n - i \in Up
  <2> HIDE DEF Up
  <2> QED  BY <1>5, <1>6
<1>8. v[i] # 0
  BY <1>6, <1>7
<1> QED  BY <1>8 DEF v

(* Proper digits are all there is to a number.                             *)
LEMMA ProperDigitsAreOne ==
  ASSUME NEW base, ABase(base), NEW d \in Digits(base), NEW e \in Digits(base),
         Proper(d), Proper(e), Worth(d, base) = Worth(e, base)
  PROVE  d = e
<1> DEFINE v == Worths(d, base)
           w == Worths(e, base)
           n == Len(d)
           m == Len(e)
<1>1. /\ n \in Nat /\ m \in Nat
      /\ v \in [1 .. n + 1 -> Nat] /\ v[n + 1] = 0
      /\ w \in [1 .. m + 1 -> Nat] /\ w[m + 1] = 0
      /\ \A i \in 1 .. n : d[i] \in 0 .. base - 1 /\ v[i] = Before(d[i], base, v[i + 1])
      /\ \A i \in 1 .. m : e[i] \in 0 .. base - 1 /\ w[i] = Before(e[i], base, w[i + 1])
      /\ v[1] = w[1]
      /\ d = [i \in 1 .. n |-> d[i]] /\ e = [i \in 1 .. m |-> e[i]]
  BY DigitsAreNumbers DEF Counts, Worth
<1>2. (\A i \in 1 .. n : v[i] # 0) /\ (\A i \in 1 .. m : w[i] # 0)
  BY ProperToTheLast
<1> HIDE DEF v, w, n, m
<1> DEFINE Agree(k) == v[k + 1] = w[k + 1] /\ \A i \in 1 .. k : d[i] = e[i]
           T == {k \in Nat : k <= n /\ k <= m => Agree(k)}
<1>3. 0 \in T
  BY <1>1
<1>4. ASSUME NEW k \in T PROVE k + 1 \in T
  <2> SUFFICES ASSUME k + 1 <= n, k + 1 <= m PROVE Agree(k + 1)
    <3> HIDE DEF Agree
    <3> QED  OBVIOUS
  <2>1. k \in Nat /\ Agree(k)
    <3> HIDE DEF Agree
    <3>1. k <= n /\ k <= m
      BY <1>1
    <3> QED  BY <3>1
  <2> DEFINE i == k + 1
  <2>2. i \in 1 .. n /\ i \in 1 .. m /\ i + 1 \in 1 .. n + 1 /\ i + 1 \in 1 .. m + 1
    BY <1>1, <2>1
  <2>3. v[i] = w[i] /\ \A j \in 1 .. k : d[j] = e[j]
    BY <2>1
  <2>4. \A j \in 1 .. i : j \in 1 .. k \/ j = i
    BY <2>1
  <2> HIDE DEF i
  <2>5. d[i] = e[i] /\ v[i + 1] = w[i + 1]
    <3>1. /\ d[i] \in 0 .. base - 1 /\ v[i] = Before(d[i], base, v[i + 1]) /\ v[i + 1] \in Nat
          /\ e[i] \in 0 .. base - 1 /\ w[i] = Before(e[i], base, w[i + 1]) /\ w[i + 1] \in Nat
      BY <1>1, <2>2
    <3>2. Before(d[i], base, v[i + 1]) = Before(e[i], base, w[i + 1])
      BY <2>3, <3>1
    <3> QED  BY <3>1, <3>2, OneDigit
  <2>6. Agree(i)
    BY <2>3, <2>4, <2>5
  <2> HIDE DEF Agree
  <2> QED  BY <2>6 DEF i
<1>5. T = Nat
  <2> HIDE DEF T
  <2>1. T \in SUBSET Nat
    BY DEF T
  <2> QED  BY <1>3, <1>4, <2>1, NumberInduction
<1>6. \A k \in Nat : k <= n /\ k <= m => Agree(k)
  <2> HIDE DEF Agree
  <2> QED  BY <1>5
<1>7. n = m
  <2>1. CASE n < m
    <3>1. Agree(n)
      <4> HIDE DEF Agree
      <4>1. n \in Nat /\ n \in Nat /\ m \in Nat /\ n <= n /\ m <= m
        BY <1>1
      <4> QED  BY <1>6, <2>1, <4>1
    <3>2. n + 1 \in 1 .. m
      BY <1>1, <2>1
    <3> QED  BY <1>1, <1>2, <3>1, <3>2
  <2>2. CASE m < n
    <3>1. Agree(m)
      <4> HIDE DEF Agree
      <4>1. m \in Nat /\ n \in Nat /\ m \in Nat /\ n <= n /\ m <= m
        BY <1>1
      <4> QED  BY <1>6, <2>2, <4>1
    <3>2. m + 1 \in 1 .. n
      BY <1>1, <2>2
    <3> QED  BY <1>1, <1>2, <3>1, <3>2
  <2> QED  BY <1>1, <2>1, <2>2
<1>8. Agree(n)
  <2> HIDE DEF Agree
  <2> QED  BY <1>1, <1>6, <1>7
<1> QED  BY <1>1, <1>7, <1>8

(* The same about the digits that are read.                                *)
LEMMA DigitsCount ==
  ASSUME NEW base, ABase(base), NEW d \in Digits(base), NEW w, w = Worths(d, base)
  PROVE  /\ Len(d) \in Nat /\ w \in [1 .. Len(d) + 1 -> Nat] /\ w[Len(d) + 1] = 0
         /\ \A i \in 1 .. Len(d) : w[i] = Before(d[i], base, w[i + 1])
BY DigitsAreNumbers DEF Counts

-----------------------------------------------------------------------------
(* A number of digits times the other base plus one more digit.            *)

(* One digit before another, or before none.                                *)
LEMMA Joined ==
  ASSUME NEW x \in Nat, NEW y \in Nat
  PROVE  <<x>> \o <<y>> = <<x, y>> /\ <<x>> \o <<>> = <<x>>
<1>1. <<x>> \in Seq(Nat) /\ <<y>> \in Seq(Nat) /\ <<x, y>> \in Seq(Nat)
  OBVIOUS
<1>2. Len(<<x>>) = 1 /\ Len(<<y>>) = 1 /\ Len(<<x, y>>) = 2
  OBVIOUS
<1>3. /\ <<x>> \o <<y>> \in Seq(Nat)
      /\ Len(<<x>> \o <<y>>) = Len(<<x>>) + Len(<<y>>)
      /\ \A i \in 1 .. Len(<<x>>) + Len(<<y>>) :
           (<<x>> \o <<y>>)[i] = IF i <= Len(<<x>>) THEN <<x>>[i] ELSE <<y>>[i - Len(<<x>>)]
  BY <1>1, ConcatProperties
<1>4. (<<x>> \o <<y>>)[1] = x /\ (<<x>> \o <<y>>)[2] = y
  BY <1>2, <1>3
<1>5. \A i \in 1 .. 2 : (<<x>> \o <<y>>)[i] = <<x, y>>[i]
  BY <1>4
<1>6. <<x>> \o <<y>> = <<x, y>>
  <2>1. Len(<<x>> \o <<y>>) = 2
    BY <1>2, <1>3
  <2> QED  BY <1>1, <1>2, <1>3, <1>5, <2>1, SeqEqual
<1> QED  BY <1>1, <1>6, ConcatEmptySeq

(* A carry is below 256, so what is left of it is at most two digits.       *)
LEMMA CarriedIsTheRest ==
  ASSUME NEW base, ABase(base), NEW c \in 0 .. 255
  PROVE  /\ c = 0 => Carried(c, base) = <<>>
         /\ c # 0 /\ c < base => Carried(c, base) = <<c>>
         /\ ~ (c < base) => Carried(c, base) = <<c % base, c \div base>>
<1> DEFINE low(n) == n % base
           high(n) == n \div base
           D == 0 .. 255
           h == [n \in D |-> IF n = 0 THEN <<>>
                             ELSE IF n < base THEN <<n>> ELSE <<low(n), high(n)>>]
           Digit(g, n) == IF n = 0 THEN <<>> ELSE <<low(n)>> \o g[high(n)]
           Carries(g) == g = [n \in D |-> Digit(g, n)]
           push == CHOOSE g : Carries(g)
<1>1. \A n \in D :
        /\ n \in Nat /\ low(n) \in Nat /\ high(n) \in Nat
        /\ high(n) \in D /\ high(n) < base
        /\ (n < base <=> high(n) = 0)
        /\ (n < base => low(n) = n)
  <2>1. CASE base = 58
    <3>1. \A n \in 0 .. 255 :
            /\ n % 58 \in Nat /\ n \div 58 \in 0 .. 255 /\ n \div 58 < 58
            /\ (n < 58 <=> n \div 58 = 0)
            /\ (n < 58 => n % 58 = n)
      OBVIOUS
    <3> QED  BY <2>1, <3>1
  <2>2. CASE base = 256
    <3>1. \A n \in 0 .. 255 :
            /\ n % 256 \in Nat /\ n \div 256 \in 0 .. 255 /\ n \div 256 < 256
            /\ (n < 256 <=> n \div 256 = 0)
            /\ (n < 256 => n % 256 = n)
      OBVIOUS
    <3> QED  BY <2>2, <3>1
  <2> QED  BY <2>1, <2>2 DEF ABase
<1>2. 0 \in D /\ c \in D /\ 0 < base
  BY DEF ABase
<1>3. Carried(c, base) = push[c]
  BY DEF Carried
<1> HIDE DEF D, low, high
<1>4. \A n \in D : /\ n = 0 => h[n] = <<>>
                   /\ n # 0 /\ n < base => h[n] = <<n>>
                   /\ n # 0 /\ ~ (n < base) => h[n] = <<low(n), high(n)>>
  OBVIOUS
<1>5. h = [n \in D |-> h[n]]
  OBVIOUS
<1> HIDE DEF h
<1>6. ASSUME NEW n \in D PROVE h[n] = Digit(h, n)
  <2>1. /\ high(n) \in D /\ high(n) < base
        /\ (n < base <=> high(n) = 0)
        /\ (n < base => low(n) = n)
    BY <1>1
  <2>2. <<low(n)>> \o <<high(n)>> = <<low(n), high(n)>> /\ <<low(n)>> \o <<>> = <<low(n)>>
    BY <1>1, Joined
  <2> DEFINE more == high(n)
  <2>3. /\ more = 0 => h[more] = <<>>
        /\ more # 0 => h[more] = <<more>>
    <3>1. more \in D /\ more < base
      BY <2>1
    <3> HIDE DEF more
    <3> QED  BY <1>4, <3>1
  <2>4. CASE n = 0
    BY <1>4, <2>4
  <2>5. CASE n # 0 /\ n < base
    <3>1. h[n] = <<n>> /\ h[high(n)] = <<>> /\ low(n) = n
      BY <1>4, <2>1, <2>3, <2>5
    <3>2. <<low(n)>> \o h[high(n)] = <<n>>
      BY <2>2, <3>1
    <3> QED  BY <2>5, <3>1, <3>2
  <2>6. CASE n # 0 /\ ~ (n < base)
    <3>1. h[n] = <<low(n), high(n)>> /\ h[high(n)] = <<high(n)>>
      BY <1>4, <2>1, <2>3, <2>6
    <3>2. <<low(n)>> \o h[high(n)] = <<low(n), high(n)>>
      BY <2>2, <3>1
    <3> QED  BY <2>6, <3>1, <3>2
  <2> QED  BY <2>4, <2>5, <2>6
<1>7. Carries(push)
  <2> HIDE DEF Digit
  <2>1. Carries(h)
    BY <1>5, <1>6
  <2> HIDE DEF Carries
  <2> QED  BY <2>1
<1> HIDE DEF push
<1>8. \A n \in D : push[n] = Digit(push, n)
  <2> HIDE DEF Digit
  <2> QED  BY <1>7
<1>9. push[0] = <<>>
  <2>1. Digit(push, 0) = <<>>
    BY Zenon
  <2> HIDE DEF Digit
  <2> QED  BY <1>2, <1>8, <2>1
<1>10. ASSUME NEW n \in D, n # 0, n < base PROVE push[n] = <<n>>
  <2>1. high(n) = 0 /\ low(n) = n /\ n \in Nat
    BY <1>1, <1>10
  <2>2. push[n] = <<low(n)>> \o push[high(n)]
    <3>1. Digit(push, n) = <<low(n)>> \o push[high(n)]
      BY <1>10
    <3> HIDE DEF Digit
    <3> QED  BY <1>8, <3>1
  <2>3. push[n] = <<n>> \o <<>>
    BY <1>9, <2>1, <2>2
  <2> QED  BY <2>1, <2>3, Joined
<1>11. ASSUME ~ (c < base) PROVE push[c] = <<low(c), high(c)>>
  <2>1. high(c) \in D /\ high(c) # 0 /\ high(c) < base /\ c # 0
    BY <1>1, <1>2, <1>11
  <2>2. push[high(c)] = <<high(c)>>
    BY <1>10, <2>1
  <2>3. push[c] = <<low(c)>> \o <<high(c)>>
    <3>1. Digit(push, c) = <<low(c)>> \o push[high(c)]
      BY <2>1
    <3> HIDE DEF Digit
    <3> QED  BY <1>2, <1>8, <2>2, <3>1
  <2> QED  BY <1>1, <1>2, <2>3, Joined
<1> QED  BY <1>2, <1>3, <1>9, <1>10, <1>11 DEF low, high

(* What TimesPlus does with one digit.                                      *)
Multiplies(acc, digit, base, factor) ==
  [carry |-> (acc.carry + digit * factor) \div base,
   digits |-> Append(acc.digits, (acc.carry + digit * factor) % base)]

\* The numbers in it: what is carried into a digit stays below the factor.
LEMMA OneDigitOn ==
  ASSUME NEW base, NEW factor, Between(base, factor),
         NEW carry \in 0 .. factor - 1, NEW x \in 0 .. base - 1
  PROVE  LET v == carry + x * factor IN
         /\ v \div base \in 0 .. factor - 1
         /\ v % base \in 0 .. base - 1
         /\ \A w \in Nat : Before(v % base, base, Before(v \div base, factor, w))
                             = Before(carry, factor, Before(x, base, w))
         /\ x # 0 /\ v \div base = 0 => v % base # 0
<1>1. CASE base = 58 /\ factor = 256
  <2> DEFINE v == carry + x * 256
  <2>1. v \in Nat /\ v < 58 * 256 /\ carry \in 0 .. 255 /\ x \in 0 .. 57
    BY <1>1
  <2>2. (x # 0 => v # 0)
    BY <2>1
  <2>3. \A w \in Nat : carry + 256 * (x + 58 * w) = v + 58 * (256 * w)
    BY <2>1
  <2> HIDE DEF v
  <2>4. v \div 58 \in 0 .. 255 /\ v % 58 \in 0 .. 57 /\ v = (v % 58) + 58 * (v \div 58)
    BY <2>1
  <2>5. \A w \in Nat : (v % 58) + 58 * (v \div 58 + 256 * w) = v + 58 * (256 * w)
    BY <2>1, <2>4
  <2>6. x # 0 /\ v \div 58 = 0 => v % 58 # 0
    BY <2>2, <2>4
  <2>7. \A w \in Nat : (v % 58) + 58 * (v \div 58 + 256 * w) = carry + 256 * (x + 58 * w)
    BY <2>3, <2>5
  <2> QED  BY <1>1, <2>4, <2>6, <2>7 DEF Before, v
<1>2. CASE base = 256 /\ factor = 58
  <2> DEFINE v == carry + x * 58
  <2>1. v \in Nat /\ v < 58 * 256 /\ carry \in 0 .. 57 /\ x \in 0 .. 255
    BY <1>2
  <2>2. (x # 0 => v # 0)
    BY <2>1
  <2>3. \A w \in Nat : carry + 58 * (x + 256 * w) = v + 256 * (58 * w)
    BY <2>1
  <2> HIDE DEF v
  <2>4. v \div 256 \in 0 .. 57 /\ v % 256 \in 0 .. 255 /\ v = (v % 256) + 256 * (v \div 256)
    BY <2>1
  <2>5. \A w \in Nat : (v % 256) + 256 * (v \div 256 + 58 * w) = v + 256 * (58 * w)
    BY <2>1, <2>4
  <2>6. x # 0 /\ v \div 256 = 0 => v % 256 # 0
    BY <2>2, <2>4
  <2>7. \A w \in Nat : (v % 256) + 256 * (v \div 256 + 58 * w) = carry + 58 * (x + 256 * w)
    BY <2>3, <2>5
  <2> QED  BY <1>2, <2>4, <2>6, <2>7 DEF Before, v
<1> QED  BY <1>1, <1>2 DEF Between

(* What it hands from digit to digit: a carry below the factor.             *)
Accs(base, factor) == [carry : 0 .. factor - 1, digits : Digits(base)]

\* TimesPlus, digit by digit.
Multiplied(h, d, base, factor, next) ==
  /\ h[0] = [carry |-> next, digits |-> <<>>]
  /\ \A k \in 1 .. Len(d) : h[k] = Multiplies(h[k - 1], d[k], base, factor)
  /\ \A k \in 0 .. Len(d) : h[k] \in Accs(base, factor)
  /\ TimesPlus(d, base, factor, next) = h[Len(d)].digits \o Carried(h[Len(d)].carry, base)

(* It is a fold, and takes the digits one by one.                           *)
LEMMA TimesPlusInSteps ==
  ASSUME NEW base, NEW factor, Between(base, factor), NEW d \in Digits(base),
         NEW next \in 0 .. factor - 1
  PROVE  \E h : Multiplied(h, d, base, factor, next)
<1> DEFINE A == [carry : 0 .. factor - 1, digits : Digits(base)]
           X == 0 .. base - 1
           n == Len(d)
           start == [carry |-> next, digits |-> <<>>]
           step == [p \in A \X X |-> Multiplies(p[1], p[2], base, factor)]
<1>1. /\ n \in Nat /\ DOMAIN d = 1 .. n /\ \A i \in 1 .. n : d[i] \in X
  BY LenProperties DEF Digits
<1>2. start \in A
  BY EmptySeq DEF Digits
<1>3. ASSUME NEW acc \in A, NEW x \in X
      PROVE  /\ step[<<acc, x>>] = Multiplies(acc, x, base, factor)
             /\ Multiplies(acc, x, base, factor) \in A
  <2>1. step[<<acc, x>>] = Multiplies(acc, x, base, factor)
    OBVIOUS
  <2>2. acc.carry \in 0 .. factor - 1 /\ acc.digits \in Seq(0 .. base - 1)
    BY DEF Digits
  <2>3. /\ (acc.carry + x * factor) \div base \in 0 .. factor - 1
        /\ (acc.carry + x * factor) % base \in 0 .. base - 1
    BY <2>2, OneDigitOn
  <2>4. Append(acc.digits, (acc.carry + x * factor) % base) \in Seq(0 .. base - 1)
    BY <2>2, <2>3, AppendProperties
  <2> QED  BY <2>1, <2>3, <2>4 DEF Multiplies, Digits
<1>4. \A p \in A \X X : step[p] \in A
  <2> TAKE p \in A \X X
  <2>1. p = <<p[1], p[2]>> /\ p[1] \in A /\ p[2] \in X
    OBVIOUS
  <2> HIDE DEF A, X, step
  <2> QED  BY <1>3, <2>1
<1> DEFINE Iter(g) == g = [s \in SUBSET (1 .. n) |->
                             IF s = {} THEN start
                             ELSE Multiplies(g[s \ {Max(s)}], d[Max(s)], base, factor)]
<1> HIDE DEF A, X, step, start, n
<1>5. \E g, h : RunsWithin(A, g, h, step, start, d, n)
  <2>1. n \in Nat /\ start \in A /\ \A i \in 1 .. n : d[i] \in X
    BY <1>1, <1>2
  <2> QED  BY <2>1, <1>4, RunsInSteps
<1>6. \A g : (\A s \in SUBSET (1 .. n) : g[s] \in A) => (Iter(g) <=> Runs(g, step, start, d, n))
  <2> TAKE g
  <2> HAVE \A s \in SUBSET (1 .. n) : g[s] \in A
  <2>1. ASSUME NEW s \in SUBSET (1 .. n), s # {}
        PROVE  step[<<g[s \ {Max(s)}], d[Max(s)]>>]
                 = Multiplies(g[s \ {Max(s)}], d[Max(s)], base, factor)
    <3>1. Max(s) \in 1 .. n
      BY <1>1, <2>1, LargestIndex
    <3>2. s \ {Max(s)} \in SUBSET (1 .. n)
      OBVIOUS
    <3> QED  BY <1>1, <1>3, <3>1, <3>2
  <2> QED  BY <2>1 DEF Runs
<1>7. PICK g0, h : RunsWithin(A, g0, h, step, start, d, n)
  BY <1>5
<1>8. Iter(g0) /\ Follows(h, step, start, d, n) /\ \A k \in 0 .. n : h[k] \in A
  <2> HIDE DEF Iter
  <2> QED  BY <1>6, <1>7 DEF RunsWithin
<1> DEFINE g == CHOOSE x : Iter(x)
<1>9. Iter(g)
  BY <1>8
<1>10. TimesPlus(d, base, factor, next) = g[1 .. n].digits \o Carried(g[1 .. n].carry, base)
  BY <1>1 DEF TimesPlus, FoldLeft, MapThenFoldSet, Multiplies, start
<1>11. \A k \in 1 .. n : h[k] = Multiplies(h[k - 1], d[k], base, factor)
  <2> TAKE k \in 1 .. n
  <2>1. k - 1 \in 0 .. n
    BY <1>1
  <2>2. h[k] = step[<<h[k - 1], d[k]>>] /\ h[k - 1] \in A /\ d[k] \in X
    BY <1>1, <1>8, <2>1 DEF Follows
  <2> QED  BY <1>3, <2>2
<1> HIDE DEF g
<1>12. g[{}] = h[0]
  BY <1>8, <1>9 DEF Follows
<1>13. ASSUME NEW k \in 1 .. n, g[1 .. k - 1] = h[k - 1] PROVE g[1 .. k] = h[k]
  <2>1. g[1 .. k] = Multiplies(g[1 .. k - 1], d[k], base, factor)
    <3>1. /\ 1 .. k \in SUBSET (1 .. n) /\ 1 .. k # {}
          /\ Max(1 .. k) = k /\ (1 .. k) \ {k} = 1 .. k - 1
      BY <1>1, LastOfThem
    <3> HIDE DEF Multiplies
    <3> QED  BY <1>9, <3>1
  <2> QED  BY <1>11, <1>13, <2>1
<1>14. g[1 .. n] = h[n]
  BY <1>1, <1>12, <1>13, FoldsAlong
<1>15. h[0] = [carry |-> next, digits |-> <<>>]
  BY <1>8 DEF Follows, start
<1> QED  BY <1>8, <1>10, <1>11, <1>14, <1>15 DEF A, n, Accs, Multiplied

(* The elements of a concatenation.                                         *)
LEMMA JoinedInOrder ==
  ASSUME NEW S, NEW s \in Seq(S), NEW t \in Seq(S)
  PROVE  /\ s \o t \in Seq(S) /\ Len(s \o t) = Len(s) + Len(t)
         /\ \A i \in 1 .. Len(s) : (s \o t)[i] = s[i]
         /\ \A i \in 1 .. Len(t) : (s \o t)[Len(s) + i] = t[i]
<1>1. Len(s) \in Nat /\ Len(t) \in Nat
  BY LenProperties
<1>2. /\ s \o t \in Seq(S) /\ Len(s \o t) = Len(s) + Len(t)
      /\ \A i \in 1 .. Len(s) + Len(t) :
           (s \o t)[i] = IF i <= Len(s) THEN s[i] ELSE t[i - Len(s)]
  BY ConcatProperties
<1>3. ASSUME NEW i \in 1 .. Len(s) PROVE (s \o t)[i] = s[i]
  <2>1. i \in 1 .. Len(s) + Len(t) /\ i <= Len(s)
    BY <1>1
  <2> QED  BY <1>2, <2>1
<1>4. ASSUME NEW i \in 1 .. Len(t) PROVE (s \o t)[Len(s) + i] = t[i]
  <2> DEFINE j == Len(s) + i
  <2>1. j \in 1 .. Len(s) + Len(t) /\ ~ (j <= Len(s)) /\ j - Len(s) = i
    BY <1>1
  <2> HIDE DEF j
  <2>2. (s \o t)[j] = t[i]
    BY <1>2, <2>1
  <2> QED  BY <2>2 DEF j
<1> QED  BY <1>2, <1>3, <1>4

(* Digits, and a carry's behind them.                                       *)
WithCarry(out, s, c, base) ==
  /\ out \in Digits(base) /\ Len(out) >= Len(s)
  /\ \A i \in 1 .. Len(s) : out[i] = s[i]
  /\ Worths(out, base)[Len(s) + 1] = c
  /\ c # 0 => Proper(out)
  /\ c = 0 => out = s

(* Behind the digits comes what is left to carry.                          *)
LEMMA CarriedCounts ==
  ASSUME NEW base, ABase(base), NEW s \in Digits(base), NEW c \in 0 .. 255
  PROVE  WithCarry(s \o Carried(c, base), s, c, base)
<1> DEFINE n == Len(s)
           low == c % base
           high == c \div base
<1>1. /\ n \in Nat /\ s \in Seq(0 .. base - 1) /\ c \in Nat /\ 0 < base
      /\ base \in Nat /\ \A i \in 1 .. n : s[i] \in 0 .. base - 1
  BY LenProperties DEF Digits, ABase
<1>2. /\ ~ (c < base) => /\ low \in 0 .. base - 1 /\ high \in 0 .. base - 1 /\ high # 0
                         /\ Before(low, base, Before(high, base, 0)) = c
      /\ Before(c, base, 0) = c
  <2>1. CASE base = 58
    <3>1. /\ c % 58 \in 0 .. 57 /\ c \div 58 \in 0 .. 57
          /\ (c % 58) + 58 * ((c \div 58) + 58 * 0) = c
          /\ ~ (c < 58) => c \div 58 # 0
          /\ c + 58 * 0 = c
      BY <1>1
    <3> QED  BY <2>1, <3>1 DEF Before
  <2>2. CASE base = 256
    <3>1. c < 256 /\ c + 256 * 0 = c
      BY <1>1
    <3> QED  BY <2>2, <3>1 DEF Before
  <2> QED  BY <2>1, <2>2 DEF ABase
<1> HIDE DEF low, high, n
<1>3. ASSUME NEW out \in Digits(base), NEW w, w = Worths(out, base)
      PROVE  /\ Len(out) \in Nat /\ w[Len(out) + 1] = 0
             /\ \A i \in 1 .. Len(out) : w[i] = Before(out[i], base, w[i + 1])
  BY <1>3, DigitsCount
<1> DEFINE out == s \o Carried(c, base)
           w == Worths(out, base)
<1> SUFFICES /\ out \in Digits(base) /\ Len(out) >= n
             /\ \A i \in 1 .. n : out[i] = s[i]
             /\ w[n + 1] = c
             /\ c # 0 => Proper(out)
             /\ c = 0 => out = s
  BY DEF n, WithCarry
<1> HIDE DEF w, out
<1>4. CASE c = 0
  <2>1. Carried(c, base) = <<>>
    BY <1>4, CarriedIsTheRest
  <2>2. out = s
    BY <1>1, <2>1, ConcatEmptySeq DEF out
  <2>3. w[n + 1] = 0
    BY <1>3, <2>2 DEF n, w
  <2>4. n >= n /\ (c # 0 => Proper(out))
    BY <1>1, <1>4
  <2>5. s \in Digits(base) /\ Len(s) = n
    BY DEF n
  <2> QED  BY <1>4, <2>2, <2>3, <2>4, <2>5
<1>5. CASE c # 0 /\ c < base
  <2>1. out = s \o <<c>>
    <3>1. Carried(c, base) = <<c>>
      BY <1>5, CarriedIsTheRest
    <3> QED  BY <3>1 DEF out
  <2>2. <<c>> \in Seq(0 .. base - 1) /\ Len(<<c>>) = 1 /\ <<c>>[1] = c
    BY <1>1, <1>5
  <2>3. /\ out \in Seq(0 .. base - 1) /\ Len(out) = n + 1
        /\ \A i \in 1 .. n : out[i] = s[i]
        /\ \A i \in 1 .. 1 : out[n + i] = <<c>>[i]
    BY <1>1, <2>1, <2>2, JoinedInOrder DEF n
  <2>4. out[n + 1] = c /\ out \in Digits(base)
    <3>1. 1 \in 1 .. 1
      OBVIOUS
    <3>2. out[n + 1] = <<c>>[1]
      BY <2>3, <3>1
    <3> QED  BY <2>2, <2>3, <3>2 DEF Digits
  <2>5. n + 1 \in 1 .. Len(out)
    BY <1>1, <2>3
  <2>6. w[n + 1 + 1] = 0 /\ w[n + 1] = Before(out[n + 1], base, w[n + 1 + 1])
    BY <1>3, <2>3, <2>4, <2>5 DEF w
  <2>7. w[n + 1] = c
    BY <1>2, <2>4, <2>6
  <2>8. Proper(out) /\ Len(out) >= n
    BY <1>1, <1>5, <2>3, <2>4 DEF Proper
  <2> QED  BY <1>5, <2>3, <2>4, <2>7, <2>8
<1>6. CASE ~ (c < base)
  <2>1. out = s \o <<low, high>>
    <3>1. Carried(c, base) = <<low, high>>
      BY <1>6, CarriedIsTheRest DEF low, high
    <3> QED  BY <3>1 DEF out
  <2>2. /\ <<low, high>> \in Seq(0 .. base - 1) /\ Len(<<low, high>>) = 2
        /\ <<low, high>>[1] = low /\ <<low, high>>[2] = high
    BY <1>2, <1>6
  <2>3. /\ out \in Seq(0 .. base - 1) /\ Len(out) = n + 2
        /\ \A i \in 1 .. n : out[i] = s[i]
        /\ \A i \in 1 .. 2 : out[n + i] = <<low, high>>[i]
    BY <1>1, <2>1, <2>2, JoinedInOrder DEF n
  <2>4. out[n + 1] = low /\ out[n + 2] = high /\ out \in Digits(base)
    <3>1. 1 \in 1 .. 2 /\ 2 \in 1 .. 2
      OBVIOUS
    <3>2. out[n + 1] = <<low, high>>[1] /\ out[n + 2] = <<low, high>>[2]
      BY <2>3, <3>1
    <3> QED  BY <2>2, <2>3, <3>2 DEF Digits
  <2>5. n + 1 \in 1 .. Len(out) /\ n + 2 \in 1 .. Len(out) /\ n + 1 + 1 = n + 2
    BY <1>1, <2>3
  <2>6. w[n + 2 + 1] = 0 /\ w[n + 2] = Before(out[n + 2], base, w[n + 2 + 1])
    BY <1>3, <2>3, <2>4, <2>5 DEF w
  <2>7. w[n + 1] = Before(out[n + 1], base, w[n + 1 + 1])
    BY <1>3, <2>4, <2>5 DEF w
  <2>8. w[n + 1] = c
    BY <1>2, <1>6, <2>4, <2>5, <2>6, <2>7
  <2>9. Proper(out) /\ Len(out) >= n /\ c # 0
    BY <1>1, <1>2, <1>6, <2>3, <2>4 DEF Proper
  <2> QED  BY <2>3, <2>4, <2>8, <2>9
<1> QED  BY <1>4, <1>5, <1>6

(* What the digits come to, and that they stay proper.                     *)
LEMMA TimesPlusCounts ==
  ASSUME NEW base, NEW factor, Between(base, factor), NEW d \in Digits(base),
         NEW next \in 0 .. factor - 1
  PROVE  LET out == TimesPlus(d, base, factor, next) IN
         /\ out \in Digits(base)
         /\ Worth(out, base) = Before(next, factor, Worth(d, base))
         /\ Proper(d) => Proper(out)
<1> DEFINE n == Len(d)
           out == TimesPlus(d, base, factor, next)
           v == Worths(d, base)
           w == Worths(out, base)
<1>0. PICK h : Multiplied(h, d, base, factor, next)
  BY TimesPlusInSteps
<1>1. /\ h[0] = [carry |-> next, digits |-> <<>>]
      /\ \A k \in 1 .. n : h[k] = Multiplies(h[k - 1], d[k], base, factor)
      /\ \A k \in 0 .. n : h[k] \in Accs(base, factor)
      /\ out = h[n].digits \o Carried(h[n].carry, base)
  BY <1>0 DEF Multiplied
<1>2. ABase(base) /\ 0 .. factor - 1 \subseteq 0 .. 255
  BY DEF Between, ABase
<1>3. /\ n \in Nat /\ \A i \in 1 .. n : d[i] \in 0 .. base - 1
      /\ v \in [1 .. n + 1 -> Nat] /\ v[n + 1] = 0
      /\ \A i \in 1 .. n : v[i] = Before(d[i], base, v[i + 1])
  BY <1>2, DigitsAreNumbers DEF Counts
<1>4. \A k \in 0 .. n : /\ h[k].carry \in 0 .. factor - 1
                        /\ h[k].digits \in Digits(base)
  BY <1>1 DEF Accs
<1> DEFINE V(i) == h[i - 1].carry + d[i] * factor
<1>5. ASSUME NEW k \in 1 .. n
      PROVE  /\ h[k].carry = V(k) \div base
             /\ h[k].digits = Append(h[k - 1].digits, V(k) % base)
  <2>1. h[k] = Multiplies(h[k - 1], d[k], base, factor)
    BY <1>1
  <2>2. h[k] = [carry |-> V(k) \div base, digits |-> Append(h[k - 1].digits, V(k) % base)]
    BY <2>1 DEF Multiplies
  <2> HIDE DEF V
  <2> DEFINE x == V(k) \div base
             y == Append(h[k - 1].digits, V(k) % base)
  <2>3. h[k] = [carry |-> x, digits |-> y]
    BY <2>2
  <2> HIDE DEF x, y
  <2>4. h[k].carry = x /\ h[k].digits = y
    BY <2>3
  <2> QED  BY <2>4 DEF x, y
<1>6. ASSUME NEW k \in 1 .. n
      PROVE  /\ V(k) \div base \in 0 .. factor - 1
             /\ V(k) % base \in 0 .. base - 1
             /\ \A x \in Nat : Before(V(k) % base, base, Before(V(k) \div base, factor, x))
                                 = Before(h[k - 1].carry, factor, Before(d[k], base, x))
             /\ d[k] # 0 /\ V(k) \div base = 0 => V(k) % base # 0
  <2>1. k - 1 \in 0 .. n
    BY <1>3
  <2>2. h[k - 1].carry \in 0 .. factor - 1 /\ d[k] \in 0 .. base - 1
    BY <1>3, <1>4, <2>1
  <2> QED  BY <2>2, OneDigitOn
<1> DEFINE low(i) == V(i) % base
           high(i) == V(i) \div base
<1> HIDE DEF V, out, n, v
<1>7. n \in 0 .. n /\ 0 \in 0 .. n
  BY <1>3
<1>8. h[n].carry \in 0 .. 255 /\ h[n].digits \in Digits(base)
  BY <1>2, <1>4, <1>7
<1> DEFINE Made(k) == Len(h[k].digits) = k /\ \A i \in 1 .. k : h[k].digits[i] = low(i)
           T == {k \in Nat : k <= n => Made(k)}
<1>9. 0 \in T
  <2>1. Made(0)
    BY <1>1, EmptySeq
  <2> HIDE DEF Made
  <2> QED  BY <2>1
<1>10. ASSUME NEW k \in T PROVE k + 1 \in T
  <2> SUFFICES ASSUME k + 1 <= n PROVE Made(k + 1)
    <3> HIDE DEF Made
    <3> QED  OBVIOUS
  <2>1. k \in Nat /\ k <= n /\ Made(k)
    <3> HIDE DEF Made
    <3>1. k <= n
      BY <1>3
    <3> QED  BY <3>1
  <2>2. k + 1 \in 1 .. n /\ k \in 0 .. n /\ k + 1 - 1 = k
    BY <1>3, <2>1
  <2>3. /\ h[k + 1].digits = Append(h[k].digits, low(k + 1)) /\ h[k].digits \in Seq(0 .. base - 1)
        /\ low(k + 1) \in 0 .. base - 1
    BY <1>4, <1>5, <1>6, <2>2 DEF Digits
  <2> HIDE DEF low
  <2>4. /\ Len(h[k + 1].digits) = k + 1 /\ h[k + 1].digits[k + 1] = low(k + 1)
        /\ \A i \in 1 .. k : h[k + 1].digits[i] = h[k].digits[i]
    BY <2>1, <2>3, AppendProperties
  <2>5. \A i \in 1 .. k + 1 : i = k + 1 \/ i \in 1 .. k
    BY <2>1
  <2> QED  BY <2>1, <2>4, <2>5
<1>11. T = Nat
  <2> HIDE DEF T
  <2>1. T \in SUBSET Nat
    BY DEF T
  <2> QED  BY <1>9, <1>10, <2>1, NumberInduction
<1>12. Made(n)
  <2> HIDE DEF Made
  <2>1. n <= n
    BY <1>3
  <2> QED  BY <1>3, <1>11, <2>1
<1>13. /\ out \in Digits(base) /\ Len(out) >= n
       /\ \A i \in 1 .. n : out[i] = low(i)
       /\ w[n + 1] = h[n].carry
       /\ h[n].carry # 0 => Proper(out)
       /\ h[n].carry = 0 => out = h[n].digits
  <2> HIDE DEF low
  <2> DEFINE s == h[n].digits
             c == h[n].carry
  <2>1. s \in Digits(base) /\ c \in 0 .. 255 /\ out = s \o Carried(c, base)
    BY <1>1, <1>8
  <2>2. Len(s) = n /\ \A i \in 1 .. n : s[i] = low(i)
    BY <1>12
  <2> HIDE DEF s, c
  <2>3. /\ out \in Digits(base) /\ Len(out) >= Len(s)
        /\ \A i \in 1 .. Len(s) : out[i] = s[i]
        /\ w[Len(s) + 1] = c
        /\ c # 0 => Proper(out)
        /\ c = 0 => out = s
    <3>1. WithCarry(s \o Carried(c, base), s, c, base)
      BY <1>2, <2>1, CarriedCounts
    <3> QED  BY <2>1, <3>1 DEF w, WithCarry
  <2> QED  BY <2>2, <2>3 DEF s, c
<1>14. /\ Len(out) \in Nat
       /\ \A i \in 1 .. Len(out) : w[i] = Before(out[i], base, w[i + 1])
  BY <1>2, <1>13, DigitsAreNumbers DEF Counts
<1>15. \A i \in 1 .. n : w[i] = Before(low(i), base, w[i + 1])
  <2> HIDE DEF low, w
  <2>1. \A i \in 1 .. n : i \in 1 .. Len(out)
    BY <1>3, <1>13, <1>14
  <2> QED  BY <1>13, <1>14, <2>1
<1> HIDE DEF w
<1> DEFINE Right(k) == w[n + 1 - k] = Before(h[n - k].carry, factor, v[n + 1 - k])
           U == {k \in Nat : k <= n => Right(k)}
<1>16. 0 \in U
  <2>1. n + 1 - 0 = n + 1 /\ n - 0 = n
    BY <1>3
  <2>2. Before(h[n].carry, factor, 0) = h[n].carry
    <3>1. h[n].carry \in Nat
      BY <1>8
    <3>2. CASE factor = 58
      BY <3>1, <3>2 DEF Before
    <3>3. CASE factor = 256
      BY <3>1, <3>3 DEF Before
    <3> QED  BY <3>2, <3>3 DEF Between
  <2>3. Right(0)
    BY <1>3, <1>13, <2>1, <2>2
  <2> HIDE DEF Right
  <2> QED  BY <2>3
<1>17. ASSUME NEW k \in U PROVE k + 1 \in U
  <2> SUFFICES ASSUME k + 1 <= n PROVE Right(k + 1)
    <3> HIDE DEF Right
    <3> QED  OBVIOUS
  <2>1. k \in Nat /\ Right(k)
    <3> HIDE DEF Right
    <3>1. k <= n
      BY <1>3
    <3> QED  BY <3>1
  <2> DEFINE i == n - k
  <2>2. i \in 1 .. n /\ n + 1 - (k + 1) = i /\ n - (k + 1) = i - 1 /\ n + 1 - k = i + 1
    BY <1>3, <2>1
  <2>3. w[i + 1] = Before(h[i].carry, factor, v[i + 1])
    BY <2>1, <2>2
  <2> HIDE DEF i
  <2>4. w[i] = Before(low(i), base, Before(high(i), factor, v[i + 1]))
    <3>1. w[i] = Before(low(i), base, w[i + 1]) /\ h[i].carry = high(i)
      BY <1>5, <1>15, <2>2
    <3> HIDE DEF low, high
    <3> QED  BY <2>3, <3>1
  <2>5. v[i + 1] \in Nat /\ v[i] = Before(d[i], base, v[i + 1])
    <3>1. i + 1 \in 1 .. n + 1
      BY <1>3, <2>2
    <3>2. v \in [1 .. n + 1 -> Nat]
      BY <1>3
    <3>3. v[i + 1] \in Nat
      BY <3>1, <3>2
    <3> QED  BY <1>3, <2>2, <3>3
  <2>6. w[i] = Before(h[i - 1].carry, factor, v[i])
    BY <1>6, <2>2, <2>4, <2>5
  <2> QED  BY <2>2, <2>6
<1>18. U = Nat
  <2> HIDE DEF U
  <2>1. U \in SUBSET Nat
    BY DEF U
  <2> QED  BY <1>16, <1>17, <2>1, NumberInduction
<1>19. w[1] = Before(next, factor, v[1])
  <2>1. Right(n)
    <3> HIDE DEF Right
    <3>1. n <= n
      BY <1>3
    <3> QED  BY <1>3, <1>18, <3>1
  <2>2. n + 1 - n = 1 /\ n - n = 0 /\ h[0].carry = next
    BY <1>1, <1>3
  <2> QED  BY <2>1, <2>2
<1>20. ASSUME Proper(d) PROVE Proper(out)
  <2>1. CASE h[n].carry # 0
    BY <1>13, <2>1
  <2>2. CASE h[n].carry = 0 /\ n = 0
    BY <1>12, <1>13, <2>2 DEF Proper
  <2>3. CASE h[n].carry = 0 /\ n # 0
    <3>1. n \in 1 .. n /\ d[n] # 0
      BY <1>3, <1>20, <2>3 DEF Proper, n
    <3>2. low(n) # 0
      BY <1>5, <1>6, <2>3, <3>1
    <3> HIDE DEF low
    <3>3. Len(out) = n /\ out[n] = low(n)
      BY <1>12, <1>13, <2>3, <3>1
    <3> QED  BY <3>2, <3>3 DEF Proper
  <2> QED  BY <2>1, <2>2, <2>3
<1> QED  BY <1>13, <1>19, <1>20 DEF Worth, out, v, w

-----------------------------------------------------------------------------
(* The number that digits are, first digit first, and the other base's      *)
(* digits for it.                                                          *)

(* NumberOf, digit by digit.                                                *)
Numbered(h, d, base) ==
  /\ h[0] = 0
  /\ \A k \in 1 .. Len(d) : h[k] = Before(d[k], base, h[k - 1])
  /\ \A k \in 0 .. Len(d) : h[k] \in Nat
  /\ NumberOf(d, base) = h[Len(d)]

(* It is a fold, and takes the digits one by one.                           *)
LEMMA NumberInSteps ==
  ASSUME NEW base, ABase(base), NEW d \in Digits(base)
  PROVE  \E h : Numbered(h, d, base)
<1> DEFINE n == Len(d)
           More(p, x) == p * base + x
           step == [p \in Nat \X Nat |-> More(p[1], p[2])]
           Iter(g) == g = [s \in SUBSET (1 .. n) |->
                             IF s = {} THEN 0 ELSE More(g[s \ {Max(s)}], d[Max(s)])]
           g == CHOOSE x : Iter(x)
<1>1. n \in Nat /\ DOMAIN d = 1 .. n /\ \A i \in 1 .. n : d[i] \in Nat
  <2>1. \A x \in 0 .. base - 1 : x \in Nat
    BY DEF ABase
  <2> QED  BY <2>1, LenProperties DEF Digits
<1>2. NumberOf(d, base) = g[1 .. n]
  BY <1>1 DEF NumberOf, FoldLeft, MapThenFoldSet
<1>3. \A p, x \in Nat : step[<<p, x>>] = More(p, x)
  OBVIOUS
<1>4. \A p, x \in Nat : More(p, x) \in Nat /\ More(p, x) = Before(x, base, p)
  <2>1. \A p, x \in Nat : /\ p * 58 + x \in Nat /\ p * 58 + x = x + 58 * p
                          /\ p * 256 + x \in Nat /\ p * 256 + x = x + 256 * p
    OBVIOUS
  <2> QED  BY <2>1 DEF ABase, Before
<1> HIDE DEF n, More, step, g
<1>5. \A p \in Nat \X Nat : step[p] \in Nat
  <2> TAKE p \in Nat \X Nat
  <2>1. p = <<p[1], p[2]>> /\ p[1] \in Nat /\ p[2] \in Nat
    OBVIOUS
  <2>2. step[<<p[1], p[2]>>] = More(p[1], p[2]) /\ More(p[1], p[2]) \in Nat
    BY <1>3, <1>4, <2>1
  <2> QED  BY <2>1, <2>2, Zenon
<1>6. \E f, h : RunsWithin(Nat, f, h, step, 0, d, n)
  <2>1. 0 \in Nat
    OBVIOUS
  <2> QED  BY <1>1, <1>5, <2>1, RunsInSteps
<1>7. PICK f, h : RunsWithin(Nat, f, h, step, 0, d, n)
  BY <1>6
<1>8. Iter(f)
  <2>1. ASSUME NEW s \in SUBSET (1 .. n), s # {}
        PROVE  step[<<f[s \ {Max(s)}], d[Max(s)]>>] = More(f[s \ {Max(s)}], d[Max(s)])
    <3>1. Max(s) \in 1 .. n
      BY <1>1, <2>1, LargestIndex
    <3>2. s \ {Max(s)} \in SUBSET (1 .. n)
      OBVIOUS
    <3>3. f[s \ {Max(s)}] \in Nat
      BY <1>7, <3>2 DEF RunsWithin
    <3> QED  BY <1>1, <1>3, <3>1, <3>3
  <2> QED  BY <1>7, <2>1 DEF Runs, RunsWithin
<1>9. Iter(g)
  BY <1>8 DEF g
<1>10. h[0] = 0 /\ \A k \in 0 .. n : h[k] \in Nat
  BY <1>7 DEF RunsWithin, Follows
<1>11. \A k \in 1 .. n : h[k] = More(h[k - 1], d[k]) /\ More(h[k - 1], d[k]) = Before(d[k], base, h[k - 1])
  <2> TAKE k \in 1 .. n
  <2>1. k - 1 \in 0 .. n
    BY <1>1
  <2>2. h[k] = step[<<h[k - 1], d[k]>>] /\ h[k - 1] \in Nat /\ d[k] \in Nat
    BY <1>1, <1>7, <1>10, <2>1 DEF RunsWithin, Follows
  <2> QED  BY <1>3, <1>4, <2>2
<1>12. g[{}] = h[0]
  BY <1>9, <1>10
<1>13. ASSUME NEW k \in 1 .. n, g[1 .. k - 1] = h[k - 1] PROVE g[1 .. k] = h[k]
  <2>1. g[1 .. k] = More(g[1 .. k - 1], d[k])
    <3>1. /\ 1 .. k \in SUBSET (1 .. n) /\ 1 .. k # {}
          /\ Max(1 .. k) = k /\ (1 .. k) \ {k} = 1 .. k - 1
      BY <1>1, LastOfThem
    <3> QED  BY <1>9, <3>1
  <2> QED  BY <1>11, <1>13, <2>1
<1>14. g[1 .. n] = h[n]
  BY <1>1, <1>12, <1>13, FoldsAlong
<1>15. \A k \in 1 .. n : h[k] = Before(d[k], base, h[k - 1])
  BY <1>11
<1> QED  BY <1>2, <1>10, <1>14, <1>15 DEF n, Numbered

(* What a conversion makes of its digits.                                   *)
ProperDigits(base) == {d \in Digits(base) : Proper(d)}

(* Converted, digit by digit, before it is reversed.                        *)
Converts(h, d, from, to) ==
  /\ h[0] = <<>>
  /\ \A k \in 1 .. Len(d) : h[k] = TimesPlus(h[k - 1], to, from, d[k])
  /\ \A k \in 0 .. Len(d) : h[k] \in ProperDigits(to)
  /\ Converted(d, from, to) = Reverse(h[Len(d)])

(* It is a fold too, and makes proper digits of every beginning.            *)
LEMMA ConvertedInSteps ==
  ASSUME NEW from, NEW to, Between(to, from), NEW d \in Digits(from)
  PROVE  \E h : Converts(h, d, from, to)
<1> DEFINE n == Len(d)
           A == ProperDigits(to)
           X == 0 .. from - 1
           More(p, x) == TimesPlus(p, to, from, x)
           step == [p \in A \X X |-> More(p[1], p[2])]
           Iter(g) == g = [s \in SUBSET (1 .. n) |->
                             IF s = {} THEN <<>> ELSE More(g[s \ {Max(s)}], d[Max(s)])]
           g == CHOOSE x : Iter(x)
<1>1. n \in Nat /\ DOMAIN d = 1 .. n /\ \A i \in 1 .. n : d[i] \in X
  BY LenProperties DEF Digits
<1>2. Converted(d, from, to) = Reverse(g[1 .. n])
  BY <1>1 DEF Converted, FoldLeft, MapThenFoldSet
<1>3. <<>> \in A
  BY EmptySeq DEF ProperDigits, Proper, Digits
<1>4. \A p \in A, x \in X : More(p, x) \in A
  BY TimesPlusCounts DEF ProperDigits
<1> HIDE DEF n, More, g, A, X
<1>5. \A p \in A, x \in X : step[<<p, x>>] = More(p, x)
  OBVIOUS
<1> HIDE DEF step
<1>6. \A p \in A \X X : step[p] \in A
  <2> TAKE p \in A \X X
  <2>1. p = <<p[1], p[2]>> /\ p[1] \in A /\ p[2] \in X
    OBVIOUS
  <2> QED  BY <1>4, <1>5, <2>1
<1>7. \E f, h : RunsWithin(A, f, h, step, <<>>, d, n)
  BY <1>1, <1>3, <1>6, RunsInSteps
<1>8. PICK f, h : RunsWithin(A, f, h, step, <<>>, d, n)
  BY <1>7
<1>9. Iter(f)
  <2>1. ASSUME NEW s \in SUBSET (1 .. n), s # {}
        PROVE  step[<<f[s \ {Max(s)}], d[Max(s)]>>] = More(f[s \ {Max(s)}], d[Max(s)])
    <3>1. Max(s) \in 1 .. n
      BY <1>1, <2>1, LargestIndex
    <3>2. s \ {Max(s)} \in SUBSET (1 .. n)
      OBVIOUS
    <3>3. f[s \ {Max(s)}] \in A
      BY <1>8, <3>2 DEF RunsWithin
    <3> QED  BY <1>1, <1>5, <3>1, <3>3
  <2> QED  BY <1>8, <2>1 DEF Runs, RunsWithin
<1>10. Iter(g)
  BY <1>9 DEF g
<1>11. h[0] = <<>> /\ \A k \in 0 .. n : h[k] \in A
  BY <1>8 DEF RunsWithin, Follows
<1>12. \A k \in 1 .. n : h[k] = More(h[k - 1], d[k])
  <2> TAKE k \in 1 .. n
  <2>1. k - 1 \in 0 .. n
    BY <1>1
  <2>2. h[k] = step[<<h[k - 1], d[k]>>] /\ h[k - 1] \in A /\ d[k] \in X
    BY <1>1, <1>8, <1>11, <2>1 DEF RunsWithin, Follows
  <2> QED  BY <1>5, <2>2
<1>13. g[{}] = h[0]
  BY <1>10, <1>11
<1>14. ASSUME NEW k \in 1 .. n, g[1 .. k - 1] = h[k - 1] PROVE g[1 .. k] = h[k]
  <2>1. g[1 .. k] = More(g[1 .. k - 1], d[k])
    <3>1. /\ 1 .. k \in SUBSET (1 .. n) /\ 1 .. k # {}
          /\ Max(1 .. k) = k /\ (1 .. k) \ {k} = 1 .. k - 1
      BY <1>1, LastOfThem
    <3> QED  BY <1>10, <3>1
  <2> QED  BY <1>12, <1>14, <2>1
<1>15. g[1 .. n] = h[n]
  BY <1>1, <1>13, <1>14, FoldsAlong
<1> QED  BY <1>2, <1>11, <1>12, <1>15 DEF n, A, More, Converts

(* Nothing is worth nothing.                                               *)
LEMMA NothingIsWorthNothing ==
  ASSUME NEW base, ABase(base)
  PROVE  <<>> \in ProperDigits(base) /\ Worth(<<>>, base) = 0
<1>1. <<>> \in Digits(base) /\ Len(<<>>) = 0
  BY EmptySeq DEF Digits
<1>2. Worths(<<>>, base)[0 + 1] = 0
  BY <1>1, DigitsCount
<1> QED  BY <1>1, <1>2 DEF Worth, Proper, ProperDigits

(* A conversion keeps the number, and writes no zero in front of it.        *)
LEMMA ConvertedCounts ==
  ASSUME NEW from, NEW to, Between(to, from), NEW d \in Digits(from)
  PROVE  \E r \in ProperDigits(to) :
           Converted(d, from, to) = Reverse(r) /\ Worth(r, to) = NumberOf(d, from)
<1> DEFINE n == Len(d)
<1>1. PICK h : Converts(h, d, from, to)
  BY ConvertedInSteps
<1>2. PICK m : Numbered(m, d, from)
  BY NumberInSteps DEF Between, ABase
<1>3. n \in Nat /\ \A i \in 1 .. n : d[i] \in 0 .. from - 1
  BY LenProperties DEF Digits
<1> HIDE DEF n
<1>4. /\ h[0] = <<>> /\ \A k \in 1 .. n : h[k] = TimesPlus(h[k - 1], to, from, d[k])
      /\ \A k \in 0 .. n : h[k] \in ProperDigits(to)
      /\ Converted(d, from, to) = Reverse(h[n])
  BY <1>1 DEF n, Converts
<1>5. /\ m[0] = 0 /\ \A k \in 1 .. n : m[k] = Before(d[k], from, m[k - 1])
      /\ NumberOf(d, from) = m[n]
  BY <1>2 DEF n, Numbered
<1> DEFINE T == {k \in Nat : k <= n => Worth(h[k], to) = m[k]}
<1>6. 0 \in T
  <2>1. ABase(to)
    BY DEF Between, ABase
  <2> QED  BY <1>4, <1>5, <2>1, NothingIsWorthNothing
<1>7. ASSUME NEW k \in T PROVE k + 1 \in T
  <2> SUFFICES ASSUME k + 1 <= n PROVE Worth(h[k + 1], to) = m[k + 1]
    OBVIOUS
  <2> DEFINE i == k + 1
  <2>1. i \in 1 .. n /\ i - 1 = k /\ k \in 0 .. n /\ k <= n
    BY <1>3
  <2>2. Worth(h[k], to) = m[k]
    BY <2>1
  <2> HIDE DEF i, T
  <2>3. /\ h[i] = TimesPlus(h[k], to, from, d[i]) /\ m[i] = Before(d[i], from, m[k])
        /\ h[k] \in Digits(to) /\ d[i] \in 0 .. from - 1
    BY <1>3, <1>4, <1>5, <2>1 DEF ProperDigits
  <2>4. Worth(h[i], to) = Before(d[i], from, Worth(h[k], to))
    BY <2>3, TimesPlusCounts
  <2> QED  BY <2>2, <2>3, <2>4 DEF i
<1>8. T = Nat
  <2> HIDE DEF T
  <2>1. T \in SUBSET Nat
    BY DEF T
  <2> QED  BY <1>6, <1>7, <2>1, NumberInduction
<1>9. Worth(h[n], to) = m[n] /\ h[n] \in ProperDigits(to)
  BY <1>3, <1>4, <1>8
<1> QED  BY <1>4, <1>5, <1>9

(* Reverse, element by element; twice is not at all.                        *)
LEMMA Reversed ==
  ASSUME NEW S, NEW s \in Seq(S)
  PROVE  /\ Reverse(s) \in Seq(S) /\ Len(Reverse(s)) = Len(s)
         /\ \A i \in 1 .. Len(s) : Reverse(s)[i] = s[(Len(s) - i) + 1]
         /\ Reverse(Reverse(s)) = s
<1> DEFINE n == Len(s)
           t == Reverse(s)
<1>1. n \in Nat /\ (\A i \in 1 .. n : s[i] \in S) /\ s = [i \in 1 .. n |-> s[i]]
  BY LenProperties
<1>2. t = [i \in 1 .. n |-> s[(n - i) + 1]]
  BY DEF Reverse
<1> HIDE DEF n, t
<1>3. \A i \in 1 .. n : (n - i) + 1 \in 1 .. n /\ (n - ((n - i) + 1)) + 1 = i
  BY <1>1
<1>4. t \in [1 .. n -> S] /\ \A i \in 1 .. n : t[i] = s[(n - i) + 1]
  BY <1>1, <1>2, <1>3
<1>5. t \in Seq(S) /\ Len(t) = n
  <2>1. t \in Seq(S)
    BY <1>1, <1>4, SeqDef
  <2>2. DOMAIN t = 1 .. n /\ DOMAIN t = 1 .. Len(t) /\ Len(t) \in Nat
    BY <1>4, <2>1, LenProperties
  <2> QED  BY <1>1, <2>1, <2>2
<1>6. Reverse(t) = [i \in 1 .. n |-> t[(n - i) + 1]]
  BY <1>5 DEF Reverse
<1>7. \A i \in 1 .. n : t[(n - i) + 1] = s[i]
  BY <1>3, <1>4
<1>8. Reverse(t) = s
  BY <1>1, <1>6, <1>7
<1> QED  BY <1>4, <1>5, <1>8 DEF n, t

(* A number written first digit first is worth its digits from the last.    *)
LEMMA NumberOfReversed ==
  ASSUME NEW base, ABase(base), NEW r \in Digits(base)
  PROVE  NumberOf(Reverse(r), base) = Worth(r, base)
<1> DEFINE n == Len(r)
           e == Reverse(r)
           v == Worths(r, base)
<1>1. n \in Nat /\ v[n + 1] = 0 /\ \A i \in 1 .. n : v[i] = Before(r[i], base, v[i + 1])
  BY DigitsCount
<1>2. e \in Digits(base) /\ Len(e) = n /\ \A i \in 1 .. n : e[i] = r[(n - i) + 1]
  BY Reversed DEF Digits
<1>3. PICK m : Numbered(m, e, base)
  BY <1>2, NumberInSteps
<1> HIDE DEF n, e, v
<1>4. /\ m[0] = 0 /\ \A k \in 1 .. n : m[k] = Before(e[k], base, m[k - 1])
      /\ NumberOf(e, base) = m[n]
  BY <1>2, <1>3 DEF Numbered
<1> DEFINE T == {k \in Nat : k <= n => m[k] = v[(n - k) + 1]}
<1>5. 0 \in T
  <2>1. (n - 0) + 1 = n + 1
    BY <1>1
  <2> QED  BY <1>1, <1>4, <2>1
<1>6. ASSUME NEW k \in T PROVE k + 1 \in T
  <2> SUFFICES ASSUME k + 1 <= n PROVE m[k + 1] = v[(n - (k + 1)) + 1]
    OBVIOUS
  <2> DEFINE i == k + 1
             j == (n - i) + 1
  <2>1. /\ i \in 1 .. n /\ i - 1 = k /\ k <= n /\ j \in 1 .. n /\ (n - k) + 1 = j + 1
    BY <1>1
  <2>2. m[k] = v[j + 1]
    BY <2>1
  <2> HIDE DEF T
  <2>3. e[i] = r[j]
    BY <1>2, <2>1
  <2> HIDE DEF i, j
  <2>4. m[i] = Before(r[j], base, v[j + 1])
    BY <1>4, <2>1, <2>2, <2>3
  <2>5. m[i] = v[j]
    BY <1>1, <2>1, <2>4
  <2> QED  BY <2>5 DEF i, j
<1>7. T = Nat
  <2> HIDE DEF T
  <2>1. T \in SUBSET Nat
    BY DEF T
  <2> QED  BY <1>5, <1>6, <2>1, NumberInduction
<1>8. m[n] = v[1]
  <2>1. n \in T /\ n <= n /\ (n - n) + 1 = 1
    BY <1>1, <1>7
  <2> QED  BY <2>1
<1> QED  BY <1>4, <1>8 DEF Worth, e, v

(* Zeros in front count for nothing.                                       *)
LEMMA ZerosInFront ==
  ASSUME NEW base, ABase(base), NEW z \in Seq({0}), NEW t \in Digits(base)
  PROVE  z \o t \in Digits(base) /\ NumberOf(z \o t, base) = NumberOf(t, base)
<1> DEFINE n == Len(t)
           l == Len(z)
           e == z \o t
<1>1. z \in Seq(0 .. base - 1)
  <2>1. {0} \subseteq 0 .. base - 1
    BY DEF ABase
  <2> QED  BY <2>1, SeqMonotonic
<1>2. /\ n \in Nat /\ l \in Nat /\ Len(e) = l + n /\ e \in Digits(base)
      /\ \A i \in 1 .. l : e[i] = z[i]
      /\ \A i \in 1 .. n : e[l + i] = t[i]
  BY <1>1, LenProperties, JoinedInOrder DEF Digits
<1>3. \A i \in 1 .. l : z[i] = 0
  BY LenProperties
<1>4. PICK m : Numbered(m, e, base)
  BY <1>2, NumberInSteps
<1>5. PICK p : Numbered(p, t, base)
  BY NumberInSteps
<1> HIDE DEF n, l, e
<1>6. /\ m[0] = 0 /\ \A k \in 1 .. l + n : m[k] = Before(e[k], base, m[k - 1])
      /\ NumberOf(e, base) = m[l + n]
  BY <1>2, <1>4 DEF Numbered
<1>7. /\ p[0] = 0 /\ \A k \in 1 .. n : p[k] = Before(t[k], base, p[k - 1])
      /\ NumberOf(t, base) = p[n]
  BY <1>5 DEF Numbered, n
<1>8. Before(0, base, 0) = 0
  BY DEF Before, ABase
<1> DEFINE T == {k \in Nat : k <= l => m[k] = 0}
<1>9. T = Nat
  <2>1. 0 \in T
    BY <1>6
  <2>2. ASSUME NEW k \in T PROVE k + 1 \in T
    <3> SUFFICES ASSUME k + 1 <= l PROVE m[k + 1] = 0
      OBVIOUS
    <3> DEFINE i == k + 1
    <3>1. i \in 1 .. l /\ i \in 1 .. l + n /\ i - 1 = k /\ k <= l
      BY <1>2
    <3>2. m[k] = 0
      BY <3>1
    <3> HIDE DEF i, T
    <3>3. m[i] = Before(0, base, 0)
      BY <1>2, <1>3, <1>6, <3>1, <3>2
    <3> QED  BY <1>8, <3>3 DEF i
  <2> HIDE DEF T
  <2>3. T \in SUBSET Nat
    BY DEF T
  <2> QED  BY <2>1, <2>2, <2>3, NumberInduction
<1> DEFINE U == {k \in Nat : k <= n => m[l + k] = p[k]}
<1>10. U = Nat
  <2>1. 0 \in U
    <3>1. l \in T /\ l <= l /\ l + 0 = l
      BY <1>2, <1>9
    <3>2. m[l] = 0
      BY <3>1
    <3> QED  BY <1>7, <3>1, <3>2
  <2> HIDE DEF T
  <2>2. ASSUME NEW k \in U PROVE k + 1 \in U
    <3> SUFFICES ASSUME k + 1 <= n PROVE m[l + (k + 1)] = p[k + 1]
      OBVIOUS
    <3> DEFINE i == k + 1
    <3>1. i \in 1 .. n /\ l + i \in 1 .. l + n /\ i - 1 = k /\ k <= n /\ (l + i) - 1 = l + k
      BY <1>2
    <3>2. m[l + k] = p[k]
      BY <3>1
    <3> HIDE DEF i, U
    <3>3. m[l + i] = Before(t[i], base, p[k]) /\ p[i] = Before(t[i], base, p[k])
      <4>1. m[l + i] = Before(e[l + i], base, m[(l + i) - 1])
        BY <1>6, <3>1
      <4> QED  BY <1>2, <1>7, <3>1, <3>2, <4>1
    <3> QED  BY <3>3 DEF i
  <2> HIDE DEF U
  <2>3. U \in SUBSET Nat
    BY DEF U
  <2> QED  BY <2>1, <2>2, <2>3, NumberInduction
<1>11. m[l + n] = p[n]
  <2>1. n \in U /\ n <= n
    BY <1>2, <1>10
  <2> QED  BY <2>1
<1> QED  BY <1>2, <1>6, <1>7, <1>11 DEF e

(* How many zeros digits begin with.                                       *)
Begins(d, k) ==
  k \in 0 .. Len(d) /\ (\A i \in 1 .. k : d[i] = 0) /\ (k < Len(d) => d[k + 1] # 0)

(* Leading is what its name says, and nothing else is.                      *)
LEMMA LeadingZeros ==
  ASSUME NEW d \in Seq(Nat)
  PROVE  Begins(d, Leading(d)) /\ \A k : Begins(d, k) => Leading(d) = k
<1> DEFINE n == Len(d)
           I == {i \in 1 .. n : d[i] # 0}
           first == IF I # {} THEN Min(I) ELSE 0
<1>1. n \in Nat /\ \A i \in 1 .. n : d[i] \in Nat
  BY LenProperties
<1>2. Leading(d) = IF first = 0 THEN n ELSE first - 1
  BY DEF Leading, SelectInSeq
<1> HIDE DEF n
<1>3. CASE I = {}
  <2>1. Leading(d) = n
    BY <1>2, <1>3
  <2>2. \A i \in 1 .. n : d[i] = 0
    BY <1>3
  <2>3. Begins(d, n)
    BY <1>1, <2>2 DEF Begins, n
  <2>4. ASSUME NEW k, Begins(d, k) PROVE n = k
    <3>1. k \in 0 .. n /\ (k < n => d[k + 1] # 0)
      BY <2>4 DEF Begins, n
    <3>2. k < n => k + 1 \in 1 .. n
      BY <1>1, <3>1
    <3> QED  BY <1>1, <2>2, <3>1, <3>2
  <2> QED  BY <2>1, <2>3, <2>4
<1>4. CASE I # {}
  <2>1. I \in SUBSET Nat
    BY <1>1
  <2>2. \E x \in I : \A y \in I : x <= y
    BY <1>4, <2>1, LeastNumber
  <2>3. Min(I) \in I /\ \A y \in I : Min(I) <= y
    BY <2>2 DEF Min
  <2> DEFINE m == Min(I)
  <2>4. m \in 1 .. n /\ d[m] # 0 /\ Leading(d) = m - 1
    BY <1>1, <1>2, <1>4, <2>3
  <2>5. \A i \in 1 .. n : i < m => d[i] = 0
    BY <1>1, <2>3, <2>4
  <2> HIDE DEF m, I, first
  <2>6. m - 1 \in 0 .. n /\ (m - 1) + 1 = m /\ \A i \in 1 .. m - 1 : i \in 1 .. n /\ i < m
    BY <1>1, <2>4
  <2>7. Begins(d, m - 1)
    BY <2>4, <2>5, <2>6 DEF Begins, n
  <2>8. ASSUME NEW k, Begins(d, k) PROVE m - 1 = k
    <3>1. k \in 0 .. n /\ (\A i \in 1 .. k : d[i] = 0) /\ (k < n => d[k + 1] # 0)
      BY <2>8 DEF Begins, n
    <3>2. CASE k < m - 1
      <4>1. k + 1 \in 1 .. n /\ k + 1 < m /\ k < n
        BY <1>1, <2>4, <3>1, <3>2
      <4> QED  BY <2>5, <3>1, <4>1
    <3>3. CASE m - 1 < k
      <4>1. m \in 1 .. k
        BY <1>1, <2>4, <3>1, <3>3
      <4> QED  BY <2>4, <3>1, <4>1
    <3> QED  BY <1>1, <2>4, <3>1, <3>2, <3>3
  <2> QED  BY <2>4, <2>7, <2>8
<1> QED  BY <1>3, <1>4

(* What encodeBase58 makes of bytes, and decodeBase58 of a text.            *)
Spelt(digits, from, to) == SubSeq(digits, 1, Leading(digits)) \o Converted(digits, from, to)

(* Digits are the zeros they begin with and a rest that begins with none.   *)
LEMMA ZerosAndRest ==
  ASSUME NEW base, ABase(base), NEW d \in Digits(base)
  PROVE  LET l == Leading(d)
             z == SubSeq(d, 1, l)
             rest == SubSeq(d, l + 1, Len(d))
         IN /\ l \in Nat
            /\ z \in Seq({0}) /\ Len(z) = l /\ z = [i \in 1 .. l |-> 0]
            /\ rest \in Digits(base) /\ d = z \o rest
            /\ Len(rest) > 0 => rest[1] # 0
<1> DEFINE n == Len(d)
           l == Leading(d)
           z == SubSeq(d, 1, l)
           rest == SubSeq(d, l + 1, n)
           X == 0 .. base - 1
<1>1. /\ n \in Nat /\ (\A i \in 1 .. n : d[i] \in X)
      /\ d = [i \in 1 .. n |-> d[i]]
  BY DigitsAreNumbers
<1>2. Begins(d, l)
  BY DigitsAreNumbers, LeadingZeros
<1> HIDE DEF n, l, X
<1>3. l \in 0 .. n /\ (\A i \in 1 .. l : d[i] = 0) /\ (l < n => d[l + 1] # 0)
  BY <1>2 DEF Begins, n
<1>4. /\ z \in Seq(X) /\ Len(z) = l /\ \A i \in 1 .. l : z[i] = d[i]
  <2>1. 1 \in Int /\ l \in Int /\ \A i \in 1 .. l : i \in 1 .. n /\ 1 + i - 1 = i
    BY <1>1, <1>3
  <2>2. /\ z \in Seq(X) /\ Len(z) = (IF 1 <= l THEN l - 1 + 1 ELSE 0)
        /\ \A i \in 1 .. l - 1 + 1 : z[i] = d[1 + i - 1]
    BY <1>1, <2>1, SubSeqProperties
  <2>3. l - 1 + 1 = l /\ (IF 1 <= l THEN l - 1 + 1 ELSE 0) = l
    BY <1>3
  <2> HIDE DEF z
  <2> QED  BY <2>1, <2>2, <2>3
<1>5. /\ rest \in Seq(X) /\ Len(rest) = n - l
      /\ \A i \in 1 .. n - l : rest[i] = d[l + i]
  <2>1. /\ l + 1 \in Int /\ n \in Int /\ n - (l + 1) + 1 = n - l
        /\ (IF l + 1 <= n THEN n - (l + 1) + 1 ELSE 0) = n - l
        /\ \A i \in l + 1 .. n : i \in 1 .. n
        /\ \A i \in 1 .. n - l : l + 1 + i - 1 = l + i
    BY <1>1, <1>3
  <2>2. /\ rest \in Seq(X)
        /\ Len(rest) = (IF l + 1 <= n THEN n - (l + 1) + 1 ELSE 0)
        /\ \A i \in 1 .. n - (l + 1) + 1 : rest[i] = d[l + 1 + i - 1]
    <3>1. \A i \in l + 1 .. n : d[i] \in X
      BY <1>1, <2>1
    <3> QED  BY <2>1, <3>1, SubSeqProperties
  <2> HIDE DEF rest
  <2> QED  BY <2>1, <2>2
<1>6. z = [i \in 1 .. l |-> 0] /\ z \in Seq({0})
  <2>1. z \in [1 .. l -> X]
    BY <1>4, LenProperties
  <2> HIDE DEF z
  <2>2. z = [i \in 1 .. l |-> 0]
    BY <1>3, <1>4, <2>1
  <2>3. l \in Nat
    BY <1>1, <1>3
  <2> QED  BY <2>2, <2>3
<1>7. d = z \o rest
  <2>1. d \in Seq(X)
    BY DEF Digits, X
  <2>2. /\ 1 \in 1 .. Len(d) + 1 /\ l \in 1 - 1 .. Len(d) /\ n \in l .. Len(d)
    BY <1>1, <1>3 DEF n
  <2>3. z \o rest = SubSeq(d, 1, n)
    BY <2>1, <2>2, ConcatAdjacentSubSeq
  <2> QED  BY <2>1, <2>3, SubSeqFull DEF n
<1>8. Len(rest) > 0 => rest[1] # 0
  <2> SUFFICES ASSUME n - l > 0 PROVE rest[1] # 0
    BY <1>5
  <2>1. 1 \in 1 .. n - l /\ l < n
    BY <1>1, <1>3
  <2> QED  BY <1>3, <1>5, <2>1
<1>9. l \in Nat
  BY <1>3
<1> QED  BY <1>4, <1>5, <1>6, <1>7, <1>8, <1>9 DEF Digits, X, l, n

(* A spelling is digits that begin with the same zeros and are the same     *)
(* number.                                                                 *)
LEMMA SpeltWhole ==
  ASSUME NEW from, NEW to, Between(to, from), NEW d \in Digits(from)
  PROVE  /\ Spelt(d, from, to) \in Digits(to)
         /\ Leading(Spelt(d, from, to)) = Leading(d)
         /\ NumberOf(Spelt(d, from, to), to) = NumberOf(d, from)
<1> DEFINE l == Leading(d)
           z == SubSeq(d, 1, l)
           t == Spelt(d, from, to)
<1>1. ABase(from) /\ ABase(to)
  BY DEF Between, ABase
<1>2. l \in Nat /\ z \in Seq({0}) /\ Len(z) = l /\ z = [i \in 1 .. l |-> 0]
  BY <1>1, ZerosAndRest
<1>3. PICK r \in ProperDigits(to) :
           Converted(d, from, to) = Reverse(r) /\ Worth(r, to) = NumberOf(d, from)
  BY ConvertedCounts
<1> DEFINE c == Reverse(r)
<1>4. r \in Digits(to) /\ Proper(r)
  BY DEF ProperDigits
<1>5. /\ c \in Digits(to) /\ Len(c) = Len(r)
      /\ \A i \in 1 .. Len(r) : c[i] = r[(Len(r) - i) + 1]
  BY <1>4, Reversed DEF Digits
<1>6. t = z \o c
  BY <1>3 DEF Spelt
<1>7. NumberOf(c, to) = Worth(r, to)
  BY <1>1, <1>4, NumberOfReversed
<1> HIDE DEF l, z, t, c
<1>8. t \in Digits(to) /\ NumberOf(t, to) = NumberOf(d, from)
  BY <1>1, <1>2, <1>3, <1>5, <1>6, <1>7, ZerosInFront
<1>9. Begins(t, l)
  <2>1. Len(r) \in Nat
    BY <1>1, <1>4, DigitsAreNumbers
  <2>2. z \in Seq(0 .. to - 1) /\ c \in Seq(0 .. to - 1)
    <3>1. 0 \in 0 .. to - 1
      BY <1>1 DEF ABase
    <3>2. z \in [1 .. l -> 0 .. to - 1]
      BY <1>2, <3>1
    <3>3. z \in Seq(0 .. to - 1)
      BY <1>2, <3>2
    <3> QED  BY <1>5, <3>3 DEF Digits
  <2>3. /\ Len(t) = l + Len(r)
        /\ \A i \in 1 .. l : t[i] = z[i]
        /\ \A i \in 1 .. Len(r) : t[l + i] = c[i]
    <3>1. /\ Len(z \o c) = Len(z) + Len(c)
          /\ \A i \in 1 .. Len(z) : (z \o c)[i] = z[i]
          /\ \A i \in 1 .. Len(c) : (z \o c)[Len(z) + i] = c[i]
      BY <2>2, JoinedInOrder
    <3>2. Len(z) = l /\ Len(c) = Len(r)
      BY <1>2, <1>5
    <3> QED  BY <1>6, <3>1, <3>2
  <2>5. \A i \in 1 .. l : t[i] = 0
    BY <1>2, <2>3
  <2>6. ASSUME l < l + Len(r) PROVE t[l + 1] # 0
    <3>1. 1 \in 1 .. Len(r) /\ (Len(r) - 1) + 1 = Len(r) /\ Len(r) # 0
      BY <1>2, <2>1, <2>6
    <3>2. t[l + 1] = c[1]
      BY <2>3, <3>1
    <3>3. c[1] = r[Len(r)]
      BY <1>5, <3>1
    <3> QED  BY <1>4, <3>1, <3>2, <3>3 DEF Proper
  <2>7. l \in 0 .. l + Len(r)
    BY <1>2, <2>1
  <2> QED  BY <2>3, <2>5, <2>6, <2>7 DEF Begins
<1>10. Leading(t) = l
  BY <1>1, <1>8, <1>9, DigitsAreNumbers, LeadingZeros
<1> QED  BY <1>8, <1>10 DEF t, l

(* And spelling them back gives the digits.                                 *)
LEMMA SpeltBack ==
  ASSUME NEW from, NEW to, Between(to, from), NEW d \in Digits(from)
  PROVE  Spelt(Spelt(d, from, to), to, from) = d
<1> DEFINE l == Leading(d)
           z == SubSeq(d, 1, l)
           rest == SubSeq(d, l + 1, Len(d))
           t == Spelt(d, from, to)
           s == Reverse(rest)
<1>1. ABase(from) /\ ABase(to) /\ Between(from, to)
  BY DEF Between, ABase
<1>2. /\ l \in Nat /\ z \in Seq({0}) /\ z = [i \in 1 .. l |-> 0]
      /\ rest \in Digits(from) /\ d = z \o rest
      /\ Len(rest) > 0 => rest[1] # 0
  BY <1>1, ZerosAndRest
<1>3. t \in Digits(to) /\ Leading(t) = l /\ NumberOf(t, to) = NumberOf(d, from)
  BY SpeltWhole
<1>4. SubSeq(t, 1, l) = z
  <2>1. SubSeq(t, 1, Leading(t)) = [i \in 1 .. Leading(t) |-> 0]
    BY <1>1, <1>3, ZerosAndRest
  <2> QED  BY <1>2, <1>3, <2>1
<1>5. /\ s \in Digits(from) /\ Len(s) = Len(rest) /\ Reverse(s) = rest
      /\ \A i \in 1 .. Len(rest) : s[i] = rest[(Len(rest) - i) + 1]
  BY <1>2, Reversed DEF Digits
<1>6. Len(rest) \in Nat
  BY <1>1, <1>2, DigitsAreNumbers
<1> HIDE DEF l, z, rest, t, s
<1>7. Proper(s)
  <2> SUFFICES ASSUME Len(rest) # 0 PROVE s[Len(rest)] # 0
    BY <1>5 DEF Proper
  <2>1. Len(rest) \in 1 .. Len(rest) /\ (Len(rest) - Len(rest)) + 1 = 1 /\ Len(rest) > 0
    BY <1>6
  <2> QED  BY <1>2, <1>5, <2>1
<1>8. PICK q \in ProperDigits(from) :
           Converted(t, to, from) = Reverse(q) /\ Worth(q, from) = NumberOf(t, to)
  BY <1>1, <1>3, ConvertedCounts
<1>9. NumberOf(rest, from) = Worth(s, from)
  BY <1>1, <1>5, NumberOfReversed
<1>10. NumberOf(d, from) = NumberOf(rest, from)
  BY <1>1, <1>2, ZerosInFront
<1>11. q = s
  BY <1>1, <1>3, <1>5, <1>7, <1>8, <1>9, <1>10, ProperDigitsAreOne DEF ProperDigits
<1> QED  BY <1>2, <1>3, <1>4, <1>5, <1>8, <1>11 DEF Spelt, t

(* Every byte string, however long, is read back from its text, and is the  *)
(* number its text is in base 58, behind as many ones as it begins with     *)
(* zeros.                                                                  *)
THEOREM TextsAreReadBack ==
  ASSUME NEW bytes \in Seq(0 .. 255)
  PROVE  /\ encodeBase58(bytes) \in Seq(0 .. 57)
         /\ NumberOf(encodeBase58(bytes), 58) = NumberOf(bytes, 256)
         /\ Leading(encodeBase58(bytes)) = Leading(bytes)
         /\ decodeBase58(encodeBase58(bytes)) = [ok |-> TRUE, value |-> bytes]
<1> DEFINE text == encodeBase58(bytes)
<1>1. Between(58, 256) /\ bytes \in Digits(256)
  <2>1. 256 - 1 = 255
    OBVIOUS
  <2> QED  BY <2>1 DEF Between, Digits
<1>2. text = Spelt(bytes, 256, 58)
  BY DEF encodeBase58, Spelt
<1> HIDE DEF text
<1>3. /\ text \in Digits(58) /\ NumberOf(text, 58) = NumberOf(bytes, 256)
      /\ Leading(text) = Leading(bytes) /\ Spelt(text, 58, 256) = bytes
  BY <1>1, <1>2, SpeltWhole, SpeltBack
<1>4. text \in Seq(0 .. 57)
  <2>1. 58 - 1 = 57
    OBVIOUS
  <2> QED  BY <1>3, <2>1 DEF Digits
<1>5. NotInAlphabet \notin {text[i] : i \in DOMAIN text}
  <2>1. \A i \in DOMAIN text : text[i] \in 0 .. 57
    BY <1>4, LenProperties
  <2>2. 58 \notin 0 .. 57
    OBVIOUS
  <2> QED  BY <2>1, <2>2 DEF NotInAlphabet
<1>6. decodeBase58(text) = [ok |-> TRUE, value |-> bytes]
  BY <1>3, <1>5 DEF decodeBase58, Spelt
<1> QED  BY <1>3, <1>4, <1>6 DEF text

(* Two texts that are both read are the same text if they are read as the   *)
(* same bytes.                                                             *)
LEMMA TextsAreOne ==
  ASSUME NEW text \in Seq(0 .. 57), NEW other \in Seq(0 .. 57),
         decodeBase58(text).value = decodeBase58(other).value
  PROVE  text = other
<1>1. 58 - 1 = 57 /\ 58 \notin 0 .. 57
  OBVIOUS
<1>2. Between(256, 58) /\ text \in Digits(58) /\ other \in Digits(58)
  BY <1>1 DEF Between, Digits
<1>3. ASSUME NEW t \in Seq(0 .. 57)
      PROVE  decodeBase58(t).value = Spelt(t, 58, 256)
  <2>1. \A i \in DOMAIN t : t[i] \in 0 .. 57
    BY <1>3, LenProperties
  <2>2. NotInAlphabet \notin {t[i] : i \in DOMAIN t}
    BY <1>1, <2>1 DEF NotInAlphabet
  <2> QED  BY <2>2 DEF decodeBase58, Spelt
<1> QED  BY <1>2, <1>3, SpeltBack

-----------------------------------------------------------------------------
(* ChannelKeys: what is published.                                         *)

(* A published text spells a key its wallet derived from a whole signature, *)
(* and a key in hand is spelt by the published text.                        *)
WholeSignatures(w) ==
  {Signature(w, software, salt) : software \in Software \ {"long"},
                                  salt \in 0 .. MaxSignatures}
KeyText(signature) == encodeEncryptionPublicKey(Keypair(signature).publicKey)

ClaimSpells(w) ==
  claims[w] # Nothing => \E s \in WholeSignatures(w) : claims[w] = KeyText(s)
HeldIsPublished(w) ==
  held[w] # Nothing =>
    /\ claims[w] # Nothing
    /\ \E s \in WholeSignatures(w) : held[w] = Keypair(s) /\ claims[w] = KeyText(s)

TextInv ==
  /\ signed \in [Wallets -> 0 .. MaxSignatures]
  /\ claims = [w \in Wallets |-> claims[w]]
  /\ held = [w \in Wallets |-> held[w]]
  /\ \A w \in Wallets : ClaimSpells(w) /\ HeldIsPublished(w)

(* At the start nothing is published or held.                               *)
LEMMA TextStarts == KeysInit => TextInv
<1> SUFFICES ASSUME KeysInit PROVE TextInv
  OBVIOUS
<1>1. signed \in [Wallets -> 0 .. MaxSignatures]
  BY KeysAssumption DEF KeysInit
<1>2. ASSUME NEW w \in Wallets PROVE ClaimSpells(w) /\ HeldIsPublished(w)
  BY DEF KeysInit, ClaimSpells, HeldIsPublished
<1> QED  BY <1>1, <1>2 DEF KeysInit, TextInv

(* What a wallet signs once more.                                          *)
LEMMA SignedOnceMore ==
  ASSUME TextInv, NEW w \in Wallets, NEW software \in Software,
         NEW times \in {1, 2}, signMessage(w, software, times)
  PROVE  /\ signed' \in [Wallets -> 0 .. MaxSignatures]
         /\ software # "long" =>
              Signature(w, software, signed[w] + 1) \in WholeSignatures(w)
<1>1. MaxSignatures \in Nat /\ signed \in [Wallets -> 0 .. MaxSignatures]
      /\ signed[w] \in 0 .. MaxSignatures
  BY KeysAssumption DEF TextInv
<1>2. CASE software = "randomised"
  <2>1. signed[w] + times <= MaxSignatures /\ signed' = [signed EXCEPT ![w] = @ + times]
    BY <1>2 DEF signMessage
  <2>2. signed[w] + times \in 0 .. MaxSignatures /\ signed[w] + 1 \in 0 .. MaxSignatures
    BY <1>1, <2>1
  <2>3. Signature(w, software, signed[w] + 1) \in WholeSignatures(w)
    BY <1>2, <2>2 DEF WholeSignatures, Software
  <2> QED  BY <1>1, <2>1, <2>2, <2>3
<1>3. CASE software # "randomised"
  <2>1. signed' = signed
    BY <1>3 DEF signMessage
  <2>2. 0 \in 0 .. MaxSignatures
    BY <1>1
  <2>3. Signature(w, software, signed[w] + 1) = Signature(w, software, 0)
    BY <1>3 DEF Signature
  <2>4. software # "long" => Signature(w, software, 0) \in WholeSignatures(w)
    BY <2>2 DEF WholeSignatures
  <2> QED  BY <1>1, <2>1, <2>3, <2>4
<1> QED  BY <1>2, <1>3

(* Enrolment publishes the text of a key of a whole signature.              *)
LEMMA EnrolKeepsTexts ==
  ASSUME TextInv, NEW w \in Wallets, NEW software \in Software, Enrol(w, software)
  PROVE  TextInv'
<1> DEFINE s == Signature(w, software, signed[w] + 1)
           first == deriveEncryptionKeypair(s)
<1>1. /\ claims[w] = Nothing /\ signMessage(w, software, 2) /\ first # Nothing
      /\ claims' = [claims EXCEPT ![w] = encodeEncryptionPublicKey(first.publicKey)]
      /\ held' = held
  BY DEF Enrol
<1>2. s.length = 64 /\ first = Keypair(s)
  BY <1>1 DEF deriveEncryptionKeypair
<1>3. software # "long"
  BY <1>2 DEF Signature
<1>4. signed' \in [Wallets -> 0 .. MaxSignatures] /\ s \in WholeSignatures(w)
  BY <1>1, <1>3, SignedOnceMore
<1>5. claims' = [claims EXCEPT ![w] = KeyText(s)]
  BY <1>1, <1>2 DEF KeyText
<1> HIDE DEF s, first
<1>6. claims = [v \in Wallets |-> claims[v]] /\ held = [v \in Wallets |-> held[v]]
      /\ \A v \in Wallets : ClaimSpells(v) /\ HeldIsPublished(v)
  BY DEF TextInv
<1>7. /\ claims' = [v \in Wallets |-> claims'[v]] /\ claims'[w] = KeyText(s)
      /\ \A v \in Wallets \ {w} : claims'[v] = claims[v]
  BY <1>5, <1>6
<1>8. ClaimSpells(w)' /\ HeldIsPublished(w)'
  BY <1>1, <1>4, <1>6, <1>7 DEF ClaimSpells, HeldIsPublished, WholeSignatures
<1>9. ASSUME NEW v \in Wallets, v # w PROVE ClaimSpells(v)' /\ HeldIsPublished(v)'
  BY <1>1, <1>6, <1>7, <1>9 DEF ClaimSpells, HeldIsPublished
<1> QED  BY <1>1, <1>4, <1>6, <1>7, <1>8, <1>9 DEF TextInv

(* A key derived again is held only if the published text spells it.        *)
LEMMA DeriveKeepsTexts ==
  ASSUME TextInv, NEW w \in Wallets, NEW software \in Software, Derive(w, software)
  PROVE  TextInv'
<1> DEFINE s == Signature(w, software, signed[w] + 1)
           pair == deriveEncryptionKeypair(s)
<1>1. /\ claims[w] # Nothing /\ signMessage(w, software, 1) /\ pair # Nothing
      /\ held' = [held EXCEPT ![w] =
                    IF encodeEncryptionPublicKey(pair.publicKey) = claims[w]
                    THEN pair ELSE Nothing]
      /\ claims' = claims
  BY DEF Derive
<1>2. s.length = 64 /\ pair = Keypair(s)
  BY <1>1 DEF deriveEncryptionKeypair
<1>3. software # "long"
  BY <1>2 DEF Signature
<1>4. signed' \in [Wallets -> 0 .. MaxSignatures] /\ s \in WholeSignatures(w)
  BY <1>1, <1>3, SignedOnceMore
<1>5. held' = [held EXCEPT ![w] = IF KeyText(s) = claims[w] THEN Keypair(s) ELSE Nothing]
  BY <1>1, <1>2 DEF KeyText
<1> HIDE DEF s, pair
<1>6. claims = [v \in Wallets |-> claims[v]] /\ held = [v \in Wallets |-> held[v]]
      /\ \A v \in Wallets : ClaimSpells(v) /\ HeldIsPublished(v)
  BY DEF TextInv
<1>7. /\ held' = [v \in Wallets |-> held'[v]]
      /\ held'[w] = IF KeyText(s) = claims[w] THEN Keypair(s) ELSE Nothing
      /\ \A v \in Wallets \ {w} : held'[v] = held[v]
  BY <1>5, <1>6
<1>8. ClaimSpells(w)' /\ HeldIsPublished(w)'
  BY <1>1, <1>4, <1>6, <1>7 DEF ClaimSpells, HeldIsPublished, WholeSignatures
<1>9. ASSUME NEW v \in Wallets, v # w PROVE ClaimSpells(v)' /\ HeldIsPublished(v)'
  BY <1>1, <1>6, <1>7, <1>9 DEF ClaimSpells, HeldIsPublished
<1> QED  BY <1>1, <1>4, <1>6, <1>7, <1>8, <1>9 DEF TextInv

(* No other step changes a claim, or a key in hand for another.             *)
LEMMA TextInvariance == TextInv /\ [KeysNext]_keysVars => TextInv'
<1> SUFFICES ASSUME TextInv, [KeysNext]_keysVars PROVE TextInv'
  OBVIOUS
<1>1. ASSUME UNCHANGED <<signed, held, claims>> PROVE TextInv'
  BY <1>1 DEF TextInv, ClaimSpells, HeldIsPublished
<1>2. CASE UNCHANGED keysVars
  BY <1>1, <1>2 DEF keysVars
<1>3. ASSUME NEW w \in Wallets, Forget(w) PROVE TextInv'
  <2>1. held' = [held EXCEPT ![w] = Nothing] /\ UNCHANGED <<signed, claims>>
    BY <1>3 DEF Forget
  <2>2. /\ held' = [v \in Wallets |-> held'[v]] /\ held'[w] = Nothing
        /\ \A v \in Wallets \ {w} : held'[v] = held[v]
    BY <2>1 DEF TextInv
  <2>3. ASSUME NEW v \in Wallets PROVE ClaimSpells(v)' /\ HeldIsPublished(v)'
    BY <2>1, <2>2 DEF TextInv, ClaimSpells, HeldIsPublished
  <2> QED  BY <2>1, <2>2, <2>3 DEF TextInv
<1>4. ASSUME NEW text, \/ \E value \in Served : SealToClaim(value, text)
                       \/ \E key \in RegisteredKeys : SealToGateway(key, text)
      PROVE  TextInv'
  BY <1>1, <1>4 DEF SealToClaim, SealToGateway
<1>5. ASSUME NEW box, \/ \E w \in Wallets : Open(w, box)
                      \/ \E g \in Gateways : GatewayOpens(g, box)
      PROVE  TextInv'
  BY <1>1, <1>5 DEF Open, GatewayOpens, Opens
<1> QED  BY <1>2, <1>3, <1>4, <1>5, EnrolKeepsTexts, DeriveKeepsTexts DEF KeysNext

(* So it is at all times.                                                   *)
LEMMA TextInvHolds == KeysSpec => []TextInv
BY TextStarts, TextInvariance, PTL DEF KeysSpec

(* Nothing spells nothing.                                                 *)
LEMMA NothingIsRead ==
  decodeBase58(<<>>) = [ok |-> TRUE, value |-> <<>>]
<1> DEFINE t == <<>>
<1>1. Between(256, 58) /\ t \in Digits(58) /\ Len(t) = 0 /\ t \in Seq(Nat)
  BY EmptySeq DEF Digits, Between
<1>2. Leading(t) = 0
  <2>1. Begins(t, 0)
    BY <1>1 DEF Begins
  <2> QED  BY <1>1, <2>1, LeadingZeros
<1>3. SubSeq(t, 1, 0) = <<>>
  BY SubSeqEmpty
<1>4. NumberOf(t, 58) = 0
  <2>1. \E m : Numbered(m, t, 58)
    BY <1>1, NumberInSteps DEF ABase
  <2> QED  BY <1>1, <2>1 DEF Numbered
<1>5. PICK r \in ProperDigits(256) :
           Converted(t, 58, 256) = Reverse(r) /\ Worth(r, 256) = NumberOf(t, 58)
  BY <1>1, ConvertedCounts
<1>6. ABase(256)
  BY DEF ABase
<1>7. r = <<>>
  BY <1>4, <1>5, <1>6, NothingIsWorthNothing, ProperDigitsAreOne DEF ProperDigits
<1>8. Reverse(r) = <<>>
  <2>1. r \in Seq(Nat) /\ Len(r) = 0
    BY <1>7, EmptySeq
  <2>2. Reverse(r) \in Seq(Nat) /\ Len(Reverse(r)) = 0
    BY <2>1, Reversed
  <2> QED  BY <2>2, EmptySeq
<1>9. \A i : i \notin DOMAIN t
  BY <1>1, LenProperties
<1>10. <<>> \o <<>> = <<>>
  BY EmptySeq, ConcatEmptySeq
<1> QED  BY <1>2, <1>3, <1>5, <1>8, <1>9, <1>10 DEF decodeBase58

(* A key's bytes, and that they are read as that key alone.                 *)
LEMMA KeyOfItsBytes ==
  ASSUME NEW w \in Wallets, NEW s \in WholeSignatures(w)
  PROVE  LET p == Keypair(s).publicKey IN
         /\ p \in KnownPoints
         /\ KeyBytes(p) \in Seq(0 .. 255) /\ Len(KeyBytes(p)) = KeyLength
         /\ PointOf(KeyBytes(p)) = p
         /\ \A bytes : PointOf(bytes) = p => bytes = KeyBytes(p)
         /\ p # SmallOrder /\ p # Nothing /\ p.of[2] = s
         /\ s.length = 64 /\ s.of = w
<1> DEFINE p == Keypair(s).publicKey
           zeros == [i \in 1 .. KeyLength |-> 0]
<1>1. PICK software \in Software \ {"long"}, salt \in 0 .. MaxSignatures :
           s = Signature(w, software, salt)
  BY DEF WholeSignatures
<1>2. p \in KnownPoints
  BY <1>1 DEF KnownPoints
<1>3. s.length = 64 /\ s.of = w
  BY <1>1 DEF Signature
<1>4. p = [of |-> <<"derived", s>>]
  BY DEF Keypair, getPublicKey
<1>5. /\ p.of[1] = "derived" /\ p.of[2] = s
      /\ SmallOrder.of[1] = "nobody" /\ \A b : [of |-> <<"unknown", b>>].of[1] = "unknown"
  BY <1>4 DEF SmallOrder
<1>6. p # SmallOrder /\ \A b : [of |-> <<"unknown", b>>] # p
  <2>1. "derived" # "nobody" /\ "derived" # "unknown"
    OBVIOUS
  <2> HIDE DEF p
  <2> QED  BY <1>5, <2>1
<1>7. p # Nothing
  <2>1. DOMAIN p = {"of"} /\ DOMAIN Nothing = {"nothing"}
    BY <1>4 DEF Nothing
  <2> QED  BY <2>1
<1>8. /\ KeyBytes(p) \in [1 .. KeyLength -> 0 .. 255] /\ KeyBytes(p) # zeros
      /\ \A q \in KnownPoints : KeyBytes(q) = KeyBytes(p) => q = p
  BY <1>2, KeyBytesAssumption
<1>9. KeyLength \in Nat
  BY KeysAssumption
<1>10. KeyBytes(p) \in Seq(0 .. 255) /\ Len(KeyBytes(p)) = KeyLength
  BY <1>8, <1>9
<1> HIDE DEF p
<1>11. ASSUME NEW bytes \in DOMAIN Whose
       PROVE  Whose[bytes] \in KnownPoints /\ KeyBytes(Whose[bytes]) = bytes
  BY <1>11 DEF Whose
<1>12. KeyBytes(p) \in DOMAIN Whose
  BY <1>2 DEF Whose
<1>13. PointOf(KeyBytes(p)) = p
  BY <1>8, <1>11, <1>12 DEF PointOf
<1>14. ASSUME NEW bytes, PointOf(bytes) = p PROVE bytes = KeyBytes(p)
  BY <1>6, <1>11, <1>14 DEF PointOf
<1> QED  BY <1>2, <1>3, <1>5, <1>6, <1>7, <1>10, <1>13, <1>14 DEF p

(* A key's text is parsed as the key; every other text whose characters are *)
(* of the alphabet, or not, is parsed as another or not at all.             *)
Characters == 0 .. NotInAlphabet

(* A key's text is parsed as the key, and any other text as another key or  *)
(* as none.                                                                 *)
LEMMA TextOfAKey ==
  ASSUME NEW w \in Wallets, NEW s \in WholeSignatures(w)
  PROVE  /\ KeyText(s) \in Seq(0 .. 57) /\ KeyText(s) # <<>>
         /\ parseEncryptionPublicKey(KeyText(s)) = Keypair(s).publicKey
         /\ \A other \in Seq(Characters) :
              parseEncryptionPublicKey(other) = Keypair(s).publicKey => other = KeyText(s)
<1> DEFINE p == Keypair(s).publicKey
           text == KeyText(s)
<1>1. /\ p \in KnownPoints
      /\ KeyBytes(p) \in Seq(0 .. 255) /\ Len(KeyBytes(p)) = KeyLength
      /\ PointOf(KeyBytes(p)) = p
      /\ \A bytes : PointOf(bytes) = p => bytes = KeyBytes(p)
      /\ p # SmallOrder /\ p # Nothing
  BY KeyOfItsBytes
<1>2. text = encodeBase58(KeyBytes(p))
  BY DEF KeyText, encodeEncryptionPublicKey
<1> HIDE DEF p, text
<1>3. /\ text \in Seq(0 .. 57)
      /\ decodeBase58(text) = [ok |-> TRUE, value |-> KeyBytes(p)]
  BY <1>1, <1>2, TextsAreReadBack
<1>4. text # <<>>
  <2>1. KeyLength # 0 /\ Len(<<>>) = 0
    BY KeysAssumption, EmptySeq
  <2>2. [ok |-> TRUE, value |-> KeyBytes(p)].value # [ok |-> TRUE, value |-> <<>>].value
    BY <1>1, <2>1
  <2> QED  BY <1>3, <2>2, NothingIsRead
<1>5. getSharedSecret(<<"ones">>, p) # Nothing
  <2>1. getSharedSecret(<<"ones">>, p) = [between |-> {<<"ones">>, p.of}]
    BY <1>1 DEF getSharedSecret
  <2>2. DOMAIN [between |-> {<<"ones">>, p.of}] = {"between"} /\ DOMAIN Nothing = {"nothing"}
    BY DEF Nothing
  <2> QED  BY <2>1, <2>2
<1>6. parseEncryptionPublicKey(text) = p
  BY <1>1, <1>3, <1>5 DEF parseEncryptionPublicKey, ParsedAs
<1>7. ASSUME NEW other \in Seq(Characters), parseEncryptionPublicKey(other) = p
      PROVE  other = text
  <2> DEFINE bytes == decodeBase58(other)
  <2>1. bytes.ok /\ PointOf(bytes.value) = p
    BY <1>1, <1>7 DEF parseEncryptionPublicKey, ParsedAs
  <2>2. bytes.value = KeyBytes(p)
    BY <1>1, <2>1
  <2>3. NotInAlphabet \notin {other[i] : i \in DOMAIN other}
    BY <2>1 DEF decodeBase58
  <2>4. /\ Len(other) \in Nat /\ other \in [1 .. Len(other) -> Characters]
        /\ DOMAIN other = 1 .. Len(other)
    BY LenProperties
  <2>5. \A c \in Characters : c # NotInAlphabet => c \in 0 .. 57
    BY DEF Characters, NotInAlphabet
  <2>6. \A i \in 1 .. Len(other) : other[i] \in 0 .. 57
    BY <2>3, <2>4, <2>5
  <2>7. other \in [1 .. Len(other) -> 0 .. 57]
    BY <2>4, <2>6
  <2>8. other \in Seq(0 .. 57)
    <3> DEFINE m == Len(other)
    <3>1. m \in Nat /\ other \in [1 .. m -> 0 .. 57]
      BY <2>4, <2>7
    <3> HIDE DEF m
    <3> QED  BY <3>1
  <2>9. decodeBase58(other).value = decodeBase58(text).value
    BY <1>3, <2>2
  <2> QED  BY <1>3, <2>8, <2>9, TextsAreOne
<1> QED  BY <1>3, <1>4, <1>6, <1>7 DEF p, text

(* A text that lost, gained or changed a character is another.              *)
LEMMA AlteredIsAnother ==
  ASSUME NEW text \in Seq(0 .. 57), text # <<>>, NEW other \in Altered(text)
  PROVE  other \in Seq(Characters) /\ other # text
<1> DEFINE n == Len(text)
<1>1. /\ n \in Nat \ {0} /\ (\A i \in 1 .. n : text[i] \in 0 .. 57)
      /\ text \in Seq(Characters) /\ DOMAIN text = 1 .. n
  <2>1. n \in Nat \ {0} /\ DOMAIN text = 1 .. n /\ text \in [1 .. n -> 0 .. 57]
    BY EmptySeq, LenProperties
  <2>2. 0 .. 57 \subseteq Characters
    BY DEF Characters, NotInAlphabet
  <2>3. text \in [1 .. n -> Characters]
    BY <2>1, <2>2
  <2>4. text \in Seq(Characters)
    BY <2>1, <2>3
  <2> QED  BY <2>1, <2>4
<1>2. CASE other = Tail(text)
  <2>1. other \in Seq(Characters) /\ Len(other) = n - 1
    BY <1>1, <1>2, HeadTailProperties
  <2> HIDE DEF n
  <2>2. n - 1 # n
    BY <1>1
  <2> QED  BY <2>1, <2>2 DEF n
<1>3. CASE other = <<0>> \o text
  <2>1. <<0>> \in Seq(Characters) /\ Len(<<0>>) = 1
    BY DEF Characters, NotInAlphabet
  <2>2. other \in Seq(Characters) /\ Len(other) = 1 + n
    BY <1>1, <1>3, <2>1, ConcatProperties
  <2> HIDE DEF n
  <2>3. 1 + n # n
    BY <1>1
  <2> QED  BY <2>2, <2>3 DEF n
<1>4. ASSUME NEW c \in Characters, c # text[n], other = [text EXCEPT ![n] = c]
      PROVE  other \in Seq(Characters) /\ other # text
  <2>1. n \in 1 .. n
    BY <1>1
  <2>2. other \in Seq(Characters) /\ other[n] = c
    BY <1>1, <1>4, <2>1, ExceptSeq
  <2> QED  BY <1>4, <2>2
<1>5. text[n] \in 0 .. 57
  BY <1>1
<1>6. NotInAlphabet \in Characters /\ NotInAlphabet # text[n]
  <2> DEFINE c == text[n]
  <2>1. c \in 0 .. 57
    BY <1>5
  <2> HIDE DEF c
  <2>2. 58 \in 0 .. 58 /\ 58 # c
    BY <2>1
  <2> QED  BY <2>2 DEF Characters, NotInAlphabet, c
<1>7. (text[n] + 1) % 58 \in Characters /\ (text[n] + 1) % 58 # text[n]
  <2> DEFINE c == text[n]
  <2>1. c \in 0 .. 57
    BY <1>5
  <2> HIDE DEF c
  <2>2. (c + 1) % 58 \in 0 .. 58 /\ (c + 1) % 58 # c
    <3>1. CASE c = 57
      <4>1. (57 + 1) % 58 = 0
        OBVIOUS
      <4> QED  BY <3>1, <4>1
    <3>2. CASE c # 57
      <4>1. c + 1 \in 0 .. 57
        BY <2>1, <3>2
      <4>2. \A d \in 0 .. 57 : d % 58 = d
        OBVIOUS
      <4>3. (c + 1) % 58 = c + 1
        BY <4>1, <4>2
      <4> QED  BY <2>1, <4>1, <4>3
    <3> QED  BY <3>1, <3>2
  <2> QED  BY <2>2 DEF Characters, NotInAlphabet, c
<1> QED  BY <1>2, <1>3, <1>4, <1>6, <1>7 DEF Altered

(* encryption-key.ts and base58.ts, for keys of any length: a claim's text  *)
(* is read as the key its wallet signed for and no text with a character    *)
(* lost, added or changed is; a key in hand is the published one.           *)
THEOREM TextsSpellTheirKeys == KeysSpec => []TextIsTheKey
<1>1. ShortTextsAreNumbers
  <2> SUFFICES ASSUME NEW n \in 0 .. 3, NEW bytes \in [1 .. n -> SampleBytes]
               PROVE  /\ \A i \in DOMAIN encodeBase58(bytes) : encodeBase58(bytes)[i] \in 0 .. 57
                      /\ NumberOf(encodeBase58(bytes), 58) = NumberOf(bytes, 256)
                      /\ Leading(encodeBase58(bytes)) = Leading(bytes)
                      /\ decodeBase58(encodeBase58(bytes)) = [ok |-> TRUE, value |-> bytes]
    BY DEF ShortTextsAreNumbers
  <2>0. SampleBytes \subseteq 0 .. 255
    BY KeyBytesAssumption
  <2>1. n \in Nat
    OBVIOUS
  <2>2. bytes \in Seq(0 .. 255)
    <3> DEFINE B == 0 .. 255
    <3>1. SampleBytes \subseteq B
      BY <2>0
    <3> HIDE DEF B
    <3>2. bytes \in [1 .. n -> B]
      BY <3>1
    <3>3. bytes \in Seq(B)
      BY <2>1, <3>2
    <3> QED  BY <3>3 DEF B
  <2>3. encodeBase58(bytes) \in Seq(0 .. 57)
    BY <2>2, TextsAreReadBack
  <2>4. \A i \in DOMAIN encodeBase58(bytes) : encodeBase58(bytes)[i] \in 0 .. 57
    BY <2>3, LenProperties
  <2> QED  BY <2>2, <2>4, TextsAreReadBack
<1>2. ASSUME TextInv, NEW w \in Wallets, claims[w] # Nothing
      PROVE  LET key == parseEncryptionPublicKey(claims[w]) IN
             /\ key # Nothing
             /\ key.of[2].length = 64 /\ key.of[2].of = w
             /\ \A text \in Altered(claims[w]) : parseEncryptionPublicKey(text) # key
             /\ held[w] # Nothing => held[w].publicKey = key
  <2>1. PICK s \in WholeSignatures(w) : claims[w] = KeyText(s)
    BY <1>2 DEF TextInv, ClaimSpells
  <2> DEFINE key == parseEncryptionPublicKey(claims[w])
  <2>2. key = Keypair(s).publicKey
    BY <2>1, TextOfAKey
  <2>3. key # Nothing /\ key.of[2].length = 64 /\ key.of[2].of = w
    BY <2>2, KeyOfItsBytes
  <2>4. ASSUME NEW text \in Altered(claims[w]) PROVE parseEncryptionPublicKey(text) # key
    <3>1. claims[w] \in Seq(0 .. 57) /\ claims[w] # <<>>
      BY <2>1, TextOfAKey
    <3>2. text \in Seq(Characters) /\ text # claims[w]
      BY <2>4, <3>1, AlteredIsAnother
    <3> QED  BY <2>1, <2>2, <3>2, TextOfAKey
  <2>5. ASSUME held[w] # Nothing PROVE held[w].publicKey = key
    <3>1. PICK t \in WholeSignatures(w) : held[w] = Keypair(t) /\ claims[w] = KeyText(t)
      BY <1>2, <2>5 DEF TextInv, HeldIsPublished
    <3> QED  BY <3>1, TextOfAKey
  <2> QED  BY <2>3, <2>4, <2>5
<1>3. TextInv => TextIsTheKey
  BY <1>1, <1>2 DEF TextIsTheKey, TextInv, HeldIsPublished
<1> QED  BY <1>3, TextInvHolds, PTL

-----------------------------------------------------------------------------
(* ChannelKeys: what is sealed.                                            *)

(* Secrets, by the number of the box.                                       *)
Ephemeral(i) == <<"ephemeral", i>>

(* Made by sealTo, with a secret that only this box was made with.          *)
MadeWith(s, i) ==
  /\ s = [box |-> SealWith(Ephemeral(i), s.to, s.text), to |-> s.to, text |-> s.text]
  /\ s.to = getPublicKey(s.to.of) /\ s.to # SmallOrder

BoxesAreTheirOwn ==
  /\ IsFiniteSet(sealed)
  /\ \A s \in sealed : \E i \in 0 .. Cardinality(sealed) - 1 : MadeWith(s, i)
  /\ \A s, t \in sealed :
       s.box.ephemeral_public = t.box.ephemeral_public => s = t

(* A key in hand was derived from a signature.                             *)
KeysAreDerived ==
  /\ held = [w \in Wallets |-> held[w]]
  /\ \A w \in Wallets : held[w] # Nothing => \E signature : held[w] = Keypair(signature)

KeysInv ==
  /\ BoxesAreTheirOwn
  /\ KeysAreDerived
  /\ OpensToWhatWasSealed
  /\ FALSE \notin grants

LEMMA EphemeralsAreApart ==
  /\ \A i, j : Ephemeral(i) = Ephemeral(j) => i = j
  /\ \A i, signature : Ephemeral(i) # <<"derived", signature>>
BY DEF Ephemeral

LEMMA KeysStart == KeysInit => KeysInv
<1> SUFFICES ASSUME KeysInit PROVE KeysInv
  OBVIOUS
<1>1. BoxesAreTheirOwn
  BY FS_EmptySet DEF KeysInit, BoxesAreTheirOwn
<1>2. KeysAreDerived /\ OpensToWhatWasSealed /\ FALSE \notin grants
  BY DEF KeysInit, KeysAreDerived, OpensToWhatWasSealed
<1> QED  BY <1>1, <1>2 DEF KeysInv

(* One more box, made with the secret of its own number.                    *)
LEMMA OneMoreBox ==
  ASSUME KeysInv, NEW to, to = getPublicKey(to.of), to # SmallOrder, NEW text,
         NEW box, box = SealWith(randomSecretKey, to, text), Sealed(box, to, text)
  PROVE  BoxesAreTheirOwn' /\ sealed \subseteq sealed'
<1> DEFINE n == Cardinality(sealed)
           new == [box |-> box, to |-> to, text |-> text]
<1>1. n \in Nat /\ IsFiniteSet(sealed)
  BY FS_CardinalityType DEF KeysInv, BoxesAreTheirOwn
<1>2. sealed' = sealed \cup {new}
  BY DEF Sealed
<1>3. MadeWith(new, n)
  <2>1. randomSecretKey = Ephemeral(n)
    BY DEF randomSecretKey, Ephemeral
  <2> QED  BY <2>1 DEF MadeWith
<1>4. ASSUME NEW s, NEW i, MadeWith(s, i)
      PROVE  s.box.ephemeral_public = getPublicKey(Ephemeral(i))
  BY <1>4 DEF MadeWith, SealWith
<1> HIDE DEF new
<1>5. ASSUME NEW s \in sealed PROVE s.box.ephemeral_public # new.box.ephemeral_public
  <2>1. PICK i \in 0 .. n - 1 : MadeWith(s, i)
    BY DEF KeysInv, BoxesAreTheirOwn
  <2>2. i # n
    BY <1>1
  <2>3. Ephemeral(i) # Ephemeral(n)
    BY <2>2, EphemeralsAreApart
  <2>4. getPublicKey(Ephemeral(i)) # getPublicKey(Ephemeral(n))
    BY <2>3 DEF getPublicKey
  <2> QED  BY <1>3, <1>4, <2>1, <2>4
<1>6. new \notin sealed
  BY <1>5
<1>7. IsFiniteSet(sealed') /\ Cardinality(sealed') = n + 1
  BY <1>1, <1>2, <1>6, FS_AddElement
<1>8. ASSUME NEW s \in sealed' PROVE \E i \in 0 .. Cardinality(sealed') - 1 : MadeWith(s, i)
  <2>1. CASE s \in sealed
    <3>1. PICK i \in 0 .. n - 1 : MadeWith(s, i)
      BY <2>1 DEF KeysInv, BoxesAreTheirOwn
    <3>2. i \in 0 .. Cardinality(sealed') - 1
      BY <1>1, <1>7
    <3> QED  BY <3>1, <3>2
  <2>2. CASE s = new
    <3>1. n \in 0 .. Cardinality(sealed') - 1
      BY <1>1, <1>7
    <3> QED  BY <3>1, <2>2, <1>3
  <2> QED  BY <2>1, <2>2, <1>2
<1>9. ASSUME NEW s \in sealed', NEW t \in sealed',
             s.box.ephemeral_public = t.box.ephemeral_public
      PROVE  s = t
  <2>1. CASE s \in sealed /\ t \in sealed
    BY <1>9, <2>1 DEF KeysInv, BoxesAreTheirOwn
  <2>2. CASE s = new \/ t = new
    BY <1>2, <1>5, <1>9, <2>2
  <2> QED  BY <1>2, <2>1, <2>2
<1> QED  BY <1>2, <1>7, <1>8, <1>9 DEF BoxesAreTheirOwn

(* A point that parses is not everybody's, and sealing to it gives a box.    *)
LEMMA ParsedPointIsUsable ==
  ASSUME NEW value, parseEncryptionPublicKey(value) # Nothing
  PROVE  LET point == parseEncryptionPublicKey(value) IN
         point # SmallOrder /\ point = getPublicKey(point.of)
<1> DEFINE bytes == decodeBase58(value)
           point == PointOf(bytes.value)
<1>1. parseEncryptionPublicKey(value) = point /\ getSharedSecret(<<"ones">>, point) # Nothing
  BY DEF parseEncryptionPublicKey, ParsedAs
<1>2. point # SmallOrder
  BY <1>1 DEF getSharedSecret
<1>3. point = getPublicKey(point.of)
  <2>1. CASE bytes.value \in DOMAIN Whose
    <3>1. \E p \in KnownPoints : KeyBytes(p) = bytes.value
      BY <2>1 DEF Whose
    <3>2. Whose[bytes.value] \in KnownPoints
      BY <2>1, <3>1 DEF Whose
    <3>3. \A p \in KnownPoints : p = getPublicKey(p.of)
      BY DEF KnownPoints, Keypair, getPublicKey
    <3> QED  BY <1>2, <2>1, <3>2, <3>3 DEF PointOf
  <2>2. CASE bytes.value \notin DOMAIN Whose
    BY <1>2, <2>2 DEF PointOf, getPublicKey
  <2> QED  BY <2>1, <2>2
<1> QED  BY <1>1, <1>2, <1>3

LEMMA BoxesAreThere ==
  \A secret, to, text : SealWith(secret, to, text) # Nothing
<1> SUFFICES ASSUME NEW secret, NEW to, NEW text PROVE SealWith(secret, to, text) # Nothing
  OBVIOUS
<1>1. DOMAIN SealWith(secret, to, text) = {"ephemeral_public", "nonce", "ciphertext"}
  BY DEF SealWith
<1>2. DOMAIN Nothing = {"nothing"}
  BY DEF Nothing
<1> QED  BY <1>1, <1>2

LEMMA SealToClaimKeeps ==
  ASSUME KeysInv, NEW value, NEW text, SealToClaim(value, text)
  PROVE  KeysInv'
<1> DEFINE point == parseEncryptionPublicKey(value)
           box == sealTo(point, text)
<1>1. point # SmallOrder /\ point = getPublicKey(point.of)
  BY ParsedPointIsUsable DEF SealToClaim
<1>2. box = SealWith(randomSecretKey, point, text) /\ box # Nothing
  BY <1>1, BoxesAreThere DEF sealTo
<1>3. /\ Sealed(box, point, text) /\ grants' = grants \cup {TRUE}
      /\ UNCHANGED <<held, opened>>
  BY <1>2 DEF SealToClaim
<1> HIDE DEF point, box
<1>4. BoxesAreTheirOwn' /\ sealed \subseteq sealed'
  BY <1>1, <1>2, <1>3, OneMoreBox
<1> QED
  BY <1>3, <1>4 DEF KeysInv, KeysAreDerived, OpensToWhatWasSealed

LEMMA SealToGatewayKeeps ==
  ASSUME KeysInv, NEW key \in RegisteredKeys, NEW text, SealToGateway(key, text)
  PROVE  KeysInv'
<1> DEFINE to == toMontgomery(key)
           box == seal(key, text)
<1>1. box # Nothing /\ Sealed(box, to, text) /\ UNCHANGED <<held, grants, opened>>
  BY DEF SealToGateway
<1>2. box = sealTo(to, text) /\ to # Nothing /\ to # SmallOrder
  BY <1>1 DEF seal, sealTo
<1>3. box = SealWith(randomSecretKey, to, text)
  BY <1>2 DEF sealTo
<1>4. to = getPublicKey(to.of)
  BY <1>2 DEF RegisteredKeys, GatewayKey, toMontgomery, getPublicKey
<1> HIDE DEF to, box
<1>5. BoxesAreTheirOwn' /\ sealed \subseteq sealed'
  BY <1>1, <1>2, <1>3, <1>4, OneMoreBox
<1> QED
  BY <1>1, <1>5 DEF KeysInv, KeysAreDerived, OpensToWhatWasSealed

(* Whatever opens was sealed: the ciphertext opens under one key, one nonce  *)
(* and one ephemeral point, and the key names who can open it.              *)
LEMMA WhatOpensWasSealed ==
  ASSUME KeysInv, NEW secret, NEW box \in Replicated, openSealed(secret, box) # Nothing
  PROVE  [box |-> box, to |-> getPublicKey(secret), text |-> openSealed(secret, box)] \in sealed
<1>1. PICK a \in sealed, b \in sealed, c \in sealed :
        box = [ephemeral_public |-> a.box.ephemeral_public, nonce |-> b.box.nonce,
               ciphertext |-> c.box.ciphertext]
  BY DEF Replicated
<1>2. PICK i : MadeWith(c, i)
  BY DEF KeysInv, BoxesAreTheirOwn
<1> DEFINE shared == getSharedSecret(secret, box.ephemeral_public)
           d == derive(box.ephemeral_public, getPublicKey(secret), shared)
           sealing == derive(getPublicKey(Ephemeral(i)), c.to,
                             getSharedSecret(Ephemeral(i), c.to))
<1>3. /\ box.ciphertext = encrypt(d.key, box.nonce, box.ephemeral_public, box.ciphertext.text)
      /\ openSealed(secret, box) = box.ciphertext.text
  BY DEF openSealed, decrypt
<1>4. /\ c.box.ephemeral_public = getPublicKey(Ephemeral(i))
      /\ c.box.nonce = sealing.nonce
      /\ c.box.ciphertext = encrypt(sealing.key, sealing.nonce, getPublicKey(Ephemeral(i)), c.text)
      /\ c = [box |-> c.box, to |-> c.to, text |-> c.text]
      /\ c.box = [ephemeral_public |-> c.box.ephemeral_public, nonce |-> c.box.nonce,
                  ciphertext |-> c.box.ciphertext]
  BY <1>2 DEF MadeWith, SealWith
<1>5. box.ciphertext = c.box.ciphertext
  BY <1>1
<1>6. /\ d.key = sealing.key /\ box.nonce = sealing.nonce
      /\ box.ephemeral_public = getPublicKey(Ephemeral(i))
      /\ box.ciphertext.text = c.text
  <2> HIDE DEF d, sealing
  <2>1. encrypt(d.key, box.nonce, box.ephemeral_public, box.ciphertext.text)
          = encrypt(sealing.key, sealing.nonce, getPublicKey(Ephemeral(i)), c.text)
    BY <1>3, <1>4, <1>5
  <2>2. \A k, n, e, t, l, o, f, u :
          encrypt(k, n, e, t) = encrypt(l, o, f, u) => k = l /\ n = o /\ e = f /\ t = u
    BY DEF encrypt
  <2>3. c.text = c.text
    OBVIOUS
  <2> QED  BY <2>1, <2>2
<1>7. getPublicKey(secret) = c.to
  <2>1. \A e, r, s, f, q, t : derive(e, r, s).key = derive(f, q, t).key => r = q
    BY DEF derive
  <2> QED  BY <1>6, <2>1
<1>8. box = c.box
  <2>1. box = [ephemeral_public |-> box.ephemeral_public, nonce |-> box.nonce,
               ciphertext |-> box.ciphertext]
    BY <1>1
  <2> QED  BY <1>4, <1>5, <1>6, <2>1
<1> QED  BY <1>3, <1>4, <1>6, <1>7, <1>8

LEMMA OpensKeeps ==
  ASSUME KeysInv, NEW by, NEW secret, NEW box \in Replicated, Opens(by, secret, box)
  PROVE  KeysInv'
<1>1. /\ openSealed(secret, box) # Nothing
      /\ opened' = [by |-> getPublicKey(secret), box |-> box, text |-> openSealed(secret, box)]
      /\ UNCHANGED <<held, sealed, grants>>
  BY DEF Opens
<1>2. OpensToWhatWasSealed'
  BY <1>1, WhatOpensWasSealed DEF OpensToWhatWasSealed
<1> QED  BY <1>1, <1>2 DEF KeysInv, BoxesAreTheirOwn, KeysAreDerived

LEMMA KeysInvariance == KeysInv /\ [KeysNext]_keysVars => KeysInv'
<1> SUFFICES ASSUME KeysInv, [KeysNext]_keysVars PROVE KeysInv'
  OBVIOUS
<1>0. ASSUME UNCHANGED <<sealed, grants, opened>>, KeysAreDerived' PROVE KeysInv'
  BY <1>0 DEF KeysInv, BoxesAreTheirOwn, OpensToWhatWasSealed
<1>1. CASE UNCHANGED keysVars
  BY <1>0, <1>1 DEF keysVars, KeysInv, KeysAreDerived
<1>2. ASSUME NEW w \in Wallets, NEW software \in Software, Enrol(w, software)
      PROVE  KeysInv'
  BY <1>0, <1>2 DEF Enrol, KeysInv, KeysAreDerived
<1>3. ASSUME NEW w \in Wallets, NEW software \in Software, Derive(w, software)
      PROVE  KeysInv'
  <2> DEFINE signature == Signature(w, software, signed[w] + 1)
             pair == deriveEncryptionKeypair(signature)
  <2>1. pair = Keypair(signature)
    BY <1>3 DEF Derive, deriveEncryptionKeypair
  <2>2. UNCHANGED <<sealed, grants, opened>>
    BY <1>3 DEF Derive
  <2>3. \E what \in {pair, Nothing} : held' = [held EXCEPT ![w] = what]
    BY <1>3 DEF Derive
  <2> HIDE DEF pair, signature
  <2>4. /\ held' = [v \in Wallets |-> held'[v]] /\ held'[w] \in {pair, Nothing}
        /\ \A v \in Wallets \ {w} : held'[v] = held[v]
    BY <2>3 DEF KeysInv, KeysAreDerived
  <2>5. KeysAreDerived'
    BY <2>1, <2>4 DEF KeysInv, KeysAreDerived
  <2> QED  BY <1>0, <2>2, <2>5
<1>4. ASSUME NEW w \in Wallets, Forget(w) PROVE KeysInv'
  <2>1. /\ held' = [held EXCEPT ![w] = Nothing]
        /\ UNCHANGED <<sealed, grants, opened>>
    BY <1>4 DEF Forget
  <2>2. /\ held' = [v \in Wallets |-> held'[v]] /\ held'[w] = Nothing
        /\ \A v \in Wallets \ {w} : held'[v] = held[v]
    BY <2>1 DEF KeysInv, KeysAreDerived
  <2>3. KeysAreDerived'
    BY <2>2 DEF KeysInv, KeysAreDerived
  <2> QED  BY <1>0, <2>1, <2>3
<1>5. ASSUME NEW box \in Replicated, NEW w \in Wallets, Open(w, box) PROVE KeysInv'
  BY <1>5, OpensKeeps DEF Open
<1>6. ASSUME NEW box \in Replicated, NEW g \in Gateways, GatewayOpens(g, box) PROVE KeysInv'
  BY <1>6, OpensKeeps DEF GatewayOpens
<1> QED
  BY <1>1, <1>2, <1>3, <1>4, <1>5, <1>6, SealToClaimKeeps, SealToGatewayKeeps DEF KeysNext

LEMMA KeysInvHolds == KeysSpec => []KeysInv
BY KeysStart, KeysInvariance, PTL DEF KeysSpec

(* What opens is what was sealed, to the one who opens it: a box with a part  *)
(* of another in it does not open (seal.ts, openSealed).                    *)
THEOREM BoxesOpenWhole == KeysSpec => []OpensToWhatWasSealed
<1>1. KeysInv => OpensToWhatWasSealed
  BY DEF KeysInv
<1> QED  BY <1>1, KeysInvHolds, PTL

(* No key and nonce seal twice: both are digests of a secret that is new for  *)
(* every box (seal.ts, sealTo).                                             *)
THEOREM KeyStreamsAreNew == KeysSpec => []NoKeyStreamTwice
<1>1. KeysInv => NoKeyStreamTwice
  <2> SUFFICES ASSUME KeysInv, NEW a \in sealed, NEW b \in sealed,
                      a.box.ciphertext.key = b.box.ciphertext.key
               PROVE  a = b
    BY DEF NoKeyStreamTwice
  <2>1. PICK i, j : MadeWith(a, i) /\ MadeWith(b, j)
    BY DEF KeysInv, BoxesAreTheirOwn
  <2>2. ASSUME NEW s, NEW k, MadeWith(s, k)
        PROVE  /\ s.box.ciphertext.key =
                    derive(getPublicKey(Ephemeral(k)), s.to,
                           getSharedSecret(Ephemeral(k), s.to)).key
               /\ s.box.ephemeral_public = getPublicKey(Ephemeral(k))
    BY <2>2 DEF MadeWith, SealWith, encrypt
  <2>3. \A e, r, m, f, q, n : derive(e, r, m).key = derive(f, q, n).key => e = f
    BY DEF derive
  <2>4. getPublicKey(Ephemeral(i)) = getPublicKey(Ephemeral(j))
    BY <2>1, <2>2, <2>3
  <2>5. a.box.ephemeral_public = b.box.ephemeral_public
    BY <2>1, <2>2, <2>4
  <2> QED  BY <2>5 DEF KeysInv, BoxesAreTheirOwn
<1> QED  BY <1>1, KeysInvHolds, PTL

(* No box is sealed to a point of small order, and a claim that parses can    *)
(* be sealed to (encryption-key.ts, parseEncryptionPublicKey).              *)
THEOREM BoxesAreForOne == KeysSpec => []SealedForOne
<1>1. KeysInv => SealedForOne
  BY DEF KeysInv, BoxesAreTheirOwn, MadeWith, SealedForOne
<1> QED  BY <1>1, KeysInvHolds, PTL

(* With the key it derives a wallet opens every intact box ever sealed to it: *)
(* both ends hash the same points in the same order, and share one secret.   *)
THEOREM BoxesStayReadable == KeysSpec => []HistoryStaysReadable
<1>1. KeysInv => HistoryStaysReadable
  <2> SUFFICES ASSUME KeysInv, NEW w \in Wallets, NEW s \in sealed,
                      held[w] # Nothing, s.to = held[w].publicKey
               PROVE  openSealed(held[w].secret, s.box) = s.text
    BY DEF HistoryStaysReadable
  <2>1. PICK signature : held[w] = Keypair(signature)
    BY DEF KeysInv, KeysAreDerived
  <2>2. PICK i : MadeWith(s, i)
    BY DEF KeysInv, BoxesAreTheirOwn
  <2> DEFINE secret == held[w].secret
             ephemeral == Ephemeral(i)
             both == [between |-> {ephemeral, secret}]
             d == derive(getPublicKey(ephemeral), s.to, both)
  <2>3. s.to = getPublicKey(secret) /\ secret = <<"derived", signature>>
    BY <2>1 DEF Keypair
  <2>4. s.to # SmallOrder /\ getPublicKey(ephemeral) # SmallOrder
    <3>1. getPublicKey(ephemeral).of = <<"ephemeral", i>> /\ SmallOrder.of = <<"nobody">>
      BY DEF getPublicKey, SmallOrder, Ephemeral
    <3>2. <<"ephemeral", i>> # <<"nobody">>
      OBVIOUS
    <3> QED  BY <2>2, <3>1, <3>2 DEF MadeWith
  <2>5. /\ getSharedSecret(ephemeral, s.to) = both
        /\ getSharedSecret(secret, getPublicKey(ephemeral)) = both
    <3>1. s.to.of = secret /\ getPublicKey(ephemeral).of = ephemeral
      BY <2>3 DEF getPublicKey
    <3>2. {secret, ephemeral} = {ephemeral, secret}
      OBVIOUS
    <3> QED  BY <2>4, <3>1, <3>2 DEF getSharedSecret
  <2>6. both # Nothing
    <3>1. DOMAIN both = {"between"} /\ DOMAIN Nothing = {"nothing"}
      BY DEF Nothing
    <3> QED  BY <3>1
  <2>7. /\ s.box.ephemeral_public = getPublicKey(ephemeral) /\ s.box.nonce = d.nonce
        /\ s.box.ciphertext = encrypt(d.key, d.nonce, getPublicKey(ephemeral), s.text)
    BY <2>2, <2>5 DEF MadeWith, SealWith
  <2> HIDE DEF d, both, ephemeral, secret
  <2>8. s.box.ciphertext.text = s.text
    BY <2>7 DEF encrypt
  <2>9. decrypt(s.box.ciphertext, d.key, s.box.nonce, s.box.ephemeral_public) = s.text
    BY <2>7, <2>8 DEF decrypt
  <2>10. d = derive(s.box.ephemeral_public, getPublicKey(secret),
                    getSharedSecret(secret, s.box.ephemeral_public))
    BY <2>3, <2>5, <2>7 DEF d
  <2>11. getSharedSecret(secret, s.box.ephemeral_public) # Nothing
    BY <2>5, <2>6, <2>7
  <2> QED  BY <2>9, <2>10, <2>11 DEF openSealed, secret
<1> QED  BY <1>1, KeysInvHolds, PTL
=============================================================================
