----------------------------- MODULE DebridgeHook -----------------------------
(***************************************************************************)
(* typescript/src/debridge/hook.ts: deBridge's binary layout of a Solana   *)
(* hook, written and read by hand.  The layout has no outer length and no  *)
(* field names, so one cell too many or too few shifts everything behind   *)
(* it.  A field is a cell, whatever its width in bytes, and a byte string  *)
(* is its bytes.                                                           *)
(*                                                                         *)
(* A hook is encoded, travels as text, and is decoded instruction by       *)
(* instruction.  It may have been encoded by deBridge's Solidity library,  *)
(* and it may arrive cut off anywhere.                                     *)
(***************************************************************************)
EXTENDS Integers, SequencesExt

CONSTANTS
  U64,     \* how many values a u64 holds
  None,    \* undefined
  Hooks,   \* the hooks encoded: sequences of ExternalInstruction
  Requests \* what buildDeliverContributionHook is called with

\* The exported types: what TypeScript calls a bigint fits the u64 it becomes.
u64 == 0 .. U64 - 1

SeedVariant ==
  [kind : {"submissionAuth"}] \cup [kind : {"arbitrary"}, bytes : Seq(Nat)]

PubkeySubstitution ==
  [kind : {"submissionAuthWallet"}, accountIndex : u64, tokenMint : Nat]
    \cup [kind : {"bySeeds"}, accountIndex : u64, programId : Nat,
          seeds : Seq(SeedVariant), bump : Nat \cup {None}]

DataSubstitution ==
  [kind : {"submissionAuthWalletAmount"}, accountIndex : u64, offset : u64,
   isBigEndian : BOOLEAN, subtraction : u64]

Meta == [pubkey : Nat, isSigner : BOOLEAN, isWritable : BOOLEAN]

ExternalInstruction ==
  [reward : u64, expense : u64 \cup {None}, executePolicy : {"empty", "mandatoryBlock"},
   pubkeySubstitutions : Seq(PubkeySubstitution), dataSubstitutions : Seq(DataSubstitution),
   programId : Nat, keys : Seq(Meta), data : Seq(Nat)]

DeliverContributionParams ==
  [reward : u64 \cup {None}, expense : u64 \cup {None}, programId : Nat, banRecord : Nat,
   saleConfig : Nat, usdcMint : Nat, usdcVault : Nat, openMint : Nat,
   presaleVaultAuthority : Nat, presaleVault : Nat, recipient : Nat,
   recipientOpen : Nat, contribution : Nat, programs : Seq(Nat), saleNonce : Nat,
   usdcAmount : Nat]

\* Assumed where they get their values.
HookAssumption ==
  /\ U64 \in Nat \ {0}
  /\ None \notin Int \cup Seq(PubkeySubstitution) \cup Seq(DataSubstitution)
  /\ Hooks \subseteq Seq(ExternalInstruction)
  /\ Requests \subseteq DeliverContributionParams

VARIABLES
  hook,    \* what was encoded
  own,     \* by this SDK
  wire,    \* the payload that arrived
  offset,  \* Cursor: cells consumed
  decoded, \* instructions read so far
  status   \* "reading", "returned", "threw"

vars == <<hook, own, wire, offset, decoded, status>>

-----------------------------------------------------------------------------
(* Encoding.                                                               *)

u64LE(value) == value % U64
boolByte(value) == IF value THEN 1 ELSE 0
Each(Encode(_), items) == FlattenSeq([i \in DOMAIN items |-> Encode(items[i])])

optionU64(value) == IF value = None THEN <<0>> ELSE <<1, u64LE(value)>>

encodeSeedVariant(seed) ==
  IF seed.kind = "submissionAuth" THEN <<1>>
  ELSE <<0, Len(seed.bytes)>> \o seed.bytes

encodePubkeySubstitutionPayload(sub) ==
  IF sub.kind = "submissionAuthWallet" THEN <<0, sub.tokenMint>>
  ELSE <<1, sub.programId, Len(sub.seeds)>> \o Each(encodeSeedVariant, sub.seeds)
         \o (IF sub.bump = None THEN <<0>> ELSE <<1, sub.bump>>)

encodeDataSubstitution(sub) ==
  <<0, u64LE(sub.accountIndex), u64LE(sub.offset), boolByte(sub.isBigEndian),
    u64LE(sub.subtraction)>>

encodeAccountMeta(meta) ==
  <<meta.pubkey, boolByte(meta.isSigner), boolByte(meta.isWritable)>>

PubkeySubs(ei) ==
  <<Len(ei.pubkeySubstitutions)>>
    \o Each(LAMBDA s : <<u64LE(s.accountIndex)>> \o encodePubkeySubstitutionPayload(s),
            ei.pubkeySubstitutions)

DataSubs(ei) ==
  <<Len(ei.dataSubstitutions)>> \o Each(encodeDataSubstitution, ei.dataSubstitutions)

\* Around the two vectors of substitutions.
Laid(ei, pubkeySubs, dataSubs) ==
  <<u64LE(ei.reward)>> \o optionU64(ei.expense)
    \o <<IF ei.executePolicy = "mandatoryBlock" THEN 1 ELSE 0>>
    \o pubkeySubs \o dataSubs
    \o <<ei.programId, Len(ei.keys)>> \o Each(encodeAccountMeta, ei.keys)
    \o <<Len(ei.data)>> \o ei.data

\* An empty vector is present, with length zero.
encodeExternalInstruction(ei) ==
  Laid(ei, <<1>> \o PubkeySubs(ei), <<1>> \o DataSubs(ei))

\* DeBridgeSolanaSerializer.sol collapses it to a single zero.
encodeCollapsed(ei) ==
  Laid(ei, IF ei.pubkeySubstitutions = <<>> THEN <<0>> ELSE <<1>> \o PubkeySubs(ei),
           IF ei.dataSubstitutions = <<>> THEN <<0>> ELSE <<1>> \o DataSubs(ei))

\* The executor's own two accounts are placeholders, known by value; the two
\* derived addresses are named by what they are derived from.
AUTHORITY_PLACEHOLDER == 0
WALLET_PLACEHOLDER == 1

\* deliver_contribution: reward, expense and the accounts a caller chooses.
DeliverContribution(params) ==
  LET meta(key, isSigner, isWritable) ==
        [pubkey |-> key, isSigner |-> isSigner, isWritable |-> isWritable]
      Account(key) == meta(key, FALSE, FALSE)
      Written(key) == meta(key, FALSE, TRUE)
  IN [reward |-> IF params.reward = None THEN 0 ELSE params.reward,
      expense |-> params.expense,
      executePolicy |-> "empty",
      pubkeySubstitutions |-> <<>>,
      dataSubstitutions |-> <<>>,
      programId |-> params.programId,
      keys |-> <<meta(AUTHORITY_PLACEHOLDER, TRUE, TRUE), Account(params.banRecord),
                 Written(params.saleConfig), Account(params.usdcMint),
                 Written(WALLET_PLACEHOLDER), Written(params.usdcVault),
                 Account(params.openMint), Account(params.presaleVaultAuthority),
                 Written(params.presaleVault), Account(params.recipient),
                 Written(params.recipientOpen), Written(params.contribution)>>
                \o [i \in DOMAIN params.programs |-> Account(params.programs[i])],
      data |-> <<u64LE(params.saleNonce), params.recipient, u64LE(params.usdcAmount)>>]

buildSolanaHook(instructions) == Each(encodeExternalInstruction, instructions)

-----------------------------------------------------------------------------
(* Decoding.  A read takes a cursor [at, ok] and gives [value, c], c being  *)
(* the cursor behind it; reading past the end throws, and a cursor that has *)
(* thrown reads nothing more.                                              *)

Reading(at) == [at |-> at, ok |-> TRUE]
Read(value, c) == [value |-> value, c |-> c]

bytesAtUnchecked(c, count) ==
  Read(SubSeq(wire, c.at + 1, IF c.at + count <= Len(wire) THEN c.at + count ELSE Len(wire)),
       [c EXCEPT !.at = @ + count])

bytesAt(c, count) ==
  IF c.ok /\ c.at + count <= Len(wire)
  THEN Read(SubSeq(wire, c.at + 1, c.at + count), [c EXCEPT !.at = @ + count])
  ELSE Read(<<>>, [c EXCEPT !.ok = FALSE])

Cell(c) ==
  LET r == bytesAt(c, 1) IN Read(IF r.value = <<>> THEN 0 ELSE r.value[1], r.c)

Throw(c) == Read(None, [c EXCEPT !.ok = FALSE])

\* Present exactly when its tag is one.
Option(c, Body(_)) == LET tag == Cell(c) IN IF tag.value = 1 THEN Body(tag.c) ELSE Read(None, tag.c)

\* A length, and that many items.
Vector(c, Item(_)) ==
  LET count == Cell(c)
      More(acc, i) == LET r == Item(acc.c) IN Read(Append(acc.value, r.value), r.c)
  IN FoldLeft(More, Read(<<>>, count.c), [i \in 1 .. count.value |-> i])

String(c) == LET len == Cell(c) IN bytesAt(len.c, len.value)

decodeSeedVariant(c) ==
  LET tag == Cell(c) IN
    CASE tag.value = 1 -> Read([kind |-> "submissionAuth"], tag.c)
      [] tag.value = 0 -> LET s == String(tag.c)
                          IN Read([kind |-> "arbitrary", bytes |-> s.value], s.c)
      [] OTHER -> Throw(tag.c)

decodeSubstitutionSkippingBump(c) ==
  LET index == Cell(c)  variant == Cell(index.c)  key == Cell(variant.c) IN
    CASE variant.value = 0 ->
           Read([kind |-> "submissionAuthWallet", accountIndex |-> index.value,
                 tokenMint |-> key.value], key.c)
      [] variant.value = 1 ->
           LET seeds == Vector(key.c, decodeSeedVariant)
               bump == Cell(seeds.c)
           IN Read([kind |-> "bySeeds", accountIndex |-> index.value,
                    programId |-> key.value, seeds |-> seeds.value,
                    bump |-> bump.value], bump.c)
      [] OTHER -> Throw(variant.c)

decodePubkeySubstitution(c) ==
  LET index == Cell(c)  variant == Cell(index.c)  key == Cell(variant.c) IN
    CASE variant.value = 0 ->
           Read([kind |-> "submissionAuthWallet", accountIndex |-> index.value,
                 tokenMint |-> key.value], key.c)
      [] variant.value = 1 ->
           LET seeds == Vector(key.c, decodeSeedVariant)
               bump == Option(seeds.c, Cell)
           IN Read([kind |-> "bySeeds", accountIndex |-> index.value,
                    programId |-> key.value, seeds |-> seeds.value,
                    bump |-> bump.value], bump.c)
      [] OTHER -> Throw(variant.c)

\* Any byte but zero is true.
Bool(c) == LET r == Cell(c) IN Read(r.value # 0, r.c)

decodeDataSubstitution(c) ==
  LET variant == Cell(c)  index == Cell(variant.c)  at == Cell(index.c)
      big == Bool(at.c)   less == Cell(big.c)
  IN IF variant.value # 0 THEN Throw(variant.c)
     ELSE Read([kind |-> "submissionAuthWalletAmount", accountIndex |-> index.value,
                offset |-> at.value, isBigEndian |-> big.value,
                subtraction |-> less.value], less.c)

AccountMeta(c) ==
  LET key == Cell(c)  signer == Bool(key.c)  writable == Bool(signer.c)
  IN Read([pubkey |-> key.value, isSigner |-> signer.value,
           isWritable |-> writable.value], writable.c)

\* A vector that may be absent reads as an empty one.
Absent(r) == IF r.value = None THEN Read(<<>>, r.c) ELSE r

decodeOneExternalInstruction(c) ==
  LET reward == Cell(c)
      expense == Option(reward.c, Cell)
      policy == Cell(expense.c)
      pubkeySubs == Absent(Option(policy.c, LAMBDA d : Vector(d, decodePubkeySubstitution)))
      dataSubs == Absent(Option(pubkeySubs.c, LAMBDA d : Vector(d, decodeDataSubstitution)))
      programId == Cell(dataSubs.c)
      keys == Vector(programId.c, AccountMeta)
      data == String(keys.c)
  IN Read([reward |-> reward.value, expense |-> expense.value,
           executePolicy |-> IF policy.value = 1 THEN "mandatoryBlock" ELSE "empty",
           pubkeySubstitutions |-> pubkeySubs.value,
           dataSubstitutions |-> dataSubs.value,
           programId |-> programId.value, keys |-> keys.value,
           data |-> data.value], data.c)

-----------------------------------------------------------------------------
(* A hook travels, and decodeSolanaHook reads it.                          *)

Init ==
  /\ hook \in Hooks \cup {<<DeliverContribution(p)>> : p \in Requests}
  /\ own \in BOOLEAN
  /\ LET sent == IF own THEN buildSolanaHook(hook) ELSE Each(encodeCollapsed, hook)
     IN \E received \in 0 .. Len(sent) : wire = SubSeq(sent, 1, received)
  /\ offset = 0
  /\ decoded = <<>>
  /\ status = "reading"

\* While cells remain.
DecodeOne ==
  LET r == decodeOneExternalInstruction(Reading(offset)) IN
  /\ status = "reading"
  /\ offset < Len(wire)
  /\ r.c.ok
  /\ offset' = r.c.at
  /\ decoded' = Append(decoded, r.value)
  /\ UNCHANGED <<hook, own, wire, status>>

\* A throw leaves the loop, and the caller gets nothing of what was read.
DecodeThrows ==
  LET r == decodeOneExternalInstruction(Reading(offset)) IN
  /\ status = "reading"
  /\ offset < Len(wire)
  /\ ~r.c.ok
  /\ status' = "threw"
  /\ decoded' = <<>>
  /\ UNCHANGED <<hook, own, wire, offset>>

DecodeReturns ==
  /\ status = "reading"
  /\ offset >= Len(wire)
  /\ status' = "returned"
  /\ UNCHANGED <<hook, own, wire, offset, decoded>>

Next == DecodeOne \/ DecodeThrows \/ DecodeReturns

Spec == Init /\ [][Next]_vars

-----------------------------------------------------------------------------
(* Properties.                                                             *)

\* Nothing is read that was not written, and nothing that was is passed over:
\* what comes out, at any moment and of however much arrived, is the beginning
\* of what went in, and all of it if all of it arrived, whichever of the two
\* encoders wrote it.  A hook of the SDK's own that decodes is all that
\* arrived: encoded again it is the same payload, so a payload cut inside an
\* instruction is refused.
OnlyWhatWasEncoded ==
  /\ offset \in 0 .. Len(wire)
  /\ IsPrefix(decoded, hook)
  /\ /\ status = "returned"
     /\ Len(wire) = Len(IF own THEN buildSolanaHook(hook) ELSE Each(encodeCollapsed, hook))
     => decoded = hook
  /\ own /\ status = "returned" => buildSolanaHook(decoded) = wire
=============================================================================
