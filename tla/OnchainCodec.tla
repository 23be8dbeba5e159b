---------------------------- MODULE OnchainCodec ----------------------------
(***************************************************************************)
(* What the instruction builders of typescript/src/onchain share: the       *)
(* encoders of codec.ts, and the addresses of constants.ts.  A program-     *)
(* derived address is the tuple of its seeds: equal seeds, equal address.   *)
(***************************************************************************)
EXTENDS Integers, Sequences

CONSTANT U64  \* how many values a u64 holds

ASSUME U64Assumption == U64 \in Nat \ {0, 1}

-----------------------------------------------------------------------------
(* codec.ts.                                                               *)

\* A DataView setter keeps the low bits of what it is given.
u64LE(value) == value % U64

\* Two's complement of the same width.
i64LE(value) ==
  LET low == value % U64 IN IF low >= U64 \div 2 THEN low - U64 ELSE low

meta(key, isSigner, isWritable) ==
  [key |-> key, isSigner |-> isSigner, isWritable |-> isWritable]

Signer(key) == meta(key, TRUE, FALSE)
Payer(key) == meta(key, TRUE, TRUE)
Writable(key) == meta(key, FALSE, TRUE)
ReadOnly(key) == meta(key, FALSE, FALSE)

Instruction(name, keys, args) == [name |-> name, keys |-> keys, args |-> args]

-----------------------------------------------------------------------------
(* Well-known addresses, and the one every gated instruction carries.       *)

SystemProgram == <<"system program">>
RentSysvar == <<"rent sysvar">>
SlotHashesSysvar == <<"slot hashes sysvar">>
TOKEN_2022_PROGRAM_ID == <<"token-2022 program">>

banRecordPda(wallet) == <<"ban", wallet>>

-----------------------------------------------------------------------------
(* The Solana runtime: every account marked as signer signs, and only a     *)
(* writable account changes.                                                *)

Key(ix, i) == ix.keys[i].key

Signed(ix, signers) ==
  \A i \in DOMAIN ix.keys : ix.keys[i].isSigner => Key(ix, i) \in signers

MayWrite(ix, positions) == \A i \in positions : ix.keys[i].isWritable
=============================================================================
