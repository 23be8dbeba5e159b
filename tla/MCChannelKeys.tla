---------------------------- MODULE MCChannelKeys ----------------------------
(***************************************************************************)
(* Keys of two bytes.  The first is zero where the wallet signed the plain   *)
(* message and 255 where it signed an envelope, so that a claim's text       *)
(* begins with a one or carries all the way; every other key has bytes of    *)
(* its own too.  A box to a key that nobody has, of a misread claim, is the  *)
(* only one; else there are three.                                          *)
(***************************************************************************)
EXTENDS ChannelKeys

CONSTANTS w1, w2

MCKeyBytes(point) ==
  IF point = SmallOrder THEN <<0, 0>>
  ELSE LET signature == point.of[2] IN
       <<IF signature.over = "message" THEN 0 ELSE 255,
         (IF signature.of = w1 THEN 1 ELSE 128)
           + 10 * signature.salt + 5 * (signature.length - 64)>>

MisreadAlone ==
  Cardinality(sealed) > 1 => \A s \in sealed : s.to.of[1] # "unknown"
MCNext == KeysNext /\ MisreadAlone'
MCSpec == KeysInit /\ [][MCNext]_keysVars

MCSampleBytes == {0, 1, 57, 58, 255}
=============================================================================
