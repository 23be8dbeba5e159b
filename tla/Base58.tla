------------------------------- MODULE Base58 -------------------------------
(***************************************************************************)
(* typescript/src/base58.ts: bytes as text and back, digit by digit, so     *)
(* that no number ever gets longer than a byte times a digit.  A character  *)
(* is its value, and a character outside the alphabet is NotInAlphabet.     *)
(***************************************************************************)
EXTENDS Integers, SequencesExt

NotInAlphabet == 58

\* What is left of a carry when the digits are used up.
Carried(carry, base) ==
  LET push[n \in 0 .. 255] == IF n = 0 THEN <<>> ELSE <<n % base>> \o push[n \div base]
  IN push[carry]

\* A number in one base, least digit first, times the other plus the next.
TimesPlus(digits, base, factor, next) ==
  LET Step(acc, digit) ==
        LET v == acc.carry + digit * factor
        IN [carry |-> v \div base, digits |-> Append(acc.digits, v % base)]
      all == FoldLeft(Step, [carry |-> next, digits |-> <<>>], digits)
  IN all.digits \o Carried(all.carry, base)

Converted(digits, from, to) ==
  Reverse(FoldLeft(LAMBDA acc, digit : TimesPlus(acc, to, from, digit), <<>>, digits))

\* How many zeros, or ones, a text begins with.
Leading(digits) ==
  LET first == SelectInSeq(digits, LAMBDA d : d # 0)
  IN IF first = 0 THEN Len(digits) ELSE first - 1

encodeBase58OfANumber(bytes) == Converted(bytes, 256, 58)

encodeBase58(bytes) ==
  SubSeq(bytes, 1, Leading(bytes)) \o Converted(bytes, 256, 58)

\* Throws on a character outside the alphabet.
decodeBase58(text) ==
  IF NotInAlphabet \in {text[i] : i \in DOMAIN text} THEN [ok |-> FALSE]
  ELSE [ok |-> TRUE,
        value |-> SubSeq(text, 1, Leading(text)) \o Converted(text, 58, 256)]
=============================================================================
