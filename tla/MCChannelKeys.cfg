SPECIFICATION MCSpec
CONSTANTS
  w1 = w1
  w2 = w2
  Wallets = {w1, w2}
  Gateways = {g1}
  Texts = {t1, t2}
  KeyLength = 2
  KeyBytes <- MCKeyBytes
  SampleBytes <- MCSampleBytes
  MaxSeals = 3
  MaxSignatures = 2
INVARIANTS TextIsTheKey OpensToWhatWasSealed NoKeyStreamTwice SealedForOne HistoryStaysReadable
