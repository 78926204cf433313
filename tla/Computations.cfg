\* The ring of a payment, payments, the difficulty and the Merkle root.
CONSTANTS
  b1 = b1  b2 = b2  b3 = b3  b4 = b4  c1 = c1  c2 = c2  c3 = c3  c4 = c4
  x = x  y = y  p = p
  NumInputs = 3
  Key = {c1, c2, c3, c4, x, y, p}
  MapsTo <- MCMapsTo  Body <- MCBody  Fund = c1
  Q = 31  H = 7  Bits = 3  RingSize = 3
  HashOf <- MCHashOf  Wallet <- MCWallet  Tape <- TapesOf  Tapes = 1
  Coinbase = 3  Fees = {1}  MaxOutputs = 3  MaxSaved = 1
  Spacing = 2  TwoWeeks = 4  Initial = 1  Converted = {0, 99}
  Reward = 5  Halving = 2  Time = {0, 1, 4, 9}  MaxLength = 7
  t1 = t1  t2 = t2  t3 = t3
  Txn = {t1, t2, t3}  NoHash = NoHash  MaxTxns = 5
SPECIFICATION MCSpec
CHECK_DEADLOCK FALSE
INVARIANTS
  RingTypeOK RingDistinct DecoysAreCoinbases
  SignedVerifies SameImage CommitsToAmount RecipientCanSpend
  DifficultyDrifts FollowsTime SupplyBounded 
