\* A payment is collected by its recipient.
CONSTANTS
  Q = 31  H = 7  Bits = 3  RingSize = 2
  HashOf <- MCHashOf  Wallet <- MCWallet  Tape <- TapesOf  Tapes = 1
  Coinbase = 6  Fees = {0}  MaxOutputs = 1  MaxSaved = 1
SPECIFICATION PaySpec
INVARIANT
  SavedIsPaid
