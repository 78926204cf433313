\* Requests race, writes fail and the process restarts; or nothing fails.
CONSTANTS
  g = g  a1 = a1  t1 = t1  t2 = t2  p1 = p1  p2 = p2  og = og  oa = oa
  y1 = y1  c1 = c1  y2 = y2  c2 = c2  srv = srv  mnr = mnr
  NoHash = NoHash  NoHead = NoHead
  Block = {g, a1}
  Txn = {t1, t2}
  Preimage = {p1, p2}
  Output = {og, oa, y1, c1, y2, c2}
  Prev <- MCPrev  Ancestors <- MCAncestors  SeqZero = {g}
  Txns <- MCTxns  CoinbaseOut <- MCCoinbaseOut  Pimg <- MCPimg
  Inputs <- MCInputs  Outputs <- MCOutputs
  WellFormed = {g, a1}  RightDifficulty = {g, a1}  RightCoinbase = {g, a1}
  ValidTxn = {t1, t2}  ValidCoinbaseTxn = {}  Signed = {t1, t2}
  Opener = {srv, mnr}  Server = srv  Password <- MCPassword  KeyRank <- MCKeyRank
  Key0 = 0  CoinbaseKey <- MCCoinbaseKey  Value <- MCValue
  Signer <- MCSigner  Amount <- MCAmount  Fee <- MCFee  PayTo <- MCPayTo
  Pay <- MCPay  Change <- MCChange  MaxAmount = 3  Wrap = 8
  MaxCreates = 2  MaxLive = 3
SPECIFICATION MCSpec
CONSTRAINT Bounds
INVARIANTS
  WalletTypeOK KeysKept SavedIsMine TokenAccepted  
PROPERTY
  CalmCollected
