\* A wallet's client, which stores no blocks.
CONSTANTS
  g = g  a1 = a1  b1 = b1  a2 = a2  c2 = c2  f = f  f1 = f1
  t1 = t1  t2 = t2  u1 = u1  p1 = p1  p2 = p2
  og = og  oa = oa  ob = ob  oc = oc  of = of  oe = oe  o1 = o1  o2 = o2
  NoHash = NoHash  NoHead = NoHead
  Block = {g, a1, c2}
  Txn = {t1, t2, u1}
  Preimage = {p1}
  Output = {og, oa, ob, oc, of, oe, o1, o2}
  Prev <- MCPrev
  Ancestors <- MCAncestors
  SeqZero <- MCSeqZero
  Txns <- MCTxns
  CoinbaseOut <- MCCoinbaseOut
  Pimg <- MCPimg
  Inputs <- MCInputs
  Outputs <- MCOutputs
  WellFormed = {g, a1, c2}
  RightDifficulty = {g, a1, c2}
  RightCoinbase = {g, a1, c2}
  ValidTxn <- MCValidTxn
  ValidCoinbaseTxn = {}
  Signed = {t1, t2, u1}
  Type = "SVP_CLIENT"
  Announced <- MCAnnounced
  Mine = {}
  Signing = {t2, u1}
  MaxFrontier = 2  MaxExpired = 1
SPECIFICATION Spec
CONSTRAINT Bounds
INVARIANTS
  HeadComplete WalletHearsRecorded
