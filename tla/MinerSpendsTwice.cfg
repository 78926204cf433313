\* Two transactions of the pool spend the same preimage.
CONSTANTS
  g = g  m1 = m1  m2 = m2  d2 = d2  s = s  f = f  f1 = f1
  t1 = t1  t2 = t2  p1 = p1  og = og  oa = oa  ob = ob  oc = oc  of = of  oe = oe  o1 = o1  o2 = o2
  NoHash = NoHash  NoHead = NoHead
  Block = {g, m1, d2}
  Txn = {t1, t2}
  Preimage = {p1}
  Output = {og, oa, ob, oc, of, oe, o1, o2}
  Prev <- MCPrev
  Ancestors <- MCAncestors
  SeqZero <- MCSeqZero
  Txns <- MCTxns
  CoinbaseOut <- MCCoinbaseOut
  Pimg <- MCPimg
  Inputs <- MCInputs
  Outputs <- MCOutputs
  WellFormed = {g, m1, d2}
  RightDifficulty = {g, m1, d2}
  RightCoinbase = {g, m1, d2}
  ValidTxn = {t1, t2}
  ValidCoinbaseTxn = {}
  Signed = {t1, t2}
  Type = "BLOCKCHAIN_CLIENT"
  Announced = {}
  Mine = {m1, d2}
  Signing = {}
  Own = {g}
  MaxFrontier = 2  MaxExpired = 1
SPECIFICATION NodeSpec
CONSTRAINT Bounds
INVARIANTS
  SpentOnce
