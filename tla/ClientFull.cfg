\* A client of a miner: blocks of two chains, a mined block, crashes, failed writes.
CONSTANTS
  g = g  a1 = a1  b1 = b1  a2 = a2  c2 = c2  f = f  f1 = f1
  t1 = t1  t2 = t2  u1 = u1  p1 = p1  p2 = p2
  og = og  oa = oa  ob = ob  oc = oc  of = of  oe = oe  o1 = o1  o2 = o2
  NoHash = NoHash  NoHead = NoHead
  Block = {g, a1, b1, c2, f, f1}
  Txn = {t1, t2}
  Preimage = {p1}
  Output = {og, oa, ob, oc, of, oe, o1, o2}
  Prev <- MCPrev
  Ancestors <- MCAncestors
  SeqZero <- MCSeqZero
  Txns <- MCTxns
  CoinbaseOut <- MCCoinbaseOut
  Pimg <- MCPimg
  Inputs <- MCInputs
  Outputs <- MCOutputs
  WellFormed = {g, a1, b1, c2, f, f1}
  RightDifficulty = {g, a1, b1, c2, f, f1}
  RightCoinbase = {g, a1, b1, c2, f, f1}
  ValidTxn <- MCValidTxn
  ValidCoinbaseTxn = {t2}
  Signed = {t1, t2}
  Type = "BLOCKCHAIN_CLIENT"
  Announced <- MCAnnounced
  Mine = {b1}
  Signing = {}
  MaxFrontier = 2  MaxExpired = 0
SPECIFICATION Spec
CONSTRAINT Bounds
INVARIANTS
  TypeOK OneSignal FrontierExact   NoDoubleSpend MappedIsStored SentIsServed 

  
