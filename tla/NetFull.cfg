\* A miner and two wallet servers; outages, or everybody is reachable.
CONSTANTS
  m = m  w1 = w1  w2 = w2
  Miner = m  Wallets = {w1, w2}  MaxHeight = 2  MaxOutages = 1
SPECIFICATION MCSpec
INVARIANTS
  NetTypeOK NoFutileFetch 

  
