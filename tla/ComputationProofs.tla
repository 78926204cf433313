--------------------------- MODULE ComputationProofs ---------------------------
(***************************************************************************)
(* Proofs about the other computations: the walk of RandomOutputs, the     *)
(* difficulty, the supply and the Merkle root.  Each has its own           *)
(* specification and its own invariant.  Induction, division and what a    *)
(* recursive function is come from PaymentsProofs.                         *)
(***************************************************************************)
EXTENDS PaymentsProofs, RingInputs, Retarget, Merkle

-------------------------------------------------------------------------------
(* The ring of a payment, for every chain and every number of inputs.  The   *)
(* walk never gets past the first output of the second transaction of a      *)
(* block, which is why decoys are coinbases.                                 *)

Coin(k) == Body[MapsTo[k]][1][1]
Alone(k) == Len(Body[MapsTo[k]]) = 1

\* Where the walk through a block may be.
AtCoinbase == txn = 1 /\ out = 1 /\ \A n \in DOMAIN ring : Alone(ring[n]) /\ ring[n] # key
Taken == Len(ring) > 0 /\ ring[Len(ring)] = key /\ Coin(key) = key
PastCoinbase == txn = 1 /\ out = 2 /\ Taken
AtPayment == txn = 2 /\ out = 1 /\ Taken

Types ==
  /\ left \subseteq Key /\ key \in Key /\ ring \in Seq(Key)
  /\ pc \in {"next", "scan", "found", "signed", "failed", "panicked"}

Room ==
  /\ Len(ring) <= NumInputs
  /\ pc \in {"next", "scan"} => Len(ring) < NumInputs
  /\ pc \in {"found", "signed"} => Len(ring) = NumInputs

Position == pc = "scan" => key \notin left /\ (AtCoinbase \/ PastCoinbase \/ AtPayment)

\* What was taken is not looked at again.
NotAgain == pc # "signed" => \A n \in DOMAIN ring : ring[n] \notin left

WalkInv == Types /\ Room /\ Position /\ NotAgain /\ RingDistinct /\ DecoysAreCoinbases

-------------------------------------------------------------------------------

\* The block under a key begins with a coinbase of one output, and no other
\* transaction begins with the same output.
LEMMA BlockShape ==
  ASSUME NEW k \in Key
  PROVE  /\ Body[MapsTo[k]] \in Seq(Seq(Key))
         /\ Len(Body[MapsTo[k]]) > 0 /\ Len(Body[MapsTo[k]][1]) = 1
         /\ \A n \in 2..Len(Body[MapsTo[k]]) :
              Len(Body[MapsTo[k]][n]) > 0 /\ Body[MapsTo[k]][n][1] # Coin(k)
<1>1. MapsTo[k] \in Block
  BY DEF Block
<1> QED BY <1>1, RingAssumption DEF Coin

\* The same of the block the walk is in.
LEMMA TxnsShape ==
  ASSUME WalkInv
  PROVE  /\ Len(Txns) \in Nat /\ Len(Txns) > 0 /\ Len(Txns[1]) = 1
         /\ Len(Txns) >= 2 =>
              Len(Txns[2]) \in Nat /\ Len(Txns[2]) > 0 /\ Txns[2][1] # Txns[1][1]
         /\ Coin(key) = Txns[1][1] /\ (Alone(key) <=> Len(Txns) = 1)
<1>1. key \in Key
  BY DEF WalkInv, Types
<1>2. Txns \in Seq(Seq(Key)) /\ Len(Txns) > 0 /\ Len(Txns[1]) = 1
  BY <1>1, BlockShape DEF Txns
<1>3. \A n \in 2..Len(Txns) : Len(Txns[n]) > 0 /\ Txns[n][1] # Txns[1][1]
  BY <1>1, BlockShape DEF Txns, Coin
<1>4. ASSUME Len(Txns) >= 2
      PROVE  Len(Txns[2]) \in Nat /\ Len(Txns[2]) > 0 /\ Txns[2][1] # Txns[1][1]
  <2>1. Len(Txns) \in Nat /\ 2 \in 2..Len(Txns) /\ 2 \in 1..Len(Txns)
    BY <1>2, <1>4
  <2>2. Txns[2] \in Seq(Key)
    BY <1>2, <2>1
  <2> QED BY <1>3, <2>1, <2>2
<1> QED BY <1>2, <1>4 DEF Coin, Alone, Txns

\* The output to be spent is in the map.
LEMMA FundIsMapped == Fund \in Key
<1>1. PICK b \in Block : Fund \in OutputsIn(b)
  BY RingAssumption
<1>2. PICK n \in DOMAIN Body[b] : Fund \in {Body[b][n][l] : l \in DOMAIN Body[b][n]}
  BY <1>1 DEF OutputsIn
<1>3. Body[b] \in Seq(Seq(Key))
  BY RingAssumption
<1>4. Body[b][n] \in Seq(Key)
  BY <1>3
<1> QED BY <1>2, <1>4

\* Positions stay inside the block.
LEMMA WalkTypes == WalkInv => RingTypeOK
<1> SUFFICES ASSUME WalkInv PROVE RingTypeOK
  OBVIOUS
<1>1. Len(ring) \in 0..NumInputs
  BY RingAssumption DEF WalkInv, Types, Room
<1>2. ASSUME pc = "scan" PROVE txn \in 1..Len(Txns) + 1 /\ (InBlock => out \in 1..Len(Txns[txn]) + 1)
  <2>1. CASE txn = 1 /\ out \in 1..2
    BY <2>1, TxnsShape
  <2>2. CASE txn = 2 /\ out = 1
    <3>1. txn \in 1..Len(Txns) + 1
      BY <2>2, TxnsShape
    <3>2. InBlock => Len(Txns[2]) \in Nat
      BY <2>2, TxnsShape DEF InBlock
    <3> QED BY <2>2, <3>1, <3>2
  <2> QED BY <1>2, <2>1, <2>2 DEF WalkInv, Position, AtCoinbase, PastCoinbase, AtPayment
<1>3. InBlock => pc = "scan"
  BY DEF InBlock
<1> QED BY <1>1, <1>2, <1>3 DEF WalkInv, Types, Room, RingTypeOK

\* Nothing is taken yet.
LEMMA WalkInitially == RingInit => WalkInv
  BY RingAssumption
  DEF RingInit, WalkInv, Types, Room, Position, NotAgain, RingDistinct, DecoysAreCoinbases

-------------------------------------------------------------------------------

\* The next key has not been looked at.
LEMMA NextKeyKeeps == WalkInv /\ NextKey => WalkInv'
<1> SUFFICES ASSUME WalkInv, NextKey PROVE WalkInv'
  OBVIOUS
<1>1. PICK k \in left : key' = k /\ left' = left \ {k}
  BY DEF NextKey
<1>2. /\ txn' = 1 /\ out' = 1 /\ ring' = ring /\ pc = "next"
      /\ pc' \in {"scan", "next", "panicked"}
  BY DEF NextKey
<1>3. k \in Key /\ \A n \in DOMAIN ring : ring[n] # k
  BY <1>1, <1>2 DEF WalkInv, Types, NotAgain
<1>4. Types' /\ Room' /\ NotAgain'
  BY <1>1, <1>2, <1>3 DEF WalkInv, Types, Room, NotAgain
<1>5. \A n \in DOMAIN ring : ring[n] = Coin(ring[n]) /\ Alone(ring[n])
  BY <1>2 DEF WalkInv, DecoysAreCoinbases, Coin, Alone
<1>6. Position'
  BY <1>1, <1>2, <1>3, <1>5 DEF Position, AtCoinbase, Alone
<1>7. RingDistinct'
  BY <1>2 DEF WalkInv, RingDistinct
<1>8. DecoysAreCoinbases'
  BY <1>2, <1>5 DEF DecoysAreCoinbases, Coin, Alone
<1> QED BY <1>4, <1>6, <1>7, <1>8 DEF WalkInv

\* Only the coinbase can be taken: at a payment the key is that of the
\* coinbase, which no payment has.
LEMMA TakeKeeps == WalkInv /\ Take => WalkInv'
<1> SUFFICES ASSUME WalkInv, Take PROVE WalkInv'
  OBVIOUS
<1> DEFINE L == Len(ring)
<1>1. /\ key \in Key /\ ring \in Seq(Key) /\ L \in Nat /\ L < NumInputs /\ pc = "scan"
  BY DEF WalkInv, Types, Room, Take, AtOutput, InBlock
<1>2. /\ Txns[txn][out] = key /\ txn <= Len(Txns) /\ out <= Len(Txns[txn])
      /\ ring' = Append(ring, key) /\ out' = out + 1
      /\ pc' = (IF Len(ring') = NumInputs THEN "found" ELSE "scan")
      /\ left' = left /\ key' = key /\ txn' = txn
  BY DEF Take, AtOutput, InBlock
<1>3. AtCoinbase
  BY <1>1, <1>2, TxnsShape DEF WalkInv, Position, PastCoinbase, AtPayment, Taken
<1>4. txn = 1 /\ out = 1 /\ Coin(key) = key /\ key \notin left
  BY <1>1, <1>2, <1>3 DEF AtCoinbase, Coin, Txns, WalkInv, Position
<1>5. /\ ring' \in Seq(Key) /\ Len(ring') = L + 1 /\ ring'[L + 1] = key
      /\ DOMAIN ring' = 1..(L + 1) /\ DOMAIN ring = 1..L
      /\ \A n \in 1..L : ring'[n] = ring[n] /\ Alone(ring[n]) /\ ring[n] # key
  BY <1>1, <1>2, <1>3 DEF AtCoinbase
<1>6. Types' /\ Room'
  BY <1>1, <1>2, <1>5, RingAssumption DEF WalkInv, Types, Room
<1>7. Position'
  BY <1>1, <1>2, <1>4, <1>5 DEF Position, PastCoinbase, Taken, Coin
<1>8. NotAgain'
  BY <1>1, <1>2, <1>4, <1>5 DEF WalkInv, NotAgain
<1>9. RingDistinct'
  <2> SUFFICES ASSUME NEW n \in 1..(L + 1), NEW l \in 1..(L + 1), ring'[n] = ring'[l]
               PROVE  n = l
    BY <1>5 DEF RingDistinct
  <2>1. CASE n \in 1..L /\ l \in 1..L
    BY <1>1, <1>5, <2>1 DEF WalkInv, RingDistinct
  <2> QED BY <1>1, <1>5, <2>1
<1>10. DecoysAreCoinbases'
  <2> SUFFICES ASSUME NEW n \in 1..(L + 1)
               PROVE  ring'[n] = Coin(ring'[n]) /\ (n < L + 1 => Alone(ring'[n]))
    BY <1>2, <1>5 DEF DecoysAreCoinbases, Coin, Alone
  <2>1. CASE n \in 1..L
    BY <1>1, <1>5, <2>1 DEF WalkInv, DecoysAreCoinbases, Coin
  <2>2. CASE n = L + 1
    BY <1>1, <1>4, <1>5, <2>2 DEF Coin
  <2> QED BY <1>1, <2>1, <2>2
<1> QED BY <1>6, <1>7, <1>8, <1>9, <1>10 DEF WalkInv

\* Starting the loop over changes nothing at its first output.
LEMMA RestartKeeps == WalkInv /\ Restart => WalkInv'
<1> SUFFICES ASSUME WalkInv, Restart PROVE WalkInv'
  OBVIOUS
<1>1. /\ out' = 1 /\ UNCHANGED <<left, key, txn, ring, pc>> /\ pc = "scan"
      /\ out <= Len(Txns[txn])
  BY DEF Restart, AtOutput, InBlock
<1>2. ASSUME txn = 1, out = 2 PROVE FALSE
  <2>1. out <= Len(Txns[1]) /\ Len(Txns[1]) = 1
    BY <1>1, <1>2, TxnsShape
  <2> QED BY <1>2, <2>1
<1>3. Position'
  BY <1>1, <1>2 DEF WalkInv, Position, AtCoinbase, PastCoinbase, AtPayment, Taken, Coin, Alone
<1> QED BY <1>1, <1>3 DEF WalkInv, Types, Room, NotAgain, RingDistinct, DecoysAreCoinbases

\* Only after the coinbase was taken does the walk come to the next one.
LEMMA NextTxnKeeps == WalkInv /\ NextTxn => WalkInv'
<1> SUFFICES ASSUME WalkInv, NextTxn PROVE WalkInv'
  OBVIOUS
<1>1. /\ txn' = txn + 1 /\ out' = 1 /\ UNCHANGED <<left, key, ring, pc>> /\ pc = "scan"
      /\ txn <= Len(Txns) /\ out > Len(Txns[txn])
  BY DEF NextTxn, InBlock
<1>2. PastCoinbase
  <2>1. ~AtCoinbase
    BY <1>1, TxnsShape DEF AtCoinbase
  <2>2. ~AtPayment
    BY <1>1, TxnsShape DEF AtPayment
  <2> QED BY <1>1, <2>1, <2>2 DEF WalkInv, Position
<1>3. Position'
  BY <1>1, <1>2 DEF WalkInv, Position, PastCoinbase, AtPayment, Taken, Coin
<1> QED BY <1>1, <1>3 DEF WalkInv, Types, Room, NotAgain, RingDistinct, DecoysAreCoinbases

\* A block that the walk gets past has a coinbase only.
LEMMA NextBlockKeeps == WalkInv /\ NextBlock => WalkInv'
<1> SUFFICES ASSUME WalkInv, NextBlock PROVE WalkInv'
  OBVIOUS
<1>1. /\ pc = "scan" /\ pc' = "next" /\ UNCHANGED <<left, key, txn, out, ring>>
      /\ txn > Len(Txns)
  BY DEF NextBlock
<1>2. Taken /\ Alone(key)
  <2>1. AtPayment
    BY <1>1, TxnsShape DEF WalkInv, Position, AtCoinbase, PastCoinbase
  <2>2. Len(Txns) = 1
    <3>1. 2 > Len(Txns) /\ Len(Txns) \in Nat /\ Len(Txns) > 0
      BY <1>1, <2>1, TxnsShape DEF AtPayment
    <3>2. \A n \in Nat : n > 0 /\ 2 > n => n = 1
      OBVIOUS
    <3> QED BY <3>1, <3>2
  <2> QED BY <2>1, <2>2, TxnsShape DEF AtPayment
<1>3. DecoysAreCoinbases'
  <2> SUFFICES ASSUME NEW n \in DOMAIN ring
               PROVE  ring[n] = Coin(ring[n]) /\ Alone(ring[n])
    BY <1>1 DEF DecoysAreCoinbases, Coin, Alone
  <2>1. n < Len(ring) \/ n = Len(ring)
    BY DEF WalkInv, Types
  <2> QED BY <1>1, <1>2, <2>1 DEF WalkInv, DecoysAreCoinbases, Coin, Alone, Taken
<1> QED BY <1>1, <1>3 DEF WalkInv, Types, Room, Position, NotAgain, RingDistinct

\* The funding output replaces the first decoy.
LEMMA UseFundKeeps == WalkInv /\ UseFund => WalkInv'
<1> SUFFICES ASSUME WalkInv, UseFund PROVE WalkInv'
  OBVIOUS
<1>1. /\ pc = "found" /\ pc' = "signed" /\ UNCHANGED <<left, key, txn, out>>
      /\ ring' = [ring EXCEPT ![1] = Fund]
  BY DEF UseFund
<1>2. ring \in Seq(Key) /\ Len(ring) = NumInputs /\ NumInputs >= 1
  BY <1>1, RingAssumption DEF WalkInv, Types, Room
<1>3. /\ ring' \in Seq(Key) /\ Len(ring') = NumInputs /\ DOMAIN ring' = DOMAIN ring
      /\ ring'[1] = Fund /\ \A n \in DOMAIN ring : n # 1 => ring'[n] = ring[n]
  BY <1>1, <1>2, FundIsMapped
<1>4. DecoysAreCoinbases'
  BY <1>1, <1>2, <1>3 DEF WalkInv, DecoysAreCoinbases
<1> QED BY <1>1, <1>2, <1>3, <1>4 DEF WalkInv, Types, Room, Position, NotAgain, RingDistinct

\* Every step keeps the walk inside its invariant.
LEMMA WalkStep == WalkInv /\ [RingNext]_ringVars => WalkInv'
<1> SUFFICES ASSUME WalkInv, [RingNext]_ringVars PROVE WalkInv'
  OBVIOUS
<1>1. CASE NotEnough
  BY <1>1 DEF NotEnough, WalkInv, Types, Room, Position, NotAgain, RingDistinct, DecoysAreCoinbases
<1>2. CASE Finished \/ UNCHANGED ringVars
  BY <1>2 DEF Finished, ringVars, WalkInv, Types, Room, Position, AtCoinbase, PastCoinbase,
     AtPayment, Taken, Coin, Alone, NotAgain, RingDistinct, DecoysAreCoinbases
<1> QED BY <1>1, <1>2, NextKeyKeeps, TakeKeeps, RestartKeeps, NextTxnKeeps, NextBlockKeeps,
        UseFundKeeps DEF RingNext

\* Positions and the length of the ring are in range (wallet-server.go:318-337).
THEOREM RingTypes == RingSpec => []RingTypeOK
  BY WalkInitially, WalkStep, WalkTypes, PTL DEF RingSpec

\* No decoy is taken twice (wallet-server.go:325-335).
THEOREM RingIsDistinct == RingSpec => []RingDistinct
<1>1. WalkInv => RingDistinct
  BY DEF WalkInv
<1> QED BY WalkInitially, WalkStep, <1>1, PTL DEF RingSpec

\* On every chain, decoys are coinbases (wallet-server.go:322-337).
THEOREM RingOfCoinbases == RingSpec => []DecoysAreCoinbases
<1>1. WalkInv => DecoysAreCoinbases
  BY DEF WalkInv
<1> QED BY WalkInitially, WalkStep, <1>1, PTL DEF RingSpec

-------------------------------------------------------------------------------
(* The difficulty, for every spacing, target time, initial difficulty and    *)
(* conversion of the float: it drifts by at most one per period, and in the  *)
(* direction of the elapsed time.                                            *)

Header == [time : Time, diff : Nat]
HeadersOK == headers \in Seq(Header)

\* DifficultyDrifts, for periods beyond the end of the chain as well.
Drift ==
  \A i \in DOMAIN headers, k \in Nat :
    i <= (k + 1) * Spacing => headers[i].diff \in (Initial - k)..(Initial + k)

DriftInv == HeadersOK /\ Drift /\ FollowsTime

-------------------------------------------------------------------------------

\* A quotient is natural, and at least (at most) every number whose product
\* with the divisor is at most (above) the dividend.
LEMMA QuotientBounds ==
  ASSUME NEW a \in Nat, NEW b \in Nat \ {0}
  PROVE  /\ a \div b \in Nat
         /\ (a \div b) * b <= a /\ a < ((a \div b) + 1) * b
  OBVIOUS

\* Products compare like their first factors.
LEMMA ProductOrder ==
  ASSUME NEW x \in Nat, NEW y \in Nat, NEW b \in Nat \ {0}
  PROVE  /\ x <= y => x * b <= y * b
         /\ x < y => x * b < y * b
  OBVIOUS

\* The new target is a natural number, not below the old one after a short
\* period and not above it after a long one.
LEMMA NewTargetFollows ==
  ASSUME NEW old \in Nat, NEW actual \in Int, NEW n \in NewTarget(old, actual)
  PROVE  /\ n \in Nat
         /\ actual \in 1..TwoWeeks => n >= old
         /\ actual > TwoWeeks => n <= old
<1> USE RetargetAssumption
<1> DEFINE p == old * TwoWeeks
<1>1. p \in Nat
  OBVIOUS
<1>2. CASE actual <= 0
  BY <1>2 DEF NewTarget
<1>3. CASE actual > 0 /\ n = p \div actual
  <2>1. actual \in Nat \ {0}
    BY <1>3
  <2>2. n \in Nat /\ n * actual <= p /\ p < (n + 1) * actual
    BY <1>1, <1>3, <2>1, QuotientBounds
  <2>3. ASSUME actual <= TwoWeeks, n < old PROVE FALSE
    <3>1. n + 1 \in Nat /\ n + 1 <= old
      BY <2>2, <2>3
    <3>2. (n + 1) * actual <= old * actual
      BY <2>1, <3>1, ProductOrder
    <3>3. old * actual <= p
      <4>1. actual * old <= TwoWeeks * old \/ old = 0
        BY <2>1, <2>3, ProductOrder
      <4> QED BY <2>1, <4>1
    <3> QED BY <1>1, <2>1, <2>2, <3>2, <3>3
  <2>4. ASSUME actual > TwoWeeks, n > old PROVE FALSE
    <3>1. old * actual < n * actual
      BY <2>1, <2>2, <2>4, ProductOrder
    <3>2. p <= old * actual
      <4>1. TwoWeeks * old <= actual * old \/ old = 0
        BY <2>1, <2>4, ProductOrder
      <4> QED BY <2>1, <4>1
    <3> QED BY <1>1, <2>1, <2>2, <3>1, <3>2
  <2> QED BY <2>2, <2>3, <2>4
<1>4. CASE actual > 0 /\ actual # TwoWeeks /\ n \in 0..p /\ (n + 1) * actual = p
  <2>1. actual \in Nat \ {0} /\ n \in Nat
    BY <1>1, <1>4
  <2>2. ASSUME actual < TwoWeeks, n < old PROVE FALSE
    <3>1. (n + 1) * actual <= old * actual
      BY <2>1, <2>2, ProductOrder
    <3>2. actual * old < TwoWeeks * old
      <4>1. old \in Nat \ {0}
        BY <2>1, <2>2
      <4> QED BY <2>1, <2>2, <4>1, ProductOrder
    <3> QED BY <1>1, <1>4, <2>1, <3>1, <3>2
  <2>3. ASSUME actual > TwoWeeks, n > old PROVE FALSE
    <3>1. old * actual < (n + 1) * actual
      BY <2>1, <2>3, ProductOrder
    <3>2. p <= old * actual
      <4>1. TwoWeeks * old <= actual * old \/ old = 0
        BY <2>1, <2>3, ProductOrder
      <4> QED BY <2>1, <4>1
    <3> QED BY <1>1, <1>4, <2>1, <3>1, <3>2
  <2> QED BY <1>4, <2>1, <2>2, <2>3
<1> QED BY <1>2, <1>3, <1>4 DEF NewTarget

-------------------------------------------------------------------------------

\* The bounds keep a natural number within one of the old target, on the side
\* where it is.
LEMMA ClampBounds ==
  ASSUME NEW old \in Nat, NEW n \in Nat
  PROVE  /\ Clamp(old, n) \in Nat /\ Clamp(old, n) \in (old - 1)..(old + 1)
         /\ n >= old => Clamp(old, n) >= old
         /\ n <= old => Clamp(old, n) <= old
  BY DEF Clamp

\* One more period gives one more unit of drift.
LEMMA DriftByOne ==
  ASSUME NEW k \in Nat, NEW a \in (Initial - (k - 1))..(Initial + (k - 1)),
         NEW d \in (a - 1)..(a + 1)
  PROVE  d \in (Initial - k)..(Initial + k)
  BY RetargetAssumption

\* What the headers say holds of the initial state.
LEMMA DriftInitially == RetargetInit => DriftInv
<1> USE RetargetAssumption
<1> SUFFICES ASSUME RetargetInit PROVE DriftInv
  OBVIOUS
<1>1. PICK t \in Time : headers = <<[time |-> t, diff |-> Initial]>>
  BY DEF RetargetInit
<1>2. HeadersOK
  BY <1>1 DEF HeadersOK, Header
<1>3. Drift
  BY <1>1 DEF Drift
<1>4. FollowsTime
  BY <1>1 DEF FollowsTime
<1> QED BY <1>2, <1>3, <1>4 DEF DriftInv

\* A new block carries it on: its ancestor is one period below.
LEMMA DriftStep == DriftInv /\ [RetargetNext]_retargetVars => DriftInv'
<1> USE RetargetAssumption
<1> SUFFICES ASSUME DriftInv, RetargetNext \/ UNCHANGED retargetVars PROVE DriftInv'
  OBVIOUS
<1>1. CASE UNCHANGED retargetVars
  BY <1>1 DEF retargetVars, DriftInv, HeadersOK, Drift, FollowsTime
<1>2. CASE RetargetNext
  <2> DEFINE s == Len(headers)
  <2>1. headers \in Seq(Header) /\ s \in Nat
    BY DEF DriftInv, HeadersOK
  <2>t. PICK t \in Time : Extend(t)
    BY <1>2 DEF RetargetNext
  <2>2. PICK d \in ComputeDifficulty(s, t) :
          headers' = Append(headers, [time |-> t, diff |-> d])
    BY <2>t DEF Extend
  <2>3. /\ Len(headers') = s + 1 /\ DOMAIN headers' = 1..(s + 1)
        /\ headers'[s + 1] = [time |-> t, diff |-> d]
        /\ \A i \in 1..s : headers'[i] = headers[i]
        /\ DOMAIN headers = 1..s
    BY <2>1, <2>2
  <2>4. CASE s <= Spacing
    <3>1. d = Initial
      BY <2>2, <2>4 DEF ComputeDifficulty
    <3>2. HeadersOK'
      BY <2>1, <2>2, <3>1 DEF HeadersOK, Header
    <3>3. Drift'
      <4> SUFFICES ASSUME NEW i \in 1..(s + 1), NEW k \in Nat, i <= (k + 1) * Spacing
                   PROVE  headers'[i].diff \in (Initial - k)..(Initial + k)
        BY <2>3 DEF Drift
      <4>1. CASE i \in 1..s
        BY <2>3, <4>1 DEF DriftInv, Drift
      <4>2. CASE i = s + 1
        <5>1. headers'[i].diff = Initial
          BY <2>3, <3>1, <4>2
        <5> QED BY <5>1
      <4> QED BY <2>1, <4>1, <4>2
    <3>4. FollowsTime'
      BY <2>1, <2>3, <2>4 DEF FollowsTime
    <3> QED BY <3>2, <3>3, <3>4 DEF DriftInv
  <2>5. CASE s > Spacing
    <3>a. s - Spacing + 1 \in 2..s
      BY <2>1, <2>5
    <3>1. PICK old \in Header : old = headers[s - Spacing + 1]
      BY <2>1, <3>a
    <3>2. old.diff \in Nat /\ old.time \in Nat /\ t \in Nat /\ t - old.time \in Int
      <4>1. old.diff \in Nat /\ old.time \in Time
        BY DEF Header
      <4>2. old.time \in Nat /\ t \in Nat
        BY <4>1
      <4> QED BY <4>1, <4>2
    <3>3. PICK n \in NewTarget(old.diff, t - old.time) : d = Clamp(old.diff, n)
      <4>1. ~(s <= Spacing)
        BY <2>1, <2>5
      <4> QED BY <2>2, <3>1, <4>1 DEF ComputeDifficulty, Ancestor
    <3>4. /\ n \in Nat
          /\ t - old.time \in 1..TwoWeeks => n >= old.diff
          /\ t - old.time > TwoWeeks => n <= old.diff
      BY <3>2, <3>3, NewTargetFollows
    <3>5. /\ d \in Nat /\ d \in (old.diff - 1)..(old.diff + 1)
          /\ n >= old.diff => d >= old.diff
          /\ n <= old.diff => d <= old.diff
      BY <3>2, <3>3, <3>4, ClampBounds
    <3>6. HeadersOK'
      BY <2>1, <2>2, <3>5 DEF HeadersOK, Header
    <3>7. Drift'
      <4> SUFFICES ASSUME NEW i \in 1..(s + 1), NEW k \in Nat, i <= (k + 1) * Spacing
                   PROVE  headers'[i].diff \in (Initial - k)..(Initial + k)
        BY <2>3 DEF Drift
      <4>1. CASE i \in 1..s
        BY <2>3, <4>1 DEF DriftInv, Drift
      <4>2. CASE i = s + 1
        <5>1. (k + 1) * Spacing = k * Spacing + Spacing
          OBVIOUS
        <5>2. s - Spacing + 1 <= k * Spacing
          BY <2>1, <4>2, <5>1
        <5>3. k # 0
          BY <3>a, <5>2
        <5>4. k - 1 \in Nat /\ ((k - 1) + 1) * Spacing = k * Spacing
          BY <5>3
        <5>5. old.diff \in (Initial - (k - 1))..(Initial + (k - 1))
          <6>1. \A j \in DOMAIN headers, l \in Nat :
                  j <= (l + 1) * Spacing => headers[j].diff \in (Initial - l)..(Initial + l)
            BY DEF DriftInv, Drift
          <6>2. s - Spacing + 1 \in DOMAIN headers /\ s - Spacing + 1 <= ((k - 1) + 1) * Spacing
            BY <2>3, <3>a, <5>2, <5>4
          <6> QED BY <3>1, <5>4, <6>1, <6>2
        <5>6. headers'[i].diff = d
          BY <2>3, <4>2
        <5> QED BY <3>5, <5>5, <5>6, DriftByOne
      <4> QED BY <2>1, <4>1, <4>2
    <3>8. FollowsTime'
      <4> SUFFICES ASSUME NEW i \in (Spacing + 2)..(s + 1)
                   PROVE  /\ headers'[i].time - headers'[i - Spacing].time \in 1..TwoWeeks
                               => headers'[i].diff >= headers'[i - Spacing].diff
                          /\ headers'[i].time - headers'[i - Spacing].time > TwoWeeks
                               => headers'[i].diff <= headers'[i - Spacing].diff
        BY <2>3 DEF FollowsTime
      <4>1. i - Spacing \in 1..s
        BY <2>1
      <4>2. headers'[i - Spacing] = headers[i - Spacing]
        BY <2>3, <4>1
      <4>3. CASE i \in 1..s
        <5>1. headers'[i] = headers[i] /\ i \in (Spacing + 2)..s
          BY <2>1, <2>3, <4>3
        <5> QED BY <4>2, <5>1 DEF DriftInv, FollowsTime
      <4>4. CASE i = s + 1
        <5>1. i - Spacing = s - Spacing + 1
          BY <2>1, <4>4
        <5>2. headers'[i - Spacing] = old
          BY <3>1, <4>2, <5>1
        <5>3. headers'[i].time = t /\ headers'[i].diff = d
          BY <2>3, <4>4
        <5> QED BY <3>2, <3>4, <3>5, <5>2, <5>3
      <4> QED BY <2>1, <4>3, <4>4
    <3> QED BY <3>6, <3>7, <3>8 DEF DriftInv
  <2> QED BY <2>1, <2>4, <2>5
<1> QED BY <1>1, <1>2

\* The difficulty moves by at most one per period (chain.go:79-90).
THEOREM DifficultyIsSlow == RetargetSpec => []DifficultyDrifts
<1>1. DriftInv => DifficultyDrifts
  BY DEF DriftInv, HeadersOK, Drift, DifficultyDrifts
<1> QED BY DriftInitially, DriftStep, <1>1, PTL DEF RetargetSpec

\* The difficulty follows the time that a period took (chain.go:74-77).
THEOREM DifficultyFollows == RetargetSpec => []FollowsTime
<1>1. DriftInv => FollowsTime
  BY DEF DriftInv
<1> QED BY DriftInitially, DriftStep, <1>1, PTL DEF RetargetSpec

-------------------------------------------------------------------------------
(* The supply, with the reward halved by a recursive function.               *)

LEMMA HalvedIs ==
  /\ Halved[0] = Reward
  /\ \A n \in Nat : Halved[n] \in Nat /\ Halved[n + 1] = Halved[n] \div 2
<1> DEFINE g == [p \in Nat \X Nat |-> p[2] \div 2]
<1>1. g \in [Nat \X Nat -> Nat] /\ \A n \in Nat : \A v \in Nat : g[<<n, v>>] = v \div 2
  OBVIOUS
<1>2. PICK f : IsSequence(f, Nat, Reward, g)
  <2>1. Reward \in Nat
    BY RetargetAssumption
  <2> HIDE DEF g
  <2> QED BY <1>1, <2>1, SequenceExists
<1> HIDE DEF g
<1>3. /\ f = [n \in Nat |-> f[n]] /\ f[0] = Reward
      /\ \A n \in Nat : f[n] \in Nat /\ f[n + 1] = f[n] \div 2
  <2>1. f \in [Nat -> Nat] /\ f[0] = Reward /\ \A n \in Nat : f[n + 1] = g[<<n + 1, f[n]>>]
    BY <1>2 DEF IsSequence
  <2>2. f = [n \in Nat |-> f[n]] /\ \A n \in Nat : f[n] \in Nat
    BY <2>1
  <2>3. ASSUME NEW n \in Nat PROVE f[n + 1] = f[n] \div 2
    <3>1. n + 1 \in Nat /\ f[n] \in Nat
      BY <2>2
    <3>2. g[<<n + 1, f[n]>>] = f[n] \div 2
      BY <1>1, <3>1
    <3> QED BY <2>1, <3>2
  <2> QED BY <2>1, <2>2, <2>3
<1>4. f = [n \in Nat |-> IF n = 0 THEN Reward ELSE f[n - 1] \div 2]
  <2>1. ASSUME NEW n \in Nat PROVE f[n] = IF n = 0 THEN Reward ELSE f[n - 1] \div 2
    <3>1. CASE n = 0
      BY <1>3, <3>1
    <3>2. CASE n # 0
      <4>1. n - 1 \in Nat /\ (n - 1) + 1 = n
        BY <3>2
      <4> QED BY <1>3, <3>2, <4>1
    <3> QED BY <3>1, <3>2
  <2> QED BY <1>3, <2>1
<1>5. Halved = [n \in Nat |-> IF n = 0 THEN Reward ELSE Halved[n - 1] \div 2]
  BY <1>4 DEF Halved
<1>6. Halved[0] = Reward /\ \A n \in Nat : Halved[n + 1] = Halved[n] \div 2
  <2>1. Halved[0] = Reward
    BY <1>5
  <2>2. ASSUME NEW n \in Nat PROVE Halved[n + 1] = Halved[n] \div 2
    <3>1. n + 1 \in Nat /\ n + 1 # 0 /\ (n + 1) - 1 = n
      OBVIOUS
    <3> QED BY <1>5, <3>1
  <2> QED BY <2>1, <2>2
<1> DEFINE T == {n \in Nat : Halved[n] \in Nat}
<1>7. 0 \in T
  BY <1>6, RetargetAssumption
<1>8. ASSUME NEW n \in T PROVE n + 1 \in T
  BY <1>6
<1> HIDE DEF T
<1>9. T = Nat
  <2>1. T \in SUBSET Nat
    BY DEF T
  <2> QED BY <1>7, <1>8, <2>1, Ind
<1> QED BY <1>6, <1>9 DEF T

\* A number is in the period of the one before it, or opens the next one.
LEMMA NextPeriod ==
  ASSUME NEW n \in Nat, NEW q \in Nat \ {0}
  PROVE  /\ n \div q \in Nat /\ n % q \in 0..(q - 1)
         /\ \/ (n + 1) \div q = n \div q /\ (n + 1) % q = (n % q) + 1
            \/ /\ (n + 1) \div q = n \div q + 1 /\ (n + 1) % q = 0
               /\ n % q = q - 1
<1> DEFINE d == n \div q
           m == n % q
<1>1. d \in Nat /\ m \in 0..(q - 1) /\ n = q * d + m
  <2>1. n \in Int /\ d \in Nat
    BY QuotientBounds
  <2>2. m \in 0..(q - 1) /\ n = q * d + m
    BY <2>1, Division
  <2> QED BY <2>1, <2>2
<1>0. ASSUME NEW c \in Nat, NEW k \in 0..(q - 1)
      PROVE  (q * c + k) \div q = c /\ (q * c + k) % q = k
  OBVIOUS
<1> HIDE DEF d, m
<1>2. CASE m + 1 < q
  <2>1. n + 1 = q * d + (m + 1) /\ m + 1 \in 0..(q - 1)
    BY <1>1, <1>2
  <2>2. (n + 1) \div q = d /\ (n + 1) % q = m + 1
    BY <1>0, <1>1, <2>1
  <2> QED BY <1>1, <2>2 DEF d, m
<1>3. CASE m = q - 1
  <2>1. n + 1 = q * (d + 1) + 0 /\ d + 1 \in Nat /\ 0 \in 0..(q - 1)
    BY <1>1, <1>3
  <2>2. (n + 1) \div q = d + 1 /\ (n + 1) % q = 0
    BY <1>0, <2>1
  <2> QED BY <1>1, <1>3, <2>2 DEF d, m
<1> QED BY <1>1, <1>2, <1>3

\* What is paid, and twice what the current period would pay if it started now:
\* all periods from the current one on pay no more than that.
SupplyInv ==
  /\ HeadersOK /\ supply \in Nat
  /\ LET v == Halved[Len(headers) \div Halving]
     IN  supply + 2 * (Halving * v) <= 2 * (Reward * Halving) + (Len(headers) % Halving) * v

LEMMA SupplyInitially == RetargetInit => SupplyInv
<1> SUFFICES ASSUME RetargetInit PROVE SupplyInv
  OBVIOUS
<1>1. HeadersOK /\ supply = Reward /\ Reward \in Nat /\ Len(headers) = 1 /\ Halving \in Nat \ {0}
  BY DriftInitially, RetargetAssumption DEF DriftInv, RetargetInit
<1>2. CASE Halving = 1
  <2>1. Len(headers) \div Halving = 1 /\ Len(headers) % Halving = 0
    BY <1>1, <1>2
  <2>2. Halved[1] = Reward \div 2
    <3>1. Halved[0] = Reward /\ Halved[0 + 1] = Halved[0] \div 2
      BY HalvedIs
    <3> QED BY <3>1
  <2> QED BY <1>1, <1>2, <2>1, <2>2 DEF SupplyInv
<1>3. CASE Halving > 1
  <2>1. Len(headers) \div Halving = 0 /\ Len(headers) % Halving = 1
    BY <1>1, <1>3
  <2>2. Halved[0] = Reward
    BY HalvedIs
  <2> DEFINE p == Halving * Reward
  <2>3. p = Reward * Halving /\ p \in Nat
    BY <1>1
  <2> HIDE DEF p
  <2>4. supply + 2 * p <= 2 * p + 1 * Reward
    BY <1>1, <2>3
  <2> QED BY <1>1, <2>1, <2>2, <2>3, <2>4 DEF SupplyInv, p
<1> QED BY <1>1, <1>2, <1>3

\* A coinbase adds what its place in the period adds; at the end of a period
\* the next one pays at most half as much.
LEMMA SupplyStep == SupplyInv /\ DriftInv' /\ [RetargetNext]_retargetVars => SupplyInv'
<1> SUFFICES ASSUME SupplyInv, DriftInv', RetargetNext \/ UNCHANGED retargetVars PROVE SupplyInv'
  OBVIOUS
<1>1. CASE UNCHANGED retargetVars
  BY <1>1 DEF retargetVars, SupplyInv, HeadersOK
<1>2. CASE RetargetNext
  <2> DEFINE n == Len(headers)
             e == n \div Halving
             r == n % Halving
             v == Halved[e]
             w == Halved[e + 1]
             p == Halving * v
             all == Reward * Halving
  <2>1. n \in Nat /\ Halving \in Nat \ {0} /\ Reward \in Nat /\ supply \in Nat
    BY RetargetAssumption DEF SupplyInv, HeadersOK
  <2>2. Len(headers') = n + 1 /\ supply' = supply + v
    BY <1>2 DEF RetargetNext, Extend, CoinbaseValue, SupplyInv, HeadersOK
  <2>3. /\ e \in Nat /\ r \in 0..(Halving - 1)
        /\ \/ (n + 1) \div Halving = e /\ (n + 1) % Halving = r + 1
           \/ (n + 1) \div Halving = e + 1 /\ (n + 1) % Halving = 0 /\ r = Halving - 1
    BY <2>1, NextPeriod
  <2>4. supply + 2 * p <= 2 * all + r * v
    BY DEF SupplyInv
  <2> HIDE DEF n, e, r
  <2>5. v \in Nat /\ w \in Nat /\ w = v \div 2
    <3>1. e + 1 \in Nat
      BY <2>3
    <3> QED BY <2>3, <3>1, HalvedIs
  <2> HIDE DEF v, w
  <2>6. p \in Nat /\ all \in Nat /\ r * v \in Nat /\ (r + 1) * v = r * v + v
    BY <2>1, <2>3, <2>5
  <2>7. 2 * (Halving * w) <= p
    <3>1. 2 * w <= v
      BY <2>5
    <3>2. 2 * w = v \/ 2 * w < v
      BY <2>5, <3>1
    <3>3. (2 * w) * Halving <= v * Halving
      BY <2>1, <2>5, <3>1, ProductOrder
    <3>4. (2 * w) * Halving = 2 * (Halving * w) /\ v * Halving = p
      BY <2>1, <2>5
    <3> QED BY <3>3, <3>4
  <2> DEFINE rv == r * v
             hw == Halving * w
  <2>8. hw \in Nat /\ rv \in Nat
    BY <2>1, <2>3, <2>5
  <2>9. CASE (n + 1) \div Halving = e /\ (n + 1) % Halving = r + 1
    <3>1. (supply + v) + 2 * p <= 2 * all + (rv + v)
      <4> HIDE DEF p, all, rv
      <4> QED BY <2>1, <2>4, <2>5, <2>6, <2>8 DEF rv
    <3>2. (supply + v) + 2 * p <= 2 * all + (r + 1) * v
      BY <2>6, <3>1
    <3>3. Len(headers') \div Halving = e /\ Len(headers') % Halving = r + 1
      BY <2>2, <2>9
    <3>4. supply' + 2 * (Halving * Halved[Len(headers') \div Halving]) <=
            2 * (Reward * Halving) + (Len(headers') % Halving) * Halved[Len(headers') \div Halving]
      BY <2>2, <3>2, <3>3 DEF v
    <3>5. supply' \in Nat /\ HeadersOK'
      BY <2>1, <2>2, <2>5 DEF DriftInv
    <3> QED BY <3>4, <3>5 DEF SupplyInv
  <2>10. CASE (n + 1) \div Halving = e + 1 /\ (n + 1) % Halving = 0 /\ r = Halving - 1
    <3>1. rv = p - v
      BY <2>1, <2>5, <2>10
    <3>2. (supply + v) + 2 * hw <= 2 * all
      <4> HIDE DEF p, all, rv, hw
      <4> QED BY <2>1, <2>4, <2>5, <2>6, <2>7, <2>8, <3>1 DEF rv, hw
    <3>3. (supply + v) + 2 * hw <= 2 * all + 0 * w
      <4>1. 0 * w = 0
        BY <2>5
      <4> HIDE DEF all, hw
      <4> QED BY <2>1, <2>5, <2>6, <2>8, <3>2, <4>1
    <3>4. Len(headers') \div Halving = e + 1 /\ Len(headers') % Halving = 0
      BY <2>2, <2>10
    <3>5. supply' + 2 * (Halving * Halved[Len(headers') \div Halving]) <=
            2 * (Reward * Halving) + (Len(headers') % Halving) * Halved[Len(headers') \div Halving]
      BY <2>2, <3>3, <3>4 DEF w
    <3>6. supply' \in Nat /\ HeadersOK'
      BY <2>1, <2>2, <2>5 DEF DriftInv
    <3> QED BY <3>5, <3>6 DEF SupplyInv
  <2> QED BY <2>3, <2>9, <2>10
<1> QED BY <1>1, <1>2

\* However many blocks there are, the coinbases pay at most two periods of the
\* first reward, so that sums of amounts fit into 64 bits (CoinbaseValue,
\* chain.go:8).
THEOREM SupplyIsBounded == RetargetSpec => []SupplyBounded
<1>1. SupplyInv => SupplyBounded
  <2> SUFFICES ASSUME SupplyInv PROVE SupplyBounded
    OBVIOUS
  <2> DEFINE v == Halved[Len(headers) \div Halving]
             r == Len(headers) % Halving
             p == Halving * v
             all == Reward * Halving
             rv == r * v
  <2>1. /\ Len(headers) \in Nat /\ Halving \in Nat \ {0} /\ Reward \in Nat /\ supply \in Nat
        /\ supply + 2 * p <= 2 * all + rv
    BY RetargetAssumption DEF SupplyInv, HeadersOK
  <2>2. v \in Nat /\ r \in 0..(Halving - 1)
    BY <2>1, NextPeriod, HalvedIs
  <2> HIDE DEF v, r
  <2>3. rv <= p /\ rv \in Nat /\ p \in Nat /\ all \in Nat
    <3>1. r * v <= Halving * v
      <4>1. CASE v = 0
        BY <2>1, <2>2, <4>1
      <4>2. CASE v # 0
        BY <2>1, <2>2, <4>2, ProductOrder
      <4> QED BY <4>1, <4>2
    <3> QED BY <2>1, <2>2, <3>1
  <2>4. 2 * Reward * Halving = 2 * all
    BY <2>1
  <2> HIDE DEF p, all, rv
  <2>5. supply <= 2 * all
    BY <2>1, <2>3
  <2> QED BY <2>4, <2>5 DEF SupplyBounded
<1> QED BY DriftInitially, DriftStep, SupplyInitially, SupplyStep, <1>1, PTL DEF RetargetSpec

-------------------------------------------------------------------------------
(* The Merkle root: for blocks of any length, the loop of MerkleHash returns *)
(* its first slot, the hash of the coinbase.                                 *)

Sums == Txn \cup {NoHash}

\* A first slot is left, in every iteration.
SlotsInv ==
  /\ txns \in Seq(Txn) /\ Len(txns) >= 1
  /\ slots \in Seq(Sums)
  /\ stage \in {"fill", "reduce", "done"}
  /\ RootIsCoinbase

\* Before the loop there are no slots.
LEMMA SlotsInitially == MerkleInit => SlotsInv
<1> SUFFICES ASSUME MerkleInit PROVE SlotsInv
  OBVIOUS
<1>1. PICK n \in 1..MaxTxns : txns \in [1..n -> Txn]
  BY DEF MerkleInit
<1>2. txns \in Seq(Txn) /\ Len(txns) = n
  BY <1>1, MerkleAssumption
<1> QED BY <1>2 DEF MerkleInit, SlotsInv, RootIsCoinbase

\* Filling puts the coinbase first, and an iteration keeps it there.
LEMMA SlotsStep == SlotsInv /\ [MerkleNext]_merkleVars => SlotsInv'
<1> SUFFICES ASSUME SlotsInv, [MerkleNext]_merkleVars PROVE SlotsInv'
  OBVIOUS
<1>1. CASE Fill
  <2>1. PICK n \in 1..(2 * Len(txns)) :
          slots' = [i \in 1..n |-> IF i <= Len(txns) THEN txns[i] ELSE NoHash]
    BY <1>1 DEF Fill
  <2>2. n \in Nat /\ n >= 1 /\ Len(txns) \in Nat
    BY DEF SlotsInv
  <2>3. \A i \in 1..n : (IF i <= Len(txns) THEN txns[i] ELSE NoHash) \in Sums
    BY <2>2 DEF SlotsInv, Sums
  <2>4. slots' \in Seq(Sums) /\ Len(slots') = n /\ slots'[1] = txns[1]
    BY <2>1, <2>2, <2>3 DEF SlotsInv
  <2> QED BY <1>1, <2>2, <2>4 DEF Fill, SlotsInv, RootIsCoinbase
<1>2. CASE Reduce
  <2> DEFINE half == Len(slots) \div 2
  <2>1. half \in 1..Len(slots) /\ slots[1] = txns[1]
    BY <1>2 DEF Reduce, SlotsInv, RootIsCoinbase
  <2>2. slots' = SubSeq(slots, 1, half) /\ txns' = txns /\ stage' = "reduce"
    BY <1>2 DEF Reduce
  <2> HIDE DEF half
  <2>3. slots' \in Seq(Sums) /\ Len(slots') = half /\ slots'[1] = slots[1]
    BY <2>1, <2>2 DEF SlotsInv
  <2> QED BY <2>1, <2>2, <2>3 DEF SlotsInv, RootIsCoinbase
<1>3. CASE ReturnRoot
  <2>1. slots = <<txns[1]>>
    BY <1>3 DEF ReturnRoot, SlotsInv, RootIsCoinbase
  <2> QED BY <1>3, <2>1 DEF ReturnRoot, SlotsInv, RootIsCoinbase
<1>4. CASE Returned \/ UNCHANGED merkleVars
  BY <1>4 DEF Returned, merkleVars, SlotsInv, RootIsCoinbase
<1> QED BY <1>1, <1>2, <1>3, <1>4 DEF MerkleNext

\* The root of a block of any length is the hash of its coinbase
\* (block.go:238-250).
THEOREM RootIsFirst == MerkleSpec => []RootIsCoinbase
<1>1. SlotsInv => RootIsCoinbase
  BY DEF SlotsInv
<1> QED BY SlotsInitially, SlotsStep, <1>1, PTL DEF MerkleSpec

===============================================================================
