------------------------------- MODULE Payments -------------------------------
(***************************************************************************)
(* Outputs, range proofs and ring signatures, in the exponent: a point of  *)
(* the curve is its discrete logarithm, an integer modulo the order Q, so  *)
(* that scalar multiplication is multiplication and addition is addition.  *)
(* Hash is any function from sequences of integers to numbers.  What       *)
(* RandomInt returns comes from a tape of a set of tapes.  The machine     *)
(* mints coinbases and lets their owners pay out of them and out of what   *)
(* they received, and others verify and collect it.                        *)
(***************************************************************************)
EXTENDS Integers, Sequences, FiniteSetsExt

CONSTANTS
  Q,            \* CURVE.Params().N, the order of the group
  H,            \* the second generator, a multiple of the first
  Bits,         \* RANGE_PROOF_LENGTH
  RingSize,     \* TXN_NUM_INPUTS
  HashOf(_),    \* Hash and HashPt, of what was appended
  Wallet,       \* private keys [tsk, psk]
  Tape,         \* what RandomInt and RandomBytes return, in their order
  Coinbase,     \* what a coinbase is worth
  Fees,         \* fees that are offered
  MaxOutputs,   \* bound: outputs on the chain before the last payment
  MaxSaved      \* bound: saved outputs

\* uint64(1) << n.
Pow2[n \in Nat] == IF n = 0 THEN 1 ELSE 2 * Pow2[n - 1]

ASSUME PaymentsAssumption ==
  /\ Q \in Nat \ {0} /\ H \in 0..(Q - 1) /\ Bits \in Nat \ {0} /\ RingSize \in Nat \ {0}
  /\ \A i \in 0..(Bits - 1) : (Pow2[i] * H) % Q # 0
  /\ \A s \in {<<0>>, <<1>>, <<0, 1>>} : HashOf(s) \in Nat
  /\ Wallet \subseteq [tsk : Nat, psk : Nat]
  /\ \A tape \in Tape :
       tape \in Seq(Nat) /\ Len(tape) >= 2 /\ \A n \in DOMAIN tape : tape[n] % Q # 0
  /\ Coinbase \in Nat /\ Fees \subseteq Nat

Bit == 0..(Bits - 1)
MaxAmount == Pow2[Bits] - 1
Total(f, D) == MapThenSumSet(LAMBDA i : f[i], D)
Sum(f, D) == Total(f, D) % Q

At(tape, n) == tape[1 + (n % Len(tape))]

-------------------------------------------------------------------------------
(* Commitments and range proofs (commitment.go, rangeproof.go).            *)

PedersenSum(blind, amt) == (blind + amt * H) % Q
PedersenDiffPK(blind, amt, pk) == (blind - amt * pk) % Q

\* s G - e PK, and its hash.
ComputeR(s, e, pk) == PedersenDiffPK(s, e, pk)
ComputeE(hashM, s, e, pk) == HashOf(<<hashM, ComputeR(s, e, pk)>>)
TimeTravel(blind, k, e) == e * blind + k

\* Mutant: the last blind is drawn like the others.
BlindsNotAdjusted(target) == [i \in Bit |-> HashOf(IF i = 0 THEN <<target>> ELSE <<>>)]

\* The last blind makes the sum the target; those between the first and the
\* last are all the hash of nothing.
ComputeBlinds(target) ==
  LET drawn == [i \in Bit |-> HashOf(IF i = 0 THEN <<target>> ELSE <<>>)]
  IN  [drawn EXCEPT ![Bits - 1] = (target - Sum(drawn, Bit \ {Bits - 1})) % Q]

HasBit(amt, i) == (amt \div Pow2[i]) % 2 = 1

PKsForAmt(amt, i, blind) ==
  LET c0 == PedersenSum(blind, IF HasBit(amt, i) THEN Pow2[i] ELSE 0)
  IN  <<c0, (c0 - PedersenSum(0, Pow2[i])) % Q>>

HashPKs(pks) == HashOf([n \in 1..(2 * Bits) |-> pks[(n - 1) \div 2][2 - (n % 2)]])
HashRs(hashM, r) == HashOf(<<hashM>> \o [n \in 1..Bits |-> r[n - 1]])

RangeSign(amt, target, tape) ==
  LET blinds == ComputeBlinds(target)
      pks == [i \in Bit |-> PKsForAmt(amt, i, blinds[i])]
      hashM == HashPKs(pks)
      k(i) == At(tape, 2 * i)
      any(i) == At(tape, 2 * i + 1)
      r == [i \in Bit |-> IF HasBit(amt, i) THEN k(i) % Q
                          ELSE ComputeR(any(i), HashOf(<<hashM, k(i) % Q>>), pks[i][2])]
      e == HashRs(hashM, r)
  IN  [e |-> e, pks |-> pks,
       ss |-> [i \in Bit |->
         IF HasBit(amt, i)
         THEN <<any(i), TimeTravel(blinds[i], k(i), ComputeE(hashM, any(i), e, pks[i][1]))>>
         ELSE <<TimeTravel(blinds[i], k(i), e), any(i)>>]]

VerifyRange(rp) ==
  LET hashM == HashPKs(rp.pks)
      r == [i \in Bit |->
             ComputeR(rp.ss[i][2], ComputeE(hashM, rp.ss[i][1], rp.e, rp.pks[i][1]), rp.pks[i][2])]
  IN  rp.e = HashRs(hashM, r)

\* The commitment itself is the sum of the first keys.
CommitmentOf(rp) == Sum([i \in Bit |-> rp.pks[i][1]], Bit)

-------------------------------------------------------------------------------
(* Outputs and their keys (txn.go, output.go).                             *)

\* The hash of the secret shared through R = r G and the key to track with.
SharedSecret(key, r) == HashOf(<<(r * key.tsk) % Q>>)
BlindFor(key, q) == HashOf(<<(q * key.psk) % Q>>)

\* Mutant: the destination is made of the wrong half of the address.
DestKeyUntracked(key, r) == (BlindFor(key, r) + key.psk) % Q

DestKey(key, r) == (SharedSecret(key, r) + key.psk) % Q

\* A coinbase has no blind seed (0 here) and no range proof.
CoinbaseOutput(key, v, tape) ==
  [pub |-> tape[1] % Q, dest |-> DestKey(key, tape[1]), seed |-> 0,
   commit |-> PedersenSum(0, v), proof |-> <<>>, amt |-> v, to |-> key]

BuildOutput(key, amt, tape) ==
  LET blind == BlindFor(key, tape[2])
      rp == RangeSign(amt, blind, tape)
  IN  [pub |-> tape[1] % Q, dest |-> DestKey(key, tape[1]), seed |-> tape[2] % Q,
       commit |-> CommitmentOf(rp), proof |-> rp, amt |-> amt, to |-> key]

IsCoinbase(o) == o.seed = 0

ComputeBlindingFactor(o, key) == IF IsCoinbase(o) THEN 0 ELSE HashOf(<<(o.seed * key.psk) % Q>>)
HashSharedSecret(o, key) == HashOf(<<(o.pub * key.tsk) % Q>>)
BelongsToMe(o, key) == (HashSharedSecret(o, key) + key.psk) % Q = o.dest
ComputeTxnPrivateKey(o, key) == HashSharedSecret(o, key) + key.psk

\* DecryptAmount: the position of the key that is a commitment to nothing
\* says whether to include the bit; `1 - j` includes it when it is not set.
DecryptAmount(o, key) ==
  LET blinds == ComputeBlinds(ComputeBlindingFactor(o, key))
      zero(i) == {j \in 0..1 : (o.proof.pks[i][j + 1] - blinds[i]) % Q = 0}
      first(i) == IF 0 \in zero(i) THEN 0 ELSE 1
  IN  IF \E i \in Bit : zero(i) = {} THEN -1
      ELSE Total([i \in Bit |-> Pow2[i] * (1 - first(i))], Bit)

-------------------------------------------------------------------------------
(* Ring signatures (ozrs.go).                                              *)

\* H_p(pk), a point made of a hash, times the secret key.
Preimage(pk, sk) == (HashOf(<<pk>>) * sk) % Q

\* Mutant: the fee is left out.
DifferencesNoFee(ics, outs, fee) ==
  [i \in DOMAIN ics |-> (ics[i] - Sum([n \in DOMAIN outs |-> outs[n].commit], DOMAIN outs)) % Q]

CommitDifferences(ics, outs, fee) ==
  LET oc == Sum([n \in DOMAIN outs |-> outs[n].commit], DOMAIN outs) + PedersenSum(0, fee)
  IN  [i \in DOMAIN ics |-> (ics[i] - oc) % Q]

ComputeE3(hashM, r, s, e1, di, pk, image) ==
  LET e2 == HashOf(<<e1>>)
  IN  HashOf(<<hashM, ComputeR(r, e1, di), ComputeR(s, e2, pk),
               (s * Preimage(pk, 1) - e2 * image) % Q>>)

\* The body is the ring, the outputs and the fee.
HashBody(body) ==
  HashOf([i \in DOMAIN body.ring |-> body.ring[i].dest]
         \o [n \in DOMAIN body.outs |-> body.outs[n].commit] \o <<body.fee>>)

\* Mutant: every place of the ring has the key of the first.
KeysOfFirst(body) == [i \in DOMAIN body.ring |-> body.ring[1].dest]

Keys(body) == [i \in DOMAIN body.ring |-> body.ring[i].dest]
Diffs(body) ==
  CommitDifferences([i \in DOMAIN body.ring |-> body.ring[i].commit], body.outs, body.fee)

\* The member of the ring n places after idx; places are 1..RingSize.
After(idx, n) == 1 + ((idx - 1 + n) % RingSize)

\* What the signer computes forward: the n-th challenge is that of the member
\* n places after idx.
SignerChain(body, idx, image, tape) ==
  LET hashM == HashBody(body)
      pks == Keys(body)
      diffs == Diffs(body)
      k2 == At(tape, 1)
      es[n \in 1..RingSize] ==
        IF n = 1 THEN HashOf(<<hashM, At(tape, 0) % Q, k2 % Q, Preimage(pks[idx], k2)>>)
        ELSE LET i == After(idx, n - 1)
             IN  ComputeE3(hashM, At(tape, 2 * (n - 1)), At(tape, 2 * (n - 1) + 1), es[n - 1],
                           diffs[i], pks[i], image)
  IN  es

\* The ring is closed with the secret key and z, the blinding factor of the
\* difference.
OZRSSign(body, sk, yi, idx, yOut, tape) ==
  LET image == Preimage(Keys(body)[idx], sk)
      es == SignerChain(body, idx, image, tape)
      e1 == es[RingSize]
      z == (yi - yOut) % Q
      place(i) == (i - idx) % RingSize
  IN  [image |-> image, e |-> es[IF idx = 1 THEN RingSize ELSE place(1)],
       rs |-> [i \in 1..RingSize |-> IF i = idx THEN TimeTravel(z, At(tape, 0), e1)
                                     ELSE At(tape, 2 * place(i))],
       ss |-> [i \in 1..RingSize |-> IF i = idx THEN TimeTravel(sk, At(tape, 1), HashOf(<<e1>>))
                                     ELSE At(tape, 2 * place(i) + 1)]]

\* The verifier's challenges; the last one is to be the first.
VerifierChain(body, sig) ==
  LET hashM == HashBody(body)
      pks == Keys(body)
      diffs == Diffs(body)
      es[n \in 0..RingSize] ==
        IF n = 0 THEN sig.e
        ELSE ComputeE3(hashM, sig.rs[n], sig.ss[n], es[n - 1], diffs[n], pks[n], sig.image)
  IN  es

VerifyOZRS(body, sig) == VerifierChain(body, sig)[RingSize] = sig.e

-------------------------------------------------------------------------------
(* Payments.                                                               *)

VARIABLES
  chain,    \* outputs that are recorded
  spends,   \* what was signed: [fund, image, valid]
  saved     \* what wallets have saved: [out, amt]

payVars == <<chain, spends, saved>>

PayInit == chain = {} /\ spends = {} /\ saved = {}

\* NewCoinbaseTxn; VerifyCoinbaseTxn asks for a commitment to the value.
VerifyCoinbase(o, v) == (o.commit - v * H) % Q = 0

Mint(key, fee, tape) ==
  LET o == CoinbaseOutput(key, Coinbase + fee, tape) IN
  /\ Cardinality(chain) < MaxOutputs /\ VerifyCoinbase(o, Coinbase + fee)
  /\ chain' = chain \cup {o} /\ UNCHANGED <<spends, saved>>

\* The owner of fund signs at place idx of a ring: an amount for the
\* recipient, the rest for itself; everybody verifies it.
Pay(fund, others, idx, rcpt, amt, fee, tape) ==
  LET ring == [i \in 1..RingSize |-> IF i = idx THEN fund ELSE others[i]]
      outs == <<BuildOutput(rcpt, amt, tape),
                BuildOutput(fund.to, fund.amt - amt - fee, Tail(tape) \o <<Head(tape)>>)>>
      body == [ring |-> ring, outs |-> outs, fee |-> fee]
      yOut == (BlindFor(rcpt, tape[2]) + BlindFor(fund.to, At(tape, 2))) % Q
      sig == OZRSSign(body, ComputeTxnPrivateKey(fund, fund.to),
                      ComputeBlindingFactor(fund, fund.to), idx, yOut, tape)
      valid == VerifyOZRS(body, sig) /\ \A n \in 1..2 : VerifyRange(outs[n].proof)
  IN
  /\ Cardinality(chain) <= MaxOutputs /\ amt + fee <= fund.amt
  /\ spends' = spends \cup {[fund |-> fund.dest, image |-> sig.image, valid |-> valid]}
  /\ chain' = chain \cup {outs[n] : n \in {m \in 1..2 : valid}}
  /\ UNCHANGED saved

\* saveMyTxns, for one output: the coinbase value, or the decrypted amount.
Collect(o, key) ==
  /\ BelongsToMe(o, key)
  /\ saved' = saved \cup {[out |-> o, key |-> key,
       amt |-> IF IsCoinbase(o) THEN o.amt ELSE DecryptAmount(o, key)]}
  /\ Cardinality(saved') <= MaxSaved
  /\ UNCHANGED <<chain, spends>>

PayNext ==
  \/ \E key \in Wallet, fee \in Fees, tape \in Tape : Mint(key, fee, tape)
  \/ \E fund \in chain, idx \in 1..RingSize, rcpt \in Wallet, fee \in Fees, tape \in Tape :
       \E others \in [(1..RingSize) \ {idx} -> chain], amt \in 0..MaxAmount :
         Pay(fund, others, idx, rcpt, amt, fee, tape)
  \/ \E o \in chain, key \in Wallet : Collect(o, key)

PaySpec == PayInit /\ [][PayNext]_payVars

-------------------------------------------------------------------------------

\* What an owner signs with honest amounts, everybody accepts, wherever it
\* stands in the ring and whatever the others are (VerifyTxn, txn.go:396-404).
SignedVerifies == \A x \in spends : x.valid

\* Spending an output twice shows the same preimage twice, whatever ring, place
\* and nonces were chosen: the check for double spends rests on it
\* (Preimage, txn.go:462).
SameImage == \A x, y \in spends : x.fund = y.fund => x.image = y.image

\* An output commits to the amount its sender meant, with the blinding factor
\* that its recipient computes (BuildOutputs and ComputeBlindingFactor).
CommitsToAmount ==
  \A o \in chain :
    (o.commit - PedersenSum(ComputeBlindingFactor(o, o.to), o.amt)) % Q = 0

\* The recipient recognises an output, and has the secret key of its
\* destination (BelongsToMe and ComputeTxnPrivateKey, output.go:137-160).
OwnerHasKey ==
  \A o \in chain : BelongsToMe(o, o.to) /\ ComputeTxnPrivateKey(o, o.to) % Q = o.dest

\* ... and can read each of its bits (DecryptAmount, output.go:84-112).
RecipientCanSpend ==
  OwnerHasKey /\ \A o \in chain : ~IsCoinbase(o) => DecryptAmount(o, o.to) \in 0..MaxAmount

\* What a wallet saves of an output is its amount.
SavedIsPaid == \A x \in saved : x.key = x.out.to => x.amt = x.out.amt
===============================================================================
