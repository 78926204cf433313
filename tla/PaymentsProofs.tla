----------------------------- MODULE PaymentsProofs -----------------------------
(***************************************************************************)
(* Proofs about Payments: what an owner signs with honest amounts is       *)
(* accepted, for every group, hash, ring, place and tape.  The sums and    *)
(* the chains of challenges are taken apart by induction.                  *)
(***************************************************************************)
EXTENDS Payments, FiniteSetTheorems, WellFoundedInduction, TLAPS

-------------------------------------------------------------------------------
(* Induction, here for sets of numbers, since every set of numbers that is   *)
(* not empty has a least one; and what recursive functions are.              *)

\* Every set of numbers that is not empty has a least one.
LEMMA Least ==
  ASSUME NEW T \in SUBSET Nat, T # {}
  PROVE  \E m \in T : \A n \in T : m <= n
<1>1. IsWellFoundedOn(OpToRel(<, Nat), Nat)
  BY NatLessThanWellFounded
<1>2. \E x \in T : \A y \in T : ~ (<<y, x>> \in OpToRel(<, Nat))
  BY <1>1, WFMin
<1>3. PICK x \in T : \A y \in T : ~ (<<y, x>> \in {ss \in Nat \X Nat : ss[1] < ss[2]})
  BY <1>2 DEF OpToRel
<1>4. ASSUME NEW y \in T PROVE x <= y
  <2>1. <<y, x>> \in Nat \X Nat /\ ~ (<<y, x>> \in {ss \in Nat \X Nat : ss[1] < ss[2]})
    BY <1>3
  <2> QED BY <2>1
<1> QED BY <1>4

\* Induction, for a set in place of a property.
LEMMA Ind ==
  ASSUME NEW T \in SUBSET Nat, 0 \in T, \A n \in T : n + 1 \in T
  PROVE  T = Nat
<1> SUFFICES ASSUME Nat \ T # {} PROVE FALSE
  OBVIOUS
<1>1. PICK m \in Nat \ T : \A n \in Nat \ T : m <= n
  BY Least
<1>2. m # 0 /\ m - 1 \in Nat /\ m - 1 \in T
  BY <1>1
<1>3. (m - 1) + 1 \in T
  BY <1>2
<1> QED BY <1>1, <1>3

\* A chain, in which each value is made of the one before it.
IsChain(f, V, b, lo, hi, g) ==
  f \in [lo..hi -> V] /\ f[lo] = b /\ \A i \in lo..hi : i # lo => f[i] = g[<<i, f[i - 1]>>]

IsSequence(f, V, b, g) ==
  f \in [Nat -> V] /\ f[0] = b /\ \A n \in Nat : f[n + 1] = g[<<n + 1, f[n]>>]

\* On a finite range of numbers there is one ...
LEMMA ChainExists ==
  ASSUME NEW V, NEW b \in V, NEW lo \in Nat, NEW hi \in Nat, lo <= hi,
         NEW g \in [Nat \X V -> V]
  PROVE  \E f : IsChain(f, V, b, lo, hi, g)
<1> DEFINE Fits(f, k) ==
             /\ f \in [lo..(lo + k) -> V]
             /\ f[lo] = b /\ \A i \in (lo + 1)..(lo + k) : f[i] = g[<<i, f[i - 1]>>]
           T == {k \in Nat : \E f : Fits(f, k)}
<1>1. 0 \in T
  <2>1. Fits([i \in lo..(lo + 0) |-> b], 0)
    OBVIOUS
  <2> QED BY <2>1
<1>2. ASSUME NEW k \in T PROVE k + 1 \in T
  <2>1. PICK f : Fits(f, k)
    OBVIOUS
  <2> DEFINE e == lo + (k + 1)
             h == [i \in lo..e |-> IF i = e THEN g[<<i, f[i - 1]>>] ELSE f[i]]
  <2>2. e \in Nat /\ e - 1 = lo + k /\ f[e - 1] \in V /\ g[<<e, f[e - 1]>>] \in V
    BY <2>1
  <2>3. h \in [lo..e -> V] /\ h[lo] = b /\ h[e] = g[<<e, f[e - 1]>>]
    BY <2>1, <2>2
  <2>4. \A i \in lo..(lo + k) : h[i] = f[i]
    OBVIOUS
  <2>5. ASSUME NEW i \in (lo + 1)..e PROVE h[i] = g[<<i, h[i - 1]>>]
    <3>1. i - 1 \in lo..(lo + k) /\ h[i - 1] = f[i - 1]
      BY <2>4
    <3>2. CASE i = e
      BY <2>3, <3>1, <3>2
    <3>3. CASE i # e
      <4>1. i \in (lo + 1)..(lo + k) /\ h[i] = f[i]
        BY <2>4, <3>3
      <4> QED BY <2>1, <3>1, <4>1
    <3> QED BY <3>2, <3>3
  <2> HIDE DEF h, e
  <2>6. Fits(h, k + 1)
    BY <2>3, <2>5 DEF e
  <2>7. k + 1 \in Nat
    OBVIOUS
  <2> HIDE DEF Fits
  <2> QED BY <2>6, <2>7
<1> HIDE DEF T
<1>3. T = Nat
  <2>1. T \in SUBSET Nat
    BY DEF T
  <2> QED BY <1>1, <1>2, <2>1, Ind
<1>4. PICK f : Fits(f, hi - lo)
  <2>1. hi - lo \in Nat
    OBVIOUS
  <2> HIDE DEF Fits
  <2> QED BY <1>3, <2>1 DEF T
<1>5. lo + (hi - lo) = hi
  OBVIOUS
<1>6. \A i \in lo..hi : i # lo => i \in (lo + 1)..hi
  OBVIOUS
<1>7. IsChain(f, V, b, lo, hi, g)
  BY <1>4, <1>5, <1>6 DEF IsChain
<1> QED BY <1>7

\* ... and on all numbers.
LEMMA SequenceExists ==
  ASSUME NEW V, NEW b \in V, NEW g \in [Nat \X V -> V]
  PROVE  \E f : IsSequence(f, V, b, g)
<1> DEFINE Fits(f, n) ==
             /\ f \in [0..n -> V]
             /\ f[0] = b /\ \A i \in 1..n : f[i] = g[<<i, f[i - 1]>>]
           F(n) == CHOOSE f : Fits(f, n)
           seq == [n \in Nat |-> F(n)[n]]
<1>1. ASSUME NEW n \in Nat PROVE Fits(F(n), n)
  <2>1. PICK f : IsChain(f, V, b, 0, n, g)
    <3>1. 0 \in Nat /\ 0 <= n
      OBVIOUS
    <3> QED BY <3>1, ChainExists
  <2>2. \A i \in 1..n : i \in 0..n /\ i # 0
    OBVIOUS
  <2>3. Fits(f, n)
    BY <2>1, <2>2 DEF IsChain
  <2> HIDE DEF Fits
  <2> QED BY <2>3
<1> HIDE DEF F
<1>2. ASSUME NEW n \in Nat PROVE F(n)[n] = F(n + 1)[n]
  <2> DEFINE T == {i \in Nat : i <= n => F(n)[i] = F(n + 1)[i]}
  <2>1. Fits(F(n), n) /\ Fits(F(n + 1), n + 1)
    BY <1>1
  <2>2. 0 \in T
    BY <2>1
  <2>3. ASSUME NEW i \in T PROVE i + 1 \in T
    <3>1. CASE i + 1 <= n
      <4>1. i + 1 \in 1..n /\ i + 1 \in 1..(n + 1) /\ (i + 1) - 1 = i /\ F(n)[i] = F(n + 1)[i]
        BY <3>1
      <4>2. F(n)[i + 1] = g[<<i + 1, F(n)[i]>>] /\ F(n + 1)[i + 1] = g[<<i + 1, F(n + 1)[i]>>]
        BY <2>1, <4>1
      <4> QED BY <4>1, <4>2
    <3>2. CASE ~(i + 1 <= n)
      BY <3>2
    <3> QED BY <3>1, <3>2
  <2> HIDE DEF T
  <2>4. T = Nat
    <3>1. T \in SUBSET Nat
      BY DEF T
    <3> QED BY <2>2, <2>3, <3>1, Ind
  <2>5. n \in T /\ n <= n
    BY <2>4
  <2> QED BY <2>5 DEF T
<1>3. ASSUME NEW n \in Nat PROVE seq[n] \in V
  BY <1>1
<1>4. ASSUME NEW n \in Nat PROVE seq[n + 1] = g[<<n + 1, seq[n]>>]
  <2>1. n + 1 \in 1..(n + 1) /\ (n + 1) - 1 = n /\ Fits(F(n + 1), n + 1)
    BY <1>1
  <2>2. F(n + 1)[n + 1] = g[<<n + 1, F(n + 1)[n]>>]
    BY <2>1
  <2> QED BY <1>2, <2>2
<1>5. seq[0] = b
  <2>1. Fits(F(0), 0)
    BY <1>1
  <2> QED BY <2>1
<1>6. seq \in [Nat -> V]
  BY <1>3
<1> HIDE DEF seq
<1>7. IsSequence(seq, V, b, g)
  BY <1>4, <1>5, <1>6 DEF IsSequence
<1> QED BY <1>7

-------------------------------------------------------------------------------
(* Sums over finite sets (MapThenSumSet).                                    *)

Picked(s) == CHOOSE x \in s : TRUE

\* g is the recursion of the sum of f over the subsets of S.
SumsUp(f, S, g) ==
  \A s \in SUBSET S : g[s] = IF s = {} THEN 0 ELSE f[Picked(s)] + g[s \ {Picked(s)}]

\* Every finite set has a sum over all of its subsets, picking one by one.
LEMMA SumExists ==
  ASSUME NEW f, NEW S, IsFiniteSet(S)
  PROVE  \E g : SumsUp(f, S, g)
<1> DEFINE To(g, n) ==
             \A s \in SUBSET S : Cardinality(s) <= n =>
               g[s] = IF s = {} THEN 0 ELSE f[Picked(s)] + g[s \ {Picked(s)}]
           T == {n \in Nat : \E g : To(g, n)}
<1>0. ASSUME NEW s \in SUBSET S
      PROVE  /\ IsFiniteSet(s) /\ Cardinality(s) \in Nat /\ Cardinality(s) <= Cardinality(S)
             /\ Cardinality(s) = 0 <=> s = {}
             /\ s # {} => /\ Picked(s) \in s /\ s \ {Picked(s)} \in SUBSET S
                          /\ Cardinality(s \ {Picked(s)}) = Cardinality(s) - 1
  <2>1. IsFiniteSet(s) /\ Cardinality(s) <= Cardinality(S)
    BY FS_Subset
  <2>2. Cardinality(s) \in Nat /\ (Cardinality(s) = 0 <=> s = {})
    BY <2>1, FS_CardinalityType, FS_EmptySet
  <2>3. s # {} => Picked(s) \in s
    BY DEF Picked
  <2> QED BY <2>1, <2>2, <2>3, FS_RemoveElement
<1>1. 0 \in T
  <2> DEFINE z == [s \in SUBSET S |-> 0]
  <2>0. ASSUME NEW s \in SUBSET S, Cardinality(s) <= 0 PROVE s = {} /\ z[s] = 0
    <3>1. \A n \in Nat : n <= 0 => n = 0
      OBVIOUS
    <3> QED BY <1>0, <2>0, <3>1
  <2> HIDE DEF z
  <2>1. To(z, 0)
    BY <2>0
  <2> HIDE DEF To
  <2> QED BY <2>1
<1>2. ASSUME NEW n \in T PROVE n + 1 \in T
  <2>1. PICK g : To(g, n)
    OBVIOUS
  <2> DEFINE h == [s \in SUBSET S |-> IF s = {} THEN 0 ELSE f[Picked(s)] + g[s \ {Picked(s)}]]
  <2>2. ASSUME NEW s \in SUBSET S, Cardinality(s) <= n PROVE h[s] = g[s]
    BY <2>1, <2>2
  <2>3. ASSUME NEW s \in SUBSET S, Cardinality(s) <= n + 1
        PROVE  h[s] = IF s = {} THEN 0 ELSE f[Picked(s)] + h[s \ {Picked(s)}]
    <3>1. CASE s = {}
      BY <3>1
    <3>2. CASE s # {}
      <4>1. s \ {Picked(s)} \in SUBSET S /\ Cardinality(s \ {Picked(s)}) <= n
        BY <1>0, <2>3, <3>2
      <4>2. h[s \ {Picked(s)}] = g[s \ {Picked(s)}]
        BY <2>2, <4>1
      <4> QED BY <3>2, <4>2
    <3> QED BY <3>1, <3>2
  <2> HIDE DEF h
  <2>4. To(h, n + 1)
    BY <2>3
  <2> HIDE DEF To
  <2> QED BY <2>4
<1> HIDE DEF T
<1>3. T = Nat
  <2>1. T \in SUBSET Nat
    BY DEF T
  <2> QED BY <1>1, <1>2, <2>1, Ind
<1>4. Cardinality(S) \in Nat
  BY FS_CardinalityType
<1>5. PICK g : To(g, Cardinality(S))
  BY <1>3, <1>4 DEF T
<1>6. SumsUp(f, S, g)
  BY <1>0, <1>5 DEF SumsUp
<1> QED BY <1>6

\* Two such sums agree.
LEMMA SumsAgree ==
  ASSUME NEW f, NEW S, IsFiniteSet(S), NEW R \in SUBSET S, NEW g, NEW h,
         SumsUp(f, S, g), SumsUp(f, R, h)
  PROVE  g[R] = h[R]
<1> DEFINE T == {n \in Nat : \A s \in SUBSET R : Cardinality(s) = n => g[s] = h[s]}
<1>0. ASSUME NEW s \in SUBSET R
      PROVE  /\ IsFiniteSet(s) /\ Cardinality(s) \in Nat /\ s \in SUBSET S
             /\ Cardinality(s) = 0 <=> s = {}
             /\ s # {} => /\ Picked(s) \in s /\ s \ {Picked(s)} \in SUBSET R
                          /\ Cardinality(s \ {Picked(s)}) = Cardinality(s) - 1
  <2>1. IsFiniteSet(s) /\ s \in SUBSET S
    BY FS_Subset
  <2>2. Cardinality(s) \in Nat /\ (Cardinality(s) = 0 <=> s = {})
    BY <2>1, FS_CardinalityType, FS_EmptySet
  <2>3. s # {} => Picked(s) \in s
    BY DEF Picked
  <2> QED BY <2>1, <2>2, <2>3, FS_RemoveElement
<1>1. 0 \in T
  BY <1>0 DEF SumsUp
<1>2. ASSUME NEW n \in T PROVE n + 1 \in T
  <2>1. ASSUME NEW s \in SUBSET R, Cardinality(s) = n + 1 PROVE g[s] = h[s]
    <3>1. s # {} /\ s \ {Picked(s)} \in SUBSET R /\ Cardinality(s \ {Picked(s)}) = n
      BY <1>0, <2>1
    <3>2. g[s \ {Picked(s)}] = h[s \ {Picked(s)}]
      BY <3>1
    <3> QED BY <1>0, <3>1, <3>2 DEF SumsUp
  <2> QED BY <2>1
<1> HIDE DEF T
<1>3. T = Nat
  <2>1. T \in SUBSET Nat
    BY DEF T
  <2> QED BY <1>1, <1>2, <2>1, Ind
<1>4. R \in SUBSET R /\ Cardinality(R) \in Nat
  BY <1>0
<1> QED BY <1>3, <1>4 DEF T

\* Total is such a sum.
LEMMA TotalIs ==
  ASSUME NEW f, NEW S, IsFiniteSet(S)
  PROVE  \E g : SumsUp(f, S, g) /\ Total(f, S) = g[S]
<1> DEFINE Eq(g) ==
             g = [s \in SUBSET S |-> IF s = {} THEN 0 ELSE f[Picked(s)] + g[s \ {Picked(s)}]]
           iter == CHOOSE g : Eq(g)
<1>1. PICK h : SumsUp(f, S, h)
  BY SumExists
<1> DEFINE k == [s \in SUBSET S |-> h[s]]
<1>2. ASSUME NEW s \in SUBSET S
      PROVE  k[s] = IF s = {} THEN 0 ELSE f[Picked(s)] + k[s \ {Picked(s)}]
  BY <1>1 DEF SumsUp
<1>3. Eq(k)
  <2>1. k = [s \in SUBSET S |-> k[s]]
    OBVIOUS
  <2> HIDE DEF k
  <2> QED BY <1>2, <2>1
<1>4. Eq(iter)
  <2> HIDE DEF Eq, k
  <2> QED BY <1>3
<1>5. Total(f, S) = iter[S]
  BY DEF Total, MapThenSumSet, MapThenFoldSet, Picked
<1> HIDE DEF iter
<1>6. SumsUp(f, S, iter)
  BY <1>4 DEF SumsUp
<1> QED BY <1>5, <1>6

\* One element after the other, from the one that is picked ...
LEMMA TotalEmpty == ASSUME NEW f PROVE Total(f, {}) = 0
<1>1. IsFiniteSet({})
  BY FS_EmptySet
<1>2. PICK g : SumsUp(f, {}, g) /\ Total(f, {}) = g[{}]
  BY <1>1, TotalIs
<1> QED BY <1>2 DEF SumsUp

\* It is taken apart at the element that is picked ...
LEMMA TotalPicked ==
  ASSUME NEW f, NEW S, IsFiniteSet(S), S # {}
  PROVE  Picked(S) \in S /\ Total(f, S) = f[Picked(S)] + Total(f, S \ {Picked(S)})
<1> DEFINE R == S \ {Picked(S)}
<1>1. IsFiniteSet(R) /\ R \in SUBSET S /\ Picked(S) \in S
  BY FS_RemoveElement DEF Picked
<1>2. PICK g : SumsUp(f, S, g) /\ Total(f, S) = g[S]
  BY TotalIs
<1>3. PICK h : SumsUp(f, R, h) /\ Total(f, R) = h[R]
  BY <1>1, TotalIs
<1> HIDE DEF R
<1>4. g[R] = h[R]
  BY <1>1, <1>2, <1>3, SumsAgree
<1>5. g[S] = f[Picked(S)] + g[R]
  BY <1>2 DEF SumsUp, R
<1> QED BY <1>1, <1>2, <1>3, <1>4, <1>5 DEF R

\* ... to any of them.
LEMMA TotalStep ==
  ASSUME NEW f, NEW S, IsFiniteSet(S), \A x \in S : f[x] \in Int
  PROVE  Total(f, S) \in Int /\ \A x \in S : Total(f, S) = f[x] + Total(f, S \ {x})
<1> DEFINE Apart(D) == Total(f, D) \in Int /\ \A x \in D : Total(f, D) = f[x] + Total(f, D \ {x})
           T == {n \in Nat : \A D \in SUBSET S : Cardinality(D) <= n => Apart(D)}
<1>0. ASSUME NEW D \in SUBSET S
      PROVE  /\ IsFiniteSet(D) /\ Cardinality(D) \in Nat /\ (Cardinality(D) = 0 <=> D = {})
             /\ \A x \in D : D \ {x} \in SUBSET S /\ Cardinality(D \ {x}) = Cardinality(D) - 1
  <2>1. IsFiniteSet(D)
    BY FS_Subset
  <2> QED BY <2>1, FS_CardinalityType, FS_EmptySet, FS_RemoveElement
<1>1. 0 \in T
  <2>1. ASSUME NEW D \in SUBSET S, Cardinality(D) <= 0 PROVE Apart(D)
    <3>1. D = {}
      BY <1>0, <2>1
    <3> QED BY <3>1, TotalEmpty
  <2> HIDE DEF Apart
  <2> QED BY <2>1
<1>2. ASSUME NEW n \in T PROVE n + 1 \in T
  <2>1. ASSUME NEW D \in SUBSET S, Cardinality(D) <= n + 1 PROVE Apart(D)
    <3>0. D = {} => Apart(D)
      BY TotalEmpty
    <3> SUFFICES ASSUME D # {} PROVE Apart(D)
      <4> HIDE DEF Apart
      <4> QED BY <3>0
    <3> DEFINE p == Picked(D)
    <3>1. D # {} /\ IsFiniteSet(D) /\ n \in Nat
      BY <1>0, <2>1
    <3>2. p \in D /\ Total(f, D) = f[p] + Total(f, D \ {p})
      BY <3>1, TotalPicked
    <3> HIDE DEF p
    <3>3. ASSUME NEW x \in D PROVE Apart(D \ {x})
      <4>1. D \ {x} \in SUBSET S /\ Cardinality(D \ {x}) <= n
        BY <1>0, <2>1, <3>1
      <4> HIDE DEF Apart
      <4> QED BY <4>1
    <3>4. Total(f, D) \in Int
      BY <3>2, <3>3
    <3>5. ASSUME NEW x \in D, x # p PROVE Total(f, D) = f[x] + Total(f, D \ {x})
      <4>1. (D \ {p}) \ {x} = (D \ {x}) \ {p}
        OBVIOUS
      <4> DEFINE rest == Total(f, (D \ {x}) \ {p})
      <4>2. Total(f, D \ {p}) = f[x] + rest
        BY <3>2, <3>3, <3>5, <4>1
      <4>3. Total(f, D \ {x}) = f[p] + rest
        BY <3>2, <3>3, <3>5
      <4>4. rest \in Int
        <5> DEFINE R == (D \ {x}) \ {p}
        <5>1. R \in SUBSET S /\ Cardinality(R) <= n
          BY <1>0, <2>1, <3>1, <3>2, <3>5
        <5>2. Apart(R)
          <6> HIDE DEF Apart, R
          <6> QED BY <5>1
        <5> QED BY <5>2
      <4> HIDE DEF rest
      <4> QED BY <3>2, <4>2, <4>3, <4>4
    <3> QED BY <3>2, <3>4, <3>5
  <2> HIDE DEF Apart
  <2> QED BY <2>1
<1> HIDE DEF T
<1>3. T = Nat
  <2>1. T \in SUBSET Nat
    BY DEF T
  <2> QED BY <1>1, <1>2, <2>1, Ind
<1> HIDE DEF Apart
<1>4. Apart(S)
  BY <1>0, <1>3 DEF T
<1> QED BY <1>4 DEF Apart

\* The sums of the first values.
LEMMA TotalUpTo ==
  ASSUME NEW f, NEW n \in Nat, \A i \in 0..n : f[i] \in Int
  PROVE  /\ Total(f, 0..n) \in Int /\ Total(f, 0..(n - 1)) \in Int
         /\ Total(f, 0..n) = Total(f, 0..(n - 1)) + f[n]
<1>1. IsFiniteSet(0..n) /\ IsFiniteSet(0..(n - 1))
  BY FS_Interval
<1>2. (0..n) \ {n} = 0..(n - 1) /\ n \in 0..n
  OBVIOUS
<1>3. Total(f, 0..n) \in Int /\ Total(f, 0..n) = f[n] + Total(f, 0..(n - 1))
  BY <1>1, <1>2, TotalStep
<1>4. Total(f, 0..(n - 1)) \in Int
  BY <1>1, TotalStep
<1> QED BY <1>3, <1>4

\* The total of two, as of the two outputs of a payment.
LEMMA TotalOfTwo ==
  ASSUME NEW f, f[1] \in Int, f[2] \in Int
  PROVE  Total(f, 1..2) = f[1] + f[2]
<1>1. IsFiniteSet(1..2) /\ IsFiniteSet({1})
  <2>1. IsFiniteSet(1..2)
    <3>1. 1 \in Int /\ 2 \in Int
      OBVIOUS
    <3> QED BY <3>1, FS_Interval
  <2> QED BY <2>1, FS_Singleton
<1>2. (1..2) \ {2} = {1} /\ {1} \ {1} = {} /\ 2 \in 1..2 /\ \A i \in 1..2 : f[i] \in Int
  OBVIOUS
<1>3. Total(f, 1..2) = f[2] + Total(f, {1})
  BY <1>1, <1>2, TotalStep
<1>4. Total(f, {1}) = f[1] + Total(f, {})
  BY <1>1, <1>2, TotalStep
<1> QED BY <1>3, <1>4, TotalEmpty

\* Equal values have equal sums.
LEMMA TotalSame ==
  ASSUME NEW f, NEW h, NEW m \in Nat, \A i \in 0..(m - 1) : f[i] \in Int /\ h[i] = f[i]
  PROVE  Total(h, 0..(m - 1)) = Total(f, 0..(m - 1))
<1> DEFINE T == {n \in Nat : n <= m => Total(h, 0..(n - 1)) = Total(f, 0..(n - 1))}
<1>1. 0 \in T
  <2>1. 0..(0 - 1) = {}
    OBVIOUS
  <2>2. Total(h, {}) = 0 /\ Total(f, {}) = 0
    BY TotalEmpty
  <2> QED BY <2>1, <2>2
<1>2. ASSUME NEW n \in T PROVE n + 1 \in T
  <2>1. CASE n + 1 <= m
    <3>1. n \in Nat /\ \A i \in 0..n : f[i] \in Int /\ h[i] \in Int /\ h[i] = f[i]
      BY <2>1
    <3>2. /\ Total(f, 0..n) = Total(f, 0..(n - 1)) + f[n]
          /\ Total(h, 0..n) = Total(h, 0..(n - 1)) + h[n]
      BY <3>1, TotalUpTo
    <3>3. Total(h, 0..n) = Total(f, 0..n)
      BY <2>1, <3>1, <3>2
    <3>4. (n + 1) - 1 = n /\ n + 1 \in Nat
      BY <3>1
    <3> QED BY <3>3, <3>4
  <2>2. CASE ~(n + 1 <= m)
    BY <2>2
  <2> QED BY <2>1, <2>2
<1> HIDE DEF T
<1>3. T = Nat
  <2>1. T \in SUBSET Nat
    BY DEF T
  <2> QED BY <1>1, <1>2, <2>1, Ind
<1>4. m \in T /\ m <= m
  BY <1>3
<1> QED BY <1>4 DEF T

-------------------------------------------------------------------------------
(* Numbers modulo the order, and bits.                                       *)

\* Division with remainder, which is unique.
LEMMA Division ==
  ASSUME NEW a \in Int, NEW q \in Nat \ {0}
  PROVE  a % q \in 0..(q - 1) /\ a \div q \in Int /\ a = q * (a \div q) + (a % q)
OBVIOUS

\* ... and back.
LEMMA Remainder ==
  ASSUME NEW q \in Nat \ {0}, NEW d \in Int, NEW m \in 0..(q - 1)
  PROVE  (q * d + m) % q = m
OBVIOUS

\* A multiple of the modulus makes no difference.
LEMMA ModShift ==
  ASSUME NEW q \in Nat \ {0}, NEW d \in Int, NEW a \in Int
  PROVE  (q * d + a) % q = a % q
<1> DEFINE k == a \div q
           m == a % q
<1>1. k \in Int /\ m \in 0..(q - 1) /\ a = q * k + m
  BY Division
<1> HIDE DEF k, m
<1>2. q * d + a = q * (d + k) + m /\ d + k \in Int
  BY <1>1
<1> QED BY <1>1, <1>2, Remainder DEF m

\* A factor may be reduced before the product is.
LEMMA ModTimes ==
  ASSUME NEW q \in Nat \ {0}, NEW a \in Int, NEW b \in Int
  PROVE  ((a % q) * b) % q = (a * b) % q
<1> DEFINE k == a \div q
           m == a % q
<1>1. k \in Int /\ m \in Int /\ a = q * k + m
  BY Division
<1> HIDE DEF k, m
<1>2. a * b = q * (k * b) + m * b /\ k * b \in Int /\ m * b \in Int
  BY <1>1
<1> QED BY <1>2, ModShift DEF m

\* Congruent modulo the order.
Same(a, b) == \E k \in Int : a = b + Q * k

\* To differ by a multiple of Q is to have one remainder.
LEMMA SameIsMod ==
  ASSUME NEW a \in Int, NEW b \in Int
  PROVE  /\ a % Q \in Int /\ a % Q \in 0..(Q - 1) /\ Same(a % Q, a)
         /\ Same(a, b) => a % Q = b % Q
         /\ a % Q = b % Q => Same(a, b)
         /\ Same(a, b) => Same(b, a)
         /\ (a - b) % Q = 0 <=> Same(a, b)
<1>1. Q \in Nat \ {0}
  BY PaymentsAssumption
<1> DEFINE d == a \div Q
           m == a % Q
           e == b \div Q
           n == b % Q
<1>2. d \in Int /\ m \in 0..(Q - 1) /\ a = Q * d + m /\ m \in Int
  BY <1>1, Division
<1>3. e \in Int /\ n \in 0..(Q - 1) /\ b = Q * e + n /\ n \in Int
  BY <1>1, Division
<1>4. ASSUME Same(a, b) PROVE m = n
  <2>1. PICK k \in Int : a = b + Q * k
    BY <1>4 DEF Same
  <2>2. a = Q * k + b
    BY <1>1, <2>1
  <2> QED BY <1>1, <2>2, ModShift
<1>5. ASSUME (a - b) % Q = 0 PROVE Same(a, b)
  <2> DEFINE c == a - b
             k == c \div Q
  <2>1. c \in Int
    OBVIOUS
  <2> HIDE DEF c
  <2>2. k \in Int /\ c = Q * k + (c % Q)
    BY <1>1, <2>1, Division
  <2>3. c % Q = 0
    BY <1>5 DEF c
  <2> HIDE DEF k
  <2>4. a = b + Q * k
    BY <1>1, <2>2, <2>3 DEF c
  <2> QED BY <2>2, <2>4 DEF Same
<1>6. ASSUME Same(a, b) PROVE (a - b) % Q = 0
  <2>1. PICK k \in Int : a = b + Q * k
    BY <1>6 DEF Same
  <2>2. a - b = Q * k + 0 /\ 0 \in 0..(Q - 1)
    BY <1>1, <2>1
  <2>3. (Q * k + 0) % Q = 0
    BY <1>1, <2>2, Remainder
  <2> QED BY <2>2, <2>3
<1> HIDE DEF d, m, e, n
<1>7. Same(m, a)
  <2>1. -d \in Int /\ m = a + Q * (-d)
    BY <1>1, <1>2
  <2> QED BY <2>1 DEF Same
<1>8. ASSUME m = n PROVE Same(a, b)
  <2>1. d - e \in Int /\ a = b + Q * (d - e)
    BY <1>1, <1>2, <1>3, <1>8
  <2> QED BY <2>1 DEF Same
<1>9. ASSUME Same(a, b) PROVE Same(b, a)
  <2>1. PICK k \in Int : a = b + Q * k
    BY <1>9 DEF Same
  <2>2. -k \in Int /\ b = a + Q * (-k)
    BY <1>1, <2>1
  <2> QED BY <2>2 DEF Same
<1> QED BY <1>2, <1>4, <1>5, <1>6, <1>7, <1>8, <1>9 DEF m, n

\* Differing by multiples of Q carries over, ...
LEMMA SameTrans ==
  ASSUME NEW a \in Int, NEW b \in Int, NEW c \in Int, Same(a, b), Same(b, c)
  PROVE  Same(a, c)
<1>1. Q \in Int
  BY PaymentsAssumption
<1>2. PICK k \in Int : a = b + Q * k
  BY DEF Same
<1>3. PICK l \in Int : b = c + Q * l
  BY DEF Same
<1>4. a = c + Q * (k + l) /\ k + l \in Int
  BY <1>1, <1>2, <1>3
<1> QED BY <1>4 DEF Same

\* Sums, differences and products respect it.
LEMMA SameSum ==
  ASSUME NEW a \in Int, NEW b \in Int, NEW c \in Int, NEW d \in Int, Same(a, b), Same(c, d)
  PROVE  Same(a + c, b + d) /\ Same(a - c, b - d)
<1>1. Q \in Int
  BY PaymentsAssumption
<1>2. PICK k \in Int : a = b + Q * k
  BY DEF Same
<1>3. PICK l \in Int : c = d + Q * l
  BY DEF Same
<1>4. a + c = (b + d) + Q * (k + l) /\ k + l \in Int
  BY <1>1, <1>2, <1>3
<1>5. a - c = (b - d) + Q * (k - l) /\ k - l \in Int
  BY <1>1, <1>2, <1>3
<1> QED BY <1>4, <1>5 DEF Same

\* ... also to products.
LEMMA SameProduct ==
  ASSUME NEW a \in Int, NEW b \in Int, NEW c \in Int, Same(a, b)
  PROVE  Same(a * c, b * c) /\ Same(c * a, c * b)
<1>1. Q \in Int
  BY PaymentsAssumption
<1>2. PICK k \in Int : a = b + Q * k
  BY DEF Same
<1>3. a * c = b * c + Q * (k * c) /\ c * a = c * b + Q * (k * c) /\ k * c \in Int
  BY <1>1, <1>2
<1> QED BY <1>3 DEF Same

\* ... and nothing differs from itself.
LEMMA SameRefl == ASSUME NEW a \in Int PROVE Same(a, a)
<1>1. 0 \in Int /\ a = a + Q * 0
  BY PaymentsAssumption
<1> QED BY <1>1 DEF Same

\* Shifting one place doubles.
LEMMA Pow2Is ==
  Pow2[0] = 1 /\ \A n \in Nat : Pow2[n] \in Nat \ {0} /\ Pow2[n + 1] = 2 * Pow2[n]
<1> DEFINE V == Nat \ {0}
           g == [p \in Nat \X V |-> 2 * p[2]]
<1>1. g \in [Nat \X V -> V] /\ 1 \in V
  OBVIOUS
<1>0. PICK f : IsSequence(f, V, 1, g)
  <2> HIDE DEF g, V
  <2> QED BY <1>1, SequenceExists
<1>2. f \in [Nat -> V] /\ f[0] = 1
  BY <1>0 DEF IsSequence
<1>3. ASSUME NEW n \in Nat PROVE f[n + 1] = 2 * f[n]
  <2>1. <<n + 1, f[n]>> \in Nat \X V /\ f[n + 1] = g[<<n + 1, f[n]>>]
    BY <1>0, <1>2 DEF IsSequence
  <2> QED BY <2>1
<1>4. f = [n \in Nat |-> IF n = 0 THEN 1 ELSE 2 * f[n - 1]]
  <2>1. ASSUME NEW n \in Nat PROVE f[n] = IF n = 0 THEN 1 ELSE 2 * f[n - 1]
    <3>1. CASE n # 0
      <4>1. n - 1 \in Nat /\ (n - 1) + 1 = n
        BY <3>1
      <4>2. f[(n - 1) + 1] = 2 * f[n - 1]
        BY <1>3, <4>1
      <4> QED BY <3>1, <4>1, <4>2
    <3> QED BY <1>2, <3>1
  <2>2. f = [n \in Nat |-> f[n]]
    BY <1>2
  <2> QED BY <2>1, <2>2
<1> HIDE DEF g, V
<1>5. Pow2 = [n \in Nat |-> IF n = 0 THEN 1 ELSE 2 * Pow2[n - 1]]
  BY <1>4 DEF Pow2
<1> DEFINE T == {n \in Nat : Pow2[n] = f[n]}
<1>6. 0 \in T
  <2>1. Pow2[0] = 1
    BY <1>5
  <2> QED BY <1>2, <2>1
<1>7. ASSUME NEW n \in T PROVE n + 1 \in T
  <2>1. n + 1 \in Nat /\ n + 1 # 0 /\ (n + 1) - 1 = n /\ n \in Nat
    OBVIOUS
  <2>2. Pow2[n + 1] = 2 * Pow2[n]
    BY <1>5, <2>1
  <2> QED BY <1>3, <2>1, <2>2
<1> HIDE DEF T
<1>8. T = Nat
  <2>1. T \in SUBSET Nat
    BY DEF T
  <2> QED BY <1>6, <1>7, <2>1, Ind
<1>9. \A n \in Nat : Pow2[n] = f[n]
  BY <1>8 DEF T
<1> QED BY <1>2, <1>3, <1>9 DEF V


\* The value of bit i of a.
BitValue(a, i) == IF HasBit(a, i) THEN Pow2[i] ELSE 0

\* One more bit of a.
LEMMA OneMoreBit ==
  ASSUME NEW a \in Nat, NEW p \in Nat \ {0}
  PROVE  a % (2 * p) = (a % p) + (IF (a \div p) % 2 = 1 THEN p ELSE 0)
<1> DEFINE d == a \div p
           m == a % p
           e == d \div 2
           b == d % 2
<1>1. d \in Int /\ m \in 0..(p - 1) /\ a = p * d + m
  BY Division
<1> HIDE DEF d, m
<1>2. e \in Int /\ b \in 0..1 /\ d = 2 * e + b
  <2>1. 2 \in Nat \ {0} /\ 2 - 1 = 1
    OBVIOUS
  <2> QED BY <1>1, <2>1, Division
<1> HIDE DEF e, b
<1>3. 2 * p \in Nat \ {0}
  OBVIOUS
<1>4. CASE b = 0
  <2>1. a = (2 * p) * e + m /\ m \in 0..(2 * p - 1)
    BY <1>1, <1>2, <1>4
  <2>2. a % (2 * p) = m
    BY <1>2, <1>3, <2>1, Remainder
  <2> QED BY <1>1, <1>4, <2>2 DEF b, d, m
<1>5. CASE b = 1
  <2>1. a = (2 * p) * e + (m + p) /\ m + p \in 0..(2 * p - 1)
    <3>1. d = 2 * e + 1
      BY <1>2, <1>5
    <3>2. p * (2 * e + 1) = (2 * p) * e + p
      BY <1>2
    <3> QED BY <1>1, <1>2, <3>1, <3>2
  <2>2. a % (2 * p) = m + p
    BY <1>2, <1>3, <2>1, Remainder
  <2> QED BY <1>1, <1>5, <2>2 DEF b, d, m
<1> QED BY <1>2, <1>4, <1>5

AreBits(a, n, f, h) ==
  \A i \in 0..(n - 1) : f[i] = BitValue(a, i) /\ h[i] = Pow2[i] - BitValue(a, i)

\* The bits of a make up a, and those that are not set its complement.
LEMMA BitsMakeUp ==
  ASSUME NEW a \in Nat, NEW n \in Nat, NEW f, NEW h, AreBits(a, n, f, h)
  PROVE  /\ Total(f, 0..(n - 1)) = a % Pow2[n]
         /\ Total(h, 0..(n - 1)) = (Pow2[n] - 1) - (a % Pow2[n])
<1> DEFINE Holds(k) == /\ Total(f, 0..(k - 1)) = a % Pow2[k]
                       /\ Total(h, 0..(k - 1)) = (Pow2[k] - 1) - (a % Pow2[k])
           T == {k \in Nat : k <= n => Holds(k)}
<1>0. ASSUME NEW k \in Nat PROVE Pow2[k] \in Nat \ {0} /\ a % Pow2[k] \in Int
  <2>1. Pow2[k] \in Nat \ {0} /\ a \in Int
    BY Pow2Is
  <2>2. a % Pow2[k] \in 0..(Pow2[k] - 1)
    BY <2>1, Division
  <2> QED BY <2>1, <2>2
<1>1. 0 \in T
  <2>1. 0..(0 - 1) = {} /\ Pow2[0] = 1
    BY Pow2Is
  <2>2. Total(f, {}) = 0 /\ Total(h, {}) = 0
    BY TotalEmpty
  <2>3. a % 1 = 0
    OBVIOUS
  <2> QED BY <2>1, <2>2, <2>3
<1>2. ASSUME NEW k \in T PROVE k + 1 \in T
  <2>0. k \in Nat /\ (k + 1) - 1 = k
    OBVIOUS
  <2>1. CASE k + 1 <= n
    <3> DEFINE p == Pow2[k]
               v == BitValue(a, k)
    <3>1. p \in Nat \ {0} /\ Pow2[k + 1] = 2 * p /\ v \in {0, p}
      BY <1>0, <2>0, Pow2Is DEF BitValue
    <3>2. v = IF (a \div p) % 2 = 1 THEN p ELSE 0
      BY DEF BitValue, HasBit
    <3>3. a % (2 * p) = (a % p) + v
      BY <3>1, <3>2, OneMoreBit
    <3>4. ASSUME NEW i \in 0..k PROVE f[i] \in Int /\ h[i] \in Int
      <4>1. i \in 0..(n - 1) /\ Pow2[i] \in Int
        BY <1>0, <2>1
      <4> QED BY <4>1 DEF BitValue, AreBits
    <3>5. f[k] = v /\ h[k] = p - v
      BY <2>0, <2>1 DEF AreBits
    <3> HIDE DEF p, v
    <3>6. /\ Total(f, 0..k) = Total(f, 0..(k - 1)) + v
          /\ Total(h, 0..k) = Total(h, 0..(k - 1)) + (p - v)
      BY <2>0, <3>4, <3>5, TotalUpTo
    <3>7. Total(f, 0..(k - 1)) = a % p /\ Total(h, 0..(k - 1)) = (p - 1) - (a % p) /\ a % p \in Int
      BY <1>0, <2>0, <2>1 DEF p
    <3>8. v \in Int /\ p \in Int
      BY <3>1
    <3> DEFINE r == a % p
    <3> HIDE DEF r
    <3>9. Total(f, 0..k) = r + v /\ Total(h, 0..k) = (2 * p - 1) - (r + v)
      BY <3>6, <3>7, <3>8 DEF r
    <3> QED BY <2>0, <3>1, <3>3, <3>9 DEF r
  <2>2. CASE ~(k + 1 <= n)
    BY <2>2
  <2> QED BY <2>1, <2>2
<1> HIDE DEF T
<1>3. T = Nat
  <2>1. T \in SUBSET Nat
    BY DEF T
  <2> QED BY <1>1, <1>2, <2>1, Ind
<1>4. n \in T /\ n <= n
  BY <1>3
<1> QED BY <1>4 DEF T

\* An amount that has a range proof is below the weight after the last bit.
LEMMA AmountFits ==
  ASSUME NEW a \in 0..MaxAmount
  PROVE  a \in Nat /\ a % Pow2[Bits] = a
<1>1. Bits \in Nat
  BY PaymentsAssumption
<1> DEFINE p == Pow2[Bits]
<1>2. p \in Nat \ {0}
  BY <1>1, Pow2Is
<1>3. a \in 0..(p - 1)
  BY DEF MaxAmount
<1> HIDE DEF p
<1>4. 0 \in Int /\ a = p * 0 + a
  BY <1>2, <1>3
<1>5. a % p = a
  BY <1>2, <1>3, <1>4, Remainder
<1> QED BY <1>3, <1>5 DEF p

-------------------------------------------------------------------------------
(* Commitments.                                                              *)

\* Hash and HashPt return 256 bits, whatever is appended.
HashIsNumber == \A s \in Seq(Int) : HashOf(s) \in Nat

\* So hashes are numbers, ...
LEMMA HashOfSeq ==
  ASSUME HashIsNumber, NEW s \in Seq(Int)
  PROVE  HashOf(s) \in Int
<1>1. HashOf(s) \in Nat
  BY DEF HashIsNumber
<1> QED BY <1>1

\* ... also of one number.
LEMMA HashOfOne == ASSUME HashIsNumber, NEW n \in Int PROVE HashOf(<<n>>) \in Int
<1>1. <<n>> \in Seq(Int)
  OBVIOUS
<1> QED BY <1>1, HashOfSeq

\* The parameters are numbers.
LEMMA Scalars == Q \in Nat \ {0} /\ Q \in Int /\ H \in Int /\ Bits \in Nat \ {0} /\ RingSize \in Nat \ {0}
  BY PaymentsAssumption

\* The blinds of the bits add up to the target.
LEMMA BlindsAddUp ==
  ASSUME HashIsNumber, NEW target \in Int
  PROVE  /\ ComputeBlinds(target) \in [Bit -> Int]
         /\ Total(ComputeBlinds(target), Bit) \in Int
         /\ Same(Total(ComputeBlinds(target), Bit), target)
<1> DEFINE drawn == [i \in Bit |-> HashOf(IF i = 0 THEN <<target>> ELSE <<>>)]
           last == Bits - 1
           rest == Total(drawn, 0..(last - 1))
           blinds == ComputeBlinds(target)
<1>1. last \in Nat /\ Bit = 0..last /\ Bit \ {last} = 0..(last - 1)
  BY Scalars DEF Bit
<1>2. \A i \in Bit : drawn[i] \in Int
  <2>1. <<target>> \in Seq(Int) /\ <<>> \in Seq(Int)
    OBVIOUS
  <2>2. HashOf(<<target>>) \in Int /\ HashOf(<<>>) \in Int
    BY <2>1, HashOfSeq
  <2> QED BY <2>2
<1> HIDE DEF last
<1>3. blinds = [drawn EXCEPT ![last] = (target - (rest % Q)) % Q]
  BY <1>1 DEF ComputeBlinds, Sum, last
<1>4. drawn \in [Bit -> Int]
  BY <1>2
<1> HIDE DEF drawn
<1>5. rest \in Int
  BY <1>1, <1>2, TotalUpTo
<1> HIDE DEF blinds
<1> DEFINE b == (target - (rest % Q)) % Q
<1>6. b \in Int /\ Same(b, target - rest)
  <2> DEFINE r == rest % Q
  <2>1. r \in Int /\ Same(r, rest)
    BY <1>5, SameIsMod
  <2> HIDE DEF r, rest
  <2>2. target - r \in Int /\ target - rest \in Int
    BY <1>5, <2>1
  <2>3. Same(target, target)
    BY SameRefl
  <2>4. Same(target - r, target - rest)
    BY <1>5, <2>1, <2>3, SameSum
  <2>5. (target - r) % Q \in Int /\ Same((target - r) % Q, target - r)
    BY <2>2, SameIsMod
  <2>6. Same((target - r) % Q, target - rest)
    BY <2>2, <2>4, <2>5, SameTrans
  <2> QED BY <2>5, <2>6 DEF r
<1>7. blinds \in [Bit -> Int] /\ blinds[last] = b /\ \A i \in 0..(last - 1) : blinds[i] = drawn[i]
  BY <1>1, <1>3, <1>4, <1>6
<1> HIDE DEF b
<1>8. Total(blinds, 0..(last - 1)) = rest
  <2>1. \A i \in 0..(last - 1) : drawn[i] \in Int
    BY <1>1, <1>2
  <2> QED BY <1>1, <1>7, <2>1, TotalSame
<1>9. Total(blinds, Bit) \in Int /\ Total(blinds, Bit) = rest + b
  <2>1. \A i \in 0..last : blinds[i] \in Int
    BY <1>1, <1>7
  <2> QED BY <1>1, <1>7, <1>8, <2>1, TotalUpTo
<1> HIDE DEF rest
<1>10. Same(rest + b, rest + (target - rest)) /\ rest + (target - rest) = target
  <2>1. Same(rest, rest) /\ target - rest \in Int
    BY <1>5, SameRefl
  <2> QED BY <1>5, <1>6, <2>1, SameSum
<1> QED BY <1>7, <1>9, <1>10 DEF blinds

\* The two keys of a bit commit to its value, and to that less the weight.
LEMMA KeysOfBit ==
  ASSUME NEW amt, NEW i \in Bit, NEW blind \in Int
  PROVE  LET pks == PKsForAmt(amt, i, blind)
         IN  /\ pks \in Seq(Int) /\ Len(pks) = 2 /\ pks[1] \in Int /\ pks[2] \in Int
             /\ BitValue(amt, i) \in Int /\ Pow2[i] \in Int
             /\ Same(pks[1], blind + BitValue(amt, i) * H)
             /\ Same(pks[2], blind + (BitValue(amt, i) - Pow2[i]) * H)
<1> DEFINE w == Pow2[i]
           v == BitValue(amt, i)
           c0 == (blind + v * H) % Q
           d == (0 + w * H) % Q
<1>1. w \in Int
  <2>1. i \in Nat
    BY Scalars DEF Bit
  <2> QED BY <2>1, Pow2Is
<1>2. v \in Int
  BY <1>1 DEF BitValue
<1>3. PKsForAmt(amt, i, blind) = <<c0, (c0 - d) % Q>>
  BY DEF PKsForAmt, PedersenSum, BitValue
<1> HIDE DEF w, v
<1>4. v * H \in Int /\ w * H \in Int
  BY <1>1, <1>2, Scalars
<1> DEFINE vh == v * H
           wh == w * H
<1> HIDE DEF vh, wh
<1>5. vh \in Int /\ wh \in Int /\ blind + vh \in Int /\ 0 + wh = wh
  BY <1>4 DEF vh, wh
<1>6. c0 \in Int /\ Same(c0, blind + vh)
  BY <1>5, SameIsMod DEF vh
<1>7. d \in Int /\ Same(d, wh)
  BY <1>5, SameIsMod DEF wh
<1> HIDE DEF c0, d
<1>8. c0 - d \in Int /\ (c0 - d) % Q \in Int /\ Same((c0 - d) % Q, c0 - d)
  BY <1>6, <1>7, SameIsMod
<1>9. Same(c0 - d, (blind + vh) - wh)
  BY <1>5, <1>6, <1>7, SameSum
<1>10. Same((c0 - d) % Q, (blind + vh) - wh) /\ (blind + vh) - wh \in Int
  BY <1>5, <1>8, <1>9, SameTrans
<1>11. (blind + vh) - wh = blind + (v - w) * H
  BY <1>1, <1>2, Scalars DEF vh, wh
<1> QED BY <1>1, <1>2, <1>3, <1>6, <1>8, <1>10, <1>11 DEF v, w, vh

\* A sum of combinations is the combination of the sums.
LEMMA SumOfCombined ==
  ASSUME NEW m \in Nat, NEW c, NEW b, NEW v, NEW w \in Int,
         \A i \in 0..(m - 1) : /\ c[i] \in Int /\ b[i] \in Int /\ v[i] \in Int
                               /\ Same(c[i], b[i] + v[i] * w)
  PROVE  Same(Total(c, 0..(m - 1)), Total(b, 0..(m - 1)) + Total(v, 0..(m - 1)) * w)
<1> DEFINE Up(f, k) == Total(f, 0..(k - 1))
           Holds(k) == Same(Up(c, k), Up(b, k) + Up(v, k) * w)
           T == {k \in Nat : k <= m => Holds(k)}
<1>1. 0 \in T
  <2>1. 0..(0 - 1) = {}
    OBVIOUS
  <2>2. Total(c, {}) = 0 /\ Total(b, {}) = 0 /\ Total(v, {}) = 0
    BY TotalEmpty
  <2>3. 0 + 0 * w = 0 /\ Same(0, 0)
    BY SameRefl
  <2> QED BY <2>1, <2>2, <2>3
<1>2. ASSUME NEW k \in T PROVE k + 1 \in T
  <2>0. k \in Nat /\ (k + 1) - 1 = k
    OBVIOUS
  <2>1. CASE k + 1 <= m
    <3>1. \A i \in 0..k : c[i] \in Int /\ b[i] \in Int /\ v[i] \in Int
      BY <2>1
    <3>2. c[k] \in Int /\ b[k] \in Int /\ v[k] \in Int /\ Same(c[k], b[k] + v[k] * w)
      BY <2>0, <2>1
    <3>3. /\ Up(c, k) \in Int /\ Total(c, 0..k) = Up(c, k) + c[k]
          /\ Up(b, k) \in Int /\ Total(b, 0..k) = Up(b, k) + b[k]
          /\ Up(v, k) \in Int /\ Total(v, 0..k) = Up(v, k) + v[k]
      BY <2>0, <3>1, TotalUpTo
    <3>4. Holds(k)
      BY <2>1
    <3> HIDE DEF Up
    <3> DEFINE x == Up(b, k) + Up(v, k) * w
               y == b[k] + v[k] * w
    <3>5. x \in Int /\ y \in Int
      BY <3>2, <3>3
    <3>6. Same(Up(c, k) + c[k], x + y)
      <4> HIDE DEF x, y
      <4>1. Same(Up(c, k), x) /\ Same(c[k], y)
        BY <3>2, <3>4 DEF x, y
      <4> QED BY <3>2, <3>3, <3>5, <4>1, SameSum
    <3>7. x + y = (Up(b, k) + b[k]) + (Up(v, k) + v[k]) * w
      BY <3>2, <3>3
    <3> HIDE DEF x, y
    <3>8. Holds(k + 1)
      BY <2>0, <3>3, <3>6, <3>7 DEF Up
    <3> QED BY <2>0, <3>8
  <2>2. CASE ~(k + 1 <= m)
    BY <2>2
  <2> QED BY <2>1, <2>2
<1> HIDE DEF T
<1>3. T = Nat
  <2>1. T \in SUBSET Nat
    BY DEF T
  <2> QED BY <1>1, <1>2, <2>1, Ind
<1>4. m \in T /\ m <= m
  BY <1>3
<1> QED BY <1>4 DEF T

\* What the first keys of a range proof add up to commits to the amount, under
\* the blinding factor that was the target.
LEMMA CommitIs ==
  ASSUME HashIsNumber, NEW amt \in 0..MaxAmount, NEW target \in Int, NEW tape
  PROVE  LET c == CommitmentOf(RangeSign(amt, target, tape))
         IN  c \in Int /\ Same(c, target + amt * H)
<1> DEFINE blinds == ComputeBlinds(target)
           pks == RangeSign(amt, target, tape).pks
           firsts == [i \in Bit |-> pks[i][1]]
           values == [i \in Bit |-> BitValue(amt, i)]
<1>1. pks = [i \in Bit |-> PKsForAmt(amt, i, blinds[i])]
  BY DEF RangeSign
<1>2. blinds \in [Bit -> Int] /\ Total(blinds, Bit) \in Int /\ Same(Total(blinds, Bit), target)
  BY BlindsAddUp
<1>3. Bits \in Nat /\ Bit = 0..(Bits - 1) /\ amt \in Nat /\ amt % Pow2[Bits] = amt /\ amt \in Int
  BY Scalars, AmountFits DEF Bit
<1>4. CommitmentOf(RangeSign(amt, target, tape)) = Total(firsts, Bit) % Q
  BY DEF CommitmentOf, Sum
<1> HIDE DEF blinds, pks
<1>5. ASSUME NEW i \in Bit
      PROVE  /\ firsts[i] \in Int /\ blinds[i] \in Int /\ values[i] \in Int
             /\ Same(firsts[i], blinds[i] + values[i] * H)
  BY <1>1, <1>2, KeysOfBit
<1>6. Total(values, Bit) = amt
  <2> DEFINE others == [i \in Bit |-> Pow2[i] - BitValue(amt, i)]
  <2>1. AreBits(amt, Bits, values, others)
    BY <1>3 DEF AreBits
  <2> HIDE DEF values, others
  <2>2. Total(values, 0..(Bits - 1)) = amt % Pow2[Bits]
    BY <1>3, <2>1, BitsMakeUp
  <2> QED BY <1>3, <2>2
<1> HIDE DEF firsts, values
<1>7. Total(firsts, Bit) \in Int
  <2>1. IsFiniteSet(Bit)
    BY <1>3, FS_Interval
  <2> QED BY <1>5, <2>1, TotalStep
<1>8. Same(Total(firsts, Bit), Total(blinds, Bit) + amt * H)
  <2>1. \A i \in 0..(Bits - 1) : /\ firsts[i] \in Int /\ blinds[i] \in Int /\ values[i] \in Int
                                 /\ Same(firsts[i], blinds[i] + values[i] * H)
    BY <1>3, <1>5
  <2>2. H \in Int
    BY Scalars
  <2>3. Same(Total(firsts, Bit), Total(blinds, Bit) + Total(values, Bit) * H)
    BY <1>3, <2>1, <2>2, SumOfCombined
  <2> QED BY <1>6, <2>3
<1> DEFINE s == Total(firsts, Bit)
           t == Total(blinds, Bit)
           ah == amt * H
<1>9. ah \in Int
  BY <1>3, Scalars
<1> HIDE DEF s, t, ah
<1>10. s \in Int /\ t \in Int /\ Same(s, t + ah) /\ Same(t, target)
  BY <1>2, <1>7, <1>8 DEF s, t, ah
<1>11. Same(t + ah, target + ah) /\ t + ah \in Int /\ target + ah \in Int
  BY <1>9, <1>10, SameRefl, SameSum
<1>12. s % Q \in Int /\ Same(s % Q, s)
  BY <1>10, SameIsMod
<1>13. Same(s % Q, t + ah)
  BY <1>10, <1>11, <1>12, SameTrans
<1>14. Same(s % Q, target + ah)
  BY <1>11, <1>12, <1>13, SameTrans
<1> QED BY <1>4, <1>12, <1>14 DEF s, ah

-------------------------------------------------------------------------------
(* Range proofs.                                                             *)

\* What is read from a tape is on the tape.
LEMMA TapeAt ==
  ASSUME NEW tape \in Seq(Nat), Len(tape) >= 2, NEW n \in Nat
  PROVE  At(tape, n) \in Nat /\ At(tape, n) \in Int /\ \E m \in DOMAIN tape : At(tape, n) = tape[m]
<1>1. Len(tape) \in Nat \ {0} /\ n \in Int
  OBVIOUS
<1> DEFINE l == Len(tape)
<1>2. n % l \in 0..(l - 1)
  BY <1>1, Division
<1>3. 1 + (n % l) \in DOMAIN tape
  BY <1>1, <1>2
<1> QED BY <1>3 DEF At

\* Points of a proof are numbers.
LEMMA ComputeRType ==
  ASSUME NEW s \in Int, NEW e \in Int, NEW pk \in Int
  PROVE  ComputeR(s, e, pk) \in Int
<1> DEFINE x == s - e * pk
<1>1. x \in Int
  OBVIOUS
<1> HIDE DEF x
<1>2. x % Q \in Int
  BY <1>1, SameIsMod
<1> QED BY <1>2 DEF ComputeR, PedersenDiffPK, x

\* Who knows what pk commits to can answer any challenge.
LEMMA Closes ==
  ASSUME NEW b \in Int, NEW k \in Int, NEW e \in Int, NEW pk \in Int, Same(pk, b)
  PROVE  TimeTravel(b, k, e) \in Int /\ ComputeR(TimeTravel(b, k, e), e, pk) = k % Q
<1> DEFINE x == (e * b + k) - e * pk
<1>1. PICK j \in Int : pk = b + Q * j
  BY DEF Same
<1>2. x = k + Q * (-(e * j)) /\ -(e * j) \in Int /\ x \in Int
  BY <1>1, Scalars
<1>3. Same(x, k)
  BY <1>2 DEF Same
<1> HIDE DEF x
<1>4. x % Q = k % Q
  BY <1>2, <1>3, SameIsMod
<1> QED BY <1>4 DEF ComputeR, PedersenDiffPK, TimeTravel, x

\* Everybody accepts the range proof of any amount.
LEMMA RangeVerifies ==
  ASSUME HashIsNumber, NEW amt \in Nat, NEW target \in Int,
         NEW tape \in Seq(Nat), Len(tape) >= 2
  PROVE  VerifyRange(RangeSign(amt, target, tape))
<1> DEFINE blinds == ComputeBlinds(target)
           pks == [i \in Bit |-> PKsForAmt(amt, i, blinds[i])]
           hashM == HashPKs(pks)
           k(i) == At(tape, 2 * i)
           any(i) == At(tape, 2 * i + 1)
           r == [i \in Bit |-> IF HasBit(amt, i) THEN k(i) % Q
                               ELSE ComputeR(any(i), HashOf(<<hashM, k(i) % Q>>), pks[i][2])]
           e == HashRs(hashM, r)
           ss == [i \in Bit |->
             IF HasBit(amt, i)
             THEN <<any(i), TimeTravel(blinds[i], k(i), ComputeE(hashM, any(i), e, pks[i][1]))>>
             ELSE <<TimeTravel(blinds[i], k(i), e), any(i)>>]
           rp == RangeSign(amt, target, tape)
           again == [i \in Bit |->
             ComputeR(ss[i][2], ComputeE(hashM, ss[i][1], e, pks[i][1]), pks[i][2])]
<1>1. rp = [e |-> e, pks |-> pks, ss |-> ss]
  BY DEF RangeSign
<1>2. Bits \in Nat /\ Bit = 0..(Bits - 1) /\ blinds \in [Bit -> Int]
  BY Scalars, BlindsAddUp DEF Bit
<1> HIDE DEF blinds
<1>3. ASSUME NEW i \in Bit
      PROVE  /\ k(i) \in Int /\ k(i) % Q \in Int /\ any(i) \in Int /\ blinds[i] \in Int
             /\ pks[i][1] \in Int /\ pks[i][2] \in Int
             /\ HasBit(amt, i) => Same(pks[i][2], blinds[i])
             /\ ~HasBit(amt, i) => Same(pks[i][1], blinds[i])
  <2>1. 2 * i \in Nat /\ 2 * i + 1 \in Nat
    BY <1>2
  <2>2. k(i) \in Int /\ any(i) \in Int
    BY <2>1, TapeAt
  <2> HIDE DEF k
  <2>3. k(i) % Q \in Int
    BY <2>2, SameIsMod
  <2>4. /\ pks[i][1] \in Int /\ pks[i][2] \in Int /\ blinds[i] \in Int /\ Pow2[i] \in Int
        /\ Same(pks[i][1], blinds[i] + BitValue(amt, i) * H)
        /\ Same(pks[i][2], blinds[i] + (BitValue(amt, i) - Pow2[i]) * H)
    BY <1>2, KeysOfBit
  <2> HIDE DEF pks
  <2>5. HasBit(amt, i) => Same(pks[i][2], blinds[i])
    <3>1. HasBit(amt, i) => blinds[i] + (BitValue(amt, i) - Pow2[i]) * H = blinds[i]
      BY <2>4, Scalars DEF BitValue
    <3> QED BY <2>4, <3>1
  <2>6. ~HasBit(amt, i) => Same(pks[i][1], blinds[i])
    <3>1. ~HasBit(amt, i) => blinds[i] + BitValue(amt, i) * H = blinds[i]
      BY <2>4, Scalars DEF BitValue
    <3> QED BY <2>4, <3>1
  <2> QED BY <2>2, <2>3, <2>4, <2>5, <2>6
<1>4. hashM \in Int
  <2> DEFINE s == [n \in 1..(2 * Bits) |-> pks[(n - 1) \div 2][2 - (n % 2)]]
  <2>1. ASSUME NEW n \in 1..(2 * Bits) PROVE s[n] \in Int
    <3>1. (n - 1) \div 2 \in Bit /\ 2 - (n % 2) \in {1, 2}
      BY <1>2
    <3> HIDE DEF pks
    <3> QED BY <1>3, <3>1
  <2>2. s \in Seq(Int)
    <3>1. 2 * Bits \in Nat
      BY <1>2
    <3> HIDE DEF pks
    <3> QED BY <2>1, <3>1
  <2> HIDE DEF s, pks
  <2>3. HashOf(s) \in Int
    BY <2>2, HashOfSeq
  <2> QED BY <2>3 DEF HashPKs, s
<1> HIDE DEF pks, hashM, k, any
<1>5. ASSUME NEW i \in Bit PROVE HashOf(<<hashM, k(i) % Q>>) \in Int /\ r[i] \in Int
  <2>1. <<hashM, k(i) % Q>> \in Seq(Int)
    BY <1>3, <1>4
  <2>2. HashOf(<<hashM, k(i) % Q>>) \in Int
    BY <2>1, HashOfSeq
  <2> QED BY <1>3, <2>2, ComputeRType
<1>6. e \in Int
  <2> DEFINE s == [n \in 1..Bits |-> r[n - 1]]
  <2>1. s \in Seq(Int)
    <3>1. \A i \in Bit : r[i] \in Int
      BY <1>5
    <3> HIDE DEF r
    <3>2. \A n \in 1..Bits : n - 1 \in Bit
      BY <1>2
    <3>3. \A n \in 1..Bits : s[n] \in Int
      BY <3>1, <3>2
    <3> QED BY <1>2, <3>3
  <2> HIDE DEF s, r
  <2>2. <<hashM>> \o s \in Seq(Int)
    BY <1>4, <2>1
  <2>3. HashOf(<<hashM>> \o s) \in Int
    BY <2>2, HashOfSeq
  <2> QED BY <2>3 DEF HashRs, s
<1> HIDE DEF e
<1>7. ASSUME NEW i \in Bit PROVE again[i] = r[i]
  <2>1. CASE HasBit(amt, i)
    <3> DEFINE e1 == ComputeE(hashM, any(i), e, pks[i][1])
    <3>1. ss[i] = <<any(i), TimeTravel(blinds[i], k(i), e1)>>
      BY <2>1
    <3>2. e1 \in Int
      <4>1. ComputeR(any(i), e, pks[i][1]) \in Int
        BY <1>3, <1>6, ComputeRType
      <4>2. <<hashM, ComputeR(any(i), e, pks[i][1])>> \in Seq(Int)
        BY <1>4, <4>1
      <4>3. HashOf(<<hashM, ComputeR(any(i), e, pks[i][1])>>) \in Int
        BY <4>2, HashOfSeq
      <4> QED BY <4>3 DEF ComputeE
    <3> HIDE DEF e1, ss
    <3>3. ComputeR(TimeTravel(blinds[i], k(i), e1), e1, pks[i][2]) = k(i) % Q
      BY <1>3, <2>1, <3>2, Closes
    <3>4. ss[i][1] = any(i) /\ ss[i][2] = TimeTravel(blinds[i], k(i), e1)
      BY <3>1
    <3>5. again[i] = ComputeR(ss[i][2], e1, pks[i][2])
      BY <3>4 DEF e1
    <3> QED BY <2>1, <3>3, <3>4, <3>5
  <2>2. CASE ~HasBit(amt, i)
    <3> DEFINE s == TimeTravel(blinds[i], k(i), e)
    <3>1. ss[i] = <<s, any(i)>>
      BY <2>2
    <3> HIDE DEF ss
    <3>2. ComputeR(s, e, pks[i][1]) = k(i) % Q
      BY <1>3, <1>6, <2>2, Closes
    <3> HIDE DEF s
    <3>3. ComputeE(hashM, s, e, pks[i][1]) = HashOf(<<hashM, k(i) % Q>>)
      BY <3>2 DEF ComputeE
    <3>4. ss[i][1] = s /\ ss[i][2] = any(i)
      BY <3>1
    <3> QED BY <2>2, <3>3, <3>4
  <2> QED BY <2>1, <2>2
<1>8. again = r
  <2> HIDE DEF ss
  <2> QED BY <1>7
<1>9. VerifyRange(rp) <=> rp.e = HashRs(HashPKs(rp.pks), [i \in Bit |->
        ComputeR(rp.ss[i][2], ComputeE(HashPKs(rp.pks), rp.ss[i][1], rp.e, rp.pks[i][1]), rp.pks[i][2])])
  <2> HIDE DEF rp
  <2> QED BY DEF VerifyRange
<1>10. rp.e = e /\ rp.pks = pks /\ rp.ss = ss
  <2> HIDE DEF rp, ss
  <2> QED BY <1>1
<1> HIDE DEF rp, ss
<1>11. VerifyRange(rp) <=> e = HashRs(hashM, again)
  BY <1>9, <1>10 DEF hashM
<1> HIDE DEF again, r
<1> QED BY <1>8, <1>11 DEF e, rp

\* What the owner of the blinding factor reads are the bits that are not set.
LEMMA DecryptIs ==
  ASSUME HashIsNumber, NEW o, NEW addr, NEW amt \in 0..MaxAmount, NEW tape,
         ComputeBlindingFactor(o, addr) \in Int,
         o.proof = RangeSign(amt, ComputeBlindingFactor(o, addr), tape)
  PROVE  DecryptAmount(o, addr) = MaxAmount - amt
<1> DEFINE blinds == ComputeBlinds(ComputeBlindingFactor(o, addr))
           pks == o.proof.pks
           zero(i) == {j \in 0..1 : (o.proof.pks[i][j + 1] - blinds[i]) % Q = 0}
           first(i) == IF 0 \in zero(i) THEN 0 ELSE 1
           read == [i \in Bit |-> Pow2[i] * (1 - first(i))]
<1>1. pks = [i \in Bit |-> PKsForAmt(amt, i, blinds[i])]
  BY DEF RangeSign
<1>2. Bits \in Nat /\ Bit = 0..(Bits - 1) /\ blinds \in [Bit -> Int]
  BY Scalars, BlindsAddUp DEF Bit
<1>3. DecryptAmount(o, addr) = IF \E i \in Bit : zero(i) = {} THEN -1 ELSE Total(read, Bit)
  BY DEF DecryptAmount
<1> HIDE DEF blinds, pks
<1>4. ASSUME NEW i \in Bit PROVE zero(i) # {} /\ read[i] = Pow2[i] - BitValue(amt, i)
  <2> DEFINE p == pks[i][1]
             q == pks[i][2]
             b == blinds[i]
             w == Pow2[i]
  <2>1. /\ p \in Int /\ q \in Int /\ b \in Int /\ w \in Int
        /\ Same(p, b + BitValue(amt, i) * H)
        /\ Same(q, b + (BitValue(amt, i) - w) * H)
    BY <1>1, <1>2, KeysOfBit
  <2>2. /\ 0 \in zero(i) <=> (p - b) % Q = 0
        /\ 1 \in zero(i) <=> (q - b) % Q = 0
    BY DEF pks
  <2> HIDE DEF p, q, b, zero
  <2>3. CASE HasBit(amt, i)
    <3>1. BitValue(amt, i) = w
      BY <2>3 DEF BitValue
    <3> HIDE DEF w
    <3>2. Same(q, b)
      <4>1. b + (w - w) * H = b
        BY <2>1, Scalars
      <4> QED BY <2>1, <3>1, <4>1
    <3>3. 1 \in zero(i)
      BY <2>1, <2>2, <3>2, SameIsMod
    <3>4. ASSUME 0 \in zero(i) PROVE FALSE
      <4>1. Same(p, b)
        BY <2>1, <2>2, <3>4, SameIsMod
      <4> DEFINE wh == w * H
      <4>2. wh \in Int /\ Same(p, b + wh)
        BY <2>1, <3>1, Scalars
      <4>3. wh % Q # 0
        BY PaymentsAssumption DEF Bit, w
      <4> HIDE DEF wh
      <4>4. Same(p - p, (b + wh) - b) /\ (b + wh) - b = wh /\ p - p = 0
        BY <2>1, <4>1, <4>2, SameSum
      <4>5. Same(wh - 0, 0)
        BY <4>2, <4>4, SameIsMod
      <4>6. (wh - 0) % Q = 0 % Q /\ wh - 0 = wh
        BY <4>2, <4>5, SameIsMod
      <4>7. 0 % Q = 0
        BY Scalars
      <4> QED BY <4>3, <4>6, <4>7
    <3>5. first(i) = 1
      BY <3>4
    <3> HIDE DEF first
    <3>6. read[i] = w * (1 - 1)
      BY <3>5 DEF w
    <3> QED BY <2>1, <3>1, <3>3, <3>6 DEF w
  <2>4. CASE ~HasBit(amt, i)
    <3>1. BitValue(amt, i) = 0
      BY <2>4 DEF BitValue
    <3> HIDE DEF w
    <3>2. Same(p, b)
      <4>1. b + 0 * H = b
        BY <2>1, Scalars
      <4> QED BY <2>1, <3>1, <4>1
    <3>3. 0 \in zero(i)
      BY <2>1, <2>2, <3>2, SameIsMod
    <3>4. first(i) = 0
      BY <3>3
    <3> HIDE DEF first
    <3>5. read[i] = w * (1 - 0)
      BY <3>4 DEF w
    <3> QED BY <2>1, <3>1, <3>3, <3>5 DEF w
  <2> QED BY <2>3, <2>4
<1> HIDE DEF zero
<1>5. DecryptAmount(o, addr) = Total(read, Bit)
  BY <1>3, <1>4
<1> DEFINE values == [i \in Bit |-> BitValue(amt, i)]
<1>6. AreBits(amt, Bits, values, read)
  <2> HIDE DEF read
  <2> QED BY <1>2, <1>4 DEF AreBits
<1> HIDE DEF read, values
<1>7. amt \in Nat /\ amt % Pow2[Bits] = amt
  BY AmountFits
<1>8. Total(read, 0..(Bits - 1)) = (Pow2[Bits] - 1) - (amt % Pow2[Bits])
  BY <1>2, <1>6, <1>7, BitsMakeUp
<1> QED BY <1>2, <1>5, <1>7, <1>8 DEF MaxAmount

-------------------------------------------------------------------------------
(* Outputs.                                                                  *)

\* What the sender makes of r, the recipient makes of R = r G.
LEMMA DestKeyMine ==
  ASSUME HashIsNumber, NEW addr \in Wallet, NEW r \in Nat
  PROVE  /\ DestKey(addr, r) \in Int
         /\ DestKey(addr, r) = (HashOf(<<((r % Q) * addr.tsk) % Q>>) + addr.psk) % Q
<1>1. addr.tsk \in Int /\ addr.psk \in Int /\ Q \in Nat \ {0} /\ r \in Int
  BY PaymentsAssumption
<1> DEFINE tsk == addr.tsk
           shared == (r * tsk) % Q
<1>2. tsk \in Int /\ r * tsk \in Int
  BY <1>1
<1> HIDE DEF tsk
<1>3. ((r % Q) * tsk) % Q = shared
  BY <1>1, <1>2, ModTimes
<1>4. shared \in Int
  <2> DEFINE p == r * tsk
  <2>1. p \in Int
    BY <1>2
  <2> HIDE DEF p
  <2>2. p % Q \in 0..(Q - 1)
    BY <1>1, <2>1, Division
  <2> QED BY <1>1, <2>2 DEF p
<1> HIDE DEF shared
<1>5. HashOf(<<shared>>) \in Int
  BY <1>4, HashOfOne
<1>6. (HashOf(<<shared>>) + addr.psk) % Q \in Int
  <2> DEFINE p == HashOf(<<shared>>) + addr.psk
  <2>1. p \in Int
    BY <1>1, <1>5
  <2> HIDE DEF p
  <2>2. p % Q \in 0..(Q - 1)
    BY <1>1, <2>1, Division
  <2> QED BY <1>1, <2>2 DEF p
<1>7. DestKey(addr, r) = (HashOf(<<shared>>) + addr.psk) % Q
  BY DEF DestKey, SharedSecret, shared, tsk
<1> QED BY <1>3, <1>6, <1>7 DEF tsk

\* ... and so it is with the blinding factor.
LEMMA BlindMine ==
  ASSUME HashIsNumber, NEW addr \in Wallet, NEW q \in Nat
  PROVE  /\ BlindFor(addr, q) \in Int
         /\ BlindFor(addr, q) = HashOf(<<((q % Q) * addr.psk) % Q>>)
<1> DEFINE psk == addr.psk
           x == q * psk
<1>1. psk \in Int /\ q \in Int /\ x \in Int
  BY PaymentsAssumption
<1> HIDE DEF psk
<1>2. ((q % Q) * psk) % Q = x % Q
  BY <1>1, Scalars, ModTimes
<1> HIDE DEF x
<1>3. x % Q \in Int
  BY <1>1, SameIsMod
<1>4. HashOf(<<x % Q>>) \in Int
  BY <1>3, HashOfOne
<1>5. BlindFor(addr, q) = HashOf(<<x % Q>>)
  BY DEF BlindFor, x, psk
<1> QED BY <1>2, <1>4, <1>5 DEF psk

\* The owner recognises an output, can open its commitment, and can read it if
\* it has a range proof.
Sound(o) ==
  /\ o.pub \in Int /\ o.dest \in Int /\ o.to \in Wallet /\ BelongsToMe(o, o.to)
  /\ o.amt \in 0..MaxAmount /\ o.commit \in Int /\ ComputeBlindingFactor(o, o.to) \in Int
  /\ Same(o.commit, ComputeBlindingFactor(o, o.to) + o.amt * H)
  /\ ~IsCoinbase(o) =>
       \E tape \in Seq(Nat) : o.proof = RangeSign(o.amt, ComputeBlindingFactor(o, o.to), tape)

\* A destination made this way is recognised by its owner.
LEMMA DestMine ==
  ASSUME HashIsNumber, NEW addr \in Wallet, NEW r \in Nat, NEW o,
         o.pub = r % Q, o.dest = DestKey(addr, r), o.to = addr
  PROVE  o.pub \in Int /\ o.dest \in Int /\ o.to \in Wallet /\ BelongsToMe(o, o.to)
<1>1. r \in Int
  OBVIOUS
<1>2. r % Q \in Int
  BY <1>1, SameIsMod
<1> QED BY <1>2, DestKeyMine DEF BelongsToMe, HashSharedSecret

\* A coinbase is sound, with no blinding factor (NewCoinbaseTxn).
LEMMA CoinbaseSound ==
  ASSUME HashIsNumber, NEW addr \in Wallet, NEW v \in 0..MaxAmount,
         NEW tape \in Seq(Nat), Len(tape) >= 2
  PROVE  Sound(CoinbaseOutput(addr, v, tape))
<1> DEFINE o == CoinbaseOutput(addr, v, tape)
           x == 0 + v * H
<1>1. /\ o.pub = tape[1] % Q /\ o.dest = DestKey(addr, tape[1]) /\ o.to = addr
      /\ o.seed = 0 /\ o.commit = x % Q /\ o.amt = v
  BY DEF CoinbaseOutput, PedersenSum
<1>2. tape[1] \in Nat /\ v \in Int
  OBVIOUS
<1>3. x \in Int
  BY <1>2, Scalars
<1> HIDE DEF o
<1>4. o.pub \in Int /\ o.dest \in Int /\ o.to \in Wallet /\ BelongsToMe(o, o.to)
  BY <1>1, <1>2, DestMine
<1>5. IsCoinbase(o) /\ ComputeBlindingFactor(o, o.to) = 0
  BY <1>1 DEF IsCoinbase, ComputeBlindingFactor
<1>6. 0 + o.amt * H = x
  BY <1>1
<1> HIDE DEF x
<1>7. x % Q \in Int /\ Same(x % Q, x)
  BY <1>3, SameIsMod
<1> QED BY <1>1, <1>4, <1>5, <1>6, <1>7 DEF Sound, o

\* An output of a payment is sound, and its range proof verifies
\* (BuildOutputs, CommitAmount).
LEMMA PaidSound ==
  ASSUME HashIsNumber, NEW addr \in Wallet, NEW amt \in 0..MaxAmount,
         NEW tape \in Seq(Nat), Len(tape) >= 2, tape[2] % Q # 0
  PROVE  LET o == BuildOutput(addr, amt, tape)
         IN  /\ Sound(o) /\ ComputeBlindingFactor(o, addr) = BlindFor(addr, tape[2])
             /\ VerifyRange(o.proof)
<1> DEFINE o == BuildOutput(addr, amt, tape)
           blind == BlindFor(addr, tape[2])
           rp == RangeSign(amt, blind, tape)
<1>1. /\ o.pub = tape[1] % Q /\ o.dest = DestKey(addr, tape[1]) /\ o.to = addr
      /\ o.seed = tape[2] % Q /\ o.commit = CommitmentOf(rp) /\ o.proof = rp /\ o.amt = amt
  BY DEF BuildOutput
<1>2. tape[1] \in Nat /\ tape[2] \in Nat /\ amt \in Nat
  BY AmountFits
<1> HIDE DEF o
<1>3. o.pub \in Int /\ o.dest \in Int /\ o.to \in Wallet /\ BelongsToMe(o, o.to)
  BY <1>1, <1>2, DestMine
<1>4. blind \in Int /\ blind = HashOf(<<((tape[2] % Q) * addr.psk) % Q>>)
  BY <1>2, BlindMine
<1>5. ~IsCoinbase(o) /\ ComputeBlindingFactor(o, addr) = blind
  BY <1>1, <1>4 DEF IsCoinbase, ComputeBlindingFactor
<1> HIDE DEF blind
<1>6. CommitmentOf(rp) \in Int /\ Same(CommitmentOf(rp), blind + amt * H)
  BY <1>4, CommitIs
<1>7. VerifyRange(rp)
  BY <1>2, <1>4, RangeVerifies
<1>8. \E t \in Seq(Nat) : o.proof = RangeSign(o.amt, ComputeBlindingFactor(o, o.to), t)
  BY <1>1, <1>5
<1> HIDE DEF rp
<1>9. Sound(o)
  BY <1>1, <1>3, <1>4, <1>5, <1>6, <1>8 DEF Sound
<1> QED BY <1>1, <1>5, <1>7, <1>9 DEF o, blind

\* The image shows the member of the ring at place idx, and the secret key.
LEMMA SignImage ==
  ASSUME NEW body, NEW sk, NEW yi, NEW idx, NEW yOut, NEW tape
  PROVE  OZRSSign(body, sk, yi, idx, yOut, tape).image = Preimage(Keys(body)[idx], sk)
BY DEF OZRSSign

\* With the key of its owner, the image of an output depends on nothing else.
LEMMA ImageOfOwner ==
  ASSUME HashIsNumber, NEW o, o.pub \in Int, o.dest \in Int, o.to \in Wallet, BelongsToMe(o, o.to)
  PROVE  Preimage(o.dest, ComputeTxnPrivateKey(o, o.to)) = (o.dest * HashOf(<<o.dest>>)) % Q
<1>1. o.to.tsk \in Int /\ o.to.psk \in Int /\ Q \in Nat \ {0}
  BY PaymentsAssumption
<1> DEFINE sk == ComputeTxnPrivateKey(o, o.to)
           hp == HashOf(<<o.dest>>)
<1>2. (o.pub * o.to.tsk) % Q \in Int
  <2> DEFINE p == o.pub * o.to.tsk
  <2>1. p \in Int
    BY <1>1
  <2> HIDE DEF p
  <2>2. p % Q \in 0..(Q - 1)
    BY <1>1, <2>1, Division
  <2> QED BY <1>1, <2>2 DEF p
<1>3. HashSharedSecret(o, o.to) \in Int /\ hp \in Int
  BY <1>2, HashOfOne DEF HashSharedSecret
<1>4. sk \in Int /\ sk % Q = o.dest
  BY <1>1, <1>3 DEF ComputeTxnPrivateKey, BelongsToMe
<1>5. Preimage(o.dest, sk) = (hp * sk) % Q
  BY DEF Preimage
<1> HIDE DEF sk, hp
<1>6. (hp * sk) % Q = (sk * hp) % Q
  BY <1>3, <1>4
<1>7. ((sk % Q) * hp) % Q = (sk * hp) % Q
  BY <1>1, <1>3, <1>4, ModTimes
<1>8. (hp * sk) % Q = (o.dest * hp) % Q
  BY <1>4, <1>6, <1>7
<1> QED BY <1>5, <1>8 DEF sk, hp

-------------------------------------------------------------------------------
(* Images and keys, whatever the amounts are.                                *)

\* The owner of an output recognises it, so that its secret key is the discrete
\* logarithm of the destination, and every image is that of the destination.
ImageInv ==
  /\ \A o \in chain : o.pub \in Int /\ o.dest \in Int /\ o.to \in Wallet /\ BelongsToMe(o, o.to)
  /\ \A x \in spends : x.image = (x.fund * HashOf(<<x.fund>>)) % Q

\* Both kinds of outputs have a destination of this kind.
LEMMA OutputsMine ==
  ASSUME HashIsNumber, NEW addr \in Wallet, NEW tape \in Seq(Nat), Len(tape) >= 2, NEW v,
         NEW o \in {CoinbaseOutput(addr, v, tape), BuildOutput(addr, v, tape)}
  PROVE  o.pub \in Int /\ o.dest \in Int /\ o.to \in Wallet /\ BelongsToMe(o, o.to)
<1>1. tape[1] \in Nat
  OBVIOUS
<1>2. o.pub = tape[1] % Q /\ o.dest = DestKey(addr, tape[1]) /\ o.to = addr
  BY DEF CoinbaseOutput, BuildOutput
<1> QED BY <1>1, <1>2, DestMine

\* No step makes another output or another image.
LEMMA ImageStep == ASSUME HashIsNumber, ImageInv, [PayNext]_payVars PROVE ImageInv'
<1>1. ASSUME UNCHANGED <<chain, spends>> PROVE ImageInv'
  BY <1>1 DEF ImageInv
<1>2. ASSUME NEW addr \in Wallet, NEW fee \in Fees, NEW tape \in Tape, Mint(addr, fee, tape)
      PROVE  ImageInv'
  <2> DEFINE o == CoinbaseOutput(addr, Coinbase + fee, tape)
  <2>1. chain' = chain \cup {o} /\ spends' = spends
    BY <1>2 DEF Mint
  <2>2. o.pub \in Int /\ o.dest \in Int /\ o.to \in Wallet /\ BelongsToMe(o, o.to)
    BY OutputsMine, PaymentsAssumption
  <2> HIDE DEF o
  <2> QED BY <2>1, <2>2 DEF ImageInv
<1>3. ASSUME NEW fund \in chain, NEW idx \in 1..RingSize, NEW rcpt \in Wallet, NEW fee \in Fees,
             NEW tape \in Tape, NEW others, NEW amt, Pay(fund, others, idx, rcpt, amt, fee, tape)
      PROVE  ImageInv'
  <2>1. fund.pub \in Int /\ fund.dest \in Int /\ fund.to \in Wallet /\ BelongsToMe(fund, fund.to)
    BY DEF ImageInv
  <2> DEFINE turned == Tail(tape) \o <<Head(tape)>>
             members == [i \in 1..RingSize |-> IF i = idx THEN fund ELSE others[i]]
             outs == <<BuildOutput(rcpt, amt, tape),
                       BuildOutput(fund.to, fund.amt - amt - fee, turned)>>
             body == [ring |-> members, outs |-> outs, fee |-> fee]
             yOut == (BlindFor(rcpt, tape[2]) + BlindFor(fund.to, At(tape, 2))) % Q
             sig == OZRSSign(body, ComputeTxnPrivateKey(fund, fund.to),
                             ComputeBlindingFactor(fund, fund.to), idx, yOut, tape)
             valid == VerifyOZRS(body, sig) /\ \A n \in 1..2 : VerifyRange(outs[n].proof)
  <2>2. /\ spends' = spends \cup {[fund |-> fund.dest, image |-> sig.image, valid |-> valid]}
        /\ chain' = chain \cup {outs[n] : n \in {m \in 1..2 : valid}}
    BY <1>3 DEF Pay
  <2>3. sig.image = Preimage(Keys(body)[idx], ComputeTxnPrivateKey(fund, fund.to))
    BY SignImage
  <2>4. Keys(body)[idx] = fund.dest
    BY DEF Keys
  <2>5. sig.image = (fund.dest * HashOf(<<fund.dest>>)) % Q
    BY <2>1, <2>3, <2>4, ImageOfOwner
  <2>6. /\ tape \in Seq(Nat) /\ Len(tape) >= 2
        /\ turned \in Seq(Nat) /\ Len(turned) >= 2
    BY PaymentsAssumption
  <2>7. \A o \in {outs[1], outs[2]} :
          o.pub \in Int /\ o.dest \in Int /\ o.to \in Wallet /\ BelongsToMe(o, o.to)
    <3> HIDE DEF turned
    <3> QED BY <2>1, <2>6, OutputsMine
  <2> HIDE DEF outs, sig, valid
  <2>8. chain' \subseteq chain \cup {outs[1], outs[2]}
    BY <2>2
  <2> QED BY <2>2, <2>5, <2>7, <2>8 DEF ImageInv
<1> QED
  BY <1>1, <1>2, <1>3 DEF PayNext, Collect, payVars

\* Spending an output twice shows one preimage twice, for every group, hash,
\* ring, place, amount and tape: the check for double spends rests on it
\* (Preimage, txn.go:462).
THEOREM ImageIsSame == ASSUME HashIsNumber PROVE PaySpec => []SameImage
<1>1. PayInit => ImageInv
  BY DEF PayInit, ImageInv
<1>2. ImageInv /\ [PayNext]_payVars => ImageInv'
  BY ImageStep
<1>3. ImageInv => SameImage
  BY DEF ImageInv, SameImage
<1> QED BY <1>1, <1>2, <1>3, PTL DEF PaySpec

\* Whoever is paid, or mints, has the key of the destination and recognises the
\* output, for every address and tape (output.go:137-160).
THEOREM RecipientHasKey == ASSUME HashIsNumber PROVE PaySpec => []OwnerHasKey
<1>1. PayInit => ImageInv
  BY DEF PayInit, ImageInv
<1>2. ImageInv /\ [PayNext]_payVars => ImageInv'
  BY ImageStep
<1>3. ImageInv => OwnerHasKey
  BY DEF ImageInv, OwnerHasKey, BelongsToMe, ComputeTxnPrivateKey
<1> QED BY <1>1, <1>2, <1>3, PTL DEF PaySpec

-------------------------------------------------------------------------------
(* Ring signatures.                                                          *)

\* Places are counted around the ring.
LEMMA Around ==
  ASSUME NEW R \in Nat \ {0}, NEW x \in (1 - R)..(2 * R - 1)
  PROVE  x % R = IF x < 0 THEN x + R ELSE IF x < R THEN x ELSE x - R
<1>1. CASE x < 0
  <2>1. x = R * (-1) + (x + R) /\ x + R \in 0..(R - 1) /\ -1 \in Int
    BY <1>1
  <2>2. (R * (-1) + (x + R)) % R = x + R
    BY <2>1, Remainder
  <2> QED BY <1>1, <2>1, <2>2
<1>2. CASE x >= 0 /\ x < R
  <2>1. x = R * 0 + x /\ x \in 0..(R - 1) /\ 0 \in Int
    BY <1>2
  <2>2. (R * 0 + x) % R = x
    BY <2>1, Remainder
  <2> QED BY <1>2, <2>1, <2>2
<1>3. CASE x >= R
  <2>1. x = R * 1 + (x - R) /\ x - R \in 0..(R - 1) /\ 1 \in Int
    BY <1>3
  <2>2. (R * 1 + (x - R)) % R = x - R
    BY <2>1, Remainder
  <2> QED BY <1>3, <2>1, <2>2
<1> QED BY <1>1, <1>2, <1>3

\* A challenge is a number.
LEMMA E3Type ==
  ASSUME HashIsNumber, NEW hashM \in Int, NEW r \in Int, NEW s \in Int, NEW e \in Int,
         NEW di \in Int, NEW pk \in Int, NEW image \in Int
  PROVE  ComputeE3(hashM, r, s, e, di, pk, image) \in Int
<1> DEFINE e2 == HashOf(<<e>>)
           hp == Preimage(pk, 1)
           a == ComputeR(r, e, di)
           b == ComputeR(s, e2, pk)
           x == s * hp - e2 * image
<1>1. e2 \in Int
  BY HashOfOne
<1>2. hp \in Int
  <2>1. HashOf(<<pk>>) * 1 \in Int
    BY HashOfOne
  <2> QED BY <2>1, SameIsMod DEF Preimage
<1> HIDE DEF e2, hp
<1>3. a \in Int /\ b \in Int
  BY <1>1, ComputeRType
<1>4. x \in Int
  BY <1>1, <1>2
<1> HIDE DEF a, b, x
<1>5. x % Q \in Int
  BY <1>4, SameIsMod
<1>6. <<hashM, a, b, x % Q>> \in Seq(Int)
  BY <1>3, <1>5
<1>7. HashOf(<<hashM, a, b, x % Q>>) \in Int
  BY <1>6, HashOfSeq
<1> QED BY <1>7 DEF ComputeE3, a, b, x, e2, hp

\* A body whose message, keys and differences are numbers.
Signable(body) ==
  /\ HashBody(body) \in Int
  /\ \A i \in 1..RingSize : Keys(body)[i] \in Int /\ Diffs(body)[i] \in Int

\* The challenges of the signer, and how each follows from the one before it.
LEMMA SignerChainIs ==
  ASSUME HashIsNumber, NEW body, Signable(body), NEW idx \in 1..RingSize, NEW image \in Int,
         NEW tape \in Seq(Nat), Len(tape) >= 2
  PROVE  LET es == SignerChain(body, idx, image, tape)
         IN  /\ \A n \in 1..RingSize : es[n] \in Int
             /\ es[1] = HashOf(<<HashBody(body), At(tape, 0) % Q, At(tape, 1) % Q,
                                 Preimage(Keys(body)[idx], At(tape, 1))>>)
             /\ \A n \in 1..RingSize : n # 1 =>
                  es[n] = ComputeE3(HashBody(body), At(tape, 2 * (n - 1)), At(tape, 2 * (n - 1) + 1),
                                    es[n - 1], Diffs(body)[After(idx, n - 1)],
                                    Keys(body)[After(idx, n - 1)], image)
<1> DEFINE e0 == HashOf(<<HashBody(body), At(tape, 0) % Q, At(tape, 1) % Q,
                          Preimage(Keys(body)[idx], At(tape, 1))>>)
           E3(n, e) == ComputeE3(HashBody(body), At(tape, 2 * (n - 1)), At(tape, 2 * (n - 1) + 1),
                                 e, Diffs(body)[After(idx, n - 1)], Keys(body)[After(idx, n - 1)], image)
           Eq(es) == es = [n \in 1..RingSize |-> IF n = 1 THEN e0 ELSE E3(n, es[n - 1])]
           es == CHOOSE f : Eq(f)
           g == [p \in Nat \X Int |-> IF p[1] \in 2..RingSize THEN E3(p[1], p[2]) ELSE 0]
<1>1. e0 \in Int
  <2> DEFINE k1 == At(tape, 0)
             k2 == At(tape, 1)
             hk == HashOf(<<Keys(body)[idx]>>) * k2
  <2>1. k1 \in Int /\ k2 \in Int
    BY TapeAt
  <2> HIDE DEF k1, k2
  <2>2. hk \in Int
    <3>1. HashOf(<<Keys(body)[idx]>>) \in Int
      BY HashOfOne DEF Signable
    <3> QED BY <2>1, <3>1
  <2> HIDE DEF hk
  <2>3. k1 % Q \in Int /\ k2 % Q \in Int /\ hk % Q \in Int
    BY <2>1, <2>2, SameIsMod
  <2>4. <<HashBody(body), k1 % Q, k2 % Q, hk % Q>> \in Seq(Int)
    BY <2>3 DEF Signable
  <2>5. HashOf(<<HashBody(body), k1 % Q, k2 % Q, hk % Q>>) \in Int
    BY <2>4, HashOfSeq
  <2> QED BY <2>5 DEF k1, k2, hk, Preimage
<1>2. ASSUME NEW n \in 2..RingSize, NEW e \in Int PROVE E3(n, e) \in Int
  <2>1. After(idx, n - 1) \in 1..RingSize
    <3> DEFINE y == idx - 1 + (n - 1)
    <3>1. y \in Int
      OBVIOUS
    <3> HIDE DEF y
    <3>2. y % RingSize \in 0..(RingSize - 1)
      BY <3>1, Scalars, Division
    <3> QED BY <3>2, Scalars DEF After, y
  <2>2. Diffs(body)[After(idx, n - 1)] \in Int /\ Keys(body)[After(idx, n - 1)] \in Int
        /\ HashBody(body) \in Int
    BY <2>1 DEF Signable
  <2>3. 2 * (n - 1) \in Nat /\ 2 * (n - 1) + 1 \in Nat
    BY Scalars
  <2>4. At(tape, 2 * (n - 1)) \in Int /\ At(tape, 2 * (n - 1) + 1) \in Int
    BY <2>3, TapeAt
  <2> QED BY <2>2, <2>4, E3Type
<1> HIDE DEF e0, E3
<1>3. g \in [Nat \X Int -> Int]
  BY <1>2
<1>4. PICK f : IsChain(f, Int, e0, 1, RingSize, g)
  <2>1. 1 \in Nat /\ RingSize \in Nat /\ 1 <= RingSize
    BY Scalars
  <2> HIDE DEF g
  <2> QED BY <1>1, <1>3, <2>1, ChainExists
<1>5. Eq(f)
  <2>1. f \in [1..RingSize -> Int] /\ f[1] = e0
    BY <1>4 DEF IsChain
  <2>2. ASSUME NEW n \in 1..RingSize, n # 1 PROVE f[n] = E3(n, f[n - 1])
    <3>1. n \in 2..RingSize /\ n - 1 \in 1..RingSize
      BY <2>2, Scalars
    <3>2. n \in Nat /\ f[n - 1] \in Int
      BY <2>1, <3>1
    <3>3. f[n] = g[<<n, f[n - 1]>>]
      BY <1>4, <2>2 DEF IsChain
    <3>4. \A e \in Int : g[<<n, e>>] = E3(n, e)
      BY <3>1, <3>2
    <3> HIDE DEF g
    <3> QED BY <3>2, <3>3, <3>4
  <2> HIDE DEF g
  <2> QED BY <2>1, <2>2
<1>6. Eq(es)
  <2> HIDE DEF Eq, g
  <2> QED BY <1>5
<1>7. es = SignerChain(body, idx, image, tape)
  BY DEF SignerChain, e0, E3
<1> HIDE DEF es
<1>8. es[1] = e0 /\ \A n \in 1..RingSize : n # 1 => es[n] = E3(n, es[n - 1])
  <2>1. 1 \in 1..RingSize
    BY Scalars
  <2> QED BY <1>6, <2>1
<1> DEFINE T == {n \in Nat : n + 1 <= RingSize => es[n + 1] \in Int}
<1>9. T = Nat
  <2>1. 0 \in T
    BY <1>1, <1>8
  <2>2. ASSUME NEW n \in T PROVE n + 1 \in T
    <3>1. CASE (n + 1) + 1 <= RingSize
      <4>1. /\ (n + 1) + 1 \in 2..RingSize /\ (n + 1) + 1 \in 1..RingSize /\ (n + 1) + 1 # 1
            /\ ((n + 1) + 1) - 1 = n + 1
        BY <3>1
      <4>2. es[n + 1] \in Int
        BY <3>1, Scalars
      <4>3. es[(n + 1) + 1] = E3((n + 1) + 1, es[n + 1])
        BY <1>8, <4>1
      <4>4. E3((n + 1) + 1, es[n + 1]) \in Int
        BY <1>2, <4>1, <4>2
      <4> QED BY <4>3, <4>4
    <3>2. CASE ~((n + 1) + 1 <= RingSize)
      BY <3>2
    <3> QED BY <3>1, <3>2
  <2> HIDE DEF T
  <2>3. T \in SUBSET Nat
    BY DEF T
  <2> QED BY <2>1, <2>2, <2>3, Ind
<1>10. \A n \in 1..RingSize : es[n] \in Int
  <2> SUFFICES ASSUME NEW n \in 1..RingSize PROVE es[n] \in Int
    OBVIOUS
  <2>1. n - 1 \in Nat /\ (n - 1) + 1 = n /\ n <= RingSize
    BY Scalars
  <2>2. n - 1 \in T
    <3> HIDE DEF T
    <3> QED BY <1>9, <2>1
  <2> QED BY <2>1, <2>2
<1> QED BY <1>7, <1>8, <1>10 DEF e0, E3

\* The same for the verifier.
LEMMA VerifierChainIs ==
  ASSUME HashIsNumber, NEW body, Signable(body), NEW sig, sig.e \in Int, sig.image \in Int,
         \A n \in 1..RingSize : sig.rs[n] \in Int /\ sig.ss[n] \in Int
  PROVE  LET es == VerifierChain(body, sig)
         IN  /\ es[0] = sig.e
             /\ \A n \in 1..RingSize :
                  es[n] = ComputeE3(HashBody(body), sig.rs[n], sig.ss[n], es[n - 1],
                                    Diffs(body)[n], Keys(body)[n], sig.image)
<1> DEFINE E3(n, e) == ComputeE3(HashBody(body), sig.rs[n], sig.ss[n], e,
                                 Diffs(body)[n], Keys(body)[n], sig.image)
           Eq(es) == es = [n \in 0..RingSize |-> IF n = 0 THEN sig.e ELSE E3(n, es[n - 1])]
           es == CHOOSE f : Eq(f)
           g == [p \in Nat \X Int |-> IF p[1] \in 1..RingSize THEN E3(p[1], p[2]) ELSE 0]
<1>1. ASSUME NEW n \in 1..RingSize, NEW e \in Int PROVE E3(n, e) \in Int
  <2>1. Diffs(body)[n] \in Int /\ Keys(body)[n] \in Int /\ HashBody(body) \in Int
    BY DEF Signable
  <2> QED BY <2>1, E3Type
<1> HIDE DEF E3
<1>2. g \in [Nat \X Int -> Int]
  BY <1>1
<1>3. PICK f : IsChain(f, Int, sig.e, 0, RingSize, g)
  <2>1. 0 \in Nat /\ RingSize \in Nat /\ 0 <= RingSize
    BY Scalars
  <2> HIDE DEF g
  <2> QED BY <1>2, <2>1, ChainExists
<1>4. Eq(f)
  <2>1. f \in [0..RingSize -> Int] /\ f[0] = sig.e
    BY <1>3 DEF IsChain
  <2>2. ASSUME NEW n \in 0..RingSize, n # 0 PROVE f[n] = E3(n, f[n - 1])
    <3>1. n \in 1..RingSize /\ n - 1 \in 0..RingSize
      BY <2>2, Scalars
    <3>2. n \in Nat /\ f[n - 1] \in Int
      BY <2>1, <3>1
    <3>3. f[n] = g[<<n, f[n - 1]>>]
      BY <1>3, <2>2 DEF IsChain
    <3>4. \A e \in Int : g[<<n, e>>] = E3(n, e)
      BY <3>1, <3>2
    <3> HIDE DEF g
    <3> QED BY <3>2, <3>3, <3>4
  <2> HIDE DEF g
  <2> QED BY <2>1, <2>2
<1>5. Eq(es)
  <2> HIDE DEF Eq, g
  <2> QED BY <1>4
<1>6. es = VerifierChain(body, sig)
  BY DEF VerifierChain, E3
<1> HIDE DEF es
<1>7. es[0] = sig.e
  <2>1. 0 \in 0..RingSize
    BY Scalars
  <2> QED BY <1>5, <2>1
<1>8. \A n \in 1..RingSize : es[n] = E3(n, es[n - 1])
  <2>1. \A n \in 1..RingSize : n \in 0..RingSize /\ n # 0
    BY Scalars
  <2> QED BY <1>5, <2>1
<1> QED BY <1>6, <1>7, <1>8 DEF E3

\* With its secret keys the signer closes the ring.
LEMMA RingCloses ==
  ASSUME HashIsNumber, NEW hashM, NEW sk \in Int, NEW z \in Int, NEW k1 \in Int, NEW k2 \in Int,
         NEW e1 \in Int, NEW di \in Int, NEW pk \in Int, Same(di, z), Same(pk, sk)
  PROVE  ComputeE3(hashM, TimeTravel(z, k1, e1), TimeTravel(sk, k2, HashOf(<<e1>>)), e1, di, pk,
                   Preimage(pk, sk))
         = HashOf(<<hashM, k1 % Q, k2 % Q, Preimage(pk, k2)>>)
<1> DEFINE e2 == HashOf(<<e1>>)
           h == HashOf(<<pk>>)
           s == TimeTravel(sk, k2, e2)
           x == s * ((h * 1) % Q) - e2 * ((h * sk) % Q)
<1>1. e2 \in Int /\ h \in Int
  BY HashOfOne
<1>2. ComputeR(TimeTravel(z, k1, e1), e1, di) = k1 % Q
  BY Closes
<1> HIDE DEF e2
<1>3. ComputeR(s, e2, pk) = k2 % Q
  BY <1>1, Closes
<1>4. s = e2 * sk + k2 /\ s \in Int
  BY <1>1 DEF TimeTravel
<1> HIDE DEF s, h
<1>5. x \in Int /\ Same(x, h * k2) /\ h * k2 \in Int
  <2> DEFINE a == (h * 1) % Q
             b == (h * sk) % Q
  <2>1. h * 1 \in Int /\ h * sk \in Int /\ h * 1 = h
    BY <1>1
  <2>2. a \in Int /\ b \in Int /\ Same(a, h * 1) /\ Same(b, h * sk)
    BY <2>1, SameIsMod
  <2> HIDE DEF a, b
  <2>3. PICK i \in Int : a = h + Q * i
    BY <2>1, <2>2 DEF Same
  <2>4. PICK j \in Int : b = h * sk + Q * j
    BY <2>2 DEF Same
  <2>5. s * a - e2 * b = h * k2 + Q * (s * i - e2 * j) /\ s * i - e2 * j \in Int
    <3>1. s * a = s * h + Q * (s * i)
      BY <1>1, <1>4, <2>3, Scalars
    <3>2. e2 * b = e2 * (h * sk) + Q * (e2 * j)
      BY <1>1, <2>4, Scalars
    <3>3. s * h = e2 * (h * sk) + h * k2
      BY <1>1, <1>4
    <3>4. Q * (s * i - e2 * j) = Q * (s * i) - Q * (e2 * j)
      BY <1>1, <1>4, Scalars
    <3> DEFINE u == e2 * (h * sk)
               v == h * k2
               y == Q * (s * i)
               w == Q * (e2 * j)
    <3>5. u \in Int /\ v \in Int /\ y \in Int /\ w \in Int
      BY <1>1, <1>4, Scalars
    <3> HIDE DEF u, v, y, w
    <3>6. s * a - e2 * b = v + (y - w)
      BY <3>1, <3>2, <3>3, <3>5 DEF u, v, y, w
    <3>7. s * i - e2 * j \in Int
      BY <1>1, <1>4
    <3> QED BY <3>4, <3>6, <3>7 DEF v, y, w
  <2>6. x = s * a - e2 * b /\ h * k2 \in Int /\ s * a - e2 * b \in Int
    <3>1. h * k2 \in Int /\ s * a - e2 * b \in Int
      BY <1>1, <1>4, <2>2
    <3> QED BY <3>1 DEF a, b
  <2> HIDE DEF x
  <2> QED BY <2>5, <2>6 DEF Same
<1>6. x % Q = Preimage(pk, k2)
  <2> HIDE DEF x
  <2>1. x % Q = (h * k2) % Q
    BY <1>5, SameIsMod
  <2> QED BY <2>1 DEF Preimage, h
<1>7. ComputeE3(hashM, TimeTravel(z, k1, e1), TimeTravel(sk, k2, HashOf(<<e1>>)), e1, di, pk,
                Preimage(pk, sk))
      = HashOf(<<hashM, k1 % Q, k2 % Q, x % Q>>)
  BY <1>2, <1>3 DEF ComputeE3, Preimage, e2, h, s
<1> QED BY <1>6, <1>7

\* The verifier's challenge before each member is the signer's, and the last
\* one is the first.
LEMMA RingVerifies ==
  ASSUME HashIsNumber, NEW body, Signable(body), NEW sk \in Int, NEW yi \in Int, NEW yOut \in Int,
         NEW idx \in 1..RingSize, NEW tape \in Seq(Nat), Len(tape) >= 2,
         Same(Keys(body)[idx], sk), Same(Diffs(body)[idx], yi - yOut)
  PROVE  VerifyOZRS(body, OZRSSign(body, sk, yi, idx, yOut, tape))
<1> DEFINE sig == OZRSSign(body, sk, yi, idx, yOut, tape)
           image == Preimage(Keys(body)[idx], sk)
           es == SignerChain(body, idx, image, tape)
           ev == VerifierChain(body, sig)
           R == RingSize
           z == (yi - yOut) % Q
           place(i) == (i - idx) % R
           at(i) == IF i = idx THEN R ELSE place(i)
           next(i) == IF i = R THEN 1 ELSE i + 1
           hashM == HashBody(body)
           pks == Keys(body)
           diffs == Diffs(body)
<1>1. /\ sig.image = image /\ sig.e = es[IF idx = 1 THEN R ELSE place(1)]
      /\ sig.rs = [i \in 1..R |-> IF i = idx THEN TimeTravel(z, At(tape, 0), es[R])
                                  ELSE At(tape, 2 * place(i))]
      /\ sig.ss = [i \in 1..R |-> IF i = idx THEN TimeTravel(sk, At(tape, 1), HashOf(<<es[R]>>))
                                  ELSE At(tape, 2 * place(i) + 1)]
  BY DEF OZRSSign
<1>2. image \in Int
  <2> DEFINE h == HashOf(<<pks[idx]>>) * sk
  <2>1. h \in Int
    <3>1. HashOf(<<pks[idx]>>) \in Int
      BY HashOfOne DEF Signable
    <3> QED BY <3>1
  <2> HIDE DEF h
  <2>2. h % Q \in Int
    BY <2>1, SameIsMod
  <2> QED BY <2>2 DEF Preimage, h
<1> HIDE DEF sig
<1>3. z \in Int /\ Same(diffs[idx], z)
  <2> DEFINE d == yi - yOut
  <2>1. d \in Int /\ diffs[idx] \in Int /\ Same(diffs[idx], d)
    BY DEF Signable
  <2> HIDE DEF d, diffs
  <2>2. d % Q \in Int /\ Same(d % Q, d)
    BY <2>1, SameIsMod
  <2>3. Same(d, d % Q)
    BY <2>1, <2>2, SameIsMod
  <2>4. Same(diffs[idx], d % Q)
    BY <2>1, <2>2, <2>3, SameTrans
  <2> QED BY <2>2, <2>4 DEF d
<1> HIDE DEF z, image
<1>4. /\ \A n \in 1..R : es[n] \in Int
      /\ es[1] = HashOf(<<hashM, At(tape, 0) % Q, At(tape, 1) % Q, Preimage(pks[idx], At(tape, 1))>>)
      /\ \A n \in 1..R : n # 1 =>
           es[n] = ComputeE3(hashM, At(tape, 2 * (n - 1)), At(tape, 2 * (n - 1) + 1), es[n - 1],
                             diffs[After(idx, n - 1)], pks[After(idx, n - 1)], image)
  BY <1>2, SignerChainIs
<1>5. R \in Nat \ {0} /\ 1 \in 1..R /\ R \in 1..R
  BY Scalars
<1>6. ASSUME NEW i \in 1..R
      PROVE  /\ at(i) \in 1..R /\ next(i) \in 1..R
             /\ i # idx => place(i) \in 1..(R - 1) /\ After(idx, place(i)) = i /\ at(next(i)) = place(i) + 1
             /\ i = idx => at(next(i)) = 1
  <2>1. next(i) \in 1..R
    BY <1>5
  <2>2. ASSUME NEW j \in 1..R, j # idx
        PROVE  place(j) = (IF j < idx THEN j - idx + R ELSE j - idx) /\ place(j) \in 1..(R - 1)
    <3>1. j - idx \in (1 - R)..(2 * R - 1) /\ j - idx < R
      BY <1>5
    <3>2. place(j) = IF j - idx < 0 THEN j - idx + R ELSE j - idx
      BY <1>5, <3>1, Around
    <3> HIDE DEF place
    <3> QED BY <1>5, <2>2, <3>2
  <2>3. ASSUME i # idx PROVE After(idx, place(i)) = i
    <3>1. idx - 1 + place(i) = (IF i < idx THEN i - 1 + R ELSE i - 1)
      <4> HIDE DEF place
      <4> QED BY <1>5, <2>2, <2>3
    <3>2. /\ i - 1 + R = R * 1 + (i - 1) /\ i - 1 = R * 0 + (i - 1)
          /\ i - 1 \in 0..(R - 1) /\ 0 \in Int /\ 1 \in Int
      BY <1>5
    <3>3. (R * 1 + (i - 1)) % R = i - 1 /\ (R * 0 + (i - 1)) % R = i - 1
      BY <1>5, <3>2, Remainder
    <3>4. (i - 1 + R) % R = i - 1 /\ (i - 1) % R = i - 1
      BY <3>2, <3>3, Zenon
    <3> HIDE DEF place
    <3> QED BY <3>1, <3>4 DEF After
  <2> HIDE DEF place
  <2>4. at(i) \in 1..R
    BY <1>5, <2>2
  <2>5. i # idx => at(next(i)) = place(i) + 1
    BY <1>5, <2>1, <2>2
  <2>6. i = idx => at(next(i)) = 1
    BY <1>5, <2>1, <2>2
  <2> QED BY <2>1, <2>2, <2>3, <2>4, <2>5, <2>6
<1> HIDE DEF es
<1>7. sig.e = es[at(1)] /\ sig.e \in Int
  <2>1. sig.e = es[at(1)]
    BY <1>1
  <2> HIDE DEF at
  <2> QED BY <1>4, <1>5, <1>6, <2>1
<1>8. \A n \in 1..R : sig.rs[n] \in Int /\ sig.ss[n] \in Int
  <2> SUFFICES ASSUME NEW n \in 1..R PROVE sig.rs[n] \in Int /\ sig.ss[n] \in Int
    OBVIOUS
  <2>1. CASE n = idx
    <3>1. At(tape, 0) \in Int /\ At(tape, 1) \in Int /\ es[R] \in Int
      BY <1>4, <1>5, TapeAt
    <3>2. HashOf(<<es[R]>>) \in Int
      BY <3>1, HashOfOne
    <3>3. TimeTravel(z, At(tape, 0), es[R]) \in Int
      BY <1>3, <3>1 DEF TimeTravel
    <3>4. TimeTravel(sk, At(tape, 1), HashOf(<<es[R]>>)) \in Int
      BY <3>1, <3>2 DEF TimeTravel
    <3> QED BY <1>1, <2>1, <3>3, <3>4
  <2>2. CASE n # idx
    <3>1. place(n) \in Nat
      BY <1>5, <1>6, <2>2
    <3> HIDE DEF place
    <3>2. 2 * place(n) \in Nat /\ 2 * place(n) + 1 \in Nat
      BY <3>1
    <3>3. At(tape, 2 * place(n)) \in Int /\ At(tape, 2 * place(n) + 1) \in Int
      BY <3>2, TapeAt
    <3> QED BY <1>1, <2>2, <3>3
  <2> QED BY <2>1, <2>2
<1>9. /\ ev[0] = sig.e
      /\ \A n \in 1..R : ev[n] = ComputeE3(hashM, sig.rs[n], sig.ss[n], ev[n - 1], diffs[n], pks[n], image)
  BY <1>1, <1>2, <1>7, <1>8, VerifierChainIs
<1> HIDE DEF ev
<1>10. ASSUME NEW i \in 1..R, ev[i - 1] = es[at(i)] PROVE ev[i] = es[at(next(i))]
  <2>1. ev[i] = ComputeE3(hashM, sig.rs[i], sig.ss[i], es[at(i)], diffs[i], pks[i], image)
    BY <1>9, <1>10
  <2>2. CASE i # idx
    <3> DEFINE n == place(i)
    <3>1. n \in 1..(R - 1) /\ After(idx, n) = i /\ at(next(i)) = n + 1 /\ at(i) = n
      BY <1>6, <2>2
    <3>2. sig.rs[i] = At(tape, 2 * n) /\ sig.ss[i] = At(tape, 2 * n + 1)
      BY <1>1, <2>2
    <3> HIDE DEF n, at, next
    <3>3. n + 1 \in 1..R /\ n + 1 # 1 /\ (n + 1) - 1 = n
      BY <1>5, <3>1
    <3>4. es[n + 1] = ComputeE3(hashM, At(tape, 2 * n), At(tape, 2 * n + 1), es[n],
                                diffs[i], pks[i], image)
      BY <1>4, <3>1, <3>3
    <3> QED BY <2>1, <3>1, <3>2, <3>4
  <2>3. CASE i = idx
    <3>1. at(next(i)) = 1 /\ at(i) = R
      BY <1>6, <2>3
    <3>2. sig.rs[i] = TimeTravel(z, At(tape, 0), es[R]) /\ sig.ss[i] = TimeTravel(sk, At(tape, 1), HashOf(<<es[R]>>))
      BY <1>1, <2>3
    <3> HIDE DEF at, next
    <3>3. At(tape, 0) \in Int /\ At(tape, 1) \in Int /\ es[R] \in Int
      BY <1>4, <1>5, TapeAt
    <3>4. diffs[i] \in Int /\ pks[i] \in Int /\ Same(diffs[i], z) /\ Same(pks[i], sk)
      BY <1>3, <2>3 DEF Signable
    <3>5. ComputeE3(hashM, sig.rs[i], sig.ss[i], es[R], diffs[i], pks[i], Preimage(pks[i], sk))
          = HashOf(<<hashM, At(tape, 0) % Q, At(tape, 1) % Q, Preimage(pks[i], At(tape, 1))>>)
      <4> HIDE DEF hashM, pks, diffs
      <4> QED BY <1>3, <3>2, <3>3, <3>4, RingCloses
    <3> QED BY <1>4, <2>1, <2>3, <3>1, <3>5 DEF image
  <2> QED BY <2>2, <2>3
<1> DEFINE T == {n \in Nat : n + 1 <= R => ev[n] = es[at(n + 1)]}
<1>11. T = Nat
  <2>1. 0 \in T
    BY <1>7, <1>9
  <2>2. ASSUME NEW n \in T PROVE n + 1 \in T
    <3>1. CASE (n + 1) + 1 <= R
      <4>1. n + 1 \in 1..R /\ (n + 1) - 1 = n /\ n + 1 # R
        BY <1>5, <3>1
      <4>2. ev[n] = es[at(n + 1)] /\ next(n + 1) = (n + 1) + 1
        BY <1>5, <3>1, <4>1
      <4> HIDE DEF at, next
      <4>3. ev[n + 1] = es[at((n + 1) + 1)]
        BY <1>10, <4>1, <4>2
      <4> QED BY <4>3
    <3>2. CASE ~((n + 1) + 1 <= R)
      BY <3>2
    <3> QED BY <3>1, <3>2
  <2> HIDE DEF T
  <2>3. T \in SUBSET Nat
    BY DEF T
  <2> QED BY <2>1, <2>2, <2>3, Ind
<1>12. ev[R] = sig.e
  <2>1. R - 1 \in T /\ R - 1 \in Nat
    <3> HIDE DEF T
    <3> QED BY <1>5, <1>11
  <2>2. (R - 1) + 1 = R /\ next(R) = 1
    BY <1>5
  <2> HIDE DEF at, next
  <2>3. ev[R - 1] = es[at(R)]
    BY <1>5, <2>1, <2>2
  <2>4. ev[R] = es[at(next(R))]
    BY <1>5, <1>10, <2>3
  <2> QED BY <1>7, <2>2, <2>4
<1> QED BY <1>12 DEF VerifyOZRS, ev, sig

-------------------------------------------------------------------------------
(* Payments.                                                                 *)

\* What goes in is what comes out and the fee: the difference of the
\* commitments commits to nothing.
LEMMA Balance ==
  ASSUME NEW c \in Int, NEW c1 \in Int, NEW c2 \in Int, NEW b \in Int, NEW b1 \in Int, NEW b2 \in Int,
         NEW v \in Int, NEW v1 \in Int, NEW v2 \in Int, NEW f \in Int, v = v1 + v2 + f,
         Same(c, b + v * H), Same(c1, b1 + v1 * H), Same(c2, b2 + v2 * H)
  PROVE  LET oc == ((c1 + c2) % Q) + PedersenSum(0, f)
         IN  (c - oc) % Q \in Int /\ Same((c - oc) % Q, b - ((b1 + b2) % Q))
<1> DEFINE vh == v * H
           v1h == v1 * H
           v2h == v2 * H
           fh == f * H
           o1 == (c1 + c2) % Q
           o2 == (0 + fh) % Q
           r == (b1 + b2) % Q
<1>1. vh \in Int /\ v1h \in Int /\ v2h \in Int /\ fh \in Int
  BY Scalars
<1>2. vh = v1h + v2h + fh
  BY Scalars
<1> HIDE DEF vh, v1h, v2h, fh
<1>3. Same(c, b + vh) /\ Same(c1, b1 + v1h) /\ Same(c2, b2 + v2h)
  BY DEF vh, v1h, v2h
<1>4. o1 \in Int /\ Same(o1, (b1 + v1h) + (b2 + v2h))
  <2>1. c1 + c2 \in Int /\ (b1 + v1h) + (b2 + v2h) \in Int
    BY <1>1
  <2>2. o1 \in Int /\ Same(o1, c1 + c2)
    BY <2>1, SameIsMod
  <2>3. Same(c1 + c2, (b1 + v1h) + (b2 + v2h))
    BY <1>1, <1>3, SameSum
  <2> HIDE DEF o1
  <2> QED BY <2>1, <2>2, <2>3, SameTrans
<1>5. o2 \in Int /\ Same(o2, fh)
  <2>1. 0 + fh = fh
    BY <1>1
  <2>2. (0 + fh) % Q \in Int /\ Same((0 + fh) % Q, 0 + fh)
    BY <1>1, <2>1, SameIsMod
  <2> QED BY <2>1, <2>2
<1>6. r \in Int /\ Same(r, b1 + b2)
  <2>1. b1 + b2 \in Int
    OBVIOUS
  <2> QED BY <2>1, SameIsMod
<1>7. PedersenSum(0, f) = o2
  BY DEF PedersenSum, fh
<1> HIDE DEF o1, o2, r
<1> DEFINE x == (b1 + v1h) + (b2 + v2h)
<1>8. Same(o1 + o2, x + fh) /\ o1 + o2 \in Int /\ x + fh \in Int
  BY <1>1, <1>4, <1>5, SameSum
<1>9. Same(c - (o1 + o2), (b + vh) - (x + fh)) /\ c - (o1 + o2) \in Int
  <2> DEFINE y == o1 + o2
             w == x + fh
             u == b + vh
  <2>1. u \in Int /\ y \in Int /\ w \in Int /\ Same(y, w) /\ Same(c, u)
    BY <1>1, <1>3, <1>8
  <2> HIDE DEF x, y, w, u
  <2>2. Same(c - y, u - w) /\ c - y \in Int
    BY <2>1, SameSum
  <2> QED BY <2>2 DEF y, w, u
<1>10. (b + vh) - (x + fh) = b - (b1 + b2)
  BY <1>1, <1>2
<1>11. Same(b - (b1 + b2), b - r)
  <2>1. Same(b1 + b2, r) /\ Same(b, b) /\ b1 + b2 \in Int
    BY <1>6, SameIsMod, SameRefl
  <2> QED BY <1>6, <2>1, SameSum
<1> DEFINE d == c - (o1 + o2)
<1>12. d \in Int /\ Same(d, b - (b1 + b2)) /\ b - (b1 + b2) \in Int /\ b - r \in Int
  <2> HIDE DEF x
  <2> QED BY <1>6, <1>9, <1>10
<1> HIDE DEF d
<1>13. Same(d, b - r)
  BY <1>11, <1>12, SameTrans
<1>14. d % Q \in Int /\ Same(d % Q, d)
  BY <1>12, SameIsMod
<1>15. Same(d % Q, b - r)
  BY <1>12, <1>13, <1>14, SameTrans
<1> QED BY <1>7, <1>14, <1>15 DEF o1, r, d

\* The secret key of an output, for its owner.
LEMMA KeyMine ==
  ASSUME HashIsNumber, NEW o, Sound(o)
  PROVE  ComputeTxnPrivateKey(o, o.to) \in Int /\ Same(o.dest, ComputeTxnPrivateKey(o, o.to))
<1> DEFINE p == o.pub * o.to.tsk
           sk == ComputeTxnPrivateKey(o, o.to)
<1>1. o.to.psk \in Int /\ p \in Int
  BY PaymentsAssumption DEF Sound
<1> HIDE DEF p
<1>2. p % Q \in Int
  BY <1>1, SameIsMod
<1>3. HashOf(<<p % Q>>) \in Int
  BY <1>2, HashOfOne
<1>4. sk \in Int
  BY <1>1, <1>3 DEF ComputeTxnPrivateKey, HashSharedSecret, p
<1>5. sk % Q = o.dest
  BY DEF Sound, BelongsToMe, ComputeTxnPrivateKey
<1> HIDE DEF sk
<1>6. Same(o.dest, sk)
  BY <1>4, <1>5, SameIsMod
<1> QED BY <1>4, <1>6 DEF sk

\* A body of sound outputs can be signed.
LEMMA BodySignable ==
  ASSUME HashIsNumber, NEW body, NEW o1, NEW o2, DOMAIN body.ring = 1..RingSize,
         \A i \in 1..RingSize : Sound(body.ring[i]), body.outs = <<o1, o2>>, Sound(o1), Sound(o2),
         body.fee \in Int
  PROVE  /\ Signable(body)
         /\ \A i \in 1..RingSize :
              /\ Keys(body)[i] = body.ring[i].dest
              /\ Diffs(body)[i] = (body.ring[i].commit
                                   - (((o1.commit + o2.commit) % Q) + PedersenSum(0, body.fee))) % Q
<1> DEFINE outs == <<o1, o2>>
           c == [n \in 1..2 |-> outs[n].commit]
           o == (o1.commit + o2.commit) % Q
           oc == o + PedersenSum(0, body.fee)
           keys == [i \in 1..RingSize |-> body.ring[i].dest]
<1>1. body.outs = outs /\ DOMAIN outs = 1..2
  OBVIOUS
<1>2. \A i \in 1..RingSize : body.ring[i].dest \in Int /\ body.ring[i].commit \in Int
  BY DEF Sound
<1>3. c[1] = o1.commit /\ c[2] = o2.commit /\ o1.commit \in Int /\ o2.commit \in Int
  BY DEF Sound
<1> HIDE DEF outs
<1>4. [n \in DOMAIN body.outs |-> body.outs[n].commit] = c
  BY <1>1
<1>5. Keys(body) = keys
  BY DEF Keys
<1>6. c \in [1..2 -> Int]
  <2>1. \A n \in 1..2 : n = 1 \/ n = 2
    OBVIOUS
  <2>2. \A n \in 1..2 : c[n] \in Int
    BY <1>3, <2>1
  <2> QED BY <2>2
<1> HIDE DEF c
<1>7. Sum(c, 1..2) = o
  BY <1>3, TotalOfTwo DEF Sum
<1>8. HashBody(body) \in Int
  <2>1. keys \in Seq(Int)
    BY <1>2, Scalars
  <2>2. c \in Seq(Int) /\ <<body.fee>> \in Seq(Int)
    <3>1. \A n \in 1..2 : c[n] \in Int
      BY <1>6
    <3>2. c = [n \in 1..2 |-> c[n]]
      BY <1>6
    <3>3. [n \in 1..2 |-> c[n]] \in Seq(Int)
      BY <3>1
    <3>4. <<body.fee>> \in Seq(Int)
      OBVIOUS
    <3> QED BY <3>2, <3>3, <3>4
  <2> HIDE DEF keys
  <2>3. keys \o c \o <<body.fee>> \in Seq(Int)
    BY <2>1, <2>2
  <2>4. HashOf(keys \o c \o <<body.fee>>) \in Int
    BY <2>3, HashOfSeq
  <2> QED BY <1>4, <1>5, <2>4 DEF HashBody, Keys
<1>9. oc \in Int
  <2> DEFINE a == o1.commit + o2.commit
             x == 0 + body.fee * H
  <2>1. a \in Int /\ x \in Int
    BY <1>3, Scalars
  <2> HIDE DEF a, x
  <2>2. a % Q \in Int /\ x % Q \in Int
    BY <2>1, SameIsMod
  <2> QED BY <2>2 DEF PedersenSum, a, x
<1>10. Diffs(body) = [i \in 1..RingSize |-> (body.ring[i].commit - oc) % Q]
  <2>1. Diffs(body) = CommitDifferences([i \in 1..RingSize |-> body.ring[i].commit], outs, body.fee)
    BY <1>1 DEF Diffs
  <2>2. [n \in DOMAIN outs |-> outs[n].commit] = c /\ DOMAIN outs = 1..2
    BY <1>1, <1>4
  <2> QED BY <1>7, <2>1, <2>2 DEF CommitDifferences
<1> HIDE DEF oc
<1>11. \A i \in 1..RingSize : (body.ring[i].commit - oc) % Q \in Int
  <2> SUFFICES ASSUME NEW i \in 1..RingSize PROVE (body.ring[i].commit - oc) % Q \in Int
    OBVIOUS
  <2> DEFINE y == body.ring[i].commit - oc
  <2>1. y \in Int
    BY <1>2, <1>9
  <2> HIDE DEF y
  <2> QED BY <2>1, SameIsMod DEF y
<1>12. Signable(body)
  BY <1>2, <1>5, <1>8, <1>10, <1>11 DEF Signable
<1> QED BY <1>5, <1>10, <1>12 DEF oc

\* A fund is worth no more than the amounts a range proof is about. The reward
\* of 5 * 10^9 is below 2^34, and the fees are what a block has room for.
AmountsFit == \A fee \in Fees : Coinbase + fee <= MaxAmount

\* Outputs that are recorded are sound; what was signed was accepted, and its
\* image is that of the destination.
PayInv ==
  /\ \A o \in chain : Sound(o)
  /\ \A x \in spends : x.valid /\ x.image = (x.fund * HashOf(<<x.fund>>)) % Q

\* A sequence with one more element.
LEMMA Appended ==
  ASSUME NEW s \in Seq(Nat), NEW x \in Nat
  PROVE  /\ s \o <<x>> \in Seq(Nat) /\ Len(s \o <<x>>) = Len(s) + 1
         /\ \A k \in 1..(Len(s) + 1) : (s \o <<x>>)[k] = IF k <= Len(s) THEN s[k] ELSE x
OBVIOUS

\* What a payment is when all goes well: two sound outputs, a signature that
\* closes, and the image of the destination.
GoodPayment(fund, others, idx, rcpt, amt, fee, tape) ==
  LET ring == [i \in 1..RingSize |-> IF i = idx THEN fund ELSE others[i]]
      o1 == BuildOutput(rcpt, amt, tape)
      o2 == BuildOutput(fund.to, fund.amt - amt - fee, Tail(tape) \o <<Head(tape)>>)
      body == [ring |-> ring, outs |-> <<o1, o2>>, fee |-> fee]
      yOut == (BlindFor(rcpt, tape[2]) + BlindFor(fund.to, At(tape, 2))) % Q
      sig == OZRSSign(body, ComputeTxnPrivateKey(fund, fund.to),
                      ComputeBlindingFactor(fund, fund.to), idx, yOut, tape)
  IN  /\ Sound(o1) /\ Sound(o2) /\ VerifyRange(o1.proof) /\ VerifyRange(o2.proof)
      /\ VerifyOZRS(body, sig)
      /\ sig.image = (fund.dest * HashOf(<<fund.dest>>)) % Q

\* With sound outputs every payment is one.
LEMMA PayIsAccepted ==
  ASSUME HashIsNumber, NEW fund, Sound(fund), NEW idx \in 1..RingSize, NEW others,
         \A i \in (1..RingSize) \ {idx} : Sound(others[i]),
         NEW rcpt \in Wallet, NEW fee \in Nat, NEW amt \in 0..MaxAmount, amt + fee <= fund.amt,
         NEW tape \in Tape
  PROVE  GoodPayment(fund, others, idx, rcpt, amt, fee, tape)
<1> DEFINE mem == [i \in 1..RingSize |-> IF i = idx THEN fund ELSE others[i]]
           turned == Tail(tape) \o <<Head(tape)>>
           change == fund.amt - amt - fee
           o1 == BuildOutput(rcpt, amt, tape)
           o2 == BuildOutput(fund.to, change, turned)
           body == [ring |-> mem, outs |-> <<o1, o2>>, fee |-> fee]
           b1 == BlindFor(rcpt, tape[2])
           b2 == BlindFor(fund.to, At(tape, 2))
           yOut == (b1 + b2) % Q
           sk == ComputeTxnPrivateKey(fund, fund.to)
           yi == ComputeBlindingFactor(fund, fund.to)
           oc == ((o1.commit + o2.commit) % Q) + PedersenSum(0, fee)
           sig == OZRSSign(body, sk, yi, idx, yOut, tape)
<1>1. /\ tape \in Seq(Nat) /\ Len(tape) >= 2 /\ tape[1] \in Nat /\ tape[2] \in Nat
      /\ \A n \in 1..Len(tape) : tape[n] % Q # 0
  <2>1. tape \in Seq(Nat) /\ Len(tape) >= 2 /\ \A n \in DOMAIN tape : tape[n] % Q # 0
    BY PaymentsAssumption
  <2>2. DOMAIN tape = 1..Len(tape) /\ tape[1] \in Nat /\ tape[2] \in Nat
    BY <2>1
  <2> QED BY <2>1, <2>2
<1>2. /\ turned \in Seq(Nat) /\ Len(turned) >= 2 /\ turned[2] = At(tape, 2)
      /\ turned[2] % Q # 0
  <2> DEFINE l == Len(tape)
             head == Head(tape)
             tail == Tail(tape)
  <2>1. /\ l \in Nat /\ l >= 2 /\ head \in Nat /\ head = tape[1] /\ tail \in Seq(Nat) /\ Len(tail) = l - 1
        /\ \A n \in 1..(l - 1) : tail[n] = tape[n + 1]
    BY <1>1
  <2> HIDE DEF head, tail
  <2>2. /\ tail \o <<head>> \in Seq(Nat) /\ Len(tail \o <<head>>) = l
        /\ (tail \o <<head>>)[2] = IF 2 <= l - 1 THEN tail[2] ELSE head
    <3>1. /\ tail \o <<head>> \in Seq(Nat) /\ Len(tail \o <<head>>) = Len(tail) + 1
          /\ \A k \in 1..(Len(tail) + 1) :
               (tail \o <<head>>)[k] = IF k <= Len(tail) THEN tail[k] ELSE head
      BY <2>1, Appended
    <3>2. 2 \in 1..(Len(tail) + 1) /\ Len(tail) = l - 1 /\ Len(tail) + 1 = l
      BY <2>1
    <3> QED BY <3>1, <3>2
  <2>3. At(tape, 2) = IF 2 <= l - 1 THEN tape[3] ELSE tape[1]
    <3> HIDE DEF l
    <3>1. CASE l = 2
      <4>1. 2 % 2 = 0
        OBVIOUS
      <4> QED BY <3>1, <4>1 DEF At, l
    <3>2. CASE l # 2
      <4>1. l \in Nat \ {0} /\ 2 \in 0..(l - 1) /\ 2 = l * 0 + 2 /\ 0 \in Int
        BY <2>1, <3>2
      <4>2. (l * 0 + 2) % l = 2
        BY <4>1, Remainder
      <4>3. 2 % l = 2 /\ 2 <= l - 1
        BY <4>1, <4>2
      <4> QED BY <4>3 DEF At, l
    <3> QED BY <3>1, <3>2
  <2>4. 2 <= l - 1 => tail[2] = tape[3] /\ tape[3] % Q # 0
    <3>1. 2 <= l - 1 => 2 \in 1..(l - 1) /\ 3 \in 1..l
      BY <2>1
    <3>2. 2 + 1 = 3
      OBVIOUS
    <3> QED BY <1>1, <2>1, <3>1, <3>2
  <2>5. tape[1] % Q # 0
    BY <1>1
  <2> QED BY <2>1, <2>2, <2>3, <2>4, <2>5 DEF head, tail
<1>3. /\ fund.amt \in Int /\ fund.to \in Wallet /\ change \in Int /\ change \in 0..MaxAmount
      /\ amt \in Int /\ fee \in Int /\ fund.amt = amt + change + fee
  <2>1. MaxAmount \in Nat
    <3>1. Bits \in Nat
      BY Scalars
    <3> QED BY <3>1, Pow2Is DEF MaxAmount
  <2> QED BY <2>1 DEF Sound
<1>4. /\ Sound(o1) /\ ComputeBlindingFactor(o1, rcpt) = b1 /\ VerifyRange(o1.proof)
      /\ o1.amt = amt /\ o1.to = rcpt
  <2>1. o1.amt = amt /\ o1.to = rcpt
    BY DEF BuildOutput
  <2>2. tape[2] % Q # 0
    BY <1>1
  <2> HIDE DEF b1
  <2> QED BY <1>1, <2>1, <2>2, PaidSound DEF b1
<1>5. /\ Sound(o2) /\ ComputeBlindingFactor(o2, fund.to) = b2 /\ VerifyRange(o2.proof)
      /\ o2.amt = change /\ o2.to = fund.to
  <2> HIDE DEF turned, change
  <2>1. o2.amt = change /\ o2.to = fund.to
    BY DEF BuildOutput
  <2> QED BY <1>2, <1>3, <2>1, PaidSound
<1> HIDE DEF o1, o2, b1, b2, change
<1>6. /\ o1.commit \in Int /\ b1 \in Int /\ Same(o1.commit, b1 + amt * H)
      /\ o2.commit \in Int /\ b2 \in Int /\ Same(o2.commit, b2 + change * H)
      /\ fund.commit \in Int /\ yi \in Int /\ Same(fund.commit, yi + fund.amt * H)
  BY <1>4, <1>5 DEF Sound
<1> HIDE DEF yi, oc
<1>7. (fund.commit - oc) % Q \in Int /\ Same((fund.commit - oc) % Q, yi - yOut) /\ yOut \in Int
  <2>1. b1 + b2 \in Int
    BY <1>6
  <2>2. yOut \in Int
    <3> DEFINE b == b1 + b2
    <3> HIDE DEF b
    <3>1. b % Q \in Int
      BY <2>1, SameIsMod DEF b
    <3> QED BY <3>1 DEF b
  <2>3. (fund.commit - oc) % Q \in Int /\ Same((fund.commit - oc) % Q, yi - ((b1 + b2) % Q))
    BY <1>3, <1>6, Balance DEF oc
  <2> QED BY <2>2, <2>3
<1> HIDE DEF yOut
<1>8. sk \in Int /\ Same(fund.dest, sk)
  BY KeyMine
<1>9. \A i \in 1..RingSize : Sound(mem[i])
  OBVIOUS
<1>10. mem = [i \in 1..RingSize |-> mem[i]] /\ mem[idx] = fund
  OBVIOUS
<1> HIDE DEF mem, sk
<1>11. Signable(body) /\ Keys(body)[idx] = fund.dest /\ Diffs(body)[idx] = (fund.commit - oc) % Q
  <2>1. body.ring = mem /\ body.outs = <<o1, o2>> /\ body.fee = fee /\ DOMAIN mem = 1..RingSize
    BY <1>10
  <2> HIDE DEF body
  <2>2. /\ Signable(body)
        /\ \A i \in 1..RingSize :
             /\ Keys(body)[i] = body.ring[i].dest
             /\ Diffs(body)[i] = (body.ring[i].commit
                                  - (((o1.commit + o2.commit) % Q) + PedersenSum(0, body.fee))) % Q
    BY <1>3, <1>4, <1>5, <1>9, <2>1, BodySignable
  <2> QED BY <1>10, <2>1, <2>2 DEF oc
<1> HIDE DEF body
<1>12. VerifyOZRS(body, sig)
  BY <1>1, <1>6, <1>7, <1>8, <1>11, RingVerifies
<1>13. sig.image = Preimage(fund.dest, sk)
  BY <1>11, SignImage
<1>14. Preimage(fund.dest, sk) = (fund.dest * HashOf(<<fund.dest>>)) % Q
  BY ImageOfOwner DEF Sound, sk
<1> QED BY <1>4, <1>5, <1>12, <1>13, <1>14
        DEF GoodPayment, mem, turned, change, o1, o2, body, b1, b2, yOut, sk, yi

\* Every step keeps the outputs sound.
LEMMA PayStep == ASSUME HashIsNumber, AmountsFit, PayInv, [PayNext]_payVars PROVE PayInv'
<1>1. ASSUME UNCHANGED <<chain, spends>> PROVE PayInv'
  BY <1>1 DEF PayInv
<1>2. ASSUME NEW key \in Wallet, NEW fee \in Fees, NEW tape \in Tape, Mint(key, fee, tape)
      PROVE  PayInv'
  <2> DEFINE o == CoinbaseOutput(key, Coinbase + fee, tape)
  <2>1. chain' = chain \cup {o} /\ spends' = spends
    BY <1>2 DEF Mint
  <2>2. Sound(o)
    <3>1. Coinbase + fee \in 0..MaxAmount
      BY PaymentsAssumption DEF AmountsFit
    <3>2. tape \in Seq(Nat) /\ Len(tape) >= 2
      BY PaymentsAssumption
    <3> QED BY <3>1, <3>2, CoinbaseSound
  <2> HIDE DEF o
  <2> QED BY <2>1, <2>2 DEF PayInv
<1>3. ASSUME NEW fund \in chain, NEW idx \in 1..RingSize, NEW rcpt \in Wallet, NEW fee \in Fees,
             NEW tape \in Tape, NEW others \in [(1..RingSize) \ {idx} -> chain],
             NEW amt \in 0..MaxAmount, Pay(fund, others, idx, rcpt, amt, fee, tape)
      PROVE  PayInv'
  <2> DEFINE ring == [i \in 1..RingSize |-> IF i = idx THEN fund ELSE others[i]]
             o1 == BuildOutput(rcpt, amt, tape)
             o2 == BuildOutput(fund.to, fund.amt - amt - fee, Tail(tape) \o <<Head(tape)>>)
             outs == <<o1, o2>>
             body == [ring |-> ring, outs |-> outs, fee |-> fee]
             yOut == (BlindFor(rcpt, tape[2]) + BlindFor(fund.to, At(tape, 2))) % Q
             sig == OZRSSign(body, ComputeTxnPrivateKey(fund, fund.to),
                             ComputeBlindingFactor(fund, fund.to), idx, yOut, tape)
             valid == VerifyOZRS(body, sig) /\ \A n \in 1..2 : VerifyRange(outs[n].proof)
  <2>1. /\ amt + fee <= fund.amt
        /\ spends' = spends \cup {[fund |-> fund.dest, image |-> sig.image, valid |-> valid]}
        /\ chain' = chain \cup {outs[n] : n \in {m \in 1..2 : valid}}
    BY <1>3 DEF Pay
  <2>2. /\ Sound(fund) /\ fee \in Nat
        /\ \A i \in (1..RingSize) \ {idx} : Sound(others[i])
    BY PaymentsAssumption DEF PayInv
  <2>3. /\ Sound(o1) /\ Sound(o2) /\ VerifyRange(o1.proof) /\ VerifyRange(o2.proof)
        /\ VerifyOZRS(body, sig) /\ sig.image = (fund.dest * HashOf(<<fund.dest>>)) % Q
    <3>1. GoodPayment(fund, others, idx, rcpt, amt, fee, tape)
      <4> HIDE DEF valid, sig, body, outs, o1, o2, ring, yOut
      <4> QED BY <2>1, <2>2, PayIsAccepted
    <3> QED BY <3>1 DEF GoodPayment
  <2> HIDE DEF o1, o2, body, sig
  <2>4. outs[1] = o1 /\ outs[2] = o2 /\ \A n \in 1..2 : n = 1 \/ n = 2
    OBVIOUS
  <2> HIDE DEF outs
  <2>5. valid /\ \A n \in 1..2 : Sound(outs[n])
    BY <2>3, <2>4
  <2> DEFINE x == [fund |-> fund.dest, image |-> sig.image, valid |-> valid]
  <2>6. x.valid /\ x.image = (x.fund * HashOf(<<x.fund>>)) % Q
    BY <2>3, <2>5
  <2> HIDE DEF valid
  <2>7. \A o \in chain' : Sound(o)
    BY <2>1, <2>5 DEF PayInv
  <2> HIDE DEF x
  <2>8. \A y \in spends' : y.valid /\ y.image = (y.fund * HashOf(<<y.fund>>)) % Q
    <3>1. spends' = spends \cup {x}
      BY <2>1 DEF x
    <3> QED BY <2>6, <3>1 DEF PayInv
  <2> QED BY <2>7, <2>8 DEF PayInv
<1> QED
  BY <1>1, <1>2, <1>3 DEF PayNext, Collect, payVars

\* ... so they are in every execution.
LEMMA PayInductive == ASSUME HashIsNumber, AmountsFit PROVE PaySpec => []PayInv
<1>1. PayInit => PayInv
  BY DEF PayInit, PayInv
<1>2. PayInv /\ [PayNext]_payVars => PayInv'
  BY PayStep
<1> QED BY <1>1, <1>2, PTL DEF PaySpec

\* What an owner signs with honest amounts is accepted by everybody, for every
\* group, hash, ring size, place, member, tape, amount and fee (VerifyTxn,
\* txn.go:396-404).
THEOREM SignedAreAccepted ==
  ASSUME HashIsNumber, AmountsFit PROVE PaySpec => []SignedVerifies
<1>1. PayInv => SignedVerifies
  BY DEF PayInv, SignedVerifies
<1> QED BY <1>1, PayInductive, PTL

\* Every recorded output commits to the amount its sender meant, under the
\* blinding factor its recipient computes, however many bits there are
\* (BuildOutputs and ComputeBlindingFactor).
THEOREM CommitmentsOpen ==
  ASSUME HashIsNumber, AmountsFit PROVE PaySpec => []CommitsToAmount
<1>1. ASSUME PayInv PROVE CommitsToAmount
  <2> SUFFICES ASSUME NEW o \in chain
               PROVE  (o.commit - PedersenSum(ComputeBlindingFactor(o, o.to), o.amt)) % Q = 0
    BY DEF CommitsToAmount
  <2> DEFINE b == ComputeBlindingFactor(o, o.to) + o.amt * H
             c == o.commit
  <2>1. c \in Int /\ b \in Int /\ Same(c, b)
    <3>1. MaxAmount \in Int
      BY Scalars, Pow2Is DEF MaxAmount
    <3> QED BY <1>1, <3>1, Scalars DEF PayInv, Sound
  <2> HIDE DEF b, c
  <2>2. b % Q \in Int /\ Same(b, b % Q)
    BY <2>1, SameIsMod
  <2>3. Same(c, b % Q)
    BY <2>1, <2>2, SameTrans
  <2>4. (c - (b % Q)) % Q = 0
    BY <2>1, <2>2, <2>3, SameIsMod
  <2> QED BY <2>4 DEF PedersenSum, b, c
<1>2. PayInv => CommitsToAmount
  BY <1>1
<1> QED BY <1>2, PayInductive, PTL

\* What the recipient reads of an output that was paid to it is the complement
\* of the amount, always: `1 - j` includes the bits that are not set
\* (DecryptAmount, output.go:84-112).
ReadsComplement ==
  \A o \in chain : ~IsCoinbase(o) => DecryptAmount(o, o.to) = MaxAmount - o.amt

\* For every amount, group and hash it is so (output.go:84-112).
THEOREM DecryptIsComplement ==
  ASSUME HashIsNumber, AmountsFit PROVE PaySpec => []ReadsComplement
<1>1. ASSUME PayInv PROVE ReadsComplement
  <2> SUFFICES ASSUME NEW o \in chain, ~IsCoinbase(o)
               PROVE  DecryptAmount(o, o.to) = MaxAmount - o.amt
    BY DEF ReadsComplement
  <2>1. Sound(o)
    BY <1>1 DEF PayInv
  <2>2. PICK tape \in Seq(Nat) : o.proof = RangeSign(o.amt, ComputeBlindingFactor(o, o.to), tape)
    BY <2>1 DEF Sound
  <2> QED BY <2>1, <2>2, DecryptIs DEF Sound
<1>2. PayInv => ReadsComplement
  BY <1>1
<1> QED BY <1>2, PayInductive, PTL

\* So the recipient can read each of the bits, and has the key.
THEOREM RecipientReads ==
  ASSUME HashIsNumber, AmountsFit PROVE PaySpec => []RecipientCanSpend
<1>1. ASSUME PayInv, ReadsComplement, OwnerHasKey PROVE RecipientCanSpend
  <2>1. \A o \in chain : o.amt \in 0..MaxAmount
    BY <1>1 DEF PayInv, Sound
  <2>2. MaxAmount \in Int
    BY Scalars, Pow2Is DEF MaxAmount
  <2>3. \A o \in chain : MaxAmount - o.amt \in 0..MaxAmount
    BY <2>1, <2>2
  <2> QED BY <1>1, <2>3 DEF RecipientCanSpend, ReadsComplement
<1>2. PayInv /\ ReadsComplement /\ OwnerHasKey => RecipientCanSpend
  BY <1>1
<1> QED BY <1>2, PayInductive, DecryptIsComplement, RecipientHasKey, PTL
===============================================================================
