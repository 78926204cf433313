------------------------------- MODULE Retarget -------------------------------
(***************************************************************************)
(* The difficulty and the coinbase value along a chain of honestly built   *)
(* blocks: the difficulty is that of the ancestor Spacing blocks below,    *)
(* changed by at most one according to the time since then.  Header n of   *)
(* the sequence has SeqNum n - 1.                                          *)
(***************************************************************************)
EXTENDS Integers, Sequences

CONSTANTS
  Spacing,     \* DIFFICULTY_SPACING
  TwoWeeks,    \* TWO_WEEKS_SEC
  Initial,     \* INITIAL_DIFFICULTY
  Converted,   \* what uint64 makes of a float64 it cannot hold, per build
  Reward,      \* 50 * 100000000
  Halving,     \* 21000
  Time,        \* times of blocks; they need not grow
  MaxLength    \* bound: blocks

ASSUME RetargetAssumption ==
  /\ Spacing \in Nat \ {0} /\ TwoWeeks \in Nat \ {0} /\ Halving \in Nat \ {0}
  /\ Initial \in Nat /\ Reward \in Nat /\ MaxLength \in Nat
  /\ Converted \subseteq Nat /\ Time \subseteq Nat

VARIABLES
  headers,  \* [time, diff] of each block
  supply    \* what the coinbases have paid

retargetVars == <<headers, supply>>

\* Halved[n]: the reward shifted right by n bits.
Halved[n \in Nat] == IF n = 0 THEN Reward ELSE Halved[n - 1] \div 2

CoinbaseValue(seqnum) == Halved[seqnum \div Halving]

\* Mutant: the fraction is upside down.
NewTargetInverted(old, actual) == IF actual > 0 THEN {(old * actual) \div TwoWeeks} ELSE Converted

\* uint64(float64(old) * (float64(TwoWeeks) / float64(actual))): rounding may
\* fall short of a quotient without remainder; for an elapsed time of zero or
\* less the float is infinite or negative.
NewTarget(old, actual) ==
  IF actual <= 0 THEN Converted
  ELSE {(old * TwoWeeks) \div actual}
       \cup {q \in 0..(old * TwoWeeks) : (q + 1) * actual = old * TwoWeeks /\ actual # TwoWeeks}

\* Mutant: the bounds are two apart from the old target.
ClampToTwo(old, n) ==
  IF old > 1 /\ n < old - 2 THEN old - 2 ELSE IF n > old + 2 THEN old + 2 ELSE n

Clamp(old, n) ==
  IF old > 0 /\ n < old - 1 THEN old - 1 ELSE IF n > old + 1 THEN old + 1 ELSE n

\* The header that NthAncestorHeader finds below the block with SeqNum s.
Ancestor(s) == headers[s - Spacing + 1]

ComputeDifficulty(s, t) ==
  IF s <= Spacing THEN {Initial}
  ELSE {Clamp(Ancestor(s).diff, n) : n \in NewTarget(Ancestor(s).diff, t - Ancestor(s).time)}

RetargetInit ==
  /\ headers \in {<<[time |-> t, diff |-> Initial]>> : t \in Time}
  /\ supply = Reward

\* Mutant: the value grows with every block.
ExtendGrowing(t) ==
  LET s == Len(headers) IN
  /\ s < MaxLength
  /\ \E d \in ComputeDifficulty(s, t) : headers' = Append(headers, [time |-> t, diff |-> d])
  /\ supply' = supply + Reward * (s + 1)

\* NewBlock with the time t, adopted with ValidDifficulty.
Extend(t) ==
  LET s == Len(headers) IN
  /\ s < MaxLength
  /\ \E d \in ComputeDifficulty(s, t) : headers' = Append(headers, [time |-> t, diff |-> d])
  /\ supply' = supply + CoinbaseValue(s)

RetargetNext == \E t \in Time : Extend(t)
RetargetSpec == RetargetInit /\ [][RetargetNext]_retargetVars

-------------------------------------------------------------------------------

\* The difficulty moves by at most one in Spacing blocks, whatever the times of
\* the blocks and the build of the client (ComputeDifficulty, chain.go:79-90):
\* a difficulty that nobody can mine, or that is zero, is Initial periods away.
DifficultyDrifts ==
  \A i \in DOMAIN headers, k \in 0..Len(headers) :
    i <= (k + 1) * Spacing => headers[i].diff \in (Initial - k)..(Initial + k)

\* A period shorter than two weeks never makes mining easier, a longer one
\* never harder.
FollowsTime ==
  \A i \in (Spacing + 2)..Len(headers) :
    LET old == headers[i - Spacing]
        actual == headers[i].time - old.time
    IN  /\ actual \in 1..TwoWeeks => headers[i].diff >= old.diff
        /\ actual > TwoWeeks => headers[i].diff <= old.diff

\* The supply is bounded, so that sums of amounts fit into 64 bits
\* (CoinbaseValue, chain.go:8).
SupplyBounded == supply <= 2 * Reward * Halving
===============================================================================
