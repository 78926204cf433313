-------------------------------- MODULE Merkle --------------------------------
(***************************************************************************)
(* MerkleHash of the transactions of a block, one iteration of its outer   *)
(* loop per step.  Hash(t) of a transaction is t, Hash of two sums is the  *)
(* pair of them, and NoHash is SHA256Sum{}: hashes do not collide.         *)
(***************************************************************************)
EXTENDS Naturals, Sequences

CONSTANTS
  Txn, NoHash,
  MaxTxns      \* bound: transactions of a block

ASSUME MerkleAssumption == NoHash \notin Txn /\ MaxTxns \in Nat

VARIABLES
  txns,      \* b.Txns
  slots,     \* the sums the loop works on
  newSlots,  \* the combined sums of the last iteration
  stage

merkleVars == <<txns, slots, newSlots, stage>>

MerkleInit ==
  /\ txns \in UNION {[1..n -> Txn] : n \in 1..MaxTxns}
  /\ slots = <<>> /\ newSlots = <<>> /\ stage = "fill"

\* The number of slots is the least power of two that holds the transactions.
IsNumSlots(n) ==
  /\ \E k \in 0..Len(txns) : n = 2 ^ k
  /\ Len(txns) <= n /\ (n = 1 \/ n < 2 * Len(txns))

Fill ==
  /\ stage = "fill" /\ stage' = "reduce"
  /\ \E n \in 1..(2 * Len(txns)) :
       /\ IsNumSlots(n)
       /\ slots' = [i \in 1..n |-> IF i <= Len(txns) THEN txns[i] ELSE NoHash]
  /\ UNCHANGED <<txns, newSlots>>

\* Mutant: what the comment says, the combined sums replace the slots.
ReduceToNew ==
  /\ stage = "reduce" /\ Len(slots) > 1
  /\ newSlots' = [i \in 1..(Len(slots) \div 2) |-> <<slots[2 * i - 1], slots[2 * i]>>]
  /\ slots' = newSlots'
  /\ UNCHANGED <<txns, stage>>

\* `slots = slots[:numNewSlots]`: the first half of the slots stays, and the
\* combined sums are dropped.
Reduce ==
  /\ stage = "reduce" /\ Len(slots) > 1
  /\ newSlots' = [i \in 1..(Len(slots) \div 2) |-> <<slots[2 * i - 1], slots[2 * i]>>]
  /\ slots' = SubSeq(slots, 1, Len(slots) \div 2)
  /\ UNCHANGED <<txns, stage>>

ReturnRoot == stage = "reduce" /\ Len(slots) = 1 /\ stage' = "done" /\ UNCHANGED <<txns, slots, newSlots>>

Returned == stage = "done" /\ UNCHANGED merkleVars

MerkleNext == Fill \/ Reduce \/ ReturnRoot \/ Returned
MerkleSpec == MerkleInit /\ [][MerkleNext]_merkleVars

-------------------------------------------------------------------------------

\* What the loop keeps is the beginning of the list: the root of a block is
\* the hash of its first transaction, the coinbase (block.go:238-250).
RootIsCoinbase ==
  /\ stage = "reduce" => Len(slots) >= 1 /\ slots[1] = txns[1]
  /\ stage = "done" => slots = <<txns[1]>>
===============================================================================
