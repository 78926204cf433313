-------------------------------- MODULE Ledger --------------------------------
(***************************************************************************)
(* What the consensus of one client promises, with databases, recursion,   *)
(* goroutines and the network left out: a chain that grows by one block at *)
(* its tip, never spends a preimage twice along its length, can be dropped *)
(* for a chain that starts over at a first block (a block with no previous *)
(* hash is always adopted, consensus.go:70), and is forgotten when the     *)
(* process restarts (LastHeader is not stored, client.go:65-87).           *)
(***************************************************************************)
EXTENDS Blocks

VARIABLE tip   \* the last block of the chain, NoHead when there is none

Init == tip = NoHead

\* One block on the tip, spending only preimages the chain has not spent.
Extend(b) ==
  /\ tip \in Block /\ Prev[b] = tip
  /\ PimgsOf(b) \cap SpentOn(tip) = {}
  /\ tip' = b

\* A first block starts the chain over.
Begin(b) == Prev[b] = NoHash /\ tip' = b

Forget == tip' = NoHead

Next == Forget \/ \E b \in WellFormed \cap RightDifficulty \cap RightCoinbase : Extend(b) \/ Begin(b)

Spec == Init /\ [][Next]_tip
===============================================================================
