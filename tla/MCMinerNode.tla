------------------------------ MODULE MCMinerNode ------------------------------
(***************************************************************************)
(* Instances of MinerNode for TLC.  g is the miner's first block; m1, m2   *)
(* and d2 are blocks it may find: m1 on g without transactions, m2 on m1   *)
(* with t1, d2 on m1 with t1 and t2.  A peer mines s on g with t1, or has  *)
(* a chain of its own, f1 on f.  t1 and t2 both spend the coinbase of g.   *)
(***************************************************************************)
EXTENDS MinerNode

CONSTANTS g, m1, m2, d2, s, f, f1, t1, t2, p1,
          og, oa, ob, oc, of, oe, o1, o2

MCPrev == [b \in Block |->
  CASE b \in {g, f} -> NoHash [] b \in {m1, s} -> g [] b \in {m2, d2} -> m1 [] b = f1 -> f]

MCAncestors ==
  LET Path[b \in Block] == {b} \cup IF MCPrev[b] = NoHash THEN {} ELSE Path[MCPrev[b]]
  IN Path

MCSeqZero == Block \cap {g, f}
MCTxns == [b \in Block |->
  CASE b \in {m2, s} -> {t1} [] b = d2 -> {t1, t2} [] OTHER -> {}]
MCCoinbaseOut == [b \in Block |->
  CASE b = g -> og [] b = m1 -> oa [] b \in {m2, d2} -> ob [] b = s -> oc
    [] b = f -> of [] b = f1 -> oe]
MCPimg == [t \in Txn |-> p1]
MCInputs == [t \in Txn |-> {og}]
MCOutputs == [t \in Txn |-> IF t = t1 THEN {o1} ELSE {o2}]

\* Bounds on the instances: goroutines at a time, and blocks that grow old.
CONSTANTS MaxFrontier, MaxExpired
Bounds == Cardinality(frontier) <= MaxFrontier /\ Cardinality(expired) <= MaxExpired
===============================================================================
