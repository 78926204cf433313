------------------------------- MODULE MCClient -------------------------------
(***************************************************************************)
(* Instances of Client for TLC.  The blocks: g is a first block, a1 and b1 *)
(* compete on top of it, a2 extends a1 and c2 extends it too, spending the *)
(* output that t1 of a1 has spent; f starts another chain and f1 extends it.*)
(***************************************************************************)
EXTENDS Client

CONSTANTS g, a1, b1, a2, c2, f, f1,   \* blocks
          t1, t2, u1,             \* transactions
          p1, p2,                 \* preimages
          og, oa, ob, oc, of, oe, o1, o2   \* outputs

MCPrev == [b \in Block |->
  CASE b = g -> NoHash [] b = f -> NoHash
    [] b = a1 -> g [] b = b1 -> g [] b = a2 -> a1 [] b = c2 -> a1
    [] b = f1 -> f]

MCAncestors ==
  LET Path[b \in Block] == {b} \cup IF MCPrev[b] = NoHash THEN {} ELSE Path[MCPrev[b]]
  IN Path

MCSeqZero == Block \cap {g, f}

\* t1 spends the coinbase of g; t2 spends it again; u1 is malformed.
MCTxns ==
  [b \in Block |-> Txn \cap CASE b = a1 -> {t1} [] b = c2 -> {t2} [] OTHER -> {}]
MCCoinbaseOut == [b \in Block |->
  CASE b = g -> og [] b = a1 -> oa [] b = b1 -> ob [] b \in {a2, c2} -> oc
    [] b = f -> of [] b = f1 -> oe]
MCPimg == [t \in Txn |-> p1]
MCInputs == [t \in Txn |-> {og}]
MCOutputs == [t \in Txn |-> CASE t = t1 -> {o1} [] OTHER -> {o2}]

\* First blocks are not announced: the miner writes its own into the database
\* itself, and a client broadcasts only hashes that came to it.
MCAnnounced == {b \in Block : MCPrev[b] # NoHash}

\* Bounds on the instances: goroutines at a time, and blocks that grow old.
CONSTANTS MaxFrontier, MaxExpired
Bounds == Cardinality(frontier) <= MaxFrontier /\ Cardinality(expired) <= MaxExpired

MCValidTxn == Txn \ {u1}
===============================================================================
