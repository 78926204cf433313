---------------------------- MODULE MCWalletServer ----------------------------
(***************************************************************************)
(* Instances of WalletServer for TLC: a server srv and a miner mnr,  *)
(* whose first block g pays the first key; a1 on top of it carries t1.     *)
(* Amounts are below 4 (two bits), integers below 8.  t1 leaves a change,  *)
(* t2 asks for all that g pays.                                            *)
(***************************************************************************)
EXTENDS WalletServer

CONSTANTS g, a1, t1, t2, p1, p2, og, oa, y1, c1, y2, c2, srv, mnr

CONSTANTS MaxLive   \* bound: requests at a time

MCPassword == [p \in Opener |-> "pw"]
MCKeyRank == [k \in Draw |-> k]
MCCoinbaseKey == [b \in Block |-> IF b = g THEN 1 ELSE Key0]
MCValue == [b \in Block |-> 3]
MCSigner == [t \in Txn |-> mnr]
MCAmount == [t \in Txn |-> IF t = t1 THEN 1 ELSE 2]
MCFee == [t \in Txn |-> 1]
MCPayTo == [t \in Txn |-> IF t = t1 THEN 1 ELSE Key0]
MCPay == [t \in Txn |-> IF t = t1 THEN y1 ELSE y2]
MCChange == [t \in Txn |-> IF t = t1 THEN c1 ELSE c2]
MCOutputs == [t \in Txn |-> {MCPay[t], MCChange[t]}]
MCPrev == [b \in Block |-> IF b = g THEN NoHash ELSE g]
MCAncestors == [b \in Block |-> {b, g}]
MCTxns == [b \in Block |-> IF b = g THEN {} ELSE Txn \cap {t1}]
MCCoinbaseOut == [b \in Block |-> IF b = g THEN og ELSE oa]
MCPimg == [t \in Txn |-> IF t = t1 THEN p1 ELSE p2]
MCInputs == [t \in Txn |-> {og}]

Live == {h \in Handler : pc[h] # "idle"}
Bounds == Cardinality(Live) <= MaxLive

\* Processes open the wallet one after the other, with faults or without any.
VARIABLE faulty

MCInit == WalletInit /\ faulty \in BOOLEAN
MCNext == (IF faulty THEN WalletNext ELSE SteadyNext) /\ OneOpen' /\ UNCHANGED faulty
MCSpec == MCInit /\ [][MCNext]_<<walletVars, faulty>> /\ WalletFairness

\* Without faults a block posted under a token is collected (handleNewBlock).
CalmCollected == ~faulty => Collected
===============================================================================
