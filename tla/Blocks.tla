-------------------------------- MODULE Blocks --------------------------------
(***************************************************************************)
(* The data of OZcoin: blocks, transactions, outputs and key images        *)
(* ("preimages" in the source).  A block and its hash are the same model   *)
(* value, as are a transaction, an output, a preimage and theirs: SHA-256  *)
(* is taken to be injective.  What the code computes from the bytes of a   *)
(* block alone - proof of work, Merkle root, number of inputs and outputs, *)
(* ring signatures, range proofs, coinbase value, difficulty - is a        *)
(* constant set; what it looks up in the databases is in Client.           *)
(***************************************************************************)
CONSTANTS
  Block,        \* blocks, named by the hash of their header (block.go:11-24)
  Txn,          \* transactions that travel on their own, by their hash
  Preimage,     \* key images of the ring signatures, one per spent output
  Output,       \* transaction outputs, by their hash
  NoHash,       \* SHA256Sum{}: the PrevHash of a first block, a missing map entry
  NoHead,       \* a header no block extends: BlockHeader{} before the first block
  Prev,         \* Prev[b]: Header.PrevHash
  Ancestors,    \* Ancestors[b]: b and the blocks below it
  SeqZero,      \* blocks whose Header.SeqNum is 0
  Txns,         \* Txns[b]: the transactions of b after the coinbase
  CoinbaseOut,  \* CoinbaseOut[b]: the output of the coinbase transaction of b
  Pimg,         \* Pimg[t]: the preimage of the signature of t
  Inputs,       \* Inputs[t]: the outputs in the ring t is signed with
  Outputs,      \* Outputs[t]: the outputs t creates
  WellFormed,   \* blocks with valid proof of work that pass PrevalidBlock
  RightDifficulty, \* blocks with the difficulty ComputeDifficulty gives
  RightCoinbase,   \* blocks whose coinbase commits to the block's value and fees
  ValidTxn,     \* transactions with 8 inputs and 2 complete outputs
  ValidCoinbaseTxn, \* transactions with the one input and output of a coinbase
  Signed        \* transactions whose ring signature and range proofs verify

(* The shape of the data.                                                  *)
ASSUME BlocksAssumption ==
  /\ NoHash \notin Block /\ NoHead \notin Block /\ NoHash # NoHead
  /\ Prev \in [Block -> Block \cup {NoHash}]
  /\ SeqZero \subseteq Block /\ WellFormed \subseteq Block
  /\ RightDifficulty \subseteq Block /\ RightCoinbase \subseteq Block
  /\ ValidTxn \subseteq Txn /\ ValidCoinbaseTxn \subseteq Txn /\ Signed \subseteq Txn
  /\ Txns \in [Block -> SUBSET Txn] /\ CoinbaseOut \in [Block -> Output]
  /\ Pimg \in [Txn -> Preimage]
  /\ Inputs \in [Txn -> SUBSET Output] /\ Outputs \in [Txn -> SUBSET Output]
  /\ \A b \in WellFormed : (b \in SeqZero => Prev[b] = NoHash) /\ Txns[b] \subseteq ValidTxn

(* Ancestors[b] is the path from b down Prev; it is finite, because a      *)
(* header contains the hash of the previous one.                           *)
ASSUME ChainAssumption ==
  /\ Ancestors \in [Block -> SUBSET Block]
  /\ \A b \in Block :
       /\ Ancestors[b] = {b} \cup IF Prev[b] = NoHash THEN {} ELSE Ancestors[Prev[b]]
       /\ Prev[b] # NoHash => b \notin Ancestors[Prev[b]]
       /\ \A a \in Ancestors[b] : /\ Ancestors[a] \subseteq Ancestors[b]
                                 /\ (a = b \/ \E c \in Ancestors[b] : Prev[c] = a)

(* One key space for frontier, txnPoolDB and mapDB: hashes do not collide. *)
ASSUME HashAssumption ==
  /\ Block \cap Txn = {} /\ Txn \cap Preimage = {} /\ Output \cap Preimage = {}
  /\ NoHash \notin Txn \cup Preimage \cup Output

PimgsOf(b) == {Pimg[t] : t \in Txns[b]}

OutputsOf(b) == {CoinbaseOut[b]} \cup UNION {Outputs[t] : t \in Txns[b]}

\* The keys PutMapToBlock writes for b.
MapKeys(b) == PimgsOf(b) \cup OutputsOf(b)

(* The chain below a header, empty when no block is named, and the        *)
(* preimages it spends.                                                   *)
ChainOf(h) == IF h \in Block THEN Ancestors[h] ELSE {}
SpentOn(h) == UNION {PimgsOf(b) : b \in ChainOf(h)}
===============================================================================
