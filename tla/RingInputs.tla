------------------------------ MODULE RingInputs ------------------------------
(***************************************************************************)
(* The inputs of a transaction that the wallet server signs: RandomOutputs *)
(* walks through mapDB, whose keys are the hashes of the outputs and       *)
(* preimages of recorded blocks, and looks for each output in its block;   *)
(* handleSign then replaces the first of them by the output to be spent.   *)
(* One iteration of a loop is one step.  An output is its own hash.        *)
(***************************************************************************)
EXTENDS Naturals, Sequences, FiniteSets

CONSTANTS
  NumInputs,  \* TXN_NUM_INPUTS
  Key,        \* the keys of mapDB, in whatever order the iterator has
  MapsTo,     \* MapsTo[k]: the block under key k
  Body,       \* Body[b]: the outputs of the transactions of b, coinbase first
  Fund        \* the output to be spent

Block == {MapsTo[k] : k \in Key}
OutputsIn(b) == UNION {{Body[b][n][l] : l \in DOMAIN Body[b][n]} : n \in DOMAIN Body[b]}

\* The map names every output of its blocks; a coinbase has one output, every
\* transaction at least one, and outputs differ.
ASSUME RingAssumption ==
  /\ NumInputs \in Nat \ {0}
  /\ \A b \in Block :
       /\ Body[b] \in Seq(Seq(Key)) /\ Len(Body[b]) > 0 /\ Len(Body[b][1]) = 1
       /\ \A o \in OutputsIn(b) : MapsTo[o] = b
       /\ \A n \in 2..Len(Body[b]) : Len(Body[b][n]) > 0 /\ Body[b][n][1] # Body[b][1][1]
  /\ Fund \in UNION {OutputsIn(b) : b \in Block}

VARIABLES
  left,      \* keys the iterator has not given yet
  key,       \* iter.Key()
  txn, out,  \* positions in block.Txns and in txn.Body.Outputs
  ring,      \* outputs, then the inputs of the transaction
  pc

ringVars == <<left, key, txn, out, ring, pc>>

RingInit ==
  /\ left = Key /\ key \in Key /\ txn = 1 /\ out = 1 /\ ring = <<>> /\ pc = "next"

\* FindBlock gives the block, or an error, or neither: when no peer has the
\* block its error is that of the iterator, which has none, and the handler
\* dereferences nil.
NextKey ==
  /\ pc = "next"
  /\ \E k \in left : key' = k /\ left' = left \ {k}
  /\ txn' = 1 /\ out' = 1 /\ pc' \in {"scan", "next", "panicked"}
  /\ UNCHANGED ring

\* Mutant: what there is is used when the iterator ends.
TakeWhatThereIs == pc = "next" /\ left = {} /\ pc' = "found" /\ UNCHANGED <<left, key, txn, out, ring>>

NotEnough == pc = "next" /\ left = {} /\ pc' = "failed" /\ UNCHANGED <<left, key, txn, out, ring>>

Txns == Body[MapsTo[key]]
InBlock == pc = "scan" /\ txn <= Len(Txns)
AtOutput == InBlock /\ out <= Len(Txns[txn])

\* Mutant: an output is taken although it is another one.
TakeAny ==
  /\ AtOutput
  /\ ring' = Append(ring, Txns[txn][out]) /\ out' = out + 1
  /\ pc' = IF Len(ring') = NumInputs THEN "found" ELSE "scan"
  /\ UNCHANGED <<left, key, txn>>

Take ==
  /\ AtOutput /\ Txns[txn][out] = key
  /\ ring' = Append(ring, key) /\ out' = out + 1
  /\ pc' = IF Len(ring') = NumInputs THEN "found" ELSE "scan"
  /\ UNCHANGED <<left, key, txn>>

\* `goto NextOutput`: the label is that of the loop over the outputs, which
\* starts again.
Restart ==
  /\ AtOutput /\ Txns[txn][out] # key
  /\ out' = 1 /\ UNCHANGED <<left, key, txn, ring, pc>>

NextTxn ==
  /\ InBlock /\ out > Len(Txns[txn])
  /\ txn' = txn + 1 /\ out' = 1 /\ UNCHANGED <<left, key, ring, pc>>

NextBlock ==
  /\ pc = "scan" /\ txn > Len(Txns)
  /\ pc' = "next" /\ UNCHANGED <<left, key, txn, out, ring>>

\* inputs[0] = *fundingTxn.Output
UseFund ==
  /\ pc = "found" /\ ring' = [ring EXCEPT ![1] = Fund] /\ pc' = "signed"
  /\ UNCHANGED <<left, key, txn, out>>

Ended == pc \in {"signed", "failed", "panicked"}
Finished == Ended /\ UNCHANGED ringVars

RingNext ==
  \/ NextKey \/ NotEnough \/ Take \/ Restart \/ NextTxn \/ NextBlock \/ UseFund \/ Finished

\* The handler is one goroutine that always has a next statement.
RingSpec == RingInit /\ [][RingNext]_ringVars /\ WF_ringVars(RingNext)

-------------------------------------------------------------------------------

\* Positions stay inside the block, and the ring is full when it is used.
RingTypeOK ==
  /\ left \subseteq Key /\ key \in Key /\ Len(ring) \in 0..NumInputs
  /\ pc = "scan" => txn \in 1..Len(Txns) + 1
  /\ InBlock => out \in 1..Len(Txns[txn]) + 1
  /\ pc \in {"found", "signed"} => Len(ring) = NumInputs

\* No output is in the ring twice before the funding output replaces the
\* first one: every key is looked at once, and an output is taken for its own
\* key only (RandomOutputs, wallet-server.go:325-335).
RingDistinct ==
  pc \notin {"signed"} => \A n, l \in DOMAIN ring : ring[n] = ring[l] => n = l

\* Decoys are coinbase outputs, and all but the last one of blocks without
\* any other transaction: the walk never gets past a block with payments
\* (wallet-server.go:322-337).
DecoysAreCoinbases ==
  \A n \in DOMAIN ring :
    \/ ring[n] = Fund /\ pc = "signed"
    \/ LET b == MapsTo[ring[n]] IN
         /\ ring[n] = Body[b][1][1]
         /\ n < Len(ring) \/ pc = "next" => Len(Body[b]) = 1

\* A request to sign comes to an end.
SignEnds == <>Ended
===============================================================================
