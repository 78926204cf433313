---------------------------- MODULE MCComputations ----------------------------
(***************************************************************************)
(* RingInputs, Payments, Retarget and Merkle for TLC.  They share no state:*)
(* an initial state leaves one of them to be computed, and nothing else    *)
(* moves.                                                                  *)
(***************************************************************************)
EXTENDS MCRingInputs, MCPayments, Retarget, Merkle

CONSTANTS t1, t2, t3   \* transactions of a block

VARIABLE computed

computation == <<ringVars, payVars, retargetVars, merkleVars>>

\* The others stay where they start.
MCInit ==
  /\ computed \in {"ring", "payment", "difficulty", "root"}
  /\ RingInit /\ PayInit /\ RetargetInit /\ MerkleInit
  /\ computed # "difficulty" => headers[1].time = 0
  /\ computed # "root" => txns = <<t1>>
  /\ computed # "ring" => key = c1

MCNext ==
  /\ UNCHANGED computed
  /\ \/ computed = "ring" /\ RingNext /\ UNCHANGED <<payVars, retargetVars, merkleVars>>
     \/ computed = "payment" /\ PayNext /\ UNCHANGED <<ringVars, retargetVars, merkleVars>>
     \/ computed = "difficulty" /\ RetargetNext /\ UNCHANGED <<ringVars, payVars, merkleVars>>
     \/ computed = "root" /\ MerkleNext /\ UNCHANGED <<ringVars, payVars, retargetVars>>

MCSpec == MCInit /\ [][MCNext]_<<computation, computed>>
===============================================================================
