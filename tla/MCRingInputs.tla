----------------------------- MODULE MCRingInputs -----------------------------
(***************************************************************************)
(* Instances of RingInputs for TLC: blocks b1, b2, b3 have a coinbase      *)
(* only, b4 a payment as well, whose preimage p is a key of mapDB too.     *)
(***************************************************************************)
EXTENDS RingInputs

CONSTANTS b1, b2, b3, b4, c1, c2, c3, c4, x, y, p

MCMapsTo == [k \in Key |->
  CASE k = c1 -> b1 [] k = c2 -> b2 [] k = c3 -> b3 [] OTHER -> b4]
MCBody == [b \in {b1, b2, b3, b4} |->
  CASE b = b1 -> << <<c1>> >> [] b = b2 -> << <<c2>> >> [] b = b3 -> << <<c3>> >>
    [] b = b4 -> << <<c4>>, <<x, y>> >>]
===============================================================================
