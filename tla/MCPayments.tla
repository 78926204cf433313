------------------------------ MODULE MCPayments ------------------------------
(***************************************************************************)
(* Instances of Payments for TLC: a group of order 31, amounts of three    *)
(* bits, rings of two or three and a hash that adds up powers.             *)
(***************************************************************************)
EXTENDS Payments, SequencesExt

CONSTANT Tapes   \* bound: how many of the tapes

MCHashOf(s) == FoldLeft(LAMBDA a, x : (7 * a + 5 * x + x * x + 3) % Q, 1, s)
MCWallet == {[tsk |-> 4, psk |-> 9], [tsk |-> 11, psk |-> 6]}
MCTape == { <<3, 8, 20, 5, 13, 2, 17, 6, 25, 9>>, <<12, 1, 7, 30, 4, 22, 10, 3, 16, 14>>,
            <<26, 19, 2, 11, 8, 5, 23, 28, 1, 6>> }
TapesOf == {t \in MCTape : \E n \in 1..Tapes : t = CHOOSE u \in MCTape : u[1] = <<3, 12, 26>>[n]}
===============================================================================
