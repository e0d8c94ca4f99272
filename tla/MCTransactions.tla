--------------------------- MODULE MCTransactions ---------------------------
(* Instances of Transactions.                                              *)
EXTENDS Transactions, TLC

CONSTANTS t1, t2, k1, k2

StartRow(rid, t, k) == [rid |-> rid, tab |-> t, key |-> k, org |-> rid, by |-> {},
                        xmin |-> Frozen, xmax |-> Alive]

OneRow  == {StartRow(1, t1, k1)}
TwoRows == {StartRow(1, t1, k1), StartRow(2, t2, k1)}

SessionSymmetry == Permutations(Sessions)
=============================================================================
