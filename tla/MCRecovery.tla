----------------------------- MODULE MCRecovery -----------------------------
(* Small instances of Recovery.                                            *)
EXTENDS Recovery, TLC

CONSTANTS t1, t2, small, large

\* "large" takes twice the space of "small".
MCTupleSize == (small :> 1) @@ (large :> 2)

TxnSymmetry == Permutations(Txns)
============================================================================
