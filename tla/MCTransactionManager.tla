------------------------ MODULE MCTransactionManager ------------------------
(* Finite instances of TransactionManager.                                 *)
EXTENDS TransactionManager, TLC

CONSTANTS t1, t2, small, big

\* Three pages: enough for every insert MaxOps allows.
MCRIDs == (1 .. 3) \X (1 .. 3)

\* More pages, for tuples that move.
MovingRIDs == (1 .. 5) \X (1 .. 2)

\* Every tuple has the same size: an update always fits in place.
EqualSizes == [v \in Tuples |-> 1]

\* "big" takes twice the space of "small".
TwoSizes == [v \in Tuples |-> IF v = big THEN 2 ELSE 1]

TxnSymmetry == Permutations(TxnIDs)
============================================================================
