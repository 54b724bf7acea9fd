---------------------------- MODULE MCTableHeap ----------------------------
(* Small instances of TableHeap.                                           *)
EXTENDS TableHeap, TLC

CONSTANTS t1, t2, t3, tuple

MCRIDs == Pages \X (1 .. 2)

\* Two tuples to a page, and the room to use an emptied slot again.
OneSize == [v \in Tuples |-> 1]

TxnSymmetry == Permutations(TxnIDs)
============================================================================
