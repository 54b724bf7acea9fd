---------------------------- MODULE MCTablePage ----------------------------
(* A page of ten units: tuples of one to three units, slots of one.        *)
EXTENDS TablePage, TLC

CONSTANTS a, b, c

MCTupleSize == (a :> 1) @@ (b :> 2) @@ (c :> 3)
=============================================================================
