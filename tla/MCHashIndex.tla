---------------------------- MODULE MCHashIndex ----------------------------
(* A hash table of two blocks of two slots.                                *)
EXTENDS HashIndex, TLC

CONSTANTS k1, k2, k3, k4

\* k1 and k2 begin at the same slot with different hashes, k4 has the hash of k1.
MCHash == (k1 :> 0) @@ (k2 :> 6) @@ (k3 :> 5) @@ (k4 :> 0)

\* The rows are alike, and so are the two keys with one hash.
Alike == {p @@ q : p \in Permutations(Values), q \in Permutations({k1, k4})}
=============================================================================
