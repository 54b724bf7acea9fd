----------------------------- MODULE MCCatalog -----------------------------
(* A small instance of Catalog.                                            *)
EXTENDS Catalog

CONSTANTS c1, c2

CreatorSymmetry == Permutations(Creators)
============================================================================
