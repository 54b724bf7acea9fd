------------------------ MODULE MCBufferPoolManager ------------------------
(* Finite instances of BufferPoolManager.                                  *)
EXTENDS BufferPoolManager

ThreadSymmetry == Permutations(Threads)
============================================================================
