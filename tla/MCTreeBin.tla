----------------------------- MODULE MCTreeBin ------------------------------
(* Model values for TreeBin.  Chunks are only ever compared for equality.  *)
EXTENDS TreeBin

Interchangeable == Permutations(Chunk)
=============================================================================
