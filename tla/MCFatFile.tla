----------------------------- MODULE MCFatFile -----------------------------
(* FatFile with model values; clusters and handles are interchangeable. *)
EXTENDS FatFile, TLC
Symm == Permutations(CLUSTERS) \cup Permutations(HANDLES) \cup Permutations(FILES)
=============================================================================
