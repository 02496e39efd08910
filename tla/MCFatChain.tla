----------------------------- MODULE MCFatChain -----------------------------
(* FatChain on a small volume; two files in its directory. *)
EXTENDS FatChain
MCFiles == {0, 1}
=============================================================================
