------------------------------ MODULE MCMemory ------------------------------
(* Memory as TLC checks it: see pages.cfg. *)
EXTENDS Memory
=============================================================================
