----------------------------- MODULE MCSdCard -----------------------------
(* SdCard with two blocks. *)
EXTENDS SdCard
=============================================================================
