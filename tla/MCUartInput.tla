---------------------------- MODULE MCUartInput ----------------------------
(* UartInput for TLC: the cfg files give every constant its value. *)
EXTENDS UartInput
=============================================================================
