------------------------------- MODULE MCIpc -------------------------------
(* Values of the constants of Ipc for TLC. *)
EXTENDS Ipc

(* Two processes send to a third, which answers one of them. *)
MCLinks == {<<1, 3>>, <<2, 3>>, <<3, 1>>}

=============================================================================
