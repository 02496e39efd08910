----------------------------- MODULE Lifecycle -----------------------------
(***************************************************************************)
(* What the scheduler promises of the processes it manages, as scheduler.h *)
(* describes their states: a process is created READY; the CPU is given to *)
(* a READY process, and to one at a time; a process stops running because  *)
(* it is preempted or yields, because it blocks, or because it exits; a    *)
(* blocked process becomes READY again before it runs again; signals stop  *)
(* or end a process that is READY; an ended process never comes back.      *)
(***************************************************************************)
CONSTANT Process
VARIABLE status

Init == status \in [Process -> {"unused", "ready"}]

(* One process p moves from a status in From to the status to. *)
Move(From, to) ==
  \E p \in Process : status[p] \in From /\ status' = [status EXCEPT ![p] = to]

Create   == Move({"unused"}, "ready")
Dispatch == /\ \A p \in Process : status[p] # "running"
            /\ Move({"ready"}, "running")
Preempt  == Move({"running"}, "ready")
Block    == Move({"running"}, "blocked")
Wake     == Move({"blocked"}, "ready")
Stop     == Move({"ready"}, "stopped")
Kill     == Move({"ready"}, "dead")
Exit     == Move({"running"}, "dead")

Next == Create \/ Dispatch \/ Preempt \/ Block \/ Wake \/ Stop \/ Kill \/ Exit

Spec == Init /\ [][Next]_status

=============================================================================
