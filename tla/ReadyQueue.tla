----------------------------- MODULE ReadyQueue -----------------------------
(***************************************************************************)
(* The intrusive list behind a ready queue (libs/scheduler.c): the queue   *)
(* keeps head and tail, every PCB its own next_ready.  A list is a record  *)
(* [head, tail, next]; NULL is pid 0, because init_process is never linked. *)
(***************************************************************************)
EXTENDS Naturals

NULL == 0

(* enqueue_process_to: correct only if p is not linked already. *)
enqueue_process_to(q, p) ==
  LET cleared == [q.next EXCEPT ![p] = NULL] IN
  IF q.tail = NULL THEN [head |-> p, tail |-> p, next |-> cleared]
  ELSE [head |-> q.head, tail |-> p, next |-> [cleared EXCEPT ![q.tail] = p]]

(* The queue after dequeue_process_from has taken its head, which exists. *)
dequeue_process_from(q) ==
  LET rest == q.next[q.head] IN
  [head |-> rest,
   tail |-> IF rest = NULL THEN NULL ELSE q.tail,
   next |-> [q.next EXCEPT ![q.head] = NULL]]

=============================================================================
