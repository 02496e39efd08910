----------------------------- MODULE IpcProofs -----------------------------
(***************************************************************************)
(* Message passing under an algorithm that is not preemptive: no wake-up   *)
(* is lost and every message is received once and in order, for every      *)
(* number of processes, ring size, set of links and pattern of signals.    *)
(*                                                                         *)
(* NobodySleepsInVain is about moments when nobody is inside push or pop,  *)
(* so its inductive invariant has to say what holds inside: only the       *)
(* process that has the CPU is there (OneInside), what it has tested is    *)
(* still true (Tested), and a sleeper whose reason to sleep has gone is    *)
(* one that this process is about to wake (ReceiverCalled, SenderCalled).  *)
(* Delivery adds where a message is between its store and the move of head *)
(* (Stored).                                                               *)
(***************************************************************************)
EXTENDS Ipc, QueueLemmas, TLAPS

Labels ==
  {"run", "sched_run", "sched_push", "sched_pop", "push", "pop", "full", "store", "advance",
   "wake", "wake_set", "empty", "take", "scan", "resume"}
States ==
  {"RUNNING", "READY", "ZOMBIE", "WAITING_TO_SEND_MESSAGE", "WAITING_TO_RECEIVE_MESSAGE"}
Pids == Process \cup {NULL}

(* The types the argument needs. *)
Shapes ==
  /\ state \in [Process -> States] /\ pc \in [Process -> Labels]
  /\ current_process \in Pids /\ picking \in BOOLEAN
  /\ ready_queue \in [head : Pids, tail : Pids, next : [Process -> Pids]]
  /\ dst \in [Process -> Process] /\ i \in [Process -> Nat \ {0}]
  /\ head \in [Process -> Indices] /\ tail \in [Process -> Indices] /\ next \in [Process -> Indices]

Active(p) == ~picking /\ current_process = p

(* Whoever does not have the CPU has given it up in a call of schedule(); who *)
(* has it is RUNNING until it has blocked.                                    *)
OneInside ==
  \A p \in Process :
    /\ ~Active(p) => pc[p] \in {"run", "push", "pop"}
    /\ Active(p) /\ pc[p] \notin {"sched_push", "sched_pop"} => state[p] = "RUNNING"

(* What the process inside push or pop has found there still holds. *)
Tested ==
  \A p \in Process :
    /\ pc[p] = "full" => Full(dst[p])
    /\ pc[p] \in {"store", "advance"} => ~Full(dst[p]) /\ next[p] = Succ(head[dst[p]])
    /\ pc[p] = "empty" => head[p] = tail[p]
    /\ pc[p] = "take" => head[p] # tail[p]
    /\ pc[p] = "wake_set" => state[dst[p]] = "WAITING_TO_RECEIVE_MESSAGE"
    /\ pc[p] = "resume" => i[p] \in Process /\ state[i[p]] = "WAITING_TO_SEND_MESSAGE"

(* A process that sleeps on a ring that is not empty is about to be woken by *)
(* the sender that has filled it,                                            *)
ReceiverCalled ==
  \A p \in Process : state[p] = "WAITING_TO_RECEIVE_MESSAGE" =>
    \/ head[p] = tail[p]
    \/ \E c \in Process : pc[c] \in {"wake", "wake_set"} /\ dst[c] = p

(* and one that sleeps on a ring that has room, by the loop of the receiver *)
(* that has made it.                                                        *)
SenderCalled ==
  \A p \in Process : state[p] = "WAITING_TO_SEND_MESSAGE" =>
    \/ Full(dst[p])
    \/ \E c \in Process : pc[c] \in {"scan", "resume"} /\ i[c] <= p

Inv == Shapes /\ OneInside /\ Tested /\ ReceiverCalled /\ SenderCalled

LEMMA InitInv == Init => Inv
<1> SUFFICES ASSUME Init PROVE Inv
  OBVIOUS
<1>1. Shapes
  <2>1. 1 \in Process /\ 0 \in Indices /\ \A p \in 2 .. N - 1 : p \in Process /\ p + 1 \in Process
    BY IpcAssumption DEF Process, Indices
  <2>2. N > 1 => 2 \in Process /\ N \in Process
    BY IpcAssumption DEF Process
  <2>3. [p \in Process |-> IF p \in 2 .. N - 1 THEN p + 1 ELSE NULL] \in [Process -> Pids]
    BY <2>1 DEF Pids
  <2>4. ready_queue \in [head : Pids, tail : Pids, next : [Process -> Pids]]
    BY <2>2, <2>3 DEF Init, Pids
  <2>5. state \in [Process -> States] /\ pc \in [Process -> Labels]
    BY DEF Init, States, Labels
  <2>6. current_process \in Pids /\ picking \in BOOLEAN
    BY <2>1 DEF Init, Pids
  <2>7. dst \in [Process -> Process] /\ i \in [Process -> Nat \ {0}]
    BY <2>1 DEF Init
  <2>8. head \in [Process -> Indices] /\ tail \in [Process -> Indices] /\ next \in [Process -> Indices]
    BY <2>1 DEF Init
  <2> QED BY <2>4, <2>5, <2>6, <2>7, <2>8 DEF Shapes
<1>2. OneInside /\ Tested /\ ReceiverCalled /\ SenderCalled
  BY DEF Init, OneInside, Active, Tested, ReceiverCalled, SenderCalled
<1> QED BY <1>1, <1>2 DEF Inv

----------------------------------------------------------------------------
(* The queue keeps its shape, whatever a store past the ring has made of it. *)
Queues == [head : Pids, tail : Pids, next : [Process -> Pids]]

LEMMA EnqueueShape ==
  ASSUME NEW q \in Queues, NEW p \in Process
  PROVE  enqueue_process_to(q, p) \in Queues
<1>1. p \in Pids /\ NULL \in Pids
  BY DEF Pids
<1>2. [q.next EXCEPT ![p] = NULL] \in [Process -> Pids]
  BY <1>1 DEF Queues
<1>3. [[q.next EXCEPT ![p] = NULL] EXCEPT ![q.tail] = p] \in [Process -> Pids]
  BY <1>1, <1>2
<1> QED BY <1>1, <1>2, <1>3 DEF enqueue_process_to, Queues

LEMMA DequeueShape ==
  ASSUME NEW q \in Queues, q.head # NULL
  PROVE  q.head \in Process /\ dequeue_process_from(q) \in Queues
<1>1. q.head \in Process /\ NULL \in Pids
  BY DEF Pids, Queues
<1>2. q.next[q.head] \in Pids /\ [q.next EXCEPT ![q.head] = NULL] \in [Process -> Pids]
  BY <1>1 DEF Queues
<1> QED BY <1>1, <1>2 DEF dequeue_process_from, Queues

LEMMA SuccInRing == \A k \in Indices : Succ(k) \in Indices
BY IpcAssumption DEF Indices, Succ

(* What a step of a process can be. *)
LEMMA ActorHasCPU ==
  ASSUME NEW p \in Process, Step(p)
  PROVE  Active(p)
BY DEF Step, schedule, syscall_yield, receive_message, send_message, send_signal, push_message,
       SendBlocks, PushStore, PushAdvance, PushWakes, WakeReceiver, pop_message, ReceiveBlocks,
       PopTake, ScanSenders, ResumeSender, At, Active

----------------------------------------------------------------------------
(* Each action keeps the invariant.  First the pick, which is entered from    *)
(* outside push and pop.                                                      *)
LEMMA EnterPickKeeps ==
  ASSUME Inv, EnterPick, pc' \in [Process -> {"run", "push", "pop"}],
         \A q \in Process : pc[q] \notin {"wake", "wake_set", "scan", "resume"}
  PROVE  Inv'
<1>1. /\ picking' = TRUE /\ UNCHANGED <<current_process, head, tail, dst, next, i>>
      /\ \A q \in Process : pc'[q] \in {"run", "push", "pop"}
  BY DEF EnterPick, ring, local
<1>2. /\ state' \in [Process -> States]
      /\ \A q \in Process : state'[q] # state[q] => state'[q] = "READY"
  BY DEF EnterPick, Inv, Shapes, States, Pids
<1>3. Shapes'
  <2>1. ready_queue' \in Queues
    BY EnqueueShape DEF EnterPick, Inv, Shapes, Queues, Pids
  <2>2. pc' \in [Process -> Labels]
    BY DEF Labels
  <2> QED BY <1>1, <1>2, <2>1, <2>2 DEF Inv, Shapes, Queues
<1>4. OneInside' /\ Tested'
  BY <1>1 DEF OneInside, Tested, Active
<1>5. ReceiverCalled' /\ SenderCalled'
  BY <1>1, <1>2 DEF ReceiverCalled, SenderCalled, Inv, Full
<1> QED BY <1>3, <1>4, <1>5 DEF Inv

LEMMA TickKeeps ==
  ASSUME Inv, ~PREEMPTIVE, Tick
  PROVE  Inv'
<1>1. \A q \in Process : ~Active(q)
  BY DEF Tick, Active, Process, NULL
<1>2. pc' \in [Process -> {"run", "push", "pop"}]
  BY <1>1 DEF Tick, Inv, OneInside, Shapes
<1>3. \A q \in Process : pc[q] \notin {"wake", "wake_set", "scan", "resume"}
  BY <1>1 DEF Inv, OneInside
<1> QED BY <1>2, <1>3, EnterPickKeeps DEF Tick

LEMMA ScheduleKeeps ==
  ASSUME Inv, NEW p \in Process, schedule(p)
  PROVE  Inv'
<1>1. pc[p] \in {"sched_push", "sched_pop", "sched_run"} /\ \A q \in Process : q # p => ~Active(q)
  BY DEF schedule, At, Active
<1>2. pc' \in [Process -> {"run", "push", "pop"}]
  BY <1>1 DEF schedule, GoTo, Inv, OneInside, Shapes
<1>3. \A q \in Process : pc[q] \notin {"wake", "wake_set", "scan", "resume"}
  BY <1>1 DEF Inv, OneInside
<1> QED BY <1>2, <1>3, EnterPickKeeps DEF schedule

(* A pick wakes nobody from a sleep: it dispatches who is READY, and kills. *)
LEMMA PickKeeps ==
  ASSUME Inv, Pick
  PROVE  Inv'
<1>1. /\ picking /\ UNCHANGED <<head, tail, pc, dst, next, i>>
      /\ \A q \in Process : pc[q] \in {"run", "push", "pop"}
  BY DEF Pick, ring, local, Inv, OneInside, Active
<1>2. CASE ready_queue.head = NULL
  <2>1. current_process' = NULL /\ picking' = FALSE /\ UNCHANGED <<state, ready_queue>>
    BY <1>2 DEF Pick
  <2>2. Shapes'
    BY <1>1, <2>1 DEF Inv, Shapes, Pids
  <2>3. OneInside' /\ Tested'
    BY <1>1, <2>1 DEF OneInside, Tested, Active, NULL, Process
  <2>4. ReceiverCalled' /\ SenderCalled'
    BY <1>1, <2>1 DEF ReceiverCalled, SenderCalled, Inv, Full
  <2> QED BY <2>2, <2>3, <2>4 DEF Inv
<1>3. CASE ready_queue.head # NULL
  <2> DEFINE h == ready_queue.head
  <2>1. h \in Process /\ ready_queue' \in Queues
    BY <1>3, DequeueShape DEF Pick, Inv, Shapes, Queues
  <2>2. \/ state' = [state EXCEPT ![h] = "RUNNING"] /\ current_process' = h /\ picking' = FALSE
        \/ /\ state' = [state EXCEPT ![h] = IF killed[h] THEN "ZOMBIE" ELSE @]
           /\ UNCHANGED <<current_process, picking>>
    BY <1>3 DEF Pick
  <2> HIDE DEF h
  <2>3. /\ state' \in [Process -> States]
        /\ \A q \in Process : state'[q] # state[q] => state'[q] \in {"RUNNING", "ZOMBIE"}
    BY <2>1, <2>2 DEF Inv, Shapes, States
  <2>4. Shapes'
    BY <1>1, <2>1, <2>2, <2>3 DEF Inv, Shapes, Queues, Pids
  <2>5. OneInside' /\ Tested'
    <3>1. Tested'
      BY <1>1 DEF Tested
    <3>2. \A q \in Process : picking' = FALSE /\ current_process' = q => state'[q] = "RUNNING"
      BY <1>1, <2>1, <2>2 DEF Inv, Shapes
    <3>3. picking' \in BOOLEAN
      BY <2>4 DEF Shapes
    <3> QED BY <1>1, <3>1, <3>2, <3>3 DEF OneInside, Active
  <2>6. ReceiverCalled' /\ SenderCalled'
    BY <1>1, <2>3 DEF ReceiverCalled, SenderCalled, Inv, Full
  <2> QED BY <2>4, <2>5, <2>6 DEF Inv
<1> QED BY <1>2, <1>3

----------------------------------------------------------------------------
(* The steps of the process that has the CPU: nobody else is inside a call. *)
LEMMA Alone ==
  ASSUME Inv, NEW p \in Process, Active(p), NEW l \in Labels, GoTo(p, l)
  PROVE  /\ pc' \in [Process -> Labels] /\ pc'[p] = l
         /\ \A q \in Process : q # p =>
              pc'[q] = pc[q] /\ pc[q] \in {"run", "push", "pop"} /\ ~Active(q)
BY DEF Inv, Shapes, OneInside, Active, GoTo

(* The steps that only test, or begin a call. *)
LEMMA QuietKeeps ==
  ASSUME Inv, NEW p \in Process, Active(p), NEW l \in Labels, GoTo(p, l),
         UNCHANGED <<state, ready_queue, current_process, picking, head, tail, i>>,
         next' \in [Process -> Indices],
         dst' \in [Process -> Process], \A q \in Process : q # p => dst'[q] = dst[q],
         state[p] = "RUNNING",
         pc[p] \notin {"wake", "wake_set", "scan", "resume"}, l \notin {"sched_push", "sched_pop"},
         l = "full" => Full(dst'[p]), 
         l \in {"store", "advance"} => ~Full(dst'[p]) /\ next'[p] = Succ(head[dst'[p]]),
         l = "empty" => head[p] = tail[p], l = "take" => head[p] # tail[p], l \notin {"wake_set", "resume"}
  PROVE  Inv'
<1>1. /\ pc' \in [Process -> Labels] /\ pc'[p] = l
      /\ \A q \in Process : q # p => pc'[q] = pc[q] /\ pc[q] \in {"run", "push", "pop"} /\ ~Active(q)
  BY Alone
<1>2. Shapes'
  BY <1>1 DEF Inv, Shapes
<1>3. OneInside'
  BY <1>1 DEF OneInside, Active
<1>4. Tested'
  BY <1>1 DEF Tested, Full
<1>5. ReceiverCalled'
  BY <1>1 DEF Inv, ReceiverCalled
<1>6. SenderCalled'
  BY <1>1 DEF Inv, SenderCalled, Full
<1> QED BY <1>2, <1>3, <1>4, <1>5, <1>6 DEF Inv

LEMMA BeginKeeps ==
  ASSUME Inv, NEW p \in Process,
         \/ syscall_yield(p) \/ receive_message(p) \/ push_message(p) \/ pop_message(p)
         \/ \E d \in Process : send_message(p, d)
  PROVE  Inv'
<1>1. Active(p) /\ pc[p] \in {"run", "push", "pop"}
  BY DEF syscall_yield, receive_message, push_message, pop_message, send_message, At, Active
<1>2. state[p] = "RUNNING" /\ dst \in [Process -> Process] /\ next \in [Process -> Indices]
  BY <1>1 DEF Inv, OneInside, Shapes
<1>3. UNCHANGED <<state, ready_queue, current_process, picking, head, tail, i>>
  BY DEF syscall_yield, receive_message, push_message, pop_message, send_message, sched, ring, local
<1>4. CASE syscall_yield(p)
  <2>1. GoTo(p, "sched_run") /\ UNCHANGED <<dst, next>>
    BY <1>4 DEF syscall_yield, local
  <2> QED BY <1>1, <1>2, <1>3, <2>1, QuietKeeps DEF Labels
<1>5. CASE receive_message(p)
  <2>1. GoTo(p, "pop") /\ UNCHANGED <<dst, next>>
    BY <1>5 DEF receive_message, local
  <2> QED BY <1>1, <1>2, <1>3, <2>1, QuietKeeps DEF Labels
<1>6. CASE push_message(p)
  <2>1. GoTo(p, IF Full(dst[p]) THEN "full" ELSE "store") /\ UNCHANGED dst
    BY <1>6 DEF push_message
  <2>2. next' \in [Process -> Indices] /\ next'[p] = Succ(head[dst[p]])
    <3>1. Succ(head[dst[p]]) \in Indices
      BY SuccInRing DEF Inv, Shapes
    <3> QED BY <1>2, <1>6, <3>1 DEF push_message
  <2>3. CASE Full(dst[p])
    BY <1>1, <1>2, <1>3, <2>1, <2>2, <2>3, QuietKeeps DEF Labels
  <2>4. CASE ~Full(dst[p])
    BY <1>1, <1>2, <1>3, <2>1, <2>2, <2>4, QuietKeeps DEF Labels
  <2> QED BY <2>3, <2>4
<1>7. CASE pop_message(p)
  <2>1. GoTo(p, IF head[p] = tail[p] THEN "empty" ELSE "take") /\ UNCHANGED <<dst, next>>
    BY <1>7 DEF pop_message, local
  <2>2. CASE head[p] = tail[p]
    BY <1>1, <1>2, <1>3, <2>1, <2>2, QuietKeeps DEF Labels
  <2>3. CASE head[p] # tail[p]
    BY <1>1, <1>2, <1>3, <2>1, <2>3, QuietKeeps DEF Labels
  <2> QED BY <2>2, <2>3
<1>8. CASE \E d \in Process : send_message(p, d)
  <2>1. PICK d \in Process : send_message(p, d)
    BY <1>8
  <2>2. GoTo(p, "push") /\ dst' = [dst EXCEPT ![p] = d] /\ UNCHANGED next
    BY <2>1 DEF send_message
  <2>3. dst' \in [Process -> Process] /\ \A q \in Process : q # p => dst'[q] = dst[q]
    BY <1>2, <2>2
  <2> QED BY <1>1, <1>2, <1>3, <2>2, <2>3, QuietKeeps DEF Labels
<1> QED BY <1>4, <1>5, <1>6, <1>7, <1>8

LEMMA SignalKeeps ==
  ASSUME Inv, NEW p \in Process, NEW target \in SIGNAL_TARGETS, send_signal(p, target)
  PROVE  Inv'
<1>1. UNCHANGED <<state, ready_queue, current_process, picking, head, tail, pc, dst, next, i>>
  BY DEF send_signal, sched, ring, local
<1> QED BY <1>1 DEF Inv, Shapes, OneInside, Active, Tested, ReceiverCalled, SenderCalled, Full

(* The store may loop the list of the ready queue; it stays a list of pids. *)
LEMMA StoreKeeps ==
  ASSUME Inv, NEW p \in Process, PushStore(p)
  PROVE  Inv'
<1>1. /\ Active(p) /\ pc[p] = "store" /\ GoTo(p, "advance")
      /\ UNCHANGED <<state, current_process, picking, head, tail, dst, next, i>>
  BY DEF PushStore, At, Active, local
<1>2. /\ state[p] = "RUNNING" /\ dst \in [Process -> Process] /\ dst[p] \in Process
      /\ ~Full(dst[p]) /\ next[p] = Succ(head[dst[p]])
  BY <1>1 DEF Inv, OneInside, Shapes, Tested
<1>3. ready_queue' \in Queues
  <2>1. [ready_queue EXCEPT !.next[dst[p]] = dst[p]] \in Queues
    BY <1>2 DEF Inv, Shapes, Queues, Pids
  <2> QED BY <2>1 DEF PushStore, Inv, Shapes, Queues
<1>4. /\ pc' \in [Process -> Labels] /\ pc'[p] = "advance"
      /\ \A q \in Process : q # p => pc'[q] = pc[q] /\ pc[q] \in {"run", "push", "pop"} /\ ~Active(q)
  BY <1>1, Alone DEF Labels
<1>5. Shapes'
  BY <1>1, <1>3, <1>4 DEF Inv, Shapes, Queues
<1>6. OneInside' /\ Tested'
  BY <1>1, <1>2, <1>4 DEF OneInside, Active, Tested, Full
<1>7. ReceiverCalled' /\ SenderCalled'
  BY <1>1, <1>4 DEF Inv, ReceiverCalled, SenderCalled, Full
<1> QED BY <1>5, <1>6, <1>7 DEF Inv

(* Blocking: what was tested still holds when the state is set. *)
LEMMA BlockKeeps ==
  ASSUME Inv, NEW p \in Process, SendBlocks(p) \/ ReceiveBlocks(p)
  PROVE  Inv'
<1>1. /\ Active(p) /\ UNCHANGED <<ready_queue, current_process, picking, head, tail, dst, next, i>>
      /\ \/ /\ pc[p] = "full" /\ GoTo(p, "sched_push")
            /\ state' = [state EXCEPT ![p] = "WAITING_TO_SEND_MESSAGE"]
         \/ /\ pc[p] = "empty" /\ GoTo(p, "sched_pop")
            /\ state' = [state EXCEPT ![p] = "WAITING_TO_RECEIVE_MESSAGE"]
  BY DEF SendBlocks, ReceiveBlocks, At, Active, ring, local
<1>2. PICK l \in {"sched_push", "sched_pop"} : GoTo(p, l)
  BY <1>1
<1>3. /\ pc' \in [Process -> Labels] /\ pc'[p] = l
      /\ \A q \in Process : q # p => pc'[q] = pc[q] /\ pc[q] \in {"run", "push", "pop"} /\ ~Active(q)
  BY <1>1, <1>2, Alone DEF Labels
<1>4. state' \in [Process -> States] /\ \A q \in Process : q # p => state'[q] = state[q]
  BY <1>1 DEF Inv, Shapes, States
<1>5. Shapes'
  BY <1>1, <1>3, <1>4 DEF Inv, Shapes
<1>6. OneInside' /\ Tested'
  BY <1>1, <1>3 DEF OneInside, Active, Tested
<1>7. ReceiverCalled'
  BY <1>1, <1>3, <1>4 DEF Inv, Shapes, ReceiverCalled, Tested
<1>8. SenderCalled'
  BY <1>1, <1>3, <1>4 DEF Inv, Shapes, SenderCalled, Tested, Full
<1> QED BY <1>5, <1>6, <1>7, <1>8 DEF Inv

(* A sender that finds room has no sleeping sender beside it on the ring. *)
LEMMA AdvanceKeeps ==
  ASSUME Inv, NEW p \in Process, PushAdvance(p)
  PROVE  Inv'
<1>1. /\ Active(p) /\ pc[p] = "advance" /\ GoTo(p, "wake") /\ head' = [head EXCEPT ![dst[p]] = next[p]]
      /\ UNCHANGED <<state, ready_queue, current_process, picking, tail, dst, next, i>>
  BY DEF PushAdvance, At, Active, sched, local
<1>2. /\ state[p] = "RUNNING" /\ dst[p] \in Process /\ ~Full(dst[p])
  BY <1>1 DEF Inv, OneInside, Shapes, Tested
<1>3. /\ pc' \in [Process -> Labels] /\ pc'[p] = "wake"
      /\ \A q \in Process : q # p => pc'[q] = pc[q] /\ pc[q] \in {"run", "push", "pop"} /\ ~Active(q)
  BY <1>1, Alone DEF Labels
<1>4. head' \in [Process -> Indices] /\ \A d \in Process : d # dst[p] => head'[d] = head[d]
  BY <1>1, <1>2 DEF Inv, Shapes
<1>5. Shapes'
  BY <1>1, <1>3, <1>4 DEF Inv, Shapes
<1>6. OneInside' /\ Tested'
  BY <1>1, <1>2, <1>3 DEF OneInside, Active, Tested
<1>7. ReceiverCalled'
  BY <1>1, <1>3, <1>4 DEF Inv, Shapes, ReceiverCalled
<1>8. SenderCalled'
  <2> SUFFICES ASSUME NEW q \in Process, state[q] = "WAITING_TO_SEND_MESSAGE"
               PROVE  Full(dst[q])'
    BY <1>1 DEF SenderCalled
  <2>1. Full(dst[q])
    BY <1>1, <1>3 DEF Inv, SenderCalled
  <2>2. dst[q] \in Process /\ dst[q] # dst[p]
    BY <1>2, <2>1 DEF Inv, Shapes
  <2> QED BY <1>1, <1>4, <2>1, <2>2 DEF Full
<1> QED BY <1>5, <1>6, <1>7, <1>8 DEF Inv

LEMMA WakeTestKeeps ==
  ASSUME Inv, NEW p \in Process, PushWakes(p)
  PROVE  Inv'
<1>1. /\ Active(p) /\ pc[p] = "wake" /\ GoTo(p, IF ReceiverWaits(dst[p]) THEN "wake_set" ELSE "run")
      /\ UNCHANGED <<state, ready_queue, current_process, picking, head, tail, dst, next, i>>
  BY DEF PushWakes, At, Active, sched, ring, local
<1>2. state[p] = "RUNNING" /\ dst[p] \in Process
  BY <1>1 DEF Inv, OneInside, Shapes
<1>3. PICK l \in {"wake_set", "run"} : l = IF ReceiverWaits(dst[p]) THEN "wake_set" ELSE "run"
  OBVIOUS
<1>4. /\ pc' \in [Process -> Labels] /\ pc'[p] = l
      /\ \A q \in Process : q # p => pc'[q] = pc[q] /\ pc[q] \in {"run", "push", "pop"} /\ ~Active(q)
  BY <1>1, <1>3, Alone DEF Labels
<1>5. Shapes'
  BY <1>1, <1>4 DEF Inv, Shapes
<1>6. OneInside' /\ Tested'
  BY <1>1, <1>2, <1>3, <1>4 DEF OneInside, Active, Tested, ReceiverWaits
<1>7. ReceiverCalled'
  BY <1>1, <1>3, <1>4 DEF Inv, ReceiverCalled, ReceiverWaits
<1>8. SenderCalled'
  BY <1>1, <1>4 DEF Inv, SenderCalled, Full
<1> QED BY <1>5, <1>6, <1>7, <1>8 DEF Inv

(* Waking one process: the receiver a sender has found, or a sender of the loop. *)
LEMMA WakeKeeps ==
  ASSUME Inv, NEW p \in Process, WakeReceiver(p)
  PROVE  Inv'
<1> DEFINE d == dst[p]
<1>1. /\ Active(p) /\ pc[p] = "wake_set" /\ GoTo(p, "run") /\ state' = [state EXCEPT ![d] = "READY"]
      /\ ready_queue' = enqueue_process_to(ready_queue, d)
      /\ UNCHANGED <<current_process, picking, head, tail, dst, next, i>>
  BY DEF WakeReceiver, At, Active, ring, local
<1>2. state[p] = "RUNNING" /\ d \in Process /\ d # p
  BY <1>1 DEF Inv, OneInside, Shapes, Tested
<1>3. /\ pc' \in [Process -> Labels] /\ pc'[p] = "run"
      /\ \A q \in Process : q # p => pc'[q] = pc[q] /\ pc[q] \in {"run", "push", "pop"} /\ ~Active(q)
  BY <1>1, Alone DEF Labels
<1>4. /\ state' \in [Process -> States] /\ state'[d] = "READY"
      /\ \A q \in Process : q # d => state'[q] = state[q]
  BY <1>1, <1>2 DEF Inv, Shapes, States
<1>5. ready_queue' \in Queues
  BY <1>1, <1>2, EnqueueShape DEF Inv, Shapes, Queues
<1>6. Shapes'
  BY <1>1, <1>3, <1>4, <1>5 DEF Inv, Shapes, Queues
<1>7. OneInside' /\ Tested'
  BY <1>1, <1>2, <1>3, <1>4 DEF OneInside, Active, Tested
<1>8. ReceiverCalled' /\ SenderCalled'
  BY <1>1, <1>3, <1>4 DEF Inv, ReceiverCalled, SenderCalled, Full
<1> QED BY <1>6, <1>7, <1>8 DEF Inv

(* Taking a message makes room: every sleeping sender is still ahead of the loop. *)
LEMMA TakeKeeps ==
  ASSUME Inv, NEW p \in Process, PopTake(p)
  PROVE  Inv'
<1>1. /\ Active(p) /\ pc[p] = "take" /\ GoTo(p, "scan")
      /\ tail' = [tail EXCEPT ![p] = Succ(@)] /\ i' = [i EXCEPT ![p] = 1]
      /\ UNCHANGED <<state, ready_queue, current_process, picking, head, dst, next>>
  BY DEF PopTake, At, Active, sched
<1>2. state[p] = "RUNNING"
  BY <1>1 DEF Inv, OneInside
<1>3. /\ pc' \in [Process -> Labels] /\ pc'[p] = "scan"
      /\ \A q \in Process : q # p => pc'[q] = pc[q] /\ pc[q] \in {"run", "push", "pop"} /\ ~Active(q)
  BY <1>1, Alone DEF Labels
<1>4. /\ tail' \in [Process -> Indices] /\ \A q \in Process : q # p => tail'[q] = tail[q]
      /\ i' \in [Process -> Nat \ {0}] /\ i'[p] = 1
  BY <1>1, SuccInRing DEF Inv, Shapes
<1>5. Shapes'
  BY <1>1, <1>3, <1>4 DEF Inv, Shapes
<1>6. OneInside' /\ Tested'
  BY <1>1, <1>2, <1>3 DEF OneInside, Active, Tested
<1>7. ReceiverCalled'
  BY <1>1, <1>2, <1>3, <1>4 DEF Inv, ReceiverCalled
<1>8. SenderCalled'
  BY <1>3, <1>4 DEF SenderCalled, Process
<1> QED BY <1>5, <1>6, <1>7, <1>8 DEF Inv

LEMMA ScanKeeps ==
  ASSUME Inv, NEW p \in Process, ScanSenders(p)
  PROVE  Inv'
<1>1. /\ Active(p) /\ pc[p] = "scan" /\ state[p] = "RUNNING" /\ i[p] \in Nat \ {0}
      /\ UNCHANGED <<state, ready_queue, current_process, picking, head, tail, dst, next>>
  BY DEF ScanSenders, At, Active, sched, ring, Inv, OneInside, Shapes
<1>2. \A q \in Process : q # p => pc[q] \in {"run", "push", "pop"} /\ ~Active(q)
  BY <1>1 DEF Inv, OneInside, Active
<1>3. CASE i[p] > N
  <2>1. GoTo(p, "run") /\ UNCHANGED i
    BY <1>1, <1>3, IpcAssumption DEF ScanSenders, LastScanned
  <2>2. pc' \in [Process -> Labels] /\ pc'[p] = "run" /\ \A q \in Process : q # p => pc'[q] = pc[q]
    BY <1>1, <2>1, Alone DEF Labels
  <2>3. Shapes' /\ OneInside' /\ Tested'
    BY <1>1, <1>2, <2>1, <2>2 DEF Inv, Shapes, OneInside, Active, Tested
  <2>4. ReceiverCalled'
    BY <1>1, <1>2, <2>2 DEF Inv, ReceiverCalled
  <2>5. SenderCalled'
    <3> SUFFICES ASSUME NEW q \in Process, state[q] = "WAITING_TO_SEND_MESSAGE" PROVE Full(dst[q])'
      BY <1>1 DEF SenderCalled
    <3>1. ~(i[p] <= q)
      BY <1>1, <1>3, IpcAssumption DEF Process
    <3>2. Full(dst[q])
      BY <1>1, <1>2, <3>1 DEF Inv, SenderCalled
    <3> QED BY <1>1, <3>2 DEF Full
  <2> QED BY <2>3, <2>4, <2>5 DEF Inv
<1>4. CASE i[p] <= N /\ state[i[p]] = "WAITING_TO_SEND_MESSAGE"
  <2>1. GoTo(p, "resume") /\ UNCHANGED i
    BY <1>1, <1>4, IpcAssumption DEF ScanSenders, LastScanned
  <2>2. pc' \in [Process -> Labels] /\ pc'[p] = "resume" /\ \A q \in Process : q # p => pc'[q] = pc[q]
    BY <1>1, <2>1, Alone DEF Labels
  <2>3. i[p] \in Process
    BY <1>1, <1>4, IpcAssumption DEF Process
  <2>4. Shapes' /\ OneInside' /\ Tested'
    BY <1>1, <1>2, <1>4, <2>1, <2>2, <2>3 DEF Inv, Shapes, OneInside, Active, Tested
  <2>5. ReceiverCalled' /\ SenderCalled'
    BY <1>1, <1>2, <2>1, <2>2 DEF Inv, ReceiverCalled, SenderCalled, Full
  <2> QED BY <2>4, <2>5 DEF Inv
<1>5. CASE i[p] <= N /\ state[i[p]] # "WAITING_TO_SEND_MESSAGE"
  <2>1. UNCHANGED pc /\ i' = [i EXCEPT ![p] = @ + 1]
    BY <1>1, <1>5, IpcAssumption DEF ScanSenders, LastScanned
  <2>2. i' \in [Process -> Nat \ {0}] /\ i'[p] = i[p] + 1 /\ \A q \in Process : q # p => i'[q] = i[q]
    BY <1>1, <2>1 DEF Inv, Shapes
  <2>3. Shapes' /\ OneInside' /\ Tested'
    BY <1>1, <1>2, <2>1, <2>2 DEF Inv, Shapes, OneInside, Active, Tested, Full
  <2>4. ReceiverCalled'
    BY <1>1, <2>1 DEF Inv, ReceiverCalled
  <2>5. SenderCalled'
    <3> SUFFICES ASSUME NEW q \in Process, state[q] = "WAITING_TO_SEND_MESSAGE", i[p] <= q
                 PROVE  i[p] + 1 <= q
      BY <1>1, <1>2, <2>1, <2>2 DEF Inv, SenderCalled, Full
    <3> QED BY <1>1, <1>5, IpcAssumption DEF Process
  <2> QED BY <2>3, <2>4, <2>5 DEF Inv
<1> QED BY <1>1, <1>3, <1>4, <1>5, IpcAssumption

LEMMA ResumeKeeps ==
  ASSUME Inv, NEW p \in Process, ResumeSender(p)
  PROVE  Inv'
<1> DEFINE s == i[p]
<1>1. /\ Active(p) /\ pc[p] = "resume" /\ GoTo(p, "scan") /\ state' = [state EXCEPT ![s] = "READY"]
      /\ ready_queue' = enqueue_process_to(ready_queue, s) /\ i' = [i EXCEPT ![p] = @ + 1]
      /\ UNCHANGED <<current_process, picking, head, tail, dst, next>>
  BY DEF ResumeSender, At, Active, ring
<1>2. state[p] = "RUNNING" /\ s \in Process /\ s # p
  BY <1>1 DEF Inv, OneInside, Tested
<1>3. /\ pc' \in [Process -> Labels] /\ pc'[p] = "scan"
      /\ \A q \in Process : q # p => pc'[q] = pc[q] /\ pc[q] \in {"run", "push", "pop"} /\ ~Active(q)
  BY <1>1, Alone DEF Labels
<1>4. /\ state' \in [Process -> States] /\ state'[s] = "READY"
      /\ \A q \in Process : q # s => state'[q] = state[q]
      /\ i' \in [Process -> Nat \ {0}] /\ i'[p] = s + 1
  BY <1>1, <1>2 DEF Inv, Shapes, States, Process
<1>5. ready_queue' \in Queues
  BY <1>1, <1>2, EnqueueShape DEF Inv, Shapes, Queues
<1>6. Shapes'
  BY <1>1, <1>3, <1>4, <1>5 DEF Inv, Shapes, Queues
<1>7. OneInside' /\ Tested'
  BY <1>1, <1>2, <1>3, <1>4 DEF OneInside, Active, Tested
<1>8. ReceiverCalled'
  BY <1>1, <1>3, <1>4 DEF Inv, ReceiverCalled
<1>9. SenderCalled'
  <2> SUFFICES ASSUME NEW q \in Process, q # s, state[q] = "WAITING_TO_SEND_MESSAGE", s <= q
               PROVE  s + 1 <= q
    BY <1>1, <1>3, <1>4 DEF Inv, SenderCalled, Full
  <2> QED BY <1>2 DEF Process
<1> QED BY <1>6, <1>7, <1>8, <1>9 DEF Inv

LEMMA InvStep ==
  ASSUME ~PREEMPTIVE, Inv, [Next]_vars
  PROVE  Inv'
<1>1. CASE UNCHANGED vars
  <2>1. UNCHANGED <<state, ready_queue, current_process, picking, head, tail, pc, dst, next, i>>
    BY <1>1 DEF vars, sched, ring, local
  <2> QED BY <2>1 DEF Inv, Shapes, OneInside, Active, Tested, ReceiverCalled, SenderCalled, Full
<1>2. CASE Tick \/ Pick
  BY <1>2, TickKeeps, PickKeeps
<1>3. ASSUME NEW p \in Process, Step(p) PROVE Inv'
  BY <1>3, ScheduleKeeps, BeginKeeps, SignalKeeps, StoreKeeps, BlockKeeps, AdvanceKeeps, WakeTestKeeps,
     WakeKeeps, TakeKeeps, ScanKeeps, ResumeKeeps DEF Step
<1> QED BY <1>1, <1>2, <1>3 DEF Next

(* Without preemption nobody stays asleep on a ring that has what it waits    *)
(* for: push_message wakes the receiver it finds waiting, and the loop of     *)
(* pop_message every sender, although either may have been killed, woken or   *)
(* unlinked by a store past the ring in the meantime.                         *)
THEOREM NoSleeperForgotten ==
  ASSUME ~PREEMPTIVE
  PROVE  Spec => []NobodySleepsInVain
<1>1. Inv => NobodySleepsInVain
  BY DEF Inv, ReceiverCalled, SenderCalled, NobodySleepsInVain, Settled
<1>2. Inv /\ [Next]_vars => Inv'
  BY InvStep
<1> QED BY <1>1, <1>2, InitInv, PTL DEF Spec

----------------------------------------------------------------------------
(* Delivery.  A stream is what a process has received and what its ring holds, *)
(* as Delivery has it; first what the operations on the ring make of it.       *)
Messages == [from : Nat, n : Nat]
Stream(g, h, t, ms) == g \o RingContent(Size, h, t, ms)

LEMMA SizeType ==
  /\ Size \in Nat \ {0} /\ Indices = 0 .. Size - 1
  /\ \A k \in Indices : Succ(k) = RingNext(Size, k)
BY IpcAssumption DEF Size, Indices, Succ, RingNext

(* Storing at head, which is outside the messages, changes no stream. *)
LEMMA StreamStore ==
  ASSUME NEW g, NEW h \in Indices, NEW t \in Indices, NEW ms, NEW ms2,
         \A k \in Indices : k # h => ms2[k] = ms[k]
  PROVE  Stream(g, h, t, ms2) = Stream(g, h, t, ms)
<1>1. /\ Size \in Nat \ {0} /\ h \in 0 .. Size - 1 /\ t \in 0 .. Size - 1
      /\ \A k \in 0 .. Size - 1 : k # h => ms2[k] = ms[k]
  BY SizeType
<1>2. RingContent(Size, h, t, ms2) = RingContent(Size, h, t, ms)
  BY <1>1, RingStore
<1> QED BY <1>2 DEF Stream

(* Moving head past a message appends it. *)
LEMMA StreamPush ==
  ASSUME NEW g \in Seq(Messages), NEW h \in Indices, NEW t \in Indices, NEW ms \in [Indices -> Messages],
         Succ(h) # t
  PROVE  /\ Stream(g, h, t, ms) \in Seq(Messages)
         /\ Stream(g, Succ(h), t, ms) = Append(Stream(g, h, t, ms), ms[h])
<1>1. RingContent(Size, h, t, ms) \in Seq(Messages)
  BY SizeType, RingType
<1>2. RingContent(Size, Succ(h), t, ms) = Append(RingContent(Size, h, t, ms), ms[h])
  BY SizeType, RingPush
<1> QED BY <1>1, <1>2 DEF Stream

(* Taking the message at tail moves it from the ring to what was received. *)
LEMMA StreamPop ==
  ASSUME NEW g \in Seq(Messages), NEW h \in Indices, NEW t \in Indices, NEW ms \in [Indices -> Messages],
         h # t
  PROVE  Stream(Append(g, ms[t]), h, Succ(t), ms) = Stream(g, h, t, ms)
<1> DEFINE c == RingContent(Size, h, t, ms)
           e == RingContent(Size, h, Succ(t), ms)
           L == RingLen(Size, h, t)
<1>1. /\ L \in Nat \ {0} /\ RingLen(Size, h, Succ(t)) = L - 1 /\ c[1] = ms[t]
      /\ \A k \in 1 .. L - 1 : e[k] = c[k + 1]
  <2>1. PICK u : u = Succ(t) /\ u = RingNext(Size, t)
    BY SizeType
  <2>2. Size \in Nat \ {0} /\ h \in 0 .. Size - 1 /\ t \in 0 .. Size - 1
    BY SizeType
  <2>3. /\ RingLen(Size, h, t) \in Nat \ {0} /\ RingLen(Size, h, u) = RingLen(Size, h, t) - 1
        /\ RingContent(Size, h, t, ms)[1] = ms[t]
        /\ \A k \in 1 .. RingLen(Size, h, t) - 1 :
             RingContent(Size, h, u, ms)[k] = RingContent(Size, h, t, ms)[k + 1]
    BY <2>1, <2>2, RingPop
  <2> QED BY <2>1, <2>3
<1>2. c \in Seq(Messages) /\ e \in Seq(Messages) /\ Len(c) = L /\ Len(e) = L - 1
  BY <1>1, SizeType, SuccInRing, RingType
<1>3. ms[t] \in Messages
  OBVIOUS
<1> HIDE DEF c, e, L
<1> DEFINE u == Append(g, ms[t]) \o e
           v == g \o c
<1>4. u \in Seq(Messages) /\ v \in Seq(Messages) /\ Len(u) = Len(v) /\ Len(v) = Len(g) + L
  <2>1. Append(g, ms[t]) \in Seq(Messages) /\ Len(Append(g, ms[t])) = Len(g) + 1 /\ Len(g) \in Nat
    BY <1>3
  <2>2. u \in Seq(Messages) /\ v \in Seq(Messages)
    BY <1>2, <2>1
  <2>3. Len(u) = Len(Append(g, ms[t])) + Len(e) /\ Len(v) = Len(g) + Len(c)
    BY <1>2, <2>1, ConcatProperties
  <2> HIDE DEF u, v
  <2> QED BY <1>1, <1>2, <2>1, <2>2, <2>3
<1>5. \A k \in 1 .. Len(g) : u[k] = v[k]
  BY <1>1, <1>2, <1>3
<1>6. u[Len(g) + 1] = ms[t] /\ v[Len(g) + 1] = ms[t]
  BY <1>1, <1>2, <1>3
<1>7. ASSUME NEW k \in 1 .. L - 1 PROVE u[Len(g) + 1 + k] = e[k] /\ v[Len(g) + 1 + k] = c[k + 1]
  BY <1>1, <1>2, <1>3
<1> HIDE DEF u, v
<1>8. ASSUME NEW m \in 1 .. Len(v) PROVE u[m] = v[m]
  <2>1. m \in Nat /\ Len(g) \in Nat /\ m <= Len(g) + L /\ m >= 1
    BY <1>1, <1>4
  <2>2. CASE m <= Len(g)
    BY <1>5, <2>1, <2>2
  <2>3. CASE m = Len(g) + 1
    BY <1>6, <2>3
  <2>4. CASE m > Len(g) + 1
    <3> DEFINE k == m - Len(g) - 1
    <3>1. k \in 1 .. L - 1 /\ m = Len(g) + 1 + k
      BY <1>1, <2>1, <2>4
    <3> HIDE DEF k
    <3> QED BY <1>1, <1>7, <3>1
  <2> QED BY <2>1, <2>2, <2>3, <2>4
<1>9. u = v
  BY <1>4, <1>8
<1> QED BY <1>9 DEF u, v, c, e, Stream

(* The three parts of Delivery, of the stream of d and the histories o of all senders. *)
Exact(stream, d, o) ==
  /\ \A k \in DOMAIN stream :
       LET m == stream[k] IN
       m.from \in Process /\ m.n \in DOMAIN o[m.from] /\ o[m.from][m.n] = d
  /\ \A s \in Process : \A n \in DOMAIN o[s] :
       o[s][n] = d => \E k \in DOMAIN stream : stream[k] = [from |-> s, n |-> n]
  /\ \A j, k \in DOMAIN stream :
       j < k /\ stream[j].from = stream[k].from => stream[j].n < stream[k].n

(* A process that has stored its message but not moved head yet finds it there. *)
Stored ==
  \A p \in Process : pc[p] = "advance" =>
    slot[dst[p]][head[dst[p]]] = [from |-> p, n |-> Len(sent[p]) + 1]

Histories ==
  /\ slot \in [Process -> [Indices -> Messages]]
  /\ got \in [Process -> Seq(Messages)] /\ sent \in [Process -> Seq(Process)]

InOrder == \A d \in Process : Exact(Stream(got[d], head[d], tail[d], slot[d]), d, sent)

DInv == Histories /\ Stored /\ InOrder

LEMMA DeliveryIs == InOrder => Delivery
BY DEF InOrder, Exact, Stream, RingContent, Delivery, Buffered

LEMMA InitDelivery == Init => DInv
<1> SUFFICES ASSUME Init PROVE DInv
  OBVIOUS
<1>1. Histories
  <2>1. NOBODY \in Messages
    BY DEF NOBODY, Messages
  <2> QED BY <2>1 DEF Init, Histories
<1>2. Stored
  BY DEF Init, Stored
<1>3. InOrder
  <2> SUFFICES ASSUME NEW d \in Process PROVE Exact(Stream(got[d], head[d], tail[d], slot[d]), d, sent)
    BY DEF InOrder
  <2>1. got[d] = <<>> /\ head[d] = 0 /\ tail[d] = 0 /\ \A s \in Process : sent[s] = <<>>
    BY DEF Init
  <2>2. 0 \in 0 .. Size - 1 /\ Size \in Nat \ {0} /\ RingLen(Size, 0, 0) = 0
    BY SizeType DEF RingLen
  <2>3. RingContent(Size, 0, 0, slot[d]) = [k \in 1 .. 0 |-> slot[d][RingAt(Size, 0, k)]]
    <3>1. PICK z : z = slot[d]
      OBVIOUS
    <3>2. RingContent(Size, 0, 0, z) = [k \in 1 .. RingLen(Size, 0, 0) |-> z[RingAt(Size, 0, k)]]
      BY <2>2, RingIs
    <3> QED BY <3>1, <3>2, <2>2
  <2>4. Stream(got[d], head[d], tail[d], slot[d]) = <<>>
    BY <2>1, <2>3 DEF Stream
  <2> QED BY <2>1, <2>4 DEF Exact
<1> QED BY <1>1, <1>2, <1>3 DEF DInv

(* One message more, which its sender numbers next. *)
LEMMA AppendExact ==
  ASSUME NEW stream \in Seq(Messages), NEW d \in Process, NEW o \in [Process -> Seq(Process)],
         Exact(stream, d, o), NEW p \in Process, NEW o2 \in [Process -> Seq(Process)],
         o2[p] = Append(o[p], d), \A q \in Process : q # p => o2[q] = o[q],
         NEW m, m = [from |-> p, n |-> Len(o[p]) + 1]
  PROVE  Exact(Append(stream, m), d, o2)
<1> DEFINE longer == Append(stream, m)
<1>1. PICK L \in Nat : L = Len(stream) /\ DOMAIN stream = 1 .. L
  OBVIOUS
<1>2. PICK M \in Nat : M = Len(o[p]) /\ DOMAIN o[p] = 1 .. M
  OBVIOUS
<1>3. m \in Messages /\ m.from = p /\ m.n = M + 1
  BY <1>2 DEF Messages, Process
<1>4. /\ DOMAIN longer = 1 .. L + 1 /\ longer[L + 1] = m
      /\ \A k \in 1 .. L : longer[k] = stream[k]
  BY <1>1, <1>3
<1>5. DOMAIN o2[p] = 1 .. M + 1 /\ o2[p][M + 1] = d /\ \A n \in 1 .. M : o2[p][n] = o[p][n]
  BY <1>2
<1>6. /\ \A k \in DOMAIN stream : /\ stream[k].from \in Process
                                  /\ stream[k].n \in DOMAIN o[stream[k].from]
                                  /\ o[stream[k].from][stream[k].n] = d
      /\ \A s \in Process : \A n \in DOMAIN o[s] :
           o[s][n] = d => \E k \in DOMAIN stream : stream[k] = [from |-> s, n |-> n]
      /\ \A j, k \in DOMAIN stream :
           j < k /\ stream[j].from = stream[k].from => stream[j].n < stream[k].n
  BY DEF Exact
<1> HIDE DEF longer
<1>7. ASSUME NEW k \in DOMAIN longer
      PROVE  longer[k].from \in Process /\ longer[k].n \in DOMAIN o2[longer[k].from]
             /\ o2[longer[k].from][longer[k].n] = d
  <2>1. CASE k \in 1 .. L
    <3>1. PICK q \in Process : q = stream[k].from
      BY <1>1, <1>6, <2>1
    <3>2. PICK n \in DOMAIN o[q] : n = stream[k].n /\ o[q][n] = d
      BY <1>1, <1>6, <2>1, <3>1
    <3>3. n \in DOMAIN o2[q] /\ o2[q][n] = d
      <4>1. CASE q = p
        <5>1. n \in 1 .. M /\ o[p][n] = d
          BY <1>2, <3>2, <4>1, Zenon
        <5>2. n \in 1 .. M + 1 /\ o2[p][n] = d
          BY <1>5, <5>1
        <5> QED BY <1>5, <4>1, <5>2, Zenon
      <4>2. CASE q # p
        <5>1. o2[q] = o[q]
          BY <4>2, Zenon
        <5> QED BY <3>2, <5>1
      <4> QED BY <4>1, <4>2
    <3> QED BY <1>4, <2>1, <3>1, <3>2, <3>3
  <2>2. CASE k = L + 1
    BY <1>2, <1>3, <1>4, <1>5, <2>2
  <2>3. k \in 1 .. L \/ k = L + 1
    BY <1>4
  <2> QED BY <2>1, <2>2, <2>3
<1>8. ASSUME NEW s \in Process, NEW n \in DOMAIN o2[s], o2[s][n] = d
      PROVE  \E k \in DOMAIN longer : longer[k] = [from |-> s, n |-> n]
  <2>1. CASE n \in DOMAIN o[s]
    <3>1. o[s][n] = d
      BY <1>2, <1>5, <1>8, <2>1
    <3>2. PICK k \in DOMAIN stream : stream[k] = [from |-> s, n |-> n]
      BY <1>6, <2>1, <3>1
    <3>3. k \in DOMAIN longer /\ longer[k] = stream[k]
      BY <1>1, <1>4
    <3> QED BY <3>2, <3>3
  <2>2. CASE s = p /\ n = M + 1
    <3>1. L + 1 \in DOMAIN longer /\ longer[L + 1] = [from |-> s, n |-> n]
      BY <1>2, <1>4, <2>2
    <3> QED BY <3>1
  <2>3. n \in DOMAIN o[s] \/ (s = p /\ n = M + 1)
    <3>1. s # p => o2[s] = o[s]
      BY Zenon
    <3>2. CASE s # p
      BY <3>1, <3>2, Zenon
    <3>3. CASE s = p
      <4>1. n \in 1 .. M + 1
        BY <1>5, <3>3, Zenon
      <4>2. n \in 1 .. M \/ n = M + 1
        BY <4>1
      <4> QED BY <1>2, <3>3, <4>2, Zenon
    <3> QED BY <3>2, <3>3
  <2> QED BY <2>1, <2>2, <2>3
<1>9. ASSUME NEW j \in DOMAIN longer, NEW k \in DOMAIN longer, j < k, longer[j].from = longer[k].from
      PROVE  longer[j].n < longer[k].n
  <2>1. j \in 1 .. L /\ (k \in 1 .. L \/ k = L + 1)
    BY <1>4, <1>9
  <2>2. CASE k \in 1 .. L
    BY <1>1, <1>4, <1>6, <1>9, <2>1, <2>2
  <2>3. CASE k = L + 1
    <3>1. stream[j].from = p
      BY <1>3, <1>4, <1>9, <2>1, <2>3
    <3>2. stream[j].n \in 1 .. M
      BY <1>1, <1>2, <1>6, <2>1, <3>1
    <3> QED BY <1>3, <1>4, <2>1, <2>3, <3>2
  <2> QED BY <2>1, <2>2, <2>3
<1>10. Exact(longer, d, o2)
  BY <1>7, <1>8, <1>9 DEF Exact
<1> QED BY <1>10 DEF longer

(* A message to somebody else. *)
LEMMA OtherExact ==
  ASSUME NEW stream, NEW d \in Process, NEW o \in [Process -> Seq(Process)],
         Exact(stream, d, o), NEW p \in Process, NEW o2 \in [Process -> Seq(Process)],
         NEW e \in Process, e # d,
         o2[p] = Append(o[p], e), \A q \in Process : q # p => o2[q] = o[q]
  PROVE  Exact(stream, d, o2)
<1>1. PICK M \in Nat : M = Len(o[p]) /\ DOMAIN o[p] = 1 .. M
  OBVIOUS
<1>2. DOMAIN o2[p] = 1 .. M + 1 /\ o2[p][M + 1] = e /\ \A n \in 1 .. M : o2[p][n] = o[p][n]
  BY <1>1
<1>3. ASSUME NEW q \in Process, NEW n \in DOMAIN o[q] PROVE n \in DOMAIN o2[q] /\ o2[q][n] = o[q][n]
  <2>1. CASE q = p
    BY <1>1, <1>2, <1>3, <2>1
  <2>2. CASE q # p
    BY <1>3, <2>2, Zenon
  <2> QED BY <2>1, <2>2
<1>4. ASSUME NEW q \in Process, NEW n \in DOMAIN o2[q], o2[q][n] = d PROVE n \in DOMAIN o[q]
  <2>1. CASE q = p
    <3>1. n \in 1 .. M + 1 /\ o2[p][n] = d
      BY <1>2, <1>4, <2>1, Zenon
    <3>2. n # M + 1
      BY <1>2, <3>1, Zenon
    <3>3. n \in 1 .. M
      BY <3>1, <3>2
    <3> QED BY <1>1, <2>1, <3>3, Zenon
  <2>2. CASE q # p
    <3>1. o2[q] = o[q]
      BY <2>2, Zenon
    <3> QED BY <1>4, <3>1
  <2> QED BY <2>1, <2>2
<1>5. /\ \A k \in DOMAIN stream : /\ stream[k].from \in Process
                                  /\ stream[k].n \in DOMAIN o[stream[k].from]
                                  /\ o[stream[k].from][stream[k].n] = d
      /\ \A s \in Process : \A n \in DOMAIN o[s] :
           o[s][n] = d => \E k \in DOMAIN stream : stream[k] = [from |-> s, n |-> n]
      /\ \A j, k \in DOMAIN stream :
           j < k /\ stream[j].from = stream[k].from => stream[j].n < stream[k].n
  BY DEF Exact
<1>6. ASSUME NEW k \in DOMAIN stream
      PROVE  /\ stream[k].from \in Process /\ stream[k].n \in DOMAIN o2[stream[k].from]
             /\ o2[stream[k].from][stream[k].n] = d
  BY <1>3, <1>5
<1>7. ASSUME NEW s \in Process, NEW n \in DOMAIN o2[s], o2[s][n] = d
      PROVE  \E k \in DOMAIN stream : stream[k] = [from |-> s, n |-> n]
  BY <1>3, <1>4, <1>5, <1>7
<1> QED BY <1>5, <1>6, <1>7 DEF Exact

(* The steps that move no message. *)
LEMMA StillDelivery ==
  ASSUME DInv, UNCHANGED <<slot, got, sent, head, tail>>,
         \A p \in Process : pc'[p] = "advance" => pc[p] = "advance" /\ dst'[p] = dst[p]
  PROVE  DInv'
<1>1. Histories' /\ InOrder'
  BY DEF DInv, Histories, InOrder
<1>2. Stored'
  BY DEF DInv, Stored
<1> QED BY <1>1, <1>2 DEF DInv

LEMMA StillSteps ==
  ASSUME Inv, DInv, NEW p \in Process, Step(p), ~PushStore(p), ~PushAdvance(p), ~PopTake(p)
  PROVE  DInv'
<1>0. pc \in [Process -> Labels] /\ dst \in [Process -> Process]
  BY DEF Inv, Shapes
<1>1. CASE schedule(p) \/ \E target \in SIGNAL_TARGETS : send_signal(p, target)
  <2>1. UNCHANGED <<slot, got, sent, head, tail, dst>>
    BY <1>1 DEF schedule, EnterPick, send_signal, ring, local
  <2>2. \A q \in Process : pc'[q] = "advance" => pc[q] = "advance"
    BY <1>0, <1>1 DEF schedule, GoTo, send_signal
  <2> QED BY <2>1, <2>2, StillDelivery
<1>2. CASE \/ syscall_yield(p) \/ receive_message(p) \/ push_message(p) \/ pop_message(p)
           \/ SendBlocks(p) \/ ReceiveBlocks(p) \/ PushWakes(p) \/ WakeReceiver(p) \/ ResumeSender(p)
           \/ ScanSenders(p)
  <2>1. UNCHANGED <<slot, got, sent, head, tail, dst>>
    BY <1>2 DEF syscall_yield, receive_message, push_message, pop_message, SendBlocks, ReceiveBlocks,
                PushWakes, WakeReceiver, ResumeSender, ScanSenders, ring, local
  <2>2. \A q \in Process : pc'[q] = "advance" => pc[q] = "advance"
    BY <1>0, <1>2 DEF syscall_yield, receive_message, push_message, pop_message, SendBlocks,
                      ReceiveBlocks, PushWakes, WakeReceiver, ResumeSender, ScanSenders, GoTo
  <2> QED BY <2>1, <2>2, StillDelivery
<1>3. CASE \E d \in Process : send_message(p, d)
  <2>1. PICK d \in Process : send_message(p, d)
    BY <1>3
  <2>2. UNCHANGED <<slot, got, sent, head, tail>>
    BY <2>1 DEF send_message, ring
  <2>3. pc' = [pc EXCEPT ![p] = "push"] /\ dst' = [dst EXCEPT ![p] = d]
    BY <2>1 DEF send_message, GoTo
  <2>4. \A q \in Process : pc'[q] = "advance" => pc[q] = "advance" /\ dst'[q] = dst[q]
    BY <1>0, <2>3
  <2> QED BY <2>2, <2>4, StillDelivery
<1> QED BY <1>1, <1>2, <1>3 DEF Step

LEMMA StoreDelivery ==
  ASSUME Inv, DInv, NEW p \in Process, PushStore(p)
  PROVE  DInv'
<1> DEFINE d == dst[p]
           m == [from |-> p, n |-> Len(sent[p]) + 1]
<1>1. /\ Active(p) /\ slot' = [slot EXCEPT ![d][head[d]] = m] /\ GoTo(p, "advance")
      /\ UNCHANGED <<got, sent, head, tail, dst>>
  BY DEF PushStore, At, Active, local
<1>2. d \in Process /\ head[d] \in Indices /\ sent \in [Process -> Seq(Process)]
  BY DEF Inv, Shapes, DInv, Histories
<1>3. m \in Messages
  BY <1>2 DEF Messages, Process
<1> HIDE DEF m, d
<1>4. /\ slot' \in [Process -> [Indices -> Messages]] /\ slot'[d][head[d]] = m
      /\ \A e \in Process : \A k \in Indices : e # d \/ k # head[e] => slot'[e][k] = slot[e][k]
  BY <1>1, <1>2, <1>3 DEF DInv, Histories
<1>5. Histories'
  BY <1>1, <1>4 DEF DInv, Histories
<1>6. Stored'
  <2> SUFFICES ASSUME NEW q \in Process, pc'[q] = "advance"
               PROVE  slot'[dst[q]][head[dst[q]]] = [from |-> q, n |-> Len(sent[q]) + 1]
    BY <1>1 DEF Stored
  <2>1. q = p
    BY <1>1, Alone DEF Labels
  <2> QED BY <1>4, <2>1 DEF m, d
<1>7. InOrder'
  <2> SUFFICES ASSUME NEW e \in Process
               PROVE  Exact(Stream(got[e], head[e], tail[e], slot'[e]), e, sent)
    BY <1>1 DEF InOrder
  <2>1. Exact(Stream(got[e], head[e], tail[e], slot[e]), e, sent)
    BY DEF DInv, InOrder
  <2>2. head[e] \in Indices /\ tail[e] \in Indices
    BY DEF Inv, Shapes
  <2>3. \A k \in Indices : k # head[e] => slot'[e][k] = slot[e][k]
    BY <1>4
  <2>4. Stream(got[e], head[e], tail[e], slot'[e]) = Stream(got[e], head[e], tail[e], slot[e])
    BY <2>2, <2>3, StreamStore
  <2> QED BY <2>1, <2>4
<1> QED BY <1>5, <1>6, <1>7 DEF DInv

LEMMA AdvanceDelivery ==
  ASSUME Inv, DInv, NEW p \in Process, PushAdvance(p)
  PROVE  DInv'
<1> DEFINE d == dst[p]
<1>1. /\ Active(p) /\ pc[p] = "advance" /\ GoTo(p, "wake")
      /\ head' = [head EXCEPT ![d] = next[p]] /\ sent' = [sent EXCEPT ![p] = Append(@, d)]
      /\ UNCHANGED <<slot, got, tail, dst>>
  BY DEF PushAdvance, At, Active, local
<1>2. /\ d \in Process /\ head[d] \in Indices /\ tail[d] \in Indices /\ head \in [Process -> Indices]
      /\ next[p] = Succ(head[d]) /\ Succ(head[d]) # tail[d]
  BY <1>1 DEF Inv, Shapes, Tested, Full
<1>3. slot[d][head[d]] = [from |-> p, n |-> Len(sent[p]) + 1]
  BY <1>1 DEF DInv, Stored
<1>4. /\ sent \in [Process -> Seq(Process)] /\ slot[d] \in [Indices -> Messages] /\ got[d] \in Seq(Messages)
      /\ \A e \in Process : Exact(Stream(got[e], head[e], tail[e], slot[e]), e, sent)
  BY <1>2 DEF DInv, Histories, InOrder
<1> HIDE DEF d
<1>5. /\ sent' \in [Process -> Seq(Process)] /\ sent'[p] = Append(sent[p], d)
      /\ \A q \in Process : q # p => sent'[q] = sent[q]
  BY <1>1, <1>2, <1>4
<1>6. head'[d] = Succ(head[d]) /\ \A e \in Process : e # d => head'[e] = head[e]
  BY <1>1, <1>2
<1>7. Histories'
  BY <1>1, <1>5 DEF DInv, Histories
<1>8. Stored'
  <2>1. \A q \in Process : pc'[q] # "advance"
    BY <1>1, Alone DEF Labels
  <2> QED BY <2>1 DEF Stored
<1>9. InOrder'
  <2> SUFFICES ASSUME NEW e \in Process
               PROVE  Exact(Stream(got[e], head'[e], tail[e], slot[e]), e, sent')
    BY <1>1 DEF InOrder
  <2>1. CASE e = d
    <3>1. /\ Stream(got[d], head[d], tail[d], slot[d]) \in Seq(Messages)
          /\ Stream(got[d], Succ(head[d]), tail[d], slot[d])
               = Append(Stream(got[d], head[d], tail[d], slot[d]), slot[d][head[d]])
      BY <1>2, <1>4, StreamPush
    <3>2. Exact(Stream(got[d], head[d], tail[d], slot[d]), d, sent)
      BY <1>2, <1>4
    <3>3. PICK stream \in Seq(Messages) : stream = Stream(got[d], head[d], tail[d], slot[d])
      BY <3>1
    <3>4. PICK out \in [Process -> Seq(Process)] : out = sent'
      BY <1>5
    <3>5. PICK m : m = slot[d][head[d]] /\ m = [from |-> p, n |-> Len(sent[p]) + 1]
      BY <1>3
    <3>6. Exact(stream, d, sent) /\ out[p] = Append(sent[p], d)
          /\ \A q \in Process : q # p => out[q] = sent[q]
      BY <1>5, <3>2, <3>3, <3>4
    <3>7. Exact(Append(stream, m), d, out)
      BY <1>2, <1>4, <3>5, <3>6, AppendExact
    <3> QED BY <1>6, <2>1, <3>1, <3>3, <3>4, <3>5, <3>7
  <2>2. CASE e # d
    <3>1. PICK stream : stream = Stream(got[e], head[e], tail[e], slot[e])
      OBVIOUS
    <3>2. PICK out \in [Process -> Seq(Process)] : out = sent'
      BY <1>5
    <3>3. Exact(stream, e, sent) /\ out[p] = Append(sent[p], d)
          /\ \A q \in Process : q # p => out[q] = sent[q]
      BY <1>4, <1>5, <3>1, <3>2
    <3>4. Exact(stream, e, out)
      BY <1>2, <1>4, <2>2, <3>3, OtherExact
    <3> QED BY <1>6, <2>2, <3>1, <3>2, <3>4
  <2> QED BY <2>1, <2>2
<1> QED BY <1>7, <1>8, <1>9 DEF DInv

LEMMA TakeDelivery ==
  ASSUME Inv, DInv, NEW p \in Process, PopTake(p)
  PROVE  DInv'
<1>1. /\ Active(p) /\ pc[p] = "take" /\ GoTo(p, "scan")
      /\ tail' = [tail EXCEPT ![p] = Succ(@)] /\ got' = [got EXCEPT ![p] = Append(@, slot[p][tail[p]])]
      /\ UNCHANGED <<slot, sent, head, dst>>
  BY DEF PopTake, At, Active
<1>2. head[p] \in Indices /\ tail[p] \in Indices /\ tail \in [Process -> Indices] /\ head[p] # tail[p]
  BY <1>1 DEF Inv, Shapes, Tested
<1>3. /\ got \in [Process -> Seq(Messages)] /\ got[p] \in Seq(Messages)
      /\ slot[p] \in [Indices -> Messages] /\ slot[p][tail[p]] \in Messages
  BY <1>2 DEF DInv, Histories
<1>4. /\ got' \in [Process -> Seq(Messages)] /\ got'[p] = Append(got[p], slot[p][tail[p]])
      /\ tail'[p] = Succ(tail[p])
      /\ \A q \in Process : q # p => got'[q] = got[q] /\ tail'[q] = tail[q]
  BY <1>1, <1>2, <1>3
<1>5. Histories'
  BY <1>1, <1>4 DEF DInv, Histories
<1>6. Stored'
  <2>1. \A q \in Process : pc'[q] # "advance"
    BY <1>1, Alone DEF Labels
  <2> QED BY <2>1 DEF Stored
<1>7. InOrder'
  <2> SUFFICES ASSUME NEW e \in Process
               PROVE  Exact(Stream(got'[e], head[e], tail'[e], slot[e]), e, sent)
    BY <1>1 DEF InOrder
  <2>1. Exact(Stream(got[e], head[e], tail[e], slot[e]), e, sent)
    BY DEF DInv, InOrder
  <2>2. Stream(got'[e], head[e], tail'[e], slot[e]) = Stream(got[e], head[e], tail[e], slot[e])
    <3>1. CASE e = p
      <4>1. Stream(Append(got[p], slot[p][tail[p]]), head[p], Succ(tail[p]), slot[p])
              = Stream(got[p], head[p], tail[p], slot[p])
        BY <1>2, <1>3, StreamPop
      <4> QED BY <1>4, <3>1, <4>1
    <3>2. CASE e # p
      BY <1>4, <3>2
    <3> QED BY <3>1, <3>2
  <2> QED BY <2>1, <2>2
<1> QED BY <1>5, <1>6, <1>7 DEF DInv

LEMMA DeliveryStep ==
  ASSUME Inv, DInv, [Next]_vars
  PROVE  DInv'
<1>1. CASE UNCHANGED vars \/ Tick \/ Pick
  <2>1. UNCHANGED <<slot, got, sent, head, tail, pc, dst>>
    BY <1>1 DEF vars, ring, local, Tick, EnterPick, Pick
  <2> QED BY <2>1, StillDelivery
<1>2. ASSUME NEW p \in Process, Step(p) PROVE DInv'
  BY <1>2, StillSteps, StoreDelivery, AdvanceDelivery, TakeDelivery
<1> QED BY <1>1, <1>2 DEF Next

(* Without preemption every message sent is received exactly once and in the  *)
(* order of its sender, through full and empty rings, the index past the      *)
(* array, kills and wake-ups: nobody else can test or store between the test  *)
(* of push_message and its advance of head.                                   *)
THEOREM DeliveredOnce ==
  ASSUME ~PREEMPTIVE
  PROVE  Spec => []Delivery
<1>1. Inv /\ DInv /\ [Next]_vars => Inv' /\ DInv'
  BY InvStep, DeliveryStep
<1>2. DInv => Delivery
  BY DeliveryIs DEF DInv
<1> QED BY <1>1, <1>2, InitInv, InitDelivery, PTL DEF Spec

=============================================================================
