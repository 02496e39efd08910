-------------------------------- MODULE Ipc --------------------------------
(***************************************************************************)
(* Message passing (libs/ipc.c): the ring of messages in every PCB, the    *)
(* blocking send and receive, and the wake-ups between them.  None of this  *)
(* code disables preemption, so under a preemptive algorithm another       *)
(* process may run between any two of the steps below.                     *)
(*                                                                         *)
(* The scheduler is the part of it that this code meets: one FIFO ready    *)
(* queue (round robin when PREEMPTIVE, FCFS otherwise), as the intrusive   *)
(* list it is, because the ring reaches the list node of its own PCB.      *)
(* Module Scheduler has the rest.                                          *)
(***************************************************************************)
EXTENDS ReadyQueue, Integers, Sequences

CONSTANTS
  N,                         \* processes 1..N exist; pid 0 is the idle init_process
  MAX_MESSAGES_PER_PROCESS,  \* size of the array in a ring (4 in the code)
  PREEMPTIVE,                \* is_preemptive of the active algorithm
  LINKS,                     \* pairs <<p, d>>: the processes p sends messages to
  SIGNAL_TARGETS,            \* the processes that may be sent SIGNAL_KILL
  MAX_SENDS                  \* bound: messages each process sends

Process == 1 .. N
Indices == 0 .. MAX_MESSAGES_PER_PROCESS
NOBODY  == [from |-> 0, n |-> 0]      \* a slot that was never written

ASSUME IpcAssumption ==
  /\ N \in Nat \ {0}
  /\ MAX_MESSAGES_PER_PROCESS \in Nat \ {0}
  /\ PREEMPTIVE \in BOOLEAN
  /\ LINKS \subseteq Process \X Process /\ SIGNAL_TARGETS \subseteq Process
  /\ MAX_SENDS \in Nat

VARIABLES
  state, killed,      \* PCB: state, and whether SIGNAL_KILL is pending
  ready_queue,        \* the list of module ReadyQueue, next_ready included
  current_process, picking,
  head, tail, slot,   \* messages_buffer of each PCB; slot[p][MAX..] lies past the array
  pc, dst, next, i,   \* locals of the call each process is in
  sent,               \* history: sent[p] lists the destinations of p's messages,
  got                 \*   got[p] the messages p has received

sched == <<state, ready_queue, current_process, picking>>
ring  == <<head, tail, slot>>
local == <<dst, next, i>>
vars  == <<sched, killed, ring, pc, local, sent, got>>

Init ==
  /\ state = [p \in Process |-> IF p = 1 THEN "RUNNING" ELSE "READY"]
  /\ killed = [p \in Process |-> FALSE]
  /\ ready_queue = [head |-> IF N > 1 THEN 2 ELSE NULL, tail |-> IF N > 1 THEN N ELSE NULL,
                    next |-> [p \in Process |-> IF p \in 2 .. N - 1 THEN p + 1 ELSE NULL]]
  /\ current_process = 1 /\ picking = FALSE
  /\ head = [p \in Process |-> 0] /\ tail = [p \in Process |-> 0]
  /\ slot = [p \in Process |-> [k \in Indices |-> NOBODY]]
  /\ pc = [p \in Process |-> "run"]
  /\ dst = [p \in Process |-> 1] /\ next = [p \in Process |-> 0] /\ i = [p \in Process |-> 1]
  /\ sent = [p \in Process |-> <<>>] /\ got = [p \in Process |-> <<>>]

----------------------------------------------------------------------------
(* The scheduler, as in _schedule_round_robin and _schedule_queue_head. *)
EnterPick ==
  /\ picking' = TRUE
  /\ IF current_process # NULL /\ state[current_process] = "RUNNING"
     THEN /\ state' = [state EXCEPT ![current_process] = "READY"]
          /\ ready_queue' = enqueue_process_to(ready_queue, current_process)
     ELSE UNCHANGED <<state, ready_queue>>
  /\ UNCHANGED <<current_process, killed, ring, local, sent, got>>

Tick ==
  /\ ~picking
  /\ PREEMPTIVE \/ current_process = NULL
  /\ EnterPick
  /\ UNCHANGED pc

Pick ==
  /\ picking
  /\ \/ /\ ready_queue.head = NULL
        /\ current_process' = NULL /\ picking' = FALSE
        /\ UNCHANGED <<state, killed, ready_queue>>
     \/ /\ ready_queue.head # NULL
        /\ LET p == ready_queue.head IN
           /\ ready_queue' = dequeue_process_from(ready_queue)
           /\ killed' = [killed EXCEPT ![p] = FALSE]
           /\ \/ /\ state[p] = "READY" /\ ~killed[p]
                 /\ state' = [state EXCEPT ![p] = "RUNNING"]
                 /\ current_process' = p /\ picking' = FALSE
              \/ /\ state[p] # "READY" \/ killed[p]
                 /\ state' = [state EXCEPT ![p] = IF killed[p] THEN "ZOMBIE" ELSE @]
                 /\ UNCHANGED <<current_process, picking>>
  /\ UNCHANGED <<ring, pc, local, sent, got>>

(* p has the CPU and is at label l; it goes on at label m. *)
At(p, l) == ~picking /\ current_process = p /\ pc[p] = l
GoTo(p, m) == pc' = [pc EXCEPT ![p] = m]

(* The call of schedule() that follows a block or a yield. *)
schedule(p) ==
  \E l \in {"sched_push", "sched_pop", "sched_run"} :
    /\ At(p, l)
    /\ GoTo(p, CASE l = "sched_push" -> "push" [] l = "sched_pop" -> "pop" [] OTHER -> "run")
    /\ EnterPick

syscall_yield(p) ==
  /\ At(p, "run")
  /\ GoTo(p, "sched_run")
  /\ UNCHANGED <<sched, killed, ring, local, sent, got>>

send_signal(p, target) ==
  /\ At(p, "run")
  /\ killed' = [killed EXCEPT ![target] = TRUE]
  /\ UNCHANGED <<sched, ring, pc, local, sent, got>>

----------------------------------------------------------------------------
(* Both indices run over one position more than the array has. *)
Succ(k) == IF k + 1 > MAX_MESSAGES_PER_PROCESS THEN 0 ELSE k + 1

send_message(p, d) ==
  /\ At(p, "run")
  /\ <<p, d>> \in LINKS /\ Len(sent[p]) < MAX_SENDS
  /\ dst' = [dst EXCEPT ![p] = d]
  /\ GoTo(p, "push")
  /\ UNCHANGED <<sched, killed, ring, next, i, sent, got>>

FullNever(d) == FALSE
Full(d) == Succ(head[d]) = tail[d]

(* push_message: room is tested first, *)
push_message(p) ==
  /\ At(p, "push")
  /\ next' = [next EXCEPT ![p] = Succ(head[dst[p]])]
  /\ GoTo(p, IF Full(dst[p]) THEN "full" ELSE "store")
  /\ UNCHANGED <<sched, killed, ring, dst, i, sent, got>>

SendBlocks(p) ==
  /\ At(p, "full")
  /\ state' = [state EXCEPT ![p] = "WAITING_TO_SEND_MESSAGE"]
  /\ GoTo(p, "sched_push")
  /\ UNCHANGED <<ready_queue, current_process, picking, killed, ring, local, sent, got>>

(* then the message is stored at head.  The slot past the array overlays what *)
(* follows it in the PCB: the source pointer falls on pending_signals (and on *)
(* pid_to_wait) and, being the address of a page, has no signal's bit set;    *)
(* the destination pointer falls on next_ready.                               *)
PushStore(p) ==
  /\ At(p, "store")
  /\ LET d == dst[p] IN
     /\ slot' = [slot EXCEPT ![d][head[d]] = [from |-> p, n |-> Len(sent[p]) + 1]]
     /\ IF head[d] = MAX_MESSAGES_PER_PROCESS
        THEN /\ killed' = [killed EXCEPT ![d] = FALSE]
             /\ ready_queue' = [ready_queue EXCEPT !.next[d] = d]
        ELSE UNCHANGED <<killed, ready_queue>>
  /\ GoTo(p, "advance")
  /\ UNCHANGED <<state, current_process, picking, head, tail, local, sent, got>>

PushAdvance(p) ==
  /\ At(p, "advance")
  /\ head' = [head EXCEPT ![dst[p]] = next[p]]
  /\ sent' = [sent EXCEPT ![p] = Append(@, dst[p])]
  /\ GoTo(p, "wake")
  /\ UNCHANGED <<sched, killed, tail, slot, local, got>>

(* and a receiver that waits is woken. *)
ReceiverWaitsNever(d) == FALSE
ReceiverWaits(d) == state[d] = "WAITING_TO_RECEIVE_MESSAGE"
PushWakes(p) ==
  /\ At(p, "wake")
  /\ GoTo(p, IF ReceiverWaits(dst[p]) THEN "wake_set" ELSE "run")
  /\ UNCHANGED <<sched, killed, ring, local, sent, got>>

WakeReceiver(p) ==
  /\ At(p, "wake_set")
  /\ state' = [state EXCEPT ![dst[p]] = "READY"]
  /\ ready_queue' = enqueue_process_to(ready_queue, dst[p])
  /\ GoTo(p, "run")
  /\ UNCHANGED <<current_process, picking, killed, ring, local, sent, got>>

----------------------------------------------------------------------------
receive_message(p) ==
  /\ At(p, "run")
  /\ GoTo(p, "pop")
  /\ UNCHANGED <<sched, killed, ring, local, sent, got>>

pop_message(p) ==
  /\ At(p, "pop")
  /\ GoTo(p, IF head[p] = tail[p] THEN "empty" ELSE "take")
  /\ UNCHANGED <<sched, killed, ring, local, sent, got>>

ReceiveBlocks(p) ==
  /\ At(p, "empty")
  /\ state' = [state EXCEPT ![p] = "WAITING_TO_RECEIVE_MESSAGE"]
  /\ GoTo(p, "sched_pop")
  /\ UNCHANGED <<ready_queue, current_process, picking, killed, ring, local, sent, got>>

(* Nobody but p pops p's ring: reading the slot and moving tail is one step. *)
PopTake(p) ==
  /\ At(p, "take")
  /\ got' = [got EXCEPT ![p] = Append(@, slot[p][tail[p]])]
  /\ tail' = [tail EXCEPT ![p] = Succ(@)]
  /\ i' = [i EXCEPT ![p] = 1]
  /\ GoTo(p, "scan")
  /\ UNCHANGED <<sched, killed, head, slot, dst, next, sent>>

(* The loop that wakes every process waiting to send, to whomever. *)
LastScanned == N
ScanSenders(p) ==
  /\ At(p, "scan")
  /\ \/ /\ i[p] > LastScanned
        /\ GoTo(p, "run")
        /\ UNCHANGED i
     \/ /\ i[p] <= LastScanned /\ state[i[p]] = "WAITING_TO_SEND_MESSAGE"
        /\ GoTo(p, "resume")
        /\ UNCHANGED i
     \/ /\ i[p] <= LastScanned /\ state[i[p]] # "WAITING_TO_SEND_MESSAGE"
        /\ i' = [i EXCEPT ![p] = @ + 1]
        /\ UNCHANGED pc
  /\ UNCHANGED <<sched, killed, ring, dst, next, sent, got>>

ResumeSender(p) ==
  /\ At(p, "resume")
  /\ state' = [state EXCEPT ![i[p]] = "READY"]
  /\ ready_queue' = enqueue_process_to(ready_queue, i[p])
  /\ i' = [i EXCEPT ![p] = @ + 1]
  /\ GoTo(p, "scan")
  /\ UNCHANGED <<current_process, picking, killed, ring, dst, next, sent, got>>

----------------------------------------------------------------------------
Step(p) ==
  \/ schedule(p) \/ syscall_yield(p) \/ receive_message(p)
  \/ \E d \in Process : send_message(p, d)
  \/ \E target \in SIGNAL_TARGETS : send_signal(p, target)
  \/ push_message(p) \/ SendBlocks(p) \/ PushStore(p) \/ PushAdvance(p)
  \/ PushWakes(p) \/ WakeReceiver(p)
  \/ pop_message(p) \/ ReceiveBlocks(p) \/ PopTake(p) \/ ScanSenders(p) \/ ResumeSender(p)

Next == Tick \/ Pick \/ \E p \in Process : Step(p)

Spec == Init /\ [][Next]_vars

----------------------------------------------------------------------------
(* Properties. *)

(* The messages between tail and head, oldest first. *)
Size == MAX_MESSAGES_PER_PROCESS + 1
Buffered(p) ==
  [k \in 1 .. (head[p] - tail[p] + Size) % Size |-> slot[p][(tail[p] + k - 1) % Size]]

(* Every message sent is received once, and those of one sender in the order *)
(* it sent them.  What d has received, followed by what is in its ring, holds *)
(* only messages that were sent to d, all of them, and of each sender the     *)
(* earlier before the later.                                                  *)
Delivery ==
  \A d \in Process :
    LET stream == got[d] \o Buffered(d) IN
    /\ \A k \in DOMAIN stream :
         LET m == stream[k] IN
         m.from \in Process /\ m.n \in DOMAIN sent[m.from] /\ sent[m.from][m.n] = d
    /\ \A s \in Process : \A n \in DOMAIN sent[s] :
         sent[s][n] = d => \E k \in DOMAIN stream : stream[k] = [from |-> s, n |-> n]
    /\ \A j, k \in DOMAIN stream :
         j < k /\ stream[j].from = stream[k].from => stream[j].n < stream[k].n

(* A call is complete when the process is back in its own code, or asleep.    *)
Settled(p) == pc[p] \in {"run", "sched_run", "sched_push", "sched_pop", "push", "pop"}

(* No wake-up is lost: between calls, nobody waits for a message while one is *)
(* in its ring, and nobody waits for room in a ring that has room.            *)
NobodySleepsInVain ==
  (\A p \in Process : Settled(p)) =>
    \A p \in Process :
      /\ state[p] = "WAITING_TO_RECEIVE_MESSAGE" => head[p] = tail[p]
      /\ state[p] = "WAITING_TO_SEND_MESSAGE" => Full(dst[p])

=============================================================================
