----------------------------- MODULE UartInput -----------------------------
(***************************************************************************)
(* Console input: the ring that handle_uart_irq (drivers/uart/uart.c)      *)
(* fills and syscall_input (libs/syscalls.c) empties, the ownership of the *)
(* console and the assembly of a line.  System calls run with interrupts   *)
(* enabled, so a key may arrive between any two of the steps below, under  *)
(* every scheduling algorithm; other processes run in between only if the  *)
(* algorithm is preemptive.  The scheduler is one FIFO queue of processes; *)
(* module Scheduler has the rest of it.                                    *)
(***************************************************************************)
EXTENDS Integers, Sequences, SequencesExt

CONSTANTS
  N,                 \* processes 1..N exist; pid 0 is the idle init_process
  UART_BUFFER_SIZE,  \* positions of the ring
  MAX_LEN,           \* characters that fit in the caller's buffer (len - 1)
  PREEMPTIVE,        \* is_preemptive of the active algorithm
  KEYS,              \* the keys pressed: ENTER, DELETE and others
  MAX_KEYS           \* bound: key presses

ENTER  == "enter"    \* '\r' or '\n'
DELETE == "delete"   \* 0x7F
NOKEY  == "none"     \* a position of the ring never written
NULL   == 0
Process == 1 .. N

ASSUME UartInputAssumption ==
  /\ N \in Nat \ {0} /\ UART_BUFFER_SIZE \in Nat \ {0} /\ MAX_LEN \in Nat
  /\ PREEMPTIVE \in BOOLEAN
  /\ KEYS \subseteq STRING /\ MAX_KEYS \in Nat

VARIABLES
  state, ready_queue, current_process, pc,
  uart_owner, uart_head, uart_tail, uart_buffer,
  buffer,            \* buffer[0 .. current_len - 1] of the call each process is in
  pressed,           \* key presses so far
  accepted,          \* history: the keys that found room in the ring,
  lines              \*   and the lines returned, in the order they were returned

sched == <<state, ready_queue, current_process>>
uart  == <<uart_owner, uart_head, uart_tail, uart_buffer>>
keys  == <<pressed, accepted>>
vars  == <<sched, pc, uart, buffer, keys, lines>>

Init ==
  /\ state = [p \in Process |-> IF p = 1 THEN "RUNNING" ELSE "READY"]
  /\ ready_queue = [k \in 1 .. N - 1 |-> k + 1]
  /\ current_process = 1
  /\ pc = [p \in Process |-> "run"]
  /\ uart_owner = NULL /\ uart_head = 0 /\ uart_tail = 0
  /\ uart_buffer = [k \in 0 .. UART_BUFFER_SIZE - 1 |-> NOKEY]
  /\ buffer = [p \in Process |-> <<>>]
  /\ pressed = 0 /\ accepted = <<>> /\ lines = <<>>

----------------------------------------------------------------------------
(* handle_uart_irq: a key that finds the ring full is dropped; in either case *)
(* every process that waits for input is woken, in pid order.                 *)
Succ(k) == (k + 1) % UART_BUFFER_SIZE
RingFullNever == FALSE
RingFull == Succ(uart_head) = uart_tail

Waits(p) == state[p] = "WAITING_UART_INPUT"
Woken ==                     \* the ready queue after the loop over the processes
  LET queue[p \in 0 .. N] == IF p = 0 THEN ready_queue
                             ELSE IF Waits(p) THEN Append(queue[p - 1], p) ELSE queue[p - 1]
  IN  queue[N]

handle_uart_irq(c) ==
  /\ pressed < MAX_KEYS
  /\ pressed' = pressed + 1
  /\ IF RingFull THEN UNCHANGED <<uart_buffer, uart_head, accepted>>
     ELSE /\ uart_buffer' = [uart_buffer EXCEPT ![uart_head] = c]
          /\ uart_head' = Succ(uart_head)
          /\ accepted' = Append(accepted, c)
  /\ state' = [p \in Process |-> IF Waits(p) THEN "READY" ELSE state[p]]
  /\ ready_queue' = Woken
  /\ UNCHANGED <<current_process, pc, uart_owner, uart_tail, buffer, lines>>

(* The receive time-out interrupt, for keys that stay below the trigger level *)
(* of the FIFO: they are echoed, put nowhere, and nobody is woken.            *)
ReceiveTimeout ==
  /\ pressed < MAX_KEYS
  /\ pressed' = pressed + 1
  /\ UNCHANGED <<sched, pc, uart, buffer, accepted, lines>>

----------------------------------------------------------------------------
(* The pick of round robin and FCFS. *)
Reschedule ==
  LET runnable == current_process # NULL /\ state[current_process] = "RUNNING"
      queue == IF runnable THEN Append(ready_queue, current_process) ELSE ready_queue
      next  == IF queue = <<>> THEN NULL ELSE Head(queue)
  IN  /\ current_process' = next
      /\ ready_queue' = IF queue = <<>> THEN <<>> ELSE Tail(queue)
      /\ state' = [p \in Process |->
           IF p = next THEN "RUNNING"
           ELSE IF runnable /\ p = current_process THEN "READY" ELSE state[p]]
      /\ UNCHANGED <<uart, buffer, keys, lines>>

Tick ==
  /\ PREEMPTIVE \/ current_process = NULL
  /\ Reschedule
  /\ UNCHANGED pc

At(p, l) == current_process = p /\ pc[p] = l
GoTo(p, l) == pc' = [pc EXCEPT ![p] = l]

syscall_yield(p) ==
  /\ At(p, "run")
  /\ Reschedule
  /\ UNCHANGED pc

(* exit_process, and the schedule() at its end, from which it never returns. *)
exit_process(p) ==
  /\ At(p, "run")
  /\ state' = [state EXCEPT ![p] = "ZOMBIE"]
  /\ GoTo(p, "exited")
  /\ UNCHANGED <<ready_queue, current_process, uart, buffer, keys, lines>>

ExitSchedules(p) ==
  /\ At(p, "exited")
  /\ Reschedule
  /\ UNCHANGED pc

syscall_input(p) ==
  /\ At(p, "run")
  /\ buffer' = [buffer EXCEPT ![p] = <<>>]
  /\ GoTo(p, "own")
  /\ UNCHANGED <<sched, uart, keys, lines>>

OwnedByOtherNever(p) == FALSE
OwnedByOther(p) == uart_owner # NULL /\ uart_owner # p

(* The caller yields until nobody else owns the console, *)
AwaitConsole(p) ==
  /\ At(p, "own") /\ OwnedByOther(p)
  /\ Reschedule
  /\ UNCHANGED pc

ConsoleFree(p) ==
  /\ At(p, "own") /\ ~OwnedByOther(p)
  /\ GoTo(p, "take")
  /\ UNCHANGED <<sched, uart, buffer, keys, lines>>

TakeConsole(p) ==
  /\ At(p, "take")
  /\ uart_owner' = p
  /\ GoTo(p, "read")
  /\ UNCHANGED <<sched, uart_head, uart_tail, uart_buffer, buffer, keys, lines>>

(* then blocks while the ring is empty: tested first, *)
RingEmpty(p) ==
  /\ At(p, "read") /\ uart_head = uart_tail
  /\ GoTo(p, "block")
  /\ UNCHANGED <<sched, uart, buffer, keys, lines>>

InputBlocks(p) ==
  /\ At(p, "block")
  /\ state' = [state EXCEPT ![p] = "WAITING_UART_INPUT"]
  /\ GoTo(p, "sched")
  /\ UNCHANGED <<ready_queue, current_process, uart, buffer, keys, lines>>

schedule(p) ==
  /\ At(p, "sched")
  /\ Reschedule
  /\ GoTo(p, "read")

(* and adds the keys it finds to the line. *)
EditedUnbounded(line, c) ==
  IF c = DELETE THEN (IF line = <<>> THEN line ELSE Front(line)) ELSE Append(line, c)
Edited(line, c) ==
  CASE c = DELETE -> IF line = <<>> THEN line ELSE Front(line)
    [] OTHER -> IF Len(line) < MAX_LEN THEN Append(line, c) ELSE line

ReadKey(p) ==
  /\ At(p, "read") /\ uart_head # uart_tail
  /\ uart_tail' = Succ(uart_tail)
  /\ LET c == uart_buffer[uart_tail] IN
     \/ /\ c = ENTER
        /\ uart_owner' = NULL
        /\ lines' = Append(lines, buffer[p])
        /\ buffer' = [buffer EXCEPT ![p] = <<>>]
        /\ GoTo(p, "run")
     \/ /\ c # ENTER
        /\ buffer' = [buffer EXCEPT ![p] = Edited(@, c)]
        /\ UNCHANGED <<uart_owner, lines, pc>>
  /\ UNCHANGED <<sched, uart_head, uart_buffer, keys>>

----------------------------------------------------------------------------
Step(p) ==
  \/ syscall_yield(p) \/ exit_process(p) \/ ExitSchedules(p)
  \/ syscall_input(p) \/ AwaitConsole(p) \/ ConsoleFree(p)
  \/ TakeConsole(p) \/ RingEmpty(p) \/ InputBlocks(p) \/ schedule(p) \/ ReadKey(p)

Next == Tick \/ (\E c \in KEYS : handle_uart_irq(c)) \/ ReceiveTimeout \/ (\E p \in Process : Step(p))

(* The timer ticks for ever and the process that has the CPU goes on; nothing *)
(* is assumed of whoever sits at the keyboard.                                *)
Fairness == WF_vars(Tick) /\ \A p \in Process : WF_vars(Step(p))

Spec == Init /\ [][Next]_vars
FairSpec == Spec /\ Fairness

----------------------------------------------------------------------------
(* Properties. *)

TypeOK ==
  /\ state \in [Process -> {"RUNNING", "READY", "WAITING_UART_INPUT", "ZOMBIE"}]
  /\ ready_queue \in Seq(Process) /\ current_process \in Process \cup {NULL}
  /\ pc \in [Process -> {"run", "own", "take", "read", "block", "sched", "exited"}]
  /\ uart_owner \in Process \cup {NULL}
  /\ uart_head \in 0 .. UART_BUFFER_SIZE - 1 /\ uart_tail \in 0 .. UART_BUFFER_SIZE - 1
  /\ uart_buffer \in [0 .. UART_BUFFER_SIZE - 1 -> KEYS \cup {NOKEY}]
  /\ buffer \in [Process -> Seq(KEYS)] /\ \A p \in Process : Len(buffer[p]) <= MAX_LEN
  /\ pressed \in 0 .. MAX_KEYS /\ accepted \in Seq(KEYS) /\ lines \in Seq(Seq(KEYS))

Unread ==
  [k \in 1 .. (uart_head - uart_tail + UART_BUFFER_SIZE) % UART_BUFFER_SIZE |->
     uart_buffer[(uart_tail + k - 1) % UART_BUFFER_SIZE]]
Consumed == SubSeq(accepted, 1, Len(accepted) - Len(Unread))

(* What a terminal makes of a sequence of keys: the finished lines and the   *)
(* one being typed.                                                          *)
Typing(t, c) ==
  IF c = ENTER THEN [done |-> Append(t.done, t.line), line |-> <<>>]
  ELSE [done |-> t.done, line |-> Edited(t.line, c)]
Typed(ks) ==
  LET t[n \in 0 .. Len(ks)] == IF n = 0 THEN [done |-> <<>>, line |-> <<>>]
                               ELSE Typing(t[n - 1], ks[n])
  IN  t[Len(ks)]

(* The lines that the readers get are the lines that were typed, whichever   *)
(* processes read them and whenever the keys arrived: no accepted key is     *)
(* lost, repeated or moved to another line.                                  *)
LinesAsTyped ==
  /\ Unread = SubSeq(accepted, Len(Consumed) + 1, Len(accepted))
  /\ lines = Typed(Consumed).done
  /\ \A p \in Process : pc[p] \in {"read", "block", "sched"} => buffer[p] = Typed(Consumed).line

(* One process at a time assembles a line, and it owns the console. *)
OneReader ==
  \A p \in Process : pc[p] \in {"read", "block", "sched"} => uart_owner = p

(* input reads "until the first termination character": a reader whose line  *)
(* is complete in the ring gets it.                                          *)
LineIsReturned ==
  \A p \in Process :
    Waits(p) /\ (\E k \in DOMAIN Unread : Unread[k] = ENTER) ~> ~Waits(p)

=============================================================================
