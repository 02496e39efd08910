-------------------------- MODULE UartInputProofs --------------------------
(***************************************************************************)
(* Console input: the types hold under every algorithm; under one that is  *)
(* not preemptive the console has one reader at a time and every line is   *)
(* read as it was typed, for every number of processes, ring size and      *)
(* sequence of keys.                                                       *)
(*                                                                         *)
(* OneReader is not inductive: between the test of uart_owner and the      *)
(* assignment to it nothing but the pc of the caller remembers the test.   *)
(* Owned adds what holds there: a process at "take" is the current one and *)
(* finds the console free or its own.  Assembled then says that the lines  *)
(* returned, the keys of the line being read and the content of the ring   *)
(* make up what was accepted.                                              *)
(***************************************************************************)
EXTENDS UartInput, QueueLemmas, TLAPS

Reading(p) == pc[p] \in {"read", "block", "sched"}

Owned ==
  /\ \A p \in Process : Reading(p) => uart_owner = p
  /\ \A p \in Process : pc[p] = "take" => current_process = p /\ uart_owner \in {NULL, p}
  /\ pc \in [Process -> {"run", "own", "take", "read", "block", "sched", "exited"}]

(* A step that leaves pc and uart_owner alone and takes the CPU from nobody   *)
(* who is at "take" preserves Owned.                                          *)
LEMMA QuietStep ==
  ASSUME Owned, UNCHANGED <<pc, uart_owner>>,
         \A p \in Process : pc[p] = "take" => current_process' = current_process
  PROVE  Owned'
BY DEF Owned, Reading

(* Reading the console is not possible for two processes: Owned is preserved. *)
LEMMA OwnedStep ==
  ASSUME UartInputAssumption, ~PREEMPTIVE, Owned, [Next]_vars
  PROVE  Owned'
<1> USE DEF NULL
<1>1. CASE UNCHANGED vars
  BY <1>1, QuietStep DEF vars, sched, uart
<1>2. CASE Tick
  <2>1. current_process = NULL /\ UNCHANGED <<pc, uart_owner>>
    BY <1>2 DEF Tick, Reschedule, uart
  <2>2. \A p \in Process : pc[p] # "take"
    BY <2>1 DEF Owned, Process
  <2> QED BY <2>1, <2>2, QuietStep
<1>3. CASE (\E c \in KEYS : handle_uart_irq(c)) \/ ReceiveTimeout
  BY <1>3, QuietStep DEF handle_uart_irq, ReceiveTimeout, sched, uart
<1>4. ASSUME NEW p \in Process, Step(p) PROVE Owned'
  <2>0. current_process = p
    BY <1>4 DEF Step, syscall_yield, exit_process, ExitSchedules, syscall_input, AwaitConsole,
                ConsoleFree, TakeConsole, RingEmpty, InputBlocks, schedule, ReadKey, At
  <2>1. CASE syscall_yield(p) \/ AwaitConsole(p) \/ ExitSchedules(p)
    <3>1. pc[p] # "take" /\ UNCHANGED <<pc, uart_owner>>
      BY <2>1 DEF syscall_yield, AwaitConsole, ExitSchedules, At, Reschedule, uart
    <3>2. \A q \in Process : pc[q] # "take"
      BY <2>0, <3>1 DEF Owned
    <3> QED BY <3>1, <3>2, QuietStep
  <2>2. CASE syscall_input(p) \/ exit_process(p)
    BY <2>2, <2>0 DEF syscall_input, exit_process, At, GoTo, sched, uart, Owned, Reading
  <2>3. CASE ConsoleFree(p)
    BY <2>3, <2>0 DEF ConsoleFree, OwnedByOther, At, GoTo, sched, uart, Owned, Reading
  <2>4. CASE TakeConsole(p)
    <3>1. \A q \in Process : Reading(q) => q = p
      BY <2>4 DEF TakeConsole, At, Owned, Process
    <3> QED BY <2>4, <2>0, <3>1 DEF TakeConsole, At, GoTo, sched, Owned, Reading
  <2>5. CASE RingEmpty(p) \/ InputBlocks(p)
    BY <2>5, <2>0 DEF RingEmpty, InputBlocks, At, GoTo, sched, uart, Owned, Reading
  <2>6. CASE schedule(p)
    <3>1. \A q \in Process : pc[q] # "take"
      BY <2>6, <2>0 DEF schedule, At, Owned
    <3> QED BY <2>6, <2>0, <3>1 DEF schedule, At, GoTo, Reschedule, uart, Owned, Reading
  <2>7. CASE ReadKey(p)
    <3>1. CASE uart_owner' = uart_owner /\ pc' = pc
      BY <2>7, <3>1, QuietStep DEF ReadKey, sched
    <3>2. CASE uart_owner' = NULL /\ GoTo(p, "run")
      <4>1. \A q \in Process : Reading(q) => q = p
        BY <2>7 DEF ReadKey, At, Owned, Reading
      <4>2. \A q \in Process : pc[q] # "take"
        BY <2>0, <2>7 DEF ReadKey, At, Owned
      <4> QED BY <3>2, <4>1, <4>2 DEF GoTo, Owned, Reading
    <3> QED BY <2>7, <3>1, <3>2 DEF ReadKey
  <2> QED BY <1>4, <2>1, <2>2, <2>3, <2>4, <2>5, <2>6, <2>7 DEF Step
<1> QED BY <1>1, <1>2, <1>3, <1>4 DEF Next

(* syscall_input gives the console to one process at a time: with FCFS or     *)
(* SJF no other process runs between its test of uart_owner and the           *)
(* assignment that follows.                                                   *)
THEOREM ConsoleExclusive ==
  ASSUME ~PREEMPTIVE
  PROVE  Spec => []OneReader
<1>1. Init => Owned
  BY DEF Init, Owned, Reading
<1>2. Owned /\ [Next]_vars => Owned'
  BY OwnedStep, UartInputAssumption
<1>3. Owned => OneReader
  BY DEF Owned, OneReader, Reading
<1> QED BY <1>1, <1>2, <1>3, PTL DEF Spec

----------------------------------------------------------------------------
(* Types.  A key that is read comes out of the ring, so the invariant has to  *)
(* say what the ring holds: the keys accepted last.  This part is true of     *)
(* every algorithm.                                                           *)
Ring ==
  /\ Len(Unread) <= Len(accepted)
  /\ \A k \in 1 .. Len(Unread) : Unread[k] = accepted[Len(accepted) - Len(Unread) + k]

TInv == TypeOK /\ Ring

LEMMA RingSize == UART_BUFFER_SIZE \in Nat \ {0} /\ MAX_LEN \in Nat /\ N \in Nat \ {0}
BY UartInputAssumption

LEMMA UnreadIs == Unread = RingContent(UART_BUFFER_SIZE, uart_head, uart_tail, uart_buffer)
BY DEF Unread, RingContent

LEMMA SuccIs ==
  \A k \in 0 .. UART_BUFFER_SIZE - 1 :
    Succ(k) = RingNext(UART_BUFFER_SIZE, k) /\ Succ(k) \in 0 .. UART_BUFFER_SIZE - 1
<1> SUFFICES ASSUME NEW k \in 0 .. UART_BUFFER_SIZE - 1
             PROVE  Succ(k) = RingNext(UART_BUFFER_SIZE, k) /\ Succ(k) \in 0 .. UART_BUFFER_SIZE - 1
  OBVIOUS
<1>1. CASE k + 1 = UART_BUFFER_SIZE
  BY <1>1, RingSize DEF Succ, RingNext
<1>2. CASE k + 1 < UART_BUFFER_SIZE
  BY <1>2, RingSize DEF Succ, RingNext
<1> QED BY <1>1, <1>2, RingSize

(* The loop of handle_uart_irq leaves a queue of processes. *)
LEMMA WokenType ==
  ASSUME ready_queue \in Seq(Process)
  PROVE  Woken \in Seq(Process)
<1> DEFINE turn == [p \in 1 .. N |-> [q \in Seq(Process) |-> IF Waits(p) THEN Append(q, p) ELSE q]]
           Is(f) == f = [p \in 0 .. N |-> IF p = 0 THEN ready_queue
                                          ELSE IF Waits(p) THEN Append(f[p - 1], p) ELSE f[p - 1]]
           c == CHOOSE f : f = [p \in 0 .. N |-> IF p = 0 THEN ready_queue
                                          ELSE IF Waits(p) THEN Append(f[p - 1], p) ELSE f[p - 1]]
<1>1. turn \in [1 .. N -> [Seq(Process) -> Seq(Process)]]
  <2>1. ASSUME NEW p \in 1 .. N, NEW q \in Seq(Process)
        PROVE  (IF Waits(p) THEN Append(q, p) ELSE q) \in Seq(Process)
    <3>1. Append(q, p) \in Seq(Process)
      BY DEF Process
    <3> QED BY <3>1, Zenon
  <2> QED BY <2>1, Zenon
<1>2. PICK f \in [0 .. N -> Seq(Process)] :
        f[0] = ready_queue /\ \A k \in 1 .. N : f[k] = turn[k][f[k - 1]]
  <2> HIDE DEF turn
  <2>1. N \in Nat
    BY RingSize
  <2> QED BY <1>1, <2>1, LoopExists
<1>3. ASSUME NEW k \in 0 .. N
      PROVE  f[k] = IF k = 0 THEN ready_queue ELSE IF Waits(k) THEN Append(f[k - 1], k) ELSE f[k - 1]
  <2>1. CASE k = 0
    BY <1>2, <2>1
  <2>2. CASE k # 0
    <3>1. k \in 1 .. N /\ k - 1 \in 0 .. N /\ f[k - 1] \in Seq(Process)
      BY <2>2, RingSize
    <3>2. f[k] = turn[k][f[k - 1]]
      <4> HIDE DEF turn
      <4> QED BY <1>2, <3>1
    <3> QED BY <2>2, <3>1, <3>2
  <2> QED BY <2>1, <2>2
<1>4. Is(f)
  BY <1>2, <1>3
<1>5. c = [p \in 0 .. N |-> IF p = 0 THEN ready_queue
                            ELSE IF Waits(p) THEN Append(c[p - 1], p) ELSE c[p - 1]]
  BY <1>4
<1>6. Woken = c[N]
  BY DEF Woken
<1> HIDE DEF c
<1> DEFINE T == {k \in 0 .. N : c[k] \in Seq(Process)}
<1>7. 0 \in T
  BY <1>5, RingSize
<1>8. ASSUME NEW k \in 1 .. N, k - 1 \in T PROVE k \in T
  <2>1. c[k] = IF Waits(k) THEN Append(c[k - 1], k) ELSE c[k - 1]
    <3>1. k \in 0 .. N /\ k # 0
      OBVIOUS
    <3>2. c[k] = IF k = 0 THEN ready_queue ELSE IF Waits(k) THEN Append(c[k - 1], k) ELSE c[k - 1]
      BY <1>5, <3>1, Zenon
    <3> QED BY <3>1, <3>2, Zenon
  <2>2. c[k - 1] \in Seq(Process) /\ k \in Process
    BY <1>8 DEF Process
  <2>3. c[k] \in Seq(Process)
    BY <2>1, <2>2
  <2> QED BY <2>3
<1> HIDE DEF T
<1>9. 0 .. N \subseteq T
  BY <1>7, <1>8, RingSize, UpTo
<1> QED BY <1>6, <1>9, RingSize DEF T

LEMMA UnreadType ==
  ASSUME TypeOK
  PROVE  /\ Unread \in Seq(KEYS \cup {NOKEY})
         /\ Len(Unread) = RingLen(UART_BUFFER_SIZE, uart_head, uart_tail)
         /\ Len(Unread) \in Nat /\ Len(accepted) \in Nat
<1>1. /\ uart_head \in 0 .. UART_BUFFER_SIZE - 1 /\ uart_tail \in 0 .. UART_BUFFER_SIZE - 1
      /\ uart_buffer \in [0 .. UART_BUFFER_SIZE - 1 -> KEYS \cup {NOKEY}] /\ accepted \in Seq(KEYS)
      /\ UART_BUFFER_SIZE \in Nat \ {0}
  BY RingSize DEF TypeOK
<1>2. /\ RingContent(UART_BUFFER_SIZE, uart_head, uart_tail, uart_buffer) \in Seq(KEYS \cup {NOKEY})
      /\ Len(RingContent(UART_BUFFER_SIZE, uart_head, uart_tail, uart_buffer))
           = RingLen(UART_BUFFER_SIZE, uart_head, uart_tail)
  BY <1>1, RingType
<1> QED BY <1>1, <1>2, UnreadIs

(* A key that finds room is the last one of the ring and of those accepted. *)
LEMMA PressKey ==
  ASSUME TInv, NEW c \in KEYS, ~RingFull, uart_buffer' = [uart_buffer EXCEPT ![uart_head] = c],
         uart_head' = Succ(uart_head), uart_tail' = uart_tail, accepted' = Append(accepted, c)
  PROVE  Ring' /\ Consumed' = Consumed
<1> DEFINE S == UART_BUFFER_SIZE
           b == uart_buffer'
           u == Len(Unread)
           a == Len(accepted)
<1>1. /\ uart_head \in 0 .. S - 1 /\ uart_tail \in 0 .. S - 1 /\ accepted \in Seq(KEYS)
      /\ uart_buffer \in [0 .. S - 1 -> KEYS \cup {NOKEY}] /\ S \in Nat \ {0}
  BY RingSize DEF TInv, TypeOK
<1>2. /\ b \in [0 .. S - 1 -> KEYS \cup {NOKEY}] /\ b[uart_head] = c
      /\ \A k \in 0 .. S - 1 : k # uart_head => b[k] = uart_buffer[k]
  BY <1>1
<1>3. RingContent(S, uart_head, uart_tail, b) = Unread
  <2>1. PICK r2 : r2 = b
    OBVIOUS
  <2>2. RingContent(S, uart_head, uart_tail, r2) = RingContent(S, uart_head, uart_tail, uart_buffer)
    <3>1. /\ S \in Nat \ {0} /\ uart_head \in 0 .. S - 1 /\ uart_tail \in 0 .. S - 1
          /\ \A k \in 0 .. S - 1 : k # uart_head => r2[k] = uart_buffer[k]
      BY <1>1, <1>2, <2>1
    <3> HIDE DEF S
    <3> QED BY <3>1, RingStore
  <2> QED BY <2>1, <2>2, UnreadIs
<1>4. Unread' = Append(Unread, c)
  <2>1. PICK h : h = Succ(uart_head) /\ h = RingNext(S, uart_head) /\ h # uart_tail
    BY <1>1, SuccIs DEF RingFull
  <2>2. PICK r \in [0 .. S - 1 -> KEYS \cup {NOKEY}] : r = b
    BY <1>2
  <2>3. RingContent(S, h, uart_tail, r) = Append(RingContent(S, uart_head, uart_tail, r), r[uart_head])
    BY <1>1, <2>1, RingPush
  <2>4. Unread' = RingContent(S, h, uart_tail, r)
    BY <2>1, <2>2 DEF Unread, RingContent
  <2> QED BY <1>2, <1>3, <2>2, <2>3, <2>4
<1>5. /\ Unread \in Seq(KEYS \cup {NOKEY}) /\ u \in Nat /\ a \in Nat /\ u <= a
      /\ \A k \in 1 .. u : Unread[k] = accepted[a - u + k]
  BY UnreadType DEF TInv, Ring
<1>6. /\ Len(Unread') = u + 1 /\ Unread'[u + 1] = c
      /\ \A k \in 1 .. u : Unread'[k] = Unread[k]
  BY <1>4, <1>5
<1>7. /\ Len(accepted') = a + 1 /\ accepted'[a + 1] = c
      /\ \A k \in 1 .. a : accepted'[k] = accepted[k]
  BY <1>1
<1> HIDE DEF u, a
<1>8. Ring'
  <2>1. ASSUME NEW k \in 1 .. u + 1 PROVE Unread'[k] = accepted'[a - u + k]
    <3>1. CASE k = u + 1
      <4>1. a - u + k = a + 1
        BY <1>5, <3>1
      <4> QED BY <1>6, <1>7, <3>1, <4>1
    <3>2. CASE k \in 1 .. u
      <4>1. a - u + k \in 1 .. a
        BY <1>5, <3>2
      <4> QED BY <1>5, <1>6, <1>7, <3>2, <4>1
    <3>3. k = u + 1 \/ k \in 1 .. u
      <4>1. u \in Nat
        BY <1>5
      <4> QED BY <4>1
    <3> QED BY <3>1, <3>2, <3>3, Zenon
  <2>2. (a + 1) - (u + 1) = a - u /\ u + 1 <= a + 1
    BY <1>5
  <2> QED BY <1>6, <1>7, <2>1, <2>2 DEF Ring
<1>9. Consumed' = Consumed
  <2>1. Consumed' = SubSeq(Append(accepted, c), 1, a - u)
    <3>1. (a + 1) - (u + 1) = a - u
      BY <1>5
    <3> QED BY <1>6, <1>7, <3>1 DEF Consumed
  <2>2. Consumed = SubSeq(accepted, 1, a - u) /\ a - u \in 0 .. a
    BY <1>5 DEF Consumed, a, u
  <2>3. PICK n : n = a - u
    OBVIOUS
  <2>4. SubSeq(Append(accepted, c), 1, n) = SubSeq(accepted, 1, n)
    BY <1>1, <2>2, <2>3 DEF a
  <2> QED BY <2>1, <2>2, <2>3, <2>4
<1> QED BY <1>8, <1>9

(* The key that is read is the oldest one not yet consumed. *)
LEMMA TakeKey ==
  ASSUME TInv, uart_head # uart_tail, uart_tail' = Succ(uart_tail),
         UNCHANGED <<uart_head, uart_buffer, accepted>>
  PROVE  /\ uart_buffer[uart_tail] \in KEYS /\ Ring'
         /\ Consumed \in Seq(KEYS) /\ Consumed' = Append(Consumed, uart_buffer[uart_tail])
<1> DEFINE S == UART_BUFFER_SIZE
           u == Len(Unread)
           a == Len(accepted)
<1>1. /\ uart_head \in 0 .. S - 1 /\ uart_tail \in 0 .. S - 1 /\ accepted \in Seq(KEYS)
      /\ uart_buffer \in [0 .. S - 1 -> KEYS \cup {NOKEY}] /\ S \in Nat \ {0}
  BY RingSize DEF TInv, TypeOK
<1>2. /\ u = RingLen(S, uart_head, uart_tail) /\ u \in Nat /\ a \in Nat /\ u <= a
      /\ \A k \in 1 .. u : Unread[k] = accepted[a - u + k]
  BY UnreadType DEF TInv, Ring
<1>3. PICK t : t = Succ(uart_tail) /\ t = RingNext(S, uart_tail) /\ t \in 0 .. S - 1
  BY <1>1, SuccIs
<1>4. /\ RingLen(S, uart_head, uart_tail) \in Nat \ {0}
      /\ RingLen(S, uart_head, t) = RingLen(S, uart_head, uart_tail) - 1
      /\ RingContent(S, uart_head, uart_tail, uart_buffer)[1] = uart_buffer[uart_tail]
      /\ \A k \in 1 .. RingLen(S, uart_head, uart_tail) - 1 :
           RingContent(S, uart_head, t, uart_buffer)[k]
             = RingContent(S, uart_head, uart_tail, uart_buffer)[k + 1]
  <2>1. /\ S \in Nat \ {0} /\ uart_head \in 0 .. S - 1 /\ uart_tail \in 0 .. S - 1
        /\ t = RingNext(S, uart_tail) /\ uart_head # uart_tail
    BY <1>1, <1>3
  <2> HIDE DEF S
  <2> QED BY <2>1, RingPop
<1>5. Unread' = RingContent(S, uart_head, t, uart_buffer)
  BY <1>3 DEF Unread, RingContent
<1>6. Len(RingContent(S, uart_head, t, uart_buffer)) = RingLen(S, uart_head, t)
  BY <1>1, <1>3, RingType
<1>7. /\ u \in Nat \ {0} /\ Len(Unread') = u - 1 /\ Unread[1] = uart_buffer[uart_tail]
      /\ \A k \in 1 .. u - 1 : Unread'[k] = Unread[k + 1]
  BY <1>2, <1>4, <1>5, <1>6, UnreadIs
<1> HIDE DEF u, a
<1>8. uart_buffer[uart_tail] = accepted[a - u + 1] /\ a - u + 1 \in 1 .. a
  BY <1>2, <1>7
<1>9. uart_buffer[uart_tail] \in KEYS
  BY <1>1, <1>8 DEF a
<1>10. Ring'
  <2>1. ASSUME NEW k \in 1 .. u - 1 PROVE Unread'[k] = accepted[a - (u - 1) + k]
    <3>1. k + 1 \in 1 .. u /\ a - u + (k + 1) = a - (u - 1) + k
      <4>1. u \in Nat /\ a \in Nat /\ k \in Nat /\ k >= 1 /\ k <= u - 1
        BY <1>2, <1>7
      <4> QED BY <4>1
    <3> QED BY <1>2, <1>7, <3>1
  <2>2. u - 1 <= a
    BY <1>2, <1>7
  <2> QED BY <1>7, <2>1, <2>2 DEF Ring, a
<1>11. Consumed = SubSeq(accepted, 1, a - u) /\ Consumed' = SubSeq(accepted, 1, a - u + 1)
  <2>1. a - (u - 1) = a - u + 1
    BY <1>2, <1>7
  <2> QED BY <1>7, <2>1 DEF Consumed, a, u
<1>12. PICK n \in Nat : n = a - u /\ n + 1 \in 1 .. Len(accepted)
  BY <1>2, <1>8 DEF a
<1>13. /\ SubSeq(accepted, 1, n + 1) = Append(SubSeq(accepted, 1, n), accepted[n + 1])
       /\ SubSeq(accepted, 1, n) \in Seq(KEYS)
  BY <1>1, <1>12
<1> QED BY <1>8, <1>9, <1>10, <1>11, <1>12, <1>13

States == {"RUNNING", "READY", "WAITING_UART_INPUT", "ZOMBIE"}
Labels == {"run", "own", "take", "read", "block", "sched", "exited"}

(* TypeOK in parts, by what the actions change together. *)
SchedType ==
  /\ state \in [Process -> States] /\ ready_queue \in Seq(Process)
  /\ current_process \in Process \cup {NULL}
LineType ==
  /\ buffer \in [Process -> Seq(KEYS)] /\ \A p \in Process : Len(buffer[p]) <= MAX_LEN
  /\ lines \in Seq(Seq(KEYS))
UartType ==
  /\ uart_owner \in Process \cup {NULL}
  /\ uart_head \in 0 .. UART_BUFFER_SIZE - 1 /\ uart_tail \in 0 .. UART_BUFFER_SIZE - 1
  /\ uart_buffer \in [0 .. UART_BUFFER_SIZE - 1 -> KEYS \cup {NOKEY}]
KeysType == pressed \in 0 .. MAX_KEYS /\ accepted \in Seq(KEYS)
PcType == pc \in [Process -> Labels]

LEMMA TypeIs == TypeOK <=> SchedType /\ LineType /\ UartType /\ KeysType /\ PcType
BY DEF TypeOK, SchedType, LineType, UartType, KeysType, PcType, States, Labels

LEMMA RescheduleType ==
  ASSUME SchedType, Reschedule
  PROVE  SchedType'
<1> DEFINE runnable == current_process # NULL /\ state[current_process] = "RUNNING"
           queue == IF runnable THEN Append(ready_queue, current_process) ELSE ready_queue
           next == IF queue = <<>> THEN NULL ELSE Head(queue)
<1>1. queue \in Seq(Process)
  <2>1. runnable => current_process \in Process
    BY DEF SchedType
  <2> QED BY <2>1 DEF SchedType
<1>2. /\ current_process' = next /\ ready_queue' = IF queue = <<>> THEN <<>> ELSE Tail(queue)
      /\ state' = [p \in Process |-> IF p = next THEN "RUNNING"
                                     ELSE IF runnable /\ p = current_process THEN "READY" ELSE state[p]]
  BY DEF Reschedule
<1> HIDE DEF queue, runnable
<1>3. current_process' \in Process \cup {NULL} /\ ready_queue' \in Seq(Process)
  BY <1>1, <1>2
<1>4. state' \in [Process -> States]
  BY <1>2 DEF SchedType, States
<1> QED BY <1>3, <1>4 DEF SchedType

(* A line never outgrows the caller's buffer. *)
LEMMA EditedType ==
  ASSUME NEW line \in Seq(KEYS), Len(line) <= MAX_LEN, NEW c \in KEYS
  PROVE  Edited(line, c) \in Seq(KEYS) /\ Len(Edited(line, c)) <= MAX_LEN
<1>1. CASE c = DELETE /\ line = <<>>
  BY <1>1 DEF Edited
<1>2. CASE c = DELETE /\ line # <<>>
  <2>1. Edited(line, c) = Front(line)
    BY <1>2 DEF Edited
  <2>2. Front(line) \in Seq(KEYS) /\ Len(Front(line)) = Len(line) - 1
    <3>1. Len(line) \in Nat /\ Len(line) # 0
      BY <1>2
    <3>2. PICK m \in Nat : Len(line) = m + 1
      BY <3>1
    <3>3. SubSeq(line, 1, m) \in Seq(KEYS) /\ Len(SubSeq(line, 1, m)) = m
      BY <3>2
    <3>4. Front(line) = SubSeq(line, 1, m)
      BY <3>2 DEF Front
    <3> QED BY <3>2, <3>3, <3>4
  <2> QED BY <2>1, <2>2, RingSize
<1>3. CASE c # DELETE /\ Len(line) < MAX_LEN
  <2>1. Edited(line, c) = Append(line, c)
    BY <1>3 DEF Edited
  <2> QED BY <1>3, <2>1, RingSize
<1>4. CASE c # DELETE /\ ~(Len(line) < MAX_LEN)
  <2>1. Edited(line, c) = line
    BY <1>4 DEF Edited
  <2> QED BY <2>1
<1> QED BY <1>1, <1>2, <1>3, <1>4

LEMMA StillRing ==
  ASSUME Ring, UNCHANGED <<uart_head, uart_tail, uart_buffer, accepted>>
  PROVE  Ring' /\ Unread' = Unread /\ Consumed' = Consumed
<1>1. Unread' = Unread
  BY DEF Unread
<1> QED BY <1>1 DEF Ring, Consumed

LEMMA InitTypes == Init => TInv
<1> SUFFICES ASSUME Init PROVE TInv
  OBVIOUS
<1>1. SchedType
  <2>1. state \in [Process -> States]
    BY DEF Init, States
  <2>2. ready_queue \in Seq(Process)
    <3>1. N - 1 \in Nat /\ \A k \in 1 .. N - 1 : k + 1 \in Process
      BY RingSize DEF Process
    <3> QED BY <3>1 DEF Init
  <2>3. current_process \in Process
    BY RingSize DEF Init, Process
  <2> QED BY <2>1, <2>2, <2>3 DEF SchedType
<1>2. LineType
  BY RingSize DEF Init, LineType
<1>3. UartType
  BY RingSize DEF Init, UartType
<1>4. KeysType /\ PcType
  BY UartInputAssumption DEF Init, KeysType, PcType, Labels
<1>5. Ring
  <2>1. TypeOK
    BY <1>1, <1>2, <1>3, <1>4, TypeIs
  <2>2. Len(Unread) = 0
    BY <2>1, UnreadType DEF RingLen, Init
  <2>3. Len(accepted) = 0
    BY DEF Init
  <2> QED BY <2>2, <2>3 DEF Ring
<1> QED BY <1>1, <1>2, <1>3, <1>4, <1>5, TypeIs DEF TInv

LEMMA IrqTypes ==
  ASSUME TInv, NEW c \in KEYS, handle_uart_irq(c)
  PROVE  TInv'
<1>1. SchedType /\ LineType /\ UartType /\ KeysType /\ PcType /\ Ring
  BY TypeIs DEF TInv
<1>2. SchedType'
  <2>1. Woken \in Seq(Process)
    BY <1>1, WokenType DEF SchedType
  <2> QED BY <1>1, <2>1 DEF handle_uart_irq, SchedType, States
<1>3. LineType' /\ PcType'
  BY <1>1 DEF handle_uart_irq, LineType, PcType
<1>4. pressed' \in 0 .. MAX_KEYS
  BY <1>1, UartInputAssumption DEF handle_uart_irq, KeysType
<1>5. UartType' /\ accepted' \in Seq(KEYS)
  <2>1. CASE RingFull
    BY <1>1, <2>1 DEF handle_uart_irq, UartType, KeysType
  <2>2. CASE ~RingFull
    <3>1. Succ(uart_head) \in 0 .. UART_BUFFER_SIZE - 1
      BY <1>1, SuccIs DEF UartType
    <3>2. /\ uart_buffer' = [uart_buffer EXCEPT ![uart_head] = c] /\ uart_head' = Succ(uart_head)
          /\ accepted' = Append(accepted, c) /\ UNCHANGED <<uart_owner, uart_tail>>
      BY <2>2 DEF handle_uart_irq
    <3> QED BY <1>1, <3>1, <3>2 DEF UartType, KeysType
  <2> QED BY <2>1, <2>2
<1>6. Ring'
  <2>1. CASE RingFull
    BY <1>1, <2>1, StillRing DEF handle_uart_irq
  <2>2. CASE ~RingFull
    BY <2>2, PressKey DEF handle_uart_irq
  <2> QED BY <2>1, <2>2
<1>7. TypeOK'
  <2>1. SchedType' /\ LineType' /\ UartType' /\ KeysType' /\ PcType'
    BY <1>2, <1>3, <1>4, <1>5 DEF KeysType
  <2> QED BY <2>1 DEF TypeOK, SchedType, LineType, UartType, KeysType, PcType, States, Labels
<1> QED BY <1>6, <1>7 DEF TInv

(* The steps that leave the ring alone. *)
LEMMA OtherTypes ==
  ASSUME TInv, UNCHANGED <<uart_head, uart_tail, uart_buffer, accepted>>,
         SchedType', PcType', LineType', uart_owner' \in Process \cup {NULL}, pressed' \in 0 .. MAX_KEYS
  PROVE  TInv'
<1>1. UartType' /\ KeysType'
  BY TypeIs DEF TInv, UartType, KeysType
<1>2. TypeOK'
  BY <1>1 DEF TypeOK, SchedType, LineType, UartType, KeysType, PcType, States, Labels
<1>3. Ring'
  BY StillRing DEF TInv
<1> QED BY <1>2, <1>3 DEF TInv

LEMMA ReadTypes ==
  ASSUME TInv, NEW p \in Process, ReadKey(p)
  PROVE  TInv'
<1> DEFINE c == uart_buffer[uart_tail]
<1>1. SchedType /\ LineType /\ UartType /\ KeysType /\ PcType /\ Ring
  BY TypeIs DEF TInv
<1>2. /\ uart_head # uart_tail /\ uart_tail' = Succ(uart_tail)
      /\ UNCHANGED <<state, ready_queue, current_process, uart_head, uart_buffer, pressed, accepted>>
      /\ \/ /\ c = ENTER /\ uart_owner' = NULL /\ lines' = Append(lines, buffer[p])
            /\ buffer' = [buffer EXCEPT ![p] = <<>>] /\ pc' = [pc EXCEPT ![p] = "run"]
         \/ /\ c # ENTER /\ buffer' = [buffer EXCEPT ![p] = Edited(@, c)]
            /\ UNCHANGED <<uart_owner, lines, pc>>
  BY DEF ReadKey, sched, keys, GoTo
<1>3. c \in KEYS /\ Ring'
  BY <1>2, TakeKey
<1> HIDE DEF c
<1>4. Edited(buffer[p], c) \in Seq(KEYS) /\ Len(Edited(buffer[p], c)) <= MAX_LEN
  BY <1>1, <1>3, EditedType DEF LineType
<1>5. LineType'
  <2>1. CASE c = ENTER
    <3>1. buffer' = [buffer EXCEPT ![p] = <<>>] /\ lines' = Append(lines, buffer[p])
      BY <1>2, <2>1
    <3>2. buffer[p] \in Seq(KEYS) /\ lines \in Seq(Seq(KEYS)) /\ buffer \in [Process -> Seq(KEYS)]
      BY <1>1 DEF LineType
    <3>3. lines' \in Seq(Seq(KEYS))
      BY <3>1, <3>2
    <3>4. buffer' \in [Process -> Seq(KEYS)]
      BY <3>1, <3>2
    <3>5. \A q \in Process : Len(buffer'[q]) <= MAX_LEN
      BY <1>1, <3>1, <3>2, RingSize DEF LineType
    <3> QED BY <3>3, <3>4, <3>5 DEF LineType
  <2>2. CASE c # ENTER
    <3>1. buffer' = [buffer EXCEPT ![p] = Edited(buffer[p], c)] /\ lines' = lines
      BY <1>2, <2>2
    <3> QED BY <1>1, <1>4, <3>1 DEF LineType
  <2> QED BY <2>1, <2>2
<1>6. SchedType' /\ PcType' /\ KeysType'
  BY <1>1, <1>2 DEF SchedType, PcType, KeysType, Labels
<1>7. UartType'
  <2>1. Succ(uart_tail) \in 0 .. UART_BUFFER_SIZE - 1
    BY <1>1, SuccIs DEF UartType
  <2> QED BY <1>1, <1>2, <2>1 DEF UartType
<1>8. TypeOK'
  BY <1>5, <1>6, <1>7 DEF TypeOK, SchedType, LineType, UartType, KeysType, PcType, States, Labels
<1> QED BY <1>3, <1>8 DEF TInv

LEMMA TypeStep ==
  ASSUME TInv, [Next]_vars
  PROVE  TInv'
<1>0. SchedType /\ LineType /\ UartType /\ KeysType /\ PcType
  BY TypeIs DEF TInv
<1>1. CASE UNCHANGED vars
  <2>1. UNCHANGED <<state, ready_queue, current_process, pc, uart_owner, uart_head, uart_tail, uart_buffer,
                    buffer, pressed, accepted, lines>>
    BY <1>1 DEF vars, sched, uart, keys
  <2> QED BY <1>0, <2>1, OtherTypes DEF SchedType, LineType, UartType, KeysType, PcType
<1>2. CASE Tick
  <2>1. UNCHANGED <<pc, uart_owner, uart_head, uart_tail, uart_buffer, buffer, pressed, accepted, lines>>
    BY <1>2 DEF Tick, Reschedule, uart, keys
  <2>2. SchedType'
    BY <1>0, <1>2, RescheduleType DEF Tick
  <2> QED BY <1>0, <2>1, <2>2, OtherTypes DEF LineType, UartType, KeysType, PcType
<1>3. ASSUME NEW c \in KEYS, handle_uart_irq(c) PROVE TInv'
  BY <1>3, IrqTypes
<1>4. CASE ReceiveTimeout
  <2>1. /\ UNCHANGED <<state, ready_queue, current_process, pc, uart_owner, uart_head, uart_tail, uart_buffer,
                       buffer, accepted, lines>>
        /\ pressed' \in 0 .. MAX_KEYS
    BY <1>0, <1>4, UartInputAssumption DEF ReceiveTimeout, sched, uart, KeysType
  <2> QED BY <1>0, <2>1, OtherTypes DEF SchedType, LineType, UartType, PcType
<1>5. ASSUME NEW p \in Process, Step(p) PROVE TInv'
  <2>1. CASE syscall_yield(p) \/ AwaitConsole(p) \/ ExitSchedules(p) \/ schedule(p)
    <3>1. UNCHANGED <<uart_owner, uart_head, uart_tail, uart_buffer, buffer, pressed, accepted, lines>>
      BY <2>1 DEF syscall_yield, AwaitConsole, ExitSchedules, schedule, Reschedule, uart, keys
    <3>2. SchedType'
      BY <1>0, <2>1, RescheduleType DEF syscall_yield, AwaitConsole, ExitSchedules, schedule
    <3>3. PcType'
      BY <1>0, <2>1 DEF syscall_yield, AwaitConsole, ExitSchedules, schedule, GoTo, PcType, Labels
    <3> QED BY <1>0, <3>1, <3>2, <3>3, OtherTypes DEF LineType, UartType, KeysType
  <2>2. CASE exit_process(p) \/ InputBlocks(p)
    <3>1. UNCHANGED <<uart_owner, uart_head, uart_tail, uart_buffer, buffer, pressed, accepted, lines>>
      BY <2>2 DEF exit_process, InputBlocks, uart, keys
    <3>2. SchedType' /\ PcType'
      BY <1>0, <2>2 DEF exit_process, InputBlocks, GoTo, SchedType, PcType, States, Labels
    <3> QED BY <1>0, <3>1, <3>2, OtherTypes DEF LineType, UartType, KeysType
  <2>3. CASE syscall_input(p)
    <3>1. UNCHANGED <<state, ready_queue, current_process, uart_owner, uart_head, uart_tail, uart_buffer,
                      pressed, accepted, lines>>
      BY <2>3 DEF syscall_input, sched, uart, keys
    <3>2. LineType' /\ PcType'
      BY <1>0, <2>3, RingSize DEF syscall_input, GoTo, LineType, PcType, Labels
    <3> QED BY <1>0, <3>1, <3>2, OtherTypes DEF SchedType, UartType, KeysType
  <2>4. CASE ConsoleFree(p) \/ TakeConsole(p) \/ RingEmpty(p)
    <3>1. /\ UNCHANGED <<state, ready_queue, current_process, uart_head, uart_tail, uart_buffer,
                         buffer, pressed, accepted, lines>>
          /\ uart_owner' \in {uart_owner, p}
      BY <2>4 DEF ConsoleFree, TakeConsole, RingEmpty, sched, uart, keys
    <3>2. PcType'
      BY <1>0, <2>4 DEF ConsoleFree, TakeConsole, RingEmpty, GoTo, PcType, Labels
    <3> QED BY <1>0, <3>1, <3>2, OtherTypes DEF SchedType, LineType, UartType, KeysType
  <2> QED BY <1>5, <2>1, <2>2, <2>3, <2>4, ReadTypes DEF Step
<1> QED BY <1>1, <1>2, <1>3, <1>4, <1>5 DEF Next

(* The types hold under every algorithm: in particular no line outgrows the   *)
(* caller's buffer, the indices stay in the ring, and what is read from the   *)
(* ring was stored there by an interrupt.                                     *)
THEOREM TypeCorrect == Spec => []TypeOK
<1>1. TInv /\ [Next]_vars => TInv'
  BY TypeStep
<1>2. TInv => TypeOK
  BY DEF TInv
<1> QED BY <1>1, <1>2, InitTypes, PTL DEF Spec

----------------------------------------------------------------------------
(* Lines.  What a terminal makes of the keys, one key at a time. *)
Terminals == [done : Seq(Seq(KEYS)), line : {l \in Seq(KEYS) : Len(l) <= MAX_LEN}]
Blank == [done |-> <<>>, line |-> <<>>]
Types(f, ks) == f = [n \in 0 .. Len(ks) |-> IF n = 0 THEN Blank ELSE Typing(f[n - 1], ks[n])]

LEMMA TypingType ==
  ASSUME NEW t \in Terminals, NEW c \in KEYS
  PROVE  Typing(t, c) \in Terminals
<1>1. t.done \in Seq(Seq(KEYS)) /\ t.line \in Seq(KEYS) /\ Len(t.line) <= MAX_LEN
  BY DEF Terminals
<1>2. Edited(t.line, c) \in Seq(KEYS) /\ Len(Edited(t.line, c)) <= MAX_LEN
  BY <1>1, EditedType
<1>3. Append(t.done, t.line) \in Seq(Seq(KEYS)) /\ <<>> \in Seq(KEYS) /\ Len(<<>>) <= MAX_LEN
  BY <1>1, RingSize
<1> QED BY <1>1, <1>2, <1>3 DEF Typing, Terminals

LEMMA TypedExists ==
  ASSUME NEW ks \in Seq(KEYS)
  PROVE  \E f \in [0 .. Len(ks) -> Terminals] : Types(f, ks)
<1> DEFINE L == Len(ks)
           turn == [n \in 1 .. L |-> [t \in Terminals |-> Typing(t, ks[n])]]
<1>1. L \in Nat /\ Blank \in Terminals
  BY RingSize DEF Blank, Terminals
<1>2. turn \in [1 .. L -> [Terminals -> Terminals]]
  <2>1. ASSUME NEW n \in 1 .. L, NEW t \in Terminals PROVE Typing(t, ks[n]) \in Terminals
    BY TypingType
  <2> HIDE DEF L
  <2> QED BY <2>1, Zenon
<1>3. PICK f \in [0 .. L -> Terminals] : f[0] = Blank /\ \A n \in 1 .. L : f[n] = turn[n][f[n - 1]]
  <2> HIDE DEF turn, L
  <2> QED BY <1>1, <1>2, LoopExists
<1>4. ASSUME NEW n \in 0 .. L PROVE f[n] = IF n = 0 THEN Blank ELSE Typing(f[n - 1], ks[n])
  <2>1. CASE n = 0
    BY <1>3, <2>1
  <2>2. CASE n # 0
    <3>1. n \in 1 .. L /\ n - 1 \in 0 .. L
      BY <1>1, <2>2
    <3>2. f[n] = turn[n][f[n - 1]] /\ f[n - 1] \in Terminals
      <4> HIDE DEF turn
      <4> QED BY <1>3, <3>1
    <3> QED BY <2>2, <3>1, <3>2
  <2> QED BY <2>1, <2>2
<1>5. Types(f, ks)
  BY <1>4 DEF Types
<1> QED BY <1>5

LEMMA TypedIs ==
  ASSUME NEW ks \in Seq(KEYS)
  PROVE  \E f : Types(f, ks) /\ Typed(ks) = f[Len(ks)]
<1> DEFINE f == CHOOSE f : f = [n \in 0 .. Len(ks) |-> IF n = 0 THEN [done |-> <<>>, line |-> <<>>]
                                                       ELSE Typing(f[n - 1], ks[n])]
<1>1. f = [n \in 0 .. Len(ks) |-> IF n = 0 THEN [done |-> <<>>, line |-> <<>>]
                                  ELSE Typing(f[n - 1], ks[n])]
  BY TypedExists DEF Types, Blank
<1>2. Typed(ks) = f[Len(ks)]
  BY DEF Typed
<1> HIDE DEF f
<1> QED BY <1>1, <1>2 DEF Types, Blank

LEMMA TypedEmpty == Typed(<<>>) = Blank
<1>1. <<>> \in Seq(KEYS) /\ Len(<<>>) = 0
  OBVIOUS
<1>2. PICK f : Types(f, <<>>) /\ Typed(<<>>) = f[0]
  BY <1>1, TypedIs
<1> QED BY <1>1, <1>2 DEF Types

LEMMA TypedAppend ==
  ASSUME NEW ks \in Seq(KEYS), NEW c \in KEYS
  PROVE  Typed(Append(ks, c)) = Typing(Typed(ks), c)
<1>1. PICK L \in Nat : L = Len(ks)
  OBVIOUS
<1>2. PICK more \in Seq(KEYS) : more = Append(ks, c)
  <2>1. Append(ks, c) \in Seq(KEYS)
    OBVIOUS
  <2> QED BY <2>1
<1>3. Len(more) = L + 1 /\ more[L + 1] = c /\ \A n \in 1 .. L : more[n] = ks[n]
  BY <1>1, <1>2
<1>4. PICK f : Types(f, ks) /\ Typed(ks) = f[L]
  BY <1>1, TypedIs
<1>5. PICK g : Types(g, more) /\ Typed(more) = g[L + 1]
  BY <1>3, TypedIs
<1>6. /\ f[0] = Blank /\ \A n \in 1 .. L : f[n] = Typing(f[n - 1], ks[n])
  <2>1. f = [n \in 0 .. L |-> IF n = 0 THEN Blank ELSE Typing(f[n - 1], ks[n])]
    BY <1>1, <1>4 DEF Types
  <2>2. \A n \in 0 .. L : f[n] = IF n = 0 THEN Blank ELSE Typing(f[n - 1], ks[n])
    BY <2>1, Zenon
  <2> QED BY <2>2
<1>7. /\ g[0] = Blank /\ \A n \in 1 .. L + 1 : g[n] = Typing(g[n - 1], more[n])
  BY <1>3, <1>5 DEF Types
<1> DEFINE T == {n \in 0 .. L : f[n] = g[n]}
<1>8. 0 \in T
  BY <1>6, <1>7
<1>9. ASSUME NEW n \in 1 .. L, n - 1 \in T PROVE n \in T
  BY <1>3, <1>6, <1>7, <1>9
<1>10. L \in T
  <2> HIDE DEF T
  <2>1. 0 .. L \subseteq T
    BY <1>8, <1>9, UpTo
  <2> QED BY <2>1
<1>11. g[L + 1] = Typing(f[L], c)
  BY <1>3, <1>7, <1>10
<1> QED BY <1>2, <1>4, <1>5, <1>11

(* What has been returned and what is being assembled is what was typed, up   *)
(* to the key read last.  Between two lines nobody reads and nothing is left  *)
(* over; a process that is about to take the console starts a line.           *)
Assembled ==
  /\ lines = Typed(Consumed).done
  /\ \A p \in Process : Reading(p) => buffer[p] = Typed(Consumed).line
  /\ (\A p \in Process : ~Reading(p)) => Typed(Consumed).line = <<>>
  /\ \A p \in Process : pc[p] \in {"own", "take"} => buffer[p] = <<>>

LEMMA InitAssembled == Init => Assembled
<1> SUFFICES ASSUME Init PROVE Assembled
  OBVIOUS
<1>1. TypeOK /\ accepted = <<>>
  BY InitTypes DEF TInv, Init
<1>2. Len(Unread) = 0
  BY <1>1, UnreadType DEF RingLen, Init
<1>3. Consumed = <<>>
  BY <1>1, <1>2 DEF Consumed
<1> QED BY <1>3, TypedEmpty DEF Init, Assembled, Blank, Reading

(* Steps that read no key and begin no line. *)
LEMMA StillAssembled ==
  ASSUME Assembled, Consumed' = Consumed, UNCHANGED lines,
         \A p \in Process : Reading(p)' <=> Reading(p),
         \A p \in Process : Reading(p) => buffer'[p] = buffer[p],
         \A p \in Process : pc'[p] \in {"own", "take"} => buffer'[p] = <<>>
  PROVE  Assembled'
BY DEF Assembled

LEMMA ReadAssembled ==
  ASSUME TInv, Owned, Assembled, NEW p \in Process, ReadKey(p)
  PROVE  Assembled'
<1> DEFINE c == uart_buffer[uart_tail]
<1>1. /\ pc[p] = "read" /\ uart_head # uart_tail /\ uart_tail' = Succ(uart_tail)
      /\ UNCHANGED <<uart_head, uart_buffer, accepted>>
      /\ \/ /\ c = ENTER /\ lines' = Append(lines, buffer[p])
            /\ buffer' = [buffer EXCEPT ![p] = <<>>] /\ pc' = [pc EXCEPT ![p] = "run"]
         \/ /\ c # ENTER /\ buffer' = [buffer EXCEPT ![p] = Edited(@, c)]
            /\ UNCHANGED <<lines, pc>>
  BY DEF ReadKey, keys, GoTo, At
<1>2. c \in KEYS /\ Consumed \in Seq(KEYS) /\ Consumed' = Append(Consumed, c)
  BY <1>1, TakeKey
<1> HIDE DEF c
<1>3. Typed(Consumed') = Typing(Typed(Consumed), c)
  BY <1>2, TypedAppend
<1>4. /\ lines = Typed(Consumed).done /\ buffer[p] = Typed(Consumed).line
      /\ \A q \in Process : Reading(q) => q = p
      /\ \A q \in Process : pc[q] \in {"own", "take"} => buffer[q] = <<>>
  BY <1>1 DEF Assembled, Reading, Owned
<1>5. buffer \in [Process -> Seq(KEYS)] /\ pc \in [Process -> Labels]
  BY TypeIs DEF TInv, LineType, PcType
<1>6. CASE c = ENTER
  <2>1. Typed(Consumed)' = [done |-> Append(Typed(Consumed).done, Typed(Consumed).line), line |-> <<>>]
    BY <1>3, <1>6 DEF Typing
  <2>2. lines' = Append(lines, buffer[p]) /\ buffer' = [buffer EXCEPT ![p] = <<>>]
        /\ pc' = [pc EXCEPT ![p] = "run"]
    BY <1>1, <1>6
  <2>3. \A q \in Process : ~Reading(q)'
    BY <1>4, <1>5, <2>2 DEF Reading
  <2>4. \A q \in Process : pc'[q] \in {"own", "take"} => buffer'[q] = <<>>
    BY <1>4, <1>5, <2>2
  <2> QED BY <1>4, <2>1, <2>2, <2>3, <2>4 DEF Assembled
<1>7. CASE c # ENTER
  <2>1. Typed(Consumed)' = [done |-> Typed(Consumed).done, line |-> Edited(Typed(Consumed).line, c)]
    BY <1>3, <1>7 DEF Typing
  <2>2. buffer' = [buffer EXCEPT ![p] = Edited(buffer[p], c)] /\ UNCHANGED <<lines, pc>>
    BY <1>1, <1>7
  <2>3. \A q \in Process : Reading(q)' => q = p
    BY <1>4, <2>2 DEF Reading
  <2>4. Reading(p)'
    BY <1>1, <2>2 DEF Reading
  <2>5. \A q \in Process : pc'[q] \in {"own", "take"} => buffer'[q] = <<>>
    BY <1>1, <1>4, <1>5, <2>2
  <2>6. buffer'[p] = Edited(Typed(Consumed).line, c)
    BY <1>4, <1>5, <2>2
  <2> QED BY <1>4, <2>1, <2>2, <2>3, <2>4, <2>5, <2>6 DEF Assembled
<1> QED BY <1>6, <1>7

LEMMA AssembledStep ==
  ASSUME TInv, Owned, Assembled, [Next]_vars
  PROVE  Assembled'
<1>0. buffer \in [Process -> Seq(KEYS)] /\ pc \in [Process -> Labels]
  BY TypeIs DEF TInv, LineType, PcType
<1>1. CASE \E c \in KEYS : handle_uart_irq(c)
  <2>1. PICK c \in KEYS : handle_uart_irq(c)
    BY <1>1
  <2>2. Consumed' = Consumed
    <3>1. CASE RingFull
      BY <2>1, <3>1, StillRing DEF handle_uart_irq, TInv
    <3>2. CASE ~RingFull
      BY <2>1, <3>2, PressKey DEF handle_uart_irq
    <3> QED BY <3>1, <3>2
  <2>3. UNCHANGED <<pc, buffer, lines>>
    BY <2>1 DEF handle_uart_irq
  <2> QED BY <2>2, <2>3, StillAssembled DEF Assembled, Reading
<1>2. CASE UNCHANGED vars \/ Tick \/ ReceiveTimeout
  <2>1. UNCHANGED <<pc, buffer, lines, uart_head, uart_tail, uart_buffer, accepted>>
    BY <1>2 DEF vars, Tick, Reschedule, ReceiveTimeout, uart, keys
  <2>2. Consumed' = Consumed
    BY <2>1, StillRing DEF TInv
  <2> QED BY <2>1, <2>2, StillAssembled DEF Assembled, Reading
<1>3. ASSUME NEW p \in Process, Step(p), ~ReadKey(p) PROVE Assembled'
  <2>1. UNCHANGED <<lines, uart_head, uart_tail, uart_buffer, accepted>>
    BY <1>3 DEF Step, syscall_yield, exit_process, ExitSchedules, syscall_input, AwaitConsole, ConsoleFree,
                TakeConsole, RingEmpty, InputBlocks, schedule, Reschedule, uart, keys
  <2>2. Consumed' = Consumed
    BY <2>1, StillRing DEF TInv
  <2>3. CASE syscall_input(p)
    <3>1. /\ pc[p] = "run" /\ pc' = [pc EXCEPT ![p] = "own"] /\ buffer' = [buffer EXCEPT ![p] = <<>>]
      BY <2>3 DEF syscall_input, At, GoTo
    <3> QED BY <1>0, <2>1, <2>2, <3>1, StillAssembled DEF Assembled, Reading
  <2>4. CASE TakeConsole(p)
    <3>1. pc[p] = "take" /\ pc' = [pc EXCEPT ![p] = "read"] /\ UNCHANGED buffer
      BY <2>4 DEF TakeConsole, At, GoTo
    <3>2. \A q \in Process : ~Reading(q)
      BY <3>1 DEF Owned, Reading, Process, NULL
    <3>3. Typed(Consumed).line = <<>> /\ buffer[p] = <<>>
      BY <3>1, <3>2 DEF Assembled
    <3> QED BY <1>0, <2>1, <2>2, <3>1, <3>2, <3>3 DEF Assembled, Reading
  <2>5. CASE ~syscall_input(p) /\ ~TakeConsole(p)
    <3>1. UNCHANGED buffer
      BY <1>3, <2>5 DEF Step, syscall_yield, exit_process, ExitSchedules, AwaitConsole, ConsoleFree,
                        RingEmpty, InputBlocks, schedule, Reschedule
    <3>2. \/ pc' = pc
          \/ pc[p] = "own" /\ pc' = [pc EXCEPT ![p] = "take"]
          \/ pc[p] = "run" /\ pc' = [pc EXCEPT ![p] = "exited"]
          \/ pc[p] = "read" /\ pc' = [pc EXCEPT ![p] = "block"]
          \/ pc[p] = "block" /\ pc' = [pc EXCEPT ![p] = "sched"]
          \/ pc[p] = "sched" /\ pc' = [pc EXCEPT ![p] = "read"]
      BY <1>3, <2>5 DEF Step, syscall_yield, exit_process, ExitSchedules, AwaitConsole, ConsoleFree,
                        RingEmpty, InputBlocks, schedule, At, GoTo
    <3> QED BY <1>0, <2>1, <2>2, <3>1, <3>2, StillAssembled DEF Assembled, Reading
  <2> QED BY <2>3, <2>4, <2>5
<1> QED BY <1>1, <1>2, <1>3, ReadAssembled DEF Next

(* Without preemption the lines that the readers get are the lines that were  *)
(* typed: whatever interrupts fall between the steps of syscall_input, no     *)
(* accepted key is lost, repeated or moved to another line.                   *)
THEOREM LinesKept ==
  ASSUME ~PREEMPTIVE
  PROVE  Spec => []LinesAsTyped
<1>1. TInv /\ Owned /\ Assembled /\ [Next]_vars => TInv' /\ Owned' /\ Assembled'
  BY TypeStep, OwnedStep, AssembledStep, UartInputAssumption
<1>2. ASSUME TInv, Assembled PROVE LinesAsTyped
  <2>1. /\ accepted \in Seq(KEYS) /\ Unread \in Seq(KEYS \cup {NOKEY})
        /\ Len(Unread) \in Nat /\ Len(accepted) \in Nat /\ Len(Unread) <= Len(accepted)
        /\ \A k \in 1 .. Len(Unread) : Unread[k] = accepted[Len(accepted) - Len(Unread) + k]
    BY <1>2, UnreadType, TypeIs DEF TInv, Ring, KeysType
  <2>2. PICK n \in Nat : n = Len(accepted) - Len(Unread)
    BY <2>1
  <2>3. n <= Len(accepted) /\ Len(Unread) = Len(accepted) - n
    BY <2>1, <2>2
  <2>4. Len(SubSeq(accepted, 1, n)) = n
    BY <2>1, <2>3
  <2>5. Len(Consumed) = n
    BY <2>2, <2>4 DEF Consumed
  <2>6. SubSeq(accepted, n + 1, Len(accepted)) = Unread
    <3>1. PICK late : late = SubSeq(accepted, n + 1, Len(accepted))
      OBVIOUS
    <3>2. late \in Seq(KEYS) /\ Len(late) = Len(Unread)
      BY <2>1, <2>3, <3>1
    <3>3. ASSUME NEW k \in 1 .. Len(Unread) PROVE late[k] = Unread[k]
      <4>1. late[k] = accepted[n + k]
        BY <2>1, <2>3, <3>1
      <4>2. Unread[k] = accepted[n + k]
        BY <2>1, <2>2
      <4> QED BY <4>1, <4>2
    <3>4. late = [k \in 1 .. Len(late) |-> late[k]] /\ Unread = [k \in 1 .. Len(Unread) |-> Unread[k]]
      BY <2>1, <3>2
    <3> QED BY <3>1, <3>2, <3>3, <3>4
  <2> QED BY <1>2, <2>5, <2>6 DEF LinesAsTyped, Assembled, Reading
<1>3. Init => Owned
  BY DEF Init, Owned, Reading
<1> QED BY <1>1, <1>2, <1>3, InitTypes, InitAssembled, PTL DEF Spec

=============================================================================
