----------------------------- MODULE Scheduler -----------------------------
(***************************************************************************)
(* The process scheduler of demoOS (libs/scheduler.c), with the system     *)
(* calls that drive it: fork, yield, wait, exit, send_signal and           *)
(* set_sched_param.  One core; the interleaving is that of the timer       *)
(* interrupt with kernel code that runs with interrupts enabled.           *)
(*                                                                         *)
(* A step is a stretch of kernel code that the timer tick either cannot    *)
(* split (preempt_disabled > 0) or cannot tell from an unsplit one.  pc    *)
(* names where a process that is inside a system call will continue; a     *)
(* tick that preempts it leaves pc alone.  The pick loop of the scheduling *)
(* algorithms takes one step per process it examines, and the tick may     *)
(* fall between two of them.                                               *)
(*                                                                         *)
(* The ready queues, intrusive lists in the code, are sequences here.      *)
(***************************************************************************)
EXTENDS Integers, Sequences, FiniteSets, SequencesExt

CONSTANTS
  N_PROCESSES,       \* size of processes[] (64 in the code)
  ALGORITHMS,        \* the descriptors active_algorithm may point to
  QUANTUM,           \* slice of round robin and lottery, and of a new child (10)
  N_LEVELS,          \* policy->n_levels of the multilevel algorithms (5)
  ML_QUANTUM,        \* policy->quantum, per level
  BOOST_PERIOD,      \* policy->boost_period of MLFQ (300)
  INIT_TICKETS,      \* lottery tickets of INIT_PROCESS (10)
  SIGNALS,           \* the signals user programs send,
  SIGNAL_TARGETS,    \*   and the processes they send them to
  WAIT_TARGETS,      \* the processes they wait for
  PRIORITIES,        \* values passed to set_sched_param(SCHED_PARAM_PRIORITY)
  TICKETS,           \* values passed to set_sched_param(SCHED_PARAM_TICKETS)
  QUEUE_PRIORITIES,  \* values passed to set_sched_param(SCHED_PARAM_QUEUE_PRIORITY)
  OUT_OF_MEMORY,     \* TRUE if allocate_kernel_page may fail in copy_process
  MAX_LEAKS,         \* bound: failed forks per process that are explored
  MAX_OVERRUN,       \* bound: ticks counted past the end of a slice
  MAX_BURST          \* bound: longer CPU bursts are not told apart

ML_MAX_LEVELS == 5
Algorithms == {"round_robin", "fcfs", "sjf", "lottery", "priority_aging", "mlq", "mlfq"}
Levels == 0 .. ML_MAX_LEVELS - 1
PID  == 0 .. N_PROCESSES - 1
init == 0
User == PID \ {init}
NONE == -1

ASSUME SchedulerAssumption ==
  /\ N_PROCESSES \in Nat /\ N_PROCESSES >= 2
  /\ ALGORITHMS \subseteq Algorithms
  /\ QUANTUM \in Nat \ {0}
  /\ N_LEVELS \in 1 .. ML_MAX_LEVELS
  /\ ML_QUANTUM \in [Levels -> Nat \ {0}]
  /\ BOOST_PERIOD \in Nat \ {0}
  /\ INIT_TICKETS \in Nat \ {0}
  /\ SIGNALS \subseteq {"KILL", "STOP", "RESUME"}
  /\ SIGNAL_TARGETS \subseteq PID /\ WAIT_TARGETS \subseteq PID
  /\ PRIORITIES \subseteq Nat \ {0}
  /\ TICKETS \subseteq Nat \ {0}
  /\ QUEUE_PRIORITIES \subseteq Levels
  /\ OUT_OF_MEMORY \in BOOLEAN
  /\ MAX_LEAKS \in Nat
  /\ MAX_OVERRUN \in Nat \ {0}
  /\ MAX_BURST \in Nat

States == {"ZERO", "RUNNING", "ZOMBIE", "WAITING_UART_INPUT",
           "WAITING_TO_RECEIVE_MESSAGE", "WAITING_TO_SEND_MESSAGE",
           "WAITING_ANOTHER_PROCESS", "STOPPED", "READY"}

(* Where a process continues when it next gets the CPU outside the pick     *)
(* loop: in its own code, inside syscall_wait, inside exit_process, at the  *)
(* call of schedule() or of _schedule() inside it; "exited" is never left.  *)
Labels == {"run", "wait_state", "wait_pid", "exit_scan", "sched", "pick", "exited"}

VARIABLES
  active_algorithm,       \* set when the kernel is built, never changed
  state, counter, priority, tickets, est_burst, burst_ticks, queue_priority,
  preempt_disabled, pending_signals, pid_to_wait,   \* the fields of each PCB
  queue_level,            \* queue_level[pid]
  ready,                  \* ready_queue (level 0) or ml_queues[level]
  current_process, n_processes, ml_ticks_since_boost,
  pc,                     \* continuation of each process
  wait_arg,               \* the pid syscall_wait was called with
  picking,                \* TRUE inside a pick_next callback
  scan,                   \* the level its cascade has reached
  ticked                  \* TRUE if no further tick can fall inside it

params   == <<priority, tickets, queue_priority>>
bursts   == <<est_burst, burst_ticks>>
multi    == <<queue_level, ml_ticks_since_boost>>
waits    == <<pid_to_wait, wait_arg>>
vars == <<state, counter, params, bursts, preempt_disabled, pending_signals, waits,
          multi, ready, current_process, n_processes, active_algorithm, pc, picking, scan, ticked>>

IsPreemptive == active_algorithm \notin {"fcfs", "sjf"}
IsMultilevel == active_algorithm \in {"mlq", "mlfq"}
NLevels == IF IsMultilevel THEN N_LEVELS ELSE 1

----------------------------------------------------------------------------
(* Insertion policies. *)

(* Mutants stand before the definition they replace; each one is a mistake   *)
(* that is easy to make in the code of that definition.                      *)
SortedPositionAtTail(q, length) == Len(q) + 1

(* enqueue_sorted_to goes in front of the first process whose estimate is    *)
(* longer than the length of the new one.                                    *)
SortedPosition(q, length) ==
  CHOOSE k \in 1 .. Len(q) + 1 :
    /\ \A j \in 1 .. k - 1 : est_burst[q[j]] <= length
    /\ k <= Len(q) => length < est_burst[q[k]]

InsertAtHead(q, p, length) == <<p>> \o q

Insert(q, p, length) ==
  IF active_algorithm = "sjf" THEN InsertAt(q, SortedPosition(q, length), p)
                              ELSE Append(q, p)

LevelOf(levels, p) == IF IsMultilevel THEN levels[p] ELSE 0

(* active_algorithm->enqueue(p); the caller also makes p READY. *)
Enqueue(queues, levels, p) ==
  [queues EXCEPT ![LevelOf(levels, p)] = Insert(@, p, est_burst[p])]

Exists(p) == p < n_processes
Queued(p) == \E l \in Levels : p \in Range(ready[l])

----------------------------------------------------------------------------
(* INIT_PROCESS, and the state kernel_main leaves when it starts the timer: *)
(* process 1 has been created by copy_process and the kernel idles in init. *)
Init ==
  /\ active_algorithm \in ALGORITHMS
  /\ n_processes = 2 /\ current_process = init
  /\ state = [p \in PID |-> IF p = 1 THEN "READY" ELSE "ZERO"]
  /\ counter = [p \in PID |-> IF p = init THEN 1 ELSE IF p = 1 THEN QUANTUM ELSE 0]
  /\ priority = [p \in PID |-> IF p < 2 THEN 1 ELSE 0]
  /\ tickets = [p \in PID |-> IF p < 2 THEN INIT_TICKETS ELSE 0]
  /\ est_burst = [p \in PID |-> 0] /\ burst_ticks = [p \in PID |-> 0]
  /\ queue_priority = [p \in PID |-> 0] /\ queue_level = [p \in PID |-> 0]
  /\ preempt_disabled = [p \in PID |-> IF p = 1 THEN 1 ELSE 0]
  /\ pending_signals = [p \in PID |-> {}]
  /\ pid_to_wait = [p \in PID |-> IF p = init THEN NONE ELSE 0]
  /\ wait_arg = [p \in PID |-> 0]
  /\ ready = [l \in Levels |-> IF l = 0 THEN <<1>> ELSE <<>>]
  /\ ml_ticks_since_boost = 0
  /\ pc = [p \in PID |-> "run"]
  /\ picking = FALSE /\ scan = 0 /\ ticked = FALSE

----------------------------------------------------------------------------
preempt_enableForgotten(p) == UNCHANGED preempt_disabled
preempt_disable(p) == preempt_disabled' = [preempt_disabled EXCEPT ![p] = @ + 1]
preempt_enable(p)  == preempt_disabled' = [preempt_disabled EXCEPT ![p] = @ - 1]

StillRunnableInitToo == state[current_process] = "RUNNING"
StillRunnableBlockedToo == current_process # init
StillRunnable == current_process # init /\ state[current_process] = "RUNNING"

(* Entering a pick_next callback: preempt_disable, then the outgoing process *)
(* goes back to a ready queue if it is a user process that is still RUNNING. *)
(* The timer is re-armed a whole period after each tick (timer.c), far more   *)
(* than one run of the loop takes: at most one tick falls inside the loop,    *)
(* and none if a tick started it.                                             *)
EnterPick(queues, levels) ==
  /\ preempt_disable(current_process)
  /\ picking' = TRUE
  /\ IF StillRunnable
     THEN /\ state' = [state EXCEPT ![current_process] = "READY"]
          /\ ready' = Enqueue(queues, levels, current_process)
     ELSE /\ state' = state
          /\ ready' = queues

(* handle_process_signals: the one signal a call handles, and its effect. *)
SignalHandled(p) ==
  CASE "KILL"   \in pending_signals[p] -> "KILL"
    [] "KILL"   \notin pending_signals[p] /\ "STOP" \in pending_signals[p] -> "STOP"
    [] OTHER -> "RESUME"
Resumed(p) == SignalHandled(p) = "RESUME" /\ "RESUME" \in pending_signals[p]
                                          /\ state[p] = "STOPPED"
StateAfterSignalsKillForgotten(p) ==
  IF SignalHandled(p) = "STOP" THEN "STOPPED" ELSE IF Resumed(p) THEN "READY" ELSE state[p]
StateAfterSignals(p) ==
  CASE SignalHandled(p) = "KILL" -> "ZOMBIE"
    [] SignalHandled(p) = "STOP" -> "STOPPED"
    [] OTHER -> IF Resumed(p) THEN "READY" ELSE state[p]
handle_process_signals(p, queues) ==
  /\ pending_signals' = [pending_signals EXCEPT ![p] = @ \ {SignalHandled(p)}]
  /\ ready' = IF Resumed(p) THEN Enqueue(queues, queue_level, p) ELSE queues

(* Also when next is the current process, which may just have been made READY. *)
SwitchedEarlyReturn(next) ==
  IF next = current_process THEN state
  ELSE [state EXCEPT ![current_process] = IF @ = "RUNNING" THEN "READY" ELSE @,
                     ![next] = "RUNNING"]
Switched(next) ==
  [state EXCEPT ![current_process] = IF @ = "RUNNING" THEN "READY" ELSE @,
                ![next] = "RUNNING"]

(* switch_to_process(next), then the preempt_enable that the incoming        *)
(* process runs first: at the end of the pick function it was switched out   *)
(* in, or in schedule_tail if this is its first dispatch.                    *)
switch_to_process(next) ==
  /\ state' = Switched(next)
  /\ current_process' = next
  /\ preempt_enable(next)
  /\ picking' = FALSE /\ scan' = 0 /\ ticked' = FALSE

DispatchInit ==
  /\ switch_to_process(init)
  /\ UNCHANGED <<counter, params, bursts, pending_signals, waits, multi, ready,
                 n_processes, active_algorithm, pc>>

(* The slice given to a process picked from level l. *)
Recharged(p, l) ==
  CASE active_algorithm \in {"round_robin", "lottery"} -> QUANTUM
    [] IsMultilevel -> ML_QUANTUM[l]
    [] OTHER -> counter[p]

(* remove_process_from, or dequeue_process_from for the head. *)
UnlinkHead(q, i) == Tail(q)
UnlinkNobody(q, i) == q
Unlink(q, i) == RemoveAt(q, i)

(* The process at position i of level l is unlinked and its signals are     *)
(* handled; it is dispatched if it is still READY, else the loop goes on.    *)
Take(l, i) ==
  LET p == ready[l][i] IN
  /\ handle_process_signals(p, [ready EXCEPT ![l] = Unlink(@, i)])
  /\ \/ /\ StateAfterSignals(p) = "READY"
        /\ counter' = [counter EXCEPT ![p] = Recharged(p, l)]
        /\ switch_to_process(p)
     \/ /\ StateAfterSignals(p) # "READY"
        /\ state' = [state EXCEPT ![p] = StateAfterSignals(p)]
        /\ UNCHANGED <<counter, current_process, preempt_disabled, picking, scan, ticked>>
  /\ UNCHANGED <<params, bursts, waits, multi, n_processes, active_algorithm, pc>>

LevelEmptyIgnored == TRUE
LevelEmpty == ready[scan] = <<>>
LastLevel == scan + 1 >= NLevels

(* _schedule_round_robin, _schedule_queue_head and _schedule_multilevel: the *)
(* loop takes the head of a queue, cascading from level 0 downwards.         *)
PickHeadFromBelow ==
  /\ picking /\ active_algorithm \notin {"lottery", "priority_aging"}
  /\ \E l \in Levels : ready[l] # <<>> /\ (\A m \in Levels : m > l => ready[m] = <<>>)
                       /\ Take(l, 1)
PickHead ==
  /\ picking /\ active_algorithm \notin {"lottery", "priority_aging"}
  /\ ready[scan] # <<>>
  /\ Take(scan, 1)

NextLevel ==
  /\ picking /\ active_algorithm \notin {"lottery", "priority_aging"}
  /\ LevelEmpty /\ ~LastLevel
  /\ scan' = scan + 1
  /\ UNCHANGED <<state, counter, params, bursts, preempt_disabled, pending_signals, waits,
                 multi, ready, current_process, n_processes, active_algorithm, pc, picking, ticked>>

NobodyReady ==
  /\ picking /\ LevelEmpty /\ LastLevel
  /\ DispatchInit

(* _schedule_lottery: the number drawn is modelled as any ticket in the     *)
(* ready queue; its holder is the first process whose tickets, added to     *)
(* those before it, exceed the number.                                      *)
TicketsOf(p) == IF tickets[p] > 0 THEN tickets[p] ELSE 1
TicketsUpTo(n) ==
  LET sum[k \in 0 .. n] == IF k = 0 THEN 0 ELSE sum[k - 1] + TicketsOf(ready[0][k])
  IN  sum[n]
HoldsOffByOne(i, winner) == /\ winner <= TicketsUpTo(i)
                            /\ \A j \in 1 .. i - 1 : TicketsUpTo(j) < winner
Holds(i, winner) == /\ winner < TicketsUpTo(i)
                    /\ \A j \in 1 .. i - 1 : TicketsUpTo(j) <= winner
PickWinner ==
  /\ picking /\ active_algorithm = "lottery"
  /\ \E winner \in 0 .. TicketsUpTo(Len(ready[0])) - 1 :
       \E i \in DOMAIN ready[0] : Holds(i, winner) /\ Take(0, i)

(* _schedule_priority_aging: every queued process has its signals handled,   *)
(* those no longer READY are unlinked, then the first of those with the      *)
(* largest positive counter is dispatched; if all counters are used up, a    *)
(* new epoch recharges every process.                                        *)
Signalled == {i \in DOMAIN ready[0] : pending_signals[ready[0][i]] # {}}

AgingSignal ==
  /\ picking /\ active_algorithm = "priority_aging"
  /\ \E i \in Signalled :
       LET p == ready[0][i] IN
       /\ \A j \in Signalled : i <= j
       /\ handle_process_signals(p,
            IF StateAfterSignals(p) = "READY" THEN ready
                                              ELSE [ready EXCEPT ![0] = Unlink(@, i)])
       /\ state' = [state EXCEPT ![p] = StateAfterSignals(p)]
  /\ UNCHANGED <<counter, params, bursts, preempt_disabled, waits, multi,
                 current_process, n_processes, active_algorithm, pc, picking, scan, ticked>>

Best(i) == /\ counter[ready[0][i]] > 0
           /\ \A j \in DOMAIN ready[0] :
                \/ counter[ready[0][j]] < counter[ready[0][i]]
                \/ counter[ready[0][j]] = counter[ready[0][i]] /\ i <= j

PickBest ==
  /\ picking /\ active_algorithm = "priority_aging"
  /\ Signalled = {}
  /\ \E i \in DOMAIN ready[0] : Best(i) /\ Take(0, i)

RechargeNoHalving(p) == counter[p] + priority[p]
Recharge(p) == counter[p] \div 2 + priority[p]

NewEpoch ==
  /\ picking /\ active_algorithm = "priority_aging"
  /\ Signalled = {} /\ ready[0] # <<>>
  /\ \A i \in DOMAIN ready[0] : counter[ready[0][i]] <= 0
  /\ counter' = [p \in PID |-> IF Exists(p) THEN Recharge(p) ELSE counter[p]]
  /\ UNCHANGED <<state, params, bursts, preempt_disabled, pending_signals, waits, multi,
                 ready, current_process, n_processes, active_algorithm, pc, picking, scan, ticked>>

Pick == PickHead \/ NextLevel \/ NobodyReady \/ PickWinner
        \/ AgingSignal \/ PickBest \/ NewEpoch

----------------------------------------------------------------------------
(* _multilevel_on_tick. *)
BoostDue == ml_ticks_since_boost + 1 >= BOOST_PERIOD
Boosts == active_algorithm = "mlfq" /\ BoostDue

InUse(l) == IF l < NLevels THEN ready[l] ELSE <<>>
BoostedQueues ==
  IF Boosts
  THEN [l \in Levels |-> IF l = 0 THEN ready[0] \o InUse(1) \o InUse(2) \o InUse(3) \o InUse(4)
                         ELSE IF l < NLevels THEN <<>> ELSE ready[l]]
  ELSE ready
BoostedLevelsForgotten == queue_level
BoostedLevels == IF Boosts THEN [p \in PID |-> 0] ELSE queue_level

(* The slice has already been decremented when on_tick looks at it. *)
Demotes ==
  /\ active_algorithm = "mlfq"
  /\ current_process # init
  /\ counter[current_process] - 1 <= 0
  /\ preempt_disabled[current_process] = 0
  /\ BoostedLevels[current_process] < N_LEVELS - 1
LevelsAfterTick ==
  IF Demotes THEN [BoostedLevels EXCEPT ![current_process] = @ + 1] ELSE BoostedLevels

OnTick ==
  /\ queue_level' = LevelsAfterTick
  /\ ml_ticks_since_boost' = IF active_algorithm = "mlfq" /\ ~BoostDue
                             THEN ml_ticks_since_boost + 1 ELSE 0

(* handle_timer_tick: the current process keeps the CPU, or _schedule runs. *)
KeepsCpu ==
  \/ counter[current_process] - 1 > 0
  \/ preempt_disabled[current_process] > 0

(* Non-preemptive algorithms take the CPU from nobody but init. *)
ReschedulesPreemptiveOnly == IsPreemptive
Reschedules == IsPreemptive \/ current_process = init

Tick ==
  /\ ~ticked
  /\ KeepsCpu => counter[current_process] > -MAX_OVERRUN
  /\ burst_ticks' = [burst_ticks EXCEPT ![current_process] =
                       IF @ < MAX_BURST THEN @ + 1 ELSE MAX_BURST]
  /\ OnTick
  /\ counter' = [counter EXCEPT ![current_process] = IF KeepsCpu THEN @ - 1 ELSE 0]
  /\ \/ /\ KeepsCpu \/ ~Reschedules
        /\ ready' = BoostedQueues
        /\ UNCHANGED <<state, preempt_disabled, picking>>
     \/ /\ ~KeepsCpu /\ Reschedules
        /\ EnterPick(BoostedQueues, LevelsAfterTick)
  /\ ticked' = picking'
  /\ UNCHANGED <<params, est_burst, pending_signals, waits, current_process,
                 n_processes, active_algorithm, pc, scan>>

----------------------------------------------------------------------------
(* The current process executes kernel or user code at label l. *)
At(l) == ~picking /\ current_process # init /\ pc[current_process] = l
GoTo(l) == pc' = [pc EXCEPT ![current_process] = l]

(* schedule(): a blocked or terminated process closes its CPU burst. *)
schedule ==
  /\ At("sched")
  /\ LET c == current_process IN
     /\ IF state[c] \notin {"RUNNING", "READY"}
        THEN /\ est_burst' = [est_burst EXCEPT ![c] = (burst_ticks[c] + @) \div 2]
             /\ burst_ticks' = [burst_ticks EXCEPT ![c] = 0]
        ELSE UNCHANGED bursts
     /\ counter' = [counter EXCEPT ![c] = 0]
  /\ GoTo("pick")
  /\ UNCHANGED <<state, params, preempt_disabled, pending_signals, waits, multi, ready,
                 current_process, n_processes, active_algorithm, picking, scan, ticked>>

(* _schedule(), called by schedule(): the process will continue after it. *)
_schedule ==
  /\ At("pick")
  /\ EnterPick(ready, queue_level)
  /\ GoTo(IF state[current_process] = "ZOMBIE" THEN "exited" ELSE "run")
  /\ UNCHANGED <<counter, params, bursts, pending_signals, waits, multi,
                 current_process, n_processes, active_algorithm, scan, ticked>>

syscall_yield ==
  /\ At("run")
  /\ counter' = [counter EXCEPT ![current_process] = 0]
  /\ GoTo("sched")
  /\ UNCHANGED <<state, params, bursts, preempt_disabled, pending_signals, waits, multi,
                 ready, current_process, n_processes, active_algorithm, picking, scan, ticked>>

(* add_process_to_scheduler: the level a child of process c starts at. *)
StartLevel(c) ==
  IF IsMultilevel /\ queue_priority[c] >= N_LEVELS THEN N_LEVELS - 1 ELSE queue_priority[c]

(* copy_process, and add_process_to_scheduler in it, run with preemption     *)
(* disabled; the child inherits the scheduling parameters.                   *)
syscall_fork ==
  /\ At("run")
  /\ n_processes < N_PROCESSES
  /\ LET c == current_process
         child == n_processes
         levels == [queue_level EXCEPT ![child] = StartLevel(c)] IN
     /\ priority' = [priority EXCEPT ![child] = priority[c]]
     /\ tickets' = [tickets EXCEPT ![child] = tickets[c]]
     /\ queue_priority' = [queue_priority EXCEPT ![child] = queue_priority[c]]
     /\ counter' = [counter EXCEPT ![child] = QUANTUM]
     /\ est_burst' = [est_burst EXCEPT ![child] = est_burst[c]]
     /\ queue_level' = levels
     /\ preempt_disabled' = [preempt_disabled EXCEPT ![child] = 1]
     /\ state' = [state EXCEPT ![child] = "READY"]
     /\ ready' = [ready EXCEPT ![LevelOf(levels, child)] = Insert(@, child, est_burst[c])]
  /\ n_processes' = n_processes + 1
  /\ UNCHANGED <<burst_ticks, pending_signals, waits, ml_ticks_since_boost, active_algorithm,
                 current_process, pc, picking, scan, ticked>>

(* The error returns of copy_process leave the preempt_disable in force. *)
ForkFails ==
  /\ At("run")
  /\ n_processes = N_PROCESSES \/ OUT_OF_MEMORY
  /\ preempt_disabled[current_process] < MAX_LEAKS
  /\ preempt_disable(current_process)
  /\ UNCHANGED <<state, counter, params, bursts, pending_signals, waits, multi, ready,
                 current_process, n_processes, active_algorithm, pc, picking, scan, ticked>>

(* syscall_wait: the target is looked up and tested, then the caller blocks. *)
syscall_wait(pid) ==
  /\ At("run")
  /\ Exists(pid) /\ state[pid] # "ZOMBIE"
  /\ wait_arg' = [wait_arg EXCEPT ![current_process] = pid]
  /\ GoTo("wait_state")
  /\ UNCHANGED <<state, counter, params, bursts, preempt_disabled, pending_signals,
                 pid_to_wait, multi, ready, current_process, n_processes, active_algorithm,
                 picking, scan, ticked>>

WaitState ==
  /\ At("wait_state")
  /\ state' = [state EXCEPT ![current_process] = "WAITING_ANOTHER_PROCESS"]
  /\ GoTo("wait_pid")
  /\ UNCHANGED <<counter, params, bursts, preempt_disabled, pending_signals, waits, multi,
                 ready, current_process, n_processes, active_algorithm, picking, scan, ticked>>

WaitPid ==
  /\ At("wait_pid")
  /\ pid_to_wait' = [pid_to_wait EXCEPT ![current_process] = wait_arg[current_process]]
  /\ wait_arg' = [wait_arg EXCEPT ![current_process] = 0]
  /\ GoTo("sched")
  /\ UNCHANGED <<state, counter, params, bursts, preempt_disabled, pending_signals, multi,
                 ready, current_process, n_processes, active_algorithm, picking, scan, ticked>>

(* exit_process: with preemption disabled, the process becomes a ZOMBIE and  *)
(* wakes the processes that wait for it, in pid order.                       *)
exit_process ==
  /\ At("run")
  /\ preempt_disable(current_process)
  /\ state' = [state EXCEPT ![current_process] = "ZOMBIE"]
  /\ GoTo("exit_scan")
  /\ UNCHANGED <<counter, params, bursts, pending_signals, waits, multi, ready,
                 current_process, n_processes, active_algorithm, picking, scan, ticked>>

WaitsFor(p, pid) == Exists(p) /\ state[p] = "WAITING_ANOTHER_PROCESS" /\ pid_to_wait[p] = pid

ExitWakes ==
  /\ At("exit_scan")
  /\ \E p \in PID :
       /\ WaitsFor(p, current_process)
       /\ \A q \in PID : WaitsFor(q, current_process) => p <= q
       /\ state' = [state EXCEPT ![p] = "READY"]
       /\ pid_to_wait' = [pid_to_wait EXCEPT ![p] = NONE]
       /\ ready' = Enqueue(ready, queue_level, p)
  /\ UNCHANGED <<counter, params, bursts, preempt_disabled, pending_signals, wait_arg, multi,
                 current_process, n_processes, active_algorithm, pc, picking, scan, ticked>>

AllWokenTooSoon == TRUE
AllWoken == \A p \in PID : ~WaitsFor(p, current_process)

ExitDone ==
  /\ At("exit_scan")
  /\ AllWoken
  /\ preempt_enable(current_process)
  /\ GoTo("sched")
  /\ UNCHANGED <<state, counter, params, bursts, pending_signals, waits, multi, ready,
                 current_process, n_processes, active_algorithm, picking, scan, ticked>>

syscall_send_signal(pid, signal) ==
  /\ At("run")
  /\ Exists(pid)
  /\ pending_signals' = [pending_signals EXCEPT ![pid] = @ \cup {signal}]
  /\ UNCHANGED <<state, counter, params, bursts, preempt_disabled, waits, multi, ready,
                 current_process, n_processes, active_algorithm, pc, picking, scan, ticked>>

(* sched_set_param, for the values it accepts. *)
sched_set_param(pid) ==
  /\ At("run")
  /\ Exists(pid) /\ pid # init
  /\ \/ \E value \in PRIORITIES :
          /\ priority' = [priority EXCEPT ![pid] = value]
          /\ UNCHANGED <<tickets, queue_priority, queue_level>>
     \/ \E value \in TICKETS :
          /\ tickets' = [tickets EXCEPT ![pid] = value]
          /\ UNCHANGED <<priority, queue_priority, queue_level>>
     \/ \E value \in QUEUE_PRIORITIES :
          LET level == IF IsMultilevel /\ value >= N_LEVELS THEN N_LEVELS - 1 ELSE value IN
          /\ queue_priority' = [queue_priority EXCEPT ![pid] = level]
          /\ queue_level' = [queue_level EXCEPT ![pid] = level]
          /\ UNCHANGED <<priority, tickets>>
  /\ UNCHANGED <<state, counter, bursts, preempt_disabled, pending_signals, waits,
                 ml_ticks_since_boost, ready, current_process, n_processes, active_algorithm, pc,
                 picking, scan, ticked>>

----------------------------------------------------------------------------
(* What the kernel does on its own once a system call is under way. *)
Continue == schedule \/ _schedule \/ WaitState \/ WaitPid \/ ExitWakes \/ ExitDone

(* What user programs ask for. *)
Syscall ==
  \/ syscall_yield \/ syscall_fork \/ ForkFails \/ exit_process
  \/ \E pid \in WAIT_TARGETS : syscall_wait(pid)
  \/ \E pid \in SIGNAL_TARGETS, signal \in SIGNALS : syscall_send_signal(pid, signal)
  \/ \E pid \in PID : sched_set_param(pid)

Next == Tick \/ Pick \/ Continue \/ Syscall

(* The timer re-arms itself at every tick and kernel code always proceeds;   *)
(* nothing is assumed of user programs.                                      *)
Fairness == WF_vars(Tick) /\ WF_vars(Pick) /\ WF_vars(Continue)

Spec == Init /\ [][Next]_vars
FairSpec == Spec /\ Fairness

----------------------------------------------------------------------------
(* Properties. *)

TypeOK ==
  /\ active_algorithm \in ALGORITHMS
  /\ state \in [PID -> States]
  /\ counter \in [PID -> Int]
  /\ priority \in [PID -> Nat] /\ tickets \in [PID -> Nat]
  /\ est_burst \in [PID -> Nat] /\ burst_ticks \in [PID -> Nat]
  /\ queue_priority \in [PID -> Levels] /\ queue_level \in [PID -> Levels]
  /\ preempt_disabled \in [PID -> Int]
  /\ pending_signals \in [PID -> SUBSET {"KILL", "STOP", "RESUME"}]
  /\ pid_to_wait \in [PID -> PID \cup {NONE}] /\ wait_arg \in [PID -> PID]
  /\ ready \in [Levels -> Seq(User)]
  /\ current_process \in PID /\ n_processes \in 2 .. N_PROCESSES
  /\ ml_ticks_since_boost \in Nat
  /\ pc \in [PID -> Labels]
  /\ picking \in BOOLEAN /\ scan \in Levels /\ ticked \in BOOLEAN

(* scheduler.h: "at most one process is in this state at any time"; the      *)
(* RUNNING process is the one that has the CPU, and a user process that has  *)
(* the CPU and is executing its own code is RUNNING.                         *)
RunningIsCurrent ==
  /\ \A p \in PID : state[p] = "RUNNING" => p = current_process
  /\ At("run") => state[current_process] = "RUNNING"

(* The intrusive list node of a process is linked into one queue at a time   *)
(* ("a process is never linked into two queues at once"), and once.          *)
LinkedOnce ==
  /\ \A l \in Levels : IsInjective(ready[l])
  /\ \A l, m \in Levels : l # m => Range(ready[l]) \cap Range(ready[m]) = {}

(* The ready queues hold exactly the user processes that are READY, each one *)
(* linked once: nobody runnable is forgotten, nobody else can be dispatched. *)
ReadyIsQueuedOnce ==
  /\ LinkedOnce
  /\ \A p \in User : state[p] = "READY" <=> Queued(p)

(* Every preempt_disable is balanced: a process that is executing its own    *)
(* code can be preempted, and one that was switched out holds exactly the    *)
(* one disable of the pick function it was switched out in.                  *)
PreemptionBalanced ==
  \A p \in PID : Exists(p) =>
    preempt_disabled[p] =
      IF p # current_process \/ picking \/ pc[p] = "exit_scan" THEN 1 ELSE 0

(* wait returns once its target has called exit: no process is left blocked  *)
(* on a process whose exit_process has already looked for waiters.           *)
NoLostWaiter ==
  \A p \in PID : state[p] = "WAITING_ANOTHER_PROCESS" /\ pc[p] = "run"
                   => pc[pid_to_wait[p]] # "exited"

(* Under the algorithms that never preempt a user process, a wait cannot be  *)
(* split from its test, and no wake-up is lost.                              *)
WaitersWoken == ~IsPreemptive => NoLostWaiter

(* The SJF queue is sorted by the estimates the processes have now, although *)
(* the estimates keep changing: head is the shortest job.                    *)
ShortestFirst ==
  active_algorithm = "sjf" =>
    \A i, j \in DOMAIN ready[0] : i < j => est_burst[ready[0][i]] <= est_burst[ready[0][j]]

(* The walk of the lottery gives every queued process as many winning        *)
(* numbers as it has tickets, so the draw is proportional.                   *)
ProportionalDraw ==
  active_algorithm = "lottery" =>
    \A i \in DOMAIN ready[0] :
      Cardinality({w \in 0 .. TicketsUpTo(Len(ready[0])) - 1 : Holds(i, w)})
        = TicketsOf(ready[0][i])

(* Aging: the dynamic priority of a process, blocked for however many epochs *)
(* and whatever its static priority is set to, stays within the initial      *)
(* slice or twice a static priority ("geometric series capped at             *)
(* 2*priority"), so no bonus outgrows what the others can reach.             *)
AgingCapped ==
  active_algorithm = "priority_aging" =>
    \A p \in PID : \/ counter[p] <= QUANTUM
                   \/ \E value \in PRIORITIES \cup {1} : counter[p] <= 2 * value

(* A process is queued at the level recorded for it, unless set_sched_param  *)
(* has just assigned it another one: demotions and boosts keep queue_level   *)
(* and the physical queues together.                                         *)
LevelsAgree ==
  IsMultilevel =>
    \A l \in Levels : \A i \in DOMAIN ready[l] :
      LET p == ready[l][i] IN queue_level[p] \in {l, queue_priority[p]}

(* "The idle init process [...] runs only when nobody else is runnable":     *)
(* the pick loop falls back to init only if no user process is READY.        *)
IdleOnlyWhenNobodyReady ==
  [][picking /\ ~picking' /\ current_process' = init
       => \A p \in User : state'[p] # "READY"]_vars

(* A process is dispatched from a level only if every higher level is empty. *)
StrictPriority ==
  [][\A l \in Levels : IsMultilevel /\ picking /\ ~picking' /\ ready'[l] # ready[l]
       => \A h \in 0 .. l - 1 : ready'[h] = <<>>]_vars

(* No starvation: under a preemptive algorithm a runnable process gets the   *)
(* CPU, unless a signal takes it out of the ready queue first.               *)
NoStarvation ==
  \A p \in User : IsPreemptive /\ state[p] = "READY" ~> state[p] # "READY"

(* The CPU does not stay on idle: whatever the algorithm, init gives way     *)
(* once a process is READY, unless a signal takes it out of the queue        *)
(* ("without this check the CPU would stay on idle forever once every        *)
(* process is asleep").                                                      *)
IdleWithWork == current_process = init /\ \E p \in User : state[p] = "READY"
IdleEnds == IdleWithWork ~> ~IdleWithWork

(* A signal that kills is acted upon: under a preemptive algorithm, once     *)
(* KILL is pending for a process that is runnable or running, and the        *)
(* process does not block, it ends.                                          *)
KillTakesEffect ==
  \A p \in User :
    IsPreemptive /\ state[p] \in {"READY", "RUNNING"} /\ "KILL" \in pending_signals[p]
      ~> state[p] \notin {"READY", "RUNNING"}

(* The processes of the kernel, as Lifecycle sees them. *)
StatusOf(s) ==
  CASE s = "ZERO" -> "unused" [] s = "READY" -> "ready" [] s = "RUNNING" -> "running"
    [] s = "STOPPED" -> "stopped" [] s = "ZOMBIE" -> "dead" [] OTHER -> "blocked"
ProcessStatus == [p \in User |-> StatusOf(state[p])]
Promise == INSTANCE Lifecycle WITH Process <- User, status <- ProcessStatus

(* Every step of the kernel is a step of Lifecycle: in particular a process  *)
(* blocked in a system call that was itself preempted half-way through       *)
(* blocking never runs without having been woken, and two processes are      *)
(* never RUNNING together.                                                   *)
ImplementsLifecycle == Promise!Spec

=============================================================================
