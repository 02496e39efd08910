--------------------------- MODULE SchedulerProofs ---------------------------
(***************************************************************************)
(* Proofs about the scheduler, for every algorithm and every value of the  *)
(* constants: the type invariant, the two safety invariants that every     *)
(* pick function relies on, and that the scheduler implements Lifecycle.   *)
(***************************************************************************)
EXTENDS Scheduler, QueueLemmas, FiniteSetTheorems

(* The queues as a value, so that the lemmas apply before and after a step.  *)
Queues == [Levels -> Seq(User)]
InQueues(queues, p) == \E l \in Levels : p \in Range(queues[l])
Distinct(queues) ==
  /\ \A l \in Levels : IsInjective(queues[l])
  /\ \A l, m \in Levels : l # m => Range(queues[l]) \cap Range(queues[m]) = {}

----------------------------------------------------------------------------
(* enqueue_sorted_to always finds a place: SortedPosition chooses among      *)
(* candidates that exist.                                                    *)
LEMMA SortedPositionExists ==
  ASSUME TypeOK, NEW q \in Seq(User), NEW length \in Nat
  PROVE  /\ SortedPosition(q, length) \in 1 .. Len(q) + 1
         /\ \A j \in 1 .. SortedPosition(q, length) - 1 : est_burst[q[j]] <= length
         /\ SortedPosition(q, length) <= Len(q) => length < est_burst[q[SortedPosition(q, length)]]
<1> DEFINE P(k) == /\ \A j \in 1 .. k - 1 : est_burst[q[j]] <= length
                   /\ k <= Len(q) => length < est_burst[q[k]]
           Longer == {k \in 1 .. Len(q) : length < est_burst[q[k]]}
<1>1. Len(q) \in Nat /\ \A k \in 1 .. Len(q) : est_burst[q[k]] \in Nat
  <2>1. Len(q) \in Nat /\ \A k \in 1 .. Len(q) : q[k] \in User
    BY ElementOfSeq, LenProperties
  <2>2. \A p \in User : est_burst[p] \in Nat
    BY DEF TypeOK, User
  <2> QED BY <2>1, <2>2
<1>2. \E k \in 1 .. Len(q) + 1 : P(k)
  <2>1. CASE Longer = {}
    <3>1. P(Len(q) + 1) /\ Len(q) + 1 \in 1 .. Len(q) + 1
      BY <1>1, <2>1
    <3> QED BY <3>1
  <2>2. CASE Longer # {}
    <3>0. Longer \subseteq Nat
      BY <1>1
    <3> HIDE DEF Longer
    <3>1. PICK k \in Longer : \A y \in Longer : k <= y
      BY <3>0, <2>2, LeastNatural
    <3> USE DEF Longer
    <3>2. P(k) /\ k \in 1 .. Len(q) + 1
      BY <1>1, <3>1
    <3> QED BY <3>2
  <2> QED BY <2>1, <2>2
<1> QED BY <1>2 DEF SortedPosition

(* Either insertion policy links the new process into the queue, once. *)
LEMMA InsertKeeps ==
  ASSUME TypeOK, NEW q \in Seq(User), IsInjective(q), NEW p \in User, p \notin Range(q),
         NEW length \in Nat
  PROVE  /\ Insert(q, p, length) \in Seq(User) /\ IsInjective(Insert(q, p, length))
         /\ Range(Insert(q, p, length)) = Range(q) \cup {p}
<1> DEFINE r == Insert(q, p, length)
<1>1. CASE active_algorithm = "sjf"
  <2>1. SortedPosition(q, length) \in 1 .. Len(q) + 1
    BY SortedPositionExists
  <2>2. r = InsertAt(q, SortedPosition(q, length), p)
    BY <1>1 DEF Insert
  <2> HIDE DEF r
  <2>3. /\ InsertAt(q, SortedPosition(q, length), p) \in Seq(User)
        /\ Range(InsertAt(q, SortedPosition(q, length), p)) = Range(q) \cup {p}
        /\ IsInjective(InsertAt(q, SortedPosition(q, length), p))
    BY <2>1, InsertLinks, Zenon
  <2>4. r \in Seq(User) /\ IsInjective(r) /\ Range(r) = Range(q) \cup {p}
    BY <2>2, <2>3, Zenon
  <2> QED BY <2>4 DEF r
<1>2. CASE active_algorithm # "sjf"
  <2>1. r = Append(q, p)
    BY <1>2 DEF Insert
  <2> HIDE DEF r
  <2>2. /\ Append(q, p) \in Seq(User)
        /\ Range(Append(q, p)) = Range(q) \cup {p}
        /\ IsInjective(q) /\ p \notin Range(q) => IsInjective(Append(q, p))
    BY AppendLinks, Zenon
  <2>3. r \in Seq(User) /\ IsInjective(r) /\ Range(r) = Range(q) \cup {p}
    BY <2>1, <2>2, Zenon
  <2> QED BY <2>3 DEF r
<1> QED BY <1>1, <1>2

(* Linking a process that is not linked, into any one queue. *)
LEMMA EnqueueLinks ==
  ASSUME TypeOK, NEW queues \in Queues, Distinct(queues),
         NEW p \in User, ~InQueues(queues, p), NEW l \in Levels, NEW length \in Nat
  PROVE  LET new == [queues EXCEPT ![l] = Insert(@, p, length)] IN
         /\ new \in Queues /\ Distinct(new)
         /\ \A x : InQueues(new, x) <=> InQueues(queues, x) \/ x = p
<1> DEFINE q == queues[l]
           r == Insert(q, p, length)
           new == [queues EXCEPT ![l] = r]
<1>1. q \in Seq(User) /\ IsInjective(q) /\ p \notin Range(q)
  BY DEF Queues, Distinct, InQueues
<1>2. r \in Seq(User) /\ Range(r) = Range(q) \cup {p} /\ IsInjective(r)
  <2> HIDE DEF q
  <2> QED BY <1>1, InsertKeeps DEF r
<1> HIDE DEF r
<1>3. new \in Queues
  BY <1>2 DEF Queues
<1>4. \A m \in Levels : new[m] = IF m = l THEN r ELSE queues[m]
  BY DEF Queues
<1> HIDE DEF new
<1>5. Distinct(new)
  <2>1. ASSUME NEW m \in Levels PROVE IsInjective(new[m])
    BY <1>2, <1>4 DEF Distinct
  <2>2. ASSUME NEW a \in Levels, NEW b \in Levels, a # b
        PROVE  Range(new[a]) \cap Range(new[b]) = {}
    <3>1. Range(queues[a]) \cap Range(queues[b]) = {}
      BY <2>2 DEF Distinct
    <3>2. p \notin Range(queues[a]) /\ p \notin Range(queues[b])
      BY DEF InQueues
    <3>3. /\ Range(new[a]) = IF a = l THEN Range(queues[a]) \cup {p} ELSE Range(queues[a])
          /\ Range(new[b]) = IF b = l THEN Range(queues[b]) \cup {p} ELSE Range(queues[b])
      BY <1>2, <1>4
    <3> QED BY <2>2, <3>1, <3>2, <3>3
  <2> QED BY <2>1, <2>2 DEF Distinct
<1>6. \A x : InQueues(new, x) <=> InQueues(queues, x) \/ x = p
  BY <1>2, <1>4 DEF InQueues
<1> QED BY <1>3, <1>5, <1>6 DEF new, r

(* Unlinking the process at position i of queue l. *)
LEMMA UnlinkUnlinks ==
  ASSUME NEW queues \in Queues, Distinct(queues), NEW l \in Levels,
         NEW i \in DOMAIN queues[l]
  PROVE  LET new == [queues EXCEPT ![l] = Unlink(@, i)] IN
         /\ new \in Queues /\ Distinct(new)
         /\ \A x : InQueues(new, x) <=> InQueues(queues, x) /\ x # queues[l][i]
<1> DEFINE q == queues[l]
           r == Unlink(q, i)
           new == [queues EXCEPT ![l] = r]
<1>1. q \in Seq(User) /\ IsInjective(q) /\ i \in DOMAIN q
  BY DEF Queues, Distinct
<1>2. r \in Seq(User) /\ Range(r) = Range(q) \ {q[i]} /\ IsInjective(r)
  <2> HIDE DEF q
  <2> QED BY <1>1, RemoveUnlinks, Zenon DEF Unlink
<1>3. q[i] \in Range(q)
  BY <1>1 DEF Range
<1> HIDE DEF r
<1>4. new \in Queues
  BY <1>2 DEF Queues
<1>5. \A m \in Levels : new[m] = IF m = l THEN r ELSE queues[m]
  BY DEF Queues
<1> HIDE DEF new
<1>6. Distinct(new)
  BY <1>1, <1>2, <1>5 DEF Distinct
<1>7. \A x : InQueues(new, x) <=> InQueues(queues, x) /\ x # q[i]
  BY <1>2, <1>3, <1>5 DEF InQueues, Distinct
<1> QED BY <1>4, <1>6, <1>7 DEF new, r

(* The MLFQ boost links every process of the levels in use behind level 0   *)
(* and loses or duplicates nobody.                                           *)
LEMMA BoostLinks ==
  ASSUME TypeOK, Distinct(ready)
  PROVE  /\ BoostedQueues \in Queues /\ Distinct(BoostedQueues)
         /\ \A x : InQueues(BoostedQueues, x) <=> InQueues(ready, x)
<1>1. CASE ~Boosts
  BY <1>1 DEF BoostedQueues, TypeOK, Queues
<1>2. CASE Boosts
  <2> DEFINE U(l) == Range(InUse(l))
             R(l) == Range(ready[l])
             c1 == ready[0] \o InUse(1)
             c2 == c1 \o InUse(2)
             c3 == c2 \o InUse(3)
             c4 == c3 \o InUse(4)
             new == [l \in Levels |-> IF l = 0 THEN c4
                                      ELSE IF l < NLevels THEN <<>> ELSE ready[l]]
  <2>0. BoostedQueues = new
    BY <1>2 DEF BoostedQueues
  <2>1. Levels = 0 .. 4 /\ NLevels \in 1 .. 5 /\ Range(<<>>) = {} /\ <<>> \in Seq(User)
        /\ IsInjective(<<>>)
    BY SchedulerAssumption DEF Levels, ML_MAX_LEVELS, NLevels, Range, IsInjective
  <2>2. \A l \in Levels : ready[l] \in Seq(User) /\ IsInjective(ready[l])
    BY DEF TypeOK, Distinct
  <2>3. \A l \in Levels : /\ InUse(l) \in Seq(User) /\ IsInjective(InUse(l))
                          /\ U(l) = IF l < NLevels THEN R(l) ELSE {}
    BY <2>1, <2>2 DEF InUse
  <2>4. \A l, m \in Levels : l # m => R(l) \cap R(m) = {}
    BY DEF Distinct
  <2>5. c1 \in Seq(User) /\ IsInjective(c1) /\ Range(c1) = R(0) \cup U(1)
    <3>1. R(0) \cap U(1) = {} /\ ready[0] \in Seq(User) /\ InUse(1) \in Seq(User)
          /\ IsInjective(ready[0]) /\ IsInjective(InUse(1))
      BY <2>1, <2>2, <2>3, <2>4
    <3> QED BY <3>1, ConcatLinks
  <2> HIDE DEF c1
  <2>6. c2 \in Seq(User) /\ IsInjective(c2) /\ Range(c2) = R(0) \cup U(1) \cup U(2)
    <3>1. Range(c1) \cap U(2) = {} /\ InUse(2) \in Seq(User) /\ IsInjective(InUse(2))
      BY <2>1, <2>3, <2>4, <2>5
    <3> QED BY <2>5, <3>1, ConcatLinks
  <2> HIDE DEF c2
  <2>7. c3 \in Seq(User) /\ IsInjective(c3) /\ Range(c3) = R(0) \cup U(1) \cup U(2) \cup U(3)
    <3>1. Range(c2) \cap U(3) = {} /\ InUse(3) \in Seq(User) /\ IsInjective(InUse(3))
      BY <2>1, <2>3, <2>4, <2>6
    <3> QED BY <2>6, <3>1, ConcatLinks
  <2> HIDE DEF c3
  <2>8. /\ c4 \in Seq(User) /\ IsInjective(c4)
        /\ Range(c4) = R(0) \cup U(1) \cup U(2) \cup U(3) \cup U(4)
    <3>1. Range(c3) \cap U(4) = {} /\ InUse(4) \in Seq(User) /\ IsInjective(InUse(4))
      BY <2>1, <2>3, <2>4, <2>7
    <3> QED BY <2>7, <3>1, ConcatLinks
  <2> HIDE DEF c4
  <2>9. \A l \in Levels : Range(new[l]) = IF l = 0 THEN Range(c4)
                                          ELSE IF l < NLevels THEN {} ELSE R(l)
    BY <2>1
  <2>10. new \in Queues
    BY <2>1, <2>2, <2>8 DEF Queues
  <2>11. \A l \in Levels : IsInjective(new[l])
    BY <2>1, <2>2, <2>8
  <2> HIDE DEF new, U, R
  <2>12. \A x : x \in Range(c4) <=> x \in R(0) \/ \E m \in Levels : 0 < m /\ m < NLevels /\ x \in R(m)
    BY <2>1, <2>3, <2>8
  <2>13. ASSUME NEW a \in Levels, NEW b \in Levels, a # b
         PROVE  Range(new[a]) \cap Range(new[b]) = {}
    <3>0. R(a) \cap R(b) = {}
      BY <2>4, <2>13
    <3>1. CASE a # 0 /\ b # 0
      BY <3>0, <3>1, <2>9
    <3>2. CASE a = 0
      BY <2>1, <2>4, <2>9, <2>12, <2>13, <3>2
    <3>3. CASE b = 0
      BY <2>1, <2>4, <2>9, <2>12, <2>13, <3>3
    <3> QED BY <3>1, <3>2, <3>3
  <2>14. ASSUME NEW x PROVE InQueues(new, x) <=> InQueues(ready, x)
    <3>1. (\E l \in Levels : x \in Range(new[l])) <=> \E l \in Levels : x \in R(l)
      BY <2>1, <2>9, <2>12
    <3> QED BY <3>1 DEF InQueues, R
  <2> QED BY <2>0, <2>10, <2>11, <2>13, <2>14 DEF Distinct
<1> QED BY <1>1, <1>2

----------------------------------------------------------------------------
(* The inductive invariant.  RunningIsCurrent and ReadyIsQueuedOnce are not  *)
(* inductive alone: a fork must find the child's slot unused, a wake-up must *)
(* not touch init, and a dispatch must know that the process that gave up    *)
(* the CPU has already left the RUNNING state.                               *)
ReadyQueued == \A p \in User : state[p] = "READY" <=> InQueues(ready, p)
OnlyCurrentRuns == \A p \in PID : state[p] = "RUNNING" => p = current_process
RunsItsCode == At("run") \/ At("wait_state") => state[current_process] = "RUNNING"
Unborn == /\ current_process < n_processes
          /\ \A p \in PID : p >= n_processes => state[p] = "ZERO"
InitNeverBlocks == state[init] \in {"ZERO", "READY", "RUNNING"}
PickerGaveUp == picking /\ current_process # init => state[current_process] # "RUNNING"

IInv ==
  /\ TypeOK /\ Distinct(ready) /\ ReadyQueued
  /\ OnlyCurrentRuns /\ RunsItsCode /\ Unborn /\ InitNeverBlocks /\ PickerGaveUp

(* What the constants give. *)
LEMMA Basics ==
  /\ PID \subseteq Nat /\ PID = 0 .. N_PROCESSES - 1 /\ N_PROCESSES \in Nat /\ N_PROCESSES >= 2
  /\ init = 0 /\ init \in PID /\ 1 \in User /\ User \subseteq PID /\ User = PID \ {init}
  /\ Levels = 0 .. 4 /\ 0 \in Levels /\ Levels \subseteq Nat
  /\ NLevels \in 1 .. 5 /\ N_LEVELS \in 1 .. 5
BY SchedulerAssumption DEF PID, init, User, Levels, ML_MAX_LEVELS, NLevels

LEMMA InitIInv == Init => IInv
<1> SUFFICES ASSUME Init PROVE IInv
  OBVIOUS
<1> USE Basics
<1>1. ready \in Queues /\ ready[0] = <<1>> /\ \A l \in Levels : l # 0 => ready[l] = <<>>
  BY DEF Init, Queues
<1>2. Range(<<1>>) = {1} /\ Range(<<>>) = {} /\ IsInjective(<<1>>) /\ IsInjective(<<>>)
  BY DEF Range, IsInjective
<1>3. TypeOK
  <2>1. /\ state \in [PID -> States] /\ pc \in [PID -> Labels]
        /\ pending_signals \in [PID -> SUBSET {"KILL", "STOP", "RESUME"}]
    BY DEF Init, States, Labels
  <2>2. /\ counter \in [PID -> Int] /\ priority \in [PID -> Nat] /\ tickets \in [PID -> Nat]
        /\ est_burst \in [PID -> Nat] /\ burst_ticks \in [PID -> Nat]
        /\ preempt_disabled \in [PID -> Int]
    BY SchedulerAssumption DEF Init
  <2>3. /\ queue_priority \in [PID -> Levels] /\ queue_level \in [PID -> Levels]
        /\ pid_to_wait \in [PID -> PID \cup {NONE}] /\ wait_arg \in [PID -> PID]
    BY DEF Init
  <2>4. /\ active_algorithm \in ALGORITHMS
        /\ current_process \in PID /\ n_processes \in 2 .. N_PROCESSES
        /\ ml_ticks_since_boost \in Nat /\ scan \in Levels
    BY DEF Init
  <2>5. picking \in BOOLEAN /\ ticked \in BOOLEAN
    BY Zenon DEF Init
  <2> QED BY <1>1, <2>1, <2>2, <2>3, <2>4, <2>5 DEF TypeOK, Queues
<1>4. Distinct(ready) /\ \A x : InQueues(ready, x) <=> x = 1
  BY <1>1, <1>2 DEF Distinct, InQueues
<1>5. ReadyQueued
  BY <1>4 DEF ReadyQueued, Init
<1>6. OnlyCurrentRuns /\ RunsItsCode /\ Unborn /\ InitNeverBlocks /\ PickerGaveUp
  BY DEF Init, OnlyCurrentRuns, RunsItsCode, Unborn, InitNeverBlocks, PickerGaveUp, At
<1> QED BY <1>3, <1>4, <1>5, <1>6 DEF IInv

(* Entering a pick function from queues that hold the same processes as      *)
(* ready does: the outgoing process is linked exactly if it becomes READY.   *)
LEMMA EnterPickLinks ==
  ASSUME IInv, NEW queues \in Queues, NEW levels \in [PID -> Levels],
         Distinct(queues), \A x : InQueues(queues, x) <=> InQueues(ready, x),
         EnterPick(queues, levels)
  PROVE  /\ state' \in [PID -> States] /\ preempt_disabled' \in [PID -> Int] /\ picking' = TRUE
         /\ ready' \in Queues /\ Distinct(ready')
         /\ \A p \in User : state'[p] = "READY" <=> InQueues(ready', p)
         /\ \A p \in PID : state'[p] = IF p = current_process /\ StillRunnable
                                       THEN "READY" ELSE state[p]
<1> USE Basics
<1> DEFINE c == current_process
<1>0. TypeOK /\ c \in PID
  BY DEF IInv, TypeOK
<1>1. preempt_disabled' \in [PID -> Int] /\ picking' = TRUE
  <2>1. preempt_disable(c) /\ picking' = TRUE
    BY DEF EnterPick
  <2>2. preempt_disabled \in [PID -> Int]
    BY <1>0 DEF TypeOK
  <2> QED BY <1>0, <2>1, <2>2 DEF preempt_disable
<1>2. CASE StillRunnable
  <2>1. c \in User /\ state[c] = "RUNNING" /\ ~InQueues(queues, c)
    BY <1>0, <1>2 DEF StillRunnable, IInv, ReadyQueued
  <2>2. LevelOf(levels, c) \in Levels /\ est_burst[c] \in Nat
    BY <1>0 DEF LevelOf, TypeOK
  <2>3. state' = [state EXCEPT ![c] = "READY"]
        /\ ready' = [queues EXCEPT ![LevelOf(levels, c)] = Insert(@, c, est_burst[c])]
    BY <1>2 DEF EnterPick, Enqueue
  <2>4. /\ ready' \in Queues /\ Distinct(ready')
        /\ \A x : InQueues(ready', x) <=> InQueues(queues, x) \/ x = c
    <3> DEFINE new == [queues EXCEPT ![LevelOf(levels, c)] = Insert(@, c, est_burst[c])]
    <3>1. /\ new \in Queues /\ Distinct(new)
          /\ \A x : InQueues(new, x) <=> InQueues(queues, x) \/ x = c
      <4> HIDE DEF c
      <4> QED BY <1>0, <2>1, <2>2, EnqueueLinks
    <3> QED BY <2>3, <3>1
  <2>5. /\ state' \in [PID -> States]
        /\ \A p \in PID : state'[p] = IF p = c THEN "READY" ELSE state[p]
    BY <1>0, <2>3 DEF TypeOK, States
  <2>6. \A p \in User : state'[p] = "READY" <=> InQueues(ready', p)
    BY <2>4, <2>5 DEF IInv, ReadyQueued
  <2> QED BY <1>1, <1>2, <2>4, <2>5, <2>6
<1>3. CASE ~StillRunnable
  <2>1. state' = state /\ ready' = queues
    BY <1>3 DEF EnterPick
  <2> QED BY <1>0, <1>1, <1>3, <2>1 DEF IInv, ReadyQueued, TypeOK
<1> QED BY <1>2, <1>3

(* A queued process has its signals handled: it stays READY, or is stopped   *)
(* or ended; the queues are what the caller left.                            *)
LEMMA SignalsOfQueued ==
  ASSUME IInv, NEW p \in User, state[p] = "READY", NEW queues,
         handle_process_signals(p, queues)
  PROVE  /\ StateAfterSignals(p) \in {"READY", "STOPPED", "ZOMBIE"}
         /\ ready' = queues
         /\ pending_signals' \in [PID -> SUBSET {"KILL", "STOP", "RESUME"}]
<1>1. ~Resumed(p)
  BY DEF Resumed
<1>2. SignalHandled(p) \in {"KILL", "STOP", "RESUME"}
  BY DEF SignalHandled
<1>3. StateAfterSignals(p) \in {"READY", "STOPPED", "ZOMBIE"}
  BY <1>1, <1>2 DEF StateAfterSignals
<1>4. ready' = queues
  BY <1>1 DEF handle_process_signals
<1>5. pending_signals' \in [PID -> SUBSET {"KILL", "STOP", "RESUME"}]
  BY DEF handle_process_signals, IInv, TypeOK
<1> QED BY <1>3, <1>4, <1>5

(* Giving the CPU to init or to a READY process. *)
LEMMA SwitchKeeps ==
  ASSUME IInv, picking, NEW next \in PID, next = init \/ state[next] = "READY",
         switch_to_process(next), pc' = pc, n_processes' = n_processes
  PROVE  /\ state' \in [PID -> States] /\ preempt_disabled' \in [PID -> Int]
         /\ current_process' \in PID /\ picking' \in BOOLEAN /\ ticked' \in BOOLEAN
         /\ scan' \in Levels
         /\ \A x \in User : state'[x] = IF x = next THEN "RUNNING" ELSE state[x]
         /\ OnlyCurrentRuns' /\ RunsItsCode' /\ Unborn' /\ InitNeverBlocks' /\ PickerGaveUp'
<1> USE Basics
<1> DEFINE c == current_process
<1>0. c \in PID /\ state \in [PID -> States] /\ preempt_disabled \in [PID -> Int]
      /\ n_processes \in Nat
  <2>1. c \in PID /\ state \in [PID -> States] /\ preempt_disabled \in [PID -> Int]
        /\ n_processes \in 2 .. N_PROCESSES
    BY DEF IInv, TypeOK
  <2> QED BY <2>1
<1>1. /\ state' = [state EXCEPT ![c] = IF @ = "RUNNING" THEN "READY" ELSE @, ![next] = "RUNNING"]
      /\ current_process' = next /\ preempt_enable(next) /\ scan' = 0
      /\ picking' = FALSE /\ ticked' = FALSE
  BY DEF switch_to_process, Switched
<1>2. preempt_disabled' \in [PID -> Int] /\ scan' \in Levels /\ current_process' \in PID
  BY <1>0, <1>1 DEF preempt_enable
<1>3. picking' \in BOOLEAN /\ ticked' \in BOOLEAN
  BY <1>1, Zenon
<1>4. /\ state' \in [PID -> States]
      /\ \A x \in PID : state'[x] = IF x = next THEN "RUNNING"
                                    ELSE IF x = c /\ state[x] = "RUNNING" THEN "READY" ELSE state[x]
  BY <1>0, <1>1 DEF States
<1>5. c = init \/ state[c] # "RUNNING"
  BY DEF IInv, PickerGaveUp
<1>6. \A x \in User : state'[x] = IF x = next THEN "RUNNING" ELSE state[x]
  BY <1>4, <1>5
<1>7. OnlyCurrentRuns'
  BY <1>1, <1>4 DEF IInv, OnlyCurrentRuns
<1>8. RunsItsCode' /\ PickerGaveUp'
  BY <1>1, <1>4 DEF RunsItsCode, PickerGaveUp
<1>9. Unborn'
  <2>1. next < n_processes
    BY <1>0 DEF IInv, Unborn, TypeOK
  <2>2. c < n_processes
    BY DEF IInv, Unborn
  <2> QED BY <1>0, <1>1, <1>4, <2>1, <2>2 DEF IInv, Unborn
<1>10. InitNeverBlocks'
  BY <1>4 DEF IInv, InitNeverBlocks
<1> QED BY <1>1, <1>2, <1>3, <1>4, <1>6, <1>7, <1>8, <1>9, <1>10

(* The one user process whose state a step changes, and its new state. *)
Moves(p, to) == \A x \in User : state'[x] = IF x = p THEN to ELSE state[x]

(* Every pick function takes a process out of a queue the same way. *)
LEMMA TakeKeeps ==
  ASSUME IInv, picking, NEW l \in Levels, NEW i \in DOMAIN ready[l], Take(l, i)
  PROVE  /\ IInv'
         /\ \E p \in User, to \in {"RUNNING", "STOPPED", "ZOMBIE"} :
              state[p] = "READY" /\ Moves(p, to)
<1> USE Basics
<1> DEFINE p == ready[l][i]
           queues == [ready EXCEPT ![l] = Unlink(@, i)]
<1>0. TypeOK /\ ready \in Queues /\ Distinct(ready)
  BY DEF IInv, TypeOK, Queues
<1>1. p \in User /\ state[p] = "READY"
  <2>1. ready[l] \in Seq(User)
    BY <1>0 DEF Queues
  <2>2. p \in User /\ p \in Range(ready[l])
    BY <2>1, ElementOfSeq, LenProperties DEF Range
  <2> QED BY <2>2 DEF IInv, ReadyQueued, InQueues
<1>2. /\ queues \in Queues /\ Distinct(queues)
      /\ \A x : InQueues(queues, x) <=> InQueues(ready, x) /\ x # p
  BY <1>0, UnlinkUnlinks
<1>3. handle_process_signals(p, queues)
  BY DEF Take
<1> HIDE DEF p, queues
<1>4. /\ StateAfterSignals(p) \in {"READY", "STOPPED", "ZOMBIE"}
      /\ ready' = queues
      /\ pending_signals' \in [PID -> SUBSET {"KILL", "STOP", "RESUME"}]
  BY <1>1, <1>3, SignalsOfQueued
<1>5. UNCHANGED <<params, bursts, waits, multi, n_processes, active_algorithm, pc>>
  BY DEF Take
<1>6. ready' \in Queues /\ Distinct(ready') /\ \A x : InQueues(ready', x) <=> InQueues(ready, x) /\ x # p
  BY <1>2, <1>4
<1>7. CASE /\ counter' = [counter EXCEPT ![p] = Recharged(p, l)]
           /\ switch_to_process(p)
  <2>1. /\ state' \in [PID -> States] /\ preempt_disabled' \in [PID -> Int]
        /\ current_process' \in PID /\ picking' \in BOOLEAN /\ ticked' \in BOOLEAN
        /\ scan' \in Levels
        /\ \A x \in User : state'[x] = IF x = p THEN "RUNNING" ELSE state[x]
        /\ OnlyCurrentRuns' /\ RunsItsCode' /\ Unborn' /\ InitNeverBlocks' /\ PickerGaveUp'
    BY <1>1, <1>5, <1>7, SwitchKeeps
  <2>2. counter' \in [PID -> Int]
    <3>1. Recharged(p, l) \in Int
      <4>1. QUANTUM \in Int /\ ML_QUANTUM[l] \in Int
        BY SchedulerAssumption
      <4>2. counter[p] \in Int
        BY <1>0, <1>1 DEF TypeOK
      <4> QED BY <4>1, <4>2 DEF Recharged
    <3> QED BY <1>0, <1>1, <1>7, <3>1 DEF TypeOK
  <2>3. TypeOK'
    BY <1>0, <1>4, <1>5, <1>6, <2>1, <2>2 DEF TypeOK, Queues, params, bursts, waits, multi
  <2>4. ReadyQueued'
    BY <1>6, <2>1 DEF IInv, ReadyQueued
  <2> QED BY <1>1, <1>6, <2>1, <2>3, <2>4 DEF IInv, Moves
<1>8. CASE /\ StateAfterSignals(p) # "READY"
           /\ state' = [state EXCEPT ![p] = StateAfterSignals(p)]
           /\ UNCHANGED <<counter, current_process, preempt_disabled, picking, scan, ticked>>
  <2>1. /\ state' \in [PID -> States]
        /\ \A x \in PID : state'[x] = IF x = p THEN StateAfterSignals(p) ELSE state[x]
    BY <1>0, <1>1, <1>4, <1>8 DEF TypeOK, States
  <2>2. TypeOK'
    BY <1>0, <1>4, <1>5, <1>6, <1>8, <2>1 DEF TypeOK, Queues, params, bursts, waits, multi
  <2>3. ReadyQueued'
    BY <1>6, <1>8, <2>1 DEF IInv, ReadyQueued
  <2>4. OnlyCurrentRuns' /\ InitNeverBlocks' /\ PickerGaveUp'
    BY <1>1, <1>4, <1>8, <2>1 DEF IInv, OnlyCurrentRuns, InitNeverBlocks, PickerGaveUp
  <2>5. RunsItsCode'
    BY <1>8 DEF RunsItsCode, At
  <2>6. Unborn'
    BY <1>0, <1>1, <1>5, <1>8, <2>1 DEF IInv, Unborn, TypeOK
  <2>7. \E to \in {"RUNNING", "STOPPED", "ZOMBIE"} : Moves(p, to)
    BY <1>4, <1>8, <2>1 DEF Moves
  <2> QED BY <1>1, <1>6, <2>2, <2>3, <2>4, <2>5, <2>6, <2>7 DEF IInv
<1> QED BY <1>7, <1>8 DEF Take, p

(* Steps that leave the states and the queues alone. *)
LEMMA QuietKeeps ==
  ASSUME IInv, TypeOK', RunsItsCode',
         UNCHANGED <<state, ready, current_process, n_processes, active_algorithm, picking>>
  PROVE  IInv'
<1>1. Distinct(ready)' /\ ReadyQueued' /\ OnlyCurrentRuns'
  BY DEF IInv, Distinct, ReadyQueued, OnlyCurrentRuns, InQueues
<1>2. Unborn' /\ InitNeverBlocks' /\ PickerGaveUp'
  BY DEF IInv, Unborn, InitNeverBlocks, PickerGaveUp
<1> QED BY <1>1, <1>2 DEF IInv

(* priority_aging handles the signals of the processes it leaves queued. *)
LEMMA AgingSignalKeeps ==
  ASSUME IInv, AgingSignal
  PROVE  /\ IInv'
         /\ \E p \in User, to \in {"READY", "STOPPED", "ZOMBIE"} :
              state[p] = "READY" /\ Moves(p, to)
<1> USE Basics
<1>1. PICK i \in Signalled :
        LET p == ready[0][i] IN
        /\ handle_process_signals(p, IF StateAfterSignals(p) = "READY" THEN ready
                                     ELSE [ready EXCEPT ![0] = Unlink(@, i)])
        /\ state' = [state EXCEPT ![p] = StateAfterSignals(p)]
  BY DEF AgingSignal
<1> DEFINE p == ready[0][i]
           queues == [ready EXCEPT ![0] = Unlink(@, i)]
           handled == IF StateAfterSignals(p) = "READY" THEN ready ELSE queues
<1>2. /\ UNCHANGED <<counter, params, bursts, preempt_disabled, waits, multi>>
      /\ UNCHANGED <<current_process, n_processes, active_algorithm, pc, picking, scan, ticked>>
  BY DEF AgingSignal
<1>3. TypeOK /\ ready \in Queues /\ Distinct(ready) /\ i \in DOMAIN ready[0]
  BY DEF IInv, TypeOK, Queues, Signalled
<1>4. p \in User /\ state[p] = "READY"
  <2>1. ready[0] \in Seq(User)
    BY <1>3 DEF Queues
  <2>2. p \in User /\ p \in Range(ready[0])
    BY <1>3, <2>1, ElementOfSeq, LenProperties DEF Range
  <2> QED BY <2>2 DEF IInv, ReadyQueued, InQueues
<1>5. /\ queues \in Queues /\ Distinct(queues)
      /\ \A x : InQueues(queues, x) <=> InQueues(ready, x) /\ x # p
  BY <1>3, UnlinkUnlinks
<1>6. handle_process_signals(p, handled) /\ state' = [state EXCEPT ![p] = StateAfterSignals(p)]
  BY <1>1
<1> HIDE DEF p, queues, handled
<1>7. /\ StateAfterSignals(p) \in {"READY", "STOPPED", "ZOMBIE"}
      /\ ready' = handled
      /\ pending_signals' \in [PID -> SUBSET {"KILL", "STOP", "RESUME"}]
  BY <1>4, <1>6, SignalsOfQueued
<1>8. /\ ready' \in Queues /\ Distinct(ready')
      /\ \A x : InQueues(ready', x) <=>
           InQueues(ready, x) /\ (x # p \/ StateAfterSignals(p) = "READY")
  BY <1>3, <1>5, <1>7 DEF handled
<1>9. /\ state' \in [PID -> States]
      /\ \A x \in PID : state'[x] = IF x = p THEN StateAfterSignals(p) ELSE state[x]
  BY <1>3, <1>4, <1>6, <1>7 DEF TypeOK, States
<1>10. TypeOK'
  BY <1>2, <1>3, <1>7, <1>8, <1>9 DEF TypeOK, Queues, params, bursts, waits, multi
<1>11. ReadyQueued'
  BY <1>4, <1>8, <1>9 DEF IInv, ReadyQueued
<1>12. OnlyCurrentRuns' /\ InitNeverBlocks' /\ PickerGaveUp'
  <2>1. OnlyCurrentRuns'
    BY <1>2, <1>4, <1>7, <1>9 DEF IInv, OnlyCurrentRuns
  <2>2. InitNeverBlocks'
    BY <1>4, <1>9 DEF IInv, InitNeverBlocks
  <2>3. current_process \in PID
    BY <1>3 DEF TypeOK
  <2>4. PickerGaveUp'
    BY <1>2, <1>4, <1>7, <1>9, <2>3 DEF IInv, PickerGaveUp
  <2> QED BY <2>1, <2>2, <2>4
<1>13. RunsItsCode'
  BY <1>2 DEF RunsItsCode, At, AgingSignal
<1>14. Unborn'
  BY <1>2, <1>3, <1>4, <1>9 DEF IInv, Unborn, TypeOK
<1>15. Moves(p, StateAfterSignals(p))
  BY <1>9 DEF Moves
<1> QED BY <1>4, <1>7, <1>8, <1>10, <1>11, <1>12, <1>13, <1>14, <1>15 DEF IInv

(* The pick loop. *)
LEMMA PickKeeps == IInv /\ Pick => IInv'
<1> SUFFICES ASSUME IInv, Pick PROVE IInv'
  OBVIOUS
<1> USE Basics
<1>0. TypeOK /\ scan \in Levels
  BY DEF IInv, TypeOK
<1>1. CASE PickHead
  <2>1. ready[scan] \in Seq(User) /\ ready[scan] # <<>>
    BY <1>0, <1>1 DEF PickHead, TypeOK
  <2>2. 1 \in DOMAIN ready[scan]
    BY <2>1, EmptySeq, LenProperties
  <2> QED BY <1>0, <1>1, <2>2, TakeKeeps DEF PickHead
<1>2. CASE NextLevel
  <2>1. scan' \in Levels
    BY <1>0, <1>2 DEF NextLevel, LastLevel
  <2>2. TypeOK'
    BY <1>0, <1>2, <2>1 DEF NextLevel, TypeOK, params, bursts, waits, multi
  <2>3. RunsItsCode'
    BY <1>2 DEF NextLevel, RunsItsCode, At
  <2> QED BY <1>2, <2>2, <2>3, QuietKeeps DEF NextLevel
<1>3. CASE NobodyReady
  <2>1. switch_to_process(init) /\ picking
        /\ UNCHANGED <<counter, params, bursts, pending_signals, waits, multi, ready,
                       n_processes, active_algorithm, pc>>
    BY <1>3 DEF NobodyReady, DispatchInit
  <2>2. /\ state' \in [PID -> States] /\ preempt_disabled' \in [PID -> Int]
        /\ current_process' \in PID /\ picking' \in BOOLEAN /\ ticked' \in BOOLEAN
        /\ scan' \in Levels
        /\ \A x \in User : state'[x] = IF x = init THEN "RUNNING" ELSE state[x]
        /\ OnlyCurrentRuns' /\ RunsItsCode' /\ Unborn' /\ InitNeverBlocks' /\ PickerGaveUp'
    BY <2>1, SwitchKeeps
  <2>3. TypeOK'
    BY <1>0, <2>1, <2>2 DEF TypeOK, params, bursts, waits, multi
  <2>4. Distinct(ready)' /\ ReadyQueued'
    BY <2>1, <2>2 DEF IInv, Distinct, ReadyQueued, InQueues
  <2> QED BY <2>2, <2>3, <2>4 DEF IInv
<1>4. CASE PickWinner
  BY <1>4, TakeKeeps DEF PickWinner
<1>5. CASE AgingSignal
  BY <1>5, AgingSignalKeeps
<1>6. CASE PickBest
  BY <1>6, TakeKeeps DEF PickBest
<1>7. CASE NewEpoch
  <2>0. counter \in [PID -> Int] /\ priority \in [PID -> Nat]
    BY <1>0 DEF TypeOK
  <2>1. \A p \in PID : counter[p] \in Int /\ priority[p] \in Nat
    BY <2>0
  <2>2. \A p \in PID : Recharge(p) \in Int
    BY <2>1 DEF Recharge
  <2>3. counter' \in [PID -> Int]
    BY <1>7, <2>1, <2>2 DEF NewEpoch
  <2>4. TypeOK'
    BY <1>0, <1>7, <2>3 DEF NewEpoch, TypeOK, params, bursts, waits, multi
  <2>5. RunsItsCode'
    BY <1>7 DEF NewEpoch, RunsItsCode, At
  <2> QED BY <1>7, <2>4, <2>5, QuietKeeps DEF NewEpoch
<1> QED BY <1>1, <1>2, <1>3, <1>4, <1>5, <1>6, <1>7 DEF Pick

(* Boosts and demotions stay within the levels. *)
LEMMA LevelsAfterTickType ==
  ASSUME TypeOK PROVE LevelsAfterTick \in [PID -> Levels]
<1> USE Basics
<1>0. queue_level \in [PID -> Levels] /\ current_process \in PID
  BY DEF TypeOK
<1>1. BoostedLevels \in [PID -> Levels]
  BY <1>0 DEF BoostedLevels
<1>2. CASE Demotes
  <2>1. BoostedLevels[current_process] + 1 \in Levels
    BY <1>0, <1>1, <1>2 DEF Demotes
  <2> QED BY <1>0, <1>1, <1>2, <2>1 DEF LevelsAfterTick
<1>3. CASE ~Demotes
  BY <1>1, <1>3 DEF LevelsAfterTick
<1> QED BY <1>2, <1>3

LEMMA TickKeeps == IInv /\ Tick => IInv'
<1> SUFFICES ASSUME IInv, Tick PROVE IInv'
  OBVIOUS
<1> USE Basics
<1> DEFINE c == current_process
<1>0. TypeOK /\ c \in PID
  BY DEF IInv, TypeOK
<1>1. /\ BoostedQueues \in Queues /\ Distinct(BoostedQueues)
      /\ \A x : InQueues(BoostedQueues, x) <=> InQueues(ready, x)
  BY <1>0, BoostLinks DEF IInv
<1>2. LevelsAfterTick \in [PID -> Levels]
  BY <1>0, LevelsAfterTickType
<1>3. /\ UNCHANGED <<params, est_burst, pending_signals, waits, current_process,
                     n_processes, active_algorithm, pc, scan>>
      /\ queue_level' \in [PID -> Levels] /\ ticked' = picking'
  BY <1>2 DEF Tick, OnTick
<1>4. counter' \in [PID -> Int]
  <2>1. counter \in [PID -> Int]
    BY <1>0 DEF TypeOK
  <2>2. counter' = [counter EXCEPT ![c] = IF KeepsCpu THEN @ - 1 ELSE 0]
    BY DEF Tick
  <2> QED BY <1>0, <2>1, <2>2
<1>5. burst_ticks' \in [PID -> Nat]
  <2>1. burst_ticks \in [PID -> Nat] /\ MAX_BURST \in Nat
    BY <1>0, SchedulerAssumption DEF TypeOK
  <2>2. burst_ticks' = [burst_ticks EXCEPT ![c] = IF @ < MAX_BURST THEN @ + 1 ELSE MAX_BURST]
    BY DEF Tick
  <2> QED BY <1>0, <2>1, <2>2
<1>6. ml_ticks_since_boost' \in Nat
  BY <1>0 DEF Tick, OnTick, TypeOK
<1>7. CASE ready' = BoostedQueues /\ UNCHANGED <<state, preempt_disabled, picking>>
  <2>1. TypeOK'
    BY <1>0, <1>1, <1>3, <1>4, <1>5, <1>6, <1>7 DEF TypeOK, Queues, params, waits
  <2>2. Distinct(ready)' /\ ReadyQueued'
    BY <1>1, <1>7 DEF IInv, Distinct, ReadyQueued, InQueues
  <2>3. OnlyCurrentRuns' /\ RunsItsCode'
    BY <1>3, <1>7 DEF IInv, OnlyCurrentRuns, RunsItsCode, At
  <2>4. Unborn' /\ InitNeverBlocks' /\ PickerGaveUp'
    BY <1>3, <1>7 DEF IInv, Unborn, InitNeverBlocks, PickerGaveUp
  <2> QED BY <2>1, <2>2, <2>3, <2>4 DEF IInv
<1>8. CASE EnterPick(BoostedQueues, LevelsAfterTick)
  <2>1. /\ state' \in [PID -> States] /\ preempt_disabled' \in [PID -> Int] /\ picking' = TRUE
        /\ ready' \in Queues /\ Distinct(ready')
        /\ \A p \in User : state'[p] = "READY" <=> InQueues(ready', p)
        /\ \A p \in PID : state'[p] = IF p = c /\ StillRunnable THEN "READY" ELSE state[p]
    BY <1>1, <1>2, <1>8, EnterPickLinks
  <2>2. picking' \in BOOLEAN /\ ticked' \in BOOLEAN
    <3>1. picking' = TRUE /\ ticked' = TRUE
      BY <1>3, <2>1
    <3> QED BY <3>1, Zenon
  <2>3. TypeOK'
    BY <1>0, <1>3, <1>4, <1>5, <1>6, <2>1, <2>2 DEF TypeOK, Queues, params, waits
  <2>4. ReadyQueued'
    BY <2>1 DEF ReadyQueued
  <2>5. OnlyCurrentRuns'
    BY <1>3, <2>1 DEF IInv, OnlyCurrentRuns
  <2>6. RunsItsCode'
    BY <2>1 DEF RunsItsCode, At
  <2>7. Unborn'
    BY <1>0, <1>3, <2>1 DEF IInv, Unborn, TypeOK
  <2>8. InitNeverBlocks'
    BY <2>1 DEF IInv, InitNeverBlocks
  <2>9. PickerGaveUp'
    BY <1>0, <1>3, <2>1 DEF PickerGaveUp, StillRunnable
  <2> QED BY <2>1, <2>3, <2>4, <2>5, <2>6, <2>7, <2>8, <2>9 DEF IInv
<1> QED BY <1>7, <1>8 DEF Tick

(* The steps of the kernel inside a system call. *)
LEMMA ContinueKeeps == IInv /\ Continue => IInv'
<1> SUFFICES ASSUME IInv, Continue PROVE IInv'
  OBVIOUS
<1> USE Basics
<1> DEFINE c == current_process
<1>0. TypeOK /\ c \in PID
  BY DEF IInv, TypeOK
<1>1. CASE schedule
  <2>1. est_burst \in [PID -> Nat] /\ burst_ticks \in [PID -> Nat] /\ counter \in [PID -> Int]
        /\ pc \in [PID -> Labels]
    BY <1>0 DEF TypeOK
  <2>2. \A x, y \in Nat : (x + y) \div 2 \in Nat
    OBVIOUS
  <2>3. est_burst' \in [PID -> Nat] /\ burst_ticks' \in [PID -> Nat]
    <3>1. CASE state[c] \notin {"RUNNING", "READY"}
      <4>1. /\ est_burst' = [est_burst EXCEPT ![c] = (burst_ticks[c] + @) \div 2]
            /\ burst_ticks' = [burst_ticks EXCEPT ![c] = 0]
        BY <1>1, <3>1 DEF schedule
      <4>2. (burst_ticks[c] + est_burst[c]) \div 2 \in Nat
        BY <1>0, <2>1, <2>2
      <4> QED BY <1>0, <2>1, <4>1, <4>2
    <3>2. CASE state[c] \in {"RUNNING", "READY"}
      BY <1>1, <2>1, <3>2 DEF schedule, bursts
    <3> QED BY <3>1, <3>2
  <2>4. counter' \in [PID -> Int] /\ pc' = [pc EXCEPT ![c] = "pick"]
    BY <1>0, <1>1, <2>1 DEF schedule, GoTo
  <2>5. TypeOK'
    BY <1>0, <1>1, <2>1, <2>3, <2>4 DEF schedule, TypeOK, Labels, params, waits, multi
  <2>6. RunsItsCode'
    BY <1>0, <1>1, <2>1, <2>4 DEF schedule, RunsItsCode, At
  <2> QED BY <1>1, <2>5, <2>6, QuietKeeps DEF schedule
<1>2. CASE _schedule
  <2>0. ready \in Queues /\ Distinct(ready) /\ queue_level \in [PID -> Levels]
    BY <1>0 DEF IInv, TypeOK, Queues
  <2>1. /\ state' \in [PID -> States] /\ preempt_disabled' \in [PID -> Int] /\ picking' = TRUE
        /\ ready' \in Queues /\ Distinct(ready')
        /\ \A p \in User : state'[p] = "READY" <=> InQueues(ready', p)
        /\ \A p \in PID : state'[p] = IF p = c /\ StillRunnable THEN "READY" ELSE state[p]
    BY <1>2, <2>0, EnterPickLinks DEF _schedule
  <2>2. picking' \in BOOLEAN
    BY <2>1, Zenon
  <2>3. pc' \in [PID -> Labels]
    BY <1>0, <1>2 DEF _schedule, GoTo, TypeOK, Labels
  <2>4. UNCHANGED <<counter, params, bursts, pending_signals, waits, multi,
                    current_process, n_processes, active_algorithm, scan, ticked>>
    BY <1>2 DEF _schedule
  <2>5. TypeOK'
    BY <1>0, <2>1, <2>2, <2>3, <2>4 DEF TypeOK, Queues, params, bursts, waits, multi
  <2>6. ReadyQueued' /\ OnlyCurrentRuns'
    BY <2>1, <2>4 DEF IInv, ReadyQueued, OnlyCurrentRuns
  <2>7. RunsItsCode' /\ InitNeverBlocks'
    BY <2>1 DEF IInv, RunsItsCode, At, InitNeverBlocks
  <2>8. Unborn'
    BY <1>0, <2>1, <2>4 DEF IInv, Unborn, TypeOK
  <2>9. PickerGaveUp'
    BY <1>0, <2>1, <2>4 DEF PickerGaveUp, StillRunnable
  <2> QED BY <2>1, <2>5, <2>6, <2>7, <2>8, <2>9 DEF IInv
<1>3. CASE WaitState
  <2>1. /\ c \in User /\ c # init /\ state[c] = "RUNNING" /\ ~picking
        /\ state \in [PID -> States] /\ pc \in [PID -> Labels]
    BY <1>0, <1>3 DEF WaitState, At, IInv, RunsItsCode, TypeOK
  <2>2. /\ state' = [state EXCEPT ![c] = "WAITING_ANOTHER_PROCESS"]
        /\ pc' = [pc EXCEPT ![c] = "wait_pid"]
        /\ UNCHANGED <<counter, params, bursts, preempt_disabled, pending_signals, waits, multi,
                       ready, current_process, n_processes, active_algorithm, picking, scan, ticked>>
    BY <1>3 DEF WaitState, GoTo
  <2>3. state' \in [PID -> States] /\ pc' \in [PID -> Labels]
    BY <2>1, <2>2 DEF States, Labels
  <2>4. TypeOK'
    BY <1>0, <2>2, <2>3 DEF TypeOK, params, bursts, waits, multi
  <2>5. Distinct(ready)' /\ ReadyQueued'
    BY <2>1, <2>2 DEF IInv, Distinct, ReadyQueued, InQueues
  <2>6. OnlyCurrentRuns' /\ InitNeverBlocks' /\ PickerGaveUp'
    BY <2>1, <2>2 DEF IInv, OnlyCurrentRuns, InitNeverBlocks, PickerGaveUp
  <2>7. RunsItsCode'
    BY <2>1, <2>2 DEF RunsItsCode, At
  <2>8. Unborn'
    BY <1>0, <2>1, <2>2 DEF IInv, Unborn, TypeOK
  <2> QED BY <2>4, <2>5, <2>6, <2>7, <2>8 DEF IInv
<1>4. CASE WaitPid
  <2>1. /\ pid_to_wait \in [PID -> PID \cup {NONE}] /\ wait_arg \in [PID -> PID]
        /\ pc \in [PID -> Labels]
    BY <1>0 DEF TypeOK
  <2>2. /\ pid_to_wait' = [pid_to_wait EXCEPT ![c] = wait_arg[c]]
        /\ wait_arg' = [wait_arg EXCEPT ![c] = 0] /\ pc' = [pc EXCEPT ![c] = "sched"]
    BY <1>4 DEF WaitPid, GoTo
  <2>3. /\ pid_to_wait' \in [PID -> PID \cup {NONE}] /\ wait_arg' \in [PID -> PID]
        /\ pc' \in [PID -> Labels]
    BY <1>0, <2>1, <2>2 DEF Labels
  <2>4. TypeOK'
    BY <1>0, <1>4, <2>3 DEF WaitPid, TypeOK, params, bursts, multi
  <2>5. RunsItsCode'
    BY <1>0, <1>4, <2>1, <2>2 DEF WaitPid, RunsItsCode, At
  <2> QED BY <1>4, <2>4, <2>5, QuietKeeps DEF WaitPid
<1>5. CASE ExitWakes
  <2>1. PICK p \in PID : /\ WaitsFor(p, c)
                         /\ state' = [state EXCEPT ![p] = "READY"]
                         /\ pid_to_wait' = [pid_to_wait EXCEPT ![p] = NONE]
                         /\ ready' = Enqueue(ready, queue_level, p)
    BY <1>5 DEF ExitWakes
  <2>2. /\ UNCHANGED <<counter, params, bursts, preempt_disabled, pending_signals, wait_arg, multi,
                       current_process, n_processes, active_algorithm, pc, picking, scan, ticked>>
        /\ ~picking /\ pc[c] = "exit_scan"
    BY <1>5 DEF ExitWakes, At
  <2>3. /\ p \in User /\ state[p] = "WAITING_ANOTHER_PROCESS" /\ p < n_processes
        /\ ~InQueues(ready, p)
    BY <2>1 DEF WaitsFor, Exists, IInv, InitNeverBlocks, ReadyQueued
  <2> DEFINE l == LevelOf(queue_level, p)
             length == est_burst[p]
  <2>4. /\ ready \in Queues /\ Distinct(ready) /\ l \in Levels /\ length \in Nat
        /\ ready' = [ready EXCEPT ![l] = Insert(@, p, length)]
    BY <1>0, <2>1, <2>3 DEF IInv, TypeOK, Queues, LevelOf, Enqueue
  <2>5. /\ ready' \in Queues /\ Distinct(ready')
        /\ \A x : InQueues(ready', x) <=> InQueues(ready, x) \/ x = p
    <3> HIDE DEF l, length
    <3> QED BY <1>0, <2>3, <2>4, EnqueueLinks
  <2>6. /\ state' \in [PID -> States] /\ pid_to_wait' \in [PID -> PID \cup {NONE}]
        /\ \A x \in PID : state'[x] = IF x = p THEN "READY" ELSE state[x]
    BY <1>0, <2>1 DEF TypeOK, States
  <2>7. TypeOK'
    BY <1>0, <2>2, <2>5, <2>6 DEF TypeOK, Queues, params, bursts, multi
  <2>8. ReadyQueued' /\ OnlyCurrentRuns'
    BY <2>2, <2>5, <2>6 DEF IInv, ReadyQueued, OnlyCurrentRuns
  <2>9. RunsItsCode' /\ InitNeverBlocks' /\ PickerGaveUp'
    BY <2>2, <2>3, <2>6 DEF IInv, RunsItsCode, At, InitNeverBlocks, PickerGaveUp
  <2>10. Unborn'
    BY <1>0, <2>2, <2>3, <2>6 DEF IInv, Unborn, TypeOK
  <2> QED BY <2>5, <2>7, <2>8, <2>9, <2>10 DEF IInv
<1>6. CASE ExitDone
  <2>1. preempt_disabled \in [PID -> Int] /\ pc \in [PID -> Labels]
    BY <1>0 DEF TypeOK
  <2>2. preempt_disabled' \in [PID -> Int] /\ pc' = [pc EXCEPT ![c] = "sched"]
    BY <1>0, <1>6, <2>1 DEF ExitDone, preempt_enable, GoTo
  <2>3. TypeOK'
    BY <1>0, <1>6, <2>1, <2>2 DEF ExitDone, TypeOK, Labels, params, bursts, waits, multi
  <2>4. RunsItsCode'
    BY <1>0, <1>6, <2>1, <2>2 DEF ExitDone, RunsItsCode, At
  <2> QED BY <1>6, <2>3, <2>4, QuietKeeps DEF ExitDone
<1> QED BY <1>1, <1>2, <1>3, <1>4, <1>5, <1>6 DEF Continue

(* What user programs ask for. *)
LEMMA SyscallKeeps == IInv /\ Syscall => IInv'
<1> SUFFICES ASSUME IInv, Syscall PROVE IInv'
  OBVIOUS
<1> USE Basics
<1> DEFINE c == current_process
<1>0. TypeOK /\ c \in PID /\ n_processes \in 2 .. N_PROCESSES
  BY DEF IInv, TypeOK
<1>1. CASE syscall_yield
  <2>1. counter \in [PID -> Int] /\ pc \in [PID -> Labels]
    BY <1>0 DEF TypeOK
  <2>2. counter' \in [PID -> Int] /\ pc' = [pc EXCEPT ![c] = "sched"]
    BY <1>0, <1>1, <2>1 DEF syscall_yield, GoTo
  <2>3. TypeOK'
    BY <1>0, <1>1, <2>1, <2>2 DEF syscall_yield, TypeOK, Labels, params, bursts, waits, multi
  <2>4. RunsItsCode'
    BY <1>0, <1>1, <2>1, <2>2 DEF syscall_yield, RunsItsCode, At
  <2> QED BY <1>1, <2>3, <2>4, QuietKeeps DEF syscall_yield
<1>2. CASE syscall_fork
  <2> DEFINE child == n_processes
             levels == [queue_level EXCEPT ![child] = StartLevel(c)]
  <2>1. child \in User /\ child # c /\ state[child] = "ZERO" /\ ~InQueues(ready, child)
    BY <1>0, <1>2 DEF syscall_fork, IInv, Unborn, ReadyQueued
  <2>2. /\ state \in [PID -> States] /\ counter \in [PID -> Int] /\ priority \in [PID -> Nat]
        /\ tickets \in [PID -> Nat] /\ est_burst \in [PID -> Nat]
        /\ queue_priority \in [PID -> Levels] /\ queue_level \in [PID -> Levels]
        /\ preempt_disabled \in [PID -> Int] /\ ready \in Queues
    BY <1>0 DEF TypeOK, Queues
  <2>3. StartLevel(c) \in Levels
    BY <1>0, <2>2 DEF StartLevel
  <2>4. /\ priority' = [priority EXCEPT ![child] = priority[c]]
        /\ tickets' = [tickets EXCEPT ![child] = tickets[c]]
        /\ queue_priority' = [queue_priority EXCEPT ![child] = queue_priority[c]]
        /\ counter' = [counter EXCEPT ![child] = QUANTUM]
        /\ est_burst' = [est_burst EXCEPT ![child] = est_burst[c]]
        /\ queue_level' = levels
        /\ preempt_disabled' = [preempt_disabled EXCEPT ![child] = 1]
        /\ state' = [state EXCEPT ![child] = "READY"]
        /\ ready' = [ready EXCEPT ![LevelOf(levels, child)] = Insert(@, child, est_burst[c])]
        /\ n_processes' = n_processes + 1
        /\ UNCHANGED <<burst_ticks, pending_signals, waits, ml_ticks_since_boost, active_algorithm,
                       current_process, pc, picking, scan, ticked>>
    BY <1>2 DEF syscall_fork
  <2>5. levels \in [PID -> Levels] /\ LevelOf(levels, child) \in Levels /\ est_burst[c] \in Nat
    BY <1>0, <2>1, <2>2, <2>3 DEF LevelOf
  <2>6. n_processes' \in 2 .. N_PROCESSES
    BY <1>0, <1>2 DEF syscall_fork
  <2> HIDE DEF levels, child
  <2>7. /\ ready' \in Queues /\ Distinct(ready')
        /\ \A x : InQueues(ready', x) <=> InQueues(ready, x) \/ x = child
    <3>1. Distinct(ready)
      BY DEF IInv
    <3> DEFINE new == [ready EXCEPT ![LevelOf(levels, child)] = Insert(@, child, est_burst[c])]
    <3>2. /\ new \in Queues /\ Distinct(new)
          /\ \A x : InQueues(new, x) <=> InQueues(ready, x) \/ x = child
      BY <1>0, <2>1, <2>2, <2>5, <3>1, EnqueueLinks
    <3> QED BY <2>4, <3>2
  <2>8. /\ priority' \in [PID -> Nat] /\ tickets' \in [PID -> Nat] /\ est_burst' \in [PID -> Nat]
        /\ queue_priority' \in [PID -> Levels] /\ counter' \in [PID -> Int]
        /\ preempt_disabled' \in [PID -> Int]
    <3>1. QUANTUM \in Int
      BY SchedulerAssumption
    <3>2. priority' \in [PID -> Nat] /\ tickets' \in [PID -> Nat] /\ est_burst' \in [PID -> Nat]
      BY <1>0, <2>1, <2>2, <2>4
    <3>3. queue_priority' \in [PID -> Levels]
      BY <1>0, <2>1, <2>2, <2>4
    <3>4. counter' \in [PID -> Int] /\ preempt_disabled' \in [PID -> Int]
      BY <2>1, <2>2, <2>4, <3>1
    <3> QED BY <3>2, <3>3, <3>4
  <2>9. /\ state' \in [PID -> States]
        /\ \A x \in PID : state'[x] = IF x = child THEN "READY" ELSE state[x]
    BY <2>1, <2>2, <2>4 DEF States
  <2>10. TypeOK'
    BY <1>0, <2>4, <2>5, <2>6, <2>7, <2>8, <2>9 DEF TypeOK, Queues, waits
  <2>11. ReadyQueued' /\ OnlyCurrentRuns'
    BY <2>4, <2>7, <2>9 DEF IInv, ReadyQueued, OnlyCurrentRuns
  <2>12. RunsItsCode' /\ InitNeverBlocks' /\ PickerGaveUp'
    BY <1>0, <2>1, <2>4, <2>9 DEF IInv, RunsItsCode, At, InitNeverBlocks, PickerGaveUp
  <2>13. Unborn'
    BY <1>0, <2>4, <2>9 DEF IInv, Unborn, child
  <2> QED BY <2>7, <2>10, <2>11, <2>12, <2>13 DEF IInv
<1>3. CASE ForkFails
  <2>1. preempt_disabled' \in [PID -> Int]
    <3>1. preempt_disabled \in [PID -> Int]
      BY <1>0 DEF TypeOK
    <3>2. preempt_disabled' = [preempt_disabled EXCEPT ![c] = @ + 1]
      BY <1>3 DEF ForkFails, preempt_disable
    <3> QED BY <1>0, <3>1, <3>2
  <2>2. TypeOK'
    BY <1>0, <1>3, <2>1 DEF ForkFails, TypeOK, params, bursts, waits, multi
  <2>3. RunsItsCode'
    BY <1>3 DEF ForkFails, IInv, RunsItsCode, At
  <2> QED BY <1>3, <2>2, <2>3, QuietKeeps DEF ForkFails
<1>4. CASE exit_process
  <2>1. /\ c \in User /\ c # init /\ state[c] = "RUNNING" /\ ~picking
        /\ state \in [PID -> States] /\ pc \in [PID -> Labels]
        /\ preempt_disabled \in [PID -> Int]
    BY <1>0, <1>4 DEF exit_process, At, IInv, RunsItsCode, TypeOK
  <2>2. /\ state' = [state EXCEPT ![c] = "ZOMBIE"]
        /\ pc' = [pc EXCEPT ![c] = "exit_scan"]
        /\ preempt_disabled' = [preempt_disabled EXCEPT ![c] = @ + 1]
        /\ UNCHANGED <<counter, params, bursts, pending_signals, waits, multi, ready,
                       current_process, n_processes, active_algorithm, picking, scan, ticked>>
    BY <1>4 DEF exit_process, GoTo, preempt_disable
  <2>3. state' \in [PID -> States] /\ pc' \in [PID -> Labels] /\ preempt_disabled' \in [PID -> Int]
    BY <2>1, <2>2 DEF States, Labels
  <2>4. TypeOK'
    BY <1>0, <2>2, <2>3 DEF TypeOK, params, bursts, waits, multi
  <2>5. Distinct(ready)' /\ ReadyQueued'
    BY <2>1, <2>2 DEF IInv, Distinct, ReadyQueued, InQueues
  <2>6. OnlyCurrentRuns' /\ InitNeverBlocks' /\ PickerGaveUp'
    BY <2>1, <2>2 DEF IInv, OnlyCurrentRuns, InitNeverBlocks, PickerGaveUp
  <2>7. RunsItsCode'
    BY <2>1, <2>2 DEF RunsItsCode, At
  <2>8. Unborn'
    BY <1>0, <2>1, <2>2 DEF IInv, Unborn, TypeOK
  <2> QED BY <2>4, <2>5, <2>6, <2>7, <2>8 DEF IInv
<1>5. ASSUME NEW pid \in WAIT_TARGETS, syscall_wait(pid) PROVE IInv'
  <2>1. wait_arg \in [PID -> PID] /\ pc \in [PID -> Labels] /\ pid \in PID
    BY <1>0, SchedulerAssumption DEF TypeOK
  <2>2. wait_arg' \in [PID -> PID] /\ pc' = [pc EXCEPT ![c] = "wait_state"]
    BY <1>0, <1>5, <2>1 DEF syscall_wait, GoTo
  <2>3. TypeOK'
    BY <1>0, <1>5, <2>1, <2>2 DEF syscall_wait, TypeOK, Labels, params, bursts, multi
  <2>4. RunsItsCode'
    BY <1>0, <1>5, <2>1, <2>2 DEF syscall_wait, IInv, RunsItsCode, At
  <2> QED BY <1>5, <2>3, <2>4, QuietKeeps DEF syscall_wait
<1>6. ASSUME NEW pid \in SIGNAL_TARGETS, NEW signal \in SIGNALS, syscall_send_signal(pid, signal)
      PROVE  IInv'
  <2>1. pid \in PID /\ signal \in {"KILL", "STOP", "RESUME"}
    BY SchedulerAssumption
  <2>2. pending_signals' \in [PID -> SUBSET {"KILL", "STOP", "RESUME"}]
    BY <1>0, <1>6, <2>1 DEF syscall_send_signal, TypeOK
  <2>3. TypeOK'
    BY <1>0, <1>6, <2>2 DEF syscall_send_signal, TypeOK, params, bursts, waits, multi
  <2>4. RunsItsCode'
    BY <1>6 DEF syscall_send_signal, IInv, RunsItsCode, At
  <2> QED BY <1>6, <2>3, <2>4, QuietKeeps DEF syscall_send_signal
<1>7. ASSUME NEW pid \in PID, sched_set_param(pid) PROVE IInv'
  <2>1. /\ priority \in [PID -> Nat] /\ tickets \in [PID -> Nat]
        /\ queue_priority \in [PID -> Levels] /\ queue_level \in [PID -> Levels]
    BY <1>0 DEF TypeOK
  <2>2. /\ \A value \in PRIORITIES \cup TICKETS : value \in Nat
        /\ \A value \in QUEUE_PRIORITIES :
             (IF IsMultilevel /\ value >= N_LEVELS THEN N_LEVELS - 1 ELSE value) \in Levels
    BY SchedulerAssumption
  <2>3. /\ priority' \in [PID -> Nat] /\ tickets' \in [PID -> Nat]
        /\ queue_priority' \in [PID -> Levels] /\ queue_level' \in [PID -> Levels]
    <3>1. CASE \E value \in PRIORITIES :
                 /\ priority' = [priority EXCEPT ![pid] = value]
                 /\ UNCHANGED <<tickets, queue_priority, queue_level>>
      BY <2>1, <2>2, <3>1
    <3>2. CASE \E value \in TICKETS :
                 /\ tickets' = [tickets EXCEPT ![pid] = value]
                 /\ UNCHANGED <<priority, queue_priority, queue_level>>
      BY <2>1, <2>2, <3>2
    <3>3. CASE \E value \in QUEUE_PRIORITIES :
                 LET level == IF IsMultilevel /\ value >= N_LEVELS THEN N_LEVELS - 1 ELSE value IN
                 /\ queue_priority' = [queue_priority EXCEPT ![pid] = level]
                 /\ queue_level' = [queue_level EXCEPT ![pid] = level]
                 /\ UNCHANGED <<priority, tickets>>
      <4>1. PICK level \in Levels :
                 /\ queue_priority' = [queue_priority EXCEPT ![pid] = level]
                 /\ queue_level' = [queue_level EXCEPT ![pid] = level]
                 /\ UNCHANGED <<priority, tickets>>
        BY <2>2, <3>3
      <4> QED BY <2>1, <4>1
    <3> QED BY <1>7, <3>1, <3>2, <3>3 DEF sched_set_param
  <2>4. TypeOK'
    BY <1>0, <1>7, <2>3 DEF sched_set_param, TypeOK, bursts, waits
  <2>5. RunsItsCode'
    BY <1>7 DEF sched_set_param, IInv, RunsItsCode, At
  <2> QED BY <1>7, <2>4, <2>5, QuietKeeps DEF sched_set_param
<1> QED BY <1>1, <1>2, <1>3, <1>4, <1>5, <1>6, <1>7 DEF Syscall

(* Every step of the scheduler preserves the inductive invariant. *)
LEMMA NextKeeps == IInv /\ [Next]_vars => IInv'
<1> SUFFICES ASSUME IInv, [Next]_vars PROVE IInv'
  OBVIOUS
<1>1. CASE UNCHANGED vars
  <2>1. TypeOK' /\ RunsItsCode'
    BY <1>1 DEF IInv, TypeOK, RunsItsCode, At, vars, params, bursts, waits, multi
  <2> QED BY <1>1, <2>1, QuietKeeps DEF vars
<1>2. CASE Next
  BY <1>2, TickKeeps, PickKeeps, ContinueKeeps, SyscallKeeps DEF Next
<1> QED BY <1>1, <1>2

(* The inductive invariant holds throughout every behaviour. *)
THEOREM AlwaysIInv == Spec => []IInv
BY InitIInv, NextKeeps, PTL DEF Spec

(* The kernel never writes outside processes[], ml_queues[] and the signal   *)
(* set: every variable keeps its type, for every algorithm.                  *)
THEOREM TypeCorrect == Spec => []TypeOK
<1>1. IInv => TypeOK
  BY DEF IInv
<1> QED BY <1>1, AlwaysIInv, PTL

(* scheduler.h: at most one process is RUNNING, and it is the one that has   *)
(* the CPU.                                                                  *)
THEOREM OneRunning == Spec => []RunningIsCurrent
<1>1. IInv => RunningIsCurrent
  BY DEF IInv, OnlyCurrentRuns, RunsItsCode, RunningIsCurrent
<1> QED BY <1>1, AlwaysIInv, PTL

(* Nobody runnable is lost and nobody is linked twice, whatever the ticks,   *)
(* boosts, signals and system calls interleave.                              *)
THEOREM QueuesSound == Spec => []ReadyIsQueuedOnce
<1>1. IInv => ReadyIsQueuedOnce
  BY DEF IInv, Distinct, ReadyQueued, InQueues, ReadyIsQueuedOnce, LinkedOnce, Queued
<1> QED BY <1>1, AlwaysIInv, PTL

----------------------------------------------------------------------------
(* The scheduler implements Lifecycle. *)

(* Changing the state of one process changes the status of that process. *)
LEMMA MoveStatus ==
  ASSUME NEW p \in User, NEW to, Moves(p, to), NEW From,
         StatusOf(state[p]) \in From
  PROVE  Promise!Move(From, StatusOf(to))
<1>1. ProcessStatus' = [ProcessStatus EXCEPT ![p] = StatusOf(to)]
  BY DEF Moves, ProcessStatus, StatusOf
<1>2. ProcessStatus[p] \in From
  BY DEF ProcessStatus
<1> QED BY <1>1, <1>2 DEF Promise!Move

(* A step that changes no user process's state stutters. *)
LEMMA StutterStatus ==
  ASSUME \A x \in User : state'[x] = state[x]
  PROVE  UNCHANGED ProcessStatus
BY DEF StatusOf, ProcessStatus

(* The pick loop: a dispatch happens only when nobody is RUNNING. *)
LEMMA PickImplements ==
  ASSUME IInv, Pick
  PROVE  Promise!Next \/ UNCHANGED ProcessStatus
<1> USE Basics
<1>0. picking /\ scan \in Levels /\ ready \in [Levels -> Seq(User)]
  BY DEF Pick, PickHead, NextLevel, NobodyReady, PickWinner, AgingSignal, PickBest, NewEpoch,
         IInv, TypeOK
<1>1. \A q \in User : state[q] # "RUNNING"
  BY <1>0 DEF IInv, OnlyCurrentRuns, PickerGaveUp
<1>2. ASSUME NEW p \in User, NEW to \in {"READY", "RUNNING", "STOPPED", "ZOMBIE"},
             state[p] = "READY", Moves(p, to)
      PROVE  Promise!Next \/ UNCHANGED ProcessStatus
  <2>0. StatusOf(state[p]) \in {"ready"}
    BY <1>2 DEF StatusOf
  <2>1. CASE to = "RUNNING"
    <3>1. StatusOf("RUNNING") = "running"
      BY DEF StatusOf
    <3>2. Promise!Move({"ready"}, "running")
      BY <1>2, <2>0, <2>1, <3>1, MoveStatus
    <3>3. \A q \in User : ProcessStatus[q] # "running"
      BY <1>1 DEF StatusOf, ProcessStatus
    <3> QED BY <3>2, <3>3 DEF Promise!Next, Promise!Dispatch
  <2>2. CASE to = "STOPPED"
    <3>1. StatusOf("STOPPED") = "stopped"
      BY DEF StatusOf
    <3>2. Promise!Move({"ready"}, "stopped")
      BY <1>2, <2>0, <2>2, <3>1, MoveStatus
    <3> QED BY <3>2 DEF Promise!Next, Promise!Stop
  <2>3. CASE to = "ZOMBIE"
    <3>1. StatusOf("ZOMBIE") = "dead"
      BY DEF StatusOf
    <3>2. Promise!Move({"ready"}, "dead")
      BY <1>2, <2>0, <2>3, <3>1, MoveStatus
    <3> QED BY <3>2 DEF Promise!Next, Promise!Kill
  <2>4. CASE to = "READY"
    <3>1. \A x \in User : state'[x] = state[x]
      BY <1>2, <2>4 DEF Moves
    <3> QED BY <3>1, StutterStatus
  <2> QED BY <2>1, <2>2, <2>3, <2>4
<1>3. ASSUME NEW l \in Levels, NEW i \in DOMAIN ready[l], Take(l, i)
      PROVE  Promise!Next \/ UNCHANGED ProcessStatus
  <2>1. PICK p \in User, to \in {"RUNNING", "STOPPED", "ZOMBIE"} :
          state[p] = "READY" /\ Moves(p, to)
    BY <1>0, <1>3, TakeKeeps
  <2> QED BY <2>1, <1>2
<1>4. CASE PickHead
  <2>1. ready[scan] \in Seq(User) /\ ready[scan] # <<>>
    BY <1>0, <1>4 DEF PickHead
  <2>2. 1 \in DOMAIN ready[scan]
    BY <2>1, EmptySeq, LenProperties
  <2> QED BY <1>0, <1>3, <1>4, <2>2 DEF PickHead
<1>5. CASE PickWinner
  BY <1>3, <1>5 DEF PickWinner
<1>6. CASE PickBest
  BY <1>3, <1>6 DEF PickBest
<1>7. CASE AgingSignal
  <2>1. PICK p \in User, to \in {"READY", "STOPPED", "ZOMBIE"} :
          state[p] = "READY" /\ Moves(p, to)
    BY <1>7, AgingSignalKeeps
  <2> QED BY <2>1, <1>2
<1>8. CASE NobodyReady
  <2>1. switch_to_process(init) /\ pc' = pc /\ n_processes' = n_processes
    BY <1>8 DEF NobodyReady, DispatchInit
  <2>2. \A x \in User : state'[x] = IF x = init THEN "RUNNING" ELSE state[x]
    BY <1>0, <2>1, SwitchKeeps
  <2>3. \A x \in User : state'[x] = state[x]
    BY <2>2
  <2> QED BY <2>3, StutterStatus
<1>9. CASE NextLevel \/ NewEpoch
  <2>1. \A x \in User : state'[x] = state[x]
    BY <1>9 DEF NextLevel, NewEpoch
  <2> QED BY <2>1, StutterStatus
<1> QED BY <1>4, <1>5, <1>6, <1>7, <1>8, <1>9 DEF Pick

(* Leaving the CPU: only the process that has it moves. *)
LEMMA EnterPickImplements ==
  ASSUME IInv, StillRunnable => Moves(current_process, "READY"),
         ~StillRunnable => \A x \in User : state'[x] = state[x]
  PROVE  Promise!Next \/ UNCHANGED ProcessStatus
<1> USE Basics
<1>1. CASE StillRunnable
  <2>1. current_process \in User /\ StatusOf(state[current_process]) \in {"running"}
        /\ StatusOf("READY") = "ready"
    BY <1>1 DEF IInv, TypeOK, StillRunnable, StatusOf
  <2>2. Promise!Move({"running"}, "ready")
    BY <1>1, <2>1, MoveStatus
  <2> QED BY <2>2 DEF Promise!Next, Promise!Preempt
<1>2. CASE ~StillRunnable
  BY <1>2, StutterStatus
<1> QED BY <1>1, <1>2

(* Every step of the scheduler is a step of Lifecycle. *)
LEMMA NextImplements ==
  ASSUME IInv, [Next]_vars
  PROVE  Promise!Next \/ UNCHANGED ProcessStatus
<1> USE Basics
<1> DEFINE c == current_process
<1>0. TypeOK /\ c \in PID /\ n_processes \in 2 .. N_PROCESSES /\ state \in [PID -> States]
  BY DEF IInv, TypeOK
<1>1. CASE Tick
  <2>1. CASE state' = state
    <3>1. \A x \in User : state'[x] = state[x]
      BY <2>1
    <3> QED BY <3>1, StutterStatus
  <2>2. CASE EnterPick(BoostedQueues, LevelsAfterTick)
    <3>1. /\ StillRunnable => Moves(c, "READY")
          /\ ~StillRunnable => \A x \in User : state'[x] = state[x]
      BY <1>0, <2>2 DEF EnterPick, Moves
    <3> QED BY <3>1, EnterPickImplements
  <2> QED BY <1>1, <2>1, <2>2 DEF Tick
<1>2. CASE Pick
  BY <1>2, PickImplements
<1>3. CASE _schedule
  <2>1. /\ StillRunnable => Moves(c, "READY")
        /\ ~StillRunnable => \A x \in User : state'[x] = state[x]
    BY <1>0, <1>3 DEF _schedule, EnterPick, Moves
  <2> QED BY <2>1, EnterPickImplements
<1>4. CASE WaitState
  <2>1. c \in User /\ state[c] = "RUNNING" /\ Moves(c, "WAITING_ANOTHER_PROCESS")
    BY <1>0, <1>4 DEF WaitState, At, IInv, RunsItsCode, Moves
  <2>2. StatusOf(state[c]) \in {"running"} /\ StatusOf("WAITING_ANOTHER_PROCESS") = "blocked"
    BY <2>1 DEF StatusOf
  <2>3. Promise!Move({"running"}, "blocked")
    BY <2>1, <2>2, MoveStatus
  <2> QED BY <2>3 DEF Promise!Next, Promise!Block
<1>5. CASE ExitWakes
  <2>1. PICK p \in PID : WaitsFor(p, c) /\ state' = [state EXCEPT ![p] = "READY"]
    BY <1>5 DEF ExitWakes
  <2>2. p \in User /\ state[p] = "WAITING_ANOTHER_PROCESS" /\ Moves(p, "READY")
    BY <1>0, <2>1 DEF WaitsFor, IInv, InitNeverBlocks, Moves
  <2>3. StatusOf(state[p]) \in {"blocked"} /\ StatusOf("READY") = "ready"
    BY <2>2 DEF StatusOf
  <2>4. Promise!Move({"blocked"}, "ready")
    BY <2>2, <2>3, MoveStatus
  <2> QED BY <2>4 DEF Promise!Next, Promise!Wake
<1>6. CASE exit_process
  <2>1. c \in User /\ state[c] = "RUNNING" /\ Moves(c, "ZOMBIE")
    BY <1>0, <1>6 DEF exit_process, At, IInv, RunsItsCode, Moves
  <2>2. StatusOf(state[c]) \in {"running"} /\ StatusOf("ZOMBIE") = "dead"
    BY <2>1 DEF StatusOf
  <2>3. Promise!Move({"running"}, "dead")
    BY <2>1, <2>2, MoveStatus
  <2> QED BY <2>3 DEF Promise!Next, Promise!Exit
<1>7. CASE syscall_fork
  <2>0. state' = [state EXCEPT ![n_processes] = "READY"] /\ n_processes < N_PROCESSES
    BY <1>7 DEF syscall_fork
  <2>1. n_processes \in User /\ state[n_processes] = "ZERO" /\ Moves(n_processes, "READY")
    BY <1>0, <2>0 DEF IInv, Unborn, Moves
  <2>2. StatusOf(state[n_processes]) \in {"unused"} /\ StatusOf("READY") = "ready"
    BY <2>1 DEF StatusOf
  <2>3. Promise!Move({"unused"}, "ready")
    BY <2>1, <2>2, MoveStatus
  <2> QED BY <2>3 DEF Promise!Next, Promise!Create
<1>8. CASE UNCHANGED state
  <2>1. \A x \in User : state'[x] = state[x]
    BY <1>8
  <2> QED BY <2>1, StutterStatus
<1>9. schedule \/ WaitPid \/ ExitDone \/ syscall_yield \/ ForkFails
      \/ (\E pid \in WAIT_TARGETS : syscall_wait(pid))
      \/ (\E pid \in SIGNAL_TARGETS, signal \in SIGNALS : syscall_send_signal(pid, signal))
      \/ (\E pid \in PID : sched_set_param(pid))
        => UNCHANGED state
  BY DEF schedule, WaitPid, ExitDone, syscall_yield, ForkFails, syscall_wait,
         syscall_send_signal, sched_set_param
<1>10. UNCHANGED vars => UNCHANGED state
  BY DEF vars
<1> QED BY <1>1, <1>2, <1>3, <1>4, <1>5, <1>6, <1>7, <1>8, <1>9, <1>10
        DEF Next, Continue, Syscall

(* The scheduler keeps the promise of Lifecycle: a process runs only after   *)
(* having been READY, one at a time, and a blocked, stopped or ended process *)
(* does not run, for every algorithm and number of processes.                *)
THEOREM KeepsPromise == Spec => ImplementsLifecycle
<1>1. Init => Promise!Init
  BY Basics DEF Init, Promise!Init, StatusOf, ProcessStatus
<1>2. IInv /\ [Next]_vars => [Promise!Next]_ProcessStatus
  BY NextImplements
<1> QED BY <1>1, <1>2, AlwaysIInv, PTL DEF Spec, ImplementsLifecycle, Promise!Spec

-----------------------------------------------------------------------------
(***************************************************************************)
(* More proofs about the scheduler, on top of the inductive invariant of   *)
(* the first part: preempt_disable is balanced; the levels recorded for    *)
(* processes are the levels they are queued at, and the cascade serves the *)
(* highest one; init runs only when nobody else can; the SJF queue is      *)
(* sorted; the aging bonus is capped; no process is left waiting for one   *)
(* that has exited; and the lottery is proportional.                       *)
(*                                                                         *)
(* Each part has an inductive invariant of its own, which is preserved     *)
(* given IInv before and after the step.                                   *)
(***************************************************************************)

(* What taking process i of queue l out does, whatever its signals are: it   *)
(* leaves the queue and either gets the CPU or stops being READY.            *)
LEMMA TakeEffect ==
  ASSUME IInv, NEW l \in Levels, NEW i \in DOMAIN ready[l], Take(l, i)
  PROVE  /\ ready[l][i] \in User /\ state[ready[l][i]] = "READY"
         /\ ready' = [ready EXCEPT ![l] = Unlink(@, i)]
         /\ UNCHANGED <<params, bursts, waits, multi, n_processes, active_algorithm, pc>>
         /\ \/ /\ counter' = [counter EXCEPT ![ready[l][i]] = Recharged(ready[l][i], l)]
               /\ switch_to_process(ready[l][i])
            \/ /\ state' = [state EXCEPT ![ready[l][i]] = StateAfterSignals(ready[l][i])]
               /\ StateAfterSignals(ready[l][i]) \in {"STOPPED", "ZOMBIE"}
               /\ UNCHANGED <<counter, current_process, preempt_disabled, picking, scan, ticked>>
<1> DEFINE p == ready[l][i]
           queues == [ready EXCEPT ![l] = Unlink(@, i)]
<1>1. p \in User /\ state[p] = "READY"
  <2>1. ready[l] \in Seq(User)
    BY DEF IInv, TypeOK
  <2>2. p \in User /\ p \in Range(ready[l])
    BY <2>1, ElementOfSeq, LenProperties DEF Range
  <2> QED BY <2>2 DEF IInv, ReadyQueued, InQueues
<1>2. handle_process_signals(p, queues)
  BY DEF Take
<1> HIDE DEF p, queues
<1>3. StateAfterSignals(p) \in {"READY", "STOPPED", "ZOMBIE"} /\ ready' = queues
  BY <1>1, <1>2, SignalsOfQueued
<1> QED BY <1>1, <1>3 DEF Take, p, queues

(* The head of a queue that is not empty is one of its members. *)
LEMMA HeadExists ==
  ASSUME TypeOK, NEW l \in Levels, ready[l] # <<>>
  PROVE  1 \in DOMAIN ready[l]
<1>1. ready[l] \in Seq(User)
  BY DEF TypeOK
<1> QED BY <1>1, EmptySeq, LenProperties

(* A step of the pick loop takes a process, examines the signals of one, or  *)
(* leaves states and queues alone.                                           *)
LEMMA PickCases ==
  ASSUME IInv, Pick
  PROVE  /\ picking
         /\ \/ \E l \in Levels : \E i \in DOMAIN ready[l] :
                 /\ Take(l, i)
                 /\ l = IF active_algorithm \in {"lottery", "priority_aging"} THEN 0 ELSE scan
            \/ NextLevel \/ NobodyReady \/ AgingSignal \/ NewEpoch
<1>0. TypeOK /\ scan \in Levels /\ 0 \in Levels
  BY Basics DEF IInv, TypeOK
<1>1. CASE PickHead
  <2>1. 1 \in DOMAIN ready[scan]
    BY <1>0, <1>1, HeadExists DEF PickHead
  <2> QED BY <1>0, <1>1, <2>1 DEF PickHead
<1>2. CASE PickWinner
  BY <1>0, <1>2 DEF PickWinner
<1>3. CASE PickBest
  BY <1>0, <1>3 DEF PickBest
<1>4. CASE NextLevel \/ NobodyReady \/ AgingSignal \/ NewEpoch
  BY <1>4 DEF NextLevel, NobodyReady, AgingSignal, NewEpoch
<1> QED BY <1>1, <1>2, <1>3, <1>4 DEF Pick

----------------------------------------------------------------------------
(* preempt_disable and preempt_enable *)

(* The disables a process holds by the code it is in.  A failed fork adds to *)
(* them for good; nothing else does.                                         *)
Owed(p) == IF p # current_process \/ picking \/ pc[p] = "exit_scan" THEN 1 ELSE 0
Balance ==
  /\ \A p \in PID : pc[p] = "exit_scan" => p = current_process /\ ~picking
  /\ \A p \in PID : Exists(p) => preempt_disabled[p] >= Owed(p)
  /\ MAX_LEAKS = 0 => \A p \in PID : Exists(p) => preempt_disabled[p] = Owed(p)

(* Entering a pick adds the one disable that the process owes from then on. *)
LEMMA EnterPickBalance ==
  ASSUME IInv, Balance, preempt_disable(current_process), picking' = TRUE, ~picking,
         pc[current_process] # "exit_scan",
         UNCHANGED <<current_process, n_processes>>,
         \A p \in PID : pc'[p] = "exit_scan" => pc[p] = "exit_scan"
  PROVE  Balance'
<1> DEFINE c == current_process
<1>1. /\ c \in PID /\ Exists(c) /\ preempt_disabled \in [PID -> Int]
      /\ preempt_disabled' = [preempt_disabled EXCEPT ![c] = @ + 1]
  BY DEF IInv, TypeOK, Unborn, Exists, preempt_disable
<1>2. \A p \in PID : pc'[p] # "exit_scan"
  BY DEF Balance
<1>3. \A p \in PID : Owed(p)' = 1 /\ Owed(p) = IF p = c THEN 0 ELSE 1
  BY <1>2 DEF Owed, Balance
<1>4. \A p \in PID : Exists(p)' <=> Exists(p)
  BY DEF Exists
<1>5. \A p \in PID : preempt_disabled'[p] = IF p = c THEN preempt_disabled[p] + 1
                                             ELSE preempt_disabled[p]
  BY <1>1
<1>6. \A p \in PID : preempt_disabled[p] \in Int
  BY <1>1
<1>7. /\ \A p \in PID : Exists(p)' => preempt_disabled'[p] >= Owed(p)'
      /\ MAX_LEAKS = 0 => \A p \in PID : Exists(p)' => preempt_disabled'[p] = Owed(p)'
  BY <1>3, <1>4, <1>5, <1>6 DEF Balance
<1> QED BY <1>2, <1>7 DEF Balance

(* Being switched in takes it off again. *)
LEMMA SwitchBalance ==
  ASSUME IInv, Balance, picking, NEW next \in PID, switch_to_process(next),
         UNCHANGED <<n_processes, pc>>
  PROVE  Balance'
<1>1. /\ preempt_disabled \in [PID -> Int]
      /\ preempt_disabled' = [preempt_disabled EXCEPT ![next] = @ - 1]
      /\ current_process' = next /\ picking' = FALSE
  BY DEF IInv, TypeOK, switch_to_process, preempt_enable
<1>2. \A p \in PID : pc[p] # "exit_scan"
  BY DEF Balance
<1>3. \A p \in PID : Owed(p) = 1 /\ Owed(p)' = IF p = next THEN 0 ELSE 1
  BY <1>1, <1>2 DEF Owed
<1>4. \A p \in PID : Exists(p)' <=> Exists(p)
  BY DEF Exists
<1>5. \A p \in PID : /\ preempt_disabled[p] \in Int
                     /\ preempt_disabled'[p] = IF p = next THEN preempt_disabled[p] - 1
                                               ELSE preempt_disabled[p]
  BY <1>1
<1>6. /\ \A p \in PID : Exists(p)' => preempt_disabled'[p] >= Owed(p)'
      /\ MAX_LEAKS = 0 => \A p \in PID : Exists(p)' => preempt_disabled'[p] = Owed(p)'
  BY <1>3, <1>4, <1>5 DEF Balance
<1> QED BY <1>2, <1>6 DEF Balance

(* Steps that neither disable nor enable, nor enter or leave exit_process. *)
LEMMA QuietBalance ==
  ASSUME Balance, UNCHANGED <<preempt_disabled, current_process, n_processes, picking>>,
         \A p \in PID : pc'[p] = "exit_scan" <=> pc[p] = "exit_scan"
  PROVE  Balance'
<1>1. \A p \in PID : Owed(p)' = Owed(p) /\ (Exists(p)' <=> Exists(p))
  BY DEF Owed, Exists
<1> QED BY <1>1 DEF Balance

LEMMA BalanceStep == IInv /\ Balance /\ [Next]_vars => Balance'
<1> SUFFICES ASSUME IInv, Balance, [Next]_vars PROVE Balance'
  OBVIOUS
<1> USE Basics
<1> DEFINE c == current_process
<1>0. /\ c \in PID /\ Exists(c) /\ preempt_disabled \in [PID -> Int] /\ pc \in [PID -> Labels]
      /\ n_processes \in 2 .. N_PROCESSES
  BY DEF IInv, TypeOK, Unborn, Exists
<1>1. CASE UNCHANGED vars
  BY <1>1, QuietBalance DEF vars
<1>2. CASE Tick
  <2>1. CASE UNCHANGED <<state, preempt_disabled, picking>>
    BY <1>2, <2>1, QuietBalance DEF Tick
  <2>2. CASE ~KeepsCpu /\ EnterPick(BoostedQueues, LevelsAfterTick)
    <3>1. ~(preempt_disabled[c] > 0)
      BY <2>2 DEF KeepsCpu
    <3>2. Owed(c) = 0
      BY <1>0, <3>1 DEF Balance, Owed
    <3>3. ~picking /\ pc[c] # "exit_scan"
      BY <3>2 DEF Owed
    <3> QED BY <1>2, <2>2, <3>3, EnterPickBalance DEF Tick, EnterPick
  <2> QED BY <1>2, <2>1, <2>2 DEF Tick
<1>3. CASE Pick
  <2>1. picking
    BY <1>3, PickCases
  <2>2. ASSUME NEW l \in Levels, NEW i \in DOMAIN ready[l], Take(l, i) PROVE Balance'
    BY <2>1, <2>2, TakeEffect, SwitchBalance, QuietBalance
  <2>3. CASE NextLevel \/ AgingSignal \/ NewEpoch
    BY <2>3, QuietBalance DEF NextLevel, AgingSignal, NewEpoch
  <2>4. CASE NobodyReady
    BY <2>1, <2>4, SwitchBalance DEF NobodyReady, DispatchInit
  <2> QED BY <1>3, <2>2, <2>3, <2>4, PickCases
<1>4. CASE _schedule
  <2>1. ~picking /\ pc[c] = "pick" /\ pc' = [pc EXCEPT ![c] =
          IF state[c] = "ZOMBIE" THEN "exited" ELSE "run"]
    BY <1>4 DEF _schedule, At, GoTo
  <2>2. \A p \in PID : pc'[p] = "exit_scan" => pc[p] = "exit_scan"
    BY <1>0, <2>1
  <2> QED BY <1>4, <2>1, <2>2, EnterPickBalance DEF _schedule, EnterPick
<1>5. CASE schedule \/ WaitState \/ WaitPid \/ syscall_yield
          \/ \E pid \in WAIT_TARGETS : syscall_wait(pid)
  <2>1. /\ pc[c] # "exit_scan"
        /\ \E m \in {"pick", "wait_pid", "sched", "wait_state"} : pc' = [pc EXCEPT ![c] = m]
        /\ UNCHANGED <<preempt_disabled, current_process, n_processes, picking>>
    BY <1>5 DEF schedule, WaitState, WaitPid, syscall_yield, syscall_wait, At, GoTo
  <2>2. \A p \in PID : pc'[p] = "exit_scan" <=> pc[p] = "exit_scan"
    BY <1>0, <2>1
  <2> QED BY <2>1, <2>2, QuietBalance
<1>6. CASE ExitWakes \/ (\E pid \in PID : sched_set_param(pid))
          \/ \E pid \in SIGNAL_TARGETS, signal \in SIGNALS : syscall_send_signal(pid, signal)
  BY <1>6, QuietBalance DEF ExitWakes, sched_set_param, syscall_send_signal
<1>7. CASE ExitDone \/ exit_process
  <2>1. /\ UNCHANGED <<current_process, n_processes, picking>> /\ ~picking
        /\ \/ /\ pc[c] = "exit_scan" /\ pc' = [pc EXCEPT ![c] = "sched"]
              /\ preempt_disabled' = [preempt_disabled EXCEPT ![c] = @ - 1]
           \/ /\ pc[c] = "run" /\ pc' = [pc EXCEPT ![c] = "exit_scan"]
              /\ preempt_disabled' = [preempt_disabled EXCEPT ![c] = @ + 1]
    BY <1>7 DEF ExitDone, exit_process, At, GoTo, preempt_disable, preempt_enable
  <2>2. \A p \in PID : /\ p # c => pc'[p] = pc[p] /\ preempt_disabled'[p] = preempt_disabled[p]
                       /\ preempt_disabled[p] \in Int
                       /\ Exists(p)' <=> Exists(p)
    BY <1>0, <2>1 DEF Exists
  <2>3. \A p \in PID : p # c => Owed(p) = 1 /\ Owed(p)' = 1
    BY <2>1 DEF Owed
  <2>4. \/ Owed(c) = 1 /\ Owed(c)' = 0 /\ preempt_disabled'[c] = preempt_disabled[c] - 1
        \/ Owed(c) = 0 /\ Owed(c)' = 1 /\ preempt_disabled'[c] = preempt_disabled[c] + 1
    BY <1>0, <2>1 DEF Owed
  <2>5. \A p \in PID : pc'[p] = "exit_scan" => p = current_process' /\ ~picking'
    BY <2>1, <2>2 DEF Balance
  <2>6. ASSUME NEW p \in PID, Exists(p)'
        PROVE  /\ preempt_disabled'[p] >= Owed(p)'
               /\ MAX_LEAKS = 0 => preempt_disabled'[p] = Owed(p)'
    <3>1. /\ preempt_disabled[p] \in Int /\ preempt_disabled[p] >= Owed(p)
          /\ MAX_LEAKS = 0 => preempt_disabled[p] = Owed(p)
      BY <2>2, <2>6 DEF Balance
    <3>2. CASE p # c
      BY <2>2, <2>3, <3>1, <3>2
    <3>3. CASE p = c
      BY <2>1, <2>4, <3>1, <3>3 DEF Owed
    <3> QED BY <3>2, <3>3
  <2> QED BY <2>5, <2>6 DEF Balance
<1>8. CASE syscall_fork
  <2>1. /\ preempt_disabled' = [preempt_disabled EXCEPT ![n_processes] = 1]
        /\ n_processes' = n_processes + 1 /\ n_processes < N_PROCESSES
        /\ UNCHANGED <<current_process, pc, picking>>
    BY <1>8 DEF syscall_fork
  <2>2. \A p \in PID : /\ Exists(p)' <=> Exists(p) \/ p = n_processes
                       /\ preempt_disabled'[p] = IF p = n_processes THEN 1 ELSE preempt_disabled[p]
                       /\ Owed(p)' = Owed(p)
    BY <1>0, <2>1 DEF Exists, Owed
  <2>3. n_processes \in PID /\ n_processes # c /\ Owed(n_processes) = 1
    BY <1>0, <2>1 DEF Exists, Owed
  <2>4. /\ \A p \in PID : Exists(p)' => preempt_disabled'[p] >= Owed(p)'
        /\ MAX_LEAKS = 0 => \A p \in PID : Exists(p)' => preempt_disabled'[p] = Owed(p)'
    BY <2>2, <2>3 DEF Balance
  <2> QED BY <2>1, <2>4 DEF Balance
<1>9. CASE ForkFails
  <2>1. /\ preempt_disabled[c] < MAX_LEAKS /\ UNCHANGED <<current_process, n_processes, pc, picking>>
        /\ preempt_disabled' = [preempt_disabled EXCEPT ![c] = @ + 1]
    BY <1>9 DEF ForkFails, preempt_disable
  <2>2. \A p \in PID : /\ Exists(p)' <=> Exists(p)
                       /\ preempt_disabled[p] \in Int /\ preempt_disabled'[p] >= preempt_disabled[p]
                       /\ Owed(p)' = Owed(p) /\ Owed(p) \in {0, 1}
    BY <1>0, <2>1 DEF Exists, Owed
  <2>3. MAX_LEAKS # 0
    BY <1>0, <2>1, <2>2 DEF Balance
  <2>4. \A p \in PID : Exists(p)' => preempt_disabled'[p] >= Owed(p)'
    BY <1>0, <2>1, <2>2 DEF Balance
  <2> QED BY <2>1, <2>3, <2>4 DEF Balance
<1> QED BY <1>1, <1>2, <1>3, <1>4, <1>5, <1>6, <1>7, <1>8, <1>9 DEF Next, Continue, Syscall

LEMMA InitBalance == Init => Balance
BY Basics DEF Init, Balance, Owed, Exists

(* Every preempt_disable is matched: a process that executes its own code    *)
(* can be preempted, one that was switched out holds the one disable of the  *)
(* pick it was switched out in.  MAX_LEAKS = 0 says that no fork fails:      *)
(* copy_process returns its errors without preempt_enable.                   *)
THEOREM Balanced ==
  ASSUME MAX_LEAKS = 0
  PROVE  Spec => []PreemptionBalanced
<1>1. Balance => PreemptionBalanced
  BY DEF Balance, PreemptionBalanced, Owed
<1> QED BY <1>1, InitBalance, BalanceStep, AlwaysIInv, PTL DEF Spec

----------------------------------------------------------------------------
(* What a step may do to the state of one process *)

LEMMA StateChange ==
  ASSUME IInv, [Next]_vars, NEW x \in User
  PROVE  \/ state'[x] = state[x]
         \/ /\ picking /\ state[x] = "READY" /\ UNCHANGED <<pc, n_processes>>
            /\ \/ state'[x] = "RUNNING" /\ current_process' = x /\ ~picking'
               \/ state'[x] \in {"STOPPED", "ZOMBIE"} /\ UNCHANGED <<current_process, picking>>
         \/ /\ x = current_process /\ state[x] = "RUNNING" /\ current_process' = current_process
            /\ \/ state'[x] = "READY" /\ picking'
               \/ state'[x] = "WAITING_ANOTHER_PROCESS" /\ WaitState
               \/ state'[x] = "ZOMBIE" /\ exit_process
         \/ /\ ExitWakes /\ WaitsFor(x, current_process) /\ state'[x] = "READY"
         \/ /\ syscall_fork /\ x = n_processes /\ state[x] = "ZERO" /\ state'[x] = "READY"
<1> USE Basics
<1> DEFINE c == current_process
<1>0. /\ TypeOK /\ c \in PID /\ n_processes \in 2 .. N_PROCESSES /\ state \in [PID -> States]
      /\ x \in PID /\ scan \in Levels
  BY DEF IInv, TypeOK
<1>1. CASE Tick
  <2>1. CASE state' = state
    BY <2>1
  <2>2. CASE EnterPick(BoostedQueues, LevelsAfterTick)
    BY <1>0, <1>1, <2>2 DEF Tick, EnterPick, StillRunnable
  <2> QED BY <1>1, <2>1, <2>2 DEF Tick
<1>2. CASE Pick
  <2>1. picking
    BY <1>2, PickCases
  <2>2. ASSUME NEW l \in Levels, NEW i \in DOMAIN ready[l], Take(l, i),
               state'[x] # state[x]
        PROVE  /\ state[x] = "READY" /\ UNCHANGED <<pc, n_processes>>
               /\ \/ state'[x] = "RUNNING" /\ current_process' = x /\ ~picking'
                  \/ state'[x] \in {"STOPPED", "ZOMBIE"} /\ UNCHANGED <<current_process, picking>>
    <3> DEFINE p == ready[l][i]
    <3>1. p \in User /\ state[p] = "READY" /\ UNCHANGED <<pc, n_processes>>
      BY <2>2, TakeEffect
    <3>2. CASE switch_to_process(p)
      <4>1. state'[x] = IF x = p THEN "RUNNING" ELSE state[x]
        BY <2>1, <3>1, <3>2, SwitchKeeps
      <4> QED BY <2>2, <3>1, <3>2, <4>1 DEF switch_to_process
    <3>3. CASE /\ state' = [state EXCEPT ![p] = StateAfterSignals(p)]
               /\ StateAfterSignals(p) \in {"STOPPED", "ZOMBIE"}
               /\ UNCHANGED <<counter, current_process, preempt_disabled, picking, scan, ticked>>
      BY <1>0, <2>2, <3>1, <3>3
    <3> QED BY <2>2, <3>2, <3>3, TakeEffect
  <2>3. CASE NextLevel \/ NewEpoch
    BY <2>3 DEF NextLevel, NewEpoch
  <2>4. CASE AgingSignal
    <3>1. PICK p \in User, to \in {"READY", "STOPPED", "ZOMBIE"} :
            state[p] = "READY" /\ Moves(p, to)
      BY <2>4, AgingSignalKeeps
    <3>2. UNCHANGED <<pc, n_processes, current_process, picking>>
      BY <2>4 DEF AgingSignal
    <3> QED BY <2>1, <3>1, <3>2 DEF Moves
  <2>5. CASE NobodyReady
    <3>1. switch_to_process(init) /\ pc' = pc /\ n_processes' = n_processes
      BY <2>5 DEF NobodyReady, DispatchInit
    <3>2. state'[x] = IF x = init THEN "RUNNING" ELSE state[x]
      BY <2>1, <3>1, SwitchKeeps
    <3> QED BY <3>2
  <2> QED BY <1>2, <2>1, <2>2, <2>3, <2>4, <2>5, PickCases
<1>3. CASE _schedule
  BY <1>0, <1>3 DEF _schedule, EnterPick, StillRunnable
<1>4. CASE WaitState
  BY <1>0, <1>4 DEF WaitState, At, IInv, RunsItsCode
<1>5. CASE exit_process
  BY <1>0, <1>5 DEF exit_process, At, IInv, RunsItsCode
<1>6. CASE ExitWakes
  <2>1. PICK p \in PID : WaitsFor(p, c) /\ state' = [state EXCEPT ![p] = "READY"]
    BY <1>6 DEF ExitWakes
  <2> QED BY <1>0, <1>6, <2>1
<1>7. CASE syscall_fork
  <2>1. state' = [state EXCEPT ![n_processes] = "READY"]
    BY <1>7 DEF syscall_fork
  <2> QED BY <1>0, <1>7, <2>1 DEF IInv, Unborn
<1>8. CASE UNCHANGED state
  BY <1>8
<1>9. schedule \/ WaitPid \/ ExitDone \/ syscall_yield \/ ForkFails
      \/ (\E pid \in WAIT_TARGETS : syscall_wait(pid))
      \/ (\E pid \in SIGNAL_TARGETS, signal \in SIGNALS : syscall_send_signal(pid, signal))
      \/ (\E pid \in PID : sched_set_param(pid))
      \/ UNCHANGED vars
        => UNCHANGED state
  BY DEF schedule, WaitPid, ExitDone, syscall_yield, ForkFails, syscall_wait,
         syscall_send_signal, sched_set_param, vars
<1> QED BY <1>1, <1>2, <1>3, <1>4, <1>5, <1>6, <1>7, <1>8, <1>9 DEF Next, Continue, Syscall

(* A process inside or past exit_process is a ZOMBIE, and a user process     *)
(* that has the CPU outside a pick is in no ready queue.                     *)
Exited == \A p \in User : pc[p] \in {"exit_scan", "exited"} => state[p] = "ZOMBIE"
CurrentUnlinked == ~picking /\ current_process # init => state[current_process] # "READY"

(* Where a step sends the process that has the CPU. *)
LEMMA PcChange ==
  ASSUME IInv, [Next]_vars, NEW x \in User
  PROVE  \/ pc'[x] = pc[x]
         \/ /\ x = current_process /\ ~picking
            /\ \/ pc'[x] \notin {"exit_scan", "exited"} /\ current_process' = current_process
               \/ pc'[x] = "exit_scan" /\ exit_process
               \/ /\ _schedule /\ pc[x] = "pick"
                  /\ pc'[x] = IF state[x] = "ZOMBIE" THEN "exited" ELSE "run"
<1>0. current_process \in PID /\ pc \in [PID -> Labels] /\ x \in PID
  BY Basics DEF IInv, TypeOK
<1>1. CASE schedule \/ WaitState \/ WaitPid \/ syscall_yield \/ ExitDone \/ _schedule
          \/ (\E pid \in WAIT_TARGETS : syscall_wait(pid)) \/ exit_process
  BY <1>0, <1>1 DEF schedule, WaitState, WaitPid, syscall_yield, ExitDone, _schedule, syscall_wait,
                    exit_process, At, GoTo
<1>2. Tick \/ ExitWakes \/ syscall_fork \/ ForkFails \/ UNCHANGED vars
      \/ (\E pid \in SIGNAL_TARGETS, signal \in SIGNALS : syscall_send_signal(pid, signal))
      \/ (\E pid \in PID : sched_set_param(pid))
        => pc' = pc
  BY DEF Tick, ExitWakes, syscall_fork, ForkFails, syscall_send_signal, sched_set_param, vars
<1>3. Pick => pc' = pc
  BY DEF Pick, PickHead, PickWinner, PickBest, Take, NextLevel, NobodyReady, DispatchInit,
         AgingSignal, NewEpoch
<1> QED BY <1>1, <1>2, <1>3 DEF Next, Continue, Syscall

LEMMA ExitedStep == IInv /\ Exited /\ [Next]_vars => Exited'
<1> SUFFICES ASSUME IInv, Exited, [Next]_vars, NEW x \in User,
                    pc'[x] \in {"exit_scan", "exited"}
             PROVE  state'[x] = "ZOMBIE"
  BY DEF Exited
<1>1. CASE pc'[x] = pc[x]
  <2>1. state[x] = "ZOMBIE"
    BY <1>1 DEF Exited
  <2> QED BY <2>1, StateChange DEF WaitsFor
<1>2. CASE exit_process
  <2>1. x = current_process \/ pc'[x] = pc[x]
    BY PcChange
  <2>2. CASE x = current_process
    BY <1>2, <2>2, Basics DEF exit_process, IInv, TypeOK
  <2> QED BY <1>1, <2>1, <2>2
<1>3. CASE _schedule /\ x = current_process /\ state[x] = "ZOMBIE"
  BY <1>3, StateChange DEF WaitsFor
<1> QED BY <1>1, <1>2, <1>3, PcChange

LEMMA CurrentUnlinkedStep == IInv /\ Exited /\ CurrentUnlinked /\ [Next]_vars => CurrentUnlinked'
<1> SUFFICES ASSUME IInv, Exited, CurrentUnlinked, [Next]_vars, ~picking', current_process' # init
             PROVE  state'[current_process'] # "READY"
  BY DEF CurrentUnlinked
<1> USE Basics
<1> DEFINE x == current_process'
<1>0. IInv'
  BY NextKeeps
<1>1. x \in User
  BY <1>0 DEF IInv, TypeOK
<1>2. SUFFICES ASSUME state'[x] = "READY" PROVE FALSE
  OBVIOUS
<1>3. CASE x # current_process \/ picking
  <2>1. Pick
    <3>1. CASE picking
      <4>1. ~(Continue \/ Syscall)
        BY <3>1 DEF Continue, Syscall, schedule, _schedule, WaitState, WaitPid, ExitWakes,
              ExitDone, syscall_yield, syscall_fork, ForkFails, exit_process, syscall_wait,
              syscall_send_signal, sched_set_param, At
      <4>2. ~Tick
        <5>1. Tick => picking' \in {picking, TRUE}
          BY DEF Tick, EnterPick
        <5> QED BY <3>1, <5>1
      <4>3. ~UNCHANGED vars
        BY <3>1 DEF vars
      <4> QED BY <4>1, <4>2, <4>3 DEF Next
    <3>2. CASE ~picking
      <4>1. ~Pick => UNCHANGED current_process
        BY DEF Next, Continue, Syscall, schedule, _schedule, WaitState, WaitPid, ExitWakes,
              ExitDone, syscall_yield, syscall_fork, ForkFails, exit_process, syscall_wait,
              syscall_send_signal, sched_set_param, Tick, vars
      <4> QED BY <1>3, <3>2, <4>1
    <3> QED BY <3>1, <3>2
  <2>2. picking
    BY <2>1, PickCases
  <2>3. ASSUME NEW l \in Levels, NEW i \in DOMAIN ready[l], Take(l, i) PROVE FALSE
    <3>1. ready[l][i] \in User /\ state[ready[l][i]] = "READY" /\ switch_to_process(ready[l][i])
          /\ UNCHANGED <<pc, n_processes>>
      BY <2>2, <2>3, TakeEffect
    <3>2. /\ x = ready[l][i]
          /\ \A y \in User : state'[y] = IF y = ready[l][i] THEN "RUNNING" ELSE state[y]
      BY <2>2, <3>1, SwitchKeeps DEF switch_to_process
    <3> QED BY <1>1, <1>2, <3>2
  <2>4. ~(NextLevel \/ AgingSignal \/ NewEpoch)
    BY <2>2 DEF NextLevel, AgingSignal, NewEpoch
  <2>5. ~NobodyReady
    BY <1>1 DEF NobodyReady, DispatchInit, switch_to_process
  <2> QED BY <2>1, <2>3, <2>4, <2>5, PickCases
<1>4. CASE x = current_process /\ ~picking
  <2>1. state[x] # "READY"
    BY <1>1, <1>4 DEF CurrentUnlinked
  <2>2. CASE ExitWakes /\ WaitsFor(x, current_process)
    <3>1. state[x] = "ZOMBIE" /\ state[x] = "WAITING_ANOTHER_PROCESS"
      BY <1>1, <1>4, <2>2 DEF ExitWakes, At, Exited, WaitsFor
    <3> QED BY <3>1
  <2>3. CASE syscall_fork /\ x = n_processes
    BY <1>4, <2>3 DEF IInv, Unborn, TypeOK
  <2> QED BY <1>1, <1>2, <1>4, <2>1, <2>2, <2>3, StateChange
<1> QED BY <1>3, <1>4

----------------------------------------------------------------------------
(* What a step may do to the ready queues *)

(* A tick changes the queues by the boost, and then by linking the process   *)
(* it preempts; a process that is in a pick function, or that is linked,     *)
(* is neither preempted nor demoted.                                         *)
LEMMA TickQueues ==
  ASSUME IInv, Balance, CurrentUnlinked, Tick
  PROVE  /\ \/ ready' = BoostedQueues /\ UNCHANGED <<state, picking>>
            \/ /\ ~picking /\ picking' /\ ~StillRunnable /\ ready' = BoostedQueues
            \/ /\ ~picking /\ picking' /\ StillRunnable
               /\ current_process \in User /\ ~InQueues(BoostedQueues, current_process)
               /\ ready' = Enqueue(BoostedQueues, LevelsAfterTick, current_process)
         /\ Demotes => current_process \in User /\ ~InQueues(BoostedQueues, current_process)
         /\ queue_level' = LevelsAfterTick
         /\ UNCHANGED <<params, est_burst, active_algorithm, current_process, n_processes, pc, scan>>
<1> USE Basics
<1> DEFINE c == current_process
<1>0. TypeOK /\ c \in PID /\ Exists(c) /\ preempt_disabled[c] \in Int
  BY DEF IInv, TypeOK, Unborn, Exists
<1>1. \A x : InQueues(BoostedQueues, x) <=> InQueues(ready, x)
  BY <1>0, BoostLinks DEF IInv
<1>2. preempt_disabled[c] <= 0 => ~picking
  BY <1>0 DEF Balance, Owed
<1>3. Demotes => c \in User /\ ~InQueues(BoostedQueues, c)
  BY <1>0, <1>1, <1>2 DEF Demotes, CurrentUnlinked, IInv, ReadyQueued
<1>4. /\ queue_level' = LevelsAfterTick
      /\ UNCHANGED <<params, est_burst, active_algorithm, current_process, n_processes, pc, scan>>
  BY DEF Tick, OnTick
<1>5. CASE ready' = BoostedQueues /\ UNCHANGED <<state, preempt_disabled, picking>>
  BY <1>3, <1>4, <1>5
<1>6. CASE ~KeepsCpu /\ EnterPick(BoostedQueues, LevelsAfterTick)
  <2>1. ~picking
    BY <1>0, <1>2, <1>6 DEF KeepsCpu
  <2>2. picking'
    BY <1>6 DEF EnterPick
  <2>3. CASE StillRunnable
    <3>1. c \in User /\ ~InQueues(BoostedQueues, c)
      BY <1>0, <1>1, <2>3 DEF StillRunnable, IInv, ReadyQueued
    <3>2. ready' = Enqueue(BoostedQueues, LevelsAfterTick, c)
      BY <1>6, <2>3 DEF EnterPick
    <3> QED BY <1>3, <1>4, <2>1, <2>2, <2>3, <3>1, <3>2
  <2>4. CASE ~StillRunnable
    BY <1>3, <1>4, <1>6, <2>1, <2>2, <2>4 DEF EnterPick
  <2> QED BY <2>3, <2>4
<1> QED BY <1>5, <1>6 DEF Tick

(* Any other step unlinks one process inside a pick, or links one process    *)
(* outside it, at the level recorded for it and by its estimate.             *)
LinksOne ==
  \E p \in User :
    /\ ~InQueues(ready, p)
    /\ ready' = [ready EXCEPT ![LevelOf(queue_level', p)] = Insert(@, p, est_burst'[p])]
    /\ \A x \in PID : x # p => /\ est_burst'[x] = est_burst[x]
                               /\ queue_level'[x] = queue_level[x]
                               /\ queue_priority'[x] = queue_priority[x]
UnlinksOne ==
  /\ \E l \in Levels : \E i \in DOMAIN ready[l] : ready' = [ready EXCEPT ![l] = Unlink(@, i)]
  /\ UNCHANGED <<params, bursts, multi>>

LEMMA QueueChange ==
  ASSUME IInv, [Next]_vars, ~Tick
  PROVE  /\ active_algorithm' = active_algorithm
         /\ \/ UNCHANGED ready
            \/ picking /\ UnlinksOne
            \/ ~picking /\ ~Pick /\ LinksOne
<1> USE Basics
<1> DEFINE c == current_process
<1>0. TypeOK /\ c \in PID /\ n_processes \in 2 .. N_PROCESSES /\ scan \in Levels
      /\ est_burst \in [PID -> Nat] /\ queue_level \in [PID -> Levels]
      /\ queue_priority \in [PID -> Levels]
  BY DEF IInv, TypeOK
<1>1. CASE Pick
  <2>1. picking
    BY <1>1, PickCases
  <2>2. ASSUME NEW l \in Levels, NEW i \in DOMAIN ready[l], Take(l, i)
        PROVE  UnlinksOne /\ active_algorithm' = active_algorithm
    <3>1. /\ ready' = [ready EXCEPT ![l] = Unlink(@, i)]
          /\ UNCHANGED <<params, bursts, multi, active_algorithm>>
      BY <2>2, TakeEffect
    <3> QED BY <3>1 DEF UnlinksOne
  <2>3. CASE NextLevel \/ NewEpoch \/ NobodyReady
    BY <2>3 DEF NextLevel, NewEpoch, NobodyReady, DispatchInit
  <2>4. CASE AgingSignal
    <3>1. PICK i \in Signalled :
            handle_process_signals(ready[0][i],
              IF StateAfterSignals(ready[0][i]) = "READY" THEN ready
              ELSE [ready EXCEPT ![0] = Unlink(@, i)])
      BY <2>4 DEF AgingSignal
    <3> DEFINE p == ready[0][i]
               queues == [ready EXCEPT ![0] = Unlink(@, i)]
               handled == IF StateAfterSignals(p) = "READY" THEN ready ELSE queues
    <3>2. i \in DOMAIN ready[0] /\ ready[0] \in Seq(User)
      BY <1>0 DEF Signalled, TypeOK
    <3>3. p \in User /\ p \in Range(ready[0])
      BY <3>2, ElementOfSeq, LenProperties DEF Range
    <3>4. state[p] = "READY"
      BY <3>3 DEF IInv, ReadyQueued, InQueues
    <3>5. handle_process_signals(p, handled)
      BY <3>1
    <3>6. UNCHANGED <<params, bursts, multi, active_algorithm>>
      BY <2>4 DEF AgingSignal
    <3> HIDE DEF handled, p, queues
    <3>7. ready' = handled
      BY <3>3, <3>4, <3>5, SignalsOfQueued
    <3>8. ready' = ready \/ ready' = queues
      BY <3>7 DEF handled
    <3> QED BY <2>1, <3>2, <3>6, <3>8 DEF queues, UnlinksOne
  <2> QED BY <1>1, <2>1, <2>2, <2>3, <2>4, PickCases
<1>2. CASE _schedule
  <2>1. /\ UNCHANGED <<params, bursts, multi, active_algorithm>> /\ ~picking
        /\ EnterPick(ready, queue_level)
    BY <1>2 DEF _schedule, At
  <2>2. ~Pick
    BY <2>1, PickCases
  <2>3. CASE StillRunnable
    <3>1. c \in User /\ ~InQueues(ready, c)
      BY <1>0, <2>3 DEF StillRunnable, IInv, ReadyQueued
    <3>2. ready' = [ready EXCEPT ![LevelOf(queue_level, c)] = Insert(@, c, est_burst[c])]
      BY <2>1, <2>3 DEF EnterPick, Enqueue
    <3>3. UNCHANGED <<est_burst, queue_level, queue_priority>>
      BY <2>1 DEF params, bursts, multi
    <3>4. LinksOne
      BY <3>1, <3>2, <3>3 DEF LinksOne
    <3> QED BY <2>1, <2>2, <3>4
  <2>4. CASE ~StillRunnable
    BY <2>1, <2>4 DEF EnterPick
  <2> QED BY <2>3, <2>4
<1>3. CASE ExitWakes
  <2>1. PICK p \in PID : WaitsFor(p, c) /\ ready' = Enqueue(ready, queue_level, p)
    BY <1>3 DEF ExitWakes
  <2>2. p \in User /\ ~InQueues(ready, p)
    BY <2>1 DEF WaitsFor, IInv, InitNeverBlocks, ReadyQueued
  <2>3. UNCHANGED <<params, bursts, multi, active_algorithm>> /\ ~picking
    BY <1>3 DEF ExitWakes, At
  <2>4. UNCHANGED <<est_burst, queue_level, queue_priority>>
    BY <2>3 DEF params, bursts, multi
  <2>5. LinksOne
    BY <2>1, <2>2, <2>4 DEF LinksOne, Enqueue
  <2>6. ~Pick
    BY <2>3, PickCases
  <2> QED BY <2>3, <2>5, <2>6
<1>4. CASE syscall_fork
  <2> DEFINE child == n_processes
             levels == [queue_level EXCEPT ![child] = StartLevel(c)]
  <2>1. /\ queue_level' = levels /\ child < N_PROCESSES
        /\ est_burst' = [est_burst EXCEPT ![child] = est_burst[c]]
        /\ queue_priority' = [queue_priority EXCEPT ![child] = queue_priority[c]]
        /\ ready' = [ready EXCEPT ![LevelOf(levels, child)] = Insert(@, child, est_burst[c])]
        /\ ~picking /\ active_algorithm' = active_algorithm
    BY <1>4 DEF syscall_fork, At
  <2>2. child \in User /\ ~InQueues(ready, child)
    <3>1. child \in User
      BY <1>0, <2>1
    <3>2. state[child] = "ZERO"
      BY <3>1 DEF IInv, Unborn
    <3> QED BY <3>1, <3>2 DEF IInv, ReadyQueued
  <2>3. est_burst'[child] = est_burst[c]
    BY <1>0, <2>1, <2>2
  <2>4. \A x \in PID : x # child => /\ est_burst'[x] = est_burst[x]
                                    /\ queue_level'[x] = queue_level[x]
                                    /\ queue_priority'[x] = queue_priority[x]
    BY <1>0, <2>1
  <2>5. LinksOne
    <3> HIDE DEF child, levels
    <3> QED BY <2>1, <2>2, <2>3, <2>4 DEF LinksOne
  <2>6. ~Pick
    BY <2>1, PickCases
  <2> QED BY <2>1, <2>5, <2>6
<1>5. schedule \/ WaitState \/ WaitPid \/ ExitDone \/ syscall_yield \/ ForkFails \/ exit_process
      \/ (\E pid \in WAIT_TARGETS : syscall_wait(pid))
      \/ (\E pid \in SIGNAL_TARGETS, signal \in SIGNALS : syscall_send_signal(pid, signal))
      \/ (\E pid \in PID : sched_set_param(pid)) \/ UNCHANGED vars
        => UNCHANGED <<ready, active_algorithm>>
  BY DEF schedule, WaitState, WaitPid, ExitDone, syscall_yield, ForkFails, syscall_wait, exit_process,
         syscall_send_signal, sched_set_param, vars
<1> QED BY <1>1, <1>2, <1>3, <1>4, <1>5 DEF Next, Continue, Syscall

----------------------------------------------------------------------------
(* The levels recorded for processes *)

(* LevelsAgree needs to know that nobody is queued at a level the algorithm  *)
(* does not use: the boost empties only the levels in use.                   *)
LevelBound == IsMultilevel => \A p \in PID : queue_level[p] < N_LEVELS
UnusedEmpty(queues) == \A l \in Levels : l >= NLevels => Range(queues[l]) = {}
RecordedIn(queues, levels) ==
  \A l \in Levels : \A p \in Range(queues[l]) : levels[p] \in {l, queue_priority[p]}
LevelsInv ==
  /\ LevelBound /\ UnusedEmpty(ready)
  /\ IsMultilevel => RecordedIn(ready, queue_level)

LEMMA LevelBoundStep == IInv /\ LevelBound /\ [Next]_vars => LevelBound'
<1> SUFFICES ASSUME IInv, LevelBound, [Next]_vars, IsMultilevel', NEW p \in PID
             PROVE  queue_level'[p] < N_LEVELS
  BY DEF LevelBound
<1> USE Basics
<1>0. /\ current_process \in PID /\ queue_level \in [PID -> Levels]
      /\ queue_priority \in [PID -> Levels] /\ n_processes \in 2 .. N_PROCESSES
  BY DEF IInv, TypeOK
<1>1. active_algorithm' = active_algorithm
  BY QueueChange DEF Tick
<1>2. IsMultilevel /\ \A x \in PID : queue_level[x] < N_LEVELS /\ queue_level[x] \in Nat
  BY <1>0, <1>1 DEF IsMultilevel, LevelBound
<1>3. CASE Tick
  <2>1. \A x \in PID : BoostedLevels[x] < N_LEVELS /\ BoostedLevels[x] \in Nat
    BY <1>2 DEF BoostedLevels
  <2>2. BoostedLevels \in [PID -> Levels]
    BY <1>0 DEF BoostedLevels
  <2>3. queue_level' = LevelsAfterTick
    BY <1>3 DEF Tick, OnTick
  <2>4. CASE Demotes
    <3>1. /\ queue_level' = [BoostedLevels EXCEPT ![current_process] = @ + 1]
          /\ BoostedLevels[current_process] < N_LEVELS - 1
      BY <2>3, <2>4 DEF LevelsAfterTick, Demotes
    <3> QED BY <1>0, <2>1, <2>2, <3>1
  <2>5. CASE ~Demotes
    BY <2>1, <2>3, <2>5 DEF LevelsAfterTick
  <2> QED BY <2>4, <2>5
<1>4. CASE syscall_fork
  <2>1. /\ queue_level' = [queue_level EXCEPT ![n_processes] = StartLevel(current_process)]
        /\ n_processes \in PID
    BY <1>0, <1>4 DEF syscall_fork
  <2>2. StartLevel(current_process) < N_LEVELS
    BY <1>0, <1>2 DEF StartLevel
  <2> QED BY <1>0, <1>2, <2>1, <2>2
<1>5. CASE \E pid \in PID : sched_set_param(pid)
  <2>1. PICK pid \in PID : sched_set_param(pid)
    BY <1>5
  <2>2. \/ queue_level' = queue_level
        \/ \E value \in QUEUE_PRIORITIES :
             queue_level' = [queue_level EXCEPT ![pid] =
               IF IsMultilevel /\ value >= N_LEVELS THEN N_LEVELS - 1 ELSE value]
    BY <2>1 DEF sched_set_param
  <2>3. \A value \in QUEUE_PRIORITIES : value \in Nat
    BY SchedulerAssumption
  <2>4. \A value \in QUEUE_PRIORITIES :
          (IF IsMultilevel /\ value >= N_LEVELS THEN N_LEVELS - 1 ELSE value) < N_LEVELS
    BY <1>2, <2>3
  <2> QED BY <1>0, <1>2, <2>2, <2>4
<1>6. Pick => queue_level' = queue_level
  BY DEF Pick, PickHead, PickWinner, PickBest, Take, NextLevel, NobodyReady, DispatchInit,
         AgingSignal, NewEpoch, multi
<1>7. Continue \/ syscall_yield \/ ForkFails \/ exit_process \/ UNCHANGED vars
      \/ (\E pid \in WAIT_TARGETS : syscall_wait(pid))
      \/ (\E pid \in SIGNAL_TARGETS, signal \in SIGNALS : syscall_send_signal(pid, signal))
        => queue_level' = queue_level
  BY DEF Continue, schedule, _schedule, WaitState, WaitPid, ExitWakes, ExitDone, syscall_yield,
         ForkFails, exit_process, syscall_wait, syscall_send_signal, vars, multi
<1>8. CASE queue_level' = queue_level
  BY <1>2, <1>8
<1> QED BY <1>3, <1>4, <1>5, <1>6, <1>7, <1>8 DEF Next, Syscall

(* Linking a process that is not linked, at any level. *)
LEMMA LinkRange ==
  ASSUME TypeOK, NEW queues \in Queues, Distinct(queues), NEW p \in User, ~InQueues(queues, p),
         NEW k \in Levels, NEW length \in Nat
  PROVE  Range(Insert(queues[k], p, length)) = Range(queues[k]) \cup {p}
<1>1. queues[k] \in Seq(User) /\ IsInjective(queues[k]) /\ p \notin Range(queues[k])
  BY DEF Queues, Distinct, InQueues
<1> QED BY <1>1, InsertKeeps

(* A boost leaves processes at level 0 only, where it records them. *)
LEMMA BoostRecorded ==
  ASSUME TypeOK, Distinct(ready), UnusedEmpty(ready)
  PROVE  /\ UnusedEmpty(BoostedQueues)
         /\ Boosts => \A l \in Levels : l # 0 => Range(BoostedQueues[l]) = {}
<1> USE Basics
<1>1. CASE ~Boosts
  BY <1>1 DEF BoostedQueues
<1>2. CASE Boosts
  <2>1. Range(<<>>) = {}
    BY DEF Range
  <2>2. \A l \in Levels : l # 0 => BoostedQueues[l] = IF l < NLevels THEN <<>> ELSE ready[l]
    BY <1>2 DEF BoostedQueues
  <2>3. \A l \in Levels : l # 0 => Range(BoostedQueues[l]) = {}
    BY <2>1, <2>2 DEF UnusedEmpty
  <2> QED BY <2>3 DEF UnusedEmpty
<1> QED BY <1>1, <1>2

LEMMA LevelsStep ==
  ASSUME IInv, Balance, CurrentUnlinked, LevelsInv, [Next]_vars
  PROVE  LevelsInv'
<1> USE Basics
<1> DEFINE c == current_process
<1>0. /\ TypeOK /\ ready \in Queues /\ Distinct(ready) /\ queue_level \in [PID -> Levels]
      /\ queue_priority \in [PID -> Levels]
  BY DEF IInv, TypeOK, Queues
<1>0a. /\ queue_level' \in [PID -> Levels] /\ est_burst' \in [PID -> Nat]
       /\ \A l \in Levels : \A p \in Range(ready[l]) : p \in PID
  <2>1. IInv'
    BY NextKeeps
  <2>2. ASSUME NEW l \in Levels, NEW p \in Range(ready[l]) PROVE p \in PID
    <3>1. ready[l] \in Seq(User)
      BY <1>0 DEF Queues
    <3> QED BY <3>1, ElementOfSeq, LenProperties DEF Range
  <2> QED BY <2>1, <2>2 DEF IInv, TypeOK
<1>1. LevelBound'
  BY LevelBoundStep DEF LevelsInv
<1>2. active_algorithm' = active_algorithm
  BY QueueChange DEF Tick
<1>3. /\ IsMultilevel' <=> IsMultilevel
      /\ NLevels' = NLevels
      /\ \A levels, p : LevelOf(levels, p)' = LevelOf(levels', p')
  BY <1>2 DEF IsMultilevel, NLevels, LevelOf
<1>4. \A p \in PID : LevelOf(queue_level', p) < NLevels /\ LevelOf(queue_level', p) \in Levels
                     /\ (IsMultilevel => LevelOf(queue_level', p) = queue_level'[p])
  BY <1>0a, <1>1, <1>3 DEF LevelBound, LevelOf, NLevels
<1>5. CASE Tick
  <2>1. /\ BoostedQueues \in Queues /\ Distinct(BoostedQueues)
        /\ \A x : InQueues(BoostedQueues, x) <=> InQueues(ready, x)
    BY <1>0, BoostLinks
  <2>2. /\ UnusedEmpty(BoostedQueues)
        /\ Boosts => \A l \in Levels : l # 0 => Range(BoostedQueues[l]) = {}
    BY <1>0, BoostRecorded DEF LevelsInv
  <2>3. /\ Demotes => c \in User /\ ~InQueues(BoostedQueues, c)
        /\ queue_level' = LevelsAfterTick /\ queue_priority' = queue_priority
        /\ est_burst' = est_burst
    BY <1>5, TickQueues DEF params
  <2>4. \A l \in Levels : \A p \in Range(BoostedQueues[l]) :
          p \in PID /\ LevelsAfterTick[p] = BoostedLevels[p]
    <3> SUFFICES ASSUME NEW l \in Levels, NEW p \in Range(BoostedQueues[l])
                 PROVE  p \in PID /\ LevelsAfterTick[p] = BoostedLevels[p]
      OBVIOUS
    <3>1. InQueues(BoostedQueues, p) /\ InQueues(ready, p)
      BY <2>1 DEF InQueues
    <3>2. p \in PID
      BY <1>0a, <3>1 DEF InQueues
    <3>3. BoostedLevels \in [PID -> Levels]
      BY <1>0 DEF BoostedLevels
    <3>4. Demotes => p # c
      BY <2>3, <3>1
    <3> QED BY <3>2, <3>3, <3>4 DEF LevelsAfterTick
  <2>5. ASSUME IsMultilevel PROVE RecordedIn(BoostedQueues, LevelsAfterTick)
    <3> SUFFICES ASSUME NEW l \in Levels, NEW p \in Range(BoostedQueues[l])
                 PROVE  LevelsAfterTick[p] \in {l, queue_priority[p]}
      BY DEF RecordedIn
    <3>1. p \in PID /\ LevelsAfterTick[p] = BoostedLevels[p]
      BY <2>4
    <3>2. CASE Boosts
      <4>1. l = 0
        BY <2>2, <3>2
      <4> QED BY <3>1, <3>2, <4>1 DEF BoostedLevels
    <3>3. CASE ~Boosts
      BY <2>5, <3>1, <3>3 DEF BoostedLevels, BoostedQueues, LevelsInv, RecordedIn
    <3> QED BY <3>2, <3>3
  <2>6. CASE ready' = BoostedQueues
    <3>1. UnusedEmpty(ready)'
      BY <1>3, <2>2, <2>6 DEF UnusedEmpty
    <3>2. IsMultilevel => RecordedIn(ready, queue_level)'
      BY <2>3, <2>5, <2>6 DEF RecordedIn
    <3> QED BY <1>1, <1>3, <3>1, <3>2 DEF LevelsInv
  <2>7. CASE /\ c \in User /\ ~InQueues(BoostedQueues, c)
             /\ ready' = Enqueue(BoostedQueues, LevelsAfterTick, c)
    <3>1. ready' = [BoostedQueues EXCEPT ![LevelOf(queue_level', c)] = Insert(@, c, est_burst[c])]
      BY <2>3, <2>7 DEF Enqueue
    <3>2. est_burst[c] \in Nat /\ LevelOf(queue_level', c) < NLevels
      BY <1>0, <1>4, <2>7 DEF TypeOK
    <3>3. \A l \in Levels : Range(ready'[l]) =
               IF l = LevelOf(queue_level', c) THEN Range(BoostedQueues[l]) \cup {c}
               ELSE Range(BoostedQueues[l])
      <4> DEFINE k == LevelOf(queue_level', c)
                 length == est_burst[c]
                 new == ready'
      <4>1. /\ TypeOK /\ length \in Nat /\ k \in Levels /\ c \in User
            /\ BoostedQueues \in Queues /\ Distinct(BoostedQueues) /\ ~InQueues(BoostedQueues, c)
        BY <1>0, <1>4, <2>1, <2>7, <3>2
      <4>2. \A l \in Levels :
              new[l] = IF l = k THEN Insert(BoostedQueues[k], c, length) ELSE BoostedQueues[l]
        BY <2>1, <3>1, <4>1 DEF Queues
      <4> HIDE DEF c, k, length, new
      <4>3. Range(Insert(BoostedQueues[k], c, length)) = Range(BoostedQueues[k]) \cup {c}
        BY <4>1, LinkRange
      <4>4. ASSUME NEW l \in Levels
            PROVE  Range(new[l]) = IF l = k THEN Range(BoostedQueues[l]) \cup {c}
                                   ELSE Range(BoostedQueues[l])
        <5>1. CASE l = k
          BY <4>2, <4>3, <5>1
        <5>2. CASE l # k
          BY <4>2, <5>2
        <5> QED BY <5>1, <5>2
      <4> QED BY <4>4 DEF c, k, new
    <3>4. UnusedEmpty(ready)'
      BY <1>3, <2>2, <3>2, <3>3 DEF UnusedEmpty
    <3>5. IsMultilevel => RecordedIn(ready, queue_level)'
      <4> SUFFICES ASSUME IsMultilevel, NEW l \in Levels, NEW p \in Range(ready'[l])
                   PROVE  queue_level'[p] \in {l, queue_priority'[p]}
        BY DEF RecordedIn
      <4>1. CASE p \in Range(BoostedQueues[l])
        BY <2>3, <2>5, <4>1 DEF RecordedIn
      <4>2. CASE p = c /\ l = LevelOf(queue_level', c)
        BY <1>4, <2>7, <4>2
      <4> QED BY <3>3, <4>1, <4>2
    <3> QED BY <1>1, <1>3, <3>4, <3>5 DEF LevelsInv
  <2> QED BY <1>5, <2>6, <2>7, TickQueues
<1>6. CASE ~Tick /\ UNCHANGED ready
  <2>1. UnusedEmpty(ready)'
    BY <1>3, <1>6 DEF LevelsInv, UnusedEmpty
  <2>2. \A p \in PID : \/ queue_level'[p] = queue_level[p] /\ queue_priority'[p] = queue_priority[p]
                       \/ queue_level'[p] = queue_priority'[p]
                       \/ state[p] = "ZERO"
    <3>1. CASE syscall_fork
      <4>1. /\ queue_level' = [queue_level EXCEPT ![n_processes] = StartLevel(c)]
            /\ queue_priority' = [queue_priority EXCEPT ![n_processes] = queue_priority[c]]
        BY <3>1 DEF syscall_fork
      <4>2. \A p \in PID : p = n_processes => state[p] = "ZERO"
        BY DEF IInv, Unborn
      <4> QED BY <1>0, <4>1, <4>2
    <3>2. CASE \E pid \in PID : sched_set_param(pid)
      <4>1. PICK pid \in PID : sched_set_param(pid)
        BY <3>2
      <4>2. \/ UNCHANGED <<queue_level, queue_priority>>
            \/ \E level : /\ queue_level' = [queue_level EXCEPT ![pid] = level]
                          /\ queue_priority' = [queue_priority EXCEPT ![pid] = level]
        BY <4>1 DEF sched_set_param
      <4> QED BY <1>0, <4>1, <4>2
    <3>3. Pick => UNCHANGED <<queue_level, queue_priority>>
      BY DEF Pick, PickHead, PickWinner, PickBest, Take, NextLevel, NobodyReady, DispatchInit,
             AgingSignal, NewEpoch, multi, params
    <3>4. Continue \/ syscall_yield \/ ForkFails \/ exit_process \/ UNCHANGED vars
          \/ (\E pid \in WAIT_TARGETS : syscall_wait(pid))
          \/ (\E pid \in SIGNAL_TARGETS, signal \in SIGNALS : syscall_send_signal(pid, signal))
            => UNCHANGED <<queue_level, queue_priority>>
      BY DEF Continue, schedule, _schedule, WaitState, WaitPid, ExitWakes, ExitDone, syscall_yield,
             ForkFails, exit_process, syscall_wait, syscall_send_signal, vars, multi, params
    <3>5. CASE UNCHANGED <<queue_level, queue_priority>>
      BY <3>5
    <3> QED BY <1>6, <3>1, <3>2, <3>3, <3>4, <3>5 DEF Next, Syscall
  <2>3. IsMultilevel => RecordedIn(ready, queue_level)'
    <3> SUFFICES ASSUME IsMultilevel, NEW l \in Levels, NEW p \in Range(ready[l])
                 PROVE  queue_level'[p] \in {l, queue_priority'[p]}
      BY <1>6 DEF RecordedIn
    <3>1. p \in PID /\ queue_level[p] \in {l, queue_priority[p]}
      BY <1>0a DEF LevelsInv, RecordedIn
    <3>2. ready[l] \in Seq(User)
      BY <1>0 DEF Queues
    <3>3. p \in User
      BY <3>2, ElementOfSeq, LenProperties DEF Range
    <3>4. state[p] = "READY"
      BY <3>3 DEF IInv, ReadyQueued, InQueues
    <3> QED BY <2>2, <3>1, <3>4
  <2> QED BY <1>1, <1>3, <2>1, <2>3 DEF LevelsInv
<1>7. CASE UnlinksOne
  <2>1. PICK l \in Levels : \E i \in DOMAIN ready[l] : ready' = [ready EXCEPT ![l] = Unlink(@, i)]
    BY <1>7 DEF UnlinksOne
  <2>2. PICK i \in DOMAIN ready[l] : ready' = [ready EXCEPT ![l] = Unlink(@, i)]
    BY <2>1
  <2>3. ready[l] \in Seq(User) /\ IsInjective(ready[l])
    BY <1>0 DEF Queues, Distinct
  <2>4. Range(Unlink(ready[l], i)) \subseteq Range(ready[l])
    <3> DEFINE q == ready[l]
    <3>1. q \in Seq(User) /\ IsInjective(q) /\ i \in DOMAIN q
      BY <2>3
    <3> HIDE DEF q
    <3>2. Range(RemoveAt(q, i)) = Range(q) \ {q[i]}
      BY <3>1, RemoveUnlinks, Zenon
    <3> QED BY <3>2 DEF q, Unlink
  <2>5. \A m \in Levels : Range(ready'[m]) \subseteq Range(ready[m])
    BY <1>0, <2>2, <2>4 DEF Queues
  <2>6. UNCHANGED <<queue_level, queue_priority>>
    BY <1>7 DEF UnlinksOne, multi, params
  <2>7. UnusedEmpty(ready)' /\ (IsMultilevel => RecordedIn(ready, queue_level)')
    BY <1>3, <2>5, <2>6 DEF LevelsInv, UnusedEmpty, RecordedIn
  <2> QED BY <1>1, <1>3, <2>7 DEF LevelsInv
<1>8. CASE LinksOne
  <2>1. PICK p \in User :
          /\ ~InQueues(ready, p)
          /\ ready' = [ready EXCEPT ![LevelOf(queue_level', p)] = Insert(@, p, est_burst'[p])]
          /\ \A x \in PID : x # p => /\ est_burst'[x] = est_burst[x]
                                     /\ queue_level'[x] = queue_level[x]
                                     /\ queue_priority'[x] = queue_priority[x]
    BY <1>8, Zenon DEF LinksOne
  <2>2. est_burst'[p] \in Nat /\ LevelOf(queue_level', p) < NLevels
    BY <1>0a, <1>4
  <2>3. \A l \in Levels : Range(ready'[l]) =
             IF l = LevelOf(queue_level', p) THEN Range(ready[l]) \cup {p} ELSE Range(ready[l])
    <3> DEFINE k == LevelOf(queue_level', p)
               length == est_burst'[p]
               new == ready'
    <3>1. /\ TypeOK /\ length \in Nat /\ k \in Levels
          /\ ready \in Queues /\ Distinct(ready) /\ ~InQueues(ready, p)
      BY <1>0, <1>4, <2>1, <2>2
    <3>2. \A l \in Levels : new[l] = IF l = k THEN Insert(ready[k], p, length) ELSE ready[l]
      BY <1>0, <2>1, <3>1 DEF Queues
    <3> HIDE DEF k, length, new
    <3>3. Range(Insert(ready[k], p, length)) = Range(ready[k]) \cup {p}
      BY <3>1, LinkRange
    <3>4. ASSUME NEW l \in Levels
          PROVE  Range(new[l]) = IF l = k THEN Range(ready[l]) \cup {p} ELSE Range(ready[l])
      <4>1. CASE l = k
        BY <3>2, <3>3, <4>1
      <4>2. CASE l # k
        BY <3>2, <4>2
      <4> QED BY <4>1, <4>2
    <3> QED BY <3>4 DEF k, new
  <2>4. UnusedEmpty(ready)'
    BY <1>3, <2>2, <2>3 DEF LevelsInv, UnusedEmpty
  <2>5. IsMultilevel => RecordedIn(ready, queue_level)'
    <3> SUFFICES ASSUME IsMultilevel, NEW l \in Levels, NEW x \in Range(ready'[l])
                 PROVE  queue_level'[x] \in {l, queue_priority'[x]}
      BY DEF RecordedIn
    <3>1. CASE x \in Range(ready[l])
      <4>1. x \in PID /\ x # p /\ queue_level[x] \in {l, queue_priority[x]}
        BY <1>0a, <2>1, <3>1 DEF InQueues, LevelsInv, RecordedIn
      <4> QED BY <2>1, <4>1
    <3>2. CASE x = p /\ l = LevelOf(queue_level', p)
      BY <1>4, <3>2
    <3> QED BY <2>3, <3>1, <3>2
  <2> QED BY <1>1, <1>3, <2>4, <2>5 DEF LevelsInv
<1> QED BY <1>5, <1>6, <1>7, <1>8, QueueChange

LEMMA InitOrder == Init => Exited /\ CurrentUnlinked /\ LevelsInv
<1> SUFFICES ASSUME Init PROVE Exited /\ CurrentUnlinked /\ LevelsInv
  OBVIOUS
<1>1. Range(<<1>>) = {1} /\ Range(<<>>) = {}
  BY DEF Range
<1>2. Exited /\ CurrentUnlinked /\ LevelBound
  BY Basics DEF Init, Exited, CurrentUnlinked, LevelBound
<1>3. \A l \in Levels : Range(ready[l]) = IF l = 0 THEN {1} ELSE {}
  BY <1>1 DEF Init
<1>4. UnusedEmpty(ready) /\ RecordedIn(ready, queue_level)
  BY <1>3, Basics DEF Init, UnusedEmpty, RecordedIn
<1> QED BY <1>2, <1>4 DEF LevelsInv

(* The invariant that the theorems below share. *)
OInv == Balance /\ Exited /\ CurrentUnlinked /\ LevelsInv

(* In every state preemption counts balance, who has exited stays out of the *)
(* queues, the process that has the CPU is unlinked and the queues agree     *)
(* with queue_level.                                                         *)
THEOREM AlwaysOInv == Spec => []OInv
<1>1. Init => OInv
  BY InitBalance, InitOrder DEF OInv
<1>2. IInv /\ OInv /\ [Next]_vars => OInv'
  BY BalanceStep, ExitedStep, CurrentUnlinkedStep, LevelsStep DEF OInv
<1> QED BY <1>1, <1>2, AlwaysIInv, PTL DEF Spec

(* Whatever the slices, boosts, demotions and set_sched_param calls, a       *)
(* process waits at the level that queue_level records for it, or has been   *)
(* given a new one by set_sched_param since it was queued.                   *)
THEOREM LevelsKept == Spec => []LevelsAgree
<1>1. IInv /\ OInv => LevelsAgree
  <2> SUFFICES ASSUME IInv, OInv, IsMultilevel, NEW l \in Levels, NEW i \in DOMAIN ready[l]
               PROVE  queue_level[ready[l][i]] \in {l, queue_priority[ready[l][i]]}
    BY DEF LevelsAgree
  <2>1. ready[l][i] \in Range(ready[l])
    BY DEF Range
  <2> QED BY <2>1 DEF OInv, LevelsInv, RecordedIn
<1> QED BY <1>1, AlwaysIInv, AlwaysOInv, PTL

----------------------------------------------------------------------------
(* The cascade over the levels *)

LEMMA EmptyRange ==
  ASSUME NEW S, NEW q \in Seq(S) PROVE Range(q) = {} <=> q = <<>>
<1>1. Range(<<>>) = {}
  BY DEF Range
<1>2. ASSUME q # <<>> PROVE Range(q) # {}
  <2>1. 1 \in DOMAIN q
    BY <1>2, EmptySeq, LenProperties
  <2> QED BY <2>1 DEF Range
<1> QED BY <1>1, <1>2

(* The levels above the one the pick loop has reached are empty; only the    *)
(* boost of a tick that falls inside the loop can fill them again, and then  *)
(* it has emptied all the others.                                            *)
Cascade ==
  /\ ~picking => scan = 0
  /\ scan < NLevels
  /\ picking => \/ \A h \in Levels : h < scan => Range(ready[h]) = {}
                \/ /\ active_algorithm = "mlfq"
                   /\ \A h \in Levels : h >= scan => Range(ready[h]) = {}

(* Unlinking fills no queue. *)
LEMMA UnlinkShrinks ==
  ASSUME IInv, UnlinksOne, NEW h \in Levels, Range(ready[h]) = {}
  PROVE  Range(ready'[h]) = {}
<1>1. PICK l \in Levels : \E i \in DOMAIN ready[l] : ready' = [ready EXCEPT ![l] = Unlink(@, i)]
  BY DEF UnlinksOne
<1>2. PICK i \in DOMAIN ready[l] : ready' = [ready EXCEPT ![l] = Unlink(@, i)]
  BY <1>1
<1>3. ready[l][i] \in Range(ready[l])
  BY DEF Range
<1>4. l # h /\ ready'[h] = ready[h]
  BY <1>2, <1>3 DEF IInv, TypeOK
<1> QED BY <1>4

(* How the pick loop is left. *)
LEMMA LeavesPick ==
  ASSUME IInv, [Next]_vars, picking, ~picking'
  PROVE  \/ \E l \in Levels : \E i \in DOMAIN ready[l] :
              /\ l = IF active_algorithm \in {"lottery", "priority_aging"} THEN 0 ELSE scan
              /\ ready' = [ready EXCEPT ![l] = Unlink(@, i)]
              /\ switch_to_process(ready[l][i]) /\ ready[l][i] \in User
         \/ NobodyReady
<1>1. ~(Continue \/ Syscall)
  BY DEF Continue, Syscall, schedule, _schedule, WaitState, WaitPid, ExitWakes, ExitDone,
         syscall_yield, syscall_fork, ForkFails, exit_process, syscall_wait,
         syscall_send_signal, sched_set_param, At
<1>2. ~Tick
  <2>1. Tick => picking' \in {picking, TRUE}
    BY DEF Tick, EnterPick
  <2> QED BY <2>1
<1>3. ~UNCHANGED vars
  BY DEF vars
<1>4. Pick
  BY <1>1, <1>2, <1>3 DEF Next
<1>5. ~(NextLevel \/ AgingSignal \/ NewEpoch)
  BY DEF NextLevel, AgingSignal, NewEpoch
<1>6. ASSUME NEW l \in Levels, NEW i \in DOMAIN ready[l], Take(l, i)
      PROVE  /\ ready' = [ready EXCEPT ![l] = Unlink(@, i)]
             /\ switch_to_process(ready[l][i]) /\ ready[l][i] \in User
  BY <1>6, TakeEffect
<1> QED BY <1>4, <1>5, <1>6, PickCases

(* What a step does to the level the loop has reached. *)
LEMMA ScanChange ==
  ASSUME IInv, [Next]_vars
  PROVE  \/ ~picking' /\ picking /\ scan' = 0
         \/ scan' = scan /\ (picking => picking')
         \/ NextLevel
<1>1. Pick => \/ ~picking' /\ scan' = 0
              \/ scan' = scan /\ picking' = picking
              \/ NextLevel
  BY DEF Pick, PickHead, PickWinner, PickBest, Take, switch_to_process, NobodyReady, DispatchInit,
         AgingSignal, NewEpoch
<1>2. Continue \/ Syscall => scan' = scan /\ ~picking
  BY DEF Continue, Syscall, schedule, _schedule, WaitState, WaitPid, ExitWakes, ExitDone,
         syscall_yield, syscall_fork, ForkFails, exit_process, syscall_wait,
         syscall_send_signal, sched_set_param, At
<1>3. Tick => scan' = scan /\ (picking => picking')
  BY DEF Tick, EnterPick
<1>4. UNCHANGED vars => scan' = scan /\ picking' = picking
  BY DEF vars
<1> QED BY <1>1, <1>2, <1>3, <1>4, PickCases DEF Next

LEMMA CascadeStep ==
  ASSUME IInv, OInv, Cascade, [Next]_vars
  PROVE  Cascade'
<1> USE Basics
<1>0. scan \in Levels /\ scan' \in Levels /\ active_algorithm' = active_algorithm /\ NLevels' = NLevels
  <2>1. active_algorithm' = active_algorithm
    BY QueueChange DEF Tick
  <2>2. IInv'
    BY NextKeeps
  <2> QED BY <2>1, <2>2 DEF IInv, TypeOK, NLevels, IsMultilevel
<1>1. CASE ~picking'
  BY <1>0, <1>1, ScanChange DEF Cascade, NextLevel
<1>2. CASE ~picking /\ picking'
  <2>1. scan' = 0
    BY <1>2, ScanChange DEF Cascade, NextLevel
  <2> QED BY <1>0, <1>2, <2>1 DEF Cascade
<1>3. CASE picking /\ picking' /\ NextLevel
  <2>1. scan' = scan + 1 /\ ready' = ready /\ ready[scan] = <<>> /\ scan + 1 < NLevels
    BY <1>0, <1>3 DEF NextLevel, LevelEmpty, LastLevel
  <2>2. Range(ready[scan]) = {}
    BY <2>1 DEF Range
  <2> QED BY <1>0, <1>3, <2>1, <2>2 DEF Cascade
<1>4. CASE picking /\ picking' /\ scan' = scan /\ ~Tick
  <2>1. \A h \in Levels : Range(ready[h]) = {} => Range(ready'[h]) = {}
    BY <1>4, QueueChange, UnlinkShrinks
  <2> QED BY <1>0, <1>4, <2>1 DEF Cascade
<1>5. CASE picking /\ picking' /\ scan' = scan /\ Tick
  <2>1. ready' = BoostedQueues
    BY <1>5, TickQueues DEF OInv
  <2>2. CASE ~Boosts
    BY <1>0, <1>5, <2>1, <2>2 DEF BoostedQueues, Cascade
  <2>3. CASE Boosts
    <3>1. active_algorithm = "mlfq"
      BY <2>3 DEF Boosts, BoostDue
    <3>2. \A l \in Levels : l # 0 => Range(ready'[l]) = {}
      BY <2>1, <2>3, BoostRecorded DEF IInv, OInv, LevelsInv
    <3> QED BY <1>0, <1>5, <3>1, <3>2 DEF Cascade
  <2> QED BY <2>2, <2>3
<1> QED BY <1>1, <1>2, <1>3, <1>4, <1>5, ScanChange

(* Throughout a pick of a multilevel algorithm the levels that the loop has  *)
(* passed hold nobody whom it should have taken.                             *)
THEOREM AlwaysCascade == Spec => []Cascade
<1>1. Init => Cascade
  BY Basics DEF Init, Cascade
<1>2. IInv /\ OInv /\ Cascade /\ [Next]_vars => Cascade'
  BY CascadeStep
<1> QED BY <1>1, <1>2, AlwaysIInv, AlwaysOInv, PTL DEF Spec

(* MLQ and MLFQ dispatch a process only when every level above its own is    *)
(* empty, even if a tick boosts the queues in the middle of the loop.        *)
THEOREM HighestLevelFirst == Spec => StrictPriority
<1>1. ASSUME IInv, Cascade, [Next]_vars, NEW l \in Levels, IsMultilevel, picking, ~picking',
             ready'[l] # ready[l], NEW h \in 0 .. l - 1
      PROVE  ready'[h] = <<>>
  <2> USE Basics
  <2>1. ~NobodyReady
    BY <1>1 DEF NobodyReady, DispatchInit
  <2>2. active_algorithm \notin {"lottery", "priority_aging"} /\ scan \in Levels
    BY <1>1 DEF IsMultilevel, IInv, TypeOK
  <2>3. PICK i \in DOMAIN ready[scan] : ready' = [ready EXCEPT ![scan] = Unlink(@, i)]
    BY <1>1, <2>1, <2>2, LeavesPick
  <2>4. l = scan /\ h \in Levels /\ h < scan /\ ready'[h] = ready[h]
    <3>1. ready \in [Levels -> Seq(User)]
      BY <1>1 DEF IInv, TypeOK
    <3>2. \A m \in Levels : m # scan => ready'[m] = ready[m]
      BY <2>3, <3>1
    <3>3. l = scan
      BY <1>1, <3>2
    <3>4. h \in Levels /\ h < scan
      BY <1>1, <3>3
    <3> QED BY <2>2, <3>2, <3>3, <3>4
  <2>5. Range(ready[scan]) # {} /\ scan >= scan
    <3>1. ready[scan][i] \in Range(ready[scan])
      BY DEF Range
    <3> QED BY <2>2, <3>1
  <2>6. Range(ready[h]) = {}
    <3>1. \A m \in Levels : m < scan => Range(ready[m]) = {}
      BY <1>1, <2>2, <2>5 DEF Cascade
    <3> QED BY <2>4, <3>1
  <2>7. ready[h] \in Seq(User)
    BY <1>1, <2>4 DEF IInv, TypeOK
  <2> QED BY <2>4, <2>6, <2>7, EmptyRange
<1>2. IInv /\ Cascade /\ [Next]_vars =>
        [\A l \in Levels : IsMultilevel /\ picking /\ ~picking' /\ ready'[l] # ready[l]
           => \A h \in 0 .. l - 1 : ready'[h] = <<>>]_vars
  BY <1>1
<1> QED BY <1>2, AlwaysIInv, AlwaysCascade, PTL DEF Spec, StrictPriority

(* The pick loop falls back to init only if nobody is READY.  MLFQ is        *)
(* excluded: its boost may refill level 0 behind the loop.                   *)
THEOREM IdleLast ==
  ASSUME "mlfq" \notin ALGORITHMS
  PROVE  Spec => IdleOnlyWhenNobodyReady
<1>1. ASSUME IInv, OInv, Cascade, [Next]_vars, picking, ~picking', current_process' = init,
             NEW p \in User
      PROVE  state'[p] # "READY"
  <2> USE Basics
  <2>1. NobodyReady
    BY <1>1, LeavesPick DEF switch_to_process
  <2>2. /\ scan \in Levels /\ active_algorithm \in ALGORITHMS
        /\ ready[scan] = <<>> /\ scan + 1 >= NLevels /\ switch_to_process(init)
        /\ UNCHANGED <<pc, n_processes>>
    BY <1>1, <2>1 DEF IInv, TypeOK, NobodyReady, LevelEmpty, LastLevel, DispatchInit
  <2>3. Range(ready[scan]) = {}
    BY <2>2 DEF Range
  <2>4. ASSUME NEW h \in Levels PROVE Range(ready[h]) = {}
    <3>1. CASE h < scan
      <4>1. active_algorithm # "mlfq"
        BY <2>2
      <4> QED BY <1>1, <3>1, <4>1 DEF Cascade
    <3>2. CASE h >= NLevels
      BY <1>1, <3>2 DEF OInv, LevelsInv, UnusedEmpty
    <3>3. h < scan \/ h >= NLevels \/ h = scan
      BY <2>2
    <3> QED BY <2>3, <3>1, <3>2, <3>3
  <2>5. state[p] # "READY"
    BY <1>1, <2>4 DEF IInv, ReadyQueued, InQueues
  <2>6. state'[p] = IF p = init THEN "RUNNING" ELSE state[p]
    BY <1>1, <2>2, SwitchKeeps
  <2> QED BY <2>5, <2>6
<1>2. IInv /\ OInv /\ Cascade /\ [Next]_vars =>
        [picking /\ ~picking' /\ current_process' = init
           => \A p \in User : state'[p] # "READY"]_vars
  BY <1>1
<1> QED BY <1>2, AlwaysIInv, AlwaysOInv, AlwaysCascade, PTL DEF Spec, IdleOnlyWhenNobodyReady

----------------------------------------------------------------------------
(* The order of the SJF queue *)

SortedBy(length, q) ==
  \A i, j \in 1 .. Len(q) : i < j => length[q[i]] <= length[q[j]]
Sorted == active_algorithm = "sjf" => SortedBy(est_burst, ready[0])

(* enqueue_sorted_to keeps a sorted queue sorted. *)
LEMMA InsertSorted ==
  ASSUME TypeOK, active_algorithm = "sjf", NEW q \in Seq(User), SortedBy(est_burst, q), NEW p \in User,
         p \notin Range(q), NEW length \in [PID -> Nat],
         \A x \in PID : x # p => length[x] = est_burst[x]
  PROVE  SortedBy(length, Insert(q, p, length[p]))
<1> DEFINE n == Len(q)
           k == SortedPosition(q, length[p])
           r == InsertAt(q, k, p)
           e(j) == length[q[j]]
<1>0. /\ n \in Nat /\ length[p] \in Nat
      /\ \A j \in 1 .. n : q[j] \in User /\ q[j] # p /\ e(j) \in Nat /\ e(j) = est_burst[q[j]]
  <2>1. n \in Nat /\ DOMAIN q = 1 .. n /\ \A j \in 1 .. n : q[j] \in User
    BY LenProperties, ElementOfSeq
  <2>2. \A j \in 1 .. n : q[j] # p
    BY <2>1 DEF Range
  <2> QED BY <2>1, <2>2, Basics
<1>1. k \in 1 .. n + 1 /\ (\A j \in 1 .. k - 1 : e(j) <= length[p]) /\ (k <= n => length[p] < e(k))
  <2>1. /\ k \in 1 .. n + 1
        /\ \A j \in 1 .. k - 1 : est_burst[q[j]] <= length[p]
        /\ k <= n => length[p] < est_burst[q[k]]
    BY <1>0, SortedPositionExists
  <2> HIDE DEF k
  <2>2. ASSUME NEW j \in 1 .. k - 1 PROVE e(j) <= length[p]
    <3>1. j \in 1 .. n
      BY <1>0, <2>1
    <3> QED BY <1>0, <2>1, <3>1
  <2>3. ASSUME k <= n PROVE length[p] < e(k)
    <3>1. k \in 1 .. n
      BY <1>0, <2>1, <2>3
    <3> QED BY <1>0, <2>1, <2>3, <3>1
  <2> QED BY <2>1, <2>2, <2>3
<1>2. \A i, j \in 1 .. n : i < j => e(i) <= e(j)
  BY <1>0 DEF SortedBy
<1> HIDE DEF k
<1>3. /\ Len(r) = n + 1
      /\ \A j \in 1 .. n + 1 : r[j] = IF j < k THEN q[j] ELSE IF j = k THEN p ELSE q[j - 1]
  <2>1. k \in 1 .. Len(q) + 1
    BY <1>1
  <2>2. \A m \in 1 .. Len(q) + 1 :
          /\ Len(InsertAt(q, m, p)) = Len(q) + 1
          /\ \A j \in 1 .. Len(q) + 1 :
               InsertAt(q, m, p)[j] = IF j < m THEN q[j] ELSE IF j = m THEN p ELSE q[j - 1]
    <3> HIDE DEF n, r, e
    <3> QED BY InsertElements
  <2> QED BY <2>1, <2>2
<1> HIDE DEF r
<1>4. \A j \in k .. n : length[p] <= e(j)
  <2> SUFFICES ASSUME NEW j \in k .. n PROVE length[p] <= e(j)
    OBVIOUS
  <2>1. k \in 1 .. n /\ j \in 1 .. n /\ length[p] < e(k)
    BY <1>0, <1>1
  <2>2. e(k) <= e(j)
    BY <1>0, <1>2, <2>1
  <2>3. length[p] \in Nat /\ e(k) \in Nat /\ e(j) \in Nat
    BY <1>0, <2>1
  <2> HIDE DEF e
  <2> QED BY <2>1, <2>2, <2>3
<1>5. ASSUME NEW i \in 1 .. n + 1, NEW j \in 1 .. n + 1, i < j
      PROVE  length[r[i]] <= length[r[j]]
  <2>1. CASE j < k
    <3>1. r[i] = q[i] /\ r[j] = q[j] /\ i \in 1 .. n /\ j \in 1 .. n
      BY <1>0, <1>1, <1>3, <1>5, <2>1
    <3> QED BY <1>2, <1>5, <3>1
  <2>2. CASE j = k
    <3>1. r[i] = q[i] /\ r[j] = p /\ i \in 1 .. k - 1
      BY <1>0, <1>1, <1>3, <1>5, <2>2
    <3> QED BY <1>1, <3>1
  <2>3. CASE j > k /\ i < k
    <3>1. r[i] = q[i] /\ r[j] = q[j - 1] /\ i \in 1 .. n /\ j - 1 \in 1 .. n /\ i < j - 1
      BY <1>0, <1>1, <1>3, <1>5, <2>3
    <3> QED BY <1>2, <3>1
  <2>4. CASE j > k /\ i = k
    <3>1. r[i] = p /\ r[j] = q[j - 1] /\ j - 1 \in k .. n
      BY <1>0, <1>1, <1>3, <1>5, <2>4
    <3> QED BY <1>4, <3>1
  <2>5. CASE j > k /\ i > k
    <3>1. r[i] = q[i - 1] /\ r[j] = q[j - 1] /\ i - 1 \in 1 .. n /\ j - 1 \in 1 .. n /\ i - 1 < j - 1
      BY <1>0, <1>1, <1>3, <1>5, <2>5
    <3> QED BY <1>2, <3>1
  <2> QED BY <1>0, <1>1, <2>1, <2>2, <2>3, <2>4, <2>5
<1>6. Insert(q, p, length[p]) = r
  BY DEF Insert, r, k
<1> QED BY <1>0, <1>3, <1>5, <1>6 DEF SortedBy

LEMMA RemoveSorted ==
  ASSUME NEW q \in Seq(User), NEW i \in 1 .. Len(q), NEW length, SortedBy(length, q)
  PROVE  SortedBy(length, Unlink(q, i))
<1> DEFINE n == Len(q)
           r == RemoveAt(q, i)
<1>1. n \in Nat /\ i \in 1 .. n
  BY LenProperties
<1>2. Len(r) = n - 1 /\ \A j \in 1 .. n - 1 : r[j] = IF j < i THEN q[j] ELSE q[j + 1]
  BY RemoveElements
<1> HIDE DEF r
<1>3. ASSUME NEW a \in 1 .. n - 1, NEW b \in 1 .. n - 1, a < b
      PROVE  length[r[a]] <= length[r[b]]
  <2>1. \A x, y \in 1 .. n : x < y => length[q[x]] <= length[q[y]]
    BY DEF SortedBy
  <2>2. PICK x \in {a, a + 1}, y \in {b, b + 1} :
          x < y /\ r[a] = q[x] /\ r[b] = q[y] /\ x \in 1 .. n /\ y \in 1 .. n
    <3>1. CASE b < i
      BY <1>1, <1>2, <1>3, <3>1
    <3>2. CASE a < i /\ ~(b < i)
      BY <1>1, <1>2, <1>3, <3>2
    <3>3. CASE ~(a < i)
      BY <1>1, <1>2, <1>3, <3>3
    <3> QED BY <1>3, <3>1, <3>2, <3>3
  <2> QED BY <2>1, <2>2
<1> QED BY <1>1, <1>2, <1>3 DEF SortedBy, Unlink, r

(* No step changes the estimate of a process that is queued. *)
LEMMA EstimateChange ==
  ASSUME IInv, [Next]_vars, NEW x \in User, state[x] = "READY"
  PROVE  est_burst'[x] = est_burst[x]
<1> USE Basics
<1>0. current_process \in PID /\ est_burst \in [PID -> Nat] /\ n_processes \in 2 .. N_PROCESSES
  BY DEF IInv, TypeOK
<1>1. CASE schedule
  BY <1>0, <1>1 DEF schedule, bursts
<1>2. CASE syscall_fork
  <2>1. est_burst' = [est_burst EXCEPT ![n_processes] = est_burst[current_process]]
    BY <1>2 DEF syscall_fork
  <2>2. x # n_processes
    BY DEF IInv, Unborn
  <2> QED BY <1>0, <2>1, <2>2
<1>3. Pick => est_burst' = est_burst
  BY DEF Pick, PickHead, PickWinner, PickBest, Take, NextLevel, NobodyReady, DispatchInit,
         AgingSignal, NewEpoch, bursts
<1>4. Tick \/ _schedule \/ WaitState \/ WaitPid \/ ExitWakes \/ ExitDone
      \/ syscall_yield \/ ForkFails \/ exit_process \/ UNCHANGED vars
      \/ (\E pid \in WAIT_TARGETS : syscall_wait(pid))
      \/ (\E pid \in SIGNAL_TARGETS, signal \in SIGNALS : syscall_send_signal(pid, signal))
      \/ (\E pid \in PID : sched_set_param(pid))
        => est_burst' = est_burst
  BY DEF Tick, _schedule, WaitState, WaitPid, ExitWakes, ExitDone, syscall_yield, ForkFails,
         exit_process, syscall_wait, syscall_send_signal, sched_set_param, vars, bursts
<1> QED BY <1>1, <1>2, <1>3, <1>4 DEF Next, Continue, Syscall

LEMMA SortedStep ==
  ASSUME IInv, OInv, Sorted, [Next]_vars
  PROVE  Sorted'
<1> USE Basics
<1> DEFINE c == current_process
           q == ready[0]
<1>0. active_algorithm' = active_algorithm
  BY QueueChange DEF Tick
<1> SUFFICES ASSUME active_algorithm = "sjf" PROVE SortedBy(est_burst', ready'[0])
  BY <1>0 DEF Sorted, SortedBy
<1>1. /\ TypeOK /\ q \in Seq(User) /\ SortedBy(est_burst, q)
      /\ est_burst' \in [PID -> Nat] /\ ready \in [Levels -> Seq(User)]
  <2>1. IInv'
    BY NextKeeps
  <2> QED BY <2>1 DEF IInv, TypeOK, Sorted
<1>2. SortedBy(est_burst', q)
  <2> SUFFICES ASSUME NEW i \in 1 .. Len(q), NEW j \in 1 .. Len(q), i < j
               PROVE  est_burst'[q[i]] <= est_burst'[q[j]]
    BY DEF SortedBy
  <2>1. \A k \in 1 .. Len(q) : q[k] \in User /\ q[k] \in Range(q)
    <3> HIDE DEF q
    <3>1. DOMAIN q = 1 .. Len(q) /\ \A k \in 1 .. Len(q) : q[k] \in User
      BY <1>1, ElementOfSeq, LenProperties
    <3> QED BY <3>1 DEF Range
  <2>2. \A k \in 1 .. Len(q) : state[q[k]] = "READY"
    BY <2>1 DEF IInv, ReadyQueued, InQueues
  <2>3. \A k \in 1 .. Len(q) : est_burst'[q[k]] = est_burst[q[k]]
    BY <2>1, <2>2, EstimateChange
  <2>4. est_burst[q[i]] <= est_burst[q[j]]
    BY <1>1 DEF SortedBy
  <2> QED BY <2>3, <2>4
<1>3. \A levels, p : LevelOf(levels, p) = 0
  BY DEF LevelOf, IsMultilevel
<1>4. ASSUME NEW p \in User, ~InQueues(ready, p), NEW levels,
             ready' = [ready EXCEPT ![LevelOf(levels, p)] = Insert(@, p, est_burst'[p])],
             \A x \in PID : x # p => est_burst'[x] = est_burst[x]
      PROVE  SortedBy(est_burst', ready'[0])
  <2>1. ready'[0] = Insert(q, p, est_burst'[p]) /\ p \notin Range(q)
    BY <1>1, <1>3, <1>4 DEF InQueues
  <2> DEFINE length == est_burst'
  <2>2. length \in [PID -> Nat] /\ \A x \in PID : x # p => length[x] = est_burst[x]
    BY <1>1, <1>4
  <2> HIDE DEF length, q
  <2>3. SortedBy(length, Insert(q, p, length[p]))
    BY <1>1, <2>1, <2>2, InsertSorted
  <2> QED BY <2>1, <2>3 DEF length
<1>5. CASE Tick
  <2>1. BoostedQueues = ready
    BY DEF BoostedQueues, Boosts
  <2>2. est_burst' = est_burst
    BY <1>5 DEF Tick
  <2>3. CASE ready' = BoostedQueues
    BY <1>2, <2>1, <2>3
  <2>4. CASE /\ c \in User /\ ~InQueues(BoostedQueues, c)
             /\ ready' = Enqueue(BoostedQueues, LevelsAfterTick, c)
    BY <1>4, <2>1, <2>2, <2>4 DEF Enqueue
  <2> QED BY <1>5, <2>3, <2>4, TickQueues DEF OInv
<1>6. CASE UNCHANGED ready
  BY <1>2, <1>6
<1>7. CASE UnlinksOne
  <2>1. PICK l \in Levels : \E i \in DOMAIN ready[l] : ready' = [ready EXCEPT ![l] = Unlink(@, i)]
    BY <1>7 DEF UnlinksOne
  <2>2. PICK i \in DOMAIN ready[l] : ready' = [ready EXCEPT ![l] = Unlink(@, i)]
    BY <2>1
  <2>3. ready'[0] = IF l = 0 THEN Unlink(q, i) ELSE q
    BY <1>1, <2>2
  <2>4. CASE l = 0
    <3>1. i \in 1 .. Len(q)
      BY <1>1, <2>4, LenProperties
    <3>2. SortedBy(est_burst', Unlink(q, i))
      BY <1>1, <1>2, <3>1, RemoveSorted
    <3> QED BY <2>3, <2>4, <3>2
  <2>5. CASE l # 0
    BY <1>2, <2>3, <2>5
  <2> QED BY <2>4, <2>5
<1>8. CASE LinksOne
  <2>1. PICK p \in User :
          /\ ~InQueues(ready, p)
          /\ ready' = [ready EXCEPT ![LevelOf(queue_level', p)] = Insert(@, p, est_burst'[p])]
          /\ \A x \in PID : x # p => /\ est_burst'[x] = est_burst[x]
                                     /\ queue_level'[x] = queue_level[x]
                                     /\ queue_priority'[x] = queue_priority[x]
    BY <1>8, Zenon DEF LinksOne
  <2>2. \A x \in PID : x # p => est_burst'[x] = est_burst[x]
    BY <2>1
  <2> QED BY <1>4, <2>1, <2>2, Zenon
<1> QED BY <1>5, <1>6, <1>7, <1>8, QueueChange

(* The SJF queue is sorted by the present estimates: the estimate of a       *)
(* process changes only while it is in no queue.                             *)
THEOREM ShortestJobFirst == Spec => []ShortestFirst
<1>1. Init => Sorted
  <2> SUFFICES ASSUME Init PROVE SortedBy(est_burst, ready[0])
    BY DEF Sorted
  <2>1. ready[0] = <<1>>
    BY Basics DEF Init
  <2> QED BY <2>1 DEF SortedBy
<1>2. IInv /\ OInv /\ Sorted /\ [Next]_vars => Sorted'
  BY SortedStep
<1>3. IInv /\ Sorted => ShortestFirst
  <2> SUFFICES ASSUME IInv, Sorted, active_algorithm = "sjf",
                      NEW i \in DOMAIN ready[0], NEW j \in DOMAIN ready[0], i < j
               PROVE  est_burst[ready[0][i]] <= est_burst[ready[0][j]]
    BY DEF ShortestFirst
  <2>1. ready[0] \in Seq(User)
    BY Basics DEF IInv, TypeOK
  <2>2. DOMAIN ready[0] = 1 .. Len(ready[0])
    BY <2>1, LenProperties
  <2> QED BY <2>2 DEF Sorted, SortedBy
<1> QED BY <1>1, <1>2, <1>3, AlwaysIInv, AlwaysOInv, PTL DEF Spec

----------------------------------------------------------------------------
(* The aging bonus *)

Static == PRIORITIES \cup {1}
Capped(n) == n <= QUANTUM \/ \E value \in Static : n <= 2 * value
Aging ==
  /\ \A p \in PID : priority[p] \in Static \cup {0}
  /\ active_algorithm = "priority_aging" => \A p \in PID : Capped(counter[p])

(* A recharge halves what is left before it adds the static priority.  The   *)
(* priority added now need not be the one that bounded the counter before.   *)
LEMMA RechargeCapped ==
  ASSUME NEW n \in Int, Capped(n), NEW v \in Static \cup {0}
  PROVE  Capped(n \div 2 + v)
<1> DEFINE h == n \div 2
<1>0. v \in Nat /\ \A value \in Static : value \in Nat \ {0}
  BY SchedulerAssumption DEF Static
<1>1. h \in Int /\ 2 * h <= n /\ QUANTUM \in Nat \ {0}
  BY SchedulerAssumption
<1> HIDE DEF h
<1>2. CASE n <= QUANTUM
  <2>1. CASE v = 0
    <3>1. h + v <= QUANTUM
      BY <1>0, <1>1, <1>2, <2>1
    <3> QED BY <3>1 DEF Capped, h
  <2>2. CASE v # 0 /\ h <= v
    <3>1. h + v <= 2 * v /\ v \in Static
      BY <1>0, <1>1, <2>2
    <3> QED BY <3>1 DEF Capped, h
  <2>3. CASE v # 0 /\ h > v
    <3>1. h + v <= QUANTUM
      BY <1>0, <1>1, <1>2, <2>3
    <3> QED BY <3>1 DEF Capped, h
  <2> QED BY <1>0, <1>1, <2>1, <2>2, <2>3
<1>3. CASE \E value \in Static : n <= 2 * value
  <2>1. PICK w \in Static : n <= 2 * w
    BY <1>3
  <2>2. CASE v # 0 /\ w <= v
    <3>1. h + v <= 2 * v /\ v \in Static
      BY <1>0, <1>1, <2>1, <2>2
    <3> QED BY <3>1 DEF Capped, h
  <2>3. CASE v = 0 \/ v < w
    <3>1. h + v <= 2 * w
      BY <1>0, <1>1, <2>1, <2>3
    <3> QED BY <3>1 DEF Capped, h
  <2> QED BY <1>0, <2>2, <2>3
<1> QED BY <1>2, <1>3 DEF Capped

(* What a step does to a counter under priority_aging: a pick does not       *)
(* recharge the process it dispatches.                                       *)
LEMMA CounterChange ==
  ASSUME IInv, [Next]_vars, active_algorithm = "priority_aging", NEW x \in PID
  PROVE  \/ counter'[x] \in {counter[x], counter[x] - 1, 0, QUANTUM}
         \/ counter'[x] = Recharge(x)
<1>0. /\ current_process \in PID /\ counter \in [PID -> Int] /\ n_processes \in 2 .. N_PROCESSES
  BY DEF IInv, TypeOK
<1>1. CASE Tick
  <2>1. counter' = [counter EXCEPT ![current_process] = IF KeepsCpu THEN @ - 1 ELSE 0]
    BY <1>1 DEF Tick
  <2> QED BY <1>0, <2>1
<1>2. CASE Pick
  <2>1. ASSUME NEW l \in Levels, NEW i \in DOMAIN ready[l], Take(l, i) PROVE counter' = counter
    <3>1. \A p : Recharged(p, l) = counter[p]
      BY DEF Recharged, IsMultilevel
    <3>2. ready[l][i] \in PID
      BY <2>1, TakeEffect, Basics
    <3>3. \/ counter' = [counter EXCEPT ![ready[l][i]] = Recharged(ready[l][i], l)]
          \/ counter' = counter
      BY <2>1, TakeEffect
    <3> QED BY <1>0, <3>1, <3>2, <3>3
  <2>2. CASE NewEpoch
    BY <2>2 DEF NewEpoch
  <2>3. NextLevel \/ NobodyReady \/ AgingSignal => counter' = counter
    BY DEF NextLevel, NobodyReady, DispatchInit, AgingSignal
  <2> QED BY <1>2, <2>1, <2>2, <2>3, PickCases
<1>3. CASE schedule \/ syscall_yield
  BY <1>0, <1>3 DEF schedule, syscall_yield
<1>4. CASE syscall_fork
  <2>1. counter' = [counter EXCEPT ![n_processes] = QUANTUM]
    BY <1>4 DEF syscall_fork
  <2> QED BY <1>0, <2>1
<1>5. _schedule \/ WaitState \/ WaitPid \/ ExitWakes \/ ExitDone \/ ForkFails \/ exit_process
      \/ UNCHANGED vars
      \/ (\E pid \in WAIT_TARGETS : syscall_wait(pid))
      \/ (\E pid \in SIGNAL_TARGETS, signal \in SIGNALS : syscall_send_signal(pid, signal))
      \/ (\E pid \in PID : sched_set_param(pid))
        => counter' = counter
  BY DEF _schedule, WaitState, WaitPid, ExitWakes, ExitDone, ForkFails, exit_process,
         syscall_wait, syscall_send_signal, sched_set_param, vars
<1> QED BY <1>1, <1>2, <1>3, <1>4, <1>5 DEF Next, Continue, Syscall

LEMMA AgingStep ==
  ASSUME IInv, Aging, [Next]_vars
  PROVE  Aging'
<1>0. /\ current_process \in PID /\ counter \in [PID -> Int] /\ priority \in [PID -> Nat]
      /\ n_processes \in 2 .. N_PROCESSES
  BY DEF IInv, TypeOK
<1>1. ASSUME NEW x \in PID PROVE priority'[x] \in Static \cup {0}
  <2>1. CASE syscall_fork
    <3>1. priority' = [priority EXCEPT ![n_processes] = priority[current_process]]
      BY <2>1 DEF syscall_fork
    <3> QED BY <1>0, <3>1 DEF Aging
  <2>2. CASE \E pid \in PID : sched_set_param(pid)
    <3>1. PICK pid \in PID : sched_set_param(pid)
      BY <2>2
    <3>2. \/ priority' = priority
          \/ \E value \in PRIORITIES : priority' = [priority EXCEPT ![pid] = value]
      BY <3>1 DEF sched_set_param
    <3> QED BY <1>0, <3>2 DEF Aging, Static
  <2>3. Pick => priority' = priority
    BY DEF Pick, PickHead, PickWinner, PickBest, Take, NextLevel, NobodyReady, DispatchInit,
           AgingSignal, NewEpoch, params
  <2>4. Tick \/ Continue \/ syscall_yield \/ ForkFails \/ exit_process \/ UNCHANGED vars
        \/ (\E pid \in WAIT_TARGETS : syscall_wait(pid))
        \/ (\E pid \in SIGNAL_TARGETS, signal \in SIGNALS : syscall_send_signal(pid, signal))
          => priority' = priority
    BY DEF Tick, Continue, schedule, _schedule, WaitState, WaitPid, ExitWakes, ExitDone,
           syscall_yield, ForkFails, exit_process, syscall_wait, syscall_send_signal, vars, params
  <2>5. CASE priority' = priority
    BY <2>5 DEF Aging
  <2> QED BY <2>1, <2>2, <2>3, <2>4, <2>5 DEF Next, Syscall
<1>2. ASSUME active_algorithm' = "priority_aging", NEW x \in PID PROVE Capped(counter'[x])
  <2>1. active_algorithm = "priority_aging"
    BY <1>2, QueueChange DEF Tick
  <2>2. counter[x] \in Int /\ Capped(counter[x]) /\ priority[x] \in Static \cup {0}
    BY <1>0, <2>1 DEF Aging
  <2>3. CASE counter'[x] = Recharge(x)
    BY <2>2, <2>3, RechargeCapped DEF Recharge
  <2>4. CASE counter'[x] \in {counter[x], 0, QUANTUM}
    BY <2>2, <2>4, SchedulerAssumption DEF Capped
  <2>5. CASE counter'[x] = counter[x] - 1
    <3>1. QUANTUM \in Nat /\ \A value \in Static : value \in Nat
      BY SchedulerAssumption DEF Static
    <3> QED BY <2>2, <2>5, <3>1 DEF Capped
  <2> QED BY <2>1, <2>3, <2>4, <2>5, CounterChange
<1> QED BY <1>1, <1>2 DEF Aging, Capped, Static

(* priority_aging: however many epochs a process sleeps through and whatever *)
(* set_sched_param does meanwhile, its dynamic priority never exceeds the    *)
(* initial slice or twice a static priority that some process was given.     *)
THEOREM BonusCapped == Spec => []AgingCapped
<1>1. Init => Aging
  <2> SUFFICES ASSUME Init PROVE Aging
    OBVIOUS
  <2>1. \A p \in PID : priority[p] \in {0, 1}
    BY DEF Init
  <2>2. \A p \in PID : counter[p] \in {0, 1, QUANTUM}
    BY DEF Init
  <2>3. 0 <= QUANTUM /\ 1 <= QUANTUM /\ QUANTUM <= QUANTUM
    BY SchedulerAssumption
  <2> QED BY <2>1, <2>2, <2>3 DEF Aging, Capped, Static
<1>2. IInv /\ Aging /\ [Next]_vars => Aging'
  BY AgingStep
<1>3. Aging => AgingCapped
  BY DEF Aging, AgingCapped, Capped, Static
<1> QED BY <1>1, <1>2, <1>3, AlwaysIInv, PTL DEF Spec

----------------------------------------------------------------------------
(* Waiting for another process, under the algorithms that do not preempt *)

(* exit_process of t has looked for waiters. *)
Gone(t) == pc[t] = "exited" \/ (state[t] = "ZOMBIE" /\ pc[t] \in {"sched", "pick"})

(* Without preemption only the process that has the CPU is inside a system   *)
(* call, so that what syscall_wait has tested stays true until it has        *)
(* blocked.                                                                  *)
Stays == \A p \in User : p # current_process \/ picking => pc[p] \in {"run", "exited"}
Waiting ==
  \A p \in User :
    /\ pc[p] = "wait_pid" => state[p] = "WAITING_ANOTHER_PROCESS"
    /\ pc[p] \in {"wait_state", "wait_pid"} => ~Gone(wait_arg[p])
    /\ state[p] = "WAITING_ANOTHER_PROCESS" /\ pc[p] # "wait_pid"
         => pid_to_wait[p] \in PID /\ ~Gone(pid_to_wait[p])
WaitInv == pc[init] = "run" /\ (~IsPreemptive => Stays /\ Waiting)

(* The steps that stay inside one system call or outside all of them. *)
Inside ==
  schedule \/ _schedule \/ syscall_yield \/ (\E pid \in WAIT_TARGETS : syscall_wait(pid))
  \/ WaitState \/ WaitPid \/ exit_process \/ ExitDone

LEMMA OtherSteps ==
  ASSUME IInv, [Next]_vars, ~Inside
  PROVE  /\ UNCHANGED <<pc, wait_arg>>
         /\ \A x \in PID : pid_to_wait'[x] = pid_to_wait[x] \/ state'[x] = "READY"
<1>1. CASE ExitWakes
  <2>1. PICK p \in PID : state' = [state EXCEPT ![p] = "READY"]
                         /\ pid_to_wait' = [pid_to_wait EXCEPT ![p] = NONE]
    BY <1>1 DEF ExitWakes
  <2> QED BY <1>1, <2>1 DEF ExitWakes, IInv, TypeOK
<1>2. Pick => UNCHANGED <<pc, waits>>
  BY DEF Pick, PickHead, PickWinner, PickBest, Take, NextLevel, NobodyReady, DispatchInit,
         AgingSignal, NewEpoch
<1>3. Tick \/ syscall_fork \/ ForkFails \/ UNCHANGED vars
      \/ (\E pid \in SIGNAL_TARGETS, signal \in SIGNALS : syscall_send_signal(pid, signal))
      \/ (\E pid \in PID : sched_set_param(pid))
        => UNCHANGED <<pc, waits>>
  BY DEF Tick, syscall_fork, ForkFails, syscall_send_signal, sched_set_param, vars
<1> QED BY <1>1, <1>2, <1>3 DEF Next, Continue, Syscall, Inside, waits

LEMMA StaysStep ==
  ASSUME IInv, ~IsPreemptive, Stays, [Next]_vars
  PROVE  Stays'
<1> SUFFICES ASSUME NEW p \in User, p # current_process' \/ picking'
             PROVE  pc'[p] \in {"run", "exited"}
  BY DEF Stays
<1>0. pc \in [PID -> Labels] /\ current_process \in PID /\ p \in PID
  BY Basics DEF IInv, TypeOK
<1>1. CASE Tick
  <2>1. pc' = pc /\ current_process' = current_process
    BY <1>1 DEF Tick
  <2>2. picking' = picking \/ current_process = init
    BY <1>1 DEF Tick, Reschedules
  <2>3. p # current_process \/ picking
    BY <2>1, <2>2, Basics
  <2> QED BY <2>1, <2>3 DEF Stays
<1>2. CASE Pick
  <2>1. picking
    BY <1>2, PickCases
  <2>2. Pick => pc' = pc
    BY DEF Pick, PickHead, PickWinner, PickBest, Take, NextLevel, NobodyReady, DispatchInit,
           AgingSignal, NewEpoch
  <2> QED BY <1>2, <2>1, <2>2 DEF Stays
<1>3. CASE _schedule
  BY <1>0, <1>3 DEF _schedule, GoTo, Stays
<1>4. CASE schedule \/ syscall_yield \/ (\E pid \in WAIT_TARGETS : syscall_wait(pid))
           \/ WaitState \/ WaitPid \/ exit_process \/ ExitDone
  <2>1. /\ ~picking' /\ ~picking /\ current_process' = current_process
        /\ \E m \in Labels : pc' = [pc EXCEPT ![current_process] = m]
    BY <1>4 DEF schedule, syscall_yield, syscall_wait, WaitState, WaitPid, exit_process, ExitDone,
                At, GoTo, Labels
  <2> QED BY <1>0, <2>1 DEF Stays
<1>5. ExitWakes \/ syscall_fork \/ ForkFails \/ UNCHANGED vars
      \/ (\E pid \in SIGNAL_TARGETS, signal \in SIGNALS : syscall_send_signal(pid, signal))
      \/ (\E pid \in PID : sched_set_param(pid))
        => UNCHANGED <<pc, picking, current_process>>
  BY DEF ExitWakes, syscall_fork, ForkFails, syscall_send_signal, sched_set_param, vars
<1>6. CASE UNCHANGED <<pc, picking, current_process>>
  BY <1>6 DEF Stays
<1> QED BY <1>1, <1>2, <1>3, <1>4, <1>5, <1>6 DEF Next, Continue, Syscall

(* The state of a process does not change while it is blocking. *)
LEMMA BlockingStays ==
  ASSUME IInv, OInv, ~IsPreemptive, Stays, Waiting, [Next]_vars, NEW p \in User, pc[p] = "wait_pid"
  PROVE  state'[p] = "WAITING_ANOTHER_PROCESS"
<1>1. p = current_process /\ ~picking /\ state[p] = "WAITING_ANOTHER_PROCESS"
  BY DEF Stays, Waiting
<1>2. ~ExitWakes
  BY <1>1 DEF ExitWakes, At
<1> QED BY <1>1, <1>2, StateChange

(* Only the end of the scan in exit_process puts a process beyond waiting. *)
LEMMA GoneChange ==
  ASSUME IInv, OInv, pc[init] = "run", ~IsPreemptive, Stays, Waiting, [Next]_vars,
         NEW t \in PID, Gone(t)', ~Gone(t)
  PROVE  ExitDone /\ t = current_process
<1> USE Basics
<1>0. pc \in [PID -> Labels] /\ current_process \in PID /\ state \in [PID -> States]
  BY DEF IInv, TypeOK
<1>1. CASE ~Inside
  <2>1. pc' = pc
    BY <1>1, OtherSteps
  <2>2. state'[t] = "ZOMBIE" /\ pc[t] \in {"sched", "pick"} /\ state[t] # "ZOMBIE" /\ t \in User
    BY <2>1 DEF Gone
  <2>3. t = current_process /\ ~picking
    BY <2>2 DEF Stays
  <2> QED BY <1>1, <2>2, <2>3, StateChange DEF Inside
<1>2. CASE Inside
  <2>1. /\ ~picking /\ current_process # init
        /\ \E m \in Labels : pc' = [pc EXCEPT ![current_process] = m]
    BY <1>2 DEF Inside, schedule, _schedule, syscall_yield, syscall_wait, WaitState, WaitPid,
                exit_process, ExitDone, At, GoTo, Labels
  <2>2. CASE t # current_process
    <3>1. pc'[t] = pc[t] /\ pc[t] \in {"run", "exited"}
      BY <1>0, <2>1, <2>2 DEF Stays
    <3> QED BY <3>1 DEF Gone
  <2>3. CASE t = current_process
    <3>1. CASE schedule
      BY <1>0, <2>3, <3>1 DEF schedule, At, GoTo, Gone
    <3>2. CASE _schedule
      BY <1>0, <2>3, <3>2 DEF _schedule, At, GoTo, Gone
    <3>3. CASE syscall_yield
      BY <1>0, <2>3, <3>3 DEF syscall_yield, At, GoTo, Gone, IInv, RunsItsCode
    <3>4. CASE \E pid \in WAIT_TARGETS : syscall_wait(pid)
      BY <1>0, <2>3, <3>4 DEF syscall_wait, At, GoTo, Gone
    <3>5. CASE WaitState
      BY <1>0, <2>3, <3>5 DEF WaitState, At, GoTo, Gone
    <3>6. CASE WaitPid
      <4>1. pc[t] = "wait_pid" /\ t \in User
        BY <2>1, <2>3, <3>6 DEF WaitPid, At
      <4>2. state[t] = "WAITING_ANOTHER_PROCESS" /\ state' = state /\ pc'[t] = "sched"
        BY <1>0, <2>3, <3>6, <4>1 DEF WaitPid, GoTo, Waiting
      <4> QED BY <4>2 DEF Gone
    <3>7. CASE exit_process
      BY <1>0, <2>3, <3>7 DEF exit_process, At, GoTo, Gone
    <3> QED BY <1>2, <2>3, <3>1, <3>2, <3>3, <3>4, <3>5, <3>6, <3>7 DEF Inside
  <2> QED BY <2>2, <2>3
<1> QED BY <1>1, <1>2

(* How a process gets to a label of syscall_wait. *)
LEMMA WaitLabels ==
  ASSUME IInv, [Next]_vars, NEW p \in User
  PROVE  /\ pc'[p] = "wait_pid" => pc[p] = "wait_pid" \/ (WaitState /\ p = current_process)
         /\ pc'[p] = "wait_state" =>
              \/ pc[p] = "wait_state"
              \/ p = current_process /\ \E pid \in WAIT_TARGETS : syscall_wait(pid)
         /\ pc[p] = "wait_pid" => pc'[p] = "wait_pid" \/ (WaitPid /\ p = current_process)
         /\ wait_arg'[p] = wait_arg[p]
              \/ (p = current_process /\ (WaitPid \/ \E pid \in WAIT_TARGETS : syscall_wait(pid)))
         /\ pid_to_wait'[p] = pid_to_wait[p] \/ state'[p] = "READY"
              \/ (WaitPid /\ p = current_process)
<1>0. /\ pc \in [PID -> Labels] /\ current_process \in PID /\ p \in PID
      /\ wait_arg \in [PID -> PID] /\ pid_to_wait \in [PID -> PID \cup {NONE}]
  BY Basics DEF IInv, TypeOK
<1>1. CASE ~Inside
  BY <1>0, <1>1, OtherSteps
<1>2. CASE schedule \/ _schedule \/ syscall_yield \/ exit_process \/ ExitDone
  <2>1. /\ pc[current_process] \notin {"wait_state", "wait_pid"}
        /\ \E m \in Labels \ {"wait_state", "wait_pid"} : pc' = [pc EXCEPT ![current_process] = m]
        /\ UNCHANGED waits
    BY <1>2 DEF schedule, _schedule, syscall_yield, exit_process, ExitDone, At, GoTo, Labels
  <2> QED BY <1>0, <2>1 DEF waits
<1>3. CASE \E pid \in WAIT_TARGETS : syscall_wait(pid)
  BY <1>0, <1>3 DEF syscall_wait, At, GoTo
<1>4. CASE WaitState
  BY <1>0, <1>4 DEF WaitState, At, GoTo, waits
<1>5. CASE WaitPid
  BY <1>0, <1>5 DEF WaitPid, At, GoTo
<1> QED BY <1>1, <1>2, <1>3, <1>4, <1>5 DEF Inside

LEMMA WaitingStep ==
  ASSUME IInv, OInv, pc[init] = "run", ~IsPreemptive, Stays, Waiting, [Next]_vars
  PROVE  Waiting'
<1> DEFINE c == current_process
<1>0. /\ pc \in [PID -> Labels] /\ c \in PID /\ state \in [PID -> States]
      /\ wait_arg \in [PID -> PID] /\ pid_to_wait \in [PID -> PID \cup {NONE}]
      /\ User \subseteq PID /\ WAIT_TARGETS \subseteq PID
  BY Basics, SchedulerAssumption DEF IInv, TypeOK
<1>1. ASSUME NEW p \in User, pc'[p] = "wait_pid" PROVE state'[p] = "WAITING_ANOTHER_PROCESS"
  <2>1. CASE pc[p] = "wait_pid"
    BY <2>1, BlockingStays
  <2>2. CASE WaitState /\ p = c
    BY <1>0, <2>2 DEF WaitState
  <2> QED BY <1>1, <2>1, <2>2, WaitLabels
<1>2. ASSUME NEW p \in User, pc[p] \in {"wait_state", "wait_pid"}, NEW t \in PID, ~Gone(t)
      PROVE  ~Gone(t)'
  <2>1. p = c
    BY <1>2 DEF Stays
  <2>2. ~ExitDone
    BY <1>2, <2>1 DEF ExitDone, At
  <2> QED BY <1>2, <2>2, GoneChange
<1>3. ASSUME NEW p \in User, pc'[p] \in {"wait_state", "wait_pid"},
             NEW t \in PID, t = wait_arg'[p]
      PROVE  ~Gone(t)'
  <2>1. CASE pc[p] \in {"wait_state", "wait_pid"}
    <3>1. ~(p = c /\ (WaitPid \/ \E pid \in WAIT_TARGETS : syscall_wait(pid)))
      BY <1>0, <1>3, <2>1 DEF WaitPid, syscall_wait, At, GoTo
    <3>2. t = wait_arg[p]
      BY <1>3, <3>1, WaitLabels
    <3>3. ~Gone(t)
      BY <2>1, <3>2 DEF Waiting
    <3> QED BY <1>2, <2>1, <3>3
  <2>2. CASE p = c /\ \E pid \in WAIT_TARGETS : syscall_wait(pid)
    <3>1. PICK pid \in WAIT_TARGETS : syscall_wait(pid)
      BY <2>2
    <3>2. t = pid /\ state[t] # "ZOMBIE" /\ pc[c] = "run"
      BY <1>0, <1>3, <2>2, <3>1 DEF syscall_wait, At
    <3>3. ~Gone(t)
      <4>1. t \in User => pc[t] # "exited"
        BY <3>2 DEF OInv, Exited
      <4>2. t \in User \/ t = init
        BY Basics
      <4>3. pc[t] # "exited"
        BY <4>1, <4>2
      <4> QED BY <3>2, <4>3 DEF Gone
    <3>4. ~ExitDone
      BY <3>2 DEF ExitDone, At
    <3> QED BY <3>3, <3>4, GoneChange
  <2>3. CASE WaitState /\ p = c
    BY <2>1, <2>3 DEF WaitState, At
  <2> QED BY <1>3, <2>1, <2>2, <2>3, WaitLabels
<1>4. ASSUME NEW p \in User, state'[p] = "WAITING_ANOTHER_PROCESS", pc'[p] # "wait_pid"
      PROVE  pid_to_wait'[p] \in PID /\ \A t \in PID : t = pid_to_wait'[p] => ~Gone(t)'
  <2>1. state[p] = "WAITING_ANOTHER_PROCESS"
    <3>1. CASE WaitState /\ p = c
      BY <1>0, <1>4, <3>1 DEF WaitState, GoTo
    <3> QED BY <1>4, <3>1, StateChange
  <2>2. CASE pc[p] = "wait_pid"
    <3>1. WaitPid /\ p = c
      BY <1>4, <2>2, WaitLabels
    <3>2. pid_to_wait'[p] = wait_arg[p] /\ wait_arg[p] \in PID
      BY <1>0, <3>1 DEF WaitPid
    <3>3. ASSUME NEW t \in PID, t = wait_arg[p] PROVE ~Gone(t)'
      <4>1. ~Gone(t)
        BY <2>2, <3>3 DEF Waiting
      <4> QED BY <1>2, <2>2, <4>1
    <3> QED BY <3>2, <3>3
  <2>3. CASE pc[p] # "wait_pid"
    <3>1. ~(WaitPid /\ p = c)
      BY <2>3 DEF WaitPid, At
    <3>2. pid_to_wait'[p] = pid_to_wait[p] /\ pid_to_wait[p] \in PID
      BY <1>4, <2>1, <2>3, <3>1, WaitLabels DEF Waiting
    <3>3. ASSUME NEW t \in PID, t = pid_to_wait[p] PROVE ~Gone(t)'
      <4>1. ~Gone(t)
        BY <2>1, <2>3, <3>3 DEF Waiting
      <4>2. ASSUME ExitDone, t = c PROVE FALSE
        <5>1. ~WaitsFor(p, c)
          BY <1>0, <4>2 DEF ExitDone, AllWoken
        <5>2. Exists(p)
          BY <1>0, <2>1, Basics DEF IInv, Unborn, Exists, TypeOK
        <5> QED BY <2>1, <3>3, <4>2, <5>1, <5>2 DEF WaitsFor
      <4> QED BY <4>1, <4>2, GoneChange
    <3> QED BY <3>2, <3>3
  <2> QED BY <2>2, <2>3
<1>5. wait_arg' \in [PID -> PID]
  <2>1. IInv'
    BY NextKeeps
  <2> QED BY <2>1 DEF IInv, TypeOK
<1>6. ASSUME NEW p \in User
      PROVE  /\ pc'[p] \in {"wait_state", "wait_pid"} => ~Gone(wait_arg[p])'
             /\ state'[p] = "WAITING_ANOTHER_PROCESS" /\ pc'[p] # "wait_pid"
                  => pid_to_wait'[p] \in PID /\ ~Gone(pid_to_wait[p])'
  <2>1. wait_arg'[p] \in PID
    BY <1>0, <1>5
  <2>2. \A t \in PID : ~Gone(t)' <=> ~(pc'[t] = "exited" \/ (state'[t] = "ZOMBIE" /\ pc'[t] \in {"sched", "pick"}))
    BY DEF Gone
  <2> QED BY <1>3, <1>4, <2>1, <2>2 DEF Gone
<1> QED BY <1>1, <1>6 DEF Waiting

(* Under FCFS and SJF no wake-up is lost: nobody stays blocked on a process  *)
(* whose exit_process has already looked for waiters.                        *)
THEOREM NoWakeupLost == Spec => []WaitersWoken
<1>1. Init => WaitInv
  BY Basics DEF Init, WaitInv, Stays, Waiting
<1>2. IInv /\ OInv /\ WaitInv /\ [Next]_vars => WaitInv'
  <2> SUFFICES ASSUME IInv, OInv, WaitInv, [Next]_vars PROVE WaitInv'
    OBVIOUS
  <2>1. IsPreemptive' <=> IsPreemptive
    BY QueueChange DEF Tick, IsPreemptive
  <2>2. pc'[init] = "run"
    <3>1. pc \in [PID -> Labels] /\ current_process \in PID /\ init \in PID
      BY Basics DEF IInv, TypeOK
    <3>2. CASE ~Inside
      BY <3>2, OtherSteps DEF WaitInv
    <3>3. CASE Inside
      <4>1. /\ current_process # init
            /\ \E m \in Labels : pc' = [pc EXCEPT ![current_process] = m]
        BY <3>3 DEF Inside, schedule, _schedule, syscall_yield, syscall_wait, WaitState, WaitPid,
                    exit_process, ExitDone, At, GoTo, Labels
      <4> QED BY <3>1, <4>1 DEF WaitInv
    <3> QED BY <3>2, <3>3
  <2> QED BY <2>1, <2>2, StaysStep, WaitingStep DEF WaitInv
<1>3. IInv /\ WaitInv => WaitersWoken
  <2> SUFFICES ASSUME IInv, WaitInv, ~IsPreemptive, NEW p \in PID,
                      state[p] = "WAITING_ANOTHER_PROCESS", pc[p] = "run"
               PROVE  pc[pid_to_wait[p]] # "exited"
    BY DEF WaitersWoken, NoLostWaiter
  <2>1. p \in User
    BY Basics DEF IInv, InitNeverBlocks
  <2>2. ~Gone(pid_to_wait[p])
    BY <2>1 DEF WaitInv, Waiting
  <2> QED BY <2>2 DEF Gone
<1> QED BY <1>1, <1>2, <1>3, AlwaysIInv, AlwaysOInv, PTL DEF Spec

----------------------------------------------------------------------------
(* The lottery.  TicketsUpTo is a running sum. *)
SumsUp(f, n) ==
  f = [k \in 0 .. n |-> IF k = 0 THEN 0 ELSE f[k - 1] + TicketsOf(ready[0][k])]

LEMMA TicketsPositive ==
  ASSUME TypeOK, NEW n \in 1 .. Len(ready[0])
  PROVE  TicketsOf(ready[0][n]) \in Nat \ {0}
<1>1. ready[0] \in Seq(User) /\ \A p \in PID : tickets[p] \in Nat
  BY Basics DEF TypeOK
<1>2. ready[0][n] \in PID
  BY <1>1 DEF User
<1> QED BY <1>1, <1>2 DEF TicketsOf

LEMMA SumExists ==
  ASSUME TypeOK, NEW n \in 0 .. Len(ready[0])
  PROVE  \E f \in [0 .. n -> Nat] : SumsUp(f, n)
<1> DEFINE a == [k \in 1 .. n |-> TicketsOf(ready[0][k])]
<1>1. Len(ready[0]) \in Nat /\ n \in Nat
  BY Basics DEF TypeOK
<1>2. a \in [1 .. n -> Nat]
  BY <1>1, TicketsPositive
<1>3. PICK f \in [0 .. n -> Nat] : f[0] = 0 /\ \A k \in 1 .. n : f[k] = f[k - 1] + a[k]
  <2> HIDE DEF a
  <2> QED BY <1>1, <1>2, SumLoop
<1>4. ASSUME NEW k \in 0 .. n PROVE f[k] = IF k = 0 THEN 0 ELSE f[k - 1] + TicketsOf(ready[0][k])
  <2>1. CASE k = 0
    BY <1>3, <2>1
  <2>2. CASE k # 0
    <3>1. k \in 1 .. n /\ k - 1 \in 0 .. n
      BY <1>1, <2>2
    <3> QED BY <1>3, <2>2, <3>1
  <2> QED BY <2>1, <2>2
<1>5. SumsUp(f, n)
  BY <1>4 DEF SumsUp
<1> QED BY <1>5

LEMMA SumIs ==
  ASSUME TypeOK, NEW n \in 0 .. Len(ready[0])
  PROVE  \E f : SumsUp(f, n) /\ TicketsUpTo(n) = f[n]
<1> DEFINE f == CHOOSE f : f = [k \in 0 .. n |-> IF k = 0 THEN 0 ELSE f[k - 1] + TicketsOf(ready[0][k])]
<1>1. f = [k \in 0 .. n |-> IF k = 0 THEN 0 ELSE f[k - 1] + TicketsOf(ready[0][k])]
  BY SumExists DEF SumsUp
<1>2. TicketsUpTo(n) = f[n]
  BY DEF TicketsUpTo
<1> HIDE DEF f
<1> QED BY <1>1, <1>2 DEF SumsUp

LEMMA TicketsAddUp ==
  ASSUME TypeOK
  PROVE  /\ TicketsUpTo(0) = 0
         /\ \A n \in 1 .. Len(ready[0]) : TicketsUpTo(n) = TicketsUpTo(n - 1) + TicketsOf(ready[0][n])
<1>0. Len(ready[0]) \in Nat
  BY Basics DEF TypeOK
<1>1. TicketsUpTo(0) = 0
  <2>1. PICK f : SumsUp(f, 0) /\ TicketsUpTo(0) = f[0]
    BY <1>0, SumIs
  <2> QED BY <2>1 DEF SumsUp
<1>2. ASSUME NEW n \in 1 .. Len(ready[0])
      PROVE  TicketsUpTo(n) = TicketsUpTo(n - 1) + TicketsOf(ready[0][n])
  <2>1. n \in 0 .. Len(ready[0]) /\ n - 1 \in 0 .. Len(ready[0]) /\ n \in Nat \ {0} /\ n - 1 \in Nat
    BY <1>0
  <2>2. PICK f : SumsUp(f, n) /\ TicketsUpTo(n) = f[n]
    BY <2>1, SumIs
  <2>3. PICK g : SumsUp(g, n - 1) /\ TicketsUpTo(n - 1) = g[n - 1]
    BY <2>1, SumIs
  <2>4. \A k \in 0 .. n : f[k] = IF k = 0 THEN 0 ELSE f[k - 1] + TicketsOf(ready[0][k])
    BY <2>2, Zenon DEF SumsUp
  <2>5. \A k \in 0 .. n - 1 : g[k] = IF k = 0 THEN 0 ELSE g[k - 1] + TicketsOf(ready[0][k])
    BY <2>3, Zenon DEF SumsUp
  <2> DEFINE T == {k \in 0 .. n - 1 : f[k] = g[k]}
  <2>6. 0 \in T
    BY <2>1, <2>4, <2>5
  <2>7. ASSUME NEW k \in 1 .. n - 1, k - 1 \in T PROVE k \in T
    BY <2>1, <2>4, <2>5, <2>7
  <2>8. n - 1 \in T
    <3> HIDE DEF T
    <3>1. 0 .. n - 1 \subseteq T
      BY <2>1, <2>6, <2>7, UpTo
    <3> QED BY <2>1, <3>1
  <2> QED BY <2>1, <2>2, <2>3, <2>4, <2>8
<1> QED BY <1>1, <1>2

(* The sums grow along the queue. *)
LEMMA TicketsGrow ==
  ASSUME TypeOK, NEW n \in 0 .. Len(ready[0])
  PROVE  TicketsUpTo(n) \in Nat /\ \A j \in 0 .. n : TicketsUpTo(j) <= TicketsUpTo(n)
<1>0. Len(ready[0]) \in Nat /\ n \in Nat
  BY Basics DEF TypeOK
<1> DEFINE T == {m \in 0 .. n : \A j \in 0 .. m : TicketsUpTo(j) \in Nat /\ TicketsUpTo(j) <= TicketsUpTo(m)}
<1>1. 0 \in T
  BY <1>0, TicketsAddUp
<1>2. ASSUME NEW m \in 1 .. n, m - 1 \in T PROVE m \in T
  <2>1. m \in 1 .. Len(ready[0]) /\ m \in 0 .. n
    BY <1>0
  <2>2. TicketsUpTo(m) = TicketsUpTo(m - 1) + TicketsOf(ready[0][m]) /\ TicketsOf(ready[0][m]) \in Nat
    BY <2>1, TicketsAddUp, TicketsPositive
  <2>3. /\ \A j \in 0 .. m - 1 : TicketsUpTo(j) \in Nat /\ TicketsUpTo(j) <= TicketsUpTo(m - 1)
        /\ m - 1 \in 0 .. m - 1
    BY <1>0, <1>2
  <2>4. TicketsUpTo(m) \in Nat /\ TicketsUpTo(m - 1) <= TicketsUpTo(m)
    BY <2>2, <2>3
  <2>5. ASSUME NEW j \in 0 .. m PROVE TicketsUpTo(j) \in Nat /\ TicketsUpTo(j) <= TicketsUpTo(m)
    <3>1. CASE j = m
      BY <2>4, <3>1
    <3>2. CASE j # m
      <4>1. j \in 0 .. m - 1
        BY <2>1, <3>2
      <4> QED BY <2>3, <2>4, <4>1
    <3> QED BY <3>1, <3>2
  <2> QED BY <2>1, <2>4, <2>5
<1>3. n \in T
  <2> HIDE DEF T
  <2>1. 0 .. n \subseteq T
    BY <1>0, <1>1, <1>2, UpTo
  <2> QED BY <1>0, <2>1
<1> QED BY <1>0, <1>3

(* The numbers that make process i win are those from the sum before it up   *)
(* to, but not including, the sum with it.                                   *)
LEMMA WinningNumbers ==
  ASSUME TypeOK, NEW i \in DOMAIN ready[0]
  PROVE  {w \in 0 .. TicketsUpTo(Len(ready[0])) - 1 : Holds(i, w)}
           = TicketsUpTo(i - 1) .. TicketsUpTo(i) - 1
<1> DEFINE n == Len(ready[0])
<1>1. n \in Nat /\ i \in 1 .. n
  <2>1. ready[0] \in Seq(User)
    BY Basics DEF TypeOK
  <2> QED BY <2>1
<1>2. i \in 0 .. n /\ i - 1 \in 0 .. n /\ n \in 0 .. n /\ i - 1 \in Nat
  BY <1>1
<1>3. /\ TicketsUpTo(n) \in Nat /\ TicketsUpTo(i) <= TicketsUpTo(n)
      /\ TicketsUpTo(i) \in Nat
  <2>1. TicketsUpTo(n) \in Nat /\ \A j \in 0 .. n : TicketsUpTo(j) <= TicketsUpTo(n)
    BY <1>2, TicketsGrow
  <2>2. TicketsUpTo(i) \in Nat
    BY <1>2, TicketsGrow
  <2> QED BY <1>2, <2>1, <2>2
<1>4. TicketsUpTo(i - 1) \in Nat /\ \A j \in 0 .. i - 1 : TicketsUpTo(j) <= TicketsUpTo(i - 1)
  <2>1. PICK m : m = i - 1
    OBVIOUS
  <2>2. m \in 0 .. n
    BY <1>2, <2>1
  <2>3. TicketsUpTo(m) \in Nat /\ \A j \in 0 .. m : TicketsUpTo(j) <= TicketsUpTo(m)
    BY <2>2, TicketsGrow
  <2> QED BY <2>1, <2>3
<1>5. ASSUME NEW j \in 0 .. i - 1 PROVE TicketsUpTo(j) \in Nat
  <2>1. j \in 0 .. n
    BY <1>1
  <2> QED BY <2>1, TicketsGrow
<1>6. TicketsUpTo(0) = 0
  BY TicketsAddUp
<1> HIDE DEF n
<1>7. ASSUME NEW w \in 0 .. TicketsUpTo(n) - 1, Holds(i, w)
      PROVE  w \in TicketsUpTo(i - 1) .. TicketsUpTo(i) - 1
  <2>1. w \in Nat /\ w < TicketsUpTo(i)
    BY <1>3, <1>7 DEF Holds
  <2>2. TicketsUpTo(i - 1) <= w
    <3>1. CASE i - 1 = 0
      BY <1>6, <2>1, <3>1
    <3>2. CASE i - 1 # 0
      <4>1. i - 1 \in 1 .. i - 1
        BY <1>2, <3>2
      <4> QED BY <1>7, <4>1 DEF Holds
    <3> QED BY <3>1, <3>2
  <2> QED BY <1>3, <1>4, <2>1, <2>2
<1>8. ASSUME NEW w \in TicketsUpTo(i - 1) .. TicketsUpTo(i) - 1
      PROVE  w \in 0 .. TicketsUpTo(n) - 1 /\ Holds(i, w)
  <2>1. w \in Nat /\ TicketsUpTo(i - 1) <= w /\ w < TicketsUpTo(i)
    BY <1>3, <1>4, <1>8
  <2>2. w \in 0 .. TicketsUpTo(n) - 1
    BY <1>3, <2>1
  <2>3. ASSUME NEW j \in 1 .. i - 1 PROVE TicketsUpTo(j) <= w
    <3>1. j \in 0 .. i - 1
      BY <1>2
    <3>2. TicketsUpTo(j) <= TicketsUpTo(i - 1) /\ TicketsUpTo(j) \in Nat
      BY <1>4, <1>5, <3>1
    <3> QED BY <1>4, <2>1, <3>2
  <2> QED BY <2>1, <2>2, <2>3 DEF Holds
<1> QED BY <1>7, <1>8 DEF n

(* The lottery of _schedule_lottery is proportional: whatever tickets the    *)
(* queued processes hold, each wins for exactly as many of the numbers that  *)
(* can be drawn as it has tickets.                                           *)
THEOREM ProportionalLottery == Spec => []ProportionalDraw
<1>1. ASSUME TypeOK, NEW i \in DOMAIN ready[0]
      PROVE  Cardinality({w \in 0 .. TicketsUpTo(Len(ready[0])) - 1 : Holds(i, w)})
               = TicketsOf(ready[0][i])
  <2>1. Len(ready[0]) \in Nat /\ i \in 1 .. Len(ready[0])
    <3>1. ready[0] \in Seq(User)
      BY <1>1, Basics DEF TypeOK
    <3> QED BY <1>1, <3>1
  <2>2. i \in 0 .. Len(ready[0])
    BY <2>1
  <2>3. TicketsUpTo(i) = TicketsUpTo(i - 1) + TicketsOf(ready[0][i])
    BY <1>1, <2>1, TicketsAddUp
  <2>4. TicketsOf(ready[0][i]) \in Nat \ {0}
    BY <1>1, <2>1, TicketsPositive
  <2>5. TicketsUpTo(i - 1) \in Nat
    <3>1. i - 1 \in 0 .. Len(ready[0])
      BY <2>1
    <3> QED BY <1>1, <3>1, TicketsGrow
  <2>6. Cardinality(TicketsUpTo(i - 1) .. TicketsUpTo(i) - 1) = TicketsOf(ready[0][i])
    <3>1. PICK a, b : a = TicketsUpTo(i - 1) /\ b = TicketsUpTo(i) - 1
      OBVIOUS
    <3>2. a \in Int /\ b \in Int /\ ~(a > b) /\ b - a + 1 = TicketsOf(ready[0][i])
      BY <2>3, <2>4, <2>5, <3>1
    <3>3. Cardinality(a .. b) = IF a > b THEN 0 ELSE b - a + 1
      BY <3>2, FS_Interval
    <3> QED BY <3>1, <3>2, <3>3
  <2> QED BY <1>1, <2>6, WinningNumbers
<1>2. TypeOK => ProportionalDraw
  BY <1>1 DEF ProportionalDraw
<1> QED BY <1>2, AlwaysIInv, PTL DEF IInv

=============================================================================
