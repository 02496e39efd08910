---------------------------- MODULE MemoryProofs ----------------------------
(***************************************************************************)
(* Under an algorithm that is not preemptive no page has two owners and no *)
(* page is lost but the ones close_file, exec and a failed fork forget,    *)
(* for every amount of memory, number of processes and number of           *)
(* descriptors.                                                            *)
(*                                                                         *)
(* Sound is OwnedOnce and Accounted as a relation between the marks, the   *)
(* slots and the lost pages: the lemmas of the first part say what it does *)
(* when a page is put into a slot, moved, given back or forgotten.  The    *)
(* rest of the invariant says that the slots a call is about to fill are   *)
(* empty, which makes each step of a call one of these moves.              *)
(***************************************************************************)
EXTENDS Memory, QueueLemmas, FiniteSetTheorems

Sound(m, s, l) ==
  /\ m \in [Pages -> {0, 1}]
  /\ s \in [Slots -> Pages \cup {NULL}]
  /\ l \in SUBSET Pages
  /\ \A a, b \in Slots : s[a] = s[b] /\ s[a] # NULL => a = b
  /\ \A a \in Slots : s[a] # NULL => m[s[a]] = 1 /\ s[a] \notin l
  /\ \A i \in Pages : m[i] = 1 => i \in l \/ \E a \in Slots : s[a] = i
  /\ \A i \in l : m[i] = 1

Marked(m, x) == [i \in Pages |-> IF i = x THEN 1 ELSE m[i]]

CallType ==
  [op : Ops, at : Sites, found : Pages \cup {NULL, NONE}, fd : Fds, target : Procs,
   i : 1 .. MAX_PROCESS_PAGES]

(* The sizes are positive numbers; processes and descriptors count from 0. *)
LEMMA Sizes ==
  /\ N_PAGES \in Nat /\ MAX_HEAP \in Nat
  /\ N_PROCESSES \in Nat /\ N_PROCESSES > 1
  /\ MAX_PROCESS_PAGES \in Nat /\ MAX_PROCESS_PAGES > 0
  /\ CODE_PAGES \in Nat /\ CODE_PAGES > 0 /\ CODE_PAGES <= MAX_PROCESS_PAGES
  /\ LEVELS \in Nat /\ LEVELS > 0 /\ LEVELS <= MAX_PROCESS_PAGES
  /\ 0 \in Procs /\ 1 \in Procs /\ Procs \subseteq Nat
  /\ 0 \in Fds /\ Fds \subseteq Nat
BY MemoryAssumption DEF Procs, Fds

(* A process that is not in the kernel. *)
LEMMA IdleType == Idle \in CallType
BY Sizes DEF Idle, CallType, Ops, Sites

(* NULL, 0, is no page. *)
LEMMA NullIsNoPage == NULL \notin Pages /\ NONE \notin Pages /\ NULL # NONE /\ Pages \subseteq Nat
BY MemoryAssumption DEF NULL, NONE, Pages

(* Min is the least element of the free pages, and so a free page. *)
LEMMA MinIsMember ==
  ASSUME NEW T \in SUBSET Nat, T # {}
  PROVE  Min(T) \in T
<1>1. \E x \in T : \A y \in T : x <= y
  BY LeastNatural
<1> QED BY <1>1 DEF Min

(* get_free_page puts a free page, or NULL, into an empty slot. *)
LEMMA PutPage ==
  ASSUME NEW m, NEW s, NEW l, Sound(m, s, l),
         NEW a \in Slots, s[a] = NULL,
         NEW x \in Pages \cup {NULL}, x \in Pages => m[x] = 0
  PROVE  Sound(Marked(m, x), [s EXCEPT ![a] = x], l)
<1> DEFINE n == Marked(m, x)
           t == [s EXCEPT ![a] = x]
<1>1. n \in [Pages -> {0, 1}] /\ t \in [Slots -> Pages \cup {NULL}] /\ l \in SUBSET Pages
  BY DEF Sound, Marked
<1>2. \A b \in Slots : s[b] # NULL => s[b] # x
  BY DEF Sound
<1>3. \A b, c \in Slots : t[b] = t[c] /\ t[b] # NULL => b = c
  BY <1>2 DEF Sound
<1>4. \A b \in Slots : t[b] # NULL => n[t[b]] = 1 /\ t[b] \notin l
  BY NullIsNoPage DEF Sound, Marked
<1>5. ASSUME NEW i \in Pages, n[i] = 1 PROVE i \in l \/ \E b \in Slots : t[b] = i
  <2>1. CASE i = x
    BY <2>1 DEF Sound
  <2>2. CASE i # x
    <3>1. m[i] = 1
      BY <1>5, <2>2 DEF Marked
    <3>2. i \in l \/ \E b \in Slots : s[b] = i
      BY <3>1 DEF Sound
    <3> QED BY <3>2, NullIsNoPage DEF Sound
  <2> QED BY <2>1, <2>2
<1>6. \A i \in l : n[i] = 1
  BY DEF Sound, Marked
<1> HIDE DEF n, t
<1>7. Sound(n, t, l)
  BY <1>1, <1>3, <1>4, <1>5, <1>6 DEF Sound
<1> QED BY <1>7 DEF n, t

(* A page goes from one slot to another, empty one. *)
LEMMA MovePage ==
  ASSUME NEW m, NEW s, NEW l, Sound(m, s, l),
         NEW a \in Slots, NEW b \in Slots, a # b, s[b] = NULL
  PROVE  Sound(m, [s EXCEPT ![a] = NULL, ![b] = s[a]], l)
<1> DEFINE t == [s EXCEPT ![a] = NULL, ![b] = s[a]]
<1>1. t \in [Slots -> Pages \cup {NULL}] /\ t[a] = NULL /\ t[b] = s[a]
      /\ \A c \in Slots \ {a, b} : t[c] = s[c]
  BY DEF Sound
<1> HIDE DEF t
<1>2. \A c, d \in Slots : t[c] = t[d] /\ t[c] # NULL => c = d
  BY <1>1 DEF Sound
<1>3. \A c \in Slots : t[c] # NULL => m[t[c]] = 1 /\ t[c] \notin l
  BY <1>1 DEF Sound
<1>4. ASSUME NEW i \in Pages, m[i] = 1 PROVE i \in l \/ \E c \in Slots : t[c] = i
  <2>1. i \in l \/ \E c \in Slots : s[c] = i
    BY <1>4 DEF Sound
  <2> QED BY <2>1, <1>1, NullIsNoPage
<1>5. Sound(m, t, l)
  BY <1>1, <1>2, <1>3, <1>4 DEF Sound
<1> QED BY <1>5 DEF t

(* free_page gives back what the slots of U hold. *)
LEMMA FreePages ==
  ASSUME NEW m, NEW s, NEW l, Sound(m, s, l), NEW U \in SUBSET Slots
  PROVE  Sound([i \in Pages |-> IF i \in {s[u] : u \in U} THEN 0 ELSE m[i]],
               [u \in Slots |-> IF u \in U THEN NULL ELSE s[u]], l)
<1> DEFINE n == [i \in Pages |-> IF i \in {s[u] : u \in U} THEN 0 ELSE m[i]]
           t == [u \in Slots |-> IF u \in U THEN NULL ELSE s[u]]
<1>1. n \in [Pages -> {0, 1}] /\ t \in [Slots -> Pages \cup {NULL}]
  BY DEF Sound
<1>2. \A a, b \in Slots : t[a] = t[b] /\ t[a] # NULL => a = b
  BY DEF Sound
<1>3. ASSUME NEW a \in Slots, t[a] # NULL PROVE n[t[a]] = 1 /\ t[a] \notin l
  <2>1. a \notin U /\ t[a] = s[a] /\ s[a] \in Pages
    BY <1>3 DEF Sound
  <2>2. s[a] \notin {s[u] : u \in U}
    BY <2>1, <1>3 DEF Sound
  <2> QED BY <2>1, <2>2, <1>3 DEF Sound
<1>4. ASSUME NEW i \in Pages, n[i] = 1 PROVE i \in l \/ \E a \in Slots : t[a] = i
  <2>1. m[i] = 1 /\ i \notin {s[u] : u \in U}
    BY <1>4
  <2>2. i \in l \/ \E a \in Slots : s[a] = i
    BY <2>1 DEF Sound
  <2> QED BY <2>1, <2>2
<1>5. ASSUME NEW i \in l PROVE n[i] = 1
  <2>1. i \in Pages /\ m[i] = 1 /\ i \notin {s[u] : u \in U}
    BY NullIsNoPage DEF Sound
  <2> QED BY <2>1
<1> HIDE DEF n, t
<1>6. Sound(n, t, l)
  <2>1. l \in SUBSET Pages
    BY DEF Sound
  <2> QED BY <1>1, <1>2, <1>3, <1>4, <1>5, <2>1 DEF Sound
<1> QED BY <1>6 DEF n, t

(* free_page gives back what one slot holds. *)
LEMMA FreeOne ==
  ASSUME NEW m, NEW s, NEW l, Sound(m, s, l), NEW a \in Slots
  PROVE  Sound(free_page(m, s[a]), [s EXCEPT ![a] = NULL], l)
<1>1. Sound([i \in Pages |-> IF i \in {s[u] : u \in {a}} THEN 0 ELSE m[i]],
            [u \in Slots |-> IF u \in {a} THEN NULL ELSE s[u]], l)
  BY FreePages
<1>2. [i \in Pages |-> IF i \in {s[u] : u \in {a}} THEN 0 ELSE m[i]] = free_page(m, s[a])
  <2>1. {s[u] : u \in {a}} = {s[a]}
    OBVIOUS
  <2>2. m = [i \in Pages |-> m[i]]
    BY DEF Sound
  <2>3. free_page(m, s[a]) = [i \in Pages |-> IF i = s[a] THEN 0 ELSE m[i]]
    BY <2>2 DEF free_page
  <2> QED BY <2>1, <2>3
<1>3. [u \in Slots |-> IF u \in {a} THEN NULL ELSE s[u]] = [s EXCEPT ![a] = NULL]
  BY DEF Sound
<1> QED BY <1>1, <1>2, <1>3

(* A slot is overwritten or goes out of scope with the page still marked. *)
LEMMA ForgetPage ==
  ASSUME NEW m, NEW s, NEW l, Sound(m, s, l), NEW a \in Slots
  PROVE  Sound(m, [s EXCEPT ![a] = NULL], l \cup ({s[a]} \ {NULL}))
<1> DEFINE t == [s EXCEPT ![a] = NULL]
           k == l \cup ({s[a]} \ {NULL})
<1>1. t \in [Slots -> Pages \cup {NULL}] /\ k \in SUBSET Pages
      /\ t[a] = NULL /\ \A c \in Slots \ {a} : t[c] = s[c]
  BY DEF Sound
<1>2. \A c, d \in Slots : t[c] = t[d] /\ t[c] # NULL => c = d
  BY <1>1 DEF Sound
<1>3. \A c \in Slots : t[c] # NULL => m[t[c]] = 1 /\ t[c] \notin k
  BY <1>1 DEF Sound
<1>4. ASSUME NEW i \in Pages, m[i] = 1 PROVE i \in k \/ \E c \in Slots : t[c] = i
  <2>1. i \in l \/ \E c \in Slots : s[c] = i
    BY <1>4 DEF Sound
  <2> QED BY <2>1, <1>1, NullIsNoPage
<1>5. \A i \in k : m[i] = 1
  BY DEF Sound
<1> HIDE DEF t, k
<1>6. Sound(m, t, k)
  <2>1. m \in [Pages -> {0, 1}]
    BY DEF Sound
  <2> QED BY <1>1, <1>2, <1>3, <1>4, <1>5, <2>1 DEF Sound
<1> QED BY <1>6 DEF t, k

(* copy_process forgets the page of a PCB it has no room for. *)
LEMMA LosePage ==
  ASSUME NEW m, NEW s, NEW l, Sound(m, s, l),
         NEW x \in Pages \cup {NULL}, x \in Pages => m[x] = 0
  PROVE  Sound(Marked(m, x), s, l \cup ({x} \ {NULL}))
<1> DEFINE n == Marked(m, x)
           k == l \cup ({x} \ {NULL})
<1>1. n \in [Pages -> {0, 1}] /\ k \in SUBSET Pages
  BY DEF Sound, Marked
<1>2. \A c \in Slots : s[c] # NULL => n[s[c]] = 1 /\ s[c] \notin k
  BY DEF Sound, Marked
<1>3. \A i \in Pages : n[i] = 1 => i \in k \/ \E c \in Slots : s[c] = i
  BY NullIsNoPage DEF Sound, Marked
<1>4. \A i \in k : n[i] = 1
  BY DEF Sound, Marked
<1> HIDE DEF n, k
<1>5. Sound(n, s, k)
  <2>1. s \in [Slots -> Pages \cup {NULL}]
        /\ \A a, b \in Slots : s[a] = s[b] /\ s[a] # NULL => a = b
    BY DEF Sound
  <2> QED BY <1>1, <1>2, <1>3, <1>4, <2>1 DEF Sound
<1> QED BY <1>5 DEF n, k

-----------------------------------------------------------------------------
(* The invariant *)

(* A process outside the kernel asks for no page, and the page one inside has
   found is still free: nobody else can take it. *)
FoundIsFree(p) ==
  /\ call[p].found \in Pages => memory_pages[call[p].found] = 0
  /\ ~InKernel(p) => call[p].found = NONE

(* The local variables of a call hold a page only between the step that gets
   it and the one that hands it on. *)
LocalsEmpty(p) ==
  /\ slot[<<p, "new", 0>>] # NULL => call[p].at \in {"open", "resource", "wild"}
  /\ slot[<<p, "page", 0>>] # NULL => call[p].at \in {"table", "wild"}
  /\ slot[<<p, "buffer", 0>>] # NULL
       => /\ call[p].op = "exec"
          /\ call[p].at \in {"read", "release", "close", "unmap", "user", "table", "wild"}

(* The entries of user_pages and kernel_pages past the counts are empty, and
   so is the file of an unused descriptor. *)
EntriesEmpty(p) ==
  /\ \A k \in 1 .. MAX_PROCESS_PAGES :
       /\ k > n_user_pages[p] => slot[<<p, "user", k>>] = NULL
       /\ k > n_kernel_pages[p] => slot[<<p, "table", k>>] = NULL
  /\ \A fd \in Fds : slot[<<p, "resource", fd>>] = NULL => slot[<<p, "file", fd>>] = NULL

(* A call that opens a file, or takes memory, has room for it, and close_file
   has let go of the File when it comes to the resource. *)
RoomLeft(p) ==
  /\ call[p].at = "close" => slot[<<p, "file", call[p].fd>>] = NULL
  /\ call[p].at \in {"new", "open", "resource"} => slot[<<p, "resource", call[p].fd>>] = NULL
  /\ call[p].at = "malloc" => \E k \in 1 .. MAX_HEAP : slot[<<p, "heap", k>>] = NULL

(* Which call is where. *)
CallAgrees(p) ==
  /\ call[p].at \in {"new", "open", "resource"} => call[p].op \in {"open", "exec"}
  /\ call[p].at \in {"release", "close"} => call[p].op \in {"close", "exec"}
  /\ call[p].at \in {"buffer", "read", "unmap"} => call[p].op = "exec"
  /\ call[p].at = "pcb" => call[p].op \in {"fork", "kthread"}
  /\ call[p].at \in {"user", "table"} => call[p].op \in {"fork", "exec", "boot"}
  /\ call[p].op \in {"exec", "boot"} => call[p].target = p
  /\ call[p].at \notin {"user", "table", "wild"} => call[p].i = 1

(* The loop over the pages of a process never gets ahead of its counter. *)
LoopBounded(p) ==
  /\ call[p].at \in {"user", "table"} =>
       IF call[p].op = "fork"
       THEN /\ call[p].i <= n_user_pages[p]
            /\ n_user_pages[call[p].target] = call[p].i - 1
       ELSE /\ call[p].i <= CODE_PAGES
            /\ n_user_pages[call[p].target] < call[p].i
  /\ call[p].at = "table" => n_kernel_pages[call[p].target] < LEVELS

Creating(p) == call[p].op = "fork" /\ call[p].at \in {"user", "table", "wild"}

(* A fork fills the next entry of processes[]. *)
TargetIsNext(p) ==
  /\ call[p].at = "pcb" /\ n_processes < N_PROCESSES => call[p].target = n_processes
  /\ Creating(p) => call[p].target = n_processes /\ n_processes < N_PROCESSES

Fine(p) ==
  /\ FoundIsFree(p)
  /\ LocalsEmpty(p)
  /\ RoomLeft(p)
  /\ CallAgrees(p)
  /\ LoopBounded(p)
  /\ TargetIsNext(p)

(* A pid that is not in use yet has nothing, unless it is being forked. *)
Unborn(q) ==
  q >= n_processes =>
    /\ call[q].at = "none"
    /\ \/ \E p \in Procs : Creating(p) /\ call[p].target = q
       \/ n_user_pages[q] = 0 /\ slot[<<q, "pcb", 0>>] = NULL

OneInKernel == \A p, q \in Procs : InKernel(p) /\ InKernel(q) => p = q

IInv ==
  /\ TypeOK
  /\ Sound(memory_pages, slot, lost)
  /\ OneInKernel
  /\ \A p \in Procs : Fine(p) /\ EntriesEmpty(p) /\ Unborn(p)

(* The places a call names are slots. *)
LEMMA SlotsOf ==
  ASSUME NEW p \in Procs
  PROVE  /\ \A f \in {"pcb", "new", "page", "buffer"} : <<p, f, 0>> \in Slots
         /\ \A k \in 1 .. MAX_PROCESS_PAGES : <<p, "user", k>> \in Slots /\ <<p, "table", k>> \in Slots
         /\ \A fd \in Fds : <<p, "resource", fd>> \in Slots /\ <<p, "file", fd>> \in Slots
         /\ \A k \in 1 .. MAX_HEAP : <<p, "heap", k>> \in Slots
BY DEF Slots

(* Without preemption a process inside the kernel is alone there. *)
LEMMA Alone ==
  ASSUME ~PREEMPTIVE, NEW p \in Procs, Turn(p)
  PROVE  \A q \in Procs \ {p} : ~InKernel(q)
BY DEF Turn

(* kernel_main starts with no page in use. *)
LEMMA InitIInv == Init => IInv
<1> SUFFICES ASSUME Init PROVE IInv
  OBVIOUS
<1> USE DEF Init
<1>1. TypeOK
  <2>1. memory_pages \in [Pages -> {0, 1}] /\ slot \in [Slots -> Pages \cup {NULL}] /\ lost \subseteq Pages
    OBVIOUS
  <2>2. n_user_pages \in [Procs -> 0 .. MAX_PROCESS_PAGES] /\ n_kernel_pages \in [Procs -> 0 .. MAX_PROCESS_PAGES]
    BY Sizes
  <2>3. n_processes \in 1 .. N_PROCESSES
    BY Sizes
  <2>4. call \in [Procs -> CallType]
    <3>1. [Idle EXCEPT !.op = "kthread", !.at = "pcb", !.target = 1] \in CallType
      BY IdleType, Sizes DEF CallType, Ops, Sites, AllocSites
    <3>2. [Idle EXCEPT !.at = "none"] \in CallType
      BY IdleType DEF CallType, Sites
    <3> QED BY <3>1, <3>2
  <2> QED BY <2>1, <2>2, <2>3, <2>4 DEF TypeOK, CallType
<1>2. Sound(memory_pages, slot, lost)
  BY DEF Sound, NULL
<1>3. \A p \in Procs : /\ call[p].at \in {"pcb", "none"} /\ call[p].found = NONE /\ call[p].i = 1
                       /\ call[p].at = "pcb" => p = 0 /\ call[p].op = "kthread" /\ call[p].target = 1
                       /\ call[p].at = "none" => call[p].op = "none" /\ p # 0
  BY DEF Idle
<1>4. \A s \in Slots : slot[s] = NULL
  OBVIOUS
<1>5. OneInKernel
  BY <1>3 DEF OneInKernel, InKernel
<1>6. ASSUME NEW p \in Procs PROVE Fine(p)
  BY <1>3, <1>4, SlotsOf, NullIsNoPage
     DEF Fine, FoundIsFree, LocalsEmpty, RoomLeft, CallAgrees, LoopBounded, TargetIsNext, Creating, InKernel
<1>7. ASSUME NEW p \in Procs PROVE EntriesEmpty(p)
  BY <1>4, SlotsOf DEF EntriesEmpty
<1>8. ASSUME NEW q \in Procs PROVE Unborn(q)
  <2>1. slot[<<q, "pcb", 0>>] = NULL
    BY <1>4, SlotsOf
  <2> QED BY <1>3, <2>1 DEF Unborn
<1> QED BY <1>1, <1>2, <1>5, <1>6, <1>7, <1>8 DEF IInv

(* What a step of p does not touch: another process is not in the kernel, and
   stays as it is. *)
LEMMA Bystander ==
  ASSUME IInv, ~PREEMPTIVE, NEW p \in Procs, Turn(p),
         NEW q \in Procs, q # p, call'[q] = call[q],
         \A f \in {"new", "page", "buffer"} : slot'[<<q, f, 0>>] = slot[<<q, f, 0>>]
  PROVE  ~InKernel(q)' /\ Fine(q)'
<1>1. ~InKernel(q) /\ ~InKernel(q)'
  BY Alone DEF InKernel
<1>2. Fine(q) /\ call[q].at \in {"none", "user_mode", "zombie"}
  BY <1>1 DEF IInv, InKernel
<1>3. FoundIsFree(q)' /\ CallAgrees(q)' /\ LoopBounded(q)'
  BY <1>1, <1>2, NullIsNoPage DEF Fine, FoundIsFree, CallAgrees, LoopBounded
<1>4. LocalsEmpty(q)'
  BY <1>2 DEF Fine, LocalsEmpty
<1>5. RoomLeft(q)' /\ TargetIsNext(q)'
  BY <1>2 DEF RoomLeft, TargetIsNext, Creating
<1> QED BY <1>1, <1>3, <1>4, <1>5 DEF Fine

(* A step that leaves the slots of a process alone. *)
LEMMA SlotsKept ==
  ASSUME NEW q \in Procs, \A s \in Slots : s[1] = q => slot'[s] = slot[s]
  PROVE  \A f \in {"pcb", "new", "page", "buffer"} : slot'[<<q, f, 0>>] = slot[<<q, f, 0>>]
BY SlotsOf

(* A step that leaves the counts of the process alone as well. *)
LEMMA EntriesKept ==
  ASSUME NEW q \in Procs, EntriesEmpty(q), \A s \in Slots : s[1] = q => slot'[s] = slot[s],
         n_user_pages'[q] = n_user_pages[q], n_kernel_pages'[q] = n_kernel_pages[q]
  PROVE  EntriesEmpty(q)'
<1>1. \A k \in 1 .. MAX_PROCESS_PAGES : slot'[<<q, "user", k>>] = slot[<<q, "user", k>>]
                                      /\ slot'[<<q, "table", k>>] = slot[<<q, "table", k>>]
  BY SlotsOf
<1>2. \A fd \in Fds : slot'[<<q, "resource", fd>>] = slot[<<q, "resource", fd>>]
                    /\ slot'[<<q, "file", fd>>] = slot[<<q, "file", fd>>]
  BY SlotsOf
<1> QED BY <1>1, <1>2 DEF EntriesEmpty

(* A step that fills and empties slots of p alone. *)
LEMMA OwnStep ==
  ASSUME IInv, ~PREEMPTIVE, NEW p \in Procs, Turn(p), call[p].at # "none",
         NEW c \in CallType, call' = [call EXCEPT ![p] = c],
         Creating(p) => c.op = "fork" /\ c.at \in {"user", "table", "wild"} /\ c.target = call[p].target,
         n_processes' = n_processes,
         n_user_pages' \in [Procs -> 0 .. MAX_PROCESS_PAGES],
         n_kernel_pages' \in [Procs -> 0 .. MAX_PROCESS_PAGES],
         \A q \in Procs \ {p} : n_user_pages'[q] = n_user_pages[q] /\ n_kernel_pages'[q] = n_kernel_pages[q],
         \A s \in Slots : s[1] # p => slot'[s] = slot[s],
         Sound(memory_pages, slot, lost)', Fine(p)', EntriesEmpty(p)'
  PROVE  IInv'
<1>1. TypeOK'
  BY DEF IInv, TypeOK, Sound, CallType
<1>2. call \in [Procs -> CallType]
  BY DEF IInv, TypeOK, CallType
<1>3. call'[p] = c /\ \A q \in Procs \ {p} : call'[q] = call[q]
  BY <1>2
<1>4. ASSUME NEW q \in Procs \ {p}
      PROVE  \A f \in {"pcb", "new", "page", "buffer"} : slot'[<<q, f, 0>>] = slot[<<q, f, 0>>]
  <2>1. \A s \in Slots : s[1] = q => slot'[s] = slot[s]
    OBVIOUS
  <2> QED BY <2>1, SlotsKept
<1>5. \A q \in Procs \ {p} : ~InKernel(q)' /\ Fine(q)'
  BY <1>3, <1>4, Bystander
<1>6. ASSUME NEW q \in Procs \ {p} PROVE EntriesEmpty(q)'
  <2>1. EntriesEmpty(q) /\ \A s \in Slots : s[1] = q => slot'[s] = slot[s]
    BY DEF IInv
  <2> QED BY <2>1, EntriesKept
<1>7. ASSUME NEW q \in Procs PROVE Unborn(q)'
  <2>1. Unborn(q) /\ Unborn(p)
    BY DEF IInv
  <2>2. CASE q >= n_processes
    <3>1. q # p /\ call'[q].at = "none"
      BY <2>1, <2>2, <1>3 DEF Unborn
    <3>2. ASSUME NEW r \in Procs, Creating(r), call[r].target = q
          PROVE  Creating(r)' /\ call'[r].target = q
      BY <3>2, <1>3 DEF Creating
    <3> QED BY <2>1, <2>2, <3>1, <3>2, <1>4 DEF Unborn
  <2>3. CASE ~(q >= n_processes)
    BY <2>3 DEF Unborn
  <2> QED BY <2>2, <2>3
<1>8. OneInKernel'
  BY <1>5 DEF OneInKernel
<1> QED BY <1>1, <1>5, <1>6, <1>7, <1>8 DEF IInv

(* A step that changes nothing but the place p is at. *)
LEMMA QuietCall ==
  ASSUME IInv, ~PREEMPTIVE, NEW p \in Procs, Turn(p), call[p].at # "none",
         NEW c \in CallType, call' = [call EXCEPT ![p] = c],
         Creating(p) => c.op = "fork" /\ c.at \in {"user", "table", "wild"} /\ c.target = call[p].target,
         UNCHANGED <<memory_pages, slot, n_user_pages, n_kernel_pages, n_processes, lost>>,
         Fine(p)'
  PROVE  IInv'
<1>1. n_user_pages' \in [Procs -> 0 .. MAX_PROCESS_PAGES] /\ n_kernel_pages' \in [Procs -> 0 .. MAX_PROCESS_PAGES]
  BY DEF IInv, TypeOK
<1>2. Sound(memory_pages, slot, lost)'
  BY DEF IInv
<1>3. EntriesEmpty(p)'
  BY DEF IInv, EntriesEmpty
<1> QED BY <1>1, <1>2, <1>3, OwnStep

(* A program makes a system call. *)
LEMMA EnterStep ==
  ASSUME IInv, ~PREEMPTIVE, NEW p \in Procs, NEW op \in Ops, NEW site \in Sites,
         NEW fd \in Fds, NEW target \in Procs, Enter(p, op, site, fd, target),
         \/ op = "malloc" /\ site = "malloc" /\ \E k \in 1 .. MAX_HEAP : slot[<<p, "heap", k>>] = NULL
         \/ op \in {"open", "exec"} /\ site = "new" /\ target = p /\ slot[<<p, "resource", fd>>] = NULL
         \/ op = "close" /\ site = "release"
         \/ op = "fork" /\ site = "pcb" /\ (n_processes < N_PROCESSES => target = n_processes)
  PROVE  IInv'
<1> DEFINE c == [Idle EXCEPT !.op = op, !.at = site, !.fd = fd, !.target = target]
<1>1. c \in CallType
  BY IdleType DEF CallType
<1>2. c.op = op /\ c.at = site /\ c.fd = fd /\ c.target = target /\ c.found = NONE /\ c.i = 1
  BY DEF Idle
<1> HIDE DEF c
<1>3. call' = [call EXCEPT ![p] = c] /\ Turn(p) /\ call[p].at = "user_mode"
      /\ UNCHANGED <<memory_pages, slot, n_user_pages, n_kernel_pages, n_processes, lost>>
  BY DEF Enter, c
<1>4. call'[p] = c
  BY <1>3 DEF IInv, TypeOK
<1>5. Fine(p)
  BY DEF IInv
<1>6. FoundIsFree(p)' /\ CallAgrees(p)' /\ LoopBounded(p)' /\ TargetIsNext(p)'
  BY <1>2, <1>3, <1>4, NullIsNoPage DEF FoundIsFree, CallAgrees, LoopBounded, TargetIsNext, Creating, InKernel
<1>7. LocalsEmpty(p)' /\ RoomLeft(p)'
  BY <1>2, <1>3, <1>4, <1>5 DEF Fine, LocalsEmpty, RoomLeft
<1>8. Fine(p)' /\ ~Creating(p)
  BY <1>3, <1>6, <1>7 DEF Fine, Creating
<1> QED BY <1>1, <1>3, <1>8, QuietCall

(* malloc, open, exec, close, fork and exit are called. *)
LEMMA CallsStep ==
  ASSUME IInv, ~PREEMPTIVE, NEW p \in Procs, Calls(p)
  PROVE  IInv'
<1> USE DEF Ops, Sites, AllocSites
<1>1. CASE CallMalloc(p)
  BY <1>1, EnterStep, Sizes DEF CallMalloc
<1>2. CASE CallOpen(p, "open") \/ CallOpen(p, "exec")
  <2>1. FreeFds(p) # {} /\ FreeFds(p) \in SUBSET Nat
    BY <1>2, Sizes DEF CallOpen, FreeFds
  <2>2. get_first_free_file_descriptor(p) \in FreeFds(p)
    BY <2>1, MinIsMember DEF get_first_free_file_descriptor
  <2>3. get_first_free_file_descriptor(p) \in Fds
        /\ slot[<<p, "resource", get_first_free_file_descriptor(p)>>] = NULL
    BY <2>2 DEF FreeFds
  <2> QED BY <1>2, <2>3, EnterStep DEF CallOpen
<1>3. ASSUME NEW fd \in Fds, CallClose(p, fd) PROVE IInv'
  BY <1>3, EnterStep DEF CallClose
<1>4. CASE CallFork(p)
  <2> DEFINE t == IF n_processes < N_PROCESSES THEN n_processes ELSE p
  <2>1. t \in Procs /\ (n_processes < N_PROCESSES => t = n_processes)
    BY Sizes DEF IInv, TypeOK, Procs
  <2> QED BY <1>4, <2>1, EnterStep, Sizes DEF CallFork
<1>5. CASE Exit(p)
  <2> DEFINE c == [call[p] EXCEPT !.at = "zombie"]
  <2>1. c \in CallType /\ call[p] \in CallType
    BY DEF IInv, TypeOK, CallType
  <2>2. c.at = "zombie" /\ c.op = call[p].op /\ c.found = call[p].found /\ c.target = call[p].target /\ c.i = call[p].i
    BY <2>1 DEF CallType
  <2>3. call' = [call EXCEPT ![p] = c] /\ Turn(p) /\ call[p].at = "user_mode"
        /\ UNCHANGED <<memory_pages, slot, n_user_pages, n_kernel_pages, n_processes, lost>>
    BY <1>5 DEF Exit
  <2> HIDE DEF c
  <2>4. call'[p] = c /\ Fine(p)
    BY <2>3 DEF IInv, TypeOK
  <2>5. Fine(p)'
    BY <2>2, <2>3, <2>4 DEF Fine, FoundIsFree, LocalsEmpty, RoomLeft, CallAgrees, LoopBounded, TargetIsNext, Creating, InKernel
  <2>6. ~Creating(p)
    BY <2>3 DEF Creating
  <2> QED BY <2>1, <2>3, <2>5, <2>6, QuietCall
<1> QED BY <1>1, <1>2, <1>3, <1>4, <1>5 DEF Calls

(* What Goto and Return do to the record of a call. *)
LEMMA GotoShape ==
  ASSUME IInv, NEW p \in Procs, NEW site \in Sites, Goto(p, site)
  PROVE  \E c \in CallType :
           /\ call' = [call EXCEPT ![p] = c] /\ call'[p] = c
           /\ c.at = site /\ c.found = NONE
           /\ c.op = call[p].op /\ c.fd = call[p].fd /\ c.target = call[p].target /\ c.i = call[p].i
<1> DEFINE c == [call[p] EXCEPT !.at = site, !.found = NONE]
<1>1. call \in [Procs -> CallType]
  BY DEF IInv, TypeOK, CallType
<1>2. c \in CallType /\ c.at = site /\ c.found = NONE
      /\ c.op = call[p].op /\ c.fd = call[p].fd /\ c.target = call[p].target /\ c.i = call[p].i
  <2>1. call[p] \in CallType
    BY <1>1
  <2>2. c \in CallType
    BY <2>1 DEF CallType
  <2> QED BY <2>1, <2>2 DEF CallType
<1>3. call' = [call EXCEPT ![p] = c]
  BY <1>1 DEF Goto, CallType
<1>4. call'[p] = c
  BY <1>1, <1>3
<1> HIDE DEF c
<1> QED BY <1>2, <1>3, <1>4

(* A process that returns to its program is fine if its locals are empty. *)
LEMMA ReturnFine ==
  ASSUME IInv, NEW p \in Procs, Return(p),
         \A f \in {"new", "page", "buffer"} : slot'[<<p, f, 0>>] = NULL
  PROVE  call' = [call EXCEPT ![p] = Idle] /\ Idle \in CallType /\ Fine(p)'
<1>1. call' = [call EXCEPT ![p] = Idle] /\ call'[p] = Idle
  BY DEF Return, IInv, TypeOK
<1>2. Idle.at = "user_mode" /\ Idle.op = "none" /\ Idle.found = NONE /\ Idle.i = 1
  BY DEF Idle
<1>3. FoundIsFree(p)' /\ CallAgrees(p)' /\ LoopBounded(p)' /\ TargetIsNext(p)' /\ RoomLeft(p)'
  BY <1>1, <1>2, NullIsNoPage DEF FoundIsFree, CallAgrees, LoopBounded, TargetIsNext, RoomLeft, Creating
<1>4. LocalsEmpty(p)'
  BY <1>1, <1>2 DEF LocalsEmpty
<1> QED BY <1>1, <1>3, <1>4, IdleType DEF Fine

(* get_free_page looks for a page: the one it finds is free. *)
LEMMA FindStep ==
  ASSUME IInv, ~PREEMPTIVE, NEW p \in Procs, FindPage(p)
  PROVE  IInv'
<1> DEFINE x == IF Free = {} THEN NULL ELSE Min(Free)
           c == [call[p] EXCEPT !.found = x]
<1>1. x \in Pages \cup {NULL} /\ (x \in Pages => memory_pages[x] = 0)
  <2>1. CASE Free = {}
    BY <2>1, NullIsNoPage
  <2>2. CASE Free # {}
    <3>1. Free \in SUBSET Nat
      BY NullIsNoPage DEF Free
    <3>2. Min(Free) \in Free
      BY <2>2, <3>1, MinIsMember
    <3> QED BY <2>2, <3>2 DEF Free
  <2> QED BY <2>1, <2>2
<1>2. call \in [Procs -> CallType]
  BY DEF IInv, TypeOK, CallType
<1> HIDE DEF x
<1>3. c \in CallType /\ c.found = x /\ c.at = call[p].at /\ c.op = call[p].op /\ c.fd = call[p].fd
      /\ c.target = call[p].target /\ c.i = call[p].i
  BY <1>1, <1>2 DEF CallType
<1>4. call' = [call EXCEPT ![p] = c] /\ Turn(p) /\ call[p].at \in AllocSites
      /\ UNCHANGED <<memory_pages, slot, n_user_pages, n_kernel_pages, n_processes, lost>>
  BY <1>2 DEF FindPage, x, CallType
<1> HIDE DEF c
<1>5. call'[p] = c /\ Fine(p)
  BY <1>2, <1>4 DEF IInv
<1>6. FoundIsFree(p)' /\ LocalsEmpty(p)' /\ RoomLeft(p)'
  BY <1>1, <1>3, <1>4, <1>5 DEF Fine, FoundIsFree, LocalsEmpty, RoomLeft, InKernel, AllocSites
<1>7. CallAgrees(p)' /\ LoopBounded(p)' /\ TargetIsNext(p)'
  BY <1>3, <1>4, <1>5 DEF Fine, CallAgrees, LoopBounded, TargetIsNext, Creating
<1>8. call[p].at # "none" /\ (Creating(p) => c.op = "fork" /\ c.at \in {"user", "table", "wild"} /\ c.target = call[p].target)
  BY <1>3, <1>4 DEF Creating, AllocSites
<1> QED BY <1>3, <1>4, <1>6, <1>7, <1>8, QuietCall DEF Fine

(* The file system opens the path, the program is read, a close fails. *)
LEMMA FileSystemStep ==
  ASSUME IInv, ~PREEMPTIVE, NEW p \in Procs, FatOpen(p) \/ ExecRead(p) \/ FatCloseFails(p)
  PROVE  IInv'
<1> USE DEF Sites, AllocSites
<1>1. Fine(p) /\ Turn(p) /\ UNCHANGED <<memory_pages, slot, n_user_pages, n_kernel_pages, n_processes, lost>>
  BY DEF IInv, FatOpen, ExecRead, FatCloseFails
<1>2. call[p].at \in {"open", "read", "release"}
  BY DEF FatOpen, ExecRead, FatCloseFails
<1>3. ~Creating(p) /\ call[p].at # "none"
  BY <1>2 DEF Creating
<1>4. CASE call[p].at = "release" /\ Return(p) /\ call[p].op = "close"
  <2>1. \A f \in {"new", "page", "buffer"} : slot'[<<p, f, 0>>] = NULL
    BY <1>1, <1>4 DEF Fine, LocalsEmpty
  <2> QED BY <1>1, <1>3, <1>4, <2>1, ReturnFine, QuietCall
<1>5. ASSUME NEW site \in {"resource", "release", "unmap"}, Goto(p, site),
             site = "resource" => call[p].at = "open",
             site # "resource" => call[p].at \in {"read", "release"} /\ call[p].op = "exec"
      PROVE  IInv'
  <2>1. PICK c \in CallType :
           /\ call' = [call EXCEPT ![p] = c] /\ call'[p] = c
           /\ c.at = site /\ c.found = NONE
           /\ c.op = call[p].op /\ c.fd = call[p].fd /\ c.target = call[p].target /\ c.i = call[p].i
    BY <1>5, GotoShape
  <2>2. FoundIsFree(p)' /\ LocalsEmpty(p)' /\ RoomLeft(p)'
    BY <1>1, <1>5, <2>1, NullIsNoPage DEF Fine, FoundIsFree, LocalsEmpty, RoomLeft, InKernel
  <2>3. CallAgrees(p)' /\ LoopBounded(p)' /\ TargetIsNext(p)'
    BY <1>1, <1>5, <2>1 DEF Fine, CallAgrees, LoopBounded, TargetIsNext, Creating
  <2> QED BY <1>1, <1>3, <2>1, <2>2, <2>3, QuietCall DEF Fine
<1>6. CASE FatOpen(p)
  BY <1>5, <1>6 DEF FatOpen
<1>7. CASE ExecRead(p)
  <2>1. call[p].op = "exec"
    BY <1>1, <1>7 DEF Fine, CallAgrees, ExecRead
  <2> QED BY <1>5, <1>7, <2>1 DEF ExecRead
<1>8. CASE FatCloseFails(p)
  <2>1. call[p].op \in {"close", "exec"}
    BY <1>1, <1>8 DEF Fine, CallAgrees, FatCloseFails
  <2> QED BY <1>4, <1>5, <1>8, <2>1 DEF FatCloseFails, AfterClose
<1> QED BY <1>6, <1>7, <1>8

(* get_free_page marks the page it has found. *)
LEMMA TakenPage ==
  ASSUME IInv, NEW p \in Procs, NEW site, TakePage(p, site)
  PROVE  /\ Turn(p) /\ call[p].at = site
         /\ call[p].found \in Pages \cup {NULL}
         /\ call[p].found \in Pages => memory_pages[call[p].found] = 0
         /\ memory_pages' = Marked(memory_pages, call[p].found)
<1>1. call[p].found \in Pages \cup {NULL, NONE}
  BY DEF IInv, TypeOK
<1>2. FoundIsFree(p)
  BY DEF IInv, Fine
<1> QED BY <1>1, <1>2 DEF TakePage, FoundIsFree, Marked

(* The page that was found goes into an empty slot. *)
LEMMA PutFound ==
  ASSUME IInv, NEW p \in Procs, NEW site, TakePage(p, site),
         NEW a \in Slots, slot[a] = NULL
  PROVE  Sound(memory_pages', [slot EXCEPT ![a] = call[p].found], lost)
<1>1. Sound(memory_pages, slot, lost)
  BY DEF IInv
<1>2. Sound(Marked(memory_pages, call[p].found), [slot EXCEPT ![a] = call[p].found], lost)
  BY <1>1, TakenPage, PutPage
<1> QED BY <1>2, TakenPage

(* The counts keep their type in a step that leaves them alone. *)
LEMMA SameCounts ==
  ASSUME IInv, UNCHANGED <<n_user_pages, n_kernel_pages>>
  PROVE  /\ n_user_pages' \in [Procs -> 0 .. MAX_PROCESS_PAGES]
         /\ n_kernel_pages' \in [Procs -> 0 .. MAX_PROCESS_PAGES]
         /\ \A q \in Procs : n_user_pages'[q] = n_user_pages[q] /\ n_kernel_pages'[q] = n_kernel_pages[q]
BY DEF IInv, TypeOK

(* malloc returns the page to the program. *)
LEMMA MallocStep ==
  ASSUME IInv, ~PREEMPTIVE, NEW p \in Procs, syscall_malloc(p)
  PROVE  IInv'
<1>1. TakePage(p, "malloc") /\ Return(p) /\ UNCHANGED <<n_user_pages, n_kernel_pages, n_processes, lost>>
  BY DEF syscall_malloc
<1>2. Turn(p) /\ call[p].at = "malloc" /\ Fine(p) /\ EntriesEmpty(p)
  BY <1>1, TakenPage DEF IInv
<1> DEFINE H == {i \in 1 .. MAX_HEAP : slot[<<p, "heap", i>>] = NULL}
<1>3. H # {} /\ H \in SUBSET Nat
  BY <1>2 DEF Fine, RoomLeft
<1>4. PICK k \in H : slot' = [slot EXCEPT ![<<p, "heap", k>>] = call[p].found]
  BY <1>3, MinIsMember DEF syscall_malloc
<1>5. <<p, "heap", k>> \in Slots /\ slot[<<p, "heap", k>>] = NULL
  BY SlotsOf
<1>6. Sound(memory_pages, slot, lost)'
  BY <1>1, <1>4, <1>5, PutFound
<1>7. \A s \in Slots : s # <<p, "heap", k>> => slot'[s] = slot[s]
  BY <1>4 DEF IInv, TypeOK
<1>8. \A f \in {"new", "page", "buffer"} : slot'[<<p, f, 0>>] = NULL
  BY <1>2, <1>7, SlotsOf DEF Fine, LocalsEmpty
<1>9. EntriesEmpty(p)'
  BY <1>1, <1>2, <1>7, SlotsOf DEF EntriesEmpty
<1>10. \A s \in Slots : s[1] # p => slot'[s] = slot[s]
  BY <1>7
<1>11. ~Creating(p) /\ call[p].at # "none"
  BY <1>2 DEF Creating
<1>12. call' = [call EXCEPT ![p] = Idle] /\ Idle \in CallType /\ Fine(p)'
  BY <1>1, <1>8, ReturnFine
<1> QED BY <1>1, <1>2, <1>6, <1>9, <1>10, <1>11, <1>12, SameCounts, OwnStep

(* open takes a page for the File, exec one for its buffer. *)
LEMMA LocalPageStep ==
  ASSUME IInv, ~PREEMPTIVE, NEW p \in Procs, NewFile(p) \/ ExecBuffer(p)
  PROVE  IInv'
<1>1. PICK f \in {"new", "buffer"}, site \in {"open", "read"} :
         /\ TakePage(p, f) /\ Goto(p, site)
         /\ f = "new" <=> site = "open"
         /\ slot' = [slot EXCEPT ![<<p, f, 0>>] = call[p].found]
         /\ UNCHANGED <<n_user_pages, n_kernel_pages, n_processes, lost>>
  BY DEF NewFile, ExecBuffer
<1>2. Turn(p) /\ call[p].at = f /\ Fine(p) /\ EntriesEmpty(p)
  BY <1>1, TakenPage DEF IInv
<1>3. <<p, f, 0>> \in Slots /\ slot[<<p, f, 0>>] = NULL
  BY <1>2, SlotsOf DEF Fine, LocalsEmpty
<1>4. Sound(memory_pages, slot, lost)'
  BY <1>1, <1>3, PutFound
<1>5. \A s \in Slots : s # <<p, f, 0>> => slot'[s] = slot[s]
  BY <1>1 DEF IInv, TypeOK
<1>6. PICK c \in CallType :
         /\ call' = [call EXCEPT ![p] = c] /\ call'[p] = c
         /\ c.at = site /\ c.found = NONE
         /\ c.op = call[p].op /\ c.fd = call[p].fd /\ c.target = call[p].target /\ c.i = call[p].i
  BY <1>1, GotoShape DEF Sites
<1>7. EntriesEmpty(p)'
  BY <1>1, <1>2, <1>5, SlotsOf DEF EntriesEmpty
<1>8. LocalsEmpty(p)'
  <2>1. \A g \in {"new", "page", "buffer"} : g # f => slot'[<<p, g, 0>>] = slot[<<p, g, 0>>]
    BY <1>5, SlotsOf
  <2> QED BY <1>1, <1>2, <1>6, <2>1 DEF Fine, LocalsEmpty, CallAgrees
<1>9. RoomLeft(p)'
  <2>1. c.fd \in Fds
    BY DEF CallType
  <2>2. slot'[<<p, "resource", c.fd>>] = slot[<<p, "resource", c.fd>>]
    BY <2>1, <1>5, SlotsOf
  <2> QED BY <1>1, <1>2, <1>6, <2>2 DEF Fine, RoomLeft
<1>10. FoundIsFree(p)' /\ CallAgrees(p)' /\ LoopBounded(p)' /\ TargetIsNext(p)'
  BY <1>1, <1>2, <1>6, NullIsNoPage
     DEF Fine, FoundIsFree, CallAgrees, LoopBounded, TargetIsNext, Creating, InKernel
<1>11. \A s \in Slots : s[1] # p => slot'[s] = slot[s]
  BY <1>5
<1>12. ~Creating(p) /\ call[p].at # "none" /\ Fine(p)'
  BY <1>2, <1>8, <1>9, <1>10 DEF Creating, Fine
<1> QED BY <1>1, <1>2, <1>4, <1>6, <1>7, <1>11, <1>12, SameCounts, OwnStep

(* The file system refuses the path: the page of the File is given back. *)
LEMMA OpenFailsStep ==
  ASSUME IInv, ~PREEMPTIVE, NEW p \in Procs, FatOpenFails(p)
  PROVE  IInv'
<1> DEFINE a == <<p, "new", 0>>
<1>1. Turn(p) /\ call[p].at = "open" /\ UNCHANGED <<n_user_pages, n_kernel_pages, n_processes, lost>>
      /\ Fine(p) /\ EntriesEmpty(p) /\ a \in Slots
  BY SlotsOf DEF FatOpenFails, IInv
<1>2. ~Creating(p) /\ call[p].at # "none"
  BY <1>1 DEF Creating
<1>3. CASE slot[a] = NULL
  <2>1. Goto(p, "wild") /\ UNCHANGED <<memory_pages, slot>>
    BY <1>3 DEF FatOpenFails
  <2>2. PICK c \in CallType :
           /\ call' = [call EXCEPT ![p] = c] /\ call'[p] = c
           /\ c.at = "wild" /\ c.found = NONE
           /\ c.op = call[p].op /\ c.fd = call[p].fd /\ c.target = call[p].target /\ c.i = call[p].i
    BY <2>1, GotoShape DEF Sites
  <2>3. call[p].op \in {"open", "exec"}
    BY <1>1 DEF Fine, CallAgrees
  <2>4. Fine(p)'
    BY <1>1, <2>1, <2>2, <2>3, NullIsNoPage
       DEF Fine, FoundIsFree, LocalsEmpty, RoomLeft, CallAgrees, LoopBounded, TargetIsNext, Creating, InKernel
  <2> QED BY <1>1, <1>2, <2>1, <2>2, <2>4, QuietCall
<1>4. CASE slot[a] # NULL
  <2>1. memory_pages' = free_page(memory_pages, slot[a]) /\ slot' = [slot EXCEPT ![a] = NULL] /\ Return(p)
    BY <1>4 DEF FatOpenFails
  <2>2. Sound(memory_pages, slot, lost)'
    <3>1. Sound(memory_pages, slot, lost)
      BY DEF IInv
    <3> QED BY <3>1, <1>1, <2>1, FreeOne
  <2>3. slot'[a] = NULL /\ \A s \in Slots : s # a => slot'[s] = slot[s]
    BY <1>1, <2>1 DEF IInv, TypeOK
  <2>4. \A f \in {"new", "page", "buffer"} : slot'[<<p, f, 0>>] = NULL
    BY <1>1, <2>3, SlotsOf DEF Fine, LocalsEmpty
  <2>5. EntriesEmpty(p)'
    BY <1>1, <2>3, SlotsOf DEF EntriesEmpty
  <2>6. \A s \in Slots : s[1] # p => slot'[s] = slot[s]
    BY <2>3
  <2>7. call' = [call EXCEPT ![p] = Idle] /\ Idle \in CallType /\ Fine(p)'
    BY <2>1, <2>4, ReturnFine
  <2> QED BY <1>1, <1>2, <2>2, <2>5, <2>6, <2>7, SameCounts, OwnStep
<1> QED BY <1>3, <1>4

(* The descriptor gets its resource and the File. *)
LEMMA ResourceStep ==
  ASSUME IInv, ~PREEMPTIVE, NEW p \in Procs, NewResource(p)
  PROVE  IInv'
<1> DEFINE x == call[p].found
           fd == call[p].fd
           n == <<p, "new", 0>>
           r == <<p, "resource", fd>>
           h == <<p, "file", fd>>
<1>1. /\ TakePage(p, "resource")
      /\ slot' = [slot EXCEPT ![n] = NULL, ![r] = x, ![h] = IF x = NULL THEN NULL ELSE slot[n]]
      /\ lost' = IF x = NULL THEN lost \cup ({slot[n]} \ {NULL}) ELSE lost
      /\ UNCHANGED <<n_user_pages, n_kernel_pages, n_processes>>
  BY DEF NewResource
<1>2. Turn(p) /\ call[p].at = "resource" /\ Fine(p) /\ EntriesEmpty(p) /\ fd \in Fds
      /\ x \in Pages \cup {NULL}
  BY <1>1, TakenPage DEF IInv, TypeOK
<1>3. n \in Slots /\ r \in Slots /\ h \in Slots /\ n # r /\ n # h /\ r # h
  BY <1>2, SlotsOf
<1>4. slot[r] = NULL /\ slot[h] = NULL /\ slot \in [Slots -> Pages \cup {NULL}]
  BY <1>2 DEF Fine, RoomLeft, EntriesEmpty, IInv, TypeOK
<1> DEFINE s1 == [slot EXCEPT ![r] = x]
<1>5. Sound(memory_pages', s1, lost)
  BY <1>1, <1>3, <1>4, PutFound
<1>6. s1[n] = slot[n] /\ s1[h] = NULL /\ s1[r] = x
  BY <1>3, <1>4
<1> HIDE DEF n, r, h
<1>7. Sound(memory_pages, slot, lost)'
  <2>1. CASE x # NULL
    <3>1. Sound(memory_pages', [s1 EXCEPT ![n] = NULL, ![h] = s1[n]], lost)
      BY <1>3, <1>5, <1>6, MovePage
    <3>2. slot' = [s1 EXCEPT ![n] = NULL, ![h] = s1[n]]
      BY <1>1, <1>3, <1>4, <1>6, <2>1
    <3> QED BY <3>1, <3>2, <1>1, <2>1
  <2>2. CASE x = NULL
    <3>1. Sound(memory_pages', [s1 EXCEPT ![n] = NULL], lost \cup ({s1[n]} \ {NULL}))
      BY <1>3, <1>5, ForgetPage
    <3>2. slot' = [s1 EXCEPT ![n] = NULL]
      BY <1>1, <1>3, <1>4, <1>6, <2>2
    <3> QED BY <3>1, <3>2, <1>1, <1>6, <2>2
  <2> QED BY <2>1, <2>2
<1>8. /\ slot'[n] = NULL /\ slot'[r] = x /\ (x = NULL => slot'[h] = NULL)
      /\ \A s \in Slots : s \notin {n, r, h} => slot'[s] = slot[s]
  BY <1>1, <1>3, <1>4
<1> USE DEF n, r, h
<1>9. \A f \in {"new", "page", "buffer"} : slot'[<<p, f, 0>>] = NULL
  BY <1>2, <1>8, SlotsOf DEF Fine, LocalsEmpty
<1>10. EntriesEmpty(p)'
  <2>1. ASSUME NEW k \in 1 .. MAX_PROCESS_PAGES
        PROVE  slot'[<<p, "user", k>>] = slot[<<p, "user", k>>] /\ slot'[<<p, "table", k>>] = slot[<<p, "table", k>>]
    BY <1>8, SlotsOf
  <2>2. ASSUME NEW e \in Fds, e # fd
        PROVE  slot'[<<p, "resource", e>>] = slot[<<p, "resource", e>>] /\ slot'[<<p, "file", e>>] = slot[<<p, "file", e>>]
    BY <1>8, <2>2, SlotsOf
  <2> QED BY <1>1, <1>2, <1>8, <2>1, <2>2 DEF EntriesEmpty
<1>11. \A s \in Slots : s[1] # p => slot'[s] = slot[s]
  BY <1>8
<1>12. ~Creating(p) /\ call[p].at # "none" /\ call[p].op \in {"open", "exec"}
  BY <1>2 DEF Creating, Fine, CallAgrees
<1>13. CASE Return(p)
  BY <1>1, <1>2, <1>7, <1>9, <1>10, <1>11, <1>12, <1>13, ReturnFine, SameCounts, OwnStep
<1>14. ASSUME call[p].op = "exec", NEW site \in {"wild", "buffer"}, Goto(p, site) PROVE IInv'
  <2>1. PICK c \in CallType :
           /\ call' = [call EXCEPT ![p] = c] /\ call'[p] = c
           /\ c.at = site /\ c.found = NONE
           /\ c.op = call[p].op /\ c.fd = call[p].fd /\ c.target = call[p].target /\ c.i = call[p].i
    BY <1>14, GotoShape DEF Sites, AllocSites
  <2>2. FoundIsFree(p)' /\ RoomLeft(p)' /\ CallAgrees(p)' /\ LoopBounded(p)' /\ TargetIsNext(p)'
    BY <1>2, <1>14, <2>1, NullIsNoPage
       DEF Fine, FoundIsFree, RoomLeft, CallAgrees, LoopBounded, TargetIsNext, Creating, InKernel
  <2>3. LocalsEmpty(p)'
    BY <1>9 DEF LocalsEmpty
  <2>4. Fine(p)'
    BY <2>2, <2>3 DEF Fine
  <2> QED BY <1>1, <1>2, <1>7, <1>10, <1>11, <1>12, <2>1, <2>4, SameCounts, OwnStep
<1> QED BY <1>12, <1>13, <1>14 DEF NewResource

(* The File is closed and its page given back. *)
LEMMA CloseStep ==
  ASSUME IInv, ~PREEMPTIVE, NEW p \in Procs, FatClose(p)
  PROVE  IInv'
<1> DEFINE h == <<p, "file", call[p].fd>>
<1>1. /\ Turn(p) /\ call[p].at = "release" /\ Goto(p, "close")
      /\ memory_pages' = free_page(memory_pages, slot[h])
      /\ slot' = [slot EXCEPT ![h] = NULL]
      /\ UNCHANGED <<n_user_pages, n_kernel_pages, n_processes, lost>>
  BY DEF FatClose
<1>2. Fine(p) /\ EntriesEmpty(p) /\ call[p].fd \in Fds
  BY DEF IInv, TypeOK
<1>3. h \in Slots
  BY <1>2, SlotsOf
<1>4. Sound(memory_pages, slot, lost)'
  <2>1. Sound(memory_pages, slot, lost)
    BY DEF IInv
  <2> QED BY <2>1, <1>1, <1>3, FreeOne
<1>5. slot'[h] = NULL /\ \A s \in Slots : s # h => slot'[s] = slot[s]
  BY <1>1, <1>3 DEF IInv, TypeOK
<1>6. PICK c \in CallType :
         /\ call' = [call EXCEPT ![p] = c] /\ call'[p] = c
         /\ c.at = "close" /\ c.found = NONE
         /\ c.op = call[p].op /\ c.fd = call[p].fd /\ c.target = call[p].target /\ c.i = call[p].i
  BY <1>1, GotoShape DEF Sites, AllocSites
<1>7. LocalsEmpty(p)'
  <2>1. \A f \in {"new", "page", "buffer"} : slot'[<<p, f, 0>>] = slot[<<p, f, 0>>]
    BY <1>5, SlotsOf
  <2> QED BY <1>1, <1>2, <1>6, <2>1 DEF Fine, LocalsEmpty
<1>8. FoundIsFree(p)' /\ RoomLeft(p)' /\ CallAgrees(p)' /\ LoopBounded(p)' /\ TargetIsNext(p)'
  BY <1>1, <1>2, <1>5, <1>6, NullIsNoPage
     DEF Fine, FoundIsFree, RoomLeft, CallAgrees, LoopBounded, TargetIsNext, Creating, InKernel
<1>9. EntriesEmpty(p)'
  BY <1>1, <1>2, <1>5, SlotsOf DEF EntriesEmpty
<1>10. \A s \in Slots : s[1] # p => slot'[s] = slot[s]
  BY <1>5
<1>11. ~Creating(p) /\ call[p].at # "none" /\ Fine(p)'
  BY <1>1, <1>7, <1>8 DEF Creating, Fine
<1> QED BY <1>1, <1>4, <1>6, <1>9, <1>10, <1>11, SameCounts, OwnStep

(* close_file puts a fresh resource into the descriptor and forgets the old. *)
LEMMA CloseFileStep ==
  ASSUME IInv, ~PREEMPTIVE, NEW p \in Procs, syscall_close_file(p)
  PROVE  IInv'
<1> DEFINE x == call[p].found
           r == <<p, "resource", call[p].fd>>
           s1 == [slot EXCEPT ![r] = NULL]
<1>1. /\ TakePage(p, "close") /\ AfterClose(p)
      /\ slot' = [slot EXCEPT ![r] = x]
      /\ lost' = lost \cup ({slot[r]} \ {NULL})
      /\ UNCHANGED <<n_user_pages, n_kernel_pages, n_processes>>
  BY DEF syscall_close_file
<1>2. Turn(p) /\ call[p].at = "close" /\ Fine(p) /\ EntriesEmpty(p) /\ call[p].fd \in Fds
      /\ x \in Pages \cup {NULL} /\ (x \in Pages => memory_pages[x] = 0)
      /\ memory_pages' = Marked(memory_pages, x)
      /\ slot[<<p, "file", call[p].fd>>] = NULL
  BY <1>1, TakenPage DEF IInv, TypeOK, Fine, RoomLeft
<1>3. r \in Slots /\ slot \in [Slots -> Pages \cup {NULL}]
  BY <1>2, SlotsOf DEF IInv, TypeOK
<1> HIDE DEF r
<1>4. Sound(memory_pages, slot, lost)'
  <2>1. Sound(memory_pages, s1, lost')
    <3>1. Sound(memory_pages, slot, lost)
      BY DEF IInv
    <3> QED BY <3>1, <1>1, <1>3, ForgetPage
  <2>2. s1[r] = NULL /\ slot' = [s1 EXCEPT ![r] = x]
    BY <1>1, <1>3
  <2>3. Sound(Marked(memory_pages, x), [s1 EXCEPT ![r] = x], lost')
    BY <2>1, <2>2, <1>2, <1>3, PutPage
  <2> QED BY <2>2, <2>3, <1>2
<1>5. slot'[r] = x /\ \A s \in Slots : s # r => slot'[s] = slot[s]
  BY <1>1, <1>3
<1> USE DEF r
<1>6. \A f \in {"new", "page", "buffer"} : slot'[<<p, f, 0>>] = slot[<<p, f, 0>>]
  BY <1>5, SlotsOf
<1>7. EntriesEmpty(p)'
  <2>1. ASSUME NEW e \in Fds
        PROVE  slot'[<<p, "file", e>>] = slot[<<p, "file", e>>]
               /\ (e # call[p].fd => slot'[<<p, "resource", e>>] = slot[<<p, "resource", e>>])
    BY <1>5, SlotsOf
  <2>2. ASSUME NEW k \in 1 .. MAX_PROCESS_PAGES
        PROVE  slot'[<<p, "user", k>>] = slot[<<p, "user", k>>] /\ slot'[<<p, "table", k>>] = slot[<<p, "table", k>>]
    BY <1>5, SlotsOf
  <2> QED BY <1>1, <1>2, <2>1, <2>2 DEF EntriesEmpty
<1>8. \A s \in Slots : s[1] # p => slot'[s] = slot[s]
  BY <1>5
<1>9. ~Creating(p) /\ call[p].at # "none" /\ call[p].op \in {"close", "exec"}
  BY <1>2 DEF Creating, Fine, CallAgrees
<1>10. CASE call[p].op = "close"
  <2>1. Return(p)
    BY <1>1, <1>10 DEF AfterClose
  <2>2. \A f \in {"new", "page", "buffer"} : slot'[<<p, f, 0>>] = NULL
    BY <1>2, <1>6, <1>10 DEF Fine, LocalsEmpty
  <2> QED BY <1>1, <1>2, <1>4, <1>7, <1>8, <1>9, <2>1, <2>2, ReturnFine, SameCounts, OwnStep
<1>11. CASE call[p].op = "exec"
  <2>1. Goto(p, "unmap")
    BY <1>1, <1>11 DEF AfterClose
  <2>2. PICK c \in CallType :
           /\ call' = [call EXCEPT ![p] = c] /\ call'[p] = c
           /\ c.at = "unmap" /\ c.found = NONE
           /\ c.op = call[p].op /\ c.fd = call[p].fd /\ c.target = call[p].target /\ c.i = call[p].i
    BY <2>1, GotoShape DEF Sites, AllocSites
  <2>3. LocalsEmpty(p)'
    BY <1>2, <1>6, <1>11, <2>2 DEF Fine, LocalsEmpty
  <2>4. FoundIsFree(p)' /\ RoomLeft(p)' /\ CallAgrees(p)' /\ LoopBounded(p)' /\ TargetIsNext(p)'
    BY <1>2, <1>11, <2>2, NullIsNoPage
       DEF Fine, FoundIsFree, RoomLeft, CallAgrees, LoopBounded, TargetIsNext, Creating, InKernel
  <2>5. Fine(p)'
    BY <2>3, <2>4 DEF Fine
  <2> QED BY <1>1, <1>2, <1>4, <1>7, <1>8, <1>9, <2>2, <2>5, SameCounts, OwnStep
<1> QED BY <1>9, <1>10, <1>11

(* exec gives up: the buffer is forgotten. *)
LEMMA TooLargeStep ==
  ASSUME IInv, ~PREEMPTIVE, NEW p \in Procs, ExecTooLarge(p)
  PROVE  IInv'
<1> DEFINE a == <<p, "buffer", 0>>
<1>1. /\ Turn(p) /\ call[p].at = "unmap" /\ Return(p)
      /\ slot' = [slot EXCEPT ![a] = NULL]
      /\ lost' = lost \cup ({slot[a]} \ {NULL})
      /\ UNCHANGED <<memory_pages, n_user_pages, n_kernel_pages, n_processes>>
  BY DEF ExecTooLarge, DropBuffer
<1>2. Fine(p) /\ EntriesEmpty(p) /\ a \in Slots
  BY SlotsOf DEF IInv
<1>3. Sound(memory_pages, slot, lost)'
  <2>1. Sound(memory_pages, slot, lost)
    BY DEF IInv
  <2> QED BY <2>1, <1>1, <1>2, ForgetPage
<1>4. slot'[a] = NULL /\ \A s \in Slots : s # a => slot'[s] = slot[s]
  BY <1>1, <1>2 DEF IInv, TypeOK
<1>5. \A f \in {"new", "page", "buffer"} : slot'[<<p, f, 0>>] = NULL
  BY <1>1, <1>2, <1>4, SlotsOf DEF Fine, LocalsEmpty
<1>6. EntriesEmpty(p)'
  BY <1>1, <1>2, <1>4, SlotsOf DEF EntriesEmpty
<1>7. \A s \in Slots : s[1] # p => slot'[s] = slot[s]
  BY <1>4
<1>8. ~Creating(p) /\ call[p].at # "none"
  BY <1>1 DEF Creating
<1> QED BY <1>1, <1>3, <1>5, <1>6, <1>7, <1>8, ReturnFine, SameCounts, OwnStep

(* exec gives back every page of the process and counts n_user_pages down. *)
LEMMA UnmapStep ==
  ASSUME IInv, ~PREEMPTIVE, NEW p \in Procs, ExecUnmap(p)
  PROVE  IInv'
<1> DEFINE U == UserSlots(p)
<1>1. /\ Turn(p) /\ call[p].at = "unmap" /\ Goto(p, "user")
      /\ memory_pages' = [i \in Pages |-> IF i \in {slot[u] : u \in U} THEN 0 ELSE memory_pages[i]]
      /\ slot' = [u \in Slots |-> IF u \in U THEN NULL ELSE slot[u]]
      /\ n_user_pages' = [n_user_pages EXCEPT ![p] = 0]
      /\ UNCHANGED <<n_kernel_pages, n_processes, lost>>
  BY DEF ExecUnmap
<1>2. Fine(p) /\ EntriesEmpty(p) /\ n_user_pages[p] \in 0 .. MAX_PROCESS_PAGES
  BY DEF IInv, TypeOK
<1>3. U \in SUBSET Slots
  <2>1. ASSUME NEW k \in 1 .. n_user_pages[p] PROVE <<p, "user", k>> \in Slots
    <3>1. k \in 1 .. MAX_PROCESS_PAGES
      BY <1>2, Sizes
    <3> QED BY <3>1, SlotsOf
  <2> QED BY <2>1 DEF UserSlots
<1>4. Sound(memory_pages, slot, lost)'
  <2>1. Sound(memory_pages, slot, lost)
    BY DEF IInv
  <2> QED BY <2>1, <1>1, <1>3, FreePages
<1>5. \A s \in Slots : slot'[s] = IF s \in U THEN NULL ELSE slot[s]
  BY <1>1
<1>6. /\ \A s \in U : s[1] = p /\ s[2] = "user"
      /\ \A k \in 1 .. MAX_PROCESS_PAGES : k <= n_user_pages[p] => <<p, "user", k>> \in U
  BY <1>2 DEF UserSlots
<1>7. PICK c \in CallType :
         /\ call' = [call EXCEPT ![p] = c] /\ call'[p] = c
         /\ c.at = "user" /\ c.found = NONE
         /\ c.op = call[p].op /\ c.fd = call[p].fd /\ c.target = call[p].target /\ c.i = call[p].i
  BY <1>1, GotoShape DEF Sites, AllocSites
<1>8. /\ n_user_pages' \in [Procs -> 0 .. MAX_PROCESS_PAGES]
      /\ n_kernel_pages' \in [Procs -> 0 .. MAX_PROCESS_PAGES]
      /\ n_user_pages'[p] = 0
      /\ \A q \in Procs \ {p} : n_user_pages'[q] = n_user_pages[q] /\ n_kernel_pages'[q] = n_kernel_pages[q]
  BY <1>1, Sizes DEF IInv, TypeOK
<1> HIDE DEF U
<1>9. LocalsEmpty(p)'
  <2>1. \A f \in {"new", "page", "buffer"} : slot'[<<p, f, 0>>] = slot[<<p, f, 0>>]
    BY <1>5, <1>6, SlotsOf
  <2> QED BY <1>1, <1>2, <1>7, <2>1 DEF Fine, LocalsEmpty
<1>10. FoundIsFree(p)' /\ RoomLeft(p)' /\ CallAgrees(p)' /\ TargetIsNext(p)'
  BY <1>1, <1>2, <1>7, NullIsNoPage
     DEF Fine, FoundIsFree, RoomLeft, CallAgrees, TargetIsNext, Creating, InKernel
<1>11. LoopBounded(p)'
  <2>1. call[p].op = "exec" /\ call[p].target = p /\ call[p].i = 1
    BY <1>1, <1>2 DEF Fine, CallAgrees
  <2> QED BY <1>7, <1>8, <2>1, Sizes DEF LoopBounded
<1>12. EntriesEmpty(p)'
  <2>1. ASSUME NEW k \in 1 .. MAX_PROCESS_PAGES
        PROVE  slot'[<<p, "user", k>>] = NULL /\ slot'[<<p, "table", k>>] = slot[<<p, "table", k>>]
    <3>1. slot'[<<p, "table", k>>] = slot[<<p, "table", k>>]
      BY <1>5, <1>6, SlotsOf
    <3>2. k > n_user_pages[p] => slot[<<p, "user", k>>] = NULL
      BY <1>2 DEF EntriesEmpty
    <3>3. slot'[<<p, "user", k>>] = IF <<p, "user", k>> \in U THEN NULL ELSE slot[<<p, "user", k>>]
      BY <1>5, SlotsOf
    <3>4. k <= n_user_pages[p] \/ k > n_user_pages[p]
      BY <1>2, Sizes
    <3> QED BY <1>6, <3>1, <3>2, <3>3, <3>4
  <2>2. ASSUME NEW e \in Fds
        PROVE  slot'[<<p, "file", e>>] = slot[<<p, "file", e>>] /\ slot'[<<p, "resource", e>>] = slot[<<p, "resource", e>>]
    BY <1>5, <1>6, SlotsOf
  <2> QED BY <1>1, <1>2, <2>1, <2>2 DEF EntriesEmpty
<1>13. \A s \in Slots : s[1] # p => slot'[s] = slot[s]
  BY <1>5, <1>6
<1>14. ~Creating(p) /\ call[p].at # "none" /\ Fine(p)'
  BY <1>1, <1>9, <1>10, <1>11 DEF Creating, Fine
<1> QED BY <1>1, <1>4, <1>7, <1>8, <1>12, <1>13, <1>14, OwnStep

-----------------------------------------------------------------------------
(* Steps that fill the slots of another process: the child of a fork *)

(* A fork goes on: the slots of p and of the child t change. *)
LEMMA ForkStep ==
  ASSUME IInv, ~PREEMPTIVE, NEW p \in Procs, Turn(p), call[p].at # "none",
         NEW t \in Procs, t = n_processes,
         NEW c \in CallType, call' = [call EXCEPT ![p] = c],
         c.op = "fork", c.at \in {"user", "table", "wild"}, c.target = t,
         n_processes' = n_processes,
         n_user_pages' \in [Procs -> 0 .. MAX_PROCESS_PAGES],
         n_kernel_pages' \in [Procs -> 0 .. MAX_PROCESS_PAGES],
         \A q \in Procs \ {p, t} : n_user_pages'[q] = n_user_pages[q] /\ n_kernel_pages'[q] = n_kernel_pages[q],
         \A s \in Slots : s[1] \notin {p, t} => slot'[s] = slot[s],
         \A f \in {"new", "page", "buffer"} : slot'[<<t, f, 0>>] = slot[<<t, f, 0>>],
         Sound(memory_pages, slot, lost)', Fine(p)', EntriesEmpty(p)', EntriesEmpty(t)'
  PROVE  IInv'
<1>1. TypeOK'
  BY DEF IInv, TypeOK, Sound, CallType
<1>2. call \in [Procs -> CallType]
  BY DEF IInv, TypeOK, CallType
<1>3. call'[p] = c /\ \A q \in Procs \ {p} : call'[q] = call[q]
  BY <1>2
<1>4. ASSUME NEW q \in Procs \ {p, t}
      PROVE  \A f \in {"pcb", "new", "page", "buffer"} : slot'[<<q, f, 0>>] = slot[<<q, f, 0>>]
  <2>1. \A s \in Slots : s[1] = q => slot'[s] = slot[s]
    OBVIOUS
  <2> QED BY <2>1, SlotsKept
<1>5. ASSUME NEW q \in Procs, q # p PROVE ~InKernel(q)' /\ Fine(q)'
  <2>1. call'[q] = call[q] /\ \A f \in {"new", "page", "buffer"} : slot'[<<q, f, 0>>] = slot[<<q, f, 0>>]
    BY <1>3, <1>4, <1>5
  <2> QED BY <1>5, <2>1, Bystander
<1>6. ASSUME NEW q \in Procs \ {p, t} PROVE EntriesEmpty(q)'
  <2>1. EntriesEmpty(q) /\ \A s \in Slots : s[1] = q => slot'[s] = slot[s]
    BY DEF IInv
  <2> QED BY <2>1, EntriesKept
<1>7. ASSUME NEW q \in Procs PROVE Unborn(q)'
  <2>1. Unborn(q) /\ Unborn(p)
    BY DEF IInv
  <2>2. CASE q >= n_processes
    <3>1. q # p /\ call'[q].at = "none"
      BY <2>1, <2>2, <1>3 DEF Unborn
    <3>2. CASE q = t
      <4>1. Creating(p)' /\ call'[p].target = q
        BY <3>2, <1>3 DEF Creating
      <4> QED BY <3>1, <4>1 DEF Unborn
    <3>3. CASE q # t
      <4>1. ASSUME NEW r \in Procs, Creating(r), call[r].target = q PROVE FALSE
        <5>1. TargetIsNext(r)
          BY DEF IInv, Fine
        <5> QED BY <3>3, <4>1, <5>1 DEF TargetIsNext
      <4> QED BY <2>1, <2>2, <3>1, <3>3, <4>1, <1>4 DEF Unborn
    <3> QED BY <3>2, <3>3
  <2>3. CASE ~(q >= n_processes)
    BY <2>3 DEF Unborn
  <2> QED BY <2>2, <2>3
<1>8. OneInKernel'
  BY <1>5 DEF OneInKernel
<1>9. \A q \in Procs : EntriesEmpty(q)' /\ Fine(q)'
  BY <1>5, <1>6
<1> QED BY <1>1, <1>7, <1>8, <1>9 DEF IInv

(* The new process is registered. *)
LEMMA BornStep ==
  ASSUME IInv, ~PREEMPTIVE, NEW p \in Procs, Turn(p), call[p].at # "none", AddProcess(p),
         NEW t \in Procs, t = call[p].target, t = n_processes, p # t,
         call[p].op \in {"fork", "kthread"},
         n_user_pages' \in [Procs -> 0 .. MAX_PROCESS_PAGES],
         n_kernel_pages' \in [Procs -> 0 .. MAX_PROCESS_PAGES],
         call[p].op = "kthread" => n_user_pages'[t] = 0,
         \A q \in Procs \ {p, t} : n_user_pages'[q] = n_user_pages[q] /\ n_kernel_pages'[q] = n_kernel_pages[q],
         \A s \in Slots : s[1] \notin {p, t} => slot'[s] = slot[s],
         \A f \in {"new", "page", "buffer"} : slot'[<<t, f, 0>>] = NULL /\ slot'[<<p, f, 0>>] = NULL,
         Sound(memory_pages, slot, lost)', EntriesEmpty(p)', EntriesEmpty(t)'
  PROVE  IInv'
<1> DEFINE c == IF call[p].op = "kthread" THEN [Idle EXCEPT !.at = "none"] ELSE Idle
           d == IF call[p].op = "kthread" THEN [Idle EXCEPT !.op = "boot", !.at = "user", !.target = t] ELSE Idle
<1>1. c \in CallType /\ d \in CallType
  BY IdleType DEF CallType, Ops, Sites, AllocSites
<1>2. /\ c.at \in {"none", "user_mode"} /\ c.op = "none" /\ c.found = NONE /\ c.i = 1
      /\ d.found = NONE /\ d.i = 1
      /\ \/ d.at = "user" /\ d.op = "boot" /\ d.target = t /\ call[p].op = "kthread"
         \/ d.at = "user_mode" /\ d.op = "none"
  BY DEF Idle
<1>3. call \in [Procs -> CallType] /\ n_processes \in 1 .. N_PROCESSES
  BY DEF IInv, TypeOK, CallType
<1>4. call' = [call EXCEPT ![p] = c, ![t] = d] /\ n_processes' = n_processes + 1
  BY DEF AddProcess
<1> HIDE DEF c, d
<1>5. call' \in [Procs -> CallType] /\ call'[p] = c /\ call'[t] = d /\ \A q \in Procs \ {p, t} : call'[q] = call[q]
  BY <1>1, <1>3, <1>4
<1>6. n_processes' \in 1 .. N_PROCESSES
  BY <1>3, <1>4, Sizes DEF Procs
<1>7. TypeOK'
  BY <1>5, <1>6 DEF TypeOK, Sound, CallType
<1>8. ASSUME NEW q \in Procs \ {p, t}
      PROVE  \A f \in {"pcb", "new", "page", "buffer"} : slot'[<<q, f, 0>>] = slot[<<q, f, 0>>]
  <2>1. \A s \in Slots : s[1] = q => slot'[s] = slot[s]
    OBVIOUS
  <2> QED BY <2>1, SlotsKept
<1>9. ASSUME NEW q \in Procs \ {p, t} PROVE ~InKernel(q)' /\ Fine(q)'
  <2>1. call'[q] = call[q] /\ q # p /\ \A f \in {"new", "page", "buffer"} : slot'[<<q, f, 0>>] = slot[<<q, f, 0>>]
    BY <1>5, <1>8
  <2> QED BY <2>1, Bystander
<1>10. Fine(p)' /\ ~InKernel(p)'
  BY <1>2, <1>5, NullIsNoPage
     DEF Fine, FoundIsFree, LocalsEmpty, RoomLeft, CallAgrees, LoopBounded, TargetIsNext, Creating, InKernel
<1>11. Fine(t)'
  <2>1. FoundIsFree(t)' /\ LocalsEmpty(t)' /\ RoomLeft(t)' /\ CallAgrees(t)' /\ TargetIsNext(t)'
    BY <1>2, <1>5, NullIsNoPage
       DEF FoundIsFree, LocalsEmpty, RoomLeft, CallAgrees, TargetIsNext, Creating, InKernel
  <2>2. LoopBounded(t)'
    BY <1>2, <1>5, Sizes DEF LoopBounded
  <2> QED BY <2>1, <2>2 DEF Fine
<1>12. ASSUME NEW q \in Procs \ {p, t} PROVE EntriesEmpty(q)'
  <2>1. EntriesEmpty(q) /\ \A s \in Slots : s[1] = q => slot'[s] = slot[s]
    BY DEF IInv
  <2> QED BY <2>1, EntriesKept
<1>13. ASSUME NEW q \in Procs, q >= n_processes' PROVE Unborn(q)'
  <2>1. Unborn(q) /\ q >= n_processes /\ q # t
    BY <1>3, <1>4, <1>13, Sizes DEF IInv
  <2>2. ASSUME NEW r \in Procs, Creating(r), call[r].target = q PROVE FALSE
    <3>1. TargetIsNext(r)
      BY DEF IInv, Fine
    <3> QED BY <2>1, <2>2, <3>1 DEF TargetIsNext
  <2>3. CASE q = p
    <3>1. call[p].at = "none"
      BY <2>1, <2>3 DEF Unborn
    <3> QED BY <3>1, <2>1
  <2>4. CASE q # p
    BY <2>1, <2>2, <2>4, <1>5, <1>8 DEF Unborn
  <2> QED BY <2>3, <2>4
<1>14. \A q \in Procs : Unborn(q)'
  BY <1>13 DEF Unborn
<1>15. OneInKernel'
  BY <1>9, <1>10 DEF OneInKernel
<1> QED BY <1>7, <1>9, <1>10, <1>11, <1>12, <1>14, <1>15 DEF IInv

(* Who creates whom: p is a process in use, its child is not. *)
LEMMA ForkTarget ==
  ASSUME IInv, NEW p \in Procs, call[p].at # "none"
  PROVE  /\ call[p].target \in Procs /\ p # n_processes
         /\ call[p].at = "pcb" /\ n_processes < N_PROCESSES => call[p].target = n_processes
         /\ Creating(p) => call[p].target = n_processes
<1>1. TargetIsNext(p) /\ Unborn(p) /\ call[p].target \in Procs /\ n_processes \in 1 .. N_PROCESSES
  BY DEF IInv, Fine, TypeOK
<1> QED BY <1>1, Sizes DEF TargetIsNext, Unborn

(* In the loop over the pages of a process there is room for one more. *)
LEMMA LoopRoom ==
  ASSUME IInv, NEW p \in Procs, call[p].at \in {"user", "table"}
  PROVE  /\ call[p].target \in Procs
         /\ n_user_pages[call[p].target] + 1 \in 1 .. MAX_PROCESS_PAGES
         /\ n_user_pages[call[p].target] \in 0 .. MAX_PROCESS_PAGES
         /\ call[p].at = "table" => n_kernel_pages[call[p].target] + 1 \in 1 .. LEVELS
         /\ n_kernel_pages[call[p].target] \in 0 .. MAX_PROCESS_PAGES
<1>1. /\ LoopBounded(p) /\ call[p].target \in Procs /\ call[p].i \in 1 .. MAX_PROCESS_PAGES
      /\ n_user_pages[p] \in 0 .. MAX_PROCESS_PAGES
      /\ n_user_pages[call[p].target] \in 0 .. MAX_PROCESS_PAGES
      /\ n_kernel_pages[call[p].target] \in 0 .. MAX_PROCESS_PAGES
  BY DEF IInv, Fine, TypeOK
<1> QED BY <1>1, Sizes DEF LoopBounded

(* The loop goes on with the next page, or the call ends. *)
LEMMA AdvanceStep ==
  ASSUME IInv, ~PREEMPTIVE, NEW p \in Procs, Turn(p), call[p].at \in {"user", "table"},
         NEW t \in Procs, t = call[p].target,
         NEW s, Advance(p, s), Sound(memory_pages', s, lost),
         n_user_pages' \in [Procs -> 0 .. MAX_PROCESS_PAGES],
         n_kernel_pages' \in [Procs -> 0 .. MAX_PROCESS_PAGES],
         \A q \in Procs \ {t} : n_user_pages'[q] = n_user_pages[q] /\ n_kernel_pages'[q] = n_kernel_pages[q],
         \/ n_user_pages'[t] = n_user_pages[t] + 1
         \/ n_user_pages'[t] = n_user_pages[t] /\ call[p].op # "fork",
         s[<<p, "page", 0>>] = NULL,
         \A u \in Slots : u = <<p, "page", 0>> \/ (u[1] = t /\ u[2] \in {"user", "table"}) \/ s[u] = slot[u],
         \A k \in 1 .. MAX_PROCESS_PAGES : /\ k > n_user_pages'[t] => s[<<t, "user", k>>] = NULL
                                           /\ k > n_kernel_pages'[t] => s[<<t, "table", k>>] = NULL
  PROVE  IInv'
<1>1. /\ Fine(p) /\ call[p] \in CallType /\ call \in [Procs -> CallType] /\ EntriesEmpty(p) /\ EntriesEmpty(t)
      /\ n_user_pages[p] \in 0 .. MAX_PROCESS_PAGES /\ n_user_pages[t] \in 0 .. MAX_PROCESS_PAGES
  BY DEF IInv, TypeOK, CallType
<1>2. /\ call[p].op \in {"fork", "exec", "boot"}
      /\ call[p].op = "fork" => Creating(p) /\ t = n_processes /\ t # p
      /\ call[p].op # "fork" => t = p /\ ~Creating(p)
  BY <1>1, ForkTarget DEF Fine, CallAgrees, Creating
<1>3. \A u \in Slots : u[1] \notin {p, t} => s[u] = slot[u]
  OBVIOUS
<1>4. \A q \in {p, t} : /\ s[<<q, "new", 0>>] = NULL
                        /\ s[<<q, "page", 0>>] = NULL
                        /\ s[<<q, "buffer", 0>>] = slot[<<q, "buffer", 0>>]
                        /\ call[p].op # "exec" => s[<<q, "buffer", 0>>] = NULL
  <2>1. ASSUME NEW q \in {p, t}
        PROVE  /\ s[<<q, "new", 0>>] = slot[<<q, "new", 0>>]
               /\ s[<<q, "buffer", 0>>] = slot[<<q, "buffer", 0>>]
               /\ q # p => s[<<q, "page", 0>>] = slot[<<q, "page", 0>>]
    BY SlotsOf
  <2>2. Fine(p) /\ Fine(t)
    BY DEF IInv
  <2>3. t # p => call[t].at \in {"none", "user_mode", "zombie"}
    BY Alone DEF InKernel
  <2> QED BY <1>2, <2>1, <2>2, <2>3 DEF Fine, LocalsEmpty
<1>5. \A q \in {p, t}, e \in Fds : s[<<q, "resource", e>>] = slot[<<q, "resource", e>>]
                                /\ s[<<q, "file", e>>] = slot[<<q, "file", e>>]
  BY SlotsOf
<1>6. \A q \in {p, t}, k \in 1 .. MAX_PROCESS_PAGES :
         q # t => s[<<q, "user", k>>] = slot[<<q, "user", k>>] /\ s[<<q, "table", k>>] = slot[<<q, "table", k>>]
  BY SlotsOf
<1>7. slot' = s => EntriesEmpty(p)' /\ EntriesEmpty(t)'
  BY <1>1, <1>5, <1>6 DEF EntriesEmpty
<1>8. call[p].at # "none" /\ call[p].i \in 1 .. MAX_PROCESS_PAGES /\ LoopBounded(p)
  BY <1>1 DEF CallType, Fine
<1>9. CASE ~LastPage(p)
  <2> DEFINE c == [call[p] EXCEPT !.at = "user", !.found = NONE, !.i = @ + 1]
  <2>1. slot' = s /\ call' = [call EXCEPT ![p].at = "user", ![p].found = NONE, ![p].i = @ + 1]
        /\ UNCHANGED <<n_processes, lost>>
    BY <1>9 DEF Advance
  <2>2. call[p].i + 1 \in 1 .. MAX_PROCESS_PAGES
    BY <1>1, <1>8, <1>9, <1>2, Sizes DEF LastPage, LoopBounded
  <2>3. c \in CallType /\ c.at = "user" /\ c.found = NONE /\ c.i = call[p].i + 1
        /\ c.op = call[p].op /\ c.fd = call[p].fd /\ c.target = call[p].target
    BY <1>1, <2>2 DEF CallType, Sites, AllocSites
  <2>4. call' = [call EXCEPT ![p] = c]
    BY <1>1, <2>1 DEF CallType
  <2> HIDE DEF c
  <2>5. call'[p] = c
    BY <1>1, <2>4
  <2>6. FoundIsFree(p)' /\ RoomLeft(p)' /\ CallAgrees(p)' /\ TargetIsNext(p)'
    BY <1>1, <1>2, <1>8, <2>1, <2>3, <2>5, NullIsNoPage
       DEF Fine, FoundIsFree, RoomLeft, CallAgrees, TargetIsNext, Creating, InKernel
  <2>7. LocalsEmpty(p)'
    BY <1>4, <2>1, <2>3, <2>5 DEF LocalsEmpty
  <2>8. LoopBounded(p)'
    BY <1>1, <1>2, <1>8, <1>9, <2>3, <2>5, Sizes DEF LastPage, LoopBounded
  <2>9. Fine(p)' /\ EntriesEmpty(p)' /\ EntriesEmpty(t)' /\ Sound(memory_pages, slot, lost)'
    BY <1>7, <2>1, <2>6, <2>7, <2>8 DEF Fine
  <2>10. CASE call[p].op = "fork"
    <3>1. \A f \in {"new", "page", "buffer"} : slot'[<<t, f, 0>>] = slot[<<t, f, 0>>]
      <4>1. Fine(t) /\ call[t].at \in {"none", "user_mode", "zombie"}
        BY <1>2, <2>10, Alone DEF InKernel, IInv
      <4> QED BY <1>2, <1>4, <2>1, <2>10, <4>1 DEF Fine, LocalsEmpty
    <3>2. c.op = "fork" /\ c.at \in {"user", "table", "wild"} /\ c.target = t /\ t = n_processes
      BY <1>2, <2>3, <2>10
    <3>3. \A u \in Slots : u[1] \notin {p, t} => slot'[u] = slot[u]
      BY <1>3, <2>1
    <3>4. \A q \in Procs \ {p, t} : n_user_pages'[q] = n_user_pages[q] /\ n_kernel_pages'[q] = n_kernel_pages[q]
      OBVIOUS
    <3>5. c \in CallType /\ n_processes' = n_processes
      BY <2>1, <2>3
    <3> QED BY <1>8, <2>4, <2>9, <3>1, <3>2, <3>3, <3>4, <3>5, ForkStep
  <2>11. CASE call[p].op # "fork"
    <3>1. t = p /\ ~Creating(p) /\ \A u \in Slots : u[1] # p => slot'[u] = slot[u]
      BY <1>2, <1>3, <2>1, <2>11
    <3> QED BY <1>8, <2>1, <2>3, <2>4, <2>9, <3>1, OwnStep
  <2> QED BY <2>10, <2>11
<1>10. CASE LastPage(p) /\ call[p].op = "fork"
  <2>1. slot' = s /\ AddProcess(p) /\ UNCHANGED lost
    BY <1>10 DEF Advance
  <2>2. \A f \in {"new", "page", "buffer"} : slot'[<<t, f, 0>>] = NULL /\ slot'[<<p, f, 0>>] = NULL
    BY <1>4, <1>10, <2>1
  <2>3. EntriesEmpty(p)' /\ EntriesEmpty(t)' /\ Sound(memory_pages, slot, lost)'
    BY <1>7, <2>1
  <2> QED BY <1>2, <1>3, <1>8, <1>10, <2>1, <2>2, <2>3, BornStep
<1>11. CASE LastPage(p) /\ call[p].op = "boot"
  <2>1. slot' = s /\ Return(p) /\ UNCHANGED <<n_processes, lost>>
    BY <1>11 DEF Advance
  <2>2. \A f \in {"new", "page", "buffer"} : slot'[<<p, f, 0>>] = NULL
    BY <1>4, <1>11, <2>1
  <2>3. EntriesEmpty(p)' /\ Sound(memory_pages, slot, lost)'
    BY <1>7, <2>1
  <2> QED BY <1>2, <1>3, <1>8, <1>11, <2>1, <2>2, <2>3, ReturnFine, OwnStep
<1>12. CASE LastPage(p) /\ call[p].op = "exec"
  <2> DEFINE a == <<p, "buffer", 0>>
  <2>1. slot' = [s EXCEPT ![a] = NULL] /\ lost' = lost \cup ({s[a]} \ {NULL}) /\ Return(p) /\ UNCHANGED n_processes
    BY <1>12 DEF Advance, DropBuffer
  <2>2. a \in Slots /\ s \in [Slots -> Pages \cup {NULL}]
    BY SlotsOf DEF Sound
  <2>3. Sound(memory_pages, slot, lost)'
    BY <2>1, <2>2, ForgetPage
  <2>4. slot'[a] = NULL /\ \A u \in Slots : u # a => slot'[u] = s[u]
    BY <2>1, <2>2
  <2>5. \A f \in {"new", "page", "buffer"} : slot'[<<p, f, 0>>] = NULL
    BY <1>4, <2>4, SlotsOf
  <2>6. \A u \in Slots : u[1] # p => slot'[u] = slot[u]
    BY <1>2, <1>3, <1>12, <2>4
  <2>7. EntriesEmpty(p)'
    <3>1. \A k \in 1 .. MAX_PROCESS_PAGES : slot'[<<p, "user", k>>] = s[<<p, "user", k>>]
                                          /\ slot'[<<p, "table", k>>] = s[<<p, "table", k>>]
      BY <2>4, SlotsOf
    <3>2. \A e \in Fds : slot'[<<p, "resource", e>>] = slot[<<p, "resource", e>>]
                       /\ slot'[<<p, "file", e>>] = slot[<<p, "file", e>>]
      BY <1>5, <2>4, SlotsOf
    <3> QED BY <1>1, <1>2, <1>12, <3>1, <3>2 DEF EntriesEmpty
  <2> QED BY <1>2, <1>8, <1>12, <2>1, <2>3, <2>5, <2>6, <2>7, ReturnFine, OwnStep
<1> QED BY <1>2, <1>9, <1>10, <1>11, <1>12

(* copy_process has no room: the page of the PCB is forgotten. *)
LEMMA PcbFailsStep ==
  ASSUME IInv, ~PREEMPTIVE, NEW p \in Procs, NewPcbFails(p)
  PROVE  IInv'
<1>1. TakePage(p, "pcb") /\ Return(p) /\ UNCHANGED <<slot, n_user_pages, n_kernel_pages, n_processes>>
      /\ lost' = lost \cup ({call[p].found} \ {NULL})
  BY DEF NewPcbFails
<1>2. Turn(p) /\ call[p].at = "pcb" /\ Fine(p) /\ EntriesEmpty(p) /\ Sound(memory_pages, slot, lost)
  BY <1>1, TakenPage DEF IInv
<1>3. Sound(memory_pages, slot, lost)'
  BY <1>1, <1>2, TakenPage, LosePage
<1>4. \A f \in {"new", "page", "buffer"} : slot'[<<p, f, 0>>] = NULL
  BY <1>1, <1>2 DEF Fine, LocalsEmpty
<1>5. EntriesEmpty(p)' /\ ~Creating(p) /\ call[p].at # "none"
  BY <1>1, <1>2 DEF EntriesEmpty, Creating
<1> QED BY <1>1, <1>2, <1>3, <1>4, <1>5, ReturnFine, SameCounts, OwnStep

(* copy_process takes the page of the PCB. *)
LEMMA PcbStep ==
  ASSUME IInv, ~PREEMPTIVE, NEW p \in Procs, NewPcb(p)
  PROVE  IInv'
<1>0. PICK t \in Procs : t = call[p].target
  BY DEF IInv, TypeOK
<1> DEFINE a == <<t, "pcb", 0>>
<1>1. /\ TakePage(p, "pcb") /\ n_processes < N_PROCESSES
      /\ slot' = [slot EXCEPT ![a] = call[p].found]
      /\ UNCHANGED <<n_user_pages, n_kernel_pages, lost>>
  BY <1>0 DEF NewPcb
<1>2. Turn(p) /\ call[p].at = "pcb" /\ Fine(p) /\ EntriesEmpty(p) /\ n_user_pages[p] \in 0 .. MAX_PROCESS_PAGES
  BY <1>1, TakenPage DEF IInv, TypeOK
<1>3. t = n_processes /\ t # p
  BY <1>0, <1>1, <1>2, ForkTarget
<1>4. a \in Slots /\ EntriesEmpty(t) /\ Fine(t) /\ call[t].at = "none" /\ n_processes \in Nat
  <2>1. a \in Slots
    BY <1>3, SlotsOf
  <2>3. n_processes \in Nat
    BY Sizes DEF IInv, TypeOK
  <2>2. EntriesEmpty(t) /\ Fine(t) /\ Unborn(t)
    BY <1>3 DEF IInv
  <2> QED BY <1>3, <2>1, <2>2, <2>3 DEF Unborn
<1>5. n_user_pages[t] = 0 /\ slot[a] = NULL
  <2>1. ASSUME NEW r \in Procs, Creating(r) PROVE FALSE
    <3>1. r # p /\ InKernel(r)
      BY <1>2, <2>1 DEF Creating, InKernel
    <3> QED BY <1>2, <3>1, Alone
  <2>2. Unborn(t)
    BY <1>3 DEF IInv
  <2> QED BY <1>3, <1>4, <2>1, <2>2 DEF Unborn
<1>6. Sound(memory_pages, slot, lost)'
  BY <1>1, <1>4, <1>5, PutFound
<1>7. \A s \in Slots : s # a => slot'[s] = slot[s]
  BY <1>1 DEF IInv, TypeOK
<1>8. \A q \in {p, t}, f \in {"new", "page", "buffer"} : slot'[<<q, f, 0>>] = NULL /\ slot[<<q, f, 0>>] = NULL
  BY <1>2, <1>3, <1>4, <1>7, SlotsOf DEF Fine, LocalsEmpty
<1>9. ASSUME NEW q \in {p, t} PROVE EntriesEmpty(q)'
  <2>1. ASSUME NEW k \in 1 .. MAX_PROCESS_PAGES
        PROVE  slot'[<<q, "user", k>>] = slot[<<q, "user", k>>] /\ slot'[<<q, "table", k>>] = slot[<<q, "table", k>>]
    BY <1>7, SlotsOf
  <2>2. ASSUME NEW e \in Fds
        PROVE  slot'[<<q, "file", e>>] = slot[<<q, "file", e>>] /\ slot'[<<q, "resource", e>>] = slot[<<q, "resource", e>>]
    BY <1>7, SlotsOf
  <2>3. EntriesEmpty(q) /\ n_user_pages' = n_user_pages /\ n_kernel_pages' = n_kernel_pages
    BY <1>1, <1>2, <1>4
  <2> QED BY <2>1, <2>2, <2>3 DEF EntriesEmpty
<1>10. \A s \in Slots : s[1] \notin {p, t} => slot'[s] = slot[s]
  BY <1>7
<1>11. call[p].op \in {"fork", "kthread"} /\ call[p].at # "none" /\ call[p].i = 1
  BY <1>2 DEF Fine, CallAgrees
<1>12. CASE call[p].op = "fork" /\ n_user_pages[p] > 0
  <2>1. Goto(p, "user") /\ UNCHANGED n_processes
    BY <1>12 DEF NewPcb
  <2>2. PICK c \in CallType :
           /\ call' = [call EXCEPT ![p] = c] /\ call'[p] = c
           /\ c.at = "user" /\ c.found = NONE
           /\ c.op = call[p].op /\ c.fd = call[p].fd /\ c.target = call[p].target /\ c.i = call[p].i
    BY <2>1, GotoShape DEF Sites, AllocSites
  <2>3. FoundIsFree(p)' /\ RoomLeft(p)' /\ CallAgrees(p)' /\ TargetIsNext(p)'
    BY <1>0, <1>1, <1>2, <1>3, <1>12, <2>1, <2>2, NullIsNoPage
       DEF Fine, FoundIsFree, RoomLeft, CallAgrees, TargetIsNext, Creating, InKernel
  <2>4. LoopBounded(p)'
    BY <1>0, <1>1, <1>2, <1>5, <1>11, <1>12, <2>2 DEF LoopBounded
  <2>5. LocalsEmpty(p)'
    BY <1>8 DEF LocalsEmpty
  <2>6. Fine(p)' /\ c.op = "fork" /\ c.at \in {"user", "table", "wild"} /\ c.target = t
    BY <1>0, <1>12, <2>2, <2>3, <2>4, <2>5 DEF Fine
  <2>7. \A f \in {"new", "page", "buffer"} : slot'[<<t, f, 0>>] = slot[<<t, f, 0>>]
    BY <1>8
  <2> QED BY <1>1, <1>2, <1>3, <1>6, <1>9, <1>10, <1>11, <2>1, <2>2, <2>6, <2>7, SameCounts, ForkStep
<1>13. CASE ~(call[p].op = "fork" /\ n_user_pages[p] > 0)
  <2>1. AddProcess(p)
    BY <1>13 DEF NewPcb
  <2> QED BY <1>0, <1>1, <1>2, <1>3, <1>5, <1>6, <1>8, <1>9, <1>10, <1>11, <2>1, SameCounts, BornStep
<1> QED BY <1>12, <1>13

(* There is no page for the loop. *)
LEMMA NoPageStep ==
  ASSUME IInv, ~PREEMPTIVE, NEW p \in Procs, NoUserPage(p)
  PROVE  IInv'
<1>0. PICK t \in Procs : t = call[p].target
  BY DEF IInv, TypeOK
<1>1. TakePage(p, "user") /\ call[p].found = NULL /\ UNCHANGED <<n_user_pages, n_kernel_pages>>
  BY DEF NoUserPage
<1>2. Turn(p) /\ call[p].at = "user" /\ Fine(p) /\ EntriesEmpty(p) /\ Sound(memory_pages, slot, lost)
      /\ EntriesEmpty(t)
  BY <1>1, TakenPage DEF IInv, TypeOK
<1>3. memory_pages' = memory_pages
  <2>1. memory_pages' = Marked(memory_pages, NULL) /\ memory_pages = [i \in Pages |-> memory_pages[i]]
    BY <1>1, <1>2, TakenPage DEF Sound
  <2> QED BY <2>1, NullIsNoPage DEF Marked
<1>4. call[p].op \in {"fork", "exec", "boot"}
  BY <1>2 DEF Fine, CallAgrees
<1>5. CASE call[p].op = "fork"
  <2>1. AddProcess(p) /\ UNCHANGED <<slot, lost>>
    BY <1>5 DEF NoUserPage
  <2>2. t = n_processes /\ t # p
    BY <1>0, <1>2, <1>5, ForkTarget DEF Creating
  <2>3. Fine(t) /\ call[t].at \in {"none", "user_mode", "zombie"}
    BY <1>2, <2>2, Alone DEF IInv, InKernel
  <2>4. \A f \in {"new", "page", "buffer"} : slot'[<<t, f, 0>>] = NULL /\ slot'[<<p, f, 0>>] = NULL
    BY <1>2, <1>5, <2>1, <2>3 DEF Fine, LocalsEmpty
  <2>5. EntriesEmpty(p)' /\ EntriesEmpty(t)' /\ Sound(memory_pages, slot, lost)'
    <3>1. Sound(memory_pages, slot, lost)'
      BY <1>2, <1>3, <2>1
    <3>2. \A s \in Slots : slot'[s] = slot[s]
      BY <2>1
    <3> QED BY <1>1, <1>2, <3>1, <3>2, EntriesKept
  <2>6. \A s \in Slots : s[1] \notin {p, t} => slot'[s] = slot[s]
    BY <2>1
  <2>7. call[p].op \in {"fork", "kthread"} /\ call[p].at # "none" /\ call[p].op # "kthread"
    BY <1>2, <1>5
  <2>8. /\ n_user_pages' \in [Procs -> 0 .. MAX_PROCESS_PAGES]
        /\ n_kernel_pages' \in [Procs -> 0 .. MAX_PROCESS_PAGES]
        /\ \A q \in Procs \ {p, t} : n_user_pages'[q] = n_user_pages[q] /\ n_kernel_pages'[q] = n_kernel_pages[q]
    BY <1>1, SameCounts
  <2> QED BY <1>0, <1>2, <2>1, <2>2, <2>4, <2>5, <2>6, <2>7, <2>8, BornStep
<1>6. CASE call[p].op # "fork"
  <2>1. Advance(p, slot)
    BY <1>6 DEF NoUserPage
  <2>2. Sound(memory_pages', slot, lost) /\ slot[<<p, "page", 0>>] = NULL
    BY <1>2, <1>3 DEF Fine, LocalsEmpty
  <2>3. \A k \in 1 .. MAX_PROCESS_PAGES : /\ k > n_user_pages'[t] => slot[<<t, "user", k>>] = NULL
                                          /\ k > n_kernel_pages'[t] => slot[<<t, "table", k>>] = NULL
    BY <1>1, <1>2 DEF EntriesEmpty
  <2> QED BY <1>0, <1>1, <1>2, <1>6, <2>1, <2>2, <2>3, SameCounts, AdvanceStep
<1> QED BY <1>5, <1>6

(* s has the tables of t as far as the m-th, and is otherwise as slot. *)
TablesFilled(s, t, m) ==
  /\ s \in [Slots -> Pages \cup {NULL}]
  /\ \A u \in Slots : (u[1] = t /\ u[2] = "table") \/ s[u] = slot[u]
  /\ \A k \in 1 .. MAX_PROCESS_PAGES : k > m => s[<<t, "table", k>>] = NULL

WithPage(s, p, t, page) ==
  [s EXCEPT ![<<p, "page", 0>>] = NULL, ![<<t, "user", n_user_pages[t] + 1>>] = page]

OthersCounted(c, d, t) ==
  c \in [Procs -> 0 .. MAX_PROCESS_PAGES] /\ \A q \in Procs \ {t} : c[q] = d[q]

(* The page of the loop becomes the last one of the process it is for. *)
LEMMA AddUserPageStep ==
  ASSUME IInv, ~PREEMPTIVE, NEW p \in Procs, Turn(p), call[p].at \in {"user", "table"},
         NEW t \in Procs, t = call[p].target,
         NEW s, NEW page \in Pages \cup {NULL}, AddUserPage(p, s, page),
         TablesFilled(s, t, n_kernel_pages'[t]), OthersCounted(n_kernel_pages', n_kernel_pages, t),
         Sound(memory_pages', WithPage(s, p, t, page), lost)
  PROVE  IInv'
<1>0. PICK r : r = WithPage(s, p, t, page)
  OBVIOUS
<1> USE DEF TablesFilled, OthersCounted
<1> DEFINE n == n_user_pages[t] + 1
<1>1. n \in 1 .. MAX_PROCESS_PAGES /\ n_user_pages[t] \in 0 .. MAX_PROCESS_PAGES /\ EntriesEmpty(t)
  BY LoopRoom DEF IInv
<1>2. n_user_pages' = [n_user_pages EXCEPT ![t] = n] /\ Advance(p, r)
  BY <1>0 DEF AddUserPage, WithPage
<1>3. n_user_pages' \in [Procs -> 0 .. MAX_PROCESS_PAGES] /\ n_user_pages'[t] = n
      /\ \A q \in Procs \ {t} : n_user_pages'[q] = n_user_pages[q]
  BY <1>1, <1>2 DEF IInv, TypeOK
<1>4. <<p, "page", 0>> \in Slots /\ <<t, "user", n>> \in Slots /\ <<p, "page", 0>> # <<t, "user", n>>
  BY <1>1, SlotsOf
<1>5. r[<<p, "page", 0>>] = NULL
      /\ \A u \in Slots : u # <<p, "page", 0>> /\ u # <<t, "user", n>> => r[u] = s[u]
  BY <1>0, <1>4 DEF WithPage
<1>6. \A u \in Slots : u = <<p, "page", 0>> \/ (u[1] = t /\ u[2] \in {"user", "table"}) \/ r[u] = slot[u]
  BY <1>5
<1>7. ASSUME NEW k \in 1 .. MAX_PROCESS_PAGES
      PROVE  /\ k > n_user_pages'[t] => r[<<t, "user", k>>] = NULL
             /\ k > n_kernel_pages'[t] => r[<<t, "table", k>>] = NULL
  <2>1. r[<<t, "table", k>>] = s[<<t, "table", k>>]
    BY <1>5, SlotsOf
  <2>2. ASSUME k > n PROVE r[<<t, "user", k>>] = NULL
    <3>1. k # n /\ k > n_user_pages[t]
      BY <1>1, <2>2, Sizes
    <3>2. <<t, "user", k>> \in Slots /\ <<t, "user", k>> # <<t, "user", n>> /\ <<t, "user", k>> # <<p, "page", 0>>
      BY <3>1, SlotsOf
    <3>3. r[<<t, "user", k>>] = s[<<t, "user", k>>]
      BY <1>5, <3>2
    <3>4. s[<<t, "user", k>>] = slot[<<t, "user", k>>]
      BY <3>2
    <3>5. slot[<<t, "user", k>>] = NULL
      BY <1>1, <3>1 DEF EntriesEmpty
    <3> QED BY <3>3, <3>4, <3>5
  <2> QED BY <1>3, <2>1, <2>2
<1> HIDE DEF n
<1>8. n_user_pages'[t] = n_user_pages[t] + 1
  BY <1>3 DEF n
<1>9. \A q \in Procs \ {t} : n_user_pages'[q] = n_user_pages[q] /\ n_kernel_pages'[q] = n_kernel_pages[q]
  BY <1>3
<1>10. \A k \in 1 .. MAX_PROCESS_PAGES : /\ k > n_user_pages'[t] => r[<<t, "user", k>>] = NULL
                                         /\ k > n_kernel_pages'[t] => r[<<t, "table", k>>] = NULL
  BY <1>7
<1>11. n_user_pages' \in [Procs -> 0 .. MAX_PROCESS_PAGES] /\ Advance(p, r) /\ r[<<p, "page", 0>>] = NULL
       /\ Sound(memory_pages', r, lost) /\ n_kernel_pages' \in [Procs -> 0 .. MAX_PROCESS_PAGES]
  BY <1>0, <1>2, <1>3, <1>5
<1> QED BY ONLY <1>6, <1>8, <1>9, <1>10, <1>11, AdvanceStep, IInv, ~PREEMPTIVE, p \in Procs, Turn(p),
                call[p].at \in {"user", "table"}, t \in Procs, t = call[p].target

(* map_page: the page waits for its tables, or is mapped. *)
LEMMA UserPageStep ==
  ASSUME IInv, ~PREEMPTIVE, NEW p \in Procs, NewUserPage(p)
  PROVE  IInv'
<1>0. PICK t \in Procs : t = call[p].target
  BY DEF IInv, TypeOK
<1> DEFINE a == <<p, "page", 0>>
           x == call[p].found
<1>1. TakePage(p, "user") /\ x # NULL /\ UNCHANGED n_kernel_pages
  BY DEF NewUserPage
<1>2. Turn(p) /\ call[p].at = "user" /\ Fine(p) /\ EntriesEmpty(p) /\ EntriesEmpty(t) /\ x \in Pages \cup {NULL}
      /\ slot \in [Slots -> Pages \cup {NULL}]
  BY <1>1, TakenPage DEF IInv, TypeOK
<1>3. a \in Slots /\ slot[a] = NULL
  BY <1>2, SlotsOf DEF Fine, LocalsEmpty
<1>4. CASE n_kernel_pages[t] < LEVELS
  <2>1. slot' = [slot EXCEPT ![a] = x] /\ Goto(p, "table") /\ UNCHANGED <<n_user_pages, n_processes, lost>>
    BY <1>0, <1>4 DEF NewUserPage
  <2>2. Sound(memory_pages, slot, lost)'
    BY <1>1, <1>3, <2>1, PutFound
  <2>3. \A s \in Slots : s # a => slot'[s] = slot[s]
    BY <1>2, <2>1
  <2>4. PICK c \in CallType :
           /\ call' = [call EXCEPT ![p] = c] /\ call'[p] = c
           /\ c.at = "table" /\ c.found = NONE
           /\ c.op = call[p].op /\ c.fd = call[p].fd /\ c.target = call[p].target /\ c.i = call[p].i
    BY <2>1, GotoShape DEF Sites, AllocSites
  <2>5. LocalsEmpty(p)'
    <3>1. \A f \in {"new", "buffer"} : slot'[<<p, f, 0>>] = slot[<<p, f, 0>>]
      BY <2>3, SlotsOf
    <3> QED BY <1>2, <2>4, <3>1 DEF Fine, LocalsEmpty
  <2>6. FoundIsFree(p)' /\ RoomLeft(p)' /\ CallAgrees(p)' /\ TargetIsNext(p)'
    BY <1>2, <2>1, <2>4, NullIsNoPage
       DEF Fine, FoundIsFree, RoomLeft, CallAgrees, TargetIsNext, Creating, InKernel
  <2>7. LoopBounded(p)'
    BY <1>0, <1>1, <1>2, <1>4, <2>1, <2>4 DEF Fine, LoopBounded
  <2>8. EntriesEmpty(p)'
    BY <1>1, <1>2, <2>1, <2>3, SlotsOf DEF EntriesEmpty
  <2>9. /\ Fine(p)' /\ call[p].at # "none" /\ \A s \in Slots : s[1] # p => slot'[s] = slot[s]
        /\ Creating(p) => c.op = "fork" /\ c.at \in {"user", "table", "wild"} /\ c.target = call[p].target
    BY <1>2, <2>3, <2>4, <2>5, <2>6, <2>7 DEF Fine, Creating
  <2> QED BY <1>1, <1>2, <2>1, <2>2, <2>4, <2>8, <2>9, SameCounts, OwnStep
<1>5. CASE ~(n_kernel_pages[t] < LEVELS)
  <2> DEFINE b == <<t, "user", n_user_pages[t] + 1>>
  <2>1. AddUserPage(p, slot, x)
    BY <1>0, <1>5 DEF NewUserPage
  <2>2. n_user_pages[t] + 1 \in 1 .. MAX_PROCESS_PAGES /\ n_user_pages[t] \in 0 .. MAX_PROCESS_PAGES
    BY <1>0, <1>2, LoopRoom
  <2>3. b \in Slots /\ slot[b] = NULL
    <3>1. n_user_pages[t] + 1 > n_user_pages[t]
      BY <2>2, Sizes
    <3> QED BY <1>2, <2>2, <3>1, SlotsOf DEF EntriesEmpty
  <2>4. Sound(memory_pages', [slot EXCEPT ![b] = x], lost)
    BY <1>1, <2>3, PutFound
  <2>5. WithPage(slot, p, t, x) = [slot EXCEPT ![b] = x]
    BY <1>2, <1>3 DEF WithPage
  <2>6. Sound(memory_pages', WithPage(slot, p, t, x), lost)
    BY <2>4, <2>5
  <2>7. TablesFilled(slot, t, n_kernel_pages'[t])
    BY <1>1, <1>2 DEF EntriesEmpty, TablesFilled
  <2>8. OthersCounted(n_kernel_pages', n_kernel_pages, t)
    BY <1>1 DEF IInv, TypeOK, OthersCounted
  <2>9. call[p].at \in {"user", "table"}
    BY <1>2
  <2> QED BY <1>0, <1>2, <2>1, <2>6, <2>7, <2>8, <2>9, AddUserPageStep
<1> QED BY <1>4, <1>5

(* map_table: the page of a table, and after the last one the page itself. *)
LEMMA TableStep ==
  ASSUME IInv, ~PREEMPTIVE, NEW p \in Procs, map_table(p)
  PROVE  IInv'
<1>0. PICK t \in Procs : t = call[p].target
  BY DEF IInv, TypeOK
<1> DEFINE x == call[p].found
           m == n_kernel_pages[t] + 1
           b == <<t, "table", m>>
           s == [slot EXCEPT ![b] = x]
           a == <<p, "page", 0>>
<1>1. TakePage(p, "table") /\ n_kernel_pages' = [n_kernel_pages EXCEPT ![t] = m]
  BY <1>0 DEF map_table
<1>2. /\ Turn(p) /\ call[p].at = "table" /\ Fine(p) /\ EntriesEmpty(p) /\ EntriesEmpty(t)
      /\ x \in Pages \cup {NULL} /\ slot \in [Slots -> Pages \cup {NULL}]
  BY <1>1, TakenPage DEF IInv, TypeOK
<1>3. /\ m \in 1 .. LEVELS /\ m \in 1 .. MAX_PROCESS_PAGES
      /\ n_kernel_pages[t] \in 0 .. MAX_PROCESS_PAGES /\ m > n_kernel_pages[t]
  BY <1>0, <1>2, LoopRoom, Sizes
<1>4. b \in Slots /\ slot[b] = NULL
  BY <1>2, <1>3, SlotsOf DEF EntriesEmpty
<1>5. Sound(memory_pages', s, lost)
  BY <1>1, <1>4, PutFound
<1>6. s \in [Slots -> Pages \cup {NULL}] /\ \A u \in Slots : u # b => s[u] = slot[u]
  BY <1>2, <1>4
<1>7. n_kernel_pages' \in [Procs -> 0 .. MAX_PROCESS_PAGES] /\ n_kernel_pages'[t] = m
      /\ \A q \in Procs \ {t} : n_kernel_pages'[q] = n_kernel_pages[q]
  BY <1>1, <1>3 DEF IInv, TypeOK
<1>8. \A k \in 1 .. MAX_PROCESS_PAGES : k > n_kernel_pages'[t] => s[<<t, "table", k>>] = NULL
  <2>1. ASSUME NEW k \in 1 .. MAX_PROCESS_PAGES, k > m PROVE s[<<t, "table", k>>] = NULL
    <3>1. k # m /\ k > n_kernel_pages[t]
      BY <1>3, <2>1, Sizes
    <3>2. <<t, "table", k>> \in Slots /\ <<t, "table", k>> # b
      BY <3>1, SlotsOf
    <3>3. slot[<<t, "table", k>>] = NULL
      BY <1>2, <3>1 DEF EntriesEmpty
    <3> QED BY <1>6, <3>2, <3>3
  <2> QED BY <1>7, <2>1
<1>9. CASE x # NULL /\ ~(m < LEVELS)
  <2> DEFINE n == n_user_pages[t] + 1
  <2>1. AddUserPage(p, s, slot[a])
    BY <1>0, <1>9 DEF map_table
  <2>2. n \in 1 .. MAX_PROCESS_PAGES /\ n_user_pages[t] \in 0 .. MAX_PROCESS_PAGES /\ n > n_user_pages[t]
    BY <1>0, <1>2, LoopRoom, Sizes
  <2>3. a \in Slots /\ <<t, "user", n>> \in Slots /\ a # <<t, "user", n>> /\ a # b /\ <<t, "user", n>> # b
    BY <2>2, SlotsOf
  <2>4. s[a] = slot[a] /\ s[<<t, "user", n>>] = NULL /\ slot[a] \in Pages \cup {NULL}
    BY <1>2, <1>6, <2>2, <2>3 DEF EntriesEmpty
  <2>5. Sound(memory_pages', WithPage(s, p, t, slot[a]), lost)
    <3>1. Sound(memory_pages', [s EXCEPT ![a] = NULL, ![<<t, "user", n>>] = s[a]], lost)
      BY <1>5, <2>3, <2>4, MovePage
    <3> QED BY <2>4, <3>1 DEF WithPage
  <2>6. TablesFilled(s, t, n_kernel_pages'[t])
    BY <1>6, <1>8 DEF TablesFilled
  <2>7. OthersCounted(n_kernel_pages', n_kernel_pages, t) /\ call[p].at \in {"user", "table"}
    BY <1>2, <1>7 DEF OthersCounted
  <2> HIDE DEF s
  <2> QED BY <1>0, <1>2, <2>1, <2>4, <2>5, <2>6, <2>7, AddUserPageStep
<1>10. CASE x = NULL \/ m < LEVELS
  <2>1. PICK site \in {"wild", "table"} :
          /\ slot' = s /\ Goto(p, site) /\ UNCHANGED <<n_user_pages, n_processes, lost>>
          /\ site = "table" => m < LEVELS
    BY <1>0, <1>10 DEF map_table
  <2>2. PICK c \in CallType :
           /\ call' = [call EXCEPT ![p] = c] /\ call'[p] = c
           /\ c.at = site /\ c.found = NONE
           /\ c.op = call[p].op /\ c.fd = call[p].fd /\ c.target = call[p].target /\ c.i = call[p].i
    BY <2>1, GotoShape DEF Sites, AllocSites
  <2>3. Sound(memory_pages, slot, lost)'
    BY <1>5, <2>1
  <2>4. ASSUME NEW q \in Procs, NEW f \in {"new", "page", "buffer"} PROVE slot'[<<q, f, 0>>] = slot[<<q, f, 0>>]
    <3>1. <<q, f, 0>> \in Slots /\ <<q, f, 0>> # b
      BY SlotsOf
    <3> QED BY <1>6, <2>1, <3>1
  <2>5. LocalsEmpty(p)'
    BY <1>2, <2>1, <2>2, <2>4 DEF Fine, LocalsEmpty
  <2>6. FoundIsFree(p)' /\ RoomLeft(p)' /\ CallAgrees(p)' /\ TargetIsNext(p)'
    BY <1>2, <2>1, <2>2, NullIsNoPage
       DEF Fine, FoundIsFree, RoomLeft, CallAgrees, TargetIsNext, Creating, InKernel
  <2>7. LoopBounded(p)'
    BY <1>0, <1>2, <1>7, <2>1, <2>2 DEF Fine, LoopBounded
  <2>8. \A q \in {p, t} : EntriesEmpty(q)'
    <3>1. ASSUME NEW q \in {p, t}, NEW k \in 1 .. MAX_PROCESS_PAGES
          PROVE  slot'[<<q, "user", k>>] = slot[<<q, "user", k>>]
                 /\ (q # t => slot'[<<q, "table", k>>] = slot[<<q, "table", k>>])
      BY <1>6, <2>1, SlotsOf
    <3>2. ASSUME NEW q \in {p, t}, NEW e \in Fds
          PROVE  slot'[<<q, "resource", e>>] = slot[<<q, "resource", e>>] /\ slot'[<<q, "file", e>>] = slot[<<q, "file", e>>]
      BY <1>6, <2>1, SlotsOf
    <3> QED BY <1>2, <1>7, <1>8, <2>1, <3>1, <3>2 DEF EntriesEmpty
  <2>9. Fine(p)' /\ call[p].at # "none" /\ call[p].op \in {"fork", "exec", "boot"}
    BY <1>2, <2>5, <2>6, <2>7 DEF Fine, CallAgrees
  <2>10. /\ n_user_pages' \in [Procs -> 0 .. MAX_PROCESS_PAGES] /\ n_processes' = n_processes
         /\ \A q \in Procs \ {t} : n_user_pages'[q] = n_user_pages[q] /\ n_kernel_pages'[q] = n_kernel_pages[q]
         /\ \A u \in Slots : u[1] # t => slot'[u] = slot[u]
    BY <1>6, <1>7, <2>1 DEF IInv, TypeOK
  <2>11. CASE call[p].op = "fork"
    <3>1. t = n_processes /\ c.op = "fork" /\ c.at \in {"user", "table", "wild"} /\ c.target = t
      BY <1>0, <1>2, <2>2, <2>11, ForkTarget DEF Creating
    <3>2. \A f \in {"new", "page", "buffer"} : slot'[<<t, f, 0>>] = slot[<<t, f, 0>>]
      BY <2>4
    <3>3. \A u \in Slots : u[1] \notin {p, t} => slot'[u] = slot[u]
      BY <2>10
    <3>4. \A q \in Procs \ {p, t} : n_user_pages'[q] = n_user_pages[q] /\ n_kernel_pages'[q] = n_kernel_pages[q]
      BY <2>10
    <3> QED BY <1>2, <1>7, <2>2, <2>3, <2>8, <2>9, <2>10, <3>1, <3>2, <3>3, <3>4, ForkStep
  <2>12. CASE call[p].op # "fork"
    <3>1. t = p /\ ~Creating(p)
      BY <1>0, <1>2, <2>9, <2>12 DEF Fine, CallAgrees, Creating
    <3> QED BY <1>2, <1>7, <2>2, <2>3, <2>8, <2>9, <2>10, <3>1, OwnStep
  <2> QED BY <2>11, <2>12
<1> QED BY <1>3, <1>9, <1>10, Sizes

-----------------------------------------------------------------------------
(* Every step preserves the invariant. *)
LEMMA IInvStep ==
  ASSUME IInv, ~PREEMPTIVE, [Next]_vars
  PROVE  IInv'
<1>1. CASE UNCHANGED vars
  <2>1. TypeOK' /\ OneInKernel' /\ Sound(memory_pages, slot, lost)'
    BY <1>1 DEF vars, IInv, TypeOK, OneInKernel, InKernel
  <2>2. ASSUME NEW p \in Procs PROVE Fine(p)' /\ EntriesEmpty(p)' /\ Unborn(p)'
    <3>1. Fine(p) /\ EntriesEmpty(p) /\ Unborn(p)
      BY DEF IInv
    <3>2. Fine(p)'
      BY <1>1, <3>1 DEF vars, Fine, FoundIsFree, LocalsEmpty, RoomLeft, CallAgrees, LoopBounded, TargetIsNext, Creating, InKernel
    <3>3. EntriesEmpty(p)'
      BY <1>1, <3>1 DEF vars, EntriesEmpty
    <3>4. Unborn(p)'
      BY <1>1, <3>1 DEF vars, Unborn, Creating
    <3> QED BY <3>2, <3>3, <3>4
  <2> QED BY <2>1, <2>2 DEF IInv
<1>2. ASSUME NEW p \in Procs, Calls(p) PROVE IInv'
  BY <1>2, CallsStep
<1>3. ASSUME NEW p \in Procs, Steps(p) PROVE IInv'
  BY <1>3, FindStep, MallocStep, LocalPageStep, FileSystemStep, OpenFailsStep, ResourceStep, CloseStep, CloseFileStep,
     TooLargeStep, UnmapStep, PcbStep, PcbFailsStep, UserPageStep, NoPageStep, TableStep DEF Steps
<1> QED BY <1>1, <1>2, <1>3 DEF Next

(* The invariant holds in every state of a kernel that is not preemptive. *)
THEOREM AlwaysIInv ==
  ASSUME ~PREEMPTIVE
  PROVE  Spec => []IInv
<1>1. IInv /\ [Next]_vars => IInv'
  BY IInvStep
<1> QED BY <1>1, InitIInv, PTL DEF Spec

(* The counts of user_pages and kernel_pages stay within their arrays, and
   every page index within memory_pages: map_page and map_table, which test
   neither, never leave them. *)
THEOREM TypeCorrect ==
  ASSUME ~PREEMPTIVE
  PROVE  Spec => []TypeOK
<1>1. IInv => TypeOK
  BY DEF IInv
<1> QED BY <1>1, AlwaysIInv, PTL

(* No page has two owners, and none that somebody holds is ever handed out
   again by get_free_page. *)
THEOREM PagesOwnedOnce ==
  ASSUME ~PREEMPTIVE
  PROVE  Spec => []OwnedOnce
<1>1. IInv => OwnedOnce
  BY DEF IInv, Sound, OwnedOnce
<1> QED BY <1>1, AlwaysIInv, PTL

(* A page that is marked and that nobody holds is one close_file, exec or a
   failed fork has forgotten. *)
THEOREM PagesAccounted ==
  ASSUME ~PREEMPTIVE
  PROVE  Spec => []Accounted
<1>1. IInv => Accounted
  <2>1. ASSUME IInv PROVE Accounted
    <3>1. Sound(memory_pages, slot, lost)
      BY <2>1 DEF IInv
    <3>2. Held \cap lost = {}
      BY <3>1 DEF Sound, Held
    <3>3. \A i \in Pages : memory_pages[i] = 1 => i \in Held \cup lost
      BY <3>1, NullIsNoPage DEF Sound, Held
    <3>4. \A i \in Held \cup lost : i \in Pages /\ memory_pages[i] = 1
      BY <3>1 DEF Sound, Held
    <3> QED BY <3>2, <3>3, <3>4 DEF Accounted
  <2> QED BY <2>1
<1> QED BY <1>1, AlwaysIInv, PTL

-----------------------------------------------------------------------------
(***************************************************************************)
(* Where the pages in use lie, under an algorithm that is not preemptive.  *)
(* The allocator takes the first free page, and no call leaves a hole      *)
(* below a page in use.  That is why exec, which reads a program of many   *)
(* pages into a buffer of one, overwrites nothing, and why a fork that     *)
(* succeeds has copied all pages of its parent.                            *)
(*                                                                         *)
(* LInv says of every place in a call which pages may be free; it is       *)
(* preserved given the invariant of the first part before and after a step.*)
(***************************************************************************)

FreeIn(m) == {i \in Pages : m[i] = 0}

(* No page in use lies above a free one; nor will one when the first free
   page is taken; no page above a given one is in use; at most one is free. *)
Packed(m) == \A i, j \in Pages : i < j /\ m[i] = 0 => m[j] = 0
PackedAfterNext(m) == \A i, k \in FreeIn(m), j \in Pages : i < j /\ k < i => m[j] = 0
Above(m, page) == \A j \in Pages : j > page => m[j] = 0
Single(m) == \A i, j \in FreeIn(m) : i = j

(* A process has the memory copy_code or fork gives it; all of them do.  Init
   has none and makes no call. *)
Equipped(q) == n_user_pages[q] = CODE_PAGES /\ n_kernel_pages[q] >= LEVELS
Provided(X) == \A q \in 1 .. n_processes - 1 : q \notin X => Equipped(q)

(* Between calls: a process lacks pages only if there are none. *)
Rested == Packed(memory_pages) /\ (Provided({}) \/ Free = {})

Buffer(p) == slot[<<p, "buffer", 0>>]
Gap(m, b) == {j \in FreeIn(m) : j < b}

(* exec has its buffer; closes its file; replaces the memory of the process. *)
ExecHolds(p) ==
  IF Buffer(p) = NULL THEN Free = {} ELSE Above(memory_pages, Buffer(p)) /\ Provided({})
ExecCloses(p) ==
  IF Buffer(p) = NULL THEN Single(memory_pages)
  ELSE Above(memory_pages, Buffer(p)) /\ Provided({}) /\ Gap(memory_pages, Buffer(p)) # {}
ExecReplaces(p) ==
  IF Buffer(p) = NULL
  THEN Cardinality(Free) <= CODE_PAGES - call[p].i + (IF call[p].at = "user" THEN 1 ELSE 0)
  ELSE /\ call[p].at = "user" /\ Above(memory_pages, Buffer(p)) /\ Provided({p})
       /\ n_user_pages[p] = call[p].i - 1 /\ n_kernel_pages[p] >= LEVELS
       /\ Cardinality(Gap(memory_pages, Buffer(p))) = CODE_PAGES - call[p].i + 1

(* The first page of a process comes with its tables. *)
HasTables(p) == call[p].at = "user" /\ call[p].i > 1 => n_kernel_pages[call[p].target] >= LEVELS

(* The page found is the first free one, if there is one. *)
First(p) == call[p].found # NONE => call[p].found = IF Free = {} THEN NULL ELSE Min(Free)

InLoop(p) == call[p].at \in {"user", "table"}

Stage(p) ==
  /\ call[p].at \in {"malloc", "new", "open", "resource", "buffer"} => Rested
  /\ call[p].at = "pcb" /\ call[p].op = "fork" => Rested
  /\ call[p].at = "release" /\ call[p].op = "close" => Rested
  /\ call[p].at = "open" /\ slot[<<p, "new", 0>>] # NULL
       => Above(memory_pages, slot[<<p, "new", 0>>]) /\ Provided({})
  /\ call[p].at \in {"open", "resource"} /\ slot[<<p, "new", 0>>] = NULL => Free = {}
  /\ call[p].op = "exec" /\ call[p].at \in {"buffer", "read", "release"}
       => slot[<<p, "file", call[p].fd>>] # NULL
  /\ call[p].op = "exec" /\ call[p].at \in {"read", "release", "unmap"}
       => Packed(memory_pages) /\ ExecHolds(p)
  /\ call[p].at = "close" => PackedAfterNext(memory_pages)
  /\ call[p].at = "close" /\ call[p].op = "close" => Provided({}) \/ Single(memory_pages)
  /\ call[p].at = "close" /\ call[p].op = "exec" => ExecCloses(p)
  /\ call[p].op = "exec" /\ InLoop(p) => ExecReplaces(p)
  /\ call[p].op = "boot" /\ InLoop(p)
       => /\ Packed(memory_pages) /\ n_processes = 2 /\ p = 1
          /\ Free = {} \/ (n_user_pages[p] = call[p].i - 1 /\ HasTables(p))
  /\ call[p].op = "fork" /\ InLoop(p) => Rested /\ (Free = {} \/ HasTables(p))
  /\ call[p].at = "table" => slot[<<p, "page", 0>>] # NULL
  /\ First(p)

Calm == (\A p \in Procs : ~InKernel(p)) => Rested

(* No process has more pages than copy_code gives it, and none is NULL. *)
Mapped ==
  \A q \in Procs : /\ n_user_pages[q] <= CODE_PAGES
                   /\ \A k \in 1 .. n_user_pages[q] : slot[<<q, "user", k>>] # NULL

(* Init creates the kernel process when no page is in use, and makes no call
   afterwards. *)
Booting ==
  /\ \A q \in Procs : call[q].op = "kthread" =>
       q = 0 /\ call[q].at = "pcb" /\ n_processes = 1 /\ Free = Pages
  /\ call[0].at # "none" => call[0].op = "kthread"

LInv == Calm /\ Mapped /\ Booting /\ \A p \in Procs : Stage(p)

-----------------------------------------------------------------------------
(* What taking the first free page and giving pages back do to the layout *)

FirstIn(m) == IF FreeIn(m) = {} THEN NULL ELSE Min(FreeIn(m))
Memories == [Pages -> {0, 1}]

LEMMA FirstIsLeast ==
  ASSUME NEW m \in Memories, FreeIn(m) # {}
  PROVE  FirstIn(m) \in FreeIn(m) /\ FirstIn(m) # NULL /\ \A j \in FreeIn(m) : FirstIn(m) <= j
<1>1. FreeIn(m) \in SUBSET Nat
  BY NullIsNoPage DEF FreeIn
<1>2. \E x \in FreeIn(m) : \A y \in FreeIn(m) : x <= y
  BY <1>1, LeastNatural
<1>3. Min(FreeIn(m)) \in FreeIn(m) /\ \A j \in FreeIn(m) : Min(FreeIn(m)) <= j
  BY <1>2 DEF Min
<1>4. NULL \notin FreeIn(m)
  BY NullIsNoPage DEF FreeIn
<1> QED BY <1>3, <1>4 DEF FirstIn

LEMMA TakeFirst ==
  ASSUME NEW m \in Memories, NEW x, x = FirstIn(m), NEW n, n = Marked(m, x)
  PROVE  /\ n \in Memories
         /\ FreeIn(n) = FreeIn(m) \ {x}
         /\ x = NULL <=> FreeIn(m) = {}
         /\ x # NULL => x \in FreeIn(m) /\ \A j \in FreeIn(m) : x <= j
         /\ x = NULL => n = m
         /\ Packed(m) => Packed(n)
         /\ Packed(m) /\ x # NULL => Above(n, x)
         /\ PackedAfterNext(m) => Packed(n)
         /\ Single(m) => FreeIn(n) = {}
<1>1. n \in Memories /\ \A i \in Pages : n[i] = IF i = x THEN 1 ELSE m[i]
  BY DEF Marked, Memories
<1>2. FreeIn(n) = FreeIn(m) \ {x}
  BY <1>1 DEF FreeIn
<1>3. (x = NULL <=> FreeIn(m) = {}) /\ (x # NULL => x \in FreeIn(m) /\ \A j \in FreeIn(m) : x <= j)
  BY FirstIsLeast DEF FirstIn
<1>4. x = NULL => n = m
  <2>1. x = NULL => \A i \in Pages : n[i] = m[i]
    BY <1>1, NullIsNoPage
  <2> QED BY <1>1, <2>1 DEF Memories
<1>5. Packed(m) => Packed(n)
  <2> SUFFICES ASSUME Packed(m), NEW i \in Pages, NEW j \in Pages, i < j, n[i] = 0 PROVE n[j] = 0
    BY DEF Packed
  <2>1. m[i] = 0 /\ i # x /\ m[j] = 0
    BY <1>1 DEF Packed
  <2>2. j # x
    BY <1>3, <2>1, NullIsNoPage DEF FreeIn
  <2> QED BY <1>1, <2>1, <2>2
<1>6. Packed(m) /\ x # NULL => Above(n, x)
  <2> SUFFICES ASSUME Packed(m), x # NULL, NEW j \in Pages, j > x PROVE n[j] = 0
    BY DEF Above
  <2>1. x \in Pages /\ m[x] = 0
    BY <1>3 DEF FreeIn
  <2>2. m[j] = 0 /\ j # x
    BY <2>1, NullIsNoPage DEF Packed
  <2> QED BY <1>1, <2>2
<1>7. PackedAfterNext(m) => Packed(n)
  <2> SUFFICES ASSUME PackedAfterNext(m), NEW i \in Pages, NEW j \in Pages, i < j, n[i] = 0 PROVE n[j] = 0
    BY DEF Packed
  <2>1. m[i] = 0 /\ i # x /\ i \in FreeIn(m)
    BY <1>1 DEF FreeIn
  <2>2. x \in FreeIn(m) /\ x < i
    <3>1. FreeIn(m) # {}
      BY <2>1
    <3>2. x \in FreeIn(m) /\ x <= i
      BY <1>3, <2>1, <3>1
    <3>3. x \in Nat /\ i \in Nat
      BY <3>2, NullIsNoPage DEF FreeIn
    <3> QED BY <2>1, <3>2, <3>3
  <2>3. m[j] = 0 /\ j # x
    <3>1. m[j] = 0
      BY <2>1, <2>2 DEF PackedAfterNext
    <3>2. x \in Nat /\ i \in Nat /\ j \in Nat
      BY <2>2, NullIsNoPage DEF FreeIn
    <3> QED BY <2>2, <3>1, <3>2
  <2> QED BY <1>1, <2>3
<1>8. Single(m) => FreeIn(n) = {}
  BY <1>2, <1>3 DEF Single
<1> QED BY <1>1, <1>2, <1>3, <1>4, <1>5, <1>6, <1>7, <1>8

(* Below the buffer, the first free page is one of those in the gap. *)
LEMMA TakeFromGap ==
  ASSUME NEW m \in Memories, NEW x, x = FirstIn(m), NEW b \in Pages, Above(m, b), Gap(m, b) # {}
  PROVE  x # NULL /\ x < b /\ Above(Marked(m, x), b)
         /\ Gap(Marked(m, x), b) = Gap(m, b) \ {x} /\ x \in Gap(m, b)
<1>1. PICK g \in Gap(m, b) : TRUE
  OBVIOUS
<1>2. g \in FreeIn(m) /\ g < b /\ g \in Nat /\ b \in Nat
  BY NullIsNoPage DEF Gap, FreeIn
<1>3. x \in FreeIn(m) /\ x # NULL /\ x <= g /\ x \in Nat
  BY <1>2, FirstIsLeast, NullIsNoPage DEF FreeIn
<1>4. x < b
  BY <1>2, <1>3
<1>5. FreeIn(Marked(m, x)) = FreeIn(m) \ {x} /\ \A i \in Pages : Marked(m, x)[i] = IF i = x THEN 1 ELSE m[i]
  BY DEF Marked, FreeIn
<1>6. Above(Marked(m, x), b)
  <2> SUFFICES ASSUME NEW j \in Pages, j > b PROVE Marked(m, x)[j] = 0
    BY DEF Above
  <2>1. m[j] = 0 /\ j # x
    BY <1>2, <1>3, <1>4, NullIsNoPage DEF Above
  <2> QED BY <1>5, <2>1
<1> QED BY <1>3, <1>4, <1>5, <1>6 DEF Gap

LEMMA GiveBack ==
  ASSUME NEW m \in Memories, NEW x \in Pages, NEW n, n = free_page(m, x)
  PROVE  /\ n \in Memories
         /\ FreeIn(n) = FreeIn(m) \cup {x}
         /\ Above(m, x) /\ Packed(m) => Packed(n)
         /\ Packed(m) => PackedAfterNext(n)
         /\ FreeIn(m) = {} => Single(n)
         /\ \A b \in Pages : Above(m, b) => Above(n, b)
<1>1. n \in Memories /\ \A i \in Pages : n[i] = IF i = x THEN 0 ELSE m[i]
  BY DEF free_page, Memories
<1>2. FreeIn(n) = FreeIn(m) \cup {x}
  BY <1>1 DEF FreeIn
<1>3. Above(m, x) /\ Packed(m) => Packed(n)
  BY <1>1, NullIsNoPage DEF Above, Packed
<1>4. Packed(m) => PackedAfterNext(n)
  <2> SUFFICES ASSUME Packed(m), NEW i \in FreeIn(n), NEW k \in FreeIn(n), NEW j \in Pages, i < j, k < i
               PROVE  n[j] = 0
    BY DEF PackedAfterNext
  <2>1. i \in Pages /\ k \in Pages /\ i \in Nat /\ k \in Nat /\ j \in Nat
    BY NullIsNoPage DEF FreeIn
  <2>2. CASE i = x
    <3>1. m[k] = 0 /\ k < j
      BY <1>1, <2>1, <2>2 DEF FreeIn
    <3> QED BY <1>1, <2>1, <3>1 DEF Packed
  <2>3. CASE i # x
    <3>1. m[i] = 0
      BY <1>1, <2>1, <2>3 DEF FreeIn
    <3> QED BY <1>1, <2>1, <3>1 DEF Packed
  <2> QED BY <2>2, <2>3
<1>5. FreeIn(m) = {} => Single(n)
  BY <1>2 DEF Single
<1>6. \A b \in Pages : Above(m, b) => Above(n, b)
  BY <1>1 DEF Above
<1> QED BY <1>1, <1>2, <1>3, <1>4, <1>5, <1>6

(* free_page(NULL) touches no page of the model. *)
LEMMA GiveBackNull ==
  ASSUME NEW m \in Memories
  PROVE  free_page(m, NULL) = m
<1>1. \A i \in Pages : free_page(m, NULL)[i] = m[i]
  BY NullIsNoPage DEF free_page, Memories
<1> QED BY <1>1 DEF free_page, Memories

-----------------------------------------------------------------------------
(* The invariant, step by step *)

(* Who is outside the kernel has found no page, and nothing is asked of it. *)
LEMMA OutsideStage ==
  ASSUME IInv', NEW q \in Procs, ~InKernel(q)'
  PROVE  Stage(q)'
<1>1. call'[q].at \in {"none", "user_mode", "zombie"} /\ FoundIsFree(q)'
  BY DEF IInv, Fine, InKernel
<1>2. First(q)'
  BY <1>1 DEF FoundIsFree, First
<1> QED BY <1>1, <1>2 DEF Stage, InLoop

LEMMA Assemble ==
  ASSUME IInv', NEW p \in Procs, \A q \in Procs \ {p} : ~InKernel(q)',
         InKernel(p)' => Stage(p)', ~InKernel(p)' => Rested', Mapped', Booting'
  PROVE  LInv'
<1>1. Stage(p)'
  BY OutsideStage
<1>2. ASSUME NEW q \in Procs PROVE Stage(q)'
  BY <1>1, OutsideStage
<1>3. Calm'
  BY DEF Calm
<1> QED BY <1>2, <1>3 DEF LInv

(* Every call but that of kernel_main is made by another process than init. *)
LEMMA NotInit ==
  ASSUME LInv, NEW p \in Procs, call[p].at \notin {"none", "pcb"}
  PROVE  p # 0 /\ call[p].op # "kthread"
BY DEF LInv, Booting

LEMMA BootKept ==
  ASSUME IInv, LInv, ~PREEMPTIVE, NEW p \in Procs, Turn(p), p # 0,
         NEW c, call' = [call EXCEPT ![p] = c], c.op # "kthread"
  PROVE  Booting'
<1>1. call'[p] = c /\ \A q \in Procs \ {p} : call'[q] = call[q]
  BY DEF IInv, TypeOK
<1>2. ASSUME NEW q \in Procs \ {p} PROVE call[q].op # "kthread"
  <2>1. ~InKernel(q)
    BY Alone
  <2> QED BY <2>1 DEF LInv, Booting, InKernel
<1>3. 0 \in Procs
  BY Sizes
<1> QED BY <1>1, <1>2, <1>3 DEF LInv, Booting

LEMMA MappedKept ==
  ASSUME IInv, LInv, n_user_pages' = n_user_pages,
         \A s \in Slots : s[2] = "user" => slot'[s] = slot[s]
  PROVE  Mapped'
<1> SUFFICES ASSUME NEW q \in Procs
             PROVE  n_user_pages[q] <= CODE_PAGES /\ \A k \in 1 .. n_user_pages[q] : slot'[<<q, "user", k>>] # NULL
  BY DEF Mapped
<1>1. n_user_pages[q] \in 0 .. MAX_PROCESS_PAGES /\ n_user_pages[q] <= CODE_PAGES
      /\ \A k \in 1 .. n_user_pages[q] : slot[<<q, "user", k>>] # NULL
  BY DEF IInv, TypeOK, LInv, Mapped
<1>2. ASSUME NEW k \in 1 .. n_user_pages[q] PROVE slot'[<<q, "user", k>>] # NULL
  <2>1. k \in 1 .. MAX_PROCESS_PAGES
    BY <1>1, Sizes
  <2>2. <<q, "user", k>> \in Slots
    BY <2>1, SlotsOf
  <2>3. slot'[<<q, "user", k>>] = slot[<<q, "user", k>>]
    BY <2>2
  <2> QED BY <1>1, <2>3
<1> QED BY <1>1, <1>2

(* A step of p that maps no page. *)
LEMMA OwnLayout ==
  ASSUME IInv, IInv', LInv, ~PREEMPTIVE, NEW p \in Procs, Turn(p), p # 0,
         NEW c, call' = [call EXCEPT ![p] = c], c.op # "kthread",
         n_user_pages' = n_user_pages, \A s \in Slots : s[2] = "user" => slot'[s] = slot[s],
         c.at \notin {"none", "user_mode", "zombie"} => Stage(p)',
         c.at \in {"none", "user_mode", "zombie"} => Rested'
  PROVE  LInv'
<1>1. call'[p] = c /\ \A q \in Procs \ {p} : call'[q] = call[q]
  BY DEF IInv, TypeOK
<1>2. \A q \in Procs \ {p} : ~InKernel(q)'
  BY <1>1, Alone DEF InKernel
<1>3. Mapped' /\ Booting'
  BY MappedKept, BootKept
<1>4. (InKernel(p)' => Stage(p)') /\ (~InKernel(p)' => Rested')
  BY <1>1 DEF InKernel
<1> QED BY <1>2, <1>3, <1>4, Assemble

(* Nothing is lost of what holds between calls when no page moves. *)
LEMMA RestedKept ==
  ASSUME UNCHANGED <<memory_pages, n_user_pages, n_kernel_pages, n_processes>>
  PROVE  /\ Rested' <=> Rested
         /\ Free' = Free
         /\ \A X : Provided(X)' <=> Provided(X)
<1>1. Free' = Free
  BY DEF Free
<1>2. \A X : Provided(X)' <=> Provided(X)
  BY DEF Provided, Equipped
<1>3. Rested' <=> Rested
  BY <1>1, <1>2 DEF Rested, Packed
<1> QED BY <1>1, <1>2, <1>3

(* A program makes a system call, or exits. *)
LEMMA CallsLayout ==
  ASSUME IInv, IInv', LInv, ~PREEMPTIVE, NEW p \in Procs, Calls(p)
  PROVE  LInv'
<1>1. PICK c : /\ call' = [call EXCEPT ![p] = c]
               /\ \/ c.op = "malloc" /\ c.at = "malloc" /\ c.found = NONE
                  \/ c.op \in {"open", "exec"} /\ c.at = "new" /\ c.found = NONE
                  \/ c.op = "close" /\ c.at = "release" /\ c.found = NONE
                  \/ c.op = "fork" /\ c.at = "pcb" /\ c.found = NONE
                  \/ c.op = call[p].op /\ c.at = "zombie"
  <2>1. ASSUME NEW op, NEW site, NEW fd, NEW target, Enter(p, op, site, fd, target)
        PROVE  \E c : call' = [call EXCEPT ![p] = c] /\ c.op = op /\ c.at = site /\ c.found = NONE
    <3> DEFINE c == [Idle EXCEPT !.op = op, !.at = site, !.fd = fd, !.target = target]
    <3>1. c.op = op /\ c.at = site /\ c.found = NONE
      BY DEF Idle
    <3>2. call' = [call EXCEPT ![p] = c]
      BY <2>1 DEF Enter
    <3> HIDE DEF c
    <3> QED BY <3>1, <3>2
  <2>2. ASSUME Exit(p) PROVE \E c : call' = [call EXCEPT ![p] = c] /\ c.op = call[p].op /\ c.at = "zombie"
    <3> DEFINE c == [call[p] EXCEPT !.at = "zombie"]
    <3>1. call[p] \in CallType
      BY DEF IInv, TypeOK, CallType
    <3>2. c.op = call[p].op /\ c.at = "zombie"
      BY <3>1 DEF CallType
    <3>3. call' = [call EXCEPT ![p] = c]
      BY <2>2 DEF Exit
    <3> HIDE DEF c
    <3> QED BY <3>2, <3>3
  <2>3. CASE CallMalloc(p)
    BY <2>1, <2>3 DEF CallMalloc
  <2>4. CASE CallOpen(p, "open") \/ CallOpen(p, "exec")
    BY <2>1, <2>4 DEF CallOpen
  <2>5. ASSUME NEW fd \in Fds, CallClose(p, fd)
        PROVE  \E c : call' = [call EXCEPT ![p] = c] /\ c.op = "close" /\ c.at = "release" /\ c.found = NONE
    BY <2>1, <2>5 DEF CallClose
  <2>6. CASE CallFork(p)
    BY <2>1, <2>6 DEF CallFork
  <2> QED BY <2>2, <2>3, <2>4, <2>5, <2>6 DEF Calls
<1>2. /\ Turn(p) /\ call[p].at = "user_mode"
      /\ UNCHANGED <<memory_pages, slot, n_user_pages, n_kernel_pages, n_processes, lost>>
  BY DEF Calls, CallMalloc, CallOpen, CallClose, CallFork, Exit, Enter
<1>3. p # 0 /\ call[p].op # "kthread"
  BY <1>2, NotInit
<1>4. Rested
  <2>1. \A q \in Procs : ~InKernel(q)
    BY <1>2, Alone DEF InKernel
  <2> QED BY <2>1 DEF LInv, Calm
<1>5. Rested'
  BY <1>2, <1>4, RestedKept
<1>6. call'[p] = c
  BY <1>1 DEF IInv, TypeOK
<1>7. c.at # "zombie" => Stage(p)'
  BY <1>1, <1>5, <1>6 DEF Stage, InLoop, First
<1> QED BY <1>1, <1>2, <1>3, <1>5, <1>7, OwnLayout

(* get_free_page looks for a page. *)
LEMMA FindLayout ==
  ASSUME IInv, IInv', LInv, ~PREEMPTIVE, NEW p \in Procs, FindPage(p)
  PROVE  LInv'
<1> DEFINE x == IF Free = {} THEN NULL ELSE Min(Free)
           c == [call[p] EXCEPT !.found = x]
<1>1. call \in [Procs -> CallType]
  BY DEF IInv, TypeOK, CallType
<1>2. c.found = x /\ c.at = call[p].at /\ c.op = call[p].op /\ c.fd = call[p].fd
      /\ c.target = call[p].target /\ c.i = call[p].i
  BY <1>1 DEF CallType
<1>3. call' = [call EXCEPT ![p] = c] /\ Turn(p) /\ call[p].at \in AllocSites
      /\ UNCHANGED <<memory_pages, slot, n_user_pages, n_kernel_pages, n_processes, lost>>
  BY <1>1 DEF FindPage, CallType
<1>4. call'[p] = c /\ \A q \in Procs \ {p} : call'[q] = call[q]
  BY <1>1, <1>3
<1>5. Free' = Free /\ x = IF Free' = {} THEN NULL ELSE Min(Free')
  BY <1>3 DEF Free
<1> HIDE DEF c, x
<1>6. First(p)'
  BY <1>2, <1>4, <1>5 DEF First
<1>7. Stage(p)
  BY DEF LInv
<1>8. /\ (Rested' <=> Rested) /\ (ExecHolds(p)' <=> ExecHolds(p)) /\ (ExecCloses(p)' <=> ExecCloses(p))
      /\ (ExecReplaces(p)' <=> ExecReplaces(p)) /\ (HasTables(p)' <=> HasTables(p)) /\ (InLoop(p)' <=> InLoop(p))
      /\ (Provided({})' <=> Provided({}))
  <2>1. (Rested' <=> Rested) /\ (Provided({})' <=> Provided({})) /\ (Provided({p})' <=> Provided({p}))
    BY <1>3, RestedKept
  <2>2. (HasTables(p)' <=> HasTables(p)) /\ (InLoop(p)' <=> InLoop(p))
    BY <1>2, <1>3, <1>4 DEF HasTables, InLoop
  <2>3. (ExecHolds(p)' <=> ExecHolds(p)) /\ (ExecCloses(p)' <=> ExecCloses(p))
    BY <1>3, <1>5, <2>1 DEF ExecHolds, ExecCloses, Buffer
  <2>4. ExecReplaces(p)' <=> ExecReplaces(p)
    BY <1>2, <1>3, <1>4, <1>5, <2>1 DEF ExecReplaces, Buffer
  <2> QED BY <2>1, <2>2, <2>3, <2>4
<1>9. Stage(p)'
  BY <1>2, <1>3, <1>4, <1>5, <1>6, <1>7, <1>8 DEF Stage
<1>10. \A q \in Procs \ {p} : ~InKernel(q)'
  BY <1>3, <1>4, Alone DEF InKernel
<1>11. Mapped' /\ Booting' /\ InKernel(p)'
  <2>1. Mapped'
    BY <1>3, MappedKept
  <2>2. Booting'
    <3>1. \A q \in Procs : call'[q].op = call[q].op /\ call'[q].at = call[q].at
      BY <1>2, <1>4
    <3>2. 0 \in Procs
      BY Sizes
    <3> QED BY <1>3, <1>5, <3>1, <3>2 DEF LInv, Booting
  <2>3. InKernel(p)'
    BY <1>2, <1>3, <1>4 DEF InKernel, AllocSites
  <2> QED BY <2>1, <2>2, <2>3
<1> QED BY <1>9, <1>10, <1>11, Assemble

(* The page that get_free_page marks is the first free one. *)
LEMMA TakesFirst ==
  ASSUME IInv, LInv, NEW p \in Procs, NEW site, TakePage(p, site)
  PROVE  /\ Turn(p) /\ call[p].at = site
         /\ memory_pages \in Memories
         /\ call[p].found = FirstIn(memory_pages)
         /\ memory_pages' = Marked(memory_pages, call[p].found)
<1>1. First(p) /\ memory_pages \in Memories
  BY DEF LInv, Stage, IInv, TypeOK, Memories
<1>2. call[p].found # NONE
  BY DEF TakePage
<1>3. call[p].found = FirstIn(memory_pages)
  BY <1>1, <1>2 DEF First, FirstIn, Free, FreeIn
<1> QED BY <1>1, <1>3, TakenPage

LEMMA FreeIs == Free = FreeIn(memory_pages) /\ Free' = FreeIn(memory_pages')
BY DEF Free, FreeIn

(* A page taken when all is at rest leaves it so. *)
LEMMA RestedTake ==
  ASSUME Rested, memory_pages \in Memories, memory_pages' = Marked(memory_pages, FirstIn(memory_pages)),
         UNCHANGED <<n_user_pages, n_kernel_pages, n_processes>>
  PROVE  Rested' /\ (Provided({})' <=> Provided({}))
<1>1. Provided({})' <=> Provided({})
  BY DEF Provided, Equipped
<1>2. PICK x : x = FirstIn(memory_pages)
  OBVIOUS
<1>3. Packed(memory_pages') /\ FreeIn(memory_pages') = FreeIn(memory_pages) \ {x}
  BY <1>2, TakeFirst DEF Rested
<1> QED BY <1>1, <1>3, FreeIs DEF Rested

(* Where the call of p goes on. *)
LEMMA GotoCall ==
  ASSUME IInv, NEW p \in Procs, NEW site \in Sites, Goto(p, site)
  PROVE  /\ call' = [call EXCEPT ![p] = call'[p]]
         /\ call'[p].at = site /\ call'[p].found = NONE /\ call'[p].op = call[p].op
         /\ call'[p].fd = call[p].fd /\ call'[p].target = call[p].target /\ call'[p].i = call[p].i
BY GotoShape

LEMMA ReturnCall ==
  ASSUME IInv, NEW p \in Procs, Return(p)
  PROVE  /\ call' = [call EXCEPT ![p] = call'[p]]
         /\ call'[p].at = "user_mode" /\ call'[p].op = "none"
BY DEF Return, IInv, TypeOK, Idle

(* malloc *)
LEMMA MallocLayout ==
  ASSUME IInv, IInv', LInv, ~PREEMPTIVE, NEW p \in Procs, syscall_malloc(p)
  PROVE  LInv'
<1>1. TakePage(p, "malloc") /\ Return(p) /\ UNCHANGED <<n_user_pages, n_kernel_pages, n_processes, lost>>
  BY DEF syscall_malloc
<1>2. Stage(p) /\ Turn(p) /\ call[p].at = "malloc"
  BY <1>1, TakesFirst DEF LInv
<1>3. Rested'
  BY <1>1, <1>2, TakesFirst, RestedTake DEF Stage
<1>4. \A s \in Slots : s[2] = "user" => slot'[s] = slot[s]
  <2>1. \E k : slot' = [slot EXCEPT ![<<p, "heap", k>>] = call[p].found]
    BY DEF syscall_malloc
  <2> QED BY <2>1 DEF IInv, TypeOK
<1>5. p # 0
  BY <1>2, NotInit
<1> QED BY <1>1, <1>2, <1>3, <1>4, <1>5, ReturnCall, OwnLayout

(* open and exec take a page for the File. *)
LEMMA NewFileLayout ==
  ASSUME IInv, IInv', LInv, ~PREEMPTIVE, NEW p \in Procs, NewFile(p)
  PROVE  LInv'
<1> DEFINE x == call[p].found
<1>1. TakePage(p, "new") /\ Goto(p, "open") /\ UNCHANGED <<n_user_pages, n_kernel_pages, n_processes, lost>>
      /\ slot' = [slot EXCEPT ![<<p, "new", 0>>] = x]
  BY DEF NewFile
<1>2. Stage(p) /\ Turn(p) /\ call[p].at = "new" /\ Rested
  BY <1>1, TakesFirst DEF LInv, Stage
<1>3. Rested' /\ (Provided({})' <=> Provided({}))
  BY <1>1, <1>2, TakesFirst, RestedTake
<1>4. \A s \in Slots : s # <<p, "new", 0>> => slot'[s] = slot[s]
  BY <1>1 DEF IInv, TypeOK
<1>5. slot'[<<p, "new", 0>>] = x
  BY <1>1, SlotsOf DEF IInv, TypeOK
<1>6. /\ x = NULL => Free' = {}
      /\ x # NULL => Above(memory_pages', x) /\ Free # {}
  <2>1. memory_pages \in Memories /\ x = FirstIn(memory_pages) /\ memory_pages' = Marked(memory_pages, x)
    BY <1>1, TakesFirst
  <2>2. Packed(memory_pages)
    BY <1>2 DEF Rested
  <2> HIDE DEF x
  <2>3. /\ FreeIn(memory_pages') = FreeIn(memory_pages) \ {x}
        /\ x = NULL <=> FreeIn(memory_pages) = {}
        /\ x # NULL => Above(memory_pages', x)
    BY <2>1, <2>2, TakeFirst
  <2> QED BY <2>3, FreeIs
<1>7. x # NULL => Provided({})'
  BY <1>2, <1>3, <1>6 DEF Rested
<1>8. /\ call' = [call EXCEPT ![p] = call'[p]]
      /\ call'[p].at = "open" /\ call'[p].found = NONE /\ call'[p].op = call[p].op
  BY <1>1, GotoCall DEF Sites
<1>9. Stage(p)'
  BY <1>3, <1>5, <1>6, <1>7, <1>8 DEF Stage, InLoop, First
<1>10. p # 0 /\ call[p].op # "kthread"
  BY <1>2, NotInit
<1>11. \A s \in Slots : s[2] = "user" => slot'[s] = slot[s]
  BY <1>4
<1> QED BY <1>1, <1>2, <1>8, <1>9, <1>10, <1>11, OwnLayout

(* The file system opens the path; the program is read; a close fails. *)
LEMMA FileSystemLayout ==
  ASSUME IInv, IInv', LInv, ~PREEMPTIVE, NEW p \in Procs, FatOpen(p) \/ ExecRead(p) \/ FatCloseFails(p)
  PROVE  LInv'
<1>1. Stage(p) /\ Turn(p) /\ UNCHANGED <<memory_pages, slot, n_user_pages, n_kernel_pages, n_processes, lost>>
      /\ call[p].at \in {"open", "read", "release"} /\ CallAgrees(p)
  BY DEF LInv, IInv, Fine, FatOpen, ExecRead, FatCloseFails
<1>2. p # 0 /\ call[p].op # "kthread"
  BY <1>1, NotInit
<1>3. (Rested' <=> Rested) /\ (ExecHolds(p)' <=> ExecHolds(p)) /\ (Provided({})' <=> Provided({})) /\ Free' = Free
  <2>1. (Rested' <=> Rested) /\ (Provided({})' <=> Provided({})) /\ Free' = Free
    BY <1>1, RestedKept
  <2> QED BY <1>1, <2>1 DEF ExecHolds, Buffer
<1>4. CASE FatOpen(p)
  <2>1. call[p].at = "open" /\ Goto(p, "resource")
    BY <1>4 DEF FatOpen
  <2>2. /\ call' = [call EXCEPT ![p] = call'[p]]
        /\ call'[p].at = "resource" /\ call'[p].found = NONE /\ call'[p].op = call[p].op
    BY <2>1, GotoCall DEF Sites, AllocSites
  <2>3. Stage(p)'
    BY <1>1, <1>3, <2>1, <2>2 DEF Stage, InLoop, First
  <2> QED BY <1>1, <1>2, <2>2, <2>3, OwnLayout
<1>5. CASE ExecRead(p)
  <2>1. call[p].at = "read" /\ Goto(p, "release") /\ call[p].op = "exec"
    BY <1>1, <1>5 DEF ExecRead, CallAgrees
  <2>2. /\ call' = [call EXCEPT ![p] = call'[p]]
        /\ call'[p].at = "release" /\ call'[p].found = NONE /\ call'[p].op = call[p].op /\ call'[p].fd = call[p].fd
    BY <2>1, GotoCall DEF Sites
  <2>3. Stage(p)'
    BY <1>1, <1>3, <2>1, <2>2 DEF Stage, InLoop, First
  <2> QED BY <1>1, <1>2, <2>2, <2>3, OwnLayout
<1>6. CASE FatCloseFails(p)
  <2>1. call[p].at = "release" /\ AfterClose(p) /\ call[p].op \in {"close", "exec"}
    BY <1>1, <1>6 DEF FatCloseFails, CallAgrees
  <2>2. CASE call[p].op = "close"
    <3>1. Return(p) /\ Rested'
      BY <1>1, <1>3, <2>1, <2>2 DEF AfterClose, Stage
    <3> QED BY <1>1, <1>2, <3>1, ReturnCall, OwnLayout
  <2>3. CASE call[p].op = "exec"
    <3>1. Goto(p, "unmap")
      BY <2>1, <2>3 DEF AfterClose
    <3>2. /\ call' = [call EXCEPT ![p] = call'[p]]
          /\ call'[p].at = "unmap" /\ call'[p].found = NONE /\ call'[p].op = call[p].op
      BY <3>1, GotoCall DEF Sites
    <3>3. Stage(p)'
      BY <1>1, <1>3, <2>1, <2>3, <3>2 DEF Stage, InLoop, First
    <3> QED BY <1>1, <1>2, <3>2, <3>3, OwnLayout
  <2> QED BY <2>1, <2>2, <2>3
<1> QED BY <1>4, <1>5, <1>6

(* The file system refuses the path: the File was the last page in use. *)
LEMMA OpenFailsLayout ==
  ASSUME IInv, IInv', LInv, ~PREEMPTIVE, NEW p \in Procs, FatOpenFails(p)
  PROVE  LInv'
<1> DEFINE x == slot[<<p, "new", 0>>]
<1>1. Stage(p) /\ Turn(p) /\ call[p].at = "open" /\ UNCHANGED <<n_user_pages, n_kernel_pages, n_processes, lost>>
  BY DEF LInv, FatOpenFails
<1>2. p # 0 /\ call[p].op # "kthread"
  BY <1>1, NotInit
<1>3. CASE x = NULL
  <2>1. Goto(p, "wild") /\ UNCHANGED <<memory_pages, slot>>
    BY <1>3 DEF FatOpenFails
  <2>2. /\ call' = [call EXCEPT ![p] = call'[p]]
        /\ call'[p].at = "wild" /\ call'[p].found = NONE /\ call'[p].op = call[p].op
    BY <2>1, GotoCall DEF Sites
  <2>3. Stage(p)'
    BY <2>2 DEF Stage, InLoop, First
  <2> QED BY <1>1, <1>2, <2>1, <2>2, <2>3, OwnLayout
<1>4. CASE x # NULL
  <2>1. /\ memory_pages' = free_page(memory_pages, x) /\ Return(p)
        /\ slot' = [slot EXCEPT ![<<p, "new", 0>>] = NULL]
    BY <1>4 DEF FatOpenFails
  <2>2. x \in Pages /\ memory_pages \in Memories
    BY <1>4, SlotsOf DEF IInv, TypeOK, Memories
  <2>3. Packed(memory_pages) /\ Above(memory_pages, x) /\ Provided({})
    BY <1>1, <1>4 DEF Stage, Rested
  <2>4. Packed(memory_pages')
    <3> HIDE DEF x
    <3> QED BY <2>1, <2>2, <2>3, GiveBack
  <2>5. Rested'
    BY <1>1, <2>3, <2>4 DEF Rested, Provided, Equipped
  <2>6. \A s \in Slots : s[2] = "user" => slot'[s] = slot[s]
    BY <2>1 DEF IInv, TypeOK
  <2> QED BY <1>1, <1>2, <2>1, <2>5, <2>6, ReturnCall, OwnLayout
<1> QED BY <1>3, <1>4

(* The descriptor gets its resource. *)
LEMMA ResourceLayout ==
  ASSUME IInv, IInv', LInv, ~PREEMPTIVE, NEW p \in Procs, NewResource(p)
  PROVE  LInv'
<1> DEFINE x == call[p].found
           fd == call[p].fd
           file == slot[<<p, "new", 0>>]
<1>1. /\ TakePage(p, "resource")
      /\ slot' = [slot EXCEPT ![<<p, "new", 0>>] = NULL, ![<<p, "resource", fd>>] = x,
                              ![<<p, "file", fd>>] = IF x = NULL THEN NULL ELSE file]
      /\ UNCHANGED <<n_user_pages, n_kernel_pages, n_processes>>
  BY DEF NewResource
<1>2. Stage(p) /\ Turn(p) /\ call[p].at = "resource" /\ CallAgrees(p) /\ fd \in Fds
  BY <1>1, TakesFirst DEF LInv, IInv, Fine, TypeOK
<1>3. Rested'
  BY <1>1, <1>2, TakesFirst, RestedTake DEF Stage
<1>4. p # 0 /\ call[p].op # "kthread" /\ call[p].op \in {"open", "exec"}
  BY <1>2, NotInit DEF CallAgrees
<1>5. \A s \in Slots : s[2] = "user" => slot'[s] = slot[s]
  BY <1>1 DEF IInv, TypeOK
<1>6. CASE call[p].op = "open"
  <2>1. Return(p)
    BY <1>6 DEF NewResource
  <2> QED BY <1>1, <1>2, <1>3, <1>4, <1>5, <2>1, ReturnCall, OwnLayout
<1>7. CASE call[p].op = "exec"
  <2> DEFINE site == IF x = NULL THEN "wild" ELSE "buffer"
  <2>1. Goto(p, site)
    BY <1>7 DEF NewResource
  <2>2. site \in Sites
    BY DEF Sites, AllocSites
  <2>3. /\ call' = [call EXCEPT ![p] = call'[p]]
        /\ call'[p].at = site /\ call'[p].found = NONE /\ call'[p].op = call[p].op /\ call'[p].fd = fd
    <3> HIDE DEF site
    <3> QED BY <2>1, <2>2, GotoCall
  <2>4. x # NULL => slot'[<<p, "file", fd>>] # NULL
    <3>1. slot'[<<p, "file", fd>>] = IF x = NULL THEN NULL ELSE file
      BY <1>1, <1>2, SlotsOf DEF IInv, TypeOK
    <3>2. file = NULL => FreeIn(memory_pages) = {}
      BY <1>2, FreeIs DEF Stage
    <3>3. memory_pages \in Memories /\ x = FirstIn(memory_pages)
      BY <1>1, TakesFirst
    <3>4. x # NULL => FreeIn(memory_pages) # {}
      BY <3>3 DEF FirstIn
    <3> QED BY <3>1, <3>2, <3>4
  <2>5. Stage(p)'
    BY <1>3, <2>3, <2>4 DEF Stage, InLoop, First
  <2>6. call'[p].at \notin {"none", "user_mode", "zombie"}
    BY <2>3
  <2> QED BY <1>1, <1>2, <1>4, <1>5, <2>3, <2>5, <2>6, OwnLayout
<1> QED BY <1>4, <1>6, <1>7

(* exec takes its buffer: all pages above it are free. *)
LEMMA BufferLayout ==
  ASSUME IInv, IInv', LInv, ~PREEMPTIVE, NEW p \in Procs, ExecBuffer(p)
  PROVE  LInv'
<1> DEFINE x == call[p].found
<1>1. TakePage(p, "buffer") /\ Goto(p, "read") /\ UNCHANGED <<n_user_pages, n_kernel_pages, n_processes, lost>>
      /\ slot' = [slot EXCEPT ![<<p, "buffer", 0>>] = x]
  BY DEF ExecBuffer
<1>2. Stage(p) /\ Turn(p) /\ call[p].at = "buffer" /\ Rested /\ call[p].op = "exec" /\ call[p].fd \in Fds
  BY <1>1, TakesFirst DEF LInv, Stage, IInv, Fine, CallAgrees, TypeOK
<1>3. Rested' /\ (Provided({})' <=> Provided({}))
  BY <1>1, <1>2, TakesFirst, RestedTake
<1>4. \A s \in Slots : s # <<p, "buffer", 0>> => slot'[s] = slot[s]
  BY <1>1 DEF IInv, TypeOK
<1>5. slot'[<<p, "buffer", 0>>] = x
  BY <1>1, SlotsOf DEF IInv, TypeOK
<1>6. /\ x = NULL => Free' = {}
      /\ x # NULL => Above(memory_pages', x) /\ Free # {}
  <2>1. memory_pages \in Memories /\ x = FirstIn(memory_pages) /\ memory_pages' = Marked(memory_pages, x)
    BY <1>1, TakesFirst
  <2>2. Packed(memory_pages)
    BY <1>2 DEF Rested
  <2> HIDE DEF x
  <2>3. /\ FreeIn(memory_pages') = FreeIn(memory_pages) \ {x}
        /\ x = NULL <=> FreeIn(memory_pages) = {}
        /\ x # NULL => Above(memory_pages', x)
    BY <2>1, <2>2, TakeFirst
  <2> QED BY <2>3, FreeIs
<1>7. ExecHolds(p)' /\ Packed(memory_pages)'
  BY <1>2, <1>3, <1>5, <1>6 DEF Rested, ExecHolds, Buffer
<1>8. /\ call' = [call EXCEPT ![p] = call'[p]]
      /\ call'[p].at = "read" /\ call'[p].found = NONE /\ call'[p].op = call[p].op /\ call'[p].fd = call[p].fd
  BY <1>1, GotoCall DEF Sites
<1>9. slot'[<<p, "file", call[p].fd>>] # NULL
  <2>1. slot[<<p, "file", call[p].fd>>] # NULL
    BY <1>2 DEF Stage
  <2> QED BY <1>2, <1>4, <2>1, SlotsOf
<1>10. Stage(p)'
  BY <1>2, <1>7, <1>8, <1>9 DEF Stage, InLoop, First
<1>11. p # 0 /\ call[p].op # "kthread"
  BY <1>2, NotInit
<1>12. \A s \in Slots : s[2] = "user" => slot'[s] = slot[s]
  BY <1>4
<1> QED BY <1>1, <1>2, <1>8, <1>10, <1>11, <1>12, OwnLayout

(* close_file gives the File back, which leaves one hole, ... *)
LEMMA CloseLayout ==
  ASSUME IInv, IInv', LInv, ~PREEMPTIVE, NEW p \in Procs, FatClose(p)
  PROVE  LInv'
<1> DEFINE a == <<p, "file", call[p].fd>>
           x == slot[a]
<1>1. /\ Turn(p) /\ call[p].at = "release" /\ memory_pages' = free_page(memory_pages, x)
      /\ slot' = [slot EXCEPT ![a] = NULL] /\ Goto(p, "close")
      /\ UNCHANGED <<n_user_pages, n_kernel_pages, n_processes, lost>>
  BY DEF FatClose
<1>2. Stage(p) /\ CallAgrees(p) /\ a \in Slots /\ x \in Pages \cup {NULL} /\ memory_pages \in Memories
  BY SlotsOf DEF LInv, IInv, Fine, TypeOK, Memories
<1>3. call[p].op \in {"close", "exec"} /\ p # 0 /\ Packed(memory_pages)
  BY <1>1, <1>2, NotInit DEF CallAgrees, Stage, Rested
<1>4. /\ call' = [call EXCEPT ![p] = call'[p]]
      /\ call'[p].at = "close" /\ call'[p].found = NONE /\ call'[p].op = call[p].op
  BY <1>1, GotoCall DEF Sites, AllocSites
<1>5. \A s \in Slots : s # a => slot'[s] = slot[s]
  BY <1>1 DEF IInv, TypeOK
<1>6. Buffer(p)' = Buffer(p) /\ (Provided({})' <=> Provided({}))
  BY <1>1, <1>5, SlotsOf DEF Buffer, Provided, Equipped
<1>7. /\ PackedAfterNext(memory_pages')
      /\ FreeIn(memory_pages) = {} => Single(memory_pages')
      /\ \A b \in Pages : Above(memory_pages, b) => Above(memory_pages', b)
      /\ x # NULL => x \in FreeIn(memory_pages')
  <2> HIDE DEF x
  <2>1. CASE x = NULL
    <3>1. memory_pages' = memory_pages
      BY <1>1, <1>2, <2>1, GiveBackNull
    <3> QED BY <1>3, <2>1, <3>1, NullIsNoPage DEF PackedAfterNext, Packed, FreeIn, Single
  <2>2. CASE x # NULL
    BY <1>1, <1>2, <1>3, <2>2, GiveBack
  <2> QED BY <2>1, <2>2
<1>8. CASE call[p].op = "close"
  <2>1. Rested
    BY <1>1, <1>2, <1>8 DEF Stage
  <2>2. Provided({})' \/ Single(memory_pages')
    BY <1>6, <1>7, <2>1, FreeIs DEF Rested
  <2>3. Stage(p)'
    BY <1>4, <1>7, <1>8, <2>2 DEF Stage, InLoop, First
  <2>4. \A s \in Slots : s[2] = "user" => slot'[s] = slot[s]
    BY <1>5
  <2> QED BY <1>1, <1>3, <1>4, <1>8, <2>3, <2>4, OwnLayout
<1>9. CASE call[p].op = "exec"
  <2>1. ExecHolds(p) /\ x # NULL
    BY <1>1, <1>2, <1>9 DEF Stage
  <2>2. ExecCloses(p)'
    <3>1. CASE Buffer(p) = NULL
      BY <1>6, <1>7, <2>1, <3>1, FreeIs DEF ExecHolds, ExecCloses
    <3>2. CASE Buffer(p) # NULL
      <4> DEFINE b == Buffer(p)
      <4>1. b \in Pages /\ <<p, "buffer", 0>> \in Slots /\ <<p, "buffer", 0>> # a
        BY <3>2, SlotsOf DEF IInv, TypeOK, Buffer
      <4>2. b # x /\ memory_pages[x] = 1
        BY <1>2, <2>1, <3>2, <4>1 DEF IInv, Sound, Buffer
      <4>3. Above(memory_pages, b) /\ Provided({})
        BY <2>1, <3>2 DEF ExecHolds
      <4> HIDE DEF b, x
      <4>4. x < b
        BY <1>2, <2>1, <4>1, <4>2, <4>3, NullIsNoPage DEF Above
      <4>5. x \in Gap(memory_pages', b)
        BY <1>7, <2>1, <4>4 DEF Gap
      <4>6. Above(memory_pages', b)
        BY <1>7, <4>1, <4>3
      <4> USE DEF b
      <4> QED BY <1>6, <3>2, <4>3, <4>5, <4>6 DEF ExecCloses
    <3> QED BY <3>1, <3>2
  <2>3. Stage(p)'
    BY <1>4, <1>7, <1>9, <2>2 DEF Stage, InLoop, First
  <2>4. \A s \in Slots : s[2] = "user" => slot'[s] = slot[s]
    BY <1>5
  <2> QED BY <1>1, <1>3, <1>4, <1>9, <2>3, <2>4, OwnLayout
<1> QED BY <1>3, <1>8, <1>9

(* ... and takes a fresh resource, which fills it. *)
LEMMA CloseFileLayout ==
  ASSUME IInv, IInv', LInv, ~PREEMPTIVE, NEW p \in Procs, syscall_close_file(p)
  PROVE  LInv'
<1> DEFINE a == <<p, "resource", call[p].fd>>
           x == call[p].found
<1>1. /\ TakePage(p, "close") /\ slot' = [slot EXCEPT ![a] = x] /\ AfterClose(p)
      /\ UNCHANGED <<n_user_pages, n_kernel_pages, n_processes>>
  BY DEF syscall_close_file
<1>2. /\ Stage(p) /\ CallAgrees(p) /\ Turn(p) /\ call[p].at = "close"
      /\ memory_pages \in Memories /\ x = FirstIn(memory_pages) /\ memory_pages' = Marked(memory_pages, x)
  BY <1>1, TakesFirst DEF LInv, IInv, Fine
<1>3. call[p].op \in {"close", "exec"} /\ p # 0 /\ PackedAfterNext(memory_pages)
  BY <1>2, NotInit DEF CallAgrees, Stage
<1>4. \A s \in Slots : s # a => slot'[s] = slot[s]
  BY <1>1 DEF IInv, TypeOK
<1>5. Buffer(p)' = Buffer(p) /\ (Provided({})' <=> Provided({}))
  BY <1>1, <1>4, SlotsOf DEF Buffer, Provided, Equipped
<1>6. Packed(memory_pages') /\ (Single(memory_pages) => Free' = {})
  <2> HIDE DEF x
  <2>1. Packed(memory_pages') /\ (Single(memory_pages) => FreeIn(memory_pages') = {})
    BY <1>2, <1>3, TakeFirst
  <2> QED BY <2>1, FreeIs
<1>7. \A s \in Slots : s[2] = "user" => slot'[s] = slot[s]
  BY <1>4
<1>8. CASE call[p].op = "close"
  <2>1. Rested'
    BY <1>2, <1>5, <1>6, <1>8 DEF Stage, Rested
  <2>2. Return(p)
    BY <1>1, <1>8 DEF AfterClose
  <2> QED BY <1>1, <1>2, <1>3, <1>7, <2>1, <2>2, ReturnCall, OwnLayout
<1>9. CASE call[p].op = "exec"
  <2>1. ExecCloses(p)
    BY <1>2, <1>9 DEF Stage
  <2>2. Goto(p, "unmap")
    BY <1>1, <1>9 DEF AfterClose
  <2>3. /\ call' = [call EXCEPT ![p] = call'[p]]
        /\ call'[p].at = "unmap" /\ call'[p].found = NONE /\ call'[p].op = call[p].op
    BY <2>2, GotoCall DEF Sites
  <2>4. ExecHolds(p)'
    <3>1. CASE Buffer(p) = NULL
      BY <1>5, <1>6, <2>1, <3>1 DEF ExecCloses, ExecHolds
    <3>2. CASE Buffer(p) # NULL
      <4>1. PICK b \in Pages : b = Buffer(p)
        BY <3>2, SlotsOf DEF IInv, TypeOK, Buffer
      <4>2. Above(memory_pages, b) /\ Gap(memory_pages, b) # {} /\ Provided({})
        BY <2>1, <3>2, <4>1 DEF ExecCloses
      <4>3. Above(memory_pages', b)
        <5> HIDE DEF x
        <5> QED BY <1>2, <4>2, TakeFromGap
      <4> QED BY <1>5, <3>2, <4>1, <4>2, <4>3 DEF ExecHolds
    <3> QED BY <3>1, <3>2
  <2>5. Stage(p)'
    BY <1>6, <1>9, <2>3, <2>4 DEF Stage, InLoop, First
  <2> QED BY <1>1, <1>2, <1>3, <1>7, <1>9, <2>3, <2>5, OwnLayout
<1> QED BY <1>3, <1>8, <1>9

(* exec gives up because the program is too large. *)
LEMMA TooLargeLayout ==
  ASSUME IInv, IInv', LInv, ~PREEMPTIVE, NEW p \in Procs, ExecTooLarge(p)
  PROVE  LInv'
<1>1. /\ Turn(p) /\ call[p].at = "unmap" /\ Return(p) /\ slot' = [slot EXCEPT ![<<p, "buffer", 0>>] = NULL]
      /\ UNCHANGED <<memory_pages, n_user_pages, n_kernel_pages, n_processes>>
  BY DEF ExecTooLarge, DropBuffer
<1>2. Stage(p) /\ CallAgrees(p) /\ p # 0
  BY <1>1, NotInit DEF LInv, IInv, Fine
<1>3. Rested
  BY <1>1, <1>2 DEF Stage, CallAgrees, ExecHolds, Rested
<1>4. Rested'
  BY <1>1, <1>3, RestedKept
<1>5. \A s \in Slots : s[2] = "user" => slot'[s] = slot[s]
  BY <1>1 DEF IInv, TypeOK
<1> QED BY <1>1, <1>2, <1>4, <1>5, ReturnCall, OwnLayout

(* The pages a process has mapped are as many as it counts. *)
LEMMA MappedPages ==
  ASSUME IInv, LInv, NEW p \in Procs, NEW old, old = {slot[u] : u \in UserSlots(p)}
  PROVE  IsFiniteSet(old) /\ Cardinality(old) = n_user_pages[p] /\ \A x \in old : x \in Pages /\ memory_pages[x] = 1
<1> DEFINE n == n_user_pages[p]
           f == [k \in 1 .. n |-> slot[<<p, "user", k>>]]
<1>1. n \in 0 .. MAX_PROCESS_PAGES /\ n \in Nat
  BY Sizes DEF IInv, TypeOK
<1>2. ASSUME NEW k \in 1 .. n PROVE <<p, "user", k>> \in Slots
  <2>1. k \in 1 .. MAX_PROCESS_PAGES
    BY <1>1, Sizes
  <2> QED BY <2>1, SlotsOf
<1>3. ASSUME NEW k \in 1 .. n PROVE f[k] \in Pages /\ memory_pages[f[k]] = 1
  <2>1. f[k] # NULL /\ f[k] \in Pages \cup {NULL}
    BY <1>2 DEF LInv, Mapped, IInv, TypeOK
  <2>2. memory_pages[slot[<<p, "user", k>>]] = 1
    BY <1>2, <2>1 DEF IInv, Sound
  <2> QED BY <2>1, <2>2
<1>4. ASSUME NEW k \in 1 .. n, NEW l \in 1 .. n, f[k] = f[l] PROVE k = l
  <2>1. f[k] # NULL
    BY <1>3, NullIsNoPage
  <2>2. <<p, "user", k>> = <<p, "user", l>>
    BY <1>2, <1>4, <2>1 DEF IInv, Sound
  <2> QED BY <2>2
<1>5. old = {f[k] : k \in 1 .. n}
  BY DEF UserSlots
<1>6. f \in Bijection(1 .. n, old)
  <2>1. f \in [1 .. n -> old]
    BY <1>5
  <2>2. \A k, l \in 1 .. n : f[k] = f[l] => k = l
    BY <1>4
  <2>3. \A x \in old : \E k \in 1 .. n : f[k] = x
    BY <1>5
  <2> HIDE DEF f, n
  <2> QED BY <2>1, <2>2, <2>3 DEF Bijection, Injection, Surjection, IsInjective
<1> HIDE DEF f
<1>7. IsFiniteSet(1 .. n) /\ Cardinality(1 .. n) = n
  <2> HIDE DEF n
  <2> QED BY <1>1, FS_Interval
<1>8. IsFiniteSet(old) /\ Cardinality(old) = n
  <2> HIDE DEF n
  <2>1. ExistsBijection(1 .. n, old)
    BY <1>6 DEF ExistsBijection
  <2> QED BY <1>7, <2>1, FS_Bijection
<1> QED BY <1>3, <1>5, <1>8

(* Users are the processes 1 .. n_processes - 1. *)
LEMMA UserPid ==
  ASSUME IInv, NEW p \in Procs, p # 0, call[p].at # "none"
  PROVE  p \in 1 .. n_processes - 1
<1>1. Unborn(p) /\ n_processes \in 1 .. N_PROCESSES
  BY DEF IInv, TypeOK
<1> QED BY <1>1, Sizes DEF Unborn, Procs

LEMMA FreeFinite ==
  ASSUME NEW m, NEW T \in SUBSET FreeIn(m)
  PROVE  IsFiniteSet(T) /\ Cardinality(T) \in Nat /\ (Cardinality(T) = 0 <=> T = {})
<1>1. IsFiniteSet(Pages)
  BY Sizes, FS_Interval DEF Pages
<1>2. T \in SUBSET Pages
  BY DEF FreeIn
<1> QED BY <1>1, <1>2, FS_Subset, FS_CardinalityType, FS_EmptySet

(* A step of p that maps pages. *)
LEMMA MappingLayout ==
  ASSUME IInv, IInv', LInv, ~PREEMPTIVE, NEW p \in Procs, Turn(p), p # 0,
         NEW c, call' = [call EXCEPT ![p] = c], c.op # "kthread", Mapped',
         c.at \notin {"none", "user_mode", "zombie"} => Stage(p)',
         c.at \in {"none", "user_mode", "zombie"} => Rested'
  PROVE  LInv'
<1>1. call'[p] = c /\ \A q \in Procs \ {p} : call'[q] = call[q]
  BY DEF IInv, TypeOK
<1>2. \A q \in Procs \ {p} : ~InKernel(q)'
  BY <1>1, Alone DEF InKernel
<1>3. Booting'
  BY BootKept
<1>4. (InKernel(p)' => Stage(p)') /\ (~InKernel(p)' => Rested')
  BY <1>1 DEF InKernel
<1> QED BY <1>2, <1>3, <1>4, Assemble

(* exec gives up the memory of the process: as many pages below the buffer
   are free as it will need, if it has one. *)
LEMMA UnmapLayout ==
  ASSUME IInv, IInv', LInv, ~PREEMPTIVE, NEW p \in Procs, ExecUnmap(p)
  PROVE  LInv'
<1>0. PICK old : old = {slot[u] : u \in UserSlots(p)}
  OBVIOUS
<1>1. /\ Turn(p) /\ call[p].at = "unmap" /\ Goto(p, "user")
      /\ memory_pages' = [i \in Pages |-> IF i \in old THEN 0 ELSE memory_pages[i]]
      /\ slot' = [u \in Slots |-> IF u \in UserSlots(p) THEN NULL ELSE slot[u]]
      /\ n_user_pages' = [n_user_pages EXCEPT ![p] = 0]
      /\ UNCHANGED <<n_kernel_pages, n_processes>>
  BY <1>0 DEF ExecUnmap
<1>2. Stage(p) /\ CallAgrees(p) /\ p # 0
  BY <1>1, NotInit DEF LInv, IInv, Fine
<1>3. call[p].op = "exec" /\ call[p].i = 1 /\ Packed(memory_pages) /\ ExecHolds(p)
  BY <1>1, <1>2 DEF CallAgrees, Stage
<1>4. /\ call' = [call EXCEPT ![p] = call'[p]]
      /\ call'[p].at = "user" /\ call'[p].found = NONE /\ call'[p].op = "exec" /\ call'[p].i = 1
  BY <1>1, <1>3, GotoCall DEF Sites, AllocSites
<1>5. /\ n_user_pages'[p] = 0 /\ \A q \in Procs \ {p} : n_user_pages'[q] = n_user_pages[q]
      /\ n_user_pages \in [Procs -> 0 .. MAX_PROCESS_PAGES] /\ n_user_pages[p] <= CODE_PAGES
  BY <1>1 DEF IInv, TypeOK, LInv, Mapped
<1>6. IsFiniteSet(old) /\ Cardinality(old) = n_user_pages[p] /\ \A x \in old : x \in Pages /\ memory_pages[x] = 1
  BY <1>0, MappedPages
<1>7. FreeIn(memory_pages') = FreeIn(memory_pages) \cup old
  BY <1>1, <1>6 DEF FreeIn
<1>8. Buffer(p)' = Buffer(p)
  <2>1. <<p, "buffer", 0>> \in Slots /\ <<p, "buffer", 0>> \notin UserSlots(p)
    BY SlotsOf DEF UserSlots
  <2> QED BY <1>1, <2>1 DEF Buffer
<1>9. ExecReplaces(p)'
  <2>1. CASE Buffer(p) = NULL
    <3>1. Free' = old
      BY <1>3, <1>7, <2>1, FreeIs DEF ExecHolds
    <3> QED BY <1>4, <1>5, <1>6, <1>8, <2>1, <3>1, Sizes DEF ExecReplaces
  <2>2. CASE Buffer(p) # NULL
    <3>1. PICK b \in Pages : b = Buffer(p)
      BY <2>2, SlotsOf DEF IInv, TypeOK, Buffer
    <3>2. Above(memory_pages, b) /\ Provided({}) /\ memory_pages[b] = 1
      BY <1>3, <2>2, <3>1, SlotsOf DEF ExecHolds, IInv, Sound, Buffer
    <3>3. Equipped(p)
      BY <1>1, <1>2, <3>2, UserPid DEF Provided
    <3>4. Above(memory_pages', b)
      BY <1>1, <3>2 DEF Above
    <3>5. b \notin old
      <4>1. \A u \in UserSlots(p) : u \in Slots /\ u # <<p, "buffer", 0>>
        <5>1. ASSUME NEW k \in 1 .. n_user_pages[p] PROVE <<p, "user", k>> \in Slots
          <6>1. k \in 1 .. MAX_PROCESS_PAGES
            BY <1>5, Sizes
          <6> QED BY <6>1, SlotsOf
        <5> QED BY <5>1 DEF UserSlots
      <4>2. <<p, "buffer", 0>> \in Slots
        BY SlotsOf
      <4> QED BY <1>0, <2>2, <3>1, <4>1, <4>2 DEF IInv, Sound, Buffer
    <3>6. Gap(memory_pages', b) = old
      <4>1. ASSUME NEW x \in old PROVE x \in Gap(memory_pages', b)
        <5>1. x \in Pages /\ memory_pages[x] = 1 /\ x # b /\ x \in FreeIn(memory_pages')
          BY <1>6, <1>7, <3>5
        <5>2. x < b
          BY <3>2, <5>1, NullIsNoPage DEF Above
        <5> QED BY <5>1, <5>2 DEF Gap
      <4>2. ASSUME NEW x \in Gap(memory_pages', b) PROVE x \in old
        <5>1. x < b /\ (x \in old \/ x \in FreeIn(memory_pages))
          BY <1>7 DEF Gap
        <5>2. x \notin FreeIn(memory_pages)
          BY <1>3, <3>2, <5>1 DEF Packed, FreeIn
        <5> QED BY <5>1, <5>2
      <4> QED BY <4>1, <4>2
    <3>7. Provided({p})'
      <4> SUFFICES ASSUME NEW q \in 1 .. n_processes - 1, q # p PROVE Equipped(q)'
        BY <1>1 DEF Provided
      <4>1. q \in Procs \ {p}
        BY Sizes DEF IInv, TypeOK, Procs
      <4>2. Equipped(q)
        BY <3>2 DEF Provided
      <4> QED BY <1>1, <1>5, <4>1, <4>2 DEF Equipped
    <3>8. n_user_pages'[p] = 1 - 1 /\ n_kernel_pages'[p] >= LEVELS /\ Cardinality(old) = CODE_PAGES - 1 + 1
      BY <1>1, <1>5, <1>6, <3>3, Sizes DEF Equipped
    <3>9. Cardinality(Gap(memory_pages', b)) = CODE_PAGES - call'[p].i + 1 /\ n_user_pages'[p] = call'[p].i - 1
      BY <1>4, <3>6, <3>8
    <3> QED BY <1>4, <1>8, <2>2, <3>1, <3>4, <3>7, <3>8, <3>9 DEF ExecReplaces
  <2> QED BY <2>1, <2>2
<1>10. Stage(p)'
  BY <1>4, <1>9 DEF Stage, InLoop, First
<1>11. Mapped'
  <2> SUFFICES ASSUME NEW q \in Procs
               PROVE  n_user_pages'[q] <= CODE_PAGES /\ \A k \in 1 .. n_user_pages'[q] : slot'[<<q, "user", k>>] # NULL
    BY DEF Mapped
  <2>1. CASE q = p
    BY <1>5, <2>1, Sizes
  <2>2. CASE q # p
    <3>1. n_user_pages'[q] = n_user_pages[q] /\ n_user_pages[q] \in 0 .. MAX_PROCESS_PAGES
      BY <1>5, <2>2
    <3>2. ASSUME NEW k \in 1 .. n_user_pages[q] PROVE slot'[<<q, "user", k>>] # NULL
      <4>1. k \in 1 .. MAX_PROCESS_PAGES
        BY <3>1, Sizes
      <4>2. <<q, "user", k>> \in Slots /\ <<q, "user", k>> \notin UserSlots(p)
        BY <2>2, <4>1, SlotsOf DEF UserSlots
      <4>3. slot[<<q, "user", k>>] # NULL
        BY DEF LInv, Mapped
      <4> QED BY <1>1, <4>2, <4>3
    <3> QED BY <3>1, <3>2 DEF LInv, Mapped
  <2> QED BY <2>1, <2>2
<1> QED BY <1>1, <1>2, <1>4, <1>10, <1>11, MappingLayout

(* A fork that finds no page, or no entry in processes[]. *)
LEMMA PcbFailsLayout ==
  ASSUME IInv, IInv', LInv, ~PREEMPTIVE, NEW p \in Procs, NewPcbFails(p)
  PROVE  LInv'
<1>1. TakePage(p, "pcb") /\ Return(p) /\ UNCHANGED <<slot, n_user_pages, n_kernel_pages, n_processes>>
      /\ (call[p].found = NULL \/ n_processes >= N_PROCESSES)
  BY DEF NewPcbFails
<1>2. /\ Stage(p) /\ CallAgrees(p) /\ Turn(p) /\ call[p].at = "pcb"
      /\ memory_pages \in Memories /\ call[p].found = FirstIn(memory_pages)
      /\ memory_pages' = Marked(memory_pages, call[p].found)
  BY <1>1, TakesFirst DEF LInv, IInv, Fine
<1>3. call[p].op # "kthread"
  <2> SUFFICES ASSUME call[p].op = "kthread" PROVE FALSE
    OBVIOUS
  <2>1. n_processes = 1 /\ Free = Pages
    BY DEF LInv, Booting
  <2>2. 1 \in Pages
    BY MemoryAssumption DEF Pages
  <2>3. FreeIn(memory_pages) # {}
    BY <2>1, <2>2, FreeIs
  <2>4. FirstIn(memory_pages) # NULL
    BY <1>2, <2>3, FirstIsLeast
  <2> QED BY <1>1, <1>2, <2>1, <2>4, Sizes
<1>4. call[p].op = "fork" /\ p # 0
  BY <1>2, <1>3 DEF CallAgrees, LInv, Booting
<1>5. Rested'
  BY <1>1, <1>2, <1>4, RestedTake DEF Stage
<1> QED BY <1>1, <1>2, <1>4, <1>5, ReturnCall, OwnLayout

(* copy_process has the page of the PCB. *)
LEMMA PcbLayout ==
  ASSUME IInv, IInv', LInv, ~PREEMPTIVE, NEW p \in Procs, NewPcb(p)
  PROVE  LInv'
<1>0. PICK t \in Procs : t = call[p].target
  BY DEF IInv, TypeOK
<1>1. /\ TakePage(p, "pcb") /\ n_processes < N_PROCESSES /\ call[p].found # NULL
      /\ slot' = [slot EXCEPT ![<<t, "pcb", 0>>] = call[p].found]
      /\ UNCHANGED <<n_user_pages, n_kernel_pages, lost>>
  BY <1>0 DEF NewPcb
<1>2. /\ Stage(p) /\ CallAgrees(p) /\ Turn(p) /\ call[p].at = "pcb" /\ call \in [Procs -> CallType]
      /\ memory_pages \in Memories /\ call[p].found = FirstIn(memory_pages)
      /\ memory_pages' = Marked(memory_pages, call[p].found)
  BY <1>1, TakesFirst DEF LInv, IInv, Fine, TypeOK, CallType
<1>3. \A s \in Slots : s[2] = "user" => slot'[s] = slot[s]
  BY <1>1 DEF IInv, TypeOK
<1>4. t = n_processes /\ t # p
  BY <1>0, <1>1, <1>2, ForkTarget
<1>5. Free # {}
  <2>1. FreeIn(memory_pages) # {}
    BY <1>1, <1>2 DEF FirstIn
  <2> QED BY <2>1, FreeIs
<1>6. CASE call[p].op = "kthread"
  <2>1. p = 0 /\ n_processes = 1 /\ Free = Pages /\ t = 1
    BY <1>4, <1>6 DEF LInv, Booting
  <2>2. AddProcess(p)
    BY <1>6 DEF NewPcb
  <2> DEFINE d == [Idle EXCEPT !.at = "none"]
             c == [Idle EXCEPT !.op = "boot", !.at = "user", !.target = t]
  <2>3. /\ d.at = "none" /\ d.op = "none"
        /\ c.op = "boot" /\ c.at = "user" /\ c.target = t /\ c.i = 1 /\ c.found = NONE
    BY DEF Idle
  <2>4. call' = [call EXCEPT ![p] = d, ![t] = c] /\ n_processes' = 2
    BY <1>0, <1>6, <2>1, <2>2 DEF AddProcess
  <2> HIDE DEF c, d
  <2>5. call'[t] = c /\ call'[p] = d /\ \A q \in Procs \ {p, t} : call'[q] = call[q]
    BY <1>2, <1>4, <2>4
  <2>6. n_user_pages[t] = 0
    <3>1. ASSUME NEW r \in Procs, Creating(r) PROVE FALSE
      <4>1. r # p /\ InKernel(r)
        BY <1>2, <3>1 DEF Creating, InKernel
      <4> QED BY <1>2, <4>1, Alone
    <3>2. Unborn(t)
      BY DEF IInv
    <3> QED BY <1>4, <2>1, <3>1, <3>2 DEF Unborn
  <2>7. Packed(memory_pages')
    <3>1. Packed(memory_pages)
      BY <2>1 DEF Packed, Free
    <3> QED BY <1>2, <3>1, TakeFirst
  <2>8. Stage(t)'
    <3>1. /\ call'[t].op = "boot" /\ call'[t].at = "user" /\ call'[t].found = NONE
          /\ n_processes' = 2 /\ t = 1 /\ ~(call'[t].i > 1)
      BY <2>1, <2>3, <2>4, <2>5
    <3>2. n_user_pages'[t] = call'[t].i - 1
      BY <1>1, <2>3, <2>5, <2>6
    <3>3. HasTables(t)' /\ First(t)'
      BY <3>1 DEF HasTables, First
    <3> QED BY <2>7, <3>1, <3>2, <3>3 DEF Stage, InLoop
  <2>9. InKernel(t)' /\ \A q \in Procs \ {t} : ~InKernel(q)'
    BY <1>2, <2>3, <2>5, Alone DEF InKernel
  <2>10. Mapped'
    BY <1>1, <1>3, MappedKept
  <2>11. Booting'
    BY <2>1, <2>3, <2>5 DEF LInv, Booting
  <2> QED BY <2>8, <2>9, <2>10, <2>11, Assemble
<1>7. CASE call[p].op # "kthread"
  <2>1. call[p].op = "fork" /\ p # 0 /\ call[p].i = 1 /\ Rested
    BY <1>2, <1>7 DEF CallAgrees, LInv, Booting, Stage
  <2>2. n_user_pages[p] > 0
    <3>1. Equipped(p)
      BY <1>2, <1>5, <2>1, UserPid DEF Rested, Provided
    <3> QED BY <3>1, Sizes DEF Equipped
  <2>3. Goto(p, "user") /\ n_processes' = n_processes
    BY <2>1, <2>2 DEF NewPcb
  <2>4. /\ call' = [call EXCEPT ![p] = call'[p]]
        /\ call'[p].at = "user" /\ call'[p].found = NONE /\ call'[p].op = "fork" /\ call'[p].i = 1
    BY <2>1, <2>3, GotoCall DEF Sites, AllocSites
  <2>5. Rested'
    BY <1>1, <1>2, <2>1, <2>3, RestedTake
  <2>6. Stage(p)'
    BY <2>4, <2>5 DEF Stage, InLoop, HasTables, First
  <2> QED BY <1>1, <1>2, <1>3, <2>1, <2>4, <2>6, OwnLayout
<1> QED BY <1>6, <1>7

(* What has to hold when the loop has dealt with its page. *)
TurnDone(p, t) ==
  /\ call[p].op = "exec" =>
       IF Buffer(p) = NULL
       THEN Cardinality(Free') <= CODE_PAGES - call[p].i
       ELSE /\ Above(memory_pages', Buffer(p)) /\ Provided({p})
            /\ n_user_pages'[p] = call[p].i /\ n_kernel_pages'[p] >= LEVELS
            /\ Cardinality(Gap(memory_pages', Buffer(p))) = CODE_PAGES - call[p].i
  /\ call[p].op = "boot" =>
       /\ Packed(memory_pages') /\ n_processes = 2 /\ p = 1
       /\ Free' = {} \/ (n_user_pages'[p] = call[p].i /\ n_kernel_pages'[p] >= LEVELS)
  /\ call[p].op = "fork" =>
       /\ Packed(memory_pages') /\ Provided({})
       /\ n_user_pages'[t] = call[p].i /\ n_kernel_pages'[t] >= LEVELS

LEMMA AdvanceLayout ==
  ASSUME IInv, IInv', LInv, ~PREEMPTIVE, NEW p \in Procs, Turn(p), InLoop(p),
         NEW t \in Procs, t = call[p].target, NEW s, Advance(p, s),
         s[<<p, "buffer", 0>>] = slot[<<p, "buffer", 0>>],
         \A q \in Procs \ {t} : n_user_pages'[q] = n_user_pages[q] /\ n_kernel_pages'[q] = n_kernel_pages[q],
         Mapped', TurnDone(p, t)
  PROVE  LInv'
<1>1. /\ CallAgrees(p) /\ LoopBounded(p) /\ TargetIsNext(p) /\ call[p] \in CallType /\ call \in [Procs -> CallType]
      /\ Stage(p) /\ p # 0 /\ n_processes \in 1 .. N_PROCESSES
  BY NotInit DEF IInv, Fine, TypeOK, CallType, LInv, InLoop
<1>2. call[p].op \in {"fork", "exec", "boot"} /\ p \in 1 .. n_processes - 1 /\ call[p].i \in Nat
  BY <1>1, UserPid DEF CallAgrees, InLoop, CallType
<1>3. /\ call[p].op = "fork" => t = n_processes /\ t # p
      /\ call[p].op # "fork" => t = p
  BY <1>1, <1>2, Sizes DEF CallAgrees, TargetIsNext, Creating, InLoop, Procs
<1>4. ASSUME NEW X, Provided(X), \A q \in 1 .. n_processes - 1 : q = t => q \in X
      PROVE  \A q \in 1 .. n_processes - 1 : q \notin X => Equipped(q)'
  <2> SUFFICES ASSUME NEW q \in 1 .. n_processes - 1, q \notin X PROVE Equipped(q)'
    OBVIOUS
  <2>1. q \in Procs \ {t} /\ Equipped(q)
    BY <1>1, <1>4, Sizes DEF Provided, Procs
  <2> QED BY <2>1 DEF Equipped
<1>5. CASE ~LastPage(p)
  <2>1. /\ slot' = s /\ n_processes' = n_processes
        /\ call' = [call EXCEPT ![p].at = "user", ![p].found = NONE, ![p].i = @ + 1]
    BY <1>5 DEF Advance
  <2> DEFINE c == [call[p] EXCEPT !.at = "user", !.found = NONE, !.i = @ + 1]
  <2>2. call' = [call EXCEPT ![p] = c]
    BY <1>1, <2>1 DEF CallType
  <2>3. c.at = "user" /\ c.found = NONE /\ c.i = call[p].i + 1 /\ c.op = call[p].op /\ c.target = t
    BY <1>1 DEF CallType
  <2> HIDE DEF c
  <2>4. call'[p] = c /\ Buffer(p)' = Buffer(p)
    BY <1>1, <2>1, <2>2 DEF Buffer
  <2>5. CASE call[p].op = "exec"
    <3>1. ExecReplaces(p)'
      <4>1. CASE Buffer(p) = NULL
        <5>1. Cardinality(Free') <= CODE_PAGES - call[p].i
          BY <2>5, <4>1 DEF TurnDone
        <5>2. CODE_PAGES - call'[p].i + 1 = CODE_PAGES - call[p].i
          BY <1>2, <2>3, <2>4, Sizes
        <5> QED BY <2>3, <2>4, <4>1, <5>1, <5>2 DEF ExecReplaces
      <4>2. CASE Buffer(p) # NULL
        <5>1. /\ Above(memory_pages', Buffer(p)) /\ Provided({p})
              /\ n_user_pages'[p] = call[p].i /\ n_kernel_pages'[p] >= LEVELS
              /\ Cardinality(Gap(memory_pages', Buffer(p))) = CODE_PAGES - call[p].i
          BY <2>5, <4>2 DEF TurnDone
        <5>2. CODE_PAGES - call'[p].i + 1 = CODE_PAGES - call[p].i /\ call'[p].i - 1 = call[p].i
          BY <1>2, <2>3, <2>4, Sizes
        <5>3. Provided({p})'
          BY <1>3, <1>4, <2>1, <2>5, <5>1 DEF Provided
        <5> QED BY <2>3, <2>4, <4>2, <5>1, <5>2, <5>3 DEF ExecReplaces
      <4> QED BY <4>1, <4>2
    <3>2. Stage(p)'
      BY <2>3, <2>4, <2>5, <3>1 DEF Stage, InLoop, First
    <3> QED BY <1>1, <2>2, <2>3, <2>5, <3>2, MappingLayout
  <2>6. CASE call[p].op = "boot"
    <3>1. /\ Packed(memory_pages') /\ n_processes' = 2 /\ p = 1
          /\ Free' = {} \/ (n_user_pages'[p] = call'[p].i - 1 /\ HasTables(p)')
      BY <1>2, <1>3, <2>1, <2>3, <2>4, <2>6 DEF TurnDone, HasTables
    <3>2. Stage(p)'
      BY <2>3, <2>4, <2>6, <3>1 DEF Stage, InLoop, First
    <3> QED BY <1>1, <2>2, <2>3, <2>6, <3>2, MappingLayout
  <2>7. CASE call[p].op = "fork"
    <3>1. Packed(memory_pages') /\ Provided({}) /\ HasTables(p)'
      BY <2>3, <2>4, <2>7 DEF TurnDone, HasTables
    <3>2. Provided({})'
      <4>1. \A q \in 1 .. n_processes - 1 : q # t
        BY <1>1, <1>3, <2>7, Sizes
      <4>2. \A q \in 1 .. n_processes - 1 : q \notin {} => Equipped(q)'
        BY <1>4, <3>1, <4>1
      <4> QED BY <2>1, <4>2 DEF Provided
    <3>3. Rested'
      BY <3>1, <3>2 DEF Rested
    <3>4. Stage(p)'
      BY <2>3, <2>4, <2>7, <3>1, <3>3 DEF Stage, InLoop, First
    <3> QED BY <1>1, <2>2, <2>3, <2>7, <3>4, MappingLayout
  <2> QED BY <1>2, <2>5, <2>6, <2>7
<1>6. CASE LastPage(p)
  <2>1. CASE call[p].op = "exec"
    <3>1. Return(p) /\ n_processes' = n_processes /\ call[p].i = CODE_PAGES /\ t = p
      BY <1>3, <1>6, <2>1 DEF Advance, LastPage
    <3>2. Rested'
      <4>1. CASE Buffer(p) = NULL
        <5>1. Cardinality(Free') <= 0
          BY <2>1, <3>1, <4>1, Sizes DEF TurnDone
        <5>2. Free' = {}
          <6>1. Free' \in SUBSET FreeIn(memory_pages')
            BY FreeIs
          <6>2. Cardinality(Free') \in Nat /\ (Cardinality(Free') = 0 <=> Free' = {})
            BY <6>1, FreeFinite
          <6> QED BY <5>1, <6>2
        <5> QED BY <5>2 DEF Rested, Packed, Free
      <4>2. CASE Buffer(p) # NULL
        <5>1. PICK b \in Pages : b = Buffer(p)
          BY <4>2, SlotsOf DEF IInv, TypeOK, Buffer
        <5>2. /\ Above(memory_pages', b) /\ Provided({p})
              /\ n_user_pages'[p] = CODE_PAGES /\ n_kernel_pages'[p] >= LEVELS
              /\ Cardinality(Gap(memory_pages', b)) = 0
          BY <2>1, <3>1, <4>2, <5>1, Sizes DEF TurnDone
        <5>3. Gap(memory_pages', b) = {}
          <6>1. Gap(memory_pages', b) \in SUBSET FreeIn(memory_pages')
            BY DEF Gap
          <6> QED BY <5>2, <6>1, FreeFinite
        <5>4. Packed(memory_pages')
          <6> SUFFICES ASSUME NEW i \in Pages, NEW j \in Pages, i < j, memory_pages'[i] = 0
                       PROVE  memory_pages'[j] = 0
            BY DEF Packed
          <6>1. ~(i < b)
            BY <5>3 DEF Gap, FreeIn
          <6>2. j > b
            BY <6>1, NullIsNoPage
          <6> QED BY <5>2, <6>2 DEF Above
        <5>5. Provided({})'
          <6>1. \A q \in 1 .. n_processes - 1 : q \notin {p} => Equipped(q)'
            BY <1>4, <3>1, <5>2
          <6> QED BY <3>1, <5>2, <6>1 DEF Provided, Equipped
        <5> QED BY <5>4, <5>5 DEF Rested
      <4> QED BY <4>1, <4>2
    <3> QED BY <1>1, <3>1, <3>2, ReturnCall, MappingLayout
  <2>2. CASE call[p].op = "boot"
    <3>1. Return(p) /\ n_processes' = n_processes /\ call[p].i = CODE_PAGES /\ t = p
      BY <1>3, <1>6, <2>2 DEF Advance, LastPage
    <3>2. /\ Packed(memory_pages') /\ n_processes = 2 /\ p = 1
          /\ Free' = {} \/ (n_user_pages'[p] = CODE_PAGES /\ n_kernel_pages'[p] >= LEVELS)
      BY <2>2, <3>1 DEF TurnDone
    <3>3. Rested'
      BY <3>1, <3>2 DEF Rested, Provided, Equipped
    <3> QED BY <1>1, <3>1, <3>3, ReturnCall, MappingLayout
  <2>3. CASE call[p].op = "fork"
    <3>1. AddProcess(p) /\ call[p].i = n_user_pages[p]
      BY <1>6, <2>3 DEF Advance, LastPage
    <3>2. call' = [call EXCEPT ![p] = Idle, ![t] = Idle] /\ n_processes' = n_processes + 1
      BY <2>3, <3>1 DEF AddProcess
    <3>3. /\ Packed(memory_pages') /\ Provided({})
          /\ n_user_pages'[t] = n_user_pages[p] /\ n_kernel_pages'[t] >= LEVELS
      BY <2>3, <3>1 DEF TurnDone
    <3>4. Equipped(t)'
      BY <1>2, <3>3 DEF Provided, Equipped
    <3>5. Provided({})'
      <4>1. \A q \in 1 .. n_processes - 1 : q \notin {} => Equipped(q)'
        BY <1>3, <1>4, <2>3, <3>3
      <4>2. \A q \in 1 .. n_processes' - 1 : q \in 1 .. n_processes - 1 \/ q = t
        BY <1>1, <1>3, <2>3, <3>2, Sizes
      <4> QED BY <3>4, <4>1, <4>2 DEF Provided
    <3>6. call'[p] = Idle /\ call'[t] = Idle /\ \A q \in Procs \ {p, t} : call'[q] = call[q]
      BY <1>1, <1>3, <2>3, <3>2
    <3>7. Idle.at = "user_mode" /\ Idle.op = "none"
      BY DEF Idle
    <3>8. \A q \in Procs : ~InKernel(q)'
      BY <3>6, <3>7, Alone DEF InKernel
    <3>9. Booting'
      <4>1. \A q \in Procs \ {p} : call[q].op # "kthread"
        BY Alone DEF LInv, Booting, InKernel
      <4>2. t # 0 /\ 0 \in Procs
        BY <1>1, <1>3, <2>3, Sizes
      <4> QED BY <1>1, <3>6, <3>7, <4>1, <4>2 DEF LInv, Booting
    <3>10. Rested'
      BY <3>3, <3>5 DEF Rested
    <3> QED BY <3>8, <3>9, <3>10, Assemble
  <2> QED BY <1>2, <2>1, <2>2, <2>3
<1> QED BY <1>5, <1>6

(* In the loop over the pages of a process, get_free_page. *)
LEMMA LoopTake ==
  ASSUME IInv, LInv, NEW p \in Procs, InLoop(p), TakePage(p, call[p].at)
  PROVE  /\ Turn(p) /\ p # 0 /\ Stage(p) /\ call[p].op \in {"fork", "exec", "boot"} /\ call[p].i \in Nat
         /\ call[p].op # "fork" => call[p].target = p /\ call[p].i <= CODE_PAGES
         /\ call[p].op = "fork" => call[p].target = n_processes /\ n_user_pages[call[p].target] = call[p].i - 1
         /\ memory_pages \in Memories /\ call[p].found = FirstIn(memory_pages)
         /\ memory_pages' = Marked(memory_pages, call[p].found)
         /\ call[p].found = NULL => Free = {} /\ memory_pages' = memory_pages
         /\ call[p].found # NULL => Free # {} /\ Cardinality(Free') = Cardinality(Free) - 1
         /\ Cardinality(Free) \in Nat
         /\ Packed(memory_pages) => Packed(memory_pages')
<1>1. /\ Turn(p) /\ memory_pages \in Memories /\ call[p].found = FirstIn(memory_pages)
      /\ memory_pages' = Marked(memory_pages, call[p].found)
  BY TakesFirst
<1>2. /\ Fine(p) /\ p # 0 /\ Stage(p) /\ call[p].i \in Nat
  BY NotInit DEF IInv, LInv, InLoop, TypeOK
<1>3. call[p].op \in {"fork", "exec", "boot"}
  BY <1>2 DEF Fine, CallAgrees, InLoop
<1>4. /\ call[p].op # "fork" => call[p].target = p /\ call[p].i <= CODE_PAGES
      /\ call[p].op = "fork" => call[p].target = n_processes /\ n_user_pages[call[p].target] = call[p].i - 1
  BY <1>2, <1>3 DEF Fine, CallAgrees, LoopBounded, TargetIsNext, Creating, InLoop
<1>5. PICK x : x = call[p].found
  OBVIOUS
<1>6. PICK n : n = memory_pages'
  OBVIOUS
<1>7. /\ FreeIn(n) = FreeIn(memory_pages) \ {x}
      /\ x = NULL <=> FreeIn(memory_pages) = {}
      /\ x # NULL => x \in FreeIn(memory_pages)
      /\ x = NULL => n = memory_pages
      /\ Packed(memory_pages) => Packed(n)
  BY <1>1, <1>5, <1>6, TakeFirst
<1>8. Free = FreeIn(memory_pages) /\ Free' = FreeIn(n)
  BY <1>6, FreeIs
<1>9. IsFiniteSet(Free) /\ Cardinality(Free) \in Nat
  BY <1>8, FreeFinite
<1>10. ASSUME x # NULL PROVE Cardinality(Free') = Cardinality(Free) - 1
  BY <1>7, <1>8, <1>9, <1>10, FS_RemoveElement
<1> QED BY <1>1, <1>2, <1>3, <1>4, <1>5, <1>6, <1>7, <1>8, <1>9, <1>10

(* The process gets one page more, and not one too many. *)
LEMMA AddMapped ==
  ASSUME IInv, LInv, NEW p \in Procs, InLoop(p), NEW t \in Procs, t = call[p].target,
         NEW s \in [Slots -> Pages \cup {NULL}], NEW page, page # NULL, AddUserPage(p, s, page),
         TablesFilled(s, t, n_kernel_pages'[t])
  PROVE  Mapped'
<1> DEFINE n == n_user_pages[t] + 1
<1>0. PICK r : r = WithPage(s, p, t, page)
  OBVIOUS
<1>1. n \in 1 .. MAX_PROCESS_PAGES /\ n_user_pages \in [Procs -> 0 .. MAX_PROCESS_PAGES] /\ LoopBounded(p)
      /\ call[p].i \in Nat /\ call[p].op \in {"fork", "exec", "boot"}
  BY LoopRoom DEF IInv, TypeOK, Fine, InLoop, CallAgrees
<1>2. n_user_pages' = [n_user_pages EXCEPT ![t] = n] /\ Advance(p, r)
  BY <1>0 DEF AddUserPage, WithPage
<1>3. n_user_pages'[t] = n /\ \A q \in Procs \ {t} : n_user_pages'[q] = n_user_pages[q]
  BY <1>1, <1>2
<1>4. n <= CODE_PAGES
  <2>1. n_user_pages[p] \in Nat /\ n_user_pages[p] <= CODE_PAGES /\ n_user_pages[t] \in Nat
    BY <1>1 DEF LInv, Mapped
  <2> QED BY <1>1, <2>1, Sizes DEF LoopBounded, InLoop
<1>5. /\ r \in [Slots -> Pages \cup {NULL, page}] /\ r[<<t, "user", n>>] = page
      /\ \A u \in Slots : u[2] = "user" /\ u # <<t, "user", n>> => r[u] = slot[u]
  <2>1. <<t, "user", n>> \in Slots /\ <<p, "page", 0>> \in Slots /\ <<p, "page", 0>> # <<t, "user", n>>
    BY <1>1, SlotsOf
  <2>2. \A u \in Slots : u[2] = "user" => s[u] = slot[u]
    BY DEF TablesFilled
  <2>3. /\ r \in [Slots -> Pages \cup {NULL, page}] /\ r[<<t, "user", n>>] = page
        /\ \A u \in Slots : u[2] = "user" /\ u # <<t, "user", n>> => r[u] = s[u]
    BY <1>0, <2>1 DEF WithPage
  <2> QED BY <2>2, <2>3
<1>6. \A u \in Slots : u[2] = "user" => slot'[u] = r[u]
  <2>1. slot' = r \/ slot' = [r EXCEPT ![<<p, "buffer", 0>>] = NULL]
    BY <1>1, <1>2 DEF Advance, DropBuffer
  <2> QED BY <1>5, <2>1
<1> HIDE DEF n
<1> SUFFICES ASSUME NEW q \in Procs
             PROVE  n_user_pages'[q] <= CODE_PAGES /\ \A k \in 1 .. n_user_pages'[q] : slot'[<<q, "user", k>>] # NULL
  BY DEF Mapped
<1>7. n_user_pages'[q] \in 0 .. MAX_PROCESS_PAGES /\ n_user_pages'[q] <= CODE_PAGES
  BY <1>1, <1>3, <1>4, Sizes DEF LInv, Mapped
<1>8. ASSUME NEW k \in 1 .. n_user_pages'[q] PROVE slot'[<<q, "user", k>>] # NULL
  <2>1. k \in 1 .. MAX_PROCESS_PAGES
    BY <1>7, Sizes
  <2>2. <<q, "user", k>> \in Slots
    BY <2>1, SlotsOf
  <2>3. CASE <<q, "user", k>> = <<t, "user", n>>
    BY <1>5, <1>6, <2>2, <2>3
  <2>4. CASE <<q, "user", k>> # <<t, "user", n>>
    <3>1. k \in 1 .. n_user_pages[q]
      <4>1. CASE q = t
        <5>1. k # n /\ k \in 1 .. n /\ n_user_pages[t] \in Nat
          BY <1>1, <1>3, <2>4, <4>1
        <5> QED BY <4>1, <5>1 DEF n
      <4>2. CASE q # t
        BY <1>3, <4>2
      <4> QED BY <4>1, <4>2
    <3>2. slot[<<q, "user", k>>] # NULL
      BY <3>1 DEF LInv, Mapped
    <3> QED BY <1>5, <1>6, <2>2, <2>4, <3>2
  <2> QED BY <2>3, <2>4
<1> QED BY <1>7, <1>8

(* The page is mapped, with the tables above it. *)
LEMMA AddLayout ==
  ASSUME IInv, IInv', LInv, ~PREEMPTIVE, NEW p \in Procs, InLoop(p), NEW t \in Procs, t = call[p].target,
         TakePage(p, call[p].at), call[p].found # NULL,
         NEW s \in [Slots -> Pages \cup {NULL}], NEW page, page # NULL, AddUserPage(p, s, page),
         TablesFilled(s, t, n_kernel_pages'[t]), OthersCounted(n_kernel_pages', n_kernel_pages, t),
         n_kernel_pages'[t] >= LEVELS
  PROVE  LInv'
<1>0. PICK r : r = WithPage(s, p, t, page)
  OBVIOUS
<1>1. Mapped'
  BY AddMapped
<1>2. /\ n_user_pages' = [n_user_pages EXCEPT ![t] = n_user_pages[t] + 1] /\ Advance(p, r)
      /\ n_user_pages \in [Procs -> 0 .. MAX_PROCESS_PAGES]
  BY <1>0 DEF AddUserPage, WithPage, IInv, TypeOK
<1>3. n_user_pages'[t] = n_user_pages[t] + 1 /\ \A q \in Procs \ {t} : n_user_pages'[q] = n_user_pages[q]
  BY <1>2
<1>4. r[<<p, "buffer", 0>>] = slot[<<p, "buffer", 0>>]
  <2>1. <<p, "buffer", 0>> \in Slots /\ <<p, "buffer", 0>>[2] = "buffer"
    BY SlotsOf
  <2>2. s[<<p, "buffer", 0>>] = slot[<<p, "buffer", 0>>]
    BY <2>1 DEF TablesFilled
  <2> QED BY <1>0, <2>1, <2>2 DEF WithPage
<1>5. /\ Turn(p) /\ Stage(p) /\ call[p].op \in {"fork", "exec", "boot"} /\ call[p].i \in Nat
      /\ call[p].op # "fork" => call[p].target = p /\ call[p].i <= CODE_PAGES
      /\ call[p].op = "fork" => call[p].target = n_processes /\ n_user_pages[call[p].target] = call[p].i - 1
      /\ memory_pages \in Memories /\ call[p].found = FirstIn(memory_pages)
      /\ memory_pages' = Marked(memory_pages, call[p].found)
      /\ Free # {} /\ Cardinality(Free') = Cardinality(Free) - 1 /\ Cardinality(Free) \in Nat
      /\ Packed(memory_pages) => Packed(memory_pages')
  BY LoopTake
<1>6. call[p].op = "exec" =>
       IF Buffer(p) = NULL
       THEN Cardinality(Free') <= CODE_PAGES - call[p].i
       ELSE /\ Above(memory_pages', Buffer(p)) /\ Provided({p})
            /\ n_user_pages'[p] = call[p].i /\ n_kernel_pages'[p] >= LEVELS
            /\ Cardinality(Gap(memory_pages', Buffer(p))) = CODE_PAGES - call[p].i
  <2> SUFFICES ASSUME call[p].op = "exec"
               PROVE  IF Buffer(p) = NULL
                      THEN Cardinality(Free') <= CODE_PAGES - call[p].i
                      ELSE /\ Above(memory_pages', Buffer(p)) /\ Provided({p})
                           /\ n_user_pages'[p] = call[p].i /\ n_kernel_pages'[p] >= LEVELS
                           /\ Cardinality(Gap(memory_pages', Buffer(p))) = CODE_PAGES - call[p].i
    OBVIOUS
  <2>1. ExecReplaces(p) /\ t = p
    BY <1>5 DEF Stage
  <2>2. CASE Buffer(p) = NULL
    <3>1. Cardinality(Free) <= CODE_PAGES - call[p].i + (IF call[p].at = "user" THEN 1 ELSE 0)
      BY <2>1, <2>2 DEF ExecReplaces
    <3>2. Cardinality(Free') <= CODE_PAGES - call[p].i
      BY <1>5, <3>1, Sizes
    <3> QED BY <2>2, <3>2
  <2>3. CASE Buffer(p) # NULL
    <3>1. PICK b \in Pages : b = Buffer(p)
      BY <2>3, SlotsOf DEF IInv, TypeOK, Buffer
    <3>2. /\ Above(memory_pages, b) /\ Provided({p}) /\ n_user_pages[p] = call[p].i - 1
          /\ Cardinality(Gap(memory_pages, b)) = CODE_PAGES - call[p].i + 1
      BY <2>1, <2>3, <3>1 DEF ExecReplaces
    <3>3. IsFiniteSet(Gap(memory_pages, b)) /\ (Cardinality(Gap(memory_pages, b)) = 0 <=> Gap(memory_pages, b) = {})
      <4>1. Gap(memory_pages, b) \in SUBSET FreeIn(memory_pages)
        BY DEF Gap
      <4> QED BY <4>1, FreeFinite
    <3>4. Gap(memory_pages, b) # {}
      BY <1>5, <3>2, <3>3, Sizes
    <3>5. PICK x : x = call[p].found
      OBVIOUS
    <3>6. Above(Marked(memory_pages, x), b) /\ Gap(Marked(memory_pages, x), b) = Gap(memory_pages, b) \ {x}
          /\ x \in Gap(memory_pages, b)
      BY <1>5, <3>2, <3>4, <3>5, TakeFromGap
    <3>7. Cardinality(Gap(memory_pages, b) \ {x}) = Cardinality(Gap(memory_pages, b)) - 1
      BY <3>3, <3>6, FS_RemoveElement
    <3>8. Cardinality(Gap(memory_pages, b) \ {x}) = CODE_PAGES - call[p].i /\ n_user_pages'[p] = call[p].i
      BY <1>3, <1>5, <2>1, <3>2, <3>7, Sizes
    <3>9. memory_pages' = Marked(memory_pages, x)
      BY <1>5, <3>5
    <3>10. Above(memory_pages', b) /\ Cardinality(Gap(memory_pages', b)) = CODE_PAGES - call[p].i
      BY <3>6, <3>8, <3>9
    <3> QED BY <2>1, <2>3, <3>1, <3>2, <3>8, <3>10
  <2> QED BY <2>2, <2>3
<1>7. ASSUME call[p].op = "boot"
      PROVE  /\ Packed(memory_pages') /\ n_processes = 2 /\ p = 1
             /\ n_user_pages'[p] = call[p].i /\ n_kernel_pages'[p] >= LEVELS
  <2>1. Packed(memory_pages) /\ n_processes = 2 /\ p = 1 /\ n_user_pages[p] = call[p].i - 1 /\ t = p
    BY <1>5, <1>7 DEF Stage
  <2> QED BY <1>3, <1>5, <2>1
<1>8. ASSUME call[p].op = "fork"
      PROVE  /\ Packed(memory_pages') /\ Provided({})
             /\ n_user_pages'[t] = call[p].i /\ n_kernel_pages'[t] >= LEVELS
  <2>1. Packed(memory_pages) /\ Provided({})
    BY <1>5, <1>8 DEF Stage, Rested
  <2> QED BY <1>3, <1>5, <1>8, <2>1
<1>9. TurnDone(p, t)
  BY <1>6, <1>7, <1>8 DEF TurnDone
<1>10. \A q \in Procs \ {t} : n_user_pages'[q] = n_user_pages[q] /\ n_kernel_pages'[q] = n_kernel_pages[q]
  BY <1>3 DEF OthersCounted
<1> QED BY <1>1, <1>2, <1>4, <1>5, <1>9, <1>10, AdvanceLayout

(* The page waits for a table, with the memory as TakePage leaves it. *)
LEMMA WaitLayout ==
  ASSUME IInv, IInv', LInv, ~PREEMPTIVE, NEW p \in Procs, InLoop(p), NEW t \in Procs, t = call[p].target,
         TakePage(p, call[p].at), call[p].found # NULL, n_kernel_pages[t] < LEVELS,
         Goto(p, "table"), UNCHANGED <<n_user_pages, n_processes>>, OthersCounted(n_kernel_pages', n_kernel_pages, t),
         slot'[<<p, "page", 0>>] # NULL, slot'[<<p, "buffer", 0>>] = slot[<<p, "buffer", 0>>],
         \A u \in Slots : u[2] = "user" => slot'[u] = slot[u]
  PROVE  LInv'
<1>1. /\ Turn(p) /\ p # 0 /\ Stage(p) /\ call[p].op \in {"fork", "exec", "boot"} /\ call[p].i \in Nat
      /\ call[p].op # "fork" => call[p].target = p /\ call[p].i <= CODE_PAGES
      /\ call[p].op = "fork" => call[p].target = n_processes
      /\ Free # {} /\ Cardinality(Free') = Cardinality(Free) - 1 /\ Cardinality(Free) \in Nat
      /\ Packed(memory_pages) => Packed(memory_pages')
  BY LoopTake
<1>2. /\ call' = [call EXCEPT ![p] = call'[p]]
      /\ call'[p].at = "table" /\ call'[p].found = NONE /\ call'[p].op = call[p].op
      /\ call'[p].target = call[p].target /\ call'[p].i = call[p].i
  BY GotoCall DEF Sites, AllocSites
<1>3. First(p)' /\ HasTables(p)'
  BY <1>2 DEF First, HasTables
<1>4. ASSUME call[p].op = "exec" PROVE ExecReplaces(p)'
  <2>1. ExecReplaces(p) /\ t = p
    BY <1>1, <1>4 DEF Stage
  <2>2. n_kernel_pages[p] \in Nat /\ LEVELS \in Nat
    BY Sizes DEF IInv, TypeOK
  <2>3. Buffer(p) = NULL
    BY <2>1, <2>2 DEF ExecReplaces
  <2>4. Cardinality(Free) <= CODE_PAGES - call[p].i + (IF call[p].at = "user" THEN 1 ELSE 0)
    BY <2>1, <2>3 DEF ExecReplaces
  <2>5. Cardinality(Free') <= CODE_PAGES - call'[p].i + 0
    BY <1>1, <1>2, <2>4, Sizes
  <2>6. Buffer(p)' = NULL
    BY <2>3 DEF Buffer
  <2> QED BY <1>2, <2>5, <2>6 DEF ExecReplaces
<1>5. ASSUME call[p].op = "boot"
      PROVE  Packed(memory_pages') /\ n_processes' = 2 /\ p = 1 /\ n_user_pages'[p] = call'[p].i - 1
  BY <1>1, <1>2, <1>5 DEF Stage
<1>6. ASSUME call[p].op = "fork" PROVE Rested'
  <2>1. Packed(memory_pages) /\ Provided({}) /\ t = n_processes /\ n_processes \in 1 .. N_PROCESSES
    BY <1>1, <1>6 DEF Stage, Rested, IInv, TypeOK
  <2>2. ASSUME NEW q \in 1 .. n_processes - 1 PROVE Equipped(q)'
    <3>1. q \in Procs \ {t} /\ Equipped(q)
      BY <2>1, Sizes DEF Provided, Procs
    <3> QED BY <3>1 DEF Equipped, OthersCounted
  <2>3. Provided({})'
    BY <2>2 DEF Provided
  <2> QED BY <1>1, <2>1, <2>3 DEF Rested
<1>7. Stage(p)'
  BY <1>1, <1>2, <1>3, <1>4, <1>5, <1>6 DEF Stage, InLoop
<1> QED BY <1>1, <1>2, <1>7, OwnLayout

(* map_page: the page waits for its tables, or is mapped. *)
LEMMA UserPageLayout ==
  ASSUME IInv, IInv', LInv, ~PREEMPTIVE, NEW p \in Procs, NewUserPage(p)
  PROVE  LInv'
<1>0. PICK t \in Procs : t = call[p].target
  BY DEF IInv, TypeOK
<1>1. TakePage(p, "user") /\ call[p].found # NULL /\ UNCHANGED n_kernel_pages
  BY DEF NewUserPage
<1>2. call[p].at = "user" /\ InLoop(p) /\ TakePage(p, call[p].at) /\ slot \in [Slots -> Pages \cup {NULL}]
      /\ EntriesEmpty(t) /\ n_kernel_pages[t] \in Nat /\ LEVELS \in Nat
  BY <1>1, Sizes DEF TakePage, InLoop, IInv, TypeOK
<1>3. OthersCounted(n_kernel_pages', n_kernel_pages, t)
  BY <1>1 DEF IInv, TypeOK, OthersCounted
<1>4. CASE n_kernel_pages[t] < LEVELS
  <2>1. slot' = [slot EXCEPT ![<<p, "page", 0>>] = call[p].found] /\ Goto(p, "table")
        /\ UNCHANGED <<n_user_pages, n_processes>>
    BY <1>0, <1>4 DEF NewUserPage
  <2>2. slot'[<<p, "page", 0>>] = call[p].found /\ slot'[<<p, "buffer", 0>>] = slot[<<p, "buffer", 0>>]
    BY <1>2, <2>1, SlotsOf
  <2>3. \A u \in Slots : u[2] = "user" => slot'[u] = slot[u]
    BY <1>2, <2>1
  <2> QED BY <1>0, <1>1, <1>2, <1>3, <1>4, <2>1, <2>2, <2>3, WaitLayout
<1>5. CASE ~(n_kernel_pages[t] < LEVELS)
  <2>1. AddUserPage(p, slot, call[p].found)
    BY <1>0, <1>5 DEF NewUserPage
  <2>2. TablesFilled(slot, t, n_kernel_pages'[t])
    BY <1>1, <1>2 DEF EntriesEmpty, TablesFilled
  <2>3. n_kernel_pages'[t] >= LEVELS
    BY <1>1, <1>2, <1>5
  <2> QED BY <1>0, <1>1, <1>2, <1>3, <2>1, <2>2, <2>3, AddLayout
<1> QED BY <1>4, <1>5

(* No page left: fork stops, copy_code goes on. *)
LEMMA NoPageLayout ==
  ASSUME IInv, IInv', LInv, ~PREEMPTIVE, NEW p \in Procs, NoUserPage(p)
  PROVE  LInv'
<1>0. PICK t \in Procs : t = call[p].target
  BY DEF IInv, TypeOK
<1>1. TakePage(p, "user") /\ call[p].found = NULL /\ UNCHANGED <<n_user_pages, n_kernel_pages>>
  BY DEF NoUserPage
<1>2. call[p].at = "user" /\ InLoop(p) /\ TakePage(p, call[p].at)
  BY <1>1 DEF TakePage, InLoop
<1>3. /\ Turn(p) /\ p # 0 /\ Stage(p) /\ call[p].op \in {"fork", "exec", "boot"} /\ call[p].i \in Nat
      /\ call[p].op # "fork" => call[p].target = p /\ call[p].i <= CODE_PAGES
      /\ call[p].op = "fork" => call[p].target = n_processes
      /\ Free = {} /\ memory_pages' = memory_pages /\ Free' = {}
  BY <1>1, <1>2, LoopTake DEF Free
<1>4. Packed(memory_pages')
  BY <1>3 DEF Packed, Free
<1>5. CASE call[p].op = "fork"
  <2>1. AddProcess(p) /\ UNCHANGED slot
    BY <1>5 DEF NoUserPage
  <2>2. call' = [call EXCEPT ![p] = Idle, ![t] = Idle] /\ call \in [Procs -> CallType] /\ n_processes \in 1 .. N_PROCESSES
    BY <1>0, <1>5, <2>1 DEF AddProcess, IInv, TypeOK, CallType
  <2>3. t = n_processes /\ t # 0 /\ 0 \in Procs
    BY <1>0, <1>3, <1>5, <2>2, Sizes
  <2>4. call'[p] = Idle /\ call'[t] = Idle /\ \A q \in Procs \ {p, t} : call'[q] = call[q]
    BY <2>2
  <2>5. Idle.at = "user_mode" /\ Idle.op = "none"
    BY DEF Idle
  <2>6. \A q \in Procs : ~InKernel(q)'
    BY <1>3, <2>4, <2>5, Alone DEF InKernel
  <2>7. Booting'
    <3>1. \A q \in Procs \ {p} : call[q].op # "kthread"
      BY <1>3, Alone DEF LInv, Booting, InKernel
    <3> QED BY <1>3, <2>3, <2>4, <2>5, <3>1 DEF LInv, Booting
  <2>8. Mapped'
    BY <1>1, <2>1, MappedKept
  <2>9. Rested'
    BY <1>3, <1>4 DEF Rested
  <2> QED BY <2>6, <2>7, <2>8, <2>9, Assemble
<1>6. CASE call[p].op # "fork"
  <2>1. Advance(p, slot) /\ t = p
    BY <1>0, <1>3, <1>6 DEF NoUserPage
  <2>2. \A u \in Slots : u[2] = "user" => slot'[u] = slot[u]
    <3>1. slot' = slot \/ slot' = [slot EXCEPT ![<<p, "buffer", 0>>] = NULL]
      BY <1>3, <1>6, <2>1 DEF Advance, DropBuffer
    <3> QED BY <3>1 DEF IInv, TypeOK
  <2>3. Mapped'
    BY <1>1, <2>2, MappedKept
  <2>4. ASSUME call[p].op = "exec"
        PROVE  Buffer(p) = NULL /\ Cardinality(Free') <= CODE_PAGES - call[p].i
    <3>1. ExecReplaces(p)
      BY <1>2, <1>3, <2>4 DEF Stage
    <3>2. Cardinality({}) = 0
      BY FS_EmptySet
    <3>3. Gap(memory_pages, Buffer(p)) = {}
      BY <1>3, FreeIs DEF Gap
    <3>4. CODE_PAGES - call[p].i \in Nat /\ CODE_PAGES - call[p].i + 1 # 0
      BY <1>3, <2>4, Sizes
    <3>5. Buffer(p) = NULL
      BY <3>1, <3>2, <3>3, <3>4 DEF ExecReplaces
    <3> QED BY <1>3, <3>2, <3>4, <3>5
  <2>5. ASSUME call[p].op = "boot" PROVE n_processes = 2 /\ p = 1
    BY <1>2, <1>3, <2>5 DEF Stage
  <2>6. TurnDone(p, t)
    BY <1>3, <1>4, <1>6, <2>4, <2>5 DEF TurnDone
  <2>7. \A q \in Procs \ {t} : n_user_pages'[q] = n_user_pages[q] /\ n_kernel_pages'[q] = n_kernel_pages[q]
    BY <1>1
  <2> QED BY <1>0, <1>2, <1>3, <2>1, <2>3, <2>6, <2>7, AdvanceLayout
<1> QED BY <1>5, <1>6

(* map_table: the page of a table, and after the last one the page itself. *)
LEMMA TableLayout ==
  ASSUME IInv, IInv', LInv, ~PREEMPTIVE, NEW p \in Procs, map_table(p)
  PROVE  LInv'
<1>0. PICK t \in Procs : t = call[p].target
  BY DEF IInv, TypeOK
<1> DEFINE x == call[p].found
           m == n_kernel_pages[t] + 1
           b == <<t, "table", m>>
           s == [slot EXCEPT ![b] = x]
<1>1. TakePage(p, "table") /\ n_kernel_pages' = [n_kernel_pages EXCEPT ![t] = m]
  BY <1>0 DEF map_table
<1>2. /\ call[p].at = "table" /\ InLoop(p) /\ TakePage(p, call[p].at) /\ slot \in [Slots -> Pages \cup {NULL}]
      /\ EntriesEmpty(t) /\ LoopBounded(p) /\ x \in Pages \cup {NULL}
  BY <1>1, TakenPage DEF TakePage, InLoop, IInv, TypeOK, Fine
<1>3. /\ m \in 1 .. LEVELS /\ m \in 1 .. MAX_PROCESS_PAGES /\ LEVELS \in Nat
      /\ n_kernel_pages[t] \in 0 .. MAX_PROCESS_PAGES /\ n_kernel_pages[t] < LEVELS
  BY <1>0, <1>2, LoopRoom, Sizes DEF LoopBounded
<1>4. b \in Slots
  BY <1>3, SlotsOf
<1>5. s \in [Slots -> Pages \cup {NULL}] /\ \A u \in Slots : u # b => s[u] = slot[u]
  BY <1>2, <1>4
<1>6. n_kernel_pages'[t] = m /\ OthersCounted(n_kernel_pages', n_kernel_pages, t)
  BY <1>1, <1>3 DEF IInv, TypeOK, OthersCounted
<1>7. Turn(p) /\ p # 0 /\ Stage(p) /\ call[p].op \in {"fork", "exec", "boot"} /\ slot[<<p, "page", 0>>] # NULL
  BY <1>2, LoopTake DEF Stage
<1>8. \A u \in Slots : u[2] # "table" => s[u] = slot[u]
  BY <1>5
<1>9. CASE x = NULL
  <2>1. slot' = s /\ Goto(p, "wild") /\ n_user_pages' = n_user_pages
    BY <1>0, <1>9 DEF map_table
  <2>2. /\ call' = [call EXCEPT ![p] = call'[p]]
        /\ call'[p].at = "wild" /\ call'[p].found = NONE /\ call'[p].op = call[p].op
    BY <2>1, GotoCall DEF Sites
  <2>3. Stage(p)'
    BY <2>2 DEF Stage, InLoop, First
  <2> QED BY <1>7, <1>8, <2>1, <2>2, <2>3, OwnLayout
<1>10. CASE x # NULL /\ m < LEVELS
  <2>1. slot' = s /\ Goto(p, "table") /\ UNCHANGED <<n_user_pages, n_processes>>
    BY <1>0, <1>10 DEF map_table
  <2>2. slot'[<<p, "page", 0>>] # NULL /\ slot'[<<p, "buffer", 0>>] = slot[<<p, "buffer", 0>>]
    <3>1. \A f \in {"page", "buffer"} : <<p, f, 0>> \in Slots /\ <<p, f, 0>>[2] # "table"
      BY SlotsOf
    <3> QED BY <1>7, <1>8, <2>1, <3>1
  <2>3. \A u \in Slots : u[2] = "user" => slot'[u] = slot[u]
    BY <1>8, <2>1
  <2> QED BY <1>0, <1>2, <1>3, <1>6, <1>10, <2>1, <2>2, <2>3, WaitLayout
<1>11. CASE x # NULL /\ ~(m < LEVELS)
  <2>1. AddUserPage(p, s, slot[<<p, "page", 0>>])
    BY <1>0, <1>11 DEF map_table
  <2>2. n_kernel_pages'[t] >= LEVELS
    BY <1>3, <1>6, <1>11
  <2>3. \A k \in 1 .. MAX_PROCESS_PAGES : k > m => s[<<t, "table", k>>] = NULL
    <3> SUFFICES ASSUME NEW k \in 1 .. MAX_PROCESS_PAGES, k > m PROVE s[<<t, "table", k>>] = NULL
      OBVIOUS
    <3>1. k # m /\ k > n_kernel_pages[t]
      BY <1>3, Sizes
    <3>2. <<t, "table", k>> \in Slots /\ <<t, "table", k>> # b
      BY <3>1, SlotsOf
    <3> QED BY <1>2, <1>5, <3>1, <3>2 DEF EntriesEmpty
  <2>4. TablesFilled(s, t, n_kernel_pages'[t])
    BY <1>5, <1>6, <2>3 DEF TablesFilled
  <2> HIDE DEF s
  <2> QED BY <1>0, <1>2, <1>5, <1>6, <1>7, <1>11, <2>1, <2>2, <2>4, AddLayout
<1> QED BY <1>9, <1>10, <1>11

-----------------------------------------------------------------------------
(* The invariant holds *)

LEMMA InitLInv == Init => LInv
<1> SUFFICES ASSUME Init PROVE LInv
  OBVIOUS
<1> DEFINE c == [Idle EXCEPT !.op = "kthread", !.at = "pcb", !.target = 1]
           d == [Idle EXCEPT !.at = "none"]
<1>1. /\ c.op = "kthread" /\ c.at = "pcb" /\ c.found = NONE
      /\ d.op = "none" /\ d.at = "none" /\ d.found = NONE
  BY DEF Idle
<1>2. call = [p \in Procs |-> IF p = 0 THEN c ELSE d] /\ n_processes = 1
  BY DEF Init
<1> HIDE DEF c, d
<1>3. Free = Pages
  BY DEF Init, Free
<1>4. Calm
  <2>1. 0 \in Procs
    BY Sizes
  <2>2. InKernel(0)
    BY <1>1, <1>2, <2>1 DEF InKernel
  <2> QED BY <2>1, <2>2 DEF Calm
<1>5. Mapped
  BY Sizes DEF Init, Mapped
<1>6. Booting
  BY <1>1, <1>2, <1>3, Sizes DEF Booting
<1>7. \A p \in Procs : Stage(p)
  BY <1>1, <1>2 DEF Stage, InLoop, First
<1> QED BY <1>4, <1>5, <1>6, <1>7 DEF LInv

LEMMA LInvStep ==
  ASSUME IInv, LInv, ~PREEMPTIVE, [Next]_vars
  PROVE  LInv'
<1>0. IInv'
  BY IInvStep
<1>1. CASE UNCHANGED vars
  <2>1. /\ (Rested' <=> Rested) /\ Free' = Free /\ (Provided({})' <=> Provided({}))
        /\ \A p \in Procs : Provided({p})' <=> Provided({p})
    BY <1>1, RestedKept DEF vars
  <2>2. Calm' /\ Mapped' /\ Booting'
    BY <1>1, <2>1 DEF vars, LInv, Calm, Mapped, Booting, InKernel
  <2>3. ASSUME NEW p \in Procs PROVE Stage(p)'
    <3>1. Stage(p)
      BY DEF LInv
    <3>2. (ExecHolds(p)' <=> ExecHolds(p)) /\ (ExecCloses(p)' <=> ExecCloses(p)) /\ (ExecReplaces(p)' <=> ExecReplaces(p))
      BY <1>1, <2>1 DEF vars, ExecHolds, ExecCloses, ExecReplaces, Buffer
    <3>3. (HasTables(p)' <=> HasTables(p)) /\ (First(p)' <=> First(p)) /\ (InLoop(p)' <=> InLoop(p))
      BY <1>1, <2>1 DEF vars, HasTables, First, InLoop
    <3> QED BY <1>1, <2>1, <3>1, <3>2, <3>3 DEF vars, Stage
  <2> QED BY <2>2, <2>3 DEF LInv
<1>2. ASSUME NEW p \in Procs, Calls(p) PROVE LInv'
  BY <1>0, <1>2, CallsLayout
<1>3. ASSUME NEW p \in Procs, Steps(p) PROVE LInv'
  BY <1>0, <1>3, FindLayout, MallocLayout, NewFileLayout, FileSystemLayout, OpenFailsLayout, ResourceLayout,
     BufferLayout, CloseLayout, CloseFileLayout, TooLargeLayout, UnmapLayout, PcbLayout, PcbFailsLayout,
     UserPageLayout, NoPageLayout, TableLayout DEF Steps
<1> QED BY <1>1, <1>2, <1>3 DEF Next

(* Where the pages in use lie, in every state of a kernel that is not
   preemptive. *)
THEOREM AlwaysLInv ==
  ASSUME ~PREEMPTIVE
  PROVE  Spec => [](IInv /\ LInv)
<1>1. IInv /\ LInv /\ [Next]_vars => (IInv /\ LInv)'
  BY IInvStep, LInvStep
<1>2. Init => IInv /\ LInv
  BY InitIInv, InitLInv
<1> QED BY <1>1, <1>2, PTL DEF Spec

(* exec reads a program of many pages into a buffer of one: the pages behind
   the buffer are free at that moment, because no page in use lies above a
   free one, and copy_code is never given one of them before it has copied
   the program out, because the pages the process gave up lie below the
   buffer and are as many as it asks for. *)
THEOREM BufferOverrunHarmless ==
  ASSUME ~PREEMPTIVE
  PROVE  Spec => []OverrunHarmless
<1>1. ASSUME IInv, LInv PROVE OverrunHarmless
  <2> SUFFICES ASSUME NEW p \in Procs, call[p].op = "exec", slot[<<p, "buffer", 0>>] # NULL
               PROVE  /\ call[p].at = "read" => \A i \in Overrun(p) \cap Pages : memory_pages[i] = 0
                      /\ call[p].at = "user" => call[p].found \notin Overrun(p)
    BY DEF OverrunHarmless
  <2>1. PICK b \in Pages : b = slot[<<p, "buffer", 0>>] /\ b = Buffer(p)
    BY <1>1, SlotsOf DEF IInv, TypeOK, Buffer
  <2>2. Stage(p) /\ memory_pages \in Memories /\ b \in Nat /\ b # NULL
    BY <1>1, NullIsNoPage DEF LInv, IInv, TypeOK, Memories
  <2>3. Overrun(p) = b + 1 .. b + CODE_PAGES - 1
    BY <2>1 DEF Overrun
  <2>4. ASSUME call[p].at = "read", NEW i \in Overrun(p) \cap Pages PROVE memory_pages[i] = 0
    <3>1. Above(memory_pages, b)
      BY <2>1, <2>2, <2>4 DEF Stage, ExecHolds
    <3>2. i > b
      BY <2>2, <2>3, Sizes
    <3> QED BY <3>1, <3>2 DEF Above
  <2>5. ASSUME call[p].at = "user" PROVE call[p].found \notin Overrun(p)
    <3>1. Above(memory_pages, b) /\ Cardinality(Gap(memory_pages, b)) = CODE_PAGES - call[p].i + 1
      BY <2>1, <2>2, <2>5 DEF Stage, InLoop, ExecReplaces
    <3>2. LoopBounded(p) /\ call[p].i \in Nat
      BY <1>1 DEF IInv, Fine, TypeOK
    <3>3. Cardinality(Gap(memory_pages, b)) # 0
      BY <2>5, <3>1, <3>2, Sizes DEF LoopBounded
    <3>4. Gap(memory_pages, b) # {}
      <4>1. Gap(memory_pages, b) \in SUBSET FreeIn(memory_pages)
        BY DEF Gap
      <4> QED BY <3>3, <4>1, FreeFinite
    <3>5. CASE call[p].found = NONE
      BY <2>2, <2>3, <3>5, Sizes DEF NONE
    <3>6. CASE call[p].found # NONE
      <4>1. call[p].found = FirstIn(memory_pages)
        BY <2>2, <3>6, FreeIs DEF Stage, First, FirstIn
      <4>2. call[p].found < b /\ call[p].found \in Gap(memory_pages, b)
        BY <2>2, <3>1, <3>4, <4>1, TakeFromGap
      <4>3. call[p].found \in Nat
        BY <4>2, NullIsNoPage DEF Gap, FreeIn
      <4> QED BY <2>2, <2>3, <4>2, <4>3, Sizes
    <3> QED BY <3>5, <3>6
  <2> QED BY <2>4, <2>5
<1> QED BY <1>1, AlwaysLInv, PTL

(* A process is in a fork only inside the kernel. *)
ForksInside == \A p \in Procs : call[p].op = "fork" => InKernel(p)

LEMMA ForksInsideStep ==
  ASSUME IInv, ForksInside, Next
  PROVE  ForksInside'
<1>0. call \in [Procs -> CallType]
  BY DEF IInv, TypeOK, CallType
<1>1. PICK q \in Procs : Calls(q) \/ Steps(q)
  BY DEF Next
<1> DEFINE Good == \A r \in Procs : call'[r] = call[r] \/ call'[r].op # "fork" \/ InKernel(r)'
<1>2. ASSUME NEW site \in Sites \ {"none", "user_mode", "zombie"}, Goto(q, site) PROVE Good
  BY <1>0, <1>2 DEF Goto, InKernel, CallType
<1>3. ASSUME Return(q) PROVE Good
  BY <1>0, <1>3 DEF Return, Idle
<1>4. ASSUME NEW op, NEW site, site \notin {"none", "user_mode", "zombie"}, NEW fd, NEW target,
             Enter(q, op, site, fd, target)
      PROVE  Good
  BY <1>0, <1>4 DEF Enter, Idle, InKernel
<1>5. ASSUME AddProcess(q) PROVE Good
  <2> DEFINE t == call[q].target
             c == [Idle EXCEPT !.op = "boot", !.at = "user", !.target = t]
             d == [Idle EXCEPT !.at = "none"]
  <2>1. c.op # "fork" /\ d.op # "fork" /\ Idle.op # "fork"
    BY DEF Idle
  <2>2. call' = [call EXCEPT ![q] = d, ![t] = c] \/ call' = [call EXCEPT ![q] = Idle, ![t] = Idle]
    BY <1>5 DEF AddProcess
  <2> HIDE DEF t, c, d
  <2> QED BY <1>0, <2>1, <2>2
<1>6. ASSUME NEW s, Advance(q, s), call[q].op \in {"fork", "exec", "boot"} PROVE Good
  <2>1. CASE LastPage(q)
    BY <1>3, <1>5, <1>6, <2>1 DEF Advance
  <2>2. CASE ~LastPage(q)
    <3>1. call' = [call EXCEPT ![q].at = "user", ![q].found = NONE, ![q].i = @ + 1]
      BY <1>6, <2>2 DEF Advance
    <3> QED BY <1>0, <3>1 DEF InKernel, CallType
  <2> QED BY <2>1, <2>2
<1>7. call[q].at \in {"user", "table"} => call[q].op \in {"fork", "exec", "boot"}
  BY DEF IInv, Fine, CallAgrees
<1>8. CASE Calls(q)
  <2>1. CASE Exit(q)
    <3>1. call' = [call EXCEPT ![q].at = "zombie"] /\ call[q].at = "user_mode"
      BY <2>1 DEF Exit
    <3>2. call[q].op # "fork"
      BY <3>1 DEF ForksInside, InKernel
    <3>3. Good
      BY <1>0, <3>1, <3>2 DEF CallType
    <3> QED BY <3>3 DEF ForksInside, InKernel
  <2>2. CASE ~Exit(q)
    <3>1. Good
      BY <1>4, <1>8, <2>2 DEF Calls, CallMalloc, CallOpen, CallClose, CallFork
    <3> QED BY <3>1 DEF ForksInside, InKernel
  <2> QED BY <2>1, <2>2
<1>9. CASE Steps(q)
  <2>1. CASE FindPage(q)
    <3>1. Good
      BY <1>0, <2>1 DEF FindPage, AllocSites, InKernel, CallType
    <3> QED BY <3>1 DEF ForksInside, InKernel
  <2>2. CASE NewPcb(q) \/ NewUserPage(q) \/ NoUserPage(q) \/ map_table(q)
    <3>1. /\ {"user", "table", "wild"} \subseteq Sites \ {"none", "user_mode", "zombie"}
          /\ NewPcb(q) => Goto(q, "user") \/ AddProcess(q)
          /\ NewUserPage(q) => Goto(q, "table") \/ (call[q].at = "user" /\ \E s : Advance(q, s))
          /\ NoUserPage(q) => AddProcess(q) \/ (call[q].at = "user" /\ \E s : Advance(q, s))
          /\ map_table(q) => Goto(q, "table") \/ Goto(q, "wild") \/ (call[q].at = "table" /\ \E s : Advance(q, s))
      BY DEF Sites, AllocSites, NewPcb, NewUserPage, NoUserPage, map_table, AddUserPage, TakePage
    <3>2. Good
      BY <1>2, <1>5, <1>6, <1>7, <2>2, <3>1
    <3> QED BY <3>2 DEF ForksInside, InKernel
  <2>3. CASE ~(FindPage(q) \/ NewPcb(q) \/ NewUserPage(q) \/ NoUserPage(q) \/ map_table(q))
    <3>1. Return(q) \/ \E site \in Sites \ {"none", "user_mode", "zombie"} : Goto(q, site)
      <4>1. {"open", "wild", "resource", "buffer", "unmap", "close", "read", "release", "user"}
              \subseteq Sites \ {"none", "user_mode", "zombie"}
        BY DEF Sites, AllocSites
      <4>2. CASE syscall_malloc(q) \/ NewFile(q) \/ FatOpen(q) \/ FatOpenFails(q)
        BY <4>1, <4>2 DEF syscall_malloc, NewFile, FatOpen, FatOpenFails
      <4>3. CASE NewResource(q)
        <5>1. call[q].op \in {"open", "exec"}
          BY <4>3 DEF NewResource, TakePage, IInv, Fine, CallAgrees
        <5> QED BY <4>1, <4>3, <5>1 DEF NewResource
      <4>4. CASE FatClose(q)
        BY <4>1, <4>4 DEF FatClose
      <4>5. CASE FatCloseFails(q) \/ syscall_close_file(q)
        <5>1. call[q].op \in {"close", "exec"} /\ AfterClose(q)
          BY <4>5 DEF FatCloseFails, syscall_close_file, TakePage, IInv, Fine, CallAgrees
        <5> QED BY <4>1, <5>1 DEF AfterClose
      <4>6. CASE ExecBuffer(q) \/ ExecRead(q) \/ ExecTooLarge(q) \/ ExecUnmap(q) \/ NewPcbFails(q)
        BY <4>1, <4>6 DEF ExecBuffer, ExecRead, ExecTooLarge, ExecUnmap, NewPcbFails
      <4> QED BY <1>9, <2>3, <4>2, <4>3, <4>4, <4>5, <4>6 DEF Steps
    <3>2. Good
      BY <1>2, <1>3, <3>1
    <3> QED BY <3>2 DEF ForksInside, InKernel
  <2> QED BY <2>1, <2>2, <2>3
<1> QED BY <1>1, <1>8, <1>9

LEMMA ForkStepCopies ==
  ASSUME IInv, LInv, ForksInside, ~PREEMPTIVE, Next,
         NEW p \in Procs, call[p].op = "fork", n_processes' = n_processes + 1
  PROVE  n_user_pages'[call[p].target] = n_user_pages[p] \/ Free = {}
<1>0. n_processes \in Nat /\ n_processes' # n_processes
  BY DEF IInv, TypeOK
<1>1. PICK q \in Procs : Calls(q) \/ Steps(q)
  BY DEF Next
<1>2. NewPcb(q) \/ NewUserPage(q) \/ NoUserPage(q) \/ map_table(q)
  BY <1>0, <1>1 DEF Calls, Steps, CallMalloc, CallOpen, CallClose, CallFork, Exit, Enter, FindPage, syscall_malloc,
     NewFile, FatOpen, FatOpenFails, NewResource, FatClose, FatCloseFails, syscall_close_file, ExecBuffer, ExecRead,
     ExecTooLarge, ExecUnmap, NewPcbFails
<1>3. q = p
  <2>1. Turn(q)
    BY <1>2 DEF NewPcb, NewUserPage, NoUserPage, map_table, TakePage
  <2> QED BY <2>1, Alone DEF ForksInside
<1>4. CASE NewPcb(p)
  <2>1. TakePage(p, "pcb") /\ call[p].found # NULL /\ ~(n_user_pages[p] > 0)
    BY <1>0, <1>4 DEF NewPcb
  <2>2. Stage(p) /\ call[p].at = "pcb" /\ call[p].found = FirstIn(memory_pages)
    BY <2>1, TakesFirst DEF LInv
  <2>3. Rested /\ Free # {} /\ p # 0
    BY <2>1, <2>2, FreeIs DEF Stage, FirstIn, LInv, Booting
  <2>4. Equipped(p)
    BY <2>2, <2>3, UserPid DEF Rested, Provided
  <2> QED BY <2>1, <2>4, Sizes DEF Equipped
<1>5. CASE NoUserPage(p)
  <2>1. TakePage(p, call[p].at) /\ call[p].found = NULL /\ InLoop(p)
    BY <1>5 DEF NoUserPage, TakePage, InLoop
  <2> QED BY <2>1, LoopTake
<1>6. CASE NewUserPage(p) \/ map_table(p)
  <2>1. PICK s, page : AddUserPage(p, s, page)
    BY <1>0, <1>6 DEF NewUserPage, map_table
  <2>2. TakePage(p, call[p].at) /\ InLoop(p)
    BY <1>6 DEF NewUserPage, map_table, TakePage, InLoop
  <2>3. LastPage(p)
    BY <1>0, <2>1 DEF AddUserPage, Advance
  <2>4. PICK t \in Procs : t = call[p].target
    BY DEF IInv, TypeOK
  <2>5. n_user_pages[t] = call[p].i - 1 /\ call[p].i \in Nat /\ call[p].i = n_user_pages[p]
    BY <2>2, <2>3, <2>4, LoopTake DEF LastPage
  <2>6. n_user_pages'[t] = n_user_pages[t] + 1
    BY <2>1, <2>4 DEF AddUserPage, IInv, TypeOK
  <2> QED BY <2>4, <2>5, <2>6
<1> QED BY <1>2, <1>3, <1>4, <1>5, <1>6

(* When fork registers the child, all pages of the parent have been copied,
   unless copy_virtual_memory, whose result copy_process ignores, has found
   that the machine has no page left. *)
THEOREM ForksCopyAll ==
  ASSUME ~PREEMPTIVE
  PROVE  Spec => ForkCopiesAll
<1>1. Init => ForksInside
  BY DEF Init, ForksInside, Idle
<1>2. IInv /\ LInv /\ ForksInside /\ [Next]_vars => ForksInside'
  <2>1. ASSUME UNCHANGED vars, ForksInside PROVE ForksInside'
    BY <2>1 DEF vars, ForksInside, InKernel
  <2> QED BY <2>1, ForksInsideStep
<1> DEFINE A == \A p \in Procs : call[p].op = "fork" /\ n_processes' = n_processes + 1
                  => n_user_pages'[call[p].target] = n_user_pages[p] \/ Free = {}
<1>3. IInv /\ LInv /\ ForksInside /\ [Next]_vars => [A]_vars
  BY ForkStepCopies
<1>4. Spec => [][A]_vars
  <2> HIDE DEF A
  <2> QED BY <1>1, <1>2, <1>3, AlwaysLInv, PTL DEF Spec
<1> QED BY <1>4 DEF ForkCopiesAll

=============================================================================
