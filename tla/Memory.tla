------------------------------- MODULE Memory -------------------------------
(***************************************************************************)
(* The page allocator of libs/mm.c and the kernel code that holds pages:   *)
(* process creation (libs/fork.c), the descriptor table of a process and   *)
(* exec (libs/syscalls.c).  A system call runs with interrupts enabled, so *)
(* under a preemptive algorithm a tick may let another process in between  *)
(* any two of its steps; get_free_page is therefore two steps, the test of *)
(* a page and the mark.  copy_process runs with preemption disabled.       *)
(*                                                                         *)
(* A page is a number 1..N_PAGES, 0 is the address NULL.  Every place of   *)
(* the kernel's data that holds the address of a page is a slot            *)
(* <<process, field, index>>, and slot[s] is the page it holds.            *)
(***************************************************************************)
EXTENDS Integers, FiniteSets, FiniteSetsExt

CONSTANTS
  N_PAGES,                \* pages between LOW_MEMORY and HIGH_MEMORY
  N_PROCESSES,            \* entries of processes[]
  MAX_PROCESS_PAGES,      \* entries of user_pages[] and of kernel_pages[]
  CODE_PAGES,             \* pages copy_code maps, 16
  LEVELS,                 \* levels of the page table, 4
  MAX_FILES_PER_PROCESS,  \* entries of files[]
  MAX_HEAP,               \* bound: malloc calls of a process that we follow
  PREEMPTIVE              \* is_preemptive() of the algorithm in use

ASSUME MemoryAssumption ==
  /\ {N_PAGES, N_PROCESSES, MAX_PROCESS_PAGES, CODE_PAGES, LEVELS,
      MAX_FILES_PER_PROCESS, MAX_HEAP} \subseteq Nat \ {0}
  /\ N_PROCESSES > 1
  /\ CODE_PAGES <= MAX_PROCESS_PAGES
  /\ LEVELS <= MAX_PROCESS_PAGES
  /\ PREEMPTIVE \in BOOLEAN

VARIABLES
  memory_pages,  \* page -> 0 when it is free, 1 when it is not
  slot,          \* slot -> the page whose address it holds, or NULL
  n_user_pages,  \* process -> entries of mm.user_pages in use
  n_kernel_pages,\* process -> entries of mm.kernel_pages in use
  n_processes,   \* processes created so far, the next pid
  call,          \* process -> the system call it is in, and where
  lost           \* pages still marked although no slot holds them any more

vars == <<memory_pages, slot, n_user_pages, n_kernel_pages, n_processes, call, lost>>

NULL == 0
NONE == -1
Pages == 1 .. N_PAGES
Procs == 0 .. N_PROCESSES - 1
Fds == 0 .. MAX_FILES_PER_PROCESS - 1

(* "new" is the File or Dir a call is opening, "page" the page it is mapping,
   "buffer" the one exec reads the program into: local variables of a call. *)
Slots ==
  (Procs \X {"pcb", "new", "page", "buffer"} \X {0})
    \cup (Procs \X {"user", "table"} \X (1 .. MAX_PROCESS_PAGES))
    \cup (Procs \X {"resource", "file"} \X Fds)
    \cup (Procs \X {"heap"} \X (1 .. MAX_HEAP))

(* Where a call waits for the page it is about to get. *)
AllocSites == {"malloc", "new", "resource", "close", "buffer", "pcb", "user", "table"}
Sites == AllocSites \cup {"none", "user_mode", "zombie", "wild", "open", "read", "release", "unmap"}
Ops == {"none", "malloc", "open", "close", "exec", "fork", "kthread", "boot"}

Idle == [op |-> "none", at |-> "user_mode", found |-> NONE, fd |-> 0, target |-> 0, i |-> 1]

TypeOK ==
  /\ memory_pages \in [Pages -> {0, 1}]
  /\ slot \in [Slots -> Pages \cup {NULL}]
  /\ n_user_pages \in [Procs -> 0 .. MAX_PROCESS_PAGES]
  /\ n_kernel_pages \in [Procs -> 0 .. MAX_PROCESS_PAGES]
  /\ n_processes \in 1 .. N_PROCESSES
  /\ call \in [Procs -> [op : Ops, at : Sites, found : Pages \cup {NULL, NONE},
                         fd : Fds, target : Procs, i : 1 .. MAX_PROCESS_PAGES]]
  /\ lost \subseteq Pages

(* kernel_main, as the init process, creates the kernel process before it
   starts the timer; no page is in use yet. *)
Init ==
  /\ memory_pages = [i \in Pages |-> 0]
  /\ slot = [s \in Slots |-> NULL]
  /\ n_user_pages = [p \in Procs |-> 0]
  /\ n_kernel_pages = [p \in Procs |-> 0]
  /\ n_processes = 1
  /\ call = [p \in Procs |-> IF p = 0 THEN [Idle EXCEPT !.op = "kthread", !.at = "pcb",
                                                               !.target = 1]
                                      ELSE [Idle EXCEPT !.at = "none"]]
  /\ lost = {}

-----------------------------------------------------------------------------
(* The allocator and the slots *)

InKernel(p) == call[p].at \notin {"none", "user_mode", "zombie"}

(* p may take a step: nobody else is inside the kernel, or the tick may have
   taken the CPU from those who are. *)
Turn(p) ==
  \A q \in Procs \ {p} :
    InKernel(q) => PREEMPTIVE /\ call[q].op # "fork" /\ call[q].at # "wild"

Free == {i \in Pages : memory_pages[i] = 0}

(* get_free_page, first step: the first page that is not marked, or NULL. *)
FindPage(p) ==
  /\ Turn(p)
  /\ call[p].at \in AllocSites
  /\ call[p].found = NONE
  /\ call' = [call EXCEPT ![p].found = IF Free = {} THEN NULL ELSE Min(Free)]
  /\ UNCHANGED <<memory_pages, slot, n_user_pages, n_kernel_pages, n_processes, lost>>

(* get_free_page, second step, at the place of the call that asked. *)
TakePage(p, site) ==
  /\ Turn(p)
  /\ call[p].at = site
  /\ call[p].found # NONE
  /\ memory_pages' = [i \in Pages |-> IF i = call[p].found THEN 1 ELSE memory_pages[i]]

free_page(mem, page) == [mem EXCEPT ![page] = 0]

(* The call of p goes on at site, or returns to the user program. *)
Goto(p, site) == call' = [call EXCEPT ![p].at = site, ![p].found = NONE]
Return(p) == call' = [call EXCEPT ![p] = Idle]

(* A program makes a system call: fd is the descriptor the call is about,
   target the process whose memory it maps pages into. *)
Enter(p, op, site, fd, target) ==
  /\ Turn(p)
  /\ call[p].at = "user_mode"
  /\ call' = [call EXCEPT ![p] = [Idle EXCEPT !.op = op, !.at = site,
                                               !.fd = fd, !.target = target]]
  /\ UNCHANGED <<memory_pages, slot, n_user_pages, n_kernel_pages, n_processes, lost>>

-----------------------------------------------------------------------------
(* malloc *)

CallMalloc(p) ==
  /\ \E k \in 1 .. MAX_HEAP : slot[<<p, "heap", k>>] = NULL
  /\ Enter(p, "malloc", "malloc", 0, 0)

syscall_malloc(p) ==
  /\ TakePage(p, "malloc")
  /\ LET k == Min({i \in 1 .. MAX_HEAP : slot[<<p, "heap", i>>] = NULL})
     IN slot' = [slot EXCEPT ![<<p, "heap", k>>] = call[p].found]
  /\ Return(p)
  /\ UNCHANGED <<n_user_pages, n_kernel_pages, n_processes, lost>>

-----------------------------------------------------------------------------
(* create_dir, open_dir and open_file; exec begins with open_file *)

FreeFds(p) == {fd \in Fds : slot[<<p, "resource", fd>>] = NULL}
get_first_free_file_descriptor(p) == Min(FreeFds(p))

CallOpen(p, op) ==
  /\ FreeFds(p) # {}
  /\ Enter(p, op, "new", get_first_free_file_descriptor(p), p)

NewFile(p) ==
  /\ TakePage(p, "new")
  /\ slot' = [slot EXCEPT ![<<p, "new", 0>>] = call[p].found]
  /\ Goto(p, "open")
  /\ UNCHANGED <<n_user_pages, n_kernel_pages, n_processes, lost>>

(* The file system opens the path. *)
FatOpen(p) ==
  /\ Turn(p)
  /\ call[p].at = "open"
  /\ Goto(p, "resource")
  /\ UNCHANGED <<memory_pages, slot, n_user_pages, n_kernel_pages, n_processes, lost>>

(* Mutant: the page of the File is not given back. *)
FatOpenFailsKeepsPage(p) ==
  /\ Turn(p)
  /\ call[p].at = "open"
  /\ slot' = [slot EXCEPT ![<<p, "new", 0>>] = NULL]
  /\ Return(p)
  /\ UNCHANGED <<memory_pages, n_user_pages, n_kernel_pages, n_processes, lost>>

(* It refuses: the page is given back.  free_page(NULL) writes far outside
   memory_pages: from there on ("wild") the code defines nothing. *)
FatOpenFails(p) ==
  /\ Turn(p)
  /\ call[p].at = "open"
  /\ IF slot[<<p, "new", 0>>] = NULL
     THEN Goto(p, "wild") /\ UNCHANGED <<memory_pages, slot>>
     ELSE /\ memory_pages' = free_page(memory_pages, slot[<<p, "new", 0>>])
          /\ slot' = [slot EXCEPT ![<<p, "new", 0>>] = NULL]
          /\ Return(p)
  /\ UNCHANGED <<n_user_pages, n_kernel_pages, n_processes, lost>>

(* The descriptor gets its FatResource.  When no page is left files[fd] stays
   NULL, its fields are written through NULL and nothing holds the File; exec
   then reads files[fd]->f through NULL as well. *)
NewResource(p) ==
  LET page == call[p].found
      fd   == call[p].fd
      file == slot[<<p, "new", 0>>]
  IN /\ TakePage(p, "resource")
     /\ slot' = [slot EXCEPT ![<<p, "new", 0>>] = NULL,
                             ![<<p, "resource", fd>>] = page,
                             ![<<p, "file", fd>>] = IF page = NULL THEN NULL ELSE file]
     /\ lost' = IF page = NULL THEN lost \cup ({file} \ {NULL}) ELSE lost
     /\ CASE call[p].op = "open" -> Return(p)
          [] call[p].op = "exec" -> Goto(p, IF page = NULL THEN "wild" ELSE "buffer")
     /\ UNCHANGED <<n_user_pages, n_kernel_pages, n_processes>>

-----------------------------------------------------------------------------
(* close_file, called by a program, or by exec on the file it has read.  A
   program closes only what it has open: through a closed or an unused
   descriptor the kernel follows a pointer it reads from user memory. *)

IsOpen(p, fd) == slot[<<p, "resource", fd>>] # NULL /\ slot[<<p, "file", fd>>] # NULL

CallClose(p, fd) == IsOpen(p, fd) /\ Enter(p, "close", "release", fd, p)

AfterClose(p) ==
  CASE call[p].op = "close" -> Return(p)
    [] call[p].op = "exec"  -> Goto(p, "unmap")

(* Mutant: the page of the File is freed although the descriptor stays. *)
FatCloseFailsFrees(p) ==
  /\ Turn(p)
  /\ call[p].at = "release"
  /\ memory_pages' = free_page(memory_pages, slot[<<p, "file", call[p].fd>>])
  /\ AfterClose(p)
  /\ UNCHANGED <<slot, n_user_pages, n_kernel_pages, n_processes, lost>>

(* fat_file_close fails: the descriptor stays as it is. *)
FatCloseFails(p) ==
  /\ Turn(p)
  /\ call[p].at = "release"
  /\ AfterClose(p)
  /\ UNCHANGED <<memory_pages, slot, n_user_pages, n_kernel_pages, n_processes, lost>>

FatClose(p) ==
  LET file == <<p, "file", call[p].fd>>
  IN /\ Turn(p)
     /\ call[p].at = "release"
     /\ memory_pages' = free_page(memory_pages, slot[file])
     /\ slot' = [slot EXCEPT ![file] = NULL]
     /\ Goto(p, "close")
     /\ UNCHANGED <<n_user_pages, n_kernel_pages, n_processes, lost>>

(* Mutant: the descriptor's page is freed and the slot emptied. *)
CloseLeavesHole(p) ==
  LET resource == <<p, "resource", call[p].fd>>
  IN /\ Turn(p)
     /\ call[p].at = "close"
     /\ memory_pages' = free_page(memory_pages, slot[resource])
     /\ slot' = [slot EXCEPT ![resource] = NULL]
     /\ AfterClose(p)
     /\ UNCHANGED <<n_user_pages, n_kernel_pages, n_processes, lost>>

(* The descriptor gets a fresh FatResource instead of NULL, and nothing
   holds the old one any more. *)
syscall_close_file(p) ==
  LET resource == <<p, "resource", call[p].fd>>
  IN /\ TakePage(p, "close")
     /\ slot' = [slot EXCEPT ![resource] = call[p].found]
     /\ lost' = lost \cup ({slot[resource]} \ {NULL})
     /\ AfterClose(p)
     /\ UNCHANGED <<n_user_pages, n_kernel_pages, n_processes>>

-----------------------------------------------------------------------------
(* exec, after its open_file: a buffer, the program, close_file, and then the
   memory of the process is replaced *)

ExecBuffer(p) ==
  /\ TakePage(p, "buffer")
  /\ slot' = [slot EXCEPT ![<<p, "buffer", 0>>] = call[p].found]
  /\ Goto(p, "read")
  /\ UNCHANGED <<n_user_pages, n_kernel_pages, n_processes, lost>>

(* read_file fills up to CODE_PAGES pages from the buffer on, which is one
   page: see OverrunHarmless. *)
ExecRead(p) ==
  /\ Turn(p)
  /\ call[p].at = "read"
  /\ Goto(p, "release")
  /\ UNCHANGED <<memory_pages, slot, n_user_pages, n_kernel_pages, n_processes, lost>>

DropBuffer(p, s) ==
  /\ slot' = [s EXCEPT ![<<p, "buffer", 0>>] = NULL]
  /\ lost' = lost \cup ({s[<<p, "buffer", 0>>]} \ {NULL})

(* The file has no room for the stack after it. *)
ExecTooLarge(p) ==
  /\ Turn(p)
  /\ call[p].at = "unmap"
  /\ DropBuffer(p, slot)
  /\ Return(p)
  /\ UNCHANGED <<memory_pages, n_user_pages, n_kernel_pages, n_processes>>

UserSlots(p) == {<<p, "user", i>> : i \in 1 .. n_user_pages[p]}

(* Mutant: n_user_pages is not counted down. *)
ExecUnmapKeepsCount(p) ==
  /\ Turn(p)
  /\ call[p].at = "unmap"
  /\ LET old == {slot[u] : u \in UserSlots(p)}
     IN memory_pages' = [i \in Pages |-> IF i \in old THEN 0 ELSE memory_pages[i]]
  /\ slot' = [u \in Slots |-> IF u \in UserSlots(p) THEN NULL ELSE slot[u]]
  /\ Goto(p, "user")
  /\ UNCHANGED <<n_user_pages, n_kernel_pages, n_processes, lost>>

ExecUnmap(p) ==
  /\ Turn(p)
  /\ call[p].at = "unmap"
  /\ LET old == {slot[u] : u \in UserSlots(p)}
     IN memory_pages' = [i \in Pages |-> IF i \in old THEN 0 ELSE memory_pages[i]]
  /\ slot' = [u \in Slots |-> IF u \in UserSlots(p) THEN NULL ELSE slot[u]]
  /\ n_user_pages' = [n_user_pages EXCEPT ![p] = 0]
  /\ Goto(p, "user")
  /\ UNCHANGED <<n_kernel_pages, n_processes, lost>>

-----------------------------------------------------------------------------
(* copy_process, and the loops that give a process its memory: copy_code for
   exec and for the kernel process, copy_virtual_memory for fork *)

CallFork(p) ==
  Enter(p, "fork", "pcb", 0, IF n_processes < N_PROCESSES THEN n_processes ELSE p)

(* The process table is full: the page of the PCB is not given back. *)
NewPcbFails(p) ==
  /\ TakePage(p, "pcb")
  /\ call[p].found = NULL \/ n_processes >= N_PROCESSES
  /\ lost' = lost \cup ({call[p].found} \ {NULL})
  /\ Return(p)
  /\ UNCHANGED <<slot, n_user_pages, n_kernel_pages, n_processes>>

(* The child is registered: it begins in user mode where its parent is, and
   the kernel process begins with move_to_user_mode. *)
AddProcess(p) ==
  LET child == call[p].target
  IN /\ n_processes' = n_processes + 1
     /\ call' = IF call[p].op = "kthread"
                THEN [call EXCEPT ![p] = [Idle EXCEPT !.at = "none"],
                                  ![child] = [Idle EXCEPT !.op = "boot", !.at = "user",
                                                          !.target = child]]
                ELSE [call EXCEPT ![p] = Idle, ![child] = Idle]

NewPcb(p) ==
  /\ TakePage(p, "pcb")
  /\ call[p].found # NULL
  /\ n_processes < N_PROCESSES
  /\ slot' = [slot EXCEPT ![<<call[p].target, "pcb", 0>>] = call[p].found]
  /\ IF call[p].op = "fork" /\ n_user_pages[p] > 0
     THEN Goto(p, "user") /\ UNCHANGED n_processes
     ELSE AddProcess(p)
  /\ UNCHANGED <<n_user_pages, n_kernel_pages, lost>>

(* Mutant: fork leaves out the last page. *)
LastPageButOne(p) ==
  call[p].i = IF call[p].op = "fork" THEN n_user_pages[p] - 1 ELSE CODE_PAGES

LastPage(p) ==
  call[p].i = IF call[p].op = "fork" THEN n_user_pages[p] ELSE CODE_PAGES

(* The loop goes on, or ends, with the slots as in s. *)
Advance(p, s) ==
  IF ~LastPage(p)
  THEN /\ slot' = s
       /\ call' = [call EXCEPT ![p].at = "user", ![p].found = NONE, ![p].i = @ + 1]
       /\ UNCHANGED <<n_processes, lost>>
  ELSE CASE call[p].op = "fork" -> slot' = s /\ AddProcess(p) /\ UNCHANGED lost
         [] call[p].op = "exec" -> DropBuffer(p, s) /\ Return(p) /\ UNCHANGED n_processes
         [] call[p].op = "boot" -> slot' = s /\ Return(p) /\ UNCHANGED <<n_processes, lost>>

(* No page left: copy_virtual_memory stops and its result is ignored,
   copy_code goes on with the next page (what it copies for this one then
   lands in the first page of the process). *)
NoUserPage(p) ==
  /\ TakePage(p, "user")
  /\ call[p].found = NULL
  /\ IF call[p].op = "fork"
     THEN AddProcess(p) /\ UNCHANGED <<slot, lost>>
     ELSE Advance(p, slot)
  /\ UNCHANGED <<n_user_pages, n_kernel_pages>>

(* user_pages[n_user_pages++] = page *)
AddUserPage(p, s, page) ==
  LET t == call[p].target
      n == n_user_pages[t] + 1
  IN /\ n_user_pages' = [n_user_pages EXCEPT ![t] = n]
     /\ Advance(p, [s EXCEPT ![<<p, "page", 0>>] = NULL, ![<<t, "user", n>>] = page])

(* map_page: every page a process ever maps is below the 16th, so the tables
   above it are created once, with the first page. *)
NewUserPage(p) ==
  /\ TakePage(p, "user")
  /\ call[p].found # NULL
  /\ IF n_kernel_pages[call[p].target] < LEVELS
     THEN /\ slot' = [slot EXCEPT ![<<p, "page", 0>>] = call[p].found]
          /\ Goto(p, "table")
          /\ UNCHANGED <<n_user_pages, n_processes, lost>>
     ELSE AddUserPage(p, slot, call[p].found)
  /\ UNCHANGED n_kernel_pages

(* The page of a table: kernel_pages[n_kernel_pages++].  The result of
   get_free_page is not looked at: NULL makes physical page 0 a table. *)
map_table(p) ==
  LET t == call[p].target
      n == n_kernel_pages[t] + 1
      s == [slot EXCEPT ![<<t, "table", n>>] = call[p].found]
  IN /\ TakePage(p, "table")
     /\ n_kernel_pages' = [n_kernel_pages EXCEPT ![t] = n]
     /\ CASE call[p].found = NULL -> /\ slot' = s
                                     /\ Goto(p, "wild")
                                     /\ UNCHANGED <<n_user_pages, n_processes, lost>>
          [] call[p].found # NULL /\ n < LEVELS ->
               slot' = s /\ Goto(p, "table") /\ UNCHANGED <<n_user_pages, n_processes, lost>>
          [] OTHER -> AddUserPage(p, s, slot[<<p, "page", 0>>])

(* exit gives no page back: the process stays in processes[]. *)
Exit(p) ==
  /\ Turn(p)
  /\ call[p].at = "user_mode"
  /\ call' = [call EXCEPT ![p].at = "zombie"]
  /\ UNCHANGED <<memory_pages, slot, n_user_pages, n_kernel_pages, n_processes, lost>>

-----------------------------------------------------------------------------
Calls(p) ==
  \/ CallMalloc(p)
  \/ CallOpen(p, "open")
  \/ CallOpen(p, "exec")
  \/ \E fd \in Fds : CallClose(p, fd)
  \/ CallFork(p)
  \/ Exit(p)

Steps(p) ==
  \/ FindPage(p)
  \/ syscall_malloc(p)
  \/ NewFile(p) \/ FatOpen(p) \/ FatOpenFails(p) \/ NewResource(p)
  \/ FatClose(p) \/ FatCloseFails(p) \/ syscall_close_file(p)
  \/ ExecBuffer(p) \/ ExecRead(p) \/ ExecTooLarge(p) \/ ExecUnmap(p)
  \/ NewPcb(p) \/ NewPcbFails(p)
  \/ NewUserPage(p) \/ NoUserPage(p) \/ map_table(p)

Next == \E p \in Procs : Calls(p) \/ Steps(p)

Spec == Init /\ [][Next]_vars

-----------------------------------------------------------------------------
(* Properties *)

Held == {slot[s] : s \in Slots} \ {NULL}

(* No two places of the kernel hold the same page, and a page somebody holds
   is marked: get_free_page never hands it out again. *)
OwnedOnce ==
  /\ \A s, t \in Slots : slot[s] = slot[t] /\ slot[s] # NULL => s = t
  /\ \A s \in Slots : slot[s] # NULL => memory_pages[slot[s]] = 1

(* Every marked page is held by somebody, or is one of those that close_file,
   exec and a failed fork forget: no other path of the code leaks a page. *)
Accounted == {i \in Pages : memory_pages[i] = 1} = Held \cup lost /\ Held \cap lost = {}

(* exec reads a program of up to CODE_PAGES pages into a buffer of one page.
   The pages after the buffer are free whenever it does so, because the
   allocator takes the first free page and no call leaves a hole below a page
   in use; and copy_code never gets one of them for the new memory, because
   the pages the process has just given up come first. *)
Overrun(p) ==
  LET buffer == slot[<<p, "buffer", 0>>] IN buffer + 1 .. buffer + CODE_PAGES - 1

OverrunHarmless ==
  \A p \in Procs :
    call[p].op = "exec" /\ slot[<<p, "buffer", 0>>] # NULL
      => /\ call[p].at = "read" => \A i \in Overrun(p) \cap Pages : memory_pages[i] = 0
         /\ call[p].at = "user" => call[p].found \notin Overrun(p)

(* A fork that succeeds copies every page of its parent, unless the machine
   has run out of pages. *)
ForkCopiesAll ==
  [][\A p \in Procs :
       call[p].op = "fork" /\ n_processes' = n_processes + 1
         => n_user_pages'[call[p].target] = n_user_pages[p] \/ Free = {}]_vars

=============================================================================
