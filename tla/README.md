# demoOS in TLA+

demoOS is a bare-metal kernel for one core of a Raspberry Pi 3B. This directory models the parts of it
whose correctness depends on the order in which things happen, checks them with TLC on small instances,
and proves the central invariants with TLAPS for all instances. `PROJECT.json` lists the components, the
runs, the mutants, the lines of source behind every definition, the hazards and the theorems.

## 1. Inventory

| Part | State | Operations | Meets |
| --- | --- | --- | --- |
| Scheduler, `libs/scheduler.c` | `processes[]`, `current_process`, ready queues (one list, or one per level), `queue_level[]`, the boost counter, in each PCB state, counter, priority, tickets, burst estimate, `preempt_disabled`, pending signals | seven algorithms (round robin, FCFS, SJF, lottery, priority aging, MLQ, MLFQ), each with enqueue, pick and on_tick; `schedule`, `handle_timer_tick`, `handle_process_signals`, `switch_to_process`, `exit_process`, `sched_set_param` | every part that blocks or wakes a process |
| Process creation, `libs/fork.c` | a new PCB and its pages | `copy_process`, `move_to_user_mode`, `copy_code` | scheduler, memory |
| IPC, `libs/ipc.c` | a ring of messages and a word of pending signals in each PCB | `send_message`, `receive_message`, `push_message`, `pop_message`, `send_signal` | scheduler (block, wake), PCB layout |
| Console input, `drivers/uart/uart.c`, `libs/syscalls.c` | `uart_buffer`, `uart_head`, `uart_tail`, `uart_owner` | `handle_uart_irq`, `syscall_input` | scheduler, from interrupt and from system call |
| Memory, `libs/mm.c` | `memory_pages[]`, page tables, lists of pages in each PCB | `get_free_page`, `free_page`, `map_page`, `copy_virtual_memory`, `do_mem_abort` | fork, exec, file calls |
| File descriptors, `libs/syscalls.c`, `libs/filesystem.c` | `files[]` in each PCB | open, create, close, read, write, next entry | memory, FAT32 |
| FAT32, `libs/fat32/fat.c` (vendored) | one sector buffer, FAT, directory entries, free count | chains, files, directories | SD card |
| SD card, `drivers/sd/sd.c` | controller registers, `sd_err`, `sd_rca` | init, read and write of blocks, time-outs | polled hardware |
| Interrupts, `drivers/irq`, `drivers/timer` | saved registers | entry and exit, dispatch, re-arming the timer | scheduler, UART |
| Framebuffer, mailbox, boot, shell and tests, string library | - | drawing, register access, start-up, parsing | - |

What is hard. System calls run with interrupts enabled (`el0_svc`), so the timer and the UART can
interrupt them at every instruction. Under the five preemptive algorithms another process may then run;
only `copy_process`, `exit_process` and the pick functions raise `preempt_disabled`. Under FCFS and SJF a
user process is never preempted, but interrupt handlers still run in the middle of it. Everything that
blocks does so in two or three separate assignments (test, set the state, call `schedule`), and whoever
wakes it looks at the state only. The timer handler itself moves processes between queues (MLFQ boost),
also while a pick function is scanning them.

Below the system calls, storage fails in pieces. A page is found and marked in two steps. The FAT library
changes a volume through one sector buffer, so that a link, a mark and a count reach the card at different
times, and any of the accesses may fail. The SD driver polls with countdowns: an answer may come after it
has given up.

What makes each part correct: one process has the CPU and it is the one that is RUNNING; the ready queues
hold the READY processes and nobody else; nobody runnable starves; who blocks is woken; signals take
effect; a message sent is received once and in order; a line typed is a line read; a page has one owner; a
descriptor names one open resource; a chain of clusters is not shared or lost when a write fails.

## 2. Modules

| Module | What it is |
| --- | --- |
| `Scheduler` | `libs/scheduler.c` with fork, yield, wait, exit, send_signal and set_sched_param; its properties |
| `Lifecycle` | abstract specification: what may happen to a process |
| `MCScheduler` | constants of `Scheduler` for TLC |
| `QueueLemmas` | facts the proofs share: queues (insert, remove, concatenate), induction up to a number, loops, rings |
| `SchedulerProofs` | theorems about `Scheduler`: who runs, who is queued, the refinement of `Lifecycle`; who is chosen, who waits, preemption counts, the lottery |
| `ReadyQueue` | the intrusive list behind a ready queue |
| `Ipc`, `MCIpc` | `libs/ipc.c` on top of `ReadyQueue` |
| `IpcProofs` | theorems about `Ipc` |
| `UartInput`, `MCUartInput` | console input |
| `UartInputProofs` | theorems about `UartInput` |
| `Memory`, `MCMemory` | `libs/mm.c`, and who holds a page: fork, exec, malloc, file descriptors |
| `MemoryProofs` | theorems about `Memory`: who owns a page, and where the pages in use lie |
| `FatChain`, `MCFatChain` | `libs/fat32/fat.c`: the window, the two copies of the FAT, cluster chains |
| `FatChainProofs` | theorems about `FatChain`: files, handles and copies through errors and power cuts |
| `FatFile`, `MCFatFile` | `libs/fat32/fat.c`: open files and their buffers |
| `FatFileProofs` | theorems about `FatFile`: chains, positions, and that no byte is lost |
| `FatDir`, `MCFatDir` | `libs/fat32/fat.c`: directories, long names, paths, listings |
| `SdCard`, `MCSdCard` | `drivers/sd/sd.c` with the controller and the card it talks to |
| `SdCardProofs` | theorems about `SdCard` |

Operators whose names extend that of the definition they precede (`UnlinkHead` before `Unlink`) are
mutants: plausible mistakes that a property must detect.

### Scheduler

The fields of the PCBs are functions from pid to value; `ready[l]` is the queue of level `l` (level 0 is
`ready_queue` for the algorithms with a single queue). `active_algorithm` is chosen in the initial state
from `ALGORITHMS` and never changes, as in the code. The initial state is the one `kernel_main` leaves when
it starts the timer: process 1 is READY and init idles.

`pc[p]` is where `p` continues when it next has the CPU. A step is a stretch of code that a tick either
cannot split or cannot be told to have split. `syscall_wait` is three steps (test, state, pid_to_wait)
because a tick between them matters; `copy_process` is one, because preemption is disabled and nothing it
writes is read by the tick. `schedule` and `_schedule` are separate because the counter is zero between
them. A pick function is entered (`EnterPick`), then takes one step per process it examines (`PickHead`,
`NextLevel`, `PickWinner`, `AgingSignal`, `PickBest`, `NewEpoch`) until it dispatches one or falls back to
init; one tick may fall between them (`ticked`: the timer is re-armed a whole period after each tick, which
is far longer than a pick). `Tick` is `handle_timer_tick` whole: accounting, `_multilevel_on_tick`, then
either back to the interrupted code or into a pick. The ready queues are sequences; unlinking from the
middle and sorted insertion are operators on them.

`preempt_disabled` is a counter per process as in the code, where the increment of the outgoing process is
undone by the same process when it is next switched in; the model makes the incoming process's decrement
part of the switch.

### Ipc

`head`, `tail` and `slot` are the ring of each PCB, with the index that the wrap test admits past the
array. A store there also writes what the PCB has behind the ring: pending signals are cleared (the stored
pointer is page aligned, so no signal bit is set) and `next_ready` becomes the destination itself. The
ready queue is therefore the linked list of `ReadyQueue`, not a sequence. `pid_to_wait` is overwritten too;
nobody waits for a process in this module. `sent` and `got` are history variables. Each test, store and
assignment of push and pop is a step; with `PREEMPTIVE` another process may run between any two. The loop
that wakes senders looks at `processes[i]` for all 64 entries, unused ones included, and reads through a
null pointer there; the model's processes all exist.

### UartInput

`handle_uart_irq(c)` may occur between any two steps of `syscall_input`, whatever the algorithm. A key is
dropped when the ring is full, and also by the receive time-out branch (`ReceiveTimeout`), which echoes the
FIFO and stores nothing. `accepted` and `lines` are history variables. One step of the reader takes one key
from the ring and edits the line. A process may also exit, so that the CPU idles in init while a reader
sleeps and the tick has to find it once a key has woken it.

### Memory

A page is a number, 0 is NULL. Every place of the kernel's data that holds the address of a page is a slot
`<<process, field, index>>`: the PCB itself, an entry of `user_pages`, a page table, a resource or a `File` of
a descriptor, a heap page, or a local variable of a call in progress (`new`, `page`, `buffer`). `slot[s]` is
the page it holds, so "two owners" is two slots with one page, and giving a page up is one slot becoming
NULL. `get_free_page` is two steps, `FindPage` (the test) and `TakePage` (the mark), because system calls are
interruptible; `Turn(p)` says who may take a step: anyone when `PREEMPTIVE`, otherwise only the process that
is inside the kernel, and always only that one during `copy_process`.

`call[p]` is the call a process is in: operation, place, the page found, the descriptor, the process that
receives the pages (`target`) and the loop counter. Fork, exec, malloc, open, create and close are the
operations, with every error return: no PCB page, no table, no page half-way through the copy, no free
descriptor, a failing file system. `lost` collects the pages that the code leaves marked and reachable from
nowhere: what close, exec and a failed fork forget. A call that writes through NULL becomes `wild` and stays
there: C says nothing of what follows. Initially `kernel_main` has not created the kernel process yet; init
(pid 0) creates it as pid 1, and it moves to user mode with `copy_code`.

### FatChain

`vol` is the struct `Fat` and the card: the window (one sector, its number, its dirty flag), free count,
`last_used`, and every sector as a row of numbers (both copies of the FAT, FsInfo, one directory row). A
function of the library maps a volume to the set of its outcomes, one of which, while `MAX_FAULTS` permits,
is an I/O error that leaves the window as the code does. `stretch_chain` is `StretchTry`, `StretchScan`,
`StretchMark`, `StretchLink` and `StretchFinish`; `remove_chain` is `RemoveStep`; creating, moving to the end,
closing and unlinking are their callers. `PowerCut` drops the window between any two steps. `hurt` is a
history: how many faults there were, and whether one hit a removal, which the library does not protect.

### FatFile

A handle has its cluster, the sector in its buffer, the buffer, the dirty flag, offset and size. One turn of
the loop of `fat_file_write` or `fat_file_read` is a step. The chains are those of `FatChain` without the
window: lengthening one takes some free cluster, finds none, or fails before or after the link is made.
`ghost` records what was written where, and which files a failed call or a second handle has touched.

### FatDir

A directory is its row of slots: unused, end mark, fragment of a long name, short entry. `dir_search` walks
the slots; `Create` is `fat_file_create` and `fat_dir_create` with the search for a run of unused slots, the
growth by a cluster and the writes in the code's order; `fat_unlink` refuses a directory that is not empty.
`OpenDir` and `syscall_get_next_entry` list a directory across system calls while others change it; the
directory that is being listed is not removed. Of several writes any may be the one that fails. Names are
model values, with the number of their fragments and their short name as constants; two of the names in the
run share a short name. `tree` and `hurt` are histories: after a removal that failed nothing is followed.

### SdCard

Every function of the driver is a fixed list of waits, commands and transfers that ends at the first failure:
`drv.todo` is what a call has still to do. A wait counts down while the register does not show what it waits
for; success in the last turn counts as a time-out, as in the code. `host` and `card` are external: they
answer when they like, with an error, late or never. `sure` records what successful writes stored, `late` that
a wait ran out.

## 3. Runs

Passing runs. Every action fires in at least one of them.

| Run | Instance | What it shows |
| --- | --- | --- |
| `preemptive` | round robin, lottery, aging; init and 2 user processes; quantum 2; KILL and STOP; failed forks | `TypeOK`, `RunningIsCurrent`, `ReadyIsQueuedOnce`, `IdleOnlyWhenNobodyReady`, `ImplementsLifecycle`; `ProportionalDraw` (a process wins for as many numbers as it has tickets); `AgingCapped` (the bonus of a blocked process never exceeds twice a priority) |
| `nonpreemptive` | FCFS, SJF; init and 3 user processes; bursts up to 2; STOP and RESUME | `WaitersWoken` (no lost wake-up of wait), `ShortestFirst` (the SJF queue is sorted by the estimates of now) |
| `multilevel` | MLQ, MLFQ; 3 levels; boost every 4 ticks | `LevelsAgree`, `StrictPriority` |
| `progress` | round robin, aging, MLFQ and FCFS under fairness | `PreemptionBalanced`, `NoStarvation`, `KillTakesEffect` (preemptive algorithms), `IdleEnds` (init gives way to a READY process) |
| `ipc` | 3 processes, rings of 2, 3 messages each, one of them killed at any time; FCFS | `Delivery`, `NobodySleepsInVain` |
| `input` | 2 readers, ring of 3, lines of 2, 6 keys; FCFS | `TypeOK`, `LinesAsTyped`, `OneReader` |
| `pages` | 17 pages, 3 processes, 3 pages of code, 2 descriptors; FCFS | `TypeOK` (no list of pages overruns its array); `OwnedOnce`; `Accounted` (no page is lost but by the three calls that forget one); `OverrunHarmless` (exec reads up to `CODE_PAGES` pages into a buffer of one: the pages behind it are free then); `ForkCopiesAll` |
| `chain` | 4 clusters, 2 copies of the FAT, 2 files, 2 faults or power cuts | `FilesIntact` (chains are whole and disjoint, in memory and on the card); `HandleInChain`; `CopiesAgree` (free count, FsInfo and mirror); `FullMeansFull`; `CallsReturn` |
| `file` | 3 clusters of 2 sectors of 2 bytes, 2 files, 2 handles, 2 writes, 1 fault | `InOwnChain`, `PositionAgrees`, `NothingLost` |
| `directory` | 3 names, 2 directories beside the root, clusters of 4 slots, 1 fault | `LookupExact`, `TreeSound`, `ListingComplete` |
| `sd` | 2 blocks, 2 values, countdowns of 2, 2 hardware errors | `ReadsRight` (never the late data of an earlier read), `WritesStay`, `CleanBetweenCalls`, `CallsReturn` |

One run ends in a violation; `PROJECT.json` quotes the line of the documentation it contradicts.

| Run | Property | What happens |
| --- | --- | --- |
| `input_lost` | `LineIsReturned` | ENTER arrives between the test of the ring and the block: the reader sleeps though its line is complete |

### Known deviations

The models reproduce the following behaviours of the code; the passing runs exclude them by a constant or
by a named exception in the property, never by leaving the behaviour out.

* Signals are handled only for processes in a ready queue. A STOPPED process is in none, so RESUME never
  takes effect.
* `copy_process` returns an error without `preempt_enable`: after a failed fork the caller is not preempted
  any more. `progress` has no failed forks.
* Under preemptive algorithms the awaited process may exit between the test and the block of wait;
  `WaitersWoken` is about the non-preemptive ones.
* A boost during the cascade moves everybody to a level already scanned, and init runs beside READY
  processes. `IdleOnlyWhenNobodyReady` is checked for the algorithms without boost.
* Under MLFQ a tick between `counter = 0` of a yield and the pick demotes the yielding process
  (`scheduler.c:760`, against the comment at `scheduler.c:661`).
* A message stored past the array of the ring overwrites pending signals, `pid_to_wait` and `next_ready` of the receiver.
* The owner of the console keeps it when it is killed; nobody reads after that.
* With `PREEMPTIVE = TRUE`, `Ipc` violates `Delivery` (two senders store in one slot), `UartInput` violates
  `OneReader`, and `Memory` violates `OwnedOnce` (two processes find the same page).
* `syscall_close_file` leaves a fresh resource in the descriptor, so the slot is never free again, and
  treats the `Dir` of a folder as a `File`.
* `stretch_chain` may return flags it never initialised; the model calls what follows `wild`, and
  `CallsReturn` of `FatChain` excepts it.
* An interrupted unlink can leave an entry that points to freed clusters: `FilesIntact` is about volumes on
  which no removal was interrupted.
* `fat_file_write` goes on after a failed seek, and `fat_file_sync` writes its size unconditionally, so a
  second handle on the same file overwrites the first one's; `NothingLost` excepts such files.
* A listing drops the entry in the last slot of a directory that has no end mark, because
  `fat_dir_next` fails before the entry is returned; `ListingComplete` names this one case.
* The loop that reads the SCR never counts down when the FIFO stays empty; `CallsReturn` of `SdCard` excepts
  it (`Spinning`). `sd_status` fails on a pending error without clearing it, so that after a time-out an
  error may outlive its call (`late` in `CleanBetweenCalls`).
* The FAT library has one window and no lock, and system calls that reach it are preemptible. `FatChain`,
  `FatFile` and `FatDir` let one call run at a time, as under FCFS and SJF.

### Bounds

`N_PROCESSES`: two user processes suffice for one to be interrupted by the other in any call; SJF has three
so that a queue with two entries is inserted into. `QUANTUM` 2 separates a tick that ends a slice from one
that does not (1 in `progress`). `MAX_OVERRUN` stops counting ticks past the end of a slice: nothing tells
them apart. `MAX_BURST` does the same for burst lengths. `MAX_LEAKS` bounds failed forks per process.
Three levels let a demotion skip neither first nor last level; the boost period is long enough for a
demotion between boosts. In `ipc` at most six messages reach one ring of two places (three indices), so it
fills, wraps and uses the index past the array. In `input` six keys fill a ring of three positions more
than twice. `MAX_KEYS` and `MAX_SENDS` bound the histories.

In `pages` the kernel process and two forks of it compete for fewer pages than they can use, so that every
allocation site fails in some behaviour; processes, descriptors and code pages run out too. Two levels of
page table stand for four: a table is allocated, or it exists. In `chain` four clusters in two FAT sectors
let a link cross a sector of the FAT, the scan come round and the volume fill; with two faults one can hit
the work that follows the other. In `file` a write of three bytes crosses a sector and, at offset 2 or 3, a
cluster; clusters, files and handles are symmetric. In `directory` the root starts
empty, or with a hole and with old slots behind its end mark, or with its last slot in use and no end mark; an
entry of three slots then needs a hole that is long enough, or a cluster more. In `sd` a countdown of two has a turn that is not the last; transfers have one or two blocks.
`MAX_FAULTS`, `MAX_WRITES`, `MAX_OFFSET` and `MAX_HEAP` bound the behaviours. The five runs switch deadlock
checking off: with the bounds spent, or a machine out of memory, nothing may be left to do.

### Fairness

`FairSpec` of `Scheduler` assumes weak fairness of the tick (the timer re-arms itself), of the pick loop and
of kernel code under way. It assumes nothing of user programs: a process may compute for ever.
`UartInput` assumes the same, and that a process that has the CPU goes on; keys are never guaranteed.
`FatChain` assumes that a call that has begun goes on (`Steps`): it is the client's own thread. `SdCard`
assumes that the driver goes on polling (`Driver`), and nothing of the hardware.

## 4. Proofs

All theorems hold for every number of processes, every set of algorithms and all parameters that satisfy
the `ASSUME` of the module.

`SchedulerProofs` proves `Spec => []IInv` (`AlwaysIInv`) and from it

* `TypeCorrect`: `Spec => []TypeOK`,
* `OneRunning`: `Spec => []RunningIsCurrent`,
* `QueuesSound`: `Spec => []ReadyIsQueuedOnce`,
* `KeepsPromise`: `Spec => ImplementsLifecycle`, step by step: every action is a step of `Lifecycle` or
  leaves the status of every process alone.

`IInv` is needed because none of these is inductive. Besides the types it says that the queues are
injective and disjoint (`Distinct`), that a user process is queued exactly if it is READY
(`ReadyQueued`), that nobody but the current process is RUNNING (`OnlyCurrentRuns`), that the process
executing its own code is RUNNING (`RunsItsCode`, which needs to know what a pc implies about the state
while a call is under way), that pids not yet allocated are untouched and unqueued (`Unborn`), that init
never blocks (`InitNeverBlocks`), and that during a pick the outgoing process is not RUNNING any more
unless it is init (`PickerGaveUp`). The proof has one step per action; the queue facts come from
`QueueLemmas`: what `Append`, `InsertAt`, `RemoveAt` and `\o` do to the range and the injectivity of a
queue. TLC checks `IInv`'s visible parts in the runs above.

The second half of the module builds on `IInv`; its invariants are preserved given `IInv` before and after the
step:

* `Balanced`: `Spec => []PreemptionBalanced` if `MAX_LEAKS = 0`. The hypothesis says that no fork fails; it is
  needed because `copy_process` returns its errors without `preempt_enable`. `Balance` says what each process
  owes at each place of the code, during a pick and when it has been switched out.
* `LevelsKept`: `Spec => []LevelsAgree`, from `LevelsInv`, which relates the queues, `queue_level` and a level
  changed by `set_sched_param` since the process was queued, and from the fact that the process that has the
  CPU is in no queue (`CurrentUnlinked`). `AlwaysOInv` collects these.
* `HighestLevelFirst`: `Spec => StrictPriority`. `Cascade` says what the levels that the loop has passed hold:
  nobody, or, after a boost in the middle of the loop, only what the boost put into level 0.
* `IdleLast`: `Spec => IdleOnlyWhenNobodyReady` unless `"mlfq"` is among the algorithms: its boost may refill
  level 0 behind the loop (see the deviations).
* `ShortestJobFirst`: `Spec => []ShortestFirst`. The queue is sorted by the estimates of now because an estimate
  changes only while its process is unlinked.
* `BonusCapped`: `Spec => []AgingCapped`, from the bound on every counter that a new epoch halves before it adds.
* `NoWakeupLost`: `Spec => []WaitersWoken`. The property is about the algorithms that are not preemptive. `WaitInv`
  says that under them only the process with the CPU is inside a system call, and of the three steps of
  `syscall_wait` that the process waited for has not looked for waiters yet.
* `ProportionalLottery`: `Spec => []ProportionalDraw`. The numbers for which a process wins are an interval
  between two sums of tickets; its cardinality is the number of its tickets.

`IpcProofs` proves, for every number of processes, every ring size, set of links and pattern of signals, if the
algorithm is not preemptive:

* `NoSleeperForgotten`: `Spec => []NobodySleepsInVain`. The property is about moments when nobody is inside push
  or pop; the invariant says that only the process with the CPU is inside (`OneInside`), that what it tested
  still holds (`Tested`), and that a sleeper whose reason has gone is one that it is about to wake
  (`ReceiverCalled`, `SenderCalled`). A killed process needs no waking.
* `DeliveredOnce`: `Spec => []Delivery`. What has been received followed by the content of the ring is exactly
  what was sent (`InOrder`); between the store and the move of `head` the message is behind the ring
  (`Stored`). `RingPush` and `RingPop` say what the two moves do to the content of any ring.

`UartInputProofs` proves `TypeCorrect` (`Spec => []TypeOK`, under every algorithm), and if the algorithm is not
preemptive `ConsoleExclusive` (`Spec => []OneReader`) and `LinesKept` (`Spec => []LinesAsTyped`). The inductive
invariant `Owned` of the second adds what holds between the test of `uart_owner` and the assignment. For the
third, `Assembled` says that the lines returned and the line being assembled are what the keys taken from the
ring spell; interrupts only add to the other end of the ring.

`MemoryProofs` proves, for every number of pages, processes and descriptors, if the algorithm is not
preemptive:

* `TypeCorrect`: `Spec => []TypeOK`; in particular `n_user_pages` and `n_kernel_pages` stay within their arrays
  although the code appends without a test,
* `PagesOwnedOnce`: `Spec => []OwnedOnce`,
* `PagesAccounted`: `Spec => []Accounted`.

They follow from `AlwaysIInv`. `OwnedOnce` is not inductive: `TakePage` marks what `FindPage` found some steps
earlier, so the invariant has to say that a page found is still free (`FoundIsFree`), which holds because
only one process is in the kernel (`OneInKernel`). A page is stored over whatever the slot held, so the locals
and entries about to be filled must be empty (`LocalsEmpty`, `EntriesEmpty`), the loop must stay within what is
left (`RoomLeft`, `LoopBounded`), and the process a fork fills must be the next one, which has nothing yet
(`TargetIsNext`, `Unborn`). The argument then splits in two: six lemmas say that putting a page into a slot,
moving it, freeing one or several, forgetting one and losing one keep the storage sound (`Sound`), and every
action is one of these. Without the assumption on `PREEMPTIVE` the theorems are false, as TLC shows.

The second half of the module proves, under the same assumption, where the pages in use lie:

* `BufferOverrunHarmless`: `Spec => []OverrunHarmless`. exec reads a program of up to `CODE_PAGES` pages into a
  buffer of one page, and nothing is overwritten.
* `ForksCopyAll`: `Spec => ForkCopiesAll`. `copy_process` ignores the result of `copy_virtual_memory`; the child
  lacks pages only if the machine has none.

Both follow from `AlwaysLInv`. Between calls no page in use lies above a free one (`Packed`) and a process lacks
pages only if none is free (`Rested`). A call breaks this and restores it, so `LInv` has a clause for every
place in a call (`Stage`). `close_file` frees the page of the File, which leaves one hole, and takes the first
free page for the new resource, which fills it (`PackedAfterNext`). exec without a buffer was out of memory
and frees at most as many pages as it will take (`Cardinality(Free)`); exec with a buffer frees exactly
`CODE_PAGES` pages below it (`Gap`), each turn of `copy_code` takes the first of them, and none is left at the
end. That is why its buffer must have come after its program, and why the count has to be exact: one page more
and `copy_code` would be given a page the program was read into.

`SdCardProofs` proves, for every card, every number of blocks in a call and every length of the countdowns:

* `ReadsReturnBlocks`: `Spec => []ReadsRight`,
* `WritesKept`: `Spec => []WritesStay`,
* `CleanCalls`: `Spec => []CleanBetweenCalls`.

They follow from `AlwaysCInv`. The properties speak of the end of a call; the invariant has to say what holds in
between, against a controller that may still be busy with a call that was given up. The list of a read or a write
is known by place (`CallShape`: the wait, perhaps a block count, the data command at place 0, two places for each
block, the end), and `Turns` is the number of blocks that the driver has still to move. From the data command
on `WriteStage` and `ReadStage` say in which stage the transfer is: asked for, under way, ended, or ruined by an
error that is still in INTERRUPT. While it is under way the number of blocks left to the controller, the turns
left to the driver and the content of the FIFO add up. A FIFO that held a block of an earlier call when the
transfer began is a case of its own: the card takes that block as the first of a write, so the transfer ends
while the driver has one block left and waits for room in vain (`Writing(1)`), and a read never gets a block
(`Blocked`); neither can succeed. `Waited` says that nothing moves between the wait for the data line and the
data command, which is what keeps the transfer of an earlier call out of this one; without the wait
`ReadsRight` fails. `Targets` says that a write that is still on its
way, of whichever call, can reach only blocks whose content is not vouched for. `KnowsCard` relates the flag
that sd_init read to the card, so that the argument of a command means the block it was computed from
(`AddressedData`). `Clean` says what a call may leave behind while no wait has run out: an error flag is set only
where the driver is about to look at it. Every step of the driver is first reduced to a few kinds of move
(`DriverMoves`, `CallMoves`, `InitMoves`), every step of the hardware to seven (`HwSteps`); the invariant
is then preserved move by move. `CardAssumption` says that `NONE`, which stands for an empty FIFO, is no content of a
block.

`FatChainProofs` proves, for every number of clusters, files, entries in a sector and faults:

* `IntactThroughFaults`: `Spec => []FilesIntact`,
* `HandlesStay`: `Spec => []HandleInChain`,
* `CopiesStay`: `Spec => []CopiesAgree`,
* `FullIsFull`: `Spec => FullMeansFull`.

They follow from `AlwaysSound`. The properties speak of what is on the card, and the library writes the card only
when its window moves, at a time that has nothing to do with the call that changed the window. So the proof keeps
two volumes apart: the one seen through the window (`View`) and the one on the card (`Card`). The first part of
the module says of every function what it does to the view, and that what it leaves on the card, whether it
succeeds or fails, is what was there or a view that the call passed through. The second part is about chains. A
chain that ends is a path of distinct clusters (`IsPath`), so that none is longer than the volume has clusters;
writing elsewhere leaves it alone, and linking a cluster that is marked and in no chain makes it longer. The
third part says what the writes of the library do to a view whose files are whole and apart in every copy of the
FAT (`Mountable`): mark a cluster, link it, enter it into the directory, take an entry out, free a cluster. The
inductive invariant (`Sound`) has a clause for every place of a call: what the scan has passed (`Scanned`); that a
cluster marked and not yet linked or entered is in no file (`Fresh`); that what `remove_chain` has still to free is
a chain that ends and meets no other file (`Staged`); how much `free_cnt` is ahead of the FAT (`Counts`). An access
may fail at any place, and `Abort` says that every such place may be given up as it is. A removal that was
interrupted leaves an entry whose chain is partly free, which the next allocation may enter; the properties, and
the invariant, promise nothing of the chains after that (`hurt.removal`), and the hazards name it.

`FatFileProofs` proves, for every number of clusters, files, handles and failing calls, every length of a call
and every size of a sector and of a cluster:

* `HandlesInChain`: `Spec => []InOwnChain`,
* `PositionsAgree`: `Spec => []PositionAgrees`,
* `NothingIsLost`: `Spec => []NothingLost`.

They follow from `AlwaysSound`. No file is removed in this model, so a chain only grows, and it can be described
without paths: `own` says which file a cluster belongs to and `idx` how far it is from the start (`Chains`), and
no two clusters of a file have the same place. The invariant asserts that such functions exist; a step may replace
them by larger ones (`Grown`), which keeps what was said of every other file and handle. A failed `stretch_chain`
may leave a link behind, and the chain is then longer than the file needs, which `Chains` permits. `Seek` says
what `fat_file_seek` leaves for each of its outcomes (`Sought`): on success the cluster of the offset, the right
sector and a buffer that was written back if it was dirty; when the volume is full and the way was one cluster or
less, nothing but what was there. `At` says that cluster, sector and buffer of a handle agree with its offset,
`OnCard` that the card holds the bytes of a file and `InHand` that card and buffer together do; a seek takes the
file from `InHand` to `OnCard` (`Leave`) and back (`Arrive`), and a write changes one stretch of the buffer
(`Put`). Two offsets of a file in different sectors of the file are in different sectors of the card (`Apart`),
which is where the uniqueness of places is needed. The size in the handle lags behind the offset while a write is
in its loop (`Lengths`), and the one in the directory entry lags behind the handle until it is closed. A file
that no failed call touched and that was never opened twice has one handle at most (`FileSound`), so what a call
does to other files is covered by one lemma (`Step`). `FileAssumption` says that there are finitely many clusters
and that the marks `FREE`, `EOC` and `NONE` are no clusters and `NONE` is no name.

Induction. The library's induction theorems take an operator as parameter, which the provers cannot
instantiate. `QueueLemmas` derives what is needed from the least element of a non-empty set of numbers:
`UpTo` (a set that contains 0 and with a number the next one contains all numbers up to a bound) and
`LoopExists` (a loop written as a recursive function has the value its body prescribes). Sums of tickets, the
lines that a sequence of keys spells, the content of a ring and the clusters of a chain are handled in this way.

The hypothesis `~PREEMPTIVE` of `IpcProofs`, `UartInputProofs` and `MemoryProofs` is that of FCFS and SJF;
with `PREEMPTIVE` TLC finds counterexamples to the properties.

Only model-checked: liveness (`NoStarvation`, `KillTakesEffect`, `IdleEnds`, both `CallsReturn`), because the
prover has no support for fairness; and `LookupExact`, `TreeSound` and `ListingComplete` of `FatDir`, whose
operations are folds and recursive walks over lists of slots that would each need an induction of their own.

## 5. Not modelled

* The context switch and the saved registers (a switch is a change of `current_process`); the contents of
  memory and the bodies of messages.
* Framebuffer, mailbox, boot assembly, GPIO and the clock divider: register access without shared state.
* The shell and the test programs: any process may make any system call at any time, and they are such
  processes. Output system calls, `get_pid` and the unpacking of arguments.
* The string library: its effect is the assignment the models make.
* Of the FAT library: partition tables and the checks of the boot sector, stat, umount, timestamps, the
  bytes of a name. `dir_next` relies on data sectors that start at a multiple of the cluster size; the model's rows assume it.
* `do_mem_abort` never allocates: it divides a status of six bits by 60 and compares the quotient with 4.
  `map_sector` is called by nobody.
* Transfers of several blocks on byte-addressed cards: the driver sends the command for a block without
  waiting until the block before it has been written. `SdCard` contains the lists, but `Next` asks for several
  blocks only of cards that take block numbers; `libs/filesystem.c` asks for one block at a time.
* List primitives are atomic in all modules: an interrupt in the middle of one, which the code permits, is
  left to the plan.

## 6. Plan

1. Composition of `Scheduler` with `Ipc` and `UartInput`: kill and stop of a process that owns the console or
   waits for a message.
2. `ReadyQueue` as a state machine that implements sequences, with its refinement proved, and an
   interrupt between the stores of a primitive.
3. Composition of `FatFile` with the window of `FatChain`, and of both with a second caller under a
   preemptive algorithm.
4. Proofs about the directories: `TreeSound` and `LookupExact` of `FatDir`.
