# A TLA+ model of the kernel's memory, threads and devices

The repository is a small AArch64 kernel for the Raspberry Pi 3 (`src/kernel`) with a
serial boot loader (`src/bootloader`).  One core runs; concurrency comes from interrupts
and from the preemption of threads by the timer.  This directory holds TLA+ modules of its
components, TLC configurations that check them on small instances, and proofs, checked by
TLAPS, of their main theorems for every value of the constants.

Run a check with, for example, `tlc -config MCBuddy_whole.cfg MCBuddy`, and the proofs with
`tlapm` on each of `BuddyProofs.tla`, `SlabProofs.tla`, `RunQueueProofs.tla`,
`PreemptProofs.tla`, `ThreadMemoryProofs.tla`, `TimerProofs.tla`, `ConsoleProofs.tla` and
`MailboxProofs.tla`.

## 1. Inventory

| Component | State | Operations | Talks to |
|---|---|---|---|
| Page-frame allocator (`buddy.c`) | `buddy_frame_array` (status, allocated order, next, prev), `free_frame_lists` | `memory_reserve`, `buddy_init`, `buddy_allocate`, `buddy_free` | called by the slab layer, `malloc`, `free`, the pressure test |
| Slab layer, `malloc`, `free` (`buddy.c`) | `slab_frame_array` (page descriptors with a bitmap, a count and list pointers), `slab_start_list` | `slab_init`, `slab_allocate`, `slab_free`, `malloc`, `free` | takes frames from the page-frame allocator; called by threads, tasks and the shell with interrupts masked |
| Boot memory set-up (`mem_init`, `simple_alloc`) | a bump pointer in the linker script's heap | reserves the kernel, initramfs, device tree and heap, then starts both allocators | device tree, initramfs |
| Pressure test and statistics (`buddy.c`) | table of 30000 blocks | allocate all, check, free all | calls the frame allocator with interrupts *on* |
| Run queue (`sched.c`) | `RQ_head`, `RQ_tail`, `cur_thread`, the threads' `next`/`prev` | `init_scheduler`, `schedule`, `push_rq`, `pop_rq` | called by the tick, by `thread_exit` and by the exit call |
| Threads (`thread.c`, `ctxsw.S`) | 60 descriptors: status, stacks, program, saved registers | `thread_create`, `thread_exit`, `thread_exec`, `kill_zombies`, `user_thread_run` | heap, run queue |
| System calls (`syscall.c`, `exception.c`) | none of its own | getpid, UART read/write, exec, fork, exit, mailbox, kill | threads, heap, run queue, mailbox |
| Exceptions and masking (`exception.c`, `a.S`) | `nested_interrupt_cnt` (one for all threads), the DAIF bits | `disable_interrupt`, `enable_interrupt`, the IRQ entries | deferred tasks, UART, timer |
| Deferred tasks (`task.c`) | a list sorted by priority, `cur_prio` | `add_task`, `insert_task`, `pop_task` | heap; runs the UART and timer handlers |
| Timer (`timer.c`) | ten one-shot timers, `scheduling_enabled` | `add_timer`, `os_time_tick`, `core_timer_handler` | `schedule`, UART |
| Asynchronous UART (`uart.c`) | two rings with head and tail, interrupt enable bits | put, get, receive and transmit handlers | masking, deferred tasks |
| Mailbox (`mailbox.c`, `syscall.c`) | the GPU's registers and a message buffer | request, polled reply | GPU |
| Shell (`shell.c`) | a line buffer | one command after another | all of the above |
| Boot loader and uploader (`bootloader`) | position in the image | upload over a line without flow control | host script |
| Synchronous UART, bump allocators, initial file system, device tree, start-up assembly | no state that changes, or one pointer | polled I/O, parsing, straight-line code | - |

**What is hard, and what makes each component correct.**

* *Page-frame allocator.* Inside a call a block is on no list while its halves are pushed
  (split) or its buddies are unlinked (merge); a stale status, order or pointer does its
  damage many calls later.  Correct: blocks never overlap or cover reserved bytes, no frame
  is lost, lists are exact, calls return.
* *Slab layer.* Three structures must move together: the bitmap and count of a page, the
  list of its size, the frame it owns.  `free` is given any address.  Correct: what `malloc`
  returns overlaps no live chunk, and a page goes back to the frame allocator exactly when
  its last slot is freed.
* *Run queue.* `init_scheduler` and `copy_thread` push a thread that `thread_create` has
  already pushed, so `push_rq` works on a list that contains its argument.  Correct: the
  list stays usable, no ready thread drops off it, exactly one thread runs, dead threads
  stay dead, the search of `schedule` ends.
* *Masking, tasks, tick.* The nesting count and `cur_prio` are global, but `schedule`
  switches away in the middle of the timer handler, so what one thread raised stays raised
  until that same thread comes back.  Correct: no section is entered by an interrupt,
  no tick goes before a more urgent task, and every line and priority is given back.
* *Thread memory.* A thread's stacks and program are found through four fields that fork,
  exec and the exec call fill in different orders, each with its own way to fail.  Correct:
  nothing is freed that is in use, nothing is lost, and what a waiting thread will return
  with is not overwritten.
* *Timer.* Unsigned counters that are decremented before they are tested, in slots that are
  taken and given back between ticks.  Correct: each timer is called in its tick, once.
* *Asynchronous UART.* Rings without a full test, and a register changed by load and store
  under interrupts.  Correct: bytes in order, none sent twice, none left waiting.
* *Mailbox.* Two mailboxes shared by all callers, none of which owns a reply it reads.
  Correct: nobody takes an old or a foreign reply for his own, and waiting ends.

Every hazard is listed at its line in `PROJECT.json`, with the properties that cover it, or
the reason why none does.

## 2. Modules

| Module | Models | State | Actions and the code they stand for |
|---|---|---|---|
| `FrameAlloc` | what the frame allocator promises | `owned`, `pending`, `ret` | `Request`, `Grant`, `Refuse`, `Release` |
| `Buddy` | the frame allocator on its descriptors and pointers | the fields of `buddy_t`, the list heads, the locals of the running call, `pc` | `MemoryReserve`; `BuddyInitStart`, `InitSkip`, `InitBlock`, `InitDone` (`buddy_init`); `AllocTake`, `AllocFail`, `Split`, `AllocDone` (`buddy_allocate`); `FreeIgnored`, `FreeStart`, `Merge`, `FreeDone` (`buddy_free`) |
| `Heap` | what `malloc` and `free` promise | `chunks`, `call`, `ret` | `Malloc`, `MallocFails`, `Free`, `FreeOther` |
| `Slab` | `malloc`, `free` and the slab layer | the fields of `slab_t`, the list heads, `owned` frames | one action for each way through `malloc` (a slot, a new page, no frame, no descriptor, a block, no block) and `free` (a slot, the last slot, an unused slot, a block, nothing) |
| `SlabCalls` | `Slab` with a record of the last call, for the refinement of `Heap` | `call` | `NextCalls`: `Malloc` or `Free`, and its argument |
| `RunQueue` | `schedule` and the state of threads | the queue's pointers, `status`, `cur_thread`, `pc` | `InitScheduler`; `Tick`, `Exit`; `PickDead`, `PickLive` (turns of `schedule`'s search); `Kill`, `KillIgnored`; `Fork`, `ForkNoProgram`, `ForkFails` |
| `Preempt` | interrupts, system calls and switches around `RunQueue` | the variables of `RunQueue`; a stack of exception frames for each thread; the nesting count, DAIF, the two interrupt lines, the task list, `cur_prio`, `ELR_EL1` | `TimerIrq`, `UartIrq`, `UartIrqInUser`; `AddTask`, `AddTaskFails`, `PopTask`, `PopNothing`, `RunUart`, `RunPrint`, `RunTick`, `EndTick`, `Leave`, `LoadAll`, `Eret` (the way of an interrupt through `el1_irq_entry`, `add_task`, `pop_task` and the return); `PickDead`, `PickStarted`, `PickShell`, `PickChild` (where `switch_to` goes on); `ForkCall`, `ForkNoProgramCall`, `KillCall`, `ReadCall`, `ReadDone`, `ExitCall`, `OtherCall`; `EnterSection`, `LeaveSection`, `Exec`, `Compute` (code below all frames); `TestPreempt`, `PutsMessage`, `TestDone` (`test_preempt`, which also adds and pops) |
| `ThreadMemory` | stacks and programs of threads | `kernel_sp`, `user_sp`, `prog`, `prog_size`, the chunks handed out, which thread's trap frame each frame of memory holds | `Fork`, `ForkNoProgram`, `ForkFails` (`copy_thread`, `thread_create`), `Exec` (`thread_exec`), `ExecCall` (the exec call), `Exit`, `Kill`, `Tick` (a switch, to any descriptor on the queue that is not dead) |
| `Timer` | the one-shot timers | the fields of the ten slots, the slot `os_time_tick` is at | `AddTimer`, `AddTimerFull` (`add_timer`); `BeginTick`, `SkipSlot`, `CountDown`, `Expire` (`os_time_tick`) |
| `AsyncUart` | both rings and the interrupt enable register | the write ring and its ends, the number of unread characters, `ier`, the UART's own registers, where the shell is | `Puts`, `Echo`, `TestStart`, `RecvChar`, `GetsWait`, `GetsChar`, `Load`, `Store` (the two halves of an update of the register), `RxInterrupt`, `TxInterrupt`, `SendByte`, `SendDone`, `PutsInTick`, `ShellStarts` (another thread's shell takes over), `Type` |
| `Line` | what the output promises: a queue of bytes, and what a message costs that does not fit | `queue`, `io` | `Put`, `Send`, `Sent` |
| `Console` | the composition of `Timer` and `AsyncUart` by the shell, the tick and the interrupts | theirs, the shell's line buffer, who runs: main, its tick, or the shell thread | `ReadCommand`, `Command`, `Shell`, `SetTimer`, `SetTimerFull`; `BeginTick`, `Count`, `WriteMessage`, `Schedule` (the end of a tick: back to main, or to the shell thread); `RxInterrupt`, `TxInterrupt`, `Sending`, `Type` |
| `Mailbox` | mailbox calls, with the GPU as an external part | where each caller is, both mailboxes, what the GPU has answered | `Call`, `TestFull`, `WaitFull`, `Write`, `TestEmpty`, `WaitEmpty`, `Read`; `Switch`; `Answer` (the GPU) |
| `BuddyProofs`, `SlabProofs`, `RunQueueProofs`, `PreemptProofs`, `ThreadMemoryProofs`, `TimerProofs`, `ConsoleProofs`, `MailboxProofs` | theorems about the module of that name | | |
| `MCBuddy`, `MCSlabCalls`, `MCRunQueue`, `MCPreempt`, `MCThreadMemory`, `MCConsole`, `MCMailbox` | constants for TLC | | |

**How they fit together.** `Buddy` implements `FrameAlloc`, on whose promise `Slab` is built
(`CanGrant`: any block that is free may be granted).  That a request of one frame is refused
only when none is left, as `Slab`'s `CanRefuse` has it, is not in `FrameAlloc`, whose
`Refuse` is always possible: it is `Buddy`'s own `RefusedWhenFull`, checked and proved.
`Slab` implements `Heap`, on whose promise `ThreadMemory` is built.  `Preempt` implements
`RunQueue`: its steps that touch the queue are `RunQueue`'s own actions.  `Console`
implements `Timer` and, through `AsyncUart`, `Line`.

**Grain.** In `Buddy` each turn of a loop is an action, so the properties are checked in the
middle of calls too.  `malloc` and `free` mask interrupts, so calls of `Slab` are atomic, and
so are the operations of `RunQueue` and `ThreadMemory`: what these show is what the kernel
does as long as `disable_interrupt` masks, which it stops doing after an exit call (section
5).  `Preempt` breaks a handler at every point where interrupts can be on or another thread
can be switched to, except inside `add_task`, `pop_task` and `schedule`: what these do to the
list of tasks, or a turn to the queue, is one step, though a surplus of the count would let an
interrupt in.  In `RunQueue` an operation is an action except for the search of
`schedule`, whose turns are separate because it need not end.  In `AsyncUart` what is done
between `disable_interrupt` and `enable_interrupt` is one step, an update of the interrupt
enable register by the shell two.  `Timer` has a step for each slot of a tick.  `Mailbox` has
one for each access to a register.

**Mutations.** A definition `X_Something` before a definition `X` is `X` with a plausible
slip (a dropped guard, a forgotten pointer, an order read one line too early).  No
specification uses it; it shows that a property can fail.

**Abstractions.** Slots of a page are numbers, not bits of 32 bytes; `Slab`'s `leaked` is a
variable of the model: the frames that `slab_allocate` took and forgot, which no code
knows.  `RunQueue` lets a tick happen whenever a thread runs; in the kernel masking and the
disabled timer make ticks rarer, so what always holds here holds there, and each
counterexample has been traced to ticks the kernel can have.  In `Preempt` a task is the
function it calls, the code below the frames is in a section or not, and the UART handler is
one step; the timers' callbacks are left out.  `Console` follows the shell thread from its
first step until it runs a program; the boot's queue gives it the processor in the second
tick, and `Schedule` may do so in any.  In `ThreadMemory` memory is counted in frames, a
stack is one frame and the only content of memory is which thread's registers a frame holds;
`malloc` may fail at any time, as the rest of the kernel uses memory too.  In `AsyncUart`
received characters have no value, as `async_uart_gets` may see the end of the line in any
of them.  In `Mailbox` a message is the address of its buffer, which stands for the thread
that owns it.  `now`, `due`, `asked` and `disturbed` are history: no guard reads them.

## 3. Runs

| Run | Instance | What it shows |
|---|---|---|
| `buddy_whole` | 8 frames, orders 0 to 2, requests up to order 3, nothing reserved | in every sequence of calls the links of the lists agree, free buddies are merged, and a single frame is refused only when all are handed out; `Buddy` implements `FrameAlloc` |
| `buddy_boot` | 11 frames of 4 bytes, orders 0 to 4, three reserved ranges | with `buddy_init`'s unaligned blocks too, blocks are disjoint, no frame is lost and lists are exact; ranges that begin and end inside frames, or run past memory, stay reserved; boot and every call return |
| `slab` | 4 frames of 5 bytes, 3 page descriptors, slots of 2 and of 5 bytes, requests 0, 2, 3, 10 | counts, lists and frames stay in step with `free` called on every address; a chunk is as large as asked for and overlaps no live chunk, and `free` drops the chunk it is given and no other: `SlabCalls` implements `Heap` |
| `run_queue` | 4 descriptors: both boot threads and two children | the damaged list stays usable, one thread runs, the dead stay dead, the search ends, and a thread drops off only where one was queued twice |
| `run_queue_lost` (violation) | 3 descriptors | a forked child is cut off the list |
| `preempt` | 3 threads, interrupts while at most 3 frames, a count below 4 and fewer than 2 waiting tasks; memory for tasks may run out | the count covers what the running thread holds; sections are open to interrupts only through a surplus of the count; no tick begins while a more urgent task waits or is half done; an interrupt line that is off has a handler that turns it on; `cur_prio` is exact; ticks do not nest |
| `preempt_user` (violation) | the same, memory does not run out | a user program runs with the timer off |
| `console` | two timers, clocks modulo 2, a ring of 4 bytes, one message that becomes three bytes, one character in the UART | timers count exactly and are called in their tick; the output is a queue; the read ring never overflows while somebody reads; output comes to stand still in two ways only, a lost update of the enable register and a tick that leaves main for the shell thread just before main enables the interrupt; otherwise, as long as ticks come back to main, it drains, and what main waits for is read |
| `console_line` (violation) | the same, with two messages | a timer writes a later command's text |
| `threads` | 3 threads, 7 frames, programs of 0, 1 and 2 frames | the only chunk given back is the one behind the user stack of a child whose fork failed for want of program memory; what becomes lost is a stack that a failing fork just took, never a chunk that was in use; a waiting thread's registers are overwritten only by a fork's copies or an outgrown program |
| `threads_child` (violation) | 3 threads, 7 frames, programs of 1 frame | a child does not begin with its parent's registers |
| `mailbox` | two shells and one user program, mailboxes of 2 | a message is in the mailboxes once and not after its call; a call ends only when it was answered, and ends unless its thread was switched away from in it |

**Why the bounds are enough.** Two blocks of the largest order, of four frames each, are
enough for lists of length four, for unlinking at the head, in the middle and at the end,
and for chains of two merges that stop at `MAX_ORDER`; 11 frames are not a power of two, so
the last buddy lies outside memory and is refused by the range test.  The slab sizes are the
two shapes that exist: one that leaves a rest in its page (as 48 and 96 do in 4096) and one
that fills it; three descriptors give lists with a middle, and are one less than there are
frames, so they run out while frames are left.  In `RunQueue` four threads give a queue in
which a doubled thread has others before and behind it.  In `Preempt` two boot threads and
one child give every way to begin; three frames hold a system call, a timer and a UART
handler, in each order; counting up stops at `MaxCount`, so that a surplus of an exit call
meets a section, a task and a handler inside it; tasks at `MaxTasks`, frames at `MaxDepth`,
by taking no further interrupt or call, never by leaving out a step of one that was taken.
In `Console` a message and a half fill the ring, so it wraps and overflows; two timers can
be due in one tick, and fill all slots; a word of one bit lets a timeout of 0 come round;
one character in the UART lets the receive interrupt meet each step, and more only wait.  In
`ThreadMemory` seven frames are the four of boot, both stacks of a child and one more, and
`Fresh` takes a chunk at either end of what is free, so a child's stacks lie before and
behind others'; no waiting thread's stack lies right behind them, which takes a second
child, so what a fork's copies do there is left to `RegistersKept`, proved for any number of
threads and frames.  In `Mailbox` three callers and mailboxes of two make both mailboxes
full.

**Fairness.** `Buddy!FairSpec` is weak fairness of `Proceed`, the steps that continue boot
or a running call, and of nothing else: no caller is ever obliged to call.  `malloc` and
`free` run their calls with interrupts masked, and boot runs before interrupts matter, so
nothing can keep a call from its next step.  `RunQueue!FairSpec` is weak fairness of
`Pick`: `schedule` does not leave its loop before it has found a thread.  `PickEnds` asks
for a live thread on the queue, because without one the loop never ends.  `Console!Fairness`
is weak for the steps of a tick, its `Schedule` and the transmit handler, which nothing
interrupts, and strong for what has to wait for them: while main runs, its shell goes on between
interrupts, and ticks and UART interrupts that stay pending are taken.  That holds of main only.
Which way `Schedule` goes is not constrained: the kernel's second tick already starts the shell
thread, with interrupts masked and the timer off (finding 2).  From then on the actions of
interrupts are disabled, fairness demands nothing of them, and `OutputDrains` and `InputServed`
end there: they speak of as many ticks as come back to main.  Nobody has to type or to give a
command.  `Mailbox!FairSpec` is weak for the GPU and for each caller's steps, which are
enabled only while it runs: nothing is assumed of when a thread comes back.  `Preempt` and
`ThreadMemory` have no fairness: how long the kernel runs with the timer off is not theirs
to say, and `preempt_user` shows that it may be for ever.

**Deadlock.** Every run checks it: the kernel never stops.  In `Preempt` code below all
frames may always compute.

## 4. Proofs

The proofs hold for every size of memory, tables and buffers, every number of threads,
timers and callers.  What they assume of the constants is in the modules, named, and TLC
evaluates it on every run: `SizeAssumption` (`Size[k]` is 2^k, given by its recurrence),
`MemoryAssumption`, `SlabAssumption` (slot sizes increase, and the last one fills a frame),
`OrderAssumption` (`Slab`'s own `Size`, up to an order whose blocks cover every `unsigned int`),
`RunQueueAssumption`, `PreemptAssumption`, `ThreadMemoryAssumption`, `ConsoleAssumption` and
`MailboxAssumption`.  `TimerProofs` has `TimerConstants` as a hypothesis of its theorems, which
`ConsoleAssumption` implies.

**`BuddyProofs`.** The invariant is `IndInv`: `TypeOK`, `Shape` (inside a block only the
first frame has a status of its own, and the block ends inside memory), `Stage` (what is
known at each `pc`: the block in hand, the position of the boot walk), `LinksAgree`,
`NoFrameLost` and `StillReserved` (every range reserved so far is still marked).

* Why a strengthening is needed: `BlocksDisjoint` speaks of blocks, but `Merge` decides by
  one status word.  With `Shape` a buddy whose status is the order is the first frame of a
  free block of exactly that order, so the two halves are adjacent; with `LinksAgree` it is
  on the list it is unlinked from.
* `Invariance` proves `Init => IndInv` and one lemma per action; unlinking and pushing are
  lemmas about any block and order, used by every action that does either.  `BuddyOf` is
  arithmetic: a lemma says that the buddy of a block is the block of its size just before or
  just behind it, whatever the alignment.
* From it follow `TypeCorrect`, `NoOverlap`, `NothingLost`, `ListsNeverCorrupted` (the
  branch that prints "Corrupted free list structure" is dead code) and
  `ReservedStaysReserved`.
* `Refinement`: `AllocTake` maps to `Request`, `AllocDone` to `Grant`, `AllocFail` to
  `Refuse`, `FreeStart` to `Release`, and every other step to a stutter.
* `RefusedOnlyWhenFull` (`RefusedWhenFull`).  A frame that is not handed out lies in a free
  block (`NothingLost`), which is numbered on its list by `Chains`, so some head is not
  null.
* `ListsAlwaysExact` (`FreeListsExact`).  That a list *ends* does not follow from
  `LinksAgree`, which a ring would satisfy.  `Chains` says that the free blocks of an order
  can be numbered so that the head is the first and `next` leads from each to the one behind
  it.  Pushing puts one in front (`PushChain`), unlinking closes the gap (`UnlinkChain`).
* `AlwaysCoalesced` (`Coalesced`), for blocks aligned or not.  `MergeInv` says why no buddies
  are left: the boot walk forms no block that could be one order larger, so of two neighbours
  of one order the first would have been larger; while a block is split there is no free block
  from the order asked for up to that of the block in hand (here `Chains` is needed: the lists
  were empty, so there is no such block), so each half is the only one of its order; and a
  merge ends only when the buddy is not free at that order.  That the buddy's buddy is the
  block itself (`BuddyTwice`) is arithmetic of remainders.
* `LoopsEnd`: `StepsLeft` bounds the iterations to come (frames the boot walk has before it,
  halves to split off, orders a merge can climb) and falls with each step of `Proceed`.

**`SlabProofs`.** `IndInv` is `Fields` (types), `Owned` (blocks of the frame allocator do not
overlap), `Chains` (as above, with `prev` too), `CountsExact` and `PagesOwnFrames`.  They need
each other: that `free` unlinks an emptied page from the right list needs `Chains`, that its
frame is the page's needs `PagesOwnFrames`, that it is emptied needs `CountsExact`.  Results:
`CountsAlwaysExact`, `PagesAlwaysOwn`, `ListsAlwaysExact`.

`MallocIsAHeap` is the refinement of `Heap`.  `HeapInv` adds to `IndInv` that the blocks taken
lie apart in memory (`BlocksApart`) and that a leaked frame is taken and no page's
(`LeaksTaken`).  Then each byte of a chunk knows its chunk: the quotient of its address by the
frame size is the frame of one page or of one block, and in a page the slot is a quotient again
(`SlotBytes`, `BlockBytes`, `OneChunk`).  A chunk that `malloc` adds overlaps no other because
this holds of the new state too; what `free` takes is the chunk that holds the address, or
nothing, and then no chunk begins there.  The theorem has one hypothesis, `NoWrap`: no request
is within a frame of the word size.  For such a request `size2order` wraps, the block is too
small and the promise is broken (section 5).

In both, the walk along a list is a recursive function.  That it meets the numbered elements
in their order is an induction, made once in each module (`WalkInOrder`) from the
well-foundedness of the natural numbers in the library: a set of numbers that is not empty
has a least element (`Least`, `Induction`).

**`RunQueueProofs`.** `IndInv` is `TypeOK`, `OnlyCurrentRuns`, `HeadAndTail` (from boot on
the queue has a head and a tail) and `NoneBeforeBoot`.  `HeadAndTail` is what makes types
inductive: `schedule` uses what `pop_rq` returns without asking whether it is null.  Results:
`TypeCorrect`, `OneRunning`, `QueueNeverEmpty`, and the action property `DeadForGood`.
`QueueAlwaysUsable` (`QueueUsable`) speaks of a queue whose `prev` pointers nothing can be said
of; `Linked` says that from the head `next` meets distinct threads up to the tail, which leads
nowhere or to itself.  Pushing a thread that is in the middle cuts off what is behind it and
makes it the tail; pushing the tail again makes it its own successor.  `LossByDoubleQueueing`
follows: a step that drops a thread pushed one that was queued.  `SearchMovesOn` uses the same
list: a turn of the search moves the head to the tail and every other thread one place up.

**`PreemptProofs`.** `ImplementsRunQueue`: each step of `Preempt` is a step of `RunQueue` or
leaves its variables alone, so `OneRunning`, `DeadForGood` and `QueueAlwaysUsable` hold under
any nesting of interrupts.  `LinesReturn` proves `LinesComeBack`: it is inductive together with
what is known of the frames on the stacks, and with the fact that a thread that has not begun
has none, so the frame a child begins with replaces no handler.

* `NestInv` gives `TicksDontNest` and `PriorityExact`.  Over the stacks of all threads at
  most one frame runs a tick, because the timer's line is off from its interrupt to the end
  of that tick, in whichever thread; tasks of the highest priority run only on the running
  thread, one at most, above the tick's if that is there; each frame keeps the priority of
  the one below it.  Each of these is needed for the others at the switch, where the running
  stack is exchanged for another.
* `CountInv` gives `CountAlwaysCovers` and `SurplusNeeded`.  That the count covers the running
  thread is not inductive: a child begins by counting down what it never counted up.  The
  invariant says that while another thread was left in a section the count is at least two
  above what the running one holds, and how high it is while `schedule` looks for a thread,
  so that a child's count down, and the count up an exit call leaves behind, balance.
* `UrgentGoesFirst` (`UrgentFirst`) needs both.  The list is sorted, so when a tick is
  popped nothing more urgent waits.  An interrupt may still come before the tick calls
  `schedule`, through a surplus of the count; `TickInv` says that there is one at most, that
  it stays masked to its end, and that it pops a task as urgent as the one it adds.  That
  more than one cannot come, and that the count is above 1 there, is `CountInv`; that what
  it pops is the last urgent task is `NestInv`, as `cur_prio` is the tick's.

**`ThreadMemoryProofs`.** `NeverReturned` and `LeaksAreStacks` are action properties;
`IndInv` adds to the types that a thread outside user code has no program, that chunks begin
in the heap, and that whoever can run has stacks.  The first is why `thread_exec` never
frees anything.  What the failed fork frees begins at its child's `user_sp` (`FreedByFork`),
and it writes no field of a descriptor in use (`HeldStays`), so what becomes lost is its own
stacks.  `RegistersKept` (`TrapFrameKept`) needs `Apart`: chunks handed out share no frame,
so a new chunk, a program or a stack is no other thread's, and what overwrites a waiting
thread's registers can only be one of the two writes that leave their chunk.

**`TimerProofs`, `ConsoleProofs`.** `OnTime` is inductive together with the types: it relates
a slot's counter to the clock at each point of a tick, so each step moves both sides of its
equation by one, around the end of the word too.  `CalledInTime` follows.  `ImplementsTimer`
carries both over to `Console`, for any number of timers and any buffer size.

The rest of `ConsoleProofs` is about the rings, for any buffer size and any messages.  A
ring index is a position in the sequence of bytes less whole turns of the buffer; with this,
`OutputIsAQueue` maps the write ring to the queue of `Line`, also where a message of several
bytes laps the reader (`Crlf`, what a message becomes, is a recursive function, and an
induction over a set gives its length).  `ConsoleInv` gives `TypeCorrect`,
`ReaderAlwaysKeepsUp` and `StallsByLostUpdate`: while somebody reads at most two characters
are unread, counting the one that an enabled receive interrupt may still bring, and only one
between the load and the store that enable it (`ReadEnough`), as the store may bring one
more.  `Masked` says that the transmit handler runs only while main does, so that a tick
that leaves for the shell thread finds no half-done handler; with it the two ways in which
output comes to stand still are the steps `LosesUpdate` and `LeavesMain`, and no other.

**`MailboxProofs`.** `IndInv` is `TypeOK`, `Unique` (no message is twice in the mailboxes),
`Awaited` (each belongs to a caller that waits for it, and what can be read is answered) and
`NoOldAnswer` (the message read last is nobody's who waits, unless answered).  Results:
`TypeCorrect`, `OneEachAlways`, `AnsweredAtEnd`.

**Only model-checked.** Liveness, which the prover does not reach: `Buddy`'s and `Mailbox`'s
`CallReturns`, `PickEnds`, `OutputDrains`, `InputServed`.  For `Buddy`'s calls and for the
search of `schedule` the variants are proved (`LoopsEnd`, `SearchMovesOn`); that a step is
possible at all, and the step from there to `~>`, are left to the runs.  Every invariant,
action property and refinement that a passing run checks is also a theorem.

## 5. Findings

1. `push_rq` of a thread that is on the queue cuts off what is behind it (`sched.c:59`);
   boot leaves the running thread queued, so the first fork can lose its child.  Run
   `run_queue_lost`; `LossNeedsDoubleQueueing` shows that this is the only way.
2.  `schedule` is called in the middle of the tick, with the timer off and `cur_prio` raised
   (`timer.c:89`).  A thread that begins then has neither back, and a forked child only the
   timer, so programs started by the shell thread are not preempted: `fork_test`'s parent
   loops for ever and its children never print.  Interrupts stay masked in that shell too
   (the nesting count is the tick's), so its `async` waits for ever in `async_uart_gets` and
   what it puts into the ring is never sent (`uart.c:212`); `Console` has the state.  Run
   `preempt_user`; `OneTick` and `PrioExact` show the other side: the priority belongs to
   the thread that was left.
3. `setTimeout` keeps a pointer into the shell's line buffer, into which the next command is
   read before the timer expires (`shell.c:144`).  Run `console_line`.
4. `copy_thread` copies stacks from and to their *ends* (`syscall.c:99`): the child has no
   copy of its parent's registers, and the frames behind its stacks are overwritten.  Run
   `threads_child`; `TrapFrameKept` shows that this, and an exec call of a longer program,
   are the only ways a waiting thread's registers are lost.

**Seen while modelling.** Behaviour the models have, for which the sources state no
expectation that a run could refute:

* *Masking.* The exit call leaves the nesting count one too high (`syscall.c:41`), and
  `disable_interrupt` masks only at 0 (`exception.c:99`): afterwards it masks nothing.
  `UnmaskedNeedsSurplus` shows that such a surplus is the only way into a section.
* *Return from exceptions.* Interrupts are enabled before `ELR_EL1` is set and `eret`
  executed (`exception.c:112`, `a.S:148`); one taken in between makes the `eret` return to
  itself (`Eret` with `elr` at its own frame).
* *Tasks of one priority.*  `test_preempt` adds and pops a task of the UART's priority
  (`timer.c:129`): a UART handler that comes in between pops that older task and leaves its
  own on the list, for `test_preempt` to pop.  And where a surplus lets interrupts into such
  a task, handlers find nothing more urgent than `cur_prio` to pop (`task.c:58`), and their
  tasks pile up, each popped by a later handler.  So a UART task may wait without a handler
  of its own; `UrgentFirst` shows that no tick overtakes it.
* *Killed in a tick.* A thread killed while it is switched out in a tick never enables the
  timer or lowers `cur_prio` (`syscall.c:78`).  `LinesComeBack` and `PrioExact` count its
  frames as owners; that the owner is alive does not hold.
* *Failed fork.* The descriptor is marked free and stays queued, so `schedule` may run it
  (`syscall.c:106`); what is freed is the chunk behind the child's user stack, if one begins
  there, and never the kernel stack (`syscall.c:105`, `MemoryNeverReturns`).
* *Memory.* `slab_allocate` takes a frame before it looks for a page descriptor and keeps
  it when there is none (`buddy.c:494`; `MallocNoDescriptor`, `leaked`).  `size2order` wraps
  for requests within a frame of 2^32.  `buddy_init` forms blocks that are not aligned
  (`buddy_boot` and the proofs show that nothing overlaps).  `thread_exec` does not ask
  whether `malloc` failed.  The kernel stack of main's descriptor is replaced by the stack
  main runs on and never used.  User code is addressed from `user_sp + USER_STK_SIZE`
  although `user_sp` is the top already (`thread.c:166`).  The exec call copies over the old
  program's memory, whatever both sizes are (`syscall.c:30`).
* *Timers.* The tick is 1/32 s (`timer.c:99`), while `test_timer` and `setTimeout` say
  seconds.  A timeout of 0 waits for 2^64 ticks (`timer.c:71`).  An eleventh timer is dropped
  (`timer.c:18`).  Callbacks run masked, although `enable_interrupt` is called before them
  (`timer.c:74`).
* *UART.* An update of the enable register that is lost (`uart.c:152`), or that a tick keeps
  main from making (`timer.c:89`), leaves output standing until the next `async_uart_puts`.
  The receive interrupt may stay enabled after `async_uart_gets` has returned; the handler
  then takes a character from the prompt.
* *Mailbox.* A shell that is switched away from inside `mailbox_call` may lose its reply to
  the other shell and wait for ever (`mailbox.c:47`).

## 6. Not modelled, and why

* *Pressure test and statistics* (`buddy.c:610`): they call the frame allocator with
  interrupts on.  What two interrupted calls leave behind depends on single loads and stores
  of the compiled code, which the steps of `Buddy` (turns of a loop) do not separate; the
  table of blocks itself is a counter and an array.
* *`kill_zombies`, `idle`, `user_thread_create`* (`thread.c`): nothing calls them in the
  kernel as built (`main.c:54` is a comment).
* *Interrupts inside `schedule`, `add_task` and `pop_task`*: only possible with the surplus
  of the count described above, and then they depend on single loads and stores.
* *What `memory_reserve` is called with*: the ranges of the linker script, the device tree
  and the initramfs are constants of `Buddy`, any list of ranges.  `simple_alloc` and the
  other bump allocators (`allocator.c`) are one comparison and one addition.
* *Initial file system* (`cpio.c`) *and device tree* (`fdt.c`): walks over read-only data
  that end in a pointer; `ThreadMemory` takes a program of any size.
* *Synchronous UART, formatting, the shell's telling commands apart*: polled input and
  output without state of their own.
* *What a mailbox message asks* (`mailbox.c`): a property would restate the constants.
* *Boot loader and uploader*: one loop that stores as many bytes as it was told to expect,
  without retry, timeout or check whose order could go wrong.
* *Start-up assembly, linking*: straight-line code.

Nothing else of the kernel keeps state that several steps change.
