------------------------------- MODULE Preempt -------------------------------
(***************************************************************************)
(* When the processor takes an interrupt, and what it does then: the IRQ   *)
(* entries of kernel/exception.c and a.S, disable_interrupt and            *)
(* enable_interrupt, the task list of task.c, the tick and the preempt     *)
(* command of timer.c, around the run queue of RunQueue. Ticks happen here *)
(* when the interrupt state lets them, and a switch leaves a handler half  *)
(* done on the stack of the thread that is left.                           *)
(*                                                                         *)
(* Each thread has a kernel stack of frames, one for each exception it is  *)
(* in the middle of, and one for test_preempt while the shell is in it; a  *)
(* step is taken by the last frame of the running thread. The nesting      *)
(* count, the priority, the task list and the ELR register belong to the   *)
(* machine and not to a thread, as in the code.                            *)
(*                                                                         *)
(* Left out: interrupts inside schedule() itself (RunQueue's search is not *)
(* interrupted here, though an unmasked one would be) and between two      *)
(* steps of add_task or pop_task on the list (a surplus of the count would *)
(* let them in there too); the one-shot timers' callbacks.                 *)
(*                                                                         *)
(* A definition named X_Something, before the X it varies, is a mutation   *)
(* of the code for checking that the properties can fail.                  *)
(***************************************************************************)
EXTENDS Integers, Sequences, FiniteSetsExt

CONSTANTS
    MAX_THREAD_COUNT, THREAD_NULL,   \* as in RunQueue
    MallocFails,     \* whether add_task may find no memory
    MaxCount,        \* bound: no interrupt or call is taken beyond this nesting count
    MaxTasks,        \* bound: none is taken with more tasks left behind than this
    MaxDepth         \* bound: none is taken on top of more frames than this

VARIABLES
    rq, status, cur_thread, pc,      \* as in RunQueue
    begin,      \* how a thread starts when it is first switched to
    mode,       \* what runs below a thread's frames: "kernel" or "user" code
    section,    \* that kernel code is between disable_ and enable_interrupt
    stack,      \* the frames of each thread
    count,      \* nested_interrupt_cnt
    masked,     \* the DAIF bits: no interrupt is taken
    timer_on,   \* the core timer is enabled
    uart_on,    \* the UART's interrupt line is enabled
    tasks,      \* the tasks between task_head and task_end, by what they call
    cur_prio,   \* cur_prio
    elr         \* the frame number ELR_EL1 returns to, 0 for the code below all frames

ASSUME PreemptAssumption ==
    /\ MAX_THREAD_COUNT \in Nat /\ MAX_THREAD_COUNT >= 2
    /\ THREAD_NULL \notin 0 .. MAX_THREAD_COUNT - 1
    /\ MallocFails \in BOOLEAN
    /\ {MaxCount, MaxTasks, MaxDepth} \subseteq Nat

RQ == INSTANCE RunQueue

threads == <<rq, status, cur_thread, pc>>
below == <<begin, mode, section>>
lines == <<timer_on, uart_on>>
queue == <<tasks, cur_prio>>
vars == <<rq, status, cur_thread, pc, begin, mode, section, stack, count, masked,
          timer_on, uart_on, tasks, cur_prio, elr>>

Threads == 0 .. MAX_THREAD_COUNT - 1
UART_PRIO == 1
TIMER_PRIO == 16
LOW_PRIO == 256

(* The tasks: core_timer_handler, async_uart_handler_c, and the            *)
(* print_current_time of test_preempt.  A frame that runs one is at it.    *)
Prio == [tick |-> TIMER_PRIO, uart |-> UART_PRIO, print |-> 1]

-----------------------------------------------------------------------------
(* disable_interrupt and enable_interrupt *)
Down(n) == IF n > 0 THEN n - 1 ELSE n
Disable == count' = count + 1 /\ masked' = (masked \/ count = 0)
Enable == count' = Down(count) /\ masked' = (masked /\ Down(count) # 0)
DisableEnable == UNCHANGED count /\ masked' = (masked /\ count # 0)

(* The interrupt lines. *)
EnableTimer == timer_on' = TRUE
DisableTimer == timer_on' = FALSE
EnableUart == uart_on' = TRUE
DisableUart == uart_on' = FALSE

(* The frames of the running thread; its last frame is at a given point. *)
Stack == stack[cur_thread]
Depth == Len(Stack)
Last == Stack[Depth]
Here(at) == pc = "run" /\ Depth > 0 /\ Last.at = at
Goto(at) == stack' = [stack EXCEPT ![cur_thread][Depth].at = at]
Push(irq, at) ==
    stack' = [stack EXCEPT ![cur_thread] =
                 Append(@, [irq |-> irq, at |-> at, orin_prio |-> LOW_PRIO])]
Below(what) == pc = "run" /\ Depth = 0 /\ mode[cur_thread] = what

-----------------------------------------------------------------------------
(* main enables interrupts and the timer, then makes the boot threads.     *)
Init ==
    /\ RQ!Init
    /\ begin = [t \in Threads |-> CASE t = 0 -> "started" [] t = 1 -> "shell" [] OTHER -> "child"]
    /\ mode = [t \in Threads |-> IF t \in {0, 1} THEN "kernel" ELSE "user"]
    /\ section = [t \in Threads |-> FALSE]
    /\ stack = [t \in Threads |-> <<>>]
    /\ count = 0 /\ masked = FALSE
    /\ timer_on = TRUE /\ uart_on = TRUE
    /\ tasks = <<>> /\ cur_prio = LOW_PRIO
    /\ elr = 0

InitScheduler ==
    /\ RQ!InitScheduler
    /\ UNCHANGED <<below, stack, count, masked, lines, queue, elr>>

-----------------------------------------------------------------------------
(* An exception masks interrupts and saves where it comes from. *)
Bounded == count < MaxCount /\ Len(tasks) < MaxTasks /\ Depth < MaxDepth
Except(irq, at) == Push(irq, at) /\ masked' = TRUE /\ elr' = Depth

TimerIrq ==
    /\ pc = "run" /\ ~masked /\ timer_on /\ Bounded
    /\ Except("timer", "add")
    /\ DisableTimer
    /\ UNCHANGED <<threads, below, count, uart_on, queue>>

UartIrq ==
    /\ pc = "run" /\ ~masked /\ uart_on /\ Bounded
    /\ ~Below("user")
    /\ Except("uart", "add")
    /\ DisableUart
    /\ UNCHANGED <<threads, below, count, timer_on, queue>>

(* el0_irq_entry looks for the timer only. *)
UartIrqInUser ==
    /\ ~masked /\ uart_on
    /\ Below("user")
    /\ UNCHANGED vars

(* insert_task: before the first task of a lower priority. *)
InsertTask_AtEnd(task) == Append(tasks, task)
InsertTask(task) ==
    LET at == CHOOSE i \in 1 .. Len(tasks) + 1 :
                  /\ i > Len(tasks) \/ Prio[task] < Prio[tasks[i]]
                  /\ \A j \in 1 .. i - 1 : Prio[task] >= Prio[tasks[j]]
    IN  SubSeq(tasks, 1, at - 1) \o <<task>> \o SubSeq(tasks, at, Len(tasks))

(* What a handler, or test_preempt, adds, and does next. *)
Added == [timer |-> "tick", uart |-> "uart", test |-> "print"][Last.irq]
AfterAdd == IF Last.irq = "test" THEN "puts" ELSE "pop"

AddTask ==
    /\ Here("add")
    /\ tasks' = InsertTask(Added)
    /\ DisableEnable
    /\ Goto(AfterAdd)
    /\ UNCHANGED <<threads, below, lines, cur_prio, elr>>

(* No memory for the task: interrupts are not enabled again. *)
AddTaskFails ==
    /\ MallocFails
    /\ Here("add")
    /\ Disable
    /\ Goto(AfterAdd)
    /\ UNCHANGED <<threads, below, lines, queue, elr>>

(* pop_task: whoever calls it takes the first task, its own or another's. *)
Due == tasks # <<>> /\ Prio[tasks[1]] < cur_prio
StartTask ==
    stack' = [stack EXCEPT ![cur_thread][Depth] =
                 [@ EXCEPT !.at = tasks[1], !.orin_prio = cur_prio]]

PopTask_PrioKept ==
    /\ Here("pop") /\ Due
    /\ Disable
    /\ StartTask
    /\ tasks' = Tail(tasks)
    /\ UNCHANGED <<threads, below, lines, elr, cur_prio>>
PopTask_NotDisabled ==
    /\ Here("pop") /\ Due
    /\ StartTask
    /\ cur_prio' = Prio[tasks[1]]
    /\ tasks' = Tail(tasks)
    /\ UNCHANGED <<threads, below, lines, elr, count, masked>>
PopTask ==
    /\ Here("pop") /\ Due
    /\ Disable
    /\ StartTask
    /\ cur_prio' = Prio[tasks[1]]
    /\ tasks' = Tail(tasks)
    /\ UNCHANGED <<threads, below, lines, elr>>

(* The early return: interrupts are not enabled again. *)
PopNothing_LineLeftOff ==
    /\ Here("pop") /\ ~Due
    /\ Disable
    /\ Goto("return")
    /\ UNCHANGED <<threads, below, lines, queue, elr>>
PopNothing ==
    /\ Here("pop") /\ ~Due
    /\ Disable
    /\ Goto("leave")
    /\ UNCHANGED <<threads, below, lines, queue, elr>>

(* async_uart_handler_c; it enables its line before its task is over. *)
RunUart ==
    /\ Here("uart")
    /\ EnableUart
    /\ cur_prio' = Last.orin_prio
    /\ Enable
    /\ Goto("leave")
    /\ UNCHANGED <<threads, below, timer_on, tasks, elr>>

(* print_current_time *)
RunPrint ==
    /\ Here("print")
    /\ cur_prio' = Last.orin_prio
    /\ Enable
    /\ Goto("leave")
    /\ UNCHANGED <<threads, below, lines, tasks, elr>>

(* os_time_tick calls schedule(), which may come back much later. *)
RunTick ==
    /\ Here("tick")
    /\ RQ!Tick
    /\ Goto("ticked")
    /\ UNCHANGED <<below, count, masked, lines, queue, elr>>

EndTick_PrioKept ==
    /\ Here("ticked")
    /\ Enable
    /\ Goto("leave")
    /\ UNCHANGED <<threads, below, lines, tasks, elr, cur_prio>>
EndTick ==
    /\ Here("ticked")
    /\ cur_prio' = Last.orin_prio
    /\ Enable
    /\ Goto("leave")
    /\ UNCHANGED <<threads, below, lines, tasks, elr>>

(* The last lines of the IRQ entries. *)
Leave ==
    /\ Here("leave")
    /\ \/ Last.irq = "timer" /\ EnableTimer /\ UNCHANGED uart_on
       \/ Last.irq = "uart" /\ EnableUart /\ UNCHANGED timer_on
    /\ Goto("return")
    /\ UNCHANGED <<threads, below, count, masked, queue, elr>>

(* _load_all, then eret.  An interrupt between the two changes ELR_EL1,    *)
(* and its own return leaves it pointing to the interrupted eret.          *)
LoadAll ==
    /\ Here("return")
    /\ elr' = Depth - 1
    /\ Goto("eret")
    /\ UNCHANGED <<threads, below, count, masked, lines, queue>>

Eret ==
    /\ Here("eret")
    /\ masked' = FALSE
    /\ stack' = IF elr = Depth THEN stack
                ELSE [stack EXCEPT ![cur_thread] = SubSeq(@, 1, Depth - 1)]
    /\ UNCHANGED <<threads, below, count, lines, queue, elr>>

-----------------------------------------------------------------------------
(* schedule's search for a thread, and switch_to.  A thread that was left  *)
(* in a tick goes on there.  A new one begins with the masking, the count, *)
(* the priority and the timer as the interrupted handler had them: the     *)
(* shell with no more, a child in _child_fork_ret, which starts the timer  *)
(* and counts down once.                                                   *)
PickDead ==
    /\ RQ!PickDead
    /\ UNCHANGED <<below, stack, count, masked, lines, queue, elr>>

PickStarted ==
    /\ RQ!PickLive
    /\ begin[rq.head] = "started"
    /\ UNCHANGED <<below, stack, count, masked, lines, queue, elr>>

PickShell ==
    /\ RQ!PickLive
    /\ begin[rq.head] = "shell"
    /\ begin' = [begin EXCEPT ![rq.head] = "started"]
    /\ UNCHANGED <<mode, section, stack, count, masked, lines, queue, elr>>

PickChild ==
    /\ RQ!PickLive
    /\ begin[rq.head] = "child"
    /\ begin' = [begin EXCEPT ![rq.head] = "started"]
    /\ stack' = [stack EXCEPT ![rq.head] =
                     <<[irq |-> "sync", at |-> "return", orin_prio |-> LOW_PRIO]>>]
    /\ EnableTimer
    /\ Enable
    /\ UNCHANGED <<mode, section, uart_on, queue, elr>>

-----------------------------------------------------------------------------
(* System calls from user code (el0_sync_entry), to the point before       *)
(* _load_all.  Only a call that finds the count at 0 turns interrupts on   *)
(* before it returns.                                                      *)
Called(at) == Below("user") /\ Bounded /\ Push("sync", at) /\ elr' = 0
CallMasks == UNCHANGED count /\ masked' = (count # 0)

(* getpid, uart_write, exec, the mailbox call, and a fork or kill that     *)
(* changes no thread.                                                      *)
OtherCall ==
    /\ Called("return")
    /\ CallMasks
    /\ UNCHANGED <<threads, below, lines, queue>>

ForkCall ==
    /\ Called("return")
    /\ RQ!Fork
    /\ CallMasks
    /\ UNCHANGED <<below, lines, queue>>

(* The descriptor of the failed fork stays queued.  If it is picked, it    *)
(* goes to _child_fork_ret as a child does, with what registers it has.    *)
ForkNoProgramCall ==
    /\ Called("return")
    /\ RQ!ForkNoProgram
    /\ CallMasks
    /\ UNCHANGED <<below, lines, queue>>

KillCall ==
    /\ Called("return")
    /\ \E t \in Threads : RQ!Kill(t)
    /\ CallMasks
    /\ UNCHANGED <<below, lines, queue>>

(* uart_read waits for its characters with interrupts enabled. *)
ReadCall ==
    /\ Called("read")
    /\ CallMasks
    /\ UNCHANGED <<threads, below, lines, queue>>

ReadDone ==
    /\ Here("read")
    /\ DisableEnable
    /\ Goto("return")
    /\ UNCHANGED <<threads, below, lines, queue, elr>>

(* exit leaves its thread for good, and the count as the call had it.      *)
ExitCall_Enabled ==
    /\ Below("user") /\ Bounded
    /\ RQ!Exit
    /\ CallMasks
    /\ elr' = 0
    /\ UNCHANGED <<below, stack, lines, queue>>
ExitCall ==
    /\ Below("user") /\ Bounded
    /\ RQ!Exit
    /\ count' = count + 1 /\ masked' = TRUE
    /\ elr' = 0
    /\ UNCHANGED <<below, stack, lines, queue>>

-----------------------------------------------------------------------------
(* Kernel code below all frames: the shell, which calls malloc, free and   *)
(* others that mask interrupts, and starts programs.                       *)
EnterSection ==
    /\ Below("kernel") /\ ~section[cur_thread] /\ Bounded
    /\ section' = [section EXCEPT ![cur_thread] = TRUE]
    /\ Disable
    /\ UNCHANGED <<threads, begin, mode, stack, lines, queue, elr>>

LeaveSection ==
    /\ Below("kernel") /\ section[cur_thread]
    /\ section' = [section EXCEPT ![cur_thread] = FALSE]
    /\ Enable
    /\ UNCHANGED <<threads, begin, mode, stack, lines, queue, elr>>

(* thread_exec: exec_in_el0 sets the registers and then returns to them.   *)
Exec ==
    /\ Below("kernel") /\ ~section[cur_thread]
    /\ mode' = [mode EXCEPT ![cur_thread] = "user"]
    /\ Push("sync", "eret")
    /\ elr' = 0
    /\ UNCHANGED <<threads, begin, section, count, masked, lines, queue>>

(* The preempt command: test_preempt adds a task, writes its message, and  *)
(* pops the first task.                                                    *)
TestPreempt ==
    /\ Below("kernel") /\ ~section[cur_thread] /\ Bounded
    /\ Push("test", "add")
    /\ UNCHANGED <<threads, below, count, masked, lines, queue, elr>>

(* async_uart_puts masks interrupts while it copies the message. *)
PutsMessage ==
    /\ Here("puts")
    /\ DisableEnable
    /\ Goto("pop")
    /\ UNCHANGED <<threads, below, lines, queue, elr>>

TestDone ==
    /\ Here("leave") /\ Last.irq = "test"
    /\ stack' = [stack EXCEPT ![cur_thread] = SubSeq(@, 1, Depth - 1)]
    /\ UNCHANGED <<threads, below, count, masked, lines, queue, elr>>

(* The code below all frames computes. *)
Compute ==
    /\ pc = "run" /\ Depth = 0
    /\ UNCHANGED vars

-----------------------------------------------------------------------------
Irq == TimerIrq \/ UartIrq \/ UartIrqInUser

Handle ==
    \/ AddTask \/ AddTaskFails
    \/ PopTask \/ PopNothing
    \/ RunUart \/ RunPrint \/ RunTick \/ EndTick
    \/ Leave

Return == LoadAll \/ Eret \/ ReadDone

Pick == PickDead \/ PickStarted \/ PickShell \/ PickChild

Call == OtherCall \/ ForkCall \/ ForkNoProgramCall \/ KillCall \/ ReadCall \/ ExitCall

Below0 == Compute \/ EnterSection \/ LeaveSection \/ Exec

Test == TestPreempt \/ PutsMessage \/ TestDone

Next == InitScheduler \/ Irq \/ Handle \/ Return \/ Pick \/ Call \/ Below0 \/ Test

Spec == Init /\ [][Next]_vars

-----------------------------------------------------------------------------
(***************************************************************************)
(* Properties                                                              *)
(***************************************************************************)

(* The frames of a thread that run a task, or were switched out in one.    *)
Running(t) == {i \in DOMAIN stack[t] : stack[t][i].at \in {"tick", "uart", "print", "ticked"}}
RunningAt(points) == {t \in Threads : \E i \in DOMAIN stack[t] : stack[t][i].at \in points}

(* How often the running thread is between disable_ and enable_interrupt.  *)
Held == Cardinality(Running(cur_thread)) + (IF section[cur_thread] THEN 1 ELSE 0)

(* The count is never below what the running thread will count down:       *)
(* whatever the other threads did in between, and although a forked child  *)
(* counts down once for nothing, enable_interrupt never turns interrupts   *)
(* on inside an outer section, and never finds the count at 0 there.       *)
CountCovers == pc = "run" => count >= Held

(* The only thing that lets interrupts into a section or a task is a count *)
(* somebody raised and left.                                               *)
UnmaskedNeedsSurplus == pc = "run" /\ Held > 0 => masked \/ count > Held

(* A tick, which may switch to another thread for long, never begins while *)
(* a more urgent task waits on the list or is half done on any stack: with *)
(* tasks left queued by early returns, popped by somebody else's handler,  *)
(* and added by handlers that came in the middle of others.                *)
UrgentFirst ==
    Here("tick") =>
        /\ \A i \in DOMAIN tasks : Prio[tasks[i]] >= TIMER_PRIO
        /\ RunningAt({"uart", "print"}) = {}

(* An interrupt line is off only while some thread has a handler that will *)
(* turn it on, the ways through failed and early returns included.         *)
TurnsOn(irq) ==
    \E t \in Threads : \E i \in DOMAIN stack[t] :
        stack[t][i].irq = irq /\ stack[t][i].at \notin {"return", "eret"}
LinesComeBack == (timer_on \/ TurnsOn("timer")) /\ (uart_on \/ TurnsOn("uart"))

(* cur_prio is the priority of the most urgent task that is running or was *)
(* switched out, over all threads; each restores what it found.            *)
PrioExact ==
    LET prios == (IF RunningAt({"uart", "print"}) # {} THEN {UART_PRIO} ELSE {})
                 \cup (IF RunningAt({"tick", "ticked"}) # {} THEN {TIMER_PRIO} ELSE {})
    IN  cur_prio = Min(prios \cup {LOW_PRIO})

(* Ticks do not nest: while one thread is switched out in a tick, no other *)
(* thread's tick runs, so schedule() is not entered from a tick again.     *)
OneTick == Cardinality(RunningAt({"tick", "ticked"})) <= 1

(* User code can be preempted: the timer is on, and its task would be run. *)
(* fork_test (shell.c:181 to 268) relies on it: parent and children loop,  *)
(* and each is to print its lines.                                         *)
UserPreemptible == Below("user") => timer_on /\ cur_prio > TIMER_PRIO
=============================================================================
