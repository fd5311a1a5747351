----------------------------- MODULE ThreadMemory -----------------------------
(***************************************************************************)
(* The stacks and programs of threads: what thread_create and thread_exec  *)
(* (kernel/thread.c), copy_thread and the exec call (syscall.c) allocate,  *)
(* free and write.                                                         *)
(*                                                                         *)
(* Memory is counted in frames: a stack is one, a program one or more.     *)
(* kernel_sp and user_sp are the ends of the stacks, and so the number of  *)
(* the frame behind each.  Of what is written only trap frames are kept:   *)
(* which thread's registers a frame holds, saved when it was interrupted   *)
(* or called the kernel.                                                   *)
(*                                                                         *)
(* malloc is the promise of Heap: any free frames, or NULL at any time, as *)
(* what the rest of the kernel allocates is not in the model.  A switch    *)
(* may go to any descriptor on the run queue that is not dead, which is    *)
(* what RunQueue's schedule() does in some order.  The calls mask          *)
(* interrupts, so each is a step (Preempt shows where that fails).         *)
(***************************************************************************)
EXTENDS Integers

CONSTANTS
    MAX_THREAD_COUNT,   \* number of thread descriptors
    TotalFrame,      \* frames of the heap
    Sizes,           \* of programs; 0 is a function of the kernel (fork_test)
    NONE             \* no thread

VARIABLES
    status,      \* of each descriptor; READY stands for THREAD_RUN as well
    cur_thread,  \* the running thread
    in_user,     \* the threads that run user code
    kernel_sp, user_sp, prog, prog_size,    \* the fields of thread_t
    chunks,      \* what malloc has handed out: <<first frame, frames>>
    saved        \* saved[f]: the thread whose trap frame is in frame f

threads == <<status, cur_thread>>
fields == <<kernel_sp, user_sp, prog, prog_size>>
vars == <<status, cur_thread, in_user,
          kernel_sp, user_sp, prog, prog_size, chunks, saved>>

Threads == 0 .. MAX_THREAD_COUNT - 1
Frames == 0 .. TotalFrame - 1
FREE == 0
READY == 1
DEAD == 3
NULL == -1
KERNEL == -2                    \* a function of the kernel
BootStack == TotalFrame + 1     \* where main runs, outside of the heap

(* The heap, the frame behind it, the boot stack and the frame behind it.  *)
Memory == 0 .. TotalFrame + 2

ASSUME ThreadMemoryAssumption ==
    /\ MAX_THREAD_COUNT \in Nat /\ MAX_THREAD_COUNT >= 2
    /\ TotalFrame \in Nat /\ TotalFrame >= 4
    /\ Sizes \subseteq Nat
    /\ NONE \notin Threads

-----------------------------------------------------------------------------
Extent(c) == c[1] .. c[1] + c[2] - 1
Taken(cs) == UNION {Extent(c) : c \in cs}

(* Where malloc may put a chunk of so many frames.  Bound: at either end   *)
(* of the free memory.                                                     *)
Room(cs, size) == {f \in Frames : size > 0 /\ Extent(<<f, size>>) \subseteq Frames \ Taken(cs)}
Fresh(cs, size) ==
    LET room == Room(cs, size)
    IN  {f \in room : (\A g \in room : g >= f) \/ (\A g \in room : g <= f)}

FreeAt(cs, address) == {c \in cs : c[1] # address}

KernelStack(t) == kernel_sp[t] - 1

(* An exception saves the registers in the kernel stack.                   *)
Trap == [saved EXCEPT ![KernelStack(cur_thread)] = cur_thread]

(* utils_memcpy of one frame. *)
Copy(src, dst, mem) == [mem EXCEPT ![dst] = mem[src]]

-----------------------------------------------------------------------------
(* What init_scheduler leaves; the allocator hands out frames in order.    *)
(* The kernel stack of main's thread is never used: init_scheduler puts    *)
(* the stack main runs on in its place.                                    *)
Init ==
    /\ status = [t \in Threads |-> IF t \in {0, 1} THEN READY ELSE FREE]
    /\ cur_thread = 0
    /\ in_user = {}
    /\ kernel_sp = [t \in Threads |-> CASE t = 0 -> BootStack + 1 [] t = 1 -> 3 [] OTHER -> NULL]
    /\ user_sp = [t \in Threads |-> CASE t = 0 -> 2 [] t = 1 -> 4 [] OTHER -> NULL]
    /\ prog = [t \in Threads |-> NULL] /\ prog_size = [t \in Threads |-> 0]
    /\ chunks = {<<f, 1>> : f \in 0 .. 3}
    /\ saved = [f \in Memory |-> NONE]

(* A tick: the registers are saved, and any descriptor on the run queue    *)
(* that is not dead goes on, with status s until then.  A descriptor stays *)
(* there when a failed fork marks it free; schedule() marks it again.      *)
Queued == {t \in Threads : kernel_sp[t] # NULL}
OffStatus(s) == IF s[cur_thread] = DEAD THEN DEAD ELSE READY
Switch(s) ==
    /\ \E t \in Queued :
        /\ s[t] # DEAD
        /\ cur_thread' = t
        /\ status' = [s EXCEPT ![t] = READY, ![cur_thread] = OffStatus(s)]
    /\ saved' = Trap

Tick ==
    /\ Switch(status)
    /\ UNCHANGED <<in_user, fields, chunks>>

(* What an exit and a kill do to memory: nothing.                          *)
User == cur_thread \in in_user

Exit_StackFreed ==
    /\ User
    /\ Switch([status EXCEPT ![cur_thread] = DEAD])
    /\ chunks' = FreeAt(chunks, user_sp[cur_thread])
    /\ UNCHANGED <<in_user, fields>>
Exit ==
    /\ User
    /\ Switch([status EXCEPT ![cur_thread] = DEAD])
    /\ UNCHANGED <<in_user, fields, chunks>>

Kill(t) ==
    /\ User
    /\ status[t] # FREE
    /\ status' = [status EXCEPT ![t] = DEAD]
    /\ saved' = Trap
    /\ UNCHANGED <<cur_thread, in_user, fields, chunks>>

-----------------------------------------------------------------------------
(* thread_create: the first free descriptor, and stacks at frames k and u. *)
FirstFree == {t \in Threads : status[t] = FREE /\ \A i \in 0 .. t - 1 : status[i] # FREE}
Created(t, k, u) ==
    /\ kernel_sp' = [kernel_sp EXCEPT ![t] = k + 1]
    /\ user_sp' = [user_sp EXCEPT ![t] = u + 1]
Stack(f) == <<f, 1>>

(* copy_thread copies from and to the ends of the stacks, upwards.         *)
CopyStacks(k, u) ==
    saved' = Copy(kernel_sp[cur_thread], k + 1, Copy(user_sp[cur_thread], u + 1, Trap))

(* The program is copied too, unless the parent has none; the child then   *)
(* keeps what the descriptor had.                                          *)
CopyProgram_NotRecorded(t, cs) ==
    IF prog_size[cur_thread] = 0
    THEN chunks' = cs /\ UNCHANGED <<prog, prog_size>>
    ELSE \E p \in Fresh(cs, prog_size[cur_thread]) :
            /\ chunks' = cs \cup {<<p, prog_size[cur_thread]>>}
            /\ prog_size' = [prog_size EXCEPT ![t] = prog_size[cur_thread]]
            /\ UNCHANGED prog
CopyProgram(t, cs) ==
    IF prog_size[cur_thread] = 0
    THEN chunks' = cs /\ UNCHANGED <<prog, prog_size>>
    ELSE \E p \in Fresh(cs, prog_size[cur_thread]) :
            /\ chunks' = cs \cup {<<p, prog_size[cur_thread]>>}
            /\ prog' = [prog EXCEPT ![t] = p]
            /\ prog_size' = [prog_size EXCEPT ![t] = prog_size[cur_thread]]

Fork ==
    /\ User
    /\ \E t \in FirstFree, k \in Fresh(chunks, 1) :
       \E u \in Fresh(chunks \cup {Stack(k)}, 1) :
        /\ Created(t, k, u)
        /\ CopyStacks(k, u)
        /\ CopyProgram(t, chunks \cup {Stack(k), Stack(u)})
        /\ status' = [status EXCEPT ![t] = READY]
        /\ in_user' = in_user \cup {t}
    /\ UNCHANGED cur_thread

(* No memory for the program: user_sp is freed, which is not where the     *)
(* user stack begins, and the kernel stack is not.                         *)
ForkNoProgram ==
    /\ User
    /\ prog_size[cur_thread] > 0
    /\ \E t \in FirstFree, k \in Fresh(chunks, 1) :
       \E u \in Fresh(chunks \cup {Stack(k)}, 1) :
        /\ Created(t, k, u)
        /\ CopyStacks(k, u)
        /\ chunks' = FreeAt(chunks \cup {Stack(k), Stack(u)}, u + 1)
        /\ prog' = [prog EXCEPT ![t] = NULL]
        /\ prog_size' = [prog_size EXCEPT ![t] = prog_size[cur_thread]]
        /\ in_user' = in_user \cup {t}
    /\ UNCHANGED threads

(* No descriptor, or no memory for the first stack; or for the second, and *)
(* then the first is kept.                                                 *)
ForkFails ==
    /\ User
    /\ \/ UNCHANGED chunks
       \/ /\ FirstFree # {}
          /\ \E k \in Fresh(chunks, 1) : chunks' = chunks \cup {Stack(k)}
    /\ saved' = Trap
    /\ UNCHANGED <<threads, in_user, fields>>

-----------------------------------------------------------------------------
(* thread_exec, from a shell: the old program is freed, and the new one is *)
(* copied to what malloc returns, NULL included.                           *)
Overwrite_OneMore(first, size) ==
    saved' = [f \in Memory |-> IF f \in first .. first + size /\ f <= TotalFrame
                               THEN NONE ELSE saved[f]]
Overwrite(first, size) ==
    saved' = [f \in Memory |-> IF f \in first .. first + size - 1 /\ f <= TotalFrame
                               THEN NONE ELSE saved[f]]

Exec(size) ==
    /\ cur_thread \notin in_user
    /\ in_user' = in_user \cup {cur_thread}
    /\ prog_size' = [prog_size EXCEPT ![cur_thread] = size]
    /\ LET cs == IF prog_size[cur_thread] > 0 THEN FreeAt(chunks, prog[cur_thread])
                 ELSE chunks
       IN  \/ /\ size = 0
              /\ prog' = [prog EXCEPT ![cur_thread] = KERNEL]
              /\ chunks' = cs
              /\ UNCHANGED saved
           \/ \E p \in Fresh(cs, size) :
                /\ prog' = [prog EXCEPT ![cur_thread] = p]
                /\ chunks' = cs \cup {<<p, size>>}
                /\ Overwrite(p, size)
           \/ /\ size > 0
              /\ prog' = [prog EXCEPT ![cur_thread] = NULL]
              /\ chunks' = cs
              /\ UNCHANGED saved
    /\ UNCHANGED <<threads, kernel_sp, user_sp>>

(* The exec call copies over the old program, of whatever size; over the   *)
(* kernel's code or address 0 if that is where prog points.  A name that   *)
(* is not found has size 0.                                                *)
ExecCall(size) ==
    /\ User
    /\ prog_size' = [prog_size EXCEPT ![cur_thread] = size]
    /\ IF prog[cur_thread] \in Frames THEN Overwrite(prog[cur_thread], size) ELSE UNCHANGED saved
    /\ UNCHANGED <<threads, in_user, kernel_sp, user_sp, prog, chunks>>

-----------------------------------------------------------------------------
Next ==
    \/ Tick \/ Exit \/ \E t \in Threads : Kill(t)
    \/ Fork \/ ForkNoProgram \/ ForkFails
    \/ \E size \in Sizes : Exec(size) \/ ExecCall(size)

Spec == Init /\ [][Next]_vars

-----------------------------------------------------------------------------
(***************************************************************************)
(* Properties                                                              *)
(***************************************************************************)

(* Every field is a frame number, or says that there is none.              *)
TypeOK ==
    /\ status \in [Threads -> {FREE, READY, DEAD}] /\ cur_thread \in Threads
    /\ in_user \subseteq Threads
    /\ kernel_sp \in [Threads -> Memory \cup {NULL}]
    /\ user_sp \in [Threads -> 0 .. TotalFrame \cup {NULL}]
    /\ prog \in [Threads -> Frames \cup {NULL, KERNEL}]
    /\ prog_size \in [Threads -> Nat]
    /\ \A c \in chunks : Extent(c) \subseteq Frames
    /\ saved \in [Memory -> Threads \cup {NONE}]

(* Whatever ends a thread, its memory stays with it: nobody collects       *)
(* zombies (main.c:54), and a shell starts one program, so thread_exec     *)
(* finds none to free.  What is given back is a chunk that begins right    *)
(* behind the user stack of a child whose fork finds no memory for the     *)
(* program, whosever chunk that is (syscall.c:105).                        *)
MemoryNeverReturns ==
    [][\A c \in chunks \ chunks' :
          ForkNoProgram /\ \E child \in FirstFree : c[1] = user_sp'[child]]_vars

(* The chunks that a descriptor in use still leads to.                     *)
Held == {c \in chunks : \E t \in Threads :
             status[t] # FREE /\ c[1] \in {kernel_sp[t] - 1, user_sp[t] - 1, prog[t]}}

(* Memory nobody can find any more is a stack that a failing fork has just *)
(* taken (or main's kernel stack): nothing drops a chunk that was in use   *)
(* before, and no fork that succeeds drops one of its own (thread.c:41).   *)
Lost == {c \in chunks : c \notin Held}
LeakNeedsFailedFork ==
    [][\A c \in Lost' \ Lost : c \notin chunks /\ (ForkNoProgram \/ ForkFails)]_vars

(* A thread that waits, and whose kernel stack is still its own: malloc    *)
(* has it as handed out, and no other descriptor points to it.             *)
WaitsOnOwn(t) ==
    /\ t # cur_thread /\ status[t] = READY
    /\ KernelStack(t) = BootStack \/ Stack(KernelStack(t)) \in chunks
    /\ \A u \in Threads \ {t} : KernelStack(t) \notin {KernelStack(u), prog[u]}

(* A fork's copies go to the frames behind the child's stacks.             *)
CopiedTo(f) ==
    /\ Fork \/ ForkNoProgram
    /\ \E child \in FirstFree : f \in {kernel_sp'[child], user_sp'[child]}

(* The memory exec copies to is shorter than the program, or is nobody's.  *)
Outgrown(size) == \A c \in chunks : c[1] = prog[cur_thread] => c[2] < size

(* What a waiting thread will return with is overwritten only by a fork's  *)
(* copies, which go to the frames behind the child's stacks (syscall.c:99),*)
(* and by an exec call of a program that is longer than the thread's first *)
(* one (syscall.c:30); neither of them asks whose frames these are.        *)
TrapFrameKept ==
    [][\A t \in Threads :
          WaitsOnOwn(t) /\ saved[KernelStack(t)] = t /\ saved'[KernelStack(t)] # t
              => \/ CopiedTo(KernelStack(t))
                 \/ \E size \in Sizes : ExecCall(size) /\ Outgrown(size)]_vars

(* A forked child begins with its parent's registers (shell.c:181: the     *)
(* child of fork_test goes on behind fork() with 0).                       *)
ChildResumes ==
    [][Fork => \A child \in FirstFree : saved'[kernel_sp'[child] - 1] = cur_thread]_vars
=============================================================================
