------------------------- MODULE ThreadMemoryProofs --------------------------
(***************************************************************************)
(* Proofs about ThreadMemory for every number of threads, size of memory   *)
(* and set of programs.  No chunk is given back because thread_exec, the   *)
(* one caller of free besides the failed fork, only runs in a thread that  *)
(* has had no program yet.  What is written to memory hits nobody's trap   *)
(* frame, but for the copies that go astray, because chunks are apart.     *)
(***************************************************************************)
EXTENDS ThreadMemory, TLAPS

(* A thread that does not run user code has no program.                    *)
ShellsHaveNone ==
    \A t \in Threads : t \notin in_user => prog_size[t] = 0 /\ prog[t] = NULL

(* No chunk is where a field that says there is none points.               *)
ChunksBegin == \A c \in chunks : c[1] \in Frames

(* Whoever can run has both stacks, and runs user code if its descriptor   *)
(* is marked free.                                                         *)
RunnersHaveStacks ==
    /\ \A t \in Threads : kernel_sp[t] # NULL <=> user_sp[t] # NULL
    /\ kernel_sp[cur_thread] # NULL
    /\ \A t \in Threads : status[t] = FREE /\ kernel_sp[t] # NULL => t \in in_user

IndInv == TypeOK /\ ShellsHaveNone /\ ChunksBegin /\ RunnersHaveStacks

-----------------------------------------------------------------------------
(* A chunk from malloc is in the heap.                                     *)
LEMMA FreshInHeap ==
    ASSUME NEW cs, NEW size \in Nat
    PROVE  \A f \in Fresh(cs, size) : f \in Frames /\ Extent(<<f, size>>) \subseteq Frames
  BY DEF Fresh, Room

(* What free leaves was there.                                             *)
LEMMA FreeLeaves ==
    ASSUME NEW cs, NEW address
    PROVE  FreeAt(cs, address) \subseteq cs
  BY DEF FreeAt

(* A copy of a frame, and a saved trap frame, keep the trap frames' type.  *)
LEMMA CopyType ==
    ASSUME NEW src \in Memory, NEW dst \in Memory,
           NEW mem \in [Memory -> Threads \cup {NONE}]
    PROVE  Copy(src, dst, mem) \in [Memory -> Threads \cup {NONE}]
  BY DEF Copy

LEMMA TrapType ==
    ASSUME IndInv
    PROVE  Trap \in [Memory -> Threads \cup {NONE}]
  BY DEF IndInv, TypeOK, Trap

-----------------------------------------------------------------------------
(* What thread_create and the copies of the stacks do, in either fork.     *)
LEMMA ForkStacks ==
    ASSUME IndInv, NEW t \in FirstFree, NEW k \in Fresh(chunks, 1),
           NEW u \in Fresh(chunks \cup {Stack(k)}, 1),
           Created(t, k, u), CopyStacks(k, u), UNCHANGED cur_thread,
           in_user' = in_user \cup {t},
           \A other \in Threads \ {t} : status'[other] = status[other]
    PROVE  /\ t \in Threads
           /\ kernel_sp' \in [Threads -> Memory \cup {NULL}]
           /\ user_sp' \in [Threads -> 0 .. TotalFrame \cup {NULL}]
           /\ RunnersHaveStacks'
           /\ saved' \in [Memory -> Threads \cup {NONE}]
           /\ \A c \in chunks \cup {Stack(k), Stack(u)} :
                 c[1] \in Frames /\ Extent(c) \subseteq Frames
<1>1. t \in Threads
  BY DEF FirstFree
<1>2. k \in Frames /\ u \in Frames /\ Extent(Stack(k)) \subseteq Frames
      /\ Extent(Stack(u)) \subseteq Frames
  BY FreshInHeap DEF Stack
<1>3. /\ k + 1 \in 0 .. TotalFrame /\ u + 1 \in 0 .. TotalFrame
      /\ k + 1 # NULL /\ u + 1 # NULL /\ k + 1 \in Memory /\ u + 1 \in Memory
  BY <1>2, ThreadMemoryAssumption DEF Frames, Memory, NULL
<1>4. /\ kernel_sp' \in [Threads -> Memory \cup {NULL}]
      /\ user_sp' \in [Threads -> 0 .. TotalFrame \cup {NULL}]
      /\ RunnersHaveStacks'
  BY <1>1, <1>3 DEF Created, IndInv, TypeOK, RunnersHaveStacks
<1>5. saved' \in [Memory -> Threads \cup {NONE}]
  <2>1. kernel_sp[cur_thread] \in Memory /\ user_sp[cur_thread] \in Memory
    BY ThreadMemoryAssumption DEF IndInv, TypeOK, RunnersHaveStacks, Memory
  <2> QED
    BY <1>3, <2>1, TrapType, CopyType DEF CopyStacks
<1>6. \A c \in chunks \cup {Stack(k), Stack(u)} :
          c[1] \in Frames /\ Extent(c) \subseteq Frames
  <2>1. Stack(k)[1] \in Frames /\ Stack(u)[1] \in Frames
    BY <1>2 DEF Stack
  <2> QED
    BY <1>2, <2>1 DEF IndInv, TypeOK, ChunksBegin
<1> QED
  BY <1>1, <1>4, <1>5, <1>6

(* fork with enough memory.                                                *)
LEMMA ForkStep ==
    ASSUME IndInv, Fork
    PROVE  IndInv' /\ chunks \subseteq chunks'
<1>1. PICK t \in FirstFree, k \in Fresh(chunks, 1) :
          \E u \in Fresh(chunks \cup {Stack(k)}, 1) :
              /\ Created(t, k, u)
              /\ CopyStacks(k, u)
              /\ CopyProgram(t, chunks \cup {Stack(k), Stack(u)})
              /\ status' = [status EXCEPT ![t] = READY]
              /\ in_user' = in_user \cup {t}
  BY DEF Fork
<1>2. PICK u \in Fresh(chunks \cup {Stack(k)}, 1) :
              /\ Created(t, k, u)
              /\ CopyStacks(k, u)
              /\ CopyProgram(t, chunks \cup {Stack(k), Stack(u)})
              /\ status' = [status EXCEPT ![t] = READY]
              /\ in_user' = in_user \cup {t}
  BY <1>1
<1>3. UNCHANGED cur_thread /\ cur_thread \in Threads
  BY DEF Fork, IndInv, TypeOK
<1> DEFINE cs == chunks \cup {Stack(k), Stack(u)}
           size == prog_size[cur_thread]
<1>4. /\ t \in Threads
      /\ kernel_sp' \in [Threads -> Memory \cup {NULL}]
      /\ user_sp' \in [Threads -> 0 .. TotalFrame \cup {NULL}]
      /\ RunnersHaveStacks'
      /\ saved' \in [Memory -> Threads \cup {NONE}]
      /\ \A c \in cs : c[1] \in Frames /\ Extent(c) \subseteq Frames
  <2>1. \A other \in Threads \ {t} : status'[other] = status[other]
    BY <1>2 DEF IndInv, TypeOK
  <2> QED
    BY <1>2, <1>3, <2>1, ForkStacks
<1>5. /\ prog' \in [Threads -> Frames \cup {NULL, KERNEL}]
      /\ prog_size' \in [Threads -> Nat]
      /\ \A other \in Threads :
            other # t => prog_size'[other] = prog_size[other] /\ prog'[other] = prog[other]
      /\ \A c \in chunks' : c[1] \in Frames /\ Extent(c) \subseteq Frames
      /\ chunks \subseteq chunks'
  <2>1. /\ size \in Nat /\ prog \in [Threads -> Frames \cup {NULL, KERNEL}]
        /\ prog_size \in [Threads -> Nat]
    BY <1>3 DEF IndInv, TypeOK
  <2>2. CASE size = 0
    BY <1>2, <1>4, <2>1, <2>2 DEF CopyProgram
  <2>3. CASE size # 0
    <3>1. PICK p \in Fresh(cs, size) :
              /\ chunks' = cs \cup {<<p, size>>}
              /\ prog' = [prog EXCEPT ![t] = p]
              /\ prog_size' = [prog_size EXCEPT ![t] = size]
      BY <1>2, <2>3 DEF CopyProgram
    <3>2. p \in Frames /\ Extent(<<p, size>>) \subseteq Frames
      BY <2>1, FreshInHeap
    <3> QED
      BY <1>4, <2>1, <3>1, <3>2
  <2> QED
    BY <2>2, <2>3
<1>6. ShellsHaveNone' /\ in_user' \subseteq Threads
  BY <1>2, <1>4, <1>5 DEF IndInv, TypeOK, ShellsHaveNone
<1>7. status' \in [Threads -> {FREE, READY, DEAD}]
  BY <1>2, <1>4 DEF IndInv, TypeOK
<1> QED
  BY <1>3, <1>4, <1>5, <1>6, <1>7 DEF IndInv, TypeOK, ChunksBegin

(* fork without memory for the program.                                    *)
LEMMA ForkNoProgramStep ==
    ASSUME IndInv, ForkNoProgram
    PROVE  IndInv'
<1>1. PICK t \in FirstFree, k \in Fresh(chunks, 1) :
          \E u \in Fresh(chunks \cup {Stack(k)}, 1) :
              /\ Created(t, k, u)
              /\ CopyStacks(k, u)
              /\ chunks' = FreeAt(chunks \cup {Stack(k), Stack(u)}, u + 1)
              /\ prog' = [prog EXCEPT ![t] = NULL]
              /\ prog_size' = [prog_size EXCEPT ![t] = prog_size[cur_thread]]
              /\ in_user' = in_user \cup {t}
  BY DEF ForkNoProgram
<1>2. PICK u \in Fresh(chunks \cup {Stack(k)}, 1) :
              /\ Created(t, k, u)
              /\ CopyStacks(k, u)
              /\ chunks' = FreeAt(chunks \cup {Stack(k), Stack(u)}, u + 1)
              /\ prog' = [prog EXCEPT ![t] = NULL]
              /\ prog_size' = [prog_size EXCEPT ![t] = prog_size[cur_thread]]
              /\ in_user' = in_user \cup {t}
  BY <1>1
<1>3. UNCHANGED threads
  BY DEF ForkNoProgram
<1>4. /\ t \in Threads
      /\ kernel_sp' \in [Threads -> Memory \cup {NULL}]
      /\ user_sp' \in [Threads -> 0 .. TotalFrame \cup {NULL}]
      /\ RunnersHaveStacks'
      /\ saved' \in [Memory -> Threads \cup {NONE}]
      /\ \A c \in chunks \cup {Stack(k), Stack(u)} :
            c[1] \in Frames /\ Extent(c) \subseteq Frames
  BY <1>2, <1>3, ForkStacks DEF threads
<1>5. \A c \in chunks' : c[1] \in Frames /\ Extent(c) \subseteq Frames
  <2>1. chunks' \subseteq chunks \cup {Stack(k), Stack(u)}
    BY <1>2, FreeLeaves
  <2> QED
    BY <1>4, <2>1
<1>6. /\ prog' \in [Threads -> Frames \cup {NULL, KERNEL}]
      /\ prog_size' \in [Threads -> Nat]
      /\ in_user' \subseteq Threads /\ ShellsHaveNone'
  BY <1>2, <1>4 DEF IndInv, TypeOK, ShellsHaveNone
<1> QED
  BY <1>3, <1>4, <1>5, <1>6 DEF IndInv, TypeOK, ChunksBegin, threads

(* A fork that does not get so far, ticks, exits and kills.                *)
LEMMA OtherStep ==
    ASSUME IndInv,
           \/ Tick \/ Exit \/ ForkFails \/ UNCHANGED vars
           \/ \E t \in Threads : Kill(t)
    PROVE  IndInv' /\ chunks \subseteq chunks'
<1>1. UNCHANGED <<in_user, fields>>
  BY DEF Tick, Exit, Kill, ForkFails, vars, fields
<1>2. saved' \in [Memory -> Threads \cup {NONE}]
  BY TrapType DEF Tick, Exit, Kill, ForkFails, Switch, vars, IndInv, TypeOK
<1>3. /\ status' \in [Threads -> {FREE, READY, DEAD}]
      /\ cur_thread' \in Threads /\ kernel_sp[cur_thread'] # NULL
  BY DEF Tick, Exit, Kill, ForkFails, Switch, OffStatus, Queued, User, vars, threads,
         IndInv, TypeOK, RunnersHaveStacks, READY
<1>4. /\ chunks \subseteq chunks'
      /\ \A c \in chunks' : c[1] \in Frames /\ Extent(c) \subseteq Frames
  <2>1. CASE UNCHANGED chunks
    BY <2>1 DEF IndInv, TypeOK, ChunksBegin
  <2>2. CASE \E k \in Fresh(chunks, 1) : chunks' = chunks \cup {Stack(k)}
    BY <2>2, FreshInHeap DEF IndInv, TypeOK, ChunksBegin, Stack
  <2> QED
    BY <2>1, <2>2 DEF Tick, Exit, Kill, ForkFails, vars
<1>5. \A t \in Threads : status'[t] = FREE => status[t] = FREE
  BY DEF Tick, Exit, Kill, ForkFails, Switch, OffStatus, vars, threads, IndInv, TypeOK,
         FREE, READY, DEAD
<1>6. RunnersHaveStacks'
  BY <1>1, <1>3, <1>5 DEF RunnersHaveStacks, IndInv, fields
<1> QED
  BY <1>1, <1>2, <1>3, <1>4, <1>6 DEF IndInv, TypeOK, ShellsHaveNone, ChunksBegin, fields

(* thread_exec frees nothing, as its thread has no program; and the exec   *)
(* call neither takes nor frees memory.                                    *)
LEMMA ExecStep ==
    ASSUME IndInv, NEW size \in Sizes, Exec(size) \/ ExecCall(size)
    PROVE  IndInv' /\ chunks \subseteq chunks'
<1>1. size \in Nat /\ cur_thread \in Threads
  BY ThreadMemoryAssumption DEF IndInv, TypeOK
<1>2. /\ UNCHANGED <<status, cur_thread, kernel_sp, user_sp>>
      /\ prog_size' = [prog_size EXCEPT ![cur_thread] = size]
      /\ in_user' = in_user \cup {cur_thread}
  BY DEF Exec, ExecCall, User, threads
<1>3. \A first : Overwrite(first, size) => saved' \in [Memory -> Threads \cup {NONE}]
  BY DEF Overwrite, IndInv, TypeOK
<1>4. /\ prog' \in [Threads -> Frames \cup {NULL, KERNEL}]
      /\ \A other \in Threads : other # cur_thread => prog'[other] = prog[other]
      /\ saved' \in [Memory -> Threads \cup {NONE}]
      /\ chunks \subseteq chunks'
      /\ \A c \in chunks' : c[1] \in Frames /\ Extent(c) \subseteq Frames
  <2>1. CASE Exec(size)
    <3>1. prog_size[cur_thread] = 0
      BY <1>1, <2>1 DEF Exec, IndInv, ShellsHaveNone
    <3>2. \/ chunks' = chunks /\ UNCHANGED saved
             /\ \E p \in {NULL, KERNEL} : prog' = [prog EXCEPT ![cur_thread] = p]
          \/ \E p \in Fresh(chunks, size) :
                /\ prog' = [prog EXCEPT ![cur_thread] = p]
                /\ chunks' = chunks \cup {<<p, size>>}
                /\ Overwrite(p, size)
      BY <2>1, <3>1 DEF Exec
    <3>3. CASE /\ chunks' = chunks /\ UNCHANGED saved
               /\ \E p \in {NULL, KERNEL} : prog' = [prog EXCEPT ![cur_thread] = p]
      BY <1>1, <3>3 DEF IndInv, TypeOK, ChunksBegin
    <3>4. CASE \E p \in Fresh(chunks, size) :
                  /\ prog' = [prog EXCEPT ![cur_thread] = p]
                  /\ chunks' = chunks \cup {<<p, size>>}
                  /\ Overwrite(p, size)
      <4>1. PICK p \in Fresh(chunks, size) :
                /\ prog' = [prog EXCEPT ![cur_thread] = p]
                /\ chunks' = chunks \cup {<<p, size>>}
                /\ Overwrite(p, size)
        BY <3>4
      <4>2. p \in Frames /\ Extent(<<p, size>>) \subseteq Frames
        BY <1>1, FreshInHeap
      <4>3. saved' \in [Memory -> Threads \cup {NONE}]
        BY <1>3, <4>1
      <4> QED
        BY <4>1, <4>2, <4>3 DEF IndInv, TypeOK, ChunksBegin
    <3> QED
      BY <3>2, <3>3, <3>4
  <2>2. CASE ExecCall(size)
    BY <1>3, <2>2 DEF ExecCall, IndInv, TypeOK, ChunksBegin
  <2> QED
    BY <2>1, <2>2
<1> QED
  BY <1>1, <1>2, <1>4 DEF IndInv, TypeOK, ShellsHaveNone, ChunksBegin, RunnersHaveStacks

(* The failed fork frees one address, that behind the child's user stack.  *)
LEMMA FreedByFork ==
    ASSUME IndInv, ForkNoProgram, NEW c \in chunks \ chunks'
    PROVE  \E child \in FirstFree : c[1] = user_sp'[child]
<1>1. PICK t \in FirstFree : \E k, u :
          /\ Created(t, k, u)
          /\ chunks' = FreeAt(chunks \cup {Stack(k), Stack(u)}, u + 1)
  BY DEF ForkNoProgram
<1>2. PICK k, u : /\ Created(t, k, u)
                  /\ chunks' = FreeAt(chunks \cup {Stack(k), Stack(u)}, u + 1)
  BY <1>1
<1>3. user_sp'[t] = u + 1
  BY <1>2 DEF Created, FirstFree, IndInv, TypeOK
<1>4. c[1] = u + 1
  BY <1>2 DEF FreeAt
<1> QED
  BY <1>3, <1>4

(* And it drops nothing that a descriptor in use leads to: the fields that *)
(* it writes are those of a free one.                                      *)
LEMMA HeldStays ==
    ASSUME IndInv, ForkNoProgram \/ ForkFails, NEW c \in Held, c \in chunks'
    PROVE  c \in Held'
<1>1. status' = status
  BY DEF ForkNoProgram, ForkFails, threads
<1>2. \A s \in Threads : status[s] # FREE =>
          /\ kernel_sp'[s] = kernel_sp[s] /\ user_sp'[s] = user_sp[s] /\ prog'[s] = prog[s]
  <2>1. CASE ForkNoProgram
    <3>1. PICK t \in FirstFree : \E k, u :
              Created(t, k, u) /\ prog' = [prog EXCEPT ![t] = NULL]
      BY <2>1 DEF ForkNoProgram
    <3> QED
      BY <3>1 DEF FirstFree, Created, IndInv, TypeOK
  <2>2. CASE ForkFails
    BY <2>2 DEF ForkFails, fields
  <2> QED
    BY <2>1, <2>2
<1> QED
  BY <1>1, <1>2 DEF Held

(* No chunk is dropped but by a fork that fails.                           *)
LEMMA NoneDropped ==
    ASSUME IndInv, [Next]_vars, ~ForkNoProgram, ~ForkFails
    PROVE  chunks' \ Held' \subseteq chunks \ Held
<1>1. CASE Tick \/ Exit \/ UNCHANGED vars \/ \E t \in Threads : Kill(t)
  <2>1. UNCHANGED <<kernel_sp, user_sp, prog, chunks>>
    BY <1>1 DEF Tick, Exit, Kill, vars, fields
  <2>2. \A t \in Threads : status[t] # FREE => status'[t] # FREE
    BY <1>1 DEF Tick, Exit, Kill, Switch, OffStatus, vars, IndInv, TypeOK, FREE, READY, DEAD
  <2> QED
    BY <2>1, <2>2 DEF Held
<1>2. CASE Fork
  <2>1. PICK t \in FirstFree, k \in Fresh(chunks, 1) :
            \E u \in Fresh(chunks \cup {Stack(k)}, 1) :
                /\ Created(t, k, u)
                /\ CopyProgram(t, chunks \cup {Stack(k), Stack(u)})
                /\ status' = [status EXCEPT ![t] = READY]
    BY <1>2 DEF Fork
  <2>2. PICK u \in Fresh(chunks \cup {Stack(k)}, 1) :
                /\ Created(t, k, u)
                /\ CopyProgram(t, chunks \cup {Stack(k), Stack(u)})
                /\ status' = [status EXCEPT ![t] = READY]
    BY <2>1
  <2>3. t \in Threads /\ status[t] = FREE /\ status'[t] # FREE
    BY <2>2 DEF FirstFree, IndInv, TypeOK, READY, FREE
  <2>4. /\ kernel_sp'[t] - 1 = k /\ user_sp'[t] - 1 = u
        /\ \A s \in Threads : s # t =>
              /\ status'[s] = status[s]
              /\ kernel_sp'[s] = kernel_sp[s] /\ user_sp'[s] = user_sp[s]
              /\ prog'[s] = prog[s]
    <3>1. k \in Int /\ u \in Int
      <4>1. k \in Frames /\ u \in Frames
        BY FreshInHeap
      <4> QED
        BY <4>1, ThreadMemoryAssumption DEF Frames
    <3>2. \A s \in Threads : s # t => prog'[s] = prog[s]
      BY <2>2, <2>3 DEF CopyProgram, IndInv, TypeOK
    <3> QED
      BY <2>2, <2>3, <3>1, <3>2 DEF Created, IndInv, TypeOK
  <2>5. \A c \in chunks' : c \in chunks \/ c[1] \in {k, u, prog'[t]}
    <3>1. Stack(k)[1] = k /\ Stack(u)[1] = u
      BY DEF Stack
    <3>2. CASE chunks' = chunks \cup {Stack(k), Stack(u)}
      BY <3>1, <3>2
    <3>3. CASE \E p \in Fresh(chunks \cup {Stack(k), Stack(u)}, prog_size[cur_thread]) :
                  /\ chunks' = (chunks \cup {Stack(k), Stack(u)})
                                  \cup {<<p, prog_size[cur_thread]>>}
                  /\ prog' = [prog EXCEPT ![t] = p]
      <4>1. PICK p :
                  /\ chunks' = (chunks \cup {Stack(k), Stack(u)})
                                  \cup {<<p, prog_size[cur_thread]>>}
                  /\ prog' = [prog EXCEPT ![t] = p]
        BY <3>3
      <4>2. prog'[t] = p /\ <<p, prog_size[cur_thread]>>[1] = p
        BY <2>3, <4>1 DEF IndInv, TypeOK
      <4> QED
        BY <3>1, <4>1, <4>2
    <3> QED
      BY <2>2, <3>2, <3>3 DEF CopyProgram
  <2>6. \A c \in chunks' : c[1] \in {k, u, prog'[t]} => c \in Held'
    BY <2>3, <2>4 DEF Held
  <2>7. \A c \in Held : c \in chunks' => c \in Held'
    BY <2>3, <2>4 DEF Held
  <2> QED
    BY <2>5, <2>6, <2>7
<1>3. CASE \E size \in Sizes : Exec(size)
  <2>1. PICK size \in Sizes : Exec(size)
    BY <1>3
  <2>2. /\ cur_thread \in Threads /\ status[cur_thread] # FREE
        /\ prog_size[cur_thread] = 0 /\ prog[cur_thread] = NULL
        /\ UNCHANGED <<status, kernel_sp, user_sp>>
    BY <2>1 DEF Exec, threads, IndInv, TypeOK, ShellsHaveNone, RunnersHaveStacks
  <2>3. /\ \A c \in chunks' : c \in chunks \/ c[1] = prog'[cur_thread]
        /\ \A s \in Threads : s # cur_thread => prog'[s] = prog[s]
    <3>1. \/ chunks' = chunks /\ \E p : prog' = [prog EXCEPT ![cur_thread] = p]
          \/ \E p : /\ prog' = [prog EXCEPT ![cur_thread] = p]
                    /\ chunks' = chunks \cup {<<p, size>>}
      BY <2>1, <2>2 DEF Exec
    <3>2. CASE chunks' = chunks /\ \E p : prog' = [prog EXCEPT ![cur_thread] = p]
      BY <3>2 DEF IndInv, TypeOK
    <3>3. CASE \E p : /\ prog' = [prog EXCEPT ![cur_thread] = p]
                      /\ chunks' = chunks \cup {<<p, size>>}
      <4>1. PICK p : /\ prog' = [prog EXCEPT ![cur_thread] = p]
                     /\ chunks' = chunks \cup {<<p, size>>}
        BY <3>3
      <4>2. prog'[cur_thread] = p /\ <<p, size>>[1] = p
        BY <2>2, <4>1 DEF IndInv, TypeOK
      <4> QED
        BY <4>1, <4>2 DEF IndInv, TypeOK
    <3> QED
      BY <3>1, <3>2, <3>3
  <2>4. \A c \in chunks : c[1] # prog[cur_thread]
    BY <2>2 DEF IndInv, ChunksBegin, Frames, NULL
  <2>5. \A c \in chunks' : c[1] = prog'[cur_thread] => c \in Held'
    BY <2>2 DEF Held
  <2>6. \A c \in Held : c \in chunks' => c \in Held'
    BY <2>2, <2>3, <2>4 DEF Held
  <2> QED
    BY <2>3, <2>5, <2>6
<1>4. CASE \E size \in Sizes : ExecCall(size)
  <2>1. UNCHANGED <<status, kernel_sp, user_sp, prog, chunks>>
    BY <1>4 DEF ExecCall, threads
  <2> QED
    BY <2>1 DEF Held
<1> QED
  BY <1>1, <1>2, <1>3, <1>4 DEF Next

-----------------------------------------------------------------------------
(* The inductive invariant holds in every behaviour.                       *)
THEOREM Invariance == Spec => []IndInv
<1>1. Init => IndInv
  <2> SUFFICES ASSUME Init
               PROVE  IndInv
    OBVIOUS
  <2> USE ThreadMemoryAssumption DEF Init, FREE, READY, DEAD, NULL, KERNEL, BootStack
  <2>1. 0 \in Threads /\ Frames \subseteq Memory
    BY DEF Threads, Frames, Memory
  <2>2. \A c \in chunks : c[1] \in Frames /\ Extent(c) \subseteq Frames
    BY DEF Extent, Frames
  <2>3. /\ kernel_sp \in [Threads -> Memory \cup {NULL}]
        /\ user_sp \in [Threads -> 0 .. TotalFrame \cup {NULL}]
    BY DEF Memory
  <2>4. RunnersHaveStacks
    BY <2>1 DEF RunnersHaveStacks
  <2> QED
    BY <2>1, <2>2, <2>3, <2>4 DEF IndInv, TypeOK, ShellsHaveNone, ChunksBegin
<1>2. IndInv /\ [Next]_vars => IndInv'
  BY ForkStep, ForkNoProgramStep, OtherStep, ExecStep DEF Next
<1> QED
  BY <1>1, <1>2, PTL DEF Spec

(* Every field of a thread descriptor is a frame number in memory, or says *)
(* that there is none, whatever calls its thread makes.                    *)
THEOREM TypeCorrect == Spec => []TypeOK
<1>1. IndInv => TypeOK
  BY DEF IndInv
<1> QED
  BY <1>1, Invariance, PTL

(* No memory comes back but the chunk behind the child's user stack in a   *)
(* fork that fails, for any number of threads and any size of memory and   *)
(* programs: each thread that ends costs its stacks and program for ever.  *)
THEOREM NeverReturned == Spec => MemoryNeverReturns
<1> DEFINE Kept == \A c \in chunks \ chunks' :
                      ForkNoProgram /\ \E child \in FirstFree : c[1] = user_sp'[child]
<1>1. IndInv /\ [Next]_vars => Kept
  <2> SUFFICES ASSUME IndInv, [Next]_vars, NEW c \in chunks \ chunks'
               PROVE  ForkNoProgram /\ \E child \in FirstFree : c[1] = user_sp'[child]
    OBVIOUS
  <2>1. ForkNoProgram
    BY ForkStep, OtherStep, ExecStep DEF Next
  <2> QED
    BY <2>1, FreedByFork
<1>2. IndInv /\ [Next]_vars => [Kept]_vars
  BY <1>1
<1> QED
  BY <1>2, Invariance, PTL DEF Spec, MemoryNeverReturns

(* What nobody can find any more is a stack that a failing fork has just   *)
(* taken: exits, kills, exec calls, thread_exec and forks that succeed     *)
(* drop no chunk, and those that fail none that was in use, for any number *)
(* of threads and any size of memory and programs.                         *)
THEOREM LeaksAreStacks == Spec => LeakNeedsFailedFork
<1> DEFINE Own == \A c \in Lost' \ Lost : c \notin chunks /\ (ForkNoProgram \/ ForkFails)
<1>1. IndInv /\ [Next]_vars => Own
  <2> SUFFICES ASSUME IndInv, [Next]_vars, NEW c \in Lost' \ Lost
               PROVE  c \notin chunks /\ (ForkNoProgram \/ ForkFails)
    OBVIOUS
  <2>1. c \in chunks' /\ c \notin Held' /\ (c \in chunks => c \in Held)
    BY DEF Lost
  <2>2. ForkNoProgram \/ ForkFails
    BY <2>1, NoneDropped
  <2> QED
    BY <2>1, <2>2, HeldStays
<1>2. IndInv /\ [Next]_vars => [Own]_vars
  BY <1>1
<1> QED
  BY <1>2, Invariance, PTL DEF Spec, LeakNeedsFailedFork

-----------------------------------------------------------------------------
(* No two chunks share a frame.                                            *)
Apart(cs) ==
    /\ \A c \in cs : c[2] \in Nat
    /\ \A c, d \in cs : c # d => Extent(c) \cap Extent(d) = {}

LEMMA FreshApart ==
    ASSUME NEW cs, Apart(cs), NEW size \in Nat, NEW f \in Fresh(cs, size)
    PROVE  /\ Apart(cs \cup {<<f, size>>})
           /\ \A c \in cs : Extent(c) \cap Extent(<<f, size>>) = {}
<1>1. \A c \in cs : Extent(c) \cap Extent(<<f, size>>) = {}
  BY DEF Fresh, Room, Taken
<1> QED
  BY <1>1 DEF Apart

LEMMA FreeApart ==
    ASSUME NEW cs, Apart(cs), NEW address
    PROVE  Apart(FreeAt(cs, address))
BY DEF Apart, FreeAt

LEMMA ApartStep ==
    ASSUME IndInv, Apart(chunks), [Next]_vars
    PROVE  Apart(chunks)'
<1>0. prog_size[cur_thread] \in Nat
  BY DEF IndInv, TypeOK
<1>1. CASE Fork \/ ForkNoProgram
  <2>0. PICK k \in Fresh(chunks, 1) : \E u \in Fresh(chunks \cup {Stack(k)}, 1) :
            \/ \E t : CopyProgram(t, chunks \cup {Stack(k), Stack(u)})
            \/ chunks' = FreeAt(chunks \cup {Stack(k), Stack(u)}, u + 1)
    BY <1>1 DEF Fork, ForkNoProgram
  <2>1. PICK u \in Fresh(chunks \cup {Stack(k)}, 1) :
            \/ \E t : CopyProgram(t, chunks \cup {Stack(k), Stack(u)})
            \/ chunks' = FreeAt(chunks \cup {Stack(k), Stack(u)}, u + 1)
    BY <2>0
  <2>2. Apart(chunks \cup {Stack(k), Stack(u)})
    <3>1. Apart(chunks \cup {Stack(k)})
      BY FreshApart DEF Stack
    <3>2. Apart((chunks \cup {Stack(k)}) \cup {Stack(u)})
      BY <3>1, FreshApart DEF Stack
    <3>3. (chunks \cup {Stack(k)}) \cup {Stack(u)} = chunks \cup {Stack(k), Stack(u)}
      OBVIOUS
    <3> QED
      BY <3>2, <3>3
  <2> DEFINE cs == chunks \cup {Stack(k), Stack(u)}
  <2>3. CASE chunks' = FreeAt(cs, u + 1)
    <3> HIDE DEF cs
    <3> QED BY <2>2, <2>3, FreeApart DEF cs
  <2>4. CASE \E t : CopyProgram(t, cs)
    <3>1. \/ chunks' = cs
          \/ \E p \in Fresh(cs, prog_size[cur_thread]) :
                chunks' = cs \cup {<<p, prog_size[cur_thread]>>}
      <4> HIDE DEF cs
      <4> QED BY <2>4 DEF CopyProgram
    <3>2. Apart(cs)
      BY <2>2
    <3> HIDE DEF cs
    <3> QED
      BY <1>0, <3>1, <3>2, FreshApart
  <2> QED
    BY <2>1, <2>3, <2>4
<1>2. CASE Tick \/ Exit \/ UNCHANGED vars \/ (\E t \in Threads : Kill(t))
            \/ (\E size \in Sizes : ExecCall(size))
  BY <1>2 DEF Tick, Exit, Kill, ExecCall, vars
<1>3. CASE ForkFails
  <2>1. chunks' = chunks \/ \E k \in Fresh(chunks, 1) : chunks' = chunks \cup {Stack(k)}
    BY <1>3 DEF ForkFails
  <2> QED
    BY <2>1, FreshApart DEF Stack
<1>4. ASSUME NEW size \in Sizes, Exec(size)
      PROVE  Apart(chunks)'
  <2>1. PICK cs : /\ cs = IF prog_size[cur_thread] > 0 THEN FreeAt(chunks, prog[cur_thread])
                          ELSE chunks
                  /\ chunks' = cs \/ \E p \in Fresh(cs, size) : chunks' = cs \cup {<<p, size>>}
    BY <1>4 DEF Exec
  <2>2. Apart(cs)
    BY <2>1, FreeApart
  <2> QED
    BY <2>1, <2>2, FreshApart, ThreadMemoryAssumption
<1> QED
  BY <1>1, <1>2, <1>3, <1>4 DEF Next

LEMMA ApartInit ==
    ASSUME Init
    PROVE  Apart(chunks)
BY DEF Init, Apart, Extent

LEMMA ApartAlways == Spec => []Apart(chunks)
BY ApartInit, ApartStep, Invariance, PTL DEF Spec

-----------------------------------------------------------------------------
(* An exception of the running thread keeps what one saves that waits on   *)
(* its own kernel stack; the frame of that is outside of all other chunks. *)
LEMMA OwnFrame ==
    ASSUME IndInv, Apart(chunks), NEW t \in Threads, WaitsOnOwn(t)
    PROVE  /\ Trap[KernelStack(t)] = saved[KernelStack(t)]
           /\ KernelStack(t) \in Memory
           /\ \/ KernelStack(t) > TotalFrame
              \/ /\ Stack(KernelStack(t)) \in chunks
                 /\ KernelStack(t) \in Extent(Stack(KernelStack(t)))
                 /\ \A c \in chunks : KernelStack(t) \in Extent(c) => c[1] = KernelStack(t)
<1>1. KernelStack(t) # KernelStack(cur_thread)
  BY DEF IndInv, TypeOK, WaitsOnOwn
<1>2. CASE KernelStack(t) = BootStack
  <2>1. KernelStack(t) \in Memory /\ KernelStack(t) > TotalFrame
    BY <1>2, ThreadMemoryAssumption DEF BootStack, Memory
  <2> QED
    BY <1>1, <2>1 DEF Trap, IndInv, TypeOK
<1>3. CASE Stack(KernelStack(t)) \in chunks
  <2>1. KernelStack(t) \in Frames
    <3>1. Stack(KernelStack(t))[1] = KernelStack(t)
      BY DEF Stack
    <3> QED
      BY <1>3, <3>1 DEF IndInv, ChunksBegin
  <2>2. KernelStack(t) \in Memory /\ KernelStack(t) \in Int
    BY <2>1, ThreadMemoryAssumption DEF Memory, Frames
  <2>3. KernelStack(t) \in Extent(Stack(KernelStack(t)))
    BY <2>2 DEF Extent, Stack
  <2>4. \A c \in chunks : KernelStack(t) \in Extent(c) => c[1] = KernelStack(t)
    BY <1>3, <2>3 DEF Apart, Stack
  <2> QED
    BY <1>1, <1>3, <2>2, <2>3, <2>4 DEF Trap, IndInv, TypeOK
<1> QED
  BY <1>2, <1>3 DEF WaitsOnOwn

LEMMA FrameKept ==
    ASSUME IndInv, Apart(chunks), [Next]_vars, NEW t \in Threads, WaitsOnOwn(t),
           saved'[KernelStack(t)] # saved[KernelStack(t)]
    PROVE  \/ CopiedTo(KernelStack(t))
           \/ \E size \in Sizes : ExecCall(size) /\ Outgrown(size)
<1>1. PICK f : f = KernelStack(t)
  OBVIOUS
<1>2. /\ f \in Memory /\ Trap[f] = saved[f] /\ saved'[f] # saved[f]
      /\ \/ f > TotalFrame
         \/ /\ Stack(f) \in chunks /\ f \in Extent(Stack(f))
            /\ \A c \in chunks : f \in Extent(c) => c[1] = f
  BY <1>1, OwnFrame
<1>3. CASE Tick \/ Exit \/ UNCHANGED vars \/ ForkFails \/ (\E u \in Threads : Kill(u))
  BY <1>2, <1>3 DEF Tick, Exit, ForkFails, Kill, Switch, vars
<1>4. CASE Fork \/ ForkNoProgram
  <2>0. PICK child \in FirstFree : \E k, u \in Frames :
            Created(child, k, u) /\ CopyStacks(k, u)
    BY <1>4 DEF Fork, ForkNoProgram, Fresh, Room
  <2>1. PICK k \in Frames, u \in Frames : Created(child, k, u) /\ CopyStacks(k, u)
    BY <2>0
  <2>2. kernel_sp'[child] = k + 1 /\ user_sp'[child] = u + 1
    BY <2>1 DEF Created, FirstFree, IndInv, TypeOK
  <2>3. ASSUME f # k + 1, f # u + 1
        PROVE  FALSE
    <3>1. Trap \in [Memory -> Threads \cup {NONE}]
      BY TrapType
    <3> HIDE DEF Trap
    <3>2. saved'[f] = Trap[f]
      BY <1>2, <2>1, <2>3, <3>1 DEF CopyStacks, Copy
    <3> QED
      BY <1>2, <3>2
  <2> QED
    BY <1>1, <1>4, <2>2, <2>3 DEF CopiedTo
<1>5. ASSUME NEW size \in Sizes, NEW first, Overwrite(first, size)
      PROVE  f <= TotalFrame /\ f \in Extent(<<first, size>>)
  BY <1>2, <1>5 DEF Overwrite, Extent
<1>6. ASSUME NEW size \in Sizes, Exec(size)
      PROVE  FALSE
  <2>1. PICK p \in Fresh(chunks, size) : Overwrite(p, size)
    <3>1. prog_size[cur_thread] = 0
      BY <1>6 DEF Exec, IndInv, TypeOK, ShellsHaveNone
    <3> QED
      BY <1>2, <1>6, <3>1 DEF Exec
  <2>2. f <= TotalFrame /\ f \in Extent(<<p, size>>)
    BY <1>5, <2>1
  <2>3. Stack(f) \in chunks /\ f \in Extent(Stack(f))
    BY <1>2, <2>2, ThreadMemoryAssumption DEF Memory
  <2> QED
    BY <2>2, <2>3, FreshApart, ThreadMemoryAssumption
<1>7. ASSUME NEW size \in Sizes, ExecCall(size)
      PROVE  Outgrown(size)
  <2>1. Overwrite(prog[cur_thread], size) /\ prog[cur_thread] \in Frames
    BY <1>2, <1>7 DEF ExecCall
  <2>2. f <= TotalFrame /\ f \in Extent(<<prog[cur_thread], size>>)
    BY <1>5, <2>1
  <2>3. \A c \in chunks : f \in Extent(c) => c[1] = f
    BY <1>2, <2>2, ThreadMemoryAssumption DEF Memory
  <2>4. f # prog[cur_thread]
    BY <1>1 DEF WaitsOnOwn, IndInv, TypeOK
  <2>5. ASSUME NEW c \in chunks, c[1] = prog[cur_thread], ~(c[2] < size)
        PROVE  FALSE
    <3>1. c[2] \in Nat /\ size \in Nat /\ c[1] \in Int
      BY <1>7, <2>1, <2>5, ThreadMemoryAssumption DEF Apart, Frames
    <3>2. f \in c[1] .. c[1] + size - 1
      BY <2>2, <2>5 DEF Extent
    <3>3. f \in Extent(c)
      BY <2>5, <3>1, <3>2 DEF Extent
    <3> QED
      BY <2>3, <2>4, <2>5, <3>3
  <2> QED
    BY <2>5 DEF Outgrown
<1> QED
  BY <1>3, <1>4, <1>6, <1>7 DEF Next

(* For any number of threads and any size of memory and programs: while a  *)
(* kernel stack belongs to the thread that waits on it, the registers in   *)
(* it are lost only to the copies of a fork (syscall.c:99) and to an exec  *)
(* call that does not ask how long the first program was (syscall.c:30).   *)
THEOREM RegistersKept == Spec => TrapFrameKept
<1>1. IndInv /\ Apart(chunks) /\ [Next]_vars =>
        [\A t \in Threads :
            WaitsOnOwn(t) /\ saved[KernelStack(t)] = t /\ saved'[KernelStack(t)] # t
                => \/ CopiedTo(KernelStack(t))
                   \/ \E size \in Sizes : ExecCall(size) /\ Outgrown(size)]_vars
  BY FrameKept
<1> QED
  BY <1>1, Invariance, ApartAlways, PTL DEF Spec, TrapFrameKept
=============================================================================
