------------------------------- MODULE Console -------------------------------
(***************************************************************************)
(* The shell, the timer's tick and the UART's interrupts around the rings  *)
(* of AsyncUart and the slots of Timer: the commands async, timer and      *)
(* setTimeout of kernel/shell.c, the message that preempt writes, and what *)
(* comes of them.                                                          *)
(*                                                                         *)
(* There are two shells: main's, and that of the shell thread, which the   *)
(* scheduler starts in the middle of a tick of main's.  From then on       *)
(* interrupts are masked and the timer is off, because what was left of    *)
(* the tick would undo both.  The module follows the shell thread as far   *)
(* as that: until it runs a program, which is the subject of Preempt.      *)
(*                                                                         *)
(* The tick and the handlers run with interrupts masked from pop_task on   *)
(* (task.c), callbacks included: the enable_interrupt before a callback    *)
(* only takes back the disable_interrupt of os_time_tick.  So nothing      *)
(* comes between two steps of a tick or of the transmit handler.  This     *)
(* holds until an exit call leaves the nesting count too high, which is    *)
(* the subject of Preempt.                                                 *)
(*                                                                         *)
(* setTimeout passes on a pointer into the shell's line buffer (LINE), and *)
(* test_timer passes literals.  Left out: sleep(print_current_time), whose *)
(* callback touches neither ring.                                          *)
(***************************************************************************)
EXTENDS Naturals, Sequences

CONSTANTS
    UART_BUFFER_SIZE, Messages, CR, LF, NONE, FifoSize,    \* as in AsyncUart
    NumTimers, WordSize,                             \* as in Timer
    LINE,            \* callback: put the line buffer
    Callbacks,       \* bound: what timers are set to: this, or to put a literal
    Timeouts,        \* bound: after how many ticks
    Lines            \* bound: the messages of the shell's commands

VARIABLES
    write_buf, write_head, write_tail, unread,
    ier, io, typed, sending, pc, loaded,                         \* as in AsyncUart
    available, expire_time, callback, tick, now, due,            \* as in Timer
    line,        \* the message in the shell's line buffer
    asked,       \* history: the message each slot was set to write
    running      \* who is: main, its tick, or the shell thread

T == INSTANCE Timer
U == INSTANCE AsyncUart

ASSUME ConsoleAssumption ==
    /\ T!TimerConstants /\ U!UartConstants
    /\ Callbacks \subseteq Messages \cup {LINE}
    /\ Timeouts \subseteq T!Times
    /\ Lines \subseteq Messages

uart == <<write_buf, write_head, write_tail, unread, ier, io, typed, sending, pc, loaded>>
timer == <<available, expire_time, callback, tick, now, due>>
vars == <<uart, timer, line, asked, running>>

(* Interrupts are taken between two steps of main's shell; a shell goes on *)
(* between interrupts, or where there are none.                            *)
Unmasked == running = "main" /\ ~sending
ShellRuns == Unmasked \/ running = "shell"

-----------------------------------------------------------------------------
Init ==
    /\ T!Init /\ U!Init
    /\ line \in Lines
    /\ asked = [i \in T!Timers |-> line]
    /\ running = "main"

(* The next command is read into the same buffer.  (The shell thread has   *)
(* one of its own, which no callback looks at: no tick comes any more.)    *)
ReadCommand ==
    /\ ShellRuns /\ pc = "shell"
    /\ line' \in Lines
    /\ UNCHANGED <<uart, timer, asked, running>>

Command ==
    /\ ShellRuns
    /\ U!Command
    /\ UNCHANGED <<timer, line, asked, running>>

Shell ==
    /\ ShellRuns
    /\ U!Shell
    /\ UNCHANGED <<timer, line, asked, running>>

(* setTimeout and test_timer. *)
Text(cb) == IF cb = LINE THEN line ELSE cb
Asks(cb, timeout) ==
    /\ T!AddTimer(cb, timeout)
    /\ asked' = [i \in T!Timers |-> IF T!FirstFree(i) THEN Text(cb) ELSE asked[i]]
SetTimer ==
    /\ ShellRuns /\ pc = "shell"
    /\ \E cb \in Callbacks, timeout \in Timeouts : Asks(cb, timeout)
    /\ UNCHANGED <<uart, line, running>>

SetTimerFull ==
    /\ ShellRuns /\ pc = "shell"
    /\ T!AddTimerFull
    /\ UNCHANGED <<uart, line, asked, running>>

-----------------------------------------------------------------------------
BeginTick ==
    /\ Unmasked
    /\ T!BeginTick
    /\ running' = "tick"
    /\ UNCHANGED <<uart, line, asked>>

Count ==
    /\ T!SkipSlot \/ T!CountDown
    /\ UNCHANGED <<uart, line, asked, running>>

WriteMessage ==
    /\ \E cb \in Callbacks : T!Expire(cb) /\ U!PutsInTick(Text(cb))
    /\ UNCHANGED <<line, asked, running>>

(* schedule() at the end of a tick comes back to main, or switches to the  *)
(* shell thread for the first time.  What it makes of main's half-done     *)
(* command is not followed: main does not run again.                       *)
Schedule ==
    /\ running = "tick" /\ tick = T!Idle
    /\ \/ running' = "main" /\ UNCHANGED uart
       \/ running' = "shell" /\ U!ShellStarts
    /\ UNCHANGED <<timer, line, asked>>

RxInterrupt ==
    /\ Unmasked
    /\ U!RxInterrupt
    /\ UNCHANGED <<timer, line, asked, running>>

TxInterrupt ==
    /\ Unmasked
    /\ U!TxInterrupt
    /\ UNCHANGED <<timer, line, asked, running>>

Sending ==
    /\ U!Sending
    /\ UNCHANGED <<timer, line, asked, running>>

Type ==
    /\ U!Type
    /\ UNCHANGED <<timer, line, asked, running>>

Tick == Count \/ WriteMessage

Next ==
    \/ ReadCommand \/ Command \/ Shell
    \/ SetTimer \/ SetTimerFull
    \/ BeginTick \/ Tick \/ Schedule
    \/ RxInterrupt \/ TxInterrupt \/ Sending
    \/ Type

Spec == Init /\ [][Next]_vars

(* The processor goes on: a tick and a handler to their ends, and between  *)
(* interrupts the shell.  As long as main runs it does so unmasked, and    *)
(* the interrupts that are waiting get their turns.  Nothing is assumed of *)
(* what schedule() picks, nor once the shell thread runs of any interrupt: *)
(* none is enabled then.  Nobody has to type, and no command has to be     *)
(* given.                                                                  *)
Fairness ==
    /\ WF_vars(Tick) /\ WF_vars(Schedule) /\ WF_vars(Sending)
    /\ SF_vars(BeginTick) /\ SF_vars(Shell)
    /\ SF_vars(RxInterrupt) /\ SF_vars(TxInterrupt)

FairSpec == Spec /\ Fairness

-----------------------------------------------------------------------------
(***************************************************************************)
(* Properties                                                              *)
(***************************************************************************)

(* The types of the rings, the register, the slots and the shell.          *)
TypeOK ==
    /\ T!TypeOK
    /\ write_buf \in [U!Slots -> U!Bytes]
    /\ {write_head, write_tail, unread} \subseteq U!Slots
    /\ {ier, loaded} \subseteq SUBSET {"rx", "tx"}
    /\ typed \in 0 .. FifoSize /\ sending \in BOOLEAN
    /\ pc \in {"shell", "gets", "load_rx", "store_rx", "echo", "load_tx", "store_tx"}
    /\ line \in Lines /\ asked \in [T!Timers -> Messages]
    /\ running \in {"main", "tick", "shell"}

(* What arrives at the UART is a queue: bytes leave in the order in which  *)
(* the shell and the timers wrote them, each once, although the transmit   *)
(* handler starts between any two steps of either; and a message that does *)
(* not fit costs just the bytes Line says (uart.c:239).                    *)
ImplementsLine == U!TheLine!Spec

(* While async_uart_gets runs the read ring holds at most two characters,  *)
(* however fast somebody types, because each run of the receive handler    *)
(* turns its interrupt off: nothing that gets is to return is overwritten, *)
(* although the ring has no test for full (uart.c:179).                    *)
Reading == pc \in {"gets", "load_rx", "store_rx"}
ReaderKeepsUp == Reading => unread + (IF "rx" \in ier THEN 1 ELSE 0) <= 2

(* A timer has as many ticks left as lie before the one it was set for: no *)
(* tick is counted twice or missed, and 0 is 2^64 ticks (timer.c:71).      *)
OnTime == T!OnTime

(* And it is called in that tick: neither before it nor after it, whatever *)
(* is set and called in between (timer.c:73).                              *)
CalledWhenDue == T!CalledWhenDue

(* Output stands still: bytes are waiting, and neither is the transmit     *)
(* interrupt enabled nor is anybody about to enable it.                    *)
Stalled ==
    /\ U!Unsent # <<>>
    /\ "tx" \notin ier
    /\ ~sending
    /\ pc \notin {"load_tx", "store_tx"}

(* There are two ways to that.  async_uart_gets stores into the interrupt  *)
(* enable register what it loaded before a timer's message enabled the     *)
(* transmit interrupt (uart.c:152); or a tick that finds main about to     *)
(* enable it leaves for the shell thread (timer.c:89).  No order of any    *)
(* other steps gets there.                                                 *)
LosesUpdate == pc = "store_rx" /\ "tx" \in ier /\ "tx" \notin loaded
LeavesMain == running # "shell" /\ running' = "shell" /\ pc \in {"load_tx", "store_tx"}
StallNeedsLostUpdate ==
    [][~Stalled /\ Stalled' => LosesUpdate \/ LeavesMain]_vars

(* And unless output stands still, everything written is sent, as long as  *)
(* ticks come back to main: the shell thread's own messages stay.          *)
OutputDrains ==
    U!Unsent # <<>> ~> (U!Unsent = <<>> \/ Stalled \/ running = "shell")

(* A character typed while main waits in async_uart_gets reaches it: a     *)
(* message written by a timer between the load and the store of its        *)
(* enabling does not keep the receive interrupt off.  (The shell thread    *)
(* waits there for ever.)                                                  *)
InputServed ==
    (Reading /\ typed > 0) ~> (~Reading \/ unread > 0 \/ running = "shell")

(* What setTimeout writes is the message it was given (shell.c:147:        *)
(* "Usage: setTimeout <MESSAGE> <SECONDS>").                               *)
WritesWhatWasAsked ==
    [][\A i \in T!Timers :
          ~available[i] /\ available'[i] => Text(callback[i]) = asked[i]]_vars
=============================================================================
