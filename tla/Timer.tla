-------------------------------- MODULE Timer --------------------------------
(***************************************************************************)
(* The one-shot timers of kernel/timer.c: add_timer takes the first of a   *)
(* fixed number of slots, and os_time_tick counts every slot in use down   *)
(* and calls back those that reach zero.  expire_time is an unsigned long: *)
(* it is counted down before it is looked at, and counts on from zero to   *)
(* WordSize - 1.                                                           *)
(*                                                                         *)
(* The tick is split into one step for each slot.  What a callback does is *)
(* left to the module that uses this one, which also knows what may happen *)
(* between two steps (in Console nothing: interrupts are masked).          *)
(***************************************************************************)
EXTENDS Naturals

CONSTANTS
    NumTimers,       \* slots in timer_tcb_queue: 10
    WordSize,        \* values of an unsigned long: 2^64
    Callbacks        \* what a timer may be set to call, with its argument

VARIABLES
    available,       \* available[i]: slot i is not in use
    expire_time,     \* expire_time[i]: ticks left
    callback,        \* callback[i]: the function, and its argument if it has one
    tick,            \* the slot os_time_tick is at, Idle outside of it
    now,             \* history: ticks begun, modulo WordSize
    due              \* history: the tick each slot was set to be called in

(* What the constants are; Console assumes it of its own.                  *)
TimerConstants == NumTimers \in Nat \ {0} /\ WordSize \in Nat /\ WordSize > 1

slots == <<available, expire_time, callback>>
vars == <<available, expire_time, callback, tick, now, due>>

Timers == 0 .. NumTimers - 1
Idle == NumTimers
Times == 0 .. WordSize - 1

Up(n) == IF n = WordSize - 1 THEN 0 ELSE n + 1
Down_Saturating(n) == IF n = 0 THEN 0 ELSE n - 1
Down(n) == IF n = 0 THEN WordSize - 1 ELSE n - 1
Ahead(n) == IF now + n < WordSize THEN now + n ELSE now + n - WordSize

-----------------------------------------------------------------------------
(* init_timer_tcb_queue *)
Init ==
    /\ available = [i \in Timers |-> TRUE]
    /\ expire_time = [i \in Timers |-> 0]
    /\ callback \in {[i \in Timers |-> cb] : cb \in Callbacks}
    /\ tick = Idle
    /\ now = 0
    /\ due = [i \in Timers |-> 0]

(* add_timer: the first slot that is free.  It masks interrupts, as the    *)
(* tick does, so no slot changes hands in the middle of a tick.            *)
FirstFree(i) == available[i] /\ \A j \in 0 .. i - 1 : ~available[j]

AddTimer(cb, timeout) ==
    /\ tick = Idle
    /\ \E i \in Timers :
        /\ FirstFree(i)
        /\ available' = [available EXCEPT ![i] = FALSE]
        /\ expire_time' = [expire_time EXCEPT ![i] = timeout]
        /\ callback' = [callback EXCEPT ![i] = cb]
        /\ due' = [due EXCEPT ![i] = Ahead(timeout)]
    /\ UNCHANGED <<tick, now>>

(* Without one the timer is dropped, and nobody is told.                   *)
AddTimerFull ==
    /\ tick = Idle
    /\ \A i \in Timers : ~available[i]
    /\ UNCHANGED vars

-----------------------------------------------------------------------------
(* os_time_tick *)
BeginTick ==
    /\ tick = Idle
    /\ tick' = 0
    /\ now' = Up(now)
    /\ UNCHANGED <<slots, due>>

SkipSlot ==
    /\ tick # Idle /\ available[tick]
    /\ tick' = tick + 1
    /\ UNCHANGED <<slots, now, due>>

(* expire_time is counted down, and is not zero yet.                       *)
CountDown ==
    /\ tick # Idle /\ ~available[tick]
    /\ expire_time[tick] # 1
    /\ expire_time' = [expire_time EXCEPT ![tick] = Down(@)]
    /\ tick' = tick + 1
    /\ UNCHANGED <<available, callback, now, due>>

(* It is zero: the callback runs, and the slot is free again.              *)
Expire_SlotKept(cb) ==
    /\ tick # Idle /\ ~available[tick]
    /\ expire_time[tick] = 1
    /\ cb = callback[tick]
    /\ expire_time' = [expire_time EXCEPT ![tick] = Down(@)]
    /\ tick' = tick + 1
    /\ UNCHANGED <<available, callback, now, due>>
Expire(cb) ==
    /\ tick # Idle /\ ~available[tick]
    /\ expire_time[tick] = 1
    /\ cb = callback[tick]
    /\ expire_time' = [expire_time EXCEPT ![tick] = Down(@)]
    /\ available' = [available EXCEPT ![tick] = TRUE]
    /\ due' = [due EXCEPT ![tick] = 0]
    /\ tick' = tick + 1
    /\ UNCHANGED <<callback, now>>

Next ==
    \/ \E cb \in Callbacks, timeout \in Times : AddTimer(cb, timeout)
    \/ AddTimerFull
    \/ BeginTick \/ SkipSlot \/ CountDown
    \/ \E cb \in Callbacks : Expire(cb)

Spec == Init /\ [][Next]_vars

-----------------------------------------------------------------------------
(***************************************************************************)
(* Properties                                                              *)
(***************************************************************************)

TypeOK ==
    /\ available \in [Timers -> BOOLEAN]
    /\ expire_time \in [Timers -> Times]
    /\ callback \in [Timers -> Callbacks]
    /\ tick \in 0 .. NumTimers
    /\ now \in Times
    /\ due \in [Timers -> Times]

(* The ticks from tick n to the one slot i is due in, around the clock.    *)
Until(i, n) == IF due[i] >= n THEN due[i] - n ELSE due[i] + WordSize - n

(* The tick in which a slot was last counted down, or set.                 *)
CountedIn(i) ==
    IF i < tick THEN now
    ELSE IF now = 0 THEN WordSize - 1 ELSE now - 1

(* A timer in use has exactly as many ticks left as lie between its last   *)
(* count and the tick it was set for, in the middle of a tick too.  So no  *)
(* tick is counted twice or missed, whichever slots come and go, and a     *)
(* timeout of n is called n ticks after add_timer, one of 0 when the word  *)
(* has gone round.                                                         *)
OnTime ==
    \A i \in Timers : ~available[i] =>
        expire_time[i] = Until(i, CountedIn(i))

(* os_time_tick calls a timer in the tick it is due in, and passes no slot *)
(* that is due without calling it.                                         *)
CalledWhenDue ==
    [][\A i \in Timers :
          /\ ~available[i] /\ available'[i] => due[i] = now
          /\ tick = i /\ tick' # i /\ ~available[i] /\ due[i] = now => available'[i]]_vars
=============================================================================
