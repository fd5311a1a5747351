-------------------------------- MODULE Line ---------------------------------
(***************************************************************************)
(* What the asynchronous output of kernel/uart.c promises: a queue of      *)
(* bytes.  async_uart_puts appends a message, with a carriage return       *)
(* before each line feed, and the bytes leave from the front, each once.   *)
(*                                                                         *)
(* There is no test for a full buffer, so a message that does not fit      *)
(* costs bytes, and this module says which: of everything that is unsent,  *)
(* only the last Len % UART_BUFFER_SIZE bytes are still there.             *)
(***************************************************************************)
EXTENDS Naturals, Sequences

CONSTANTS
    UART_BUFFER_SIZE,    \* bytes in the buffer
    Messages,            \* what may be written
    CR, LF,              \* '\r' and '\n'
    NONE                 \* no byte

VARIABLES
    queue,       \* the bytes to send
    io           \* the byte on the line

vars == <<queue, io>>

(* The bytes of a message as they go over the line. *)
Crlf(m) ==
    LET from[i \in 0 .. Len(m)] ==
            IF i = 0 THEN <<>>
            ELSE from[i - 1] \o (IF m[i] = LF THEN <<CR, LF>> ELSE <<m[i]>>)
    IN  from[Len(m)]

LastOf(s, n) == SubSeq(s, Len(s) - n + 1, Len(s))

Init == queue = <<>> /\ io = NONE

Put(m) ==
    LET all == queue \o Crlf(m)
    IN  queue' = LastOf(all, Len(all) % UART_BUFFER_SIZE)

Send ==
    /\ queue # <<>>
    /\ io' = Head(queue)
    /\ queue' = Tail(queue)

Sent == io' = NONE /\ UNCHANGED queue

Next ==
    \/ \E m \in Messages : Put(m) /\ UNCHANGED io
    \/ Send \/ Sent

Spec == Init /\ [][Next]_vars
=============================================================================
