------------------------------ MODULE AsyncUart ------------------------------
(***************************************************************************)
(* The asynchronous UART of kernel/uart.c: two rings between the code that *)
(* reads and writes and the handlers of the UART's interrupts, which that  *)
(* code turns on and off in the interrupt enable register.                 *)
(*                                                                         *)
(* disable_interrupt and enable_interrupt make a call's work on a ring one *)
(* step.  The register is changed outside of them, by a load and a store   *)
(* between which an interrupt may come; a handler's own changes of it      *)
(* cannot be interrupted.  The transmit handler keeps interrupts masked    *)
(* until the ring is empty, and sends one byte in a step.                  *)
(*                                                                         *)
(* The received characters' values are not in the model: async_uart_gets   *)
(* returns after any of them, as one may be the newline, and of the read   *)
(* ring only the distance from head to tail counts.  When the shell calls, *)
(* and that a tick writes a message, is left to Console.                   *)
(***************************************************************************)
EXTENDS Naturals, Sequences

CONSTANTS
    UART_BUFFER_SIZE,    \* 2048
    Messages,            \* what may be written
    CR, LF,              \* '\r' and '\n'
    NONE,                \* no byte
    FifoSize             \* characters the UART itself can hold: 8

VARIABLES
    write_buf, write_head, write_tail,   \* async_write_buf and its two ends
    unread,      \* characters from read_head to read_tail in async_read_buf
    ier,         \* the interrupts enabled in AUX_MU_IER_REG: "rx", "tx"
    io,          \* the byte in the transmit register, AUX_MU_IO_REG
    typed,       \* characters in the UART that nobody has read
    sending,     \* tx_interrupt_handler is running
    pc,          \* where the shell is
    loaded       \* what it has loaded from AUX_MU_IER_REG

(* What may be in the ring of bytes to send.                               *)
Bytes == {CR, LF} \cup UNION {{m[i] : i \in DOMAIN m} : m \in Messages}

(* What the constants are; Console assumes it of its own.                  *)
UartConstants ==
    /\ UART_BUFFER_SIZE \in Nat /\ UART_BUFFER_SIZE > 2
    /\ FifoSize \in Nat \ {0}
    /\ Messages \subseteq Seq(Bytes)

writing == <<write_buf, write_head, write_tail>>
vars == <<write_buf, write_head, write_tail, unread, ier, io, typed, sending, pc, loaded>>

Slots == 0 .. UART_BUFFER_SIZE - 1
Inc_NotReduced(i) == i + 1
Inc(i) == (i + 1) % UART_BUFFER_SIZE

(* The bytes from write_head to write_tail. *)
Unsent ==
    [j \in 1 .. (write_tail + UART_BUFFER_SIZE - write_head) % UART_BUFFER_SIZE |->
         write_buf[(write_head + j - 1) % UART_BUFFER_SIZE]]

TheLine == INSTANCE Line WITH queue <- Unsent
Crlf(m) == TheLine!Crlf(m)

-----------------------------------------------------------------------------
Init ==
    /\ write_buf = [i \in Slots |-> LF] /\ write_head = 0 /\ write_tail = 0
    /\ unread = 0
    /\ ier = {} /\ io = NONE /\ typed = 0
    /\ sending = FALSE
    /\ pc = "shell" /\ loaded = {}

(* async_uart_puts fills the ring, whatever is in it.  Where the message   *)
(* is longer than the ring its last bytes stay.                            *)
Fill(m) ==
    LET bytes == Crlf(m)
        At(k) == (write_tail + k - 1) % UART_BUFFER_SIZE
        Written(i) == {k \in 1 .. Len(bytes) : At(k) = i}
    IN  /\ write_buf' = [i \in Slots |->
                            IF Written(i) = {} THEN write_buf[i]
                            ELSE bytes[CHOOSE k \in Written(i) : \A l \in Written(i) : l <= k]]
        /\ write_tail' = (write_tail + Len(bytes)) % UART_BUFFER_SIZE

-----------------------------------------------------------------------------
(* The shell.  Its commands: async_uart_puts, and test_async_uart, which   *)
(* drops what is in the read ring, gets a line and puts it.                *)
PutsFrom(at, m) ==
    /\ pc = at
    /\ Fill(m)
    /\ pc' = "load_tx"
    /\ UNCHANGED <<write_head, unread, ier, io, typed, sending, loaded>>

Puts(m) == PutsFrom("shell", m)
Echo(m) == PutsFrom("echo", m)

TestStart ==
    /\ pc = "shell"
    /\ unread' = 0
    /\ pc' = "gets"
    /\ UNCHANGED <<writing, ier, io, typed, sending, loaded>>

(* At the prompt it reads from the UART itself. *)
RecvChar ==
    /\ pc = "shell" /\ typed > 0
    /\ typed' = typed - 1
    /\ UNCHANGED <<writing, unread, ier, io, sending, pc, loaded>>

(* async_uart_gets: while the ring is empty the receive interrupt is       *)
(* enabled, again and again.                                               *)
GetsWait ==
    /\ pc = "gets" /\ unread = 0
    /\ pc' = "load_rx"
    /\ UNCHANGED <<writing, unread, ier, io, typed, sending, loaded>>

GetsChar ==
    /\ pc = "gets" /\ unread # 0
    /\ unread' = unread - 1
    /\ pc' \in {"gets", "echo"}
    /\ UNCHANGED <<writing, ier, io, typed, sending, loaded>>

(* enable_uart_read_interrupt and enable_uart_write_interrupt. *)
Load(from, to) ==
    /\ pc = from
    /\ loaded' = ier
    /\ pc' = to
    /\ UNCHANGED <<writing, unread, ier, io, typed, sending>>

Store_BitOnly(bit, from, to) ==
    /\ pc = from
    /\ ier' = {bit}
    /\ loaded' = {}
    /\ pc' = to
    /\ UNCHANGED <<writing, unread, io, typed, sending>>
Store(bit, from, to) ==
    /\ pc = from
    /\ ier' = loaded \cup {bit}
    /\ loaded' = {}
    /\ pc' = to
    /\ UNCHANGED <<writing, unread, io, typed, sending>>

Shell ==
    \/ \E m \in Messages : Echo(m)
    \/ GetsWait \/ GetsChar
    \/ Load("load_rx", "store_rx") \/ Store("rx", "store_rx", "gets")
    \/ Load("load_tx", "store_tx") \/ Store("tx", "store_tx", "shell")

(* The shell of another thread begins, and takes this one's place. *)
ShellStarts ==
    /\ pc' = "shell" /\ loaded' = {}
    /\ UNCHANGED <<writing, unread, ier, io, typed, sending>>

Command == (\E m \in Messages : Puts(m)) \/ TestStart \/ RecvChar

-----------------------------------------------------------------------------
(* async_uart_handler_c.  The UART reports a character that was received   *)
(* before a transmitter that is ready, and only what is enabled.           *)
RxPending == "rx" \in ier /\ typed > 0

RxInterrupt_NotDisabled ==
    /\ ~sending /\ RxPending
    /\ typed' = typed - 1
    /\ unread' = Inc(unread)
    /\ UNCHANGED <<writing, ier, io, sending, pc, loaded>>
RxInterrupt_NotRead ==
    /\ ~sending /\ RxPending
    /\ UNCHANGED vars
RxInterrupt_TailKept ==
    /\ ~sending /\ RxPending
    /\ ier' = ier \ {"rx"}
    /\ typed' = typed - 1
    /\ UNCHANGED <<writing, unread, io, sending, pc, loaded>>
RxInterrupt ==
    /\ ~sending /\ RxPending
    /\ ier' = ier \ {"rx"}
    /\ typed' = typed - 1
    /\ unread' = Inc(unread)
    /\ UNCHANGED <<writing, io, sending, pc, loaded>>

TxInterrupt ==
    /\ ~sending /\ ~RxPending /\ "tx" \in ier
    /\ ier' = ier \ {"tx"}
    /\ sending' = TRUE
    /\ UNCHANGED <<writing, unread, io, typed, pc, loaded>>

(* tx_interrupt_handler: each byte waits until the one before it has left, *)
(* and so here does the end.                                               *)
SendByte_HeadFirst ==
    /\ sending /\ write_head # write_tail
    /\ io' = write_buf[Inc(write_head)]
    /\ write_head' = Inc(write_head)
    /\ UNCHANGED <<write_buf, write_tail, unread, ier, typed, sending, pc, loaded>>
SendByte ==
    /\ sending /\ write_head # write_tail
    /\ io' = write_buf[write_head]
    /\ write_head' = Inc(write_head)
    /\ UNCHANGED <<write_buf, write_tail, unread, ier, typed, sending, pc, loaded>>

SendDone ==
    /\ sending /\ write_head = write_tail
    /\ sending' = FALSE
    /\ io' = NONE
    /\ UNCHANGED <<writing, unread, ier, typed, pc, loaded>>

Sending == SendByte \/ SendDone

(* A timer's callback writes a message, within the tick: the enabling that *)
(* follows cannot be interrupted there.                                    *)
PutsInTick(m) ==
    /\ ~sending
    /\ Fill(m)
    /\ ier' = ier \cup {"tx"}
    /\ UNCHANGED <<write_head, unread, io, typed, sending, pc, loaded>>

(* Somebody types; the UART holds only so many characters. *)
Type ==
    /\ typed < FifoSize
    /\ typed' = typed + 1
    /\ UNCHANGED <<writing, unread, ier, io, sending, pc, loaded>>
=============================================================================
