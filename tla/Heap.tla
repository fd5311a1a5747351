-------------------------------- MODULE Heap --------------------------------
(***************************************************************************)
(* What malloc() and free() of kernel/buddy.c promise: a request is        *)
(* answered with a chunk that covers it and overlaps no live chunk, or     *)
(* with NULL and no change; freeing the address of a live chunk releases   *)
(* that chunk and nothing else.                                            *)
(***************************************************************************)
EXTENDS Integers

CONSTANTS
    Bytes,     \* number of byte addresses
    Lengths,   \* the lengths chunks come in
    Requests   \* the sizes callers ask for

VARIABLES
    chunks,    \* live chunks <<first byte, length>>
    call,      \* the call that just ended: <<"malloc", size>> or <<"free", address>>
    ret        \* what it returned, NULL for a free

vars == <<chunks, call, ret>>

NULL == -1
Span(c) == c[1] .. c[1] + c[2] - 1

Init == chunks = {} /\ call = <<"free", NULL>> /\ ret = NULL

Malloc(request, length) ==
    /\ call' = <<"malloc", request>>
    /\ ret' # NULL
    /\ length >= request
    /\ LET c == <<ret', length>> IN
        /\ Span(c) \subseteq 0 .. Bytes - 1
        /\ \A d \in chunks : Span(d) \cap Span(c) = {}
        /\ chunks' = chunks \cup {c}

MallocFails(request) ==
    /\ call' = <<"malloc", request>>
    /\ ret' = NULL
    /\ UNCHANGED chunks

(* The address of a live chunk. *)
Free(c) ==
    /\ call' = <<"free", c[1]>>
    /\ ret' = NULL
    /\ chunks' = chunks \ {c}

(* Any other address: nothing, or the one chunk it points into, goes. *)
FreeOther(a) ==
    /\ call' = <<"free", a>>
    /\ ret' = NULL
    /\ \A c \in chunks : c[1] # a
    /\ \/ UNCHANGED chunks
       \/ \E c \in chunks : a \in Span(c) /\ chunks' = chunks \ {c}

Next ==
    \/ \E request \in Requests, length \in Lengths : Malloc(request, length)
    \/ \E request \in Requests : MallocFails(request)
    \/ \E c \in chunks : Free(c)
    \/ \E a \in NULL .. Bytes - 1 : FreeOther(a)

Spec == Init /\ [][Next]_vars
=============================================================================
