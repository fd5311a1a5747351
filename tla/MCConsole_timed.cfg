\* Two timers, a ring of four bytes, one message
CONSTANTS
    UART_BUFFER_SIZE = 4
    Messages <- MCMessage
    byte = byte
    CR = CR
    LF = LF
    FifoSize = 1
    NumTimers = 2
    WordSize = 2
    LINE = LINE
    NONE = NONE
    Callbacks = {LINE}
    Timeouts = {0, 1}
    Lines <- MCMessage
SPECIFICATION FairSpec
INVARIANTS TypeOK ReaderKeepsUp OnTime
PROPERTIES CalledWhenDue ImplementsLine StallNeedsLostUpdate OutputDrains InputServed
