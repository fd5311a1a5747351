\* The shell reads the next command before the timer expires
CONSTANTS
    UART_BUFFER_SIZE = 4
    Messages <- MCMessages
    byte = byte
    CR = CR
    LF = LF
    FifoSize = 1
    NumTimers = 2
    WordSize = 2
    LINE = LINE
    NONE = NONE
    Callbacks = {LINE}
    Timeouts = {0, 1}
    Lines <- MCMessages
SPECIFICATION Spec
PROPERTY WritesWhatWasAsked
