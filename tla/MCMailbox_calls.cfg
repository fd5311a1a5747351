\* Two shells and a user program, mailboxes that hold two messages
SPECIFICATION FairSpec
CONSTANTS
    Shells = {main, shell}
    Users = {user}
    Depth = 2
    NONE = NONE
INVARIANT OneReplyPerCall
PROPERTIES EndsAnswered CallReturns
