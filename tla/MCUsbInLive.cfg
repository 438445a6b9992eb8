\* No endpoint is halted and no write cancelled in doubt: every write ends well.
SPECIFICATION FairSpec
CONSTANTS
    Eps = {e1}
    NoEp = NoEp
    CompletionModulus = 2
    MaxResets = 2
    MaxEnables = 3
    MaxWrites = 2
    Halts = FALSE
    InDoubtCancels = FALSE
INVARIANTS OkIsDelivered PendingWriteIsArmed
PROPERTIES WriteEnds WaitEnds
