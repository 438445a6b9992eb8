\* Reads, writes, rejections, SET_ADDRESS: abandoned, repeated, cancelled, reset.
SPECIFICATION Spec
CONSTANTS
    Requests <- AllRequests
    MaxSetups = 3
    MaxResets = 1
    Aborts = TRUE
    Overtakes = FALSE
    BackToBack = FALSE
    LostAcks = TRUE
    Cancels = TRUE
INVARIANTS TypeOK SetupIsHeld
PROPERTIES InDataIntact OutDataIntact StatusMeansDone StallIsOwn
