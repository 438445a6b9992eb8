\* A two-packet control write whose packets follow each other at once.
SPECIFICATION Spec
CONSTANTS
    Requests <- DataRequests
    MaxSetups = 1
    MaxResets = 0
    Aborts = FALSE
    Overtakes = FALSE
    BackToBack = TRUE
    LostAcks = FALSE
    Cancels = FALSE
PROPERTIES OutDataIntact
