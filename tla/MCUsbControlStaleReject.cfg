\* A host that abandons a request while the class code is rejecting it.
SPECIFICATION Spec
CONSTANTS
    Requests <- DataRequests
    MaxSetups = 2
    MaxResets = 0
    Aborts = TRUE
    Overtakes = TRUE
    BackToBack = FALSE
    LostAcks = FALSE
    Cancels = FALSE
PROPERTIES StallIsOwn
