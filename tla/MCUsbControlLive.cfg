\* No cancellation: every transfer ends, and both sides agree on the address.
SPECIFICATION FairSpec
CONSTANTS
    Requests <- AllRequests
    MaxSetups = 2
    MaxResets = 1
    Aborts = TRUE
    Overtakes = FALSE
    BackToBack = FALSE
    LostAcks = TRUE
    Cancels = FALSE
INVARIANTS AddressAgreed
PROPERTIES TransferEnds
