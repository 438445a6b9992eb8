\* SET_CONFIGURATION repeated while a packet is held.
SPECIFICATION Spec
CONSTANTS
    Eps = {e1}
    NoEp = NoEp
    CompletionModulus = 2
    MaxResets = 1
    MaxEnables = 2
    MaxPackets = 2
    Halts = FALSE
    RepeatEnable = TRUE
    TrafficInDisable = FALSE
INVARIANTS BankOwnedBySoftware
