\* One OUT endpoint through resets, new instances, halts and cancellation.
SPECIFICATION FairSpec
CONSTANTS
    Eps = {e1}
    NoEp = NoEp
    CompletionModulus = 2
    MaxResets = 2
    MaxEnables = 3
    MaxPackets = 3
    Halts = TRUE
    RepeatEnable = FALSE
    TrafficInDisable = FALSE
INVARIANTS TypeOK BankOwnedBySoftware NoPacketLost OnlyRepeatsIgnored PendingReadIsArmed
PROPERTIES ReadOnceInOrder ReadFromOwnInstance ReadEnds
