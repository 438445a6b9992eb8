\* One IN endpoint through resets, new instances, halts, cancellation and loss.
SPECIFICATION Spec
CONSTANTS
    Eps = {e1}
    NoEp = NoEp
    CompletionModulus = 2
    MaxResets = 2
    MaxEnables = 4
    MaxWrites = 3
    Halts = TRUE
    InDoubtCancels = TRUE
INVARIANTS TypeOK ArmedIsOwned OkWasSent SentIsSeen NoLostWakeup
PROPERTIES NoGhostPacket
