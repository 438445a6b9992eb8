\* PB8 and PB22 on one channel, PB23 on the remap of PB22.
SPECIFICATION Spec
CONSTANTS
    Pins = {"PB8", "PB22", "PB23"}
    Channels = {"B8", "B9"}
    Chan <- MCChan
    Port <- MCPort
    IntxMode <- MCIntxMode
    Waits <- MCWaits
    PulseInArm = FALSE
    NoPin = "none"
INVARIANTS TypeOK ClaimsExact EndsOnTrigger
PROPERTIES WaitEnds
