\* A CH585 whose program has not read the clock when the counter first rolls over.
SPECIFICATION Spec
CONSTANTS
    Chips = {"ch585"}
    Num <- MCNum
    Den <- MCDen
    Period = 32
    Tasks = {t1, t2}
    QueueSize = 1
    Deadlines = {18, 26, 40}
    MinStep = 2
    MaxStep = 2
    MaxLatency = 2
    RolloverInArm = FALSE
    FirstRead = 0
    Horizon = 70
INVARIANTS NowIsTrue
SYMMETRY MCSymmetry
