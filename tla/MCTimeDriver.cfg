\* Both chips, two tasks and a queue of one, over two rollovers of the low word.
SPECIFICATION Spec
CONSTANTS
    Chips = {"ch582", "ch585"}
    Num <- MCNum
    Den <- MCDen
    Period = 32
    Tasks = {t1, t2}
    QueueSize = 1
    Deadlines = {18, 26, 40}
    MinStep = 2
    MaxStep = 2
    MaxLatency = 2
    RolloverInArm = FALSE
    FirstRead = 8
    Horizon = 70
INVARIANTS TypeOK NowIsTrue TimersOnTime
SYMMETRY MCSymmetry
