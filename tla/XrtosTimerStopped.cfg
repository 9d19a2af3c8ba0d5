CONSTANTS
    Timer = {1, 2}
    Period <- PeriodOfTwo
    Periodic = {1}
    Methods = {TRUE}
    TickMod = 8
    MaxLag = 1
    NoTimer = 0
SPECIFICATION TimersSpec
PROPERTIES StoppedNeverFires
