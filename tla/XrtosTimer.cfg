CONSTANTS
    Timer = {1, 2, 3}
    Period <- PeriodEq
    Periodic = {1, 2}
    Methods = {TRUE, FALSE}
    TickMod = 9
    MaxLag = 1
    NoTimer = 0
SPECIFICATION TimersFairSpec
INVARIANTS NextExpiryCovers NoneOverdue
PROPERTIES NeverEarly LeftAloneFires
