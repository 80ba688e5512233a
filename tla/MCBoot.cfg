CONSTANTS
    Default = 6
    Period = 3
    BusSticks = TRUE
    FlashFails = FALSE
    Rc = 4
    Xtal = 12
    Mul = 16
    Pres = 2
    CpuMax = 96
    Fws <- MCFws
    MayBreak = TRUE
SPECIFICATION Spec
INVARIANTS ClockSafe
PROPERTIES StartUpEnds ResetReachesLoader
