\* Plant and ECU over every interleaving; losses, damaged frames, an exit.
SPECIFICATION HSpec
CONSTANTS
    NaN = NaN
    None = None
    U32 = 64
    ABS_FAULT_LATCH_THRESHOLD = 2
    WATCHDOG_TIMEOUT_CYCLES = 1
    WATCHDOG_TIMEOUT_MS = 1
    LOOP_PERIOD_MS = 1
    DIAG_STUCK_THRESHOLD_CYCLES = 3
    DIAG_PLAUSIBILITY_CYCLES = 2
    CRC_RATE_DENOMINATOR = 3
    DIAG_CRC_ERROR_RATE_THRESHOLD = 2
    Frames = {}
    DRIVER = 100
    MAX_CRC = 0
    Scenarios <- SmallScenarios
    Truths <- BothTruths
    Noises <- Spikes
INVARIANTS
    InFlightEarned
    LagEarned
    GapReachesBrake
    VerdictsRight
    GapIsSeen
    ResultKept
PROPERTIES
    CommandsInOrder
    ScenarioEnds
