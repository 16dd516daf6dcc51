\* Every kind of control decision; thresholds reduced in proportion.
SPECIFICATION LineSpec
CONSTANTS
    NaN = NaN
    U32 = 5
    ABS_FAULT_LATCH_THRESHOLD = 2
    WATCHDOG_TIMEOUT_CYCLES = 2
    WATCHDOG_TIMEOUT_MS = 4
    LOOP_PERIOD_MS = 2
    DIAG_STUCK_THRESHOLD_CYCLES = 3
    DIAG_PLAUSIBILITY_CYCLES = 2
    CRC_RATE_DENOMINATOR = 1
    DIAG_CRC_ERROR_RATE_THRESHOLD = 1
    Frames <- ControlFrames
    DRIVER = 100
    MAX_CRC = 1
INVARIANTS
    ActiveMeansReleased
    BlindMeansPedal
    CountersAgree
    UnphysicalMeansPedal
    TwinOfOracle
    StuckNeedsRepetition
PROPERTIES
    FailOperationalSpec
    ReplayNeverReleases
