\* Replay and CRC rate, and liveness under weak fairness of the cycle.
SPECIFICATION FairSpec
CONSTANTS
    NaN = NaN
    U32 = 4
    ABS_FAULT_LATCH_THRESHOLD = 2
    WATCHDOG_TIMEOUT_CYCLES = 1
    WATCHDOG_TIMEOUT_MS = 1
    LOOP_PERIOD_MS = 1
    DIAG_STUCK_THRESHOLD_CYCLES = 2
    DIAG_PLAUSIBILITY_CYCLES = 1
    CRC_RATE_DENOMINATOR = 2
    DIAG_CRC_ERROR_RATE_THRESHOLD = 1
    Frames <- LiveFrames
    DRIVER = 100
    MAX_CRC = 1
PROPERTIES
    SilenceLatches
    CleanLinkRecovers
