\* The CRC error rate as a rolling window: a burst across two windows.
SPECIFICATION RollingSpec
CONSTANTS
    NaN = NaN
    U32 = 16
    ABS_FAULT_LATCH_THRESHOLD = 2
    WATCHDOG_TIMEOUT_CYCLES = 1
    WATCHDOG_TIMEOUT_MS = 1
    LOOP_PERIOD_MS = 1
    DIAG_STUCK_THRESHOLD_CYCLES = 2
    DIAG_PLAUSIBILITY_CYCLES = 1
    CRC_RATE_DENOMINATOR = 4
    DIAG_CRC_ERROR_RATE_THRESHOLD = 3
    MAX_CRC = 2
INVARIANTS
    RollingWindow
CHECK_DEADLOCK FALSE
