\* The documented extent of an ice patch.
SPECIFICATION InjectorSpec
CONSTANTS
    NaN = NaN
    None = None
    U32 = 8
    ABS_FAULT_LATCH_THRESHOLD = 2
    WATCHDOG_TIMEOUT_CYCLES = 1
    WATCHDOG_TIMEOUT_MS = 1
    LOOP_PERIOD_MS = 1
    DIAG_STUCK_THRESHOLD_CYCLES = 2
    DIAG_PLAUSIBILITY_CYCLES = 1
    CRC_RATE_DENOMINATOR = 3
    DIAG_CRC_ERROR_RATE_THRESHOLD = 2
    FaultLists <- IceLists
    T_MAX = 6
    Omegas = {60}
    Noise = {0}
INVARIANTS
    ActiveOnlyInWindow
