\* The windows of the diagnostics (its total wraps) and of every kind of fault.
SPECIFICATION WindowsSpec
CONSTANTS
    NaN = NaN
    None = None
    U32 = 8
    ABS_FAULT_LATCH_THRESHOLD = 2
    WATCHDOG_TIMEOUT_CYCLES = 1
    WATCHDOG_TIMEOUT_MS = 1
    LOOP_PERIOD_MS = 1
    DIAG_STUCK_THRESHOLD_CYCLES = 2
    DIAG_PLAUSIBILITY_CYCLES = 1
    CRC_RATE_DENOMINATOR = 3
    DIAG_CRC_ERROR_RATE_THRESHOLD = 2
    FaultLists <- RunLists
    T_MAX = 5
    Omegas = {60, 61}
    Noise = {0, 3}
    MAX_CRC = 2
INVARIANTS
    CrcWindowExact
    PatchesRestore
    HeldWhileStuck
    NoTraceOutside
