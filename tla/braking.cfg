\* The car under no ABS, the oracle and any ECU, on roads that change.
SPECIFICATION Spec
CONSTANTS
    NaN = NaN
    U32 = 64
    ABS_FAULT_LATCH_THRESHOLD = 2
    WATCHDOG_TIMEOUT_CYCLES = 1
    WATCHDOG_TIMEOUT_MS = 1
    LOOP_PERIOD_MS = 1
    DIAG_STUCK_THRESHOLD_CYCLES = 3
    DIAG_PLAUSIBILITY_CYCLES = 2
    CRC_RATE_DENOMINATOR = 3
    DIAG_CRC_ERROR_RATE_THRESHOLD = 2
    SCALE = 20
    V_MIN = 200
    V_STATIC_FREEZE = 200
    RIM_GAIN = 30
    DROP_100 = 125
    MAX_BRAKE_PRESSURE = 150
    PEAK <- McPeak
    STEPS_PER_CONTROL = 10
    DRIVER_PEDAL_BAR = 100
    InitialSpeeds = {400}
    Commands <- McCommands
INVARIANTS
    NeverImplausible
    ReleasedWithinPeriod
PROPERTIES
    RoadDecidesDecel
    AlwaysStops
