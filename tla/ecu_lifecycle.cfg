\* A run without limit and runs of one and three cycles.
SPECIFICATION Spec
CONSTANTS
    MaxCycles = {0, 1, 3}
    MAX_RUN = 4
INVARIANTS
    NothingLeftOpen
    SummaryHonest
PROPERTIES
    StopEnds
