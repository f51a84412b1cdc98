SPECIFICATION HogRunSpec
\* A run ends after Cycles cycles.
CHECK_DEADLOCK FALSE
CONSTANTS
    PeriodUs = 2
    Cycles = 4
    StartCycle <- MCStartCycle
    EndCycle <- MCEndCycle
    LastInstant = 8
    Threads = 2
    BUCKET_WIDTH_US = 2
    NUM_BUCKETS = 2
    U64Max = 100
    missed_deadlines_max = 0
    p99_jitter_us_max = 2
    rejected_frames_max = 0
    watchdog_may_trip = FALSE
    max_reaction_time_us = 0
    Configurations <- MCConfigurations
INVARIANTS
    HogInductive
    EachPeriodOnce
    SkippedNeverStarted
    WindowIsContended
    NoLostWakeup
    StopLeavesNobody
    PercentilesBracket
    GateNeverOptimistic
    ContentionIsNamed
    WindowPeriodsCountInside
PROPERTIES
    RunReturns
