SPECIFICATION RunSpec
\* A run ends after Cycles cycles.
CHECK_DEADLOCK FALSE
CONSTANTS
    SeqMod = 6
    CounterMod = 36
    VALUE_MIN = 0
    VALUE_MAX = 2
    TimeoutUs = 2
    Setpoint = 1
    AlphaNum = 1
    AlphaDen = 2
    Kp = 2
    Ki = 1
    OutMin <- MCOutMin
    OutMax = 4
    OutScale = 2
    MaxBatch = 6
    Instants <- MCInstants
    Frames <- MCFrames
    FaultMenu <- CorruptMenu
    SensorValues <- MCSensorValues
    SkipAhead = 5
    MayFreeze = FALSE
    MaxLate = 0
    PeriodUs = 1
    Cycles = 7
    StartCycle = 7
    EndCycle = 7
    LastInstant = 7
    BUCKET_WIDTH_US = 1
    NUM_BUCKETS = 2
    U64Max = 100
    missed_deadlines_max = 0
    p99_jitter_us_max = 1
    rejected_frames_max = 0
    watchdog_may_trip = FALSE
    max_reaction_time_us = 4
INVARIANTS
    ExactHistogram
    CorruptCaught
PROPERTIES
    NodeBehaviour
