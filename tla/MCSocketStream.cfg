SPECIFICATION StreamSpec
\* The sender and the clock stop at their bounds.
CHECK_DEADLOCK FALSE
CONSTANTS
    SeqMod = 3
    CounterMod = 2
    VALUE_MIN = 0
    VALUE_MAX = 1
    ReadTimeout = 1
    RcvBuf = 2
    MaxSent = 6
    LastClock = 4
INVARIANTS
    SilenceEndsTheCall
PROPERTIES
    GapIsRefused
