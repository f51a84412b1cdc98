SPECIFICATION Spec
CONSTANTS
    SeqMod = 2
    CounterMod = 2
    VALUE_MIN <- MCValueMin
    VALUE_MAX = 2
    TimeoutUs = 1
    Setpoint = 1
    AlphaNum = 1
    AlphaDen = 2
    Kp = 2
    Ki = 1
    OutMin <- MCOutMin
    OutMax = 4
    OutScale = 2
    MaxBatch = 2
    Instants <- MCInstants
    Frames <- NodeFrames
INVARIANTS
    Inductive
    FreshOrSafe
    SafeCommandedWhileLatched
    RejectionsAccounted
    MeasurementPlausible
    IntegralInAuthority
PROPERTIES
    LatchHeld
    OvershootWithinOneGap
    ComesOffLimit
    ImplementsFailSafe
