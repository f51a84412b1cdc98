SPECIFICATION StoreSpec
CONSTANTS
    Devices = {d1}
    Secrets = {s1, s2}
    Ids = {i1, i2}
    Values = {v1, bad}
    Invalid = {bad}
    Instants = {1}
    Keys = {}
    Contents = {c1}
    MaxBatch = 2
    MaxStored = 2
    FailureModes = {{"io"}}
    MaxEvents = 4
SYMMETRY Symmetry
INVARIANTS NoPartialBatch
CHECK_DEADLOCK FALSE
