SPECIFICATION StoreSpec
CONSTANTS
    Devices = {d1}
    Secrets = {s1, s2}
    Ids = {i1, i2, i3}
    Values = {v1, v2, bad}
    Invalid = {bad}
    Instants = {1}
    Keys = {k1}
    Contents = {c1}
    MaxBatch = 2
    MaxStored = 2
    FailureModes = {{"restart", "power"}, {"io", "crash"}, {"io", "power"}}
    MaxEvents = 4
SYMMETRY Symmetry
INVARIANTS StoreTypeOK MemoryIsReplay RetentionBound AckedSurvives CredentialSurvives
CHECK_DEADLOCK FALSE
