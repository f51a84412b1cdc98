SPECIFICATION FairUplinkSpec
CONSTANTS
    Devices = {d1}
    Device = d1
    Secrets = {s1, s2}
    Ids <- SessionIds
    Values = {v1, v2}
    Invalid = {}
    Instants = {1}
    Keys = {}
    Contents = {}
    MaxBatch = 2
    MaxStored = 4
    FailureModes = {{"restart"}}
    MaxEvents = 6
    MaxRing = 2
    MaxVersion = 2
    MaxSequence = 2
    MaxBoots = 2
    MaxFaults = 1
INVARIANTS UplinkTypeOK NeverContradicts
PROPERTIES ImplementsContract Drains
CHECK_DEADLOCK FALSE
