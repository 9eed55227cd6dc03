SPECIFICATION TSpec
CONSTANTS
    Keys = {k1, k2}
    EmitKeys = {k2}
    Permanent = {k1}
    Disableable = {k2}
    Stoppers = {s1}
    Runs = {e1}
    MaxUpdates = 1
    Faults = {"marshal"}
INVARIANTS CycleKept  CountCovers
PROPERTY UpdateEnds
CHECK_DEADLOCK FALSE
