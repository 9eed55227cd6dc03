SPECIFICATION Spec
CONSTANTS
    Addrs = {a}
    MaxInsts = 2
    MaxBusy = 0
    Signals = {"USR1"}
    Faults = {"shutdown"}
INVARIANT FailureKeepsOld
