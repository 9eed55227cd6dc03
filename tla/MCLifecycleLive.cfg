SPECIFICATION FairSpec
CONSTANTS
    Addrs = {a}
    MaxInsts = 2
    MaxBusy = 1
    Signals = {"INT", "TERM", "USR1"}
    Faults = {"setup", "shutdown", "panic"}
PROPERTIES TermTerminates ReloadTerminates
