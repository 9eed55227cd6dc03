SPECIFICATION Spec
CONSTANTS
    Addrs = {a, b}
    MaxInsts = 3
    MaxBusy = 0
    Signals = {"TERM", "QUIT", "USR1", "USR2"}
    Faults = {"setup", "callback", "listen"}
INVARIANTS WaitGroupCount WaitHoldsProcess NoDowntime ReloadNeverEndsProcess HooksAndCallbacks
