SPECIFICATION Spec
CONSTANTS
    Conns = {1}
    Remote <- MCRemote
    HelloLen = 2
INVARIANT HelloIntact
