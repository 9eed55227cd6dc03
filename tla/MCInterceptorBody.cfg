SPECIFICATION Spec
CONSTANTS
    Reqs = {r1}
    Sites = {s1}
    Messages <- MCGarbled
    Args <- MCArgs
    MaxLoads = 1
    Bad = Bad
    Free = Free
INVARIANT DelegatedIntact
