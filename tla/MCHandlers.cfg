SPECIFICATION HSpec
CONSTANTS
    Reqs = {r1, r2}
    Sites = {s1}
    Messages <- MCAllMessages
    Args <- MCAllArgs
    MaxLoads = 1
    Bad = Bad
    Free = Free
INVARIANTS MutexHeld  HiddenUnserved  AnswerWhole TicketWindow
PROPERTIES  FCGIDelivers TunnelPipes  WSEnds GovernorEnds
