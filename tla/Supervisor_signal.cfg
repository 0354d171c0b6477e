\* One client that need not come back, and a signal that is not repeated.
CONSTANTS
    Client = {c1}
    Pid = {p1, p2}
    MaxLines = 1
    None = None
SPECIFICATION FairSpec
PROPERTY SignalEnds
CHECK_DEADLOCK FALSE
