\* One client is enough: the reply to a plan with a run that failed.
CONSTANTS
    Client = {c1}
    Pid = {p1, p2}
    MaxLines = 2
    None = None
SPECIFICATION Spec
INVARIANT PlanOkMeansEveryRun
CHECK_DEADLOCK FALSE
