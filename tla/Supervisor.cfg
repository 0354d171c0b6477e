\* Two clients, plans of up to two lines, signals at any moment.
CONSTANTS
    Client = {c1, c2}
    Pid = {p1, p2, p3}
    MaxLines = 2
    None = None
SPECIFICATION FairSpec
INVARIANTS TypeOK NothingLeftBehind ReadyBetweenCommands OkMeansEveryStep DaemonsKept EveryClientInLine
PROPERTIES EveryStepServes EveryClientEnds StopsAfterNextClient
CHECK_DEADLOCK FALSE
