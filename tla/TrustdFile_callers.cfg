\* Two callers that race, wait in the queue and are killed.
CONSTANTS
    Artifact = {a1}
    Version = {0, 1}
    Backend = {b1}
    Hash = {h1}
    Decision = {d1}
    None = None
    Client = {c1, c2}
    TornHash = h1
    TornDecision = d1
    SilentFaults = FALSE
SPECIFICATION FairSpec
INVARIANTS CheckedRecordStands OkMeansStored EveryCallerInLine
PROPERTIES EveryStepServes ImplementsRegistry EveryRequestEnds
