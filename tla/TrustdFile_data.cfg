\* One caller, two artifacts: every sequence of requests, failures and kills.
CONSTANTS
    Artifact = {a1, a2}
    Version = {0, 1, 2}
    Backend = {b1}
    Hash = {h1}
    Decision = {d1}
    None = None
    Client = {c1}
    TornHash = h1
    TornDecision = d1
    SilentFaults = FALSE
SPECIFICATION Spec
INVARIANTS TypeOK OneLinePerArtifact
PROPERTIES OthersUntouched RollbackOnlyByEnroll StoresKeepOrder
