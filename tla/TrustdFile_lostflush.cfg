\* Does OK mean stored when closing the temporary file can fail?
CONSTANTS
    Artifact = {a1, a2}
    Version = {1, 2}
    Backend = {b1}
    Hash = {h1}
    Decision = {d1}
    None = None
    Client = {c1}
    TornHash = h1
    TornDecision = d1
    SilentFaults = TRUE
SPECIFICATION Spec
INVARIANT OkMeansStored
