\* File operations fail without the code noticing.
CONSTANTS
    Artifact = {a1, a2}
    Version = {1, 2}
    Backend = {b1}
    Hash = {h1, h2}
    Decision = {d1, d2}
    None = None
    Client = {c1}
    TornHash = h2
    TornDecision = d2
    SilentFaults = TRUE
SPECIFICATION Spec
INVARIANT OneLinePerArtifact
PROPERTY FaultsNeverRollBack
