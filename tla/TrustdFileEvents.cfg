\* Can what trustd trusts go back without an event that says so?
CONSTANTS
    Artifact = {a1, a2}
    Version = {0, 1, 2}
    Backend = {b1}
    Hash = {h1}
    Decision = {d1}
    None = None
    Client = {c1}
    TornHash = h1
    TornDecision = d1
    SilentFaults = FALSE
SPECIFICATION EventsSpec
INVARIANT NoSilentRollback
