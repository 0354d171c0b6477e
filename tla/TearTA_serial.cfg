CONSTANTS
    Artifact = {a1, a2, a3}
    Version = {0, 1, 2}
    Backend = {b1}
    Hash = {h1}
    Decision = {d1, d2}
    None = None
    Session = {s1}
    RecLen <- LengthByVersion
    DbMax = 10
SPECIFICATION Spec
PROPERTIES RollbackOnlyByEnroll StoresKeepOrder ImplementsRegistry
