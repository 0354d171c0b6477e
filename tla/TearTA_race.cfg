\* Two sessions: is the rollback policy enforced inside the application?
CONSTANTS
    Artifact = {a1}
    Version = {1, 2, 3}
    Backend = {b1}
    Hash = {h1}
    Decision = {d1}
    None = None
    Session = {s1, s2}
    RecLen <- LengthByVersion
    DbMax = 8
SPECIFICATION Spec
PROPERTY RollbackOnlyByEnroll
