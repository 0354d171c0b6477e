\* Two sessions whose commands overlap.
CONSTANTS
    Artifact = {a1, a2}
    Version = {1, 2}
    Backend = {b1}
    Hash = {h1}
    Decision = {d1}
    None = None
    Session = {s1, s2}
    RecLen <- LengthByVersion
    DbMax = 8
SPECIFICATION Spec
INVARIANTS TypeOK OneRecordPerArtifact TableStaysReadable
PROPERTY RollbackNeedsOverlap
