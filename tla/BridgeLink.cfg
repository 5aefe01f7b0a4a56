\* Lost, damaged and late datagrams; the refinement of the abstract link.
SPECIFICATION Spec
CONSTANTS
    JetsonCmds = {v1}
    JetsonTimeout = 1
    Skips <- AroundAWrap
    MaxSends = 4
    QueueCap = 2
    MaxDelayed = 1
INVARIANTS
    TypeOK
    DroppedCountIsRight
PROPERTY
    ImplementsLink
