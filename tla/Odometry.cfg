\* Failed reads, lost resets, crashes and turning wheels.
SPECIFICATION Spec
CONSTANTS
    Turning <- AllWheels
    MaxTurns = 2
INVARIANTS
    TypeOK
    NothingLost
PROPERTIES
    SnapshotsAgree
