\* Who owns the drive: the Jetson and its silence, drive tests, PID buttons,
\* mode changes and late loops.
SPECIFICATION Spec
CONSTANTS
    Modes <- DisabledAuto
    JetsonCmds = {v1}
    ClientKeys <- TestAndConfigKeys
    JetsonTimeout = 1
    TestTimeout = 1
    MaxLoop = 2
    MaxPressed = 2
    MaxFaults = 0
INVARIANTS
    TypeOK
    OwnerCommands
    LinkLossBound
    ConnectedIsRecent
    OffMeansAskedStop
    ConfigGate
    TestBounded
