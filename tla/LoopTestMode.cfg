\* Test mode: the scheduler is off, and with it the bridge's liveness timeout.
SPECIFICATION Spec
CONSTANTS
    Modes <- DisabledTest
    JetsonCmds = {v1}
    ClientKeys <- NoKeys
    JetsonTimeout = 2
    TestTimeout = 1
    MaxLoop = 1
    MaxPressed = 1
    MaxFaults = 0
INVARIANT
    ConnectedIsRecent
