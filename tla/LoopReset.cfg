\* DriveTest/ResetOdometry pressed while a drive test runs.
SPECIFICATION Spec
CONSTANTS
    Modes <- AutoOnly
    JetsonCmds = {v1}
    ClientKeys <- TestKeys
    JetsonTimeout = 1
    TestTimeout = 1
    MaxLoop = 1
    MaxPressed = 2
    MaxFaults = 0
INVARIANT
    StopDriveStops
