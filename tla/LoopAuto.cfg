\* AutonomousCommand without the dashboard; the Jetson may connect or stay silent.
SPECIFICATION Spec
CONSTANTS
    Modes <- AutoOnly
    JetsonCmds = {v1}
    ClientKeys <- NoKeys
    JetsonTimeout = 1
    TestTimeout = 1
    MaxLoop = 1
    MaxPressed = 1
    MaxFaults = 0
PROPERTY
    SweepDrives
