\* Lost writes, crashes and fairness: what must eventually happen.
SPECIFICATION FairSpec
CONSTANTS
    Modes <- AutoTest
    JetsonCmds = {v1}
    ClientKeys <- StartOne
    JetsonTimeout = 0
    TestTimeout = 0
    MaxLoop = 1
    MaxPressed = 1
    MaxFaults = 1
PROPERTIES
    IdleRobotStops
    TestEnds
