\* A datagram that is overtaken on the network.
SPECIFICATION Spec
CONSTANTS
    JetsonCmds = {v1}
    JetsonTimeout = 1
    Skips <- FewLost
    MaxSends = 3
    QueueCap = 2
    MaxDelayed = 1
PROPERTY
    KeepsMostRecent
