\* Mode changes, late loops, crashes; a sweep of nine legs and the match clock.
SPECIFICATION FairSpec
CONSTANTS
    DepartTime = 3
    ForwardTime = 4
    TurnTime = 2
    MatchTime = 70
    Word = 26
    MaxLoop = 2
INVARIANTS
    TypeOK
    CommandEndsWithSweep
    SweepEndsInTime
    MatchTimeIsRight
PROPERTIES
    ImplementsPlan
    SweepEnds
