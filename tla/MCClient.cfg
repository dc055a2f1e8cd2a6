SPECIFICATION CSpec
CONSTANTS
    Score <- TwoScores
    Seed <- OneSeed
    Queue = 1
    MaxToggles = 2
INVARIANT CTypeOK
PROPERTY FollowsProtocol
VIEW ActiveState
