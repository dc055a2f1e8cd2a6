SPECIFICATION PSpec
CONSTANTS
    s1 = s1
    s2 = s2
    NoConn = NoConn
    Conn <- TwoSockets
    Score <- OneScore
    Seed <- OneSeed
    NoTraffic <- Silence
    Deliver <- Note
    MaxToggles = 2
SYMMETRY Symmetry2
VIEW LiveState
PROPERTIES StartsOnlyWhenAllReady
