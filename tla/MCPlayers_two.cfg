SPECIFICATION PSpec
CONSTANTS
    s1 = s1
    s2 = s2
    NoConn = NoConn
    Conn <- TwoSockets
    Score <- OneScore
    Seed <- OneSeed
    NoTraffic <- Silence
    Deliver <- Note
    MaxToggles = 3
SYMMETRY Symmetry2
INVARIANTS PTypeOK ViewFresh
PROPERTIES EndsOnlyWhenOver
VIEW LiveState
