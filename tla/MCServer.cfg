SPECIFICATION Spec
CONSTANTS
    s1 = s1
    s2 = s2
    s3 = s3
    NoConn = NoConn
    Conn <- ThreeSockets
    Score <- OneScore
    Seed <- OneSeed
    NoTraffic = NoTraffic
    Deliver <- Forget
SYMMETRY Symmetry3
VIEW LiveState
INVARIANTS SeatInv LobbyConsistent JoinFindsSlot LeavingDecidesGame ResultOfThisGame
PROPERTY ImplementsMatch
