SPECIFICATION FairSpec
CONSTANTS
    s1 = s1
    s2 = s2
    NoConn = NoConn
    Conn <- TwoSockets
    Score <- OneScore
    Seed <- OneSeed
    NoTraffic <- Silence
    Deliver <- Heard
    MaxToggles = 2
PROPERTIES EveryRequestServed GameConcluded SeatReleased
