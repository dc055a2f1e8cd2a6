SPECIFICATION SSpec
CONSTANTS
    Score <- OneScore
    Seed <- OneSeed
    Queue = 2
    MaxToggles = 3
    MaxRivalAsks = 4
PROPERTY ResultOfOwnGame
