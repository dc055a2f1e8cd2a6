SPECIFICATION MCFairSpec
CONSTANTS
    Score <- OneScore
    Seed <- OneSeed
    Queue = 1
    MaxToggles = 1
    MaxRivalAsks = 1
VIEW MCView
INVARIANT STypeOK
PROPERTIES SeedOfTheGame VerdictFits GameConcludes StartEntered
