SPECIFICATION FairSpec
CONSTANTS
    WIDTH = 5
    HEIGHT = 6
    MARGIN = 3
    MAX_BULLETS = 2
    MAX_OBSTACLES = 2
    MAX_ITEMS = 1
    LIVES = 1
    RADIUS = 1
    OBSTACLE_INTERVAL = 4
    SPAWN_INTERVAL = 3
    LEVEL_FRAMES = 9
    ITEM_SPAWN = 5
    ITEM_FALL = 2
    item_spawn_chance = 2
    Direction <- TwoKeys
    RAND_MAX = 7
    Rand <- ZeroOrSeven
    MaxFrame = 11
INVARIANTS GTypeOK ObstaclesAccounted OverMeansSpent HitsCounted
PROPERTY LastLifeEnds
