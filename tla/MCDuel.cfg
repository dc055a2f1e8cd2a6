SPECIFICATION DuelSpec
CONSTANTS
    WIDTH = 5
    HEIGHT = 6
    MARGIN = 3
    MAX_BULLETS = 1
    MAX_OBSTACLES = 1
    MAX_ITEMS = 1
    LIVES = 3
    RADIUS = 1
    OBSTACLE_INTERVAL = 4
    SPAWN_INTERVAL = 3
    LEVEL_FRAMES = 500
    ITEM_SPAWN = 30
    ITEM_FALL = 15
    item_spawn_chance = 50
    Direction <- Still
    RAND_MAX = 2
    Rand <- OddEven
    MaxFrame = 12
CHECK_DEADLOCK FALSE
INVARIANT SameObstacles
