-------------------------------- MODULE Game --------------------------------
(***************************************************************************)
(* The game engine, src/game/game.c: the frame loop of run_game and the    *)
(* functions it calls.  A frame is a few actions of the game thread in the *)
(* order of the loop; between any two the network thread may handle a      *)
(* GAME_END.  What is only drawn (bomb effects, the level, both windows)   *)
(* is left out, and so are ' ' and 'p' in handle_input, characters which   *)
(* the controller never gives.  The numbers of the code are constants      *)
(* here; the comments give their values.                                   *)
(***************************************************************************)
EXTENDS Integers, FiniteSets

CONSTANTS
    WIDTH, HEIGHT,                          \* 60, 40
    MARGIN,                                 \* obstacles fall left of it, 22
    MAX_BULLETS, MAX_OBSTACLES, MAX_ITEMS,  \* 10, 20, 10
    LIVES,                                  \* life at the start, 3
    RADIUS,                                 \* of a bomb, 12
    OBSTACLE_INTERVAL, SPAWN_INTERVAL,      \* at level 1, 20 and 10
    LEVEL_FRAMES,                           \* 500
    ITEM_SPAWN, ITEM_FALL,                  \* 30, 15
    item_spawn_chance,                      \* 50
    Direction,                              \* the keys the controller gives
    RAND_MAX, Rand(_, _),                   \* Rand(n, r): rand() may give r
                                            \* when it is called for the n-th time
    MaxFrame                                \* bound: frames a run plays

ASSUME SizeAssumption ==
    /\ WIDTH \in Nat /\ MARGIN \in Nat /\ MARGIN >= 2 /\ WIDTH > MARGIN + 1
    /\ HEIGHT \in Nat /\ HEIGHT >= 5
    /\ MAX_BULLETS \in Nat /\ MAX_OBSTACLES \in Nat /\ MAX_ITEMS \in Nat
    /\ RADIUS \in Nat /\ RAND_MAX \in Nat /\ MaxFrame \in Nat

ASSUME PaceAssumption ==
    /\ LIVES \in Nat \ {0}
    /\ OBSTACLE_INTERVAL \in Nat /\ OBSTACLE_INTERVAL >= 4
    /\ SPAWN_INTERVAL \in Nat /\ SPAWN_INTERVAL >= 3
    /\ {LEVEL_FRAMES, ITEM_SPAWN, ITEM_FALL, item_spawn_chance} \subseteq Nat \ {0}

ASSUME DirectionAssumption == Direction \subseteq 1 .. 9

VARIABLES
    current_game_mode,      \* "SINGLE" or "MULTI"
    pc,                     \* where the game thread is in the loop
    frame, obstacle_interval, spawn_interval,
    player,                 \* player_x, player_y
    bullets, obstacles, items,
    has_bomb, score, life,
    game_over, waiting_for_opponent, game_result_received,
    ended,                  \* a GAME_END has been handled up to game_over = 1
    draws,                  \* how often rand() has been called
    drops                   \* history: how many obstacles have been spawned

board == <<player, bullets, obstacles, items, has_bomb>>
pace  == <<frame, obstacle_interval, spawn_interval>>
tally == <<score, life>>
over  == <<game_over, waiting_for_opponent, game_result_received, ended>>
luck  == <<draws, drops>>
vars  == <<current_game_mode, pc, board, pace, tally, over, luck>>

-----------------------------------------------------------------------------
(***************************************************************************)
(* The arrays.  An inactive entry has x = 0, where nothing active is.      *)
(***************************************************************************)
Column == 1 .. WIDTH - 2
Row    == 1 .. HEIGHT - 2
ItemType == {"CLEAR_MAP", "BOMB"}

Gone   == [x |-> 0, y |-> 0]
NoItem == [x |-> 0, y |-> 0, type |-> "BOMB"]

Bullet   == [x : Column, y : 0 .. HEIGHT - 3]
Obstacle == [x : 1 .. WIDTH - MARGIN, y : 1 .. HEIGHT - 3]
Item     == [x : Column, y : Row, type : ItemType]

Slots(n)  == 0 .. n - 1
Active(f) == {i \in DOMAIN f : f[i].x # 0}
In(f, p)  == {i \in DOMAIN f : f[i].x = p.x /\ f[i].y = p.y}

\* The loop that looks for an inactive entry; a full array takes nothing.
Full(f) == Active(f) = DOMAIN f
FirstFree(f) == CHOOSE i \in DOMAIN f \ Active(f) :
                    \A k \in DOMAIN f \ Active(f) : i <= k
Put(f, e) == IF Full(f) THEN f ELSE [f EXCEPT ![FirstFree(f)] = e]

Without(f, S) == [i \in DOMAIN f |-> IF i \in S THEN Gone ELSE f[i]]

\* p and q are at most r apart, in both directions.
Near(p, q, r) == p.x - q.x \in -r .. r /\ p.y - q.y \in -r .. r

PC == {"head", "input", "move", "spawn", "item", "item30", "items", "hits", "end",
       "ended"}

\* Positions stay on the board, and an interval is never 0, as a divisor.
GTypeOK ==
    /\ current_game_mode \in {"SINGLE", "MULTI"}
    /\ pc \in PC
    /\ frame \in Nat
    /\ obstacle_interval \in Nat /\ obstacle_interval >= 4
    /\ spawn_interval \in Nat /\ spawn_interval >= 3
    /\ player \in [x : Column, y : Row]
    /\ bullets \in [Slots(MAX_BULLETS) -> Bullet \cup {Gone}]
    /\ obstacles \in [Slots(MAX_OBSTACLES) -> Obstacle \cup {Gone}]
    /\ items \in [Slots(MAX_ITEMS) -> Item \cup {NoItem}]
    /\ has_bomb \in BOOLEAN /\ game_over \in BOOLEAN /\ ended \in BOOLEAN
    /\ waiting_for_opponent \in BOOLEAN /\ game_result_received \in BOOLEAN
    /\ score \in Nat /\ life \in Int /\ draws \in Nat /\ drops \in Nat

\* init_game.
Init ==
    /\ current_game_mode \in {"SINGLE", "MULTI"}
    /\ pc = "head"
    /\ frame = 0
    /\ obstacle_interval = OBSTACLE_INTERVAL
    /\ spawn_interval = SPAWN_INTERVAL
    /\ player = [x |-> WIDTH \div 2, y |-> HEIGHT - 2]
    /\ bullets = [i \in Slots(MAX_BULLETS) |-> Gone]
    /\ obstacles = [i \in Slots(MAX_OBSTACLES) |-> Gone]
    /\ items = [i \in Slots(MAX_ITEMS) |-> NoItem]
    /\ has_bomb = FALSE
    /\ score = 0
    /\ life = LIVES
    /\ game_over = FALSE
    /\ waiting_for_opponent = FALSE
    /\ game_result_received = FALSE
    /\ ended = FALSE
    /\ draws = 0
    /\ drops = 0

-----------------------------------------------------------------------------
(***************************************************************************)
(* The head of the loop in run_game.                                       *)
(***************************************************************************)
LeaveLoop ==
    /\ pc = "head" /\ game_result_received
    /\ pc' = "end"
    /\ UNCHANGED <<current_game_mode, board, pace, tally, over, luck>>

\* From now on a frame only empties the input.
Wait ==
    /\ pc = "head" /\ ~game_result_received /\ ~waiting_for_opponent
    /\ game_over /\ current_game_mode = "MULTI"
    /\ waiting_for_opponent' = TRUE
    /\ UNCHANGED <<current_game_mode, pc, board, pace, tally, game_over,
                   game_result_received, ended, luck>>

BeginFrame ==
    /\ pc = "head" /\ ~game_result_received /\ ~waiting_for_opponent
    /\ ~(game_over /\ current_game_mode = "MULTI")
    /\ frame < MaxFrame
    /\ pc' = "input"
    /\ UNCHANGED <<current_game_mode, board, pace, tally, over, luck>>

-----------------------------------------------------------------------------
(***************************************************************************)
(* A frame.                                                                *)
(***************************************************************************)
Clamped(v, hi) == IF v < 1 THEN 1 ELSE IF v > hi THEN hi ELSE v

\* The keys are those of a number pad, 7 8 9 on top and 5 in the middle.
Moved(d) == [x |-> Clamped(player.x + ((d - 1) % 3) - 1, WIDTH - 2),
             y |-> Clamped(player.y + 1 - ((d - 1) \div 3), HEIGHT - 2)]

\* destroy_obstacles_in_bomb_range
InRange(p) == {i \in Active(obstacles) : Near(obstacles[i], p, RADIUS)}

\* handle_input, with the direction and the two buttons of the controller.
HandleInput(d, fire, bomb) ==
    LET blown == IF bomb /\ has_bomb THEN InRange(player') ELSE {}
    IN  /\ pc = "input"
        /\ player' = Moved(d)
        /\ bullets' = IF fire THEN Put(bullets, [x |-> player'.x, y |-> player'.y - 1])
                      ELSE bullets
        /\ obstacles' = Without(obstacles, blown)
        /\ score' = score + 15 * Cardinality(blown)
        /\ has_bomb' = (has_bomb /\ ~bomb)
        /\ pc' = "move"
        /\ UNCHANGED <<current_game_mode, items, pace, life, over, luck>>

\* update_bullets
Flown == [i \in DOMAIN bullets |-> IF bullets[i].y > 1
             THEN [bullets[i] EXCEPT !.y = @ - 1] ELSE Gone]

AfterSpawn == IF frame % ITEM_SPAWN = 0 THEN "item30" ELSE "items"

\* The obstacles that reach the ground in update_obstacles.
Landing == IF frame % obstacle_interval = 0
           THEN {i \in Active(obstacles) : obstacles[i].y + 1 >= HEIGHT - 2} ELSE {}

Fallen_Stays == [i \in DOMAIN obstacles |->        \* mutant: active is not cleared
             IF i \in Active(obstacles) /\ frame % obstacle_interval = 0
             THEN [obstacles[i] EXCEPT !.y = @ + 1] ELSE obstacles[i]]

Fallen == [i \in DOMAIN obstacles |->
             IF i \in Landing THEN Gone
             ELSE IF i \in Active(obstacles) /\ frame % obstacle_interval = 0
                  THEN [obstacles[i] EXCEPT !.y = @ + 1]
                  ELSE obstacles[i]]

\* mutant: one life too many
LastLife_Below(n) == n < 0
LastLife(n) == n <= 0

\* update_bullets and update_obstacles.  Several obstacles may land at once;
\* life is tested after each of them, which comes to one test of the rest: it
\* only falls, and what passes the test once passes it from then on.
Move ==
    /\ pc = "move"
    /\ bullets' = Flown
    /\ obstacles' = Fallen
    /\ life' = life - Cardinality(Landing)
    /\ LET lost == Landing # {} /\ LastLife(life')
       IN  /\ game_over' = (game_over \/ lost)
           /\ game_result_received' =
                (game_result_received \/ (lost /\ current_game_mode = "SINGLE"))
    /\ pc' = IF frame % spawn_interval = 0 THEN "spawn" ELSE AfterSpawn
    /\ UNCHANGED <<current_game_mode, player, items, has_bomb, pace, score,
                   waiting_for_opponent, ended, luck>>

\* What the n-th call of rand() from now on may return.
Drawn(n) == {r \in 0 .. RAND_MAX : Rand(draws + n, r)}

\* spawn_obstacle: rand() is called only if there is room.
SpawnObstacle ==
    /\ pc = "spawn"
    /\ IF Full(obstacles)
       THEN UNCHANGED <<obstacles, draws, drops>>
       ELSE /\ \E r \in Drawn(1) :
                 obstacles' = Put(obstacles, [x |-> (r % (WIDTH - MARGIN)) + 1, y |-> 1])
            /\ draws' = draws + 1
            /\ drops' = drops + 1
    /\ pc' = "item"
    /\ UNCHANGED <<current_game_mode, player, bullets, items, has_bomb, pace, tally, over>>

\* spawn_item, called for spawn_interval and again every 30th frame.
SpawnItem ==
    /\ pc \in {"item", "item30"}
    /\ \E r \in Drawn(1) :
         IF r % item_spawn_chance # 0 \/ Full(items)
         THEN draws' = draws + 1 /\ UNCHANGED items
         ELSE /\ draws' = draws + 3
              /\ \E c \in Drawn(2), t \in Drawn(3) :
                   items' = Put(items, [x |-> (c % (WIDTH - 2)) + 1, y |-> 1,
                                        type |-> IF t % 10 < 6 THEN "CLEAR_MAP"
                                                               ELSE "BOMB"])
    /\ pc' = IF pc = "item" THEN AfterSpawn ELSE "items"
    /\ UNCHANGED <<current_game_mode, player, bullets, obstacles, has_bomb, pace, tally,
                   over, drops>>

\* update_items
Drifted == [i \in DOMAIN items |->
              IF i \notin Active(items) \/ frame % ITEM_FALL # 0 THEN items[i]
              ELSE IF items[i].y + 1 >= HEIGHT - 1 THEN NoItem
              ELSE [items[i] EXCEPT !.y = @ + 1]]

Touched == {i \in Active(Drifted) : Near(player, Drifted[i], 1)}

\* update_items and check_item_collision: the first item touched is taken.
TakeItem ==
    /\ pc = "items"
    /\ IF Touched = {}
       THEN items' = Drifted /\ UNCHANGED <<obstacles, score, has_bomb>>
       ELSE LET i == CHOOSE k \in Touched : \A l \in Touched : k <= l
            IN  /\ items' = [Drifted EXCEPT ![i] = NoItem]
                /\ IF Drifted[i].type = "CLEAR_MAP"
                   THEN /\ obstacles' = Without(obstacles, Active(obstacles))
                        /\ score' = score + 5 * Cardinality(Active(obstacles))
                        /\ UNCHANGED has_bomb
                   ELSE has_bomb' = TRUE /\ UNCHANGED <<obstacles, score>>
    /\ pc' = "hits"
    /\ UNCHANGED <<current_game_mode, player, bullets, pace, life, over, luck>>

\* mutant: the search stops after one hit
Outnumbered_Once(f, g) == {i \in Active(f) :
    In(g, f[i]) # {} /\ \A k \in Active(f) : In(g, f[k]) # {} => i <= k}

\* check_collisions goes through the obstacles in order and takes one bullet
\* in its cell for each: the first n obstacles of a cell with n bullets go,
\* and as many bullets.
Outnumbered(f, g) == {i \in Active(f) :
    Cardinality({k \in In(f, f[i]) : k < i}) < Cardinality(In(g, f[i]))}

Hit == Outnumbered(obstacles, bullets)

\* mutant: an interval may reach 0
Faster_NoFloor(interval, step, least) == interval - step
\* The pace of the next level: 4 is followed by 5, for good.
Faster(interval, step, least) == IF interval > least THEN interval - step ELSE least

\* check_collisions, then frame++ and the faster pace of the next level.
CheckCollisions ==
    /\ pc = "hits"
    /\ obstacles' = Without(obstacles, Hit)
    /\ bullets' = Without(bullets, Outnumbered(bullets, obstacles))
    /\ score' = score + 10 * Cardinality(Hit)
    /\ frame' = frame + 1
    /\ IF frame' % LEVEL_FRAMES = 0
       THEN /\ obstacle_interval' = Faster(obstacle_interval, 2, 5)
            /\ spawn_interval' = Faster(spawn_interval, 1, 3)
       ELSE UNCHANGED <<obstacle_interval, spawn_interval>>
    /\ pc' = "head"
    /\ UNCHANGED <<current_game_mode, player, items, has_bomb, life, over, luck>>

-----------------------------------------------------------------------------
\* end_game
EndGame ==
    /\ pc = "end"
    /\ pc' = "ended"
    /\ UNCHANGED <<current_game_mode, board, pace, tally, over, luck>>

\* The network thread handles a GAME_END: first this ...
GameEnded ==
    /\ pc # "ended" /\ ~ended
    /\ ended' = TRUE
    /\ game_over' = TRUE
    /\ UNCHANGED <<current_game_mode, pc, board, pace, tally, waiting_for_opponent,
                   game_result_received, luck>>

\* ... then handle_game_result.
ResultShown ==
    /\ pc # "ended" /\ ended
    /\ game_result_received' = TRUE
    /\ UNCHANGED <<current_game_mode, pc, board, pace, tally, game_over,
                   waiting_for_opponent, ended, luck>>

GameThread ==
    \/ LeaveLoop \/ Wait \/ BeginFrame
    \/ \E d \in Direction, fire, bomb \in BOOLEAN : HandleInput(d, fire, bomb)
    \/ Move \/ SpawnObstacle \/ SpawnItem \/ TakeItem \/ CheckCollisions \/ EndGame

Finished == pc = "ended" /\ UNCHANGED vars

Next == GameThread \/ GameEnded \/ ResultShown \/ Finished

Spec == Init /\ [][Next]_vars

\* The game thread runs; a GAME_END may never come.
FairSpec == Spec /\ WF_vars(GameThread)

-----------------------------------------------------------------------------
(***************************************************************************)
(* Properties.                                                             *)
(***************************************************************************)
\* Obstacles that are neither on the board nor have reached the ground.
Destroyed == drops - Cardinality(Active(obstacles)) - (LIVES - life)

\* Every obstacle that was spawned is still falling, or has cost exactly one
\* life (game.c:637-653), or was destroyed and has been paid for once, with
\* 5, 10 or 15 points (game.c:288-304, 657-677, 702-729), whichever of a
\* bomb, an item and a bullet reaches it first in a frame.
ObstaclesAccounted ==
    /\ 5 * Destroyed <= score /\ score <= 15 * Destroyed
    /\ score % 5 = 0

\* The game is over exactly if the lives are gone, however many obstacles
\* land in one frame (game.c:641-650), or the server has ended it; and a game
\* for one is then told to stop.
OverMeansSpent ==
    /\ game_over <=> life <= 0 \/ ended
    /\ current_game_mode = "SINGLE" /\ life <= 0 => game_result_received

\* When a frame is over no bullet shares its cell with an obstacle, however
\* many of each had met there (game.c:657-677): each pair has been counted.
HitsCounted ==
    pc = "head" => \A i \in Active(obstacles), j \in Active(bullets) :
                       obstacles[i].x # bullets[j].x \/ obstacles[i].y # bullets[j].y

\* Without lives left a game for one comes to its end, and a game for two to
\* its end or to waiting for its result (game.c:842-862), while the network
\* thread sets the flags of both.
LastLifeEnds ==
    life <= 0 ~> waiting_for_opponent \/ pc = "ended"
=============================================================================
