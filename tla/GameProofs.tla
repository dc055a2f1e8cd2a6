----------------------------- MODULE GameProofs -----------------------------
(***************************************************************************)
(* The game engine, for boards, arrays, paces and random sequences of      *)
(* every size: its types, and its three safety invariants.                 *)
(***************************************************************************)
EXTENDS Game, FiniteSetTheorems, TLAPS

-----------------------------------------------------------------------------
(***************************************************************************)
(* The arrays.                                                             *)
(***************************************************************************)
\* A nonempty set of naturals has a least element.
LEMMA LeastElement ==
    ASSUME NEW T \in SUBSET Nat, T # {}
    PROVE  \E i \in T : \A k \in T : i <= k
<1> DEFINE Below == {0 .. k : k \in T}
<1>1. Below # {}
    OBVIOUS
<1>2. Below \subseteq FiniteSubsetsOf(Nat)
    <2>1. \A k \in T : IsFiniteSet(0 .. k) /\ 0 .. k \subseteq Nat
        BY FS_Interval
    <2> QED
        BY <2>1 DEF FiniteSubsetsOf
<1>3. PICK s \in Below : \A u \in Below : ~(<<u, s>> \in StrictSubsetOrdering(Nat))
    <2>1. IsWellFoundedOn(StrictSubsetOrdering(Nat), FiniteSubsetsOf(Nat))
        BY FS_StrictSubsetOrderingWellFounded
    <2> HIDE DEF Below
    <2> QED
        BY <1>1, <1>2, <2>1, WFMin
<1>4. PICK i \in T : s = 0 .. i
    OBVIOUS
<1>5. ASSUME NEW k \in T, k < i PROVE FALSE
    <2>1. 0 .. k \subseteq 0 .. i /\ 0 .. k # 0 .. i /\ 0 .. k \in Below
        <3>1. i \in 0 .. i /\ i \notin 0 .. k
            BY <1>5
        <3> QED
            BY <3>1, <1>5
    <2>2. 0 .. k \in SUBSET Nat /\ 0 .. i \in SUBSET Nat
        OBVIOUS
    <2> QED
        BY <2>1, <2>2, <1>3, <1>4 DEF StrictSubsetOrdering
<1> QED
    BY <1>5

\* The slot a new entry is put into was inactive.
LEMMA FirstFreeIsFree ==
    ASSUME NEW n \in Nat, NEW f, DOMAIN f = Slots(n), ~Full(f)
    PROVE  FirstFree(f) \in DOMAIN f \ Active(f)
<1>1. DOMAIN f \ Active(f) # {} /\ DOMAIN f \ Active(f) \in SUBSET Nat
    BY DEF Full, Active, Slots
<1> QED
    BY <1>1, LeastElement DEF FirstFree

LEMMA PutType ==
    ASSUME NEW n \in Nat, NEW S, NEW f \in [Slots(n) -> S], NEW e \in S
    PROVE  Put(f, e) \in [Slots(n) -> S]
BY FirstFreeIsFree DEF Put

\* An array with room gets one more active entry.
LEMMA PutActive ==
    ASSUME NEW n \in Nat, NEW f, f = [i \in Slots(n) |-> f[i]], ~Full(f),
           NEW e, e.x # 0
    PROVE  Active(Put(f, e)) = Active(f) \cup {FirstFree(f)}
<1>1. FirstFree(f) \in Slots(n)
    BY FirstFreeIsFree
<1> QED
    BY <1>1 DEF Put, Active

LEMMA WithoutType ==
    ASSUME NEW n \in Nat, NEW S, NEW f \in [Slots(n) -> S \cup {Gone}], NEW R
    PROVE  /\ Without(f, R) \in [Slots(n) -> S \cup {Gone}]
           /\ Active(Without(f, R)) = Active(f) \ R
BY DEF Without, Active, Gone

LEMMA ActiveFinite ==
    ASSUME NEW n \in Nat, NEW f, DOMAIN f = Slots(n), NEW R \in SUBSET DOMAIN f
    PROVE  IsFiniteSet(R) /\ Cardinality(R) \in Nat
<1>1. IsFiniteSet(Slots(n))
    BY FS_Interval DEF Slots
<1> QED
    BY <1>1, FS_Subset, FS_CardinalityType

\* What is taken away is what is missing afterwards.
LEMMA CountWithout ==
    ASSUME NEW n \in Nat, NEW f, DOMAIN f = Slots(n), NEW R \in SUBSET Active(f)
    PROVE  Cardinality(Active(f) \ R) = Cardinality(Active(f)) - Cardinality(R)
<1>1. IsFiniteSet(Active(f))
    BY ActiveFinite DEF Active
<1>2. Active(f) \cap R = R
    OBVIOUS
<1> QED
    BY <1>1, <1>2, FS_Difference

LEMMA ModRange ==
    ASSUME NEW a \in Nat, NEW b \in Nat \ {0}
    PROVE  a % b \in 0 .. b - 1
OBVIOUS

-----------------------------------------------------------------------------
(***************************************************************************)
(* Types.                                                                  *)
(***************************************************************************)
LEMMA MovedType ==
    ASSUME player \in [x : Column, y : Row], NEW d \in Direction
    PROVE  Moved(d) \in [x : Column, y : Row]
<1>1. d \in Int /\ (d - 1) % 3 \in Int /\ (d - 1) \div 3 \in Int
    BY DirectionAssumption
<1>2. \A v \in Int, hi \in Nat : hi >= 1 => Clamped(v, hi) \in 1 .. hi
    BY DEF Clamped
<1>3. WIDTH - 2 \in Nat /\ WIDTH - 2 >= 1 /\ HEIGHT - 2 \in Nat /\ HEIGHT - 2 >= 1
    BY SizeAssumption
<1>4. player.x \in Int /\ player.y \in Int
    BY SizeAssumption DEF Column, Row
<1>5. Clamped(player.x + ((d - 1) % 3) - 1, WIDTH - 2) \in Column
    <2> DEFINE v == player.x + ((d - 1) % 3) - 1
    <2>1. v \in Int
        BY <1>1, <1>4
    <2> HIDE DEF v
    <2>2. Clamped(v, WIDTH - 2) \in 1 .. WIDTH - 2
        BY <2>1, <1>2, <1>3
    <2> QED
        BY <2>2 DEF Column, v
<1>6. Clamped(player.y + 1 - ((d - 1) \div 3), HEIGHT - 2) \in Row
    <2> DEFINE v == player.y + 1 - ((d - 1) \div 3)
    <2>1. v \in Int
        BY <1>1, <1>4
    <2> HIDE DEF v
    <2>2. Clamped(v, HEIGHT - 2) \in 1 .. HEIGHT - 2
        BY <2>1, <1>2, <1>3
    <2> QED
        BY <2>2 DEF Row, v
<1> QED
    BY <1>5, <1>6 DEF Moved

LEMMA InitType == Init => GTypeOK
<1> SUFFICES ASSUME Init PROVE GTypeOK
    OBVIOUS
<1>1. WIDTH \div 2 \in Column
    BY SizeAssumption DEF Column
<1>2. HEIGHT - 2 \in Row
    BY SizeAssumption DEF Row
<1>3. /\ bullets \in [Slots(MAX_BULLETS) -> Bullet \cup {Gone}]
      /\ obstacles \in [Slots(MAX_OBSTACLES) -> Obstacle \cup {Gone}]
      /\ items \in [Slots(MAX_ITEMS) -> Item \cup {NoItem}]
    BY DEF Init
<1>4. player \in [x : Column, y : Row]
    BY <1>1, <1>2 DEF Init
<1>5. /\ frame \in Nat /\ score \in Nat /\ life \in Int /\ draws \in Nat /\ drops \in Nat
      /\ obstacle_interval \in Nat /\ obstacle_interval >= 4
      /\ spawn_interval \in Nat /\ spawn_interval >= 3
    BY PaceAssumption DEF Init
<1>6. /\ current_game_mode \in {"SINGLE", "MULTI"} /\ pc \in PC
      /\ has_bomb \in BOOLEAN /\ game_over \in BOOLEAN /\ ended \in BOOLEAN
      /\ waiting_for_opponent \in BOOLEAN /\ game_result_received \in BOOLEAN
    BY DEF Init, PC
<1> QED
    BY <1>3, <1>4, <1>5, <1>6 DEF GTypeOK

\* The arrays after one pass over them.
LEMMA PassTypes ==
    ASSUME GTypeOK
    PROVE  /\ Flown \in [Slots(MAX_BULLETS) -> Bullet \cup {Gone}]
           /\ Fallen \in [Slots(MAX_OBSTACLES) -> Obstacle \cup {Gone}]
           /\ Drifted \in [Slots(MAX_ITEMS) -> Item \cup {NoItem}]
<1>1. ASSUME NEW i \in Slots(MAX_BULLETS)
      PROVE  (IF bullets[i].y > 1 THEN [bullets[i] EXCEPT !.y = @ - 1] ELSE Gone)
                \in Bullet \cup {Gone}
    <2>1. bullets[i] \in Bullet \cup {Gone}
        BY DEF GTypeOK
    <2> QED
        BY <2>1, SizeAssumption DEF Bullet, Gone
<1>2. ASSUME NEW i \in Slots(MAX_OBSTACLES)
      PROVE  Fallen[i] \in Obstacle \cup {Gone}
    <2>1. obstacles[i] \in Obstacle \cup {Gone} /\ DOMAIN obstacles = Slots(MAX_OBSTACLES)
        BY DEF GTypeOK
    <2>2. CASE i \in Landing
        BY <2>1, <2>2 DEF Fallen
    <2>3. CASE i \notin Landing /\ i \in Active(obstacles) /\ frame % obstacle_interval = 0
        <3>1. obstacles[i] \in Obstacle /\ obstacles[i].y + 1 < HEIGHT - 2
            <4>1. obstacles[i] \in Obstacle
                BY <2>1, <2>3 DEF Active, Gone
            <4>2. obstacles[i].y \in Int /\ ~(obstacles[i].y + 1 >= HEIGHT - 2)
                BY <2>3, <4>1 DEF Landing, Obstacle
            <4> QED
                BY <4>1, <4>2, SizeAssumption
        <3>2. [obstacles[i] EXCEPT !.y = @ + 1] \in Obstacle
            BY <3>1, SizeAssumption DEF Obstacle
        <3> QED
            BY <2>1, <2>3, <3>2 DEF Fallen
    <2>4. CASE i \notin Landing /\ ~(i \in Active(obstacles) /\ frame % obstacle_interval = 0)
        BY <2>1, <2>4 DEF Fallen
    <2> QED
        BY <2>2, <2>3, <2>4
<1>3. ASSUME NEW i \in Slots(MAX_ITEMS)
      PROVE  Drifted[i] \in Item \cup {NoItem}
    <2>1. items[i] \in Item \cup {NoItem} /\ DOMAIN items = Slots(MAX_ITEMS)
        BY DEF GTypeOK
    <2>2. CASE i \notin Active(items) \/ frame % ITEM_FALL # 0
        BY <2>1, <2>2 DEF Drifted
    <2>3. CASE i \in Active(items) /\ frame % ITEM_FALL = 0
        <3>1. items[i] \in Item
            BY <2>1, <2>3 DEF Active, NoItem
        <3>2. ~(items[i].y + 1 >= HEIGHT - 1) => [items[i] EXCEPT !.y = @ + 1] \in Item
            BY <3>1, SizeAssumption DEF Item, Row
        <3>3. Drifted[i] = IF items[i].y + 1 >= HEIGHT - 1 THEN NoItem
                           ELSE [items[i] EXCEPT !.y = @ + 1]
            BY <2>1, <2>3 DEF Drifted
        <3> QED
            BY <3>2, <3>3
    <2> QED
        BY <2>2, <2>3
<1>4. /\ DOMAIN bullets = Slots(MAX_BULLETS)
      /\ DOMAIN obstacles = Slots(MAX_OBSTACLES)
      /\ DOMAIN items = Slots(MAX_ITEMS)
    BY DEF GTypeOK
<1>5. /\ Fallen = [i \in Slots(MAX_OBSTACLES) |-> Fallen[i]]
      /\ Drifted = [i \in Slots(MAX_ITEMS) |-> Drifted[i]]
    BY <1>4 DEF Fallen, Drifted
<1> QED
    BY <1>1, <1>2, <1>3, <1>4, <1>5 DEF Flown

\* What rand() gives: columns of the board.
LEMMA DrawnColumns ==
    ASSUME NEW r \in 0 .. RAND_MAX
    PROVE  /\ (r % (WIDTH - MARGIN)) + 1 \in 1 .. WIDTH - MARGIN
           /\ (r % (WIDTH - 2)) + 1 \in Column
<1>1. WIDTH - MARGIN \in Nat \ {0} /\ WIDTH - 2 \in Nat \ {0} /\ r \in Nat
    BY SizeAssumption
<1>2. r % (WIDTH - MARGIN) \in 0 .. WIDTH - MARGIN - 1 /\ r % (WIDTH - 2) \in 0 .. WIDTH - 2 - 1
    BY <1>1, ModRange
<1> QED
    BY <1>1, <1>2 DEF Column

LEMMA InputType ==
    ASSUME GTypeOK, NEW d \in Direction, NEW fire \in BOOLEAN, NEW bomb \in BOOLEAN,
           HandleInput(d, fire, bomb)
    PROVE  GTypeOK'
<1> DEFINE blown == IF bomb /\ has_bomb THEN InRange(player') ELSE {}
<1>1. player' \in [x : Column, y : Row]
    BY MovedType DEF HandleInput, GTypeOK
<1>2. bullets' \in [Slots(MAX_BULLETS) -> Bullet \cup {Gone}]
    <2>1. [x |-> player'.x, y |-> player'.y - 1] \in Bullet
        BY <1>1, SizeAssumption DEF Bullet, Row
    <2> QED
        BY <2>1, PutType, SizeAssumption DEF HandleInput, GTypeOK
<1>3. obstacles' \in [Slots(MAX_OBSTACLES) -> Obstacle \cup {Gone}]
    BY WithoutType, SizeAssumption DEF HandleInput, GTypeOK
<1>4. score' \in Nat
    <2>1. blown \in SUBSET DOMAIN obstacles
        BY DEF InRange, Active
    <2>2. Cardinality(blown) \in Nat
        <3> HIDE DEF blown
        <3> QED
            BY <2>1, ActiveFinite, SizeAssumption DEF GTypeOK
    <2>3. score' = score + 15 * Cardinality(blown)
        BY DEF HandleInput
    <2> HIDE DEF blown
    <2> QED
        BY <2>2, <2>3 DEF GTypeOK
<1>5. has_bomb' \in BOOLEAN /\ pc' \in PC
    BY DEF HandleInput, GTypeOK, PC
<1> QED
    BY <1>1, <1>2, <1>3, <1>4, <1>5 DEF HandleInput, GTypeOK, pace, over, luck

LEMMA MoveType ==
    ASSUME GTypeOK, Move
    PROVE  GTypeOK'
<1>1. /\ bullets' \in [Slots(MAX_BULLETS) -> Bullet \cup {Gone}]
      /\ obstacles' \in [Slots(MAX_OBSTACLES) -> Obstacle \cup {Gone}]
    BY PassTypes DEF Move
<1>2. life' \in Int
    <2>1. Landing \in SUBSET DOMAIN obstacles
        BY DEF Landing, Active
    <2>2. Cardinality(Landing) \in Nat
        BY <2>1, ActiveFinite, SizeAssumption DEF GTypeOK
    <2> QED
        BY <2>2 DEF Move, GTypeOK
<1>3. game_over' \in BOOLEAN /\ game_result_received' \in BOOLEAN
    BY DEF Move, GTypeOK
<1>4. pc' \in PC
    BY DEF Move, PC, AfterSpawn
<1>5. UNCHANGED <<current_game_mode, player, items, has_bomb, pace, score,
                  waiting_for_opponent, ended, luck>>
    BY DEF Move
<1> QED
    BY <1>1, <1>2, <1>3, <1>4, <1>5 DEF GTypeOK, pace, luck

LEMMA SpawnObstacleType ==
    ASSUME GTypeOK, SpawnObstacle
    PROVE  GTypeOK'
<1>1. obstacles' \in [Slots(MAX_OBSTACLES) -> Obstacle \cup {Gone}]
    <2>1. CASE Full(obstacles)
        BY <2>1 DEF SpawnObstacle, GTypeOK
    <2>2. CASE ~Full(obstacles)
        <3>1. PICK r \in 0 .. RAND_MAX :
                obstacles' = Put(obstacles, [x |-> (r % (WIDTH - MARGIN)) + 1, y |-> 1])
            BY <2>2 DEF SpawnObstacle, Drawn
        <3>2. [x |-> (r % (WIDTH - MARGIN)) + 1, y |-> 1] \in Obstacle
            BY DrawnColumns, SizeAssumption DEF Obstacle
        <3> QED
            BY <3>1, <3>2, PutType, SizeAssumption DEF GTypeOK
    <2> QED
        BY <2>1, <2>2
<1>2. draws' \in Nat /\ drops' \in Nat /\ pc' \in PC
    BY DEF SpawnObstacle, GTypeOK, PC
<1> QED
    BY <1>1, <1>2 DEF SpawnObstacle, GTypeOK, pace, tally, over

LEMMA SpawnItemType ==
    ASSUME GTypeOK, SpawnItem
    PROVE  GTypeOK'
<1>1. items' \in [Slots(MAX_ITEMS) -> Item \cup {NoItem}] /\ draws' \in Nat
    <2>1. PICK r \in Drawn(1) :
            IF r % item_spawn_chance # 0 \/ Full(items)
            THEN draws' = draws + 1 /\ UNCHANGED items
            ELSE /\ draws' = draws + 3
                 /\ \E c \in Drawn(2), t \in Drawn(3) :
                      items' = Put(items, [x |-> (c % (WIDTH - 2)) + 1, y |-> 1,
                                           type |-> IF t % 10 < 6 THEN "CLEAR_MAP"
                                                                  ELSE "BOMB"])
        BY DEF SpawnItem
    <2>2. CASE r % item_spawn_chance # 0 \/ Full(items)
        BY <2>1, <2>2 DEF GTypeOK
    <2>3. CASE ~(r % item_spawn_chance # 0 \/ Full(items))
        <3>1. PICK c \in 0 .. RAND_MAX, t \in 0 .. RAND_MAX :
                items' = Put(items, [x |-> (c % (WIDTH - 2)) + 1, y |-> 1,
                                     type |-> IF t % 10 < 6 THEN "CLEAR_MAP" ELSE "BOMB"])
            BY <2>1, <2>3 DEF Drawn
        <3>2. [x |-> (c % (WIDTH - 2)) + 1, y |-> 1,
               type |-> IF t % 10 < 6 THEN "CLEAR_MAP" ELSE "BOMB"] \in Item
            <4>1. (c % (WIDTH - 2)) + 1 \in Column
                BY DrawnColumns
            <4>2. 1 \in Row
                BY SizeAssumption DEF Row
            <4> QED
                BY <4>1, <4>2 DEF Item, ItemType
        <3>3. draws' \in Nat
            BY <2>1, <2>3 DEF GTypeOK
        <3> QED
            BY <3>1, <3>2, <3>3, PutType, SizeAssumption DEF GTypeOK
    <2> QED
        BY <2>2, <2>3
<1>2. pc' \in PC
    BY DEF SpawnItem, PC, AfterSpawn
<1> QED
    BY <1>1, <1>2 DEF SpawnItem, GTypeOK, pace, tally, over

LEMMA TakeItemType ==
    ASSUME GTypeOK, TakeItem
    PROVE  GTypeOK'
<1> DEFINE i == CHOOSE k \in Touched : \A l \in Touched : k <= l
<1>1. items' \in [Slots(MAX_ITEMS) -> Item \cup {NoItem}]
    <2>1. items' = Drifted \/ items' = [Drifted EXCEPT ![i] = NoItem]
        BY DEF TakeItem
    <2> HIDE DEF i
    <2> QED
        BY <2>1, PassTypes
<1>2. obstacles' \in [Slots(MAX_OBSTACLES) -> Obstacle \cup {Gone}]
    <2>1. obstacles' = obstacles \/ obstacles' = Without(obstacles, Active(obstacles))
        BY DEF TakeItem
    <2>2. obstacles \in [Slots(MAX_OBSTACLES) -> Obstacle \cup {Gone}]
        BY DEF GTypeOK
    <2>3. Without(obstacles, Active(obstacles)) \in
            [Slots(MAX_OBSTACLES) -> Obstacle \cup {Gone}]
        BY <2>2, WithoutType, SizeAssumption
    <2> QED
        BY <2>1, <2>2, <2>3
<1>3. score' \in Nat
    <2>1. Cardinality(Active(obstacles)) \in Nat
        BY ActiveFinite, SizeAssumption DEF GTypeOK, Active
    <2> QED
        BY <2>1 DEF TakeItem, GTypeOK
<1>4. has_bomb' \in BOOLEAN /\ pc' \in PC
    BY DEF TakeItem, GTypeOK, PC
<1> QED
    BY <1>1, <1>2, <1>3, <1>4 DEF TakeItem, GTypeOK, pace, over, luck

LEMMA CollisionsType ==
    ASSUME GTypeOK, CheckCollisions
    PROVE  GTypeOK'
<1>1. /\ bullets' \in [Slots(MAX_BULLETS) -> Bullet \cup {Gone}]
      /\ obstacles' \in [Slots(MAX_OBSTACLES) -> Obstacle \cup {Gone}]
    BY WithoutType, SizeAssumption DEF CheckCollisions, GTypeOK
<1>2. score' \in Nat
    <2>1. Hit \in SUBSET DOMAIN obstacles
        BY DEF Hit, Outnumbered, Active
    <2>2. Cardinality(Hit) \in Nat
        BY <2>1, ActiveFinite, SizeAssumption DEF GTypeOK
    <2> QED
        BY <2>2 DEF CheckCollisions, GTypeOK
<1>3. /\ frame' \in Nat
      /\ obstacle_interval' \in Nat /\ obstacle_interval' >= 4
      /\ spawn_interval' \in Nat /\ spawn_interval' >= 3
    BY DEF CheckCollisions, GTypeOK, Faster
<1>4. pc' \in PC
    BY DEF CheckCollisions, PC
<1> QED
    BY <1>1, <1>2, <1>3, <1>4 DEF CheckCollisions, GTypeOK, over, luck

LEMMA TypeStep == GTypeOK /\ [Next]_vars => GTypeOK'
<1> SUFFICES ASSUME GTypeOK, [Next]_vars PROVE GTypeOK'
    OBVIOUS
<1>1. CASE LeaveLoop
    BY <1>1 DEF LeaveLoop, GTypeOK, PC, board, pace, tally, over, luck
<1>2. CASE Wait
    BY <1>2 DEF Wait, GTypeOK, board, pace, tally, luck
<1>3. CASE BeginFrame
    BY <1>3 DEF BeginFrame, GTypeOK, PC, board, pace, tally, over, luck
<1>4. ASSUME NEW d \in Direction, NEW fire \in BOOLEAN, NEW bomb \in BOOLEAN,
             HandleInput(d, fire, bomb)
      PROVE  GTypeOK'
    BY <1>4, InputType
<1>5. CASE Move
    BY <1>5, MoveType
<1>6. CASE SpawnObstacle
    BY <1>6, SpawnObstacleType
<1>7. CASE SpawnItem
    BY <1>7, SpawnItemType
<1>8. CASE TakeItem
    BY <1>8, TakeItemType
<1>9. CASE CheckCollisions
    BY <1>9, CollisionsType
<1>10. CASE EndGame
    BY <1>10 DEF EndGame, GTypeOK, PC, board, pace, tally, over, luck
<1>11. CASE GameEnded
    BY <1>11 DEF GameEnded, GTypeOK, board, pace, tally, luck
<1>12. CASE ResultShown
    BY <1>12 DEF ResultShown, GTypeOK, board, pace, tally, luck
<1>13. CASE Finished \/ UNCHANGED vars
    BY <1>13 DEF Finished, vars, GTypeOK, board, pace, tally, over, luck
<1> QED
    BY <1>1, <1>2, <1>3, <1>4, <1>5, <1>6, <1>7, <1>8, <1>9, <1>10, <1>11, <1>12, <1>13
       DEF Next, GameThread

\* Positions stay on the board, the arrays hold nothing else, and neither
\* interval ever comes down to 0, by which the loop takes the frame's remainder.
THEOREM TypeCorrect == Spec => []GTypeOK
<1> QED
    BY InitType, TypeStep, PTL DEF Spec

-----------------------------------------------------------------------------
(***************************************************************************)
(* Every obstacle is accounted for.  Each action takes a set of obstacles  *)
(* away; its size is what the two sides of the account change by.          *)
(***************************************************************************)
\* n more obstacles are destroyed, for points points each.
LEMMA Paid ==
    ASSUME GTypeOK, ObstaclesAccounted, NEW n \in Nat, NEW points \in {5, 10, 15},
           Destroyed \in Int, Destroyed' = Destroyed + n,
           score' = score + points * n
    PROVE  ObstaclesAccounted'
<1>1. score \in Nat
    BY DEF GTypeOK
<1>2. CASE points = 5
    BY <1>1, <1>2 DEF ObstaclesAccounted
<1>3. CASE points = 10
    BY <1>1, <1>3 DEF ObstaclesAccounted
<1>4. CASE points = 15
    BY <1>1, <1>4 DEF ObstaclesAccounted
<1> QED
    BY <1>2, <1>3, <1>4

\* The number of obstacles on the board, and what it becomes when R is taken.
LEMMA OnBoard ==
    ASSUME GTypeOK, NEW R \in SUBSET Active(obstacles)
    PROVE  /\ Cardinality(R) \in Nat
           /\ Cardinality(Active(obstacles)) \in Nat
           /\ Cardinality(Active(obstacles) \ R) =
                Cardinality(Active(obstacles)) - Cardinality(R)
           /\ Active(Without(obstacles, R)) = Active(obstacles) \ R
<1>1. obstacles \in [Slots(MAX_OBSTACLES) -> Obstacle \cup {Gone}] /\ MAX_OBSTACLES \in Nat
    BY SizeAssumption DEF GTypeOK
<1>2. Active(obstacles) \in SUBSET DOMAIN obstacles
    BY DEF Active
<1>3. Cardinality(R) \in Nat /\ Cardinality(Active(obstacles)) \in Nat
    BY <1>1, <1>2, ActiveFinite
<1>4. Cardinality(Active(obstacles) \ R) = Cardinality(Active(obstacles)) - Cardinality(R)
    BY <1>1, CountWithout
<1>5. Active(Without(obstacles, R)) = Active(obstacles) \ R
    BY <1>1, WithoutType
<1> QED
    BY <1>3, <1>4, <1>5

LEMMA DestroyedType ==
    ASSUME GTypeOK
    PROVE  Destroyed \in Int
<1>1. Cardinality(Active(obstacles)) \in Nat
    BY OnBoard
<1>2. drops \in Nat /\ life \in Int /\ LIVES \in Nat
    BY PaceAssumption DEF GTypeOK
<1> QED
    BY <1>1, <1>2 DEF Destroyed

\* The obstacles of R are destroyed in one action.
LEMMA DestroyAll ==
    ASSUME GTypeOK, ObstaclesAccounted, NEW R \in SUBSET Active(obstacles),
           NEW points \in {5, 10, 15},
           obstacles' = Without(obstacles, R), score' = score + points * Cardinality(R),
           UNCHANGED <<life, drops>>
    PROVE  ObstaclesAccounted'
<1>1. Destroyed' = Destroyed + Cardinality(R)
    <2>1. /\ Cardinality(R) \in Nat /\ Cardinality(Active(obstacles)) \in Nat
          /\ Cardinality(Active(obstacles')) = Cardinality(Active(obstacles)) - Cardinality(R)
        BY OnBoard
    <2>2. drops \in Nat /\ life \in Int /\ LIVES \in Nat
        BY PaceAssumption DEF GTypeOK
    <2> QED
        BY <2>1, <2>2 DEF Destroyed
<1>2. Cardinality(R) \in Nat
    BY OnBoard
<1> QED
    BY <1>1, <1>2, Paid, DestroyedType

LEMMA MoveAccounted ==
    ASSUME GTypeOK, ObstaclesAccounted, Move
    PROVE  ObstaclesAccounted'
<1>1. Landing \in SUBSET Active(obstacles)
    BY DEF Landing
<1>2. Active(Fallen) = Active(obstacles) \ Landing
    <2>1. DOMAIN obstacles = Slots(MAX_OBSTACLES)
        BY DEF GTypeOK
    <2>2. ASSUME NEW i \in DOMAIN obstacles
          PROVE  Fallen[i].x = IF i \in Landing THEN 0 ELSE obstacles[i].x
        <3>1. obstacles[i] \in Obstacle \cup {Gone}
            BY <2>1, <2>2 DEF GTypeOK
        <3>2. [obstacles[i] EXCEPT !.y = @ + 1].x = obstacles[i].x
            BY <3>1 DEF Obstacle, Gone
        <3> QED
            BY <3>2, <2>2 DEF Fallen, Gone
    <2>3. DOMAIN Fallen = DOMAIN obstacles
        BY DEF Fallen
    <2> QED
        BY <2>2, <2>3 DEF Active
<1>3. Destroyed' = Destroyed
    <2>1. /\ Cardinality(Active(obstacles')) =
                Cardinality(Active(obstacles)) - Cardinality(Landing)
          /\ Cardinality(Active(obstacles)) \in Nat /\ Cardinality(Landing) \in Nat
        BY <1>1, <1>2, OnBoard DEF Move
    <2>2. life' = life - Cardinality(Landing) /\ drops' = drops
        BY DEF Move, luck
    <2> QED
        BY <2>1, <2>2, PaceAssumption DEF Destroyed, GTypeOK
<1> QED
    BY <1>3 DEF Move, ObstaclesAccounted

LEMMA SpawnAccounted ==
    ASSUME GTypeOK, ObstaclesAccounted, SpawnObstacle
    PROVE  ObstaclesAccounted'
<1>1. CASE Full(obstacles)
    BY <1>1 DEF SpawnObstacle, ObstaclesAccounted, Destroyed, tally
<1>2. CASE ~Full(obstacles)
    <2> DEFINE free == FirstFree(obstacles)
    <2>1. obstacles = [i \in Slots(MAX_OBSTACLES) |-> obstacles[i]] /\ MAX_OBSTACLES \in Nat
        BY SizeAssumption DEF GTypeOK
    <2>2. PICK r \in 0 .. RAND_MAX :
            obstacles' = Put(obstacles, [x |-> (r % (WIDTH - MARGIN)) + 1, y |-> 1])
        BY <1>2 DEF SpawnObstacle, Drawn
    <2>3. (r % (WIDTH - MARGIN)) + 1 # 0
        BY DrawnColumns, SizeAssumption
    <2>4. Active(obstacles') = Active(obstacles) \cup {free}
        BY <1>2, <2>1, <2>2, <2>3, PutActive
    <2>5. free \notin Active(obstacles)
        BY <1>2, <2>1, FirstFreeIsFree
    <2>6. Active(obstacles) \in SUBSET DOMAIN obstacles /\ DOMAIN obstacles = Slots(MAX_OBSTACLES)
        BY <2>1 DEF Active
    <2>7. IsFiniteSet(Active(obstacles)) /\ Cardinality(Active(obstacles)) \in Nat
        BY <2>1, <2>6, ActiveFinite
    <2>8. Cardinality(Active(obstacles')) = Cardinality(Active(obstacles)) + 1
        <3> HIDE DEF free
        <3> QED
            BY <2>4, <2>5, <2>7, FS_AddElement
    <2>9. drops' = drops + 1 /\ UNCHANGED tally
        BY <1>2 DEF SpawnObstacle
    <2>10. Destroyed' = Destroyed
        BY <2>7, <2>8, <2>9, PaceAssumption DEF Destroyed, GTypeOK, tally
    <2> QED
        BY <2>9, <2>10 DEF ObstaclesAccounted, tally
<1> QED
    BY <1>1, <1>2

LEMMA InputAccounted ==
    ASSUME GTypeOK, ObstaclesAccounted, NEW d \in Direction, NEW fire \in BOOLEAN,
           NEW bomb \in BOOLEAN, HandleInput(d, fire, bomb)
    PROVE  ObstaclesAccounted'
<1> DEFINE blown == IF bomb /\ has_bomb THEN InRange(player') ELSE {}
<1>1. blown \in SUBSET Active(obstacles)
    BY DEF InRange
<1>2. /\ obstacles' = Without(obstacles, blown)
      /\ score' = score + 15 * Cardinality(blown)
      /\ UNCHANGED <<life, drops>>
    BY DEF HandleInput, luck
<1> HIDE DEF blown
<1> QED
    BY <1>1, <1>2, DestroyAll

LEMMA ItemAccounted ==
    ASSUME GTypeOK, ObstaclesAccounted, TakeItem
    PROVE  ObstaclesAccounted'
<1>1. UNCHANGED <<life, drops>>
    BY DEF TakeItem, luck
<1>2. CASE UNCHANGED <<obstacles, score>>
    BY <1>1, <1>2 DEF ObstaclesAccounted, Destroyed
<1>3. CASE /\ obstacles' = Without(obstacles, Active(obstacles))
           /\ score' = score + 5 * Cardinality(Active(obstacles))
    BY <1>1, <1>3, DestroyAll
<1> QED
    BY <1>2, <1>3 DEF TakeItem

LEMMA CollisionsAccounted ==
    ASSUME GTypeOK, ObstaclesAccounted, CheckCollisions
    PROVE  ObstaclesAccounted'
<1>1. Hit \in SUBSET Active(obstacles)
    BY DEF Hit, Outnumbered
<1>2. /\ obstacles' = Without(obstacles, Hit)
      /\ score' = score + 10 * Cardinality(Hit)
      /\ UNCHANGED <<life, drops>>
    BY DEF CheckCollisions, luck
<1> QED
    BY <1>1, <1>2, DestroyAll

LEMMA InitAccounted == Init => ObstaclesAccounted
<1> SUFFICES ASSUME Init PROVE ObstaclesAccounted
    OBVIOUS
<1>1. Active(obstacles) = {}
    BY DEF Init, Active, Gone
<1>2. Destroyed = 0
    <2>1. Cardinality(Active(obstacles)) = 0
        BY <1>1, FS_EmptySet
    <2>2. drops = 0 /\ life = LIVES /\ LIVES \in Nat
        BY PaceAssumption DEF Init
    <2> QED
        BY <2>1, <2>2 DEF Destroyed
<1> QED
    BY <1>2 DEF ObstaclesAccounted, Init

LEMMA AccountedStep == GTypeOK /\ ObstaclesAccounted /\ [Next]_vars => ObstaclesAccounted'
<1> SUFFICES ASSUME GTypeOK, ObstaclesAccounted, [Next]_vars PROVE ObstaclesAccounted'
    OBVIOUS
<1>1. CASE UNCHANGED <<obstacles, score, life, drops>>
    BY <1>1 DEF ObstaclesAccounted, Destroyed
<1>2. CASE \/ LeaveLoop \/ Wait \/ BeginFrame \/ SpawnItem \/ EndGame
           \/ GameEnded \/ ResultShown \/ Finished \/ UNCHANGED vars
    <2>1. UNCHANGED <<obstacles, score, life, drops>>
        BY <1>2 DEF LeaveLoop, Wait, BeginFrame, SpawnItem, EndGame, GameEnded,
                    ResultShown, Finished, vars, board, tally, luck
    <2> QED
        BY <1>1, <2>1
<1>3. ASSUME NEW d \in Direction, NEW fire \in BOOLEAN, NEW bomb \in BOOLEAN,
             HandleInput(d, fire, bomb)
      PROVE  ObstaclesAccounted'
    BY <1>3, InputAccounted
<1>4. CASE Move
    BY <1>4, MoveAccounted
<1>5. CASE SpawnObstacle
    BY <1>5, SpawnAccounted
<1>6. CASE TakeItem
    BY <1>6, ItemAccounted
<1>7. CASE CheckCollisions
    BY <1>7, CollisionsAccounted
<1> QED
    BY <1>2, <1>3, <1>4, <1>5, <1>6, <1>7 DEF Next, GameThread

\* No obstacle disappears unpaid and none is paid for twice: each is on the
\* board, or has cost a life, or has earned 5, 10 or 15 points.
THEOREM Accounted == Spec => []ObstaclesAccounted
<1> QED
    BY InitType, TypeStep, InitAccounted, AccountedStep, PTL DEF Spec

-----------------------------------------------------------------------------
(***************************************************************************)
(* The end of the game.                                                    *)
(***************************************************************************)
LEMMA OverStep == GTypeOK /\ OverMeansSpent /\ [Next]_vars => OverMeansSpent'
<1> SUFFICES ASSUME GTypeOK, OverMeansSpent, [Next]_vars PROVE OverMeansSpent'
    OBVIOUS
<1>1. CASE Move
    <2>1. life \in Int /\ game_over \in BOOLEAN /\ game_result_received \in BOOLEAN
        BY DEF GTypeOK
    <2>2. UNCHANGED <<current_game_mode, ended>>
        BY <1>1 DEF Move
    <2>3. CASE Landing = {}
        <3>1. UNCHANGED <<life, game_over, game_result_received>>
            BY <1>1, <2>1, <2>3, FS_EmptySet DEF Move
        <3> QED
            BY <2>2, <3>1 DEF OverMeansSpent
    <2>4. CASE Landing # {}
        <3>1. life' \in Int /\ life' <= life
            <4>1. Landing \in SUBSET Active(obstacles)
                BY DEF Landing
            <4>2. Cardinality(Landing) \in Nat
                BY <4>1, OnBoard
            <4> QED
                BY <1>1, <2>1, <4>2 DEF Move
        <3>2. /\ game_over' <=> game_over \/ life' <= 0
              /\ game_result_received' <=>
                    game_result_received \/ (life' <= 0 /\ current_game_mode = "SINGLE")
            BY <1>1, <2>1, <2>4 DEF Move, LastLife
        <3>3. life <= 0 => life' <= 0
            BY <2>1, <3>1
        <3> QED
            BY <2>1, <2>2, <3>2, <3>3 DEF OverMeansSpent
    <2> QED
        BY <2>3, <2>4
<1>2. CASE GameEnded \/ ResultShown
    BY <1>2 DEF GameEnded, ResultShown, OverMeansSpent, tally
<1>3. CASE \/ LeaveLoop \/ Wait \/ BeginFrame \/ SpawnObstacle \/ SpawnItem \/ TakeItem
           \/ CheckCollisions \/ EndGame \/ Finished \/ UNCHANGED vars
           \/ \E d \in Direction, fire, bomb \in BOOLEAN : HandleInput(d, fire, bomb)
    <2>1. UNCHANGED <<current_game_mode, life, game_over, ended, game_result_received>>
        BY <1>3 DEF LeaveLoop, Wait, BeginFrame, SpawnObstacle, SpawnItem, TakeItem,
                    CheckCollisions, EndGame, Finished, HandleInput, vars, tally, over
    <2> QED
        BY <2>1 DEF OverMeansSpent
<1> QED
    BY <1>1, <1>2, <1>3 DEF Next, GameThread

\* However many obstacles land in one frame, the game is over exactly when no
\* life is left or the server has ended it.
THEOREM OverExactly == Spec => []OverMeansSpent
<1>1. Init => OverMeansSpent
    BY PaceAssumption DEF Init, OverMeansSpent
<1> QED
    BY <1>1, InitType, TypeStep, OverStep, PTL DEF Spec

-----------------------------------------------------------------------------
(***************************************************************************)
(* Collisions.  An entry that stays has at least as many before it in its  *)
(* cell as the other array has there; so if one of each stayed, each array *)
(* would have fewer in that cell than the other.                           *)
(***************************************************************************)
LEMMA NoPairLeft ==
    ASSUME GTypeOK, NEW i \in Active(obstacles) \ Hit,
           NEW j \in Active(bullets) \ Outnumbered(bullets, obstacles)
    PROVE  obstacles[i].x # bullets[j].x \/ obstacles[i].y # bullets[j].y
<1> SUFFICES ASSUME obstacles[i].x = bullets[j].x, obstacles[i].y = bullets[j].y
             PROVE  FALSE
    OBVIOUS
<1> DEFINE O == In(obstacles, obstacles[i])
           B == In(bullets, bullets[j])
           OBefore == {k \in O : k < i}
           BBefore == {k \in B : k < j}
<1>1. In(bullets, obstacles[i]) = B /\ In(obstacles, bullets[j]) = O
    BY DEF In
<1>2. /\ ~(Cardinality(OBefore) < Cardinality(B))
      /\ ~(Cardinality(BBefore) < Cardinality(O))
    BY <1>1 DEF Hit, Outnumbered
<1>3. /\ DOMAIN obstacles = Slots(MAX_OBSTACLES) /\ MAX_OBSTACLES \in Nat
      /\ DOMAIN bullets = Slots(MAX_BULLETS) /\ MAX_BULLETS \in Nat
    BY SizeAssumption DEF GTypeOK
<1>4. /\ i \in O /\ i \notin OBefore /\ OBefore \subseteq O /\ O \subseteq DOMAIN obstacles
      /\ j \in B /\ j \notin BBefore /\ BBefore \subseteq B /\ B \subseteq DOMAIN bullets
    BY <1>3 DEF In, Active, Slots
<1> HIDE DEF O, B, OBefore, BBefore
<1>5. /\ IsFiniteSet(O) /\ Cardinality(O) \in Nat
      /\ IsFiniteSet(B) /\ Cardinality(B) \in Nat
    BY <1>3, <1>4, ActiveFinite
<1>6. /\ Cardinality(OBefore) \in Nat /\ Cardinality(OBefore) < Cardinality(O)
      /\ Cardinality(BBefore) \in Nat /\ Cardinality(BBefore) < Cardinality(B)
    <2>1. /\ Cardinality(OBefore) \in Nat /\ Cardinality(OBefore) <= Cardinality(O)
          /\ Cardinality(OBefore) # Cardinality(O)
        BY <1>4, <1>5, FS_Subset, FS_CardinalityType
    <2>2. /\ Cardinality(BBefore) \in Nat /\ Cardinality(BBefore) <= Cardinality(B)
          /\ Cardinality(BBefore) # Cardinality(B)
        BY <1>4, <1>5, FS_Subset, FS_CardinalityType
    <2> QED
        BY <2>1, <2>2, <1>5
<1> QED
    BY <1>2, <1>5, <1>6

LEMMA HitsStep == GTypeOK /\ HitsCounted /\ [Next]_vars => HitsCounted'
<1> SUFFICES ASSUME GTypeOK, HitsCounted, [Next]_vars PROVE HitsCounted'
    OBVIOUS
<1>1. CASE CheckCollisions
    <2>1. /\ Active(obstacles') = Active(obstacles) \ Hit
          /\ Active(bullets') = Active(bullets) \ Outnumbered(bullets, obstacles)
        <3>1. /\ obstacles \in [Slots(MAX_OBSTACLES) -> Obstacle \cup {Gone}]
              /\ bullets \in [Slots(MAX_BULLETS) -> Bullet \cup {Gone}]
              /\ MAX_OBSTACLES \in Nat /\ MAX_BULLETS \in Nat
            BY SizeAssumption DEF GTypeOK
        <3>2. Active(Without(obstacles, Hit)) = Active(obstacles) \ Hit
            BY <3>1 DEF Without, Active, Gone
        <3>3. Active(Without(bullets, Outnumbered(bullets, obstacles))) =
                Active(bullets) \ Outnumbered(bullets, obstacles)
            BY <3>1 DEF Without, Active, Gone
        <3> QED
            BY <1>1, <3>2, <3>3 DEF CheckCollisions
    <2>2. /\ \A i \in Active(obstacles) \ Hit : obstacles'[i] = obstacles[i]
          /\ \A j \in Active(bullets) \ Outnumbered(bullets, obstacles) :
                bullets'[j] = bullets[j]
        BY <1>1 DEF CheckCollisions, Without, Active
    <2> QED
        BY <2>1, <2>2, NoPairLeft DEF HitsCounted
<1>2. CASE \/ Wait \/ GameEnded \/ ResultShown \/ Finished \/ UNCHANGED vars
    <2>1. UNCHANGED <<pc, obstacles, bullets>>
        BY <1>2 DEF Wait, GameEnded, ResultShown, Finished, vars, board
    <2> QED
        BY <2>1 DEF HitsCounted
<1>3. CASE \/ LeaveLoop \/ BeginFrame \/ Move \/ SpawnObstacle \/ SpawnItem \/ TakeItem
           \/ EndGame
           \/ \E d \in Direction, fire, bomb \in BOOLEAN : HandleInput(d, fire, bomb)
    <2>1. pc' # "head"
        BY <1>3 DEF LeaveLoop, BeginFrame, Move, SpawnObstacle, SpawnItem, TakeItem,
                    EndGame, HandleInput, AfterSpawn
    <2> QED
        BY <2>1 DEF HitsCounted
<1> QED
    BY <1>1, <1>2, <1>3 DEF Next, GameThread

\* No frame leaves a bullet in the cell of an obstacle.
THEOREM AllHitsCounted == Spec => []HitsCounted
<1>1. Init => HitsCounted
    BY DEF Init, HitsCounted, Active, Gone
<1> QED
    BY <1>1, InitType, TypeStep, HitsStep, PTL DEF Spec
=============================================================================
