-------------------------------- MODULE Duel --------------------------------
(***************************************************************************)
(* The games of two opponents, each its own engine (Game.tla) with its own *)
(* player, and one seed: GAME_START carries it to both, init_game hands it *)
(* to srand(), so the n-th call of rand() returns the same to both.        *)
(* Neither engine reads the other's state, so they may take turns frame by *)
(* frame.                                                                  *)
(***************************************************************************)
EXTENDS Game

VARIABLES
    b_mode, b_pc, b_frame, b_obstacle_interval, b_spawn_interval, b_player, b_bullets,
    b_obstacles, b_items, b_has_bomb, b_score, b_life, b_game_over, b_waiting,
    b_result_received, b_ended, b_draws, b_drops,
    dropped, b_dropped      \* history: the column of the obstacle each frame spawned

bVars == <<b_mode, b_pc, b_frame, b_obstacle_interval, b_spawn_interval, b_player,
           b_bullets, b_obstacles, b_items, b_has_bomb, b_score, b_life, b_game_over,
           b_waiting, b_result_received, b_ended, b_draws, b_drops>>
duelVars == <<vars, bVars, dropped, b_dropped>>

B == INSTANCE Game WITH
    current_game_mode <- b_mode, pc <- b_pc, frame <- b_frame,
    obstacle_interval <- b_obstacle_interval, spawn_interval <- b_spawn_interval,
    player <- b_player, bullets <- b_bullets, obstacles <- b_obstacles,
    items <- b_items, has_bomb <- b_has_bomb, score <- b_score, life <- b_life,
    game_over <- b_game_over, waiting_for_opponent <- b_waiting,
    game_result_received <- b_result_received, ended <- b_ended,
    draws <- b_draws, drops <- b_drops

DuelInit ==
    /\ Init /\ B!Init
    /\ current_game_mode = "MULTI" /\ b_mode = "MULTI"
    /\ dropped = <<>> /\ b_dropped = <<>>

\* The history log after a step of an engine in the frame f.
Noted(log, f, before, after, column) ==
    IF after > before
    THEN [n \in DOMAIN log \cup {f} |-> IF n = f THEN column ELSE log[n]]
    ELSE log

Play ==
    /\ frame <= b_frame \/ b_waiting
    /\ GameThread
    /\ dropped' = Noted(dropped, frame, drops, drops', obstacles'[FirstFree(obstacles)].x)
    /\ UNCHANGED <<bVars, b_dropped>>

PlayOpponent ==
    /\ b_frame < frame \/ waiting_for_opponent
    /\ B!GameThread
    /\ b_dropped' = Noted(b_dropped, b_frame, b_drops, b_drops',
                          b_obstacles'[FirstFree(b_obstacles)].x)
    /\ UNCHANGED <<vars, dropped>>

DuelNext == Play \/ PlayOpponent

DuelSpec == DuelInit /\ [][DuelNext]_duelVars

-----------------------------------------------------------------------------
\* "Sharing the seed at the start of a game ensures a consistent state", says
\* README.md:173: an obstacle that both get in a frame is the same one.
SameObstacles ==
    \A f \in DOMAIN dropped \cap DOMAIN b_dropped : dropped[f] = b_dropped[f]
=============================================================================
