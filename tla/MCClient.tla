------------------------------ MODULE MCClient ------------------------------
EXTENDS Client

TwoScores == 0 .. 1
OneSeed == {7}

\* Fingerprints leave out what no step of the run below reads: the verdict,
\* the seeds, the score of the opponent, and what the messages under way say
\* of them.
ActiveState ==
    <<screen, connected, current_game_mode, my_ready, net, reportVars, network_lobby,
      game_result_received, is_running, game, controller, score, game_over,
      waiting_for_opponent, life, link, Len(out), asked, told, my_player_id,
      [i \in DOMAIN inbox |-> <<inbox[i].type, Tells(inbox[i]),
         IF inbox[i].type = "GAME_START" THEN inbox[i].player_id ELSE 0>>]>>
=============================================================================
