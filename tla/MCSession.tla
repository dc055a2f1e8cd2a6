----------------------------- MODULE MCSession -----------------------------
(***************************************************************************)
(* Session for TLC.  Client.tla is checked with all its steps by MCClient. *)
(* Here the client is connected and goes to the lobby, and its controller  *)
(* thread, if any, has ended: the properties are about a game of two, and  *)
(* nothing of it depends on the rest.                                      *)
(***************************************************************************)
EXTENDS Session

OneScore == {0}
TwoScores == 0 .. 1
OneSeed == {7}
TwoSeeds == {7, 9}

ToTheLobby ==
    /\ connected' \in {"not_yet", "ok"}
    /\ screen = "menu" => screen' \in {"menu", "join"}
    /\ controller' \in {"none", "ended"}
    /\ game' \in {"none", "init"} \/ current_game_mode = "MULTI"

\* A rival that is there before the client has the slot that a first player
\* leaves; with the other slot the client would only have this one.
MCInit == SInit /\ (lobby.seated["rival"] => slot["rival"] = 1)

MCSpec == MCInit /\ [][SNext /\ ToTheLobby]_sessionVars
MCFairSpec == MCSpec /\ SFairness

\* A dead client takes no step; of the server that it has left, or that has
\* closed, only the histories can matter.
MCView ==
    IF ~Alive THEN <<>>
    ELSE IF link \in {"none", "up"} THEN sessionVars
    ELSE <<clientVars, slot, start_seed, joined_late>>
=============================================================================
