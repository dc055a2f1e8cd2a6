-------------------------------- MODULE Wire --------------------------------
(***************************************************************************)
(* The messages between the clients and the match server, include/common.h *)
(* ("LOBBY_JOIN" stands for MSG_LOBBY_JOIN, and so on).  A message is one  *)
(* fixed-size struct and is delivered whole.  Player names and the text of *)
(* a result are left out.                                                  *)
(***************************************************************************)
EXTENDS Integers

CONSTANT Score          \* the scores a client may report

ASSUME ScoreAssumption == Score \subseteq Int /\ 0 \in Score

\* One shape for every request; the fields a type does not use are ignored.
Request == [type : {"LOBBY_JOIN", "LOBBY_LEAVE", "READY_STATUS",
                    "PLAYER_STATUS"},
            ready : BOOLEAN, score : Score, game_over : BOOLEAN]

Ask(type) == [type |-> type, ready |-> FALSE, score |-> 0, game_over |-> FALSE]
AskReady(b) == [Ask("READY_STATUS") EXCEPT !.ready = b]
AskStatus(s, o) == [Ask("PLAYER_STATUS") EXCEPT !.score = s, !.game_over = o]

\* recv() <= 0 on the server: the peer closed, or fd is -1.
Eof == Ask("EOF")

UpdateMsg(room)  == [type |-> "LOBBY_UPDATE", lobby |-> room]
StartMsg(s, sd)  == [type |-> "GAME_START", player_id |-> s, seed |-> sd]
StatusMsg(m)     == [type |-> "PLAYER_STATUS", score |-> m.score,
                     game_over |-> m.game_over]
EndMsg(res)      == [type |-> "GAME_END", result |-> res]
=============================================================================
