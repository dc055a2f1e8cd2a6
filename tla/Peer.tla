-------------------------------- MODULE Peer --------------------------------
(***************************************************************************)
(* What one game client asks of the server, and in which order: one join,  *)
(* then ready toggles or one leave from the lobby screen, then, once the   *)
(* server has told it that a game runs, a report whenever its score or its *)
(* game_over has changed.  Players.tla assumes this of the clients of the  *)
(* server, and Client.tla is shown to keep to it.                          *)
(***************************************************************************)
EXTENDS Wire

CONSTANT MaxToggles     \* how often a client presses R at most

ASSUME BoundAssumption == MaxToggles \in Nat

\* What a client has asked and reported so far.
Peer == [joined : BOOLEAN, left : BOOLEAN, ready : BOOLEAN,
         toggles : 0 .. MaxToggles, score : Score, over : BOOLEAN]

NewPeer == [joined |-> FALSE, left |-> FALSE, ready |-> FALSE, toggles |-> 0,
            score |-> 0, over |-> FALSE]

\* send_player_status sends only what differs from what it sent last, which
\* is (0, 0) at first.
HasReported(p) == p.score # 0 \/ p.over

\* show_multiplayer_lobby may be on the screen.
InLobbyScreen(p) == p.joined /\ ~p.left /\ ~HasReported(p)

\* The peers that p can become by asking to join, to leave, to be ready or
\* not, and by reporting; none where p may not ask.
AfterJoin(p) == IF p.joined THEN {} ELSE {[p EXCEPT !.joined = TRUE]}

AfterLeave(p) == IF InLobbyScreen(p) THEN {[p EXCEPT !.left = TRUE]} ELSE {}

AfterToggle(p) ==
    IF InLobbyScreen(p) /\ p.toggles < MaxToggles
    THEN {[p EXCEPT !.ready = ~@, !.toggles = @ + 1]} ELSE {}

\* The score never falls and game_over is never taken back, but the score
\* may still grow after game_over has been reported.
AfterReport(p) ==
    {[p EXCEPT !.score = r[1], !.over = r[2]] :
        r \in {x \in Score \X BOOLEAN :
                 x[1] >= p.score /\ (p.over => x[2]) /\ x # <<p.score, p.over>>}}
=============================================================================
