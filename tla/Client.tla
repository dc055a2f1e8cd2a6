------------------------------- MODULE Client -------------------------------
(***************************************************************************)
(* One game client: main() with the menu and the lobby screen (main.c,     *)
(* intro_ui.c), the network thread (network.c), and of the game thread     *)
(* (game.c) what the others can see: score, game_over, and when its loop   *)
(* begins and ends.                                                        *)
(*                                                                         *)
(* The client owns one socket.  inbox is what the server has sent and the  *)
(* client has not read, out what it has sent and the server has not read.  *)
(* The module is open: once the client has asked to join, the server may   *)
(* send it any message at any time, and it may go away.  Session.tla puts  *)
(* the server's handlers in its place.                                     *)
(*                                                                         *)
(* Each thread stops where another one can see or change what it reads     *)
(* next; code between two such points is one action.                       *)
(***************************************************************************)
EXTENDS Peer, Sequences

CONSTANTS
    Seed,       \* the seeds of a GAME_START; 0 is the one before any
    Queue       \* bound: messages under way in each direction

ASSUME QueueAssumption == Queue \in Nat

VARIABLES
    screen,                 \* where main() is; "exit" when the process is gone
    connected,              \* what init_connection() returned
    current_game_mode,
    my_ready,               \* show_multiplayer_lobby
    net,                    \* where run_network() is
    network_lobby, seed, my_player_id, opponent_score,
    status_score,           \* score as send_player_status has read it
    last_sent_status,
    game_result_received, is_running,
    shown,                  \* the verdict on the result screen
    game,                   \* where run_game() is
    controller,             \* its controller thread
    game_seed,              \* what srand() was given
    score, game_over, waiting_for_opponent,
    life,                   \* 0 when spent, else 1
    link,                   \* the connection
    inbox, out,
    asked,                  \* history: what was sent, as a peer
    told                    \* history: some message said that a game runs

mainVars   == <<screen, connected, current_game_mode, my_ready>>
lobbyVars  == <<network_lobby, seed, my_player_id, opponent_score>>
endVars    == <<game_over, game_result_received, is_running, shown>>
engineVars == <<controller, game_seed, score, waiting_for_opponent, life>>
wireVars   == <<link, inbox, out, asked, told>>
reportVars == <<status_score, last_sent_status>>
clientVars == <<mainVars, lobbyVars, endVars, engineVars, wireVars, net, game,
                reportVars>>

CTypeOK ==
    /\ screen \in {"start", "menu", "join", "lobby", "poll", "result", "launch",
                   "launch_net", "join_game", "join_net", "exit"}
    /\ connected \in {"ok", "failed", "refused", "full", "not_yet"}
    /\ current_game_mode \in {"SINGLE", "MULTI"}
    /\ my_ready \in BOOLEAN
    /\ net \in {"none", "loop", "poll", "result", "read", "report",
               "close", "ended"}
    /\ network_lobby \in [game_started : BOOLEAN]
    /\ seed \in Seed \cup {0} /\ game_seed \in Seed \cup {0}
    /\ my_player_id \in -1 .. 1
    /\ opponent_score \in Score /\ score \in Score
    /\ status_score \in Score
    /\ last_sent_status \in [score : Score, game_over : BOOLEAN]
    /\ game_result_received \in BOOLEAN /\ is_running \in BOOLEAN
    /\ shown \in {"nothing", "draw", "won", "lost"}
    /\ game \in {"none", "init", "loop", "bombs", "move", "hits", "end",
                 "join_imu", "ended"}
    /\ controller \in {"none", "absent", "running", "ended"}
    /\ game_over \in BOOLEAN /\ waiting_for_opponent \in BOOLEAN
    /\ life \in 0 .. 1
    /\ link \in {"none", "up", "closed", "reset", "hung_up"}
    /\ Len(out) <= Queue
    /\ asked \in Peer
    /\ told \in BOOLEAN

CInit ==
    /\ screen = "start" /\ connected = "not_yet"
    /\ current_game_mode = "SINGLE" /\ my_ready = FALSE
    /\ net = "none" /\ game = "none" /\ controller = "none"
    /\ network_lobby = [game_started |-> FALSE]
    /\ seed = 0 /\ game_seed = 0 /\ my_player_id = -1 /\ opponent_score = 0
    /\ status_score = 0 /\ last_sent_status = [score |-> 0, game_over |-> FALSE]
    /\ game_result_received = FALSE /\ is_running = TRUE /\ shown = "nothing"
    /\ score = 0 /\ game_over = FALSE /\ waiting_for_opponent = FALSE /\ life = 1
    /\ link = "none" /\ inbox = <<>> /\ out = <<>>
    /\ asked = NewPeer /\ told = FALSE

Alive == screen # "exit"

-----------------------------------------------------------------------------
(***************************************************************************)
(* send_network_message.  A send to a server that is gone is lost or fails *)
(* at first; a later one raises SIGPIPE, which ends the process.           *)
(***************************************************************************)
Sent(m, p) ==
    /\ \/ link = "up" /\ Len(out) < Queue /\ out' = Append(out, m)
       \/ link = "closed" /\ UNCHANGED out
    /\ asked' = p
    /\ UNCHANGED <<link, inbox, told>>

SendFails ==
    /\ link = "closed"
    /\ link' = "reset"
    /\ UNCHANGED <<inbox, out, asked, told>>

-----------------------------------------------------------------------------
(***************************************************************************)
(* The messages of the server.                                             *)
(***************************************************************************)
Got(type) == inbox # <<>> /\ Head(inbox).type = type

\* handle_lobby_update and handle_game_start.
GameStarted_UpdateOnly(m) ==           \* mutant: not set by handle_game_start
    IF m.type = "LOBBY_UPDATE" THEN m.lobby.game_started
    ELSE network_lobby.game_started
GameStarted(m) == m.type = "GAME_START" \/ GameStarted_UpdateOnly(m)

SeedRead_Kept(m) == seed               \* mutants: the seed, or the slot of a
PlayerIdRead_Kept(m) == my_player_id   \* GAME_START is not stored; its slot
PlayerIdRead_NetworkOrder(m) ==        \* is stored without ntohl()
    IF m.type = "GAME_START" THEN m.player_id * 2^24 ELSE my_player_id
SeedRead(m) == IF m.type = "GAME_START" THEN m.seed ELSE seed
PlayerIdRead(m) == IF m.type = "GAME_START" THEN m.player_id ELSE my_player_id

\* process_network_messages, one message other than a GAME_END.
HandleMessage ==
    /\ inbox # <<>> /\ ~Got("GAME_END")
    /\ LET m == Head(inbox)
       IN  /\ network_lobby' = [game_started |-> GameStarted(m)]
           /\ seed' = SeedRead(m)
           /\ my_player_id' = PlayerIdRead(m)
           /\ opponent_score' =
                IF m.type = "PLAYER_STATUS" THEN m.score ELSE opponent_score
    /\ inbox' = Tail(inbox)
    /\ UNCHANGED <<endVars, link, out, asked, told>>

\* GAME_END: game_over is set before the result is shown ...
HandleEnd ==
    /\ Got("GAME_END")
    /\ game_over' = TRUE
    /\ UNCHANGED <<lobbyVars, game_result_received, is_running, shown, wireVars>>

\* last_game_result.winner_id, which nothing assigns.
LastWinner == 0

\* ... and game_result_received after it.
HandleResult ==
    LET w == Head(inbox).result.winner_id
    IN  /\ shown' = IF LastWinner = -1 THEN "draw"
                    ELSE IF w = my_player_id THEN "won" ELSE "lost"
        /\ game_result_received' = TRUE
        /\ inbox' = Tail(inbox)
        /\ UNCHANGED <<lobbyVars, game_over, is_running, link, out, asked, told>>

-----------------------------------------------------------------------------
(***************************************************************************)
(* main(): connection, menu, lobby screen, threads.                        *)
(***************************************************************************)
Goes(s) == screen' = s

Connect ==
    /\ screen = "start"
    /\ Goes("menu")
    /\ connected' \in {"ok", "failed", "refused", "full"}
    /\ link' = IF connected' = "ok" THEN "up" ELSE "none"
    /\ UNCHANGED <<current_game_mode, my_ready, lobbyVars, endVars, engineVars,
                   inbox, out, asked, told, net, game, reportVars>>

\* show_main_menu: one player, two players, or leave.
Menu ==
    /\ screen = "menu"
    /\ \/ Goes("launch") /\ current_game_mode' = "SINGLE"
       \/ connected = "ok" /\ Goes("join") /\ current_game_mode' = "MULTI"
       \/ connected # "ok" /\ Goes("launch") /\ current_game_mode' = "SINGLE"
       \/ Goes("exit") /\ UNCHANGED current_game_mode
    /\ UNCHANGED <<connected, my_ready, lobbyVars, endVars, engineVars, wireVars,
                   net, game, reportVars>>

\* The window of the lobby may not open; the client has joined all the same.
JoinLobby ==
    /\ screen = "join"
    /\ \/ /\ Sent(Ask("LOBBY_JOIN"), [asked EXCEPT !.joined = TRUE])
          /\ \/ Goes("lobby") /\ UNCHANGED current_game_mode
             \/ Goes("launch") /\ current_game_mode' = "SINGLE"
       \/ SendFails /\ Goes("launch") /\ current_game_mode' = "SINGLE"
    /\ my_ready' = FALSE
    /\ UNCHANGED <<connected, lobbyVars, endVars, engineVars, net, game,
                   reportVars>>

EnterGame ==
    /\ screen = "lobby" /\ network_lobby.game_started
    /\ Goes("launch")
    /\ current_game_mode' = "MULTI"
    /\ UNCHANGED <<connected, my_ready, lobbyVars, endVars, engineVars, wireVars,
                   net, game, reportVars>>

\* The result of send_ready_status is not looked at.
PressR ==
    /\ screen = "lobby" /\ ~network_lobby.game_started
    /\ asked.toggles < MaxToggles
    /\ my_ready' = ~my_ready
    /\ \/ Sent(AskReady(my_ready'),
               [asked EXCEPT !.ready = my_ready', !.toggles = @ + 1])
       \/ SendFails
    /\ UNCHANGED <<screen, connected, current_game_mode, lobbyVars, endVars,
                   engineVars, net, game, reportVars>>

\* The lobby screen returns 0 and main() goes on in single mode.
PressEsc ==
    /\ screen = "lobby" /\ ~network_lobby.game_started
    /\ Sent(Ask("LOBBY_LEAVE"), [asked EXCEPT !.left = TRUE]) \/ SendFails
    /\ Goes("launch")
    /\ current_game_mode' = "SINGLE"
    /\ UNCHANGED <<connected, my_ready, lobbyVars, endVars, engineVars, net, game,
                   reportVars>>

\* Another key, or none for 100 ms: update_lobby_status.
Timeout ==
    /\ screen = "lobby" /\ ~network_lobby.game_started
    /\ Goes("poll")
    /\ UNCHANGED <<connected, current_game_mode, my_ready, lobbyVars, endVars,
                   engineVars, wireVars, net, game, reportVars>>

\* update_lobby_status reads until nothing is left.
PollLobby ==
    /\ \/ screen = "poll" /\ HandleMessage /\ UNCHANGED screen
       \/ screen = "poll" /\ HandleEnd /\ Goes("result")
       \/ screen = "result" /\ HandleResult /\ Goes("poll")
       \/ /\ screen = "poll" /\ inbox = <<>> /\ Goes("lobby")
          /\ UNCHANGED <<lobbyVars, endVars, wireVars>>
    /\ UNCHANGED <<connected, current_game_mode, my_ready, engineVars, net, game,
                   reportVars>>

Launch ==
    /\ \/ screen = "launch" /\ game' = "init" /\ UNCHANGED net
          /\ Goes(IF connected = "failed" THEN "join_game" ELSE "launch_net")
       \/ screen = "launch_net" /\ net' = "loop" /\ UNCHANGED game
          /\ Goes("join_game")
    /\ UNCHANGED <<connected, current_game_mode, my_ready, lobbyVars, endVars,
                   engineVars, wireVars, reportVars>>

JoinThreads ==
    /\ \/ screen = "join_game" /\ game = "ended" /\ Goes("join_net")
       \/ screen = "join_net" /\ net \in {"none", "ended"} /\ Goes("exit")
    /\ UNCHANGED <<connected, current_game_mode, my_ready, lobbyVars, endVars,
                   engineVars, wireVars, net, game, reportVars>>

MainStep ==
    \/ EnterGame \/ Timeout \/ PollLobby \/ Launch \/ JoinThreads \/ JoinLobby
    \/ Connect

UserStep == Menu \/ PressR \/ PressEsc

-----------------------------------------------------------------------------
(***************************************************************************)
(* run_game, for the other threads.                                        *)
(***************************************************************************)
gameOnly == <<mainVars, lobbyVars, wireVars, net, reportVars>>

\* init_game gives up on a small terminal; init_controller may find no
\* sensor, and its thread may end at once for want of the GPIO chip.
InitGame ==
    /\ game = "init"
    /\ \/ /\ game' = "loop"
          /\ game_seed' = seed
          /\ controller' \in {"absent", "running", "ended"}
          /\ UNCHANGED screen
       \/ Goes("exit") /\ UNCHANGED <<game, game_seed, controller>>
    /\ UNCHANGED <<connected, current_game_mode, my_ready, lobbyVars, endVars, score,
                   waiting_for_opponent, life, wireVars, net, reportVars>>

\* The head of the loop: leave it, wait for the opponent, or play a frame.
LoopHead ==
    /\ game = "loop"
    /\ IF game_result_received
       THEN game' = "end" /\ UNCHANGED waiting_for_opponent
       ELSE /\ waiting_for_opponent' =
                  (waiting_for_opponent \/ (game_over /\ current_game_mode = "MULTI"))
            /\ game' = IF waiting_for_opponent' THEN "loop" ELSE "bombs"
    /\ UNCHANGED <<gameOnly, endVars, controller, game_seed, score, life>>

\* A frame scores with bombs in handle_input, before the obstacles move, and
\* with items and bullets after.
Scores ==
    /\ game \in {"bombs", "hits"}
    /\ game' = IF game = "bombs" THEN "move" ELSE "loop"
    /\ score' \in {s \in Score : s >= score}
    /\ UNCHANGED <<gameOnly, endVars, controller, game_seed, waiting_for_opponent, life>>

\* update_obstacles: the last life may go.
MoveObstacles ==
    /\ game = "move"
    /\ game' = "hits"
    /\ \/ UNCHANGED <<life, endVars>>
       \/ /\ life' = 0
          /\ game_over' = TRUE
          /\ game_result_received' =
                (game_result_received \/ current_game_mode = "SINGLE")
          /\ UNCHANGED <<is_running, shown>>
    /\ UNCHANGED <<gameOnly, controller, game_seed, score, waiting_for_opponent>>

EndGame ==
    /\ game = "end"
    /\ game' = "join_imu"
    /\ is_running' = FALSE
    /\ UNCHANGED <<gameOnly, engineVars, game_over, game_result_received, shown>>

\* join_thread(imu_thread): the controller thread that runs never ends; one
\* that was never created is undefined to join, and may crash the process.
JoinController ==
    /\ game = "join_imu" /\ controller # "running"
    /\ \/ game' = "ended" /\ UNCHANGED screen
       \/ controller = "absent" /\ Goes("exit") /\ UNCHANGED game
    /\ UNCHANGED <<connected, current_game_mode, my_ready, lobbyVars, wireVars, net,
                   reportVars, endVars, engineVars>>

GameStep ==
    InitGame \/ LoopHead \/ Scores \/ MoveObstacles \/ EndGame \/ JoinController

-----------------------------------------------------------------------------
(***************************************************************************)
(* run_network.                                                            *)
(***************************************************************************)
netOnly == <<mainVars, engineVars, game>>

NetLoop ==
    /\ net = "loop"
    /\ net' = IF is_running \/ ~game_result_received THEN "poll" ELSE "close"
    /\ UNCHANGED <<netOnly, lobbyVars, endVars, wireVars, reportVars>>

NetPoll ==
    /\ \/ net = "poll" /\ HandleMessage /\ UNCHANGED net
       \/ net = "poll" /\ HandleEnd /\ net' = "result"
       \/ net = "result" /\ HandleResult /\ net' = "poll"
       \/ /\ net = "poll" /\ inbox = <<>> /\ net' = "read"
          /\ UNCHANGED <<lobbyVars, endVars, wireVars>>
    /\ UNCHANGED <<netOnly, reportVars>>

\* send_player_status, when network_lobby says that a game runs.  score_mutex
\* covers the read of score; game_over is written by threads that do not
\* hold it, so it may change between the two reads.
NetRead_Always ==                      \* mutant: game_started is not looked at
    /\ net = "read"
    /\ net' = "report" /\ status_score' = score
    /\ UNCHANGED <<netOnly, lobbyVars, endVars, wireVars, last_sent_status>>

NetRead ==
    /\ net = "read"
    /\ IF network_lobby.game_started
       THEN net' = "report" /\ status_score' = score
       ELSE net' = "loop" /\ UNCHANGED status_score
    /\ UNCHANGED <<netOnly, lobbyVars, endVars, wireVars, last_sent_status>>

Status == [score |-> status_score, game_over |-> game_over]

NetReport ==
    /\ net = "report"
    /\ net' = "loop"
    /\ \/ /\ Status = last_sent_status
          /\ UNCHANGED <<last_sent_status, wireVars>>
       \/ /\ Status # last_sent_status
          /\ Sent(AskStatus(status_score, game_over),
                  [asked EXCEPT !.score = status_score, !.over = game_over])
          /\ last_sent_status' = Status
       \/ /\ Status # last_sent_status
          /\ SendFails
          /\ UNCHANGED last_sent_status
    /\ UNCHANGED <<netOnly, lobbyVars, endVars, status_score>>

NetClose ==
    /\ net = "close"
    /\ net' = "ended"
    /\ link' = IF link = "none" THEN "none" ELSE "hung_up"
    /\ UNCHANGED <<netOnly, lobbyVars, endVars, inbox, out, asked, told, reportVars>>

NetStep == NetLoop \/ NetPoll \/ NetRead \/ NetReport \/ NetClose

-----------------------------------------------------------------------------
(***************************************************************************)
(* The other end of the connection.                                        *)
(***************************************************************************)
Mail == {UpdateMsg([game_started |-> b]) : b \in BOOLEAN}
          \cup {StartMsg(i, sd) : i \in 0 .. 1, sd \in Seed}
          \cup {StatusMsg(AskStatus(s, o)) : s \in Score, o \in BOOLEAN}
          \cup {EndMsg([winner_id |-> w]) : w \in -1 .. 1}

Tells(m) == m.type = "GAME_START" \/ (m.type = "LOBBY_UPDATE" /\ m.lobby.game_started)

\* The messages ms are written to the socket, one after the other.
Delivered(ms) ==
    /\ inbox' = inbox \o ms
    /\ told' = (told \/ \E i \in DOMAIN ms : Tells(ms[i]))

ServerSends ==
    /\ link = "up" /\ asked.joined
    /\ Len(inbox) < Queue
    /\ \E m \in Mail : Delivered(<<m>>)
    /\ UNCHANGED <<link, out, asked>>

ServerReads ==
    /\ out # <<>>
    /\ out' = Tail(out)
    /\ UNCHANGED <<link, inbox, asked, told>>

ServerCloses ==
    /\ link = "up"
    /\ link' = "closed"
    /\ UNCHANGED <<inbox, out, asked, told>>

\* A send on a connection that was reset ends the process.
BrokenPipe ==
    /\ link \in {"closed", "reset"}
    /\ \/ screen = "join"
       \/ screen = "lobby" /\ ~network_lobby.game_started
       \/ net = "report" /\ Status # last_sent_status
    /\ Goes("exit")
    /\ UNCHANGED <<connected, current_game_mode, my_ready, lobbyVars, endVars,
                   engineVars, wireVars, net, game, reportVars>>

ClientStep == Alive /\ (MainStep \/ UserStep \/ GameStep \/ NetStep \/ BrokenPipe)

Gone == ~Alive /\ UNCHANGED clientVars

\* The controller thread samples for ever; nothing ends its loop.
Sampling == Alive /\ controller = "running" /\ UNCHANGED clientVars

CNext ==
    \/ ClientStep
    \/ /\ Alive
       /\ ServerSends \/ ServerReads \/ ServerCloses
       /\ UNCHANGED <<mainVars, lobbyVars, endVars, engineVars, net, game, reportVars>>
    \/ Sampling
    \/ Gone

CSpec == CInit /\ [][CNext]_clientVars

-----------------------------------------------------------------------------
(***************************************************************************)
(* What a client keeps to, whatever the server sends.                      *)
(***************************************************************************)
\* Two threads write to the socket, one after the other, out of flags that a
\* third one and the server change.  Together they keep to the order that
\* Players.tla assumes: one join; ready toggles that alternate and a leave
\* only before the first report; reports only of a game the server has told
\* of, with scores that never fall and a game_over that is never taken back.
FollowsProtocol ==
    [][asked' # asked =>
         \/ asked' \in AfterJoin(asked)
         \/ asked' \in AfterLeave(asked)
         \/ asked' \in AfterToggle(asked)
         \/ told /\ asked' \in AfterReport(asked)]_clientVars
=============================================================================
