------------------------------- MODULE Server -------------------------------
(***************************************************************************)
(* The match server, server/server.c: the accept loop of main(), one       *)
(* handle_client thread per accepted socket, the table clients[], the      *)
(* lobby, and lobby_mutex.                                                 *)
(*                                                                         *)
(* Granularity.  A section of code between pthread_mutex_lock and          *)
(* pthread_mutex_unlock is one action that needs the mutex free, except    *)
(* in handle_game_end, whose decision and commit are two actions with the  *)
(* mutex held in between, because update_game_status writes score and      *)
(* game_over without the mutex.  Every gap between two locked sections,    *)
(* and every unlocked write another thread can see, is a separate action.  *)
(*                                                                         *)
(* The module is open: a client may send any well-formed request at any    *)
(* time.  Players.tla restricts the requests to those of the game client.  *)
(***************************************************************************)
EXTENDS Wire

CONSTANTS
    Conn,           \* the sockets accept() returns, each used once
    NoConn,         \* fd = -1
    Seed,           \* the values time(NULL) may have at a game start
    NoTraffic,      \* a stream on which the server has sent nothing
    Deliver(_, _)   \* Deliver(str, m): the stream str after m is sent on it

ASSUME NoConnAssumption == NoConn \notin Conn

MAX_CLIENTS == 2
LOBBY_SIZE  == 2

Client == 0 .. MAX_CLIENTS - 1
Slot   == 0 .. LOBBY_SIZE - 1
Fd     == Conn \cup {NoConn}

-----------------------------------------------------------------------------
(***************************************************************************)
(* Data types.                                                             *)
(***************************************************************************)
ServerClient == [fd : Fd, player_id : -1 .. LOBBY_SIZE - 1,
                 connected : BOOLEAN, in_lobby : BOOLEAN, ready : BOOLEAN,
                 score : Score, game_over : BOOLEAN]

LobbyPlayer == [player_id : Client, ready : BOOLEAN, connected : BOOLEAN]

LobbyRoom == [players : [Slot -> LobbyPlayer],
              player_count : Int, game_started : BOOLEAN]

EmptyLobby ==
    [players |-> [s \in Slot |-> [player_id |-> 0, ready |-> FALSE,
                                  connected |-> FALSE]],
     player_count |-> 0, game_started |-> FALSE]

GameResult == [winner_id : -1 .. LOBBY_SIZE - 1,
               player_scores : [Slot -> Score]]

NoResult == [winner_id |-> -1, player_scores |-> [s \in Slot |-> 0]]

-----------------------------------------------------------------------------
VARIABLES
    clients,      \* server_client_t clients[MAX_CLIENTS]
    lobby,        \* NetworkLobbyRoom lobby
    lobby_mutex,  \* the thread holding it across actions, NoConn when free
    pc,           \* where the handle_client thread of each socket is
    client_idx,   \* its argument
    client_fd,    \* its copy of clients[client_idx].fd
    msg,          \* the request it is serving
    ret,          \* where its current call returns to
    result,       \* the local result of handle_game_end
    sent,         \* what the server has sent on each socket
    alive         \* no signal has ended the process

threadVars == <<pc, client_idx, client_fd, msg, ret, result>>
vars == <<clients, lobby, lobby_mutex, threadVars, sent>>
serverVars == <<vars, alive>>

PC == {"new", "refused", "start", "recv", "join", "leave", "leave2", "ready",
       "start_game", "status", "score_stored", "over_stored", "forward",
       "game_end", "game_end_commit", "broadcast", "close", "close2", "done"}

\* Every variable has its type: in particular an entry's player_id is -1 or
\* a slot, and a slot's player_id is the number of a table entry.
TypeOK ==
    /\ clients \in [Client -> ServerClient]
    /\ lobby \in LobbyRoom
    /\ lobby_mutex \in Fd
    /\ pc \in [Conn -> PC]
    /\ client_idx \in [Conn -> Client]
    /\ client_fd \in [Conn -> Fd]
    /\ msg \in [Conn -> Request \cup {Eof}]
    /\ ret \in [Conn -> {"recv", "leave2", "close"}]
    /\ result \in [Conn -> GameResult]
    /\ DOMAIN sent = Conn
    /\ alive \in BOOLEAN

Init ==
    /\ clients = [c \in Client |->
                    [fd |-> NoConn, player_id |-> -1, connected |-> FALSE,
                     in_lobby |-> FALSE, ready |-> FALSE, score |-> 0,
                     game_over |-> FALSE]]
    /\ lobby = EmptyLobby
    /\ lobby_mutex = NoConn
    /\ pc = [k \in Conn |-> "new"]
    /\ client_idx = [k \in Conn |-> 0]
    /\ client_fd = [k \in Conn |-> NoConn]
    /\ msg = [k \in Conn |-> Eof]
    /\ ret = [k \in Conn |-> "recv"]
    /\ result = [k \in Conn |-> NoResult]
    /\ sent = [k \in Conn |-> NoTraffic]
    /\ alive = TRUE

-----------------------------------------------------------------------------
(***************************************************************************)
(* Helpers.                                                                *)
(***************************************************************************)
Locked(k) == lobby_mutex = NoConn       \* pthread_mutex_lock returns

Goto(k, l) == pc' = [pc EXCEPT ![k] = l]

\* mail maps some sockets to the message send_to_client writes on each.  A
\* send on fd -1 fails and is ignored, so NoConn never receives anything;
\* for one on a socket whose peer is gone see BrokenPipe.
Post(mail) ==
    sent' = [k \in Conn |-> IF k \in DOMAIN mail
                            THEN Deliver(sent[k], mail[k]) ELSE sent[k]]

Seated(s) == lobby.players[s].connected
Occupant(s) == lobby.players[s].player_id
\* Slots whose player send_to_client is called for.
Reachable == {s \in Slot : Seated(s) /\ clients[Occupant(s)].connected}
SocketOf(s) == clients[Occupant(s)].fd
Sockets(S) == {SocketOf(s) : s \in S}

\* The sockets of the clients broadcast_lobby_update writes to.
MemberSockets ==
    {clients[c].fd : c \in {d \in Client : clients[d].connected /\ clients[d].in_lobby}}

\* Those a report of thread k is forwarded to.
OtherSockets(k) == Sockets({s \in Reachable : Occupant(s) # client_idx[k]})

\* The slots, lowest first, that add_player_to_lobby would take.
IsFirstFree(s) == ~Seated(s) /\ \A t \in Slot : t < s => Seated(t)

AllReady_ButLast(room) ==               \* mutant: the loop stops one short
    \A s \in Slot \ {LOBBY_SIZE - 1} :
        room.players[s].connected => room.players[s].ready

AllReady(room) ==
    \A s \in Slot : room.players[s].connected => room.players[s].ready

\* The only connected slot left, for connected_count == 1.
Alone(s) == Seated(s) /\ \A t \in Slot \ {s} : ~Seated(t)

\* all_finished: no seated player's client is still playing.
AllFinished_One ==                      \* mutant: one player over is enough
    \E s \in Slot : Seated(s) /\ clients[Occupant(s)].game_over

AllFinished == \A s \in Slot : Seated(s) => clients[Occupant(s)].game_over

Decided_Finished == AllFinished         \* mutants: no lone player, only a lone
Decided_Alone == \E s \in Slot : Alone(s)   \* player

Decided == AllFinished \/ \E s \in Slot : Alone(s)

\* The score the result carries for slot s.  When one player is left the
\* code indexes clients[] by the slot, not by the client seated there.
ResultScore(s) ==
    IF ~Seated(s) THEN 0
    ELSE IF Alone(s) THEN clients[s].score
    ELSE clients[Occupant(s)].score

Winner ==
    IF \E s \in Slot : Alone(s) THEN CHOOSE s \in Slot : Alone(s)
    ELSE IF ResultScore(0) > ResultScore(1) THEN 0
    ELSE IF ResultScore(1) > ResultScore(0) THEN 1
    ELSE -1

\* mutant: the winner's number as printed, from 1
Outcome_FromOne == [winner_id |-> Winner + 1, player_scores |-> [s \in Slot |-> ResultScore(s)]]

Outcome == [winner_id |-> Winner, player_scores |-> [s \in Slot |-> ResultScore(s)]]

\* mutant: in_lobby is not cleared
LeftLobby_StaysIn(c) ==
    [clients EXCEPT ![c] = [@ EXCEPT !.player_id = -1, !.ready = FALSE,
                                     !.score = 0, !.game_over = FALSE]]

\* clients[c] after remove_player_from_lobby.
LeftLobby(c) ==
    [clients EXCEPT ![c] = [@ EXCEPT !.in_lobby = FALSE, !.player_id = -1,
                                     !.ready = FALSE, !.score = 0,
                                     !.game_over = FALSE]]

AfterRemoval(k) == IF msg[k].type = "EOF" THEN "close" ELSE "recv"

-----------------------------------------------------------------------------
(***************************************************************************)
(* main(): the accept loop.  Nothing else sets connected, and only the     *)
(* thread of a client clears it, so finding the slot and filling it in is  *)
(* one action.                                                             *)
(***************************************************************************)
FreeClient(i) == ~clients[i].connected /\ \A j \in Client : j < i => clients[j].connected

NewClient(k, up) ==
    [fd |-> k, player_id |-> -1, connected |-> up, in_lobby |-> FALSE,
     ready |-> FALSE, score |-> 0, game_over |-> FALSE]

\* A free client entry: WELCOME is sent and the thread created.
Accept(k) ==
    /\ pc[k] = "new"
    /\ \E i \in Client :
        /\ FreeClient(i)
        /\ clients' = [clients EXCEPT ![i] = NewClient(k, TRUE)]
        /\ client_idx' = [client_idx EXCEPT ![k] = i]
    /\ Goto(k, "start")
    /\ UNCHANGED <<lobby, lobby_mutex, client_fd, msg, ret, result, sent>>

\* pthread_create fails: the socket is closed, but fd keeps its number.
AcceptNoThread(k) ==
    /\ pc[k] = "new"
    /\ \E i \in Client :
        /\ FreeClient(i)
        /\ clients' = [clients EXCEPT ![i] = NewClient(k, FALSE)]
    /\ Goto(k, "refused")
    /\ UNCHANGED <<lobby, lobby_mutex, client_idx, client_fd, msg, ret, result, sent>>

\* Every entry is taken: SERVER_FULL is sent and the socket closed.
Refuse(k) ==
    /\ pc[k] = "new"
    /\ \A i \in Client : clients[i].connected
    /\ Goto(k, "refused")
    /\ UNCHANGED <<clients, lobby, lobby_mutex, client_idx, client_fd, msg,
                   ret, result, sent>>

-----------------------------------------------------------------------------
(***************************************************************************)
(* handle_client: the receive loop.                                        *)
(***************************************************************************)
Start(k) ==
    /\ pc[k] = "start"
    /\ client_fd' = [client_fd EXCEPT ![k] = clients[client_idx[k]].fd]
    /\ Goto(k, "recv")
    /\ UNCHANGED <<clients, lobby, lobby_mutex, client_idx, msg, ret, result, sent>>

Handler == [LOBBY_JOIN |-> "join", LOBBY_LEAVE |-> "leave",
            READY_STATUS |-> "ready", PLAYER_STATUS |-> "status"]

Receive(k, m) ==
    /\ pc[k] = "recv"
    /\ client_fd[k] # NoConn
    /\ clients[client_idx[k]].connected
    /\ msg' = [msg EXCEPT ![k] = m]
    /\ Goto(k, Handler[m.type])
    /\ UNCHANGED <<clients, lobby, lobby_mutex, client_idx, client_fd, ret,
                   result, sent>>

\* mutants: the player is not removed; the loop goes on after recv() <= 0
Disconnect_NoLeave(k) ==
    /\ pc[k] = "recv"
    /\ msg' = [msg EXCEPT ![k] = Eof]
    /\ Goto(k, "close")
    /\ UNCHANGED <<clients, lobby, lobby_mutex, client_idx, client_fd, ret,
                   result, sent>>

Disconnect_Continue(k) ==
    /\ pc[k] = "recv"
    /\ msg' = [msg EXCEPT ![k] = Eof]
    /\ UNCHANGED <<clients, lobby, lobby_mutex, pc, client_idx, client_fd, ret,
                   result, sent>>

\* recv() <= 0, or the loop condition fails.
Disconnect(k) ==
    /\ pc[k] = "recv"
    /\ msg' = [msg EXCEPT ![k] = Eof]
    /\ Goto(k, IF clients[client_idx[k]].in_lobby THEN "leave" ELSE "close")
    /\ UNCHANGED <<clients, lobby, lobby_mutex, client_idx, client_fd, ret,
                   result, sent>>

\* The end of the thread: connected = 0, then fd = -1 and close().  The
\* accept loop may hand the entry to a new socket between the two.
Close(k) ==
    /\ pc[k] = "close"
    /\ clients' = [clients EXCEPT ![client_idx[k]].connected = FALSE]
    /\ Goto(k, "close2")
    /\ UNCHANGED <<lobby, lobby_mutex, client_idx, client_fd, msg, ret, result, sent>>

ForgetFd(k) ==
    /\ pc[k] = "close2"
    /\ clients' = [clients EXCEPT ![client_idx[k]].fd = NoConn]
    /\ Goto(k, "done")
    /\ UNCHANGED <<lobby, lobby_mutex, client_idx, client_fd, msg, ret, result, sent>>

-----------------------------------------------------------------------------
(***************************************************************************)
(* The lobby.                                                              *)
(***************************************************************************)
\* broadcast_lobby_update: the lobby goes to every client in the lobby.
Broadcast(k) ==
    /\ pc[k] = "broadcast"
    /\ Locked(k)
    /\ Post([f \in MemberSockets |-> UpdateMsg(lobby)])
    /\ Goto(k, ret[k])
    /\ UNCHANGED <<clients, lobby, lobby_mutex, client_idx, client_fd, msg,
                   ret, result>>

\* add_player_to_lobby; a client already in the lobby, and one that finds
\* it full, is not answered.
Join(k) ==
    LET c == client_idx[k]
    IN  /\ pc[k] = "join"
        /\ Locked(k)
        /\ IF clients[c].in_lobby \/ lobby.player_count >= LOBBY_SIZE
           THEN /\ Goto(k, "recv")
                /\ UNCHANGED <<clients, lobby, ret>>
           ELSE /\ \E s \in Slot :
                    /\ IsFirstFree(s)
                    /\ lobby' = [lobby EXCEPT
                                   !.players[s] = [player_id |-> c, ready |-> FALSE,
                                                   connected |-> TRUE],
                                   !.player_count = @ + 1]
                    /\ clients' = [clients EXCEPT ![c].player_id = s,
                                                  ![c].in_lobby = TRUE]
                /\ ret' = [ret EXCEPT ![k] = "recv"]
                /\ Goto(k, "broadcast")
        /\ UNCHANGED <<lobby_mutex, client_idx, client_fd, msg, result, sent>>

Vacated_StaysSeated(s) ==               \* mutant: connected is not cleared
    [lobby EXCEPT !.players[s] = [@ EXCEPT !.ready = FALSE], !.player_count = @ - 1]

\* The lobby without the player of slot s.
Vacated(s) ==
    [lobby EXCEPT !.players[s] = [@ EXCEPT !.connected = FALSE, !.ready = FALSE],
                  !.player_count = @ - 1]

\* remove_player_from_lobby up to its end, or up to its call of
\* handle_game_end with the mutex released.
Leave(k) ==
    LET c == client_idx[k]
    IN  /\ pc[k] = "leave"
        /\ Locked(k)
        /\ IF ~clients[c].in_lobby
           THEN /\ Goto(k, AfterRemoval(k))
                /\ UNCHANGED <<clients, lobby, ret>>
           ELSE /\ lobby' = IF clients[c].player_id \in Slot
                            THEN Vacated(clients[c].player_id) ELSE lobby
                /\ IF clients[c].player_id \in Slot /\ lobby.game_started
                   THEN /\ Goto(k, "game_end")
                        /\ ret' = [ret EXCEPT ![k] = "leave2"]
                        /\ UNCHANGED clients
                   ELSE /\ Goto(k, "broadcast")
                        /\ ret' = [ret EXCEPT ![k] = AfterRemoval(k)]
                        /\ clients' = LeftLobby(c)
        /\ UNCHANGED <<lobby_mutex, client_idx, client_fd, msg, result, sent>>

\* mutant: the broadcast of handle_game_end is relied on
LeaveAfterGame_Silent(k) ==
    /\ pc[k] = "leave2"
    /\ Locked(k)
    /\ lobby' = [lobby EXCEPT !.game_started = FALSE]
    /\ clients' = LeftLobby(client_idx[k])
    /\ Goto(k, AfterRemoval(k))
    /\ UNCHANGED <<lobby_mutex, client_idx, client_fd, msg, ret, result, sent>>

\* The rest of remove_player_from_lobby after that call.
LeaveAfterGame(k) ==
    /\ pc[k] = "leave2"
    /\ Locked(k)
    /\ lobby' = [lobby EXCEPT !.game_started = FALSE]
    /\ clients' = LeftLobby(client_idx[k])
    /\ ret' = [ret EXCEPT ![k] = AfterRemoval(k)]
    /\ Goto(k, "broadcast")
    /\ UNCHANGED <<lobby_mutex, client_idx, client_fd, msg, result, sent>>

\* update_ready_status: the start condition is tested with the mutex held,
\* but the game is started after the mutex has been released.
SetReady(k) ==
    LET c    == client_idx[k]
        s    == clients[c].player_id
        room == [lobby EXCEPT !.players[s].ready = msg[k].ready]
    IN  /\ pc[k] = "ready"
        /\ Locked(k)
        /\ IF ~clients[c].in_lobby
           THEN Goto(k, "recv") /\ UNCHANGED <<clients, lobby, ret>>
           ELSE /\ IF s \in Slot
                   THEN /\ lobby' = room
                        /\ clients' = [clients EXCEPT ![c].ready = msg[k].ready]
                   ELSE UNCHANGED <<clients, lobby>>
                /\ IF /\ s \in Slot
                      /\ AllReady(room)
                      /\ lobby.player_count = LOBBY_SIZE
                      /\ ~lobby.game_started
                   THEN Goto(k, "start_game") /\ UNCHANGED ret
                   ELSE /\ Goto(k, "broadcast")
                        /\ ret' = [ret EXCEPT ![k] = "recv"]
        /\ UNCHANGED <<lobby_mutex, client_idx, client_fd, msg, result, sent>>

\* broadcast_game_start, called without the mutex.
StartGame(k) ==
    /\ pc[k] = "start_game"
    /\ Locked(k)
    /\ lobby' = [lobby EXCEPT !.game_started = TRUE]
    /\ \E sd \in Seed :
        Post([f \in Sockets(Reachable) |->
                StartMsg(CHOOSE s \in Reachable : SocketOf(s) = f, sd)])
    /\ Goto(k, "recv")
    /\ UNCHANGED <<clients, lobby_mutex, client_idx, client_fd, msg, ret, result>>

-----------------------------------------------------------------------------
(***************************************************************************)
(* The game.  update_game_status stores score and game_over without the    *)
(* mutex; no synchronisation orders the two stores for another thread, so  *)
(* either may become visible first.                                        *)
(***************************************************************************)
StoreScore(k) ==
    /\ pc[k] \in {"status", "over_stored"}
    /\ clients' = [clients EXCEPT ![client_idx[k]].score = msg[k].score]
    /\ Goto(k, IF pc[k] = "status" THEN "score_stored" ELSE "forward")
    /\ UNCHANGED <<lobby, lobby_mutex, client_idx, client_fd, msg, ret, result, sent>>

StoreGameOver(k) ==
    /\ pc[k] \in {"status", "score_stored"}
    /\ clients' = [clients EXCEPT ![client_idx[k]].game_over = msg[k].game_over]
    /\ Goto(k, IF pc[k] = "status" THEN "over_stored" ELSE "forward")
    /\ UNCHANGED <<lobby, lobby_mutex, client_idx, client_fd, msg, ret, result, sent>>

\* The locked part of update_game_status.
Forward(k) ==
    /\ pc[k] = "forward"
    /\ Locked(k)
    /\ IF lobby.game_started
       THEN Post([f \in OtherSockets(k) |-> StatusMsg(msg[k])])
       ELSE UNCHANGED sent
    /\ IF msg[k].game_over
       THEN Goto(k, "game_end") /\ ret' = [ret EXCEPT ![k] = "recv"]
       ELSE Goto(k, "recv") /\ UNCHANGED ret
    /\ UNCHANGED <<clients, lobby, lobby_mutex, client_idx, client_fd, msg, result>>

\* mutants: the mutex is given up after the decision; it is kept by the
\* early return
GameEnd_Unlocked(k) ==
    /\ pc[k] = "game_end"
    /\ Locked(k)
    /\ IF lobby.game_started /\ Decided
       THEN /\ result' = [result EXCEPT ![k] = Outcome]
            /\ Goto(k, "game_end_commit")
       ELSE /\ Goto(k, IF lobby.game_started THEN "broadcast" ELSE ret[k])
            /\ UNCHANGED result
    /\ UNCHANGED <<clients, lobby, lobby_mutex, client_idx, client_fd, msg, ret, sent>>

GameEnd_KeepsLock(k) ==
    /\ pc[k] = "game_end"
    /\ Locked(k)
    /\ IF lobby.game_started /\ Decided
       THEN /\ result' = [result EXCEPT ![k] = Outcome]
            /\ Goto(k, "game_end_commit")
       ELSE /\ Goto(k, IF lobby.game_started THEN "broadcast" ELSE ret[k])
            /\ UNCHANGED result
    /\ lobby_mutex' = IF lobby.game_started /\ ~Decided THEN NoConn ELSE k
    /\ UNCHANGED <<clients, lobby, client_idx, client_fd, msg, ret, sent>>

\* handle_game_end up to the decision.
GameEnd(k) ==
    /\ pc[k] = "game_end"
    /\ Locked(k)
    /\ IF lobby.game_started /\ Decided
       THEN /\ lobby_mutex' = k
            /\ result' = [result EXCEPT ![k] = Outcome]
            /\ Goto(k, "game_end_commit")
       ELSE /\ Goto(k, IF lobby.game_started THEN "broadcast" ELSE ret[k])
            /\ UNCHANGED <<lobby_mutex, result>>
    /\ UNCHANGED <<clients, lobby, client_idx, client_fd, msg, ret, sent>>

\* handle_game_end from sending the result to its unlock.
GameEndCommit(k) ==
    /\ pc[k] = "game_end_commit"
    /\ Post([f \in Sockets(Reachable) |-> EndMsg(result[k])])
    /\ lobby' = [lobby EXCEPT
                   !.game_started = FALSE,
                   !.players = [s \in Slot |-> IF Seated(s)
                                  THEN [@[s] EXCEPT !.ready = FALSE] ELSE @[s]]]
    /\ clients' = [c \in Client |->
                     IF \E s \in Slot : Seated(s) /\ Occupant(s) = c
                     THEN [clients[c] EXCEPT !.ready = FALSE, !.score = 0,
                                             !.game_over = FALSE]
                     ELSE clients[c]]
    /\ lobby_mutex' = NoConn
    /\ result' = [result EXCEPT ![k] = NoResult]
    /\ Goto(k, "broadcast")
    /\ UNCHANGED <<client_idx, client_fd, msg, ret>>

-----------------------------------------------------------------------------
\* What a thread does on its own, once it has a request or has lost its peer.
Serve(k) ==
    \/ Start(k) \/ Join(k) \/ Leave(k) \/ LeaveAfterGame(k) \/ SetReady(k)
    \/ StartGame(k) \/ StoreScore(k) \/ StoreGameOver(k) \/ Forward(k)
    \/ GameEnd(k) \/ GameEndCommit(k) \/ Broadcast(k) \/ Close(k) \/ ForgetFd(k)

AcceptLoop(k) == Accept(k) \/ AcceptNoThread(k) \/ Refuse(k)

Work ==
    \/ \E k \in Conn : AcceptLoop(k) \/ Serve(k) \/ Disconnect(k)
    \/ \E k \in Conn, m \in Request : Receive(k, m)

StaysAlive == alive /\ UNCHANGED alive

\* The sockets thread k writes to in the section it is about to run.
Recipients(k) ==
    CASE pc[k] = "broadcast" -> MemberSockets
      [] pc[k] \in {"start_game", "game_end_commit"} -> Sockets(Reachable)
      [] pc[k] = "forward" /\ lobby.game_started -> OtherSockets(k)
      [] OTHER -> {}

\* send() without MSG_NOSIGNAL in a process that installs no handler: a
\* write on socket f, whose peer has reset the connection, raises SIGPIPE
\* and ends the whole server.  It may, and need not: the first write after
\* the peer is gone may be lost in silence, or fail with an error that is
\* ignored.  What the section has done by then is gone with the process.
BrokenPipe(k, f) ==
    /\ alive
    /\ pc[k] = "game_end_commit" \/ Locked(k)
    /\ f \in Recipients(k)
    /\ alive' = FALSE
    /\ UNCHANGED vars

\* The server has been ended, or the model runs out of sockets; the server
\* itself waits in accept() then.
Stopped ==
    /\ ~alive \/ \A k \in Conn : pc[k] \in {"refused", "done"}
    /\ UNCHANGED serverVars

Next ==
    \/ StaysAlive /\ Work
    \/ \E k, f \in Conn : BrokenPipe(k, f)
    \/ Stopped

Spec == Init /\ [][Next]_serverVars

-----------------------------------------------------------------------------
(***************************************************************************)
(* Properties of the server on its own, whatever its clients send.         *)
(***************************************************************************)
\* Threads between the thread start and connected = 0.
Serving(k) == pc[k] \notin {"new", "refused", "close2", "done"}

\* k has vacated its slot but its client still says in_lobby: the gap in
\* remove_player_from_lobby around the call of handle_game_end.
Removing(k) ==
    \/ pc[k] = "leave2"
    \/ pc[k] \in {"game_end", "game_end_commit", "broadcast"} /\ ret[k] = "leave2"

\* The occupied slots and the clients that say they are in the lobby are two
\* records of one fact, kept by two arrays under a mutex that is released in
\* the middle of a removal (server.c:226-228).  A slot in use belongs to a
\* connected client that names it back; a client in the lobby has its slot,
\* or its own thread is in that gap; player_count counts the slots in use.
LobbyConsistent ==
    /\ \A s \in Slot : Seated(s) =>
         /\ clients[Occupant(s)].connected
         /\ clients[Occupant(s)].in_lobby
         /\ clients[Occupant(s)].player_id = s
    /\ \A c \in Client : clients[c].in_lobby =>
         \/ \E s \in Slot : Seated(s) /\ Occupant(s) = c
         \/ \E k \in Conn : Removing(k) /\ client_idx[k] = c
    /\ lobby.player_count =
         (IF Seated(0) THEN 1 ELSE 0) + (IF Seated(1) THEN 1 ELSE 0)

\* add_player_to_lobby answers nobody it turns away (server.c:174-177, 435):
\* such a client would wait in the lobby for ever.  A client that is not in
\* the lobby and asks to join finds a slot, even while the other client is
\* being removed, disconnected or replaced.
JoinFindsSlot ==
    \A k \in Conn :
        pc[k] = "join" /\ ~clients[client_idx[k]].in_lobby =>
            lobby.player_count < LOBBY_SIZE /\ \E s \in Slot : ~Seated(s)

\* remove_player_from_lobby relies on handle_game_end to end the game for
\* the player who stays (server.c:227).  Once the leaver's slot is vacated,
\* handle_game_end cannot find the game undecided, whatever the other thread
\* did while the mutex was free.
LeavingDecidesGame ==
    \A k \in Conn :
        /\ pc[k] = "game_end" /\ ret[k] = "leave2"
        /\ lobby.game_started
        => Decided

\* The decision of handle_game_end and its effects are one section under
\* lobby_mutex (server.c:318-410): when a result is sent, its game is still
\* running, no other thread is about to end it too, and the winner still
\* has a seat.
ResultOfThisGame ==
    \A k \in Conn : pc[k] = "game_end_commit" =>
        /\ lobby.game_started
        /\ \A l \in Conn \ {k} : pc[l] # "game_end_commit"
        /\ result[k].winner_id # -1 => Seated(result[k].winner_id)

-----------------------------------------------------------------------------
(***************************************************************************)
(* The server implements the abstract match service.  A person is an entry *)
(* of clients[]; the threads, the mutex and the messages are hidden.       *)
(***************************************************************************)
SeatMap == [s \in Slot |-> IF Seated(s) THEN Occupant(s) ELSE -1]
ReadyMap == [s \in Slot |-> Seated(s) /\ lobby.players[s].ready]
OverMap == [c \in Client |-> clients[c].game_over]
StartingMap == {client_idx[k] : k \in {l \in Conn : pc[l] = "start_game"}}
SettledMap == \E k \in Conn : pc[k] = "game_end_commit"

M == INSTANCE Match WITH
    Person <- Client, Place <- Slot, Nobody <- -1,
    seat <- SeatMap, ready <- ReadyMap, over <- OverMap,
    starting <- StartingMap, playing <- lobby.game_started, settled <- SettledMap

\* Whatever its clients send and however its threads interleave, what the
\* server does to seats, ready flags, game-over reports and the game
\* (server.c:146-411) is what the abstract service allows: seats are given
\* from the lowest and never shared, a match is begun only by a thread whose
\* "ready" once completed a full ready table, and it is ended only when it is
\* settled, with one player left or all over, and no seat changed since.
ImplementsMatch == M!Spec
=============================================================================
