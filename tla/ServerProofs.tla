---------------------------- MODULE ServerProofs ----------------------------
(***************************************************************************)
(* Theorems about Server.tla, for any set of sockets, scores and seeds and *)
(* whatever the clients send.                                              *)
(***************************************************************************)
EXTENDS Server, TLAPS

-----------------------------------------------------------------------------
(***************************************************************************)
(* The inductive invariant.                                                *)
(***************************************************************************)
\* A thread that serves has a table entry of its own.
OwnEntry ==
    /\ \A k \in Conn : Serving(k) => clients[client_idx[k]].connected
    /\ \A k, l \in Conn : Serving(k) /\ Serving(l) /\ k # l =>
                            client_idx[k] # client_idx[l]

\* A seat names a connected client that names it back.
SeatsNamed ==
    \A s \in Slot : Seated(s) =>
        /\ clients[Occupant(s)].connected
        /\ clients[Occupant(s)].in_lobby
        /\ clients[Occupant(s)].player_id = s

\* A client in the lobby has a seat, or its thread is giving it up.
MembersSeated ==
    \A c \in Client : clients[c].in_lobby =>
        /\ clients[c].player_id \in Slot
        /\ \/ Seated(clients[c].player_id) /\ Occupant(clients[c].player_id) = c
           \/ \E k \in Conn : Removing(k) /\ client_idx[k] = c

\* A thread that is giving up its seat holds none.
RemovedUnseated ==
    \A k \in Conn : Removing(k) =>
        /\ clients[client_idx[k]].in_lobby
        /\ \A s \in Slot : Seated(s) => Occupant(s) # client_idx[k]

\* A thread on its way to connected = 0 has left the lobby.
ClosingOutside ==
    \A k \in Conn :
        /\ pc[k] \in {"game_end", "game_end_commit"} => ret[k] # "close"
        /\ \/ pc[k] = "close"
           \/ pc[k] = "broadcast" /\ ret[k] = "close"
           => ~clients[client_idx[k]].in_lobby

\* player_count counts the seats in use.
CountExact ==
    lobby.player_count =
        (IF Seated(0) THEN 1 ELSE 0) + (IF Seated(1) THEN 1 ELSE 0)

\* The mutex outlives a step only between decision and commit.
MutexHeld == \A k \in Conn : (lobby_mutex = k) <=> (pc[k] = "game_end_commit")

\* What handle_game_end decided still holds when it commits.
DecisionStands ==
    \A k \in Conn : pc[k] = "game_end_commit" =>
        /\ lobby.game_started
        /\ result[k].winner_id # -1 => Seated(result[k].winner_id)

SeatInv == /\ TypeOK /\ OwnEntry /\ SeatsNamed /\ MembersSeated
           /\ RemovedUnseated /\ ClosingOutside /\ CountExact

MutexInv == TypeOK /\ MutexHeld /\ DecisionStands

-----------------------------------------------------------------------------
(***************************************************************************)
(* Types.                                                                  *)
(***************************************************************************)
\* There are two table entries and two slots.
LEMMA Bounds == Client = {0, 1} /\ Slot = {0, 1}
BY DEF Client, Slot, MAX_CLIENTS, LOBBY_SIZE

\* The updates of a table entry and of the lobby keep their types.
LEMMA ConnectedType ==
    ASSUME NEW r \in ServerClient
    PROVE  [r EXCEPT !.connected = FALSE] \in ServerClient
BY DEF ServerClient

\* ready of an entry (update_ready_status, handle_game_end).
LEMMA ReadyType ==
    ASSUME NEW r \in ServerClient, NEW b \in BOOLEAN
    PROVE  [r EXCEPT !.ready = b] \in ServerClient
BY DEF ServerClient

\* game_over of an entry (update_game_status).
LEMMA GameOverType ==
    ASSUME NEW r \in ServerClient, NEW b \in BOOLEAN
    PROVE  [r EXCEPT !.game_over = b] \in ServerClient
BY DEF ServerClient

\* The entry of a player whose game has ended.
LEMMA RestartedType ==
    ASSUME NEW r \in ServerClient
    PROVE  [r EXCEPT !.ready = FALSE, !.score = 0, !.game_over = FALSE]
             \in ServerClient
BY ScoreAssumption DEF ServerClient

\* The entry of a client outside the lobby, and of a new connection.
LEMMA OutsideType ==
    ASSUME NEW r \in ServerClient
    PROVE  [r EXCEPT !.in_lobby = FALSE, !.player_id = -1, !.ready = FALSE,
                     !.score = 0, !.game_over = FALSE] \in ServerClient
<1>1. [r EXCEPT !.in_lobby = FALSE] \in ServerClient
  BY DEF ServerClient
<1>2. \A q \in ServerClient : [q EXCEPT !.player_id = -1] \in ServerClient
  BY DEF ServerClient, LOBBY_SIZE
<1>3. [r EXCEPT !.in_lobby = FALSE, !.player_id = -1] \in ServerClient
  BY <1>1, <1>2
<1>4. QED
  BY <1>3, RestartedType

\* A slot of the lobby is overwritten, or one of its fields.
LEMMA PlayersType ==
    ASSUME NEW room \in LobbyRoom, NEW s \in Slot, NEW p \in LobbyPlayer, NEW n \in Int
    PROVE  /\ [room EXCEPT !.players[s] = p, !.player_count = n] \in LobbyRoom
           /\ [room EXCEPT !.players[s] = p] \in LobbyRoom
BY DEF LobbyRoom

\* A slot is vacated (remove_player_from_lobby).
LEMMA VacatedType ==
    ASSUME NEW p \in LobbyPlayer
    PROVE  [p EXCEPT !.connected = FALSE, !.ready = FALSE] \in LobbyPlayer
BY DEF LobbyPlayer

\* A player's ready is set or reset.
LEMMA PlayerReadyType ==
    ASSUME NEW p \in LobbyPlayer, NEW b \in BOOLEAN
    PROVE  [p EXCEPT !.ready = b] \in LobbyPlayer
BY DEF LobbyPlayer

\* game_started is set or reset.
LEMMA StartedType ==
    ASSUME NEW room \in LobbyRoom, NEW b \in BOOLEAN
    PROVE  [room EXCEPT !.game_started = b] \in LobbyRoom
BY DEF LobbyRoom

\* What a lobby is made of.
LEMMA RoomFields ==
    ASSUME NEW room \in LobbyRoom, NEW s \in Slot
    PROVE  room.players[s] \in LobbyPlayer /\ room.player_count \in Int
BY DEF LobbyRoom

\* What a request is made of.
LEMMA RequestFields ==
    ASSUME NEW m \in Request \cup {Eof}
    PROVE  m.ready \in BOOLEAN /\ m.game_over \in BOOLEAN /\ m.score \in Score
<1>1. CASE m \in Request
  BY <1>1 DEF Request
<1>2. CASE m = Eof
  BY <1>2, ScoreAssumption DEF Eof, Ask
<1>3. QED
  BY <1>1, <1>2

\* A handler's result is well typed.
LEMMA OutcomeType ==
    ASSUME TypeOK
    PROVE  Outcome \in GameResult
<1>1. \A s \in Slot : ResultScore(s) \in Score
  BY Bounds, ScoreAssumption
  DEF ResultScore, TypeOK, ServerClient, LobbyRoom, LobbyPlayer, Occupant
<1>2. Winner \in -1 .. 1
  <2>1. CASE \E s \in Slot : Alone(s)
    <3>1. (CHOOSE s \in Slot : Alone(s)) \in Slot
      BY <2>1
    <3>2. QED
      BY <2>1, <3>1, Bounds DEF Winner
  <2>2. CASE ~ \E s \in Slot : Alone(s)
    BY <2>2 DEF Winner
  <2>3. QED
    BY <2>1, <2>2
<1>3. QED
  BY <1>1, <1>2 DEF Outcome, GameResult, LOBBY_SIZE

\* Sending adds no sockets.
LEMMA PostType ==
    ASSUME NEW mail, Post(mail)
    PROVE  DOMAIN sent' = Conn
BY DEF Post

\* The server starts with well-typed variables.
LEMMA InitType == Init => TypeOK
BY Bounds, ScoreAssumption
DEF Init, TypeOK, EmptyLobby, ServerClient, LobbyRoom, LobbyPlayer, Request, Eof,
    Fd, PC, GameResult, NoResult, LOBBY_SIZE

\* A step is one of a thread or of the accept loop, or it leaves all but
\* alive as it is: the end of the process by a signal, or nothing.
LEMMA StepKinds ==
    [Next]_serverVars => Work \/ UNCHANGED vars
BY DEF Next, BrokenPipe, Stopped, serverVars

\* alive stays a truth value.
LEMMA AliveType == TypeOK /\ [Next]_serverVars => alive' \in BOOLEAN
BY DEF TypeOK, Next, StaysAlive, BrokenPipe, Stopped, serverVars

\* Every action keeps the types; one case per action.
LEMMA NextType == TypeOK /\ [Next]_serverVars => TypeOK'
<1> SUFFICES ASSUME TypeOK, [Next]_serverVars
             PROVE  TypeOK'
  OBVIOUS
<1>a. alive' \in BOOLEAN
  BY AliveType
<1> USE Bounds, ScoreAssumption, <1>a
<1>1. ASSUME NEW k \in Conn, AcceptLoop(k)
      PROVE  TypeOK'
  <2>1. ASSUME NEW r \in ServerClient, NEW i \in Client, clients' = [clients EXCEPT ![i] = r]
        PROVE  clients' \in [Client -> ServerClient]
    BY <2>1 DEF TypeOK
  <2>2. CASE Accept(k)
    <3>1. NewClient(k, TRUE) \in ServerClient
      BY DEF NewClient, ServerClient, Fd, LOBBY_SIZE
    <3>2. PICK i \in Client : /\ clients' = [clients EXCEPT ![i] = NewClient(k, TRUE)]
                              /\ client_idx' = [client_idx EXCEPT ![k] = i]
      BY <2>2 DEF Accept
    <3>3. clients' \in [Client -> ServerClient]
      BY <2>1, <3>1, <3>2
    <3>4. QED
      BY <2>2, <3>2, <3>3 DEF Accept, Goto, TypeOK, PC
  <2>3. CASE AcceptNoThread(k)
    <3>1. NewClient(k, FALSE) \in ServerClient
      BY DEF NewClient, ServerClient, Fd, LOBBY_SIZE
    <3>2. PICK i \in Client : clients' = [clients EXCEPT ![i] = NewClient(k, FALSE)]
      BY <2>3 DEF AcceptNoThread
    <3>3. clients' \in [Client -> ServerClient]
      BY <2>1, <3>1, <3>2
    <3>4. QED
      BY <2>3, <3>3 DEF AcceptNoThread, Goto, TypeOK, PC
  <2>4. CASE Refuse(k)
    BY <2>4 DEF Refuse, Goto, TypeOK, PC
  <2>5. QED
    BY <1>1, <2>2, <2>3, <2>4 DEF AcceptLoop
<1>2. ASSUME NEW k \in Conn, Disconnect(k)
      PROVE  TypeOK'
  BY <1>2 DEF Disconnect, Goto, TypeOK, PC
<1>3. ASSUME NEW k \in Conn, NEW m \in Request, Receive(k, m)
      PROVE  TypeOK'
  BY <1>3 DEF Receive, Goto, Handler, Request, TypeOK, PC
<1>4. ASSUME NEW k \in Conn, Serve(k)
      PROVE  TypeOK'
  <2>1. CASE Start(k)
    BY <2>1 DEF Start, Goto, TypeOK, PC, ServerClient
  <2>2. CASE Join(k)
    BY <2>2 DEF Join, Goto, TypeOK, PC, ServerClient, LobbyRoom, LobbyPlayer, LOBBY_SIZE
  <2>3. CASE Leave(k)
    <3>1. \A s \in Slot : Vacated(s) \in LobbyRoom
      <4> SUFFICES ASSUME NEW s \in Slot
                   PROVE  Vacated(s) \in LobbyRoom
        OBVIOUS
      <4>1. lobby.players[s] \in LobbyPlayer /\ lobby.player_count - 1 \in Int
        BY RoomFields DEF TypeOK
      <4>2. QED
        BY <4>1, VacatedType, PlayersType DEF Vacated, TypeOK
    <3>2. LeftLobby(client_idx[k]) \in [Client -> ServerClient]
      BY OutsideType DEF LeftLobby, TypeOK
    <3>3. QED
      BY <2>3, <3>1, <3>2 DEF Leave, AfterRemoval, Goto, TypeOK, PC
  <2>4. CASE LeaveAfterGame(k)
    <3>1. [lobby EXCEPT !.game_started = FALSE] \in LobbyRoom
      BY StartedType DEF TypeOK
    <3>2. LeftLobby(client_idx[k]) \in [Client -> ServerClient]
      BY OutsideType DEF LeftLobby, TypeOK
    <3>3. QED
      BY <2>4, <3>1, <3>2 DEF LeaveAfterGame, AfterRemoval, Goto, TypeOK, PC
  <2>5. CASE SetReady(k)
    <3>1. msg[k].ready \in BOOLEAN
      BY RequestFields DEF TypeOK
    <3>2. \A s \in Slot : [lobby EXCEPT !.players[s].ready = msg[k].ready] \in LobbyRoom
      BY <3>1, RoomFields, PlayerReadyType, PlayersType DEF TypeOK
    <3>3. [clients EXCEPT ![client_idx[k]].ready = msg[k].ready]
             \in [Client -> ServerClient]
      BY <3>1, ReadyType DEF TypeOK
    <3>4. QED
      BY <2>5, <3>2, <3>3 DEF SetReady, Goto, TypeOK, PC
  <2>6. CASE StartGame(k)
    BY <2>6, PostType DEF StartGame, Goto, TypeOK, PC, LobbyRoom
  <2>7. CASE StoreScore(k)
    <3>1. msg[k].score \in Score
      BY RequestFields DEF TypeOK
    <3>2. [clients EXCEPT ![client_idx[k]].score = msg[k].score]
             \in [Client -> ServerClient]
      BY <3>1 DEF TypeOK, ServerClient
    <3>3. QED
      BY <2>7, <3>2 DEF StoreScore, Goto, TypeOK, PC
  <2>8. CASE StoreGameOver(k)
    <3>1. msg[k].game_over \in BOOLEAN
      BY RequestFields DEF TypeOK
    <3>2. [clients EXCEPT ![client_idx[k]].game_over = msg[k].game_over]
             \in [Client -> ServerClient]
      BY <3>1, GameOverType DEF TypeOK
    <3>3. QED
      BY <2>8, <3>2 DEF StoreGameOver, Goto, TypeOK, PC
  <2>9. CASE Forward(k)
    BY <2>9, PostType DEF Forward, Goto, TypeOK, PC
  <2>10. CASE GameEnd(k)
    BY <2>10, OutcomeType DEF GameEnd, Goto, TypeOK, PC, Fd
  <2>11. CASE GameEndCommit(k)
    <3>1. clients' \in [Client -> ServerClient]
      BY <2>11, RestartedType DEF GameEndCommit, TypeOK
    <3>2. lobby' \in LobbyRoom
      BY <2>11, PlayerReadyType DEF GameEndCommit, TypeOK, LobbyRoom
    <3>3. NoResult \in GameResult
      BY DEF NoResult, GameResult, LOBBY_SIZE
    <3>4. QED
      BY <2>11, <3>1, <3>2, <3>3, PostType DEF GameEndCommit, Goto, TypeOK, PC, Fd
  <2>12. CASE Broadcast(k)
    BY <2>12, PostType DEF Broadcast, Goto, TypeOK, PC
  <2>13. CASE Close(k)
    <3>1. [clients EXCEPT ![client_idx[k]].connected = FALSE]
             \in [Client -> ServerClient]
      BY ConnectedType DEF TypeOK
    <3>2. QED
      BY <2>13, <3>1 DEF Close, Goto, TypeOK, PC
  <2>14. CASE ForgetFd(k)
    BY <2>14 DEF ForgetFd, Goto, TypeOK, PC, ServerClient, Fd
  <2>15. QED
    BY <1>4, <2>1, <2>2, <2>3, <2>4, <2>5, <2>6, <2>7, <2>8, <2>9, <2>10,
       <2>11, <2>12, <2>13, <2>14 DEF Serve
<1>5. CASE UNCHANGED vars
  BY <1>5 DEF vars, threadVars, TypeOK
<1>6. QED
  BY <1>1, <1>2, <1>3, <1>4, <1>5, StepKinds DEF Work

\* The variables keep their types, whatever the clients send.
THEOREM TypeCorrect == Spec => []TypeOK
BY InitType, NextType, PTL DEF Spec

-----------------------------------------------------------------------------
(***************************************************************************)
(* Seats.  Most actions change neither who is connected, in the lobby or   *)
(* seated, nor which threads are removing a player.                        *)
(***************************************************************************)
SameSeats ==
    /\ \A c \in Client : /\ clients'[c].connected = clients[c].connected
                         /\ clients'[c].in_lobby = clients[c].in_lobby
                         /\ clients'[c].player_id = clients[c].player_id
    /\ \A s \in Slot : /\ lobby'.players[s].connected = lobby.players[s].connected
                       /\ lobby'.players[s].player_id = lobby.players[s].player_id
    /\ lobby'.player_count = lobby.player_count

\* Only the thread of k has moved.
Moved(k) ==
    /\ client_idx' = client_idx
    /\ \A l \in Conn \ {k} : pc'[l] = pc[l] /\ ret'[l] = ret[l]

\* What ClosingOutside asks of k after the step.
ClosesOutside(k) ==
    /\ pc'[k] \in {"game_end", "game_end_commit"} => ret'[k] # "close"
    /\ pc'[k] = "close" \/ (pc'[k] = "broadcast" /\ ret'[k] = "close")
         => ~clients'[client_idx[k]].in_lobby

\* A step that neither moves a player nor touches a seat, and that brings
\* no thread nearer to leave or close than SeatInv allows, keeps SeatInv.
LEMMA SeatFrame ==
    ASSUME SeatInv, TypeOK', NEW k \in Conn, SameSeats, Moved(k), ClosesOutside(k),
           Serving(k)' => Serving(k), Removing(k)' <=> Removing(k)
    PROVE  SeatInv'
<1> USE DEF SeatInv, SameSeats, Moved
<1>1. \A l \in Conn : /\ client_idx[l] \in Client
                      /\ Serving(l)' => Serving(l)
                      /\ Removing(l)' <=> Removing(l)
  BY DEF Serving, Removing, TypeOK
<1>2. \A s \in Slot : /\ Seated(s)' <=> Seated(s)
                      /\ Occupant(s)' = Occupant(s)
                      /\ Occupant(s) \in Client
  BY DEF Seated, Occupant, TypeOK, LobbyRoom, LobbyPlayer
<1>3. OwnEntry'
  BY <1>1 DEF OwnEntry
<1>4. SeatsNamed'
  BY <1>2 DEF SeatsNamed
<1>5. MembersSeated'
  BY <1>1, <1>2, Bounds DEF MembersSeated, TypeOK, ServerClient, LOBBY_SIZE
<1>6. RemovedUnseated'
  BY <1>1, <1>2 DEF RemovedUnseated
<1>7. ClosingOutside'
  BY <1>1 DEF ClosingOutside, ClosesOutside
<1>8. CountExact'
  BY <1>2, Bounds DEF CountExact
<1>9. QED
  BY <1>3, <1>4, <1>5, <1>6, <1>7, <1>8

\* Nobody is seated at first.
LEMMA SeatInit == Init => SeatInv
BY InitType, Bounds
DEF Init, SeatInv, OwnEntry, SeatsNamed, MembersSeated, RemovedUnseated,
    ClosingOutside, CountExact, EmptyLobby, Serving, Removing, Seated, Occupant

-----------------------------------------------------------------------------
(***************************************************************************)
(* The actions that leave the seats alone.                                 *)
(***************************************************************************)
\* Requests are taken and broadcasts sent without touching a seat.
LEMMA SeatReceiving ==
    ASSUME SeatInv, TypeOK', NEW k \in Conn,
           \/ Refuse(k) \/ Start(k) \/ Disconnect(k) \/ ForgetFd(k)
           \/ \E m \in Request : Receive(k, m)
    PROVE  SeatInv'
<1> USE DEF SeatInv
<1>0. SameSeats
  <2>1. CASE ForgetFd(k)
    BY <2>1 DEF ForgetFd, SameSeats, TypeOK, ServerClient
  <2>2. CASE ~ForgetFd(k)
    BY <2>2 DEF Refuse, Start, Disconnect, Receive, SameSeats
  <2>3. QED
    BY <2>1, <2>2
<1>1. Moved(k)
  BY DEF Refuse, Start, Disconnect, ForgetFd, Receive, Goto, Moved, TypeOK
<1>2. ClosesOutside(k)
  BY DEF Refuse, Start, Disconnect, ForgetFd, Receive, Handler, Request, Goto,
         ClosesOutside, TypeOK
<1>3. /\ Serving(k)' => Serving(k)
      /\ Removing(k)' <=> Removing(k)
  BY DEF Refuse, Start, Disconnect, ForgetFd, Receive, Handler, Request, Goto,
         Serving, Removing, TypeOK
<1>4. QED
  BY <1>0, <1>1, <1>2, <1>3, SeatFrame

\* Scores, forwards and the decision of a game touch no seat.
LEMMA SeatPlaying ==
    ASSUME SeatInv, TypeOK', NEW k \in Conn,
           \/ StartGame(k) \/ StoreScore(k) \/ StoreGameOver(k) \/ Forward(k)
           \/ GameEnd(k) \/ Broadcast(k)
    PROVE  SeatInv'
<1> USE DEF SeatInv
<1>0. SameSeats
  <2>1. CASE StartGame(k)
    BY <2>1 DEF StartGame, SameSeats, TypeOK, LobbyRoom
  <2>2. CASE StoreScore(k)
    BY <2>2 DEF StoreScore, SameSeats, TypeOK, ServerClient
  <2>3. CASE StoreGameOver(k)
    BY <2>3 DEF StoreGameOver, SameSeats, TypeOK, ServerClient
  <2>4. CASE Forward(k) \/ GameEnd(k) \/ Broadcast(k)
    BY <2>4 DEF Forward, GameEnd, Broadcast, SameSeats
  <2>5. QED
    BY <2>1, <2>2, <2>3, <2>4
<1>1. Moved(k)
  BY DEF StartGame, StoreScore, StoreGameOver, Forward, GameEnd, Broadcast, Goto,
         Moved, TypeOK
<1>2. ClosesOutside(k)
  BY DEF StartGame, StoreScore, StoreGameOver, Forward, GameEnd, Broadcast, Goto,
         ClosesOutside, ClosingOutside, TypeOK
<1>3. /\ Serving(k)' => Serving(k)
      /\ Removing(k)' <=> Removing(k)
  BY DEF StartGame, StoreScore, StoreGameOver, Forward, GameEnd, Broadcast, Goto,
         Serving, Removing, ClosingOutside, TypeOK
<1>4. QED
  BY <1>0, <1>1, <1>2, <1>3, SeatFrame

\* A game's end resets ready, score and game_over of the seated players only.
LEMMA SeatCommit ==
    ASSUME SeatInv, TypeOK', NEW k \in Conn, GameEndCommit(k)
    PROVE  SeatInv'
<1> USE DEF SeatInv
<1>0. SameSeats
  <2>1. \A c \in Client : /\ clients'[c].connected = clients[c].connected
                           /\ clients'[c].in_lobby = clients[c].in_lobby
                           /\ clients'[c].player_id = clients[c].player_id
    <3> TAKE c \in Client
    <3>1. clients[c] \in ServerClient
      BY DEF TypeOK
    <3>2. \/ clients'[c] = clients[c]
          \/ clients'[c] = [clients[c] EXCEPT !.ready = FALSE, !.score = 0,
                                              !.game_over = FALSE]
      BY DEF GameEndCommit
    <3>3. QED
      BY <3>1, <3>2 DEF ServerClient
  <2>2. \A s \in Slot :
          /\ lobby'.players[s].connected = lobby.players[s].connected
          /\ lobby'.players[s].player_id = lobby.players[s].player_id
    <3> TAKE s \in Slot
    <3>1. lobby.players[s] \in LobbyPlayer
      BY DEF TypeOK, LobbyRoom
    <3>2. \/ lobby'.players[s] = lobby.players[s]
          \/ lobby'.players[s] = [lobby.players[s] EXCEPT !.ready = FALSE]
      BY DEF GameEndCommit, TypeOK, LobbyRoom
    <3>3. QED
      BY <3>1, <3>2 DEF LobbyPlayer
  <2>3. lobby'.player_count = lobby.player_count
    BY DEF GameEndCommit, TypeOK, LobbyRoom
  <2>4. QED
    BY <2>1, <2>2, <2>3 DEF SameSeats
<1>1. Moved(k)
  BY DEF GameEndCommit, Goto, Moved, TypeOK
<1>2. ClosesOutside(k)
  BY DEF GameEndCommit, Goto, ClosesOutside, ClosingOutside, TypeOK
<1>3. /\ Serving(k)' => Serving(k)
      /\ Removing(k)' <=> Removing(k)
  BY DEF GameEndCommit, Goto, Serving, Removing, TypeOK
<1>4. QED
  BY <1>0, <1>1, <1>2, <1>3, SeatFrame

\* A ready toggle and a start leave the players where they sit.
LEMMA SeatReady ==
    ASSUME SeatInv, TypeOK', NEW k \in Conn, SetReady(k)
    PROVE  SeatInv'
<1> USE DEF SeatInv
<1>0. SameSeats
  <2>1. \A c \in Client : /\ clients'[c].connected = clients[c].connected
                           /\ clients'[c].in_lobby = clients[c].in_lobby
                           /\ clients'[c].player_id = clients[c].player_id
    BY DEF SetReady, TypeOK, ServerClient
  <2>2. \A s \in Slot :
          /\ lobby'.players[s].connected = lobby.players[s].connected
          /\ lobby'.players[s].player_id = lobby.players[s].player_id
    BY DEF SetReady, TypeOK, LobbyRoom, LobbyPlayer
  <2>3. lobby'.player_count = lobby.player_count
    BY DEF SetReady, TypeOK, LobbyRoom
  <2>4. QED
    BY <2>1, <2>2, <2>3 DEF SameSeats
<1>1. Moved(k)
  BY DEF SetReady, Goto, Moved, TypeOK
<1>2. ClosesOutside(k)
  BY DEF SetReady, Goto, ClosesOutside, TypeOK
<1>3. /\ Serving(k)' => Serving(k)
      /\ Removing(k)' <=> Removing(k)
  BY DEF SetReady, Goto, Serving, Removing, TypeOK
<1>4. QED
  BY <1>0, <1>1, <1>2, <1>3, SeatFrame

-----------------------------------------------------------------------------
(***************************************************************************)
(* The actions that change the seats.                                      *)
(***************************************************************************)
\* Nobody seated or removing is thrown out by a new connection: the entry it
\* takes belongs to no serving thread.
LEMMA SeatAccept ==
    ASSUME SeatInv, TypeOK', NEW k \in Conn, Accept(k) \/ AcceptNoThread(k)
    PROVE  SeatInv'
<1> USE DEF SeatInv
<1>1. PICK i \in Client, up \in BOOLEAN :
        /\ ~clients[i].connected
        /\ clients' = [clients EXCEPT ![i] = NewClient(k, up)]
        /\ up => pc'[k] = "start" /\ client_idx' = [client_idx EXCEPT ![k] = i]
        /\ ~up => pc'[k] = "refused" /\ client_idx' = client_idx
  BY DEF Accept, AcceptNoThread, FreeClient, Goto, TypeOK
<1>2. /\ \A c \in Client \ {i} : clients'[c] = clients[c]
      /\ clients'[i].connected = up
      /\ ~clients'[i].in_lobby
  BY <1>1 DEF NewClient, TypeOK
<1>3. /\ pc[k] = "new" /\ lobby' = lobby /\ ret' = ret
      /\ \A l \in Conn \ {k} : pc'[l] = pc[l] /\ client_idx'[l] = client_idx[l]
  BY <1>1 DEF Accept, AcceptNoThread, Goto, TypeOK
<1>4. \A l \in Conn : /\ client_idx[l] \in Client
                      /\ l # k => (Serving(l)' <=> Serving(l))
                      /\ Removing(l)' <=> Removing(l)
                      /\ Removing(l) => l # k /\ Serving(l)
                      /\ Serving(l) => l # k /\ client_idx[l] # i
  BY <1>1, <1>3 DEF Serving, Removing, TypeOK, OwnEntry
<1>5. \A s \in Slot : /\ Seated(s)' <=> Seated(s)
                      /\ Occupant(s)' = Occupant(s)
                      /\ Occupant(s) \in Client
                      /\ Seated(s) => Occupant(s) # i
  BY <1>1, <1>3 DEF Seated, Occupant, TypeOK, LobbyRoom, LobbyPlayer, SeatsNamed
<1>6. OwnEntry'
  <2>1. \A l \in Conn \ {k} : Serving(l)' =>
          /\ client_idx'[l] = client_idx[l]
          /\ client_idx[l] # i
          /\ clients'[client_idx[l]].connected
    BY <1>2, <1>3, <1>4 DEF OwnEntry
  <2>2. Serving(k)' => up
    BY <1>1 DEF Serving
  <2>3. up => client_idx'[k] = i
    BY <1>1 DEF TypeOK
  <2>4. Serving(k)' => client_idx'[k] = i /\ clients'[i].connected
    BY <1>2, <2>2, <2>3
  <2>5. \A l, m \in Conn \ {k} : Serving(l)' /\ Serving(m)' /\ l # m =>
          client_idx[l] # client_idx[m]
    BY <1>4 DEF OwnEntry
  <2>6. QED
    BY <2>1, <2>4, <2>5 DEF OwnEntry
<1>7. SeatsNamed'
  BY <1>2, <1>5 DEF SeatsNamed
<1>8. MembersSeated'
  BY <1>2, <1>3, <1>4, <1>5 DEF MembersSeated
<1>9. RemovedUnseated'
  BY <1>2, <1>3, <1>4, <1>5 DEF RemovedUnseated
<1>10. ClosingOutside'
  BY <1>1, <1>2, <1>3, <1>4 DEF ClosingOutside, Serving
<1>11. CountExact'
  BY <1>3, <1>5, Bounds DEF CountExact
<1>12. QED
  BY <1>6, <1>7, <1>8, <1>9, <1>10, <1>11

\* A client that joins is connected and in nobody's way: it takes a free
\* seat, and no thread is removing it.
LEMMA SeatJoin ==
    ASSUME SeatInv, TypeOK', NEW k \in Conn, Join(k)
    PROVE  SeatInv'
<1> DEFINE c == client_idx[k]
<1> USE DEF SeatInv
<1>1. /\ c \in Client /\ pc[k] = "join" /\ Moved(k)
      /\ Serving(k) /\ Serving(k)' /\ ~Removing(k)
  BY DEF Join, Goto, Moved, Serving, Removing, TypeOK
<1>2. CASE clients[c].in_lobby \/ lobby.player_count >= LOBBY_SIZE
  <2>1. SameSeats /\ pc'[k] = "recv"
    BY <1>1, <1>2 DEF Join, SameSeats, Goto, TypeOK
  <2>2. ClosesOutside(k) /\ ~Removing(k)'
    BY <2>1 DEF ClosesOutside, Removing
  <2>3. QED
    BY <1>1, <2>1, <2>2, SeatFrame
<1>3. CASE ~clients[c].in_lobby /\ lobby.player_count < LOBBY_SIZE
  <2>1. ~(clients[c].in_lobby \/ lobby.player_count >= LOBBY_SIZE)
    BY <1>3 DEF TypeOK, LobbyRoom, LOBBY_SIZE
  <2>2. PICK s \in Slot :
          /\ IsFirstFree(s)
          /\ lobby' = [lobby EXCEPT
                         !.players[s] = [player_id |-> c, ready |-> FALSE,
                                         connected |-> TRUE],
                         !.player_count = @ + 1]
          /\ clients' = [clients EXCEPT ![c].player_id = s, ![c].in_lobby = TRUE]
    BY <2>1 DEF Join
  <2>3. pc'[k] = "broadcast" /\ ret'[k] = "recv" /\ ~Removing(k)'
    BY <2>1 DEF Join, Goto, Removing, TypeOK
  <2>4. /\ \A d \in Client \ {c} : clients'[d] = clients[d]
        /\ clients'[c].connected = clients[c].connected
        /\ clients'[c].in_lobby
        /\ clients'[c].player_id = s
    BY <1>1, <2>2 DEF TypeOK, ServerClient
  <2>5. /\ \A t \in Slot \ {s} : /\ Seated(t)' <=> Seated(t)
                                 /\ Occupant(t)' = Occupant(t)
        /\ ~Seated(s) /\ Seated(s)' /\ Occupant(s)' = c
        /\ lobby'.player_count = lobby.player_count + 1
    BY <2>2 DEF IsFirstFree, Seated, Occupant, TypeOK, LobbyRoom
  <2>6. \A l \in Conn : /\ client_idx'[l] = client_idx[l] /\ client_idx[l] \in Client
                        /\ Serving(l)' <=> Serving(l)
                        /\ Removing(l)' <=> Removing(l)
                        /\ Removing(l) => client_idx[l] # c
    BY <1>1, <1>3, <2>3 DEF Moved, Serving, Removing, RemovedUnseated, TypeOK
  <2>7. \A t \in Slot : Occupant(t) \in Client /\ (Seated(t) => Occupant(t) # c)
    BY <1>3 DEF SeatsNamed, Occupant, TypeOK, LobbyRoom, LobbyPlayer
  <2>8. OwnEntry'
    BY <2>4, <2>6 DEF OwnEntry
  <2>9. SeatsNamed'
    <3>1. clients[c].connected
      BY <1>1 DEF OwnEntry
    <3>2. /\ clients'[Occupant(s)'].connected
          /\ clients'[Occupant(s)'].in_lobby
          /\ clients'[Occupant(s)'].player_id = s
      BY <2>4, <2>5, <3>1
    <3>3. ASSUME NEW t \in Slot \ {s}, Seated(t)'
          PROVE  /\ clients'[Occupant(t)'].connected
                 /\ clients'[Occupant(t)'].in_lobby
                 /\ clients'[Occupant(t)'].player_id = t
      BY <2>4, <2>5, <2>7, <3>3 DEF SeatsNamed
    <3>4. QED
      BY <3>2, <3>3 DEF SeatsNamed
  <2>10. MembersSeated'
    BY <2>4, <2>5, <2>6 DEF MembersSeated
  <2>11. RemovedUnseated'
    BY <2>4, <2>5, <2>6 DEF RemovedUnseated
  <2>12. ClosingOutside'
    <3>1. ASSUME NEW l \in Conn, l # k, pc[l] = "close" \/ (pc[l] = "broadcast" /\ ret[l] = "close")
          PROVE  client_idx[l] # c
      BY <1>1, <3>1 DEF OwnEntry, Serving
    <3>2. QED
      BY <1>1, <2>3, <2>4, <2>6, <3>1 DEF ClosingOutside, Moved
  <2>13. CountExact'
    BY <2>5, Bounds DEF CountExact, TypeOK, LobbyRoom
  <2>14. QED
    BY <2>8, <2>9, <2>10, <2>11, <2>12, <2>13
<1>4. QED
  BY <1>2, <1>3 DEF TypeOK, LobbyRoom, LOBBY_SIZE

\* connected = 0 leaves no seat behind.
LEMMA SeatClose ==
    ASSUME SeatInv, TypeOK', NEW k \in Conn, Close(k)
    PROVE  SeatInv'
<1> DEFINE c == client_idx[k]
<1> USE DEF SeatInv
<1>1. /\ c \in Client /\ pc[k] = "close" /\ pc'[k] = "close2" /\ Moved(k)
      /\ Serving(k) /\ ~Serving(k)' /\ ~Removing(k) /\ ~Removing(k)'
      /\ lobby' = lobby /\ ret' = ret
  BY DEF Close, Goto, Moved, Serving, Removing, TypeOK
<1>2. ~clients[c].in_lobby
  BY <1>1 DEF ClosingOutside
<1>3. /\ \A d \in Client \ {c} : clients'[d] = clients[d]
      /\ clients'[c].in_lobby = clients[c].in_lobby
      /\ clients'[c].player_id = clients[c].player_id
  BY <1>1 DEF Close, TypeOK, ServerClient
<1>4. \A l \in Conn : /\ client_idx'[l] = client_idx[l] /\ client_idx[l] \in Client
                      /\ Serving(l)' <=> Serving(l) /\ l # k
                      /\ Serving(l) /\ l # k => client_idx[l] # c
                      /\ Removing(l)' <=> Removing(l)
  BY <1>1 DEF Moved, Serving, Removing, OwnEntry, TypeOK
<1>5. \A s \in Slot : /\ Seated(s)' <=> Seated(s)
                      /\ Occupant(s)' = Occupant(s)
                      /\ Occupant(s) \in Client
                      /\ Seated(s) => Occupant(s) # c
  BY <1>1, <1>2 DEF Seated, Occupant, SeatsNamed, TypeOK, LobbyRoom, LobbyPlayer
<1>6. OwnEntry'
  BY <1>3, <1>4 DEF OwnEntry
<1>7. SeatsNamed'
  BY <1>3, <1>5 DEF SeatsNamed
<1>8. MembersSeated'
  BY <1>3, <1>4, <1>5 DEF MembersSeated
<1>9. RemovedUnseated'
  BY <1>3, <1>4, <1>5 DEF RemovedUnseated
<1>10. ClosingOutside'
  BY <1>1, <1>3, <1>4 DEF ClosingOutside, Moved
<1>11. CountExact'
  BY <1>1, <1>5, Bounds DEF CountExact
<1>12. QED
  BY <1>6, <1>7, <1>8, <1>9, <1>10, <1>11

\* The thread of a client in the lobby that asks to leave finds its seat.
LEMMA OwnSeat ==
    ASSUME SeatInv, NEW k \in Conn, pc[k] = "leave", clients[client_idx[k]].in_lobby
    PROVE  LET s == clients[client_idx[k]].player_id
           IN  s \in Slot /\ Seated(s) /\ Occupant(s) = client_idx[k]
<1>1. client_idx[k] \in Client
  BY DEF SeatInv, TypeOK
<1>2. \A l \in Conn : Removing(l) => client_idx[l] # client_idx[k]
  BY DEF SeatInv, OwnEntry, Removing, Serving
<1>3. QED
  BY <1>1, <1>2 DEF SeatInv, MembersSeated

\* A seat is vacated by the thread of its client.
LEMMA SeatLeave ==
    ASSUME SeatInv, TypeOK', NEW k \in Conn, Leave(k)
    PROVE  SeatInv'
<1> DEFINE c == client_idx[k]
           s == clients[c].player_id
<1> USE DEF SeatInv
<1>1. /\ c \in Client /\ pc[k] = "leave" /\ Moved(k)
      /\ Serving(k) /\ Serving(k)' /\ ~Removing(k)
  BY DEF Leave, AfterRemoval, Goto, Moved, Serving, Removing, TypeOK
<1>2. CASE ~clients[c].in_lobby
  <2>1. SameSeats /\ pc'[k] \in {"close", "recv"} /\ clients' = clients
    BY <1>1, <1>2 DEF Leave, AfterRemoval, SameSeats, Goto, TypeOK
  <2>2. ClosesOutside(k) /\ ~Removing(k)'
    BY <1>2, <2>1, <1>1 DEF ClosesOutside, Removing, Moved
  <2>3. QED
    BY <1>1, <2>1, <2>2, SeatFrame
<1>3. CASE clients[c].in_lobby
  <2>1. s \in Slot /\ Seated(s) /\ Occupant(s) = c
    BY <1>1, <1>3, OwnSeat
  <2>2. lobby' = Vacated(s)
    BY <1>3, <2>1 DEF Leave
  <2> HIDE DEF s
  <2>3. /\ \A t \in Slot : Seated(t)' <=> (t # s /\ Seated(t))
        /\ \A t \in Slot \ {s} : Occupant(t)' = Occupant(t)
        /\ lobby'.player_count = lobby.player_count - 1
    <3>1. lobby.players[s] \in LobbyPlayer
      BY <2>1 DEF TypeOK, LobbyRoom
    <3>2. /\ lobby'.players[s] = [lobby.players[s] EXCEPT !.connected = FALSE,
                                                         !.ready = FALSE]
          /\ \A t \in Slot \ {s} : lobby'.players[t] = lobby.players[t]
          /\ lobby'.player_count = lobby.player_count - 1
      BY <2>1, <2>2 DEF Vacated, TypeOK, LobbyRoom
    <3>3. ~lobby'.players[s].connected
      BY <3>1, <3>2 DEF LobbyPlayer
    <3>4. QED
      BY <3>2, <3>3 DEF Seated, Occupant
  <2>4. \A t \in Slot \ {s} : Occupant(t) \in Client /\ (Seated(t) => Occupant(t) # c)
    BY DEF s, SeatsNamed, Occupant, TypeOK, LobbyRoom, LobbyPlayer
  <2>5. \A l \in Conn \ {k} :
           /\ client_idx[l] \in Client
           /\ Serving(l)' <=> Serving(l)
           /\ Removing(l)' <=> Removing(l)
           /\ Serving(l) => client_idx[l] # c
           /\ Removing(l) => Serving(l)
    BY <1>1 DEF Moved, Serving, Removing, OwnEntry, TypeOK
  <2>6. CountExact'
    <3>1. CASE s = 0
      BY <2>1, <2>3, <3>1, Bounds DEF CountExact, TypeOK, LobbyRoom
    <3>2. CASE s = 1
      BY <2>1, <2>3, <3>2, Bounds DEF CountExact, TypeOK, LobbyRoom
    <3>3. QED
      BY <2>1, <3>1, <3>2, Bounds
  <2>7. CASE lobby.game_started
    <3>1. clients' = clients /\ pc'[k] = "game_end" /\ ret'[k] = "leave2"
      BY <1>3, <2>1, <2>7 DEF s, Leave, Goto, TypeOK
    <3>2. Removing(k)'
      BY <3>1 DEF Removing
    <3>3. OwnEntry'
      BY <1>1, <2>5, <3>1 DEF OwnEntry, Moved
    <3>4. SeatsNamed'
      BY <2>3, <3>1 DEF SeatsNamed
    <3>5. MembersSeated'
      BY <1>1, <2>1, <2>3, <2>5, <3>1, <3>2 DEF MembersSeated, Moved
    <3>6. RemovedUnseated'
      BY <1>1, <1>3, <2>3, <2>4, <2>5, <3>1 DEF RemovedUnseated, Moved
    <3>7. ClosingOutside'
      BY <1>1, <3>1 DEF ClosingOutside, Moved
    <3>8. QED
      BY <2>6, <3>3, <3>4, <3>5, <3>6, <3>7
  <2>8. CASE ~lobby.game_started
    <3>1. /\ clients' = LeftLobby(c) /\ pc'[k] = "broadcast"
          /\ ret'[k] \in {"close", "recv"}
      BY <1>3, <2>1, <2>8 DEF s, Leave, AfterRemoval, Goto, TypeOK
    <3>2. ~Removing(k)'
      BY <3>1 DEF Removing
    <3>3. /\ \A d \in Client \ {c} : clients'[d] = clients[d]
          /\ clients'[c].connected = clients[c].connected
          /\ ~clients'[c].in_lobby
      BY <1>1, <3>1 DEF LeftLobby, TypeOK, ServerClient
    <3>4. OwnEntry'
      BY <1>1, <2>5, <3>3 DEF OwnEntry, Moved, TypeOK
    <3>5. SeatsNamed'
      BY <2>3, <2>4, <3>3 DEF SeatsNamed
    <3>6. MembersSeated'
      BY <1>1, <2>1, <2>3, <2>5, <3>3 DEF MembersSeated, Moved, SeatsNamed
    <3>7. RemovedUnseated'
      BY <1>1, <2>3, <2>5, <3>2, <3>3 DEF RemovedUnseated, Moved
    <3>8. ClosingOutside'
      BY <1>1, <2>5, <3>1, <3>3 DEF ClosingOutside, Moved, Serving
    <3>9. QED
      BY <2>6, <3>4, <3>5, <3>6, <3>7, <3>8
  <2>9. QED
    BY <2>7, <2>8
<1>4. QED
  BY <1>2, <1>3

\* The client whose removal ends has no seat to lose.
LEMMA SeatLeaveAfterGame ==
    ASSUME SeatInv, TypeOK', NEW k \in Conn, LeaveAfterGame(k)
    PROVE  SeatInv'
<1> DEFINE c == client_idx[k]
<1> USE DEF SeatInv
<1>1. /\ c \in Client /\ pc[k] = "leave2" /\ pc'[k] = "broadcast" /\ Moved(k)
      /\ Serving(k) /\ Serving(k)' /\ Removing(k)
      /\ ret'[k] \in {"close", "recv"} /\ clients' = LeftLobby(c)
  BY DEF LeaveAfterGame, AfterRemoval, Goto, Moved, Serving, Removing, TypeOK
<1>2. ~Removing(k)'
  BY <1>1 DEF Removing
<1>3. /\ \A d \in Client \ {c} : clients'[d] = clients[d]
      /\ clients'[c].connected = clients[c].connected
      /\ ~clients'[c].in_lobby
  BY <1>1 DEF LeftLobby, TypeOK, ServerClient
<1>4. \A t \in Slot : /\ Seated(t)' <=> Seated(t)
                      /\ Occupant(t)' = Occupant(t)
                      /\ Occupant(t) \in Client
                      /\ Seated(t) => Occupant(t) # c
  BY <1>1 DEF LeaveAfterGame, RemovedUnseated, Seated, Occupant, TypeOK, LobbyRoom,
              LobbyPlayer
<1>5. \A l \in Conn \ {k} :
         /\ client_idx[l] \in Client
         /\ Serving(l)' <=> Serving(l)
         /\ Removing(l)' <=> Removing(l)
         /\ Serving(l) => client_idx[l] # c
         /\ Removing(l) => Serving(l)
  BY <1>1 DEF Moved, Serving, Removing, OwnEntry, TypeOK
<1>6. OwnEntry'
  BY <1>1, <1>3, <1>5 DEF OwnEntry, Moved, TypeOK
<1>7. SeatsNamed'
  BY <1>3, <1>4 DEF SeatsNamed
<1>8. MembersSeated'
  BY <1>1, <1>3, <1>4, <1>5 DEF MembersSeated, Moved
<1>9. RemovedUnseated'
  BY <1>1, <1>2, <1>3, <1>4, <1>5 DEF RemovedUnseated, Moved
<1>10. ClosingOutside'
  BY <1>1, <1>3, <1>5 DEF ClosingOutside, Moved, Serving
<1>11. CountExact'
  BY <1>4, Bounds DEF LeaveAfterGame, CountExact, TypeOK, LobbyRoom
<1>12. QED
  BY <1>6, <1>7, <1>8, <1>9, <1>10, <1>11

-----------------------------------------------------------------------------
(***************************************************************************)
(* The theorems about the seats.                                           *)
(***************************************************************************)
\* SeatInv is inductive.
LEMMA SeatNext == SeatInv /\ [Next]_serverVars => SeatInv'
<1> SUFFICES ASSUME SeatInv, [Next]_serverVars
             PROVE  SeatInv'
  OBVIOUS
<1>1. TypeOK'
  BY NextType DEF SeatInv
<1>2. CASE UNCHANGED vars
  BY <1>1, <1>2 DEF vars, threadVars, SeatInv, OwnEntry, SeatsNamed, MembersSeated,
              RemovedUnseated, ClosingOutside, CountExact, Serving, Removing,
              Seated, Occupant
<1>3. ASSUME NEW k \in Conn, AcceptLoop(k)
      PROVE  SeatInv'
  BY <1>1, <1>3, SeatAccept, SeatReceiving DEF AcceptLoop
<1>4. ASSUME NEW k \in Conn, Serve(k)
      PROVE  SeatInv'
  BY <1>1, <1>4, SeatReceiving, SeatPlaying, SeatCommit, SeatReady, SeatJoin,
     SeatClose, SeatLeave, SeatLeaveAfterGame DEF Serve
<1>5. ASSUME NEW k \in Conn, \/ Disconnect(k)
                             \/ \E m \in Request : Receive(k, m)
      PROVE  SeatInv'
  BY <1>1, <1>5, SeatReceiving
<1>6. QED
  BY <1>2, <1>3, <1>4, <1>5, StepKinds DEF Work

\* The invariant behind the theorems about seats holds in every reachable
\* state: every serving thread owns its entry, seats and members name each
\* other, and player_count is exact.
THEOREM SeatsInvariant == Spec => []SeatInv
BY SeatInit, SeatNext, PTL DEF Spec

\* The seats and the clients in the lobby agree in every reachable state, for
\* every number of sockets and every behaviour of the clients.
THEOREM LobbyIsConsistent == Spec => []LobbyConsistent
<1>1. SeatInv => LobbyConsistent
  BY DEF SeatInv, LobbyConsistent, SeatsNamed, MembersSeated, CountExact
<1>2. QED
  BY <1>1, SeatsInvariant, PTL

\* A client that asks to join and has no seat finds one: the other entry of
\* clients[] can hold one seat at most.
THEOREM JoinersFindASlot == Spec => []JoinFindsSlot
<1>1. SeatInv => JoinFindsSlot
  <2> SUFFICES ASSUME SeatInv, NEW k \in Conn, pc[k] = "join",
                      ~clients[client_idx[k]].in_lobby
               PROVE  lobby.player_count < LOBBY_SIZE /\ \E s \in Slot : ~Seated(s)
    BY DEF JoinFindsSlot
  <2>1. \A s \in Slot : Seated(s) => /\ Occupant(s) \in Client
                                     /\ Occupant(s) # client_idx[k]
                                     /\ clients[Occupant(s)].player_id = s
    BY DEF SeatInv, SeatsNamed, Occupant, TypeOK, LobbyRoom, LobbyPlayer
  <2>2. client_idx[k] \in Client
    BY DEF SeatInv, TypeOK
  <2>3. ~(Seated(0) /\ Seated(1))
    BY <2>1, <2>2, Bounds
  <2>4. QED
    BY <2>3, Bounds DEF SeatInv, CountExact, LOBBY_SIZE
<1>2. QED
  BY <1>1, SeatsInvariant, PTL

\* Leaving a running game ends it for the player who stays.
THEOREM LeavingDecides == Spec => []LeavingDecidesGame
<1>1. SeatInv => LeavingDecidesGame
  <2> SUFFICES ASSUME SeatInv, NEW k \in Conn, pc[k] = "game_end", ret[k] = "leave2"
               PROVE  Decided
    BY DEF LeavingDecidesGame
  <2>1. client_idx[k] \in Client
    BY DEF SeatInv, TypeOK
  <2>2. \A s \in Slot : Seated(s) => /\ Occupant(s) \in Client
                                     /\ Occupant(s) # client_idx[k]
                                     /\ clients[Occupant(s)].player_id = s
    BY DEF SeatInv, SeatsNamed, RemovedUnseated, Removing, Occupant, TypeOK,
           LobbyRoom, LobbyPlayer
  <2>3. \A s, t \in Slot : Seated(s) /\ Seated(t) => s = t
    BY <2>1, <2>2, Bounds
  <2>4. CASE \E s \in Slot : Seated(s)
    BY <2>3, <2>4 DEF Decided, Alone
  <2>5. CASE \A s \in Slot : ~Seated(s)
    BY <2>5 DEF Decided, AllFinished
  <2>6. QED
    BY <2>4, <2>5
<1>2. QED
  BY <1>1, SeatsInvariant, PTL

-----------------------------------------------------------------------------
(***************************************************************************)
(* The end of a game.  While a thread is between decision and commit it    *)
(* owns lobby_mutex, so nobody else touches the lobby.                     *)
(***************************************************************************)
\* The mutex is free at first.
LEMMA MutexInit == Init => MutexInv
BY InitType, NoConnAssumption DEF Init, MutexInv, MutexHeld, DecisionStands

\* The winner is seated, also when the scores decide.
LEMMA WinnerSeated ==
    ASSUME TypeOK, Outcome.winner_id # -1
    PROVE  Outcome.winner_id \in Slot /\ Seated(Outcome.winner_id)
<1>1. Outcome.winner_id = Winner
  BY DEF Outcome
<1>2. CASE \E s \in Slot : Alone(s)
  <2>1. PICK s \in Slot : s = (CHOOSE t \in Slot : Alone(t)) /\ Alone(s)
    BY <1>2
  <2>2. QED
    BY <1>1, <1>2, <2>1 DEF Winner, Alone
<1>3. CASE ~ \E s \in Slot : Alone(s)
  <2>1. (Seated(0) /\ Seated(1)) \/ (~Seated(0) /\ ~Seated(1))
    BY <1>3, Bounds DEF Alone
  <2>2. CASE Seated(0) /\ Seated(1)
    BY <1>1, <1>3, <2>2, Bounds DEF Winner
  <2>3. CASE ~Seated(0) /\ ~Seated(1)
    BY <1>1, <1>3, <2>3 DEF Winner, ResultScore
  <2>4. QED
    BY <2>1, <2>2, <2>3
<1>4. QED
  BY <1>2, <1>3

\* A step outside handle_game_end: it either leaves the lobby alone or has
\* found the mutex free.
LEMMA MutexFrame ==
    ASSUME MutexInv, TypeOK', NEW k \in Conn,
           lobby_mutex' = lobby_mutex, result' = result,
           \A l \in Conn \ {k} : pc'[l] = pc[l],
           pc[k] # "game_end_commit", pc'[k] # "game_end_commit",
           lobby' = lobby \/ Locked(k)
    PROVE  MutexInv'
<1> USE DEF MutexInv
<1>1. MutexHeld'
  BY DEF MutexHeld
<1>2. DecisionStands'
  <2>1. CASE lobby' = lobby
    BY <2>1 DEF DecisionStands, Seated
  <2>2. CASE Locked(k)
    BY <2>2, NoConnAssumption DEF DecisionStands, MutexHeld, Locked
  <2>3. QED
    BY <2>1, <2>2
<1>3. QED
  BY <1>1, <1>2

\* MutexInv is inductive; its only interesting cases are the two steps of
\* handle_game_end.
LEMMA MutexNext == MutexInv /\ [Next]_serverVars => MutexInv'
<1> SUFFICES ASSUME MutexInv, [Next]_serverVars
             PROVE  MutexInv'
  OBVIOUS
<1> USE DEF MutexInv
<1>1. TypeOK'
  BY NextType
<1>2. CASE UNCHANGED vars
  BY <1>1, <1>2 DEF vars, threadVars, MutexHeld, DecisionStands, Seated
<1>3. ASSUME NEW k \in Conn, AcceptLoop(k)
      PROVE  MutexInv'
  BY <1>1, <1>3, MutexFrame
  DEF AcceptLoop, Accept, AcceptNoThread, Refuse, Goto, TypeOK
<1>4. ASSUME NEW k \in Conn, \/ Disconnect(k)
                             \/ \E m \in Request : Receive(k, m)
      PROVE  MutexInv'
  BY <1>1, <1>4, MutexFrame DEF Disconnect, Receive, Handler, Request, Goto, TypeOK
<1>5. ASSUME NEW k \in Conn, Serve(k)
      PROVE  MutexInv'
  <2>1. CASE Start(k) \/ StoreScore(k) \/ StoreGameOver(k) \/ Close(k) \/ ForgetFd(k)
    BY <1>1, <2>1, MutexFrame
    DEF Start, StoreScore, StoreGameOver, Close, ForgetFd, Goto, TypeOK
  <2>2. CASE Join(k)
    BY <1>1, <2>2, MutexFrame DEF Join, Goto, TypeOK
  <2>3. CASE Leave(k)
    BY <1>1, <2>3, MutexFrame DEF Leave, AfterRemoval, Goto, TypeOK
  <2>4. CASE LeaveAfterGame(k)
    BY <1>1, <2>4, MutexFrame DEF LeaveAfterGame, Goto, TypeOK
  <2>5. CASE SetReady(k)
    BY <1>1, <2>5, MutexFrame DEF SetReady, Goto, TypeOK
  <2>6. CASE StartGame(k) \/ Forward(k) \/ Broadcast(k)
    BY <1>1, <2>6, MutexFrame DEF StartGame, Forward, Broadcast, Goto, TypeOK
  <2>7. CASE GameEnd(k)
    <3>1. CASE lobby.game_started /\ Decided
      <4>1. /\ lobby_mutex' = k /\ lobby_mutex = NoConn /\ lobby' = lobby
            /\ pc' = [pc EXCEPT ![k] = "game_end_commit"]
            /\ result' = [result EXCEPT ![k] = Outcome]
        BY <2>7, <3>1 DEF GameEnd, Locked, Goto
      <4>2. MutexHeld'
        BY <4>1, NoConnAssumption DEF MutexHeld, TypeOK
      <4>3. \A l \in Conn \ {k} : pc'[l] # "game_end_commit"
        BY <4>1, NoConnAssumption DEF MutexHeld, TypeOK
      <4>4. DecisionStands'
        BY <3>1, <4>1, <4>3, WinnerSeated DEF DecisionStands, Seated, TypeOK
      <4>5. QED
        BY <1>1, <4>2, <4>4
    <3>2. CASE ~(lobby.game_started /\ Decided)
      BY <1>1, <2>7, <3>2, MutexFrame DEF GameEnd, Goto, TypeOK
    <3>3. QED
      BY <3>1, <3>2
  <2>8. CASE GameEndCommit(k)
    <3>1. /\ pc[k] = "game_end_commit" /\ lobby_mutex' = NoConn
          /\ pc' = [pc EXCEPT ![k] = "broadcast"]
      BY <2>8 DEF GameEndCommit, Goto
    <3>2. \A l \in Conn : pc'[l] # "game_end_commit"
      BY <3>1 DEF MutexHeld, TypeOK
    <3>3. QED
      BY <1>1, <3>1, <3>2, NoConnAssumption DEF MutexHeld, DecisionStands
  <2>9. QED
    BY <1>5, <2>1, <2>2, <2>3, <2>4, <2>5, <2>6, <2>7, <2>8 DEF Serve
<1>6. QED
  BY <1>2, <1>3, <1>4, <1>5, StepKinds DEF Work

\* In every reachable state only a thread between decision and commit of
\* handle_game_end holds the mutex across steps, and what it decided stands.
LEMMA MutexInvariant == Spec => []MutexInv
BY MutexInit, MutexNext, PTL DEF Spec

\* A result is sent for a game that runs, by one thread, and to a winner who
\* is still there.
THEOREM ResultsFit == Spec => []ResultOfThisGame
<1>1. MutexInv => ResultOfThisGame
  BY DEF MutexInv, MutexHeld, DecisionStands, ResultOfThisGame
<1>2. QED
  BY <1>1, MutexInvariant, PTL
=============================================================================
