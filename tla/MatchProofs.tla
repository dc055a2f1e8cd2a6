---------------------------- MODULE MatchProofs ----------------------------
(***************************************************************************)
(* The server implements the match service of Match.tla, for any set of    *)
(* sockets, scores and seeds and whatever the clients send: every step of  *)
(* Server.tla, in a state that satisfies SeatInv and MutexInv, is a step   *)
(* of the service or leaves what it shows unchanged.                       *)
(***************************************************************************)
EXTENDS ServerProofs

\* What the service shows.
Shown == <<SeatMap, ReadyMap, OverMap, StartingMap, lobby.game_started, SettledMap>>

\* Only the thread of k has moved, and its entry may be new.
Stepped(k) ==
    \A l \in Conn \ {k} : pc'[l] = pc[l] /\ client_idx'[l] = client_idx[l]

-----------------------------------------------------------------------------
\* The people about to begin a match change only with a thread that starts
\* or ends broadcast_game_start.
LEMMA StartingFrame ==
    ASSUME NEW k \in Conn, Stepped(k), pc[k] # "start_game", pc'[k] # "start_game"
    PROVE  StartingMap' = StartingMap
BY DEF Stepped, StartingMap

\* A thread about to begin a match adds its entry.
LEMMA StartingAdded ==
    ASSUME NEW k \in Conn, Stepped(k), pc[k] # "start_game", pc'[k] = "start_game",
           client_idx' = client_idx
    PROVE  StartingMap' = StartingMap \cup {client_idx[k]}
BY DEF Stepped, StartingMap

\* A thread that has begun its match takes its entry away: no other thread
\* serves that entry.
LEMMA StartingRemoved ==
    ASSUME OwnEntry, NEW k \in Conn, Stepped(k), pc[k] = "start_game",
           pc'[k] # "start_game", client_idx' = client_idx
    PROVE  /\ client_idx[k] \in StartingMap
           /\ StartingMap' = StartingMap \ {client_idx[k]}
<1>1. \A l \in Conn \ {k} : pc[l] = "start_game" => client_idx[l] # client_idx[k]
  BY DEF OwnEntry, Serving
<1>2. QED
  BY <1>1 DEF Stepped, StartingMap

\* A match is settled or ended by a thread in handle_game_end only.
LEMMA SettledFrame ==
    ASSUME NEW k \in Conn, Stepped(k), pc[k] # "game_end_commit",
           pc'[k] # "game_end_commit"
    PROVE  SettledMap' = SettledMap
BY DEF Stepped, SettledMap

\* While the mutex is free no match is settled.
LEMMA LockedUnsettled ==
    ASSUME MutexInv, NEW k \in Conn, Locked(k)
    PROVE  ~SettledMap
BY NoConnAssumption DEF MutexInv, MutexHeld, Locked, SettledMap

\* A step that touches no seat, ready flag or game_over, and no thread in
\* broadcast_game_start or at the end of a game, shows nothing.
LEMMA Stutter ==
    ASSUME NEW k \in Conn, Stepped(k), lobby' = lobby,
           \A c \in Client : clients'[c].game_over = clients[c].game_over,
           {pc[k], pc'[k]} \cap {"start_game", "game_end_commit"} = {}
    PROVE  Shown' = Shown
<1>1. StartingMap' = StartingMap /\ SettledMap' = SettledMap
  BY StartingFrame, SettledFrame
<1>2. SeatMap' = SeatMap /\ ReadyMap' = ReadyMap
  BY DEF SeatMap, ReadyMap, Seated, Occupant
<1>3. OverMap' = OverMap
  BY DEF OverMap
<1>4. QED
  BY <1>1, <1>2, <1>3 DEF Shown

-----------------------------------------------------------------------------
(***************************************************************************)
(* One lemma per action that the service sees.                             *)
(***************************************************************************)
\* A new connection overwrites an entry that sits nowhere.
LEMMA AcceptStep ==
    ASSUME SeatInv, NEW k \in Conn, Accept(k) \/ AcceptNoThread(k)
    PROVE  \E c \in Client : M!Depart(c)
<1> USE DEF SeatInv
<1>1. PICK i \in Client, up \in BOOLEAN :
        ~clients[i].connected /\ clients' = [clients EXCEPT ![i] = NewClient(k, up)]
  BY DEF Accept, AcceptNoThread, FreeClient
<1>2. /\ pc[k] = "new" /\ pc'[k] \in {"start", "refused"} /\ lobby' = lobby
      /\ Stepped(k)
  BY DEF Accept, AcceptNoThread, Goto, Stepped, TypeOK
<1>3. SeatMap' = SeatMap /\ ReadyMap' = ReadyMap
  BY <1>2 DEF SeatMap, ReadyMap, Seated, Occupant
<1>4. StartingMap' = StartingMap /\ SettledMap' = SettledMap
  BY <1>2, StartingFrame, SettledFrame
<1>5. \A s \in Slot : SeatMap[s] # i
  BY <1>1, Bounds DEF SeatMap, SeatsNamed
<1>6. OverMap' = [OverMap EXCEPT ![i] = FALSE]
  BY <1>1 DEF OverMap, NewClient, TypeOK
<1>7. M!Depart(i)
  BY <1>2, <1>3, <1>4, <1>5, <1>6 DEF M!Depart, M!Standing
<1>8. QED
  BY <1>7

\* The thread of a serving client, and only it, works on the client's entry.
LEMMA SeatHolder ==
    ASSUME SeatInv, NEW k \in Conn, pc[k] \in {"ready", "leave"},
           clients[client_idx[k]].in_lobby
    PROVE  LET s == clients[client_idx[k]].player_id
           IN  /\ s \in Slot /\ Seated(s) /\ Occupant(s) = client_idx[k]
               /\ \A t \in Slot : SeatMap[t] = client_idx[k] <=> t = s
<1>1. client_idx[k] \in Client /\ client_idx[k] # -1
  BY Bounds DEF SeatInv, TypeOK
<1>2. \A l \in Conn : Removing(l) => client_idx[l] # client_idx[k]
  BY DEF SeatInv, OwnEntry, Removing, Serving
<1>3. QED
  BY <1>1, <1>2 DEF SeatInv, MembersSeated, SeatsNamed, SeatMap

\* add_player_to_lobby seats the client, or changes nothing.
LEMMA JoinStep ==
    ASSUME SeatInv, MutexInv, NEW k \in Conn, Join(k)
    PROVE  M!Sit(client_idx[k]) \/ Shown' = Shown
<1> DEFINE c == client_idx[k]
<1> USE DEF SeatInv
<1>1. /\ c \in Client /\ c # -1 /\ pc[k] = "join" /\ pc'[k] \in {"recv", "broadcast"}
      /\ client_idx' = client_idx /\ Stepped(k)
  BY Bounds DEF Join, Goto, Stepped, TypeOK
<1>2. CASE clients[c].in_lobby \/ lobby.player_count >= LOBBY_SIZE
  BY <1>1, <1>2, Stutter DEF Join
<1>3. CASE ~(clients[c].in_lobby \/ lobby.player_count >= LOBBY_SIZE)
  <2>1. PICK s \in Slot :
          /\ IsFirstFree(s)
          /\ lobby' = [lobby EXCEPT
                         !.players[s] = [player_id |-> c, ready |-> FALSE,
                                         connected |-> TRUE],
                         !.player_count = @ + 1]
          /\ clients' = [clients EXCEPT ![c].player_id = s, ![c].in_lobby = TRUE]
    BY <1>3 DEF Join
  <2>2. /\ \A t \in Slot \ {s} : /\ Seated(t)' = Seated(t) /\ Occupant(t)' = Occupant(t)
                                 /\ lobby'.players[t].ready = lobby.players[t].ready
        /\ Seated(s)' /\ Occupant(s)' = c /\ ~lobby'.players[s].ready
        /\ lobby'.game_started = lobby.game_started
    BY <2>1 DEF Seated, Occupant, TypeOK, LobbyRoom
  <2>3. SeatMap' = [SeatMap EXCEPT ![s] = c] /\ ReadyMap' = [ReadyMap EXCEPT ![s] = FALSE]
    BY <2>2 DEF SeatMap, ReadyMap
  <2>4. OverMap' = OverMap
    BY <1>1, <2>1 DEF OverMap, TypeOK, ServerClient
  <2>5. StartingMap' = StartingMap /\ SettledMap' = SettledMap /\ ~SettledMap
    BY <1>1, StartingFrame, SettledFrame, LockedUnsettled DEF Join
  <2>6. \A t \in Slot : SeatMap[t] # c
    BY <1>1, <1>3 DEF SeatMap, SeatsNamed
  <2>7. SeatMap[s] = -1 /\ \A t \in Slot : t < s => SeatMap[t] # -1
    BY <2>1, Bounds DEF IsFirstFree, SeatMap, Occupant, TypeOK, LobbyRoom, LobbyPlayer
  <2>8. M!Sit(c)
    BY <2>2, <2>3, <2>4, <2>5, <2>6, <2>7 DEF M!Sit, M!Standing, M!Free
  <2>9. QED
    BY <2>8
<1>4. QED
  BY <1>2, <1>3

\* The first part of remove_player_from_lobby frees the leaver's seat, or
\* changes nothing.
LEMMA LeaveStep ==
    ASSUME SeatInv, MutexInv, NEW k \in Conn, Leave(k)
    PROVE  M!Stand(client_idx[k]) \/ Shown' = Shown
<1> DEFINE c == client_idx[k]
           s == clients[c].player_id
<1> USE DEF SeatInv
<1>1. /\ c \in Client /\ pc[k] = "leave"
      /\ pc'[k] \in {"recv", "close", "broadcast", "game_end"}
      /\ client_idx' = client_idx /\ Stepped(k)
  BY DEF Leave, AfterRemoval, Goto, Stepped, TypeOK
<1>2. CASE ~clients[c].in_lobby
  BY <1>1, <1>2, Stutter DEF Leave
<1>3. CASE clients[c].in_lobby
  <2>1. s \in Slot /\ SeatMap[s] = c
    BY <1>1, <1>3, SeatHolder
  <2>2. lobby' = Vacated(s)
    BY <1>3, <2>1 DEF Leave
  <2>3. clients' = IF lobby.game_started THEN clients ELSE LeftLobby(c)
    BY <1>3, <2>1 DEF Leave
  <2> HIDE DEF s
  <2>4. /\ \A t \in Slot \ {s} : lobby'.players[t] = lobby.players[t]
        /\ ~lobby'.players[s].connected
        /\ lobby'.game_started = lobby.game_started
    <3>1. lobby.players[s] \in LobbyPlayer
      BY <2>1 DEF TypeOK, LobbyRoom
    <3>2. /\ lobby'.players[s] = [lobby.players[s] EXCEPT !.connected = FALSE,
                                                         !.ready = FALSE]
          /\ \A t \in Slot \ {s} : lobby'.players[t] = lobby.players[t]
          /\ lobby'.game_started = lobby.game_started
      BY <2>1, <2>2 DEF Vacated, TypeOK, LobbyRoom
    <3>3. QED
      BY <3>1, <3>2 DEF LobbyPlayer
  <2>5. SeatMap' = [SeatMap EXCEPT ![s] = -1] /\ ReadyMap' = [ReadyMap EXCEPT ![s] = FALSE]
    BY <2>4 DEF SeatMap, ReadyMap, Seated, Occupant
  <2>6. OverMap' = IF lobby.game_started THEN OverMap
                   ELSE [OverMap EXCEPT ![c] = FALSE]
    BY <1>1, <2>3 DEF OverMap, LeftLobby, TypeOK, ServerClient
  <2>7. StartingMap' = StartingMap /\ SettledMap' = SettledMap /\ ~SettledMap
    BY <1>1, StartingFrame, SettledFrame, LockedUnsettled DEF Leave
  <2>8. M!Stand(c)
    BY <2>1, <2>4, <2>5, <2>6, <2>7 DEF M!Stand
  <2>9. QED
    BY <2>8
<1>4. QED
  BY <1>2, <1>3

\* The second part forgets the leaver; the one entry left can hold one seat.
LEMMA LeaveAfterGameStep ==
    ASSUME SeatInv, MutexInv, NEW k \in Conn, LeaveAfterGame(k)
    PROVE  M!Depart(client_idx[k])
<1> DEFINE c == client_idx[k]
<1> USE DEF SeatInv
<1>1. /\ c \in Client /\ c # -1 /\ pc[k] = "leave2" /\ pc'[k] = "broadcast"
      /\ client_idx' = client_idx /\ Stepped(k) /\ Removing(k)
  BY Bounds DEF LeaveAfterGame, Goto, Stepped, Removing, TypeOK
<1>2. /\ clients' = LeftLobby(c)
      /\ lobby' = [lobby EXCEPT !.game_started = FALSE]
  BY DEF LeaveAfterGame
<1>3. SeatMap' = SeatMap /\ ReadyMap' = ReadyMap /\ lobby'.game_started = FALSE
  BY <1>2 DEF SeatMap, ReadyMap, Seated, Occupant, TypeOK, LobbyRoom
<1>4. OverMap' = [OverMap EXCEPT ![c] = FALSE]
  BY <1>1, <1>2 DEF OverMap, LeftLobby, TypeOK, ServerClient
<1>5. StartingMap' = StartingMap /\ SettledMap' = SettledMap /\ ~SettledMap
  BY <1>1, StartingFrame, SettledFrame, LockedUnsettled DEF LeaveAfterGame
<1>6. \A t \in Slot : SeatMap[t] # c
  BY <1>1 DEF RemovedUnseated, SeatMap
<1>7. M!Deserted
  <2>1. \A s \in Slot : Seated(s) => /\ Occupant(s) \in Client \ {c}
                                     /\ clients[Occupant(s)].player_id = s
    BY <1>1 DEF RemovedUnseated, SeatsNamed, Occupant, TypeOK, LobbyRoom, LobbyPlayer
  <2>2. \A s, t \in Slot : Seated(s) /\ Seated(t) => s = t
    BY <1>1, <2>1, Bounds
  <2>3. QED
    BY <2>2 DEF M!Deserted, M!Free, SeatMap
<1>8. QED
  BY <1>3, <1>4, <1>5, <1>6, <1>7 DEF M!Depart, M!Standing

\* update_ready_status: the last ready of a full table may begin the match.
LEMMA SetReadyStep ==
    ASSUME SeatInv, MutexInv, NEW k \in Conn, SetReady(k)
    PROVE  M!Toggle(client_idx[k], msg[k].ready) \/ Shown' = Shown
<1> DEFINE c == client_idx[k]
           s == clients[c].player_id
           b == msg[k].ready
<1> USE DEF SeatInv
<1>1. /\ c \in Client /\ pc[k] = "ready" /\ client_idx' = client_idx /\ Stepped(k)
      /\ b \in BOOLEAN
  BY RequestFields DEF SetReady, Goto, Stepped, TypeOK
<1>2. CASE ~clients[c].in_lobby
  <2>1. pc'[k] = "recv"
    BY <1>2 DEF SetReady, Goto, TypeOK
  <2>2. QED
    BY <1>1, <1>2, <2>1, Stutter DEF SetReady
<1>3. CASE clients[c].in_lobby
  <2>1. s \in Slot /\ Seated(s) /\ SeatMap[s] = c
    BY <1>1, <1>3, SeatHolder
  <2>2. /\ lobby' = [lobby EXCEPT !.players[s].ready = b]
        /\ clients' = [clients EXCEPT ![c].ready = b]
    BY <1>3, <2>1 DEF SetReady
  <2>3. pc'[k] = IF AllReady(lobby') /\ lobby.player_count = LOBBY_SIZE /\ ~lobby.game_started
                 THEN "start_game" ELSE "broadcast"
    BY <1>3, <2>1, <2>2 DEF SetReady, Goto, TypeOK
  <2> HIDE DEF s
  <2>4. /\ \A t \in Slot : Seated(t)' = Seated(t) /\ Occupant(t)' = Occupant(t)
        /\ \A t \in Slot \ {s} : lobby'.players[t].ready = lobby.players[t].ready
        /\ lobby'.players[s].ready = b
        /\ lobby'.game_started = lobby.game_started
    BY <2>1, <2>2 DEF Seated, Occupant, TypeOK, LobbyRoom, LobbyPlayer
  <2>5. SeatMap' = SeatMap /\ ReadyMap' = [ReadyMap EXCEPT ![s] = b]
    BY <1>1, <2>1, <2>4 DEF SeatMap, ReadyMap
  <2>6. OverMap' = OverMap
    BY <1>1, <2>2 DEF OverMap, TypeOK, ServerClient
  <2>7. SettledMap' = SettledMap /\ ~SettledMap
    BY <1>1, <2>3, SettledFrame, LockedUnsettled DEF SetReady
  <2>8. lobby.player_count = LOBBY_SIZE <=> \A t \in Slot : Seated(t)
    BY Bounds DEF CountExact, LOBBY_SIZE, Seated
  <2>9. \A t \in Slot : SeatMap[t] # -1 <=> Seated(t)
    BY Bounds DEF SeatMap, Occupant, TypeOK, LobbyRoom, LobbyPlayer
  <2>10. pc'[k] = "start_game" <=>
           ~lobby.game_started /\ \A t \in Slot : SeatMap[t] # -1 /\ ReadyMap'[t]
    BY <2>3, <2>4, <2>8, <2>9 DEF AllReady, ReadyMap, Seated
  <2>11. StartingMap' = IF pc'[k] = "start_game" THEN StartingMap \cup {c}
                        ELSE StartingMap
    BY <1>1, StartingFrame, StartingAdded
  <2>12. M!Toggle(c, b)
    BY <2>1, <2>4, <2>5, <2>6, <2>7, <2>10, <2>11 DEF M!Toggle, M!Free
  <2>13. QED
    BY <2>12
<1>4. QED
  BY <1>2, <1>3

\* broadcast_game_start begins the match its thread was about to begin.
LEMMA StartGameStep ==
    ASSUME SeatInv, MutexInv, NEW k \in Conn, StartGame(k)
    PROVE  M!Begin(client_idx[k])
<1> USE DEF SeatInv
<1>1. /\ pc[k] = "start_game" /\ pc'[k] = "recv" /\ Stepped(k)
      /\ client_idx' = client_idx /\ clients' = clients
      /\ lobby' = [lobby EXCEPT !.game_started = TRUE]
  BY DEF StartGame, Goto, Stepped, TypeOK
<1>2. /\ SeatMap' = SeatMap /\ ReadyMap' = ReadyMap /\ OverMap' = OverMap
      /\ lobby'.game_started = TRUE
  BY <1>1 DEF SeatMap, ReadyMap, OverMap, Seated, Occupant, TypeOK, LobbyRoom
<1>3. /\ client_idx[k] \in StartingMap
      /\ StartingMap' = StartingMap \ {client_idx[k]}
      /\ SettledMap' = SettledMap /\ ~SettledMap
  BY <1>1, StartingRemoved, SettledFrame, LockedUnsettled DEF StartGame
<1>4. QED
  BY <1>2, <1>3 DEF M!Begin

\* update_game_status stores a report.
LEMMA ReportStep ==
    ASSUME SeatInv, NEW k \in Conn, StoreGameOver(k)
    PROVE  M!Report(client_idx[k], msg[k].game_over)
<1> USE DEF SeatInv
<1>1. /\ pc[k] \in {"status", "score_stored"} /\ pc'[k] \in {"over_stored", "forward"}
      /\ Stepped(k) /\ client_idx[k] \in Client /\ lobby' = lobby
      /\ clients' = [clients EXCEPT ![client_idx[k]].game_over = msg[k].game_over]
  BY DEF StoreGameOver, Goto, Stepped, TypeOK
<1>2. SeatMap' = SeatMap /\ ReadyMap' = ReadyMap
  BY <1>1 DEF SeatMap, ReadyMap, Seated, Occupant
<1>3. OverMap' = [OverMap EXCEPT ![client_idx[k]] = msg[k].game_over]
  BY <1>1 DEF OverMap, TypeOK, ServerClient
<1>4. StartingMap' = StartingMap /\ SettledMap' = SettledMap
  BY <1>1, StartingFrame, SettledFrame
<1>5. QED
  BY <1>1, <1>2, <1>3, <1>4 DEF M!Report

\* handle_game_end settles the match, or decides nothing.
LEMMA GameEndStep ==
    ASSUME SeatInv, MutexInv, NEW k \in Conn, GameEnd(k)
    PROVE  M!Settle \/ Shown' = Shown
<1> USE DEF SeatInv
<1>1. /\ pc[k] = "game_end" /\ Stepped(k) /\ clients' = clients /\ lobby' = lobby
  BY DEF GameEnd, Goto, Stepped, TypeOK
<1>2. CASE lobby.game_started /\ Decided
  <2>1. pc'[k] = "game_end_commit"
    BY <1>2 DEF GameEnd, Goto, TypeOK
  <2>2. SettledMap' = TRUE /\ ~SettledMap
    BY <2>1, LockedUnsettled DEF SettledMap, GameEnd
  <2>3. StartingMap' = StartingMap
    BY <1>1, <2>1, StartingFrame
  <2>4. SeatMap' = SeatMap /\ ReadyMap' = ReadyMap /\ OverMap' = OverMap
    BY <1>1 DEF SeatMap, ReadyMap, OverMap, Seated, Occupant
  <2>5. M!EveryoneOver \/ M!Deserted
    <3>1. ASSUME AllFinished
          PROVE  M!EveryoneOver
      <4>1. \A s \in Slot : Occupant(s) \in Client
        BY DEF Occupant, TypeOK, LobbyRoom, LobbyPlayer
      <4>2. QED
        BY <3>1, <4>1 DEF AllFinished, M!EveryoneOver, M!Free, SeatMap, OverMap
    <3>2. ASSUME NEW s \in Slot, Alone(s)
          PROVE  M!Deserted
      BY <3>2 DEF Alone, M!Deserted, M!Free, SeatMap
    <3>3. QED
      BY <1>2, <3>1, <3>2 DEF Decided
  <2>6. M!Settle
    BY <1>1, <1>2, <2>2, <2>3, <2>4, <2>5 DEF M!Settle
  <2>7. QED
    BY <2>6
<1>3. CASE ~(lobby.game_started /\ Decided)
  <2>1. pc'[k] \in {"broadcast"} \cup {ret[k]}
    BY <1>3 DEF GameEnd, Goto, TypeOK
  <2>2. pc'[k] \notin {"start_game", "game_end_commit"}
    BY <2>1 DEF TypeOK
  <2>3. QED
    BY <1>1, <2>2, Stutter
<1>4. QED
  BY <1>2, <1>3

\* The end of handle_game_end ends the match for those who are seated.
LEMMA GameEndCommitStep ==
    ASSUME SeatInv, MutexInv, NEW k \in Conn, GameEndCommit(k)
    PROVE  M!End
<1> USE DEF SeatInv
<1>1. /\ pc[k] = "game_end_commit" /\ pc'[k] = "broadcast" /\ Stepped(k)
  BY DEF GameEndCommit, Goto, Stepped, TypeOK
<1>2. SettledMap /\ SettledMap' = FALSE
  BY <1>1 DEF SettledMap, Stepped, MutexInv, MutexHeld
<1>3. StartingMap' = StartingMap
  BY <1>1, StartingFrame
<1>4. \A s \in Slot : /\ Seated(s)' = Seated(s) /\ Occupant(s)' = Occupant(s)
                      /\ Seated(s) => ~lobby'.players[s].ready
  <2> SUFFICES ASSUME NEW s \in Slot
               PROVE  /\ Seated(s)' = Seated(s) /\ Occupant(s)' = Occupant(s)
                      /\ Seated(s) => ~lobby'.players[s].ready
    OBVIOUS
  <2>1. lobby.players[s] \in LobbyPlayer
    BY DEF TypeOK, LobbyRoom
  <2>2. lobby'.players[s] = IF Seated(s) THEN [lobby.players[s] EXCEPT !.ready = FALSE]
                            ELSE lobby.players[s]
    BY DEF GameEndCommit, TypeOK, LobbyRoom
  <2>3. QED
    BY <2>1, <2>2 DEF LobbyPlayer, Seated, Occupant
<1>5. SeatMap' = SeatMap /\ ReadyMap' = [s \in Slot |-> FALSE]
  BY <1>4 DEF SeatMap, ReadyMap
<1>6. lobby'.game_started = FALSE
  BY DEF GameEndCommit, TypeOK, LobbyRoom
<1>7. \A c \in Client : M!Standing(c) <=> ~ \E s \in Slot : Seated(s) /\ Occupant(s) = c
  BY Bounds DEF M!Standing, SeatMap
<1>8. OverMap' = [c \in Client |-> IF M!Standing(c) THEN OverMap[c] ELSE FALSE]
  <2> SUFFICES ASSUME NEW c \in Client
               PROVE  clients'[c].game_over =
                        IF M!Standing(c) THEN clients[c].game_over ELSE FALSE
    BY DEF OverMap
  <2>1. clients[c] \in ServerClient
    BY DEF TypeOK
  <2>2. clients'[c] = IF M!Standing(c) THEN clients[c]
                      ELSE [clients[c] EXCEPT !.ready = FALSE, !.score = 0,
                                              !.game_over = FALSE]
    BY <1>7 DEF GameEndCommit
  <2>3. QED
    BY <2>1, <2>2 DEF ServerClient
<1>9. QED
  BY <1>2, <1>3, <1>5, <1>6, <1>8 DEF M!End

\* The other actions are hidden from the service.
LEMMA HiddenStep ==
    ASSUME SeatInv, NEW k \in Conn,
           \/ Refuse(k) \/ Start(k) \/ Disconnect(k) \/ StoreScore(k) \/ Forward(k)
           \/ Broadcast(k) \/ Close(k) \/ ForgetFd(k)
           \/ \E m \in Request : Receive(k, m)
    PROVE  Shown' = Shown
<1> USE DEF SeatInv
<1>1. lobby' = lobby /\ Stepped(k)
  BY DEF Refuse, Start, Disconnect, StoreScore, Forward, Broadcast, Close, ForgetFd,
         Receive, Goto, Stepped, TypeOK
<1>2. {pc[k], pc'[k]} \cap {"start_game", "game_end_commit"} = {}
  BY DEF Refuse, Start, Disconnect, StoreScore, Forward, Broadcast, Close, ForgetFd,
         Receive, Handler, Request, Goto, TypeOK
<1>3. \A c \in Client : clients'[c].game_over = clients[c].game_over
  <2>1. CASE StoreScore(k)
    BY <2>1 DEF StoreScore, TypeOK, ServerClient
  <2>2. CASE Close(k)
    BY <2>2 DEF Close, TypeOK, ServerClient
  <2>3. CASE ForgetFd(k)
    BY <2>3 DEF ForgetFd, TypeOK, ServerClient
  <2>4. CASE ~(StoreScore(k) \/ Close(k) \/ ForgetFd(k))
    BY <2>4 DEF Refuse, Start, Disconnect, Forward, Broadcast, Receive
  <2>5. QED
    BY <2>1, <2>2, <2>3, <2>4
<1>4. QED
  BY <1>1, <1>2, <1>3, Stutter

-----------------------------------------------------------------------------
\* The server starts with an empty table and no match.
LEMMA ShownInit == Init => M!Init
<1> SUFFICES ASSUME Init
             PROVE  M!Init
  OBVIOUS
<1>1. \A s \in Slot : ~Seated(s)
  BY DEF Init, EmptyLobby, Seated
<1>2. /\ SeatMap = [s \in Slot |-> -1]
      /\ ReadyMap = [s \in Slot |-> FALSE]
  BY <1>1 DEF SeatMap, ReadyMap
<1>3. OverMap = [c \in Client |-> FALSE] /\ ~lobby.game_started
  BY DEF Init, OverMap, EmptyLobby
<1>4. \A k \in Conn : pc[k] = "new"
  BY DEF Init
<1>5. StartingMap = {} /\ ~SettledMap
  BY <1>4 DEF StartingMap, SettledMap
<1>6. QED
  BY <1>2, <1>3, <1>5 DEF M!Init

\* Every step of the server is a step of the service or shows nothing.
LEMMA ShownNext == SeatInv /\ MutexInv /\ [Next]_serverVars => [M!Next]_(M!vars)
<1> SUFFICES ASSUME SeatInv, MutexInv, [Next]_serverVars
             PROVE  M!Next \/ Shown' = Shown
  BY DEF Shown, M!vars
<1>1. \A k \in Conn : client_idx[k] \in Client /\ msg[k].ready \in BOOLEAN
                      /\ msg[k].game_over \in BOOLEAN
  BY RequestFields DEF SeatInv, TypeOK
<1>2. CASE UNCHANGED vars
  BY <1>2 DEF vars, threadVars, Shown, SeatMap, ReadyMap, OverMap, StartingMap,
              SettledMap, Seated, Occupant
<1>3. ASSUME NEW k \in Conn, AcceptLoop(k)
      PROVE  M!Next \/ Shown' = Shown
  BY <1>3, AcceptStep, HiddenStep DEF AcceptLoop, M!Next
<1>4. ASSUME NEW k \in Conn, Serve(k)
      PROVE  M!Next \/ Shown' = Shown
  <2>1. CASE Join(k) \/ Leave(k) \/ LeaveAfterGame(k) \/ StartGame(k)
    BY <1>1, <2>1, JoinStep, LeaveStep, LeaveAfterGameStep, StartGameStep DEF M!Next
  <2>2. CASE SetReady(k) \/ StoreGameOver(k)
    BY <1>1, <2>2, SetReadyStep, ReportStep DEF M!Next
  <2>3. CASE GameEnd(k) \/ GameEndCommit(k)
    BY <2>3, GameEndStep, GameEndCommitStep DEF M!Next
  <2>4. CASE \/ Start(k) \/ StoreScore(k) \/ Forward(k) \/ Broadcast(k)
             \/ Close(k) \/ ForgetFd(k)
    BY <2>4, HiddenStep
  <2>5. QED
    BY <1>4, <2>1, <2>2, <2>3, <2>4 DEF Serve
<1>5. ASSUME NEW k \in Conn, \/ Disconnect(k)
                             \/ \E m \in Request : Receive(k, m)
      PROVE  Shown' = Shown
  BY <1>5, HiddenStep
<1>6. QED
  BY <1>2, <1>3, <1>4, <1>5, StepKinds DEF Work

\* The server implements the match service: for every number of sockets and
\* whatever clients send, no interleaving of its threads shows a seat, a
\* ready flag, a beginning or an end of a match that the service excludes.
THEOREM ServerImplementsMatch == Spec => ImplementsMatch
<1>1. Spec => [](SeatInv /\ MutexInv)
  BY SeatsInvariant, MutexInvariant, PTL
<1>2. QED
  BY <1>1, ShownInit, ShownNext, PTL DEF Spec, ImplementsMatch, M!Spec
=============================================================================
