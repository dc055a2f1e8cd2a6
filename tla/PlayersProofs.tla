--------------------------- MODULE PlayersProofs ---------------------------
(***************************************************************************)
(* Theorems about Players.tla, for any set of sockets, scores and seeds,   *)
(* any number of toggles, and clients that ask what Peer.tla lets them ask *)
(* and close their sockets whenever they like.                             *)
(***************************************************************************)
EXTENDS Players, ServerProofs, FiniteSetTheorems

-----------------------------------------------------------------------------
(***************************************************************************)
(* The end of a game: the inductive invariant.                             *)
(***************************************************************************)
\* A thread that serves has its own socket in its entry, or, when another
\* thread has been late with fd = -1, none.
OwnSocket == \A k \in Conn : Serving(k) => clients[client_idx[k]].fd \in {k, NoConn}

\* A connected entry has its thread.
EntryServed ==
    \A c \in Client : clients[c].connected =>
        \E k \in Conn : Serving(k) /\ client_idx[k] = c

\* What a request says of game_over its client has reported for good ...
RequestHonest == \A k \in Conn : msg[k].game_over => peer[k].over

\* ... and so has a client whose entry says game_over.
EntryHonest ==
    \A k \in Conn : Serving(k) /\ clients[client_idx[k]].game_over => peer[k].over

EntryInv == OwnSocket /\ EntryServed /\ RequestHonest /\ EntryHonest

\* What the players have reported when a game may end.
ReportedOver == \A s \in Slot : Seated(s) /\ SocketOf(s) # NoConn => peer[SocketOf(s)].over

\* What handle_game_end found still holds when it commits, although the
\* other thread may store a new report in between.
VerdictStands ==
    \A k \in Conn : pc[k] = "game_end_commit" =>
        (\E s \in Slot : Alone(s)) \/ ReportedOver

-----------------------------------------------------------------------------
(***************************************************************************)
(* The views of the players: the inductive invariant.                      *)
(***************************************************************************)
\* Thread k is on its way to broadcast_lobby_update or to start a game.
Owes(k) == pc[k] \in {"broadcast", "start_game"} \/ Removing(k)

\* c, if it is reached in the lobby, has last been sent the lobby as it is.
UpToDate(c) ==
    clients[c].connected /\ clients[c].in_lobby /\ clients[c].fd # NoConn
        => sent[clients[c].fd].view = lobby

\* A client is behind only while a game runs, whose end will be broadcast,
\* or while some thread still owes a broadcast or a start.
ViewOwed ==
    \/ lobby.game_started
    \/ \E k \in Conn : Owes(k)
    \/ \A c \in Client : UpToDate(c)

-----------------------------------------------------------------------------
(***************************************************************************)
(* The server with its players is the server.  What ServerProofs.tla says  *)
(* of the open server then holds of it here.                               *)
(***************************************************************************)
PeersOK == peer \in [Conn -> Peer] /\ closed \in [Conn -> BOOLEAN]

\* A step of thread k once its socket has been accepted.
ThreadStep(k) == Serve(k) \/ Disconnect(k) \/ \E m \in Request : Receive(k, m)

\* Every request of a player is a well-formed request.
LEMMA AsksAreRequests ==
    ASSUME PeersOK, NEW k \in Conn, ClientAsks(k)
    PROVE  /\ peer' \in [Conn -> Peer]
           /\ closed' = closed
           /\ \A l \in Conn \ {k} : peer'[l] = peer[l]
           /\ \E m \in Request : Receive(k, m) /\ (m.game_over => peer'[k].over)
           /\ peer[k].over => peer'[k].over
<1> USE DEF PeersOK
<1>1. closed' = closed
  BY DEF ClientAsks
<1>2. peer[k] \in Peer
  OBVIOUS
<1> DEFINE Good(q, m) == /\ q \in Peer
                         /\ m \in Request
                         /\ m.game_over => q.over
                         /\ peer[k].over => q.over
<1>3. ASSUME NEW q, NEW m, Good(q, m), Asks(k, q, m)
      PROVE  /\ peer' \in [Conn -> Peer]
             /\ \A l \in Conn \ {k} : peer'[l] = peer[l]
             /\ m \in Request /\ Receive(k, m) /\ (m.game_over => peer'[k].over)
             /\ peer[k].over => peer'[k].over
  BY <1>3 DEF Asks
<1>4. ASSUME NEW q \in AfterJoin(peer[k])
      PROVE  Good(q, Ask("LOBBY_JOIN"))
  <2>1. q = [peer[k] EXCEPT !.joined = TRUE]
    BY <1>4 DEF AfterJoin
  <2>2. q \in Peer /\ q.over = peer[k].over
    BY <1>2, <2>1 DEF Peer
  <2> QED BY <2>2, ScoreAssumption DEF Ask, Request
<1>5. ASSUME NEW q \in AfterLeave(peer[k])
      PROVE  Good(q, Ask("LOBBY_LEAVE"))
  <2>1. q = [peer[k] EXCEPT !.left = TRUE]
    BY <1>5 DEF AfterLeave
  <2>2. q \in Peer /\ q.over = peer[k].over
    BY <1>2, <2>1 DEF Peer
  <2> QED BY <2>2, ScoreAssumption DEF Ask, Request
<1>6. ASSUME NEW q \in AfterToggle(peer[k])
      PROVE  Good(q, AskReady(q.ready))
  <2>1. /\ q = [peer[k] EXCEPT !.ready = ~@, !.toggles = @ + 1]
        /\ peer[k].toggles < MaxToggles
    BY <1>6 DEF AfterToggle
  <2>2. peer[k].toggles + 1 \in 0 .. MaxToggles
    BY <1>2, <2>1, BoundAssumption DEF Peer
  <2>3. q \in Peer /\ q.over = peer[k].over
    BY <1>2, <2>1, <2>2 DEF Peer
  <2>4. q.ready \in BOOLEAN
    BY <2>3 DEF Peer
  <2>5. AskReady(q.ready) \in Request /\ ~AskReady(q.ready).game_over
    BY <2>4, ScoreAssumption DEF AskReady, Ask, Request
  <2> QED BY <2>3, <2>5
<1>7. ASSUME NEW q \in AfterReport(peer[k])
      PROVE  Good(q, AskStatus(q.score, q.over))
  <2>1. PICK r \in Score \X BOOLEAN :
             (peer[k].over => r[2]) /\ q = [peer[k] EXCEPT !.score = r[1], !.over = r[2]]
    BY <1>7 DEF AfterReport
  <2>2. q \in Peer /\ q.over = r[2] /\ q.score = r[1]
    BY <1>2, <2>1 DEF Peer
  <2>3. /\ AskStatus(q.score, q.over) \in Request
        /\ AskStatus(q.score, q.over).game_over = q.over
    BY <2>2 DEF AskStatus, Ask, Request
  <2> QED BY <2>1, <2>2, <2>3
<1>8. \E q, m : Good(q, m) /\ Asks(k, q, m)
  <2> HIDE DEF Good
  <2> QED BY <1>4, <1>5, <1>6, <1>7
          DEF ClientAsks, JoinRequest, LeaveRequest, ReadyRequest, Report
<1> QED BY <1>1, <1>3, <1>8

\* What a step is to the server and to the peers, unless it ends the server or
\* leaves it as it is.  The mark of thread k is
\* the only one that may change, and only a request changes its peer.
StepOf(k) ==
    /\ StaysAlive
    /\ peer' \in [Conn -> Peer]
    /\ closed' \in [Conn -> BOOLEAN]
    /\ \A l \in Conn : peer[l].over => peer'[l].over
    /\ \/ AcceptLoop(k) /\ peer' = peer
       \/ (Serve(k) \/ Disconnect(k)) /\ peer' = peer
       \/ \E m \in Request : Receive(k, m) /\ (m.game_over => peer'[k].over)

LEMMA StepCases ==
    ASSUME PeersOK, [PNext]_playersVars
    PROVE  \/ \E k \in Conn : StepOf(k)
           \/ UNCHANGED <<vars, peer>> /\ PeersOK' /\ [Next]_serverVars
<1> USE DEF PeersOK
<1>1. ASSUME NEW k \in Conn, ClientAsks(k)
      PROVE  StepOf(k)
  BY <1>1, AsksAreRequests DEF StepOf, ClientAsks
<1>2. ASSUME NEW k \in Conn, NewSocket(k) \/ Run(k) \/ LostPeer(k)
      PROVE  StepOf(k)
  BY <1>2 DEF StepOf, NewSocket, Run, LostPeer
<1>3. ASSUME NEW k \in Conn, Hangup(k)
      PROVE  UNCHANGED <<vars, peer>> /\ PeersOK' /\ [Next]_serverVars
  BY <1>3 DEF Hangup, StaysAlive, serverVars
<1>4. ASSUME NEW k \in Conn, WriteToTheGone(k)
      PROVE  UNCHANGED <<vars, peer>> /\ PeersOK' /\ [Next]_serverVars
  BY <1>4 DEF WriteToTheGone, BrokenPipe, Next
<1>5. ASSUME \/ Stopped /\ UNCHANGED <<peer, closed>>
             \/ UNCHANGED playersVars
      PROVE  UNCHANGED <<vars, peer>> /\ PeersOK' /\ [Next]_serverVars
  BY <1>5 DEF Stopped, playersVars, serverVars
<1> QED BY <1>1, <1>2, <1>3, <1>4, <1>5 DEF PNext

LEMMA StepIsServer ==
    ASSUME NEW k \in Conn, StepOf(k)
    PROVE  Next
BY DEF StepOf, Next, Work

LEMMA PeersInit == PInit => Init /\ PeersOK
<1>1. NewPeer \in Peer
  BY ScoreAssumption, BoundAssumption DEF NewPeer, Peer
<1> QED BY <1>1 DEF PInit, PeersOK

LEMMA PeersNext == PeersOK /\ [PNext]_playersVars => PeersOK' /\ [Next]_serverVars
BY StepCases, StepIsServer DEF StepOf, PeersOK

\* With clients that ask what a game client asks, the server does nothing
\* that the open server of Server.tla does not do: all that is proved of that
\* one holds of it, whenever clients close their sockets.
THEOREM PlayersKeepServer == PSpec => Spec
<1>1. PSpec => []PeersOK
  BY PeersInit, PeersNext, PTL DEF PSpec
<1> QED BY <1>1, PeersInit, PeersNext, PTL DEF PSpec, Spec

\* The server keeps its types with its players, and the peers keep theirs.
THEOREM PlayersTypes == PSpec => []PTypeOK
<1>1. PSpec => []PeersOK
  BY PeersInit, PeersNext, PTL DEF PSpec
<1>2. TypeOK /\ PeersOK => PTypeOK
  BY DEF PTypeOK, PeersOK
<1> QED BY <1>1, <1>2, PlayersKeepServer, TypeCorrect, PTL

-----------------------------------------------------------------------------
(***************************************************************************)
(* What a step may do to the table of entries.                             *)
(***************************************************************************)
\* A thread changes its own mark only; it may take a socket or a connection
\* out of an entry but puts none in, and what it stores as game_over comes
\* from its request.
Effect(k) ==
    /\ client_idx' = client_idx
    /\ \A l \in Conn \ {k} : pc'[l] = pc[l]
    /\ \A c \in Client : /\ clients'[c].fd \in {clients[c].fd, NoConn}
                         /\ clients'[c].connected => clients[c].connected
                         /\ clients'[c].game_over =>
                              \/ clients[c].game_over
                              \/ Serving(k) /\ c = client_idx[k] /\ msg[k].game_over
    /\ Serving(k)' => Serving(k)
    /\ ~Serving(k)' => \/ ~Serving(k)
                       \/ ~clients'[client_idx[k]].connected

\* The lobby handlers keep the connection of an entry.
Retained(q, p) ==
    q.fd = p.fd /\ q.connected = p.connected /\ q.game_over \in {p.game_over, FALSE}

LEMMA RetainedElsewhere ==
    ASSUME NEW f \in [Client -> ServerClient], NEW i \in Client, NEW p, Retained(p, f[i])
    PROVE  \A c \in Client : Retained([f EXCEPT ![i] = p][c], f[c])
BY DEF Retained

LEMMA RetainedByGame ==
    ASSUME NEW p \in ServerClient
    PROVE  Retained([p EXCEPT !.ready = FALSE, !.score = 0, !.game_over = FALSE], p)
BY DEF Retained, ServerClient

LEMMA RetainedByLeave ==
    ASSUME NEW p \in ServerClient
    PROVE  Retained([p EXCEPT !.in_lobby = FALSE, !.player_id = -1, !.ready = FALSE,
                              !.score = 0, !.game_over = FALSE], p)
BY DEF Retained, ServerClient

LEMMA RetainedByJoin ==
    ASSUME NEW p \in ServerClient, NEW s \in Slot, NEW b \in BOOLEAN
    PROVE  /\ Retained([p EXCEPT !.player_id = s, !.in_lobby = TRUE], p)
           /\ Retained([p EXCEPT !.ready = b], p)
           /\ Retained(p, p)
BY DEF Retained, ServerClient

LEMMA ThreadEffect ==
    ASSUME TypeOK, NEW k \in Conn,
           Serve(k) \/ Disconnect(k) \/ \E m \in Request : Receive(k, m)
    PROVE  Effect(k)
<1> USE DEF TypeOK
<1>1. CASE Disconnect(k) \/ \E m \in Request : Receive(k, m)
  BY <1>1 DEF Disconnect, Receive, Handler, Request, Goto, Effect, Serving
<1>2. CASE Start(k) \/ StartGame(k) \/ Forward(k) \/ GameEnd(k) \/ Broadcast(k)
  <2>1. CASE Start(k) \/ StartGame(k) \/ GameEnd(k)
    BY <2>1 DEF Start, StartGame, GameEnd, Goto, Effect, Serving
  <2>2. CASE Forward(k) \/ Broadcast(k)
    BY <2>2 DEF Forward, Broadcast, Goto, Effect, Serving
  <2> QED BY <1>2, <2>1, <2>2
<1>3. CASE StoreScore(k) \/ StoreGameOver(k)
  <2>1. CASE StoreScore(k)
    BY <2>1 DEF StoreScore, Goto, Effect, Serving, ServerClient
  <2>2. CASE StoreGameOver(k)
    BY <2>2 DEF StoreGameOver, Goto, Effect, Serving, ServerClient
  <2> QED BY <1>3, <2>1, <2>2
<1>4. CASE Close(k) \/ ForgetFd(k)
  <2>1. CASE Close(k)
    BY <2>1 DEF Close, Goto, Effect, Serving, ServerClient
  <2>2. CASE ForgetFd(k)
    BY <2>2 DEF ForgetFd, Goto, Effect, Serving, ServerClient
  <2> QED BY <1>4, <2>1, <2>2
<1> DEFINE OnlyLeaves == \A c \in Client : Retained(clients'[c], clients[c])
<1>5. CASE Join(k) \/ SetReady(k)
  <2>1. OnlyLeaves
    <3>1. msg[k].ready \in BOOLEAN
      BY RequestFields
    <3>2. CASE Join(k)
      <4>1. \/ clients' = clients
            \/ \E s \in Slot : clients' = [clients EXCEPT ![client_idx[k]] =
                                   [@ EXCEPT !.player_id = s, !.in_lobby = TRUE]]
        BY <3>2 DEF Join
      <4>2. ASSUME NEW s \in Slot
            PROVE  Retained([clients[client_idx[k]] EXCEPT !.player_id = s, !.in_lobby = TRUE],
                            clients[client_idx[k]])
        BY RetainedByJoin
      <4>3. CASE clients' = clients
        BY <4>3 DEF Retained
      <4>4. ASSUME NEW s \in Slot,
                   clients' = [clients EXCEPT ![client_idx[k]] =
                                 [@ EXCEPT !.player_id = s, !.in_lobby = TRUE]]
            PROVE  OnlyLeaves
        BY <4>2, <4>4, RetainedElsewhere
      <4> QED BY <4>1, <4>3, <4>4
    <3>3. CASE SetReady(k)
      <4>1. \/ clients' = clients
            \/ clients' = [clients EXCEPT ![client_idx[k]] = [@ EXCEPT !.ready = msg[k].ready]]
        BY <3>3 DEF SetReady
      <4>2. Retained([clients[client_idx[k]] EXCEPT !.ready = msg[k].ready],
                     clients[client_idx[k]])
        BY <3>1, RetainedByJoin, Bounds
      <4>3. CASE clients' = clients
        BY <4>3 DEF Retained
      <4> QED BY <4>1, <4>2, <4>3, RetainedElsewhere
    <3> QED BY <1>5, <3>2, <3>3
  <2>2. /\ pc'[k] \in {"recv", "broadcast", "start_game"} /\ pc[k] \in {"join", "ready"}
        /\ \A l \in Conn \ {k} : pc'[l] = pc[l]
        /\ client_idx' = client_idx
    BY <1>5 DEF Join, SetReady, Goto
  <2> QED BY <2>1, <2>2 DEF Effect, Serving, Retained
<1>6. CASE Leave(k) \/ LeaveAfterGame(k)
  <2>1. OnlyLeaves
    <3>1. clients' \in {clients, LeftLobby(client_idx[k])}
      BY <1>6 DEF Leave, LeaveAfterGame
    <3>2. client_idx[k] \in Client
      OBVIOUS
    <3>3. CASE clients' = clients
      BY <3>3 DEF Retained
    <3>4. Retained([clients[client_idx[k]] EXCEPT
                      !.in_lobby = FALSE, !.player_id = -1, !.ready = FALSE,
                      !.score = 0, !.game_over = FALSE], clients[client_idx[k]])
      BY <3>2, RetainedByLeave
    <3> QED BY <3>1, <3>2, <3>3, <3>4, RetainedElsewhere DEF LeftLobby
  <2>2. /\ pc'[k] \in {"recv", "broadcast", "close", "game_end"}
        /\ pc[k] \in {"leave", "leave2"}
        /\ \A l \in Conn \ {k} : pc'[l] = pc[l]
        /\ client_idx' = client_idx
    BY <1>6 DEF Leave, LeaveAfterGame, AfterRemoval, Goto
  <2> QED BY <2>1, <2>2 DEF Effect, Serving, Retained
<1>7. CASE GameEndCommit(k)
  <2>1. OnlyLeaves
    <3>1. \A c \in Client : clients'[c] \in
             {clients[c], [clients[c] EXCEPT !.ready = FALSE, !.score = 0, !.game_over = FALSE]}
      BY <1>7 DEF GameEndCommit
    <3> QED BY <3>1, RetainedByGame, RetainedByJoin, Bounds
  <2>2. /\ pc'[k] = "broadcast" /\ pc[k] = "game_end_commit"
        /\ \A l \in Conn \ {k} : pc'[l] = pc[l]
        /\ client_idx' = client_idx
    BY <1>7 DEF GameEndCommit, Goto
  <2> QED BY <2>1, <2>2 DEF Effect, Serving, Retained
<1> QED BY <1>1, <1>2, <1>3, <1>4, <1>5, <1>6, <1>7 DEF Serve

\* A new socket takes an entry that no thread serves, or none.
LEMMA AcceptEffect ==
    ASSUME TypeOK, NEW k \in Conn, AcceptLoop(k)
    PROVE  /\ ~Serving(k) /\ UNCHANGED <<lobby, lobby_mutex, msg, ret, result, sent>>
           /\ \A l \in Conn \ {k} : pc'[l] = pc[l] /\ client_idx'[l] = client_idx[l]
           /\ pc'[k] \in {"start", "refused"}
           /\ Serving(k)' <=> pc'[k] = "start"
           /\ \/ Serving(k)' /\ \E i \in Client :
                   /\ ~clients[i].connected
                   /\ client_idx'[k] = i
                   /\ clients' = [clients EXCEPT ![i] = NewClient(k, TRUE)]
              \/ ~Serving(k)' /\ client_idx' = client_idx /\ \E i \in Client :
                   /\ ~clients[i].connected
                   /\ clients' = [clients EXCEPT ![i] = NewClient(k, FALSE)]
              \/ ~Serving(k)' /\ client_idx' = client_idx /\ clients' = clients
<1> USE DEF TypeOK, Goto, Serving, FreeClient
<1>1. CASE Accept(k)
  BY <1>1 DEF Accept
<1>2. CASE AcceptNoThread(k)
  BY <1>2 DEF AcceptNoThread
<1>3. CASE Refuse(k)
  BY <1>3 DEF Refuse
<1> QED BY <1>1, <1>2, <1>3 DEF AcceptLoop

-----------------------------------------------------------------------------
(***************************************************************************)
(* Entries say game_over only for a client that has reported it.           *)
(***************************************************************************)
LEMMA EntryInit == PInit => EntryInv
BY DEF PInit, Init, EntryInv, OwnSocket, EntryServed, RequestHonest, EntryHonest, Serving,
       Eof, Ask

LEMMA RequestStep ==
    ASSUME TypeOK, RequestHonest, NEW k \in Conn, StepOf(k)
    PROVE  RequestHonest'
<1>1. \A l \in Conn : peer[l].over => peer'[l].over
  BY DEF StepOf
<1>2. CASE \E m \in Request : Receive(k, m) /\ (m.game_over => peer'[k].over)
  BY <1>1, <1>2 DEF Receive, RequestHonest, TypeOK
<1>3. CASE Disconnect(k)
  BY <1>1, <1>3 DEF Disconnect, RequestHonest, TypeOK, Eof, Ask
<1>4. CASE AcceptLoop(k)
  BY <1>1, <1>4, AcceptEffect DEF RequestHonest
<1>5. CASE Serve(k)
  <2>1. msg' = msg
    BY <1>5 DEF Serve, Start, Join, Leave, LeaveAfterGame, SetReady, StartGame, StoreScore,
                StoreGameOver, Forward, GameEnd, GameEndCommit, Broadcast, Close, ForgetFd
  <2> QED BY <1>1, <2>1 DEF RequestHonest
<1> QED BY <1>2, <1>3, <1>4, <1>5 DEF StepOf

LEMMA EntryStep ==
    ASSUME SeatInv, EntryInv, NEW k \in Conn, StepOf(k)
    PROVE  EntryInv'
<1> USE DEF EntryInv
<1>1. TypeOK
  BY DEF SeatInv
<1>2. /\ \A l \in Conn : client_idx[l] \in Client /\ (peer[l].over => peer'[l].over)
      /\ NoConn \notin Conn
  BY <1>1, NoConnAssumption DEF TypeOK, StepOf
<1>3. RequestHonest'
  BY <1>1, RequestStep
<1>4. CASE AcceptLoop(k)
  <2>1. \A l \in Conn : Serving(l) => clients[client_idx[l]].connected
    BY DEF SeatInv, OwnEntry
  <2>2. \A l \in Conn \ {k} : (Serving(l)' <=> Serving(l)) /\ client_idx'[l] = client_idx[l]
    BY <1>1, <1>4, AcceptEffect DEF Serving
  <2>3. ~Serving(k)
    BY <1>1, <1>4, AcceptEffect
  <2>4. CASE Serving(k)' /\ \E i \in Client :
               /\ ~clients[i].connected
               /\ client_idx'[k] = i
               /\ clients' = [clients EXCEPT ![i] = NewClient(k, TRUE)]
    <3>1. PICK i \in Client : /\ ~clients[i].connected
                              /\ client_idx'[k] = i
                              /\ clients' = [clients EXCEPT ![i] = NewClient(k, TRUE)]
      BY <2>4
    <3>2. clients'[i].fd = k /\ clients'[i].game_over = FALSE
      BY <1>1, <3>1 DEF NewClient, TypeOK
    <3>3. \A c \in Client \ {i} : clients'[c] = clients[c]
      BY <1>1, <3>1 DEF TypeOK
    <3>4. \A l \in Conn \ {k} : Serving(l) =>
             client_idx[l] # i /\ clients'[client_idx[l]] = clients[client_idx[l]]
      BY <1>2, <2>1, <3>1, <3>3
    <3>5. OwnSocket'
      BY <2>2, <3>1, <3>2, <3>4 DEF OwnSocket
    <3>6. EntryHonest'
      BY <1>2, <2>2, <3>1, <3>2, <3>4 DEF EntryHonest
    <3>7. EntryServed'
      <4> SUFFICES ASSUME NEW c \in Client, clients'[c].connected
                   PROVE  \E l \in Conn : Serving(l)' /\ client_idx'[l] = c
        BY DEF EntryServed
      <4>1. CASE c = i
        BY <2>4, <3>1, <4>1
      <4>2. CASE c # i
        <5>1. PICK l \in Conn : Serving(l) /\ client_idx[l] = c
          BY <3>3, <4>2 DEF EntryServed
        <5> QED BY <2>2, <2>3, <5>1
      <4> QED BY <4>1, <4>2
    <3> QED BY <1>3, <3>5, <3>6, <3>7
  <2>5. CASE ~Serving(k)' /\ client_idx' = client_idx /\ \E i \in Client :
               /\ ~clients[i].connected
               /\ clients' = [clients EXCEPT ![i] = NewClient(k, FALSE)]
    <3>1. PICK i \in Client : /\ ~clients[i].connected
                              /\ clients' = [clients EXCEPT ![i] = NewClient(k, FALSE)]
      BY <2>5
    <3>2. clients'[i].connected = FALSE
      BY <1>1, <3>1 DEF NewClient, TypeOK
    <3>3. \A c \in Client \ {i} : clients'[c] = clients[c]
      BY <1>1, <3>1 DEF TypeOK
    <3>4. \A l \in Conn : Serving(l)' =>
             /\ Serving(l) /\ client_idx'[l] = client_idx[l]
             /\ clients'[client_idx[l]] = clients[client_idx[l]]
      BY <1>2, <2>1, <2>2, <2>5, <3>1, <3>3
    <3>6. OwnSocket' /\ EntryHonest'
      BY <1>2, <3>4 DEF OwnSocket, EntryHonest
    <3>5. EntryServed'
      BY <2>2, <2>3, <2>5, <3>2, <3>3 DEF EntryServed
    <3> QED BY <1>3, <3>6, <3>5
  <2>6. CASE ~Serving(k)' /\ client_idx' = client_idx /\ clients' = clients
    BY <1>2, <1>3, <2>2, <2>3, <2>6 DEF OwnSocket, EntryServed, EntryHonest
  <2> QED BY <1>1, <1>4, <2>4, <2>5, <2>6, AcceptEffect
<1>5. CASE Serve(k) \/ Disconnect(k) \/ \E m \in Request : Receive(k, m)
  <2>1. Effect(k)
    BY <1>1, <1>5, ThreadEffect
  <2>2. \A l \in Conn : Serving(l)' => Serving(l)
    BY <2>1 DEF Effect, Serving
  <2>3. OwnSocket'
    BY <1>2, <2>1, <2>2 DEF Effect, OwnSocket
  <2>4. EntryServed'
    <3> SUFFICES ASSUME NEW c \in Client, clients'[c].connected
                 PROVE  \E l \in Conn : Serving(l)' /\ client_idx'[l] = c
      BY DEF EntryServed
    <3>1. PICK l \in Conn : Serving(l) /\ client_idx[l] = c
      BY <2>1 DEF Effect, EntryServed
    <3>2. Serving(l)'
      BY <2>1, <3>1 DEF Effect, Serving
    <3> QED BY <2>1, <3>1, <3>2 DEF Effect
  <2>5. EntryHonest'
    <3> SUFFICES ASSUME NEW l \in Conn, Serving(l)', clients'[client_idx[l]].game_over
                 PROVE  peer'[l].over
      BY <2>1 DEF EntryHonest, Effect
    <3>1. CASE clients[client_idx[l]].game_over
      BY <1>2, <2>2, <3>1 DEF EntryHonest
    <3>2. CASE Serving(k) /\ client_idx[l] = client_idx[k] /\ msg[k].game_over
      <4>1. Serving(l) /\ Serving(k)
        BY <2>2, <3>2
      <4>2. l = k
        BY <3>2, <4>1 DEF SeatInv, OwnEntry
      <4> QED BY <1>2, <3>2, <4>2 DEF RequestHonest
    <3> QED BY <1>2, <2>1, <3>1, <3>2 DEF Effect
  <2> QED BY <1>3, <2>3, <2>4, <2>5
<1> QED BY <1>4, <1>5 DEF StepOf

-----------------------------------------------------------------------------
(***************************************************************************)
(* A verdict of handle_game_end stands until it is committed.              *)
(***************************************************************************)
\* all_finished counts reports, not what is left of an earlier game.
LEMMA FinishedReported ==
    ASSUME SeatInv, EntryInv, AllFinished
    PROVE  ReportedOver
<1> SUFFICES ASSUME NEW s \in Slot, Seated(s), SocketOf(s) # NoConn
             PROVE  peer[SocketOf(s)].over
  BY DEF ReportedOver
<1>1. /\ Occupant(s) \in Client /\ clients[Occupant(s)].connected
      /\ clients[Occupant(s)].game_over
  BY DEF SeatInv, SeatsNamed, TypeOK, LobbyRoom, LobbyPlayer, Occupant, AllFinished
<1>2. PICK k \in Conn : Serving(k) /\ client_idx[k] = Occupant(s)
  BY <1>1 DEF EntryInv, EntryServed
<1>3. SocketOf(s) = k
  BY <1>2 DEF EntryInv, OwnSocket, SocketOf
<1> QED BY <1>1, <1>2, <1>3 DEF EntryInv, EntryHonest

\* While a thread is about to commit, no other one touches the lobby, and
\* the sockets of the seated players stay or are forgotten.
LEMMA OthersWait ==
    ASSUME SeatInv, MutexInv, NEW k \in Conn, StepOf(k),
           NEW l \in Conn \ {k}, pc[l] = "game_end_commit"
    PROVE  /\ lobby' = lobby
           /\ \A s \in Slot : Seated(s) => SocketOf(s)' \in {SocketOf(s), NoConn}
<1>1. lobby_mutex = l /\ ~Locked(k) /\ pc[k] # "game_end_commit"
  BY NoConnAssumption DEF MutexInv, MutexHeld, Locked
<1>2. TypeOK /\ \A s \in Slot : Seated(s) =>
        /\ Occupant(s) \in Client
        /\ clients[Occupant(s)].connected
  BY DEF SeatInv, SeatsNamed, TypeOK, LobbyRoom, LobbyPlayer, Occupant
<1>3. CASE AcceptLoop(k)
  <2>1. \A c \in Client : clients[c].connected => clients'[c] = clients[c]
    BY <1>2, <1>3, AcceptEffect DEF TypeOK
  <2> QED BY <1>2, <1>3, <2>1, AcceptEffect DEF SocketOf, Occupant
<1>4. CASE Serve(k) \/ Disconnect(k) \/ \E m \in Request : Receive(k, m)
  <2>1. lobby' = lobby
    BY <1>1, <1>4 DEF Disconnect, Receive, Serve, Start, Join, Leave, LeaveAfterGame, SetReady,
          StartGame, StoreScore, StoreGameOver, Forward, GameEnd, GameEndCommit,
          Broadcast, Close, ForgetFd
  <2> QED BY <1>2, <1>4, <2>1, ThreadEffect DEF Effect, SocketOf, Occupant
<1> QED BY <1>3, <1>4 DEF StepOf

\* Only the decision of handle_game_end leads to its commit.
LEMMA CommitAfterDecision ==
    ASSUME TypeOK, NEW k \in Conn, StepOf(k), pc'[k] = "game_end_commit"
    PROVE  GameEnd(k) /\ Decided /\ UNCHANGED <<clients, lobby, peer>>
<1> USE DEF TypeOK, Goto
<1>1. ~AcceptLoop(k)
  BY AcceptEffect
<1>2. ~Disconnect(k) /\ ~\E m \in Request : Receive(k, m)
  BY DEF Disconnect, Receive, Handler, Request
<1>3. ~(Start(k) \/ Join(k) \/ Leave(k) \/ LeaveAfterGame(k) \/ SetReady(k) \/ StartGame(k))
  BY DEF Start, Join, Leave, LeaveAfterGame, SetReady, StartGame, AfterRemoval
<1>4. ~(\/ StoreScore(k) \/ StoreGameOver(k) \/ Forward(k) \/ GameEndCommit(k)
        \/ Broadcast(k) \/ Close(k) \/ ForgetFd(k))
  BY DEF StoreScore, StoreGameOver, Forward, GameEndCommit, Broadcast, Close, ForgetFd
<1>5. GameEnd(k) /\ peer' = peer
  BY <1>1, <1>2, <1>3, <1>4 DEF StepOf, Serve
<1>6. Decided
  BY <1>5 DEF GameEnd
<1> QED BY <1>5, <1>6 DEF GameEnd

LEMMA VerdictStep ==
    ASSUME SeatInv, MutexInv, EntryInv, VerdictStands, NEW k \in Conn, StepOf(k)
    PROVE  VerdictStands'
<1> SUFFICES ASSUME NEW l \in Conn, pc'[l] = "game_end_commit"
             PROVE  (\E s \in Slot : Alone(s)') \/ ReportedOver'
  BY DEF VerdictStands
<1>1. TypeOK /\ NoConn \notin Conn
  BY NoConnAssumption DEF SeatInv
<1>2. CASE l = k
  <2>1. Decided /\ UNCHANGED <<clients, lobby, peer>>
    BY <1>1, <1>2, CommitAfterDecision
  <2>2. CASE \E s \in Slot : Alone(s)
    BY <2>1, <2>2 DEF Alone, Seated
  <2>3. CASE AllFinished
    <3>1. ReportedOver
      BY <2>3, FinishedReported
    <3> QED BY <2>1, <3>1 DEF ReportedOver, Seated, SocketOf, Occupant
  <2> QED BY <2>1, <2>2, <2>3 DEF Decided
<1>3. CASE l # k
  <2>1. pc[l] = "game_end_commit"
    <3>1. CASE AcceptLoop(k)
      BY <1>1, <1>3, <3>1, AcceptEffect
    <3>2. CASE Serve(k) \/ Disconnect(k) \/ \E m \in Request : Receive(k, m)
      BY <1>1, <1>3, <3>2, ThreadEffect DEF Effect
    <3> QED BY <3>1, <3>2 DEF StepOf
  <2>2. /\ lobby' = lobby
        /\ \A s \in Slot : Seated(s) => SocketOf(s)' \in {SocketOf(s), NoConn}
    BY <1>3, <2>1, OthersWait
  <2>3. \A s \in Slot : Seated(s)' <=> Seated(s)
    BY <2>2 DEF Seated
  <2>4. CASE \E s \in Slot : Alone(s)
    BY <2>3, <2>4 DEF Alone
  <2>5. CASE ReportedOver
    <3>1. \A s \in Slot : Seated(s) => SocketOf(s) \in Fd
      BY <1>1 DEF SeatInv, TypeOK, ServerClient, LobbyRoom, LobbyPlayer, Occupant, SocketOf
    <3>2. \A j \in Conn : peer[j].over => peer'[j].over
      BY DEF StepOf
    <3> QED BY <2>2, <2>3, <2>5, <3>1, <3>2 DEF ReportedOver, Fd
  <2> QED BY <2>1, <2>4, <2>5 DEF VerdictStands
<1> QED BY <1>2, <1>3

-----------------------------------------------------------------------------
(***************************************************************************)
(* The invariant as a whole, and the end of the game.                      *)
(***************************************************************************)
GameInv == PeersOK /\ SeatInv /\ MutexInv /\ EntryInv /\ VerdictStands

LEMMA GameInit == PInit => GameInv
BY PeersInit, SeatInit, MutexInit, EntryInit
DEF PInit, Init, GameInv, VerdictStands

LEMMA GameNext == GameInv /\ [PNext]_playersVars => GameInv'
<1> SUFFICES ASSUME GameInv, [PNext]_playersVars
             PROVE  GameInv'
  OBVIOUS
<1>1. PeersOK' /\ SeatInv' /\ MutexInv'
  BY PeersNext, SeatNext, MutexNext DEF GameInv
<1>2. CASE UNCHANGED <<vars, peer>>
  BY <1>1, <1>2 DEF vars, threadVars, GameInv, EntryInv, OwnSocket, EntryServed,
     RequestHonest, EntryHonest, VerdictStands, ReportedOver, Serving, Alone, Seated,
     SocketOf, Occupant
<1>3. ASSUME NEW k \in Conn, StepOf(k)
      PROVE  GameInv'
  BY <1>1, <1>3, EntryStep, VerdictStep DEF GameInv
<1> QED BY <1>2, <1>3, StepCases DEF GameInv

\* One player, or none, has its socket among the players.
LEMMA AtMostOnePlayer ==
    ASSUME NEW r \in Slot, \A s \in Slot : Seated(s) => s = r
    PROVE  Cardinality(Players) <= 1
<1>1. Players = {} \/ Players = {SocketOf(r)}
  BY DEF Players
<1>2. Cardinality({}) = 0 /\ Cardinality({SocketOf(r)}) = 1
  BY FS_EmptySet, FS_Singleton
<1> QED BY <1>1, <1>2

\* A step that ends a game is the commit of handle_game_end, or the rest of
\* remove_player_from_lobby.
LEMMA WhoEnds ==
    ASSUME TypeOK, NEW k \in Conn, StepOf(k), lobby.game_started, ~lobby'.game_started
    PROVE  GameEndCommit(k) \/ LeaveAfterGame(k)
<1>1. ~AcceptLoop(k)
  BY AcceptEffect
<1>2. ~(\/ Disconnect(k) \/ Start(k) \/ StoreScore(k) \/ StoreGameOver(k) \/ Forward(k)
        \/ GameEnd(k) \/ Broadcast(k) \/ Close(k) \/ ForgetFd(k)
        \/ \E m \in Request : Receive(k, m))
  BY DEF Disconnect, Start, StoreScore, StoreGameOver, Forward, GameEnd, Broadcast, Close,
         ForgetFd, Receive
<1>3. ~(Join(k) \/ Leave(k) \/ SetReady(k) \/ StartGame(k))
  BY DEF Join, Leave, SetReady, StartGame, Vacated, TypeOK, LobbyRoom
<1> QED BY <1>1, <1>2, <1>3 DEF StepOf, Serve

\* A game with two players ends only once both have reported their game over
\* (server.c:286-411): no leave, no late report and no value left from an
\* earlier game ends it sooner.
THEOREM EndsWhenOver == PSpec => EndsOnlyWhenOver
<1>1. ASSUME GameInv, [PNext]_playersVars, lobby.game_started, ~lobby'.game_started
      PROVE  Cardinality(Players) <= 1 \/ \A k \in Players : peer[k].over
  <2> USE DEF GameInv
  <2>1. TypeOK
    BY <1>1 DEF SeatInv
  <2>2. PICK k \in Conn : StepOf(k)
    BY <1>1, StepCases DEF vars
  <2>3. CASE GameEndCommit(k)
    <3>1. CASE \E s \in Slot : Alone(s)
      <4>1. PICK r \in Slot : \A s \in Slot : Seated(s) => s = r
        BY <3>1 DEF Alone
      <4> QED BY <4>1, AtMostOnePlayer
    <3>2. CASE ReportedOver
      BY <3>2 DEF ReportedOver, Players
    <3> QED BY <1>1, <2>3, <3>1, <3>2 DEF GameEndCommit, VerdictStands
  <2>4. CASE LeaveAfterGame(k)
    <3>1. client_idx[k] \in Client /\ Removing(k)
      BY <2>1, <2>4 DEF TypeOK, LeaveAfterGame, Removing
    <3>2. \A s \in Slot : Seated(s) => /\ Occupant(s) \in Client \ {client_idx[k]}
                                       /\ clients[Occupant(s)].player_id = s
      BY <1>1, <2>1, <3>1 DEF SeatInv, SeatsNamed, RemovedUnseated, TypeOK, LobbyRoom,
                              LobbyPlayer, Occupant
    <3>3. \A s, t \in Slot : Seated(s) /\ Seated(t) => s = t
      BY <3>1, <3>2, Bounds
    <3>4. PICK r \in Slot : \A s \in Slot : Seated(s) => s = r
      BY <3>3, Bounds
    <3> QED BY <3>4, AtMostOnePlayer
  <2> QED BY <1>1, <2>1, <2>2, <2>3, <2>4, WhoEnds
<1>2. GameInv /\ [PNext]_playersVars =>
        [lobby.game_started /\ ~lobby'.game_started =>
           Cardinality(Players) <= 1 \/ \A k \in Players : peer[k].over]_playersVars
  BY <1>1
<1> QED BY <1>2, GameInit, GameNext, PTL DEF PSpec, EndsOnlyWhenOver

-----------------------------------------------------------------------------
(***************************************************************************)
(* What the players see.  The stream of a socket is that of Note.          *)
(***************************************************************************)
NotesStream == \A str, m : Deliver(str, m) = Note(str, m)

\* Every message other than an update leaves the view of its reader alone.
LEMMA ViewUnmoved ==
    ASSUME NotesStream, NEW mail, Post(mail),
           \A f \in DOMAIN mail : mail[f].type # "LOBBY_UPDATE"
    PROVE  \A f \in Conn : sent'[f].view = sent[f].view
BY DEF NotesStream, Note, Post

\* A step of a thread that owes nothing, that leaves lobby and streams alone
\* and brings nobody into the lobby, keeps everybody as far as they were.
LEMMA ViewFrame ==
    ASSUME TypeOK, ViewOwed, NEW k \in Conn, ~Owes(k), lobby' = lobby,
           \A l \in Conn \ {k} : pc'[l] = pc[l] /\ ret'[l] = ret[l],
           \A f \in Conn : sent'[f].view = sent[f].view,
           \A c \in Client : clients'[c].connected /\ clients'[c].in_lobby =>
               /\ clients[c].connected /\ clients[c].in_lobby
               /\ clients'[c].fd \in {clients[c].fd, NoConn}
    PROVE  ViewOwed'
<1>1. \A l \in Conn \ {k} : Owes(l) => Owes(l)'
  BY DEF Owes, Removing
<1>2. \A c \in Client : UpToDate(c) => UpToDate(c)'
  BY DEF UpToDate, TypeOK, ServerClient, Fd
<1> QED BY <1>1, <1>2 DEF ViewOwed

\* Outside the lobby handlers nobody changes who is in the lobby.
LEMMA ViewReceiving ==
    ASSUME TypeOK, ViewOwed, NEW k \in Conn,
           \/ AcceptLoop(k) \/ Disconnect(k) \/ \E m \in Request : Receive(k, m)
           \/ Start(k) \/ StoreScore(k) \/ StoreGameOver(k) \/ Close(k) \/ ForgetFd(k)
    PROVE  ViewOwed'
<1> USE DEF TypeOK
<1>1. pc[k] \in {"new", "recv", "start", "status", "score_stored", "over_stored", "close",
                 "close2"}
  BY DEF AcceptLoop, Accept, AcceptNoThread, Refuse, Disconnect, Receive, Start, StoreScore,
         StoreGameOver, Close, ForgetFd
<1>2. ~Owes(k)
  BY <1>1 DEF Owes, Removing
<1>3. /\ UNCHANGED <<lobby, sent, ret>>
      /\ \A l \in Conn \ {k} : pc'[l] = pc[l]
  BY DEF AcceptLoop, Accept, AcceptNoThread, Refuse, Disconnect, Receive, Start, StoreScore,
         StoreGameOver, Close, ForgetFd, Goto
<1>4. \A c \in Client : clients'[c].connected /\ clients'[c].in_lobby =>
               /\ clients[c].connected /\ clients[c].in_lobby
               /\ clients'[c].fd \in {clients[c].fd, NoConn}
  <2>1. CASE AcceptLoop(k)
    <3>1. \/ clients' = clients
          \/ \E i \in Client, b \in BOOLEAN : clients' = [clients EXCEPT ![i] = NewClient(k, b)]
      BY <2>1, AcceptEffect
    <3>2. ASSUME NEW i \in Client, NEW b \in BOOLEAN,
                 clients' = [clients EXCEPT ![i] = NewClient(k, b)]
          PROVE  ~clients'[i].in_lobby /\ \A c \in Client \ {i} : clients'[c] = clients[c]
      BY <3>2 DEF NewClient
    <3> QED BY <3>1, <3>2
  <2>2. CASE Disconnect(k) \/ Start(k) \/ \E m \in Request : Receive(k, m)
    BY <2>2 DEF Disconnect, Start, Receive
  <2>3. CASE StoreScore(k) \/ StoreGameOver(k) \/ Close(k) \/ ForgetFd(k)
    <3>1. CASE StoreScore(k)
      BY <3>1 DEF StoreScore, ServerClient
    <3>2. CASE StoreGameOver(k)
      BY <3>2 DEF StoreGameOver, ServerClient
    <3>3. CASE Close(k)
      BY <3>3 DEF Close, ServerClient
    <3>4. CASE ForgetFd(k)
      BY <3>4 DEF ForgetFd, ServerClient
    <3> QED BY <2>3, <3>1, <3>2, <3>3, <3>4
  <2> QED BY <2>1, <2>2, <2>3
<1> QED BY <1>2, <1>3, <1>4, ViewFrame

\* A handler that changes the lobby owes a broadcast or a start; the others
\* leave the lobby as it is.
LEMMA ViewHandlers ==
    ASSUME TypeOK, ViewOwed, NEW k \in Conn,
           Join(k) \/ Leave(k) \/ LeaveAfterGame(k) \/ SetReady(k) \/ GameEndCommit(k)
    PROVE  ViewOwed'
<1> USE DEF TypeOK
<1>1. CASE /\ pc'[k] \in {"recv", "close"} /\ pc[k] \in {"join", "leave", "ready"}
           /\ UNCHANGED <<clients, lobby, ret, sent>>
           /\ \A l \in Conn \ {k} : pc'[l] = pc[l]
  BY <1>1, ViewFrame DEF Owes, Removing
<1>2. CASE \/ pc'[k] \in {"broadcast", "start_game"}
           \/ pc'[k] = "game_end" /\ ret'[k] = "leave2"
  BY <1>2 DEF ViewOwed, Owes, Removing
<1>3. CASE Join(k)
  BY <1>1, <1>2, <1>3 DEF Join, Goto
<1>4. CASE Leave(k)
  BY <1>1, <1>2, <1>4 DEF Leave, AfterRemoval, Goto
<1>5. CASE SetReady(k)
  BY <1>1, <1>2, <1>5 DEF SetReady, Goto
<1>6. CASE LeaveAfterGame(k) \/ GameEndCommit(k)
  BY <1>2, <1>6 DEF LeaveAfterGame, GameEndCommit, Goto
<1> QED BY <1>3, <1>4, <1>5, <1>6

LEMMA ViewGame ==
    ASSUME NotesStream, TypeOK, ViewOwed, NEW k \in Conn,
           StartGame(k) \/ Forward(k) \/ GameEnd(k)
    PROVE  ViewOwed'
<1> USE DEF TypeOK
<1>1. CASE StartGame(k)
  BY <1>1 DEF StartGame, ViewOwed, LobbyRoom
<1>2. CASE Forward(k)
  <2>1. \A f \in Conn : sent'[f].view = sent[f].view
    <3>1. CASE lobby.game_started
      <4> DEFINE mail == [f \in OtherSockets(k) |-> StatusMsg(msg[k])]
      <4>1. Post(mail)
        BY <1>2, <3>1 DEF Forward
      <4>2. \A f \in DOMAIN mail : mail[f].type # "LOBBY_UPDATE"
        BY DEF StatusMsg
      <4> HIDE DEF mail
      <4> QED BY <4>1, <4>2, ViewUnmoved
    <3>2. CASE ~lobby.game_started
      BY <1>2, <3>2 DEF Forward
    <3> QED BY <3>1, <3>2
  <2>2. ~Owes(k) /\ UNCHANGED <<clients, lobby>>
    BY <1>2 DEF Forward, Owes, Removing
  <2>3. \A l \in Conn \ {k} : pc'[l] = pc[l] /\ ret'[l] = ret[l]
    BY <1>2 DEF Forward, Goto
  <2> QED BY <2>1, <2>2, <2>3, ViewFrame
<1>3. CASE GameEnd(k)
  <2>1. /\ UNCHANGED <<clients, lobby, sent, ret>>
        /\ pc[k] = "game_end"
        /\ pc'[k] \in {"game_end_commit", "broadcast", ret[k]}
        /\ \A l \in Conn \ {k} : pc'[l] = pc[l]
    BY <1>3 DEF GameEnd, Goto
  <2>2. CASE ret[k] = "leave2"
    <3>1. Owes(k)'
      BY <2>1, <2>2 DEF Owes, Removing
    <3> QED BY <3>1 DEF ViewOwed
  <2>3. CASE ret[k] # "leave2"
    <3>1. ~Owes(k)
      BY <2>1, <2>3 DEF Owes, Removing
    <3> QED BY <2>1, <3>1, ViewFrame
  <2> QED BY <2>2, <2>3
<1> QED BY <1>1, <1>2, <1>3

\* A broadcast brings everybody in the lobby up to date at once.
LEMMA ViewBroadcast ==
    ASSUME NotesStream, TypeOK, ViewOwed, NEW k \in Conn, Broadcast(k)
    PROVE  ViewOwed'
<1> DEFINE members == {c \in Client : clients[c].connected /\ clients[c].in_lobby}
           mail == [f \in MemberSockets |-> UpdateMsg(lobby)]
<1>1. Post(mail) /\ UNCHANGED <<clients, lobby>>
  BY DEF Broadcast
<1>2. ASSUME NEW c \in members, clients[c].fd # NoConn
      PROVE  sent'[clients[c].fd].view = lobby
  <2>1. clients[c].fd \in Conn /\ clients[c].fd \in DOMAIN mail
    BY <1>2 DEF MemberSockets, TypeOK, ServerClient, Fd
  <2>2. sent'[clients[c].fd] = Note(sent[clients[c].fd], UpdateMsg(lobby))
    BY <1>1, <2>1 DEF Post, NotesStream
  <2> QED BY <2>2 DEF Note, UpdateMsg
<1>3. \A c \in Client : UpToDate(c)'
  BY <1>1, <1>2 DEF UpToDate
<1> QED BY <1>3 DEF ViewOwed

LEMMA ViewNext ==
    ASSUME NotesStream
    PROVE  TypeOK /\ ViewOwed /\ [Next]_serverVars => ViewOwed'
<1> SUFFICES ASSUME TypeOK, ViewOwed, [Next]_serverVars
             PROVE  ViewOwed'
  OBVIOUS
<1>1. CASE UNCHANGED vars
  BY <1>1 DEF vars, threadVars, ViewOwed, Owes, Removing, UpToDate
<1>2. ASSUME NEW k \in Conn,
             \/ AcceptLoop(k) \/ Serve(k) \/ Disconnect(k)
             \/ \E m \in Request : Receive(k, m)
      PROVE  ViewOwed'
  BY <1>2, ViewReceiving, ViewHandlers, ViewGame, ViewBroadcast DEF Serve
<1> QED BY <1>1, <1>2, StepKinds DEF Work

\* Whoever is in the lobby has been sent the lobby as it is once all threads
\* wait in recv() and no game runs, although changes and broadcasts are
\* sections of their own (server.c:196-199, 242-244, 282-283): a change is
\* followed by a broadcast that is still owed, or by a game whose end is.
THEOREM ViewsAreFresh ==
    ASSUME NotesStream
    PROVE  PSpec => []ViewFresh
<1>1. PInit => ViewOwed
  BY DEF PInit, Init, ViewOwed, UpToDate
<1>2. TypeOK /\ ViewOwed /\ [Next]_serverVars => ViewOwed'
  BY ViewNext
<1>3. ViewOwed => ViewFresh
  <2> SUFFICES ASSUME ViewOwed, Quiet, ~lobby.game_started
               PROVE  \A c \in Client : UpToDate(c)
    BY DEF ViewFresh, UpToDate
  <2>1. \A k \in Conn : ~Owes(k)
    BY DEF Quiet, Idle, Owes, Removing
  <2> QED BY <2>1 DEF ViewOwed
<1>4. PSpec => []TypeOK
  BY PlayersKeepServer, TypeCorrect, PTL
<1>5. PSpec => [][Next]_serverVars
  BY PlayersKeepServer, PTL DEF Spec
<1> QED BY <1>1, <1>2, <1>3, <1>4, <1>5, PTL DEF PSpec
=============================================================================
