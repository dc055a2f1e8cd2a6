------------------------------ MODULE Players ------------------------------
(***************************************************************************)
(* The match server together with the game clients it was written for.     *)
(*                                                                         *)
(* What a client may ask is stated in Peer.tla.  A client may close its    *)
(* socket or be killed at any time.                                        *)
(*                                                                         *)
(* A request is handed over when recv() returns it, and what the client    *)
(* has read of its stream may be any prefix of what was sent: a request is *)
(* possible when some such prefix leads the client to send it.             *)
(***************************************************************************)
EXTENDS Server, Peer, FiniteSets

VARIABLES
    peer,     \* what each client has asked and reported so far
    closed    \* whether it has closed its socket

playersVars == <<serverVars, peer, closed>>

-----------------------------------------------------------------------------
(***************************************************************************)
(* The stream of a client, reduced to what its handlers and the properties *)
(* ask of it: the last lobby, and whether some prefix says that a game     *)
(* runs.                                                                   *)
(***************************************************************************)
Silence == [view |-> EmptyLobby, told |-> FALSE]

Note(str, m) ==
    [view |-> IF m.type = "LOBBY_UPDATE" THEN m.lobby ELSE str.view,
     told |-> \/ str.told
              \/ m.type = "GAME_START"
              \/ m.type = "LOBBY_UPDATE" /\ m.lobby.game_started]

\* The same where no property asks for the lobby.
Heard(str, m) == [Note(str, m) EXCEPT !.view = EmptyLobby]

-----------------------------------------------------------------------------
\* Every variable of the server and of its peers has its type.
PTypeOK ==
    /\ TypeOK
    /\ peer \in [Conn -> Peer]
    /\ closed \in [Conn -> BOOLEAN]

PInit ==
    /\ Init
    /\ peer = [k \in Conn |-> NewPeer]
    /\ closed = [k \in Conn |-> FALSE]

Asks(k, q, m) ==
    /\ Receive(k, m)
    /\ peer' = [peer EXCEPT ![k] = q]

JoinRequest(k) == \E q \in AfterJoin(peer[k]) : Asks(k, q, Ask("LOBBY_JOIN"))

LeaveRequest(k) == \E q \in AfterLeave(peer[k]) : Asks(k, q, Ask("LOBBY_LEAVE"))

ReadyRequest(k) == \E q \in AfterToggle(peer[k]) : Asks(k, q, AskReady(q.ready))

Report(k) ==
    /\ sent[k].told
    /\ \E q \in AfterReport(peer[k]) : Asks(k, q, AskStatus(q.score, q.over))

\* The client closes its socket or is killed.
Hangup(k) ==
    /\ pc[k] \notin {"new", "refused", "done"}
    /\ ~closed[k]
    /\ closed' = [closed EXCEPT ![k] = TRUE]
    /\ StaysAlive
    /\ UNCHANGED <<vars, peer>>

ClientAsks(k) ==
    /\ StaysAlive
    /\ ~closed[k]
    /\ JoinRequest(k) \/ LeaveRequest(k) \/ ReadyRequest(k) \/ Report(k)
    /\ UNCHANGED closed

\* recv() <= 0: the client is gone, or the thread read fd = -1.
LostPeer(k) ==
    /\ StaysAlive
    /\ closed[k] \/ client_fd[k] = NoConn
    /\ Disconnect(k)
    /\ UNCHANGED <<peer, closed>>

Run(k) == StaysAlive /\ Serve(k) /\ UNCHANGED <<peer, closed>>

NewSocket(k) == StaysAlive /\ AcceptLoop(k) /\ UNCHANGED <<peer, closed>>

\* A thread writes to a client that is gone, and the server with it.
WriteToTheGone(k) ==
    /\ \E f \in Conn : closed[f] /\ BrokenPipe(k, f)
    /\ UNCHANGED <<peer, closed>>

PNext ==
    \/ \E k \in Conn : NewSocket(k) \/ Run(k) \/ LostPeer(k) \/ ClientAsks(k)
                       \/ Hangup(k) \/ WriteToTheGone(k)
    \/ Stopped /\ UNCHANGED <<peer, closed>>

PSpec == PInit /\ [][PNext]_playersVars

\* As long as the server lives, the scheduler runs every thread that can run
\* and recv() returns once the peer is gone.  Clients owe nothing.  Weak
\* fairness is enough for the mutex: it is held across steps only by a
\* thread about to commit, and each commit needs a new report or leave.
Fairness == \A k \in Conn : WF_playersVars(Run(k)) /\ WF_playersVars(LostPeer(k))

FairSpec == PSpec /\ Fairness

-----------------------------------------------------------------------------
(***************************************************************************)
(* What the players are promised.                                          *)
(***************************************************************************)
Idle(k) == pc[k] \in {"new", "refused", "recv", "done"}
Quiet == \A k \in Conn : Idle(k)

\* The sockets of the seated players, as far as the server still knows them.
Players == {SocketOf(s) : s \in {t \in Slot : Seated(t)}} \ {NoConn}

\* Every change of the lobby is broadcast in a section of its own, after the
\* mutex of the change has been released (server.c:196-199, 242-244,
\* 282-283), so updates of two threads may be sent in either order and one of
\* them twice.  Once all threads wait in recv() and no game runs, every
\* client in the lobby has nevertheless been sent the lobby as it is.
ViewFresh ==
    Quiet /\ ~lobby.game_started =>
        \A c \in Client :
            clients[c].connected /\ clients[c].in_lobby /\ clients[c].fd # NoConn
            => sent[clients[c].fd].view = lobby

\* A game that two players play is over only when both have reported their
\* game over: neither a leave racing with a report, nor the unconditional
\* game_started = 0 of remove_player_from_lobby (server.c:229), nor a
\* game_over left from an earlier game stops it sooner.
EndsOnlyWhenOver ==
    [][lobby.game_started /\ ~lobby'.game_started =>
         Cardinality(Players) <= 1 \/ \A k \in Players : peer[k].over]_playersVars

\* Unless a write to a client that is gone ends the server: a thread that has
\* taken a request gets back to recv() or ends.  No path keeps lobby_mutex,
\* takes it twice, or loops (the nested call of handle_game_end in
\* remove_player_from_lobby, the early returns).
EveryRequestServed ==
    \A k \in Conn : ~Idle(k) ~> Idle(k) \/ ~alive

\* Unless a write to a client that is gone ends the server: a game whose
\* players have all reported their game over ends.  Of two last reports that
\* race, at least one thread finds the other's stored when it decides
\* (server.c:287-288, 331-341, 450-454), and a player that leaves between
\* them does not take the decision with it.
GameConcluded ==
    lobby.game_started /\ Players # {} /\ (\A k \in Players : peer[k].over)
        ~> ~lobby.game_started \/ ~alive

\* A client that goes away, at whatever point of whatever request, gives its
\* seat and its table entry back, or takes the server with it: the other
\* thread, or its own on the way out, may be about to write to its socket
\* (server.c:53, 76, 310, 410), and nothing handles the SIGPIPE.  It never
\* leaves a thread or a seat behind in a server that goes on.
SeatReleased ==
    \A k \in Conn : closed[k] ~> pc[k] = "done" \/ ~alive

-----------------------------------------------------------------------------
(***************************************************************************)
(* What the comments of the code say and the code does not keep; each is   *)
(* refuted by a run of its own.                                            *)
(***************************************************************************)
\* "The game starts when all players are ready and the lobby is full", says
\* server.c:274.  The test is made under the mutex, the start is not.
StartsOnlyWhenAllReady ==
    [][\A k \in Conn : StartGame(k) =>
         lobby.player_count = LOBBY_SIZE /\ AllReady(lobby)]_playersVars

\* "Holds the final scores of both clients", says server.c:363 of the result
\* of a game that both finished.
FinalScores ==
    \A k \in Conn, s \in Slot :
        /\ pc[k] = "game_end_commit"
        /\ \A t \in Slot : Seated(t) /\ SocketOf(t) # NoConn
        => result[k].player_scores[s] = peer[SocketOf(s)].score

\* A client that was taken into the lobby "is sent" it, server.c:199.
JoinAnnounced ==
    \A k \in Conn :
        Idle(k) /\ pc[k] = "recv" /\ clients[client_idx[k]].in_lobby =>
            sent[k].view.player_count > 0

=============================================================================
