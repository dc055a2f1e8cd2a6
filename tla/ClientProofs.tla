---------------------------- MODULE ClientProofs ----------------------------
(***************************************************************************)
(* Theorems about Client.tla, for any scores, seeds, queue and number of   *)
(* toggles, and whatever the server sends.                                 *)
(***************************************************************************)
EXTENDS Client, TLAPS

-----------------------------------------------------------------------------
(***************************************************************************)
(* The inductive invariant.                                                *)
(***************************************************************************)
QueuesOK == inbox \in Seq(Mail) /\ out \in Seq(Request)

\* The network thread runs only after the lobby screen.
ThreadsLater == net # "none" => screen \in {"join_game", "join_net", "exit"}

\* A result that is being shown is the first message.
ResultFirst == screen = "result" \/ net = "result" => Got("GAME_END")

\* A started game is believed only after the server has told of one.
ToldFirst ==
    /\ network_lobby.game_started => told
    /\ net = "report" => told
    /\ \A i \in 1 .. Len(inbox) : Tells(inbox[i]) => told

\* Nothing is asked before the lobby screen ...
BeforeJoin == screen \in {"start", "menu", "join"} => asked = NewPeer

\* ... and on it nothing has been reported, and the last ready that was sent
\* is my_ready, as long as the connection takes anything.
OnScreen ==
    screen \in {"lobby", "poll", "result"} =>
        /\ InLobbyScreen(asked)
        /\ link \in {"up", "closed"} => asked.ready = my_ready

\* What was reported is last_sent_status, and it is not ahead of the game.
ReportsBehind ==
    /\ asked.score = last_sent_status.score
    /\ asked.over = last_sent_status.game_over
    /\ last_sent_status.score <= score
    /\ net = "report" => last_sent_status.score <= status_score
    /\ status_score <= score
    /\ last_sent_status.game_over => game_over

Typed == CTypeOK /\ QueuesOK
Turns == ThreadsLater /\ ResultFirst
Order == BeforeJoin /\ OnScreen /\ ReportsBehind

IInv == Typed /\ Turns /\ ToldFirst /\ Order

-----------------------------------------------------------------------------
(***************************************************************************)
(* The messages.                                                           *)
(***************************************************************************)
LEMMA Scores0 == Score \subseteq Int /\ 0 \in Score
BY ScoreAssumption

\* What the handlers read of a message of the server has the right type.
LEMMA MailTypes ==
    ASSUME NEW m \in Mail
    PROVE  /\ m.type = "LOBBY_UPDATE" => m.lobby.game_started \in BOOLEAN
           /\ m.type = "GAME_START" => m.player_id \in 0 .. 1 /\ m.seed \in Seed
           /\ m.type = "PLAYER_STATUS" => m.score \in Score
           /\ m.type = "GAME_END" => m.result.winner_id \in -1 .. 1
<1> DEFINE Updates  == {UpdateMsg([game_started |-> b]) : b \in BOOLEAN}
           Starts   == {StartMsg(i, sd) : i \in 0 .. 1, sd \in Seed}
           Statuses == {StatusMsg(AskStatus(s, o)) : s \in Score, o \in BOOLEAN}
           Ends     == {EndMsg([winner_id |-> w]) : w \in -1 .. 1}
<1>1. ASSUME m \in Updates
      PROVE  m.type = "LOBBY_UPDATE" /\ m.lobby.game_started \in BOOLEAN
  BY <1>1 DEF UpdateMsg
<1>2. ASSUME m \in Starts
      PROVE  m.type = "GAME_START" /\ m.player_id \in 0 .. 1 /\ m.seed \in Seed
  BY <1>2 DEF StartMsg
<1>3. ASSUME m \in Statuses
      PROVE  m.type = "PLAYER_STATUS" /\ m.score \in Score
  <2>1. PICK s \in Score, o \in BOOLEAN : m = StatusMsg(AskStatus(s, o))
    BY <1>3
  <2>2. AskStatus(s, o).score = s
    BY DEF AskStatus, Ask
  <2> QED BY <2>1, <2>2 DEF StatusMsg
<1>4. ASSUME m \in Ends
      PROVE  m.type = "GAME_END" /\ m.result.winner_id \in -1 .. 1
  BY <1>4 DEF EndMsg
<1>5. Mail = Updates \cup Starts \cup Statuses \cup Ends
  BY DEF Mail
<1> HIDE DEF Updates, Starts, Statuses, Ends
<1>6. m \in Updates \/ m \in Starts \/ m \in Statuses \/ m \in Ends
  BY <1>5
<1> QED BY <1>1, <1>2, <1>3, <1>4, <1>6

LEMMA RequestTypes ==
    /\ Ask("LOBBY_JOIN") \in Request /\ Ask("LOBBY_LEAVE") \in Request
    /\ \A b \in BOOLEAN : AskReady(b) \in Request
    /\ \A s \in Score, o \in BOOLEAN : AskStatus(s, o) \in Request
BY Scores0 DEF Ask, AskReady, AskStatus, Request

\* A queue of messages stays one when its head is taken ...
LEMMA TailOfMail ==
    ASSUME QueuesOK, inbox # <<>>
    PROVE  /\ Head(inbox) \in Mail
           /\ Tail(inbox) \in Seq(Mail)
           /\ Head(inbox) = inbox[1]
           /\ Len(inbox) \in Nat /\ 1 <= Len(inbox)
           /\ Len(Tail(inbox)) = Len(inbox) - 1
           /\ \A i \in 1 .. Len(Tail(inbox)) : Tail(inbox)[i] = inbox[i + 1]
BY DEF QueuesOK

\* ... and when one is put at its end.
LEMMA AppendOfMail ==
    ASSUME QueuesOK, NEW m \in Mail
    PROVE  /\ inbox \o <<m>> \in Seq(Mail)
           /\ Len(inbox) \in Nat
           /\ Len(inbox \o <<m>>) = Len(inbox) + 1
           /\ \A i \in 1 .. Len(inbox) : (inbox \o <<m>>)[i] = inbox[i]
           /\ (inbox \o <<m>>)[Len(inbox) + 1] = m
BY DEF QueuesOK

-----------------------------------------------------------------------------
(***************************************************************************)
(* Types.                                                                  *)
(***************************************************************************)
USE DEF mainVars, lobbyVars, endVars, engineVars, wireVars, reportVars, gameOnly,
        netOnly, Goes

LEMMA InitTyped == CInit => Typed
<1>1. NewPeer \in Peer
  BY BoundAssumption, Scores0 DEF Peer, NewPeer
<1>2. [game_started |-> FALSE] \in [game_started : BOOLEAN]
  OBVIOUS
<1>3. [score |-> 0, game_over |-> FALSE] \in [score : Score, game_over : BOOLEAN]
  BY Scores0
<1>4. ASSUME CInit
      PROVE  Len(out) <= Queue /\ QueuesOK
  BY <1>4, QueueAssumption DEF CInit, QueuesOK
<1>5. ASSUME CInit
      PROVE  /\ my_ready \in BOOLEAN /\ game_result_received \in BOOLEAN
             /\ is_running \in BOOLEAN /\ game_over \in BOOLEAN
             /\ waiting_for_opponent \in BOOLEAN /\ told \in BOOLEAN
  BY <1>5, Zenon DEF CInit
<1>6. ASSUME CInit
      PROVE  /\ seed \in Seed \cup {0} /\ game_seed \in Seed \cup {0}
             /\ opponent_score \in Score /\ score \in Score /\ status_score \in Score
             /\ my_player_id \in -1 .. 1 /\ life \in 0 .. 1
  BY <1>6, Scores0 DEF CInit
<1>7. ASSUME CInit
      PROVE  /\ screen = "start" /\ connected = "not_yet" /\ current_game_mode = "SINGLE"
             /\ net = "none" /\ game = "none" /\ controller = "none"
             /\ shown = "nothing" /\ link = "none"
             /\ network_lobby = [game_started |-> FALSE] /\ asked = NewPeer
             /\ last_sent_status = [score |-> 0, game_over |-> FALSE]
  BY <1>7, Zenon DEF CInit
<1> QED BY <1>1, <1>2, <1>3, <1>4, <1>5, <1>6, <1>7 DEF Typed, CTypeOK

\* The types of the connection: a send leaves the queue in its bound.
WireTyped ==
    /\ link \in {"none", "up", "closed", "reset", "hung_up"}
    /\ Len(out) <= Queue
    /\ asked \in Peer
    /\ told \in BOOLEAN
    /\ QueuesOK

LEMMA SentTyped ==
    ASSUME Typed, NEW m \in Request, NEW p \in Peer, Sent(m, p)
    PROVE  WireTyped'
BY QueueAssumption DEF Sent, WireTyped, Typed, CTypeOK, QueuesOK

LEMMA FailsTyped ==
    ASSUME Typed, SendFails
    PROVE  WireTyped'
BY DEF SendFails, WireTyped, Typed, CTypeOK, QueuesOK

\* A message leaves the variables that its handler writes well typed.
LEMMA MessageTyped ==
    ASSUME Typed, HandleMessage
    PROVE  /\ network_lobby' \in [game_started : BOOLEAN]
           /\ seed' \in Seed \cup {0}
           /\ my_player_id' \in -1 .. 1
           /\ opponent_score' \in Score
           /\ inbox' \in Seq(Mail)
<1>1. Head(inbox) \in Mail /\ Tail(inbox) \in Seq(Mail)
  BY TailOfMail DEF HandleMessage, Typed
<1>2. PICK m \in Mail : m = Head(inbox)
  BY <1>1
<1>3. GameStarted(m) \in BOOLEAN
  BY MailTypes DEF GameStarted, GameStarted_UpdateOnly, Typed, CTypeOK
<1>4. SeedRead(m) \in Seed \cup {0} /\ PlayerIdRead(m) \in -1 .. 1
  BY MailTypes DEF SeedRead, PlayerIdRead, Typed, CTypeOK
<1> QED BY <1>1, <1>2, <1>3, <1>4, MailTypes DEF HandleMessage, Typed, CTypeOK

LEMMA ResultTyped ==
    ASSUME Typed, Got("GAME_END"), HandleResult
    PROVE  /\ shown' \in {"nothing", "draw", "won", "lost"}
           /\ game_result_received' \in BOOLEAN
           /\ inbox' \in Seq(Mail)
           /\ UNCHANGED <<lobbyVars, game_over, is_running, link, out, asked, told>>
BY TailOfMail DEF HandleResult, Got, LastWinner, Typed

LEMMA MainTyped ==
    ASSUME Typed, Turns, MainStep \/ UserStep
    PROVE  Typed'
<1> USE DEF Typed
<1>1. CASE Connect
  BY <1>1 DEF Connect, CTypeOK, QueuesOK
<1>2. CASE Menu
  BY <1>2 DEF Menu, CTypeOK, QueuesOK
<1>3. CASE JoinLobby
  <2>1. [asked EXCEPT !.joined = TRUE] \in Peer
    BY DEF CTypeOK, Peer
  <2>2. Sent(Ask("LOBBY_JOIN"), [asked EXCEPT !.joined = TRUE]) => WireTyped'
    BY <2>1, SentTyped, RequestTypes
  <2>3. /\ screen' \in {"lobby", "launch"} /\ my_ready' \in BOOLEAN
        /\ current_game_mode' \in {"SINGLE", "MULTI"}
        /\ UNCHANGED <<connected, lobbyVars, endVars, engineVars, net, game, reportVars>>
    BY <1>3 DEF JoinLobby, CTypeOK
  <2>4. WireTyped'
    BY <1>3, <2>2, FailsTyped DEF JoinLobby
  <2> QED BY <2>3, <2>4 DEF CTypeOK, QueuesOK, WireTyped
<1>4. CASE EnterGame
  BY <1>4 DEF EnterGame, CTypeOK, QueuesOK
<1>5. CASE PressR
  <2>1. my_ready' \in BOOLEAN
    BY <1>5 DEF PressR, CTypeOK
  <2>2. asked.toggles < MaxToggles
    BY <1>5 DEF PressR
  <2>3. ASSUME NEW b \in BOOLEAN
        PROVE  [asked EXCEPT !.ready = b, !.toggles = @ + 1] \in Peer
    <3>1. asked.toggles + 1 \in 0 .. MaxToggles
      BY <2>2, BoundAssumption DEF CTypeOK, Peer
    <3> QED BY <3>1 DEF CTypeOK, Peer
  <2>4. Sent(AskReady(my_ready'),
             [asked EXCEPT !.ready = my_ready', !.toggles = @ + 1]) => WireTyped'
    BY <2>1, <2>3, SentTyped, RequestTypes
  <2>5. WireTyped'
    BY <1>5, <2>4, FailsTyped DEF PressR
  <2>6. UNCHANGED <<screen, connected, current_game_mode, lobbyVars, endVars, engineVars,
                    net, game, reportVars>>
    BY <1>5 DEF PressR
  <2> QED BY <2>1, <2>5, <2>6 DEF CTypeOK, QueuesOK, WireTyped
<1>6. CASE PressEsc
  <2>1. [asked EXCEPT !.left = TRUE] \in Peer
    BY DEF CTypeOK, Peer
  <2>2. Sent(Ask("LOBBY_LEAVE"), [asked EXCEPT !.left = TRUE]) => WireTyped'
    BY <2>1, SentTyped, RequestTypes
  <2>3. WireTyped'
    BY <1>6, <2>2, FailsTyped DEF PressEsc
  <2> QED BY <1>6, <2>3 DEF PressEsc, CTypeOK, QueuesOK, WireTyped
<1>7. CASE Timeout
  BY <1>7 DEF Timeout, CTypeOK, QueuesOK
<1>8. CASE PollLobby
  <2>1. CASE screen = "poll" /\ HandleMessage /\ UNCHANGED screen
    BY <1>8, <2>1, MessageTyped DEF PollLobby, HandleMessage, CTypeOK, QueuesOK
  <2>2. CASE screen = "poll" /\ HandleEnd /\ Goes("result")
    BY <1>8, <2>2 DEF PollLobby, HandleEnd, CTypeOK, QueuesOK
  <2>3. CASE screen = "result" /\ HandleResult /\ Goes("poll")
    <3>1. /\ shown' \in {"nothing", "draw", "won", "lost"}
          /\ game_result_received' \in BOOLEAN
          /\ inbox' \in Seq(Mail)
          /\ UNCHANGED <<lobbyVars, game_over, is_running, link, out, asked, told>>
      BY <2>3, ResultTyped DEF Turns, ResultFirst
    <3> QED BY <1>8, <2>3, <3>1 DEF PollLobby, CTypeOK, QueuesOK
  <2>4. CASE /\ screen = "poll" /\ inbox = <<>> /\ Goes("lobby")
             /\ UNCHANGED <<lobbyVars, endVars, wireVars>>
    BY <1>8, <2>4 DEF PollLobby, CTypeOK, QueuesOK
  <2> QED BY <1>8, <2>1, <2>2, <2>3, <2>4 DEF PollLobby
<1>9. CASE Launch
  BY <1>9 DEF Launch, CTypeOK, QueuesOK
<1>10. CASE JoinThreads
  BY <1>10 DEF JoinThreads, CTypeOK, QueuesOK
<1> QED
  BY <1>1, <1>2, <1>3, <1>4, <1>5, <1>6, <1>7, <1>8, <1>9, <1>10 DEF MainStep, UserStep

LEMMA GameTyped ==
    ASSUME Typed, GameStep
    PROVE  Typed'
<1> USE DEF Typed
<1>1. CASE InitGame
  BY <1>1 DEF InitGame, CTypeOK, QueuesOK
<1>2. CASE LoopHead
  BY <1>2 DEF LoopHead, CTypeOK, QueuesOK
<1>3. CASE Scores
  BY <1>3 DEF Scores, CTypeOK, QueuesOK
<1>4. CASE MoveObstacles
  <2>1. /\ game_over' \in BOOLEAN
        /\ game_result_received' \in BOOLEAN
    BY <1>4, Zenon DEF MoveObstacles, CTypeOK
  <2>3. life' \in {life, 0}
    BY <1>4 DEF MoveObstacles
  <2>2. /\ game' = "hits"
        /\ UNCHANGED <<gameOnly, controller, game_seed, score, waiting_for_opponent,
                       is_running, shown>>
    BY <1>4 DEF MoveObstacles
  <2> QED BY <2>1, <2>2, <2>3 DEF CTypeOK, QueuesOK
<1>5. CASE EndGame
  <2>1. is_running' \in BOOLEAN
    BY <1>5 DEF EndGame
  <2>2. /\ game' = "join_imu"
        /\ UNCHANGED <<gameOnly, engineVars, game_over, game_result_received, shown>>
    BY <1>5 DEF EndGame
  <2> QED BY <2>1, <2>2 DEF CTypeOK, QueuesOK
<1>6. CASE JoinController
  BY <1>6 DEF JoinController, CTypeOK, QueuesOK
<1> QED BY <1>1, <1>2, <1>3, <1>4, <1>5, <1>6 DEF GameStep

LEMMA NetTyped ==
    ASSUME Typed, Turns, NetStep
    PROVE  Typed'
<1> USE DEF Typed
<1>1. CASE NetLoop
  BY <1>1 DEF NetLoop, CTypeOK, QueuesOK
<1>2. CASE NetPoll
  <2>1. CASE net = "poll" /\ HandleMessage /\ UNCHANGED net
    BY <1>2, <2>1, MessageTyped DEF NetPoll, HandleMessage, CTypeOK, QueuesOK
  <2>2. CASE net = "poll" /\ HandleEnd /\ net' = "result"
    BY <1>2, <2>2 DEF NetPoll, HandleEnd, CTypeOK, QueuesOK
  <2>3. CASE net = "result" /\ HandleResult /\ net' = "poll"
    <3>1. /\ shown' \in {"nothing", "draw", "won", "lost"}
          /\ game_result_received' \in BOOLEAN
          /\ inbox' \in Seq(Mail)
          /\ UNCHANGED <<lobbyVars, game_over, is_running, link, out, asked, told>>
      BY <2>3, ResultTyped DEF Turns, ResultFirst
    <3> QED BY <1>2, <2>3, <3>1 DEF NetPoll, CTypeOK, QueuesOK
  <2>4. CASE /\ net = "poll" /\ inbox = <<>> /\ net' = "read"
             /\ UNCHANGED <<lobbyVars, endVars, wireVars>>
    BY <1>2, <2>4 DEF NetPoll, CTypeOK, QueuesOK
  <2> QED BY <1>2, <2>1, <2>2, <2>3, <2>4 DEF NetPoll
<1>3. CASE NetRead
  BY <1>3 DEF NetRead, CTypeOK, QueuesOK
<1>4. CASE NetReport
  <2>1. Status \in [score : Score, game_over : BOOLEAN]
    BY DEF Status, CTypeOK
  <2>2. [asked EXCEPT !.score = status_score, !.over = game_over] \in Peer
    BY DEF CTypeOK, Peer
  <2>3. CASE Status = last_sent_status /\ UNCHANGED <<last_sent_status, wireVars>>
    BY <1>4, <2>3 DEF NetReport, CTypeOK, QueuesOK
  <2>4. Sent(AskStatus(status_score, game_over),
             [asked EXCEPT !.score = status_score, !.over = game_over]) => WireTyped'
    BY <2>2, SentTyped, RequestTypes DEF CTypeOK
  <2>5. CASE Status # last_sent_status
    BY <1>4, <2>1, <2>4, <2>5, FailsTyped DEF NetReport, CTypeOK, QueuesOK, WireTyped
  <2> QED BY <1>4, <2>3, <2>5 DEF NetReport
<1>5. CASE NetClose
  BY <1>5 DEF NetClose, CTypeOK, QueuesOK
<1> QED BY <1>1, <1>2, <1>3, <1>4, <1>5 DEF NetStep

\* The other end of the connection, and a step that changes nothing.
Serving == ServerSends \/ ServerReads \/ ServerCloses

LEMMA ServerTyped ==
    ASSUME Typed, Serving,
           UNCHANGED <<mainVars, lobbyVars, endVars, engineVars, net, game, reportVars>>
    PROVE  Typed'
<1> USE DEF Typed
<1>1. CASE ServerSends
  BY <1>1, AppendOfMail DEF ServerSends, Delivered, CTypeOK, QueuesOK
<1>2. CASE ServerReads
  BY <1>2, QueueAssumption DEF ServerReads, CTypeOK, QueuesOK
<1>3. CASE ServerCloses
  BY <1>3 DEF ServerCloses, CTypeOK, QueuesOK
<1> QED BY <1>1, <1>2, <1>3 DEF Serving

LEMMA NextTyped ==
    ASSUME Typed, Turns, [CNext]_clientVars
    PROVE  Typed'
<1>1. CASE BrokenPipe
  BY <1>1 DEF BrokenPipe, Typed, CTypeOK, QueuesOK
<1>2. CASE UNCHANGED clientVars
  BY <1>2 DEF clientVars, Typed, CTypeOK, QueuesOK
<1> QED
  BY <1>1, <1>2, MainTyped, GameTyped, NetTyped, ServerTyped
  DEF CNext, ClientStep, Gone, Sampling, Serving

-----------------------------------------------------------------------------
(***************************************************************************)
(* Whose turn it is.                                                       *)
(***************************************************************************)
\* The head of the queue stays when a message comes.
LEMMA HeadStays ==
    ASSUME Typed, Got("GAME_END"), NEW m \in Mail
    PROVE  inbox \o <<m>> # <<>> /\ Head(inbox \o <<m>>) = Head(inbox)
BY DEF Typed, QueuesOK, Got

LEMMA TurnsStep ==
    ASSUME Typed, Turns, [CNext]_clientVars
    PROVE  Turns'
<1> USE DEF Turns, ThreadsLater, ResultFirst, Got
<1>1. ASSUME MainStep \/ UserStep
      PROVE  Turns'
  <2>1. CASE EnterGame \/ Timeout \/ Launch \/ JoinThreads \/ Connect \/ Menu
    BY <2>1 DEF EnterGame, Timeout, Launch, JoinThreads, Connect, Menu
  <2>2. CASE JoinLobby \/ PressR \/ PressEsc
    BY <2>2 DEF JoinLobby, PressR, PressEsc, Sent, SendFails
  <2>3. CASE PollLobby
    BY <2>3 DEF PollLobby, HandleMessage, HandleEnd, HandleResult
  <2> QED BY <1>1, <2>1, <2>2, <2>3 DEF MainStep, UserStep
<1>2. ASSUME GameStep
      PROVE  Turns'
  BY <1>2 DEF GameStep, InitGame, LoopHead, Scores, MoveObstacles, EndGame, JoinController
<1>3. ASSUME NetStep
      PROVE  Turns'
  <2>1. CASE NetLoop \/ NetRead \/ NetReport \/ NetClose
    BY <2>1 DEF NetLoop, NetRead, NetReport, NetClose, Sent, SendFails
  <2>2. CASE NetPoll
    BY <2>2 DEF NetPoll, HandleMessage, HandleEnd, HandleResult
  <2> QED BY <1>3, <2>1, <2>2 DEF NetStep
<1>4. ASSUME Serving,
             UNCHANGED <<mainVars, lobbyVars, endVars, engineVars, net, game, reportVars>>
      PROVE  Turns'
  <2>1. CASE ServerSends
    BY <1>4, <2>1, HeadStays DEF ServerSends, Delivered
  <2>2. CASE ServerReads \/ ServerCloses
    BY <1>4, <2>2 DEF ServerReads, ServerCloses
  <2> QED BY <1>4, <2>1, <2>2 DEF Serving
<1>5. ASSUME BrokenPipe \/ UNCHANGED clientVars
      PROVE  Turns'
  BY <1>5 DEF BrokenPipe, clientVars
<1> QED
  BY <1>1, <1>2, <1>3, <1>4, <1>5 DEF CNext, ClientStep, Gone, Sampling, Serving

-----------------------------------------------------------------------------
(***************************************************************************)
(* What the server has told.                                               *)
(***************************************************************************)
LEMMA MessageTold ==
    ASSUME Typed, ToldFirst, HandleMessage
    PROVE  /\ network_lobby'.game_started => told
           /\ \A i \in 1 .. Len(inbox') : Tells(inbox'[i]) => told
<1>1. /\ Head(inbox) = inbox[1] /\ 1 \in 1 .. Len(inbox)
      /\ Len(inbox) \in Nat /\ Len(Tail(inbox)) = Len(inbox) - 1
      /\ \A i \in 1 .. Len(Tail(inbox)) : Tail(inbox)[i] = inbox[i + 1]
  BY TailOfMail DEF HandleMessage, Typed
<1>2. Tells(Head(inbox)) => told
  BY <1>1 DEF ToldFirst
<1>3. GameStarted(Head(inbox)) => told
  BY <1>2 DEF GameStarted, GameStarted_UpdateOnly, Tells, ToldFirst
<1>4. network_lobby'.game_started = GameStarted(Head(inbox))
  BY DEF HandleMessage
<1>5. \A i \in 1 .. Len(Tail(inbox)) : i + 1 \in 1 .. Len(inbox)
  BY <1>1
<1>6. \A i \in 1 .. Len(Tail(inbox)) : Tells(Tail(inbox)[i]) => told
  BY <1>1, <1>5 DEF ToldFirst
<1>7. inbox' = Tail(inbox)
  BY DEF HandleMessage
<1> QED BY <1>3, <1>4, <1>6, <1>7

LEMMA ResultTold ==
    ASSUME Typed, ToldFirst, Got("GAME_END"), HandleResult
    PROVE  \A i \in 1 .. Len(inbox') : Tells(inbox'[i]) => told
<1>1. /\ Len(inbox) \in Nat /\ Len(Tail(inbox)) = Len(inbox) - 1
      /\ \A i \in 1 .. Len(Tail(inbox)) : Tail(inbox)[i] = inbox[i + 1]
  BY TailOfMail DEF Got, Typed
<1>2. \A i \in 1 .. Len(Tail(inbox)) : i + 1 \in 1 .. Len(inbox)
  BY <1>1
<1>3. \A i \in 1 .. Len(Tail(inbox)) : Tells(Tail(inbox)[i]) => told
  BY <1>1, <1>2 DEF ToldFirst
<1>4. inbox' = Tail(inbox)
  BY DEF HandleResult
<1> QED BY <1>3, <1>4

LEMMA ToldStep ==
    ASSUME Typed, Turns, ToldFirst, [CNext]_clientVars
    PROVE  ToldFirst'
<1>1. ASSUME MainStep \/ UserStep
      PROVE  ToldFirst'
  <2>1. CASE EnterGame \/ Timeout \/ Launch \/ JoinThreads \/ Connect \/ Menu
    BY <2>1 DEF EnterGame, Timeout, Launch, JoinThreads, Connect, Menu, ToldFirst
  <2>2. CASE JoinLobby \/ PressR \/ PressEsc
    BY <2>2 DEF JoinLobby, PressR, PressEsc, Sent, SendFails, ToldFirst
  <2>3. CASE PollLobby
    <3>1. CASE HandleMessage
      BY <2>3, <3>1, MessageTold DEF PollLobby, HandleMessage, ToldFirst
    <3>2. CASE HandleEnd \/ UNCHANGED <<lobbyVars, endVars, wireVars>>
      BY <2>3, <3>2 DEF PollLobby, HandleEnd, ToldFirst
    <3>3. CASE screen = "result" /\ HandleResult
      BY <2>3, <3>3, ResultTold DEF PollLobby, HandleResult, Turns, ResultFirst, ToldFirst
    <3> QED BY <2>3, <3>1, <3>2, <3>3 DEF PollLobby
  <2> QED BY <1>1, <2>1, <2>2, <2>3 DEF MainStep, UserStep
<1>2. ASSUME GameStep
      PROVE  ToldFirst'
  BY <1>2 DEF GameStep, InitGame, LoopHead, Scores, MoveObstacles, EndGame, JoinController,
              ToldFirst
<1>3. ASSUME NetStep
      PROVE  ToldFirst'
  <2>1. CASE NetLoop \/ NetRead \/ NetReport \/ NetClose
    BY <2>1 DEF NetLoop, NetRead, NetReport, NetClose, Sent, SendFails, ToldFirst
  <2>2. CASE NetPoll
    <3>1. CASE HandleMessage
      BY <2>2, <3>1, MessageTold DEF NetPoll, HandleMessage, ToldFirst
    <3>2. CASE HandleEnd \/ UNCHANGED <<lobbyVars, endVars, wireVars>>
      BY <2>2, <3>2 DEF NetPoll, HandleEnd, ToldFirst
    <3>3. CASE net = "result" /\ HandleResult
      BY <2>2, <3>3, ResultTold DEF NetPoll, HandleResult, Turns, ResultFirst, ToldFirst
    <3> QED BY <2>2, <3>1, <3>2, <3>3 DEF NetPoll
  <2> QED BY <1>3, <2>1, <2>2 DEF NetStep
<1>4. ASSUME Serving,
             UNCHANGED <<mainVars, lobbyVars, endVars, engineVars, net, game, reportVars>>
      PROVE  ToldFirst'
  <2>1. CASE ServerSends
    <3>1. PICK m \in Mail : Delivered(<<m>>)
      BY <2>1 DEF ServerSends
    <3>2. inbox' = inbox \o <<m>>
      BY <3>1 DEF Delivered
    <3>3. 1 \in DOMAIN <<m>> /\ <<m>>[1] = m
      OBVIOUS
    <3>4. told \/ Tells(m) => told'
      BY <3>1, <3>3, Zenon DEF Delivered
    <3>5. \A i \in 1 .. Len(inbox') : Tells(inbox'[i]) => told'
      BY <3>2, <3>4, AppendOfMail DEF ToldFirst, Typed
    <3> QED BY <1>4, <3>4, <3>5 DEF ToldFirst
  <2>2. CASE ServerReads \/ ServerCloses
    BY <1>4, <2>2 DEF ServerReads, ServerCloses, ToldFirst
  <2> QED BY <1>4, <2>1, <2>2 DEF Serving
<1>5. ASSUME BrokenPipe \/ UNCHANGED clientVars
      PROVE  ToldFirst'
  BY <1>5 DEF BrokenPipe, clientVars, ToldFirst
<1> QED
  BY <1>1, <1>2, <1>3, <1>4, <1>5 DEF CNext, ClientStep, Gone, Sampling, Serving

-----------------------------------------------------------------------------
(***************************************************************************)
(* The order of what is asked.                                             *)
(***************************************************************************)
\* What a send asks, if anything.
LEMMA SentAsks ==
    ASSUME NEW m, NEW p, Sent(m, p) \/ SendFails
    PROVE  /\ asked' \in {asked, p}
           /\ link \in {"up", "closed"}
           /\ link' \in {"up", "closed"} => asked' = p
BY DEF Sent, SendFails

LEMMA MainOrder ==
    ASSUME Typed, Turns, Order, MainStep \/ UserStep
    PROVE  Order'
<1> USE DEF Order, BeforeJoin, OnScreen, ReportsBehind
<1>1. CASE Connect \/ Menu
  BY <1>1 DEF Connect, Menu
<1>2. CASE JoinLobby
  <2>1. screen = "join" /\ screen' \in {"lobby", "launch"}
    BY <1>2 DEF JoinLobby
  <2>2. UNCHANGED <<score, game_over, net, reportVars>> /\ my_ready' = FALSE
    BY <1>2 DEF JoinLobby
  <2>3. asked' \in {asked, [asked EXCEPT !.joined = TRUE]}
    BY <1>2, SentAsks DEF JoinLobby
  <2>4. asked'.score = asked.score /\ asked'.over = asked.over
    BY <2>3 DEF Typed, CTypeOK, Peer
  <2>5. ReportsBehind'
    BY <2>2, <2>4
  <2>6. screen' = "lobby" => asked' = [NewPeer EXCEPT !.joined = TRUE]
    BY <1>2, <2>1 DEF JoinLobby, Sent
  <2>7. OnScreen'
    BY <2>1, <2>2, <2>6 DEF NewPeer, InLobbyScreen, HasReported
  <2> QED BY <2>1, <2>5, <2>7
<1>3. CASE EnterGame \/ Timeout \/ Launch \/ JoinThreads
  BY <1>3 DEF EnterGame, Timeout, Launch, JoinThreads, Turns, ThreadsLater
<1>4. CASE PressR
  <2>1. screen = "lobby" /\ my_ready' = ~my_ready
    BY <1>4 DEF PressR
  <2>2. UNCHANGED <<screen, score, game_over, net, reportVars>>
    BY <1>4 DEF PressR
  <2> DEFINE p == [asked EXCEPT !.ready = my_ready', !.toggles = @ + 1]
  <2>3. Sent(AskReady(my_ready'), p) \/ SendFails
    BY <1>4 DEF PressR
  <2>4. /\ p.ready = my_ready' /\ p.joined = asked.joined /\ p.left = asked.left
        /\ p.score = asked.score /\ p.over = asked.over
    BY DEF Typed, CTypeOK, Peer
  <2> HIDE DEF p
  <2>5. asked' \in {asked, p} /\ (link' \in {"up", "closed"} => asked' = p)
    BY <2>3, SentAsks
  <2>6. ReportsBehind'
    BY <2>2, <2>4, <2>5
  <2>7. OnScreen'
    BY <2>1, <2>2, <2>4, <2>5 DEF InLobbyScreen, HasReported
  <2> QED BY <2>1, <2>2, <2>6, <2>7
<1>5. CASE PressEsc
  <2>1. screen' = "launch" /\ UNCHANGED <<score, game_over, net, reportVars>>
    BY <1>5 DEF PressEsc
  <2>2. asked' \in {asked, [asked EXCEPT !.left = TRUE]}
    BY <1>5, SentAsks DEF PressEsc
  <2>3. asked'.score = asked.score /\ asked'.over = asked.over
    BY <2>2 DEF Typed, CTypeOK, Peer
  <2> QED BY <2>1, <2>3
<1>6. CASE PollLobby
  <2>1. screen \in {"poll", "result"} /\ screen' \in {"lobby", "poll", "result"}
    BY <1>6 DEF PollLobby
  <2>2. UNCHANGED <<my_ready, link, asked, score, net, reportVars>>
    BY <1>6 DEF PollLobby, HandleMessage, HandleEnd, HandleResult
  <2>3. game_over => game_over'
    BY <1>6 DEF PollLobby, HandleMessage, HandleEnd, HandleResult
  <2> QED BY <2>1, <2>2, <2>3
<1> QED BY <1>1, <1>2, <1>3, <1>4, <1>5, <1>6 DEF MainStep, UserStep

LEMMA GameOrder ==
    ASSUME Typed, Turns, Order, GameStep
    PROVE  Order'
<1>1. screen' \in {screen, "exit"}
  BY DEF GameStep, InitGame, LoopHead, Scores, MoveObstacles, EndGame, JoinController
<1>2. UNCHANGED <<my_ready, link, asked, net, reportVars>>
  BY DEF GameStep, InitGame, LoopHead, Scores, MoveObstacles, EndGame, JoinController
<1>3. score' \in Score /\ score' >= score
  BY Scores0 DEF GameStep, InitGame, LoopHead, Scores, MoveObstacles, EndGame,
                 JoinController, Typed, CTypeOK
<1>4. game_over => game_over'
  BY DEF GameStep, InitGame, LoopHead, Scores, MoveObstacles, EndGame, JoinController
<1>5. /\ score \in Int /\ score' \in Int /\ status_score \in Int
      /\ last_sent_status.score \in Int
  BY <1>3, Scores0 DEF Typed, CTypeOK
<1>6. ReportsBehind'
  BY <1>2, <1>3, <1>4, <1>5 DEF Order, ReportsBehind
<1> QED BY <1>1, <1>2, <1>6 DEF Order, BeforeJoin, OnScreen

LEMMA NetOrder ==
    ASSUME Typed, Turns, Order, NetStep
    PROVE  Order'
<1>1. screen \in {"join_game", "join_net", "exit"} /\ UNCHANGED <<screen, score>>
  BY DEF NetStep, NetLoop, NetPoll, NetRead, NetReport, NetClose, Turns, ThreadsLater
<1>2. game_over => game_over'
  BY DEF NetStep, NetLoop, NetPoll, NetRead, NetReport, NetClose, HandleMessage,
         HandleEnd, HandleResult
<1>3. CASE NetLoop \/ NetPoll \/ NetClose
  <2>1. UNCHANGED <<asked, reportVars>> /\ net' # "report"
    BY <1>3 DEF NetLoop, NetPoll, NetClose, HandleMessage, HandleEnd, HandleResult
  <2> QED BY <1>1, <1>2, <2>1 DEF Order, BeforeJoin, OnScreen, ReportsBehind
<1>4. CASE NetRead
  <2>1. UNCHANGED <<asked, last_sent_status>> /\ status_score' \in {status_score, score}
        /\ (net' = "report" => status_score' = score)
    BY <1>4 DEF NetRead
  <2>2. score <= score
    BY Scores0 DEF Typed, CTypeOK
  <2> QED BY <1>1, <1>2, <2>1, <2>2 DEF Order, BeforeJoin, OnScreen, ReportsBehind
<1>5. CASE NetReport
  <2>1. net' = "loop" /\ UNCHANGED <<score, game_over, status_score>>
    BY <1>5 DEF NetReport
  <2>2. CASE UNCHANGED <<asked, last_sent_status>>
    BY <1>1, <2>1, <2>2 DEF Order, BeforeJoin, OnScreen, ReportsBehind
  <2>3. CASE /\ asked' = [asked EXCEPT !.score = status_score, !.over = game_over]
             /\ last_sent_status' = Status
    <3>1. asked'.score = status_score /\ asked'.over = game_over
      BY <2>3 DEF Typed, CTypeOK, Peer
    <3>2. last_sent_status'.score = status_score /\ last_sent_status'.game_over = game_over
      BY <2>3 DEF Status
    <3> QED BY <1>1, <2>1, <3>1, <3>2 DEF Order, BeforeJoin, OnScreen, ReportsBehind
  <2> QED BY <1>5, <2>2, <2>3 DEF NetReport, Sent, SendFails
<1> QED BY <1>3, <1>4, <1>5 DEF NetStep

LEMMA NextOrder ==
    ASSUME Typed, Turns, Order, [CNext]_clientVars
    PROVE  Order'
<1>1. ASSUME Serving,
             UNCHANGED <<mainVars, lobbyVars, endVars, engineVars, net, game, reportVars>>
      PROVE  Order'
  <2>1. UNCHANGED asked /\ (link' \in {"up", "closed"} => link \in {"up", "closed"})
    BY <1>1 DEF Serving, ServerSends, ServerReads, ServerCloses, Delivered
  <2> QED BY <1>1, <2>1 DEF Order, BeforeJoin, OnScreen, ReportsBehind
<1>2. ASSUME BrokenPipe \/ UNCHANGED clientVars
      PROVE  Order'
  BY <1>2 DEF BrokenPipe, clientVars, Order, BeforeJoin, OnScreen, ReportsBehind
<1> QED
  BY <1>1, <1>2, MainOrder, GameOrder, NetOrder
  DEF CNext, ClientStep, Gone, Sampling, Serving

-----------------------------------------------------------------------------
(***************************************************************************)
(* The theorems.                                                           *)
(***************************************************************************)
LEMMA InitInv == CInit => IInv
<1> SUFFICES ASSUME CInit
             PROVE  IInv
  OBVIOUS
<1>1. Typed
  BY InitTyped
<1>2. Turns /\ ToldFirst
  BY DEF CInit, Turns, ThreadsLater, ResultFirst, ToldFirst
<1>3. Order
  BY DEF CInit, Order, BeforeJoin, OnScreen, ReportsBehind, NewPeer
<1> QED BY <1>1, <1>2, <1>3 DEF IInv

LEMMA NextInv == IInv /\ [CNext]_clientVars => IInv'
BY NextTyped, TurnsStep, ToldStep, NextOrder DEF IInv

\* What a step asks is what the screen or the report it makes may ask.
AsksInOrder ==
    \/ asked' \in AfterJoin(asked)
    \/ asked' \in AfterLeave(asked)
    \/ asked' \in AfterToggle(asked)
    \/ told /\ asked' \in AfterReport(asked)

LEMMA StepAsks ==
    ASSUME IInv, CNext, asked' # asked
    PROVE  AsksInOrder
<1> USE DEF IInv
<1>1. CASE JoinLobby
  <2>1. ~asked.joined
    BY <1>1 DEF JoinLobby, Order, BeforeJoin, NewPeer
  <2>2. asked' = [asked EXCEPT !.joined = TRUE]
    BY <1>1, SentAsks DEF JoinLobby
  <2> QED BY <2>1, <2>2 DEF AsksInOrder, AfterJoin
<1>2. CASE PressEsc
  <2>1. InLobbyScreen(asked)
    BY <1>2 DEF PressEsc, Order, OnScreen
  <2>2. asked' = [asked EXCEPT !.left = TRUE]
    BY <1>2, SentAsks DEF PressEsc
  <2> QED BY <2>1, <2>2 DEF AsksInOrder, AfterLeave
<1>3. CASE PressR
  <2> DEFINE p == [asked EXCEPT !.ready = my_ready', !.toggles = @ + 1]
  <2>1. Sent(AskReady(my_ready'), p) \/ SendFails
    BY <1>3 DEF PressR
  <2>2. asked' = p /\ link \in {"up", "closed"}
    BY <2>1, SentAsks
  <2>3. InLobbyScreen(asked) /\ asked.ready = my_ready
    BY <1>3, <2>2 DEF PressR, Order, OnScreen
  <2>4. asked.toggles < MaxToggles /\ my_ready' = ~asked.ready
    BY <1>3, <2>3 DEF PressR
  <2>5. asked' = [asked EXCEPT !.ready = ~@, !.toggles = @ + 1]
    BY <2>2, <2>4
  <2> QED BY <2>3, <2>4, <2>5 DEF AsksInOrder, AfterToggle
<1>4. CASE NetReport
  <2>1. told
    BY <1>4 DEF NetReport, ToldFirst
  <2>2. /\ Status # last_sent_status
        /\ asked' = [asked EXCEPT !.score = status_score, !.over = game_over]
    BY <1>4, SentAsks DEF NetReport
  <2>3. /\ asked.score = last_sent_status.score
        /\ asked.over = last_sent_status.game_over
        /\ status_score >= asked.score /\ (asked.over => game_over)
    BY <1>4, Scores0 DEF NetReport, Order, ReportsBehind, Typed, CTypeOK
  <2>4. last_sent_status = [score |-> asked.score, game_over |-> asked.over]
    BY <2>3 DEF Typed, CTypeOK
  <2>5. <<status_score, game_over>> # <<asked.score, asked.over>>
    BY <2>2, <2>4 DEF Status
  <2>6. <<status_score, game_over>> \in
          {x \in Score \X BOOLEAN :
             x[1] >= asked.score /\ (asked.over => x[2]) /\ x # <<asked.score, asked.over>>}
    BY <2>3, <2>5 DEF Typed, CTypeOK
  <2>7. asked' \in AfterReport(asked)
    BY <2>2, <2>6 DEF AfterReport
  <2> QED BY <2>1, <2>7 DEF AsksInOrder
<1>5. CASE MainStep /\ ~JoinLobby
  BY <1>5 DEF MainStep, EnterGame, Timeout, PollLobby, Launch, JoinThreads, Connect,
              HandleMessage, HandleEnd, HandleResult
<1>6. CASE Menu \/ GameStep
  BY <1>6 DEF Menu, GameStep, InitGame, LoopHead, Scores, MoveObstacles, EndGame,
              JoinController
<1>7. CASE NetLoop \/ NetPoll \/ NetRead \/ NetClose
  BY <1>7 DEF NetLoop, NetPoll, NetRead, NetClose, HandleMessage, HandleEnd, HandleResult
<1>8. CASE Serving
  BY <1>8 DEF Serving, ServerSends, ServerReads, ServerCloses, Delivered
<1>9. CASE BrokenPipe \/ UNCHANGED clientVars
  BY <1>9 DEF BrokenPipe, clientVars
<1> QED
  BY <1>1, <1>2, <1>3, <1>4, <1>5, <1>6, <1>7, <1>8, <1>9
  DEF CNext, ClientStep, UserStep, NetStep, Gone, Sampling, Serving

\* The inductive invariant holds of every client, whatever the server sends.
LEMMA AlwaysInv == CSpec => []IInv
BY InitInv, NextInv, PTL DEF CSpec

\* The variables of the client keep their types (network.c, intro_ui.c,
\* main.c), and its socket never holds more than the queue takes.
THEOREM ClientTypes == CSpec => []CTypeOK
<1>1. IInv => CTypeOK
  BY DEF IInv, Typed
<1> QED BY <1>1, AlwaysInv, PTL

\* The two threads that write to the socket keep to the order of requests of
\* Peer.tla (network.c:96-159, intro_ui.c:132-256), whatever the server sends
\* and whenever it goes away.
THEOREM KeepsProtocol == CSpec => FollowsProtocol
<1>1. IInv /\ [CNext]_clientVars =>
        [asked' # asked =>
           \/ asked' \in AfterJoin(asked)
           \/ asked' \in AfterLeave(asked)
           \/ asked' \in AfterToggle(asked)
           \/ told /\ asked' \in AfterReport(asked)]_clientVars
  BY StepAsks DEF AsksInOrder
<1> QED BY <1>1, AlwaysInv, PTL DEF CSpec, FollowsProtocol
=============================================================================
