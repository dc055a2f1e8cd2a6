------------------------------ MODULE Session ------------------------------
(***************************************************************************)
(* One game client, as in Client.tla, with the match server and one rival  *)
(* at a time.  The rival may do what a client can do at any time, and it   *)
(* may come back, or another in its place: the server has two entries, so  *)
(* a third client can only take over the entry of one that is gone.        *)
(*                                                                         *)
(* The server runs one thread for the client and one for the rival.  Each  *)
(* section that holds lobby_mutex is an action here, as in Server.tla,     *)
(* and between two of them the other thread may run: a start may come      *)
(* after a leave, a join between the two halves of a leave.  Only          *)
(* update_game_status is one action with the two stores before its lock;   *)
(* what others see of these stores is the subject of Server.tla, and so is *)
(* the entry whose fd is lost.                                             *)
(***************************************************************************)
EXTENDS Client

CONSTANT MaxRivalAsks   \* bound: how often a rival joins or presses R

ASSUME RivalAssumption == MaxRivalAsks \in Nat

VARIABLES
    lobby,          \* which of the two is seated and ready; game_started
    slot,           \* the slot of each; kept when it is given up
    status,         \* score and game_over of each in clients[]
    at,             \* the section that the thread of each comes to next
    start_seed,     \* history: the seed of the last GAME_START to the client
    joined_late,    \* history: the client has joined a game that ran
    rival_told,     \* history: some message has told the rival of a game
    rival_asks      \* how often a rival has joined or pressed R

serverVars  == <<lobby, slot, status, at, start_seed, joined_late, rival_told,
                 rival_asks>>
sessionVars == <<clientVars, serverVars>>

Player == {"me", "rival"}
Other(p) == IF p = "me" THEN "rival" ELSE "me"
NoStatus == [score |-> 0, game_over |-> FALSE]

\* "leave_end" and "leave_broadcast" are those of the handle_game_end that
\* remove_player_from_lobby calls, "leave2" is the section after it.
Section == {"recv", "start_game", "game_end", "broadcast",
            "leave_end", "leave_broadcast", "leave2"}

\* Every variable of the server's side has its type.
STypeOK ==
    /\ CTypeOK
    /\ lobby \in [seated : [Player -> BOOLEAN], ready : [Player -> BOOLEAN],
                  game_started : BOOLEAN]
    /\ slot \in [Player -> 0 .. 1]
    /\ status \in [Player -> [score : Score, game_over : BOOLEAN]]
    /\ at \in [Player -> Section]
    /\ start_seed \in Seed \cup {0}
    /\ joined_late \in BOOLEAN /\ rival_told \in BOOLEAN
    /\ rival_asks \in 0 .. MaxRivalAsks

\* The lobby is empty; or a rival is there, in either slot, whose thread has
\* found both players ready and has yet to start the game, when the other
\* one has left and its entry has gone to this client.
SInit ==
    /\ CInit
    /\ \E rival \in BOOLEAN, s \in 0 .. 1 :
         /\ s = 1 => rival
         /\ lobby = [seated |-> [p \in Player |-> p = "rival" /\ rival],
                     ready |-> [p \in Player |-> p = "rival" /\ rival],
                     game_started |-> FALSE]
         /\ slot = [p \in Player |-> IF p = "rival" THEN s ELSE 0]
         /\ at = [p \in Player |->
                    IF p = "rival" /\ rival THEN "start_game" ELSE "recv"]
    /\ status = [p \in Player |-> NoStatus]
    /\ start_seed = 0 /\ joined_late = FALSE /\ rival_told = FALSE
    /\ rival_asks = 0

-----------------------------------------------------------------------------
(***************************************************************************)
(* The sections.                                                           *)
(***************************************************************************)
Goto(p, s) == at' = [at EXCEPT ![p] = s]

\* score and game_over as in the entry of a new client, or of one removed.
Cleared(p) == [status EXCEPT ![p] = NoStatus]

\* ms, where the client has a slot.
IfSeated(ms) == IF lobby.seated["me"] THEN ms ELSE <<>>

\* in_lobby: it outlasts the slot while remove_player_from_lobby is about.
Member(p) == lobby.seated[p] \/ at[p] \in {"leave_end", "leave_broadcast", "leave2"}

\* broadcast_lobby_update
Broadcasts(p) ==
    /\ \/ at[p] = "broadcast" /\ Goto(p, "recv")
       \/ at[p] = "leave_broadcast" /\ Goto(p, "leave2")
    /\ Delivered(IF Member("me")
                 THEN <<UpdateMsg([game_started |-> lobby.game_started])>> ELSE <<>>)
    /\ rival_told' = (rival_told \/ (Member("rival") /\ lobby.game_started))
    /\ UNCHANGED <<lobby, slot, status, start_seed, joined_late>>

\* add_player_to_lobby takes the first free slot; game_started is not looked
\* at.  With two clients, each of which joins once, one slot is free, and the
\* entry of the one that joins is as accept() has made it.
SlotOf_Number(p) ==                    \* mutant: numbered as printed, from 1
    IF lobby.seated[Other(p)] /\ slot[Other(p)] = 1 THEN 2 ELSE 1
SlotOf(p) == IF lobby.seated[Other(p)] /\ slot[Other(p)] = 0 THEN 1 ELSE 0

Joins(p) ==
    /\ lobby' = [lobby EXCEPT !.seated[p] = TRUE, !.ready[p] = FALSE]
    /\ slot' = [slot EXCEPT ![p] = SlotOf(p)]
    /\ joined_late' = (joined_late \/ (p = "me" /\ lobby.game_started))
    /\ rival_told' = (rival_told /\ p = "me")
    /\ status' = Cleared(p)
    /\ Goto(p, "broadcast")
    /\ Delivered(<<>>)
    /\ UNCHANGED start_seed

AllReady(room) == \A p \in Player : room.seated[p] /\ room.ready[p]

\* update_ready_status: the test.
TurnsReady(p, b) ==
    /\ \/ /\ lobby.seated[p]
          /\ lobby' = [lobby EXCEPT !.ready[p] = b]
          /\ Goto(p, IF AllReady(lobby') /\ ~lobby.game_started
                     THEN "start_game" ELSE "broadcast")
       \/ ~lobby.seated[p] /\ UNCHANGED <<lobby, at>>
    /\ Delivered(<<>>)
    /\ UNCHANGED <<slot, status, start_seed, joined_late, rival_told>>

\* broadcast_game_start: whoever is seated by now is in the game.
StartsGame(p) ==
    /\ at[p] = "start_game"
    /\ lobby' = [lobby EXCEPT !.game_started = TRUE]
    /\ start_seed' \in IF lobby.seated["me"] THEN Seed ELSE {start_seed}
    /\ Delivered(IfSeated(<<StartMsg(slot["me"], start_seed')>>))
    /\ rival_told' = (rival_told \/ lobby.seated["rival"])
    /\ Goto(p, "recv")
    /\ UNCHANGED <<slot, status, joined_late>>

\* update_game_status
Reports(p, m) ==
    /\ status' = [status EXCEPT ![p] = [score |-> m.score, game_over |-> m.game_over]]
    /\ Delivered(IF p = "rival" /\ lobby.game_started
                 THEN IfSeated(<<StatusMsg(m)>>) ELSE <<>>)
    /\ Goto(p, IF m.game_over THEN "game_end" ELSE "recv")
    /\ UNCHANGED <<lobby, slot, start_seed, joined_late, rival_told>>

Alone(p) == lobby.seated[p] /\ ~lobby.seated[Other(p)]

Decided == \/ \A p \in Player : lobby.seated[p] => status[p].game_over
           \/ \E p \in Player : Alone(p)

\* The winner, by slot.
Winner ==
    IF Alone("me") THEN slot["me"]
    ELSE IF status["me"].score > status["rival"].score THEN slot["me"]
    ELSE IF status["rival"].score > status["me"].score THEN slot["rival"]
    ELSE -1

\* handle_game_end
EndsGame_Silent(p) ==                  \* mutant: the result is not sent
    /\ at[p] \in {"game_end", "leave_end"}
    /\ Goto(p, IF at[p] = "game_end" THEN "broadcast" ELSE "leave_broadcast")
    /\ lobby' = [lobby EXCEPT !.ready = [q \in Player |-> FALSE],
                              !.game_started = @ /\ ~Decided]
    /\ Delivered(<<>>)
    /\ UNCHANGED <<slot, status, start_seed, joined_late, rival_told>>

EndsGame(p) ==
    /\ \/ at[p] = "game_end"
          /\ Goto(p, IF lobby.game_started THEN "broadcast" ELSE "recv")
       \/ at[p] = "leave_end"
          /\ Goto(p, IF lobby.game_started THEN "leave_broadcast" ELSE "leave2")
    /\ \/ /\ lobby.game_started /\ Decided
          /\ lobby' = [lobby EXCEPT !.ready = [q \in Player |-> FALSE],
                                    !.game_started = FALSE]
          /\ status' = [q \in Player |-> IF lobby.seated[q] THEN NoStatus ELSE status[q]]
          /\ Delivered(IfSeated(<<EndMsg([winner_id |-> Winner])>>))
       \/ /\ ~(lobby.game_started /\ Decided)
          /\ Delivered(<<>>)
          /\ UNCHANGED <<lobby, status>>
    /\ UNCHANGED <<slot, start_seed, joined_late, rival_told>>

\* remove_player_from_lobby, before and after the call of handle_game_end.
Leaves(p) ==
    /\ \/ /\ lobby.seated[p]
          /\ lobby' = [lobby EXCEPT !.seated[p] = FALSE, !.ready[p] = FALSE]
          /\ IF lobby.game_started
             THEN Goto(p, "leave_end") /\ UNCHANGED status
             ELSE Goto(p, "broadcast") /\ status' = Cleared(p)
       \/ ~lobby.seated[p] /\ UNCHANGED <<lobby, status, at>>
    /\ Delivered(<<>>)
    /\ UNCHANGED <<slot, start_seed, joined_late, rival_told>>

LeavesAfterEnd(p) ==
    /\ at[p] = "leave2"
    /\ lobby' = [lobby EXCEPT !.game_started = FALSE]
    /\ status' = Cleared(p)
    /\ Goto(p, "broadcast")
    /\ Delivered(<<>>)
    /\ UNCHANGED <<slot, start_seed, joined_late, rival_told>>

-----------------------------------------------------------------------------
\* The thread of the client at the server takes its next request.
Serve ==
    /\ at["me"] = "recv" /\ out # <<>>
    /\ LET m == Head(out)
       IN  \/ m.type = "LOBBY_JOIN" /\ Joins("me")
           \/ m.type = "LOBBY_LEAVE" /\ Leaves("me")
           \/ m.type = "READY_STATUS" /\ TurnsReady("me", m.ready)
           \/ m.type = "PLAYER_STATUS" /\ Reports("me", m)
    /\ out' = Tail(out)
    /\ UNCHANGED <<link, asked, rival_asks>>

\* A thread goes on with what it serves.
GoesOn(p) ==
    /\ StartsGame(p) \/ EndsGame(p) \/ LeavesAfterEnd(p) \/ Broadcasts(p)
    /\ UNCHANGED <<link, out, asked, rival_asks>>

\* The rival asks for something.  Queue bounds how far it runs ahead.
RivalJoins ==
    /\ ~lobby.seated["rival"] /\ rival_asks < MaxRivalAsks
    /\ Joins("rival")
    /\ rival_asks' = rival_asks + 1

RivalReady ==
    /\ lobby.seated["rival"] /\ rival_asks < MaxRivalAsks
    /\ TurnsReady("rival", ~lobby.ready["rival"])
    /\ rival_asks' = rival_asks + 1

\* Whether it still has a seat is not looked at.
RivalReports ==
    /\ rival_told
    /\ \E s \in Score, o \in BOOLEAN :
         /\ s >= status["rival"].score /\ (status["rival"].game_over => o)
         /\ [score |-> s, game_over |-> o] # status["rival"]
         /\ Reports("rival", AskStatus(s, o))
    /\ UNCHANGED rival_asks

\* It presses ESC, or its connection ends.
RivalLeaves ==
    /\ lobby.seated["rival"]
    /\ Leaves("rival")
    /\ UNCHANGED rival_asks

RivalAsks ==
    /\ at["rival"] = "recv" /\ Len(inbox) < Queue
    /\ RivalJoins \/ RivalReady \/ RivalReports \/ RivalLeaves
    /\ UNCHANGED <<link, out, asked>>

\* What the thread of each does by itself.
Thread(p) == GoesOn(p) \/ (p = "me" /\ Serve)

clientOnly == <<mainVars, lobbyVars, endVars, engineVars, net, game, reportVars>>

ServerRuns(p) == Alive /\ link = "up" /\ Thread(p) /\ UNCHANGED clientOnly

ServerSide ==
    \/ \E p \in Player : ServerRuns(p)
    \/ /\ Alive /\ link = "up"
       /\ RivalAsks \/ (ServerCloses /\ UNCHANGED serverVars)
       /\ UNCHANGED clientOnly

SNext ==
    \/ ClientStep /\ UNCHANGED serverVars
    \/ ServerSide
    \/ (Sampling \/ Gone) /\ UNCHANGED serverVars

SSpec == SInit /\ [][SNext]_sessionVars

\* The scheduler runs the threads of the client and of the server; getch in
\* the lobby times out.  Nobody has to press a key, the rival owes nothing,
\* and no frame has to cost a life.
SFairness ==
    /\ WF_sessionVars(Alive /\ MainStep /\ UNCHANGED serverVars)
    /\ WF_sessionVars(Alive /\ GameStep /\ UNCHANGED serverVars)
    /\ WF_sessionVars(Alive /\ NetStep /\ UNCHANGED serverVars)
    /\ \A p \in Player : WF_sessionVars(ServerRuns(p))

FairSession == SSpec /\ SFairness

-----------------------------------------------------------------------------
(***************************************************************************)
(* What the player is promised.                                            *)
(***************************************************************************)
\* A game of two is played from a GAME_START: by then the client knows the
\* slot that the server has given it, and it takes the seed of the last start
\* that it was sent, whichever of its threads has read it, unless a second
\* start is still under way.  The exception is the client that joins a game
\* that a late start has opened for one player: nobody sends it a GAME_START,
\* and it plays as player -1, with seed 0.
NoStart == joined_late /\ my_player_id = -1 /\ seed = 0

StartUnderWay == \E i \in 1 .. Len(inbox) : inbox[i].type = "GAME_START"
                                           /\ inbox[i].seed = start_seed

SeedOfTheGame ==
    [][InitGame /\ game' = "loop" /\ current_game_mode = "MULTI"
         => \/ NoStart
            \/ /\ my_player_id = slot["me"]
               /\ game_seed' = start_seed \/ StartUnderWay]_sessionVars

\* The player is told that it has won exactly when the server says so of its
\* slot: the slot that came with the GAME_START is still its own, and is read
\* before the result, by whichever thread.  The client without a GAME_START
\* has no slot to compare with.
VerdictFits ==
    [][(screen = "result" \/ net = "result") /\ HandleResult /\ ~NoStart
         => (shown' = "won" <=> Head(inbox).result.winner_id = slot["me"])]_sessionVars

\* A client in a game of two comes to its end once its life is spent and the
\* rival has finished or left: its report gets out, the result gets in, both
\* threads stop and the connection is closed.  A rival that has joined since
\* has to finish first.
Playing == current_game_mode = "MULTI" /\ game \in {"loop", "bombs", "move", "hits"}
RivalDone == ~lobby.seated["rival"] \/ status["rival"].game_over

GameConcludes ==
    Playing /\ life = 0 /\ RivalDone
        ~> \/ net = "ended" \/ link \in {"closed", "reset"} \/ ~Alive
           \/ lobby.game_started /\ ~RivalDone

\* A start that the server has sent to a client in the lobby screen gets it
\* into a game, unless its player leaves, or the game is over before that.
StartEntered ==
    lobby.game_started /\ screen \in {"lobby", "poll", "result"}
        ~> game # "none" \/ ~lobby.game_started \/ link # "up" \/ ~Alive

-----------------------------------------------------------------------------
(***************************************************************************)
(* What the comments of the code say and the code does not keep; each is   *)
(* refuted by a run of its own.                                            *)
(***************************************************************************)
\* The loop of a game lasts "until handle_game_result in network.c", which is
\* "called only when all clients have finished" (game.c:842): a client that
\* enters the game that the server runs does not have its result yet.
ResultOfOwnGame ==
    [][EnterGame /\ lobby.game_started => ~game_result_received]_sessionVars
=============================================================================
