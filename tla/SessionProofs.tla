---------------------------- MODULE SessionProofs ----------------------------
(***************************************************************************)
(* Theorems about Session.tla, for any scores, seeds, queue, number of     *)
(* toggles and number of the rival's requests.                             *)
(***************************************************************************)
EXTENDS Session, ClientProofs

-----------------------------------------------------------------------------
(***************************************************************************)
(* The inductive invariant: that of the client, the types of the server's  *)
(* side, and how far the one has heard of the other.                       *)
(***************************************************************************)
Room == [seated : [Player -> BOOLEAN], ready : [Player -> BOOLEAN],
         game_started : BOOLEAN]

LobbyTyped ==
    /\ lobby \in Room
    /\ slot \in [Player -> 0 .. 1]
    /\ status \in [Player -> [score : Score, game_over : BOOLEAN]]
    /\ at \in [Player -> Section]
    /\ start_seed \in Seed \cup {0}
    /\ joined_late \in BOOLEAN /\ rival_told \in BOOLEAN

IsStart(m) == m.type = "GAME_START"

\* What the server sends only while a game runs.
Running(m) == m.type = "GAME_END" \/ (m.type = "LOBBY_UPDATE" /\ m.lobby.game_started)

Leaving(p) == at[p] \in {"leave_end", "leave_broadcast", "leave2"}

\* The client has no seat, and has not been sent anything.
Fresh ==
    /\ ~lobby.seated["me"] /\ at["me"] = "recv" /\ inbox = <<>> /\ ~joined_late
    /\ my_player_id = -1 /\ ~told /\ ~network_lobby.game_started

\* It asks for a seat once, before anything else.
JoinsOnce ==
    /\ \A i \in 1 .. Len(out) : out[i].type = "LOBBY_JOIN" => i = 1 /\ Fresh
    /\ ~asked.joined => out = <<>> /\ Fresh

\* The slot in a GAME_START is the one the client still has.
SlotKnown ==
    /\ my_player_id \in {-1, slot["me"]}
    /\ my_player_id = -1 => seed = 0
    /\ \A i \in 1 .. Len(inbox) : IsStart(inbox[i]) => inbox[i].player_id = slot["me"]

\* When a message can tell the client of a game ...
Telling == (lobby.seated["me"] /\ lobby.game_started) \/ Leaving("me")

\* ... it has been sent a GAME_START, which comes before such a message, or
\* it has joined when the game had begun.
Knows == joined_late \/ my_player_id = slot["me"]

SlotFirst ==
    Telling => Knows \/ \E j \in 1 .. Len(inbox) : IsStart(inbox[j])

RunningLater ==
    \A i \in 1 .. Len(inbox) :
        Running(inbox[i]) => Knows \/ \E j \in 1 .. i - 1 : IsStart(inbox[j])

StartFirst ==
    /\ SlotFirst /\ RunningLater
    /\ network_lobby.game_started => Knows

\* The last GAME_START under way, or else the one read last, has the seed of
\* the last start.
LastStart ==
    \/ seed = start_seed /\ \A i \in 1 .. Len(inbox) : ~IsStart(inbox[i])
    \/ \E i \in 1 .. Len(inbox) :
         /\ IsStart(inbox[i]) /\ inbox[i].seed = start_seed
         /\ \A j \in i + 1 .. Len(inbox) : ~IsStart(inbox[j])

\* A game of two is entered only by a client that knows its slot, or that has
\* joined late.
Entered ==
    /\ game # "none" => screen \in {"launch_net", "join_game", "join_net", "exit"}
    /\ current_game_mode = "MULTI"
         /\ screen \in {"launch", "launch_net", "join_game", "join_net"}
       => Knows

Heard == SlotKnown /\ StartFirst /\ LastStart

SInv ==
    /\ IInv /\ LobbyTyped /\ rival_asks \in 0 .. MaxRivalAsks
    /\ JoinsOnce /\ Heard /\ Entered

-----------------------------------------------------------------------------
(***************************************************************************)
(* What the sections of the server do to the lobby, and what they send.    *)
(***************************************************************************)
\* What can be said of the messages ms of one section: a start, or messages
\* that tell of a game only if the client knows of one.
Quiet(ms) == \A i \in 1 .. Len(ms) : ~IsStart(ms[i]) /\ (Running(ms[i]) => Telling)

Says(ms) ==
    /\ ms \in Seq(Mail) /\ Delivered(ms)
    /\ \/ ms = <<StartMsg(slot["me"], start_seed')>> /\ slot'["me"] = slot["me"]
       \/ UNCHANGED start_seed /\ Quiet(ms) /\ (Telling' => Telling \/ joined_late')

\* A section of the player p keeps the types, and says nothing to a client
\* that has not been served.
Handled(p) ==
    /\ LobbyTyped' /\ (joined_late => joined_late')
    /\ \E ms : Says(ms) /\ (p = "rival" /\ Fresh => ms = <<>>)
    /\ p = "rival" => /\ lobby'.seated["me"] = lobby.seated["me"]
                      /\ at'["me"] = at["me"] /\ joined_late' = joined_late

\* The slot of the client stays its own.
SlotKept == slot'["me"] = slot["me"]

\* The messages that the sections build are messages of the client's Mail.
LEMMA Messages ==
    /\ \A b \in BOOLEAN :
         /\ UpdateMsg([game_started |-> b]) \in Mail
         /\ UpdateMsg([game_started |-> b]).type = "LOBBY_UPDATE"
         /\ UpdateMsg([game_started |-> b]).lobby.game_started = b
    /\ \A i \in 0 .. 1, sd \in Seed :
         StartMsg(i, sd) \in Mail /\ StartMsg(i, sd).type = "GAME_START"
         /\ StartMsg(i, sd).player_id = i /\ StartMsg(i, sd).seed = sd
    /\ \A w \in -1 .. 1 : EndMsg([winner_id |-> w]) \in Mail
                          /\ EndMsg([winner_id |-> w]).type = "GAME_END"
<1>1. ASSUME NEW b \in BOOLEAN
      PROVE  /\ UpdateMsg([game_started |-> b]) \in Mail
             /\ UpdateMsg([game_started |-> b]).type = "LOBBY_UPDATE"
             /\ UpdateMsg([game_started |-> b]).lobby.game_started = b
  BY DEF UpdateMsg, Mail
<1>2. ASSUME NEW i \in 0 .. 1, NEW sd \in Seed
      PROVE  /\ StartMsg(i, sd) \in Mail /\ StartMsg(i, sd).type = "GAME_START"
             /\ StartMsg(i, sd).player_id = i /\ StartMsg(i, sd).seed = sd
  BY DEF StartMsg, Mail
<1>3. ASSUME NEW w \in -1 .. 1
      PROVE  /\ EndMsg([winner_id |-> w]) \in Mail
             /\ EndMsg([winner_id |-> w]).type = "GAME_END"
  BY DEF EndMsg, Mail
<1> QED BY <1>1, <1>2, <1>3

\* A report that is forwarded to the client.
LEMMA Forwarded ==
    ASSUME NEW s \in Score, NEW o \in BOOLEAN
    PROVE  /\ StatusMsg(AskStatus(s, o)) \in Mail
           /\ AskStatus(s, o) \in Request
           /\ AskStatus(s, o).score = s /\ AskStatus(s, o).game_over = o
<1>1. AskStatus(s, o).score = s /\ AskStatus(s, o).game_over = o
  BY DEF AskStatus, Ask
<1>2. StatusMsg(AskStatus(s, o)) \in Mail
  BY DEF Mail
<1> QED BY <1>1, <1>2, RequestTypes

\* One message, or none, that is not a start.
LEMMA QuietNone == <<>> \in Seq(Mail) /\ Quiet(<<>>)
BY DEF Quiet

LEMMA QuietOne ==
    ASSUME NEW m \in Mail, ~IsStart(m), Running(m) => Telling
    PROVE  <<m>> \in Seq(Mail) /\ Quiet(<<m>>)
<1>1. \A i \in 1 .. Len(<<m>>) : <<m>>[i] = m
  OBVIOUS
<1> QED BY <1>1 DEF Quiet

-----------------------------------------------------------------------------
\* The lobby after each of the changes that the sections make to it.
LEMMA RoomJoined ==
    ASSUME NEW r \in Room, NEW p \in Player
    PROVE  LET q == [r EXCEPT !.seated[p] = TRUE, !.ready[p] = FALSE]
           IN  /\ q \in Room
               /\ q.seated = [r.seated EXCEPT ![p] = TRUE]
               /\ q.game_started = r.game_started
BY DEF Room

LEMMA RoomTurned ==
    ASSUME NEW r \in Room, NEW p \in Player, NEW b \in BOOLEAN
    PROVE  LET q == [r EXCEPT !.ready[p] = b]
           IN  q \in Room /\ q.seated = r.seated /\ q.game_started = r.game_started
BY DEF Room

LEMMA RoomStarted ==
    ASSUME NEW r \in Room, NEW b \in BOOLEAN
    PROVE  LET q == [r EXCEPT !.game_started = b]
           IN  q \in Room /\ q.seated = r.seated /\ q.game_started = b
BY DEF Room

LEMMA RoomOver ==
    ASSUME NEW r \in Room
    PROVE  LET q == [r EXCEPT !.ready = [p \in Player |-> FALSE], !.game_started = FALSE]
           IN  q \in Room /\ q.seated = r.seated /\ q.game_started = FALSE
BY DEF Room

LEMMA RoomLeft ==
    ASSUME NEW r \in Room, NEW p \in Player
    PROVE  LET q == [r EXCEPT !.seated[p] = FALSE, !.ready[p] = FALSE]
           IN  /\ q \in Room
               /\ q.seated = [r.seated EXCEPT ![p] = FALSE]
               /\ q.game_started = r.game_started
BY DEF Room

\* A thread that goes to another section.
LEMMA Went ==
    ASSUME at \in [Player -> Section], NEW p \in Player, NEW s \in Section, Goto(p, s)
    PROVE  /\ at' \in [Player -> Section] /\ at'[p] = s
           /\ p = "rival" => at'["me"] = at["me"]
           /\ p = "me" \/ p = "rival"
BY DEF Goto, Player

\* A player whose score and game_over are reset.
LEMMA StatusReset ==
    ASSUME status \in [Player -> [score : Score, game_over : BOOLEAN]], NEW p \in Player
    PROVE  Cleared(p) \in [Player -> [score : Score, game_over : BOOLEAN]]
<1>1. NoStatus \in [score : Score, game_over : BOOLEAN]
  BY Scores0 DEF NoStatus
<1> QED BY <1>1 DEF Cleared

-----------------------------------------------------------------------------
\* The sections, one by one: broadcast_lobby_update, ...
LEMMA BroadcastsHandled ==
    ASSUME LobbyTyped, NEW p \in Player, Broadcasts(p)
    PROVE  Handled(p) /\ SlotKept
<1> USE DEF LobbyTyped
<1>1. UNCHANGED <<lobby, slot, status, start_seed, joined_late>>
  BY DEF Broadcasts
<1>2. PICK s \in Section : /\ Goto(p, s) /\ s \in {"recv", "leave2"}
                           /\ s = "leave2" => at[p] = "leave_broadcast"
  BY DEF Broadcasts, Section
<1>3. /\ at' \in [Player -> Section] /\ at'[p] = s
      /\ p = "rival" => at'["me"] = at["me"]
      /\ p = "me" \/ p = "rival"
  BY <1>2, Went
<1>4. LobbyTyped'
  <2>1. rival_told' \in BOOLEAN
    BY DEF Broadcasts
  <2> QED BY <1>1, <1>3, <2>1
<1>5. Telling' => Telling
  BY <1>1, <1>2, <1>3 DEF Telling, Leaving
<1> DEFINE u  == UpdateMsg([game_started |-> lobby.game_started])
           ms == IF Member("me") THEN <<u>> ELSE <<>>
<1>6. Delivered(ms)
  BY DEF Broadcasts
<1>7. ms \in Seq(Mail) /\ Quiet(ms)
  <2>1. lobby.game_started \in BOOLEAN
    BY DEF Room
  <2>2. u \in Mail /\ ~IsStart(u) /\ (Running(u) => lobby.game_started)
    BY <2>1, Messages DEF IsStart, Running
  <2>3. Member("me") /\ lobby.game_started => Telling
    BY DEF Member, Telling, Leaving
  <2> HIDE DEF u
  <2> QED BY <2>2, <2>3, QuietNone, QuietOne
<1>8. Fresh => ms = <<>>
  BY DEF Fresh, Member
<1> HIDE DEF ms
<1>9. Says(ms)
  BY <1>1, <1>5, <1>6, <1>7 DEF Says
<1> QED BY <1>1, <1>3, <1>4, <1>8, <1>9 DEF Handled, SlotKept

\* ... add_player_to_lobby, ...
LEMMA JoinsHandled ==
    ASSUME LobbyTyped, NEW p \in Player, Joins(p)
    PROVE  Handled(p) /\ (p = "rival" => SlotKept)
<1> USE DEF LobbyTyped
<1>1. /\ lobby' \in Room
      /\ lobby'.seated = [lobby.seated EXCEPT ![p] = TRUE]
      /\ lobby'.game_started = lobby.game_started
  BY RoomJoined DEF Joins
<1>2. slot' \in [Player -> 0 .. 1] /\ (p = "rival" => slot'["me"] = slot["me"])
  BY DEF Joins, SlotOf, Player
<1>3. /\ at' \in [Player -> Section] /\ at'[p] = "broadcast"
      /\ p = "rival" => at'["me"] = at["me"]
      /\ p = "me" \/ p = "rival"
  BY Went DEF Joins, Section
<1>4. /\ status' = Cleared(p) /\ UNCHANGED start_seed /\ Delivered(<<>>)
      /\ joined_late' = (joined_late \/ (p = "me" /\ lobby.game_started))
      /\ rival_told' \in BOOLEAN
  BY DEF Joins
<1>5. LobbyTyped'
  BY <1>1, <1>2, <1>3, <1>4, StatusReset
<1>6. p = "rival" => lobby'.seated["me"] = lobby.seated["me"]
  BY <1>1 DEF Room, Player
<1>7. Telling' => Telling \/ joined_late'
  BY <1>1, <1>3, <1>4, <1>6 DEF Telling, Leaving
<1>8. Says(<<>>)
  BY <1>4, <1>7, QuietNone DEF Says
<1> QED BY <1>2, <1>3, <1>4, <1>5, <1>6, <1>8 DEF Handled, SlotKept

\* ... update_ready_status, ...
LEMMA TurnsHandled ==
    ASSUME LobbyTyped, NEW p \in Player, NEW b \in BOOLEAN, TurnsReady(p, b)
    PROVE  Handled(p) /\ SlotKept
<1> USE DEF LobbyTyped
<1>1. /\ UNCHANGED <<slot, status, start_seed, joined_late, rival_told>>
      /\ Delivered(<<>>)
  BY DEF TurnsReady
<1>2. /\ lobby' \in Room /\ lobby'.seated = lobby.seated
      /\ lobby'.game_started = lobby.game_started
  <2>1. lobby' = lobby \/ lobby' = [lobby EXCEPT !.ready[p] = b]
    BY DEF TurnsReady
  <2>2. CASE lobby' = lobby
    BY <2>2
  <2>3. CASE lobby' = [lobby EXCEPT !.ready[p] = b]
    BY <2>3, RoomTurned
  <2> QED BY <2>1, <2>2, <2>3
<1>3. /\ at' \in [Player -> Section]
      /\ at'[p] \in {at[p], "start_game", "broadcast"}
      /\ p = "rival" => at'["me"] = at["me"]
      /\ p = "me" \/ p = "rival"
  <2>1. CASE UNCHANGED at
    BY <2>1 DEF Player
  <2>2. CASE \E s \in {"start_game", "broadcast"} : Goto(p, s)
    BY <2>2, Went DEF Section
  <2> QED BY <2>1, <2>2 DEF TurnsReady
<1>4. LobbyTyped'
  BY <1>1, <1>2, <1>3
<1>5. Telling' => Telling
  BY <1>2, <1>3 DEF Telling, Leaving
<1>6. Says(<<>>)
  BY <1>1, <1>5, QuietNone DEF Says
<1> QED BY <1>1, <1>2, <1>3, <1>4, <1>6 DEF Handled, SlotKept

\* ... broadcast_game_start, ...
LEMMA StartsHandled ==
    ASSUME LobbyTyped, NEW p \in Player, StartsGame(p)
    PROVE  Handled(p) /\ SlotKept
<1> USE DEF LobbyTyped
<1>1. /\ UNCHANGED <<slot, status, joined_late>>
      /\ start_seed' \in IF lobby.seated["me"] THEN Seed ELSE {start_seed}
      /\ Delivered(IfSeated(<<StartMsg(slot["me"], start_seed')>>))
      /\ rival_told' \in BOOLEAN
  <2>1. lobby.seated["rival"] \in BOOLEAN
    BY DEF Room, Player
  <2> QED BY <2>1 DEF StartsGame
<1>2. lobby' \in Room /\ lobby'.seated = lobby.seated
  BY RoomStarted DEF StartsGame
<1>3. /\ at' \in [Player -> Section] /\ at'[p] = "recv"
      /\ p = "rival" => at'["me"] = at["me"]
      /\ p = "me" \/ p = "rival"
  BY Went DEF StartsGame, Section
<1>4. LobbyTyped'
  BY <1>1, <1>2, <1>3
<1>5. CASE lobby.seated["me"]
  <2> DEFINE ms == <<StartMsg(slot["me"], start_seed')>>
  <2>1. Delivered(ms)
    BY <1>1, <1>5 DEF IfSeated
  <2>2. StartMsg(slot["me"], start_seed') \in Mail
    BY <1>1, <1>5, Messages DEF Player
  <2>3. Says(ms)
    BY <1>1, <2>1, <2>2 DEF Says
  <2>4. ~Fresh
    BY <1>5 DEF Fresh
  <2> HIDE DEF ms
  <2> QED BY <1>1, <1>2, <1>3, <1>4, <2>3, <2>4 DEF Handled, SlotKept
<1>6. CASE ~lobby.seated["me"]
  <2>1. Delivered(<<>>) /\ UNCHANGED start_seed
    BY <1>1, <1>6 DEF IfSeated
  <2>2. Telling' => Telling
    BY <1>2, <1>3, <1>6 DEF Telling, Leaving
  <2>3. Says(<<>>)
    BY <2>1, <2>2, QuietNone DEF Says
  <2> QED BY <1>1, <1>2, <1>3, <1>4, <2>3 DEF Handled, SlotKept
<1> QED BY <1>5, <1>6

\* ... update_game_status, ...
LEMMA ReportsHandled ==
    ASSUME LobbyTyped, NEW p \in Player, NEW m \in Request,
           p = "rival" => StatusMsg(m) \in Mail, Reports(p, m)
    PROVE  Handled(p) /\ SlotKept
<1> USE DEF LobbyTyped
<1>1. UNCHANGED <<lobby, slot, start_seed, joined_late, rival_told>>
  BY DEF Reports
<1>2. status' \in [Player -> [score : Score, game_over : BOOLEAN]]
  BY DEF Reports, Request
<1>3. /\ at' \in [Player -> Section] /\ at'[p] \in {"game_end", "recv"}
      /\ p = "rival" => at'["me"] = at["me"]
      /\ p = "me" \/ p = "rival"
  <2>1. PICK s \in Section : Goto(p, s) /\ s \in {"game_end", "recv"}
    BY DEF Reports, Section
  <2> QED BY <2>1, Went
<1>4. LobbyTyped'
  BY <1>1, <1>2, <1>3
<1>5. Telling' => Telling
  BY <1>1, <1>3 DEF Telling, Leaving
<1> DEFINE ms == IF p = "rival" /\ lobby.game_started
                 THEN IfSeated(<<StatusMsg(m)>>) ELSE <<>>
<1>6. Delivered(ms)
  BY DEF Reports
<1>7. ms \in Seq(Mail) /\ Quiet(ms) /\ (Fresh => ms = <<>>)
  <2>1. ~IsStart(StatusMsg(m)) /\ ~Running(StatusMsg(m))
    BY DEF StatusMsg, IsStart, Running
  <2> QED BY <2>1, QuietNone, QuietOne DEF IfSeated, Fresh
<1> HIDE DEF ms
<1>8. Says(ms)
  BY <1>1, <1>5, <1>6, <1>7 DEF Says
<1> QED BY <1>1, <1>3, <1>4, <1>7, <1>8 DEF Handled, SlotKept

\* The winner is a slot, or there is none.
LEMMA WinnerOfTwo ==
    ASSUME LobbyTyped
    PROVE  Winner \in -1 .. 1
<1>1. slot["me"] \in 0 .. 1 /\ slot["rival"] \in 0 .. 1
  BY DEF LobbyTyped, Player
<1> QED BY <1>1 DEF Winner

\* ... handle_game_end, ...
LEMMA EndsHandled ==
    ASSUME LobbyTyped, NEW p \in Player, EndsGame(p)
    PROVE  Handled(p) /\ SlotKept
<1> USE DEF LobbyTyped
<1>1. UNCHANGED <<slot, start_seed, joined_late, rival_told>>
  BY DEF EndsGame
<1>2. /\ at' \in [Player -> Section]
      /\ at'[p] \in {"leave_broadcast", "leave2"} => at[p] = "leave_end"
      /\ at'[p] # "leave_end"
      /\ p = "rival" => at'["me"] = at["me"]
      /\ p = "me" \/ p = "rival"
  <2>1. PICK s \in Section :
          Goto(p, s) /\ s # "leave_end"
            /\ (s \in {"leave_broadcast", "leave2"} => at[p] = "leave_end")
    BY DEF EndsGame, Section
  <2> QED BY <2>1, Went
<1>3. CASE ~(lobby.game_started /\ Decided)
  <2>1. UNCHANGED <<lobby, status>> /\ Delivered(<<>>)
    BY <1>3 DEF EndsGame
  <2>2. LobbyTyped'
    BY <1>1, <1>2, <2>1
  <2>3. Telling' => Telling
    BY <1>2, <2>1 DEF Telling, Leaving
  <2>4. Says(<<>>)
    BY <1>1, <2>1, <2>3, QuietNone DEF Says
  <2> QED BY <1>1, <1>2, <2>1, <2>2, <2>4 DEF Handled, SlotKept
<1>4. CASE lobby.game_started /\ Decided
  <2> DEFINE e  == EndMsg([winner_id |-> Winner])
             ms == IfSeated(<<e>>)
  <2>1. /\ lobby' = [lobby EXCEPT !.ready = [q \in Player |-> FALSE],
                                  !.game_started = FALSE]
        /\ status' = [q \in Player |-> IF lobby.seated[q] THEN NoStatus ELSE status[q]]
        /\ Delivered(ms)
    BY <1>4 DEF EndsGame
  <2>2. lobby' \in Room /\ lobby'.seated = lobby.seated /\ ~lobby'.game_started
    BY <2>1, RoomOver
  <2>3. status' \in [Player -> [score : Score, game_over : BOOLEAN]]
    BY <2>1, Scores0 DEF NoStatus
  <2>4. LobbyTyped'
    BY <1>1, <1>2, <2>2, <2>3
  <2>5. Telling' => Telling
    BY <1>2, <2>2 DEF Telling, Leaving
  <2>6. e \in Mail /\ ~IsStart(e)
    BY WinnerOfTwo, Messages DEF IsStart
  <2>7. lobby.seated["me"] => Telling
    BY <1>4 DEF Telling
  <2> HIDE DEF e
  <2>8. ms \in Seq(Mail) /\ Quiet(ms) /\ (Fresh => ms = <<>>)
    BY <2>6, <2>7, QuietNone, QuietOne DEF IfSeated, Fresh
  <2> HIDE DEF ms
  <2>9. Says(ms)
    BY <1>1, <2>1, <2>5, <2>8 DEF Says
  <2> QED BY <1>1, <1>2, <2>2, <2>4, <2>8, <2>9 DEF Handled, SlotKept
<1> QED BY <1>3, <1>4

\* ... and the two halves of remove_player_from_lobby.
LEMMA LeavesHandled ==
    ASSUME LobbyTyped, NEW p \in Player, Leaves(p)
    PROVE  Handled(p) /\ SlotKept
<1> USE DEF LobbyTyped
<1>1. UNCHANGED <<slot, start_seed, joined_late, rival_told>> /\ Delivered(<<>>)
  BY DEF Leaves
<1>2. CASE ~lobby.seated[p]
  <2>1. UNCHANGED <<lobby, status, at>>
    BY <1>2 DEF Leaves
  <2>2. LobbyTyped' /\ (Telling' => Telling)
    BY <1>1, <2>1 DEF Telling, Leaving
  <2>3. Says(<<>>)
    BY <1>1, <2>2, QuietNone DEF Says
  <2> QED BY <1>1, <2>1, <2>2, <2>3 DEF Handled, SlotKept
<1>3. CASE lobby.seated[p]
  <2>1. /\ lobby' \in Room /\ lobby'.seated = [lobby.seated EXCEPT ![p] = FALSE]
        /\ lobby'.game_started = lobby.game_started
    <3>1. lobby' = [lobby EXCEPT !.seated[p] = FALSE, !.ready[p] = FALSE]
      BY <1>3 DEF Leaves
    <3> QED BY <3>1, RoomLeft
  <2>2. /\ at' \in [Player -> Section]
        /\ at'[p] \in {"leave_end", "broadcast"}
        /\ at'[p] = "leave_end" => lobby.game_started
        /\ p = "rival" => at'["me"] = at["me"]
        /\ p = "me" \/ p = "rival"
    <3>1. PICK s \in Section : /\ Goto(p, s) /\ s \in {"leave_end", "broadcast"}
                               /\ s = "leave_end" => lobby.game_started
      BY <1>3 DEF Leaves, Section
    <3> QED BY <3>1, Went
  <2>3. status' \in [Player -> [score : Score, game_over : BOOLEAN]]
    <3>1. status' = status \/ status' = Cleared(p)
      BY <1>3 DEF Leaves
    <3> QED BY <3>1, StatusReset
  <2>4. LobbyTyped'
    BY <1>1, <2>1, <2>2, <2>3
  <2>5. p = "rival" => lobby'.seated["me"] = lobby.seated["me"]
    BY <2>1 DEF Room, Player
  <2>6. p = "me" => ~lobby'.seated["me"]
    BY <2>1 DEF Room, Player
  <2>7. Telling' => Telling
    BY <1>3, <2>1, <2>2, <2>5, <2>6 DEF Telling, Leaving
  <2>8. Says(<<>>)
    BY <1>1, <2>7, QuietNone DEF Says
  <2> QED BY <1>1, <2>2, <2>4, <2>5, <2>8 DEF Handled, SlotKept
<1> QED BY <1>2, <1>3

LEMMA AfterEndHandled ==
    ASSUME LobbyTyped, NEW p \in Player, LeavesAfterEnd(p)
    PROVE  Handled(p) /\ SlotKept
<1> USE DEF LobbyTyped
<1>1. UNCHANGED <<slot, start_seed, joined_late, rival_told>> /\ Delivered(<<>>)
  BY DEF LeavesAfterEnd
<1>2. lobby' \in Room /\ lobby'.seated = lobby.seated /\ ~lobby'.game_started
  BY RoomStarted DEF LeavesAfterEnd
<1>3. /\ at' \in [Player -> Section] /\ at'[p] = "broadcast"
      /\ p = "rival" => at'["me"] = at["me"]
      /\ p = "me" \/ p = "rival"
  BY Went DEF LeavesAfterEnd, Section
<1>4. status' \in [Player -> [score : Score, game_over : BOOLEAN]]
  BY StatusReset DEF LeavesAfterEnd
<1>5. LobbyTyped'
  BY <1>1, <1>2, <1>3, <1>4
<1>6. Telling' => Telling
  BY <1>2, <1>3 DEF Telling, Leaving
<1>7. Says(<<>>)
  BY <1>1, <1>6, QuietNone DEF Says
<1> QED BY <1>1, <1>2, <1>3, <1>5, <1>7 DEF Handled, SlotKept

-----------------------------------------------------------------------------
(***************************************************************************)
(* What the messages of a section mean for the client.                     *)
(***************************************************************************)
USE DEF mainVars, lobbyVars, endVars, engineVars, wireVars, reportVars, gameOnly,
        netOnly, clientOnly, serverVars, Goes

\* They are put behind those that are under way.
LEMMA BehindOthers ==
    ASSUME QueuesOK, NEW ms \in Seq(Mail), inbox' = inbox \o ms
    PROVE  /\ inbox' \in Seq(Mail)
           /\ Len(inbox) \in Nat /\ Len(ms) \in Nat
           /\ Len(inbox') = Len(inbox) + Len(ms)
           /\ \A i \in 1 .. Len(inbox) :
                i \in 1 .. Len(inbox') /\ inbox'[i] = inbox[i]
           /\ \A i \in 1 .. Len(inbox') :
                \/ i \in 1 .. Len(inbox)
                \/ /\ i - Len(inbox) \in 1 .. Len(ms)
                   /\ inbox'[i] = ms[i - Len(inbox)]
           /\ inbox # <<>> => inbox' # <<>> /\ Head(inbox') = Head(inbox)
<1>1. inbox \in Seq(Mail) /\ inbox' \in Seq(Mail)
  BY DEF QueuesOK
<1>2. /\ Len(inbox) \in Nat /\ Len(ms) \in Nat
      /\ Len(inbox') = Len(inbox) + Len(ms)
  BY <1>1
<1>3. \A i \in 1 .. Len(inbox) : i \in 1 .. Len(inbox') /\ inbox'[i] = inbox[i]
  BY <1>1
<1>4. ASSUME NEW i \in 1 .. Len(inbox'), i \notin 1 .. Len(inbox)
      PROVE  i - Len(inbox) \in 1 .. Len(ms) /\ inbox'[i] = ms[i - Len(inbox)]
  BY <1>1, <1>2, <1>4
<1>5. ASSUME inbox # <<>>
      PROVE  inbox' # <<>> /\ Head(inbox') = Head(inbox)
  BY <1>1, <1>2, <1>3, <1>5
<1> QED BY <1>1, <1>2, <1>3, <1>4, <1>5

\* They leave the client's own invariant alone.
LEMMA HandlerInv ==
    ASSUME IInv, NEW ms \in Seq(Mail), Delivered(ms), UNCHANGED clientOnly,
           UNCHANGED <<link, asked>>,
           UNCHANGED out \/ (out # <<>> /\ out' = Tail(out))
    PROVE  IInv'
<1>1. QueuesOK
  BY DEF IInv, Typed
<1>2. inbox' = inbox \o ms
  BY DEF Delivered
<1>3. told' \in BOOLEAN /\ (told => told')
  BY DEF Delivered, IInv, Typed, CTypeOK
<1>4. \A i \in 1 .. Len(ms) : Tells(ms[i]) => told'
  <2>1. DOMAIN ms = 1 .. Len(ms)
    OBVIOUS
  <2>2. \A i \in DOMAIN ms : Tells(ms[i]) => told'
    BY Zenon DEF Delivered
  <2> QED BY <2>1, <2>2
<1>5. out' \in Seq(Request) /\ Len(out') <= Queue
  <2>1. out \in Seq(Request) /\ Len(out) <= Queue
    BY DEF IInv, Typed, CTypeOK, QueuesOK
  <2>2. CASE out # <<>> /\ out' = Tail(out)
    BY <2>1, <2>2, QueueAssumption
  <2> QED BY <2>1, <2>2
<1>6. Typed'
  BY <1>1, <1>2, <1>3, <1>5, BehindOthers DEF IInv, Typed, CTypeOK, QueuesOK
<1>7. Turns'
  BY <1>1, <1>2, BehindOthers DEF IInv, Turns, ThreadsLater, ResultFirst, Got
<1>8. ToldFirst'
  <2>1. \A i \in 1 .. Len(inbox') : Tells(inbox'[i]) => told'
    BY <1>1, <1>2, <1>3, <1>4, BehindOthers DEF IInv, ToldFirst
  <2> QED BY <1>3, <2>1 DEF IInv, ToldFirst
<1>9. Order'
  BY DEF IInv, Order, BeforeJoin, OnScreen, ReportsBehind
<1> QED BY <1>6, <1>7, <1>8, <1>9 DEF IInv

\* What a client knows or has under way is not lost.  Its slot changes only
\* before it has heard anything.
Moves == /\ joined_late => joined_late'
         /\ slot'["me"] = slot["me"] \/ Fresh

LEMMA StillKnows ==
    ASSUME Moves, ~Fresh, UNCHANGED lobbyVars, Knows
    PROVE  Knows'
BY DEF Moves, Knows

\* They keep to what the client has heard of.
LEMMA SectionHeard ==
    ASSUME QueuesOK, LobbyTyped, Heard, NEW ms, Says(ms), Moves, UNCHANGED lobbyVars
    PROVE  Heard'
<1> DEFINE n == Len(inbox)
<1>1. ms \in Seq(Mail) /\ inbox' = inbox \o ms
  BY DEF Says, Delivered
<1>2. Fresh => ~Telling /\ n = 0
  BY DEF Fresh, Telling, Leaving
<1>3. ASSUME ~Fresh, Knows
      PROVE  Knows'
  BY <1>3, StillKnows
<1> HIDE DEF n
<1>4. CASE /\ ms = <<StartMsg(slot["me"], start_seed')>>
           /\ slot'["me"] = slot["me"]
  <2>1. Len(ms) = 1 /\ ms[1] = StartMsg(slot["me"], start_seed')
    BY <1>4
  <2>2. /\ IsStart(ms[1]) /\ ~Running(ms[1])
        /\ ms[1].player_id = slot["me"] /\ ms[1].seed = start_seed'
    BY <2>1 DEF StartMsg, IsStart, Running
  <2>3. /\ n \in Nat /\ Len(inbox') = n + 1 /\ inbox'[n + 1] = ms[1]
        /\ \A i \in 1 .. n : i \in 1 .. Len(inbox') /\ inbox'[i] = inbox[i]
    <3>1. /\ n \in Nat /\ Len(inbox') = n + 1
          /\ \A i \in 1 .. n : i \in 1 .. Len(inbox') /\ inbox'[i] = inbox[i]
      BY <1>1, <2>1, BehindOthers DEF n
    <3>2. n + 1 \in 1 .. Len(inbox') /\ n + 1 \notin 1 .. n
      BY <3>1
    <3>3. inbox'[n + 1] = ms[(n + 1) - n]
      BY <1>1, <3>2, BehindOthers DEF n
    <3>4. (n + 1) - n = 1
      BY <3>1
    <3> QED BY <3>1, <3>3, <3>4
  <2>4. SlotKnown'
    BY <1>4, <2>2, <2>3 DEF Heard, SlotKnown, n
  <2>5. n + 1 \in 1 .. Len(inbox') /\ IsStart(inbox'[n + 1])
    BY <2>2, <2>3
  <2>6. SlotFirst'
    BY <2>5 DEF SlotFirst
  <2>7. Knows => Knows'
    BY <1>4 DEF Knows, Moves
  <2>8. RunningLater'
    <3> SUFFICES ASSUME NEW i \in 1 .. Len(inbox'), Running(inbox'[i])
                 PROVE  Knows' \/ \E j \in 1 .. i - 1 : IsStart(inbox'[j])
      BY DEF RunningLater
    <3>1. i \in 1 .. n
      BY <2>2, <2>3
    <3>2. Knows \/ \E j \in 1 .. i - 1 : IsStart(inbox[j])
      BY <2>3, <3>1 DEF Heard, StartFirst, RunningLater, n
    <3>3. \A j \in 1 .. i - 1 : inbox'[j] = inbox[j]
      BY <2>3, <3>1
    <3> QED BY <2>7, <3>2, <3>3
  <2>9. StartFirst'
    BY <2>6, <2>8, <2>7 DEF Heard, StartFirst
  <2>10. LastStart'
    BY <2>2, <2>3, <2>5 DEF LastStart
  <2> QED BY <2>4, <2>9, <2>10 DEF Heard
<1>5. CASE UNCHANGED start_seed /\ Quiet(ms) /\ (Telling' => Telling \/ joined_late')
  <2>1. \A i \in 1 .. Len(inbox') :
          \/ i \in 1 .. n /\ inbox'[i] = inbox[i]
          \/ i \notin 1 .. n /\ ~IsStart(inbox'[i]) /\ (Running(inbox'[i]) => Telling)
    BY <1>1, <1>5, BehindOthers DEF Quiet, n
  <2>2. /\ n \in Nat /\ Len(inbox') \in Nat
        /\ \A i \in 1 .. n : i \in 1 .. Len(inbox') /\ inbox'[i] = inbox[i]
    BY <1>1, BehindOthers DEF n
  <2>3. SlotKnown'
    <3>1. my_player_id \in {-1, slot'["me"]}
      BY DEF Heard, SlotKnown, Moves, Fresh
    <3>2. \A i \in 1 .. Len(inbox') : IsStart(inbox'[i]) => inbox'[i].player_id = slot'["me"]
      BY <1>2, <2>1, <2>2 DEF Heard, SlotKnown, Moves, n
    <3> QED BY <3>1, <3>2 DEF Heard, SlotKnown
  <2>4. Telling => Knows' \/ \E j \in 1 .. n : IsStart(inbox[j])
    BY <1>2, <1>3 DEF Heard, StartFirst, SlotFirst, n
  <2>5. SlotFirst'
    <3>1. joined_late' => Knows'
      BY DEF Knows
    <3> QED BY <1>5, <2>2, <2>4, <3>1 DEF SlotFirst
  <2>6. RunningLater'
    <3> SUFFICES ASSUME NEW i \in 1 .. Len(inbox'), Running(inbox'[i])
                 PROVE  Knows' \/ \E j \in 1 .. i - 1 : IsStart(inbox'[j])
      BY DEF RunningLater
    <3>1. CASE i \in 1 .. n /\ inbox'[i] = inbox[i]
      <4>1. ~Fresh
        BY <1>2, <2>2, <3>1
      <4>2. Knows \/ \E j \in 1 .. i - 1 : IsStart(inbox[j])
        BY <3>1 DEF Heard, StartFirst, RunningLater, n
      <4>3. \A j \in 1 .. i - 1 : inbox'[j] = inbox[j]
        BY <2>2, <3>1
      <4> QED BY <1>3, <4>1, <4>2, <4>3
    <3>2. CASE i \notin 1 .. n /\ (Running(inbox'[i]) => Telling)
      <4>1. \A j \in 1 .. n : j \in 1 .. i - 1 /\ inbox'[j] = inbox[j]
        BY <2>2, <3>2
      <4> QED BY <2>4, <3>2, <4>1
    <3> QED BY <2>1, <3>1, <3>2
  <2>7. network_lobby.game_started => Knows'
    BY <1>3 DEF Heard, StartFirst, Fresh
  <2>8. StartFirst'
    BY <2>5, <2>6, <2>7 DEF StartFirst
  <2>9. LastStart'
    <3>1. CASE seed = start_seed /\ \A i \in 1 .. n : ~IsStart(inbox[i])
      BY <1>5, <2>1, <3>1 DEF LastStart
    <3>2. ASSUME NEW i \in 1 .. n, IsStart(inbox[i]), inbox[i].seed = start_seed,
                 \A j \in i + 1 .. n : ~IsStart(inbox[j])
          PROVE  LastStart'
      <4>1. i \in 1 .. Len(inbox') /\ inbox'[i] = inbox[i]
        BY <2>2
      <4>2. \A j \in i + 1 .. Len(inbox') : ~IsStart(inbox'[j])
        BY <2>1, <2>2, <3>2
      <4> QED BY <1>5, <3>2, <4>1, <4>2 DEF LastStart
    <3> QED BY <3>1, <3>2 DEF Heard, LastStart, n
  <2> QED BY <2>3, <2>8, <2>9 DEF Heard
<1> QED BY <1>4, <1>5 DEF Says

\* A client without a seat is still fresh when the rival has been served.
LEMMA StaysFresh ==
    ASSUME Handled("rival"), UNCHANGED lobbyVars, Fresh
    PROVE  Fresh'
<1>1. /\ Delivered(<<>>) /\ ~lobby'.seated["me"]
      /\ at'["me"] = "recv" /\ ~joined_late'
  BY DEF Handled, Says, Fresh
<1>2. inbox' = <<>>
  <2>1. inbox' = <<>> \o <<>>
    BY <1>1 DEF Delivered, Fresh
  <2> QED BY <2>1
<1>3. ~told'
  <2>1. DOMAIN <<>> = {}
    OBVIOUS
  <2> QED BY <1>1, <2>1, Zenon DEF Delivered, Fresh
<1> QED BY <1>1, <1>2, <1>3 DEF Fresh

\* What every section leaves to show: JoinsOnce, which is about the requests.
LEMMA SectionInv ==
    ASSUME SInv, NEW p \in Player, Handled(p), SlotKept \/ Fresh, UNCHANGED clientOnly,
           UNCHANGED <<link, asked>>,
           UNCHANGED out \/ (out # <<>> /\ out' = Tail(out)),
           (rival_asks \in 0 .. MaxRivalAsks)', JoinsOnce'
    PROVE  SInv'
<1> USE DEF SInv
<1>1. PICK ms : Says(ms)
  BY DEF Handled
<1>2. ms \in Seq(Mail) /\ Delivered(ms) /\ QueuesOK
  BY <1>1 DEF Says, IInv, Typed
<1>3. IInv'
  BY <1>2, HandlerInv
<1>4. Moves
  BY DEF Handled, Moves, SlotKept
<1>5. Heard'
  BY <1>1, <1>2, <1>4, SectionHeard
<1>6. LobbyTyped'
  BY DEF Handled
<1>7. Entered'
  <2>1. Fresh => ~Knows
    BY DEF Fresh, Knows, LobbyTyped, Player
  <2>2. Knows => Knows'
    BY <1>4, <2>1, StillKnows
  <2> QED BY <2>2 DEF Entered
<1> QED BY <1>3, <1>5, <1>6, <1>7

\* The server keeps the invariant, for a request of the client, ...
LEMMA ServeInv ==
    ASSUME SInv, Serve, UNCHANGED clientOnly
    PROVE  SInv'
<1> USE DEF SInv
<1>1. /\ out # <<>> /\ out' = Tail(out) /\ UNCHANGED <<link, asked, rival_asks>>
      /\ out \in Seq(Request)
  BY DEF Serve, IInv, Typed, QueuesOK
<1>2. /\ Head(out) = out[1] /\ Len(out) \in Nat /\ 1 \in 1 .. Len(out)
      /\ Len(out') \in Nat /\ Len(out') = Len(out) - 1
      /\ \A i \in 1 .. Len(out') : out'[i] = out[i + 1]
      /\ Head(out) \in Request
  BY <1>1
<1>3. Handled("me") /\ (SlotKept \/ Fresh)
  <2> DEFINE m == Head(out)
  <2>1. CASE m.type = "LOBBY_JOIN" /\ Joins("me")
    <3>1. Fresh
      BY <1>2, <2>1 DEF JoinsOnce
    <3> QED BY <2>1, <3>1, JoinsHandled DEF Player
  <2>2. CASE Leaves("me")
    BY <2>2, LeavesHandled DEF Player
  <2>3. CASE m.type = "READY_STATUS" /\ TurnsReady("me", m.ready)
    <3>1. m.ready \in BOOLEAN
      BY <1>2 DEF Request
    <3> HIDE DEF m
    <3> QED BY <2>3, <3>1, TurnsHandled DEF Player
  <2>4. CASE Reports("me", m)
    <3> HIDE DEF m
    <3>1. m \in Request
      BY <1>2 DEF m
    <3> QED BY <2>4, <3>1, ReportsHandled DEF Player
  <2> QED BY <2>1, <2>2, <2>3, <2>4 DEF Serve
<1>4. JoinsOnce'
  <2>1. asked'.joined
    BY <1>1 DEF JoinsOnce
  <2>2. ASSUME NEW i \in 1 .. Len(out')
        PROVE  out'[i].type # "LOBBY_JOIN"
    <3>1. i + 1 \in 1 .. Len(out) /\ i + 1 # 1
      BY <1>2
    <3> QED BY <1>2, <3>1 DEF JoinsOnce
  <2> QED BY <2>1, <2>2 DEF JoinsOnce
<1>5. (rival_asks \in 0 .. MaxRivalAsks)'
  BY <1>1
<1> QED BY <1>1, <1>3, <1>4, <1>5, SectionInv DEF Player

\* ... when a thread goes on, ...
LEMMA GoesOnInv ==
    ASSUME SInv, NEW p \in Player, GoesOn(p), UNCHANGED clientOnly
    PROVE  SInv'
<1> USE DEF SInv
<1>1. UNCHANGED <<link, out, asked, rival_asks>>
  BY DEF GoesOn
<1>2. Handled(p) /\ SlotKept
  BY StartsHandled, EndsHandled, AfterEndHandled, BroadcastsHandled DEF GoesOn
<1>3. Fresh => Fresh'
  <2>1. CASE p = "rival"
    BY <1>2, <2>1, StaysFresh
  <2>2. CASE p = "me"
    BY <2>2 DEF Fresh, GoesOn, StartsGame, EndsGame, LeavesAfterEnd, Broadcasts
  <2> QED BY <2>1, <2>2 DEF Player
<1>4. JoinsOnce'
  BY <1>1, <1>3 DEF JoinsOnce
<1>5. (rival_asks \in 0 .. MaxRivalAsks)'
  BY <1>1
<1> QED BY <1>1, <1>2, <1>4, <1>5, SectionInv

\* ... for a request of the rival, ...
LEMMA RivalInv ==
    ASSUME SInv, RivalAsks, UNCHANGED clientOnly
    PROVE  SInv'
<1> USE DEF SInv
<1>1. UNCHANGED <<link, out, asked>>
  BY DEF RivalAsks
<1>2. /\ Handled("rival") /\ SlotKept
      /\ (rival_asks \in 0 .. MaxRivalAsks)'
  <2>1. CASE RivalJoins
    <3>1. rival_asks' \in 0 .. MaxRivalAsks
      BY <2>1, RivalAssumption DEF RivalJoins
    <3> QED BY <2>1, <3>1, JoinsHandled DEF RivalJoins, Player
  <2>2. CASE RivalReady
    <3>1. rival_asks' \in 0 .. MaxRivalAsks
      BY <2>2, RivalAssumption DEF RivalReady
    <3>2. (~lobby.ready["rival"]) \in BOOLEAN
      OBVIOUS
    <3> QED BY <2>2, <3>1, <3>2, TurnsHandled DEF RivalReady, Player
  <2>3. CASE RivalReports
    <3>1. PICK s \in Score, o \in BOOLEAN : Reports("rival", AskStatus(s, o))
      BY <2>3 DEF RivalReports
    <3>2. AskStatus(s, o) \in Request /\ StatusMsg(AskStatus(s, o)) \in Mail
      BY Forwarded
    <3> QED BY <2>3, <3>1, <3>2, ReportsHandled DEF RivalReports, Player
  <2>4. CASE RivalLeaves
    BY <2>4, LeavesHandled DEF RivalLeaves, Player
  <2> QED BY <2>1, <2>2, <2>3, <2>4 DEF RivalAsks
<1>3. Fresh => Fresh'
  BY <1>2, StaysFresh
<1>4. JoinsOnce'
  BY <1>1, <1>3 DEF JoinsOnce
<1> QED BY <1>1, <1>2, <1>4, SectionInv DEF Player

\* ... and in every step of its own.
LEMMA ServerSideInv ==
    ASSUME SInv, ServerSide
    PROVE  SInv'
<1>1. UNCHANGED clientOnly /\ Alive
  BY DEF ServerSide, ServerRuns
<1>2. CASE ServerCloses /\ UNCHANGED serverVars
  <2>1. CNext
    BY <1>1, <1>2 DEF CNext
  <2>2. IInv'
    BY <2>1, NextInv DEF SInv
  <2> QED
    BY <1>1, <1>2, <2>2
    DEF SInv, ServerCloses, LobbyTyped, JoinsOnce, Fresh, Heard, SlotKnown, StartFirst,
        SlotFirst, RunningLater, Telling, Leaving, Knows, LastStart, Entered
<1> QED BY <1>1, <1>2, ServeInv, GoesOnInv, RivalInv DEF ServerSide, ServerRuns, Thread

-----------------------------------------------------------------------------
(***************************************************************************)
(* The steps of the client.                                                *)
(***************************************************************************)
\* A thread has taken the first message and stored what it says.
Takes ==
    /\ inbox # <<>> /\ inbox' = Tail(inbox)
    /\ my_player_id' = PlayerIdRead(Head(inbox))
    /\ seed' = SeedRead(Head(inbox))
    /\ network_lobby'.game_started => GameStarted(Head(inbox))

\* Both threads read a message in the same way.
LEMMA MessageTaken == HandleMessage => Takes
BY DEF HandleMessage, Takes

LEMMA ResultTaken == Got("GAME_END") /\ HandleResult => Takes
BY DEF Got, HandleResult, Takes, PlayerIdRead, SeedRead, GameStarted,
       GameStarted_UpdateOnly

\* What a client has heard stays true when it reads a message.
LEMMA TakesHeard ==
    ASSUME QueuesOK, LobbyTyped, Heard, Takes, UNCHANGED serverVars
    PROVE  Heard'
<1> DEFINE m == inbox[1]
           n == Len(inbox)
<1>1. /\ Head(inbox) = m /\ n \in Nat /\ 1 <= n
      /\ Len(inbox') = n - 1
      /\ \A i \in 1 .. n - 1 : inbox'[i] = inbox[i + 1]
  BY TailOfMail DEF Takes
<1> HIDE DEF m, n
<1>2. /\ my_player_id' = PlayerIdRead(m) /\ seed' = SeedRead(m)
      /\ network_lobby'.game_started => GameStarted(m)
  BY <1>1 DEF Takes
<1>3. \A i \in 1 .. n - 1 : i + 1 \in 1 .. n
  BY <1>1
<1>4. \A i \in 2 .. n : i - 1 \in 1 .. n - 1 /\ inbox'[i - 1] = inbox[i]
  <2> TAKE i \in 2 .. n
  <2>1. i - 1 \in 1 .. n - 1 /\ (i - 1) + 1 = i
    BY <1>1
  <2> QED BY <1>1, <2>1
<1>5. /\ IsStart(m) => Knows'
      /\ Knows => Knows'
  BY <1>1, <1>2 DEF Heard, SlotKnown, Knows, IsStart, PlayerIdRead, m, n
<1>6. SlotKnown'
  <2>1. my_player_id' \in {-1, slot["me"]}
    BY <1>1, <1>2 DEF Heard, SlotKnown, IsStart, PlayerIdRead, m, n
  <2>2. my_player_id' = -1 => seed' = 0
    <3>1. CASE IsStart(m)
      <4>1. my_player_id' = slot["me"]
        BY <1>1, <1>2, <3>1 DEF Heard, SlotKnown, IsStart, PlayerIdRead, m, n
      <4>2. "me" \in Player /\ slot["me"] \in 0 .. 1
        BY DEF LobbyTyped, Player
      <4>3. my_player_id' # -1
        BY <4>1, <4>2
      <4> QED BY <4>3
    <3>2. CASE ~IsStart(m)
      BY <1>2, <3>2 DEF Heard, SlotKnown, IsStart, PlayerIdRead, SeedRead
    <3> QED BY <3>1, <3>2
  <2>3. \A i \in 1 .. n - 1 : IsStart(inbox'[i]) => inbox'[i].player_id = slot["me"]
    BY <1>1, <1>3 DEF Heard, SlotKnown, n
  <2> QED BY <1>1, <2>1, <2>2, <2>3 DEF SlotKnown
<1>7. SlotFirst'
  <2> SUFFICES ASSUME Telling, ~Knows'
               PROVE  \E j \in 1 .. n - 1 : IsStart(inbox'[j])
    BY <1>1 DEF SlotFirst, Telling, Leaving
  <2>1. PICK j \in 1 .. n : IsStart(inbox[j])
    BY <1>5 DEF Heard, StartFirst, SlotFirst, n
  <2>2. j \in 2 .. n
    BY <1>1, <1>5, <2>1 DEF m
  <2> QED BY <1>4, <2>1, <2>2
<1>8. RunningLater'
  <2> SUFFICES ASSUME NEW i \in 1 .. n - 1, Running(inbox'[i]), ~Knows'
               PROVE  \E j \in 1 .. i - 1 : IsStart(inbox'[j])
    BY <1>1 DEF RunningLater
  <2>1. Running(inbox[i + 1]) /\ i + 1 \in 1 .. n
    BY <1>1, <1>3
  <2>2. PICK j \in 1 .. (i + 1) - 1 : IsStart(inbox[j])
    BY <1>5, <2>1 DEF Heard, StartFirst, RunningLater, n
  <2>3. j \in 2 .. n /\ j - 1 \in 1 .. i - 1
    BY <1>1, <1>5, <2>2 DEF m
  <2> QED BY <1>4, <2>2, <2>3
<1>9. network_lobby'.game_started => Knows'
  <2>1. Running(m) => Knows
    BY <1>1 DEF Heard, StartFirst, RunningLater, m, n
  <2>2. GameStarted(m) => IsStart(m) \/ Running(m) \/ network_lobby.game_started
    BY DEF GameStarted, GameStarted_UpdateOnly, IsStart, Running
  <2> QED BY <1>2, <1>5, <2>1, <2>2 DEF Heard, StartFirst
<1>10. LastStart'
  <2>1. CASE seed = start_seed /\ \A i \in 1 .. n : ~IsStart(inbox[i])
    <3>1. seed' = seed
      BY <1>1, <1>2, <2>1 DEF SeedRead, IsStart, m
    <3>2. \A i \in 1 .. n - 1 : ~IsStart(inbox'[i])
      BY <1>1, <1>3, <2>1
    <3> QED BY <1>1, <2>1, <3>1, <3>2 DEF LastStart
  <2>2. ASSUME NEW i \in 1 .. n, IsStart(inbox[i]), inbox[i].seed = start_seed,
               \A j \in i + 1 .. n : ~IsStart(inbox[j])
        PROVE  LastStart'
    <3>1. CASE i = 1
      <4>1. seed' = start_seed
        BY <1>2, <2>2, <3>1 DEF SeedRead, IsStart, m
      <4>2. \A j \in 1 .. n - 1 : ~IsStart(inbox'[j])
        BY <1>1, <2>2, <3>1
      <4> QED BY <1>1, <4>1, <4>2 DEF LastStart
    <3>2. CASE i \in 2 .. n
      <4>1. /\ i - 1 \in 1 .. n - 1 /\ IsStart(inbox'[i - 1])
            /\ inbox'[i - 1].seed = start_seed
        BY <1>4, <2>2, <3>2
      <4>2. \A j \in (i - 1) + 1 .. n - 1 : ~IsStart(inbox'[j])
        <5> TAKE j \in (i - 1) + 1 .. n - 1
        <5>1. j \in 1 .. n - 1 /\ j + 1 \in i + 1 .. n
          BY <1>1
        <5> QED BY <1>1, <2>2, <5>1
      <4> QED BY <1>1, <4>1, <4>2 DEF LastStart
    <3> QED BY <1>1, <3>1, <3>2
  <2> QED BY <2>1, <2>2 DEF Heard, LastStart, n
<1> QED BY <1>6, <1>7, <1>8, <1>9, <1>10 DEF Heard, StartFirst

\* What a step of the client does to what it has heard.
LEMMA ClientHears ==
    ASSUME Turns, ClientStep
    PROVE  /\ UNCHANGED told
           /\ \/ UNCHANGED <<lobbyVars, inbox>>
              \/ HandleMessage
              \/ Got("GAME_END") /\ HandleResult
<1>1. CASE MainStep \/ UserStep
  <2>1. CASE EnterGame \/ Timeout \/ Launch \/ JoinThreads \/ Connect \/ Menu
    BY <2>1 DEF EnterGame, Timeout, Launch, JoinThreads, Connect, Menu
  <2>2. CASE JoinLobby \/ PressR \/ PressEsc
    BY <2>2 DEF JoinLobby, PressR, PressEsc, Sent, SendFails
  <2>3. CASE PollLobby
    BY <2>3 DEF PollLobby, HandleMessage, HandleEnd, HandleResult, Turns, ResultFirst
  <2> QED BY <1>1, <2>1, <2>2, <2>3 DEF MainStep, UserStep
<1>2. CASE GameStep
  BY <1>2 DEF GameStep, InitGame, LoopHead, Scores, MoveObstacles, EndGame, JoinController
<1>3. CASE NetStep
  <2>1. CASE NetLoop \/ NetRead \/ NetReport \/ NetClose
    BY <2>1 DEF NetLoop, NetRead, NetReport, NetClose, Sent, SendFails
  <2>2. CASE NetPoll
    BY <2>2 DEF NetPoll, HandleMessage, HandleEnd, HandleResult, Turns, ResultFirst
  <2> QED BY <1>3, <2>1, <2>2 DEF NetStep
<1>4. CASE BrokenPipe
  BY <1>4 DEF BrokenPipe
<1> QED BY <1>1, <1>2, <1>3, <1>4 DEF ClientStep

\* So no step of the client makes what it has heard wrong.
LEMMA ClientHeard ==
    ASSUME IInv, LobbyTyped, Heard, ClientStep, UNCHANGED serverVars
    PROVE  Heard'
<1>1. QueuesOK /\ Turns
  BY DEF IInv, Typed
<1>2. CASE UNCHANGED <<lobbyVars, inbox>>
  BY <1>2 DEF Heard, SlotKnown, StartFirst, SlotFirst, RunningLater, Telling, Leaving,
              Knows, LastStart
<1> QED BY <1>1, <1>2, ClientHears, MessageTaken, ResultTaken, TakesHeard

\* A client that has joined sends no other join.
LEMMA SendJoins ==
    ASSUME QueuesOK, JoinsOnce, Fresh => Fresh', asked.joined,
           NEW m \in Request, m.type # "LOBBY_JOIN",
           NEW p, p.joined, Sent(m, p) \/ SendFails
    PROVE  JoinsOnce'
<1>1. asked'.joined
  BY DEF Sent, SendFails
<1>2. out \in Seq(Request)
  BY DEF QueuesOK
<1>3. \A i \in 1 .. Len(out') : out'[i].type = "LOBBY_JOIN" => i = 1 /\ Fresh
  <2>1. CASE UNCHANGED out
    BY <2>1 DEF JoinsOnce
  <2>2. CASE out' = Append(out, m)
    <3>1. /\ Len(out) \in Nat /\ Len(out') = Len(out) + 1
          /\ out'[Len(out) + 1] = m
          /\ \A i \in 1 .. Len(out) : out'[i] = out[i]
      BY <1>2, <2>2
    <3> QED BY <3>1 DEF JoinsOnce
  <2> QED BY <2>1, <2>2 DEF Sent, SendFails
<1> QED BY <1>1, <1>3 DEF JoinsOnce

\* The lobby screen joins first, once, and before anything is read.
LEMMA ClientJoins ==
    ASSUME IInv, JoinsOnce, ClientStep, UNCHANGED serverVars
    PROVE  JoinsOnce'
<1>1. QueuesOK /\ Turns
  BY DEF IInv, Typed
<1>2. Fresh => Fresh'
  <2>1. CASE UNCHANGED <<lobbyVars, inbox>>
    BY <1>1, <2>1, ClientHears DEF Fresh
  <2>2. CASE HandleMessage \/ (Got("GAME_END") /\ HandleResult)
    BY <2>2 DEF HandleMessage, Got, Fresh
  <2> QED BY <1>1, <2>1, <2>2, ClientHears
<1>3. CASE UNCHANGED <<out, asked>>
  BY <1>2, <1>3 DEF JoinsOnce
<1>4. CASE JoinLobby
  <2>1. ~asked.joined
    BY <1>4 DEF JoinLobby, IInv, Order, BeforeJoin, NewPeer
  <2>2. out = <<>> /\ Fresh /\ Fresh'
    BY <1>2, <2>1 DEF JoinsOnce
  <2>3. Sent(Ask("LOBBY_JOIN"), [asked EXCEPT !.joined = TRUE]) \/ SendFails
    BY <1>4 DEF JoinLobby
  <2>4. out' = out \/ (out' = Append(out, Ask("LOBBY_JOIN")) /\ asked'.joined)
    <3>1. [asked EXCEPT !.joined = TRUE].joined
      BY DEF IInv, Typed, CTypeOK, Peer
    <3> QED BY <2>3, <3>1 DEF Sent, SendFails
  <2>5. \A i \in 1 .. Len(out') : i = 1
    <3>1. CASE out' = out
      BY <2>2, <3>1
    <3>2. CASE out' = Append(out, Ask("LOBBY_JOIN"))
      <4>1. Len(out) = 0 /\ Len(out') = 1
        BY <2>2, <3>2, RequestTypes
      <4> QED BY <4>1
    <3> QED BY <2>4, <3>1, <3>2
  <2>6. ~asked'.joined => out' = <<>>
    BY <2>2, <2>4
  <2> QED BY <2>2, <2>5, <2>6 DEF JoinsOnce
<1>5. CASE PressR
  <2>1. asked.joined
    BY <1>5 DEF PressR, IInv, Order, OnScreen, InLobbyScreen
  <2> DEFINE p == [asked EXCEPT !.ready = my_ready', !.toggles = @ + 1]
  <2>2. Sent(AskReady(my_ready'), p) \/ SendFails
    BY <1>5 DEF PressR
  <2>3. my_ready' \in BOOLEAN
    BY <1>5 DEF PressR
  <2>4. AskReady(my_ready') \in Request /\ AskReady(my_ready').type # "LOBBY_JOIN"
    BY <2>3, RequestTypes DEF AskReady, Ask
  <2>5. p.joined
    BY <2>1 DEF IInv, Typed, CTypeOK, Peer
  <2> HIDE DEF p
  <2> QED BY <1>1, <1>2, <2>1, <2>2, <2>4, <2>5, SendJoins
<1>6. CASE PressEsc
  <2>1. asked.joined
    BY <1>6 DEF PressEsc, IInv, Order, OnScreen, InLobbyScreen
  <2> DEFINE p == [asked EXCEPT !.left = TRUE]
  <2>2. Sent(Ask("LOBBY_LEAVE"), p) \/ SendFails
    BY <1>6 DEF PressEsc
  <2>3. Ask("LOBBY_LEAVE") \in Request /\ Ask("LOBBY_LEAVE").type # "LOBBY_JOIN"
    BY RequestTypes DEF Ask
  <2>4. p.joined
    BY <2>1 DEF IInv, Typed, CTypeOK, Peer
  <2> HIDE DEF p
  <2> QED BY <1>1, <1>2, <2>1, <2>2, <2>3, <2>4, SendJoins
<1>7. CASE NetReport
  <2>1. asked.joined
    BY <1>7 DEF NetReport, IInv, ToldFirst, JoinsOnce, Fresh
  <2> DEFINE p == [asked EXCEPT !.score = status_score, !.over = game_over]
             m == AskStatus(status_score, game_over)
  <2>2. UNCHANGED <<out, asked>> \/ Sent(m, p) \/ SendFails
    BY <1>7 DEF NetReport
  <2>3. m \in Request /\ m.type # "LOBBY_JOIN"
    <3>1. m.type = "PLAYER_STATUS"
      BY DEF AskStatus, Ask
    <3> QED BY <3>1, RequestTypes DEF IInv, Typed, CTypeOK
  <2>4. p.joined
    BY <2>1 DEF IInv, Typed, CTypeOK, Peer
  <2> HIDE DEF p, m
  <2> QED BY <1>1, <1>2, <1>3, <2>1, <2>2, <2>3, <2>4, SendJoins
<1>8. CASE EnterGame \/ Timeout \/ PollLobby \/ Launch \/ JoinThreads \/ Connect \/ Menu
  BY <1>3, <1>8 DEF EnterGame, Timeout, PollLobby, Launch, JoinThreads, Connect, Menu,
                    HandleMessage, HandleEnd, HandleResult
<1>9. CASE GameStep
  BY <1>3, <1>9 DEF GameStep, InitGame, LoopHead, Scores, MoveObstacles, EndGame,
                    JoinController
<1>10. CASE NetLoop \/ NetPoll \/ NetRead \/ NetClose
  BY <1>3, <1>10 DEF NetLoop, NetPoll, NetRead, NetClose, HandleMessage, HandleEnd,
                     HandleResult
<1>11. CASE BrokenPipe
  BY <1>3, <1>11 DEF BrokenPipe
<1> QED
  BY <1>4, <1>5, <1>6, <1>7, <1>8, <1>9, <1>10, <1>11
  DEF ClientStep, MainStep, UserStep, NetStep

\* A game is entered from the lobby screen once a start has been read, and by
\* no other way as a game of two.
LEMMA ClientEntered ==
    ASSUME SInv, ClientStep, UNCHANGED serverVars
    PROVE  Entered'
<1> USE DEF SInv
<1>1. Turns
  BY DEF IInv
<1>2. Knows => Knows'
  <2>1. CASE UNCHANGED <<lobbyVars, inbox>>
    BY <2>1 DEF Knows
  <2>2. CASE HandleMessage
    <3>1. Head(inbox) = inbox[1] /\ 1 \in 1 .. Len(inbox)
      BY <2>2, TailOfMail DEF HandleMessage, IInv, Typed
    <3> QED BY <2>2, <3>1 DEF HandleMessage, PlayerIdRead, IsStart, Heard, SlotKnown,
                              Knows
  <2>3. CASE HandleResult
    BY <2>3 DEF HandleResult, Knows
  <2> QED BY <1>1, <2>1, <2>2, <2>3, ClientHears
<1>3. network_lobby.game_started => Knows
  BY DEF Heard, StartFirst
<1>4. CASE Connect \/ Menu \/ JoinLobby \/ PressR \/ PressEsc \/ Timeout
  BY <1>2, <1>4 DEF Connect, Menu, JoinLobby, PressR, PressEsc, Timeout, Entered
<1>5. CASE EnterGame
  BY <1>2, <1>3, <1>5 DEF EnterGame, Entered
<1>6. CASE Launch \/ JoinThreads
  BY <1>2, <1>6 DEF Launch, JoinThreads, Entered
<1>7. CASE PollLobby
  BY <1>7 DEF PollLobby, Entered
<1>8. CASE GameStep
  <2>1. /\ screen' \in {screen, "exit"}
        /\ UNCHANGED <<current_game_mode, my_player_id>>
        /\ game # "none"
    BY <1>8 DEF GameStep, InitGame, LoopHead, Scores, MoveObstacles, EndGame,
                JoinController
  <2> QED BY <1>2, <2>1 DEF Entered
<1>9. CASE NetStep
  <2>1. UNCHANGED <<screen, current_game_mode, game>>
    BY <1>9 DEF NetStep, NetLoop, NetPoll, NetRead, NetReport, NetClose
  <2> QED BY <1>2, <2>1 DEF Entered
<1>10. CASE BrokenPipe
  BY <1>10 DEF BrokenPipe, Entered
<1> QED
  BY <1>4, <1>5, <1>6, <1>7, <1>8, <1>9, <1>10 DEF ClientStep, MainStep, UserStep

\* The client keeps the invariant.
LEMMA ClientInv ==
    ASSUME SInv, ClientStep, UNCHANGED serverVars
    PROVE  SInv'
<1>1. IInv'
  BY NextInv DEF SInv, CNext
<1>2. Heard' /\ JoinsOnce'
  BY ClientHeard, ClientJoins DEF SInv
<1>3. LobbyTyped' /\ (rival_asks \in 0 .. MaxRivalAsks)'
  BY DEF SInv, LobbyTyped
<1> QED BY <1>1, <1>2, <1>3, ClientEntered DEF SInv

-----------------------------------------------------------------------------
(***************************************************************************)
(* The theorems.                                                           *)
(***************************************************************************)
LEMMA SInitInv == SInit => SInv
<1> SUFFICES ASSUME SInit
             PROVE  SInv
  OBVIOUS
<1>1. CInit
  BY DEF SInit
<1>2. IInv
  BY <1>1, InitInv
<1>3. LobbyTyped
  <2>1. lobby \in Room /\ slot \in [Player -> 0 .. 1] /\ at \in [Player -> Section]
    BY DEF SInit, Room, Section
  <2>2. NoStatus \in [score : Score, game_over : BOOLEAN]
    BY Scores0 DEF NoStatus
  <2> QED BY <2>1, <2>2 DEF SInit, LobbyTyped
<1>4. rival_asks \in 0 .. MaxRivalAsks
  BY RivalAssumption DEF SInit
<1>5. Fresh /\ inbox = <<>> /\ out = <<>> /\ seed = 0 /\ start_seed = 0
  <2>1. ~lobby.seated["me"] /\ at["me"] = "recv"
    <3>1. PICK rival \in BOOLEAN :
            /\ lobby.seated = [p \in Player |-> p = "rival" /\ rival]
            /\ at = [p \in Player |->
                      IF p = "rival" /\ rival THEN "start_game" ELSE "recv"]
      BY DEF SInit
    <3>2. "me" \in Player /\ "me" # "rival"
      BY DEF Player
    <3>3. at["me"] = "recv"
      BY <3>1, <3>2
    <3>4. lobby.seated["me"] = ("me" = "rival" /\ rival)
      BY <3>1, <3>2, Zenon
    <3> QED BY <3>2, <3>3, <3>4
  <2>2. inbox = <<>> /\ out = <<>> /\ seed = 0 /\ my_player_id = -1 /\ ~told
    BY <1>1 DEF CInit
  <2>3. ~network_lobby.game_started
    BY <1>1 DEF CInit
  <2>4. ~joined_late /\ start_seed = 0
    BY DEF SInit
  <2> QED BY <2>1, <2>2, <2>3, <2>4 DEF Fresh
<1>6. JoinsOnce
  BY <1>5 DEF JoinsOnce
<1>7. Heard
  BY <1>5 DEF Heard, SlotKnown, StartFirst, SlotFirst, RunningLater, Telling, Leaving,
              LastStart, Fresh
<1>8. Entered
  BY <1>1 DEF CInit, Entered
<1> QED BY <1>2, <1>3, <1>4, <1>6, <1>7, <1>8 DEF SInv

\* The invariant is inductive.
LEMMA SNextInv == SInv /\ [SNext]_sessionVars => SInv'
<1> SUFFICES ASSUME SInv, [SNext]_sessionVars
             PROVE  SInv'
  OBVIOUS
<1>1. CASE ClientStep /\ UNCHANGED serverVars
  BY <1>1, ClientInv
<1>2. CASE ServerSide
  BY <1>2, ServerSideInv
<1>3. CASE UNCHANGED sessionVars
  BY <1>3 DEF sessionVars, clientVars, SInv, IInv, Typed, CTypeOK, QueuesOK, Turns,
      ThreadsLater, ResultFirst, Got, ToldFirst, Order, BeforeJoin, OnScreen,
      ReportsBehind, LobbyTyped, JoinsOnce, Fresh, Heard, SlotKnown, StartFirst,
      SlotFirst, RunningLater, Telling, Leaving, Knows, LastStart, Entered
<1> QED BY <1>1, <1>2, <1>3 DEF SNext, Sampling, Gone, sessionVars

LEMMA AlwaysSInv == SSpec => []SInv
BY SInitInv, SNextInv, PTL DEF SSpec

\* The variables of the client and of the lobby keep their types, and no
\* queue runs over (server.c, network.c, intro_ui.c, main.c).
THEOREM SessionTypes == SSpec => []STypeOK
<1>1. SInv => STypeOK
  BY DEF SInv, IInv, Typed, LobbyTyped, Room, STypeOK
<1> QED BY <1>1, AlwaysSInv, PTL

\* Against this server too the client keeps to the order of requests of
\* Peer.tla (network.c:96-159, intro_ui.c:132-256): messages that come in
\* twos and threes do not take it out of that order.
THEOREM SessionKeepsProtocol == SSpec => FollowsProtocol
<1>1. SInv /\ [SNext]_sessionVars =>
        [asked' # asked =>
           \/ asked' \in AfterJoin(asked)
           \/ asked' \in AfterLeave(asked)
           \/ asked' \in AfterToggle(asked)
           \/ told /\ asked' \in AfterReport(asked)]_clientVars
  <2> SUFFICES ASSUME SInv, [SNext]_sessionVars, asked' # asked
               PROVE  AsksInOrder
    BY DEF AsksInOrder
  <2>1. UNCHANGED asked \/ ClientStep
    BY DEF SNext, ServerSide, ServerRuns, Thread, GoesOn, Serve, RivalAsks,
           ServerCloses, Sampling, Gone, sessionVars, clientVars
  <2> QED BY <2>1, StepAsks DEF SInv, CNext
<1> QED BY <1>1, AlwaysSInv, PTL DEF SSpec, FollowsProtocol

\* A client that has read no GAME_START has joined too late for one.
LEMMA Unread ==
    ASSUME LobbyTyped, SlotKnown, Knows, my_player_id # slot["me"]
    PROVE  NoStart
BY DEF SlotKnown, Knows, NoStart

\* A client that enters a game of two has its slot, and the seed of the last
\* start that it was sent or, when that one is still on its way, of the one
\* before; a client that was sent none has joined a game that ran
\* (network.c:269-277, game.c:139, server.c:174, server.c:276-277).
THEOREM SeedsFit == SSpec => SeedOfTheGame
<1>1. SInv /\ [SNext]_sessionVars =>
        [InitGame /\ game' = "loop" /\ current_game_mode = "MULTI"
           => \/ NoStart
              \/ /\ my_player_id = slot["me"]
                 /\ game_seed' = start_seed \/ StartUnderWay]_sessionVars
  <2> SUFFICES ASSUME SInv, [SNext]_sessionVars, InitGame, game' = "loop",
                      current_game_mode = "MULTI", ~NoStart
               PROVE  /\ my_player_id = slot["me"]
                      /\ game_seed' = start_seed \/ StartUnderWay
    OBVIOUS
  <2>1. game = "init" /\ game_seed' = seed
    BY DEF InitGame
  <2>2. Alive
    BY <2>1 DEF SNext, ClientStep, ServerSide, ServerRuns, Sampling, Gone, sessionVars,
                clientVars
  <2>3. Knows
    BY <2>1, <2>2 DEF SInv, Entered, Alive
  <2>4. my_player_id = slot["me"]
    BY <2>3, Unread DEF SInv, Heard
  <2>5. CASE seed = start_seed
    BY <2>1, <2>4, <2>5
  <2>6. ASSUME NEW i \in 1 .. Len(inbox), IsStart(inbox[i]), inbox[i].seed = start_seed
        PROVE  StartUnderWay
    BY <2>6 DEF IsStart, StartUnderWay
  <2> QED BY <2>4, <2>5, <2>6 DEF SInv, Heard, LastStart
<1> QED BY <1>1, AlwaysSInv, PTL DEF SSpec, SeedOfTheGame

\* The verdict on the result screen is that of the client's own slot, whichever
\* thread reads the GAME_END (network.c:195-234, 258-260), unless it was sent
\* no GAME_START and has no slot to compare with.
THEOREM VerdictsFit == SSpec => VerdictFits
<1>1. SInv =>
        [(screen = "result" \/ net = "result") /\ HandleResult /\ ~NoStart
           => (shown' = "won" <=> Head(inbox).result.winner_id = slot["me"])]_sessionVars
  <2> SUFFICES ASSUME SInv, screen = "result" \/ net = "result", HandleResult, ~NoStart
               PROVE  shown' = "won" <=> Head(inbox).result.winner_id = slot["me"]
    OBVIOUS
  <2>1. Got("GAME_END")
    BY DEF SInv, IInv, Turns, ResultFirst
  <2>2. Head(inbox) = inbox[1] /\ 1 \in 1 .. Len(inbox)
    BY <2>1, TailOfMail DEF Got, SInv, IInv, Typed
  <2>3. Running(inbox[1])
    BY <2>1, <2>2 DEF Got, Running
  <2>4. Knows
    BY <2>2, <2>3 DEF SInv, Heard, StartFirst, RunningLater
  <2>5. my_player_id = slot["me"]
    BY <2>4, Unread DEF SInv, Heard
  <2> QED BY <2>5 DEF HandleResult, LastWinner
<1> QED BY <1>1, AlwaysSInv, PTL DEF VerdictFits
=============================================================================
