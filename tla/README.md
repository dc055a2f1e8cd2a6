# space_escape in TLA+

space_escape is a two-player terminal game. Each player runs a client (ncurses
screen, motion controller, network thread); one match server keeps a lobby of two
seats, starts a game when both players are ready, forwards the scores and decides
who has won. This directory holds TLA+ modules of that system, the TLC
configurations that check them, and TLAPS proofs about them.

Paths below are relative to the repository (`server/server.c`,
`src/network/network.c`, ...).

## 1. Inventory

| part | source | state | operations |
|---|---|---|---|
| match server | `server/server.c` | `clients[2]` (fd, connected, in_lobby, player_id, ready, score, game_over), `lobby` (two slots, player_count, game_started), `lobby_mutex`, one `handle_client` thread per client | accept, refuse, join, leave, ready, report, end of game, disconnect, broadcasts |
| client network code | `src/network/network.c` | `network_lobby`, `opponent_score`, `seed`, `my_player_id`, `game_result_received`, the last status sent; `network_mutex` | connect, poll the socket, send join / leave / ready / status, show the result |
| menu and lobby screen | `src/game/intro_ui.c` | `my_ready`, the screen that is up | menu, join, toggle ready, leave, enter the game |
| client start and stop | `src/main.c`, `src/utils/thread_utils.c` | `is_running`, `current_game_mode`, three threads | choose the mode, create and join the threads |
| game engine | `src/game/game.c` | player, life, score, level, arrays of bullets, obstacles, items and bomb effects, `game_over`, `waiting_for_opponent` | one frame: input, motion, spawning, collisions, levels |
| controller | `src/controller/controller.c` | `imu_direction[3]`, two locks | sample the sensor and two buttons |
| wire format | `include/common.h` | fixed-size messages over TCP | send, recv |

The client talks to the server over one TCP connection. Join, leave and ready
requests come from the lobby screen (main thread), reports from the network thread
once `network_lobby.game_started` is set. The server answers with lobby updates, a
game start (slot and seed), the opponent's reports and the result. Inside the client
the game thread and the network thread share `score` and `game_over`
(`score_mutex`), the controller thread and the game thread share `imu_direction`.

What is hard in this code, and which properties it asks for:

* **server**: `lobby_mutex` is taken and released piecewise. Broadcasts are sections
  of their own; a game is started after the mutex under which the start was decided
  has been released; a removal gives the mutex up in the middle; reports are stored
  without it; the entry of a client that is gone can be reused before its thread has
  finished with it. Properties: the seats, the table and the counter agree; nobody is
  turned away with a seat free; a game starts, ends and is scored once and for the
  right players; every request is served; a lost client gives everything back, or takes
  the server with it (a write to it raises SIGPIPE, which nothing handles); lobby views
  converge.
* **client**: the screen, the game and the network thread each read flags that another
  sets; the result is the only thing that ends a multiplayer game.
  Properties: the client ends; no flag of one game leaks into the next decision.
* **game engine**: one thread, which the network thread may end at any point, with
  fixed arrays, moving intervals and a random sequence that two clients are meant to
  share. Properties: every obstacle is paid for once, whatever reaches it first; game
  over exactly when the lives are gone or the server says so; equal games for one seed.
* **controller**: one sample is published under two locks, and the sensor and the lines
  may fail between them. Properties: what a frame acts on belongs together as far as
  the locks can make it, and a sample is decoded as it was measured.
* **wire format**: `recv` of a fixed size without waiting for all of it.

`PROJECT.json` lists every hazard at its line, with the property that covers it or
the reason why none does yet.

## 2. Modules

| module | models | status |
|---|---|---|
| `Wire.tla` | `common.h`: the requests and messages | done |
| `Server.tla` | `server.c`: accept loop, client threads, lobby, games, locking; clients may send anything at any time | done |
| `ServerProofs.tla` | the inductive invariants of `Server` and the theorems | done |
| `Peer.tla` | what one game client asks of the server, and in which order | done |
| `Players.tla` | `Server` with clients that keep to `Peer` | done |
| `PlayersProofs.tla` | types, `EndsOnlyWhenOver`, `ViewFresh` of `Players`, and that it is a `Server` | done |
| `Client.tla` | `network.c`, `intro_ui.c`, `main.c`, and of `game.c` what other threads see: one client's threads and flags against a server that may send or close at any time; shown to keep to `Peer` | done |
| `Session.tla` | `Client` with the two threads of the server, section by section, and one rival at a time | done |
| `SessionProofs.tla` | types, `SeedOfTheGame`, `VerdictFits`, `FollowsProtocol` of `Session`, for every queue and every number of requests | done |
| `Match.tla` | the abstract match service: who sits where, who is ready, who has finished, a match that begins, is settled and ends; no threads, messages or mutex | done |
| `MatchProofs.tla` | `Server` implements `Match` | done |
| `Game.tla` | `game.c`: the frame loop and every function it calls that changes the game | done |
| `GameProofs.tla` | the invariants of `Game`, for every size of field and every random sequence | done |
| `Duel.tla` | two instances of `Game` with one random sequence | done |
| `Controller.tla` | `controller.c`: the sampling thread, and the frames of `game.c` that read it | done |
| `ControllerProofs.tla` | the invariants of `Controller`, for every 16-bit reading | done |
| `ClientProofs.tla` | types and `FollowsProtocol` of `Client`, for every queue and number of toggles | done |
| `MCServer.tla`, `MCPlayers.tla`, `MCClient.tla`, `MCSession.tla`, `MCGame.tla`, `MCDuel.tla`, `MCController.tla` | the instances for TLC | done |

`Wire` is extended by `Server` and `Peer`; `Players` extends `Server` and `Peer`;
`Client` extends `Peer`, `Session` extends `Client`; `Server` takes `Match`, and `Duel`
takes `Game`, with `INSTANCE ... WITH`.

The server comes first because every player depends on it and it has the most
interleavings; then the client, because the server's promises are only worth what the
client makes of them. What a client may ask is written once, in `Peer`: `Players`
assumes it of every client, `Client` keeps it (`FollowsProtocol`, checked and proved),
so the two halves fit. `Match` says in one page what all the locking is for. `Game` and
`Controller` are the two parts that `Client` sees only from outside.

## 3. How `Server.tla` corresponds to the code

Variables have the names they have in C. `pc[k]` is where the thread of socket `k` is;
`client_idx`, `client_fd`, `msg`, `result` are its locals; `ret[k]` says where the
function it is in returns to (`handle_game_end` and `broadcast_lobby_update` are called
from several places). `sent[k]` is what the server has written on socket `k`, folded
by the constant operator `Deliver`, so that each run keeps of it what its properties
ask for and nothing more.

A section between `pthread_mutex_lock` and `pthread_mutex_unlock` is one action with
the guard `Locked` (the mutex is free). The one exception is `handle_game_end`: it
reads `score` and `game_over`, which are written without the mutex, so decision
(`GameEnd`) and effects (`GameEndCommit`) are two actions and the mutex is held between
them. Everything that happens outside the mutex and that another thread can see is an
action: the two stores of `update_game_status` (in either order: nothing orders them
for another thread), `connected = 0` and `fd = -1` of a thread that ends, the read of
`clients[client_idx].fd` of a thread that starts.

| action | code |
|---|---|
| `Accept`, `AcceptNoThread`, `Refuse` | the accept loop of `main` |
| `Start`, `Receive`, `Disconnect`, `Close`, `ForgetFd` | `handle_client` |
| `Join` | `add_player_to_lobby` |
| `Leave`, `LeaveAfterGame` | `remove_player_from_lobby` before and after its call of `handle_game_end` |
| `SetReady`, `StartGame` | `update_ready_status`, `broadcast_game_start` |
| `StoreScore`, `StoreGameOver`, `Forward` | `update_game_status` |
| `GameEnd`, `GameEndCommit` | `handle_game_end` |
| `Broadcast` | `broadcast_lobby_update` |

Left out: `name` and `result_message` (text), `recv_client_state` and `clients_mutex`
(never used), printing. Requests arrive whole (see "Not modelled"). Each element of
`Conn` is one connection; a client that comes back is another element. `Stopped` lets the
finite model stop once all of them are used up, where the server itself waits in
`accept`, and once the server has been ended.

`send` is assumed not to block. On fd -1 it fails, and the error is printed and ignored
(`server.c:54`). On a socket whose peer is gone the first write may be lost or fail; after
the peer has reset the connection a write raises SIGPIPE, because `server.c:53` passes no
`MSG_NOSIGNAL` and nothing installs a handler, and that ends the whole server. `Post` is
the send that returns. `BrokenPipe(k, f)` is the other one: a thread `k` that is about to
write to `f` (`Recipients`: the members, the seated, or the other players, as the section
at hand does) may end the process instead, and then `alive` is FALSE for good. `Server` lets
this happen at any write, `Players` only at one to a client that is gone
(`WriteToTheGone`). The leaver's own thread can be the one that writes: it is still
`connected` and `in_lobby` at the broadcast at the end of `handle_game_end`.

`Players.tla` adds `peer`, what each client has asked so far, and `closed`.
`JoinRequest`, `ReadyRequest` and `LeaveRequest` are the lobby screen's, `Report` is
`send_player_status` (only a changed status is sent; the score never falls, game_over
stays), `Hangup` a client that is closed or killed. A client acts on what it has read,
and it may have read any prefix of what was sent. A request is therefore possible when
*some* prefix allows it: `told` remembers whether some prefix says that a game runs.
Handing a request over at the moment `recv` returns it loses nothing, since the server
cannot see it earlier.

### `Client.tla` and `Session.tla`

`screen` is where `main` is (menu, lobby screen, creating and joining threads), `net`
and `game` are where `run_network` and `run_game` are, the other variables have their
names in C. A thread stops where another can see or change what it reads next: the
reads of `score` and of `game_over` in `send_player_status` are two steps (`NetRead`,
`NetReport`), `GAME_END` is two steps (`HandleEnd` sets `game_over`, `HandleResult`
shows the result and sets `game_result_received`), a frame is three (bombs, obstacles,
hits), because a report can fall between them.

| action | code |
|---|---|
| `Connect`, `Menu`, `Launch`, `JoinThreads` | `init_connection`, `show_main_menu`, `main` |
| `JoinLobby`, `EnterGame`, `PressR`, `PressEsc`, `Timeout`, `PollLobby` | `show_multiplayer_lobby`, `update_lobby_status` |
| `HandleMessage`, `HandleEnd`, `HandleResult` | `process_network_messages`, called by the lobby screen and by the network thread |
| `InitGame`, `LoopHead`, `Scores`, `MoveObstacles`, `EndGame`, `JoinController` | `run_game` |
| `NetLoop`, `NetPoll`, `NetRead`, `NetReport`, `NetClose` | `run_network` |
| `SendFails`, `BrokenPipe` | `send` to a server that is gone: an error, or SIGPIPE, which ends the process |

Of the game the client model keeps score, one life (spent or not), `game_over` and the
loop; a frame may add any score and may or may not cost the last life. `paused` stays 0:
only a key `p` sets it, and the controller never gives one. The controller thread is
`absent`, `running` or `ended` (no GPIO chip).

`asked` folds what the client has sent into a `Peer`; it is a history and no step reads
it but the bound on toggles. In `Client` the server is open: any message at any time,
and it may go away.

In `Session` the server has two threads, `at["me"]` and `at["rival"]`, and each section
under `lobby_mutex` is one action, as in `Server`: the test of the start and the start
(`TurnsReady`, `StartsGame`), the leave before and after `handle_game_end` (`Leaves`,
`EndsGame`, `LeavesAfterEnd`), each broadcast (`Broadcasts`). Between two sections the
other thread may run, so a start may come after a leave, a join before `game_started = 0`,
and a join into a game of one. Two things are coarser than in `Server`: `update_game_status`
is one action with the two stores before its lock, and an entry never loses its fd (run
`join_unannounced` is about the code where it does).

| section of `Session.tla` | code |
|---|---|
| `Joins` | `add_player_to_lobby` |
| `TurnsReady`, `StartsGame` | `update_ready_status` up to the unlock, `broadcast_game_start` |
| `Reports` | `update_game_status` |
| `EndsGame` | `handle_game_end` up to its unlock, from a report or from a leave |
| `Leaves`, `LeavesAfterEnd` | `remove_player_from_lobby` before and after its call of `handle_game_end` |
| `Broadcasts` | `broadcast_lobby_update` |

The rival joins, toggles, reports and leaves as it likes, also reports without a seat;
once it has left, another one may take its entry. The client starts with an empty lobby,
or with a rival there whose thread has found two players ready and has yet to start the
game: the second of them has left since, and its entry is the one the client gets. This
initial state stands for the history before the client's own connection.

### `Match.tla` and the refinement

A person of `Match` is an entry of `clients[]`, a place is a slot of the lobby.
`SeatMap`, `ReadyMap`, `OverMap` forget what an empty slot still holds; `StartingMap`
is the clients whose threads have decided a start and not made it (`server.c:276`);
`SettledMap` says that a thread is between decision and commit of `handle_game_end`.
So `Settle` and `End` are the two halves of `handle_game_end`, `Depart` the second half
of a removal (and the reuse of an entry), and `Begin` may come when the table is no
longer full and ready: that is what the server does, and the abstract service says so
instead of hiding it. `Report` is the store of `game_over`; the store of the score, the
broadcasts and everything about sockets are stuttering steps.

### `Game.tla` and `Duel.tla`

`pc` is where the game thread is in `run_game`. A frame is the sequence
`HandleInput`, `Move` (`update_bullets`, `update_obstacles`), `SpawnObstacle`,
`SpawnItem` (once or twice), `TakeItem` (`update_items`, `check_item_collision`),
`CheckCollisions`, each skipped in the frames in which the code skips it. It is
split there because the network thread may handle a `GAME_END` in between
(`GameEnded`, `ResultShown`, two steps as in `process_network_messages`). `rand()` is
called for the `draws`-th time and returns any `r` with `Rand(draws, r)`: `Game` does not
depend on the generator, and `Duel` gives both engines the same function of the call
number, which is what one seed does. The numbers of the code (field, arrays,
intervals) are constants; the proofs take them as they come.

A loop over an array that treats its entries independently is a function of the whole
array. `check_collisions` is not such a loop: the obstacles of a cell take its bullets
one by one, and `Outnumbered` says which of them go. `frame` is bounded by `MaxFrame` in
TLC's runs; an `int` would overflow after two years.

`drops` counts the obstacles spawned and is a history. `level` is shown only, bomb
effects are drawn only, and so are left out.

### `Controller.tla`

`sampler` is where `imu_thread_func` is, `frame` where `handle_input` is. The section of
`imu_lock` has one access and is one step; that of `switch_lock` writes or reads two
bytes, in two steps with the lock held between them. A reading is a pair of 16-bit
numbers; `Decoded` takes each apart into bytes and puts it together as
`(data[1] << 8) | data[0]` does. `char` is unsigned where the controller runs
(`/dev/i2c-1` and `gpiochip0` of a Raspberry Pi). `age` and `read_age` are histories: how
many samples ago each part of `imu_direction`, and of what a frame has read of it, was
taken.

## 4. Runs

| run | instance | what it asks |
|---|---|---|
| `server_open` | 3 sockets, any request | the inductive invariant `SeatInv` of the proofs, `LobbyConsistent`, `JoinFindsSlot`, `LeavingDecidesGame`, `ResultOfThisGame`, and the refinement `ImplementsMatch` |
| `players_two` | 2 clients, 3 ready toggles each | types of the composition, `ViewFresh`, `EndsOnlyWhenOver` |
| `players_live` | 2 clients, 2 toggles, fair | `EveryRequestServed`, `GameConcluded`, `SeatReleased` |
| `client_open` | 1 client, any message of the server | types, `FollowsProtocol` |
| `session` | 1 client, 1 press of R, a rival there at first or not, 1 further join or toggle of a rival, fair threads | types, `SeedOfTheGame`, `VerdictFits`, `GameConcludes`, `StartEntered` |
| `game` | field of 3 by 4 cells, 2 bullets, 2 obstacles, 1 item, 11 frames, 2 directions and both buttons | `GTypeOK`, `ObstaclesAccounted`, `OverMeansSpent`, `HitsCounted`, `LastLifeEnds` |
| `controller` | three tilts, both buttons | types and lock, `TiltFollowed`, `ButtonsTogether`, `ButtonsNotBehind`, `ReleaseSeen` |
| `stale_result` | 1 client with the server | what a comment of the client says and the code does not keep |
| `start_not_ready`, `final_scores`, `join_unannounced` | 2 clients | what comments of the server say and the code does not keep; TLC gives the interleaving |
| `seed_diverges` | 2 engines, 1 obstacle each, one sequence | what the README says of the shared seed and the code does not keep |

**Bounds.** `MAX_CLIENTS` and `LOBBY_SIZE` are the code's own, 2. Three sockets are
the least with which a table entry is reused while another client is connected, and
enough for a refused connection; a fourth adds only further reuses one after the
other. Two scores tell a winner from a draw; where no property reads a score there is
one. `MaxToggles = 3` is ready, not ready, ready: the least with which a second thread
can decide a start while an earlier decision is still to be carried out, after a
game has ended in between. Runs about a single game use fewer.

`client_open` needs two toggles for `ready` to alternate and one message under way in
each direction: a thread handles one at a time, and a second only delays. `session` and
`stale_result` use one or two messages for the rival to be ahead; what the server sends
in answer to a request is not bounded.

`MCSession` keeps to clients that are connected and go to the lobby, that have no
controller, and whose game of one, if they leave the lobby with ESC, shows no frames
(`ToTheLobby`): the rest of the client is the subject of `client_open`, and the properties
are about a game of two. A rival that is there before the client has slot 1; with slot 0
the client would only have the other one. One press of R and one request of the rival
are enough for what the sections can do: with the start that is under way in the initial
state they give a late start into a lobby of one, the join of a game of one, and a second
start while the first is still to be read. Without the liveness properties, instances with
two seeds, with three presses of R, and with three requests of rivals were checked too (up
to 2.8 million states); the theorems of `SessionProofs` cover all of them.

`game` has a field high enough (`HEIGHT = 6`) for an obstacle to fall two rows, meet a
bullet on its way or a bomb, and reach the ground, two obstacles so that the array is full
and two can share a row, a cell or a bullet, and one life, since the last one is what
the properties are about; the frames (`MaxFrame = 11`) reach past a level-up
(`LEVEL_FRAMES = 9`), where the intervals have changed from 4 and 3 to 5 and 3 (or 0 in the
mutant). The random numbers are free for the first seven calls and fixed after them:
by then both columns, both items and none have been drawn. `seed_diverges` needs one
obstacle each and one player who shoots it.

`controller` has one reading whose low byte is above 127, one negative on one axis and
positive on the other, and one that lies on the threshold. Ages saturate at
`MaxAge = 3`, above the 1 that the property allows.

**Symmetry and view.** Sockets are interchangeable, so the safety runs use symmetry;
the liveness run does not. The views leave out locals that are assigned before they
are read again (the request of a thread in `recv`, the return point of a thread in no
call, everything of a thread that has ended); no action and no property of these runs
reads them, and for the action properties the parts they read are in the view. All states
of a server that SIGPIPE has ended are one, and so are all of a client that has ended.

**Fairness.** `players_live` assumes weak fairness of each server thread's next step
and of the end of `recv` after the peer is gone. That is what the scheduler and TCP
give. The mutex needs no strong fairness: it is held across steps only between
`GameEnd` and `GameEndCommit`, and a thread gets there only with a new report or
leave, of which there are finitely many per game. Clients owe the server nothing. A
server that SIGPIPE has ended owes nothing either: each of the three properties says
`\/ ~alive`, and no more than that.

`session` assumes weak fairness of each of the client's threads and of the server's two:
the scheduler runs them, `getch` in the lobby returns after 100 ms, and a poll ends because
a rival's messages are finitely many. No key has to be pressed, no rival has to ask for
anything, no frame has to cost a life, and the controller thread is given none, since it
would change nothing. `GameConcludes` therefore starts from states where the life is spent
and the rival has finished or left, and is over when a new rival is in the game.

`game` assumes weak fairness of the game thread and nothing of the network thread:
`LastLifeEnds` asks of a game for two only that it comes, in the end, to wait for its
result.
`controller` assumes weak fairness of both threads, that a sensor asked again and again
answers again and again, and that the sampling thread gets `switch_lock` some time: a
frame holds it for the copy of two bytes and then sleeps 30 ms. A button does not have to be
pressed or released, and a line may fail at any time.

## 5. What is proved

`ServerProofs.tla` proves, for any set of sockets, any set of scores and any seeds, and
for clients that send any request at any time, from the assumptions `NoConnAssumption`
(-1 is no socket) and `ScoreAssumption` (scores are integers, 0 among them):

* `TypeCorrect`: `Spec => []TypeOK`, one case per action.
* `SeatsInvariant`: `Spec => []SeatInv`. The properties about seats are not inductive.
  What makes them so is `OwnEntry` (a serving thread's entry is connected and no other
  serving thread has it: the accept loop takes only entries that are free, and only the
  owner frees one), `SeatsNamed` and `MembersSeated` (seats and members name each
  other, except for a client whose own thread is between `Leave` and `LeaveAfterGame`),
  `RemovedUnseated` (such a client has no seat), `ClosingOutside` (a thread that
  closes has left the lobby) and `CountExact`.
* `LobbyIsConsistent`, `JoinersFindASlot`, `LeavingDecides`: consequences of it. A join
  finds a slot because the other table entry can hold at most one of the two; a leave
  leaves at most one player, so `handle_game_end` cannot find the game undecided.
* `ResultsFit`: from a lemma on the mutex (`MutexInvariant`). While a thread is between
  decision and commit it owns `lobby_mutex`, every action that changes the lobby needs the
  mutex free, so the game runs and the winner is seated until the commit.

`MatchProofs.tla` proves `ServerImplementsMatch`: `Spec => ImplementsMatch`, from the same
assumptions. The initial states map to the initial state; each action of the server is
mapped to one action of `Match` or leaves the mapped variables alone. The invariants
are what makes the steps fit: a seat is given to someone who stands because members are
seated (`SeatsNamed`), the seat of a leaver is its own, and no seat changes between
`Settle` and `End` because the mutex is held (`MutexHeld`), so `SettledMap` is one
thread's and goes back to FALSE at the commit.

`GameProofs.tla` proves, for any field, arrays, pace, directions and random sequence that
satisfy `SizeAssumption`, `PaceAssumption` and `DirectionAssumption`:

* `TypeCorrect` (`GTypeOK`): in particular the intervals stay at least 4 and 3, so the
  divisors are never 0.
* `Accounted` (`ObstaclesAccounted`): the argument is an account. Each action that takes
  obstacles off the board takes a set of them, and the score grows by 5, 10 or 15 times
  its cardinality, or the lives fall by it.
* `OverExactly` (`OverMeansSpent`).
* `AllHitsCounted` (`HitsCounted`): an obstacle that stays in a cell has as many obstacles
  before it as there are bullets, a bullet that stays as many bullets as there are
  obstacles; both cannot be, as one compares the ranks.

`ControllerProofs.tla` proves, for every threshold and every set of 16-bit readings,
`ControllerTypes` (`KTypeOK`, with the exclusion of `switch_lock`), `TiltsFollowed`
(taking a number apart into two bytes and putting it together is the number, also for a
negative one, and the nine cases are the two axes), `ButtonsAreTogether` and
`ButtonsAreNotBehind` (the published parts are at most one sample old, and the two buttons
are of one sample whenever the lock is free).

`ClientProofs.tla` proves, for any scores and seeds, any queue and any number of toggles
(`BoundAssumption`, `QueueAssumption`), `ClientTypes` (`CTypeOK`) and `KeepsProtocol`
(`FollowsProtocol`). The inductive invariant relates what was sent to the client's own
flags: nothing has been asked before the lobby screen (`BeforeJoin`); on it, the last
`ready` sent is `my_ready` as long as the connection takes anything, and nothing has been
reported, because the network thread does not run yet (`OnScreen`, `ThreadsLater`), and a result being shown is the head of the queue (`ResultFirst`);
what was reported is `last_sent_status`, and it is not ahead of `score` and `game_over`
(`ReportsBehind`); a started game is believed only after the server has told of one
(`ToldFirst`).

`PlayersProofs.tla` proves, for any sockets, any number of toggles and the assumptions of
`Server`:

* `PlayersKeepServer`: `PSpec => Spec`. What `Peer` lets a client ask is a request of the
  open server, so every theorem of `ServerProofs` and `MatchProofs` holds of `Players`.
* `PlayersTypes` (`PTypeOK`).
* `EndsWhenOver` (`EndsOnlyWhenOver`). The server ends a game on two flags of its table, and
  entries and slots are reused. The invariant ties each flag to the client that it is
  about: a serving thread's entry holds its own socket's number or the -1 of the thread
  before it (`OwnSocket`), a connected entry has a thread that serves it (`EntryServed`),
  a `game_over` in a thread's hands or in the table was reported by the client it serves
  (`RequestHonest`, `EntryHonest`), and a verdict reached under the mutex still stands when
  it is carried out (`VerdictStands`).
* `ViewsAreFresh` (`ViewFresh`), under the hypothesis `NotesStream` that `sent[k]` keeps the
  last lobby sent, as `players_two` does (`Deliver <- Note`). A change and its broadcast
  are sections of their own, so `ViewFresh` says nothing in between. The invariant is
  that whoever has an old view is owed one (`ViewOwed`): by a thread with a broadcast
  before it, or by a game that runs, whose end is followed by one.

`SessionProofs.tla` proves, for any scores and seeds, any queue, any number of toggles and
of requests of rivals (`RivalAssumption`, with the assumptions of `Client`):

* `SessionTypes` (`STypeOK`) and `SessionKeepsProtocol` (`FollowsProtocol`). The client's own
  invariant is proved to hold here too: a section puts messages behind those under way,
  and this disturbs nothing the client relies on. What a section does is said once, in
  `Handled` and `Says`: it sends one start, with the client's slot and the new
  `start_seed`, or messages that are not starts and tell of a game only if one runs.
* `VerdictsFit` (`VerdictFits`). When a message can tell the client of a game
  (`Telling`: it has its seat in a running game, or its own removal is under way), it has
  its slot, a start is before that message, or it has joined late (`SlotFirst`,
  `RunningLater`, `Knows`); the slot in a start on its way is the one it still has
  (`SlotKnown`), since a client joins once, before it has heard anything (`JoinsOnce`,
  `Fresh`).
* `SeedsFit` (`SeedOfTheGame`). The last start on its way, or else the last one read, has
  the seed of the last start (`LastStart`), and a game of two is entered by a client that
  has its slot or has joined late (`Entered`).

Both properties except the client that joined a running game and was sent no start
(`NoStart`). The code has this client: with a start decided while two were ready
(`server.c:276`), one of them gone, and the game begun for the other alone, a third client
takes the free slot, since a join does not look at `game_started` (`server.c:174`). The
first lobby update it reads says that a game runs, and it enters one as player -1 with
seed 0. TLC reaches it in `session`.

Model-checked only: liveness and what rests on ENABLED, which the prover does not handle.
The properties that the violation runs refute have no theorem, of course.

## 6. What the checks show

The table, the lobby and the counter stay consistent under every interleaving, also
while entries are reused; nobody who asks to join is silently turned away; games end on
the second game over or on a leave and not before; every
request is served and every lost client gives its seat back; once the server is quiet
every client in the lobby has the lobby as it is. A game client, whatever the server
sends it, keeps to the order of requests those checks assume. If it was sent a start, it
plays with its own slot and the seed of the last start, unless a second one is still
under way, and a victory is shown exactly if its slot has won; it gets into a game that has
started and out of one that is over. All of this holds as long as the server lives: one
write to a client that has gone can end it, at any point of a game (see below).

Whatever its threads do in between, the server does to its table what the one-page
`Match` allows. In a game each obstacle costs one life or earns one reward, `game_over` is
set in the pass in which the last life goes and the game comes to its end after it, and
no hit is counted twice or forgotten.
The controller's two locks are enough for two buttons of one sample and for a direction
at most one sample away from them.

The runs that end in a violation show, each with the shortest interleaving TLC found:

1. `server.c:276`: a game starts although a player is no longer ready or has left.
2. `server.c:287`: a result is built from a report of which only `game_over` is visible.
3. `server.c:475`: a new client's fd is overwritten with -1 by the thread of the client
   before it; it is in the lobby and is told nothing.
4. `network.c:233`: a game that starts and ends while the client polls in the lobby
   leaves its result set, and the next game ends before its first frame.
5. `game.c:618`: the two games of one seed are not the same. `rand()` is called only when a
   slot is free, so from the first frame in which one player's array is full and the
   other's is not, they read different numbers. With the real sizes a player who shoots
   nothing has 20 obstacles on the board after some 200 frames, and an obstacle lives
   for about 740.

Seen on the way and not given a run of their own:

* `server.c:351`: the survivor's score is taken from the entry with the number of its
  slot; when the players sit crosswise it is the score of the one who left.
* `server.c:53`: SIGPIPE. A client that is killed in a game may end the server, and the
  other player's game with it: the broadcast at the end of `handle_game_end`, or a
  forwarded report, is written to the dead socket. `SeatReleased`, `EveryRequestServed` and
  `GameConcluded` hold only of a server that this has not happened to.
* `server.c:229`: a late start that falls into the gap of a removal is ended without a
  result. `GameConcludes` holds all the same, because the player has the result of the game
  before it, and ends by that.
* `server.c:174`: a client that joins a game running for one player is sent no start, and
  plays as player -1 with seed 0 (`NoStart` above). A draw is shown to it as a victory, and
  its own victory as a defeat.
* `network.c:273`, `game.c:139`: a client can have two starts on its way, when two threads
  have each decided one, or when it is slow to read and a game has ended meanwhile. It
  enters the game after reading the first one, and plays the second game with the seed
  of the first (`SeedOfTheGame` allows it in this case only).
* `server.c:475`: `Session` leaves out the entry that loses its fd (violation 3). In the
  code a client in such an entry is told nothing, neither its start nor its result, so
  `StartEntered` and `GameConcludes` do not hold of it.
* `network.c:218`: the draw is tested in a variable nobody assigns, and is shown as a
  defeat. `VerdictFits` asks when a victory is shown and does not catch this.
* `controller.c:82`, `game.c:919`: the controller thread never ends, so neither does the
  process that joins it.
* `main.c:146`, `network.c:294`: ESC in the lobby starts a game of one player instead of
  showing the menu, and with a start under way the client reports that game to the server.
* `game.c:645`: `game_over` is set before the hits of the same frame are counted, so the
  report that ends a game may lack them.
* `game.c:875`: from 6 the obstacle interval goes to 4 and then to 5, for good: level 10
  is slower than level 9.
* `game.c:641`: the obstacles spawned on both sides of a level-up can share a row, and
  then cost several lives in one frame.
* `controller.c:88`: while the sensor fails, the buttons are not read: a fire button that
  was pressed keeps firing.

## 7. Not modelled

* The byte stream. A message is delivered whole. The server's and the client's `recv` may
  return less than a message, and then everything after it is misread; the modules in which
  the other side may send anything (`Server`, `Client`) cover what a misread message can do,
  not that it means what was sent.
* `send` that blocks on a peer that does not read: it is assumed to return or to raise
  SIGPIPE.
* Drawing, text, names, `level`, bomb effects (drawn only), the pause key and the space key
  (the controller never gives them).
* The opening of the devices: its outcome is a choice.
* `server/client.c`, `test_client.c`, `test_server.c`, `switch_test.c`: stand-alone
  programs; the `~` files: editor backups.
