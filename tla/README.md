# XPilot NG in TLA+

XPilot NG is a multiplayer space game: a server (`src/xpilot/src/server`) runs
the game, clients (`src/xpilot/src/client`) show it and send what the players
do. Both are single-threaded loops around `select(2)`; everything that is
concurrent happens between them, over UDP, which loses, repeats and reorders
datagrams, and in the server across many connections, timers and game frames.
The modules here model the parts where this concurrency, or a long sequence of
legal calls, decides whether the program is right. Geometry and physics are
left out.

## 1. Inventory

| component | state | operations | interacts with |
|---|---|---|---|
| reliable data stream (`netserver.c` Send_reliable, Receive_ack; `netclient.c` Receive_reliable, Send_ack; `common/net.c`) | per connection: buffer `c`, `reliable_offset`, `reliable_unsent`, `acks`, the retransmission timer; in the client its offset and `cbuf` | write, send a burst, acknowledge, time out | carries logins, messages, scores, talk acknowledgements |
| connections (`netserver.c`, `connection.h`, `netclient.c`) | `state`, `drain_state`, `setup`; in the client the Net_ function it is in | verify, set up, log in, play, quit, time out | the stream; players (Handle_login, Delete_player) |
| frame window (`netclient.c` Net_read, Net_input) | `Frames[]`, `last_loops` | read, drop stale, repeated and oldest frames, process | all that is sent in frames |
| map objects (`frame.c`, `target.c`, `cannon.c`, `update.c`, `netserver.c`) | cannons, targets, fuel stations, polygons; masks with a bit for each connection | die, come back, are hit, repaired, refilled; sent and acknowledged | frames, logins, rounds |
| controls (`netclient.c`, `client.c`, `netserver.c`) | keys and their change numbers, pointer sum, pending talk | press, move, talk; repeat, acknowledge | frames (acknowledge keys), the stream (acknowledges talk) |
| alliances (`alliance.c`, `command.c`, `robotdef.c`) | `alliance` and `invite` of each player, `Alliances[]`, member counts | invite, cancel, accept, refuse, leave, enter, delete | players, robots |
| admission (`contact.c`, `command.c`) | queue of waiting players, names, `game_lock`, operators | enter the queue, acknowledge, time out, kick, lock | connections, players |
| players and teams (`player.c`, `command.c`, `event.c`, `robot.c`) | `PlayersArray`, each player's team and base, members, robots and waiting swapper of each team | enter, leave, pause, change team, swap, change home | everything in the server |
| balls and treasures (`treasure.c`, `shot.c`, `collision.c`, `player.c`) | `have`, `destroyed`, the balls, who holds, owns or reaches for them | make, connect, detach, score, destroy, reset | players, rounds, object memory |
| races, tag (`race.c`, `tag.c`) | checkpoints, laps, FINISH and RACE_OVER; who is it | pass, finish, end a race; tag, transfer | players, the frame |
| robots (`robot.c`, `robotdef.c`, `suibotdef.c`) | number of robots, wars | create, delete, decide | players, admission, alliances |
| scheduler (`sched.c`, `server.c`) | timer ticks, input handlers | tick, dispatch | orders input and frames |
| game frame and physics (`update.c`, `event.c`, `walls.c`, `collision.c`, ...) | objects and ships | move, hit, fire | map objects, scores |
| maps, options, recording, ranking, meta server; display, sound, editor, replay | tables and files | parse, read, write, draw | little state that others race for |

What is hard in it:

- datagrams lost, repeated and reordered, in the stream, frames, keys, talk,
  acknowledgements and login requests;
- a client and a server whose state machines advance on each other's late
  messages, each of which can give up at any time;
- one bit or number for each connection index, which survives its client;
- windows, buffers and integers at their limit;
- tables that keep two or three copies of one fact (member counts, masks and
  change times, an object and the polygons that draw it, HAS_BALL and the balls);
- pointers and ids that are kept from one frame to the next while what they
  name is deleted;
- commands in any order, with players who leave between two of them.

What makes each component correct is in section 4, as the properties of its
module; `PROJECT.json` lists the hazards line by line.

## 2. Plan

The order follows how much of the rest depends on a component.

1. `ByteStream`, `ReliableStream`, with proofs (done).
2. `Connection`, which composes the stream (done).
3. `Coalitions`, `Alliance` (done).
4. `MapObjects`, with proofs (done).
5. `FrameWindow`, `Controls` (done).
6. `Teams`: players, bases and counts through logins, pauses, swaps and robots
   (done).
7. `Admission`: the queue, the ports, the seats and the lock (done).
8. `Treasures`, with rounds as far as balls decide them, and `Races` (done).
9. Proofs of the safety properties of every module (done).
10. Rounds of the games without balls or laps (Compute_game_status in the other
    modes), tanks, and the shutdown of the server.

Abstract specifications: a byte stream and coalitions (done); worth stating for
`Admission` a bounded set of seats.

All modules take their sizes as CONSTANTS with named assumptions, have one
action for an operation, and use no RECURSIVE operator.

## 3. Modules

`ByteStream` is what the stream promises: `sent` only grows, `got` only takes
the next bytes of it.

`ReliableStream` is the protocol. Its variables are the fields of
`connection_t` and of the client with their own names; `retransmit_in` is
`retransmit_at_loop - main_loops` and `sent_this_loop` stands for
`last_send_loops = main_loops`, so that the clock need not be a variable. The
round trip estimator is any value up to `MAX_RETRANSMIT`. Actions: `Write`
(Packet_printf or Sockbuf_write into `c`), `Tick` (a main loop), `SendReliable`
(a burst of packets from `reliable_offset`: in all of a datagram, or, while the
player plays, in any room that a frame leaves; cut short anywhere by a full
socket), `ReceiveAck`, `ReceiveReliable`, and losses.
Datagrams stay in a set, so that each may arrive again and in any order.

`Connection` adds the server's states to an INSTANCE of `ReliableStream` whose
bytes are the units of a login; `StreamSizes` repeats what the stream assumes of
its sizes. `pc` says where the server is in its main loop,
because Input() and Handle_setup call each other's parts. A side may give up
wherever its code has a timeout or a retry limit.

`Coalitions` says that alliances partition the players, that two of them unite
as a whole, and that players leave one at a time. `Alliance` has the tables of
`alliance.c`; its functions are operators from tables to tables, which call each
other as the C functions do. A null pointer that is followed is the state
`crashed`.

`MapObjects` has the objects, the masks, the frames and the acknowledgements.
All that has ever been sent may still arrive, any number of times or never.
`Update_objects` is the part of the server's frame in which objects come back
and are repaired; hits, deaths, repairs and refuels happen before and after it.
Times count in steps of `timeStep`, a fraction of a tick.

`FrameWindow` has the slots of `Frames[]`. An iteration of Net_input's first
loop is a step, with arrivals in between; finding the oldest packet, processing
it and closing the gap is one.

`Controls` has the client as one record, and its functions as operators from
record to record, so that Net_flush, Send_keyboard and Send_talk call each other
as they do in C. `updated` and `wait` stand for the distances of
`last_keyboard_update` and `talk_last_send` from `last_loops`. `Go_home` is a
ship that appears at its base (after death, a pause, a swap): the server forgets
its keys, not the number of their last change (`player.c:207`). It turns the
ship, too; directions are those of the mouse alone.

`Teams` has for each player a team, a base and whether it pauses, and for each
team its counts and its swapper. A chat command, a key, a login, a kick or a
robot's arrival is a step. `fault` is the end of the server: a crash, End_game,
or a loop in Cmd_team that does not end. `Cmd_team` is for any player, since an
operator may name one, also a robot (`command.c:1103`). `Options` are the
settings chosen at the start.

`Admission` has the queue `qp_list`, the ports with the connection on each, and
the client's requests, replies and verifications that may arrive (again) at any
time. One call of Queue_loop is one step. A connection is only waiting for its
client, in login or in the game: `Connection` says the rest.

`Treasures` and `Races` follow the phases of a frame. Positions are left out:
whatever a ball or a ship could meet, it may meet. A phase visits objects and
players one by one in `Treasures`, because the code changes lists while it goes
through them. `Slot` is the memory of an object: Object_free_ind puts it back
at the end of the list, and a ball made anew, or an object of another kind
(`Launch`), may get the memory of the old one. A player who still reaches for a
ball that is gone connects to what is there now (`Stray`). `strayed` and `robbed`
are no part of the program: they remember who has HAS_BALL, and which treasures
lack `have`, because of that.
The world is one value, and the loops of the code are folds over it (`FoldOver`).
`Races` has one step for all who cross a line in a frame, since their
crossings do not depend on each other.

`X_proofs` holds the theorems about `X`, `InPlay_proofs` those about `MapObjects`
and `Controls`, `Frames_proofs` those about `FrameWindow` and `Races`; two modules
that are proved about together have no name in common, hence `MapSpec` and
`RaceSpec`. `MCX` and its `.cfg` files are the instances for TLC.

## 4. Runs

| run | shows |
|---|---|
| `reliable_stream` | the buffer is exactly what is not acknowledged (`BufferIsUnacked`); no late acknowledgement is taken for a forged one (`NoBadAck`); nothing outstanding is without a timer (`TimerGuardsOutstanding`); all this implements `ByteStream` (`RefinesByteStream`: a prefix of what was written, in order); on a fair network all of it is acknowledged in the end (`EverythingAcked`) |
| `connection` | server and client stay in step, neither meets what it does not expect, one player is made however often PLAY arrives (`InStep`); the clocks alone leave no connection half open (`NeverHalfOpen`) |
| `connection_login` | logins succeed, unless a side ends them |
| `alliance` | member counts are exact and alliances have two members at least (`AlliancesOfTwo`), invitations from others are gone after a join, and the tables implement `Coalitions` |
| `alliance_invited` | counterexample: invitations between allies remain |
| `map_objects` | what counts as acknowledged is shown as it is (`AckedIsCurrent`), polygons too (`StylesAreCurrent`), and polygons are drawn destroyed exactly while their object is dead (`PolysFollow`) |
| `frame_window` | what waits is newer than what is shown (`WaitingIsNewer`), other packets keep their place, only stale frames, repeated ones and the oldest are dropped, the newest is shown |
| `controls` | acknowledged keys are the server's keys unless the ship has been sent home since (`AckedKeysHold`), nobody is taken for a macro user, prediction counts no movement twice, talk is said once, keys and talk arrive |
| `teams` | no two players share a base (`OwnBases`); the counts stay true (`CountsKeepPace`; those of robots until an operator moves one), wishes to swap do not wait in a circle (`CyclesAreSwapped`), moves, returns and logins find a base, but for a login into a full team with robots (`BaseForEveryone`), all of these until somebody plays without a base; a swap moves everyone as asked (`SwapsAsAsked`) |
| `admission` | logins, players and robots never need more bases than there are (`SeatsNotOversold`); a nick has one login (`OneLoginEach`); those who enter stand before those who wait (`EnteringFirst`); a client is told its own port (`TellsOwnPort`) |
| `treasures` | a treasure has one ball unless it was lost (`OneBallEach`), `have` says whether it is untouched (`HaveIffUntouched`), HAS_BALL and the balls agree about who carries and those play (`CarriersPlay`), both but for connections to what is no ball, no round goes on with a ball missing and nobody left to win it (`MissingBallsMatter`) |
| `races` | a race never ends up with all its players out of it and none let in (`SomebodyRaces`); the grid gives each a base, better laps first (`StartingGrid`); somebody who does not pause is it (`SomebodyIsIt`) |

Each property is broken by a mutant of a definition, listed in `PROJECT.json`.
Definitions whose comment starts with "Bug:" are these mutants; no specification
uses them.

`reliable_stream`, `treasures` and `races` check deadlock. The others say
CHECK_DEADLOCK FALSE: players may all have left, connections have ended, bounds
be reached, or the server have crashed.

### Bounds

- Stream: 6 bytes of two values, written by twos and threes into a buffer of 5,
  packets of up to 4 bytes, `MinSendSize` 1: bursts of two packets,
  retransmissions across packet borders, partial acknowledgements, refused writes,
  and new data sent in the room beside a frame while the timer still runs, which
  is 3 of 4 bytes with one outstanding. `FewDatagrams` keeps two datagrams under
  way in each direction; `EverythingAcked` is about the behaviours within it, in
  which one may always be lost (137 thousand states). The proofs need no bound.
- Connection: a map of 3 units in a window of 2, so that Handle_setup waits for
  an acknowledgement, and at most two packets and one acknowledgement of the
  stream under way (`FewInFlight`), enough for a repeated, a late and a new one.
  `NeverHalfOpen` is about the behaviours within this bound, in which the
  network may still lose anything; without it, it was checked for a map of 1
  unit, which `connection_login` takes too. `LoginGoesOn` cuts off states in
  which `LoginSucceeds` already holds.
- Alliance: three humans and a robot, two alliances: merges, an alliance left
  by its last but one member, and no free alliance id.
- MapObjects: an object of each kind with a polygon each, two steps to a tick,
  frames and acknowledgements 3 loops apart. `OneStory` lets one object change
  and one client play after the first frame; objects meet only through
  `Update_objects`, which the proofs cover without the bound.
- FrameWindow: a window of 3, two more arrivals than it holds (`MaxArrivals`),
  4 loop numbers (`MaxLoops`), any order and any repetition.
- Controls: two keyboard changes, movements and talks, two datagrams under way,
  shorts of 3 bits that overflow at the second movement. `MaxPredict` is 2, and
  `OneHand` lets the player either move the mouse or press keys and talk: the
  two only meet in the order of records in a datagram. Ships are sent home while
  nobody talks, which neither changes. A datagram stays until it is lost or pushed
  out by a third.
- Teams: three humans, a robot and three teams with a base each (symmetric
  humans), four settings of the options; with pauses that give up the base only
  the default settings for robots (424 thousand states). A swap among three teams,
  a full team, a team of robots, a robot moved by an operator and a player without
  a base all occur. Ten settings (1.01 million states) were checked too.
  `MaxDrift` and `MaxRobotDrift` stop where a count is wrong, which the properties
  need not look beyond.
- Admission: three clients of whom two want the same nick and one knows the
  password, two ports, two bases, a queue of two, one robot: the queue is full,
  ports run out, a robot is kicked for a seat, a nick is disputed. `MaxGrants`
  bounds how far NumOperators goes wrong (Findings).
- Treasures: a player and a treasure in each of two teams, a slot more than
  there are balls, the default options and all of them changed, treasures
  destroyed at most twice (`MaxDestroyed`). Other objects leave room for the balls
  (`Launch`): only when MAX_TOTAL_SHOTS objects do not, Make_treasure_ball makes
  none. `InTheWay` keeps those that somebody points to or is connected to
  (1.7 million states); all of them, 4.6 million states, were checked too.
- Races: three players, or two without limited lives, two checkpoints, one lap
  that takes 1 or 2, a life to spare. Laps beyond the last are not counted.

### Fairness

The server's main loop is driven by a timer, so its steps are weakly fair; the
client's loop wakes up on input and every second. The network is fair-lossy: a
datagram sent again and again is received (strong fairness on the receipt of
what matters, with the sending itself not assumed but modelled). In the stream,
Send_reliable is called again and again with some room for it (strong fairness of
a burst in any room, maybe the least beside a frame): while the player logs in
the room is a whole datagram, while he plays it is what frames leave, and frames
that fill theirs for ever would starve the stream. That frames do not is assumed
(`netserver.c:2076`), which room they leave is not. `ClockFairness`
leaves the network out and assumes only that timers expire. `TalkArrives` needs
the client's five second keepalive (`Silence`), without which talk that was
lost is repeated only when something else is sent. Nothing assumes that players
act.

## 5. Proofs

`ReliableStream_proofs`: for every choice of bytes, sizes and bounds, all safety
properties of the run and the refinement of `ByteStream`. The inductive
invariant `IInv` joins the types, the properties themselves and a statement
about what is under way: every datagram holds the bytes of `written` at its
offset, none beyond `reliable_unsent`, and every acknowledgement is at most
`client_offset`. The properties alone are not inductive, since an arbitrary
datagram could bring anything; that datagrams persist makes the statement
stable.

`InPlay_proofs`, first part: `AckedIsCurrent`, `StylesAreCurrent` and `PolysFollow` for
any connections, objects and times. That an object with an acknowledged bit is
shown as it is must survive the frames that still arrive, so the invariant is
about them: every frame a client might still take that is newer than the last
change says what the object is now, and every acknowledgement newer than that
comes from a client that has shown it. `PolysFollow` assumes `DeadTicks > 0`
(see below).

`Connection_proofs`: `InStep` for any map, window and sizes. Every step of the
connection is a step of the stream or leaves it alone, so the stream's invariant
holds here too (an INSTANCE of `ReliableStream_proofs`). It says that the client
has consumed a prefix of what the server wrote; what the server writes follows a
script, whatever arrives and in whatever order its functions call each other.
The invariant adds how far in the script each state of the server and of the
client is, and that a request under way comes from a client that has got that
far: without this an old request could move the server on.

`Alliance_proofs`: `AlliancesOfTwo`, `JoinDropsInvitations` and the refinement
of `Coalitions`, for any players. The invariant counts everybody whose
`alliance` is an id, present or not, and says that only the present have one.
What each function of `alliance.c` does is a lemma about any tables, also while
a count is wrong in between; the commands are then compositions of lemmas: a
merge removes the members of one alliance as a set, adds them to the other and
dissolves the empty one.

`Frames_proofs`, first part: `WaitingIsNewer`, `KeepsPlace` and `DropsOldest` for
any window and any arrivals. The slots are filled from the front, what waits in them
and in the socket is in order of arrival, and while Net_input still reads, all
slots before the one it reads into hold frames; otherwise a frame could be moved
past a packet that has to keep its place.

`InPlay_proofs`, second part: `AckedKeysHold`, `NoMacros`, `NeverOvershoots` and
`SaidOnce`, for any keys, movements, talk and losses. The invariant is that
every datagram under way is genuine: it has one keyboard at most, the number of
a key change belongs to one state of the keyboard, a pointer position leaves out
only the movements that come with later key changes, and no talk has a number
beyond the client's. It holds for a datagram from when it is sent until it is
lost, while the client goes on. `AckedKeysHold` is not that the server has the
keys that are held, which Go_home makes untrue (section 6): it has them or, since
it sent the ship home, none.

`Admission_proofs`: all four invariants of the run, for any clients, ports,
bases and queues. The invariant adds that the counter of the queue is its
length, that each busy port has a client, of a nick no other has, and that
whoever has been told a port, and is listened for at all, is listened for there.
What becomes of the queue is proved of lists alone: what is removed leaves the
rest in order, what enters is put before what waits.

`Treasures_proofs`: `OneBallEach`, `HaveIffUntouched`, `CarriersPlay` and
`MissingBallsMatter` for any players, teams, treasures and memory. The invariant
is a predicate of the world as a value (`Good`), and what is still to be visited
are balls that exist (`Awaited`). Each function of the world takes good worlds
to good ones, so the compositions do as well, and `Delete_shot` is treated once
for all its callers. The properties alone are not inductive: that a ball which
will not be made anew has been counted as lost, that the balls stand first in
`Obj` and in slots of their own, and that untouched balls have no owner have to
be known too. So has the number of objects of other kinds, which never take the
room of a ball: the slots in use are counted (`UsedCount`). Balls and strays are
kept apart by what each conjunct says of `strayed` and `robbed`. Two loops need
more. Those that delete while they go down the list
see each ball, since what is moved into a gap has been visited before, and what
is made anew is not one of those that are looked for. Reset_all_players unmakes
the balls while their treasures still claim them; in between only the list is
right and nobody carries anything (`Swept`), then the treasures so far visited
have their balls (`Renewed`).

`Frames_proofs`, second part: `SomebodyRaces`, `StartingGrid` and `SomebodyIsIt`
for any players, bases, checkpoints and lap times. The invariant (`RaceIInv`) is
that PlayersArray holds everyone once, also after the last one has taken the
place of one who has left, and is no longer than there are bases. The grid is
built by insertion into what is in order already: each insertion leaves everyone
in one place and a better lap before a worse one, so everyone gets a base. A race
does not stall because whoever ends it lets all back in, and it does end with the
frame in which the last racer is out. The search for somebody to be it steps as
many times as there are players who can be; that it meets one is an argument of
counting.

`Teams_proofs`: `OwnBases`, `CountsKeepPace`, `CyclesAreSwapped`, `SwapsAsAsked` and
`BaseForEveryone` for any players, teams, bases and options. The invariant is one
of the tables as a value (`Sound`): bases belong to the team of who has them, who
is not there has none, robots stay, and nobody waits in two queues. What a
command may do to the tables is one relation (`Fine`), which each function is
shown to satisfy; the properties follow from it. A player adds to one count only,
so a count changes with the sets it counts. For circles, the search of Cmd_team
is followed: from the player who asks it goes along those who wait, and either
comes to a team without a queue, then the wish that is added closes no circle, or
to the team asked for, then the cycle it has gone is swapped, each getting the
place of the one before, and none of its wishes is left. A third way, round and
round elsewhere, would be a circle that was there before. Bases suffice because
the counts are true: a team with fewer members than bases has a base that is
nobody's home. What remains is the login into a full team whose robots are
counted as if they had been kicked, which the theorem names; robots' counts are
true until an operator moves a robot.

The folds of the models are recursive functions, over sequences or numbers; that
they keep what each step keeps is shown by taking the least number at which they
would not (WFMin of the library), because its induction theorems take operators
as parameters.

The assumptions are the ASSUMEs of the modules, which say that sizes are
numbers, that sets of players, slots or ports are finite, that names are told
apart (`Names`, `NoSuchPort`), and the like; TLC evaluates them in the runs.
`Controls` assumes that the mouse moves by less than half the range of a short
in all, from wherever it starts (`2 * MaxMoves < W`). Each inductive invariant
was checked with TLC, on the instance of its run, before it was proved.

Only model-checked: liveness (`EverythingAcked`, `NeverHalfOpen`,
`LoginSucceeds`, `NewestShown`, `KeysArrive`, `TalkArrives`), since there is no
ENABLED or fairness in the prover. Every other property of a passing run is a
theorem.

## 6. Findings

Where the code does not do what its comments or messages say. The first has a
run; for each of the others the module states the property with "It does not
hold", and TLC shows it when the property is added to the run's .cfg, within 10
seconds, or 40 for `BallsOnly`, `OwnTreasureFirst` and `PositionsOnce`, which needs `MaxPlayers` 3 without limited
lives, and `MaxGrants` 1 for `UnlockedByLast`.

- `NoInvitationAmongAllies` (run `alliance_invited`): an invitation sent before
  two players became allies remains, and accepting it ends in a null pointer
  (`alliance.c:338`, `alliance.c:342`).
- `RepairsAreQuiet` (`map_objects`): "We don't send target info to the clients
  every frame if the latest repair wouldn't change their display"
  (`target.c:57`); the test before it is the other way round. Fuel_update has it
  right (`update.c:447`).
- `SaysWhatWasTyped` (`controls`): a client command ("it's a clientcommand!",
  `netclient.c:2468`) replaces pending talk in the buffer that is repeated
  (`netclient.c:2467`).
- `BaseToUnpause` (`teams`): "You don't have a base." (`event.c:557`). A player
  who has given up the base by pausing, or was let in without one, can trade
  places with one who has a base, who then plays without (`command.c:1181`).
  What follows: wrong counts through Player_change_home, a queue for the
  player's own team that the search in Cmd_team (`command.c:1168`) never leaves,
  and, with robots that are not restricted, End_game in Pick_startpos.
- `UnlockedByLast` (`admission`): "The game has been unlocked as the last
  operator left!" (`player.c:1354`). /op makes operators who are not counted
  (`command.c:879`), so the game may be unlocked while there are some, or stay
  locked with none.
- `OwnTreasureFirst` (`treasures`): "The treasure's team cannot connect before
  somebody else has owned the ball" (`collision.c:376`, `shot.c:1131`). Two
  players reach for a loose ball and one gets it; the ball dies and is made anew
  in the same memory; the other, who still points there, takes it from the
  treasure of his own team.
- `BallsOnly` (`treasures`): a pointer to a ball (`ballobject_t *ball`,
  `player.h`) may lead to something else. Delete_shot clears those of players who
  reach for a loose ball, not for one that somebody carries (`shot.c:1127`). If
  that one has scored, its memory is free for an item, an asteroid or a cannon's
  shot (`object.c:49`), and PlayerCollision looks at `life` and `id`, not at the
  type (`collision.c:322`): the player has HAS_BALL without a ball, and the
  treasure of a ball that was there before loses its `have`. What stands in
  a goal fails an assertion (`treasure.c:289`), and in the memory of a mine or
  missile `ball_treasure` is another field; both end the server and are not
  modelled.
- `HeldKeysObeyed` (`controls`): "We already have this key." (`netserver.c:2106`).
  Go_home forgets the keys of a ship that appears (`player.c:207`), but not the
  number of their last change: keys held over a death or a pause do nothing until
  another one is pressed or released, though the client sends them again.
- `PositionsOnce` (`races`, with three players in both modes): "Everyone who
  finished the race in the last frame gets the current position" (`race.c:192`).
  Without limited lives who has finished recovers, crosses the line again and
  gets one more position when the next one finishes.

Seen while modelling, and part of the models unless it says otherwise:

- An operator who moves a robot (`command.c:1151`) changes NumMembers of both
  teams and never NumRobots, which then is wrong until the server ends. The
  premise `~RobotMoves` of `CountsKeepPace` is about this.
- Handle_login lets a player into a full team that has robots
  (`netserver.c:1008`), taking them for kicked, while Queue_loop chose the team
  before and they or others may have come since. Pick_startpos then finds no base
  and ends the server: the exception of `BaseForEveryone`.
- An invitation to a player who has left is cancelled through
  Player_by_id, which is NULL (`alliance.c:94`, from `cmdline.c:1091`), hence
  `Stale` and `crashed` in `Alliance`.
- Accept_all_alliances visits players whose invitations the first acceptance has
  dropped (`alliance.c:187`).
- DRAIN ends when what has been sent is acknowledged, with data written but not
  sent left in `c` (`netserver.c:2429`; `connection.h` says all data).
- READY ends when the first byte of `c` is not that of the reply
  (`netserver.c:2437`), which in the middle of other data means nothing.
- A cannon that is dead for 0 ticks never comes back to its polygons
  (`cannon.c:878`): the assumption of `PolysFollow`.
- "With limited lives mode off, the race ends when the first player completes
  the course" (`race.c:37`): it ends with a finish that leaves at most one player
  who is not dead (`race.c:263`).
- Players who are in the race without a lap keep their place in the grid, before
  players with one (`race.c:287`). Tanks leave gaps in `order` (not modelled).
- The second loop of Check_tag (`tag.c:85`) never runs: a stale id is not
  NO_ID. The first finds somebody always, as `SomebodyIsIt` says.
- A ball that has scored can be moved and score again in the same frame, and a
  ball whose owner is removed later in the frame is made anew though it counts
  as destroyed: TreasuresLeft may be off (counts of teams are not modelled).
- treasureKillTeam kills the losing team's players, also those who have paused
  in the last ten seconds (`score.c`, Handle_Scoring), which takes them out of
  their pause.
- Compute_game_status starts its search for the best team at 0
  (`player.c`): with negative scores everyone draws (not modelled).

## 7. Not modelled

Within the components that are modelled: which of several unacknowledged
objects fit into a frame (any may), views, the recipients of talk, what a key
does, display and modifier packets, the owner's commands to the queue
(shutdown, options, messages), tanks, spectators, empty treasures,
specialBallTeam, races with balls, scores, kicks by the server during a race.
They leave the properties alone or are named in the modules' heads. Robots'
decisions are nondeterministic.

Not modelled at all: who wins a round without balls or laps; the scheduler but
for the order of input and frames; physics, collisions, drawing, sound and
parsing, which are sequential computations over geometry or text and by far the
largest part of the sources; recording, ranking and the meta server, which are
I/O. The map editor and the replay viewer are programs of their own.
