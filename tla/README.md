# TankShooter: a TLA+ verification project

TankShooter is a multiplayer game: a C++ server, a client on top of the HGE
engine, and CatNet, a small TCP library both share. This directory holds TLA+
models of its core, the TLC configurations that check them, and TLAPS proofs.

The interesting part of the program is that it has **no lock anywhere**. The
server runs three threads over shared globals:

| thread | code | shares |
|---|---|---|
| receive thread | `ServerRecvThread`, CatNet/ServerNetwork.cpp:36-136 | session registry, list of received packets |
| main thread | `main`, Server/src/main.cpp:259-305, `ReceivedPacketProcess_*` | list of received packets, registry, `g_Tanks` |
| game thread | `GameUpdate`, Server/src/main.cpp:58-223 | registry, `g_Tanks`, `g_missiles` |

and each client two: `RunClientThread` (CatNet/ClientNetwork.cpp:54-99) attaches
packets to a list, `Application::Update` takes them out. A comment in `GameUpdate`
says "lock the mutex", but there is none. So a large part of the project is about
what still holds when these threads interleave step by step, and under which
condition the rest holds.

## Inventory

| component | state | operations | what is hard | what makes it correct |
|---|---|---|---|---|
| Session registry (SessionNode.h, ServerNetwork.cpp) | `indexList`, `indexSessionMap`, `socketIndexMap`, `m_SessionCount` | accept, AddSession, RemoveSession, SendPacket, SendPacketToAll | writes and look-ups interleave; `operator[]` inserts null entries | the four parts agree between calls; a slot has one holder; a broadcast reaches every stable session once |
| List of received packets (ProcessSession.h) | `m_Head`, `m_Tail`, `m_Next`, the entry's fields | Attach, GetFirstSession, DeleteFirstSession | pointer writes of two threads | packets are handled in order, none twice; none lost unless the threads meet at the last entry |
| Framing (NetworkLib.h, the two receive loops, the length tables) | byte stream, receive buffer, offset | SendPacket, recv loop | partial sends, packets cut by `recv()`, wrong length | order is kept; damage is confined to the `recv()` that was cut |
| Joining and leaving (main.cpp, process_packet.cpp, send_packet.cpp on both sides) | `connected`, `client_id`, the client's state and list of others | NewAccept, FullGame, EnterGame, the tick's Disconnect, the client's handlers | slots get new holders while packets and checks about the old one are under way | everybody is answered; admission is bounded; who was told in time forgets a leaver |
| Movement netcode | `QueuedPlayerMovements`, `input_queue`, `latest_sequence_ID` | send_packet_movement, drain, tick, UpdateTankMovement, the mechanism switches | acknowledgements of one process meet sequence numbers of the next | inputs are applied one by one, in order; nothing is replayed that the position contains |
| Combat (GameUpdate) | `hp`, `active`, `respawn_timer`, `score`, `g_missiles` | drain with collision, fire, move, respawn, tick | order inside a frame, against the tick and against joining and leaving | one hit per missile; rewards match deaths; a dead tank comes back; clients see a missile's end unless the tick misjudged them |
| Client application (application.cpp, the client's net/) | mechanisms, both queues, menu, cooldown, `missile_shot`, `missiles` | Update, ProcessPacket and its handlers, send_packet_movement | frames that send nothing between frames that do; updates that arrive between frames | a shot is sent once; prediction shows the newest aim; what is drawn is what the server has |
| Motion and drawing (GameUpdate, collision.cpp, timer.cpp; Movable.cpp, Tank.cpp, Application::Update) | positions, the two timers; server, client and drawn position, `ratio_` | drive, wrap, die, respawn, hit, fly, tick; do_interpolate_update, Update, replay and smoothing | updates meet a blending that is not over; hull and turret share a ratio; two edges | what is drawn moves by shares of the gap and arrives; the prediction is the server's motion; a missile does not slip through |
| Packet layouts (packets_s2c.h, packets_c2s.h, PacketMessage, the tables of lengths) | | `<<`, `>>`, s2cSize, c2sSize | each length is kept in three places | each packet is cut as it was written, and no handler acts on what was not sent |
| Start-up (main, both InitNet, Application::Init) | | socket, bind, listen, CreateThread, connect | clients connect before anything handles them; calls fail | who is connected is answered; nobody is left behind by a failure |
| HGE, former ship classes | | | | not modelled, see below |

The components meet like this: the receive thread puts a session into the registry
and a NEWCONNECTION entry into the list; the main thread handles the entry and
writes `g_Tanks`; the game thread reads `g_Tanks` and the registry, writes both
tanks and missiles, and broadcasts through the registry; the client's receive
thread fills the client's list, from which `ProcessPacket` feeds the application.

## Modules

| module | models | abstract specification |
|---|---|---|
| `Netcode` | movement inputs through client, network, main thread and game thread, for one slot and the client processes that hold it one after another | `InputLog`: the sequence of applied inputs grows by the next input, acknowledgements are a first part of it and only grow |
| `Sessions` | the registry, one step per write or look-up | `SlotTable`: lowest free slot, one holder |
| `ProcessList` | the list, one step per pointer access that matters | `PacketQueue`: each packet comes out once, in order, until the way is disturbed |
| `Lobby` | several clients, the slots, the three server threads | |
| `Combat` | frames and ticks of the game thread, main thread and clients beside it | |
| `Framing` | packets on a byte stream | `PacketQueue` |
| `ClientApp` | the client's frames and the packets between them, against one tank of the server | |
| `Motion` | one tank, turret or missile on a line, on the server and on a client's screen | |
| `Wire` | the layouts of the packets, senders, tables of lengths, handlers (operators only) | |
| `Startup` | how server and clients come up, around `Lobby` | |
| `NetcodeProofs`, `SessionsProofs`, `ProcessListProofs`, `LobbyProofs`, `CombatProofs`, `FramingProofs`, `ClientAppProofs`, `MotionProofs` | the theorems about the module of that name (`LobbyProofs`: about `Lobby` and `Startup`) | |

`MC*` modules instantiate them for TLC. How they divide the system: `Sessions` and
`ProcessList` go down to single writes, so `Lobby`, `Netcode` and `Combat` take one
operation on the registry or the list as one step and keep the steps between which the
code looks and acts: `CountSessions`/`FullGame`,
`NewAccept`/`SendWelcome`/`SendNewClient`, `LookAtEnemy`/`SendOldClient`,
`LookAtSession`/`DisconnectTank`/`SendDisconnect` in `Lobby`, `LookAtTank`/`ForgetTank`/
`TellOfMissiles` and `Respawn`/`Revive` in `Combat`, `CheckSession`/`NoticeDisconnect`/
`SendUpdate` in `Netcode`. `ClientApp` and `Netcode` divide what a client sends: the
turret inputs with the shots are in the one, the movement inputs in the other. A packet
goes through the byte stream of `Framing` and then through a list of `ProcessList`. Both
are proved to implement `PacketQueue`, each with its own account of what disturbs it: a
`recv()` that cuts packets, a meeting of the two threads at an entry. `Lobby`,
`Netcode`, `Combat` and `ClientApp` take that way for an undisturbed `PacketQueue`; what
they show holds as long as it is one. Two modules are composed: `Startup` EXTENDS
`Lobby` and takes its actions only when the thread that takes them runs, and `MCFraming`
joins `Framing` with `Wire`: the two kinds of packets of the stream stand for the
packets of the code, and the invariants hold the lengths and fields of the code against
what the stream was told of them. Operators that a comment marks "(mutant)" are wrong
variants of the definition next to them. Each run's properties are known to fail when
one of them takes its place.

### Correspondence, module by module

* **Netcode.** `tenant` numbers the client processes of the slot. A position is the set
  of inputs it results from, so "the position contains the input" is membership; `log`
  is history, the sequence in which the holder's inputs moved the tank. `ApplyInput` is
  one turn of `while (!tank.input_queue.empty())`; the tick is `CheckSession`,
  `NoticeDisconnect`, `SendUpdate` because `CheckIndex`, the write of `connected` and
  the broadcast are separate accesses. `EnterGame` keeps `input_queue` and
  `latest_sequence_ID`, as the code does. `Overtaken`/`Discard` are the loop of the
  client's process_packet.cpp:168-187.
* **Sessions.** `rpc` steps through AddSession and RemoveSession; `sessionMap` has
  `Null` where `operator[]` inserted an entry. `fault` tells how the program ended.
* **ProcessList.** `ppc` is the receive thread in Attach, `cpc` the other one in
  GetFirstSession, its switch, and DeleteFirstSession. `raced` is history: the last
  entry was being taken out while another was linked, or one was seen unfilled.
* **Lobby.** Each packet the main thread sends is a step, and so is each access to
  `connected` around it: `decision` is what it does next in an entry, `enemy` the tank
  its loop over the older clients is at. `gone` is how far the tick is with the tank at
  `at`. `inbox` keeps a client's packets, `Drop` is the missing case of the switch in
  `ProcessPacket`. `clientId` is 0 until EnterGame, for the tick's look at the registry
  as well as for what is announced.
* **Combat.** The collision loop of one input is one step that chooses the set of
  missiles it meets; `Rank` is the order in which it meets them. The tick judges a
  tank by the session at its `clientId`, disconnects it in a second step and announces
  in a third; a respawn counts down in one step and brings the tank back in the next.
  `view` is what each client's `missiles` map says of a missile, where packets arrive at
  once. `misjudged` is history: the client entered between the look and the
  disconnection.
* **Framing.** Bytes are numbers; a recv() returns any part of what has arrived; a
  `send()` writes all, a part, or fails. Concurrent sends of whole packets do not
  mix; parts do.
* **ClientApp.** `PlayUpdate` is `Application::Update` behind `ProcessPacket`, whose
  packets are steps of their own; between two of them any number may arrive. An angle
  is the id of the input it came with. `pressed` is history: SPACE with the cooldown
  over. `shown[0]` is the entry CLICKSTART makes by falling through to UpdateMissile.
* **Motion.** `kind` is what moves: another player's hull or turret, a missile, or the
  player's own tank. An input is what it moves the tank by, from the set `Moves`, and
  whether it finds the tank mortally hit (`fatal`: the tank goes to the middle of the
  screen, main.cpp:124-133, and its inputs wait while it is `respawning`). `drawn` is
  the Movable: `server`, `client` and `x` are `server_x_`, `client_x_` and `now_.x_`
  (`server_turret_rot`, `client_turret_rot` and `turret_rotation` for a turret), `ratio`
  is `ratio_` times `Blending`. `at` says which of the two reads of the timer comes
  next. Each read takes what has passed since the other one, so `ReadForFrame` and
  `ReadForTick` share the time out. `half`, `rebased`, `skipped` and `strayed` (an input
  was too long for one wrap) are history.
* **Wire.** A layout is the sequence of the fields of a packed struct with their
  sizes; `Put` is what a sender writes, `Unset` what it leaves to the stack,
  `s2cSize`/`c2sSize` what the receiver cuts, `Used*` what the handlers act on.
* **Startup.** `server` is how far `main` is, `process` how far each client is,
  `backlog` are the connections that the system completed and nobody accepted. `misled`
  is history: whom a client was told of behind that player's Disconnect, or without ever
  getting one under that player's id.

## Runs

| run | bounds | shows |
|---|---|---|
| `netcode` | 2 processes, 2 inputs each, 2 packets in flight | the inductive invariants `InOrder` and `Contiguous`, `PredictionExact`, `AppliedIsPrefix`, refinement of `InputLog`, `InputsAcknowledged` |
| `sessions` | 3 connections, 2 slots, 2 senders | `RegistryInv`, `FaultNeedsOverlap`, `BroadcastReaches`, refinement of `SlotTable` |
| `process_list` | 5 entries | `ListInv`, refinement of `PacketQueue` (`ListImplementsQueue`), `HandledUnlessRaced` |
| `process_list_loss` | 2 entries | violated: a filled entry is linked behind the last one and lost with it |
| `lobby` | 3 clients, 3 slots, 1 player | `AdmittedBound`, `LobbyInv`, `RosterTold` |
| `lobby_live` | 2 clients, 2 slots, 1 player, every stage of the start | `StartupInv`, `ConnectedIsAnswered`, `EnteredLeaverForgotten` |
| `lobby_roster` | 2 clients, 2 slots, 2 players | violated: one player does not learn of the other |
| `combat` | 2 tanks, 2 missiles, 3 joins, 1 hit to kill | `CombatInv`, `DeathsRewarded`, `MenuInactive`, `EndIsShown` |
| `combat_live` | 2 tanks, 2 missiles, 2 joins, 2 hits, 2 frames to respawn | `NeverWithoutHp`, `Respawns` |
| `framing` | 3 packets, 2 senders, 1 partial send, lengths scaled down on the stream (id alone among them), real ones in `Wire` | `StreamInv`, `LossConfined`, refinement of `PacketQueue` (`StreamImplementsQueue`), `PacketsAgree` |
| `client` | 2 inputs, 2 shots, cooldown 4, send after 1, frames of 1 or 2 | `ClientInv`, `ShownWereFired`, `AimIsNewest`, `EndOnItsWay`, `ShotsFire` |
| `motion` | a line of 2 with a sprite of 2, blending in 3 frames, updates of 1 tick in flight, 2 inputs that move by -3, 0, 1 or 5, any of them fatal, reads of 0 to 2 | `MotionInv`, `HitUnlessSkipped`, `MovesByShare`, `CatchesUp`, `TicksRecur` |

An invariant named `...Inv` joins the type invariant of its module with the named
parts its inductive proof needs, and with the safety property among them:

| invariant | property | further parts |
|---|---|---|
| `RegistryInv` | `RegistryConsistent`: flags, both maps and the count describe the same sessions | `SlotsAgree` (the same between two writes), `UsedOnce`, `Attended` (what a sender knows of its slot), `SentBehind` (where a broadcast has been), `FaultNeedsOverlap` |
| `ListInv` | `HandledInOrder`: packets are handled in order, none twice | `Forward` (links lead to newer entries), and `Intact` (what the list is) unless `raced` |
| `LobbyInv` | `OkNeedsEnter`: nobody comes to the menu unasked | `Seats` (slots and clients know each other), `Asked`, `Room` (a decision to accept leaves room), `Answered` (who holds the slot behind an EnterGameOK), `Informed` |
| `StartupInv` | `NobodyStranded`: a failing set-up leaves nobody who is connected | |
| `CombatInv` | `OneHitPerMissile` | `Numbered`, `Room` (shots that wait get numbers), `FromFirst`, `Entered` (a tank knows its client and has hp), `Present` (whose tank is connected), `InTurn` (whom a tick has told), both unless `misjudged` |
| `StreamInv` | `AttachedInOrder`: packets are attached in the order of the stream | `Laid` (packets do not overlap), `Apart`, `Behind`, `InStep` (the loop stands at a packet), `Ahead`, `Undamaged` (what has come through clean `recv()`s is complete) |
| `ClientInv` | `ReconciliationPredicts` and `ShotsAccounted`: switches in step, shots neither lost nor doubled | `Fresh`, `Cooling` (the latch is taken before the next shot), `Numbered`, `Ordered`, `Answered`, `Pointing` |
| `MotionInv` | `PredictsServer`: with the inputs not acknowledged the client predicts where the server's take the tank | `Places`, `Paired`, `Blends`, `OnOneWay` |

`Contiguous`, beside `InOrder`, says of `Netcode` that no input is missing on the way;
its parts are `SentWhilePlaying`, `NothingMissing`, `EnterFirst`, `AcksGrow`, `OneByOne`
and `FirstHolder`. `NeverReplayed`, that reconciliation replays nothing the position
contains, is the part of `InOrder` that a player would notice. `PacketsAgree` joins
`CutAsWritten` and `ActsOnWhatWasSent`.

Why these bounds are enough for the cases meant: two processes per slot are the
least with which a slot changes hands while packets, inputs and checks of the old
holder are under way, and two inputs are the least with one before and one after an
acknowledgement. Three connections for two slots fill the registry and reuse a
slot. Five entries give the list every length from none to several while both
threads work. Three clients with room for one exceed the limit by every count the
property forbids (`AdmittedBound` allows two of three). Two missiles suffice for
two hits in one input and for a hit beside a miss. In `framing` the receive buffer
holds one packet and a part, or a short packet and a whole one, and the scaled
lengths keep the order of the real ones (id < Disconnect as written < as cut). In
`client` a second shot falls into a frame that sends and into one that does not, and
the times keep the order of the real ones: 10 ms, a frame, 1 s (HGE cuts the time it
reports between two frames; `TimeAssumption` is what the code needs of it).

In `motion` a tank can leave on either side, come in again, die, or go too far for one
wrap within the inputs it has (with these lengths no run of TLC brings server and client
off opposite sides; that exception of `MovesByShare` and `Blends` is covered by the
proof only), an update can meet every stage of a blending, a missile needs one or two
frames past a tank and a frame can be long enough to carry it over. A larger line has
more positions of the same kinds.

For the invariants and action properties the bounds matter less than they seem: all
but `PacketsAgree` are theorems for every value of them (see Proofs). They matter for
the liveness properties and for the two violations.

`CHECK_DEADLOCK FALSE` stands where the model may stop: the bound on processes,
entries, connections or packets is used up, or the program is gone (`fault`,
`crashed`, and in `lobby_live` a server that ended because its set-up failed).
`lobby`, `combat`, `client` and `motion` cannot stop, because the game thread goes
on.

### Fairness

* `netcode`: each thread keeps running (weak). Strong for the main thread: its
  `send()` blocks while the socket buffer is full (`MaxFlight`), and the game thread
  sends on the same socket; a blocking `send()` gets buffer space in the end. Strong
  for `ApplyInput`: the loop of `GameUpdate` comes to the drain again and again, and
  the step is disabled only inside a tick.
* `process_list`: both threads keep running.
* `lobby_live`: each thread of the server goes through its start and then on, each
  client that runs goes on, a closed connection is noticed (all weak). Nobody has to
  start a client, to connect or to quit, and any call of the set-up may fail.
* `motion`: the client reads what arrives and draws (weak). Strong: time passes
  between two reads of the timer, as a performance counter guarantees; and there is
  again and again a frame after which no update came before the next one, because
  a client draws at the rate of its screen and updates come 30 times a second.
* `combat_live`: steps inside a frame and a tick follow each other (weak); frames
  and ticks start again and again, since both timers run down (strong); draining
  ends (strong on `EndDrain`), because a client sends at most one input per 10 ms
  and the main thread sleeps 100 ms between rounds, so the queue does get empty.
* `client`: HGE calls Update again and again once the player is in the game, and the
  server's threads keep running (all weak). Nobody has to click or to shoot.

## What the runs show beyond "it holds"

Two disagreements are findings (PROJECT.json, with the lines): the lost packet and the
players that do not learn of each other. While modelling, these were met as well; each
is visible in the model and hedged in the property that it limits:

* `AdmittedBound` is `MaxPlayers + 1`: the count of main.cpp:273 concerns the entry,
  the Welcome goes to whoever holds the slot then. The count also takes connections
  that wait for their answer for players: with enough of them in the list each one is
  denied while nobody plays.
* `OkNeedsEnter`, not "whoever is in the menu has asked": an EnterGame that outlived
  its sender acknowledges the next holder of the slot (process_packet.cpp:75).
* `EnteredLeaverForgotten` lets a list keep a ghost, a player that is gone, in two
  cases, and both happen. The main thread looks at `connected` and sends OLD_CLIENT in
  two steps (process_packet.cpp:85, 97), and it sets `connected` and sends NEW_CLIENT in
  two (send_packet.cpp:18, 32). If the tick disconnects the tank and broadcasts in
  between (main.cpp:192-196), the client is told of the player behind its Disconnect.
  And if the tank is given its `client_id` between the tick's look and its broadcast,
  the Disconnect names the tank of before. `misled` is exactly these; without the
  exception the property is violated. It also needs `clientId[i] = i`: a tank that was
  accepted and never entered is announced under `client_id` 0, against Packets_s2c.h:33
  ("client_id is same as SessionID in the server."), and its leaving too.
* `PredictionExact` starts with the first acknowledgement: `latest_sequence_ID` is 0
  before anything was applied, so an early update discards input 0, against
  application.h:72 ("Buffer of un-acknowledged player movement packets"). It is about
  the first holder of the slot only, since `latest_sequence_ID` is not reset.
* `DeathsRewarded` counts `crowded` hits: a second missile in the same input as the
  deadly one is rewarded as well (main.cpp:115).
* `MenuInactive` excepts slots whose last holder left `respawn_timer` running, just run
  out (the tank is made active after an EnterGame that fell in between,
  main.cpp:76-80), or inputs waiting.
* `Present`, `InTurn` and `EndIsShown` except clients that are `misjudged`. The tick
  looks at the session of a tank and disconnects it in two steps (main.cpp:192-194), and
  until EnterGame the look is at slot 0. So the tank of a client that has just entered can
  be disconnected although the client is there: nothing connects it again, its inputs
  wait, and with no other tank to announce, a missile it was shown is erased without
  a word.
* `EndIsShown` excepts missiles whose owner has left, `EndIsShown` and `EndOnItsWay`
  those a client first hears of when they are dead ("late"): the entry is made alive
  whatever the packet says (process_packet.cpp:304), and nothing clears the map.
* `AimIsNewest` starts with the second input, for the reason `PredictionExact` starts
  with the first acknowledgement, and excepts players without reconciliation, whose
  queue is cleared of newer inputs too (process_packet.cpp:246).
* `FaultNeedsOverlap` and `ListImplementsQueue` say when the unlocked structures can
  hurt, instead of that they cannot: `disturbed` is there for it. After a meeting
  of the threads a packet may be lost and the program may end, but what is handled
  keeps its order.
* `LossConfined` holds for clean `recv()`s only. The NOTE at SessionNode.h:12 that the
  buffer should be a multiple of the largest packet, 28, does not make them clean:
  with the id EnterGame has 29 bytes and TCP may cut anywhere.
* `ShownWereFired` excepts missile 0: the case of CLICKSTART has no `break` and goes on
  into `UpdateMissile` (process_packet.cpp:84), which reads the zeros behind the packet
  as a missile that is drawn at (0, 0). The comment at process_packet.cpp:303 says the
  missiles are cleared in every update; `ClearMissiles` is never called.
* `PredictsServer` ends at the edges and at a death: the client wraps where the
  screen ends and puts a tank that left at -1 to width + 1 (application.cpp:299-302,
  `W - posX` with a negative `posX`); the server wraps half a sprite further out
  (main.cpp:137-140), and takes a tank that dies to the middle, of which the client
  learns with the acknowledgement.
* A tank need not be near the screen. An input moves it by all the time since the input
  before, and the first input by all the time since the process started
  (the client's send_packet.cpp:19, 49, 58; main.cpp:95): 100 pixels for each second in the
  menu. One wrap takes back 800 and a sprite, so `TypeOK` and `Places` say where a tank is
  until it has `strayed`.
* `Opposite`, the test for a tank that left on one side and came in on the other
  (Movable.cpp:102-106), needs both positions outside the screen on opposite sides; the
  server has wrapped the tank to the inside before it sends, unless it has strayed. So such
  a tank, and one that respawns, slides across the screen; `CatchesUp` shows that it
  arrives.
* `MovesByShare` excepts a turret when a frame may fall between TankMovement and
  TankTurret: the restarted ratio is applied to the old angles, the turret jumps back
  to where the last blending began and then forward. It starts with the first update:
  `NewClient` sets only where a tank is drawn, so its first frame puts it at the middle
  of the screen. And it excepts what is off one side of the screen while the server has
  it off the other, which the code means to jump.
* `HitUnlessSkipped`: a missile is tested against a tank only while an input of the tank
  is applied (main.cpp:85-122), and does not hit any more behind its middle.
* `ConnectedIsAnswered` says "or that the game is full": clients that connect during
  the start of the server are all counted before the first entry is handled, so
  all of them may be refused.
* Also seen, without a property: `bind()` and `listen()` set no error code, so
  `GetErrorMessage` says "No error"; when `InitNet` fails, `main` returns while
  `g_game_thread` is joinable, which terminates the process; `sequence_id` of missiles
  and tank states is sent unassigned (send_packet.cpp:140, 159); "28 bytes"
  at packets_c2s.h:44 is none of the sizes (11 bytes, 15 with the id); a missile stands
  still at the client until its second update (Missile.cpp:19 sets the client's
  velocity only, and the ratio is 1).

## Proofs

Eight modules prove, for every value of the constants, the invariants and action
properties that the runs check on small instances. The bounds stay in the model as
constants, so the theorems hold for any number of clients, slots, packets, inputs,
missiles and entries. Each proof has the same shape: an inductive invariant that TLC
checked first (it is an invariant of the run), one lemma per part or group of
parts with one step per action, and the theorems at the end of the module.

| module | theorems | property |
|---|---|---|
| `NetcodeProofs` | `TypeCorrect`, `AlwaysInOrder` | `TypeOK`, `InOrder` (with `NeverReplayed`) |
| | `AlwaysContiguous`, `PrefixApplied`, `PredictsExactly` | `Contiguous`, `AppliedIsPrefix`, `PredictionExact` |
| | `RefinesInputLog` | `Spec => ImplementsInputLog` |
| `SessionsProofs` | `RegistryKept`, `FaultsOnlyWhenOverlapping`, `BroadcastsReach` | `RegistryInv`, `FaultNeedsOverlap`, `BroadcastReaches` |
| | `RefinesSlotTable` | `Spec => ImplementsSlotTable` |
| `ProcessListProofs` | `ListKept`, `ListRefinesQueue` | `ListInv`, `Spec => ListImplementsQueue` |
| `LobbyProofs` | `LobbyKept`, `AdmissionBounded`, `ToldIsListed` | `LobbyInv`, `AdmittedBound`, `RosterTold` |
| | `StartupPlaysLobby`, `StartupSafe` | `StartupSpec => Spec`, `StartupInv` |
| `CombatProofs` | `CombatKept`, `RewardsAddUp`, `AlwaysHp` | `CombatInv`, `DeathsRewarded`, `NeverWithoutHp` |
| | `OutInTheMenu`, `EndsAreShown` | `MenuInactive`, `EndIsShown` (action) |
| `FramingProofs` | `StreamKept`, `LossStaysConfined` | `StreamInv`, `LossConfined` |
| | `StreamRefinesQueue` | `Spec => StreamImplementsQueue` |
| `ClientAppProofs` | `ClientKept`, `MissilesEnd`, `NoMissileInvented` | `ClientInv`, `EndOnItsWay`, `ShownWereFired` |
| | `AimsWhereSent` | `AimIsNewest` (action) |
| `MotionProofs` | `MotionKept`, `HitsUnlessSkipped`, `NeverJumps` | `MotionInv`, `HitUnlessSkipped`, `MovesByShare` (action) |

### What is assumed

Only the named assumptions on constants, which the runs evaluate:

* `BoundsAssumption`, `EntriesAssumption`: the bounds are positive. `SessionsAssumption`,
  `LobbyAssumption`: values that mark "none" are not among the others; the connections
  ever made are finitely many; somebody may play.
* `CombatAssumption`: `max_hp` is a positive multiple of the damage (100 and 20).
* `FramingAssumption`: every packet, as written and as the tables have it, has at
  least the bytes of its id. Nothing relates the two tables to each other or to the
  size of the buffer.
* `TimeAssumption`: the longest frame and the time between two packets are together
  less than the cooldown (10 ms and a frame against 1 s; HGE cuts the time it reports).
* `MotionAssumption`: a missile flies further in the second that `CheckCollision` looks
  ahead than the reach (500 against 48). A sprite is even, frames take less time than
  ticks, the time between two frames has a maximum, tanks are followed at least across
  the screen. Nothing bounds what an input moves a tank by.

### Along which argument

**Netcode.** `NeverReplayed` is not inductive: whether an update covers what it includes
depends on the order in which inputs entered the tank. `InOrder` says that order is
kept on the whole way: `SocketOrdered` (inputs in the socket are sent ones, ordered
by process and sequence id), `QueueOrdered` (the same for `input_queue`, all before
those in the socket), `TankOrdered` (what is applied comes before what waits),
`SequenceCovers` (the tank's `latest`, and each update's `seq`, is at least every
input of the present process that is included), `BufferOrdered` (the client's queue
increases). Then discarding what is `<= seq` leaves nothing the update includes.
That nothing is discarded too early needs the converse, `Contiguous`: whatever is known
anywhere is closed downwards (`NothingMissing`), an EnterGame, which takes the tank's
inputs away, is ahead of all of them (`EnterFirst`), acknowledgements grow with the tank
(`AcksGrow`), and while there has been one holder, a sequence number names an input that is
included (`FirstHolder`). For the refinement, `applied` of `InputLog` is the `log` itself:
an input that moved the tank twice, out of turn or with one left out would not be the next
of the sequence, and is no step of `InputLog`. `OneByOne` says what the log is, and
`NextApplied` that the head of `input_queue`, if it is the holder's, continues it: all
before it have moved the tank. What was acknowledged is a first part of
the log because it is closed downwards (`AcksGrow`).

**Sessions.** `SlotsAgree` says what the flags, the two maps and the count have in common
after each single write of AddSession and RemoveSession; `RegistryConsistent` is the case
in which none is under way. `Attended` relates a sender that is between its look and its
use to the receive thread: unless the receive thread was at that slot meanwhile
(`overlap`), the entry is there. `SentBehind` says of each broadcast which of the sessions
it has reached. A slot is taken where the flag is written, which is where
`SlotTable` opens it; every other write stutters.

**ProcessList.** `Intact` describes the list exactly, by the two program counters: which
entries are freed, where `m_Head`, `m_Tail` and each `m_Next` point, while one thread
links and the other takes out. It is kept by every step that does not set `raced`. What
holds after a race as well is `Forward` and `HandledInOrder`. For the refinement, the
end of Attach is `Put` and `Handle` is `Take`. Before a race `Intact` makes the entry at
the head the next number. After one, `Forward` still makes it newer than everything
handled and not newer than what was received, which is `PassOver`. The other steps are
hidden, or are the `Disturb` in which the threads meet.

**Lobby.** `AdmittedBound` follows from `Room`: between counting and answering, at most
`MaxPlayers` are in the game, and the main thread lets in one at a time. `OkNeedsEnter`
is traced back through what leads to the menu, packet, entry and bytes in the socket
(`Asked`), to a client that held the slot (`Seats`). `RosterTold` is the case of an
empty inbox of `Informed`: whom a client was told of is in its list, or in a packet
behind the EnterGameOK. Between the EnterGameOK and the packets about the others the
slot may change hands; `Answered` says who can be at the other end then. A step of the
two threads either sends nothing or appends one packet to some inboxes (`ThreadSteps`,
`Sending`), so the lemmas about inboxes are proved once for a packet of any kind.
`Startup` takes `Lobby`'s actions under more guards, so its specification implies
`Lobby`'s, and `NobodyStranded` needs that no call after `listen()` can fail.

**Combat.** A frame and a tick are several steps, so the parts say how far they are.
`Present` says that the tick is not about to disconnect the tank of a client that has
entered, unless the client entered behind the look (`misjudged`); `Entered`, that the
look was at its own slot by then. `InTurn` says that an entry which is alive at a client
while the missile is dead waits for the tick to come to that client's tank, which makes
`EndIsShown` hold when the missiles are erased. `DeathsRewarded` compares sums over
slots; the lemmas on `Total` (a sum of a function over finitely many slots) are proved
once: one more in one slot is one more in the sum.

**Framing.** A packet is known by where it starts and ends in the stream. `Laid` says
that no packet starts within a whole one, and `InStep` that in a clean buffer the loop
is at a start: then it cuts what was written, comes to the next start, and attaches it
(`Ahead`). A buffer that is not clean harms what it touches, which is `cut`. For the
refinement, packets count in the order of their first bytes: `UpTo(b)` is how many begin
before `b`, and a `send()` that writes a first byte is `Put`. While every `recv()` was
clean, `Undamaged` says that all packets before the loop have been attached. So the one
it attaches has the next number, which is `Take`. After damage, packets keep their order
and so the number grows (`PassOver`); what is attached and starts no packet is `Fail`.

**ClientApp.** `ShotsAccounted` is inductive with `Cooling`: when the next shot is
ready, the last one has left `missile_shot`, because the next packet took it
`SendAfter` later and the cooldown is longer (`TimeAssumption`). `AimIsNewest` needs that
the newest input stays in the queue until the server's angle is the same and every
answer under way says so (`Pointing`), which needs inputs and answers in order (`Ordered`,
`Answered`).

**Motion.** `OnOneWay` puts the player's inputs on one way: what the client has queued
begins at what was acknowledged, the server stands somewhere on it, and so does
each position that is under way. `PredictsServer` is then that driving in two parts is
driving the whole, and that inside the screen, and while no input is fatal, client and
server drive alike. `Wrapped` shows where one wrap leads and which inputs stray. `Blends`
says that what is drawn is a blend, with a ratio at most one frame old, of the last
two places; `TwoBlends` shows that two such blends differ by no more than the share, with
the roundings of integers. `HitUnlessSkipped` shows that a missile which comes to the middle
was in reach after the frame before, or crossed the reach in one.

Where a proof needs induction over data - a sum, the end of a replayed queue, the
missiles of a tick in order - it argues with a smallest counterexample instead: `Smallest`
gets the least member of a set of naturals from the well-foundedness of strict inclusion
on the subsets of a finite set, a fact that takes no operator as a parameter.

### What is only model-checked

* The liveness properties `InputsAcknowledged`, `HandledUnlessRaced`,
  `ConnectedIsAnswered`, `EnteredLeaverForgotten`, `Respawns`, `ShotsFire`, `CatchesUp` and
  `TicksRecur`: they rest on fairness, and so on ENABLED, which the prover does
  not handle.
* `PacketsAgree`: it compares the layouts of `Wire`, which are written out, so TLC evaluates
  it for good.
* The two violations `EveryMessageProcessed` and `PlayersKnowEachOther`: a
  counterexample is their proof.

## Not modelled

* Two dimensions and floats: `Motion` has one line with integer positions, linear
  angles and a tank that stands still while a missile passes; `Combat` chooses which
  missiles hit. The velocity sent for a tank is a direction of length one, and what a
  client extrapolates with it is left out. What the client only displays (hp, score,
  its own respawn timer).
* What `std::queue` does when a push of the main thread (process_packet.cpp:112, 121)
  meets a pop of the game thread (main.cpp:88, 146, 149-166): there is no lock, and each
  push, front and pop is taken as one step in `Netcode`, `Combat` and `ClientApp`.
* What a wrongly cut packet does to its reader; PacketMessage's operators for strings,
  which nothing calls.
* A failing `CreateThread`, which the code does not look at; a machine without a
  performance counter, where `GetTimer_sec` returns -1.
* Drawing, HGE, and the ship classes of the game this one was made from, which nothing
  uses.
* Handlers that nothing reaches: CLOSEREDY entries, SendPacketToAllExcept,
  CloseSession; the server's handler of the client's Disconnect packet reads it and
  does nothing.
* A crash of the server and its restart: nothing is persisted, and clients do not
  connect again.

## Plan

1. *(done)* Netcode with `InputLog`, then Sessions with `SlotTable`, ProcessList,
   Lobby, Combat, Framing, ClientApp; `NetcodeProofs`.
2. *(done)* Motion, Wire beside Framing, Startup around Lobby.
3. *(done)* Proofs: every invariant and action property of the runs but
   `PacketsAgree`; the refinements of `InputLog`, `SlotTable` and, by `Framing` and
   `ProcessList`, of `PacketQueue`; that of `Lobby` by `Startup`.
4. *(done in part)* Composition of the way of a packet with what is at its ends:
   `PacketQueue` is proved of both parts of the way and taken for undisturbed by the
   others. Left: `Lobby` over a disturbed one, so that a lost entry is a lost answer.
