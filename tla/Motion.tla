------------------------------- MODULE Motion -------------------------------
(***************************************************************************)
(* Where things are and where they are drawn: GameUpdate moves tanks and   *)
(* missiles and sends their positions, a client blends what it draws from  *)
(* what it was told (Movable::Update, Tank::Update) or, for its own tank,  *)
(* replays its inputs on top of it and smooths (Application::Update).      *)
(*                                                                         *)
(* One thing moves along one axis.  It is, for the whole behaviour,        *)
(*                                                                         *)
(*   "hull"     another player's tank,                                     *)
(*   "turret"   the angle of its turret: the same blending, with the same  *)
(*              ratio, but announced by a packet of its own,               *)
(*   "missile"  a missile, which flies by the server's clock towards a     *)
(*              tank that stands in its way,                               *)
(*   "own"      the player's tank.                                         *)
(*                                                                         *)
(* Abstractions.  Coordinates and times are integers; a blended value is   *)
(* rounded towards the server's.  The velocity that is sent for a tank is  *)
(* a direction of length one (main.cpp:93, without TANK_MOV_SPEED): what a *)
(* client extrapolates with it, one pixel per second, is taken for         *)
(* nothing.  While a tank is inactive its Update is not called: a stretch  *)
(* without frames.  Reconciliation is on, and the player is past the first *)
(* acknowledgement (ClientApp and Netcode have the other cases).  The      *)
(* clocks of client and server are not related.  Which input finds the own *)
(* tank mortally hit is chosen when the input is made (fatal); nothing     *)
(* looks at the choice before the server applies the input.                *)
(***************************************************************************)
EXTENDS Integers, Sequences

CONSTANTS
    Width,          \* CLIENT_SCREEN_WIDTH
    Size,           \* of the sprite
    Moves,          \* what an input may move a tank by: its throttle for its
                    \* frametime, which is all the time since the input before,
                    \* and for the first since the start of the process
    Speed,          \* MISSILE_SPEED: distance in a unit of time
    Reach,          \* of a hit: the sum of the radii of tank and missile
    Second,         \* how far CheckCollision looks ahead
    FrameTime,      \* frame_time of GameUpdate
    TickRate,       \* tickrate of GameUpdate
    Reads,          \* what may pass between two reads of its timer
    TimeDeltas,     \* HGE's timedelta
    Blending,       \* the time in which the ratio goes from 0 to 1
    MaxFlight,      \* bound: ticks in flight, then send() waits
    MaxInputs,      \* bound: sequence ids of the player's inputs
    Beyond          \* bound: how far tanks and missiles are followed

ASSUME MotionAssumption ==
    /\ Width \in Nat \ {0} /\ Size \in Nat /\ Size % 2 = 0
    /\ Moves \subseteq Int /\ Speed \in Nat \ {0}
    /\ Reach \in Nat /\ Second \in Nat /\ Reach <= Speed * Second
    /\ FrameTime \in Nat /\ TickRate \in Nat /\ FrameTime < TickRate
    /\ Reads \subseteq Nat /\ \E d \in Reads : d > 0
    /\ TimeDeltas \subseteq Nat \ {0} /\ Blending \in Nat \ {0}
    /\ \E d \in TimeDeltas : \A e \in TimeDeltas : e <= d
    /\ MaxFlight \in Nat \ {0} /\ MaxInputs \in Nat /\ Beyond >= Width

Half      == Size \div 2
Home      == Width \div 2           \* where a tank starts and comes back
Positions == -Half .. Width + Half  \* of a tank, on the server
TooFar(m) == m \notin -(Width + Size) .. Width + Size   \* for one wrap

Input  == [id : 1 .. MaxInputs, move : Moves, fatal : BOOLEAN]
Packet == [type : {"movement", "turret", "missile"}, at : Int,
           alive : BOOLEAN, seq : 0 .. MaxInputs]

VARIABLES
    kind,           \* what it is
    \* server
    pos, life,      \* "alive", "dead" (missile.alive = false), "erased"
    inputs, latest, \* input_queue and latest_sequence_ID of the own tank
    respawning,     \* it is not active and its respawn_timer runs
    target,         \* where the tank in the way of the missile stands
    timer,          \* time towards the next frame
    serverTimer,    \* server_timer: time towards the next tick
    at,             \* which read of the timer is next, and after what
    \* network
    packets,        \* from the server to the client
    \* client
    interpolate,    \* isMechanism[MCH_INTERPOLATE]
    shown,          \* "unknown", "alive", "dead": the client's missile
    drawn,          \* the Movable
    queue,          \* QueuedPlayerMovements
    nextId,         \* currSequenceID
    \* history
    rebased,        \* the last update was blended in from what was drawn
    half,           \* "waiting": a TankMovement was read, the TankTurret of
                    \* the same tick not; "drawn": and a frame was drawn
                    \* meanwhile; "no": neither
    skipped,        \* the missile was not tested when it was in reach
    strayed         \* an input has moved the tank too far for one wrap

serverVars == <<pos, life, inputs, latest, respawning, target, timer, serverTimer,
                at, skipped, strayed>>
history    == <<rebased, half>>
clientVars == <<interpolate, shown, drawn, queue, nextId, history>>
vars == <<kind, serverVars, packets, clientVars>>

Movable == [server : Int, serverVelocity : Int, client : Int,
            velocity : Int, x : Int, ratio : 0 .. Blending]

(* One wrap brings a tank back to the screen, or half a sprite from it. *)
TankPlaces == IF strayed THEN Int ELSE Positions

TypeOK ==
    /\ kind \in {"hull", "turret", "missile", "own"}
    /\ kind \in {"hull", "own"} => pos \in TankPlaces
    /\ kind = "turret" => pos \in 0 .. Width
    /\ kind = "missile" => pos \in Nat
    /\ life \in {"alive", "dead", "erased"}
    /\ inputs \in Seq(Input) /\ latest \in 0 .. MaxInputs
    /\ target \in 0 .. Width /\ skipped \in BOOLEAN
    /\ respawning \in BOOLEAN /\ strayed \in BOOLEAN
    /\ timer \in 0 .. FrameTime /\ serverTimer \in 0 .. TickRate
    /\ at \in {"frame", "tick", "tick_after_frame"}
    /\ packets \in Seq(Packet)
    /\ interpolate \in BOOLEAN /\ shown \in {"unknown", "alive", "dead"}
    /\ drawn \in Movable
    /\ queue \in Seq(Input) /\ nextId \in 1 .. MaxInputs + 1
    /\ rebased \in BOOLEAN /\ half \in {"no", "waiting", "drawn"}

(* The constructors put a tank in the middle of the screen; NewClient then *)
(* sets where it is drawn, and nothing else.  Interpolation is on.         *)
Init ==
    /\ kind \in {"hull", "turret", "missile", "own"}
    /\ pos = IF kind = "missile" THEN 0 ELSE Home
    /\ life = "alive" /\ inputs = <<>> /\ latest = 0
    /\ target \in IF kind = "missile" THEN 0 .. Width ELSE {Home}
    /\ skipped = FALSE /\ strayed = FALSE /\ respawning = FALSE
    /\ timer = 0 /\ serverTimer = 0 /\ at = "frame"
    /\ packets = <<>> /\ interpolate = TRUE
    /\ shown = IF kind = "missile" THEN "unknown" ELSE "alive"
    /\ drawn \in {[server |-> Home, serverVelocity |-> 0, client |-> Home,
                   velocity |-> 0, x |-> p, ratio |-> Blending] :
                      p \in IF kind = "hull" THEN Positions ELSE {Home}}
    /\ queue = <<>> /\ nextId = 1
    /\ rebased = FALSE /\ half = "no"

-----------------------------------------------------------------------------
(* The server.  GameUpdate reads one timer twice in a turn of its loop;    *)
(* each read returns what has passed since the other one, so what passes   *)
(* between them counts for the frames or for the ticks, never for both.    *)

Distance(a, b) == IF a >= b THEN a - b ELSE b - a

Wrap(p) == IF p > Width + Half THEN p - (Width + Size)
           ELSE IF p < -Half THEN p + (Width + Size) ELSE p
Drive(p, i) == IF i.fatal THEN Home ELSE Wrap(p + i.move)
DriveAll(p, in) ==
    LET after[n \in 0 .. Len(in)] ==
            IF n = 0 THEN p ELSE Drive(after[n - 1], in[n])
    IN  after[Len(in)]

(* (mutant) the relative velocity taken the other way round *)
Behind(missile, tank) == missile - tank

Ahead(missile, tank) == tank - missile

(* Collision::CheckCollision on one line: in reach, and nearest to the     *)
(* tank within the second that follows, so a missile that has passed the   *)
(* middle of the tank does not hit it any more.                            *)
CheckCollision(missile, tank) ==
    /\ Distance(missile, tank) <= Reach
    /\ Ahead(missile, tank) \in 0 .. Speed * Second

(* A frame applies the inputs it finds, and a hit may send the tank home.  *)
(* The test is part of applying an input: without one the tank in the way  *)
(* is not hit.  Then missiles fly for the time that has gathered; the dead *)
(* ones fly on until the tick that erases them.                            *)
Fly(time, tested) ==
    LET close == life = "alive" /\ CheckCollision(pos, target)
        hit   == tested /\ close
    IN  /\ pos' = pos + Speed * time
        /\ life' = IF hit \/ pos' > Width THEN "dead" ELSE life
        /\ skipped' = (\/ skipped \/ (close /\ ~tested)
                       \/ (pos + Reach < target /\ pos' > target))

MoveHull ==
    /\ kind = "hull"
    /\ \E m \in Moves : /\ pos' \in {Wrap(pos + m), Home}
                        /\ strayed' = (strayed \/ TooFar(m))
    /\ pos' \in -Beyond .. Beyond
    /\ UNCHANGED <<life, inputs, latest, respawning, skipped>>

(* The inputs behind a fatal one go on from home; while the tank waits to  *)
(* respawn its inputs wait as well.                                        *)
MoveOwn ==
    /\ kind = "own" /\ UNCHANGED <<life, skipped>>
    /\ IF respawning
       THEN /\ respawning' \in BOOLEAN
            /\ UNCHANGED <<pos, inputs, latest, strayed>>
       ELSE /\ pos' = DriveAll(pos, inputs) /\ inputs' = <<>>
            /\ latest' = IF inputs = <<>> THEN latest ELSE inputs[Len(inputs)].id
            /\ respawning' = \E k \in DOMAIN inputs : inputs[k].fatal
            /\ strayed' = (strayed \/ \E k \in DOMAIN inputs : TooFar(inputs[k].move))

Move(time) ==
    \/ MoveHull \/ MoveOwn
    \/ /\ kind = "turret" /\ pos' \in 0 .. Width
       /\ UNCHANGED <<life, inputs, latest, respawning, skipped, strayed>>
    \/ /\ kind = "missile" /\ UNCHANGED <<inputs, latest, respawning, strayed>>
       /\ IF life = "erased" THEN UNCHANGED <<pos, life, skipped>>
                             ELSE \E tested \in BOOLEAN : Fly(time, tested)

ReadForFrame(d) ==
    /\ at = "frame"
    /\ IF timer + d > FrameTime
       THEN timer' = 0 /\ Move(timer + d) /\ at' = "tick_after_frame"
       ELSE timer' = timer + d /\ at' = "tick"
            /\ UNCHANGED <<pos, life, inputs, latest, respawning, skipped, strayed>>
    /\ UNCHANGED <<kind, target, serverTimer, packets, clientVars>>

Update(type) == [type |-> type, at |-> pos, alive |-> life = "alive",
                 seq |-> latest]
Updates == IF kind = "turret" THEN <<Update("movement"), Update("turret")>>
           ELSE IF kind = "missile" THEN <<Update("missile")>>
           ELSE <<Update("movement")>>

Tick ==
    /\ IF life = "erased" THEN UNCHANGED packets
                          ELSE packets' = packets \o Updates
    /\ Len(packets') <= MaxFlight * Len(Updates)
    /\ life' = IF life = "dead" THEN "erased" ELSE life

LastOnly(d) == d                                    \* (mutant)
Gathered(d) == serverTimer + d

(* A frame takes some time, and that counts for the ticks. *)
ReadForTick(d) ==
    /\ at \in {"tick", "tick_after_frame"} /\ at' = "frame"
    /\ at = "tick_after_frame" => d > 0
    /\ IF Gathered(d) > TickRate
       THEN serverTimer' = 0 /\ Tick
       ELSE serverTimer' = Gathered(d) /\ UNCHANGED <<packets, life>>
    /\ UNCHANGED <<kind, pos, inputs, latest, respawning, target, skipped, strayed,
                   timer, clientVars>>

-----------------------------------------------------------------------------
(* The client: what it is told. *)

(* (mutant) the blending goes on where it was. *)
RebaseKeepsRatio(m) ==
    IF ~interpolate THEN m
    ELSE [m EXCEPT !.client = m.x, !.velocity = m.serverVelocity]

(* do_interpolate_update. *)
Rebase(m) ==
    IF ~interpolate THEN m
    ELSE [m EXCEPT !.client = m.x, !.velocity = m.serverVelocity, !.ratio = 0]

Told(type) == /\ packets # <<>> /\ Head(packets).type = type
              /\ packets' = Tail(packets)

UpdateTankMovement ==
    /\ kind \in {"hull", "turret"} /\ Told("movement")
    /\ rebased' = interpolate
    /\ IF kind = "hull"
       THEN /\ drawn' = Rebase([drawn EXCEPT !.server = Head(packets).at])
            /\ UNCHANGED half
       ELSE /\ drawn' = [drawn EXCEPT !.ratio = IF interpolate THEN 0 ELSE @]
            /\ half' = "waiting"
    /\ UNCHANGED <<kind, serverVars, interpolate, shown, queue, nextId>>

UpdateTankTurret ==
    /\ Told("turret")
    /\ drawn' = [drawn EXCEPT !.server = Head(packets).at,
                              !.client = IF interpolate THEN drawn.x ELSE @]
    /\ rebased' = (rebased /\ interpolate)
    /\ half' = IF half = "waiting" THEN "no" ELSE half
    /\ UNCHANGED <<kind, serverVars, interpolate, shown, queue, nextId>>

NewMissile == [server |-> Head(packets).at, serverVelocity |-> 0,
               client |-> Head(packets).at, velocity |-> Speed,
               x |-> Head(packets).at, ratio |-> Blending]

UpdateMissile ==
    /\ Told("missile")
    /\ IF shown = "unknown"
       THEN drawn' = NewMissile /\ shown' = "alive" /\ rebased' = FALSE
       ELSE /\ drawn' = Rebase([drawn EXCEPT !.server = Head(packets).at,
                                             !.serverVelocity = Speed])
            /\ shown' = IF Head(packets).alive THEN "alive" ELSE "dead"
            /\ rebased' = interpolate
    /\ UNCHANGED <<kind, serverVars, interpolate, queue, nextId, half>>

(* (mutant) the acknowledged input itself stays queued. *)
OutdatedBefore(i) == i.id < Head(packets).seq

Outdated(i) == i.id <= Head(packets).seq

UpdateOwnTank ==
    /\ kind = "own" /\ Told("movement")
    /\ \E n \in 0 .. Len(queue) : /\ \A k \in 1 .. n : Outdated(queue[k])
                                  /\ n < Len(queue) => ~Outdated(queue[n + 1])
                                  /\ queue' = SubSeq(queue, n + 1, Len(queue))
    /\ drawn' = [drawn EXCEPT !.server = Head(packets).at]
    /\ UNCHANGED <<kind, serverVars, interpolate, shown, nextId, history>>

-----------------------------------------------------------------------------
(* The client: what it draws. *)

CeilDiv(a, b) == (a + b - 1) \div b
Blend(r, server, client) ==
    IF server >= client
    THEN client + CeilDiv(r * (server - client), Blending)
    ELSE client - CeilDiv(r * (client - server), Blending)

(* Gone off one side and in again on the other. *)
Opposite(server, client) ==
    \/ server < -Half /\ client > Width + Half
    \/ server > Width + Half /\ client < -Half

(* Tank::Update, with the ratio before Movable::Update has let it grow.    *)
Turret(m) == Blend(m.ratio, m.server, m.client)

Smaller(a, b) == IF a <= b THEN a ELSE b

StandsStill(ratio, dt) == ratio                     \* (mutant)
Grown(ratio, dt)       == Smaller(ratio + dt, Blending)

(* Movable::Update.  The ratio grows after it has been used.               *)
Blended(m, dt) ==
    LET server == m.server + m.serverVelocity * dt
        client == m.client + m.velocity * dt
    IN  [m EXCEPT !.server = server, !.client = client,
                  !.x = IF kind = "turret" THEN Turret(m)
                        ELSE IF Opposite(server, client) THEN server
                        ELSE Blend(m.ratio, server, client),
                  !.ratio = Grown(@, dt)]

Frame(dt) ==
    /\ kind # "own" /\ shown = "alive"
    /\ drawn.server <= Beyond /\ drawn.client <= Beyond
    /\ drawn' = Blended(drawn, dt)
    /\ half' = IF half = "waiting" THEN "drawn" ELSE half
    /\ UNCHANGED <<kind, serverVars, packets, interpolate, shown, queue, nextId, rebased>>

(* The player's tank: the queued inputs on top of the server's position.   *)
(* Both edges are the client's own.                                        *)
Replayed(p, i) ==
    LET q == p + i.move
    IN  IF q > Width THEN q - Width ELSE IF q < 0 THEN Width - q ELSE q
Replay(p, in) ==
    LET after[n \in 0 .. Len(in)] ==
            IF n = 0 THEN p ELSE Replayed(after[n - 1], in[n])
    IN  after[Len(in)]

Smooth(from, to) == IF to >= from THEN from + CeilDiv(to - from, 5)
                                  ELSE from - CeilDiv(from - to, 5)

Predict == LET p == Replay(drawn.server, queue)
           IN  [drawn EXCEPT !.client = p,
                   !.x = IF interpolate THEN Smooth(@, p) ELSE p]

(* The frame draws first; its input goes to the server and into the queue. *)
OwnFrame(move, fatal) ==
    /\ kind = "own" /\ nextId <= MaxInputs
    /\ drawn' = Predict
    /\ LET i == [id |-> nextId, move |-> move, fatal |-> fatal]
       IN  queue' = Append(queue, i) /\ inputs' = Append(inputs, i)
    /\ nextId' = nextId + 1
    /\ UNCHANGED <<kind, pos, life, latest, respawning, target, skipped, strayed, timer,
                   serverTimer, at, packets, interpolate, shown, history>>

(* A frame within 10 ms of the last input sends none. *)
OwnFrameOnly ==
    /\ kind = "own" /\ drawn' = Predict
    /\ UNCHANGED <<kind, serverVars, packets, interpolate, shown, queue, nextId, history>>

PressThree ==
    /\ interpolate' = ~interpolate
    /\ UNCHANGED <<kind, serverVars, packets, shown, drawn, queue, nextId, history>>

-----------------------------------------------------------------------------
Loop    == \E d \in Reads : ReadForFrame(d) \/ ReadForTick(d)
Receive == \/ UpdateTankMovement \/ UpdateTankTurret \/ UpdateMissile
           \/ UpdateOwnTank

Next == \/ Loop \/ Receive \/ PressThree \/ OwnFrameOnly
        \/ \E dt \in TimeDeltas : Frame(dt)
        \/ \E m \in Moves, fatal \in BOOLEAN : OwnFrame(m, fatal)

Spec == Init /\ [][Next]_vars

TimePasses == \E d \in Reads \ {0} : ReadForFrame(d) \/ ReadForTick(d)
AnyFrame   == \E dt \in TimeDeltas : Frame(dt)
LaterFrame == drawn.ratio > 0 /\ AnyFrame

(* Time passes between the reads again and again, for the frames or for    *)
(* the ticks; the client reads what arrives and draws; and it draws faster *)
(* than updates come: again and again there is a second frame after one.   *)
Fairness == /\ SF_vars(TimePasses) /\ WF_vars(Receive)
            /\ WF_vars(AnyFrame) /\ SF_vars(LaterFrame)
            /\ WF_vars(OwnFrameOnly)

FairSpec == Spec /\ Fairness

-----------------------------------------------------------------------------
MaxDelta == CHOOSE d \in TimeDeltas : \A e \in TimeDeltas : e <= d

(* Movable.cpp:34-45 and 105-127: an update never makes what is drawn      *)
(* jump.  Since interpolation starts from what is drawn, a frame moves it, *)
(* besides the velocity that client and server share, by at most the part  *)
(* of the gap that one frame of time is worth - also when the update came  *)
(* in the middle of the blending of the one before.  A turret is left out  *)
(* once a frame may fall between the TankMovement that restarts the ratio  *)
(* and the TankTurret that goes with it: it jumps back, and then ahead.    *)
(* So is what is drawn off one side of the screen while the server has it  *)
(* off the other: that is meant to jump.                                   *)
MovesByShare ==
    [][\A dt \in TimeDeltas :
          /\ Frame(dt) /\ rebased /\ half = "no"
          /\ ~Opposite(drawn'.server, drawn'.client)
          => LET flown == drawn'.client - drawn.client
             IN  Distance(drawn'.x, drawn.x + flown)
                   <= CeilDiv(MaxDelta * Distance(drawn.server, drawn.client),
                              Blending)]_vars

(* What a client draws of a tank or a turret is where it is on the server, *)
(* once that has stopped, its inputs are used up and the player leaves the *)
(* switch alone: whatever was blended before, with interpolation on or     *)
(* off, and from wherever the tank was first drawn.  For a turret,         *)
(* provided that frames stop falling between TankMovement and TankTurret:  *)
(* they share one ratio, and each time the turret jumps back.              *)
Settled   == <>[][/\ pos' = pos /\ inputs' = <<>> /\ half' # "drawn"
                  /\ interpolate' = interpolate]_vars
CatchesUp == kind # "missile" /\ Settled => <>[](drawn.x = pos)

(* application.cpp:281-313 against main.cpp:85-147: with the inputs that   *)
(* were not acknowledged, the client predicts where the server's inputs    *)
(* will take the tank.  At the edges of the screen the two disagree, and   *)
(* of a death the client learns with the acknowledgement of the input it   *)
(* came with: so only while no input takes the tank over an edge or is     *)
(* fatal to it.                                                            *)
Inside(p, in) ==
    \A n \in 1 .. Len(in) :
        /\ ~in[n].fatal
        /\ DriveAll(p, SubSeq(in, 1, n - 1)) + in[n].move \in 0 .. Width
PredictsServer ==
    kind = "own" /\ Inside(drawn.server, queue)
    => Replay(drawn.server, queue) = DriveAll(pos, inputs)

(* Nothing is sent or drawn towards a place where it cannot be. *)
Place == CASE kind = "missile" -> Nat [] kind = "turret" -> 0 .. Width
           [] OTHER -> TankPlaces
Places == /\ drawn.server \in Place
          /\ \A k \in DOMAIN packets : packets[k].at \in Place
          /\ kind = "missile" => /\ drawn.client \in Nat /\ drawn.x \in Nat
                                 /\ drawn.serverVelocity \in Nat
                                 /\ drawn.velocity \in Nat
          /\ kind # "missile" => drawn.serverVelocity = 0 /\ drawn.velocity = 0

(* A tick sends two packets for a turret, and the client reads both. *)
Paired ==
    /\ \A k \in DOMAIN packets :
          packets[k].type = CASE kind = "missile" -> "missile"
                              [] kind = "turret" /\ (Len(packets) - k) % 2 = 0
                                  -> "turret"
                              [] OTHER -> "movement"
    /\ kind = "turret" => /\ half = "no" => Len(packets) % 2 = 0
                          /\ half = "waiting" => Len(packets) % 2 = 1
    /\ kind # "turret" => half = "no"

(* What is drawn is a blend with a ratio of at most one frame ago, unless  *)
(* it jumped from one side to the other.                                   *)
Blends ==
    rebased =>
        /\ kind # "own" /\ drawn.velocity = drawn.serverVelocity
        /\ half = "waiting" => drawn.ratio = 0
        /\ half = "no" /\ ~Opposite(drawn.server, drawn.client)
           => \E r \in 0 .. drawn.ratio :
                 /\ \E d \in TimeDeltas : drawn.ratio - r <= d
                 /\ drawn.x = Blend(r, drawn.server, drawn.client)

(* The player's tank has one way: what the server has applied of it comes  *)
(* before what it has not, and each position sent is a place on it.        *)
Acknowledged == nextId - 1 - Len(queue)
After(n)     == DriveAll(drawn.server, SubSeq(queue, 1, n))
OnOneWay ==
    kind = "own" =>
        /\ \A k \in DOMAIN queue : queue[k].id = Acknowledged + k
        /\ latest \in Acknowledged .. nextId - 1
        /\ pos = After(latest - Acknowledged)
        /\ Len(inputs) = nextId - 1 - latest
        /\ \A k \in DOMAIN inputs : inputs[k] = queue[latest - Acknowledged + k]
        /\ \A k \in DOMAIN packets :
              /\ packets[k].seq \in Acknowledged .. latest
              /\ packets[k].at = After(packets[k].seq - Acknowledged)
              /\ \A j \in 1 .. k - 1 : packets[j].seq <= packets[k].seq

(* Everything keeps its type - a tank its place on the screen or half a    *)
(* sprite outside, until an input moves it by more than one wrap can undo, *)
(* a ratio its range -, the blending its state, and the client its         *)
(* prediction (main.cpp:136-144, Movable.cpp:34-45, 122-127).              *)
MotionInv == /\ TypeOK /\ Places /\ Paired /\ Blends /\ OnOneWay
             /\ PredictsServer

(* main.cpp:66-221: updates go out again and again, although a tick only   *)
(* gets the time that its frames leave.                                    *)
TickIsDue(d) == ReadForTick(d) /\ Gathered(d) > TickRate
TicksRecur   == []<><<\E d \in Reads : TickIsDue(d)>>_vars

(* collision.cpp:4-23, main.cpp:85-122 and 171-180: a missile gets past    *)
(* the middle of a tank only if the tank had no input to apply in a frame  *)
(* that found the missile in reach, or if a frame was so long that the     *)
(* missile crossed the reach in it.                                        *)
HitUnlessSkipped ==
    kind = "missile" /\ life = "alive" /\ pos > target => skipped
=============================================================================
