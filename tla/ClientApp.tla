----------------------------- MODULE ClientApp ------------------------------
(***************************************************************************)
(* The client's application thread in the menu and in play                 *)
(* (Application::Update, ProcessPacket): aiming with prediction and        *)
(* reconciliation, shooting with its cooldown and the latch missile_shot,  *)
(* and what packets make of the player and of the missiles it shows.       *)
(*                                                                         *)
(* One Update is two kinds of steps: ProcessPacket takes one packet at a   *)
(* time (Receive), the rest is PlayUpdate or MenuUpdate.                   *)
(*                                                                         *)
(* Abstractions.  The server is one tank that has entered, its turret      *)
(* queue, its missiles and the tick.  Movement inputs travel beside the    *)
(* turret inputs and are in Netcode, the lists of other players in Lobby.  *)
(* An angle is the sequence id of the input it came with, -1 before any.   *)
(* Time is counted in units, and timers stop where only "long enough" is   *)
(* asked of them.  Smoothing (key 3) and what is only displayed (active,   *)
(* hp and score of a TankState packet, respawn_timer) are left out.  A     *)
(* mechanism's button does what its key does.  turret_input_queue is a     *)
(* std::queue without a lock that the main thread pushes to while the game *)
(* thread takes its front and pops: each of them is one step here, as if   *)
(* the queue were atomic.                                                  *)
(***************************************************************************)
EXTENDS Integers, Sequences, FiniteSets

CONSTANTS
    MaxInputs,      \* bound: turret inputs sent
    MaxMissiles,    \* bound: shots
    MaxStarts,      \* bound: clicks on Start by other players
    MaxFlight,      \* bound: packets on the way when a tick starts
    Cooldown,       \* MISSILE_COOLDOWN
    SendAfter,      \* 10 ms in send_packet_movement
    MaxFrame        \* longest frame; HGE cuts the time between two frames

(* A frame is much shorter than the cooldown. *)
ASSUME TimeAssumption ==
    /\ MaxInputs \in Nat \ {0} /\ MaxMissiles \in Nat /\ MaxStarts \in Nat
    /\ MaxFlight \in Nat /\ SendAfter \in Nat /\ MaxFrame \in Nat \ {0}
    /\ Cooldown \in Nat /\ MaxFrame + SendAfter < Cooldown

Ids      == 0 .. MaxInputs - 1
Angles   == Ids \cup {-1}
Missiles == 1 .. MaxMissiles
Keys     == {"1", "2"}

VARIABLES
    \* application
    game,           \* "menu" or "play"
    missileShot,    \* player.missile_shot
    cooldown,       \* missile_cooldown
    sinceSent,      \* timer_net_movement_update
    prediction, reconciliation,     \* isMechanism
    nextId,         \* currTurrSequenceID
    queued,         \* QueuedPlayerTurret, by sequence_id
    serverAim,      \* player.server_turret_rot
    aim,            \* player.client_turret_rot
    shown,          \* Application::missiles: id -> "none", "alive", "dead", or
                    \* "late": alive, though the packet said it is dead
    \* server
    waiting,        \* turret_input_queue
    latest,         \* latest_turret_seq_ID
    rotation,       \* turret_rotation
    fired,          \* missiles fired so far
    flight,         \* missile -> "none", "alive", "dead" or "erased"
    \* network and the lists behind it
    toServer, toClient,
    \* history
    pressed,        \* shots the player has been granted
    unreconciled,   \* an update was taken without reconciliation
    starts

mechanism == <<prediction, reconciliation>>
player == <<game, missileShot, cooldown, sinceSent, mechanism, nextId>>
client == <<player, queued, serverAim, aim, shown>>
server == <<waiting, latest, rotation, fired, flight>>
history == <<pressed, unreconciled, starts>>
vars == <<client, server, toServer, toClient, history>>

Turret(id, shot) == [type |-> "turret", id |-> id, shot |-> shot]
Start            == [type |-> "start"]

Inputs  == [type : {"turret"}, id : Ids, shot : BOOLEAN]
Updates == [type : {"turret"}, id : Ids, angle : Angles]
           \cup [type : {"missile"}, missile : Missiles, alive : BOOLEAN]

TypeOK ==
    /\ game \in {"menu", "play"} /\ missileShot \in BOOLEAN
    /\ prediction \in BOOLEAN /\ reconciliation \in BOOLEAN
    /\ unreconciled \in BOOLEAN
    /\ cooldown \in 0 .. Cooldown /\ sinceSent \in 0 .. SendAfter + 1
    /\ nextId \in 0 .. MaxInputs /\ queued \in Seq(Ids)
    /\ serverAim \in Angles /\ aim \in Angles /\ rotation \in Angles
    /\ shown \in [{0} \cup Missiles -> {"none", "alive", "dead", "late"}]
    /\ waiting \in Seq(Inputs) /\ latest \in Ids
    /\ toServer \in Seq(Inputs \cup {Start})
    /\ toClient \in Seq(Updates \cup {Start})
    /\ fired \in 0 .. MaxMissiles /\ pressed \in 0 .. MaxMissiles
    /\ flight \in [Missiles -> {"none", "alive", "dead", "erased"}]
    /\ starts \in 0 .. MaxStarts

Init ==
    /\ game = "menu" /\ missileShot \in BOOLEAN
    /\ cooldown = Cooldown /\ sinceSent = 0
    /\ prediction = TRUE /\ reconciliation = TRUE
    /\ nextId = 0 /\ queued = <<>> /\ serverAim = -1 /\ aim = -1
    /\ shown = [m \in {0} \cup Missiles |-> "none"]
    /\ waiting = <<>> /\ latest = 0 /\ rotation = -1
    /\ fired = 0 /\ flight = [m \in Missiles |-> "none"]
    /\ toServer = <<>> /\ toClient = <<>>
    /\ pressed = 0 /\ unreconciled = FALSE /\ starts = 0

-----------------------------------------------------------------------------
(* Application::Update after ProcessPacket. *)

AtMost(bound, n) == IF n < bound THEN n ELSE bound

Charged(d) == AtMost(Cooldown, cooldown + d)
Elapsed(d) == AtMost(SendAfter + 1, sinceSent + d)

MenuUpdate ==
    /\ game = "menu"
    /\ \E d \in 1 .. MaxFrame : /\ cooldown' = Charged(d)
                                /\ sinceSent' = Elapsed(d)
    /\ UNCHANGED <<game, missileShot, mechanism, nextId, queued, serverAim, aim, shown,
                   server, toServer, toClient, history>>

(* Key 1, then key 2: reconciliation goes off with prediction, prediction  *)
(* comes on with reconciliation.                                           *)
Switches(keys) ==
    LET predicts   == prediction # ("1" \in keys)
        reconciles == reconciliation /\ predicts
    IN  /\ reconciliation' = (reconciles # ("2" \in keys))
        /\ prediction' = (predicts \/ ("2" \in keys /\ reconciliation'))

(* Prediction shows the angle of the newest input in the queue. *)
Aim == aim' = IF prediction' /\ queued # <<>> THEN queued[Len(queued)]
                                              ELSE serverAim

(* (mutant) a frame without a shot resets the latch (application.cpp:409)  *)
OnlyNow(start, shoots) == shoots

(* The click on Start clears missile_shot, a shot sets it. *)
Latched(start, shoots) == (missileShot /\ ~start) \/ shoots

(* send_packet_movement sends when more than 10 ms have passed. *)
Sends(d) == Elapsed(d) > SendAfter

PlayUpdate(d, start, space, keys) ==
    LET shoots == space /\ Charged(d) = Cooldown
        input  == IF Sends(d) THEN <<Turret(nextId, Latched(start, shoots))>>
                              ELSE <<>>
    IN  /\ game = IF start THEN "menu" ELSE "play"
        /\ Sends(d) \/ shoots => nextId < MaxInputs
        /\ shoots => pressed < MaxMissiles
        /\ game' = "play"
        /\ Switches(keys)
        /\ Aim
        /\ cooldown' = IF shoots THEN 0 ELSE Charged(d)
        /\ pressed' = IF shoots THEN pressed + 1 ELSE pressed
        /\ missileShot' = (Latched(start, shoots) /\ ~Sends(d))
        /\ sinceSent' = IF Sends(d) THEN 0 ELSE Elapsed(d)
        /\ nextId' = nextId + Len(input)
        /\ queued' = IF Sends(d) THEN Append(queued, nextId) ELSE queued
        /\ toServer' = toServer \o (IF start THEN <<Start>> ELSE <<>>) \o input
        /\ UNCHANGED <<serverAim, shown, server, toClient, unreconciled, starts>>

Play == \E d \in 1 .. MaxFrame, start, space \in BOOLEAN, keys \in SUBSET Keys :
            PlayUpdate(d, start, space, keys)

-----------------------------------------------------------------------------
(* ProcessPacket, one packet per step. *)

Receives(type) == /\ toClient # <<>> /\ Head(toClient).type = type
                  /\ toClient' = Tail(toClient)

(* (mutant) one input too many *)
OvertakenAndNext(seq, n) == /\ n \in 0 .. Len(queued)
                            /\ \A k \in 1 .. n : queued[k] <= seq + 1
                            /\ n < Len(queued) => queued[n + 1] > seq + 1

(* The loop pops n inputs, those the update has overtaken.  Without        *)
(* reconciliation, when it meets the input seq, it keeps that alone.       *)
Overtaken(seq, n) == /\ n \in 0 .. Len(queued)
                     /\ \A k \in 1 .. n : queued[k] <= seq
                     /\ n < Len(queued) => queued[n + 1] > seq

Discard(seq, n) == IF ~reconciliation /\ \E k \in 1 .. n : queued[k] = seq
                   THEN <<seq>>
                   ELSE SubSeq(queued, n + 1, Len(queued))

UpdateTankTurret ==
    /\ Receives("turret")
    /\ \E n \in 0 .. Len(queued) : /\ Overtaken(Head(toClient).id, n)
                                   /\ queued' = Discard(Head(toClient).id, n)
    /\ serverAim' = Head(toClient).angle
    /\ unreconciled' = (unreconciled \/ ~reconciliation)
    /\ UNCHANGED <<player, aim, shown, server, toServer, pressed, starts>>

(* An entry is created alive, whatever the packet says. *)
ShownAfter(seen, alive) ==
    IF seen = "none" THEN IF alive THEN "alive" ELSE "late"
                     ELSE IF alive THEN "alive" ELSE "dead"

UpdateMissile ==
    /\ Receives("missile")
    /\ LET m == Head(toClient).missile
       IN  shown' = [shown EXCEPT ![m] = ShownAfter(@, Head(toClient).alive)]
    /\ UNCHANGED <<player, queued, serverAim, aim, server, toServer, history>>

(* ClickedStart changes other players only, but its case goes on into that *)
(* of UpdateMissile, which reads zeros behind the packet: missile 0, dead. *)
ClickedStart ==
    /\ Receives("start")
    /\ shown' = [shown EXCEPT ![0] = ShownAfter(@, FALSE)]
    /\ UNCHANGED <<player, queued, serverAim, aim, server, toServer, history>>

Receive == UpdateTankTurret \/ UpdateMissile \/ ClickedStart

-----------------------------------------------------------------------------
(* Server. *)

ServerReceives(type) == /\ toServer # <<>> /\ Head(toServer).type = type
                        /\ toServer' = Tail(toServer)

ReceiveStart ==
    /\ ServerReceives("start")
    /\ toClient' = Append(toClient, Start)
    /\ UNCHANGED <<client, server, history>>

OtherStarts ==
    /\ starts < MaxStarts
    /\ starts' = starts + 1
    /\ toClient' = Append(toClient, Start)
    /\ UNCHANGED <<client, server, toServer, pressed, unreconciled>>

ReceiveTurret ==
    /\ ServerReceives("turret")
    /\ waiting' = Append(waiting, Head(toServer))
    /\ UNCHANGED <<client, latest, rotation, fired, flight, toClient, history>>

(* (mutant) every input fires *)
AlwaysShoots(input) == TRUE

Shoots(input) == input.shot

(* One turn of the loop over turret_input_queue. *)
ApplyTurret ==
    /\ waiting # <<>>
    /\ waiting' = Tail(waiting)
    /\ rotation' = Head(waiting).id
    /\ latest' = Head(waiting).id
    /\ IF Shoots(Head(waiting))
       THEN /\ fired' = fired + 1
            /\ flight' = [flight EXCEPT ![fired'] = "alive"]
       ELSE UNCHANGED <<fired, flight>>
    /\ UNCHANGED <<client, toServer, toClient, history>>

MissileEnds(m) ==
    /\ flight[m] = "alive"
    /\ flight' = [flight EXCEPT ![m] = "dead"]
    /\ UNCHANGED <<client, waiting, latest, rotation, fired, toServer, toClient, history>>

(* (mutants) one entry too many; only missiles that fly are announced *)
AnnouncesOneMore == {m \in Missiles : flight[m] \in {"alive", "dead"}
                                        \/ m = fired + 1}
AnnouncesFlying == {m \in Missiles : flight[m] = "alive"}

Announces == {m \in Missiles : flight[m] \in {"alive", "dead"}}

Announcement(m) ==
    IF m \in Announces THEN <<[type |-> "missile", missile |-> m,
                               alive |-> flight[m] = "alive"]>>
                       ELSE <<>>
Announced == LET upTo[m \in 0 .. MaxMissiles] ==
                     IF m = 0 THEN <<>> ELSE upTo[m - 1] \o Announcement(m)
             IN  upTo[MaxMissiles]

(* The packets of one tick; the missiles that have ended are erased. *)
Tick ==
    /\ Len(toClient) <= MaxFlight
    /\ toClient' = Append(toClient, [type |-> "turret", id |-> latest,
                                     angle |-> rotation]) \o Announced
    /\ flight' = [m \in Missiles |->
                     IF flight[m] = "dead" THEN "erased" ELSE flight[m]]
    /\ UNCHANGED <<client, waiting, latest, rotation, fired, toServer, history>>

Main == ReceiveStart \/ ReceiveTurret

Next == \/ MenuUpdate \/ Play \/ Receive
        \/ Main \/ OtherStarts
        \/ ApplyTurret \/ Tick
        \/ \E m \in Missiles : MissileEnds(m)

Spec == Init /\ [][Next]_vars

(* HGE calls Update again and again, and the server's threads go on.       *)
(* Nobody has to click on Start or to shoot.                               *)
Fairness == /\ WF_vars(Play /\ game = "play") /\ WF_vars(Receive)
            /\ WF_vars(Main) /\ WF_vars(ApplyTurret) /\ WF_vars(Tick)

FairSpec == Spec /\ Fairness

-----------------------------------------------------------------------------
(***************************************************************************)
(* Reconciliation never runs without prediction, whatever sequence of keys *)
(* switched them (application.cpp:245-266).                                *)
(***************************************************************************)
ReconciliationPredicts == reconciliation => prediction

(***************************************************************************)
(* Every shot the player has been granted is a missile or one on its way,  *)
(* exactly once: missile_shot outlives the frames that send nothing and is *)
(* taken by the first packet, and the next shot is granted only after that *)
(* (application.cpp:404-424, send_packet.cpp:69-77, main.cpp:148-166).     *)
(***************************************************************************)
Shots(inputs) == Cardinality({k \in 1 .. Len(inputs) :
                                  inputs[k].type = "turret" /\ inputs[k].shot})

ShotsAccounted ==
    game = "play" =>
        pressed = fired + Shots(waiting) + Shots(toServer)
                        + (IF missileShot THEN 1 ELSE 0)

(* Nothing is sent from the menu. *)
Fresh ==
    game = "menu" => /\ pressed = 0 /\ fired = 0 /\ nextId = 0 /\ queued = <<>>
                     /\ waiting = <<>> /\ toServer = <<>>

(* The latch is taken by the next packet before another shot is ready.     *)
Cooling ==
    game = "play" /\ missileShot => cooldown <= sinceSent /\ sinceSent <= SendAfter

Numbered == \A m \in Missiles : flight[m] = "none" <=> m > fired

(* Inputs reach the server in the order of their ids. *)
Ordered ==
    /\ latest > 0 => latest < nextId
    /\ \A k \in DOMAIN waiting :
          /\ latest <= waiting[k].id /\ waiting[k].id < nextId
          /\ \A j \in 1 .. k - 1 : waiting[j].id <= waiting[k].id
    /\ \A k \in DOMAIN toServer : toServer[k].type = "turret" =>
          /\ latest <= toServer[k].id /\ toServer[k].id < nextId
          /\ \A j \in DOMAIN waiting : waiting[j].id <= toServer[k].id
          /\ \A j \in 1 .. k - 1 :
                toServer[j].type = "turret" => toServer[j].id <= toServer[k].id

(* Its answers come in that order, each with the angle of its input. *)
Answered ==
    /\ rotation = latest \/ (latest = 0 /\ rotation = -1)
    /\ \A k \in DOMAIN toClient : toClient[k].type = "turret" =>
          /\ toClient[k].id <= latest
          /\ toClient[k].angle = toClient[k].id
                \/ (toClient[k].id = 0 /\ toClient[k].angle = -1)
          /\ \A j \in 1 .. k - 1 :
                toClient[j].type = "turret" => toClient[j].id <= toClient[k].id

(* With reconciliation the newest input is in the queue until the server's *)
(* angle is the same, and then every answer on its way says so.            *)
Pointing ==
    ~unreconciled =>
        /\ queued # <<>> => queued[Len(queued)] = nextId - 1
        /\ queued = <<>> /\ nextId > 1 =>
              /\ serverAim = nextId - 1 /\ latest = nextId - 1
              /\ \A k \in DOMAIN toClient : toClient[k].type = "turret" =>
                    toClient[k].id = nextId - 1

(***************************************************************************)
(* The client keeps its types, its switches in step and account of the     *)
(* shots, and inputs and answers keep the order that prediction goes by    *)
(* (application.cpp:171-428).                                              *)
(***************************************************************************)
ClientInv == /\ TypeOK /\ ReconciliationPredicts /\ ShotsAccounted
             /\ Fresh /\ Cooling /\ Numbered /\ Ordered /\ Answered /\ Pointing

(***************************************************************************)
(* With prediction the turret points where the player last sent it to:     *)
(* reconciliation may discard that input only when the server's angle is   *)
(* the same.  Excepted are the first input, which an update that           *)
(* acknowledges nothing discards as well, and players that have played     *)
(* without reconciliation (application.cpp:367-379,                        *)
(* process_packet.cpp:237-257).                                            *)
(***************************************************************************)
AimIsNewest ==
    [][Play /\ prediction' /\ ~unreconciled /\ nextId > 1
          => aim' = nextId - 1]_vars

(***************************************************************************)
(* A missile that is drawn, or is on its way to be drawn, although the     *)
(* server has erased it will be removed by a packet that comes after,      *)
(* unless the client first heard of it when it was dead                    *)
(* (process_packet.cpp:298-318, main.cpp:202-218).                         *)
(***************************************************************************)
Says(k, m) == toClient[k].type = "missile" /\ toClient[k].missile = m
EndOnItsWay ==
    \A m \in Missiles : flight[m] = "erased" =>
        /\ shown[m] = "alive" =>
              \E k \in DOMAIN toClient : Says(k, m) /\ ~toClient[k].alive
        /\ \A j \in DOMAIN toClient : Says(j, m) /\ toClient[j].alive =>
              \E k \in DOMAIN toClient : k > j /\ Says(k, m) /\ ~toClient[k].alive

(***************************************************************************)
(* The client has, and hears of, no missile that the server has not fired, *)
(* but for one: missile 0, which the case of CLICKSTART makes when it goes *)
(* on into that of MISSILE (process_packet.cpp:83-87), once somebody       *)
(* clicked on Start.                                                       *)
(***************************************************************************)
SomebodyStarted == game = "play" \/ starts > 0
ShownWereFired ==
    /\ \A m \in DOMAIN shown :
          shown[m] # "none" => m \in 1 .. fired \/ (m = 0 /\ SomebodyStarted)
    /\ \A k \in DOMAIN toClient :
          /\ toClient[k].type = "missile" => toClient[k].missile <= fired
          /\ toClient[k].type = "start" => SomebodyStarted

(***************************************************************************)
(* Every shot becomes a missile.                                           *)
(***************************************************************************)
ShotsFire == \A n \in Missiles : pressed >= n ~> fired >= n
=============================================================================
