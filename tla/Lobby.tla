------------------------------- MODULE Lobby --------------------------------
(***************************************************************************)
(* How a client gets into the game and how the players learn of each       *)
(* other: several client processes, the slots they are given, and the      *)
(* server's three threads.                                                 *)
(*                                                                         *)
(*   receive thread  gives a connection the lowest free slot and queues    *)
(*                   NEWCONNECTION, queues what it receives, frees slots;  *)
(*   main thread     counts the sessions, answers Welcome or FullGame,     *)
(*                   answers EnterGame with EnterGameOK and the players    *)
(*                   it knows, one after the other;                        *)
(*   game thread     looks, tank after tank, whether tank.client_id still  *)
(*                   is a session, disconnects the tank if not, and then   *)
(*                   announces it.                                         *)
(*                                                                         *)
(* What lies between a look at tank.connected or a write of it and the     *)
(* packet that follows is a step of its own, and so is each packet: the    *)
(* other threads go on in between.                                         *)
(*                                                                         *)
(* Abstractions.  The registry changes in one step (Sessions shows what    *)
(* lies between its writes), client_id and the registry at that index are  *)
(* read in one step, and a packet is sent to its receivers in one step.    *)
(* A client's list of other tanks is the set of their ids.  The            *)
(* 8-byte Disconnect packet arrives as it was meant.  Packets that concern *)
(* tanks and missiles are left out (Netcode).  A connection that finds no  *)
(* free slot is not made (Sessions has that case).                         *)
(***************************************************************************)
EXTENDS Naturals, Sequences, FiniteSets

CONSTANTS
    Clients,        \* client processes, each connects once
    MaxConnection,  \* slots are 0 .. MaxConnection
    MaxPlayers,     \* 3 in main.cpp
    None            \* no client, no id

ASSUME LobbyAssumption ==
    /\ MaxConnection \in Nat /\ MaxPlayers \in Nat \ {0}
    /\ None \notin Clients /\ None \notin 0 .. MaxConnection

Slots == 0 .. MaxConnection
S2C   == [type : {"welcome", "full", "ok", "new", "old", "disconnect"},
          id : Slots]
Entry == [type : {"new", "enter"}, slot : Slots]

VARIABLES
    \* client processes
    state,          \* "outside", "initializing", "menu" or "gone"
    tankId,         \* player.tank_id, None until it is read or written
    roster,         \* ids in Application::clients
    inbox,          \* packets from the server, oldest first
    wire,           \* EnterGame packets on the way to the server
    \* server
    session,        \* slot -> the client that holds it, or None
    events,         \* the process list
    decision,       \* main thread: what it does next, "none" between entries
    enemy,          \* the tank its loop over the older clients is at
    connected,      \* tank.connected
    clientId,       \* tank.client_id
    at, gone,       \* game thread: the tank it is at; "unread", then "yes" if
                    \* CheckIndex found nobody, "sent" with the Disconnect due
    \* history
    held,           \* client -> the slot it was given
    entered,        \* clients that have sent EnterGame
    admitted,       \* clients that were sent a Welcome
    refused,        \* clients that read a FullGame
    told            \* client -> players it was told of since it plays

clientVars == <<state, tankId, roster, entered, refused>>
tankVars   == <<connected, clientId>>
mainVars   == <<decision, enemy>>
gameVars   == <<at, gone>>
serverVars == <<session, events, mainVars, tankVars, gameVars>>
seats      == <<held, admitted>>
history    == <<seats, told>>
vars == <<clientVars, inbox, wire, serverVars, history>>

(* Steps of the main thread in an entry: NEWCONNECTION, and EnterGame. *)
Answers == {"deny", "accept", "welcome", "announce"}
Replies == {"id", "ok", "look", "tell"}

TypeOK ==
    /\ state \in [Clients -> {"outside", "initializing", "menu", "gone"}]
    /\ tankId \in [Clients -> Slots \cup {None}]
    /\ roster \in [Clients -> SUBSET Slots]
    /\ inbox \in [Clients -> Seq(S2C)]
    /\ wire \in [Clients -> Nat]
    /\ session \in [Slots -> Clients \cup {None}]
    /\ events \in Seq(Entry)
    /\ decision \in {"none"} \cup Answers \cup Replies /\ enemy \in Slots
    /\ connected \in [Slots -> BOOLEAN] /\ clientId \in [Slots -> Slots]
    /\ at \in Slots /\ gone \in {"unread", "yes", "sent"}
    /\ held \in [Clients -> Slots \cup {None}]
    /\ entered \in SUBSET Clients /\ admitted \in SUBSET Clients
    /\ refused \in SUBSET Clients
    /\ told \in [Clients -> SUBSET Slots]

Init ==
    /\ state = [c \in Clients |-> "outside"]
    /\ tankId = [c \in Clients |-> None]
    /\ roster = [c \in Clients |-> {}]
    /\ inbox = [c \in Clients |-> <<>>]
    /\ wire = [c \in Clients |-> 0]
    /\ session = [i \in Slots |-> None]
    /\ events = <<>> /\ decision = "none" /\ enemy = 0
    /\ connected = [i \in Slots |-> FALSE]
    /\ clientId = [i \in Slots |-> 0]
    /\ at = 0 /\ gone = "unread"
    /\ held = [c \in Clients |-> None]
    /\ entered = {} /\ admitted = {} /\ refused = {}
    /\ told = [c \in Clients |-> {}]

-----------------------------------------------------------------------------
(* Packets and who gets them: the process that holds the slot, if it is    *)
(* still there.                                                            *)

Packet(t, i)  == [type |-> t, id |-> i]

Listens(c, i) == session[i] = c /\ state[c] # "gone"
Listeners     == {c \in Clients : \E i \in Slots : Listens(c, i)}

SendAll(packet) ==
    inbox' = [c \in Clients |->
                 IF c \in Listeners THEN Append(inbox[c], packet) ELSE inbox[c]]

SendToAnybody(i, packet) == SendAll(packet)     \* (mutant)

SendTo(i, packet) ==
    inbox' = [c \in Clients |->
                 IF Listens(c, i) THEN Append(inbox[c], packet) ELSE inbox[c]]

-----------------------------------------------------------------------------
(* Receive thread, and the clients' side of connecting and leaving. *)

FreeSlots == {i \in Slots : session[i] = None}
Lowest(i) == i \in FreeSlots /\ \A j \in FreeSlots : i <= j

Connect(c) ==
    /\ state[c] = "outside"
    /\ state' = [state EXCEPT ![c] = "initializing"]
    /\ \E i \in Slots :
          /\ Lowest(i)
          /\ session' = [session EXCEPT ![i] = c]
          /\ held' = [held EXCEPT ![c] = i]
          /\ events' = Append(events, [type |-> "new", slot |-> i])
    /\ UNCHANGED <<tankId, roster, entered, refused, inbox, wire, mainVars,
                   tankVars, gameVars, admitted, told>>

Quit(c) ==
    /\ state[c] \in {"initializing", "menu"}
    /\ state' = [state EXCEPT ![c] = "gone"]
    /\ inbox' = [inbox EXCEPT ![c] = <<>>]
    /\ roster' = [roster EXCEPT ![c] = {}]
    /\ tankId' = [tankId EXCEPT ![c] = None]
    /\ told' = [told EXCEPT ![c] = {}]
    /\ UNCHANGED <<entered, refused, wire, serverVars, seats>>

ReceiveEnter(c) ==
    /\ wire[c] > 0 /\ session[held[c]] = c
    /\ wire' = [wire EXCEPT ![c] = @ - 1]
    /\ events' = Append(events, [type |-> "enter", slot |-> held[c]])
    /\ UNCHANGED <<clientVars, inbox, session, mainVars, tankVars, gameVars, history>>

(* recv() tells that the peer has gone; what it had not read by then may   *)
(* be lost.                                                                *)
CloseSession(c) ==
    /\ state[c] = "gone" /\ session[held[c]] = c
    /\ session' = [session EXCEPT ![held[c]] = None]
    /\ wire' = [wire EXCEPT ![c] = 0]
    /\ UNCHANGED <<clientVars, inbox, events, mainVars, tankVars, gameVars, history>>

-----------------------------------------------------------------------------
(* Main thread. *)

ConnectedCount == Cardinality(Slots \ FreeSlots)
TooManyForSlots == ConnectedCount > MaxConnection + 1    \* (mutant)
TooMany     == ConnectedCount > MaxPlayers

AtEntry(type) == events # <<>> /\ Head(events).type = type
Slot          == Head(events).slot

(* The next thing to do in the entry, or DeleteFirstSession. *)
GoOn(step) == /\ decision' = step
              /\ events' = IF step = "none" THEN Tail(events) ELSE events

(* GetConnectedCount is read; the answer is another step. *)
CountSessions ==
    /\ decision = "none" /\ AtEntry("new")
    /\ GoOn(IF TooMany THEN "deny" ELSE "accept")
    /\ UNCHANGED <<clientVars, inbox, wire, session, enemy, tankVars, gameVars, history>>

FullGame ==
    /\ decision = "deny" /\ GoOn("none")
    /\ SendTo(Slot, Packet("full", Slot))
    /\ UNCHANGED <<clientVars, wire, session, enemy, tankVars, gameVars, history>>

(* NewAccept: the tank, the welcome, and what everybody is told. *)
NewAccept ==
    /\ decision = "accept" /\ GoOn("welcome")
    /\ connected' = [connected EXCEPT ![Slot] = TRUE]
    /\ UNCHANGED <<clientVars, inbox, wire, session, enemy, clientId, gameVars, history>>

SendWelcome ==
    /\ decision = "welcome" /\ GoOn("announce")
    /\ SendTo(Slot, Packet("welcome", Slot))
    /\ admitted' = admitted \cup {c \in Clients : Listens(c, Slot)}
    /\ UNCHANGED <<clientVars, wire, session, enemy, tankVars, gameVars, held, told>>

(* Clients whose EnterGameOK is on the way or read: they keep what comes.  *)
Playing(c) == state[c] = "menu" \/ \E k \in DOMAIN inbox[c] :
                                      inbox[c][k].type = "ok"

SendNewClient ==
    /\ decision = "announce" /\ GoOn("none")
    /\ SendAll(Packet("new", Slot))
    /\ told' = [c \in Clients |->
          IF c \in Listeners /\ Playing(c) THEN told[c] \cup {Slot} ELSE told[c]]
    /\ UNCHANGED <<clientVars, wire, session, enemy, tankVars, gameVars, seats>>

(* ReceivedPacketProcess_EnterGame, from its first write to the last of    *)
(* the packets it sends, and what comes after what.                        *)
OthersFirst(step) == CASE step = "id"   -> "look"           \* (mutant)
                       [] step = "look" -> "ok"
                       [] step = "ok"   -> "none"
After(step)       == CASE step = "id"   -> "ok"
                       [] step = "ok"   -> "look"
                       [] step = "look" -> "none"

EnterGame ==
    /\ decision = "none" /\ AtEntry("enter") /\ GoOn("id")
    /\ connected' = [connected EXCEPT ![Slot] = TRUE]
    /\ UNCHANGED <<clientVars, inbox, wire, session, enemy, clientId, gameVars, history>>

SetClientId ==
    /\ decision = "id" /\ GoOn(After("id"))
    /\ clientId' = [clientId EXCEPT ![Slot] = Slot]
    /\ UNCHANGED <<clientVars, inbox, wire, session, enemy, connected, gameVars, history>>

(* Whoever holds the slot now is acknowledged. *)
SendEnterGameOK ==
    /\ decision = "ok" /\ GoOn(After("ok"))
    /\ SendTo(Slot, Packet("ok", Slot))
    /\ UNCHANGED <<clientVars, wire, session, enemy, tankVars, gameVars, history>>

NextEnemy ==
    IF enemy = MaxConnection THEN enemy' = 0 /\ GoOn(After("look"))
                             ELSE enemy' = enemy + 1 /\ GoOn("look")

(* The sender's own tank has its client_id by then. *)
LookAtEnemy ==
    /\ decision = "look"
    /\ IF connected[enemy] /\ clientId[enemy] # Slot
       THEN GoOn("tell") /\ UNCHANGED enemy
       ELSE NextEnemy
    /\ UNCHANGED <<clientVars, inbox, wire, session, tankVars, gameVars, history>>

(* A client that asked to enter counts on what it is told here.            *)
SendOldClient ==
    /\ decision = "tell" /\ NextEnemy
    /\ SendTo(Slot, Packet("old", clientId[enemy]))
    /\ told' = [c \in Clients |->
          IF Listens(c, Slot) /\ (Playing(c) \/ c \in entered)
          THEN told[c] \cup {clientId[enemy]} ELSE told[c]]
    /\ UNCHANGED <<clientVars, wire, session, tankVars, gameVars, seats>>

-----------------------------------------------------------------------------
(* Game thread: the look into the registry, and what follows from it. *)

NextButLast == at' = (at + 1) % MaxConnection /\ gone' = "unread"   \* (mutant)
NextTank == at' = (at + 1) % (MaxConnection + 1) /\ gone' = "unread"

LookAtSession ==
    /\ gone = "unread"
    /\ IF session[clientId[at]] = None THEN gone' = "yes" /\ UNCHANGED at
                                       ELSE NextTank
    /\ UNCHANGED <<clientVars, inbox, wire, session, events, mainVars, tankVars, history>>

(* Nobody else sets connected to FALSE: the look at it and the write are   *)
(* one step.                                                               *)
DisconnectTank ==
    /\ gone = "yes"
    /\ IF connected[at]
       THEN /\ connected' = [connected EXCEPT ![at] = FALSE]
            /\ gone' = "sent" /\ UNCHANGED at
       ELSE NextTank /\ UNCHANGED connected
    /\ UNCHANGED <<clientVars, inbox, wire, session, events, mainVars, clientId, history>>

(* It announces what client_id is by now. *)
SendDisconnect ==
    /\ gone = "sent" /\ NextTank
    /\ SendAll(Packet("disconnect", clientId[at]))
    /\ told' = [c \in Clients |->
          IF c \in Listeners THEN told[c] \ {clientId[at]} ELSE told[c]]
    /\ UNCHANGED <<clientVars, wire, session, events, mainVars, tankVars, seats>>

-----------------------------------------------------------------------------
(* Client, main thread: ProcessPacket takes the first packet; what the     *)
(* game state has no case for is dropped.                                  *)

Reads(c, type) == /\ inbox[c] # <<>> /\ Head(inbox[c]).type = type
                  /\ inbox' = [inbox EXCEPT ![c] = Tail(@)]
Id(c) == Head(inbox[c]).id

WelcomeMessage(c) ==
    /\ state[c] = "initializing" /\ Reads(c, "welcome")
    /\ tankId' = [tankId EXCEPT ![c] = Id(c)]
    /\ wire' = [wire EXCEPT ![c] = @ + 1]
    /\ entered' = entered \cup {c}
    /\ UNCHANGED <<state, roster, refused, serverVars, history>>

(* player.tank_id is read from here on: without a Welcome it is arbitrary. *)
EnterGameOK(c) ==
    /\ state[c] = "initializing" /\ Reads(c, "ok")
    /\ state' = [state EXCEPT ![c] = "menu"]
    /\ IF tankId[c] = None
       THEN \E any \in Slots \cup {None} : tankId' = [tankId EXCEPT ![c] = any]
       ELSE UNCHANGED tankId
    /\ UNCHANGED <<roster, entered, refused, wire, serverVars, history>>

PrintFull(c) ==
    /\ state[c] = "initializing" /\ Reads(c, "full")
    /\ refused' = refused \cup {c}
    /\ UNCHANGED <<state, tankId, roster, entered, wire, serverVars, history>>

NewClient(c) ==
    /\ state[c] = "menu" /\ (Reads(c, "new") \/ Reads(c, "old"))
    /\ roster' = [roster EXCEPT ![c] =
                     IF Id(c) = tankId[c] THEN @ ELSE @ \cup {Id(c)}]
    /\ UNCHANGED <<state, tankId, entered, refused, wire, serverVars, history>>

DisconnectClient(c) ==
    /\ state[c] = "menu" /\ Reads(c, "disconnect")
    /\ roster' = [roster EXCEPT ![c] = @ \ {Id(c)}]
    /\ UNCHANGED <<state, tankId, entered, refused, wire, serverVars, history>>

Drop(c) ==
    /\ \/ /\ state[c] = "initializing"
          /\ \E t \in {"new", "old", "disconnect"} : Reads(c, t)
       \/ /\ state[c] = "menu"
          /\ \E t \in {"welcome", "ok", "full"} : Reads(c, t)
    /\ UNCHANGED <<clientVars, wire, serverVars, history>>

-----------------------------------------------------------------------------
Process(c) == \/ WelcomeMessage(c) \/ EnterGameOK(c) \/ PrintFull(c)
              \/ NewClient(c) \/ DisconnectClient(c) \/ Drop(c)
Receive(c) == ReceiveEnter(c) \/ CloseSession(c)
Main == \/ CountSessions \/ FullGame \/ NewAccept \/ SendWelcome \/ SendNewClient
        \/ EnterGame \/ SetClientId \/ SendEnterGameOK \/ LookAtEnemy
        \/ SendOldClient
Tick == LookAtSession \/ DisconnectTank \/ SendDisconnect

Next == \/ \E c \in Clients : Connect(c) \/ Quit(c) \/ Process(c) \/ Receive(c)
        \/ Main \/ Tick

Spec == Init /\ [][Next]_vars

-----------------------------------------------------------------------------
Holds(c)    == \E i \in Slots : session[i] = c
InGame      == {c \in admitted : Holds(c) /\ state[c] # "gone"}
Earlier(c)  == {d \in Clients \ {c} : held[d] = held[c] /\ state[d] = "gone"}

(***************************************************************************)
(* Of the clients that hold a slot at most one more than MaxPlayers have   *)
(* been welcomed, although the count is read before the answer and an      *)
(* entry may concern a slot that has a new holder (main.cpp:273-281).      *)
(***************************************************************************)
AdmittedBound == Cardinality(InGame) <= MaxPlayers + 1

(***************************************************************************)
(* A client comes to the menu without having asked to enter only if a      *)
(* client that held its slot before did ask (process_packet.cpp:55-75).    *)
(***************************************************************************)
OkNeedsEnter ==
    \A c \in Clients :
        state[c] = "menu" /\ c \notin entered
            => \E d \in Earlier(c) : d \in entered

(* A slot and the client in it know each other until the client has left. *)
Seats ==
    /\ \A c \in Clients :
          /\ state[c] = "outside" <=> held[c] = None
          /\ state[c] = "outside" => /\ wire[c] = 0 /\ inbox[c] = <<>>
                                     /\ c \notin entered \cup admitted
          /\ state[c] \in {"initializing", "menu"} => session[held[c]] = c
    /\ \A i \in Slots : session[i] # None => held[session[i]] = i

(* Whatever leads to the menu goes back to an EnterGame. *)
Asked ==
    /\ \A c \in Clients : wire[c] > 0 => c \in entered
    /\ \A k \in DOMAIN events : events[k].type = "enter" =>
          \E d \in entered : held[d] = events[k].slot
    /\ \A c \in Clients : Playing(c) /\ c \notin entered =>
          \E d \in Earlier(c) : d \in entered

(* A decision to accept leaves room for one more. *)
Room ==
    /\ decision \in Answers => AtEntry("new")
    /\ decision \in Replies => AtEntry("enter")
    /\ decision \in {"accept", "welcome"} => Cardinality(InGame) <= MaxPlayers

(* Whoever holds the slot after its EnterGameOK plays, or has connected    *)
(* since and is not welcome yet.                                           *)
Answered ==
    decision \in {"look", "tell"} =>
        \A c \in Clients :
            Listens(c, Slot) => \/ Playing(c)
                                \/ /\ c \notin entered
                                   /\ \A k \in DOMAIN inbox[c] :
                                         inbox[c][k].type # "welcome"

(* A player the client was told of is in its list, or on its way behind an *)
(* EnterGameOK; no Disconnect follows.                                     *)
NoGoodbye(q, x, k) == \A m \in DOMAIN q :
    m > k /\ q[m].type = "disconnect" => q[m].id # x
Awaited(q, x, menu) == \E k \in DOMAIN q :
    /\ q[k].type \in {"new", "old"} /\ q[k].id = x /\ NoGoodbye(q, x, k)
    /\ menu \/ \E m \in DOMAIN q : m < k /\ q[m].type = "ok"
Listed(c, x) == /\ state[c] = "menu" /\ x \in roster[c] \cup {tankId[c]}
                /\ NoGoodbye(inbox[c], x, 0)
Informed == \A c \in Clients : \A x \in told[c] :
    Listed(c, x) \/ Awaited(inbox[c], x, state[c] = "menu")

(***************************************************************************)
(* Clients, slots and entries keep their types, and nobody comes to the    *)
(* menu unasked (main.cpp:261-303): with what connects slots, entries,     *)
(* packets and lists, the inductive invariant behind AdmittedBound and     *)
(* RosterTold.                                                             *)
(***************************************************************************)
LobbyInv ==
    TypeOK /\ OkNeedsEnter /\ Seats /\ Asked /\ Room /\ Answered /\ Informed

(***************************************************************************)
(* What a client is told about other players after its EnterGameOK is in   *)
(* its list once it has read everything: nothing falls into the state in   *)
(* which the client drops it (process_packet.cpp:71-102 and the client's   *)
(* process_packet.cpp:44-93).                                              *)
(***************************************************************************)
RosterTold ==
    \A c \in Clients :
        state[c] = "menu" /\ inbox[c] = <<>>
            => told[c] \ {tankId[c]} \subseteq roster[c]

(***************************************************************************)
(* process_packet.cpp:82, "Send info about older clients.", and            *)
(* send_packet.cpp:23, "Send new client to all other clients.": when       *)
(* everything is delivered, two clients in the menu know each other.       *)
(***************************************************************************)
Quiet == /\ events = <<>> /\ gone # "sent"
         /\ \A c \in Clients : inbox[c] = <<>> /\ wire[c] = 0
PlayersKnowEachOther ==
    Quiet => \A c, d \in Clients :
                c # d /\ state[c] = "menu" /\ state[d] = "menu"
                    => held[d] \in roster[c]
=============================================================================
