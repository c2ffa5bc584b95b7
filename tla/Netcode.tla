------------------------------ MODULE Netcode -------------------------------
(***************************************************************************)
(* Movement inputs from key press to reconciliation, for the tank of one   *)
(* server slot and the client processes that hold the slot one after       *)
(* another.                                                                *)
(*                                                                         *)
(*   client (application.cpp, net/send_packet.cpp, net/process_packet.cpp) *)
(*     numbers its inputs, sends them and keeps them in                    *)
(*     QueuedPlayerMovements until a TankMovement packet covers them;      *)
(*   server main thread (main.cpp, process_packet.cpp) moves packets into  *)
(*     the tank's input_queue, and answers new connections and EnterGame;  *)
(*   server game thread (GameUpdate) drains input_queue and broadcasts     *)
(*     position and latest_sequence_ID.                                    *)
(*                                                                         *)
(* Abstractions.  A position is the SET of inputs it results from, so that *)
(* "the input is in the position" is membership.  TCP and the process list *)
(* behind it form one FIFO per direction.  tank.input_queue is a           *)
(* std::queue that the main thread pushes to (process_packet.cpp:112) and  *)
(* the game thread takes from (main.cpp:85-146) without a lock: a push and *)
(* a pop are each taken as one step, what they do when they overlap is not *)
(* modelled.  The slot is index 0, whose tank.client_id is right from the  *)
(* start (Lobby and Combat have the other slots).                          *)
(* "playing" is GAMESTATE_MENU or GAMESTATE_INPLAY.  A denied connection   *)
(* and the respawn pause, which delays draining, are not modelled here.    *)
(***************************************************************************)
EXTENDS Naturals, Sequences

CONSTANTS
    MaxTenants,     \* bound: client processes that connect to the slot
    MaxInputs,      \* bound: inputs one process sends
    MaxFlight       \* bound: packets in the socket buffer to the client;
                    \* send() blocks while it is full

ASSUME BoundsAssumption ==
    /\ MaxTenants \in Nat \ {0}
    /\ MaxInputs \in Nat \ {0}
    /\ MaxFlight \in Nat \ {0}

Tenants  == 0 .. MaxTenants         \* 0: nobody has connected yet
InputIds == 0 .. MaxInputs - 1
Inputs   == Tenants \X InputIds     \* <<client process, sequence_id>>

C2S == [type : {"new", "enter", "move"}, from : Tenants, id : InputIds]
S2C == [type : {"welcome", "ok", "update"}, seq : InputIds,
        included : SUBSET Inputs]

VARIABLES
    \* client process
    tenant,         \* the process that holds, or held last, the slot
    phase,          \* "gone", "initializing" or "playing"
    mine,           \* player.tank_id equals the slot
    nextId,         \* currSequenceID
    queued,         \* QueuedPlayerMovements, by sequence_id
    base,           \* inputs in the last server position (server_x/y/w)
    reconciliation, \* isMechanism[MCH_RECONCILIATION]
    synced,         \* history: the last update was taken with reconciliation
    cleared,        \* history: some update was taken without it
    \* server
    session,        \* indexList[slot]
    connected,      \* tank.connected
    inputQueue,     \* tank.input_queue
    latest,         \* tank.latest_sequence_ID
    applied,        \* inputs in tank.x/y since the last EnterGame
    log,            \* history: ids of the present holder's inputs, in the
                    \* order in which they moved the tank
    seen,           \* game thread inside the tick: what it read of the slot
    \* network and the lists of received packets behind it
    toServer, toClient

holder     == <<tenant, phase, mine>>
prediction == <<nextId, queued, base>>
mechanism  == <<reconciliation, synced, cleared>>
clientVars == <<holder, prediction, mechanism>>
tank       == <<inputQueue, latest, applied, log>>
serverVars == <<session, connected, tank, seen>>
vars == <<clientVars, serverVars, toServer, toClient>>

TypeOK ==
    /\ tenant \in Tenants
    /\ phase \in {"gone", "initializing", "playing"}
    /\ nextId \in 0 .. MaxInputs
    /\ queued \in Seq(InputIds)
    /\ base \in SUBSET Inputs
    /\ mine \in BOOLEAN /\ reconciliation \in BOOLEAN
    /\ synced \in BOOLEAN /\ cleared \in BOOLEAN
    /\ session \in BOOLEAN /\ connected \in BOOLEAN
    /\ inputQueue \in Seq(Inputs)
    /\ latest \in InputIds
    /\ applied \in SUBSET Inputs
    /\ log \in Seq(InputIds)
    /\ seen \in {"unread", "free", "pass"}
    /\ toServer \in Seq(C2S)
    /\ toClient \in Seq(S2C)

Init ==
    /\ tenant = 0 /\ phase = "gone" /\ mine = FALSE
    /\ nextId = 0 /\ queued = <<>> /\ base = {}
    /\ reconciliation = TRUE /\ synced = TRUE /\ cleared = FALSE
    /\ session = FALSE /\ connected = FALSE
    /\ inputQueue = <<>> /\ latest = 0 /\ applied = {} /\ log = <<>>
    /\ seen = "unread"
    /\ toServer = <<>> /\ toClient = <<>>

-----------------------------------------------------------------------------
(* Sending.  The server addresses whoever holds the slot's socket now;     *)
(* what it sends to a process that has gone is lost.                       *)

FromClient(type, id) == [type |-> type, from |-> tenant, id |-> id]
ToSlot(type)         == [type |-> type, seq |-> 0, included |-> {}]

Deliver(m) ==
    IF session /\ phase # "gone"
    THEN Len(toClient) < MaxFlight /\ toClient' = Append(toClient, m)
    ELSE UNCHANGED toClient

-----------------------------------------------------------------------------
(* Client process: its life, and the packets of its application thread.    *)

(* A client starts with every mechanism on.  player.tank_id has no initial *)
(* value, so it may equal the slot by chance.                              *)
StartApplication ==
    /\ tenant' = tenant + 1
    /\ phase' = "initializing"
    /\ mine' \in BOOLEAN
    /\ nextId' = 0 /\ queued' = <<>> /\ base' = {}
    /\ reconciliation' = TRUE /\ synced' = TRUE /\ cleared' = FALSE
    /\ log' = <<>>

(* It connects, and the receive thread gives it the free slot. *)
Connect ==
    /\ phase = "gone" /\ ~session /\ tenant < MaxTenants
    /\ StartApplication
    /\ session' = TRUE
    /\ toServer' = Append(toServer, [type |-> "new", from |-> tenant', id |-> 0])
    /\ UNCHANGED <<connected, inputQueue, latest, applied, seen, toClient>>

(* The process ends.  What it sent last may not reach the server; the      *)
(* NEWCONNECTION entry was made by the server itself and stays.            *)
Quit ==
    /\ phase # "gone"
    /\ phase' = "gone"
    /\ \E n \in 0 .. Len(toServer) :
          /\ \A k \in n + 1 .. Len(toServer) :
                toServer[k].from = tenant /\ toServer[k].type # "new"
          /\ toServer' = SubSeq(toServer, 1, n)
    /\ toClient' = <<>>
    /\ UNCHANGED <<tenant, mine, prediction, mechanism, serverVars>>

(* ProcessPacket takes the first packet. *)
Reads(type) == /\ phase # "gone" /\ toClient # <<>> /\ Head(toClient).type = type
               /\ toClient' = Tail(toClient)

(* WelcomeMessage answers with EnterGame; only while INITIALIZING. *)
AwaitsWelcome == phase = "initializing"

ProcessWelcome ==
    /\ Reads("welcome")
    /\ IF AwaitsWelcome
       THEN /\ mine' = TRUE
            /\ toServer' = Append(toServer, FromClient("enter", 0))
       ELSE UNCHANGED <<mine, toServer>>
    /\ UNCHANGED <<tenant, phase, prediction, mechanism, serverVars>>

ProcessEnterGameOK ==
    /\ Reads("ok")
    /\ phase' = "playing"
    /\ UNCHANGED <<tenant, mine, prediction, mechanism, serverVars, toServer>>

(* (mutant) the inputs older than seq only *)
OvertakenButLast(q, seq, n) == /\ n \in 0 .. Len(q)
                               /\ \A k \in 1 .. n : q[k] < seq
                               /\ n < Len(q) => q[n + 1] >= seq

(* The loop that discards inputs an update has overtaken.  It pops n       *)
(* inputs, while the front is not newer than seq; without reconciliation   *)
(* it stops at the input that equals seq and keeps only that one.          *)
Overtaken(q, seq, n) == /\ n \in 0 .. Len(q)
                        /\ \A k \in 1 .. n : q[k] <= seq
                        /\ n < Len(q) => q[n + 1] > seq

Discard(q, seq, n) ==
    IF ~reconciliation /\ \E k \in 1 .. n : q[k] = seq
    THEN <<seq>>
    ELSE SubSeq(q, n + 1, Len(q))

(* UpdateTankMovement; packets for a tank that is not the player's change  *)
(* nothing here, and before MENU they are dropped.                         *)
ProcessUpdate ==
    /\ Reads("update")
    /\ IF phase = "playing" /\ mine
       THEN /\ \E n \in 0 .. Len(queued) :
                  /\ Overtaken(queued, Head(toClient).seq, n)
                  /\ queued' = Discard(queued, Head(toClient).seq, n)
            /\ base' = Head(toClient).included
            /\ synced' = reconciliation
            /\ cleared' = (cleared \/ ~reconciliation)
       ELSE UNCHANGED <<queued, base, synced, cleared>>
    /\ UNCHANGED <<holder, nextId, reconciliation, serverVars, toServer>>

(* send_packet_movement and the push_back of what it sent. *)
SendMovement ==
    /\ phase = "playing" /\ nextId < MaxInputs
    /\ toServer' = Append(toServer, FromClient("move", nextId))
    /\ queued' = Append(queued, nextId)
    /\ nextId' = nextId + 1
    /\ UNCHANGED <<holder, base, mechanism, serverVars, toClient>>

(* Keys 1 and 2 and the mechanism buttons. *)
ToggleReconciliation ==
    /\ phase = "playing"
    /\ reconciliation' = ~reconciliation
    /\ UNCHANGED <<holder, prediction, synced, cleared, serverVars, toServer, toClient>>

-----------------------------------------------------------------------------
(* Server receive thread: recv() returned 0 or an error. *)

CloseSession ==
    /\ phase = "gone" /\ session
    /\ session' = FALSE
    /\ UNCHANGED <<clientVars, connected, tank, seen, toServer, toClient>>

-----------------------------------------------------------------------------
(* Server main thread: one entry of the process list per step. *)

Receives(type) == /\ toServer # <<>> /\ Head(toServer).type = type
                  /\ toServer' = Tail(toServer)

NewAccept ==
    /\ Receives("new")
    /\ connected' = TRUE
    /\ Deliver(ToSlot("welcome"))
    /\ UNCHANGED <<clientVars, session, tank, seen>>

(* The tank is put where the client says.  input_queue and                 *)
(* latest_sequence_ID stay as the previous holder of the slot left them.   *)
EnterGame ==
    /\ Receives("enter")
    /\ connected' = TRUE
    /\ applied' = {}
    /\ Deliver(ToSlot("ok"))
    /\ UNCHANGED <<clientVars, session, inputQueue, latest, log, seen>>

ReceiveMovement ==
    /\ Receives("move")
    /\ inputQueue' = Append(inputQueue,
                            <<Head(toServer).from, Head(toServer).id>>)
    /\ UNCHANGED <<clientVars, session, connected, latest, applied, log, seen, toClient>>

-----------------------------------------------------------------------------
(* Server game thread. *)

(* The loop that drains input_queue: the input it applies, which one it    *)
(* acknowledges, and what stays in the queue.                              *)
Logged(input) == IF input[1] = tenant THEN Append(log, input[2]) ELSE log

Drain(input, acknowledged, rest) ==
    /\ seen = "unread" /\ connected /\ inputQueue # <<>>
    /\ applied' = applied \cup {input}
    /\ log' = Logged(input)
    /\ latest' = acknowledged
    /\ inputQueue' = rest
    /\ UNCHANGED <<clientVars, session, connected, seen, toServer, toClient>>

(* (mutants) *)
Newest == inputQueue[Len(inputQueue)]
ApplyAckNext == Drain(Head(inputQueue), Head(inputQueue)[2] + 1, Tail(inputQueue))
ApplyAckNewest == Drain(Head(inputQueue), Newest[2], Tail(inputQueue))
ApplyNewestOnly == Drain(Newest, Newest[2], <<>>)
ApplyNewestFirst == Drain(Newest, Newest[2], SubSeq(inputQueue, 1, Len(inputQueue) - 1))
ApplyNoPop == Drain(Head(inputQueue), Head(inputQueue)[2], inputQueue)

(* One turn of that loop. *)
ApplyInput == Drain(Head(inputQueue), Head(inputQueue)[2], Tail(inputQueue))

(* The tick reads the slot, then the tank, then acts: three steps between  *)
(* which the other threads run.                                            *)
CheckSession ==
    /\ seen = "unread"
    /\ seen' = IF session THEN "pass" ELSE "free"
    /\ UNCHANGED <<clientVars, session, connected, tank, toServer, toClient>>

NoticeDisconnect ==
    /\ seen = "free"
    /\ connected' = FALSE
    /\ seen' = IF connected THEN "unread" ELSE "pass"
    /\ UNCHANGED <<clientVars, session, tank, toServer, toClient>>

SendUpdate ==
    /\ seen = "pass"
    /\ seen' = "unread"
    /\ IF connected
       THEN Deliver([type |-> "update", seq |-> latest, included |-> applied])
       ELSE UNCHANGED toClient
    /\ UNCHANGED <<clientVars, session, connected, tank, toServer>>

-----------------------------------------------------------------------------
Client == \/ ProcessWelcome \/ ProcessEnterGameOK \/ ProcessUpdate
Main   == NewAccept \/ EnterGame \/ ReceiveMovement
Tick   == CheckSession \/ NoticeDisconnect \/ SendUpdate

Next == \/ Connect \/ Quit \/ SendMovement \/ ToggleReconciliation
        \/ Client \/ CloseSession \/ Main \/ ApplyInput \/ Tick

Spec == Init /\ [][Next]_vars

(* Each thread keeps running.  Strong fairness where a thread waits for    *)
(* something that comes and goes: the game loop comes back to draining     *)
(* however often it ticks in between, and a send() of the main thread that *)
(* waits for buffer space gets it in the end although the game thread      *)
(* sends on the same socket.  Nothing obliges a player to send or quit.    *)
Fairness == /\ WF_vars(Client) /\ WF_vars(CloseSession) /\ SF_vars(Main)
            /\ WF_vars(Tick) /\ SF_vars(ApplyInput)

FairSpec == Spec /\ Fairness

-----------------------------------------------------------------------------
Own(inputs) == {i \in InputIds : <<tenant, i>> \in inputs}
InQueue     == {queued[k] : k \in DOMAIN queued}

(* Why the properties hold: inputs keep the order they were sent in from   *)
(* the socket through the queue into the tank, so an update's sequence     *)
(* number is at least that of every own input its position contains.       *)
Before(a, b) == a[1] < b[1] \/ (a[1] = b[1] /\ a[2] < b[2])
Sent(a)      == a[1] < tenant \/ (a[1] = tenant /\ a[2] < nextId)
IsMove(k)    == toServer[k].type = "move"
Move(k)      == <<toServer[k].from, toServer[k].id>>

SocketOrdered ==
    /\ \A k \in DOMAIN toServer : IsMove(k) => Sent(Move(k))
    /\ \A j, k \in DOMAIN toServer :
          j < k /\ IsMove(j) /\ IsMove(k) => Before(Move(j), Move(k))

QueueOrdered ==
    /\ \A k \in DOMAIN inputQueue : Sent(inputQueue[k])
    /\ \A j, k \in DOMAIN inputQueue :
          j < k => Before(inputQueue[j], inputQueue[k])
    /\ \A j \in DOMAIN inputQueue, k \in DOMAIN toServer :
          IsMove(k) => Before(inputQueue[j], Move(k))

TankOrdered ==
    \A a \in applied :
        /\ Sent(a)
        /\ \A k \in DOMAIN inputQueue : Before(a, inputQueue[k])
        /\ \A k \in DOMAIN toServer : IsMove(k) => Before(a, Move(k))

SequenceCovers ==
    /\ \A i \in Own(applied) : i <= latest
    /\ \A k \in DOMAIN toClient : \A i \in Own(toClient[k].included) :
          i <= toClient[k].seq /\ i < nextId
    /\ \A i \in Own(base) : i < nextId
    /\ phase = "gone" => toClient = <<>>

BufferOrdered ==
    /\ \A k \in DOMAIN queued : queued[k] < nextId
    /\ \A j, k \in DOMAIN queued : j < k => queued[j] < queued[k]

(* What the client would count twice: with reconciliation it replays the   *)
(* queue on top of the server's position (application.cpp:281-313).        *)
NeverReplayed == synced => InQueue \cap Own(base) = {}

(***************************************************************************)
(* From the key press through socket, queue and tank to the                *)
(* acknowledgement no input overtakes another, whichever process held the  *)
(* slot before and whatever it left in the tank; so the sequence number of *)
(* an update covers the position that comes with it, and an input that     *)
(* position contains is never replayed on top of it                        *)
(* (process_packet.cpp:55-112, main.cpp:85-147, process_packet.cpp:166-187)*)
(***************************************************************************)
InOrder == /\ TypeOK /\ SocketOrdered /\ QueueOrdered /\ TankOrdered
           /\ SequenceCovers /\ BufferOrdered /\ NeverReplayed

(* Where an input of the present holder can be: in the tank, in its queue  *)
(* or on the way there.                                                    *)
InLine(i) == \E k \in DOMAIN inputQueue : inputQueue[k] = <<tenant, i>>
OnWire(i) == \E k \in DOMAIN toServer : IsMove(k) /\ Move(k) = <<tenant, i>>
Known     == {i \in InputIds : i \in Own(applied) \/ InLine(i) \/ OnWire(i)}
IsUpdate(k)    == toClient[k].type = "update"
Shown(k)       == Own(toClient[k].included)
Closed(inputs) == \A i \in inputs : 0 .. i \subseteq inputs

(* Nobody sends inputs before it is playing, and no process is number 0.   *)
SentWhilePlaying ==
    /\ phase # "gone" => tenant > 0
    /\ phase = "initializing" => nextId = 0
    /\ \A k \in DOMAIN toServer : IsMove(k) => toServer[k].from > 0
    /\ \A k \in DOMAIN inputQueue : inputQueue[k][1] > 0
    /\ \A a \in applied : a[1] > 0

(* Nothing sent is missing between the tank and the client; what a process *)
(* that has gone took back are the newest ones.                            *)
NothingMissing == /\ Closed(Known)
                  /\ phase # "gone" => 0 .. nextId - 1 \subseteq Known

(* An EnterGame, which resets the tank, is ahead of every input.           *)
EnterFirst ==
    \A k \in DOMAIN toServer : toServer[k].type = "enter" =>
        /\ Own(applied) = {}
        /\ \A i \in InputIds : ~InLine(i)
        /\ \A j \in DOMAIN toServer :
              j < k /\ IsMove(j) => toServer[j].from # tenant

(* Acknowledgements come in the order in which the tank grew.              *)
AcksGrow ==
    /\ Own(base) \subseteq Own(applied)
    /\ \A k \in DOMAIN toClient : IsUpdate(k) =>
          /\ Own(base) \subseteq Shown(k) /\ Shown(k) \subseteq Own(applied)
          /\ Closed(Shown(k))
    /\ \A j, k \in DOMAIN toClient :
          j < k /\ IsUpdate(j) /\ IsUpdate(k) => Shown(j) \subseteq Shown(k)

(* The tank was moved by the inputs of its holder one by one.              *)
OneByOne == /\ \A k \in DOMAIN log : log[k] = k - 1
            /\ Own(applied) = 0 .. Len(log) - 1

(* For the first holder of the slot a sequence number is that of the       *)
(* newest input applied, or 0; what was not acknowledged is still queued,  *)
(* except that the 0 from before may have discarded input 0.               *)
Names(seq, inputs) == IF inputs = {} THEN seq = 0 ELSE seq \in inputs
FirstHolder ==
    tenant <= 1 =>
        /\ Names(latest, Own(applied))
        /\ \A k \in DOMAIN toClient :
              IsUpdate(k) => Names(toClient[k].seq, Shown(k))
        /\ ~cleared => /\ synced
                       /\ \A i \in 0 .. nextId - 1 :
                             \/ i \in InQueue \cup Own(base)
                             \/ i = 0 /\ Own(base) = {}

(***************************************************************************)
(* The inductive invariant behind PredictionExact, AppliedIsPrefix and the *)
(* refinement of InputLog: from the key press to the acknowledgement no    *)
(* input is missing and none overtakes another (process_packet.cpp:55-107, *)
(* main.cpp:85-147, process_packet.cpp:166-187).                           *)
(***************************************************************************)
Contiguous == /\ SentWhilePlaying /\ NothingMissing /\ EnterFirst
              /\ AcksGrow /\ OneByOne /\ FirstHolder

(***************************************************************************)
(* From the moment the first holder of the slot has seen its first input   *)
(* acknowledged, prediction is exact as long as reconciliation stays on:   *)
(* replaying the queue adds every input that was sent and is not in the    *)
(* server's position, and no other (process_packet.cpp:166-187).           *)
(***************************************************************************)
PredictionExact ==
    tenant = 1 /\ phase = "playing" /\ ~cleared /\ Own(base) # {}
        => InQueue = (0 .. nextId - 1) \ Own(base)

(***************************************************************************)
(* Of the inputs of the process that holds the slot, the server has        *)
(* applied a prefix: no gap although slot, queue and list are shared with  *)
(* the processes before it.                                                *)
(***************************************************************************)
AppliedIsPrefix == \A i \in Own(applied) : 0 .. i \subseteq Own(applied)

(***************************************************************************)
(* The inputs of one process move the tank in the order in which they were *)
(* sent and each once, and what the process is shown is always a first     *)
(* part of what moved the tank, and only grows: InputLog                   *)
(* (main.cpp:85-147 and 203-209, process_packet.cpp:166-187).              *)
(***************************************************************************)
Log == INSTANCE InputLog WITH
          player <- tenant, sent <- nextId, applied <- log, acked <- Own(base)
ImplementsInputLog == Log!LogSpec

(***************************************************************************)
(* Every input of a player who stays is acknowledged in the end, unless    *)
(* the game thread took the tank for disconnected (main.cpp:192-196).      *)
(***************************************************************************)
InputsAcknowledged ==
    \A t \in 1 .. MaxTenants, i \in InputIds :
        (tenant = t /\ phase = "playing" /\ mine /\ i < nextId)
            ~> (\/ tenant # t \/ phase = "gone" \/ ~connected
                \/ <<t, i>> \in base)
=============================================================================
