------------------------------ MODULE Startup -------------------------------
(***************************************************************************)
(* How the processes come up, around Lobby: the server's main starts the   *)
(* game thread, sets up the socket call by call (each may fail), starts    *)
(* the receive thread, sleeps a second and only then handles entries; a    *)
(* client sets up its socket, connects, and then runs its loop.            *)
(*                                                                         *)
(* From listen() on the system completes a client's connect(), whether or  *)
(* not the server has a thread that accepts it: the client runs and waits, *)
(* and may be gone by the time it is accepted.                             *)
(*                                                                         *)
(* Everything after accept() is Lobby; its actions are taken by threads    *)
(* that run by then.  Lobby's "outside" is a client that is not accepted.  *)
(* What a failed set-up leaves open, the end of the process closes.        *)
(*                                                                         *)
(* The history misled keeps apart what no later packet puts right: that a  *)
(* player was named after its Disconnect, or disconnected as another one.  *)
(***************************************************************************)
EXTENDS Lobby

VARIABLES
    server,         \* how far the server's main is, "ended" if it has failed
    process,        \* how far a client process is: "off", "socket" (InitCatNet
                    \* done), "running" (connected), "over"
    backlog,        \* connected and not yet accepted, oldest first
    \* history
    misled          \* client -> players it was told of and never will be
                    \* told that they have left

processVars == <<server, process, backlog>>
startVars   == <<processVars, misled>>
allVars     == <<vars, startVars>>

Stages == <<"off", "game thread", "socket", "bound", "listening", "receiving",
            "looping">>
Reached(stage) == \E i, j \in DOMAIN Stages :
                     Stages[i] = stage /\ Stages[j] = server /\ i <= j

StartupTypeOK ==
    /\ TypeOK
    /\ server \in {Stages[i] : i \in DOMAIN Stages} \cup {"ended"}
    /\ process \in [Clients -> {"off", "socket", "running", "over"}]
    /\ backlog \in Seq(Clients)
    /\ misled \in [Clients -> SUBSET Slots]

StartupInit ==
    /\ Init
    /\ server = "off" /\ process = [c \in Clients |-> "off"] /\ backlog = <<>>
    /\ misled = [c \in Clients |-> {}]

-----------------------------------------------------------------------------
(* The server's main. *)

Advance(from, to) == /\ server = from /\ server' = to
                     /\ UNCHANGED <<vars, process, backlog, misled>>

InitGameServer == Advance("off", "game thread")

(* A call succeeds, or InitNet returns false and main returns: the game    *)
(* thread is still joinable then, and the process is terminated.           *)
OrEnd(from, to) == Advance(from, to) \/ Advance(from, "ended")

OpenSocket == OrEnd("game thread", "socket")
Bind       == OrEnd("socket", "bound")
Listen     == OrEnd("bound", "listening")

(* (mutant) the result of CreateThread is looked at, too late *)
CreateRecvThreadOrFail == OrEnd("listening", "receiving")

CreateRecvThread == Advance("listening", "receiving")

WakeUp           == Advance("receiving", "looping")

StartServer == \/ InitGameServer \/ OpenSocket \/ Bind \/ Listen
               \/ CreateRecvThread \/ WakeUp

-----------------------------------------------------------------------------
(* A client process: Application::Init up to the network, connect(), and   *)
(* the end, by a failure or by the player.                                 *)

Goes(c, from, to) == /\ process[c] = from
                     /\ process' = [process EXCEPT ![c] = to]
                     /\ UNCHANGED <<server, misled>>

StartClient(c) == /\ Goes(c, "off", "socket") \/ Goes(c, "off", "over")
                  /\ UNCHANGED <<vars, backlog>>

ConnectToServer(c) ==
    /\ \/ /\ Reached("listening") /\ Goes(c, "socket", "running")
          /\ backlog' = Append(backlog, c)
       \/ Goes(c, "socket", "over") /\ UNCHANGED backlog
    /\ UNCHANGED vars

(* The player quits, accepted or not. *)
Leave(c) == /\ Goes(c, "running", "over")
            /\ IF state[c] = "outside" THEN UNCHANGED vars ELSE Quit(c)
            /\ UNCHANGED backlog

(* What was accepted turns out to be closed. *)
FoundGone(c) == process[c] = "over" /\ Quit(c) /\ UNCHANGED startVars

NobodyWaits  == <<>>                    \* (mutant)
StillWaiting == Tail(backlog)

Accept ==
    /\ Reached("receiving") /\ backlog # <<>>
    /\ Connect(Head(backlog)) /\ backlog' = StillWaiting
    /\ UNCHANGED <<server, process, misled>>

-----------------------------------------------------------------------------
(* Lobby's threads, once they run, and what their packets tell of whom.    *)

Sent(c)     == {inbox'[c][k] : k \in Len(inbox[c]) + 1 .. Len(inbox'[c])}
NamedTo(c)  == {x \in Slots : \E p \in Sent(c) : p.type \in {"new", "old"} /\ p.id = x}
GoodbyeDue(x)  == connected[x] \/ (gone = "sent" /\ at = x)
WrongGoodbye   == {x \in Slots : gone = "sent" /\ at = x /\ clientId[x] # x}

Played(c)   == process[c] = "running" /\ Process(c) /\ UNCHANGED startVars
Received(c) == Reached("receiving") /\ Receive(c) /\ UNCHANGED startVars
Handled ==
    /\ Reached("looping") /\ Main /\ UNCHANGED processVars
    /\ misled' = [c \in Clients |-> (misled[c] \ NamedTo(c))
                        \cup {x \in NamedTo(c) : ~GoodbyeDue(x)}]
Ticked ==
    /\ Reached("game thread") /\ Tick /\ UNCHANGED processVars
    /\ misled' = [c \in Clients |-> (misled[c] \ {p.id : p \in Sent(c)})
                        \cup WrongGoodbye]

StartupNext ==
    \/ StartServer \/ Accept \/ Handled \/ Ticked
    \/ \E c \in Clients : \/ StartClient(c) \/ ConnectToServer(c) \/ Leave(c)
                          \/ FoundGone(c) \/ Played(c) \/ Received(c)

(* Each thread goes on; nobody has to start a client, to connect or to     *)
(* quit.  A closed connection is noticed.                                  *)
StartupFairness ==
    /\ WF_allVars(StartServer) /\ WF_allVars(Accept)
    /\ WF_allVars(Handled) /\ WF_allVars(Ticked)
    /\ \A c \in Clients : /\ WF_allVars(Played(c)) /\ WF_allVars(Received(c))
                          /\ WF_allVars(FoundGone(c))

StartupSpec == StartupInit /\ [][StartupNext]_allVars /\ StartupFairness

-----------------------------------------------------------------------------
(***************************************************************************)
(* A client whose connect() succeeded, at whatever point of the server's   *)
(* start-up, gets into the menu or is told that the game is full, unless   *)
(* it leaves (main.cpp:241-305, ServerNetwork.cpp:138-178,                 *)
(* ClientNetwork.h:30-69).                                                 *)
(***************************************************************************)
ConnectedIsAnswered ==
    \A c \in Clients :
        process[c] = "running" ~> \/ process[c] = "over" \/ state[c] = "menu"
                                  \/ c \in refused

(***************************************************************************)
(* When a slot whose tank has been entered stays empty, its tank ends up   *)
(* disconnected and every list without it, although the look at the        *)
(* session, the look at connected and each packet are separate steps of    *)
(* two threads (main.cpp:192-196, process_packet.cpp:61-102,               *)
(* send_packet.cpp:15-37).  Lists keep a player only if its last mention   *)
(* was sent behind its Disconnect, or its Disconnect named another tank.   *)
(***************************************************************************)
Forgotten(i) == /\ ~connected[i]
                /\ \A c \in Clients : i \in roster[c] => i \in misled[c]
EnteredLeaverForgotten ==
    \A i \in Slots : <>[](session[i] = None /\ clientId[i] = i)
                         => <>[]Forgotten(i)

(***************************************************************************)
(* A server that ends because its set-up failed leaves nobody behind who   *)
(* is connected: listen() is the last call that can fail.                  *)
(***************************************************************************)
NobodyStranded ==
    server = "ended" => \A c \in Clients : process[c] # "running"

(***************************************************************************)
(* Processes and backlog keep their types, and nobody is left behind by a  *)
(* failing set-up (main.cpp:241-259).                                      *)
(***************************************************************************)
StartupInv == StartupTypeOK /\ NobodyStranded
=============================================================================
