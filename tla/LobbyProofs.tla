---------------------------- MODULE LobbyProofs -----------------------------
(***************************************************************************)
(* Proofs about Lobby and Startup, for any clients, any slots and any      *)
(* number of players.                                                      *)
(***************************************************************************)
EXTENDS Startup, TLAPS, FiniteSetTheorems, SequenceTheorems

USE DEF Slots, clientVars, tankVars, mainVars, gameVars, serverVars, seats, history, StillWaiting

-----------------------------------------------------------------------------
(* What the operations on sequences do, element by element. *)
LEMMA Appended ==
    ASSUME NEW S, NEW s \in Seq(S), NEW e \in S, NEW t, t = Append(s, e)
    PROVE  /\ t \in Seq(S) /\ DOMAIN t = 1 .. Len(s) + 1 /\ DOMAIN s = 1 .. Len(s)
           /\ Len(s) \in Nat /\ t # <<>>
           /\ \A k \in DOMAIN s : t[k] = s[k]
           /\ t[Len(s) + 1] = e
           /\ s # <<>> => Head(t) = Head(s)
           /\ s = <<>> => Head(t) = e
<1>1. /\ t \in Seq(S) /\ Len(t) = Len(s) + 1 /\ t[Len(s) + 1] = e
      /\ \A k \in 1 .. Len(s) : t[k] = s[k]
      /\ Len(s) \in Nat /\ DOMAIN t = 1 .. Len(t) /\ DOMAIN s = 1 .. Len(s)
  BY AppendProperties
<1>2. t # <<>> /\ Head(t) = t[1]
  BY <1>1
<1>3. s # <<>> => Len(s) > 0 /\ Head(s) = s[1]
  OBVIOUS
<1>4. s = <<>> => Len(s) = 0
  OBVIOUS
<1> QED
  BY <1>1, <1>2, <1>3, <1>4

LEMMA Taken ==
    ASSUME NEW S, NEW s \in Seq(S), s # <<>>, NEW t, t = Tail(s)
    PROVE  /\ t \in Seq(S) /\ 1 \in DOMAIN s /\ Head(s) = s[1] /\ s[1] \in S
           /\ DOMAIN s \subseteq Nat \ {0} /\ DOMAIN t \subseteq Nat \ {0}
           /\ \A k \in DOMAIN t : k + 1 \in DOMAIN s /\ t[k] = s[k + 1]
           /\ \A k \in DOMAIN s : k = 1 \/ (k - 1 \in DOMAIN t /\ t[k - 1] = s[k])
<1>1. /\ t \in Seq(S) /\ Head(s) \in S /\ Len(s) \in Nat
      /\ DOMAIN s = 1 .. Len(s) /\ DOMAIN t = 1 .. Len(s) - 1
      /\ \A k \in 1 .. Len(s) - 1 : t[k] = s[k + 1]
      /\ Head(s) = s[1] /\ Len(s) > 0
  BY HeadTailProperties
<1> QED
  BY <1>1

(* A client's queue after it has read a packet. *)
LEMMA ReadOne ==
    ASSUME TypeOK, NEW c \in Clients, inbox[c] # <<>>,
           inbox' = [inbox EXCEPT ![c] = Tail(@)]
    PROVE  /\ inbox' \in [Clients -> Seq(S2C)] /\ Head(inbox[c]) \in S2C
           /\ Id(c) \in Slots /\ inbox[c] \in Seq(S2C)
           /\ inbox'[c] = Tail(inbox[c])
           /\ \A d \in Clients \ {c} : inbox'[d] = inbox[d]
<1>1. inbox[c] \in Seq(S2C)
  BY DEF TypeOK
<1>2. Tail(inbox[c]) \in Seq(S2C) /\ Head(inbox[c]) \in S2C
  BY <1>1, HeadTailProperties
<1> QED
  BY <1>1, <1>2 DEF TypeOK, Id, S2C

-----------------------------------------------------------------------------
(* The main and the game thread: steps that send nothing, steps that send. *)

LEMMA AfterIs == After("id") = "ok" /\ After("ok") = "look" /\ After("look") = "none"
  BY DEF After

SilentStep == \/ CountSessions \/ NewAccept \/ EnterGame \/ SetClientId \/ LookAtEnemy
              \/ LookAtSession \/ DisconnectTank
SendStep   == \/ FullGame \/ SendWelcome \/ SendNewClient \/ SendEnterGameOK
              \/ SendOldClient \/ SendDisconnect

LEMMA ThreadSteps == Main \/ Tick <=> SilentStep \/ SendStep
  BY DEF Main, Tick, SilentStep, SendStep

LEMMA Silent ==
    ASSUME SilentStep
    PROVE  UNCHANGED <<clientVars, inbox, wire, session, history>>
  BY DEF SilentStep, CountSessions, NewAccept, EnterGame, SetClientId, LookAtEnemy,
     LookAtSession, DisconnectTank

LEMMA SendLeaves ==
    ASSUME SendStep
    PROVE  /\ UNCHANGED <<clientVars, wire, session, tankVars, held>>
           /\ ~SendWelcome => admitted' = admitted
  BY DEF SendStep, FullGame, SendWelcome, SendNewClient, SendEnterGameOK, SendOldClient,
     SendDisconnect

LEMMA SlotIs ==
    ASSUME TypeOK, events # <<>>
    PROVE  /\ Slot \in Slots /\ Tail(events) \in Seq(Entry) /\ events \in Seq(Entry)
           /\ 1 \in DOMAIN events /\ Head(events) = events[1]
<1>1. events \in Seq(Entry)
  BY DEF TypeOK
<1>2. Tail(events) \in Seq(Entry) /\ Head(events) \in Entry
  BY <1>1, HeadTailProperties
<1>3. 1 \in DOMAIN events /\ Head(events) = events[1]
  BY <1>1, Taken
<1> QED
  BY <1>1, <1>2, <1>3 DEF Slot, Entry

(* In the middle of an entry, that entry is there. *)
LEMMA Busy ==
    ASSUME TypeOK, Room, decision # "none"
    PROVE  events # <<>> /\ Slot \in Slots
<1>1. decision \in Answers \cup Replies
  BY DEF TypeOK
<1>2. events # <<>>
  BY <1>1 DEF Room, AtEntry
<1> QED
  BY <1>2, SlotIs

(* Every step that sends appends one packet, to listeners. *)
Delivers(p) ==
    \A c \in Clients : \/ inbox'[c] = inbox[c]
                       \/ c \in Listeners /\ inbox'[c] = Append(inbox[c], p)

LEMMA SentTo ==
    ASSUME TypeOK, NEW i \in Slots, NEW p \in S2C, SendTo(i, p)
    PROVE  /\ inbox' \in [Clients -> Seq(S2C)] /\ Delivers(p)
           /\ \A c \in Clients :
                 inbox'[c] = IF Listens(c, i) THEN Append(inbox[c], p) ELSE inbox[c]
<1>1. \A c \in Clients : inbox[c] \in Seq(S2C) /\ Append(inbox[c], p) \in Seq(S2C)
  BY AppendProperties DEF TypeOK
<1>2. \A c \in Clients : Listens(c, i) => c \in Listeners
  BY DEF Listeners
<1> QED
  BY <1>1, <1>2 DEF SendTo, Delivers

LEMMA SentAll ==
    ASSUME TypeOK, NEW p \in S2C, SendAll(p)
    PROVE  /\ inbox' \in [Clients -> Seq(S2C)] /\ Delivers(p)
           /\ \A c \in Clients :
                 inbox'[c] = IF c \in Listeners THEN Append(inbox[c], p) ELSE inbox[c]
<1>1. \A c \in Clients : inbox[c] \in Seq(S2C) /\ Append(inbox[c], p) \in Seq(S2C)
  BY AppendProperties DEF TypeOK
<1> QED
  BY <1>1 DEF SendAll, Delivers

LEMMA Sending ==
    ASSUME TypeOK, Room, SendStep
    PROVE  /\ inbox' \in [Clients -> Seq(S2C)]
           /\ \E p \in S2C :
                 /\ Delivers(p)
                 /\ p.type = "disconnect" => SendDisconnect /\ p.id = clientId[at]
                 /\ p.type = "ok" => SendEnterGameOK
                 /\ p.type = "welcome" => SendWelcome
<1>1. ASSUME decision # "none", NEW t \in {"full", "welcome", "new", "ok"}
      PROVE  Slot \in Slots /\ Packet(t, Slot) \in S2C /\ Packet(t, Slot).type = t
  BY <1>1, Busy DEF Packet, S2C
<1>2. CASE FullGame
  <2>1. SendTo(Slot, Packet("full", Slot)) /\ decision # "none"
    BY <1>2 DEF FullGame
  <2> QED
    BY <1>1, <2>1, SentTo
<1>3. CASE SendWelcome
  <2>1. SendTo(Slot, Packet("welcome", Slot)) /\ decision # "none"
    BY <1>3 DEF SendWelcome
  <2> QED
    BY <1>1, <1>3, <2>1, SentTo
<1>4. CASE SendNewClient
  <2>1. SendAll(Packet("new", Slot)) /\ decision # "none"
    BY <1>4 DEF SendNewClient
  <2> QED
    BY <1>1, <2>1, SentAll
<1>5. CASE SendEnterGameOK
  <2>1. SendTo(Slot, Packet("ok", Slot)) /\ decision # "none"
    BY <1>5 DEF SendEnterGameOK
  <2> QED
    BY <1>1, <1>5, <2>1, SentTo
<1>6. CASE SendOldClient
  <2>1. SendTo(Slot, Packet("old", clientId[enemy])) /\ Slot \in Slots
    BY <1>6, Busy DEF SendOldClient
  <2>2. /\ Packet("old", clientId[enemy]) \in S2C
        /\ Packet("old", clientId[enemy]).type = "old"
    BY DEF Packet, S2C, TypeOK
  <2> QED
    BY <2>1, <2>2, SentTo
<1>7. CASE SendDisconnect
  <2>1. SendAll(Packet("disconnect", clientId[at]))
    BY <1>7 DEF SendDisconnect
  <2>2. /\ Packet("disconnect", clientId[at]) \in S2C
        /\ Packet("disconnect", clientId[at]).type = "disconnect"
        /\ Packet("disconnect", clientId[at]).id = clientId[at]
    BY DEF Packet, S2C, TypeOK
  <2> QED
    BY <1>7, <2>1, <2>2, SentAll
<1> QED
  BY <1>2, <1>3, <1>4, <1>5, <1>6, <1>7 DEF SendStep

(* Only the holder of a slot is sent anything. *)
LEMMA Heard ==
    ASSUME TypeOK, Room, Main \/ Tick, NEW c \in Clients, c \notin Listeners
    PROVE  inbox'[c] = inbox[c]
<1>1. CASE SilentStep
  BY <1>1, Silent
<1>2. CASE SendStep
  BY <1>2, Sending DEF Delivers
<1> QED
  BY <1>1, <1>2, ThreadSteps

(* The entry the main thread is at, and what it does next. *)
LEMMA Going ==
    ASSUME TypeOK, Room, Main
    PROVE  /\ decision' \in {"none"} \cup Answers \cup Replies /\ events # <<>>
           /\ \/ decision' = "none" /\ events' = Tail(events)
              \/ decision' # "none" /\ events' = events
           /\ decision' \in Answers => AtEntry("new")
           /\ decision' \in Replies => AtEntry("enter")
           /\ decision' \in {"accept", "welcome"} =>
                 decision = "accept" \/ (CountSessions /\ ~TooMany)
           /\ decision' \in {"look", "tell"} =>
                 SendEnterGameOK \/ LookAtEnemy \/ SendOldClient
           /\ enemy' \in Slots /\ UNCHANGED gameVars
<1>1. events # <<>> /\ UNCHANGED gameVars
  <2>1. events # <<>>
    BY Busy DEF Main, CountSessions, FullGame, NewAccept, SendWelcome, SendNewClient, EnterGame,
       SetClientId, SendEnterGameOK, LookAtEnemy, SendOldClient, AtEntry
  <2>2. UNCHANGED gameVars
    BY DEF Main, CountSessions, FullGame, NewAccept, SendWelcome, SendNewClient, EnterGame,
       SetClientId, SendEnterGameOK, LookAtEnemy, SendOldClient
  <2> QED
    BY <2>1, <2>2
<1>2. \E step \in {"none"} \cup Answers \cup Replies :
         /\ GoOn(step)
         /\ step \in Answers => AtEntry("new")
         /\ step \in Replies => AtEntry("enter")
         /\ step \in {"accept", "welcome"} => decision = "accept" \/ (CountSessions /\ ~TooMany)
         /\ step \in {"look", "tell"} => SendEnterGameOK \/ LookAtEnemy \/ SendOldClient
  <2>1. CASE CountSessions
    BY <2>1 DEF CountSessions, Answers, Replies
  <2>2. CASE FullGame \/ NewAccept \/ SendWelcome \/ SendNewClient
    BY <2>2 DEF FullGame, NewAccept, SendWelcome, SendNewClient, Room, Answers, Replies
  <2>3. CASE EnterGame \/ SetClientId \/ SendEnterGameOK
    BY <2>3, AfterIs DEF EnterGame, SetClientId, SendEnterGameOK, Room, Answers, Replies
  <2>4. CASE LookAtEnemy \/ SendOldClient
    <3>1. decision \in Replies
      BY <2>4 DEF LookAtEnemy, SendOldClient, Replies
    <3>2. GoOn("none") \/ GoOn("look") \/ GoOn("tell")
      BY <2>4, AfterIs DEF LookAtEnemy, SendOldClient, NextEnemy
    <3> QED
      BY <2>4, <3>1, <3>2 DEF Room, Answers, Replies
  <2> QED
    BY <2>1, <2>2, <2>3, <2>4 DEF Main
<1>3. enemy' \in Slots
  <2>1. CASE enemy' = enemy
    BY <2>1 DEF TypeOK
  <2>2. CASE enemy' # enemy
    <3>1. NextEnemy
      <4>1. LookAtEnemy \/ SendOldClient
        BY <2>2 DEF Main, CountSessions, FullGame, NewAccept, SendWelcome, SendNewClient, EnterGame,
           SetClientId, SendEnterGameOK
      <4> QED
        BY <2>2, <4>1 DEF LookAtEnemy, SendOldClient
    <3>2. enemy' = 0 \/ (enemy # MaxConnection /\ enemy' = enemy + 1)
      BY <3>1 DEF NextEnemy
    <3>3. enemy \in 0 .. MaxConnection /\ MaxConnection \in Nat
      BY LobbyAssumption DEF TypeOK
    <3> QED
      BY <3>2, <3>3
  <2> QED
    BY <2>1, <2>2
<1> QED
  BY <1>1, <1>2, <1>3 DEF GoOn

LEMMA Ticking ==
    ASSUME TypeOK, Tick
    PROVE  /\ UNCHANGED <<events, mainVars, clientId>>
           /\ at' \in Slots /\ gone' \in {"unread", "yes", "sent"}
<1>1. UNCHANGED <<events, mainVars, clientId>>
  BY DEF Tick, LookAtSession, DisconnectTank, SendDisconnect
<1>2. NextTank => at' \in Slots /\ gone' = "unread"
  BY LobbyAssumption DEF NextTank, TypeOK
<1>3. at' \in Slots /\ gone' \in {"unread", "yes", "sent"}
  BY <1>2 DEF Tick, LookAtSession, DisconnectTank, SendDisconnect, TypeOK
<1> QED
  BY <1>1, <1>3

-----------------------------------------------------------------------------
(* Types. *)

LEMMA TypeInit == Init => TypeOK
  BY LobbyAssumption DEF Init, TypeOK

(* The main thread and the game thread. *)
LEMMA TypeThreads ==
    ASSUME TypeOK, Room, Main \/ Tick
    PROVE  TypeOK'
<1> USE LobbyAssumption
<1>1. UNCHANGED <<state, tankId, roster, wire, session, held, entered, refused>>
  BY ThreadSteps, Silent, SendLeaves
<1>2. inbox' \in [Clients -> Seq(S2C)]
  BY ThreadSteps, Silent, Sending DEF TypeOK
<1>3. /\ events' \in Seq(Entry) /\ decision' \in {"none"} \cup Answers \cup Replies
      /\ enemy' \in Slots /\ at' \in Slots /\ gone' \in {"unread", "yes", "sent"}
  <2>1. CASE Main
    <3>1. Tail(events) \in Seq(Entry) /\ events \in Seq(Entry)
      BY <2>1, Going, SlotIs
    <3> QED
      BY <2>1, <3>1, Going DEF TypeOK
  <2>2. CASE Tick
    BY <2>2, Ticking DEF TypeOK
  <2> QED
    BY <2>1, <2>2
<1>4. connected' \in [Slots -> BOOLEAN] /\ clientId' \in [Slots -> Slots]
  <2>1. CASE NewAccept
    BY <2>1 DEF NewAccept, TypeOK
  <2>2. CASE EnterGame
    BY <2>2 DEF EnterGame, TypeOK
  <2>3. CASE SetClientId
    <3>1. Slot \in Slots
      BY <2>3, Busy DEF SetClientId
    <3> QED
      BY <2>3, <3>1 DEF SetClientId, TypeOK
  <2>4. CASE DisconnectTank
    BY <2>4 DEF DisconnectTank, TypeOK
  <2>5. CASE CountSessions \/ LookAtEnemy \/ LookAtSession \/ SendStep
    <3>1. UNCHANGED tankVars
      BY <2>5, SendLeaves DEF CountSessions, LookAtEnemy, LookAtSession
    <3> QED
      BY <3>1 DEF TypeOK
  <2> QED
    BY <2>1, <2>2, <2>3, <2>4, <2>5, ThreadSteps DEF SilentStep
<1>5. admitted' \in SUBSET Clients
  <2>1. CASE SendWelcome
    BY <2>1 DEF SendWelcome, TypeOK
  <2> QED
    BY <2>1, ThreadSteps, Silent, SendLeaves DEF TypeOK
<1>6. told' \in [Clients -> SUBSET Slots]
  <2>1. CASE SendNewClient
    <3>1. Slot \in Slots
      BY <2>1, Busy DEF SendNewClient
    <3> QED
      BY <2>1, <3>1 DEF SendNewClient, TypeOK
  <2>2. CASE SendOldClient
    <3>1. clientId[enemy] \in Slots
      BY DEF TypeOK
    <3> QED
      BY <2>2, <3>1 DEF SendOldClient, TypeOK
  <2>3. CASE SendDisconnect
    BY <2>3 DEF SendDisconnect, TypeOK
  <2>4. CASE SilentStep \/ FullGame \/ SendWelcome \/ SendEnterGameOK
    <3>1. told' = told
      BY <2>4, Silent DEF FullGame, SendWelcome, SendEnterGameOK
    <3> QED
      BY <3>1 DEF TypeOK
  <2> QED
    BY <2>1, <2>2, <2>3, <2>4, ThreadSteps DEF SendStep
<1> QED
  BY <1>1, <1>2, <1>3, <1>4, <1>5, <1>6 DEF TypeOK

LEMMA TypeStep ==
    ASSUME TypeOK, Seats, Room, [Next]_vars
    PROVE  TypeOK'
<1> USE LobbyAssumption
<1>1. ASSUME NEW c \in Clients, Connect(c)
      PROVE  TypeOK'
  <2>1. PICK i \in Slots : /\ session' = [session EXCEPT ![i] = c]
                           /\ held' = [held EXCEPT ![c] = i]
                           /\ events' = Append(events, [type |-> "new", slot |-> i])
    BY <1>1 DEF Connect
  <2>2. [type |-> "new", slot |-> i] \in Entry
    BY DEF Entry
  <2>3. events' \in Seq(Entry)
    BY <2>1, <2>2, AppendProperties DEF TypeOK
  <2> QED
    BY <1>1, <2>1, <2>3 DEF Connect, TypeOK
<1>2. ASSUME NEW c \in Clients, Quit(c)
      PROVE  TypeOK'
  <2>1. <<>> \in Seq(S2C)
    OBVIOUS
  <2> QED
    BY <1>2, <2>1 DEF Quit, TypeOK
<1>3. ASSUME NEW c \in Clients, Process(c)
      PROVE  TypeOK'
  <2>1. inbox[c] # <<>> /\ inbox' = [inbox EXCEPT ![c] = Tail(@)]
    BY <1>3 DEF Process, WelcomeMessage, EnterGameOK, PrintFull, NewClient, DisconnectClient,
       Drop, Reads
  <2>2. inbox' \in [Clients -> Seq(S2C)] /\ Id(c) \in Slots
    BY <2>1, ReadOne
  <2>3. CASE WelcomeMessage(c)
    <3>1. /\ tankId' \in [Clients -> Slots \cup {None}]
          /\ wire' \in [Clients -> Nat] /\ entered' \in SUBSET Clients
      <4>1. tankId' \in [Clients -> Slots \cup {None}] /\ entered' \in SUBSET Clients
        BY <2>2, <2>3 DEF WelcomeMessage, TypeOK
      <4>2. wire \in [Clients -> Nat] /\ wire' = [wire EXCEPT ![c] = wire[c] + 1]
        BY <2>3 DEF WelcomeMessage, TypeOK
      <4> QED
        BY <4>1, <4>2
    <3> QED
      BY <2>2, <2>3, <3>1 DEF WelcomeMessage, TypeOK
  <2>4. CASE EnterGameOK(c)
    <3>1. tankId' \in [Clients -> Slots \cup {None}]
      <4>1. CASE tankId[c] = None
        <5>1. PICK any \in Slots \cup {None} : tankId' = [tankId EXCEPT ![c] = any]
          BY <2>4, <4>1 DEF EnterGameOK
        <5>2. tankId \in [Clients -> Slots \cup {None}]
          BY DEF TypeOK
        <5> QED
          BY <5>1, <5>2
      <4>2. CASE tankId[c] # None
        BY <2>4, <4>2 DEF EnterGameOK, TypeOK
      <4> QED
        BY <4>1, <4>2
    <3>2. state' \in [Clients -> {"outside", "initializing", "menu", "gone"}]
      BY <2>4 DEF EnterGameOK, TypeOK
    <3> QED
      BY <2>2, <2>4, <3>1, <3>2 DEF EnterGameOK, TypeOK
  <2>5. CASE PrintFull(c)
    BY <2>2, <2>5 DEF PrintFull, TypeOK
  <2>6. CASE NewClient(c)
    BY <2>2, <2>6 DEF NewClient, TypeOK
  <2>7. CASE DisconnectClient(c)
    BY <2>2, <2>7 DEF DisconnectClient, TypeOK
  <2>8. CASE Drop(c)
    BY <2>2, <2>8 DEF Drop, TypeOK, clientVars, tankVars, gameVars
  <2> QED
    BY <1>3, <2>3, <2>4, <2>5, <2>6, <2>7, <2>8 DEF Process
<1>4. ASSUME NEW c \in Clients, ReceiveEnter(c)
      PROVE  TypeOK'
  <2>1. held[c] \in Slots
    BY <1>4 DEF ReceiveEnter, Seats, TypeOK
  <2>2. [type |-> "enter", slot |-> held[c]] \in Entry
    BY <2>1 DEF Entry
  <2>3. events' \in Seq(Entry)
    BY <1>4, <2>2, AppendProperties DEF TypeOK, ReceiveEnter
  <2>4. wire' \in [Clients -> Nat]
    <3>1. /\ wire \in [Clients -> Nat] /\ wire[c] > 0
          /\ wire' = [wire EXCEPT ![c] = wire[c] - 1]
      BY <1>4 DEF ReceiveEnter, TypeOK
    <3>2. wire[c] - 1 \in Nat
      BY <3>1
    <3> QED
      BY <3>1, <3>2
  <2> QED
    BY <1>4, <2>3, <2>4 DEF ReceiveEnter, TypeOK
<1>5. ASSUME NEW c \in Clients, CloseSession(c)
      PROVE  TypeOK'
  BY <1>5 DEF CloseSession, TypeOK, clientVars, tankVars, gameVars
<1>6. CASE Main \/ Tick
  BY <1>6, TypeThreads
<1>7. CASE UNCHANGED vars
  BY <1>7 DEF vars, TypeOK
<1> QED
  BY <1>1, <1>2, <1>3, <1>4, <1>5, <1>6, <1>7 DEF Next, Receive

-----------------------------------------------------------------------------
(* Slots and clients. *)

LEMMA SeatsInit == Init => Seats
  BY LobbyAssumption DEF Init, Seats

LEMMA SeatsStep ==
    ASSUME TypeOK, Seats, Room, [Next]_vars
    PROVE  Seats'
<1> USE LobbyAssumption
<1>1. ASSUME NEW c \in Clients, Connect(c)
      PROVE  Seats'
  <2>1. PICK i \in Slots : /\ session[i] = None /\ session' = [session EXCEPT ![i] = c]
                           /\ held' = [held EXCEPT ![c] = i]
    BY <1>1 DEF Connect, Lowest, FreeSlots
  <2>2. \A j \in Slots : session[j] # c
    BY <1>1 DEF Connect, Seats
  <2>3. /\ \A d \in Clients \ {c} : held'[d] = held[d] /\ state'[d] = state[d]
        /\ held'[c] = i /\ state'[c] = "initializing" /\ state[c] = "outside"
        /\ \A j \in Slots : session'[j] = IF j = i THEN c ELSE session[j]
        /\ UNCHANGED <<wire, inbox, entered, admitted>>
    BY <1>1, <2>1 DEF Connect, TypeOK
  <2>4. \A d \in Clients \ {c} : held[d] # None => held[d] \in Slots
    BY DEF TypeOK
  <2>5. \A d \in Clients \ {c} :
            state'[d] \in {"initializing", "menu"} => session'[held'[d]] = d
    BY <2>1, <2>3, <2>4 DEF Seats
  <2>6. \A j \in Slots : session'[j] # None => held'[session'[j]] = j
    <3> SUFFICES ASSUME NEW j \in Slots, session'[j] # None
                 PROVE  held'[session'[j]] = j
      OBVIOUS
    <3>1. CASE j = i
      BY <2>3, <3>1
    <3>2. CASE j # i
      <4>1. session'[j] = session[j] /\ session[j] \in Clients \ {c}
        BY <2>2, <2>3, <3>2 DEF TypeOK
      <4> QED
        BY <2>3, <4>1 DEF Seats
    <3> QED
      BY <3>1, <3>2
  <2>7. \A d \in Clients :
          /\ state'[d] = "outside" <=> held'[d] = None
          /\ state'[d] = "outside" => /\ wire'[d] = 0 /\ inbox'[d] = <<>>
                                     /\ d \notin entered' \cup admitted'
    BY <2>3 DEF Seats
  <2> QED
    BY <2>3, <2>5, <2>6, <2>7 DEF Seats
<1>2. ASSUME NEW c \in Clients, Quit(c)
      PROVE  Seats'
  BY <1>2 DEF Quit, Seats, TypeOK
<1>3. ASSUME NEW c \in Clients, Process(c)
      PROVE  Seats'
  <2>1. /\ UNCHANGED <<held, session, admitted>>
        /\ state[c] \in {"initializing", "menu"} /\ state'[c] \in {"initializing", "menu"}
        /\ \A d \in Clients \ {c} : /\ state'[d] = state[d] /\ wire'[d] = wire[d]
                                    /\ inbox'[d] = inbox[d]
                                    /\ (d \in entered' <=> d \in entered)
    <3>1. CASE WelcomeMessage(c)
      BY <3>1 DEF WelcomeMessage, Reads, TypeOK
    <3>2. CASE EnterGameOK(c)
      BY <3>2 DEF EnterGameOK, Reads, TypeOK
    <3>3. CASE PrintFull(c) \/ NewClient(c) \/ DisconnectClient(c) \/ Drop(c)
      BY <3>3 DEF PrintFull, NewClient, DisconnectClient, Drop, Reads, TypeOK
    <3> QED
      BY <1>3, <3>1, <3>2, <3>3 DEF Process
  <2> QED
    BY <2>1 DEF Seats
<1>4. ASSUME NEW c \in Clients, ReceiveEnter(c)
      PROVE  Seats'
  BY <1>4 DEF ReceiveEnter, Seats, TypeOK
<1>5. ASSUME NEW c \in Clients, CloseSession(c)
      PROVE  Seats'
  <2>1. /\ UNCHANGED <<held, admitted, state, entered, inbox>> /\ state[c] = "gone"
        /\ wire' = [wire EXCEPT ![c] = 0] /\ session' = [session EXCEPT ![held[c]] = None]
        /\ wire \in [Clients -> Nat] /\ session \in [Slots -> Clients \cup {None}]
        /\ session[held[c]] = c
    BY <1>5 DEF CloseSession, TypeOK
  <2>2. \A d \in Clients : wire'[d] = 0 \/ wire'[d] = wire[d]
    BY <2>1
  <2>3. \A i \in Slots : session'[i] = session[i] \/ session'[i] = None
    BY <2>1
  <2>4. ASSUME NEW d \in Clients, state[d] \in {"initializing", "menu"}
        PROVE  session'[held[d]] = d
    <3>1. session[held[d]] = d /\ d # c
      BY <2>1, <2>4 DEF Seats
    <3>2. held[d] # held[c]
      BY <2>1, <3>1
    <3> QED
      BY <2>1, <3>1, <3>2
  <2> QED
    BY <2>1, <2>2, <2>3, <2>4 DEF Seats
<1>6. CASE Main \/ Tick
  <2>1. /\ UNCHANGED <<held, session, state, wire, entered>>
        /\ admitted' \subseteq admitted \cup Listeners
    <3>1. CASE SendWelcome
      <4>1. Slot \in Slots
        BY <3>1, Busy DEF SendWelcome
      <4> QED
        BY <3>1, <4>1 DEF SendWelcome, Listeners
    <3>2. CASE ~SendWelcome
      BY <1>6, <3>2, ThreadSteps, Silent, SendLeaves
    <3> QED
      BY <3>1, <3>2
  <2>2. \A c \in Clients : state[c] = "outside" => c \notin Listeners
    BY DEF Seats, Listeners, Listens
  <2> QED
    BY <1>6, <2>1, <2>2, Heard DEF Seats
<1>7. CASE UNCHANGED vars
  BY <1>7 DEF vars, Seats
<1> QED
  BY <1>1, <1>2, <1>3, <1>4, <1>5, <1>6, <1>7 DEF Next, Receive

-----------------------------------------------------------------------------
(* What leads to the menu. *)

Acknowledged(q) == \E k \in DOMAIN q : q[k].type = "ok"

(* Only SendEnterGameOK acknowledges. *)
LEMMA NoneAcknowledged ==
    ASSUME TypeOK, Room, Main \/ Tick, ~SendEnterGameOK,
           NEW c \in Clients, Acknowledged(inbox'[c])
    PROVE  Acknowledged(inbox[c])
<1>1. inbox[c] \in Seq(S2C)
  BY DEF TypeOK
<1>2. CASE SilentStep
  BY <1>2, Silent
<1>3. CASE SendStep
  <2>1. PICK p \in S2C : Delivers(p) /\ p.type # "ok"
    BY <1>3, Sending
  <2>2. CASE inbox'[c] = Append(inbox[c], p)
    BY <1>1, <2>1, <2>2, Appended DEF Acknowledged
  <2> QED
    BY <2>1, <2>2 DEF Delivers
<1> QED
  BY <1>2, <1>3, ThreadSteps

LEMMA AskedInit == Init => Asked
  BY DEF Init, Asked, Playing

LEMMA Lasting ==
    ASSUME TypeOK, [Next]_vars, NEW c \in Clients, state[c] # "outside"
    PROVE  /\ held'[c] = held[c]
           /\ state[c] = "gone" => state'[c] = "gone"
           /\ c \in entered => c \in entered'
<1>1. CASE \E d \in Clients : Connect(d)
  BY <1>1 DEF Connect, TypeOK
<1>2. CASE \E d \in Clients : Quit(d)
  BY <1>2 DEF Quit, TypeOK
<1>3. CASE \E d \in Clients : WelcomeMessage(d)
  BY <1>3 DEF WelcomeMessage, TypeOK
<1>4. CASE \E d \in Clients : EnterGameOK(d)
  BY <1>4 DEF EnterGameOK, TypeOK
<1>5. CASE \E d \in Clients : PrintFull(d) \/ NewClient(d) \/ DisconnectClient(d) \/ Drop(d)
                                \/ ReceiveEnter(d) \/ CloseSession(d)
  BY <1>5 DEF PrintFull, NewClient, DisconnectClient, Drop, ReceiveEnter, CloseSession
<1>6. CASE Main \/ Tick
  BY <1>6, ThreadSteps, Silent, SendLeaves
<1>7. CASE UNCHANGED vars
  BY <1>7 DEF vars
<1> QED
  BY <1>1, <1>2, <1>3, <1>4, <1>5, <1>6, <1>7 DEF Next, Process, Receive

LEMMA AskedStep ==
    ASSUME TypeOK, TypeOK', Seats, Room, Asked, [Next]_vars
    PROVE  Asked'
<1> USE LobbyAssumption
<1>1. ASSUME NEW c \in Clients, state[c] # "outside"
      PROVE  /\ held'[c] = held[c]
             /\ state[c] = "gone" => state'[c] = "gone"
             /\ c \in entered => c \in entered'
  BY <1>1, Lasting
<1>2. \A d \in entered : d \in Clients /\ state[d] # "outside" /\ held[d] \in Slots
  BY DEF Seats, TypeOK
<1>3. ASSUME NEW c \in Clients, state[c] # "outside", NEW d \in Earlier(c), d \in entered
      PROVE  d \in Earlier(c)' /\ d \in entered'
  BY <1>1, <1>2, <1>3 DEF Earlier
<1>4. \A c \in Clients : wire'[c] > 0 => c \in entered'
  <2> SUFFICES ASSUME NEW c \in Clients
               PROVE  wire'[c] > 0 => c \in entered'
    OBVIOUS
  <2>1. CASE \E d \in Clients : WelcomeMessage(d)
    BY <2>1 DEF WelcomeMessage, TypeOK, Asked
  <2>2. CASE \E d \in Clients : ReceiveEnter(d)
    BY <2>2 DEF ReceiveEnter, TypeOK, Asked
  <2>3. CASE \E d \in Clients : CloseSession(d)
    BY <2>3 DEF CloseSession, TypeOK, Asked
  <2>4. CASE \E d \in Clients : Connect(d) \/ Quit(d) \/ EnterGameOK(d) \/ PrintFull(d)
                                  \/ NewClient(d) \/ DisconnectClient(d) \/ Drop(d)
    BY <2>4 DEF Connect, Quit, EnterGameOK, PrintFull, NewClient, DisconnectClient, Drop, Asked
  <2>5. CASE Main \/ Tick \/ UNCHANGED vars
    BY <2>5, ThreadSteps, Silent, SendLeaves DEF vars, Asked
  <2> QED
    BY <2>1, <2>2, <2>3, <2>4, <2>5 DEF Next, Process, Receive
<1>5. \A k \in DOMAIN events' : events'[k].type = "enter" =>
          \E d \in entered' : held'[d] = events'[k].slot
  <2>1. \A d \in entered : d \in entered' /\ held'[d] = held[d]
    BY <1>1, <1>2
  <2>2. events \in Seq(Entry)
    BY DEF TypeOK
  <2>3. CASE events' = events
    BY <2>1, <2>3 DEF Asked
  <2>4. CASE events # <<>> /\ events' = Tail(events)
    <3>1. \A k \in DOMAIN events' : k + 1 \in DOMAIN events /\ events'[k] = events[k + 1]
      BY <2>2, <2>4, Taken
    <3> QED
      BY <2>1, <3>1 DEF Asked
  <2>5. ASSUME NEW e \in Entry, events' = Append(events, e),
               e.type = "enter" => \E d \in entered : held[d] = e.slot
        PROVE  \A k \in DOMAIN events' : events'[k].type = "enter" =>
                  \E d \in entered' : held'[d] = events'[k].slot
    <3>1. /\ \A k \in DOMAIN events' : k \in DOMAIN events \/ k = Len(events) + 1
          /\ \A k \in DOMAIN events : events'[k] = events[k]
          /\ events'[Len(events) + 1] = e
      BY <2>2, <2>5, Appended
    <3> QED
      BY <2>1, <2>5, <3>1 DEF Asked
  <2>6. ASSUME NEW c \in Clients, Connect(c)
        PROVE  \E e \in Entry : events' = Append(events, e) /\ e.type = "new"
    BY <2>6 DEF Connect, Entry
  <2>7. ASSUME NEW c \in Clients, ReceiveEnter(c)
        PROVE  \E e \in Entry : /\ events' = Append(events, e) /\ c \in entered
                                /\ held[c] = e.slot
    <3>1. held[c] \in Slots /\ c \in entered
      BY <2>7 DEF ReceiveEnter, Seats, Asked, TypeOK
    <3> QED
      BY <2>7, <3>1 DEF ReceiveEnter, Entry
  <2>8. CASE Main
    BY <2>3, <2>4, <2>8, Going
  <2>9. CASE \/ \E c \in Clients : Quit(c) \/ Process(c) \/ CloseSession(c)
             \/ Tick \/ UNCHANGED vars
    <3>1. events' = events
      BY <2>9, Ticking DEF Quit, Process, CloseSession, vars, WelcomeMessage, EnterGameOK,
        PrintFull, NewClient, DisconnectClient, Drop
    <3> QED
      BY <2>3, <3>1
  <2> QED
    BY <2>5, <2>6, <2>7, <2>8, <2>9 DEF Next, Receive
<1>6. ASSUME NEW c \in Clients, Playing(c)', c \notin entered'
      PROVE  \E d \in Earlier(c)' : d \in entered'
  <2>1. state[c] # "outside" /\ c \notin entered
    <3>1. CASE state[c] = "outside"
      <4>1. inbox'[c] = <<>> /\ state'[c] # "menu"
        <5>1. inbox[c] = <<>> /\ c \notin Listeners
          BY <3>1 DEF Seats, Listeners, Listens
        <5>2. CASE Main \/ Tick
          <6>1. inbox'[c] = <<>>
            BY <5>1, <5>2, Heard
          <6>2. state' = state
            BY <5>2, ThreadSteps, Silent, SendLeaves
          <6> QED
            BY <3>1, <6>1, <6>2
        <5>3. CASE ~(Main \/ Tick)
          <6>1. CASE \E d \in Clients : Connect(d)
            BY <3>1, <5>1, <6>1 DEF Connect, TypeOK
          <6>5. CASE \E d \in Clients : Quit(d)
            BY <3>1, <5>1, <6>5 DEF Quit, TypeOK
          <6>2. CASE \E d \in Clients : WelcomeMessage(d) \/ EnterGameOK(d) \/ PrintFull(d)
            <7>1. PICK d \in Clients :
                        WelcomeMessage(d) \/ EnterGameOK(d) \/ PrintFull(d)
              BY <6>2
            <7>2. /\ state[d] = "initializing" /\ inbox' = [inbox EXCEPT ![d] = Tail(@)]
                  /\ state' = state \/ state' = [state EXCEPT ![d] = "menu"]
              BY <7>1 DEF WelcomeMessage, EnterGameOK, PrintFull, Reads
            <7>3. d # c
              BY <3>1, <7>2
            <7>6. /\ inbox \in [Clients -> Seq(S2C)]
                  /\ state \in [Clients -> {"outside", "initializing", "menu", "gone"}]
              BY DEF TypeOK
            <7>4. inbox'[c] = inbox[c]
              BY <7>2, <7>3, <7>6
            <7>5. state'[c] = state[c]
              BY <7>2, <7>3, <7>6
            <7> QED
              BY <3>1, <5>1, <7>4, <7>5
          <6>3. CASE \E d \in Clients : NewClient(d) \/ DisconnectClient(d) \/ Drop(d)
            <7>1. PICK d \in Clients : NewClient(d) \/ DisconnectClient(d) \/ Drop(d)
              BY <6>3
            <7>2. /\ state[d] # "outside" /\ inbox' = [inbox EXCEPT ![d] = Tail(@)]
                  /\ state' = state
              BY <7>1 DEF NewClient, DisconnectClient, Drop, Reads
            <7>3. d # c /\ inbox \in [Clients -> Seq(S2C)]
              BY <3>1, <7>2 DEF TypeOK
            <7> QED
              BY <3>1, <5>1, <7>2, <7>3
          <6>4. CASE (\E d \in Clients : Receive(d)) \/ UNCHANGED vars
            BY <3>1, <5>1, <6>4 DEF Receive, ReceiveEnter, CloseSession, vars
          <6> QED
            BY <5>3, <6>1, <6>2, <6>3, <6>4, <6>5 DEF Next, Process
        <5> QED
          BY <5>2, <5>3
      <4> QED
        BY <1>6, <4>1 DEF Playing
    <3>2. CASE state[c] # "outside"
      BY <1>1, <1>6, <3>2
    <3> QED
      BY <3>1, <3>2
  <2>2. CASE Playing(c)
    <3>1. PICK d \in Earlier(c) : d \in entered
      BY <2>1, <2>2 DEF Asked
    <3> QED
      BY <1>3, <2>1, <3>1
  <2>3. ASSUME SendEnterGameOK, Listens(c, Slot)
        PROVE  \E d \in Earlier(c)' : d \in entered'
    <3>0. PICK i \in Slots : i = Slot
      BY <2>3, Busy DEF SendEnterGameOK
    <3>1. PICK d \in entered : held[d] = i
      <4>1. events # <<>> /\ Head(events).slot = i /\ Head(events).type = "enter"
        BY <2>3, <3>0 DEF SendEnterGameOK, Room, AtEntry, Slot, Replies
      <4>2. 1 \in DOMAIN events /\ Head(events) = events[1]
        BY <4>1, SlotIs
      <4> QED
        BY <4>1, <4>2 DEF Asked
    <3>2. d \in Earlier(c)
      <4>1. d \in Clients /\ d # c /\ held[d] \in Slots /\ state[d] # "outside"
        BY <1>2, <2>1, <3>1
      <4>2. session[i] = c /\ held[c] = i
        BY <2>3, <3>0 DEF Seats, Listens
      <4>3. state[d] = "gone"
        BY <3>1, <4>1, <4>2 DEF Seats, TypeOK
      <4> QED
        BY <3>1, <4>1, <4>2, <4>3 DEF Earlier
    <3> QED
      BY <1>3, <2>1, <3>1, <3>2
  <2>4. ASSUME ~Playing(c), ~(SendEnterGameOK /\ Listens(c, Slot))
        PROVE  FALSE
    <3>0. inbox[c] \in Seq(S2C)
      BY DEF TypeOK
    <3>1. state[c] # "menu" /\ ~Acknowledged(inbox[c])
      BY <2>4 DEF Playing, Acknowledged
    <3>2. state'[c] = "menu" \/ Acknowledged(inbox'[c])
      BY <1>6 DEF Playing, Acknowledged
    <3>3. CASE (Main \/ Tick) /\ ~SendEnterGameOK
      <4>1. state' = state
        BY <3>3, ThreadSteps, Silent, SendLeaves
      <4> QED
        BY <3>1, <3>2, <3>3, <4>1, NoneAcknowledged
    <3>4. CASE SendEnterGameOK
      BY <2>4, <3>1, <3>2, <3>4 DEF SendEnterGameOK, SendTo
    <3>5. ASSUME NEW e \in Clients, Process(e)
          PROVE  FALSE
      <4>1. CASE e # c
        <5>1. inbox'[c] = inbox[c] /\ state'[c] = state[c]
          BY <3>5, <4>1 DEF Process, WelcomeMessage, EnterGameOK, PrintFull, NewClient,
             DisconnectClient, Drop, Reads, TypeOK
        <5> QED
          BY <3>1, <3>2, <5>1
      <4>2. CASE e = c
        <5>1. inbox[c] # <<>> /\ inbox'[c] = Tail(inbox[c])
          BY <3>5, <4>2 DEF Process, WelcomeMessage, EnterGameOK, PrintFull, NewClient,
             DisconnectClient, Drop, Reads, TypeOK
        <5>2. ~Acknowledged(Tail(inbox[c])) /\ Head(inbox[c]).type # "ok"
          BY <3>0, <3>1, <5>1, Taken DEF Acknowledged
        <5>3. ~EnterGameOK(c)
          BY <5>2 DEF EnterGameOK, Reads
        <5>4. state'[c] = state[c]
          BY <3>5, <4>2, <5>3 DEF Process, WelcomeMessage, PrintFull, NewClient,
             DisconnectClient, Drop
        <5> QED
          BY <3>1, <3>2, <5>1, <5>2, <5>4
      <4> QED
        BY <4>1, <4>2
    <3>6. CASE \/ \E e \in Clients : Connect(e) \/ Quit(e) \/ Receive(e)
               \/ UNCHANGED vars
      <4>1. (inbox'[c] = inbox[c] \/ inbox'[c] = <<>>) /\ (state'[c] = "menu" => state[c] = "menu")
        <5>1. CASE \E e \in Clients : Connect(e)
          BY <5>1 DEF Connect, TypeOK
        <5>2. CASE \E e \in Clients : Quit(e)
          BY <5>2 DEF Quit, TypeOK
        <5>3. CASE (\E e \in Clients : Receive(e)) \/ UNCHANGED vars
          BY <5>3 DEF Receive, ReceiveEnter, CloseSession, vars
        <5> QED
          BY <3>6, <5>1, <5>2, <5>3
      <4> QED
        BY <3>1, <3>2, <4>1 DEF Acknowledged
    <3> QED
      BY <3>3, <3>4, <3>5, <3>6 DEF Next
  <2> QED
    BY <2>2, <2>3, <2>4
<1> QED
  BY <1>4, <1>5, <1>6 DEF Asked

-----------------------------------------------------------------------------
(* How many are let in. *)

LEMMA InGameCounted ==
    ASSUME TypeOK, Seats
    PROVE  /\ IsFiniteSet(InGame) /\ Cardinality(InGame) \in Nat
           /\ ConnectedCount \in Nat /\ Cardinality(InGame) <= ConnectedCount
<1> DEFINE T == Slots \ FreeSlots
           f == [c \in InGame |-> held[c]]
<1>1. IsFiniteSet(T) /\ Cardinality(T) \in Nat /\ ConnectedCount = Cardinality(T)
  <2>1. IsFiniteSet(Slots)
    <3>1. 0 \in Int /\ MaxConnection \in Int
      BY LobbyAssumption
    <3> QED
      BY <3>1, FS_Interval
  <2>2. T \in SUBSET Slots
    OBVIOUS
  <2> HIDE DEF T
  <2>3. IsFiniteSet(T) /\ Cardinality(T) \in Nat
    BY <2>1, <2>2, FS_Subset, FS_CardinalityType
  <2> QED
    BY <2>3 DEF ConnectedCount, T
<1>2. \A c \in InGame : \E i \in Slots : session[i] = c /\ c \in Clients
  BY DEF InGame, Holds, TypeOK
<1>3. \A c \in InGame : session[held[c]] = c /\ held[c] \in T
  BY <1>2, LobbyAssumption DEF Seats, FreeSlots
<1>4. f \in Injection(InGame, T)
  BY <1>3 DEF Injection, IsInjective
<1> HIDE DEF f, T
<1> QED
  BY <1>1, <1>4, FS_Injection, FS_CardinalityType

LEMMA Fewer ==
    ASSUME TypeOK, Seats, [Next]_vars, admitted' = admitted
    PROVE  /\ InGame' \subseteq InGame
           /\ IsFiniteSet(InGame') /\ Cardinality(InGame') \in Nat
           /\ Cardinality(InGame') <= Cardinality(InGame)
<1>1. ASSUME NEW c \in InGame'
      PROVE  c \in InGame
  <2>1. PICK i \in Slots : session'[i] = c
    BY DEF InGame, Holds
  <2>2. c \in admitted /\ c \in Clients /\ state[c] # "outside" /\ state'[c] # "gone"
    BY DEF InGame, TypeOK, Seats
  <2>3. state[c] # "gone"
    BY <2>2, Lasting
  <2>4. session[i] = c
    <3>1. CASE \E d \in Clients : Connect(d)
      BY <2>1, <2>2, <3>1 DEF Connect, TypeOK
    <3>2. CASE \E d \in Clients : CloseSession(d)
      BY <2>1, <2>2, <3>2, LobbyAssumption DEF CloseSession, TypeOK
    <3>3. CASE ~(\E d \in Clients : Connect(d) \/ CloseSession(d))
      <4>1. session' = session
        BY <3>3, ThreadSteps, Silent, SendLeaves DEF Next, vars, Process, Receive, Quit,
           WelcomeMessage, EnterGameOK, PrintFull, NewClient, DisconnectClient, Drop, ReceiveEnter
      <4> QED
        BY <2>1, <4>1
    <3> QED
      BY <3>1, <3>2, <3>3
  <2> QED
    BY <2>2, <2>3, <2>4 DEF InGame, Holds
<1> QED
  BY <1>1, InGameCounted, FS_Subset, FS_CardinalityType

LEMMA RoomInit == Init => Room /\ AdmittedBound
<1> SUFFICES ASSUME Init
             PROVE  Room /\ AdmittedBound
  OBVIOUS
<1>1. InGame = {}
  BY DEF Init, InGame
<1>2. Cardinality(InGame) = 0
  BY <1>1, FS_EmptySet
<1> QED
  BY <1>2, LobbyAssumption DEF Init, Room, AdmittedBound, Answers, Replies

LEMMA RoomStep ==
    ASSUME TypeOK, Seats, Room, AdmittedBound, [Next]_vars
    PROVE  Room' /\ AdmittedBound'
<1> USE LobbyAssumption
<1>0. /\ IsFiniteSet(InGame) /\ Cardinality(InGame) \in Nat
      /\ ConnectedCount \in Nat /\ Cardinality(InGame) <= ConnectedCount
  BY InGameCounted
<1>1. CASE SendWelcome
  <2>2. Cardinality(InGame) <= MaxPlayers
    BY <1>1 DEF SendWelcome, Room
  <2>3. InGame' \subseteq InGame \cup {session[Slot]}
    <3>1. \A c \in InGame' : c \in InGame \/ Listens(c, Slot)
      BY <1>1 DEF SendWelcome, InGame, Holds
    <3> QED
      BY <3>1 DEF Listens
  <2>4. PICK d : d = session[Slot]
    OBVIOUS
  <2>5. /\ IsFiniteSet(InGame \cup {d})
        /\ Cardinality(InGame \cup {d}) =
              IF d \in InGame THEN Cardinality(InGame) ELSE Cardinality(InGame) + 1
    BY <1>0, FS_AddElement
  <2>6. /\ Cardinality(InGame') <= Cardinality(InGame \cup {d})
        /\ Cardinality(InGame') \in Nat
    BY <2>3, <2>4, <2>5, FS_Subset, FS_CardinalityType
  <2>7. Cardinality(InGame') <= MaxPlayers + 1
    BY <1>0, <2>2, <2>5, <2>6
  <2>8. decision' = "announce" /\ AtEntry("new")'
    BY <1>1 DEF SendWelcome, GoOn, Room, Answers, AtEntry
  <2> QED
    BY <2>7, <2>8 DEF Room, AdmittedBound, Answers, Replies
<1>2. CASE ~SendWelcome
  <2>1. admitted' = admitted
    BY <1>2, ThreadSteps, Silent, SendLeaves DEF Next, vars, Process, Receive, Connect, Quit,
       WelcomeMessage, EnterGameOK, PrintFull, NewClient, DisconnectClient, Drop, ReceiveEnter,
       CloseSession
  <2>2. Cardinality(InGame') \in Nat /\ Cardinality(InGame') <= Cardinality(InGame)
    BY <2>1, Fewer
  <2>3. AdmittedBound'
    BY <1>0, <2>2 DEF AdmittedBound
  <2>4. CASE Main
    <3>1. /\ decision' \in Answers => AtEntry("new")'
          /\ decision' \in Replies => AtEntry("enter")'
      <4>1. decision' # "none" => events' = events
        BY <2>4, Going
      <4> QED
        BY <2>4, <4>1, Going DEF AtEntry, Answers, Replies
    <3>2. decision' \in {"accept", "welcome"} => Cardinality(InGame) <= MaxPlayers
      <4>1. decision = "accept" => Cardinality(InGame) <= MaxPlayers
        BY DEF Room
      <4>2. ~TooMany => Cardinality(InGame) <= MaxPlayers
        BY <1>0 DEF TooMany
      <4> QED
        BY <2>4, <4>1, <4>2, Going
    <3>3. decision' \in {"accept", "welcome"} => Cardinality(InGame') <= MaxPlayers
      BY <1>0, <2>2, <3>2
    <3> QED
      BY <2>3, <3>1, <3>3 DEF Room, Answers, Replies
  <2>6. ASSUME decision' = decision, AtEntry("new") => AtEntry("new")',
               AtEntry("enter") => AtEntry("enter")'
        PROVE  Room'
    BY <1>0, <2>2, <2>6 DEF Room, Answers, Replies
  <2>8. ASSUME NEW e \in Entry, events' = Append(events, e), decision' = decision
        PROVE  Room'
    <3>1. events' # <<>> /\ (events # <<>> => Head(events') = Head(events))
      <4>1. events \in Seq(Entry)
        BY DEF TypeOK
      <4> QED
        BY <2>8, <4>1, Appended
    <3> QED
      BY <2>6, <2>8, <3>1 DEF AtEntry
  <2>9. ASSUME NEW c \in Clients, Connect(c)
        PROVE  Room'
    <3>1. decision' = decision /\ \E e \in Entry : events' = Append(events, e)
      BY <2>9 DEF Connect, Entry
    <3> QED
      BY <2>8, <3>1
  <2>10. ASSUME NEW c \in Clients, ReceiveEnter(c)
         PROVE  Room'
    <3>1. held[c] \in Slots
      BY <2>10 DEF ReceiveEnter, Seats, TypeOK
    <3>2. decision' = decision /\ \E e \in Entry : events' = Append(events, e)
      BY <2>10, <3>1 DEF ReceiveEnter, Entry
    <3> QED
      BY <2>8, <3>2
  <2>11. CASE \/ \E c \in Clients : Quit(c) \/ Process(c) \/ CloseSession(c)
              \/ Tick \/ UNCHANGED vars
    <3>1. decision' = decision /\ events' = events
      BY <2>11, Ticking DEF Quit, Process, CloseSession, vars, WelcomeMessage, EnterGameOK,
        PrintFull, NewClient, DisconnectClient, Drop
    <3> QED
      BY <2>3, <2>6, <3>1 DEF AtEntry
  <2> QED
    BY <2>3, <2>4, <2>9, <2>10, <2>11 DEF Next, Receive
<1> QED
  BY <1>1, <1>2

-----------------------------------------------------------------------------
(* What a client was told of. *)

LEMMA Grown ==
    ASSUME NEW q \in Seq(S2C), NEW p \in S2C, NEW x, NEW menu \in BOOLEAN, NEW t,
           t = Append(q, p), p.type = "disconnect" => p.id # x
    PROVE  /\ Awaited(q, x, menu) => Awaited(t, x, menu)
           /\ NoGoodbye(q, x, 0) => NoGoodbye(t, x, 0)
<1>1. /\ \A k \in DOMAIN q : k \in DOMAIN t /\ t[k] = q[k]
      /\ \A m \in DOMAIN t : m \in DOMAIN q \/ t[m] = p
  BY Appended
<1>2. ASSUME NEW k, NoGoodbye(q, x, k)
      PROVE  NoGoodbye(t, x, k)
  BY <1>1, <1>2 DEF NoGoodbye
<1>3. ASSUME Awaited(q, x, menu)
      PROVE  Awaited(t, x, menu)
  <2>1. PICK k \in DOMAIN q :
            /\ q[k].type \in {"new", "old"} /\ q[k].id = x /\ NoGoodbye(q, x, k)
            /\ menu \/ \E m \in DOMAIN q : m < k /\ q[m].type = "ok"
    BY <1>3 DEF Awaited
  <2>2. menu \/ \E m \in DOMAIN t : m < k /\ t[m].type = "ok"
    BY <1>1, <2>1
  <2> QED
    BY <1>1, <1>2, <2>1, <2>2 DEF Awaited
<1> QED
  BY <1>2, <1>3

LEMMA Arrived ==
    ASSUME NEW q \in Seq(S2C), NEW p \in S2C, NEW x, NEW menu \in BOOLEAN, NEW t,
           t = Append(q, p), p.type \in {"new", "old"}, p.id = x, menu \/ Acknowledged(q)
    PROVE  Awaited(t, x, menu)
<1>1. /\ DOMAIN t = 1 .. Len(q) + 1 /\ DOMAIN q = 1 .. Len(q) /\ Len(q) \in Nat
      /\ \A k \in DOMAIN q : t[k] = q[k]
      /\ t[Len(q) + 1] = p
  BY Appended
<1> DEFINE k == Len(q) + 1
<1>2. k \in DOMAIN t /\ t[k] = p /\ \A m \in DOMAIN t : ~(m > k)
  BY <1>1
<1>3. menu \/ \E m \in DOMAIN t : m < k /\ t[m].type = "ok"
  <2>1. ASSUME NEW m \in DOMAIN q
        PROVE  m < k /\ m \in DOMAIN t /\ t[m] = q[m]
    BY <1>1
  <2> QED
    BY <2>1 DEF Acknowledged
<1> HIDE DEF k
<1>4. NoGoodbye(t, x, k)
  BY <1>2 DEF NoGoodbye
<1> QED
  BY <1>2, <1>3, <1>4 DEF Awaited

(* Reading the head. *)
LEMMA Moved ==
    ASSUME NEW q \in Seq(S2C), q # <<>>, NEW t, t = Tail(q), NEW x
    PROVE  /\ NoGoodbye(q, x, 0) => NoGoodbye(t, x, 0)
           /\ Awaited(q, x, TRUE) =>
                 \/ Awaited(t, x, TRUE)
                 \/ /\ Head(q).type \in {"new", "old"} /\ Head(q).id = x
                    /\ NoGoodbye(t, x, 0)
           /\ Awaited(q, x, FALSE) => Awaited(t, x, Head(q).type = "ok")
<1>1. /\ Head(q) = q[1] /\ DOMAIN q \subseteq Nat \ {0} /\ DOMAIN t \subseteq Nat \ {0}
      /\ \A k \in DOMAIN t : k + 1 \in DOMAIN q /\ t[k] = q[k + 1]
      /\ \A k \in DOMAIN q : k = 1 \/ (k - 1 \in DOMAIN t /\ t[k - 1] = q[k])
  BY Taken
<1>2. ASSUME NEW k \in Nat, NoGoodbye(q, x, k), NEW j \in Nat, k <= j + 1
      PROVE  NoGoodbye(t, x, j)
  <2> SUFFICES ASSUME NEW m \in DOMAIN t, m > j, t[m].type = "disconnect"
               PROVE  t[m].id # x
    BY DEF NoGoodbye
  <2>1. m + 1 \in DOMAIN q /\ t[m] = q[m + 1] /\ m \in Nat
    BY <1>1
  <2>2. m + 1 > k
    BY <1>2, <2>1
  <2> QED
    BY <1>2, <2>1, <2>2 DEF NoGoodbye
<1>3. NoGoodbye(q, x, 0) => NoGoodbye(t, x, 0)
  BY <1>2
<1>4. ASSUME NEW menu \in BOOLEAN, NEW k \in DOMAIN q, k # 1,
             q[k].type \in {"new", "old"}, q[k].id = x, NoGoodbye(q, x, k),
             \/ menu
             \/ \E m \in DOMAIN q : m < k /\ q[m].type = "ok" /\ m # 1
      PROVE  Awaited(t, x, menu)
  <2>1. k - 1 \in DOMAIN t /\ t[k - 1] = q[k] /\ k \in Nat /\ k - 1 \in Nat
    BY <1>1, <1>4
  <2>2. NoGoodbye(t, x, k - 1)
    BY <1>2, <1>4, <2>1
  <2>3. menu \/ \E m \in DOMAIN t : m < k - 1 /\ t[m].type = "ok"
    <3>1. ASSUME NEW m \in DOMAIN q, m < k, m # 1
          PROVE  m - 1 \in DOMAIN t /\ t[m - 1] = q[m] /\ m - 1 < k - 1
      BY <1>1, <2>1, <3>1
    <3> QED
      BY <1>4, <3>1
  <2> QED
    BY <1>4, <2>1, <2>2, <2>3 DEF Awaited
<1>5. ASSUME Awaited(q, x, TRUE)
      PROVE  \/ Awaited(t, x, TRUE)
             \/ Head(q).type \in {"new", "old"} /\ Head(q).id = x /\ NoGoodbye(t, x, 0)
  <2>1. PICK k \in DOMAIN q : q[k].type \in {"new", "old"} /\ q[k].id = x /\ NoGoodbye(q, x, k)
    BY <1>5 DEF Awaited
  <2>2. CASE k = 1
    <3>1. NoGoodbye(t, x, 0)
      BY <1>2, <2>1, <2>2
    <3> QED
      BY <1>1, <2>1, <2>2, <3>1
  <2>3. CASE k # 1
    BY <1>4, <2>1, <2>3
  <2> QED
    BY <2>2, <2>3
<1>6. ASSUME Awaited(q, x, FALSE)
      PROVE  Awaited(t, x, Head(q).type = "ok")
  <2>1. PICK k \in DOMAIN q :
            /\ q[k].type \in {"new", "old"} /\ q[k].id = x /\ NoGoodbye(q, x, k)
            /\ \E m \in DOMAIN q : m < k /\ q[m].type = "ok"
    BY <1>6 DEF Awaited
  <2>2. PICK m \in DOMAIN q : m < k /\ q[m].type = "ok"
    BY <2>1
  <2>3. k # 1
    BY <1>1, <2>2
  <2>4. m = 1 => Head(q).type = "ok"
    BY <1>1, <2>2
  <2>5. (Head(q).type = "ok") \in BOOLEAN
    OBVIOUS
  <2> QED
    BY <1>4, <2>1, <2>2, <2>3, <2>4, <2>5
<1> QED
  BY <1>3, <1>5, <1>6

Known(c, x) == Listed(c, x) \/ Awaited(inbox[c], x, state[c] = "menu")

LEMMA InformedInit == Init => Informed
  BY DEF Init, Informed

(* The client keeps what it knows while packets arrive that are no         *)
(* Disconnect of it.                                                       *)
LEMMA KnownKept ==
    ASSUME TypeOK, NEW c \in Clients, NEW x, Known(c, x), NEW p \in S2C,
           inbox'[c] = Append(inbox[c], p), p.type = "disconnect" => p.id # x,
           state'[c] = state[c], tankId'[c] = tankId[c], roster'[c] = roster[c]
    PROVE  Known(c, x)'
<1>1. inbox[c] \in Seq(S2C) /\ (state[c] = "menu") \in BOOLEAN
  BY DEF TypeOK
<1>2. /\ Awaited(inbox[c], x, state[c] = "menu") => Awaited(inbox'[c], x, state[c] = "menu")
      /\ NoGoodbye(inbox[c], x, 0) => NoGoodbye(inbox'[c], x, 0)
  BY <1>1, Grown
<1> QED
  BY <1>2 DEF Known, Listed

LEMMA KnownAsBefore ==
    ASSUME NEW c \in Clients, NEW x, Known(c, x), inbox'[c] = inbox[c],
           state'[c] = state[c], tankId'[c] = tankId[c], roster'[c] = roster[c]
    PROVE  Known(c, x)'
  BY DEF Known, Listed

(* The client reads its first packet. *)
LEMMA KnownRead ==
    ASSUME TypeOK, NEW c \in Clients, NEW x, Known(c, x), Process(c)
    PROVE  Known(c, x)'
<1> DEFINE q == inbox[c]
           h == Head(inbox[c])
<1>1. /\ q \in Seq(S2C) /\ q # <<>> /\ inbox'[c] = Tail(q)
      /\ state[c] \in {"initializing", "menu"}
  BY DEF Process, WelcomeMessage, EnterGameOK, PrintFull, NewClient, DisconnectClient, Drop,
     Reads, TypeOK
<1>2. /\ NoGoodbye(q, x, 0) => NoGoodbye(Tail(q), x, 0)
      /\ Awaited(q, x, TRUE) =>
            \/ Awaited(Tail(q), x, TRUE)
            \/ h.type \in {"new", "old"} /\ h.id = x /\ NoGoodbye(Tail(q), x, 0)
      /\ Awaited(q, x, FALSE) => Awaited(Tail(q), x, h.type = "ok")
  BY <1>1, Moved
<1>3. CASE state[c] = "initializing"
  <2>1. Awaited(q, x, FALSE)
    BY <1>3 DEF Known, Listed
  <2>2. Awaited(Tail(q), x, h.type = "ok")
    BY <1>2, <2>1
  <2>3. IF h.type = "ok" THEN state'[c] = "menu" ELSE state'[c] = "initializing"
    BY <1>3 DEF Process, WelcomeMessage, EnterGameOK, PrintFull, NewClient, DisconnectClient,
       Drop, Reads, TypeOK
  <2>4. (h.type = "ok") = (state'[c] = "menu")
    BY <2>3
  <2> QED
    BY <1>1, <2>2, <2>4 DEF Known
<1>4. CASE state[c] = "menu"
  <2>1. /\ state'[c] = "menu" /\ tankId'[c] = tankId[c]
        /\ h.type \in {"new", "old"} => roster'[c] = IF h.id = tankId[c] THEN roster[c]
                                                     ELSE roster[c] \cup {h.id}
        /\ h.type = "disconnect" => roster'[c] = roster[c] \ {h.id}
        /\ h.type \notin {"new", "old", "disconnect"} => roster'[c] = roster[c]
    <3>1. CASE NewClient(c)
      BY <1>4, <3>1 DEF NewClient, Reads, Id, TypeOK
    <3>2. CASE DisconnectClient(c)
      BY <1>4, <3>2 DEF DisconnectClient, Reads, Id, TypeOK
    <3>3. CASE Drop(c)
      BY <1>4, <3>3 DEF Drop, Reads
    <3> QED
      BY <1>4, <3>1, <3>2, <3>3 DEF Process, WelcomeMessage, EnterGameOK, PrintFull
  <2>2. CASE Listed(c, x)
    <3>1. x \in roster[c] \cup {tankId[c]} /\ NoGoodbye(q, x, 0)
      BY <2>2 DEF Listed
    <3>2. h.type = "disconnect" => h.id # x
      <4>1. 1 \in DOMAIN q /\ h = q[1]
        BY <1>1, Taken
      <4> QED
        BY <3>1, <4>1 DEF NoGoodbye
    <3>3. x \in roster'[c] \cup {tankId[c]}
      BY <2>1, <3>1, <3>2
    <3> QED
      BY <1>1, <1>2, <2>1, <3>1, <3>3 DEF Known, Listed
  <2>3. CASE Awaited(q, x, TRUE)
    <3>1. CASE Awaited(Tail(q), x, TRUE)
      BY <1>1, <2>1, <3>1 DEF Known
    <3>2. CASE h.type \in {"new", "old"} /\ h.id = x /\ NoGoodbye(Tail(q), x, 0)
      BY <1>1, <2>1, <3>2 DEF Known, Listed
    <3> QED
      BY <1>2, <2>3, <3>1, <3>2
  <2> QED
    BY <1>4, <2>2, <2>3 DEF Known
<1> QED
  BY <1>1, <1>3, <1>4

LEMMA InformedStep ==
    ASSUME TypeOK, Seats, Room, Answered, Informed, [Next]_vars
    PROVE  Informed'
<1>0. \A c \in Clients : \A x \in told[c] : Known(c, x)
  BY DEF Informed, Known
<1> SUFFICES ASSUME NEW c \in Clients, NEW x \in told'[c]
             PROVE  Known(c, x)'
  BY DEF Informed, Known
<1>1. inbox[c] \in Seq(S2C) /\ (state[c] = "menu") \in BOOLEAN
  BY DEF TypeOK
<1>2. CASE \E d \in Clients : Connect(d)
  <2>1. PICK d \in Clients : Connect(d)
    BY <1>2
  <2>2. /\ state[d] = "outside" /\ inbox[d] = <<>> /\ told' = told
        /\ UNCHANGED <<inbox, tankId, roster>>
        /\ \A e \in Clients \ {d} : state'[e] = state[e]
    BY <2>1 DEF Connect, Seats, TypeOK
  <2>3. c # d
    BY <1>0, <2>2 DEF Known, Listed, Awaited
  <2> QED
    BY <1>0, <2>2, <2>3, KnownAsBefore
<1>3. CASE \E d \in Clients : Quit(d)
  <2>1. PICK d \in Clients : Quit(d)
    BY <1>3
  <2>2. /\ told'[d] = {}
        /\ c # d =>
              /\ inbox'[c] = inbox[c] /\ state'[c] = state[c]
              /\ tankId'[c] = tankId[c] /\ roster'[c] = roster[c] /\ told'[c] = told[c]
    BY <2>1 DEF Quit, TypeOK
  <2>3. /\ inbox'[c] = inbox[c] /\ state'[c] = state[c]
        /\ tankId'[c] = tankId[c] /\ roster'[c] = roster[c] /\ x \in told[c]
    BY <2>2
  <2>4. Known(c, x)
    BY <1>0, <2>3
  <2> QED
    BY <2>3, <2>4, KnownAsBefore
<1>4. ASSUME NEW d \in Clients, Process(d)
      PROVE  Known(c, x)'
  <2>1. told' = told
    BY <1>4 DEF Process, WelcomeMessage, EnterGameOK, PrintFull, NewClient, DisconnectClient, Drop
  <2>2. CASE d = c
    BY <1>0, <1>4, <2>1, <2>2, KnownRead
  <2>3. CASE d # c
    <3>1. /\ inbox'[c] = inbox[c] /\ state'[c] = state[c]
          /\ tankId'[c] = tankId[c] /\ roster'[c] = roster[c]
      <4>1. CASE WelcomeMessage(d) \/ PrintFull(d)
        BY <2>3, <4>1 DEF WelcomeMessage, PrintFull, Reads, TypeOK
      <4>2. CASE EnterGameOK(d)
        BY <2>3, <4>2 DEF EnterGameOK, Reads, TypeOK
      <4>3. CASE NewClient(d) \/ DisconnectClient(d) \/ Drop(d)
        BY <2>3, <4>3 DEF NewClient, DisconnectClient, Drop, Reads, TypeOK
      <4> QED
        BY <1>4, <4>1, <4>2, <4>3 DEF Process
    <3> QED
      BY <1>0, <2>1, <3>1, KnownAsBefore
  <2> QED
    BY <2>2, <2>3
<1>5. CASE \/ \E d \in Clients : ReceiveEnter(d) \/ CloseSession(d)
           \/ SilentStep \/ UNCHANGED vars
  <2>1. UNCHANGED <<told, inbox, state, tankId, roster>>
    BY <1>5, Silent DEF ReceiveEnter, CloseSession, vars
  <2> QED
    BY <1>0, <2>1, KnownAsBefore
<1>6. CASE SendStep
  <2>0. UNCHANGED <<state, tankId, roster>>
    BY <1>6, SendLeaves
  <2>1. ASSUME x \in told[c], ~(SendDisconnect /\ c \in Listeners /\ x = clientId[at])
        PROVE  Known(c, x)'
    <3>1. PICK p \in S2C : /\ Delivers(p)
                           /\ p.type = "disconnect" => SendDisconnect /\ p.id = clientId[at]
      BY <1>6, Sending
    <3>2. CASE inbox'[c] = inbox[c]
      BY <1>0, <2>0, <2>1, <3>2, KnownAsBefore
    <3>3. CASE c \in Listeners /\ inbox'[c] = Append(inbox[c], p)
      BY <1>0, <2>0, <2>1, <3>1, <3>3, KnownKept
    <3> QED
      BY <3>1, <3>2, <3>3 DEF Delivers
  <2>2. ASSUME Playing(c), NEW p \in S2C, p.type \in {"new", "old"}, p.id = x,
               inbox'[c] = Append(inbox[c], p)
        PROVE  Known(c, x)'
    <3>1. state[c] = "menu" \/ Acknowledged(inbox[c])
      BY <2>2 DEF Playing, Acknowledged
    <3>2. Awaited(inbox'[c], x, state[c] = "menu")
      BY <1>1, <2>2, <3>1, Arrived
    <3> QED
      BY <2>0, <3>2 DEF Known
  <2>3. CASE SendNewClient
    <3>1. Slot \in Slots
      BY <2>3, Busy DEF SendNewClient
    <3>2. CASE x \in told[c]
      BY <2>1, <2>3, <3>2 DEF SendNewClient, SendDisconnect
    <3>3. CASE x \notin told[c]
      <4>1. x = Slot /\ c \in Listeners /\ Playing(c)
        BY <2>3, <3>3 DEF SendNewClient
      <4>2. PICK p \in S2C : p = Packet("new", Slot) /\ p.type = "new" /\ p.id = Slot
        <5>1. /\ Packet("new", Slot) \in S2C /\ Packet("new", Slot).type = "new"
              /\ Packet("new", Slot).id = Slot
          BY <3>1 DEF Packet, S2C
        <5> QED
          BY <5>1
      <4>3. inbox'[c] = Append(inbox[c], p)
        BY <2>3, <4>1, <4>2, SentAll DEF SendNewClient
      <4> QED
        BY <2>2, <4>1, <4>2, <4>3
    <3> QED
      BY <3>2, <3>3
  <2>4. CASE SendOldClient
    <3>1. Slot \in Slots /\ decision = "tell"
      BY <2>4, Busy DEF SendOldClient
    <3>2. CASE x \in told[c]
      BY <2>1, <2>4, <3>2 DEF SendOldClient, SendDisconnect
    <3>3. CASE x \notin told[c]
      <4>1. x = clientId[enemy] /\ Listens(c, Slot) /\ (Playing(c) \/ c \in entered)
        BY <2>4, <3>3 DEF SendOldClient
      <4>2. Playing(c)
        BY <3>1, <4>1 DEF Answered
      <4>3. PICK p \in S2C : /\ p = Packet("old", clientId[enemy]) /\ p.type = "old"
                             /\ p.id = clientId[enemy]
        <5>1. /\ Packet("old", clientId[enemy]) \in S2C
              /\ Packet("old", clientId[enemy]).type = "old"
              /\ Packet("old", clientId[enemy]).id = clientId[enemy]
          BY DEF Packet, S2C, TypeOK
        <5> QED
          BY <5>1
      <4>4. inbox'[c] = Append(inbox[c], p)
        BY <2>4, <3>1, <4>1, <4>3, SentTo DEF SendOldClient
      <4> QED
        BY <2>2, <4>1, <4>2, <4>3, <4>4
    <3> QED
      BY <3>2, <3>3
  <2>5. CASE SendDisconnect
    <3>1. IF c \in Listeners THEN told'[c] = told[c] \ {clientId[at]} ELSE told'[c] = told[c]
      BY <2>5 DEF SendDisconnect
    <3> QED
      BY <2>1, <3>1
  <2>6. CASE FullGame \/ SendWelcome \/ SendEnterGameOK
    <3>1. told' = told /\ decision # decision'
      BY <2>6, AfterIs DEF FullGame, SendWelcome, SendEnterGameOK, GoOn
    <3>2. ~SendDisconnect
      BY <3>1 DEF SendDisconnect
    <3> QED
      BY <2>1, <3>1, <3>2
  <2> QED
    BY <1>6, <2>3, <2>4, <2>5, <2>6 DEF SendStep
<1> QED
  BY <1>2, <1>3, <1>4, <1>5, <1>6, ThreadSteps DEF Next, Receive

-----------------------------------------------------------------------------
(* Whoever is told of the older clients plays. *)

Settled(c) == \/ Playing(c)
              \/ /\ c \notin entered
                 /\ \A k \in DOMAIN inbox[c] : inbox[c][k].type # "welcome"

LEMMA AnsweredInit == Init => Answered
  BY DEF Init, Answered

(* Another packet, and the first one read. *)
LEMMA SettledSent ==
    ASSUME TypeOK, NEW c \in Clients, Settled(c), NEW p \in S2C, p.type # "welcome",
           inbox'[c] = inbox[c] \/ inbox'[c] = Append(inbox[c], p),
           state'[c] = state[c], entered' = entered
    PROVE  Settled(c)'
<1>1. inbox[c] \in Seq(S2C)
  BY DEF TypeOK
<1>2. /\ \A k \in DOMAIN inbox[c] : k \in DOMAIN inbox'[c] /\ inbox'[c][k] = inbox[c][k]
      /\ \A k \in DOMAIN inbox'[c] : \/ k \in DOMAIN inbox[c] /\ inbox'[c][k] = inbox[c][k]
                                     \/ inbox'[c][k] = p
  BY <1>1, Appended
<1> QED
  BY <1>2 DEF Settled, Playing

LEMMA SettledRead ==
    ASSUME TypeOK, NEW c \in Clients, Settled(c), Process(c)
    PROVE  Settled(c)'
<1>1. /\ inbox[c] \in Seq(S2C) /\ inbox[c] # <<>> /\ inbox'[c] = Tail(inbox[c])
      /\ state[c] = "menu" => state'[c] = "menu"
      /\ Head(inbox[c]).type = "ok" => state'[c] = "menu"
  BY DEF Process, WelcomeMessage, EnterGameOK, PrintFull, NewClient, DisconnectClient, Drop,
     Reads, TypeOK
<1>2. /\ 1 \in DOMAIN inbox[c] /\ Head(inbox[c]) = inbox[c][1]
      /\ \A k \in DOMAIN inbox'[c] : k + 1 \in DOMAIN inbox[c] /\ inbox'[c][k] = inbox[c][k + 1]
      /\ \A k \in DOMAIN inbox[c] :
            k = 1 \/ (k - 1 \in DOMAIN inbox'[c] /\ inbox'[c][k - 1] = inbox[c][k])
  BY <1>1, Taken
<1>3. CASE Playing(c)
  <2>1. CASE state[c] = "menu"
    BY <1>1, <2>1 DEF Settled, Playing
  <2>2. ASSUME NEW k \in DOMAIN inbox[c], inbox[c][k].type = "ok"
        PROVE  Settled(c)'
    <3>1. CASE k = 1
      <4>1. state'[c] = "menu"
        BY <1>1, <1>2, <2>2, <3>1
      <4> QED
        BY <4>1 DEF Settled, Playing
    <3>2. CASE k # 1
      <4>1. k - 1 \in DOMAIN inbox'[c] /\ inbox'[c][k - 1].type = "ok"
        BY <1>2, <2>2, <3>2
      <4> QED
        BY <4>1 DEF Settled, Playing
    <3> QED
      BY <3>1, <3>2
  <2> QED
    BY <1>3, <2>1, <2>2 DEF Playing
<1>4. CASE ~Playing(c)
  <2>1. c \notin entered /\ \A k \in DOMAIN inbox[c] : inbox[c][k].type # "welcome"
    BY <1>4 DEF Settled
  <2>2. ~WelcomeMessage(c)
    BY <1>2, <2>1 DEF WelcomeMessage, Reads
  <2>3. c \notin entered'
    BY <2>1, <2>2 DEF Process, EnterGameOK, PrintFull, NewClient, DisconnectClient, Drop
  <2> QED
    BY <1>2, <2>1, <2>3 DEF Settled
<1> QED
  BY <1>3, <1>4

LEMMA AnsweredStep ==
    ASSUME TypeOK, Seats, Room, Answered, [Next]_vars
    PROVE  Answered'
<1> USE LobbyAssumption
<1> SUFFICES ASSUME decision' \in {"look", "tell"}, NEW c \in Clients, Listens(c, Slot)'
             PROVE  Settled(c)'
  BY DEF Answered, Settled
<1>1. ASSUME decision \in {"look", "tell"}, Listens(c, Slot)
      PROVE  Settled(c)
  BY <1>1 DEF Answered, Settled
<1>2. decision \in {"look", "tell"} => events # <<>> /\ Slot \in Slots
  BY Busy
<1>3. CASE SendEnterGameOK
  <2>1. PICK i \in Slots : i = Slot
    BY <1>3, Busy DEF SendEnterGameOK
  <2>2. events' = events /\ UNCHANGED <<state, session>>
    BY <1>3, AfterIs DEF SendEnterGameOK, GoOn
  <2>3. Listens(c, i)
    BY <2>1, <2>2 DEF Listens, Slot
  <2>4. PICK p \in S2C : p = Packet("ok", i) /\ p.type = "ok"
    <3>1. Packet("ok", i) \in S2C /\ Packet("ok", i).type = "ok"
      BY DEF Packet, S2C
    <3> QED
      BY <3>1
  <2>5. inbox'[c] = Append(inbox[c], p) /\ inbox[c] \in Seq(S2C)
    BY <1>3, <2>1, <2>3, <2>4, SentTo DEF SendEnterGameOK, TypeOK
  <2>6. \E k \in DOMAIN inbox'[c] : inbox'[c][k].type = "ok"
    <3>1. /\ Len(inbox[c]) + 1 \in DOMAIN inbox'[c]
          /\ inbox'[c][Len(inbox[c]) + 1] = p
      BY <2>5, Appended
    <3> QED
      BY <2>4, <3>1
  <2> QED
    BY <2>6 DEF Settled, Playing
<1>4. CASE LookAtEnemy \/ SendOldClient \/ Tick
  <2>1. /\ decision \in {"look", "tell"} /\ events' = events
        /\ UNCHANGED <<state, session, entered>>
    <3>1. CASE LookAtEnemy \/ SendOldClient
      <4>1. Main /\ ~CountSessions
        BY <3>1 DEF Main, LookAtEnemy, SendOldClient, CountSessions
      <4>2. events' = events
        BY <4>1, Going
      <4>3. UNCHANGED <<state, session, entered>> /\ decision \in {"look", "tell"}
        BY <3>1 DEF LookAtEnemy, SendOldClient
      <4> QED
        BY <4>2, <4>3
    <3>2. CASE Tick
      BY <3>2, Ticking, ThreadSteps, Silent, SendLeaves
    <3> QED
      BY <1>4, <3>1, <3>2
  <2>2. Settled(c)
    BY <1>1, <2>1 DEF Listens, Slot
  <2>3. PICK p \in S2C : /\ p.type # "welcome"
                         /\ inbox'[c] = inbox[c] \/ inbox'[c] = Append(inbox[c], p)
    <3>1. CASE LookAtEnemy \/ LookAtSession \/ DisconnectTank
      <4>1. Packet("old", 0) \in S2C /\ Packet("old", 0).type # "welcome"
        BY DEF Packet, S2C
      <4> QED
        BY <3>1, <4>1, Silent DEF SilentStep
    <3>2. CASE SendOldClient \/ SendDisconnect
      <4>1. ~SendWelcome
        BY <2>1, <3>2 DEF SendWelcome
      <4> QED
        BY <3>2, <4>1, Sending DEF SendStep, Delivers
    <3> QED
      BY <1>4, <3>1, <3>2 DEF Tick
  <2> QED
    BY <2>1, <2>2, <2>3, SettledSent
<1>5. ASSUME NEW d \in Clients, Connect(d)
      PROVE  Settled(c)'
  <2>1. PICK i \in Slots : /\ session' = [session EXCEPT ![i] = d]
                           /\ events' = Append(events, [type |-> "new", slot |-> i])
    BY <1>5 DEF Connect
  <2>2. decision \in {"look", "tell"} /\ UNCHANGED <<inbox, entered>>
    BY <1>5 DEF Connect
  <2>3. Slot' = Slot
    <3>1. [type |-> "new", slot |-> i] \in Entry /\ events \in Seq(Entry)
      BY DEF Entry, TypeOK
    <3>2. Head(events') = Head(events)
      BY <1>2, <2>1, <2>2, <3>1, Appended
    <3> QED
      BY <3>2 DEF Slot
  <2>4. CASE c = d
    <3>1. inbox[c] = <<>> /\ c \notin entered
      BY <1>5, <2>4 DEF Connect, Seats
    <3> QED
      BY <2>2, <3>1 DEF Settled
  <2>5. CASE c # d
    <3>1. state'[c] = state[c]
      BY <1>5, <2>5 DEF Connect, TypeOK
    <3>2. Listens(c, Slot)
      BY <1>2, <2>1, <2>2, <2>3, <2>5, <3>1 DEF Listens, TypeOK
    <3>3. Settled(c)
      BY <1>1, <2>2, <3>2
    <3> QED
      BY <2>2, <3>1, <3>3 DEF Settled, Playing
  <2> QED
    BY <2>4, <2>5
<1>6. ASSUME NEW d \in Clients, Quit(d)
      PROVE  Settled(c)'
  <2>1. c # d
    BY <1>6 DEF Quit, Listens, TypeOK
  <2>2. /\ state'[c] = state[c] /\ inbox'[c] = inbox[c]
        /\ UNCHANGED <<session, events, decision, entered>>
    BY <1>6, <2>1 DEF Quit, TypeOK
  <2>3. Settled(c)
    BY <1>1, <2>2 DEF Listens, Slot
  <2> QED
    BY <2>2, <2>3 DEF Settled, Playing
<1>7. ASSUME NEW d \in Clients, Process(d)
      PROVE  Settled(c)'
  <2>1. UNCHANGED <<session, events, decision>> /\ (state'[c] # "gone" => state[c] # "gone")
    BY <1>7 DEF Process, WelcomeMessage, EnterGameOK, PrintFull, NewClient, DisconnectClient,
       Drop, TypeOK
  <2>2. Settled(c)
    BY <1>1, <2>1 DEF Listens, Slot
  <2>3. CASE c = d
    BY <1>7, <2>2, <2>3, SettledRead
  <2>4. CASE c # d
    <3>1. inbox'[c] = inbox[c] /\ state'[c] = state[c] /\ (c \in entered' => c \in entered)
      <4>1. CASE WelcomeMessage(d)
        BY <2>4, <4>1 DEF WelcomeMessage, Reads, TypeOK
      <4>2. CASE EnterGameOK(d)
        BY <2>4, <4>2 DEF EnterGameOK, Reads, TypeOK
      <4>3. CASE PrintFull(d) \/ NewClient(d) \/ DisconnectClient(d) \/ Drop(d)
        BY <2>4, <4>3 DEF PrintFull, NewClient, DisconnectClient, Drop, Reads, TypeOK
      <4> QED
        BY <1>7, <4>1, <4>2, <4>3 DEF Process
    <3> QED
      BY <2>2, <3>1 DEF Settled, Playing
  <2> QED
    BY <2>3, <2>4
<1>8. ASSUME NEW d \in Clients, Receive(d)
      PROVE  Settled(c)'
  <2>1. /\ decision \in {"look", "tell"} /\ UNCHANGED <<inbox, state, entered>>
        /\ session'[Slot'] = c
    <3>1. CASE ReceiveEnter(d)
      BY <3>1 DEF ReceiveEnter, Listens
    <3>2. CASE CloseSession(d)
      BY <3>2 DEF CloseSession, Listens
    <3> QED
      BY <1>8, <3>1, <3>2 DEF Receive
  <2>2. Slot' = Slot
    <3>1. CASE ReceiveEnter(d)
      <4>1. held[d] \in Slots
        BY <3>1 DEF ReceiveEnter, Seats, TypeOK
      <4>2. [type |-> "enter", slot |-> held[d]] \in Entry /\ events \in Seq(Entry)
        BY <4>1 DEF Entry, TypeOK
      <4>3. Head(events') = Head(events)
        BY <1>2, <2>1, <3>1, <4>2, Appended DEF ReceiveEnter
      <4> QED
        BY <4>3 DEF Slot
    <3>2. CASE CloseSession(d)
      BY <3>2 DEF CloseSession, Slot
    <3> QED
      BY <1>8, <3>1, <3>2 DEF Receive
  <2>3. session'[Slot] = c => session[Slot] = c
    <3>1. CASE ReceiveEnter(d)
      BY <3>1 DEF ReceiveEnter
    <3>2. CASE CloseSession(d)
      BY <1>2, <2>1, <3>2 DEF CloseSession, TypeOK
    <3> QED
      BY <1>8, <3>1, <3>2 DEF Receive
  <2>4. Settled(c)
    BY <1>1, <2>1, <2>2, <2>3 DEF Listens
  <2> QED
    BY <2>1, <2>4 DEF Settled, Playing
<1>9. CASE UNCHANGED vars
  <2>1. Settled(c)
    BY <1>1, <1>9 DEF vars, Listens, Slot
  <2> QED
    BY <1>9, <2>1 DEF vars, Settled, Playing
<1>10. CASE Main
  BY <1>3, <1>4, <1>10, Going
<1> QED
  BY <1>4, <1>5, <1>6, <1>7, <1>8, <1>9, <1>10 DEF Next

-----------------------------------------------------------------------------
Kept == TypeOK /\ Seats /\ Asked /\ Room /\ AdmittedBound /\ Answered /\ Informed

LEMMA KeptInit == Init => Kept
  BY TypeInit, SeatsInit, AskedInit, RoomInit, AnsweredInit, InformedInit DEF Kept

LEMMA KeptStep == Kept /\ [Next]_vars => Kept'
<1> SUFFICES ASSUME Kept, [Next]_vars
             PROVE  Kept'
  OBVIOUS
<1>1. TypeOK /\ Seats /\ Asked /\ Room /\ AdmittedBound /\ Answered /\ Informed
  BY DEF Kept
<1>2. TypeOK'
  BY <1>1, TypeStep
<1>3. Seats'
  BY <1>1, SeatsStep
<1>4. Asked'
  BY <1>1, <1>2, AskedStep
<1>5. Room' /\ AdmittedBound'
  BY <1>1, RoomStep
<1>6. Informed'
  BY <1>1, InformedStep
<1>7. Answered'
  BY <1>1, AnsweredStep
<1> QED
  BY <1>2, <1>3, <1>4, <1>5, <1>6, <1>7 DEF Kept

LEMMA KeptAlways == Spec => []Kept
  BY KeptInit, KeptStep, PTL DEF Spec

(***************************************************************************)
(* Clients, slots, entries and packets fit each other at every step, and a *)
(* client in the menu, or an earlier holder of its slot, has asked to      *)
(* enter (main.cpp:261-303, process_packet.cpp:55-75).                     *)
(***************************************************************************)
THEOREM LobbyKept == Spec => []LobbyInv
<1>1. Kept => LobbyInv
  BY DEF Kept, LobbyInv, OkNeedsEnter, Asked, Playing
<1> QED
  BY <1>1, KeptAlways, PTL

(***************************************************************************)
(* The count of sessions and the answer are two steps (main.cpp:270-281):  *)
(* for any number of clients and slots, no more than MaxPlayers + 1 of     *)
(* those that hold a slot were ever let in.                                *)
(***************************************************************************)
THEOREM AdmissionBounded == Spec => []AdmittedBound
<1>1. Kept => AdmittedBound
  BY DEF Kept
<1> QED
  BY <1>1, KeptAlways, PTL

(***************************************************************************)
(* A client that has read everything lists all the players it was told of  *)
(* since its EnterGameOK (process_packet.cpp:71-102).                      *)
(***************************************************************************)
THEOREM ToldIsListed == Spec => []RosterTold
<1>1. Kept => RosterTold
  <2> SUFFICES ASSUME Kept, NEW c \in Clients, state[c] = "menu", inbox[c] = <<>>,
                      NEW x \in told[c] \ {tankId[c]}
               PROVE  x \in roster[c]
    BY DEF RosterTold
  <2>1. Listed(c, x)
    BY DEF Kept, Informed, Awaited
  <2> QED
    BY <2>1 DEF Listed
<1> QED
  BY <1>1, KeptAlways, PTL

-----------------------------------------------------------------------------
(* Startup. *)

Open    == {"listening", "receiving", "looping"}
Servers == {"off", "game thread", "socket", "bound", "ended"} \cup Open

StartKept ==
    /\ server \in Servers /\ backlog \in Seq(Clients)
    /\ process \in [Clients -> {"off", "socket", "running", "over"}]
    /\ misled \in [Clients -> SUBSET Slots]
    /\ \A c \in Clients : process[c] = "running" => server \in Open

LEMMA StagesNamed ==
    /\ Servers = {Stages[i] : i \in DOMAIN Stages} \cup {"ended"}
    /\ Reached("listening") => server \in Open
<1>1. DOMAIN Stages = 1 .. 7
  BY DEF Stages
<1>2. /\ Stages[1] = "off" /\ Stages[2] = "game thread" /\ Stages[3] = "socket"
      /\ Stages[4] = "bound" /\ Stages[5] = "listening" /\ Stages[6] = "receiving"
      /\ Stages[7] = "looping"
  BY DEF Stages
<1>3. \A i \in 1 .. 7 : i = 1 \/ i = 2 \/ i = 3 \/ i = 4 \/ i = 5 \/ i = 6 \/ i = 7
  OBVIOUS
<1>4. \A i \in 1 .. 7 : Stages[i] \in Servers
  BY <1>2, <1>3 DEF Servers, Open
<1>5. \A s \in Servers : s = "ended" \/ \E i \in 1 .. 7 : Stages[i] = s
  <2>1. \A s \in Servers :
            \/ s = "ended" \/ s = Stages[1] \/ s = Stages[2] \/ s = Stages[3]
            \/ s = Stages[4] \/ s = Stages[5] \/ s = Stages[6] \/ s = Stages[7]
    BY <1>2 DEF Servers, Open
  <2>2. /\ 1 \in 1 .. 7 /\ 2 \in 1 .. 7 /\ 3 \in 1 .. 7 /\ 4 \in 1 .. 7
        /\ 5 \in 1 .. 7 /\ 6 \in 1 .. 7 /\ 7 \in 1 .. 7
    OBVIOUS
  <2> QED
    BY <2>1, <2>2
<1>6. Servers = {Stages[i] : i \in DOMAIN Stages} \cup {"ended"}
  <2>1. "ended" \in Servers
    BY DEF Servers
  <2> QED
    BY <1>1, <1>4, <1>5, <2>1
<1>7. ASSUME NEW i \in 1 .. 7, NEW j \in 1 .. 7, Stages[i] = "listening", i <= j
      PROVE  Stages[j] \in Open
  <2>1. i \notin {1, 2, 3, 4}
    BY <1>2, <1>7
  <2>2. j \in {5, 6, 7}
    BY <1>7, <2>1
  <2> QED
    BY <1>2, <2>2 DEF Open
<1>8. Reached("listening") => server \in Open
  BY <1>1, <1>7 DEF Reached
<1> QED
  BY <1>6, <1>8

LEMMA StartKeptInit == StartupInit => StartKept
  BY DEF StartupInit, StartKept, Servers

LEMMA StartKeptStep ==
    ASSUME StartKept, [StartupNext]_allVars
    PROVE  StartKept'
<1> USE DEF StartKept
<1>1. CASE StartServer
  BY <1>1 DEF StartServer, InitGameServer, OpenSocket, Bind, Listen, CreateRecvThread,
     WakeUp, OrEnd, Advance, Open, Servers
<1>2. ASSUME NEW c \in Clients, ConnectToServer(c)
      PROVE  StartKept'
  <2>1. Append(backlog, c) \in Seq(Clients)
    BY AppendProperties
  <2>2. CASE Reached("listening") /\ Goes(c, "socket", "running") /\ backlog' = Append(backlog, c)
    <3>1. server' = server /\ server \in Open /\ misled' = misled
      BY <2>2, StagesNamed DEF Goes
    <3>2. process' = [process EXCEPT ![c] = "running"]
      BY <2>2 DEF Goes
    <3> QED
      BY <2>1, <2>2, <3>1, <3>2
  <2>3. CASE Goes(c, "socket", "over") /\ UNCHANGED backlog
    BY <2>3 DEF Goes
  <2> QED
    BY <1>2, <2>2, <2>3 DEF ConnectToServer
<1>3. CASE Accept
  BY <1>3, HeadTailProperties DEF Accept
<1>4. CASE \E c \in Clients : StartClient(c) \/ Leave(c)
  BY <1>4 DEF StartClient, Leave, Goes
<1>5. CASE \/ UNCHANGED allVars
           \/ \E c \in Clients : FoundGone(c) \/ Played(c) \/ Received(c)
  BY <1>5 DEF allVars, FoundGone, Played, Received, startVars, processVars
<1>6. CASE Handled \/ Ticked
  <2>1. UNCHANGED processVars
    BY <1>6 DEF Handled, Ticked
  <2>2. misled' \in [Clients -> SUBSET Slots]
    <3>1. CASE Handled
      BY <3>1 DEF Handled, NamedTo
    <3>2. CASE Ticked
      BY <3>2 DEF Ticked, WrongGoodbye
    <3> QED
      BY <1>6, <3>1, <3>2
  <2> QED
    BY <2>1, <2>2 DEF processVars
<1> QED
  BY <1>1, <1>2, <1>3, <1>4, <1>5, <1>6 DEF StartupNext

(* Whatever the processes do around Lobby is a step of Lobby, or none. *)
LEMMA StartupStepsLobby ==
    ASSUME StartKept, [StartupNext]_allVars
    PROVE  [Next]_vars
<1>1. CASE StartServer
  BY <1>1 DEF StartServer, InitGameServer, OpenSocket, Bind, Listen, CreateRecvThread, WakeUp,
     OrEnd, Advance
<1>2. CASE UNCHANGED allVars
  BY <1>2 DEF allVars
<1>3. CASE Accept
  <2>1. backlog # <<>> /\ backlog \in Seq(Clients)
    BY <1>3 DEF Accept, StartKept
  <2>2. Head(backlog) \in Clients
    BY <2>1, HeadTailProperties
  <2> QED
    BY <1>3, <2>2 DEF Accept, Next
<1>4. CASE Handled \/ Ticked
  BY <1>4 DEF Handled, Ticked, Next
<1>5. ASSUME NEW c \in Clients, StartClient(c) \/ ConnectToServer(c)
      PROVE  [Next]_vars
  BY <1>5 DEF StartClient, ConnectToServer
<1>6. ASSUME NEW c \in Clients, Leave(c) \/ FoundGone(c)
      PROVE  [Next]_vars
  BY <1>6 DEF Leave, FoundGone, Next
<1>7. ASSUME NEW c \in Clients, Played(c) \/ Received(c)
      PROVE  [Next]_vars
  BY <1>7 DEF Played, Received, Next
<1> QED
  BY <1>1, <1>2, <1>3, <1>4, <1>5, <1>6, <1>7 DEF StartupNext

LEMMA StartKeptAlways == StartupSpec => []StartKept
<1>1. StartKept /\ [StartupNext]_allVars => StartKept'
  BY StartKeptStep
<1> QED
  BY <1>1, StartKeptInit, PTL DEF StartupSpec

(***************************************************************************)
(* However the processes come up, fail to, and go, what happens after      *)
(* accept() is Lobby (main.cpp:241-305): its invariants hold there too.    *)
(***************************************************************************)
THEOREM StartupPlaysLobby == StartupSpec => Spec
<1>1. StartupInit => Init
  BY DEF StartupInit
<1>2. StartKept /\ [StartupNext]_allVars => [Next]_vars
  BY StartupStepsLobby
<1> QED
  BY <1>1, <1>2, StartKeptAlways, PTL DEF StartupSpec, Spec

(***************************************************************************)
(* A server whose set-up fails leaves no client connected, at whatever     *)
(* call it fails (main.cpp:241-259).                                       *)
(***************************************************************************)
THEOREM StartupSafe == StartupSpec => []StartupInv
<1>1. Kept /\ StartKept => StartupInv
  BY StagesNamed DEF Kept, StartKept, StartupInv, StartupTypeOK, NobodyStranded, Open
<1>2. StartupSpec => []Kept
  BY StartupPlaysLobby, KeptAlways, PTL
<1> QED
  BY <1>1, <1>2, StartKeptAlways, PTL

=============================================================================
