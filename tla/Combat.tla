------------------------------- MODULE Combat -------------------------------
(***************************************************************************)
(* Missiles, hits, deaths and respawns: the server's game thread           *)
(* (GameUpdate in main.cpp) and the main thread that feeds it.             *)
(*                                                                         *)
(* The game thread alternates between frames, in which it goes through the *)
(* tanks (respawn, drain input_queue with a collision test per input,      *)
(* drain turret_input_queue) and then moves the missiles, and ticks, in    *)
(* which it announces everything and erases missiles.  The main thread     *)
(* handles EnterGame, ClickStart and the input packets meanwhile.          *)
(*                                                                         *)
(* Abstractions.  Geometry: which missiles an input meets and which leave  *)
(* the screen is a choice.  A missile is numbered in the order of firing,  *)
(* which is its id and its place in g_missiles.  respawn_timer counts      *)
(* frames.  A client joins and enters in two steps; what it sent is        *)
(* received before it leaves (Lobby has packets that outlive their         *)
(* sender).  Clients take the packets of a tick at once (ClientApp has     *)
(* them on their way, and the entry 0 a CLICKSTART makes).                 *)
(*                                                                         *)
(* What is one step.  The tick looks at a tank's session, disconnects the  *)
(* tank and announces in three steps, and a respawn counts down and brings *)
(* the tank back in two, for the main thread works in between.  One step   *)
(* each are: an input with its loop over g_missiles and the refill of the  *)
(* hp (main.cpp:88-146), one tank's announcement of all missiles, the loop *)
(* that erases, what EnterGame writes, and the acceptance of a client with *)
(* NewAccept.  The queues are std::queues without a lock, whose push and   *)
(* pop are taken as atomic.                                                *)
(***************************************************************************)
EXTENDS Integers, FiniteSets

CONSTANTS
    MaxSlot,        \* slots are 0 .. MaxSlot
    MaxMissiles,    \* bound: missiles ever fired
    MaxJoins,       \* bound: clients that ever join
    MaxPending,     \* bound: movement inputs waiting for one tank
    MaxHp,          \* max_hp, 100 in process_packet.cpp
    Damage,         \* 20 in main.cpp
    RespawnFrames   \* frames in the respawn time of one second

ASSUME CombatAssumption ==
    /\ MaxSlot \in Nat /\ MaxMissiles \in Nat /\ MaxJoins \in Nat
    /\ MaxPending \in Nat \ {0} /\ RespawnFrames \in Nat \ {0}
    /\ Damage \in Nat \ {0} /\ MaxHp \in Nat /\ MaxHp >= Damage
    /\ MaxHp % Damage = 0

Slots    == 0 .. MaxSlot
Missiles == 1 .. MaxMissiles
Reward   == 10

(* What the tanks have together. *)
Total(f) == LET upTo[i \in Slots] == (IF i = 0 THEN 0 ELSE upTo[i - 1]) + f[i]
            IN upTo[MaxSlot]

VARIABLES
    \* clients
    stage,          \* slot -> "empty", "joined", "menu" or "play"
    joins,
    \* tanks
    connected,
    clientId,       \* client_id, 0 until the tank is first entered
    active, hp, timer, score,
    moves,          \* length of input_queue
    shots,          \* shots in turret_input_queue
    \* g_missiles
    fired,          \* missiles fired so far
    flight,         \* missile -> "none", "alive", "dead" or "erased"
    owner,          \* missile -> owner_id
    \* Application::missiles of the clients
    view,           \* missile -> slot -> "none" (no entry), "alive", "dead",
                    \* or "late": alive, though the server said it is dead
    \* game thread
    pc,             \* "idle"; of a frame "check", "revive", "drain", "turret"
                    \* and "fly", of a tick "tick", "forget", "tell", "erase"
    at,             \* the tank it is at
    \* history
    hits,           \* missile -> tanks it has damaged
    deaths,         \* deaths so far
    crowded,        \* hits of tanks that were dead already in the same input
    leftover,       \* slot -> when its holder entered, respawn_timer ran or
                    \* inputs of the client before it waited
    misjudged       \* slot -> its holder entered after the tick had found no
                    \* session for the tank and before it disconnected it

standing == <<hp, timer, score>>
queues   == <<moves, shots>>
tanks    == <<connected, clientId, active, standing, queues>>
missiles == <<fired, flight, owner>>
record   == <<hits, deaths, crowded>>
history  == <<record, leftover, misjudged>>
vars == <<stage, joins, tanks, missiles, view, pc, at, history>>

TypeOK ==
    /\ stage \in [Slots -> {"empty", "joined", "menu", "play"}]
    /\ joins \in 0 .. MaxJoins
    /\ connected \in [Slots -> BOOLEAN] /\ active \in [Slots -> BOOLEAN]
    /\ clientId \in [Slots -> Slots]
    /\ hp \in [Slots -> 0 .. MaxHp]
    /\ timer \in [Slots -> 0 .. RespawnFrames]
    /\ score \in [Slots -> Nat]
    /\ moves \in [Slots -> 0 .. MaxPending] /\ shots \in [Slots -> Nat]
    /\ fired \in 0 .. MaxMissiles
    /\ flight \in [Missiles -> {"none", "alive", "dead", "erased"}]
    /\ owner \in [Missiles -> Slots]
    /\ pc \in {"idle", "check", "revive", "drain", "turret", "fly",
               "tick", "forget", "tell", "erase"}
    /\ at \in Slots
    /\ view \in [Missiles -> [Slots -> {"none", "alive", "dead", "late"}]]
    /\ hits \in [Missiles -> SUBSET Slots]
    /\ deaths \in Nat /\ crowded \in Nat
    /\ leftover \in [Slots -> BOOLEAN] /\ misjudged \in [Slots -> BOOLEAN]

Init ==
    /\ stage = [i \in Slots |-> "empty"] /\ joins = 0
    /\ connected = [i \in Slots |-> FALSE]
    /\ clientId = [i \in Slots |-> 0]
    /\ active = [i \in Slots |-> FALSE]
    /\ hp = [i \in Slots |-> 0]
    /\ timer = [i \in Slots |-> 0]
    /\ score = [i \in Slots |-> 0]
    /\ moves = [i \in Slots |-> 0] /\ shots = [i \in Slots |-> 0]
    /\ fired = 0
    /\ flight = [m \in Missiles |-> "none"]
    /\ owner = [m \in Missiles |-> 0]
    /\ pc = "idle" /\ at = 0
    /\ view = [m \in Missiles |-> [i \in Slots |-> "none"]]
    /\ hits = [m \in Missiles |-> {}]
    /\ deaths = 0 /\ crowded = 0
    /\ leftover = [i \in Slots |-> FALSE]
    /\ misjudged = [i \in Slots |-> FALSE]

-----------------------------------------------------------------------------
(* Clients and the main thread. *)

Players == {i \in Slots : stage[i] \in {"menu", "play"}}

Join(i) ==
    /\ stage[i] = "empty" /\ joins < MaxJoins
    /\ stage' = [stage EXCEPT ![i] = "joined"]
    /\ joins' = joins + 1
    /\ connected' = [connected EXCEPT ![i] = TRUE]
    /\ leftover' = [leftover EXCEPT ![i] = FALSE]
    /\ UNCHANGED <<clientId, active, standing, queues, missiles, pc, at, view, record,
                   misjudged>>

Leave(i) ==
    /\ stage[i] # "empty"
    /\ stage' = [stage EXCEPT ![i] = "empty"]
    /\ view' = [m \in Missiles |-> [view[m] EXCEPT ![i] = "none"]]
    /\ misjudged' = [misjudged EXCEPT ![i] = FALSE]
    /\ UNCHANGED <<joins, tanks, missiles, pc, at, record, leftover>>

SameActive(i)  == active                            \* (mutant)
Deactivated(i) == [active EXCEPT ![i] = FALSE]

(* respawn_timer, score and the queues stay as they were. *)
EnterGame(i) ==
    /\ stage[i] = "joined"
    /\ stage' = [stage EXCEPT ![i] = "menu"]
    /\ connected' = [connected EXCEPT ![i] = TRUE]
    /\ clientId' = [clientId EXCEPT ![i] = i]
    /\ active' = Deactivated(i)
    /\ hp' = [hp EXCEPT ![i] = MaxHp]
    /\ leftover' = [leftover EXCEPT ![i] = \/ timer[i] > 0 \/ moves[i] > 0
                                           \/ pc = "revive" /\ at = i]
    /\ misjudged' = [misjudged EXCEPT ![i] = pc = "forget" /\ at = i]
    /\ UNCHANGED <<joins, timer, score, queues, missiles, pc, at, view, record>>

ClickStart(i) ==
    /\ stage[i] = "menu"
    /\ stage' = [stage EXCEPT ![i] = "play"]
    /\ active' = [active EXCEPT ![i] = TRUE]
    /\ UNCHANGED <<joins, connected, clientId, standing, queues, missiles, pc, at, view,
                   history>>

(* A movement and a turret packet are sent together. *)
Input(i, shot) ==
    /\ stage[i] = "play" /\ moves[i] < MaxPending
    /\ shot => fired + Total(shots) < MaxMissiles
    /\ moves' = [moves EXCEPT ![i] = @ + 1]
    /\ shots' = [shots EXCEPT ![i] = IF shot THEN @ + 1 ELSE @]
    /\ UNCHANGED <<stage, joins, connected, clientId, active, standing, missiles, pc, at,
                   view, history>>

-----------------------------------------------------------------------------
(* Game thread, frame: tank after tank. *)

Goto(here, there) == pc = here /\ pc' = there
NextTank(here, next, after) ==
    /\ pc = here
    /\ IF at < MaxSlot THEN at' = at + 1 /\ pc' = next ELSE at' = 0 /\ pc' = after

StartFrame ==
    /\ Goto("idle", "check")
    /\ UNCHANGED <<stage, joins, tanks, missiles, at, view, history>>

SkipTank ==
    /\ ~connected[at]
    /\ NextTank("check", "check", "fly")
    /\ UNCHANGED <<stage, joins, tanks, missiles, view, history>>

Dead(i) == ~active[i] /\ timer[i] > 0

Restarted(i) == RespawnFrames                       \* (mutant)
RunDown(i)   == timer[i] - 1

Respawn ==
    /\ connected[at] /\ Dead(at)
    /\ timer' = [timer EXCEPT ![at] = RunDown(at)]
    /\ IF timer'[at] = 0 THEN Goto("check", "revive") /\ UNCHANGED at
                         ELSE NextTank("check", "check", "fly")
    /\ UNCHANGED <<stage, joins, connected, clientId, active, hp, score, queues,
                   missiles, view, history>>

Revive ==
    /\ NextTank("revive", "check", "fly")
    /\ active' = [active EXCEPT ![at] = TRUE]
    /\ UNCHANGED <<stage, joins, connected, clientId, standing, queues, missiles, view,
                   history>>

BeginDrain ==
    /\ connected[at] /\ ~Dead(at)
    /\ Goto("check", "drain")
    /\ UNCHANGED <<stage, joins, tanks, missiles, at, view, history>>

(* The missiles an input can meet, and what meeting the set hit of them    *)
(* does: they are taken in order, and from the hit on that brings hp to 0  *)
(* or less each one is rewarded.                                           *)
Dangerous(i) == {m \in Missiles : flight[m] = "alive" /\ owner[m] # clientId[i]}
Rank(m, hit) == Cardinality({n \in hit : n <= m})
AlreadyDead(i, hit) == {m \in hit : hp[i] - Damage * (Rank(m, hit) - 1) <= 0}
Lethal(i, hit) == {m \in hit : hp[i] - Damage * Rank(m, hit) <= 0}
Dies(i, hit)   == hp[i] - Damage * Cardinality(hit) <= 0

(* (mutants) the missile flies on; it is gone at once; a dead tank keeps   *)
(* its 0                                                                   *)
FliesOn(hit)  == flight
Vanished(hit) == [m \in Missiles |-> IF m \in hit THEN "erased" ELSE flight[m]]
NoRefill(i, hit) == IF Dies(i, hit) THEN 0
                                    ELSE hp[i] - Damage * Cardinality(hit)

Spent(hit)  == [m \in Missiles |-> IF m \in hit THEN "dead" ELSE flight[m]]
HpAfter(i, hit) == IF Dies(i, hit) THEN MaxHp
                                   ELSE hp[i] - Damage * Cardinality(hit)

ApplyInput ==
    /\ pc = "drain" /\ moves[at] > 0
    /\ moves' = [moves EXCEPT ![at] = @ - 1]
    /\ \E hit \in SUBSET Dangerous(at) :
          /\ flight' = Spent(hit)
          /\ hp' = [hp EXCEPT ![at] = HpAfter(at, hit)]
          /\ score' = [i \in Slots |-> score[i] + Reward *
                          Cardinality({m \in Lethal(at, hit) : owner[m] = i})]
          /\ IF Dies(at, hit)
             THEN /\ active' = [active EXCEPT ![at] = FALSE]
                  /\ timer' = [timer EXCEPT ![at] = RespawnFrames]
                  /\ deaths' = deaths + 1
             ELSE UNCHANGED <<active, timer, deaths>>
          /\ hits' = [m \in Missiles |->
                         IF m \in hit THEN hits[m] \cup {at} ELSE hits[m]]
          /\ crowded' = crowded + Cardinality(AlreadyDead(at, hit))
    /\ UNCHANGED <<stage, joins, connected, clientId, shots, fired, owner, pc, at, view,
                   leftover, misjudged>>

EndDrain ==
    /\ moves[at] = 0
    /\ Goto("drain", "turret")
    /\ UNCHANGED <<stage, joins, tanks, missiles, at, view, history>>

FireMissile ==
    /\ pc = "turret" /\ shots[at] > 0
    /\ shots' = [shots EXCEPT ![at] = @ - 1]
    /\ fired' = fired + 1
    /\ flight' = [flight EXCEPT ![fired'] = "alive"]
    /\ owner' = [owner EXCEPT ![fired'] = clientId[at]]
    /\ UNCHANGED <<stage, joins, connected, clientId, active, standing, moves, pc, at,
                   view, history>>

EndTurret ==
    /\ shots[at] = 0
    /\ NextTank("turret", "check", "fly")
    /\ UNCHANGED <<stage, joins, tanks, missiles, view, history>>

(* A missile that leaves the screen is spent as well. *)
MoveMissiles ==
    /\ Goto("fly", "idle")
    /\ \E out \in SUBSET {m \in Missiles : flight[m] = "alive"} : flight' = Spent(out)
    /\ UNCHANGED <<stage, joins, tanks, fired, owner, at, view, history>>

-----------------------------------------------------------------------------
(* Game thread, tick. *)

StartTick ==
    /\ Goto("idle", "tick")
    /\ UNCHANGED <<stage, joins, tanks, missiles, at, view, history>>

(* CheckIndex(client_id): a tank that has not been entered yet is judged   *)
(* by the session of slot 0.                                               *)
LookAtTank ==
    /\ Goto("tick", IF stage[clientId[at]] = "empty" THEN "forget" ELSE "tell")
    /\ UNCHANGED <<stage, joins, tanks, missiles, at, view, history>>

ForgetTank ==
    /\ Goto("forget", "tell")
    /\ connected' = [connected EXCEPT ![at] = FALSE]
    /\ UNCHANGED <<stage, joins, clientId, active, standing, queues, missiles, at, view,
                   history>>

(* What UpdateMissile makes of a packet: an entry it creates is alive.     *)
Shown(m, seen) == CASE flight[m] = "alive" -> "alive"
                    [] flight[m] = "dead"  -> IF seen = "none" THEN "late"
                                                               ELSE "dead"
                    [] OTHER               -> seen

(* Every missile is broadcast once per connected tank; a client takes it   *)
(* from the menu on.                                                       *)
TellOfMissiles ==
    /\ NextTank("tell", "tick", "erase")
    /\ view' = IF ~connected[at] THEN view
               ELSE [m \in Missiles |-> [i \in Slots |->
                        IF i \in Players THEN Shown(m, view[m][i])
                                        ELSE view[m][i]]]
    /\ UNCHANGED <<stage, joins, tanks, missiles, history>>

EraseMissiles ==
    /\ Goto("erase", "idle")
    /\ flight' = [m \in Missiles |->
                     IF \/ flight[m] = "dead"
                        \/ flight[m] = "alive" /\ stage[owner[m]] = "empty"
                     THEN "erased" ELSE flight[m]]
    /\ UNCHANGED <<stage, joins, tanks, fired, owner, at, view, history>>

-----------------------------------------------------------------------------
Main(i) == \/ Join(i) \/ Leave(i) \/ EnterGame(i) \/ ClickStart(i)
           \/ \E shot \in BOOLEAN : Input(i, shot)
Frame == \/ SkipTank \/ Respawn \/ Revive \/ BeginDrain \/ ApplyInput \/ EndDrain
         \/ FireMissile \/ EndTurret \/ MoveMissiles
Tick  == LookAtTank \/ ForgetTank \/ TellOfMissiles \/ EraseMissiles

Next == \/ \E i \in Slots : Main(i)
        \/ StartFrame \/ StartTick \/ Frame \/ Tick

Spec == Init /\ [][Next]_vars

(* The game thread never stops, and both timers run down: frames and ticks *)
(* are started again and again.  Draining ends: a client sends an input    *)
(* every 10 ms at most and the main thread sleeps 100 ms between rounds.   *)
Fairness == /\ WF_vars(Frame) /\ WF_vars(Tick) /\ SF_vars(EndDrain)
            /\ SF_vars(StartFrame) /\ SF_vars(StartTick)

FairSpec == Spec /\ Fairness

-----------------------------------------------------------------------------
(***************************************************************************)
(* A missile damages at most one tank, never its owner's, and only once:   *)
(* it is spent by the hit, whatever number of inputs and tanks the frame   *)
(* still has (main.cpp:99-122).                                            *)
(***************************************************************************)
OneHitPerMissile ==
    \A m \in Missiles :
        /\ Cardinality(hits[m]) <= 1 /\ owner[m] \notin hits[m]
        /\ hits[m] # {} => flight[m] \in {"dead", "erased"}

(* Missiles are numbered in the order of firing, and one that flies has    *)
(* hit nothing.                                                            *)
Numbered ==
    \A m \in Missiles : /\ flight[m] = "none" <=> m > fired
                        /\ flight[m] \in {"none", "alive"} => hits[m] = {}

(* Shots that wait for the game thread get the numbers that are left. *)
Room == fired + Total(shots) <= MaxMissiles

(* The game thread goes through the tanks from the first. *)
FromFirst == pc \in {"idle", "fly", "erase"} => at = 0

(* A tank knows its client once it is entered, and whatever the client     *)
(* left behind, it has hp.                                                 *)
Entered ==
    \A i \in Slots :
        /\ clientId[i] \in {0, i}
        /\ i \in Players \/ moves[i] > 0 \/ shots[i] > 0 => clientId[i] = i
        /\ stage[i] = "play" \/ moves[i] > 0 => hp[i] # 0

(* The tank of a client that has entered is connected, and the tick about  *)
(* to disconnect a tank finds no such client, unless the client entered    *)
(* just between the tick's look at its session and what it did about it.   *)
Present ==
    \A i \in Slots : i \in Players /\ ~misjudged[i]
                         => connected[i] /\ ~(pc = "forget" /\ at = i)

(* Only those in the game have entries, and an entry that is alive when    *)
(* its missile is dead waits for the tick to come to the client's tank.    *)
InTurn ==
    \A m \in Missiles, i \in Slots :
        /\ view[m][i] # "none" => i \in Players
        /\ view[m][i] = "alive" /\ flight[m] = "dead" /\ ~misjudged[i]
              => pc # "erase" /\ (pc \in {"tick", "forget", "tell"} => i >= at)

(***************************************************************************)
(* The state of the game keeps its types - an hp that is never negative    *)
(* once the input is applied - missiles hit once, a client's tank is taken *)
(* from it only when it enters between the tick's look and its act, and a  *)
(* tick has told every other client of every dead missile that it knows to *)
(* be alive by the time it erases them (main.cpp:66-220).                  *)
(***************************************************************************)
CombatInv == /\ TypeOK /\ OneHitPerMissile /\ Numbered /\ Room /\ FromFirst
             /\ Entered /\ Present /\ InTurn

(***************************************************************************)
(* Every death is rewarded exactly once, except that missiles that hit the *)
(* tank in the same input after the deadly one are rewarded as well        *)
(* (main.cpp:114-118, 124-133).                                            *)
(***************************************************************************)
DeathsRewarded == Total(score) = Reward * (deaths + crowded)

(***************************************************************************)
(* A tank that has been entered has hp left at every step, and a multiple  *)
(* of the damage: a death always refills it before anything else sees it.  *)
(***************************************************************************)
NeverWithoutHp ==
    \A i \in Slots : stage[i] \in {"menu", "play"} \/ hp[i] # 0
                        => hp[i] \in Damage .. MaxHp /\ hp[i] % Damage = 0

(***************************************************************************)
(* A tank whose client is in the menu is out of the game, and nothing      *)
(* waits that would bring it in, unless the client before left it          *)
(* respawning or with inputs that may get it killed                        *)
(* (process_packet.cpp:69, "set to false first since in menu").            *)
(***************************************************************************)
MenuInactive ==
    \A i \in Slots : stage[i] = "menu" /\ ~leftover[i]
                        => /\ ~active[i] /\ timer[i] = 0 /\ moves[i] = 0
                           /\ ~(pc = "revive" /\ at = i)

(***************************************************************************)
(* A missile that a client was shown alive is erased only when its owner   *)
(* has left or the client was told of its end, for clients remove no       *)
(* missile themselves.  What the code misses is the missile that a client  *)
(* hears of for the first time when it is dead (main.cpp:202-218), and the *)
(* client whose tank the tick has disconnected because it entered between  *)
(* the tick's look and its act: with no other tank to announce, it is told *)
(* nothing (main.cpp:192-198).                                             *)
(***************************************************************************)
EndIsShown ==
    [][\A m \in Missiles, i \in Slots :
          flight'[m] = "erased" /\ flight[m] # "erased" /\ view[m][i] = "alive"
              => stage[owner[m]] = "empty" \/ misjudged[i]]_vars

(***************************************************************************)
(* A dead tank gets back into the game unless its client leaves.           *)
(***************************************************************************)
Respawns == \A i \in Slots : Dead(i) ~> active[i] \/ ~connected[i]
=============================================================================
