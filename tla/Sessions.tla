------------------------------ MODULE Sessions ------------------------------
(***************************************************************************)
(* The server's session registry (CatNet/SessionNode.h, SessionList) under *)
(* the three threads that use it without a lock:                           *)
(*                                                                         *)
(*   the receive thread (ServerRecvThread) adds a session when it accepts  *)
(*     a connection and removes it when recv() fails or returns 0; the     *)
(*     bodies of AddSession and RemoveSession are one step per write;      *)
(*   the main and the game thread send to one slot (SendPacket) or to all  *)
(*     (SendPacketToAll): they look a slot up and use what they found in a *)
(*     later step.                                                         *)
(*                                                                         *)
(* Abstractions.  A socket, its SessionNode and the connection are one     *)
(* value, used once.  A call on an unordered_map is one step; two calls    *)
(* that overlap inside the container are not told apart.  What is sent is  *)
(* left out.  FD_SETSIZE is large enough for Conns.                        *)
(***************************************************************************)
EXTENDS Integers, FiniteSets

CONSTANTS
    Conns,          \* connections that may be made
    MaxConnection,  \* MAX_CONNECTION: slots are 0 .. MaxConnection
    Senders,        \* threads that send: main and game
    Null,           \* nullptr as a value in indexSessionMap
    Absent          \* no entry in a map

ASSUME SessionsAssumption ==
    /\ MaxConnection \in Nat
    /\ Null \notin Conns /\ Absent \notin Conns /\ Null # Absent
    /\ IsFiniteSet(Conns)
    /\ Absent \notin 0 .. MaxConnection

Slots == 0 .. MaxConnection

LastSlot == MaxConnection           \* (mutant)
AfterLast == MaxConnection + 1      \* the bound of the loops over slots

VARIABLES
    peer,           \* connection -> where it is in its life
    \* SessionList
    indexList,      \* slot -> is it taken
    sessionMap,     \* indexSessionMap: slot -> connection, Null or Absent
    socketIndex,    \* socketIndexMap: connection -> slot or Absent
    sessionCount,   \* m_SessionCount
    \* receive thread
    rpc,            \* next step of the receive thread
    rconn, rindex,  \* the connection and the slot it works on
    \* sending threads
    spc,            \* sender -> "idle", "check", "use" or "one"
    si,             \* sender -> slot it is at
    erased,         \* sender -> the entry it refers to was erased
    \* outcome
    fault,          \* "none", "null", "dangling" or "overrun": then the
                    \* program is gone
    \* history
    reached,        \* sender -> connection -> times this broadcast sent to it
    stable,         \* sender -> connections registered since it began
    overlap         \* sender -> the receive thread was at its slot meanwhile

registry == <<indexList, sessionMap, socketIndex, sessionCount>>
work     == <<rconn, rindex>>
receiver == <<rpc, work>>
sending  == <<spc, si, erased>>
history  == <<reached, stable, overlap>>
aside    == <<peer, sending, fault, history>>
vars == <<registry, receiver, aside>>

RecvPCs == {"select", "add2", "add3", "add4", "rem2", "rem3", "rem4"}
Faults  == {"none", "null", "dangling", "overrun"}

TypeOK ==
    /\ peer \in [Conns -> {"new", "pending", "open", "gone", "closed"}]
    /\ indexList \in [Slots -> BOOLEAN]
    /\ sessionMap \in [Slots -> Conns \cup {Null, Absent}]
    /\ socketIndex \in [Conns -> Slots \cup {Absent}]
    /\ sessionCount \in Int
    /\ rpc \in RecvPCs /\ rconn \in Conns \cup {Absent} /\ rindex \in Slots
    /\ spc \in [Senders -> {"idle", "check", "use", "one"}]
    /\ si \in [Senders -> 0 .. MaxConnection + 1]
    /\ erased \in [Senders -> BOOLEAN]
    /\ fault \in Faults
    /\ reached \in [Senders -> [Conns -> Nat]]
    /\ stable \in [Senders -> SUBSET Conns]
    /\ overlap \in [Senders -> BOOLEAN]

Init ==
    /\ peer = [c \in Conns |-> "new"]
    /\ indexList = [i \in Slots |-> FALSE]
    /\ sessionMap = [i \in Slots |-> Absent]
    /\ socketIndex = [c \in Conns |-> Absent]
    /\ sessionCount = 0
    /\ rpc = "select" /\ rconn = Absent /\ rindex = 0
    /\ spc = [s \in Senders |-> "idle"]
    /\ si = [s \in Senders |-> 0]
    /\ erased = [s \in Senders |-> FALSE]
    /\ fault = "none"
    /\ reached = [s \in Senders |-> [c \in Conns |-> 0]]
    /\ stable = [s \in Senders |-> {}]
    /\ overlap = [s \in Senders |-> FALSE]

Running == fault = "none"

-----------------------------------------------------------------------------
(* Clients connect, and leave: from then on recv() fails or returns 0. *)

Knock(c) == /\ Running /\ peer[c] = "new"
            /\ peer' = [peer EXCEPT ![c] = "pending"]
            /\ UNCHANGED <<registry, receiver, sending, fault, history>>

Leave(c) == /\ Running /\ peer[c] \in {"pending", "open"}
            /\ peer' = [peer EXCEPT ![c] = "gone"]
            /\ UNCHANGED <<registry, receiver, sending, fault, history>>

-----------------------------------------------------------------------------
(* Receive thread.  It starts to work on slot i: senders that are using i  *)
(* overlap with it.                                                        *)

FreeSlots == {i \in Slots : ~indexList[i]}
AnyFree(i) == i \in FreeSlots       \* (mutant)
Lowest(i) == i \in FreeSlots /\ \A j \in FreeSlots : i <= j

Enters(i, c, pc) ==
    /\ rindex' = i /\ rconn' = c /\ rpc' = pc
    /\ overlap' = [s \in Senders |->
                      overlap[s] \/ (spc[s] \in {"use", "one"} /\ si[s] = i)]

(* The search for a free index, and the first write of AddSession.         *)
(* accept() still returns a connection that has been closed by its peer.   *)
Accept(c) ==
    /\ Running /\ rpc = "select"
    /\ peer[c] \in {"pending", "gone"} /\ socketIndex[c] = Absent
    /\ \E i \in Slots :
          /\ Lowest(i)
          /\ indexList' = [indexList EXCEPT ![i] = TRUE]
          /\ Enters(i, c, "add2")
    /\ peer' = [peer EXCEPT ![c] = IF @ = "gone" THEN "gone" ELSE "open"]
    /\ UNCHANGED <<sessionMap, socketIndex, sessionCount, sending, fault,
                   reached, stable>>

(* The search is bounded by i where j is meant (ServerNetwork.cpp:62): with*)
(* every index taken it reads past the end of indexList.                   *)
AcceptOverrun(c) ==
    /\ Running /\ rpc = "select" /\ FreeSlots = {}
    /\ peer[c] \in {"pending", "gone"} /\ socketIndex[c] = Absent
    /\ fault' = "overrun"
    /\ UNCHANGED <<peer, registry, receiver, sending, history>>

AddToMap ==
    /\ Running /\ rpc = "add2"
    /\ sessionMap' = [sessionMap EXCEPT ![rindex] = rconn]
    /\ rpc' = "add3"
    /\ UNCHANGED <<indexList, socketIndex, sessionCount, work, aside>>

AddSocket ==
    /\ Running /\ rpc = "add3"
    /\ socketIndex' = [socketIndex EXCEPT ![rconn] = rindex]
    /\ rpc' = "add4"
    /\ UNCHANGED <<indexList, sessionMap, sessionCount, work, aside>>

AddCount ==
    /\ Running /\ rpc = "add4"
    /\ sessionCount' = sessionCount + 1
    /\ rpc' = "select"
    /\ UNCHANGED <<indexList, sessionMap, socketIndex, work, aside>>

(* recv() failed: the first write of RemoveSession. *)
StillFlagged(i) == indexList                        \* (mutant)
Unflagged(i)    == [indexList EXCEPT ![i] = FALSE]

Remove(c) ==
    /\ Running /\ rpc = "select" /\ peer[c] = "gone" /\ socketIndex[c] # Absent
    /\ indexList' = Unflagged(socketIndex[c])
    /\ Enters(socketIndex[c], c, "rem2")
    /\ stable' = [s \in Senders |-> stable[s] \ {c}]
    /\ UNCHANGED <<peer, sessionMap, socketIndex, sessionCount, sending, fault,
                   reached>>

(* The socket to forget is read back through the map. *)
RemoveSocket ==
    /\ Running /\ rpc = "rem2"
    /\ IF sessionMap[rindex] \in Conns
       THEN /\ socketIndex' = [socketIndex EXCEPT ![sessionMap[rindex]] = Absent]
            /\ rpc' = "rem3"
            /\ UNCHANGED fault
       ELSE fault' = "null" /\ UNCHANGED <<socketIndex, rpc>>
    /\ UNCHANGED <<peer, indexList, sessionMap, sessionCount, work, sending, history>>

RemoveFromMap ==
    /\ Running /\ rpc = "rem3"
    /\ sessionMap' = [sessionMap EXCEPT ![rindex] = Absent]
    /\ erased' = [s \in Senders |->
                     erased[s] \/ (spc[s] = "one" /\ si[s] = rindex)]
    /\ rpc' = "rem4"
    /\ UNCHANGED <<peer, indexList, socketIndex, sessionCount, work, spc, si, fault,
                   history>>

(* The last write, and CloseSession and FD_CLR after it. *)
SameCount    == sessionCount                        \* (mutant)
CountWithout == sessionCount - 1

RemoveCount ==
    /\ Running /\ rpc = "rem4"
    /\ sessionCount' = CountWithout
    /\ rpc' = "select"
    /\ peer' = [peer EXCEPT ![rconn] = "closed"]
    /\ UNCHANGED <<indexList, sessionMap, socketIndex, work, sending, fault, history>>

-----------------------------------------------------------------------------
(* Sending threads. *)

(* operator[] makes a null entry where there is none. *)
LookUp(i) == IF sessionMap[i] = Absent
             THEN sessionMap' = [sessionMap EXCEPT ![i] = Null]
             ELSE UNCHANGED sessionMap

Registered == {c \in Conns : /\ socketIndex[c] # Absent
                             /\ indexList[socketIndex[c]]
                             /\ ~(rpc = "add4" /\ rconn = c)}

AtWork(i) == rpc # "select" /\ rindex = i

Sent(s, c) == reached' = [reached EXCEPT ![s][c] = @ + 1]

BeginBroadcast(s) ==
    /\ Running /\ spc[s] = "idle"
    /\ spc' = [spc EXCEPT ![s] = "check"]
    /\ stable' = [stable EXCEPT ![s] = Registered]
    /\ UNCHANGED <<peer, registry, receiver, si, erased, fault, reached, overlap>>

(* CheckIndex of the next slot. *)
CheckSlot(s) ==
    /\ Running /\ spc[s] = "check" /\ si[s] < AfterLast
    /\ IF indexList[si[s]]
       THEN spc' = [spc EXCEPT ![s] = "use"] /\ UNCHANGED si
       ELSE si' = [si EXCEPT ![s] = @ + 1] /\ UNCHANGED spc
    /\ overlap' = [overlap EXCEPT ![s] = indexList[si[s]] /\ AtWork(si[s])]
    /\ UNCHANGED <<peer, registry, receiver, erased, fault, reached, stable>>

(* GetSessionNodeByIndex(i)->GetSocket(), and the send. *)
UseSlot(s) ==
    /\ Running /\ spc[s] = "use"
    /\ LookUp(si[s])
    /\ IF sessionMap[si[s]] \in Conns
       THEN /\ Sent(s, sessionMap[si[s]])
            /\ spc' = [spc EXCEPT ![s] = "check"]
            /\ si' = [si EXCEPT ![s] = @ + 1]
            /\ overlap' = [overlap EXCEPT ![s] = FALSE]
            /\ UNCHANGED fault
       ELSE fault' = "null" /\ UNCHANGED <<spc, si, overlap, reached>>
    /\ UNCHANGED <<peer, indexList, socketIndex, sessionCount, receiver, erased,
                   stable>>

EndBroadcast(s) ==
    /\ Running /\ spc[s] = "check" /\ si[s] = AfterLast
    /\ spc' = [spc EXCEPT ![s] = "idle"]
    /\ si' = [si EXCEPT ![s] = 0]
    /\ reached' = [reached EXCEPT ![s] = [c \in Conns |-> 0]]
    /\ stable' = [stable EXCEPT ![s] = {}]
    /\ UNCHANGED <<peer, registry, receiver, erased, fault, overlap>>

(* SendPacket to one slot: a reference into the map, tested for null ...   *)
BeginSend(s, i) ==
    /\ Running /\ spc[s] = "idle"
    /\ LookUp(i)
    /\ si' = [si EXCEPT ![s] = IF sessionMap[i] \in Conns THEN i ELSE 0]
    /\ spc' = [spc EXCEPT ![s] =
                  IF sessionMap[i] \in Conns THEN "one" ELSE "idle"]
    /\ overlap' = [overlap EXCEPT ![s] = sessionMap[i] \in Conns /\ AtWork(i)]
    /\ UNCHANGED <<peer, indexList, socketIndex, sessionCount, receiver, erased,
                   fault, reached, stable>>

(* ... and read again for the socket.  After an erase the reference        *)
(* dangles: it may still show the old node or anything else.               *)
EndSend(s) ==
    /\ Running /\ spc[s] = "one"
    /\ \/ /\ spc' = [spc EXCEPT ![s] = "idle"]
          /\ si' = [si EXCEPT ![s] = 0]
          /\ erased' = [erased EXCEPT ![s] = FALSE]
          /\ overlap' = [overlap EXCEPT ![s] = FALSE]
          /\ UNCHANGED fault
       \/ /\ erased[s] /\ fault' = "dangling"
          /\ UNCHANGED <<spc, si, erased, overlap>>
    /\ UNCHANGED <<peer, registry, receiver, reached, stable>>

-----------------------------------------------------------------------------
Receive == \/ \E c \in Conns : Accept(c) \/ AcceptOverrun(c) \/ Remove(c)
           \/ AddToMap \/ AddSocket \/ AddCount
           \/ RemoveSocket \/ RemoveFromMap \/ RemoveCount

Send(s) == \/ BeginBroadcast(s) \/ CheckSlot(s) \/ UseSlot(s)
           \/ EndBroadcast(s) \/ EndSend(s)
           \/ \E i \in Slots : BeginSend(s, i)

Next == \/ \E c \in Conns : Knock(c) \/ Leave(c)
        \/ Receive
        \/ \E s \in Senders : Send(s)

Spec == Init /\ [][Next]_vars

-----------------------------------------------------------------------------
(* What each part of SessionList holds at every write of AddSession and    *)
(* RemoveSession: only the slot at work is out of line.                    *)
Adding   == rpc \in {"add2", "add3", "add4"}
Removing == rpc \in {"rem2", "rem3", "rem4"}
Taken    == {i \in Slots : indexList[i]}

SlotsAgree ==
    /\ \A i \in Slots : ~AtWork(i) =>
          /\ indexList[i] <=> sessionMap[i] \in Conns
          /\ indexList[i] => socketIndex[sessionMap[i]] = i
    /\ \A c \in Conns : socketIndex[c] # Absent => sessionMap[socketIndex[c]] = c
    /\ rpc # "select" =>
          /\ rconn \in Conns /\ (indexList[rindex] <=> Adding)
          /\ IF rpc \in {"add2", "rem4"} THEN sessionMap[rindex] \notin Conns
                                         ELSE sessionMap[rindex] = rconn
          /\ socketIndex[rconn] = IF rpc \in {"add4", "rem2"} THEN rindex ELSE Absent
    /\ sessionCount = Cardinality(Taken) + (IF Removing THEN 1 ELSE 0)
                                         - (IF Adding THEN 1 ELSE 0)

(* A socket is used once: it is never registered again after it was closed. *)
UsedOnce ==
    /\ \A c \in Conns : peer[c] \in {"new", "closed"} =>
          socketIndex[c] = Absent /\ \A i \in Slots : sessionMap[i] # c
    /\ Adding => peer[rconn] \in {"open", "gone"}
    /\ Removing => peer[rconn] = "gone"

(* What a sender knows of the slot it is at. *)
Attended ==
    \A s \in Senders :
        /\ spc[s] \in {"use", "one"} =>
              si[s] \in Slots /\ (AtWork(si[s]) => overlap[s])
        /\ spc[s] = "use" /\ ~overlap[s] => indexList[si[s]]
        /\ erased[s] => spc[s] = "one" /\ overlap[s]
        /\ spc[s] = "idle" => si[s] = 0

(* A broadcast has sent to the slots behind it, and to no other. *)
Left(c) == peer[c] = "closed" \/ (rpc = "rem4" /\ rconn = c)
Passed(s, c) == \E i \in Slots : i < si[s] /\ sessionMap[i] = c
Settled(c) == /\ socketIndex[c] # Absent /\ indexList[socketIndex[c]]
              /\ ~AtWork(socketIndex[c])
Behind(s) ==
    /\ spc[s] \in {"idle", "one"} =>
          stable[s] = {} /\ \A c \in Conns : reached[s][c] = 0
    /\ \A c \in stable[s] :
          Settled(c) /\ reached[s][c] = IF socketIndex[c] < si[s] THEN 1 ELSE 0
    /\ \A c \in Conns : /\ reached[s][c] <= 1
                        /\ reached[s][c] = 1 => Passed(s, c) \/ Left(c)
SentBehind == \A s \in Senders : Behind(s)

(***************************************************************************)
(* Between two calls of the receive thread the four parts of SessionList   *)
(* describe the same set of sessions, whatever the senders inserted        *)
(* meanwhile (SessionNode.h:112-137).                                      *)
(***************************************************************************)
RegistryConsistent ==
    rpc = "select" =>
        /\ \A i \in Slots : indexList[i] <=> sessionMap[i] \in Conns
        /\ \A i \in Slots : indexList[i] => socketIndex[sessionMap[i]] = i
        /\ \A c \in Conns : socketIndex[c] # Absent =>
                                sessionMap[socketIndex[c]] = c
        /\ sessionCount = Cardinality({i \in Slots : indexList[i]})

(***************************************************************************)
(* A sending thread crashes on a slot only when the receive thread was     *)
(* adding or removing that very slot between the thread's look and its use *)
(* (ServerNetwork.cpp:199-215); the receive thread itself never does.      *)
(***************************************************************************)
FaultNeedsOverlap ==
    fault \in {"null", "dangling"} =>
        \E s \in Senders : spc[s] \in {"use", "one"} /\ overlap[s]

(***************************************************************************)
(* The registry keeps its types and its consistency, also between two      *)
(* writes (SessionNode.h:92-147): the inductive invariant behind           *)
(* FaultNeedsOverlap, BroadcastReaches and the refinement of SlotTable.    *)
(***************************************************************************)
RegistryInv == /\ TypeOK /\ RegistryConsistent /\ FaultNeedsOverlap
               /\ SlotsAgree /\ UsedOnce /\ Attended /\ SentBehind

(***************************************************************************)
(* SendPacketToAll reaches every session that stays registered from its    *)
(* first slot to its last, and none of them twice, although slots are      *)
(* emptied and given away while it runs.                                   *)
(***************************************************************************)
BroadcastReaches ==
    \A s \in Senders : \A c \in Conns :
        /\ reached[s][c] <= 1
        /\ (spc[s] = "check" /\ si[s] = AfterLast /\ c \in stable[s])
              => reached[s][c] = 1

(***************************************************************************)
(* The registry is a table that gives new connections the lowest free      *)
(* slot: SlotTable, with the write to indexList as the moment of change.   *)
(***************************************************************************)
Holder == [i \in Slots |->
              IF ~indexList[i] THEN Absent
              ELSE IF rpc = "add2" /\ rindex = i THEN rconn ELSE sessionMap[i]]
Table == INSTANCE SlotTable WITH None <- Absent, holder <- Holder
ImplementsSlotTable == Table!TableSpec
=============================================================================
