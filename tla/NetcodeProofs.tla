--------------------------- MODULE NetcodeProofs ----------------------------
(***************************************************************************)
(* Proofs about Netcode, for every number of client processes, inputs and  *)
(* packets in flight.                                                      *)
(***************************************************************************)
EXTENDS Netcode, TLAPS, SequenceTheorems

(* Reads and Drain are what three handlers and the drain share. *)
USE DEF holder, prediction, mechanism, tank, Reads, AwaitsWelcome, Drain

-----------------------------------------------------------------------------
(* What the three operations on sequences do, element by element.          *)

LEMMA Appended ==
    ASSUME NEW S, NEW s \in Seq(S), NEW e \in S, NEW t, t = Append(s, e)
    PROVE  /\ t \in Seq(S) /\ Len(t) = Len(s) + 1
           /\ DOMAIN t = 1 .. Len(s) + 1 /\ DOMAIN s = 1 .. Len(s) /\ Len(s) \in Nat
           /\ \A k \in DOMAIN s : k \in DOMAIN t /\ k < Len(s) + 1 /\ t[k] = s[k]
           /\ \A k \in DOMAIN t : k \in DOMAIN s \/ k = Len(s) + 1
           /\ Len(s) + 1 \in DOMAIN t /\ t[Len(s) + 1] = e
  BY AppendProperties

LEMMA Taken ==
    ASSUME NEW S, NEW s \in Seq(S), s # <<>>, NEW t, t = Tail(s)
    PROVE  /\ t \in Seq(S) /\ 1 \in DOMAIN s /\ Head(s) = s[1] /\ s[1] \in S
           /\ DOMAIN s \subseteq Nat \ {0} /\ DOMAIN t \subseteq Nat \ {0}
           /\ \A k \in DOMAIN t : k + 1 \in DOMAIN s /\ t[k] = s[k + 1]
           /\ \A k \in DOMAIN s : k = 1 \/ (k - 1 \in DOMAIN t /\ t[k - 1] = s[k])
<1>1. /\ t \in Seq(S) /\ Head(s) \in S /\ Len(s) \in Nat
      /\ DOMAIN s = 1 .. Len(s) /\ DOMAIN t = 1 .. Len(s) - 1
      /\ \A k \in 1 .. Len(s) - 1 : t[k] = s[k + 1]
      /\ Head(s) = s[1] /\ Len(s) > 0
  BY HeadTailProperties
<1> QED
  BY <1>1

LEMMA Shortened ==
    ASSUME NEW S, NEW s \in Seq(S), NEW n \in 0 .. Len(s), NEW t,
           t = SubSeq(s, 1, n)
    PROVE  /\ t \in Seq(S) /\ DOMAIN t = 1 .. n
           /\ \A k \in DOMAIN t : k \in DOMAIN s /\ t[k] = s[k]
<1>1. \A i \in 1 .. n : s[i] \in S
  BY ElementOfSeq
<1> QED
  BY <1>1, SubSeqProperties

-----------------------------------------------------------------------------
(* Messages and buffers have their types. *)

LEMMA Bounds == /\ 0 \in InputIds /\ InputIds \subseteq Nat
                /\ 0 \in Tenants /\ Tenants \subseteq Nat
                /\ {} \in SUBSET Inputs
  BY BoundsAssumption DEF InputIds, Tenants

LEMMA ClientPacket ==
    ASSUME TypeOK, NEW type \in {"new", "enter", "move"}, NEW id \in InputIds
    PROVE  FromClient(type, id) \in C2S
  BY DEF TypeOK, FromClient, C2S

LEMMA ServerPacket ==
    ASSUME NEW type \in {"welcome", "ok"}
    PROVE  ToSlot(type) \in S2C
  BY Bounds DEF ToSlot, S2C

LEMMA UpdatePacket ==
    ASSUME TypeOK
    PROVE  [type |-> "update", seq |-> latest, included |-> applied] \in S2C
  BY DEF TypeOK, S2C

LEMMA Delivered ==
    ASSUME TypeOK, NEW m \in S2C, Deliver(m)
    PROVE  toClient' \in Seq(S2C)
<1>1. toClient \in Seq(S2C)
  BY DEF TypeOK
<1>2. CASE session /\ phase # "gone"
  BY <1>1, <1>2, AppendProperties DEF Deliver
<1>3. CASE ~(session /\ phase # "gone")
  BY <1>1, <1>3 DEF Deliver
<1> QED
  BY <1>2, <1>3

(* What Discard leaves is the last part of the buffer, or the single input *)
(* that was acknowledged.                                                  *)
LEMMA DiscardKeeps ==
    ASSUME NEW q \in Seq(InputIds), NEW seq \in InputIds,
           NEW n \in 0 .. Len(q)
    PROVE  Discard(q, seq, n) \in Seq(InputIds)
<1>1. SubSeq(q, n + 1, Len(q)) \in Seq(InputIds)
  <2>1. n + 1 \in Int /\ Len(q) \in Int
    OBVIOUS
  <2>2. \A i \in n + 1 .. Len(q) : q[i] \in InputIds
    BY ElementOfSeq
  <2> QED
    BY <2>1, <2>2, SubSeqProperties
<1>2. <<seq>> \in Seq(InputIds)
  OBVIOUS
<1> QED
  BY <1>1, <1>2 DEF Discard

LEMMA PrefixTyped ==
    ASSUME NEW n \in 0 .. Len(toServer), toServer \in Seq(C2S)
    PROVE  /\ SubSeq(toServer, 1, n) \in Seq(C2S)
           /\ Len(SubSeq(toServer, 1, n)) = n
           /\ \A k \in 1 .. n : SubSeq(toServer, 1, n)[k] = toServer[k]
<1>1. \A i \in 1 .. n : toServer[i] \in C2S
  BY ElementOfSeq
<1> QED
  BY <1>1, SubSeqProperties
-----------------------------------------------------------------------------

LEMMA TypeInit == Init => TypeOK
<1> SUFFICES ASSUME Init PROVE TypeOK
  OBVIOUS
<1>1. /\ queued \in Seq(InputIds) /\ inputQueue \in Seq(Inputs)
      /\ log \in Seq(InputIds)
      /\ toServer \in Seq(C2S) /\ toClient \in Seq(S2C)
  BY DEF Init
<1>2. nextId \in 0 .. MaxInputs
  BY BoundsAssumption DEF Init
<1> QED
  BY <1>1, <1>2, Bounds DEF Init, TypeOK

LEMMA TypeStep == TypeOK /\ [Next]_vars => TypeOK'
<1> SUFFICES ASSUME TypeOK, [Next]_vars
             PROVE  TypeOK'
  OBVIOUS
<1> USE DEF TypeOK, clientVars, serverVars
<1>1. CASE Connect
  <2>1. tenant + 1 \in Tenants
    BY <1>1, BoundsAssumption DEF Connect, StartApplication, Tenants
  <2>2. [type |-> "new", from |-> tenant', id |-> 0] \in C2S
    BY <1>1, <2>1, Bounds DEF Connect, StartApplication, C2S
  <2> QED
    <3>1. toServer' \in Seq(C2S)
      BY <1>1, <2>2, AppendProperties DEF Connect, StartApplication
    <3>2. nextId' \in 0 .. MaxInputs
      BY <1>1, BoundsAssumption DEF Connect, StartApplication
    <3>3. queued' \in Seq(InputIds) /\ base' \in SUBSET Inputs /\ log' \in Seq(InputIds)
      BY <1>1 DEF Connect, StartApplication
    <3> QED
      BY <1>1, <2>1, <3>1, <3>2, <3>3 DEF Connect, StartApplication
<1>2. CASE Quit
  BY <1>2, PrefixTyped DEF Quit
<1>3. CASE SendMovement
  <2>1. nextId \in InputIds /\ nextId + 1 \in 0 .. MaxInputs
    BY <1>3, BoundsAssumption DEF SendMovement, InputIds
  <2>2. FromClient("move", nextId) \in C2S
    BY <2>1, ClientPacket
  <2> QED
    BY <1>3, <2>1, <2>2 DEF SendMovement
<1>4. CASE ToggleReconciliation
  BY <1>4 DEF ToggleReconciliation
<1>5. CASE ProcessWelcome
  <2>1. FromClient("enter", 0) \in C2S
    BY Bounds, ClientPacket
  <2> QED
    <3>1. CASE phase = "initializing"
      <4>1. mine' = TRUE /\ toServer' = Append(toServer, FromClient("enter", 0))
        BY <1>5, <3>1 DEF ProcessWelcome
      <4>2. toServer' \in Seq(C2S)
        BY <2>1, <4>1, AppendProperties
      <4> QED
        BY <1>5, <4>1, <4>2 DEF ProcessWelcome
    <3>2. CASE phase # "initializing"
      BY <1>5, <3>2 DEF ProcessWelcome
    <3> QED
      BY <3>1, <3>2
<1>6. CASE ProcessEnterGameOK
  BY <1>6 DEF ProcessEnterGameOK
<1>7. CASE ProcessUpdate
  <2>1. Head(toClient) \in S2C
    BY <1>7 DEF ProcessUpdate
  <2>2. Head(toClient).seq \in InputIds /\ Head(toClient).included \in SUBSET Inputs
    BY <2>1 DEF S2C
  <2>3. queued' \in Seq(InputIds)
    BY <1>7, <2>2, DiscardKeeps DEF ProcessUpdate
  <2> QED
    BY <1>7, <2>2, <2>3 DEF ProcessUpdate
<1>8. CASE CloseSession
  BY <1>8 DEF CloseSession
<1>9. CASE NewAccept
  BY <1>9, ServerPacket, Delivered DEF NewAccept, Receives
<1>10. CASE EnterGame
  BY <1>10, ServerPacket, Delivered, Bounds DEF EnterGame, Receives
<1>11. CASE ReceiveMovement
  <2>1. <<Head(toServer).from, Head(toServer).id>> \in Inputs
    <3>1. Head(toServer) \in C2S
      BY <1>11 DEF ReceiveMovement, Receives
    <3> QED
      BY <3>1 DEF C2S, Inputs
  <2> QED
    BY <1>11, <2>1 DEF ReceiveMovement, Receives
<1>12. CASE ApplyInput
  <2>1. Head(inputQueue) \in Inputs
    BY <1>12 DEF ApplyInput
  <2>2. Head(inputQueue)[2] \in InputIds
    BY <2>1 DEF Inputs
  <2>3. log' \in Seq(InputIds)
    BY <1>12, <2>2, AppendProperties DEF ApplyInput, Logged
  <2> QED
    BY <1>12, <2>1, <2>2, <2>3 DEF ApplyInput
<1>13. CASE CheckSession
  BY <1>13 DEF CheckSession
<1>14. CASE NoticeDisconnect
  BY <1>14 DEF NoticeDisconnect
<1>15. CASE SendUpdate
  BY <1>15, UpdatePacket, Delivered DEF SendUpdate
<1>16. CASE UNCHANGED vars
  BY <1>16 DEF vars
<1> QED
  BY <1>1, <1>2, <1>3, <1>4, <1>5, <1>6, <1>7, <1>8, <1>9, <1>10, <1>11,
     <1>12, <1>13, <1>14, <1>15, <1>16 DEF Next, Client, Main, Tick

(***************************************************************************)
(* Every variable keeps its type: in particular latest_sequence_ID is      *)
(* always the number of an input some client could have sent.              *)
(***************************************************************************)
THEOREM TypeCorrect == Spec => []TypeOK
  BY TypeInit, TypeStep, PTL DEF Spec

-----------------------------------------------------------------------------
(* The order of inputs is kept while packets only leave the front or the   *)
(* back of toServer, or join it without being movements: every movement in *)
(* toServer' was one of toServer, d places further back.                   *)

KeepsMoves(d) ==
    \A k \in DOMAIN toServer' :
        toServer'[k].type = "move" =>
            k + d \in DOMAIN toServer /\ toServer'[k] = toServer[k + d]

SentGrows == \A a \in Inputs : Sent(a) => Sent(a)'

LEMMA InputTyped == \A a \in Inputs : a[1] \in Nat /\ a[2] \in Nat
  BY Bounds DEF Inputs

LEMMA MoveTyped ==
    ASSUME TypeOK
    PROVE  /\ \A k \in DOMAIN toServer : k \in Nat /\ Move(k) \in Inputs
           /\ \A k \in DOMAIN inputQueue : k \in Nat /\ inputQueue[k] \in Inputs
           /\ \A a \in applied : a \in Inputs
           /\ \A k \in DOMAIN toClient : toClient[k] \in S2C
           /\ \A k \in DOMAIN queued : queued[k] \in Nat
           /\ tenant \in Nat /\ nextId \in Nat /\ latest \in Nat
<1>1. \A k \in DOMAIN toServer : k \in Nat /\ toServer[k] \in C2S
  BY DEF TypeOK
<1>2. \A k \in DOMAIN toServer : Move(k) \in Inputs
  BY <1>1 DEF C2S, Move, Inputs
<1>3. \A k \in DOMAIN inputQueue : k \in Nat /\ inputQueue[k] \in Inputs
  BY DEF TypeOK
<1>4. \A k \in DOMAIN toClient : toClient[k] \in S2C
  BY DEF TypeOK
<1>5. \A k \in DOMAIN queued : queued[k] \in InputIds
  BY DEF TypeOK
<1>6. tenant \in Nat /\ nextId \in Nat /\ latest \in Nat
  BY Bounds, BoundsAssumption DEF TypeOK
<1> QED
  BY <1>1, <1>2, <1>3, <1>4, <1>5, <1>6, Bounds DEF TypeOK

LEMMA SocketKept ==
    ASSUME TypeOK, TypeOK', SocketOrdered, SentGrows,
           NEW d \in {0, 1}, KeepsMoves(d)
    PROVE  SocketOrdered'
<1>1. \A k \in DOMAIN toServer' : IsMove(k)' =>
          k + d \in DOMAIN toServer /\ IsMove(k + d) /\ Move(k)' = Move(k + d)
  BY DEF KeepsMoves, IsMove, Move
<1>2. \A k \in DOMAIN toServer' : IsMove(k)' => Sent(Move(k))'
  BY <1>1, MoveTyped DEF SocketOrdered, SentGrows, Sent
<1>3. \A j, k \in DOMAIN toServer' :
          j < k /\ IsMove(j)' /\ IsMove(k)' => Before(Move(j)', Move(k)')
  <2>1. \A k \in DOMAIN toServer' : k \in Nat
    BY DEF TypeOK
  <2>2. \A j, k \in DOMAIN toServer' : j < k => j + d < k + d
    BY <2>1
  <2> QED
    BY <1>1, <2>2 DEF SocketOrdered
<1> QED
  BY <1>2, <1>3 DEF SocketOrdered, Before

LEMMA QueueKept ==
    ASSUME TypeOK, TypeOK', QueueOrdered, SentGrows,
           NEW d \in {0, 1}, KeepsMoves(d), UNCHANGED inputQueue
    PROVE  QueueOrdered'
<1>1. \A k \in DOMAIN toServer' : IsMove(k)' =>
          k + d \in DOMAIN toServer /\ IsMove(k + d) /\ Move(k)' = Move(k + d)
  BY DEF KeepsMoves, IsMove, Move
<1>2. \A k \in DOMAIN inputQueue : Sent(inputQueue[k])'
  BY MoveTyped DEF QueueOrdered, SentGrows, Sent
<1>3. \A j \in DOMAIN inputQueue, k \in DOMAIN toServer' :
          IsMove(k)' => Before(inputQueue[j], Move(k)')
  BY <1>1 DEF QueueOrdered
<1> QED
  BY <1>2, <1>3 DEF QueueOrdered, Before, Sent

LEMMA TankKept ==
    ASSUME TypeOK, TypeOK', TankOrdered, SentGrows,
           NEW d \in {0, 1}, KeepsMoves(d), UNCHANGED inputQueue,
           applied' \subseteq applied
    PROVE  TankOrdered'
<1>1. \A k \in DOMAIN toServer' : IsMove(k)' =>
          k + d \in DOMAIN toServer /\ IsMove(k + d) /\ Move(k)' = Move(k + d)
  BY DEF KeepsMoves, IsMove, Move
<1>2. \A a \in applied' : Sent(a)'
  BY MoveTyped DEF TankOrdered, SentGrows, Sent
<1>3. \A a \in applied', k \in DOMAIN toServer' :
          IsMove(k)' => Before(a, Move(k)')
  BY <1>1 DEF TankOrdered
<1> QED
  BY <1>2, <1>3 DEF TankOrdered, Before, Sent

(* The three ways in which toServer changes without a new movement. *)

LEMMA FrontLeaves ==
    ASSUME TypeOK, toServer # <<>>, toServer' = Tail(toServer)
    PROVE  KeepsMoves(1)
<1>1. /\ DOMAIN toServer' = 1 .. Len(toServer) - 1
      /\ \A k \in DOMAIN toServer' : toServer'[k] = toServer[k + 1]
  BY HeadTailProperties DEF TypeOK
<1> QED
  BY <1>1 DEF KeepsMoves, TypeOK

LEMMA BackLeaves ==
    ASSUME TypeOK, NEW n \in 0 .. Len(toServer),
           toServer' = SubSeq(toServer, 1, n)
    PROVE  KeepsMoves(0)
<1>1. /\ DOMAIN toServer' = 1 .. n
      /\ \A k \in 1 .. n : toServer'[k] = toServer[k]
  BY PrefixTyped DEF TypeOK
<1> QED
  BY <1>1 DEF KeepsMoves, TypeOK

LEMMA OtherJoins ==
    ASSUME TypeOK, NEW m \in C2S, m.type # "move",
           toServer' = Append(toServer, m)
    PROVE  KeepsMoves(0)
<1>1. /\ DOMAIN toServer' = 1 .. Len(toServer) + 1
      /\ \A k \in 1 .. Len(toServer) : toServer'[k] = toServer[k]
      /\ toServer'[Len(toServer) + 1] = m
  BY AppendProperties DEF TypeOK
<1> QED
  BY <1>1 DEF KeepsMoves, TypeOK

LEMMA SocketStays ==
    ASSUME TypeOK, UNCHANGED toServer
    PROVE  KeepsMoves(0)
  BY DEF KeepsMoves, TypeOK

LEMMA SameSender ==
    ASSUME UNCHANGED <<tenant, nextId>>
    PROVE  SentGrows
  BY DEF SentGrows, Sent

-----------------------------------------------------------------------------
(* What the client knows, while inputs are only sent and the packets on    *)
(* their way to it only leave or are joined by ones the tank covers.       *)

Covered(m) == \A i \in Own(m.included) : i <= m.seq /\ i < nextId

LEMMA AnswerCovered ==
    ASSUME NEW type
    PROVE  Covered(ToSlot(type))
  BY DEF Covered, ToSlot, Own

LEMMA UpdateCovered ==
    ASSUME TypeOK, TankOrdered, SequenceCovers
    PROVE  Covered([type |-> "update", seq |-> latest, included |-> applied])
<1>1. \A i \in Own(applied) : i < nextId
  BY MoveTyped DEF Own, TankOrdered, Sent
<1> QED
  BY <1>1 DEF Covered, SequenceCovers, Own

LEMMA ClientKept ==
    ASSUME TypeOK, TypeOK', SequenceCovers,
           UNCHANGED <<tenant, nextId, latest, base>>, applied' \subseteq applied,
           phase' = phase \/ (phase # "gone" /\ phase' # "gone"),
           NEW m \in S2C, Covered(m),
           \/ UNCHANGED toClient
           \/ toClient # <<>> /\ toClient' = Tail(toClient)
           \/ phase # "gone" /\ toClient' = Append(toClient, m)
    PROVE  SequenceCovers'
<1>1. \A i \in Own(applied)' : i <= latest
  BY DEF SequenceCovers, Own
<1>2. \A k \in DOMAIN toClient' : Covered(toClient'[k])
  <2>1. CASE UNCHANGED toClient
    BY <2>1 DEF SequenceCovers, Covered
  <2>2. CASE toClient # <<>> /\ toClient' = Tail(toClient)
    <3>1. toClient \in Seq(S2C)
      BY DEF TypeOK
    <3>2. \A k \in DOMAIN toClient' : k + 1 \in DOMAIN toClient
                                     /\ toClient'[k] = toClient[k + 1]
      BY <2>2, <3>1, Taken
    <3> QED
      BY <3>2 DEF SequenceCovers, Covered
  <2>3. CASE toClient' = Append(toClient, m)
    <3>1. /\ DOMAIN toClient' = 1 .. Len(toClient) + 1
          /\ \A k \in 1 .. Len(toClient) : toClient'[k] = toClient[k]
          /\ toClient'[Len(toClient) + 1] = m
      BY <2>3, AppendProperties DEF TypeOK
    <3>2. \A k \in 1 .. Len(toClient) : Covered(toClient[k])
      BY DEF SequenceCovers, Covered, TypeOK
    <3>3. \A k \in DOMAIN toClient' : k \in 1 .. Len(toClient) \/ k = Len(toClient) + 1
      BY <3>1 DEF TypeOK
    <3> QED
      BY <3>1, <3>2, <3>3
  <2> QED
    BY <2>1, <2>2, <2>3
<1>3. \A i \in Own(base)' : i < nextId
  BY DEF SequenceCovers, Own
<1>4. phase' = "gone" => toClient' = <<>>
  BY DEF SequenceCovers
<1> QED
  BY <1>1, <1>2, <1>3, <1>4 DEF SequenceCovers, Covered, Own

LEMMA BufferKept ==
    ASSUME TypeOK, BufferOrdered, UNCHANGED <<queued, nextId>>
    PROVE  BufferOrdered'
  BY DEF BufferOrdered

LEMMA ReplayKept ==
    ASSUME NeverReplayed, UNCHANGED <<tenant, queued, base, synced>>
    PROVE  NeverReplayed'
  BY DEF NeverReplayed, InQueue, Own

-----------------------------------------------------------------------------
LEMMA InOrderInit == Init => InOrder
<1> SUFFICES ASSUME Init PROVE InOrder
  OBVIOUS
<1> QED
  BY TypeInit DEF Init, InOrder, SocketOrdered, QueueOrdered, TankOrdered,
     SequenceCovers, BufferOrdered, NeverReplayed, Own, InQueue

(* A new process: every input so far is of an earlier one. *)
LEMMA ConnectInOrder ==
    ASSUME InOrder, TypeOK', Connect
    PROVE  InOrder'
<1> USE DEF InOrder
<1>1. SentGrows
  BY MoveTyped, InputTyped DEF Connect, StartApplication, SentGrows, Sent
<1>2. KeepsMoves(0)
  <2>1. [type |-> "new", from |-> tenant', id |-> 0] \in C2S
    BY Bounds DEF TypeOK, C2S
  <2> QED
    BY <2>1, OtherJoins DEF Connect, StartApplication
<1>3. SocketOrdered' /\ QueueOrdered' /\ TankOrdered'
  BY <1>1, <1>2, SocketKept, QueueKept, TankKept DEF Connect, StartApplication
<1>4. toClient' = <<>> /\ Own(applied)' = {} /\ Own(base)' = {}
  <2>1. \A a \in applied : a[1] # tenant + 1
    BY MoveTyped, InputTyped DEF TankOrdered, Sent
  <2> QED
    BY <2>1 DEF Connect, StartApplication, SequenceCovers, Own
<1>5. SequenceCovers' /\ BufferOrdered' /\ NeverReplayed'
  BY <1>4 DEF Connect, StartApplication, SequenceCovers, BufferOrdered, NeverReplayed, InQueue
<1> QED
  BY <1>3, <1>5

(* The new input comes after everything in the pipeline. *)
LEMMA SendInOrder ==
    ASSUME InOrder, TypeOK', SendMovement
    PROVE  InOrder'
<1> USE DEF InOrder
<1> PICK e : e = <<tenant, nextId>>
  OBVIOUS
<1>1. SentGrows
  BY MoveTyped, InputTyped DEF SendMovement, SentGrows, Sent
<1>2. \A a \in Inputs : Sent(a) => Before(a, e)
  BY MoveTyped, InputTyped DEF Sent, Before
<1>3. e \in Inputs /\ Sent(e)'
  <2>1. nextId \in InputIds
    BY BoundsAssumption DEF SendMovement, InputIds, TypeOK
  <2>2. e \in Inputs
    BY <2>1 DEF Inputs, TypeOK
  <2>3. tenant' = tenant /\ nextId < nextId'
    BY MoveTyped DEF SendMovement
  <2> QED
    BY <2>2, <2>3 DEF Sent
<1> PICK n : n = Len(toServer) + 1
  OBVIOUS
<1>4. /\ n \in Nat
      /\ \A k \in DOMAIN toServer' : k \in DOMAIN toServer \/ k = n
      /\ \A k \in DOMAIN toServer : k \in Nat /\ k < n
      /\ \A k \in DOMAIN toServer : toServer'[k] = toServer[k]
      /\ toServer'[n] = FromClient("move", nextId)
  BY AppendProperties DEF SendMovement, TypeOK
<1>5. /\ \A k \in DOMAIN toServer : IsMove(k)' = IsMove(k) /\ Move(k)' = Move(k)
      /\ Move(n)' = e
  <2>1. \A k \in DOMAIN toServer : IsMove(k)' = IsMove(k) /\ Move(k)' = Move(k)
    BY <1>4 DEF IsMove, Move
  <2>2. Move(n)' = e
    BY <1>4 DEF Move, FromClient
  <2> QED
    BY <2>1, <2>2
<1>6. SocketOrdered'
  <2>1. ASSUME NEW k \in DOMAIN toServer', IsMove(k)'
        PROVE  Sent(Move(k))'
    <3>1. CASE k \in DOMAIN toServer
      <4>1. Sent(Move(k)) /\ Move(k) \in Inputs /\ Move(k)' = Move(k)
        BY <2>1, <3>1, <1>5, MoveTyped DEF SocketOrdered
      <4> QED
        BY <4>1, <1>1 DEF SentGrows, Sent
    <3>2. CASE k = n
      BY <3>2, <1>3, <1>5 DEF Sent
    <3> QED
      BY <1>4, <3>1, <3>2
  <2>2. ASSUME NEW j \in DOMAIN toServer', NEW k \in DOMAIN toServer',
               j < k, IsMove(j)', IsMove(k)'
        PROVE  Before(Move(j)', Move(k)')
    <3>1. j \in DOMAIN toServer
      BY <2>2, <1>4
    <3>2. CASE k \in DOMAIN toServer
      BY <2>2, <3>1, <3>2, <1>5 DEF SocketOrdered
    <3>3. CASE k = n
      <4>1. Before(Move(j), e)
        BY <2>2, <3>1, <1>5, <1>2, MoveTyped DEF SocketOrdered
      <4> QED
        BY <3>1, <3>3, <4>1, <1>5
    <3> QED
      BY <1>4, <3>2, <3>3
  <2> QED
    BY <2>1, <2>2 DEF SocketOrdered, Before
<1>7. QueueOrdered'
  <2>1. UNCHANGED inputQueue
    BY DEF SendMovement, serverVars
  <2>2. \A k \in DOMAIN inputQueue : Sent(inputQueue[k])'
    <3> TAKE k \in DOMAIN inputQueue
    <3>1. inputQueue[k] \in Inputs /\ Sent(inputQueue[k]) /\ inputQueue'[k] = inputQueue[k]
      BY <2>1, MoveTyped DEF QueueOrdered
    <3> QED
      BY <3>1, <1>1 DEF SentGrows, Sent
  <2>3. ASSUME NEW j \in DOMAIN inputQueue, NEW k \in DOMAIN toServer', IsMove(k)'
        PROVE  Before(inputQueue[j], Move(k)')
    <3>1. CASE k \in DOMAIN toServer
      BY <2>3, <3>1, <1>5 DEF QueueOrdered
    <3>2. CASE k = n
      BY <3>2, <1>2, <1>5, MoveTyped DEF QueueOrdered
    <3> QED
      BY <1>4, <3>1, <3>2
  <2> QED
    BY <2>1, <2>2, <2>3 DEF QueueOrdered, Before, Sent
<1>8. TankOrdered'
  <2>1. UNCHANGED <<inputQueue, applied>>
    BY DEF SendMovement, serverVars
  <2>2. \A a \in applied : Sent(a)'
    BY <1>1, MoveTyped DEF TankOrdered, SentGrows, Sent
  <2>3. ASSUME NEW a \in applied, NEW k \in DOMAIN toServer', IsMove(k)'
        PROVE  Before(a, Move(k)')
    <3>1. CASE k \in DOMAIN toServer
      BY <2>3, <3>1, <1>5 DEF TankOrdered
    <3>2. CASE k = n
      BY <3>2, <1>2, <1>5, MoveTyped DEF TankOrdered
    <3> QED
      BY <1>4, <3>1, <3>2
  <2> QED
    BY <2>1, <2>2, <2>3 DEF TankOrdered, Before, Sent
<1>9. SequenceCovers'
  BY MoveTyped, Bounds DEF SendMovement, serverVars, SequenceCovers, Own
<1>10. BufferOrdered' /\ NeverReplayed'
  <2>1. /\ \A k \in DOMAIN queued' :
              k \in DOMAIN queued \/ (k = Len(queued) + 1 /\ queued'[k] = nextId)
        /\ \A k \in DOMAIN queued : queued'[k] = queued[k] /\ k \in 1 .. Len(queued)
        /\ nextId \in InputIds
    <3>1. nextId \in InputIds
      BY BoundsAssumption DEF SendMovement, TypeOK, InputIds
    <3>2. queued \in Seq(InputIds) /\ queued' = Append(queued, nextId)
      BY DEF SendMovement, TypeOK
    <3>3. /\ Len(queued) \in Nat /\ DOMAIN queued = 1 .. Len(queued)
          /\ DOMAIN queued' = 1 .. Len(queued) + 1 /\ queued'[Len(queued) + 1] = nextId
          /\ \A k \in 1 .. Len(queued) : queued'[k] = queued[k]
      BY <3>1, <3>2, AppendProperties
    <3> QED
      BY <3>1, <3>3
  <2>2. BufferOrdered'
    <3>1. \A k \in DOMAIN queued' : queued'[k] < nextId'
      BY <2>1, MoveTyped DEF BufferOrdered, SendMovement
    <3>2. ASSUME NEW j \in DOMAIN queued', NEW k \in DOMAIN queued', j < k
          PROVE  queued'[j] < queued'[k]
      <4>1. j \in DOMAIN queued
        BY <2>1, <3>2
      <4>2. CASE k \in DOMAIN queued
        BY <2>1, <3>2, <4>1, <4>2 DEF BufferOrdered
      <4>3. CASE k = Len(queued) + 1
        BY <2>1, <4>1, <4>3 DEF BufferOrdered
      <4> QED
        BY <2>1, <4>2, <4>3
    <3> QED
      BY <3>1, <3>2 DEF BufferOrdered
  <2>3. \A i \in Own(base) : i < nextId
    BY DEF SequenceCovers
  <2>4. NeverReplayed'
    BY <2>1, <2>3, MoveTyped DEF NeverReplayed, InQueue, Own, SendMovement
  <2> QED
    BY <2>2, <2>4
<1> QED
  BY <1>6, <1>7, <1>8, <1>9, <1>10

(* The main thread moves the oldest movement to the back of the queue. *)
LEMMA ReceiveInOrder ==
    ASSUME InOrder, TypeOK', ReceiveMovement
    PROVE  InOrder'
<1> USE DEF InOrder
<1>1. toServer # <<>> /\ toServer' = Tail(toServer) /\ Head(toServer).type = "move"
  BY DEF ReceiveMovement, Receives
<1>2. UNCHANGED <<clientVars, toClient, latest, applied>>
  BY DEF ReceiveMovement
<1>3. SentGrows /\ KeepsMoves(1)
  BY <1>1, <1>2, SameSender, FrontLeaves DEF clientVars
<1>4. SocketOrdered'
  BY <1>3, SocketKept
<1> PICK e : e = Move(1)
  OBVIOUS
<1>5. /\ 1 \in DOMAIN toServer /\ IsMove(1) /\ e \in Inputs /\ Sent(e)'
      /\ inputQueue' = Append(inputQueue, e)
  <2>1. 1 \in DOMAIN toServer /\ Head(toServer) = toServer[1]
    BY <1>1, HeadTailProperties DEF TypeOK
  <2>2. IsMove(1) /\ e \in Inputs
    BY <1>1, <2>1, MoveTyped DEF IsMove
  <2>3. Sent(e)
    BY <2>1, <2>2 DEF SocketOrdered
  <2>4. inputQueue' = Append(inputQueue, e)
    BY <2>1 DEF ReceiveMovement, Move
  <2> QED
    BY <2>1, <2>2, <2>3, <2>4, <1>3 DEF SentGrows, Sent
<1>6. ASSUME NEW k \in DOMAIN toServer', IsMove(k)'
      PROVE  /\ k + 1 \in DOMAIN toServer /\ IsMove(k + 1)
             /\ Move(k)' = Move(k + 1) /\ Before(e, Move(k)')
  <2>1. /\ k + 1 \in DOMAIN toServer /\ IsMove(k + 1) /\ Move(k)' = Move(k + 1)
        /\ k \in Nat /\ k > 0
    <3>1. k + 1 \in DOMAIN toServer /\ toServer'[k] = toServer[k + 1]
      BY <1>3, <1>6 DEF KeepsMoves, IsMove
    <3>2. k \in Nat /\ k > 0
      <4>1. toServer' \in Seq(C2S)
        BY <1>1, HeadTailProperties DEF TypeOK
      <4> QED
        BY <1>6, <4>1
    <3> QED
      BY <1>6, <3>1, <3>2 DEF IsMove, Move
  <2> QED
    BY <2>1, <1>5 DEF SocketOrdered
<1> PICK n : n = Len(inputQueue) + 1
  OBVIOUS
<1>7. /\ \A k \in DOMAIN inputQueue' : k \in DOMAIN inputQueue \/ k = n
      /\ \A k \in DOMAIN inputQueue : k \in Nat /\ k < n
      /\ \A k \in DOMAIN inputQueue : inputQueue'[k] = inputQueue[k]
      /\ inputQueue'[n] = e /\ n \in Nat
  BY <1>5, AppendProperties DEF TypeOK
<1>8. \A k \in DOMAIN inputQueue : Before(inputQueue[k], e)
  BY <1>5 DEF QueueOrdered
<1>9. QueueOrdered'
  <2>1. ASSUME NEW k \in DOMAIN inputQueue'
        PROVE  Sent(inputQueue[k])'
    <3>1. CASE k \in DOMAIN inputQueue
      <4>1. inputQueue[k] \in Inputs /\ Sent(inputQueue[k]) /\ inputQueue'[k] = inputQueue[k]
        BY <3>1, <1>7, MoveTyped DEF QueueOrdered
      <4> QED
        BY <4>1, <1>3 DEF SentGrows, Sent
    <3>2. CASE k = n
      BY <3>2, <1>5, <1>7 DEF Sent
    <3> QED
      BY <1>7, <3>1, <3>2
  <2>2. ASSUME NEW j \in DOMAIN inputQueue', NEW k \in DOMAIN inputQueue', j < k
        PROVE  Before(inputQueue'[j], inputQueue'[k])
    <3>1. j \in DOMAIN inputQueue
      BY <1>7, <2>2
    <3>2. CASE k \in DOMAIN inputQueue
      BY <1>7, <2>2, <3>1, <3>2 DEF QueueOrdered
    <3>3. CASE k = n
      BY <1>7, <1>8, <3>1, <3>3
    <3> QED
      BY <1>7, <3>2, <3>3
  <2>3. ASSUME NEW j \in DOMAIN inputQueue', NEW k \in DOMAIN toServer', IsMove(k)'
        PROVE  Before(inputQueue'[j], Move(k)')
    <3>1. CASE j \in DOMAIN inputQueue
      BY <1>6, <1>7, <2>3, <3>1 DEF QueueOrdered
    <3>2. CASE j = n
      BY <1>6, <1>7, <2>3, <3>2
    <3> QED
      BY <1>7, <3>1, <3>2
  <2> QED
    BY <2>1, <2>2, <2>3 DEF QueueOrdered, Before
<1>10. TankOrdered'
  <2>1. ASSUME NEW a \in applied
        PROVE  /\ Sent(a)'
               /\ \A k \in DOMAIN inputQueue' : Before(a, inputQueue'[k])
               /\ \A k \in DOMAIN toServer' : IsMove(k)' => Before(a, Move(k)')
    <3>1. Sent(a)'
      BY <1>3, MoveTyped DEF TankOrdered, SentGrows, Sent
    <3>2. \A k \in DOMAIN inputQueue' : Before(a, inputQueue'[k])
      BY <1>5, <1>7 DEF TankOrdered
    <3>3. \A k \in DOMAIN toServer' : IsMove(k)' => Before(a, Move(k)')
      BY <1>6 DEF TankOrdered
    <3> QED
      BY <3>1, <3>2, <3>3
  <2> QED
    BY <2>1, <1>2 DEF TankOrdered, Before, Sent
<1>11. SequenceCovers' /\ BufferOrdered' /\ NeverReplayed'
  BY <1>2 DEF SequenceCovers, BufferOrdered, NeverReplayed, Own, InQueue, clientVars
<1> QED
  BY <1>4, <1>9, <1>10, <1>11

(* The game thread moves the oldest input of the queue into the tank. *)
LEMMA ApplyInOrder ==
    ASSUME InOrder, TypeOK', ApplyInput
    PROVE  InOrder'
<1> USE DEF InOrder
<1>1. UNCHANGED <<clientVars, toServer, toClient>>
  BY DEF ApplyInput
<1>2. SentGrows /\ KeepsMoves(0)
  BY <1>1, SameSender, SocketStays DEF clientVars
<1>3. SocketOrdered'
  BY <1>2, SocketKept
<1> PICK e : e = inputQueue[1]
  OBVIOUS
<1>4. /\ 1 \in DOMAIN inputQueue /\ e \in Inputs /\ Sent(e)
      /\ applied' = applied \cup {e} /\ latest' = e[2]
      /\ \A k \in DOMAIN inputQueue' :
            /\ k \in Nat /\ k > 0 /\ k + 1 \in DOMAIN inputQueue
            /\ inputQueue'[k] = inputQueue[k + 1]
  <2>1. 1 \in DOMAIN inputQueue /\ Head(inputQueue) = inputQueue[1]
    BY HeadTailProperties DEF TypeOK, ApplyInput
  <2>2. \A k \in DOMAIN inputQueue' :
            /\ k \in Nat /\ k > 0 /\ k + 1 \in DOMAIN inputQueue
            /\ inputQueue'[k] = inputQueue[k + 1]
    BY HeadTailProperties DEF TypeOK, ApplyInput
  <2> QED
    BY <2>1, <2>2, MoveTyped DEF ApplyInput, QueueOrdered
<1>5. QueueOrdered'
  <2>1. \A k \in DOMAIN inputQueue' : Sent(inputQueue[k])'
    BY <1>1, <1>4 DEF QueueOrdered, Sent, clientVars
  <2>2. \A j, k \in DOMAIN inputQueue' :
            j < k => Before(inputQueue'[j], inputQueue'[k])
    BY <1>4 DEF QueueOrdered
  <2>3. \A j \in DOMAIN inputQueue', k \in DOMAIN toServer' :
            IsMove(k)' => Before(inputQueue'[j], Move(k)')
    BY <1>1, <1>4 DEF QueueOrdered, IsMove, Move
  <2> QED
    BY <2>1, <2>2, <2>3 DEF QueueOrdered, Before
<1>6. TankOrdered'
  <2>1. ASSUME NEW a \in applied'
        PROVE  /\ Sent(a)'
               /\ \A k \in DOMAIN inputQueue' : Before(a, inputQueue'[k])
               /\ \A k \in DOMAIN toServer' : IsMove(k)' => Before(a, Move(k)')
    <3>1. CASE a \in applied
      BY <3>1, <1>1, <1>4 DEF TankOrdered, Sent, IsMove, Move, clientVars
    <3>2. CASE a = e
      BY <3>2, <1>1, <1>4 DEF QueueOrdered, Sent, IsMove, Move, clientVars
    <3> QED
      BY <1>4, <3>1, <3>2
  <2> QED
    BY <2>1 DEF TankOrdered, Before, Sent
<1>7. SequenceCovers'
  <2>1. \A i \in Own(applied)' : i <= latest'
    <3>1. ASSUME NEW i \in Own(applied)'
          PROVE  i <= latest'
      <4>1. i \in Nat /\ <<tenant, i>> \in applied' /\ tenant' = tenant
        BY <1>1, Bounds DEF Own, clientVars
      <4>2. CASE <<tenant, i>> = e
        BY <4>1, <4>2, <1>4
      <4>3. CASE <<tenant, i>> \in applied
        <5>1. Before(<<tenant, i>>, e)
          BY <4>3, <1>4 DEF TankOrdered
        <5> QED
          BY <5>1, <4>1, <1>4, MoveTyped, InputTyped DEF Before, Sent
      <4> QED
        BY <4>1, <4>2, <4>3, <1>4
    <3> QED
      BY <3>1
  <2> QED
    BY <2>1, <1>1 DEF SequenceCovers, Own, clientVars
<1>8. BufferOrdered' /\ NeverReplayed'
  BY <1>1 DEF BufferOrdered, NeverReplayed, Own, InQueue, clientVars
<1> QED
  BY <1>3, <1>5, <1>6, <1>7, <1>8

(* What is left of the buffer is newer than the update, or reconciliation  *)
(* is off and the next update decides.                                     *)
LEMMA UpdateInOrder ==
    ASSUME InOrder, TypeOK', ProcessUpdate
    PROVE  InOrder'
<1> USE DEF InOrder
<1>1. UNCHANGED <<tenant, phase, nextId, serverVars, toServer>>
  BY DEF ProcessUpdate
<1>2. SentGrows /\ KeepsMoves(0) /\ UNCHANGED <<inputQueue, applied, latest>>
  BY <1>1, SameSender, SocketStays DEF serverVars
<1>3. SocketOrdered' /\ QueueOrdered' /\ TankOrdered'
  BY <1>2, SocketKept, QueueKept, TankKept
<1> PICK u : u = Head(toClient)
  OBVIOUS
<1>4. /\ u \in S2C /\ Covered(u) /\ toClient # <<>>
      /\ toClient' = Tail(toClient)
      /\ \A k \in DOMAIN toClient' : k + 1 \in DOMAIN toClient
                                    /\ toClient'[k] = toClient[k + 1]
  <2>1. toClient # <<>> /\ toClient' = Tail(toClient)
    BY DEF ProcessUpdate
  <2>2. 1 \in DOMAIN toClient /\ u = toClient[1]
    BY <2>1, HeadTailProperties DEF TypeOK
  <2>3. \A k \in DOMAIN toClient' : k + 1 \in DOMAIN toClient
                                    /\ toClient'[k] = toClient[k + 1]
    BY <2>1, HeadTailProperties DEF TypeOK
  <2> QED
    BY <2>1, <2>2, <2>3, MoveTyped DEF SequenceCovers, Covered
<1>5. CASE phase = "playing" /\ mine
  <2>1. PICK n \in 0 .. Len(queued) :
            /\ Overtaken(queued, u.seq, n)
            /\ queued' = Discard(queued, u.seq, n)
    BY <1>5 DEF ProcessUpdate
  <2>2. base' = u.included /\ synced' = reconciliation
    BY <1>5 DEF ProcessUpdate
  <2>3. SequenceCovers'
    <3>1. \A i \in Own(base)' : i < nextId'
      BY <1>1, <1>4, <2>2 DEF Covered, Own
    <3>2. \A i \in Own(applied)' : i <= latest'
      BY <1>1, <1>2 DEF SequenceCovers, Own
    <3>3. \A k \in DOMAIN toClient' : \A i \in Own(toClient[k].included)' :
              i <= toClient'[k].seq /\ i < nextId'
      BY <1>1, <1>4 DEF SequenceCovers, Own
    <3> QED
      BY <3>1, <3>2, <3>3, <1>1, <1>5 DEF SequenceCovers, Own
  <2>4. CASE ~reconciliation /\ \E k \in 1 .. n : queued[k] = u.seq
    <3>1. queued' = <<u.seq>> /\ \E k \in DOMAIN queued : queued[k] = u.seq
      BY <2>1, <2>4 DEF Discard, TypeOK
    <3>2. BufferOrdered'
      BY <1>1, <3>1 DEF BufferOrdered
    <3>3. NeverReplayed'
      BY <2>2, <2>4 DEF NeverReplayed
    <3> QED
      BY <1>3, <2>3, <3>2, <3>3
  <2>5. CASE ~(~reconciliation /\ \E k \in 1 .. n : queued[k] = u.seq)
    <3>1. queued' = SubSeq(queued, n + 1, Len(queued))
      BY <2>1, <2>5 DEF Discard
    <3>2. \A k \in DOMAIN queued' : /\ k + n \in DOMAIN queued /\ k \in Nat /\ k > 0
                                    /\ queued'[k] = queued[k + n]
      <4>1. \A i \in n + 1 .. Len(queued) : queued[i] \in InputIds
        BY ElementOfSeq DEF TypeOK
      <4>2. n + 1 \in Int /\ Len(queued) \in Nat
        BY DEF TypeOK
      <4>3. /\ Len(queued') = IF n + 1 <= Len(queued) THEN Len(queued) - (n + 1) + 1 ELSE 0
            /\ \A i \in 1 .. Len(queued) - (n + 1) + 1 : queued'[i] = queued[n + 1 + i - 1]
        BY <3>1, <4>1, <4>2, SubSeqProperties
      <4>4. /\ DOMAIN queued = 1 .. Len(queued) /\ DOMAIN queued' = 1 .. Len(queued')
            /\ Len(queued') \in Nat
        BY DEF TypeOK
      <4>5. Len(queued') = Len(queued) - n
        BY <4>2, <4>3
      <4> TAKE k \in DOMAIN queued'
      <4>6. k \in 1 .. Len(queued) - n /\ k \in Int
        BY <4>4, <4>5
      <4>7. k \in 1 .. Len(queued) - (n + 1) + 1
        BY <4>2, <4>6
      <4>10. queued'[k] = queued[n + 1 + k - 1]
        BY <4>3, <4>7
      <4>8. n + 1 + k - 1 = k + n
        BY <4>6
      <4>9. k + n \in 1 .. Len(queued)
        BY <4>2, <4>6
      <4> QED
        BY <4>4, <4>6, <4>10, <4>8, <4>9
    <3>3. BufferOrdered'
      BY <1>1, <3>2 DEF BufferOrdered
    <3>4. \A k \in DOMAIN queued' : queued'[k] > u.seq
      <4> TAKE k \in DOMAIN queued'
      <4>1. n + 1 \in DOMAIN queued /\ queued[n + 1] > u.seq /\ u.seq \in Nat
        <5>1. u.seq \in Nat
          BY <1>4, Bounds DEF S2C
        <5>4. DOMAIN queued = 1 .. Len(queued) /\ Len(queued) \in Nat
          BY DEF TypeOK
        <5>2. k + n \in 1 .. Len(queued) /\ k > 0 /\ k \in Nat /\ Len(queued) \in Nat
          BY <3>2, <5>4
        <5>3. n < Len(queued) /\ n + 1 \in 1 .. Len(queued)
          BY <5>2
        <5> QED
          BY <2>1, <5>1, <5>3 DEF Overtaken, TypeOK
      <4>2. CASE k = 1
        BY <3>2, <4>1, <4>2
      <4>3. CASE k # 1
        <5>1. queued[n + 1] < queued[k + n] /\ queued[n + 1] \in Nat /\ queued[k + n] \in Nat
          BY <3>2, <4>1, <4>3, MoveTyped DEF BufferOrdered
        <5> QED
          BY <3>2, <4>1, <5>1
      <4> QED
        BY <4>2, <4>3
    <3>5. \A i \in Own(base)' : i <= u.seq
      BY <1>1, <1>4, <2>2 DEF Covered, Own
    <3>6. NeverReplayed'
      <4> SUFFICES ASSUME NEW k \in DOMAIN queued', queued'[k] \in Own(base)'
                   PROVE  FALSE
        BY DEF NeverReplayed, InQueue
      <4>1. queued'[k] \in Nat /\ u.seq \in Nat
        BY <3>2, <1>4, MoveTyped, Bounds DEF S2C
      <4> QED
        BY <3>4, <3>5, <4>1
    <3> QED
      BY <1>3, <2>3, <3>3, <3>6
  <2> QED
    BY <2>4, <2>5
<1>6. CASE ~(phase = "playing" /\ mine)
  <2>1. UNCHANGED <<queued, base, synced>>
    BY <1>6 DEF ProcessUpdate
  <2>2. SequenceCovers'
    <3>1. UNCHANGED <<tenant, nextId, latest, base>> /\ phase' = phase
          /\ applied' \subseteq applied
      BY <2>1, <1>1, <1>2
    <3>2. /\ u \in S2C /\ Covered(u)
          /\ toClient # <<>> /\ toClient' = Tail(toClient)
      BY <1>4
    <3> QED
      BY <3>1, <3>2, ClientKept
  <2>3. BufferOrdered' /\ NeverReplayed'
    BY <2>1, <1>1, BufferKept, ReplayKept
  <2> QED
    BY <1>3, <2>2, <2>3
<1> QED
  BY <1>5, <1>6

(* The process takes back a part of what it sent and forgets its packets. *)
LEMMA QuitInOrder ==
    ASSUME InOrder, TypeOK', Quit
    PROVE  InOrder'
<1> USE DEF InOrder
<1>1. UNCHANGED <<tenant, nextId, queued, base, synced, inputQueue, applied, latest>>
      /\ toClient' = <<>>
  BY DEF Quit, serverVars
<1>2. SentGrows /\ KeepsMoves(0)
  BY <1>1, SameSender, BackLeaves DEF Quit
<1>3. SocketOrdered' /\ QueueOrdered' /\ TankOrdered'
  BY <1>1, <1>2, SocketKept, QueueKept, TankKept
<1>4. SequenceCovers'
  BY <1>1 DEF SequenceCovers, Own
<1> QED
  BY <1>1, <1>3, <1>4, BufferKept, ReplayKept

(* Every other action leaves inputs where they are: it only lets packets   *)
(* go, adds ones that are no movements, or reports what the tank holds.    *)
LEMMA QuietInOrder ==
    ASSUME InOrder, TypeOK',
           UNCHANGED <<tenant, nextId, queued, base, synced, inputQueue, latest>>,
           applied' \subseteq applied,
           phase' = phase \/ (phase # "gone" /\ phase' # "gone"),
           NEW d \in {0, 1}, KeepsMoves(d),
           NEW m \in S2C, Covered(m),
           \/ UNCHANGED toClient
           \/ toClient # <<>> /\ toClient' = Tail(toClient)
           \/ phase # "gone" /\ toClient' = Append(toClient, m)
    PROVE  InOrder'
<1> USE DEF InOrder
<1>1. SentGrows
  BY SameSender
<1>2. SocketOrdered' /\ QueueOrdered' /\ TankOrdered'
  BY <1>1, SocketKept, QueueKept, TankKept
<1>3. SequenceCovers'
  BY ClientKept
<1> QED
  BY <1>2, <1>3, BufferKept, ReplayKept

LEMMA InOrderStep == InOrder /\ [Next]_vars => InOrder'
<1> SUFFICES ASSUME InOrder, [Next]_vars
             PROVE  InOrder'
  OBVIOUS
<1> USE DEF clientVars, serverVars
<1>1. TypeOK /\ TypeOK' /\ TankOrdered /\ SequenceCovers
  BY TypeStep DEF InOrder
<1> PICK w \in S2C : w = ToSlot("welcome")
  BY ServerPacket
<1> PICK ok \in S2C : ok = ToSlot("ok")
  BY ServerPacket
<1> PICK u \in S2C : u = [type |-> "update", seq |-> latest, included |-> applied]
  BY <1>1, UpdatePacket
<1>2. Covered(w) /\ Covered(ok) /\ Covered(u)
  BY <1>1, AnswerCovered, UpdateCovered
<1>3. CASE Connect
  BY <1>1, <1>3, ConnectInOrder
<1>4. CASE Quit
  BY <1>1, <1>4, QuitInOrder
<1>5. CASE SendMovement
  BY <1>1, <1>5, SendInOrder
<1>6. CASE ProcessUpdate
  BY <1>1, <1>6, UpdateInOrder
<1>7. CASE ReceiveMovement
  BY <1>1, <1>7, ReceiveInOrder
<1>8. CASE ApplyInput
  BY <1>1, <1>8, ApplyInOrder
<1>9. CASE ProcessWelcome
  <2>1. KeepsMoves(0)
    <3>1. CASE phase = "initializing"
      <4>1. FromClient("enter", 0) \in C2S /\ FromClient("enter", 0).type # "move"
        BY <1>1, Bounds, ClientPacket DEF FromClient
      <4> QED
        BY <1>1, <1>9, <3>1, <4>1, OtherJoins DEF ProcessWelcome
    <3>2. CASE phase # "initializing"
      BY <1>1, <1>9, <3>2, SocketStays DEF ProcessWelcome
    <3> QED
      BY <3>1, <3>2
  <2>2. /\ UNCHANGED <<tenant, nextId, queued, base, synced, inputQueue, latest, applied, phase>>
        /\ toClient # <<>> /\ toClient' = Tail(toClient)
    BY <1>9 DEF ProcessWelcome
  <2> QED
    BY <1>1, <1>2, <2>1, <2>2, QuietInOrder
<1>10. CASE ProcessEnterGameOK
  <2>1. /\ UNCHANGED <<tenant, nextId, queued, base, synced, inputQueue, latest, applied, toServer>>
        /\ toClient # <<>> /\ toClient' = Tail(toClient)
        /\ phase # "gone" /\ phase' # "gone"
    BY <1>10 DEF ProcessEnterGameOK
  <2> QED
    BY <1>1, <1>2, <2>1, SocketStays, QuietInOrder
<1>11. CASE NewAccept
  <2>1. KeepsMoves(1)
    BY <1>1, <1>11, FrontLeaves DEF NewAccept, Receives
  <2>2. /\ UNCHANGED <<tenant, nextId, queued, base, synced, inputQueue, latest, applied, phase>>
        /\ \/ UNCHANGED toClient
           \/ phase # "gone" /\ toClient' = Append(toClient, w)
    BY <1>11 DEF NewAccept, Deliver
  <2> QED
    BY <1>1, <1>2, <2>1, <2>2, QuietInOrder
<1>12. CASE EnterGame
  <2>1. KeepsMoves(1)
    BY <1>1, <1>12, FrontLeaves DEF EnterGame, Receives
  <2>2. /\ UNCHANGED <<tenant, nextId, queued, base, synced, inputQueue, latest, phase>>
        /\ applied' = {}
        /\ \/ UNCHANGED toClient
           \/ phase # "gone" /\ toClient' = Append(toClient, ok)
    BY <1>12 DEF EnterGame, Deliver
  <2> QED
    BY <1>1, <1>2, <2>1, <2>2, QuietInOrder
<1>13. CASE SendUpdate
  <2>1. /\ UNCHANGED <<tenant, nextId, queued, base, synced, inputQueue, latest, applied, phase, toServer>>
        /\ \/ UNCHANGED toClient
           \/ phase # "gone" /\ toClient' = Append(toClient, u)
    BY <1>13 DEF SendUpdate, Deliver
  <2> QED
    BY <1>1, <1>2, <2>1, SocketStays, QuietInOrder
<1>14. CASE \/ ToggleReconciliation \/ CloseSession \/ CheckSession
           \/ NoticeDisconnect \/ UNCHANGED vars
  <2>1. UNCHANGED <<tenant, nextId, queued, base, synced, inputQueue, latest, applied, phase, toServer, toClient>>
    BY <1>14 DEF ToggleReconciliation, CloseSession, CheckSession,
       NoticeDisconnect, vars
  <2> QED
    BY <1>1, <1>2, <2>1, SocketStays, QuietInOrder
<1> QED
  BY <1>3, <1>4, <1>5, <1>6, <1>7, <1>8, <1>9, <1>10, <1>11, <1>12, <1>13,
     <1>14 DEF Next, Client, Main, Tick

(***************************************************************************)
(* Inputs keep their order through socket, queue and tank, and every       *)
(* sequence number the client is told covers the position that comes with  *)
(* it.                                                                     *)
(***************************************************************************)
THEOREM AlwaysInOrder == Spec => []InOrder
  BY InOrderInit, InOrderStep, PTL DEF Spec

-----------------------------------------------------------------------------
(* Contiguous, part by part.  A part is disturbed by few actions; what the *)
(* others leave alone is the first step of each proof.                     *)

Invs == InOrder /\ Contiguous

LEMMA ContiguousInit == Init => Contiguous
<1> SUFFICES ASSUME Init PROVE Contiguous
  OBVIOUS
<1>1. Own(applied) = {} /\ Own(base) = {} /\ Known = {}
  BY DEF Init, Own, Known, InLine, OnWire
<1> QED
  BY <1>1 DEF Init, Contiguous, SentWhilePlaying, NothingMissing, EnterFirst,
     AcksGrow, OneByOne, FirstHolder, Names, Closed, InQueue, Shown, IsUpdate

(* Every movement in toServer' was in toServer or is the one just sent.    *)
LEMMA MovesComeFrom ==
    ASSUME TypeOK, TypeOK', [Next]_vars, NEW k \in DOMAIN toServer', IsMove(k)'
    PROVE  \/ \E j \in DOMAIN toServer : toServer[j] = toServer'[k]
           \/ SendMovement /\ toServer'[k] = FromClient("move", nextId)
<1>1. CASE Connect
  <2>1. PICK m : m = [type |-> "new", from |-> tenant', id |-> 0]
    OBVIOUS
  <2>2. m \in C2S
    BY <1>1, <2>1, Bounds DEF TypeOK, C2S
  <2>3. toServer' = Append(toServer, m) /\ m.type # "move" /\ toServer \in Seq(C2S)
    BY <1>1, <2>1 DEF Connect, TypeOK
  <2>4. \/ k \in DOMAIN toServer /\ toServer'[k] = toServer[k]
        \/ toServer'[k] = m
    BY <2>2, <2>3, Appended
  <2> QED
    BY <2>3, <2>4 DEF IsMove
<1>2. CASE Quit
  <2>1. PICK n \in 0 .. Len(toServer) : toServer' = SubSeq(toServer, 1, n)
    BY <1>2 DEF Quit
  <2>2. toServer \in Seq(C2S)
    BY DEF TypeOK
  <2> QED
    BY <2>1, <2>2, Shortened
<1>3. CASE SendMovement
  <2>1. PICK m \in C2S : m = FromClient("move", nextId)
    BY <1>3, BoundsAssumption, ClientPacket DEF SendMovement, TypeOK, InputIds
  <2>2. toServer' = Append(toServer, m) /\ toServer \in Seq(C2S)
    BY <1>3, <2>1 DEF SendMovement, TypeOK
  <2>3. \/ k \in DOMAIN toServer /\ toServer'[k] = toServer[k]
        \/ toServer'[k] = m
    BY <2>2, Appended
  <2> QED
    BY <1>3, <2>1, <2>3
<1>4. CASE ProcessWelcome
  <2>1. FromClient("enter", 0) \in C2S /\ FromClient("enter", 0).type # "move"
    BY Bounds, ClientPacket DEF FromClient
  <2>2. UNCHANGED toServer \/ toServer' = Append(toServer, FromClient("enter", 0))
    BY <1>4 DEF ProcessWelcome
  <2>3. CASE toServer' = Append(toServer, FromClient("enter", 0))
    <3>1. toServer \in Seq(C2S)
      BY DEF TypeOK
    <3>2. \/ k \in DOMAIN toServer /\ toServer'[k] = toServer[k]
          \/ toServer'[k] = FromClient("enter", 0)
      BY <2>1, <2>3, <3>1, AppendProperties
    <3> QED
      BY <2>1, <3>2 DEF IsMove
  <2> QED
    BY <2>2, <2>3
<1>5. CASE Main
  <2>1. toServer # <<>> /\ toServer' = Tail(toServer) /\ toServer \in Seq(C2S)
    BY <1>5 DEF Main, NewAccept, EnterGame, ReceiveMovement, Receives, TypeOK
  <2>2. k + 1 \in DOMAIN toServer /\ toServer'[k] = toServer[k + 1]
    BY <2>1, Taken
  <2> QED
    BY <2>2
<1>6. CASE \/ ToggleReconciliation \/ ProcessEnterGameOK \/ ProcessUpdate
           \/ CloseSession \/ ApplyInput \/ Tick \/ UNCHANGED vars
  BY <1>6 DEF ToggleReconciliation, ProcessEnterGameOK, ProcessUpdate, CloseSession,
     ApplyInput, Tick, CheckSession, NoticeDisconnect, SendUpdate, vars, serverVars
<1> QED
  BY <1>1, <1>2, <1>3, <1>4, <1>5, <1>6 DEF Next, Client

(* Every input in the queue was there or comes from the front of toServer. *)
LEMMA QueueComesFrom ==
    ASSUME TypeOK, TypeOK', [Next]_vars, NEW k \in DOMAIN inputQueue'
    PROVE  \/ \E j \in DOMAIN inputQueue : inputQueue[j] = inputQueue'[k]
           \/ /\ 1 \in DOMAIN toServer /\ IsMove(1)
              /\ inputQueue'[k] = Move(1)
<1>1. CASE ReceiveMovement
  <2>1. 1 \in DOMAIN toServer /\ IsMove(1) /\ inputQueue' = Append(inputQueue, Move(1))
    BY <1>1, Taken DEF ReceiveMovement, Receives, IsMove, Move, TypeOK
  <2>2. Move(1) \in Inputs
    BY <2>1, MoveTyped
  <2> QED
    BY <2>1, <2>2, Appended DEF TypeOK
<1>2. CASE ApplyInput
  BY <1>2, Taken DEF ApplyInput, TypeOK
<1>3. CASE ~(ReceiveMovement \/ ApplyInput)
  BY <1>3 DEF Next, Client, Main, Tick, Connect, StartApplication, Quit, SendMovement,
     ToggleReconciliation, ProcessWelcome, ProcessEnterGameOK, ProcessUpdate, CloseSession,
     NewAccept, EnterGame, CheckSession, NoticeDisconnect, SendUpdate, vars, serverVars
<1> QED
  BY <1>1, <1>2, <1>3

(* Every input in the tank was there or comes from the front of the queue. *)
LEMMA TankComesFrom ==
    ASSUME TypeOK, [Next]_vars, NEW a \in applied'
    PROVE  \/ a \in applied
           \/ 1 \in DOMAIN inputQueue /\ a = inputQueue[1]
<1>1. CASE ApplyInput
  BY <1>1, Taken DEF ApplyInput, TypeOK
<1>2. CASE ~ApplyInput
  BY <1>2 DEF Next, Client, Main, Tick, Connect, StartApplication, Quit, SendMovement,
     ToggleReconciliation, ProcessWelcome, ProcessEnterGameOK, ProcessUpdate, CloseSession,
     NewAccept, EnterGame, ReceiveMovement, CheckSession, NoticeDisconnect, SendUpdate,
     vars, serverVars
<1> QED
  BY <1>1, <1>2

LEMMA SentWhilePlayingStep ==
    ASSUME Invs, TypeOK', [Next]_vars
    PROVE  SentWhilePlaying'
<1> USE DEF Invs, InOrder, Contiguous
<1>1. /\ phase' # "gone" => tenant' > 0
      /\ phase' = "initializing" => nextId' = 0
  BY MoveTyped DEF SentWhilePlaying, Next, Client, Main, Tick, Connect, StartApplication,
     Quit, SendMovement, ToggleReconciliation, ProcessWelcome, ProcessEnterGameOK,
     ProcessUpdate, CloseSession, NewAccept, EnterGame, ReceiveMovement, ApplyInput,
     CheckSession, NoticeDisconnect, SendUpdate, vars, clientVars
<1>2. ASSUME NEW k \in DOMAIN toServer', IsMove(k)'
      PROVE  toServer'[k].from > 0
  <2>1. CASE \E j \in DOMAIN toServer : toServer[j] = toServer'[k]
    BY <1>2, <2>1 DEF SentWhilePlaying, IsMove
  <2>2. CASE SendMovement /\ toServer'[k] = FromClient("move", nextId)
    BY <2>2 DEF SentWhilePlaying, SendMovement, FromClient
  <2> QED
    BY <1>2, <2>1, <2>2, MovesComeFrom
<1>3. \A k \in DOMAIN inputQueue' : inputQueue'[k][1] > 0
  BY QueueComesFrom DEF SentWhilePlaying, Move
<1>4. \A a \in applied' : a[1] > 0
  BY TankComesFrom DEF SentWhilePlaying
<1> QED
  BY <1>1, <1>2, <1>3, <1>4 DEF SentWhilePlaying

(* Where inputs are after one packet or one queue entry has moved.         *)
LEMMA WireLeft ==
    ASSUME TypeOK, toServer # <<>>, toServer' = Tail(toServer), UNCHANGED tenant, NEW i
    PROVE  OnWire(i) <=> OnWire(i)' \/ (IsMove(1) /\ Move(1) = <<tenant, i>>)
<1> USE Taken DEF TypeOK, IsMove, Move
<1>1. OnWire(i) => OnWire(i)' \/ (IsMove(1) /\ Move(1) = <<tenant, i>>)
  <2> SUFFICES ASSUME NEW k \in DOMAIN toServer, IsMove(k), Move(k) = <<tenant, i>>, k # 1
               PROVE  OnWire(i)'
    BY DEF OnWire
  <2>1. k - 1 \in DOMAIN toServer' /\ toServer'[k - 1] = toServer[k]
    OBVIOUS
  <2> QED
    BY <2>1 DEF OnWire
<1>2. OnWire(i)' => OnWire(i)
  BY DEF OnWire
<1>3. IsMove(1) /\ Move(1) = <<tenant, i>> => OnWire(i)
  BY DEF OnWire
<1> QED
  BY <1>1, <1>2, <1>3

LEMMA WireJoined ==
    ASSUME TypeOK, NEW m \in C2S, toServer' = Append(toServer, m), UNCHANGED tenant, NEW i
    PROVE  OnWire(i)' <=> OnWire(i) \/ (m.type = "move" /\ <<m.from, m.id>> = <<tenant, i>>)
<1>1. /\ \A k \in DOMAIN toServer : k \in DOMAIN toServer' /\ toServer'[k] = toServer[k]
      /\ \A k \in DOMAIN toServer' : k \in DOMAIN toServer \/ toServer'[k] = m
      /\ \E k \in DOMAIN toServer' : toServer'[k] = m
  <2>1. toServer \in Seq(C2S)
    BY DEF TypeOK
  <2> QED
    BY <2>1, Appended
<1> QED
  BY <1>1 DEF OnWire, IsMove, Move

LEMMA LineJoined ==
    ASSUME TypeOK, NEW a \in Inputs, inputQueue' = Append(inputQueue, a), UNCHANGED tenant,
           NEW i
    PROVE  InLine(i)' <=> InLine(i) \/ a = <<tenant, i>>
<1>1. /\ \A k \in DOMAIN inputQueue : k \in DOMAIN inputQueue' /\ inputQueue'[k] = inputQueue[k]
      /\ \A k \in DOMAIN inputQueue' : k \in DOMAIN inputQueue \/ inputQueue'[k] = a
      /\ \E k \in DOMAIN inputQueue' : inputQueue'[k] = a
  <2>1. inputQueue \in Seq(Inputs)
    BY DEF TypeOK
  <2>2. /\ \A k \in DOMAIN inputQueue : k \in DOMAIN inputQueue' /\ inputQueue'[k] = inputQueue[k]
        /\ \A k \in DOMAIN inputQueue' : k \in DOMAIN inputQueue \/ k = Len(inputQueue) + 1
        /\ Len(inputQueue) + 1 \in DOMAIN inputQueue' /\ inputQueue'[Len(inputQueue) + 1] = a
    BY <2>1, Appended
  <2> QED
    BY <2>2
<1> QED
  BY <1>1 DEF InLine

LEMMA LineLeft ==
    ASSUME TypeOK, inputQueue # <<>>, inputQueue' = Tail(inputQueue), UNCHANGED tenant, NEW i
    PROVE  InLine(i) <=> InLine(i)' \/ Head(inputQueue) = <<tenant, i>>
<1>1. /\ 1 \in DOMAIN inputQueue /\ Head(inputQueue) = inputQueue[1]
      /\ \A k \in DOMAIN inputQueue' : k + 1 \in DOMAIN inputQueue
                                       /\ inputQueue'[k] = inputQueue[k + 1]
      /\ \A k \in DOMAIN inputQueue :
            k = 1 \/ (k - 1 \in DOMAIN inputQueue' /\ inputQueue'[k - 1] = inputQueue[k])
  BY Taken DEF TypeOK
<1>2. \A e : (\E k \in DOMAIN inputQueue : inputQueue[k] = e)
          <=> (\E k \in DOMAIN inputQueue' : inputQueue'[k] = e) \/ inputQueue[1] = e
  <2> TAKE e
  <2>1. ASSUME NEW k \in DOMAIN inputQueue, inputQueue[k] = e, k # 1
        PROVE  \E j \in DOMAIN inputQueue' : inputQueue'[j] = e
    <3>1. k - 1 \in DOMAIN inputQueue' /\ inputQueue'[k - 1] = e
      BY <1>1, <2>1
    <3> QED
      BY <3>1
  <2>2. ASSUME NEW k \in DOMAIN inputQueue', inputQueue'[k] = e
        PROVE  \E j \in DOMAIN inputQueue : inputQueue[j] = e
    <3>1. k + 1 \in DOMAIN inputQueue /\ inputQueue[k + 1] = e
      BY <1>1, <2>2
    <3> QED
      BY <3>1
  <2> QED
    BY <1>1, <2>1, <2>2
<1> QED
  BY <1>1, <1>2 DEF InLine

LEMMA KnownKept ==
    ASSUME TypeOK,
           \A i \in InputIds : \/ i \in Own(applied) \/ InLine(i) \/ OnWire(i)
                            <=> i \in Own(applied') \/ InLine(i)' \/ OnWire(i)',
           UNCHANGED tenant
    PROVE  Known' = Known
  BY DEF Known, Own

LEMMA NothingMissingStep ==
    ASSUME Invs, TypeOK', [Next]_vars
    PROVE  NothingMissing'
<1> USE DEF Invs, InOrder, Contiguous
<1>1. CASE Connect
  <2>1. /\ \A k \in DOMAIN toServer' : ~IsMove(k)' \/ \E j \in DOMAIN toServer :
                IsMove(j) /\ Move(j) = Move(k)'
        /\ tenant' = tenant + 1 /\ nextId' = 0
        /\ UNCHANGED <<inputQueue, applied>>
    <3>1. \A k \in DOMAIN toServer' :
              \/ k \in DOMAIN toServer /\ toServer'[k] = toServer[k]
              \/ toServer'[k] = [type |-> "new", from |-> tenant', id |-> 0]
      BY <1>1, AppendProperties DEF Connect, StartApplication, TypeOK
    <3> QED
      BY <1>1, <3>1 DEF Connect, StartApplication, IsMove, Move
  <2>2. \A i \in InputIds : <<tenant + 1, i>> \notin applied /\ ~InLine(i)' /\ ~OnWire(i)'
    BY <2>1, MoveTyped, InputTyped
       DEF SocketOrdered, QueueOrdered, TankOrdered, Sent, InLine, OnWire
  <2>3. Known' = {}
    BY <2>1, <2>2 DEF Known, Own
  <2> QED
    BY <2>1, <2>3 DEF NothingMissing, Closed
<1>2. CASE Quit
  <2>1. PICK n \in 0 .. Len(toServer) : toServer' = SubSeq(toServer, 1, n)
    BY <1>2 DEF Quit
  <2>2. /\ DOMAIN toServer' = 1 .. n /\ DOMAIN toServer = 1 .. Len(toServer)
        /\ Len(toServer) \in Nat
        /\ \A k \in 1 .. n : toServer'[k] = toServer[k]
    BY <2>1, Shortened DEF TypeOK
  <2>3. UNCHANGED <<tenant, applied, inputQueue, nextId>> /\ phase' = "gone"
    BY <1>2 DEF Quit, serverVars
  <2>4. ASSUME NEW i \in Known', NEW j \in 0 .. i
        PROVE  j \in Known'
    <3>1. i \in Nat /\ j \in Nat /\ j \in InputIds /\ j <= i
      BY Bounds, BoundsAssumption DEF Known, InputIds
    <3>2. i \in Known
      BY <2>2, <2>3 DEF Known, Own, InLine, OnWire, IsMove, Move
    <3>3. j \in Known
      BY <3>1, <3>2 DEF NothingMissing, Closed
    <3>4. CASE OnWire(j) /\ j # i
      <4>1. PICK m \in DOMAIN toServer : IsMove(m) /\ Move(m) = <<tenant, j>>
        BY <3>4 DEF OnWire
      <4>2. CASE OnWire(i)'
        <5>1. PICK k \in 1 .. n : IsMove(k) /\ Move(k) = <<tenant, i>>
          BY <4>2, <2>2, <2>3 DEF OnWire, IsMove, Move
        <5>2. ~ (k < m) /\ k \in DOMAIN toServer
          BY <4>1, <5>1, <2>2, <3>1, MoveTyped DEF SocketOrdered, Before
        <5>3. m \in 1 .. n
          BY <5>1, <5>2, <2>2
        <5> QED
          BY <5>3, <4>1, <2>2, <2>3, <3>1 DEF Known, OnWire, IsMove, Move
      <4>3. CASE ~OnWire(i)'
        <5>1. i \in Own(applied) \/ InLine(i)
          BY <4>3, <2>3 DEF Known, Own, InLine
        <5>2. Before(<<tenant, i>>, <<tenant, j>>)
          BY <4>1, <5>1 DEF Own, InLine, QueueOrdered, TankOrdered
        <5> QED
          BY <5>2, <3>1, MoveTyped DEF Before
      <4> QED
        BY <4>2, <4>3
    <3>5. CASE ~OnWire(j)
      BY <3>1, <3>3, <3>5, <2>3 DEF Known, Own, InLine
    <3> QED
      BY <3>4, <3>5
  <2> QED
    BY <2>3, <2>4 DEF NothingMissing, Closed
<1>3. CASE SendMovement
  <2>1. nextId \in InputIds /\ nextId \in Nat /\ nextId' = nextId + 1
    BY <1>3, BoundsAssumption DEF SendMovement, TypeOK, InputIds
  <2>2. PICK m \in C2S : m = FromClient("move", nextId)
    BY <2>1, ClientPacket
  <2>3. /\ m.type = "move" /\ <<m.from, m.id>> = <<tenant, nextId>>
        /\ toServer' = Append(toServer, m)
        /\ UNCHANGED <<tenant, applied, inputQueue, phase>> /\ phase = "playing"
    BY <1>3, <2>2 DEF SendMovement, FromClient, serverVars
  <2>4. Known' = Known \cup {nextId}
    <3>1. \A i \in InputIds : OnWire(i)' <=> OnWire(i) \/ i = nextId
      BY <2>2, <2>3, WireJoined
    <3> QED
      BY <3>1, <2>1, <2>3 DEF Known, Own, InLine
  <2>5. 0 .. nextId - 1 \subseteq Known /\ Closed(Known)
    BY <2>3 DEF NothingMissing
  <2>6. 0 .. nextId = (0 .. nextId - 1) \cup {nextId}
    BY <2>1
  <2> QED
    BY <2>1, <2>4, <2>5, <2>6 DEF NothingMissing, Closed
<1>4. CASE ReceiveMovement
  <2>1. /\ toServer # <<>> /\ toServer' = Tail(toServer) /\ 1 \in DOMAIN toServer /\ IsMove(1)
        /\ inputQueue' = Append(inputQueue, Move(1)) /\ Move(1) \in Inputs
        /\ UNCHANGED <<tenant, applied, phase, nextId>>
    BY <1>4, Taken, MoveTyped DEF ReceiveMovement, Receives, IsMove, Move, TypeOK, clientVars
  <2>2. Known' = Known
    BY <2>1, WireLeft, LineJoined, KnownKept
  <2> QED
    BY <2>1, <2>2 DEF NothingMissing, Closed
<1>5. CASE ApplyInput
  <2>1. /\ inputQueue # <<>> /\ inputQueue' = Tail(inputQueue)
        /\ applied' = applied \cup {Head(inputQueue)}
        /\ UNCHANGED <<tenant, toServer, phase, nextId>>
    BY <1>5 DEF ApplyInput, clientVars
  <2>2. Known' = Known
    <3>1. \A i \in InputIds : InLine(i) <=> InLine(i)' \/ Head(inputQueue) = <<tenant, i>>
      BY <2>1, LineLeft
    <3>2. \A i \in InputIds : OnWire(i)' <=> OnWire(i)
      BY <2>1 DEF OnWire, IsMove, Move
    <3> QED
      BY <2>1, <3>1, <3>2 DEF Known, Own
  <2> QED
    BY <2>1, <2>2 DEF NothingMissing, Closed
<1>6. CASE EnterGame
  <2>1. /\ toServer # <<>> /\ toServer' = Tail(toServer) /\ 1 \in DOMAIN toServer
        /\ toServer[1].type = "enter"
        /\ applied' = {} /\ UNCHANGED <<tenant, inputQueue, phase, nextId>>
    BY <1>6, Taken DEF EnterGame, Receives, TypeOK, clientVars
  <2>2. Own(applied) = {} /\ ~IsMove(1)
    BY <2>1 DEF EnterFirst, IsMove
  <2>3. \A i \in InputIds : OnWire(i) <=> OnWire(i)'
    BY <2>1, <2>2, WireLeft
  <2>4. Known' = Known
    BY <2>1, <2>2, <2>3 DEF Known, Own, InLine
  <2> QED
    BY <2>1, <2>4 DEF NothingMissing, Closed
<1>7. CASE NewAccept
  <2>1. /\ toServer # <<>> /\ toServer' = Tail(toServer) /\ 1 \in DOMAIN toServer
        /\ ~IsMove(1) /\ UNCHANGED <<tenant, inputQueue, phase, nextId, applied>>
    BY <1>7, Taken DEF NewAccept, Receives, TypeOK, clientVars, IsMove
  <2>2. \A i \in InputIds : OnWire(i) <=> OnWire(i)'
    BY <2>1, WireLeft
  <2>3. Known' = Known
    BY <2>1, <2>2 DEF Known, Own, InLine
  <2> QED
    BY <2>1, <2>3 DEF NothingMissing, Closed
<1>8. CASE ProcessWelcome
  <2>1. PICK m \in C2S : m = FromClient("enter", 0)
    BY Bounds, ClientPacket
  <2>2. m.type # "move"
    BY <2>1 DEF FromClient
  <2>3. /\ UNCHANGED <<tenant, phase, nextId, applied, inputQueue>>
        /\ UNCHANGED toServer \/ toServer' = Append(toServer, m)
    BY <1>8, <2>1 DEF ProcessWelcome, serverVars
  <2>4. \A i \in InputIds : OnWire(i) <=> OnWire(i)'
    <3>1. CASE UNCHANGED toServer
      BY <3>1, <2>3 DEF OnWire, IsMove, Move
    <3>2. CASE toServer' = Append(toServer, m)
      BY <3>2, <2>2, <2>3, WireJoined
    <3> QED
      BY <2>3, <3>1, <3>2
  <2>5. Known' = Known
    BY <2>3, <2>4 DEF Known, Own, InLine
  <2> QED
    BY <2>3, <2>5 DEF NothingMissing, Closed
<1>9. CASE \/ ToggleReconciliation \/ ProcessEnterGameOK \/ ProcessUpdate \/ CloseSession
           \/ Tick \/ UNCHANGED vars
  <2>1. /\ UNCHANGED <<tenant, nextId, applied, inputQueue, toServer>>
        /\ phase' # "gone" => phase # "gone"
    BY <1>9 DEF ToggleReconciliation, ProcessEnterGameOK, ProcessUpdate, CloseSession, Tick,
       CheckSession, NoticeDisconnect, SendUpdate, vars, clientVars, serverVars
  <2>2. Known' = Known
    BY <2>1 DEF Known, Own, InLine, OnWire, IsMove, Move
  <2> QED
    BY <2>1, <2>2 DEF NothingMissing, Closed
<1> QED
  BY <1>1, <1>2, <1>3, <1>4, <1>5, <1>6, <1>7, <1>8, <1>9 DEF Next, Client, Main

(* What overtakes nothing leaves no gap behind it. *)
LEMMA TankIsClosed ==
    ASSUME Invs
    PROVE  Closed(Own(applied))
<1> USE DEF Invs, InOrder, Contiguous
<1> SUFFICES ASSUME NEW i \in Own(applied), NEW j \in 0 .. i
             PROVE  j \in Own(applied)
  BY DEF Closed
<1>1. i \in Nat /\ j \in Nat /\ j <= i /\ i \in Known /\ tenant \in Nat
  BY Bounds, BoundsAssumption, MoveTyped DEF Known, Own, InputIds
<1>2. j \in Known
  BY <1>1 DEF NothingMissing, Closed
<1>3. InLine(j) \/ OnWire(j) => Before(<<tenant, i>>, <<tenant, j>>)
  BY DEF Own, InLine, OnWire, TankOrdered
<1> QED
  BY <1>1, <1>2, <1>3 DEF Before, Known, Own

(* Nothing of a process that has sent nothing is anywhere. *)
LEMMA NothingSent ==
    ASSUME InOrder, NEW t \in Nat, t > tenant \/ (t = tenant /\ nextId = 0)
    PROVE  /\ \A i \in InputIds : <<t, i>> \notin applied
           /\ \A i \in InputIds, k \in DOMAIN inputQueue : inputQueue[k] # <<t, i>>
           /\ \A k \in DOMAIN toServer : IsMove(k) => toServer[k].from # t
<1> USE DEF InOrder
<1>1. \A i \in InputIds : ~Sent(<<t, i>>)
  BY Bounds, MoveTyped DEF Sent
<1>2. \A k \in DOMAIN toServer : IsMove(k) => toServer[k].from # t
  <2> SUFFICES ASSUME NEW k \in DOMAIN toServer, IsMove(k), toServer[k].from = t
               PROVE  FALSE
    OBVIOUS
  <2>1. toServer[k] \in C2S
    BY DEF TypeOK
  <2>2. toServer[k].id \in InputIds
    BY <2>1 DEF C2S
  <2> QED
    BY <1>1, <2>2 DEF SocketOrdered, Move
<1> QED
  BY <1>1, <1>2 DEF TankOrdered, QueueOrdered

LEMMA EnterFirstStep ==
    ASSUME Invs, TypeOK', [Next]_vars
    PROVE  EnterFirst'
<1> USE DEF Invs, InOrder, Contiguous
<1> DEFINE Ahead(s, k) == \A j \in DOMAIN s :
              j < k /\ s[j].type = "move" => s[j].from # tenant
<1>1. CASE Connect
  <2>1. /\ \A k \in DOMAIN toServer' : toServer'[k].type = "move" =>
              k \in DOMAIN toServer /\ toServer'[k] = toServer[k]
        /\ tenant' = tenant + 1 /\ UNCHANGED <<inputQueue, applied>>
    BY <1>1, AppendProperties DEF Connect, StartApplication, TypeOK
  <2>2. /\ \A i \in InputIds : <<tenant + 1, i>> \notin applied
        /\ \A i \in InputIds, k \in DOMAIN inputQueue : inputQueue[k] # <<tenant + 1, i>>
        /\ \A k \in DOMAIN toServer : IsMove(k) => toServer[k].from # tenant + 1
    BY NothingSent, MoveTyped
  <2> QED
    BY <2>1, <2>2 DEF EnterFirst, Own, InLine, IsMove
<1>2. CASE Quit
  <2>1. PICK n \in 0 .. Len(toServer) : toServer' = SubSeq(toServer, 1, n)
    BY <1>2 DEF Quit
  <2>2. \A k \in DOMAIN toServer' : k \in DOMAIN toServer /\ toServer'[k] = toServer[k]
    BY <2>1, Shortened DEF TypeOK
  <2>3. UNCHANGED <<tenant, applied, inputQueue>>
    BY <1>2 DEF Quit, serverVars
  <2> QED
    BY <2>2, <2>3 DEF EnterFirst, Own, InLine, IsMove
<1>3. CASE SendMovement
  <2>1. PICK m \in C2S : m = FromClient("move", nextId)
    BY <1>3, BoundsAssumption, ClientPacket DEF SendMovement, TypeOK, InputIds
  <2>2. m.type = "move" /\ toServer' = Append(toServer, m)
        /\ UNCHANGED <<tenant, applied, inputQueue>>
    BY <1>3, <2>1 DEF SendMovement, FromClient, serverVars
  <2>3. ASSUME NEW k \in DOMAIN toServer', toServer'[k].type = "enter"
        PROVE  /\ k \in DOMAIN toServer /\ toServer[k].type = "enter"
               /\ \A j \in DOMAIN toServer' : j < k => j \in DOMAIN toServer
                                                       /\ toServer'[j] = toServer[j]
    BY <2>2, <2>3, AppendProperties DEF TypeOK
  <2> QED
    BY <2>2, <2>3 DEF EnterFirst, Own, InLine, IsMove
<1>4. CASE ProcessWelcome
  <2>1. PICK m \in C2S : m = FromClient("enter", 0)
    BY Bounds, ClientPacket
  <2>2. UNCHANGED <<tenant, applied, inputQueue>>
    BY <1>4 DEF ProcessWelcome, serverVars
  <2>3. CASE phase = "initializing"
    <3>1. toServer' = Append(toServer, m) /\ m.type = "enter"
      BY <1>4, <2>1, <2>3 DEF ProcessWelcome, FromClient
    <3>2. /\ \A i \in InputIds : <<tenant, i>> \notin applied
          /\ \A i \in InputIds, k \in DOMAIN inputQueue : inputQueue[k] # <<tenant, i>>
          /\ \A k \in DOMAIN toServer : IsMove(k) => toServer[k].from # tenant
      BY <2>3, NothingSent, MoveTyped DEF SentWhilePlaying
    <3>3. \A k \in DOMAIN toServer' : toServer'[k].type = "move" =>
              k \in DOMAIN toServer /\ toServer'[k] = toServer[k]
      BY <3>1, AppendProperties DEF TypeOK
    <3> QED
      BY <2>2, <3>2, <3>3 DEF EnterFirst, Own, InLine, IsMove
  <2>4. CASE phase # "initializing"
    BY <1>4, <2>2, <2>4 DEF ProcessWelcome, EnterFirst, Own, InLine, IsMove
  <2> QED
    BY <2>3, <2>4
<1>5. CASE Main
  <2>1. /\ toServer # <<>> /\ toServer' = Tail(toServer) /\ UNCHANGED tenant
        /\ applied' \subseteq applied
        /\ Head(toServer).type # "move" => UNCHANGED inputQueue
    BY <1>5 DEF Main, NewAccept, EnterGame, ReceiveMovement, Receives, clientVars
  <2>2. /\ 1 \in DOMAIN toServer /\ Head(toServer) = toServer[1]
        /\ \A k \in DOMAIN toServer' : /\ k \in Nat /\ k > 0 /\ k + 1 \in DOMAIN toServer
                                       /\ toServer'[k] = toServer[k + 1]
    BY <2>1, Taken DEF TypeOK
  <2> SUFFICES ASSUME NEW k \in DOMAIN toServer', toServer'[k].type = "enter"
               PROVE  /\ Own(applied)' = {}
                      /\ \A i \in InputIds : ~InLine(i)'
                      /\ Ahead(toServer', k)
    BY <2>1 DEF EnterFirst, IsMove
  <2>3. /\ Own(applied) = {} /\ \A i \in InputIds : ~InLine(i)
        /\ Ahead(toServer, k + 1) /\ 1 < k + 1
    BY <2>2 DEF EnterFirst, IsMove
  <2>4. Ahead(toServer', k)
    <3> TAKE j \in DOMAIN toServer'
    <3> HAVE j < k /\ toServer'[j].type = "move"
    <3>1. j + 1 < k + 1 /\ j + 1 \in DOMAIN toServer /\ toServer[j + 1] = toServer'[j]
      BY <2>2
    <3> QED
      BY <2>3, <3>1
  <2>5. \A i \in InputIds : ~InLine(i)'
    <3>1. CASE ReceiveMovement
      <4>1. IsMove(1) /\ inputQueue' = Append(inputQueue, Move(1)) /\ Move(1) \in Inputs
        BY <3>1, <2>2, MoveTyped DEF ReceiveMovement, Receives, IsMove, Move
      <4>2. toServer[1].from # tenant
        BY <2>2, <2>3, <4>1 DEF IsMove
      <4> QED
        BY <2>1, <2>3, <4>1, <4>2, LineJoined DEF Move
    <3>2. CASE UNCHANGED inputQueue
      BY <3>2, <2>1, <2>3 DEF InLine
    <3> QED
      BY <3>1, <3>2, <1>5 DEF Main, NewAccept, EnterGame
  <2> QED
    BY <2>1, <2>3, <2>4, <2>5 DEF Own
<1>6. CASE ApplyInput
  <2>1. /\ inputQueue # <<>> /\ inputQueue' = Tail(inputQueue)
        /\ applied' = applied \cup {Head(inputQueue)}
        /\ UNCHANGED <<tenant, toServer>>
    BY <1>6 DEF ApplyInput, clientVars
  <2>2. \A i \in InputIds : InLine(i) <=> InLine(i)' \/ Head(inputQueue) = <<tenant, i>>
    BY <2>1, LineLeft
  <2> QED
    BY <2>1, <2>2 DEF EnterFirst, Own, IsMove
<1>7. CASE \/ ToggleReconciliation \/ ProcessEnterGameOK \/ ProcessUpdate \/ CloseSession
           \/ Tick \/ UNCHANGED vars
  <2>1. UNCHANGED <<tenant, applied, inputQueue, toServer>>
    BY <1>7 DEF ToggleReconciliation, ProcessEnterGameOK, ProcessUpdate, CloseSession, Tick,
       CheckSession, NoticeDisconnect, SendUpdate, vars, clientVars, serverVars
  <2> QED
    BY <2>1 DEF EnterFirst, Own, InLine, IsMove
<1> QED
  BY <1>1, <1>2, <1>3, <1>4, <1>5, <1>6, <1>7 DEF Next, Client

(* The packets on their way to the client leave one by one and are joined  *)
(* by reports of what the tank holds now.                                  *)
LEMMA AcksKept ==
    ASSUME TypeOK, AcksGrow, UNCHANGED <<tenant, base>>, Own(applied) \subseteq Own(applied)',
           NEW m \in S2C,
           m.type = "update" => Own(m.included) = Own(applied) /\ Closed(Own(applied)),
           \/ UNCHANGED toClient
           \/ toClient # <<>> /\ toClient' = Tail(toClient)
           \/ toClient' = Append(toClient, m)
    PROVE  AcksGrow'
<1>1. CASE UNCHANGED toClient
  BY <1>1 DEF AcksGrow, Own, IsUpdate, Shown, Closed
<1>2. CASE toClient # <<>> /\ toClient' = Tail(toClient)
  <2>1. \A k \in DOMAIN toClient' : /\ k \in Nat /\ k + 1 \in DOMAIN toClient
                                    /\ toClient'[k] = toClient[k + 1]
    BY <1>2, Taken DEF TypeOK
  <2>2. \A j, k \in DOMAIN toClient' : j < k => j + 1 < k + 1
    BY <2>1
  <2> QED
    BY <2>1, <2>2 DEF AcksGrow, Own, IsUpdate, Shown, Closed
<1>3. CASE toClient' = Append(toClient, m)
  <2>1. \A k \in DOMAIN toClient' : \/ k \in DOMAIN toClient /\ toClient'[k] = toClient[k]
                                    \/ k = Len(toClient) + 1 /\ toClient'[k] = m
    BY <1>3, Appended DEF TypeOK
  <2>2. /\ Own(base)' = Own(base)
        /\ \A k \in DOMAIN toClient' : Shown(k)' = Own(toClient'[k].included)
    BY DEF Own, Shown
  <2>3. \A k \in DOMAIN toClient' : IsUpdate(k)' =>
            \/ k \in DOMAIN toClient /\ IsUpdate(k) /\ Shown(k)' = Shown(k)
            \/ /\ k = Len(toClient) + 1 /\ Shown(k)' = Own(applied) /\ Closed(Own(applied))
    BY <2>1, <2>2 DEF IsUpdate, Shown
  <2>4. \A k \in DOMAIN toClient : k \in Nat /\ k < Len(toClient) + 1
    BY DEF TypeOK
  <2>5. \A k \in DOMAIN toClient' : IsUpdate(k)' =>
            /\ Own(base) \subseteq Shown(k)' /\ Shown(k)' \subseteq Own(applied)'
            /\ Closed(Shown(k)')
    BY <2>3 DEF AcksGrow
  <2>6. \A j, k \in DOMAIN toClient' :
            j < k /\ IsUpdate(j)' /\ IsUpdate(k)' => Shown(j)' \subseteq Shown(k)'
    <3> SUFFICES ASSUME NEW j \in DOMAIN toClient', NEW k \in DOMAIN toClient',
                        j < k, IsUpdate(j)', IsUpdate(k)'
                 PROVE  Shown(j)' \subseteq Shown(k)'
      OBVIOUS
    <3>1. CASE k \in DOMAIN toClient
      <4>1. k < Len(toClient) + 1 /\ k \in Nat /\ Len(toClient) \in Nat
        BY <2>4, <3>1 DEF TypeOK
      <4>2. j # Len(toClient) + 1
        BY <4>1
      <4>3. /\ j \in DOMAIN toClient /\ IsUpdate(j) /\ Shown(j)' = Shown(j)
            /\ IsUpdate(k) /\ Shown(k)' = Shown(k)
        BY <2>3, <3>1, <4>1, <4>2
      <4> QED
        BY <3>1, <4>3 DEF AcksGrow
    <3>2. CASE k \notin DOMAIN toClient
      <4>1. Shown(k)' = Own(applied)
        BY <2>3, <3>2
      <4> QED
        BY <2>3, <4>1 DEF AcksGrow
    <3> QED
      BY <3>1, <3>2
  <2> QED
    BY <2>2, <2>5, <2>6 DEF AcksGrow, Closed
<1> QED
  BY <1>1, <1>2, <1>3

LEMMA AcksGrowStep ==
    ASSUME Invs, TypeOK', [Next]_vars
    PROVE  AcksGrow'
<1> USE DEF Invs, InOrder, Contiguous
<1> PICK w \in S2C : w = ToSlot("welcome")
  BY ServerPacket
<1> PICK ok \in S2C : ok = ToSlot("ok")
  BY ServerPacket
<1> PICK u \in S2C : u = [type |-> "update", seq |-> latest, included |-> applied]
  BY UpdatePacket
<1>1. /\ w.type # "update" /\ ok.type # "update"
      /\ Own(u.included) = Own(applied) /\ Closed(Own(applied))
  BY TankIsClosed DEF ToSlot
<1>2. CASE Connect
  <2>1. toClient' = <<>> /\ Own(base)' = {}
    BY <1>2 DEF Connect, StartApplication, SequenceCovers, Own
  <2> QED
    BY <2>1 DEF AcksGrow
<1>3. CASE Quit
  BY <1>3 DEF Quit, AcksGrow, Own, serverVars
<1>4. CASE ProcessUpdate
  <2>1. /\ toClient # <<>> /\ toClient' = Tail(toClient)
        /\ Head(toClient).type = "update" /\ UNCHANGED <<tenant, applied>>
    BY <1>4 DEF ProcessUpdate, serverVars
  <2>2. CASE phase = "playing" /\ mine
    <3>1. 1 \in DOMAIN toClient /\ IsUpdate(1) /\ base' = toClient[1].included
      BY <1>4, <2>1, <2>2, Taken DEF ProcessUpdate, TypeOK, IsUpdate
    <3>2. \A k \in DOMAIN toClient' :
              /\ k \in Nat /\ k + 1 \in DOMAIN toClient /\ 1 < k + 1
              /\ toClient'[k] = toClient[k + 1]
      BY <2>1, Taken DEF TypeOK
    <3>3. \A j, k \in DOMAIN toClient' : j < k => j + 1 < k + 1
      BY <3>2
    <3>4. Own(base)' = Shown(1)
      BY <2>1, <3>1 DEF Own, Shown
    <3>5. \A k \in DOMAIN toClient' : IsUpdate(k)' =>
              IsUpdate(k + 1) /\ Shown(k)' = Shown(k + 1)
      BY <2>1, <3>2 DEF IsUpdate, Shown, Own
    <3>6. Own(applied)' = Own(applied)
      BY <2>1 DEF Own
    <3>7. Shown(1) \subseteq Own(applied)
      BY <3>1 DEF AcksGrow
    <3>8. \A k \in DOMAIN toClient' : IsUpdate(k)' =>
              /\ Shown(1) \subseteq Shown(k)' /\ Shown(k)' \subseteq Own(applied)
              /\ Closed(Shown(k)')
      BY <3>1, <3>2, <3>5 DEF AcksGrow
    <3>9. \A j, k \in DOMAIN toClient' :
              j < k /\ IsUpdate(j)' /\ IsUpdate(k)' => Shown(j)' \subseteq Shown(k)'
      BY <3>2, <3>3, <3>5 DEF AcksGrow
    <3> QED
      BY <3>4, <3>6, <3>7, <3>8, <3>9 DEF AcksGrow, Closed
  <2>3. CASE ~(phase = "playing" /\ mine)
    <3>1. UNCHANGED base /\ Own(applied) \subseteq Own(applied)'
      BY <1>4, <2>1, <2>3 DEF ProcessUpdate, Own
    <3> QED
      BY <2>1, <3>1, <1>1, AcksKept
  <2> QED
    BY <2>2, <2>3
<1>5. CASE EnterGame
  <2>1. Own(applied) = {}
    BY <1>5, Taken DEF EnterGame, Receives, TypeOK, EnterFirst
  <2>2. /\ UNCHANGED <<tenant, base>>
        /\ UNCHANGED toClient \/ toClient' = Append(toClient, ok)
    BY <1>5 DEF EnterGame, Deliver, clientVars
  <2> QED
    BY <1>1, <2>1, <2>2, AcksKept
<1>6. CASE ApplyInput
  <2>1. /\ UNCHANGED <<tenant, base, toClient>> /\ applied \subseteq applied'
    BY <1>6 DEF ApplyInput, clientVars
  <2>2. Own(applied) \subseteq Own(applied)'
    BY <2>1 DEF Own
  <2> QED
    BY <1>1, <2>1, <2>2, AcksKept
<1>7. CASE \/ SendMovement \/ ToggleReconciliation \/ ProcessWelcome \/ ProcessEnterGameOK
           \/ CloseSession \/ NewAccept \/ ReceiveMovement \/ Tick \/ UNCHANGED vars
  <2>1. /\ UNCHANGED <<tenant, base, applied>>
        /\ \/ UNCHANGED toClient
           \/ toClient # <<>> /\ toClient' = Tail(toClient)
           \/ toClient' = Append(toClient, w)
           \/ toClient' = Append(toClient, u)
    BY <1>7 DEF SendMovement, ToggleReconciliation, ProcessWelcome, ProcessEnterGameOK,
       CloseSession, NewAccept, ReceiveMovement, Tick, CheckSession, NoticeDisconnect,
       SendUpdate, Deliver, vars, clientVars, serverVars
  <2>2. Own(applied) \subseteq Own(applied)'
    BY <2>1 DEF Own
  <2> QED
    BY <1>1, <2>1, <2>2, AcksKept
<1> QED
  BY <1>2, <1>3, <1>4, <1>5, <1>6, <1>7 DEF Next, Client, Main

ReportsNamed == \A k \in DOMAIN toClient :
                    IsUpdate(k) => Names(toClient[k].seq, Shown(k))
BufferHolds == \A i \in 0 .. nextId - 1 : \/ i \in InQueue \cup Own(base)
                                          \/ i = 0 /\ Own(base) = {}

LEMMA ReportsKept ==
    ASSUME TypeOK, ReportsNamed, UNCHANGED tenant,
           NEW m \in S2C, m.type = "update" => Names(m.seq, Own(m.included)),
           \/ UNCHANGED toClient
           \/ toClient' = <<>>
           \/ toClient # <<>> /\ toClient' = Tail(toClient)
           \/ toClient' = Append(toClient, m)
    PROVE  ReportsNamed'
<1>1. \A k \in DOMAIN toClient' : \/ \E j \in DOMAIN toClient : toClient'[k] = toClient[j]
                                  \/ toClient'[k] = m
  <2>1. CASE toClient # <<>> /\ toClient' = Tail(toClient)
    BY <2>1, Taken DEF TypeOK
  <2>2. CASE toClient' = Append(toClient, m)
    BY <2>2, Appended DEF TypeOK
  <2> QED
    BY <2>1, <2>2
<1> QED
  BY <1>1 DEF ReportsNamed, IsUpdate, Shown, Names, Own

(* What an update with reconciliation takes from the buffer is in the      *)
(* position that came with it.                                             *)
LEMMA UpdateHolds ==
    ASSUME Invs, TypeOK', ProcessUpdate, ReportsNamed, BufferHolds,
           phase = "playing", mine, reconciliation
    PROVE  BufferHolds'
<1> USE DEF Invs, InOrder, Contiguous
<1> PICK u \in S2C : u = Head(toClient)
  BY Taken DEF ProcessUpdate, TypeOK
<1>1. /\ 1 \in DOMAIN toClient /\ IsUpdate(1) /\ toClient[1] = u
      /\ base' = u.included /\ UNCHANGED <<tenant, nextId>>
  BY Taken DEF ProcessUpdate, TypeOK, IsUpdate
<1>2. /\ Own(base)' = Shown(1) /\ Own(base) \subseteq Shown(1) /\ Closed(Shown(1))
      /\ Names(u.seq, Shown(1)) /\ u.seq \in Nat
  BY <1>1, Bounds DEF Own, Shown, AcksGrow, ReportsNamed, S2C
<1>3. PICK n \in 0 .. Len(queued) : /\ Overtaken(queued, u.seq, n)
                                    /\ queued' = SubSeq(queued, n + 1, Len(queued))
  BY DEF ProcessUpdate, Discard
<1>4. \A i \in InQueue : i \in InQueue' \/ i <= u.seq
  <2> SUFFICES ASSUME NEW k \in DOMAIN queued, k > n
               PROVE  queued[k] \in InQueue'
    <3>1. \A k \in DOMAIN queued : k > n \/ queued[k] <= u.seq
      BY <1>3 DEF Overtaken, TypeOK
    <3> QED
      BY <3>1 DEF InQueue
  <2>1. k \in n + 1 .. Len(queued) /\ Len(queued) \in Nat
    BY DEF TypeOK
  <2>2. /\ \A i \in n + 1 .. Len(queued) : queued[i] \in InputIds
        /\ n + 1 \in Int /\ Len(queued) \in Int
    BY ElementOfSeq DEF TypeOK
  <2>3. /\ DOMAIN queued' = 1 .. Len(queued')
        /\ Len(queued') = IF n + 1 <= Len(queued) THEN Len(queued) - (n + 1) + 1 ELSE 0
        /\ \A i \in 1 .. Len(queued) - (n + 1) + 1 : queued'[i] = queued[n + 1 + i - 1]
    BY <1>3, <2>2, SubSeqProperties DEF TypeOK
  <2>4. k - n \in 1 .. Len(queued) - (n + 1) + 1 /\ n + 1 + (k - n) - 1 = k
        /\ n + 1 <= Len(queued)
    BY <2>1
  <2>5. k - n \in DOMAIN queued' /\ queued'[k - n] = queued[k]
    BY <2>3, <2>4
  <2> QED
    BY <2>5 DEF InQueue
<1> SUFFICES ASSUME NEW i \in 0 .. nextId - 1, i \notin InQueue', i \notin Shown(1)
             PROVE  i = 0 /\ Shown(1) = {}
  BY <1>1, <1>2 DEF BufferHolds
<1>5. i \in Nat /\ (i <= u.seq \/ (i = 0 /\ Own(base) = {}))
  <2>1. i \in InQueue \/ (i = 0 /\ Own(base) = {})
    BY <1>2 DEF BufferHolds
  <2>2. i \in Nat
    BY MoveTyped
  <2> QED
    BY <1>4, <2>1, <2>2
<1>6. CASE Shown(1) = {}
  BY <1>2, <1>5, <1>6 DEF Names
<1>7. CASE Shown(1) # {}
  <2>1. u.seq \in Shown(1) /\ i \in 0 .. u.seq
    BY <1>2, <1>5, <1>7 DEF Names
  <2> QED
    BY <1>2, <2>1 DEF Closed
<1> QED
  BY <1>6, <1>7

LEMMA FirstHolderStep ==
    ASSUME Invs, TypeOK', [Next]_vars
    PROVE  FirstHolder'
<1> USE DEF Invs, InOrder, Contiguous
<1> SUFFICES ASSUME tenant' <= 1
             PROVE  /\ Names(latest', Own(applied)')
                    /\ ReportsNamed'
                    /\ ~cleared' => synced' /\ BufferHolds'
  BY DEF FirstHolder, ReportsNamed, BufferHolds
<1>1. CASE Connect
  <2>1. /\ tenant' = tenant + 1 /\ tenant = 0 /\ nextId' = 0 /\ synced' = TRUE
        /\ UNCHANGED <<latest, applied>> /\ toClient' = <<>>
    BY <1>1, MoveTyped DEF Connect, StartApplication, SequenceCovers
  <2>2. Own(applied) = {} /\ Own(applied)' = {}
    <3>1. \A a \in applied : a[1] # 0 /\ a[1] # tenant + 1
      BY <2>1, MoveTyped, InputTyped DEF SentWhilePlaying, TankOrdered, Sent
    <3> QED
      BY <2>1, <3>1 DEF Own
  <2>3. Names(latest', Own(applied)')
    BY <2>1, <2>2 DEF FirstHolder, Names
  <2> QED
    BY <2>1, <2>3 DEF ReportsNamed, BufferHolds
<1>2. CASE ~Connect
  <2>1. UNCHANGED tenant
    BY <1>2 DEF Next, Client, Main, Tick, Quit, SendMovement, ToggleReconciliation,
       ProcessWelcome, ProcessEnterGameOK, ProcessUpdate, CloseSession, NewAccept, EnterGame,
       ReceiveMovement, ApplyInput, CheckSession, NoticeDisconnect, SendUpdate, vars,
       clientVars
  <2>2. /\ Names(latest, Own(applied)) /\ ReportsNamed
        /\ ~cleared => synced /\ BufferHolds
    BY <2>1 DEF FirstHolder, ReportsNamed, BufferHolds
  <2>3. Names(latest', Own(applied)')
    <3>1. CASE ApplyInput
      <4>1. /\ 1 \in DOMAIN inputQueue /\ latest' = inputQueue[1][2]
            /\ applied' = applied \cup {inputQueue[1]}
        BY <3>1, Taken DEF ApplyInput, TypeOK
      <4>2. inputQueue[1] \in Inputs /\ inputQueue[1][1] = tenant
        BY <4>1, <2>1, MoveTyped, InputTyped DEF SentWhilePlaying, QueueOrdered, Sent
      <4>3. inputQueue[1][2] \in InputIds /\ inputQueue[1] = <<tenant, inputQueue[1][2]>>
        BY <4>2 DEF Inputs
      <4> QED
        BY <4>1, <4>3, <2>1 DEF Names, Own
    <3>2. CASE EnterGame
      <4>1. Own(applied) = {} /\ Own(applied)' = {} /\ UNCHANGED latest
        BY <3>2, Taken DEF EnterGame, Receives, TypeOK, EnterFirst, Own
      <4> QED
        BY <2>2, <4>1 DEF Names
    <3>3. CASE ~(ApplyInput \/ EnterGame)
      <4>1. UNCHANGED <<latest, applied>>
        BY <1>2, <3>3 DEF Next, Client, Main, Tick, Quit, SendMovement, ToggleReconciliation,
           ProcessWelcome, ProcessEnterGameOK, ProcessUpdate, CloseSession, NewAccept,
           ReceiveMovement, CheckSession, NoticeDisconnect, SendUpdate, vars, serverVars
      <4> QED
        BY <2>1, <2>2, <4>1 DEF Names, Own
    <3> QED
      BY <3>1, <3>2, <3>3
  <2>4. ReportsNamed'
    <3> PICK w \in S2C : w = ToSlot("welcome")
      BY ServerPacket
    <3> PICK ok \in S2C : ok = ToSlot("ok")
      BY ServerPacket
    <3> PICK u \in S2C : u = [type |-> "update", seq |-> latest, included |-> applied]
      BY UpdatePacket
    <3>1. /\ w.type # "update" /\ ok.type # "update"
          /\ Names(u.seq, Own(u.included))
      BY <2>2 DEF ToSlot
    <3>2. \/ UNCHANGED toClient
          \/ toClient' = <<>>
          \/ toClient # <<>> /\ toClient' = Tail(toClient)
          \/ toClient' = Append(toClient, w)
          \/ toClient' = Append(toClient, ok)
          \/ toClient' = Append(toClient, u)
      BY <1>2 DEF Next, Client, Main, Tick, Quit, SendMovement, ToggleReconciliation,
         ProcessWelcome, ProcessEnterGameOK, ProcessUpdate, CloseSession, NewAccept, EnterGame,
         ReceiveMovement, ApplyInput, CheckSession, NoticeDisconnect, SendUpdate, Deliver,
         vars, clientVars
    <3> QED
      BY <2>1, <2>2, <3>1, <3>2, ReportsKept
  <2>5. ~cleared' => synced' /\ BufferHolds'
    <3>1. CASE SendMovement
      <4>1. /\ UNCHANGED <<base, cleared, synced>> /\ nextId' = nextId + 1
            /\ queued' = Append(queued, nextId) /\ nextId \in InputIds
        BY <3>1, BoundsAssumption DEF SendMovement, TypeOK, InputIds
      <4>2. InQueue \subseteq InQueue' /\ nextId \in InQueue'
        <5>1. queued \in Seq(InputIds)
          BY DEF TypeOK
        <5>2. /\ \A k \in DOMAIN queued : k \in DOMAIN queued' /\ queued'[k] = queued[k]
              /\ Len(queued) + 1 \in DOMAIN queued' /\ queued'[Len(queued) + 1] = nextId
          BY <4>1, <5>1, Appended
        <5> QED
          BY <5>2 DEF InQueue
      <4>3. 0 .. nextId = (0 .. nextId - 1) \cup {nextId} /\ nextId' - 1 = nextId
        BY <4>1, MoveTyped
      <4>4. Own(base)' = Own(base)
        BY <2>1, <4>1 DEF Own
      <4> QED
        BY <2>2, <4>1, <4>2, <4>3, <4>4 DEF BufferHolds
    <3>2. CASE ProcessUpdate /\ phase = "playing" /\ mine
      <4>1. cleared' = (cleared \/ ~reconciliation) /\ synced' = reconciliation
        BY <3>2 DEF ProcessUpdate
      <4> QED
        BY <2>2, <3>2, <4>1, UpdateHolds DEF TypeOK
    <3>3. CASE ~(SendMovement \/ (ProcessUpdate /\ phase = "playing" /\ mine))
      <4>1. UNCHANGED <<queued, base, nextId, cleared, synced>>
        BY <1>2, <3>3 DEF Next, Client, Main, Tick, Quit, ToggleReconciliation,
           ProcessWelcome, ProcessEnterGameOK, ProcessUpdate, CloseSession, NewAccept,
           EnterGame, ReceiveMovement, ApplyInput, CheckSession, NoticeDisconnect, SendUpdate,
           vars, clientVars
      <4> QED
        BY <2>1, <2>2, <4>1 DEF BufferHolds, InQueue, Own
    <3> QED
      BY <3>1, <3>2, <3>3
  <2> QED
    BY <2>3, <2>4, <2>5
<1> QED
  BY <1>1, <1>2

(* The input at the front of the queue, if it is of the present holder, is *)
(* the one after those that moved the tank.                                *)
LEMMA NextApplied ==
    ASSUME Invs, ApplyInput, inputQueue[1][1] = tenant
    PROVE  /\ log' = Append(log, Len(log)) /\ Len(log) < nextId
           /\ inputQueue[1] = <<tenant, Len(log)>> /\ Len(log) \in InputIds
<1> USE DEF Invs, InOrder, Contiguous
<1>1. /\ 1 \in DOMAIN inputQueue /\ Head(inputQueue) = inputQueue[1]
      /\ inputQueue[1] \in Inputs
  BY Taken DEF ApplyInput, TypeOK
<1> PICK i : i = inputQueue[1][2]
  OBVIOUS
<1>2. inputQueue[1] = <<tenant, i>> /\ i \in InputIds /\ log' = Append(log, i)
  BY <1>1 DEF ApplyInput, Logged, Inputs
<1>3. i \in Nat /\ tenant \in Nat /\ nextId \in Nat /\ Len(log) \in Nat
  BY <1>2, MoveTyped, Bounds DEF TypeOK
<1>4. i < nextId
  BY <1>1, <1>2, <1>3 DEF QueueOrdered, Sent
<1>5. i \notin Own(applied)
  <2>1. i \in Own(applied) => Before(<<tenant, i>>, <<tenant, i>>)
    BY <1>1, <1>2 DEF Own, TankOrdered
  <2> QED
    BY <2>1, <1>3 DEF Before
<1>6. ASSUME NEW j \in 0 .. i - 1
      PROVE  j \in Own(applied)
  <2>1. j \in InputIds /\ j \in Nat /\ j < i
    BY <1>2, <1>3, <1>6, BoundsAssumption DEF InputIds
  <2>2. j \in Known
    <3>1. i \in Known
      BY <1>1, <1>2 DEF Known, InLine
    <3> QED
      BY <1>3, <1>6, <3>1 DEF NothingMissing, Closed
  <2>3. ~InLine(j)
    <3> SUFFICES ASSUME NEW k \in DOMAIN inputQueue, inputQueue[k] = <<tenant, j>>
                 PROVE  FALSE
      BY DEF InLine
    <3>1. 1 < k
      <4>1. inputQueue \in Seq(Inputs)
        BY DEF TypeOK
      <4>2. k \in Nat /\ k # 0
        BY <4>1
      <4>3. i # j
        BY <2>1, <1>3
      <4>4. k # 1
        BY <1>2, <4>3
      <4> QED
        BY <4>2, <4>4
    <3>2. Before(inputQueue[1], inputQueue[k])
      BY <1>1, <3>1 DEF QueueOrdered
    <3>3. Before(<<tenant, i>>, <<tenant, j>>)
      BY <1>2, <3>2
    <3> QED
      BY <1>3, <2>1, <3>3 DEF Before
  <2>4. ~OnWire(j)
    <3> SUFFICES ASSUME NEW k \in DOMAIN toServer, IsMove(k), Move(k) = <<tenant, j>>
                 PROVE  FALSE
      BY DEF OnWire
    <3>1. Before(<<tenant, i>>, <<tenant, j>>)
      BY <1>1, <1>2 DEF QueueOrdered
    <3> QED
      BY <1>3, <2>1, <3>1 DEF Before
  <2> QED
    BY <2>2, <2>3, <2>4 DEF Known
<1>7. i = Len(log)
  <2>1. i \notin 0 .. Len(log) - 1 /\ \A j \in 0 .. i - 1 : j \in 0 .. Len(log) - 1
    BY <1>5, <1>6 DEF OneByOne
  <2>2. ~ (i > Len(log))
    <3> SUFFICES ASSUME i > Len(log) PROVE FALSE
      OBVIOUS
    <3>1. Len(log) \in 0 .. i - 1
      BY <1>3
    <3> QED
      BY <1>3, <2>1, <3>1
  <2> QED
    BY <1>3, <2>1, <2>2
<1> QED
  BY <1>2, <1>4, <1>7

LEMMA OneByOneStep ==
    ASSUME Invs, TypeOK', [Next]_vars
    PROVE  OneByOne'
<1> USE DEF Invs, InOrder, Contiguous
<1>1. CASE Connect
  <2>1. log' = <<>> /\ UNCHANGED applied /\ tenant' = tenant + 1
    BY <1>1 DEF Connect, StartApplication
  <2>2. Own(applied)' = {}
    <3>1. \A a \in applied : a[1] # tenant + 1
      BY MoveTyped, InputTyped DEF TankOrdered, Sent
    <3> QED
      BY <2>1, <3>1 DEF Own
  <2> QED
    BY <2>1, <2>2 DEF OneByOne
<1>2. CASE ApplyInput
  <2>1. /\ 1 \in DOMAIN inputQueue /\ Head(inputQueue) = inputQueue[1]
        /\ inputQueue[1] \in Inputs
        /\ applied' = applied \cup {inputQueue[1]} /\ UNCHANGED tenant
    BY <1>2, Taken DEF ApplyInput, TypeOK, clientVars
  <2>2. CASE inputQueue[1][1] = tenant
    <3>1. /\ log' = Append(log, Len(log)) /\ inputQueue[1] = <<tenant, Len(log)>>
          /\ Len(log) \in InputIds
      BY <1>2, <2>2, NextApplied
    <3>2. Own(applied)' = Own(applied) \cup {Len(log)}
      BY <2>1, <3>1 DEF Own
    <3>3. /\ Len(log) \in Nat /\ Len(log') = Len(log) + 1
          /\ \A k \in DOMAIN log' : \/ k \in DOMAIN log /\ log'[k] = log[k]
                                    \/ k = Len(log) + 1 /\ log'[k] = Len(log)
      <4>1. log \in Seq(InputIds)
        BY DEF TypeOK
      <4> QED
        BY <3>1, <4>1, Appended
    <3>4. \A k \in DOMAIN log' : log'[k] = k - 1
      BY <3>3 DEF OneByOne
    <3>5. Own(applied)' = 0 .. Len(log') - 1
      <4>1. Own(applied) = 0 .. Len(log) - 1
        BY DEF OneByOne
      <4>2. (0 .. Len(log) - 1) \cup {Len(log)} = 0 .. Len(log') - 1
        BY <3>3
      <4> QED
        BY <3>2, <4>1, <4>2
    <3> QED
      BY <3>4, <3>5 DEF OneByOne
  <2>3. CASE inputQueue[1][1] # tenant
    <3>1. Own(applied)' = Own(applied)
      BY <2>1, <2>3 DEF Own
    <3>2. log' = log
      BY <1>2, <2>1, <2>3 DEF ApplyInput, Logged
    <3> QED
      BY <3>1, <3>2 DEF OneByOne
  <2> QED
    BY <2>2, <2>3
<1>3. CASE EnterGame
  <2>1. Own(applied) = {} /\ Own(applied)' = {} /\ UNCHANGED log
    BY <1>3, Taken DEF EnterGame, Receives, TypeOK, EnterFirst, Own
  <2> QED
    BY <2>1 DEF OneByOne
<1>4. CASE ~(Connect \/ ApplyInput \/ EnterGame)
  <2>1. UNCHANGED <<tenant, applied, log>>
    BY <1>4 DEF Next, Client, Main, Tick, Quit, SendMovement, ToggleReconciliation,
       ProcessWelcome, ProcessEnterGameOK, ProcessUpdate, CloseSession, NewAccept,
       ReceiveMovement, CheckSession, NoticeDisconnect, SendUpdate, vars, clientVars,
       serverVars
  <2> QED
    BY <2>1 DEF OneByOne, Own
<1> QED
  BY <1>1, <1>2, <1>3, <1>4

LEMMA InvsStep == Invs /\ [Next]_vars => Invs'
<1> SUFFICES ASSUME Invs, [Next]_vars
             PROVE  Invs'
  OBVIOUS
<1>1. InOrder' /\ TypeOK'
  BY InOrderStep DEF Invs, InOrder
<1>2. Contiguous'
  BY <1>1, SentWhilePlayingStep, NothingMissingStep, EnterFirstStep, AcksGrowStep,
     OneByOneStep, FirstHolderStep DEF Contiguous
<1> QED
  BY <1>1, <1>2 DEF Invs

LEMMA AlwaysInvs == Spec => []Invs
<1>1. Init => Invs
  BY InOrderInit, ContiguousInit DEF Invs
<1> QED
  BY <1>1, InvsStep, PTL DEF Spec

(***************************************************************************)
(* No input is lost or overtaken between the key press and the             *)
(* acknowledgement, over any number of holders of the slot                 *)
(* (process_packet.cpp:55-107, main.cpp:85-147, process_packet.cpp:166-187)*)
(***************************************************************************)
THEOREM AlwaysContiguous == Spec => []Contiguous
<1>1. Invs => Contiguous
  BY DEF Invs
<1> QED
  BY <1>1, AlwaysInvs, PTL

(***************************************************************************)
(* The server applies the inputs of the process that holds the slot        *)
(* without a gap, whatever the holders before it left in the queue         *)
(* (main.cpp:85-147).                                                      *)
(***************************************************************************)
THEOREM PrefixApplied == Spec => []AppliedIsPrefix
<1>1. Invs => AppliedIsPrefix
  BY TankIsClosed DEF AppliedIsPrefix, Closed
<1> QED
  BY <1>1, AlwaysInvs, PTL

(***************************************************************************)
(* The first holder of the slot predicts exactly: what it replays is what  *)
(* it sent and the server's position does not contain                      *)
(* (process_packet.cpp:166-187, application.cpp:281-313).                  *)
(***************************************************************************)
THEOREM PredictsExactly == Spec => []PredictionExact
<1>1. Invs => PredictionExact
  <2> SUFFICES ASSUME Invs, tenant = 1, ~cleared, Own(base) # {}
               PROVE  InQueue = (0 .. nextId - 1) \ Own(base)
    BY DEF PredictionExact
  <2> USE DEF Invs, InOrder, Contiguous
  <2>1. synced /\ \A i \in 0 .. nextId - 1 : i \in InQueue \cup Own(base)
    BY DEF FirstHolder
  <2>2. InQueue \subseteq 0 .. nextId - 1
    BY MoveTyped DEF InQueue, BufferOrdered
  <2>3. InQueue \cap Own(base) = {}
    BY <2>1 DEF NeverReplayed
  <2> QED
    BY <2>1, <2>2, <2>3
<1> QED
  BY <1>1, AlwaysInvs, PTL

-----------------------------------------------------------------------------
(* Netcode implements InputLog: the log of the present holder, and which of *)
(* its inputs are in the position it was told.                             *)

LEMMA LogInitially == Init => Log!LogInit
<1> SUFFICES ASSUME Init PROVE Log!LogInit
  OBVIOUS
<1>1. Own(applied) = {} /\ Own(base) = {}
  BY DEF Init, Own
<1> QED
  BY <1>1 DEF Init, Log!LogInit

LEMMA LogStep ==
    ASSUME Invs, Invs', [Next]_vars
    PROVE  [Log!LogNext]_(Log!logVars)
<1> USE DEF Invs, InOrder, Contiguous
<1>1. CASE Connect
  <2>1. /\ tenant' = tenant + 1 /\ nextId' = 0 /\ log' = <<>>
    BY <1>1 DEF Connect, StartApplication
  <2>2. Own(base)' = {}
    BY <1>1 DEF Connect, StartApplication, Own
  <2>3. Log!LogHandOver
    BY <2>1, <2>2 DEF Log!LogHandOver
  <2> QED
    BY <2>3 DEF Log!LogNext
<1>2. CASE SendMovement
  <2>1. /\ nextId' = nextId + 1 /\ tenant' = tenant
        /\ UNCHANGED log /\ Own(base)' = Own(base)
    BY <1>2 DEF SendMovement, serverVars, Own
  <2>2. Log!LogSend
    BY <2>1 DEF Log!LogSend
  <2> QED
    BY <2>2 DEF Log!LogNext
<1>3. CASE ApplyInput
  <2>1. UNCHANGED <<tenant, nextId, base>> /\ Own(base)' = Own(base)
    BY <1>3 DEF ApplyInput, clientVars, Own
  <2>2. CASE inputQueue[1][1] = tenant
    <3>1. log' = Append(log, Len(log)) /\ Len(log) < nextId
      BY <1>3, <2>2, NextApplied
    <3>2. Log!LogApply
      BY <2>1, <3>1 DEF Log!LogApply
    <3> QED
      BY <3>2 DEF Log!LogNext
  <2>3. CASE inputQueue[1][1] # tenant
    <3>1. log' = log
      BY <1>3, <2>3, Taken DEF ApplyInput, Logged, TypeOK
    <3> QED
      BY <2>1, <3>1 DEF Log!logVars
  <2> QED
    BY <2>2, <2>3
<1>4. CASE ProcessUpdate
  <2>1. UNCHANGED <<tenant, nextId, applied, log>>
    BY <1>4 DEF ProcessUpdate, serverVars
  <2>2. CASE phase = "playing" /\ mine
    <3>1. 1 \in DOMAIN toClient /\ IsUpdate(1) /\ base' = toClient[1].included
      BY <1>4, <2>2, Taken DEF ProcessUpdate, TypeOK, IsUpdate
    <3>2. /\ Own(base)' = Shown(1) /\ Own(base) \subseteq Shown(1)
          /\ Shown(1) \subseteq Own(applied) /\ Closed(Shown(1))
      BY <2>1, <3>1 DEF AcksGrow, Shown, Own
    <3>3. DOMAIN log = 1 .. Len(log) /\ Len(log) \in Nat
      BY DEF TypeOK
    <3>4. Own(applied) \subseteq {log[k] : k \in DOMAIN log}
      <4>1. ASSUME NEW i \in Own(applied)
            PROVE  i \in {log[k] : k \in DOMAIN log}
        <5>1. i \in 0 .. Len(log) - 1
          BY DEF OneByOne
        <5>2. i + 1 \in DOMAIN log /\ i + 1 - 1 = i
          BY <3>3, <5>1
        <5>3. log[i + 1] = i
          BY <5>2 DEF OneByOne
        <5> QED
          BY <5>2, <5>3
      <4> QED
        BY <4>1
    <3>5. ASSUME NEW j \in DOMAIN log, NEW k \in DOMAIN log, j < k, log[k] \in Shown(1)
          PROVE  log[j] \in Shown(1)
      <4>1. log[j] = j - 1 /\ log[k] = k - 1 /\ j - 1 \in 0 .. k - 1
        BY <3>3, <3>5 DEF OneByOne
      <4> QED
        BY <3>2, <3>5, <4>1 DEF Closed
    <3>6. Log!LogAck
      BY <2>1, <3>2, <3>4, <3>5 DEF Log!LogAck, Log!FirstPart
    <3> QED
      BY <3>6 DEF Log!LogNext
  <2>3. CASE ~(phase = "playing" /\ mine)
    <3>1. Own(base)' = Own(base)
      BY <1>4, <2>1, <2>3 DEF ProcessUpdate, Own
    <3> QED
      BY <2>1, <3>1 DEF Log!logVars
  <2> QED
    BY <2>2, <2>3
<1>5. CASE \/ Quit \/ ToggleReconciliation \/ ProcessWelcome \/ ProcessEnterGameOK
           \/ CloseSession \/ Main \/ Tick \/ UNCHANGED vars
  <2>1. UNCHANGED <<tenant, nextId, log, base>>
    BY <1>5 DEF Quit, ToggleReconciliation, ProcessWelcome, ProcessEnterGameOK, CloseSession,
       Main, NewAccept, EnterGame, ReceiveMovement, Tick, CheckSession, NoticeDisconnect,
       SendUpdate, vars, clientVars, serverVars
  <2>2. Own(base)' = Own(base)
    BY <2>1 DEF Own
  <2> QED
    BY <2>1, <2>2 DEF Log!logVars
<1> QED
  BY <1>1, <1>2, <1>3, <1>4, <1>5 DEF Next, Client

(***************************************************************************)
(* The slot, with its queue, its socket and the buffers of the client,     *)
(* keeps the promise of InputLog to every process that holds it: the       *)
(* sequence of its inputs that moved the tank grows by the next input      *)
(* sent, once each, and what it is shown is a first part of that sequence, *)
(* which never shrinks                                                     *)
(* (main.cpp:85-147 and 203-209, process_packet.cpp:166-187).              *)
(***************************************************************************)
THEOREM RefinesInputLog == Spec => ImplementsInputLog
<1>1. Invs /\ Invs' /\ [Next]_vars => [Log!LogNext]_(Log!logVars)
  BY LogStep
<1> QED
  BY <1>1, LogInitially, AlwaysInvs, PTL DEF Spec, ImplementsInputLog, Log!LogSpec


=============================================================================
