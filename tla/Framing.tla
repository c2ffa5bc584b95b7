------------------------------- MODULE Framing ------------------------------
(***************************************************************************)
(* Packets on a TCP stream: NetLib::SendPacket (CatNet/NetworkLib.h), used *)
(* by several threads on one socket, and the receive loops that cut what   *)
(* recv() returns into packets again (RunClientThread in ClientNetwork.cpp *)
(* and ServerRecvThread in ServerNetwork.cpp, the same loop).              *)
(*                                                                         *)
(* A packet is a 4-byte id and a body whose length the receiver takes from *)
(* a table by the id: nothing on the wire says where a packet ends.        *)
(*                                                                         *)
(* Abstractions.  Bytes are numbered as they are written to the stream and *)
(* have no content: where a packet starts its id is read, everywhere else  *)
(* the 4 bytes may show any id or none.  recv() returns any part of what   *)
(* has arrived.  A send() writes everything, a part, or fails; after a     *)
(* failure the connection is gone.                                         *)
(***************************************************************************)
EXTENDS Integers, Sequences, FiniteSets, Functions

CONSTANTS
    Kinds,          \* packet ids
    WireLength,     \* kind -> bytes the sender writes, id included
    TableLength,    \* kind -> bytes the receiver takes, id included
    HeaderLength,   \* bytes of the id
    RecvBufSize,    \* RECV_BUFSIZE
    Senders,        \* threads that send on the socket
    MaxPackets,     \* bound: packets ever sent
    MaxParts        \* bound: send() calls that write only a part

ASSUME FramingAssumption ==
    /\ HeaderLength \in Nat \ {0} /\ RecvBufSize \in Nat \ {0}
    /\ MaxPackets \in Nat /\ MaxParts \in Nat
    /\ WireLength \in [Kinds -> Nat] /\ TableLength \in [Kinds -> Nat]
    /\ \A k \in Kinds : /\ WireLength[k] >= HeaderLength
                        /\ TableLength[k] >= HeaderLength

Packets == 1 .. MaxPackets

VARIABLES
    \* senders
    sending,        \* sender -> [packet, left], packet 0 when it is idle
    kind,           \* packet -> its id; as many as were begun
    broken,         \* the connection is gone
    \* the stream
    written,        \* bytes written
    starts,         \* packet -> where its first byte is, or 0 - 1
    ends,           \* packet -> the byte after its last one, or 0 - 1
    \* receiver
    from, to,       \* bytes of the stream in m_RecvBuf: from .. to - 1
    pos,            \* where the loop is: offset = pos - from
    attached,       \* the packets that were attached, in order
    junk,           \* something was attached that starts where no packet does
    \* history
    parts,          \* how many send() calls wrote only a part
    dirty,          \* some recv() was not clean
    cut             \* packets that such a recv() returned, or a part of

senderVars   == <<sending, kind, broken, parts>>
streamVars   == <<written, starts, ends>>
receiverVars == <<from, to, pos, attached, junk, dirty, cut>>
vars == <<senderVars, streamVars, receiverVars>>

TypeOK ==
    /\ sending \in [Senders -> [packet : 0 .. MaxPackets, left : Nat]]
    /\ kind \in Seq(Kinds) /\ Len(kind) <= MaxPackets
    /\ broken \in BOOLEAN /\ parts \in 0 .. MaxParts
    /\ written \in Nat
    /\ starts \in [Packets -> Nat \cup {0 - 1}]
    /\ ends \in [Packets -> Nat \cup {0 - 1}]
    /\ to \in 0 .. written /\ from \in 0 .. to /\ to - from <= RecvBufSize
    /\ pos \in Nat /\ pos >= from
    /\ attached \in Seq(Packets) /\ junk \in BOOLEAN
    /\ dirty \in BOOLEAN /\ cut \subseteq Packets

Idle == [packet |-> 0, left |-> 0]

Init ==
    /\ sending = [s \in Senders |-> Idle]
    /\ kind = <<>> /\ broken = FALSE /\ parts = 0
    /\ written = 0
    /\ starts = [p \in Packets |-> 0 - 1] /\ ends = [p \in Packets |-> 0 - 1]
    /\ from = 0 /\ to = 0 /\ pos = 0 /\ attached = <<>> /\ junk = FALSE
    /\ dirty = FALSE /\ cut = {}

-----------------------------------------------------------------------------
(* SendPacket. *)

BeginSend(s, k) ==
    /\ sending[s] = Idle /\ Len(kind) < MaxPackets /\ ~broken
    /\ kind' = Append(kind, k)
    /\ sending' = [sending EXCEPT ![s] =
                      [packet |-> Len(kind) + 1, left |-> WireLength[k]]]
    /\ UNCHANGED <<broken, parts, streamVars, receiverVars>>

AtFirstByte(s) == LET p == sending[s].packet
                  IN  sending[s].left = WireLength[kind[p]]
Write(s, n) ==
    LET p == sending[s].packet IN
    /\ written' = written + n
    /\ IF AtFirstByte(s) THEN starts' = [starts EXCEPT ![p] = written]
                         ELSE UNCHANGED starts
    /\ IF AtFirstByte(s) /\ n = sending[s].left
       THEN ends' = [ends EXCEPT ![p] = written + n]
       ELSE UNCHANGED ends

(* send() writes what it was given, and the loop ends. *)
SendWhole(s) ==
    /\ sending[s] # Idle /\ ~broken
    /\ Write(s, sending[s].left)
    /\ sending' = [sending EXCEPT ![s] = Idle]
    /\ UNCHANGED <<kind, broken, parts, receiverVars>>

(* send() writes n bytes of more.  The loop's condition stores the result  *)
(* of the comparison in nCntSend, so it goes on one byte further and not   *)
(* n, and writes the rest from there.                                      *)
SendPart(s, n) ==
    /\ sending[s] # Idle /\ ~broken
    /\ n \in 1 .. sending[s].left - 1
    /\ Write(s, n)
    /\ sending' = [sending EXCEPT ![s].left = @ - 1]
    /\ parts < MaxParts /\ parts' = parts + 1
    /\ UNCHANGED <<kind, broken, receiverVars>>

(* send() fails, and so does each of the tries that follow, until the      *)
(* count is down.                                                          *)
SendFails(s) ==
    /\ sending[s] # Idle
    /\ broken' = TRUE
    /\ sending' = [sending EXCEPT ![s] = Idle]
    /\ UNCHANGED <<kind, parts, streamVars, receiverVars>>

-----------------------------------------------------------------------------
(* The receive loop. *)

Whole(p) == ends[p] >= 0
Touched(a, b) == {p \in Packets : Whole(p) /\ starts[p] < b /\ ends[p] > a}

(* A recv() is clean when it is made of whole packets, and only its last   *)
(* one may be shorter than the table says.                                 *)
Clean(a, b) ==
    /\ \A p \in Touched(a, b) :
          /\ a <= starts[p] /\ ends[p] <= b
          /\ \/ TableLength[kind[p]] = WireLength[kind[p]]
             \/ TableLength[kind[p]] > WireLength[kind[p]] /\ ends[p] = b
    /\ \A x \in a .. b - 1 :
          \E p \in Touched(a, b) : starts[p] <= x /\ x < ends[p]

Smaller(a, b) == IF a <= b THEN a ELSE b

RecvAnd(n, first, start) ==
    /\ pos >= to
    /\ n \in 1 .. Smaller(RecvBufSize, written - to)
    /\ from' = first /\ to' = to + n
    /\ pos' = start
    /\ dirty' = (dirty \/ ~Clean(to, to + n))
    /\ cut' = IF Clean(to, to + n) THEN cut ELSE cut \cup Touched(to, to + n)
    /\ UNCHANGED <<attached, junk, senderVars, streamVars>>

(* (mutant) the offset goes on where the last packet ended *)
RecvKeepsOffset(n) == RecvAnd(n, to, pos)

Recv(n) == RecvAnd(n, to, to)

Starting(b) == {p \in Packets : starts[p] = b}

Cut(length) == /\ pos < to
               /\ pos' = pos + length
               /\ UNCHANGED <<from, to, dirty, cut, senderVars, streamVars>>
CutAs(p, length) == /\ p \in Starting(pos) /\ Cut(length)
                    /\ attached' = Append(attached, p) /\ UNCHANGED junk

(* (mutants) advances by the id only; starts again when a packet is the    *)
(* last one                                                                *)
CutHeaderOnly(p) == CutAs(p, HeaderLength)
CutAgain(p) == CutAs(p, IF ends[p] = to /\ Len(attached) < 2 * MaxPackets
                        THEN from - pos ELSE TableLength[kind[p]])

(* The loop stands at the start of packet p.  What is attached is all of   *)
(* p only if all of p is in the buffer; behind it are zeros.               *)
CutPacket(p) == CutAs(p, TableLength[kind[p]])

(* It stands somewhere else, or the buffer ends within the id: the bytes   *)
(* there are by chance an id of the table, with its size or with 0 for     *)
(* those without data, or none, and then the size is -1.                   *)
CutAnything(length) ==
    /\ Starting(pos) = {} \/ to - pos < HeaderLength
    /\ Cut(length)
    /\ junk' = TRUE /\ UNCHANGED attached

-----------------------------------------------------------------------------
Lengths == {TableLength[k] : k \in Kinds} \cup {HeaderLength - 1, HeaderLength}

Next ==
    \/ \E s \in Senders : \/ \E k \in Kinds : BeginSend(s, k)
                          \/ SendWhole(s) \/ SendFails(s)
                          \/ \E n \in 1 .. sending[s].left : SendPart(s, n)
    \/ \E n \in 1 .. written - to : Recv(n)
    \/ \E p \in Packets : CutPacket(p)
    \/ \E length \in Lengths : CutAnything(length)

Spec == Init /\ [][Next]_vars

-----------------------------------------------------------------------------
Attached == Range(attached)
InStreamOrder(p, q) == starts[p] < starts[q]

(***************************************************************************)
(* Whatever is cut or written in part, packets are attached in the order   *)
(* in which they were written, and none twice (ClientNetwork.cpp:72-80,    *)
(* ServerNetwork.cpp:91-106).                                              *)
(***************************************************************************)
AttachedInOrder ==
    \A j, k \in DOMAIN attached :
        j < k => InStreamOrder(attached[j], attached[k])

(* Packets whose first byte is written were begun.  A whole one is as long *)
(* as the sender writes it, and no packet starts inside it.                *)
Laid ==
    \A p \in Packets :
        /\ starts[p] >= 0 => p <= Len(kind) /\ starts[p] < written
        /\ Whole(p) => /\ starts[p] >= 0 /\ ends[p] <= written
                       /\ ends[p] = starts[p] + WireLength[kind[p]]
        /\ \A q \in Packets \ {p} : starts[q] >= 0 =>
              /\ starts[p] # starts[q]
              /\ Whole(p) => starts[q] < starts[p] \/ ends[p] <= starts[q]

(* Each sender is at a packet of its own, and at its first byte before it  *)
(* is in the stream.                                                       *)
Apart ==
    \A s \in Senders : sending[s] # Idle =>
        /\ sending[s].packet \in 1 .. Len(kind)
        /\ sending[s].left \in 1 .. WireLength[kind[sending[s].packet]]
        /\ AtFirstByte(s) => starts[sending[s].packet] < 0
        /\ \A t \in Senders \ {s} : sending[t].packet # sending[s].packet

(* What was attached lies behind the loop. *)
Behind ==
    \A j \in DOMAIN attached : /\ starts[attached[j]] \in 0 .. to - 1
                               /\ starts[attached[j]] < pos

(* In a clean buffer the loop stands at the start of a whole packet.       *)
InStep ==
    /\ Clean(from, to) /\ pos < to
          => \E p \in Touched(from, to) : starts[p] = pos
    /\ ~Clean(from, to) => dirty /\ Touched(from, to) \subseteq cut

(* A packet that came in a clean recv() is attached or still ahead.        *)
Ahead ==
    \A p \in Packets :
        Whole(p) /\ starts[p] < to /\ p \notin cut /\ p \notin Attached
            => ends[p] <= to /\ from <= starts[p] /\ pos <= starts[p]

(* As long as every recv() was clean, all that was received is whole.      *)
Undamaged ==
    ~dirty => /\ ~junk /\ cut = {}
              /\ \A p \in Packets : starts[p] \in 0 .. to - 1 => Whole(p)

(***************************************************************************)
(* The stream and the buffer keep their types - the offset is never before *)
(* the data - packets are attached in order, and the loop stays in step    *)
(* with the packets in every buffer that is made of whole ones             *)
(* (ClientNetwork.cpp:66-94).                                              *)
(***************************************************************************)
StreamInv == /\ TypeOK /\ AttachedInOrder
             /\ Laid /\ Apart /\ Behind /\ InStep /\ Ahead /\ Undamaged

(***************************************************************************)
(* A recv() that cuts a packet, or that has something behind a Disconnect, *)
(* harms only the packets it returned: the loop starts the next one at its *)
(* first byte, so every packet that came in a clean recv() is attached.    *)
(***************************************************************************)
LossConfined ==
    pos >= to => \A p \in Packets :
        Whole(p) /\ ends[p] <= to /\ p \notin cut => p \in Attached

(***************************************************************************)
(* Stream and loop implement PacketQueue, packets counted in the order of  *)
(* the stream: unless some recv() was not clean, packets are attached one  *)
(* after the other and nothing is that was not sent; two threads that send *)
(* on one socket do not damage each other's packets when send() writes     *)
(* what it is given (NetworkLib.h:194).                                    *)
(***************************************************************************)
UpTo(b) == Cardinality({p \in Packets : starts[p] \in 0 .. b})

Queue == INSTANCE PacketQueue WITH
            put       <- UpTo(written),
            taken     <- IF attached = <<>> THEN 0
                         ELSE UpTo(starts[attached[Len(attached)]]),
            disturbed <- dirty,
            failed    <- junk
StreamImplementsQueue == Queue!QueueSpec
=============================================================================
