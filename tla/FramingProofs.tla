--------------------------- MODULE FramingProofs ----------------------------
(***************************************************************************)
(* Proofs about Framing, for any packets with any two tables of lengths,   *)
(* any size of the receive buffer and any number of sending threads.       *)
(***************************************************************************)
EXTENDS Framing, FiniteSetTheorems, TLAPS

USE DEF senderVars, streamVars, receiverVars

-----------------------------------------------------------------------------
(* The senders' side. *)
Stream == TypeOK /\ Laid /\ Apart

LEMMA Lengthy ==
    ASSUME NEW k \in Kinds
    PROVE  /\ WireLength[k] \in Nat /\ TableLength[k] \in Nat
           /\ WireLength[k] >= 1 /\ TableLength[k] >= 1
           /\ WireLength[k] >= HeaderLength /\ TableLength[k] >= HeaderLength
           /\ HeaderLength \in Nat /\ HeaderLength >= 1
  BY FramingAssumption

LEMMA KindOf ==
    ASSUME TypeOK, NEW p \in 1 .. Len(kind)
    PROVE  kind[p] \in Kinds /\ p \in Packets /\ Len(kind) \in Nat
<1>1. kind \in Seq(Kinds) /\ Len(kind) \in Nat /\ Len(kind) <= MaxPackets
  BY DEF TypeOK
<1>2. kind[p] \in Kinds
  BY <1>1
<1>3. p \in Packets
  BY <1>1, FramingAssumption DEF Packets
<1> QED
  BY <1>1, <1>2, <1>3

(* A write leaves what is in the stream alone. *)
LEMMA Wrote ==
    ASSUME Stream, NEW s \in Senders, sending[s] # Idle,
           NEW n \in 1 .. sending[s].left, Write(s, n)
    PROVE  LET p == sending[s].packet IN
           /\ p \in Packets /\ p \in 1 .. Len(kind)
           /\ sending[s].left \in 1 .. WireLength[kind[p]]
           /\ n \in Nat /\ n >= 1 /\ written' = written + n
           /\ starts' \in [Packets -> Nat \cup {0 - 1}]
           /\ ends' \in [Packets -> Nat \cup {0 - 1}]
           /\ \A q \in Packets : q # p => starts'[q] = starts[q] /\ ends'[q] = ends[q]
           /\ AtFirstByte(s) =>
                 /\ starts[p] < 0 /\ ends[p] < 0 /\ starts'[p] = written
                 /\ ends'[p] = IF n = WireLength[kind[p]] THEN written + n ELSE ends[p]
           /\ ~AtFirstByte(s) => starts'[p] = starts[p] /\ ends'[p] = ends[p]
<1> DEFINE p == sending[s].packet
<1>t. TypeOK /\ Laid /\ Apart
  BY DEF Stream
<1>1. /\ p \in 1 .. Len(kind) /\ sending[s].left \in 1 .. WireLength[kind[p]]
      /\ AtFirstByte(s) => starts[p] < 0
  BY <1>t DEF Apart
<1>2. p \in Packets /\ kind[p] \in Kinds
  BY <1>t, <1>1, KindOf
<1>3. WireLength[kind[p]] \in Nat /\ n \in Nat /\ n >= 1
  BY <1>1, <1>2, Lengthy
<1>4. /\ starts \in [Packets -> Nat \cup {0 - 1}]
      /\ ends \in [Packets -> Nat \cup {0 - 1}] /\ written \in Nat
  BY <1>t DEF TypeOK
<1>5. AtFirstByte(s) => ends[p] < 0
  BY <1>t, <1>1, <1>2, <1>4 DEF Laid, Whole
<1>6. /\ written' = written + n
      /\ IF AtFirstByte(s) THEN starts' = [starts EXCEPT ![p] = written]
                           ELSE starts' = starts
      /\ IF AtFirstByte(s) /\ n = sending[s].left
         THEN ends' = [ends EXCEPT ![p] = written + n]
         ELSE ends' = ends
  BY DEF Write
<1>7. AtFirstByte(s) <=> sending[s].left = WireLength[kind[p]]
  BY DEF AtFirstByte
<1> HIDE DEF p
<1>8. CASE AtFirstByte(s)
  <2>1. starts' = [starts EXCEPT ![p] = written]
    BY <1>6, <1>8
  <2>2. CASE n = sending[s].left
    <3>1. ends' = [ends EXCEPT ![p] = written + n]
      BY <1>6, <1>8, <2>2
    <3> QED
      BY <1>1, <1>2, <1>3, <1>4, <1>5, <1>6, <1>7, <1>8, <2>1, <2>2, <3>1 DEF p
  <2>3. CASE n # sending[s].left
    <3>1. ends' = ends
      BY <1>6, <2>3
    <3> QED
      BY <1>1, <1>2, <1>3, <1>4, <1>5, <1>6, <1>7, <1>8, <2>1, <2>3, <3>1 DEF p
  <2> QED
    BY <2>2, <2>3
<1>9. CASE ~AtFirstByte(s)
  <2>1. starts' = starts /\ ends' = ends
    BY <1>6, <1>9
  <2> QED
    BY <1>1, <1>2, <1>3, <1>4, <1>6, <1>9, <2>1 DEF p
<1> QED
  BY <1>8, <1>9

(* What a step of a sender leaves: the packets whose first byte is         *)
(* written, and what is new comes behind all that is written.              *)
Stable ==
    \A p \in Packets :
        /\ starts[p] >= 0 => /\ starts'[p] = starts[p] /\ ends'[p] = ends[p]
                             /\ kind'[p] = kind[p]
        /\ starts[p] < 0 => starts'[p] < 0 \/ starts'[p] >= written

LEMMA WroteStable ==
    ASSUME Stream, NEW s \in Senders, sending[s] # Idle,
           NEW n \in 1 .. sending[s].left, Write(s, n), UNCHANGED kind
    PROVE  Stable /\ Laid'
<1> DEFINE p == sending[s].packet
<1>t. TypeOK /\ Laid
  BY DEF Stream
<1>1. /\ p \in Packets /\ p \in 1 .. Len(kind)
      /\ n \in Nat /\ n >= 1 /\ written' = written + n
      /\ starts' \in [Packets -> Nat \cup {0 - 1}]
      /\ ends' \in [Packets -> Nat \cup {0 - 1}]
      /\ \A q \in Packets : q # p => starts'[q] = starts[q] /\ ends'[q] = ends[q]
      /\ AtFirstByte(s) =>
            /\ starts[p] < 0 /\ ends[p] < 0 /\ starts'[p] = written
            /\ ends'[p] = IF n = WireLength[kind[p]] THEN written + n ELSE ends[p]
      /\ ~AtFirstByte(s) => starts'[p] = starts[p] /\ ends'[p] = ends[p]
  BY Wrote
<1>2. /\ starts \in [Packets -> Nat \cup {0 - 1}]
      /\ ends \in [Packets -> Nat \cup {0 - 1}] /\ written \in Nat
      /\ Packets \subseteq Nat /\ Len(kind) \in Nat
  BY <1>t DEF TypeOK, Packets
<1>3. \A q \in Packets :
        /\ starts[q] >= 0 => q <= Len(kind) /\ starts[q] < written
        /\ Whole(q) => /\ starts[q] >= 0 /\ ends[q] <= written
                       /\ ends[q] = starts[q] + WireLength[kind[q]]
        /\ \A r \in Packets \ {q} : starts[r] >= 0 =>
              /\ starts[q] # starts[r]
              /\ Whole(q) => starts[r] < starts[q] \/ ends[q] <= starts[r]
  BY <1>t DEF Laid
<1> HIDE DEF p
<1>4. Stable
  BY <1>1, <1>2 DEF Stable
<1>5. ASSUME NEW q \in Packets
      PROVE  /\ starts'[q] >= 0 => q <= Len(kind) /\ starts'[q] < written'
             /\ ends'[q] >= 0 => /\ starts'[q] >= 0 /\ ends'[q] <= written'
                                 /\ ends'[q] = starts'[q] + WireLength[kind[q]]
  <2>1. CASE q = p /\ AtFirstByte(s)
    BY <1>1, <1>2, <2>1
  <2>2. CASE ~(q = p /\ AtFirstByte(s))
    BY <1>1, <1>2, <1>3, <2>2 DEF Whole
  <2> QED
    BY <2>1, <2>2
<1>6. ASSUME NEW q \in Packets, NEW r \in Packets \ {q}, starts'[r] >= 0
      PROVE  /\ starts'[q] # starts'[r]
             /\ ends'[q] >= 0 => starts'[r] < starts'[q] \/ ends'[q] <= starts'[r]
  <2>1. CASE ~AtFirstByte(s)
    BY <1>1, <1>2, <1>3, <1>6, <2>1 DEF Whole
  <2>2. CASE AtFirstByte(s) /\ q = p
    BY <1>1, <1>2, <1>3, <1>6, <2>2 DEF Whole
  <2>3. CASE AtFirstByte(s) /\ q # p /\ r = p
    BY <1>1, <1>2, <1>3, <1>6, <2>3 DEF Whole
  <2>4. CASE AtFirstByte(s) /\ q # p /\ r # p
    BY <1>1, <1>2, <1>3, <1>6, <2>4 DEF Whole
  <2> QED
    BY <2>1, <2>2, <2>3, <2>4
<1>7. Laid'
  BY <1>5, <1>6 DEF Laid, Whole
<1> QED
  BY <1>4, <1>7

LEMMA BeginStep ==
    ASSUME Stream, NEW s \in Senders, NEW k \in Kinds, BeginSend(s, k)
    PROVE  Stream' /\ Stable
<1>t. TypeOK /\ Laid /\ Apart
  BY DEF Stream
<1> DEFINE l == Len(kind)
<1>1. /\ kind \in Seq(Kinds) /\ l \in Nat /\ l < MaxPackets /\ MaxPackets \in Nat
      /\ kind' = Append(kind, k) /\ UNCHANGED <<starts, ends, written>>
      /\ sending[s] = Idle
      /\ sending' = [sending EXCEPT ![s] = [packet |-> l + 1, left |-> WireLength[k]]]
  BY <1>t, FramingAssumption DEF BeginSend, TypeOK
<1>2. /\ kind' \in Seq(Kinds) /\ Len(kind') = l + 1 /\ kind'[l + 1] = k
      /\ \A q \in 1 .. l : kind'[q] = kind[q]
  BY <1>1
<1>a. l \in Nat /\ l + 1 \in 1 .. l + 1 /\ 1 .. l \subseteq 1 .. l + 1
  BY <1>1
<1>3. starts \in [Packets -> Nat \cup {0 - 1}] /\ Packets = 1 .. MaxPackets
  BY <1>t DEF TypeOK, Packets
<1>4. WireLength[k] \in Nat /\ WireLength[k] >= 1
  BY Lengthy
<1>5. sending \in [Senders -> [packet : 0 .. MaxPackets, left : Nat]]
  BY <1>t DEF TypeOK
<1>6. /\ sending'[s] = [packet |-> l + 1, left |-> WireLength[k]]
      /\ \A t \in Senders : t # s => sending'[t] = sending[t]
      /\ sending' \in [Senders -> [packet : 0 .. MaxPackets, left : Nat]]
  BY <1>1, <1>4, <1>5
<1> HIDE DEF l
<1>7. TypeOK'
  <2>1. Len(kind') <= MaxPackets
    BY <1>1, <1>2
  <2> QED
    BY <1>t, <1>2, <1>6, <2>1 DEF BeginSend, TypeOK
<1>8. \A q \in Packets : starts[q] >= 0 => q \in 1 .. l /\ kind'[q] = kind[q]
  <2>1. \A q \in Packets : starts[q] >= 0 => q <= l
    BY <1>t DEF Laid, l
  <2> QED
    BY <1>1, <1>2, <1>3, <2>1
<1>9. Stable
  BY <1>1, <1>3, <1>8 DEF Stable
<1>10. Laid'
  <2> SUFFICES ASSUME NEW q \in Packets
               PROVE  /\ starts[q] >= 0 => q <= l + 1 /\ starts[q] < written
                      /\ ends[q] >= 0 => /\ starts[q] >= 0 /\ ends[q] <= written
                                         /\ ends[q] = starts[q] + WireLength[kind'[q]]
                      /\ \A r \in Packets \ {q} : starts[r] >= 0 =>
                            /\ starts[q] # starts[r]
                            /\ ends[q] >= 0 => starts[r] < starts[q] \/ ends[q] <= starts[r]
    BY <1>1, <1>2 DEF Laid, Whole
  <2>1. /\ starts[q] >= 0 => q <= l /\ starts[q] < written
        /\ ends[q] >= 0 => /\ starts[q] >= 0 /\ ends[q] <= written
                           /\ ends[q] = starts[q] + WireLength[kind[q]]
        /\ \A r \in Packets \ {q} : starts[r] >= 0 =>
              /\ starts[q] # starts[r]
              /\ ends[q] >= 0 => starts[r] < starts[q] \/ ends[q] <= starts[r]
    BY <1>t DEF Laid, Whole, l
  <2>2. starts[q] >= 0 => q <= l + 1 /\ kind'[q] = kind[q]
    BY <1>a, <1>8
  <2> QED
    BY <2>1, <2>2
<1>11. ASSUME NEW t \in Senders, sending'[t] # Idle
       PROVE  /\ sending'[t].packet \in 1 .. l + 1
              /\ sending'[t].left \in 1 .. WireLength[kind'[sending'[t].packet]]
              /\ sending'[t].left = WireLength[kind'[sending'[t].packet]]
                    => starts[sending'[t].packet] < 0
              /\ t # s => sending'[t].packet \in 1 .. l
  <2>1. CASE t = s
    <3>1. /\ sending'[t].packet = l + 1 /\ sending'[t].left = WireLength[k]
          /\ kind'[l + 1] = k
      BY <1>2, <1>6, <2>1
    <3>2. starts[l + 1] < 0
      <4>1. l + 1 \in Packets /\ starts[l + 1] \in Nat \cup {0 - 1}
        BY <1>1, <1>3
      <4>2. ~(starts[l + 1] >= 0)
        BY <1>1, <1>8, <4>1
      <4> QED
        BY <4>1, <4>2
    <3> QED
      BY <1>a, <1>4, <2>1, <3>1, <3>2
  <2>2. CASE t # s
    <3>1. sending'[t] = sending[t]
      BY <1>6, <2>2
    <3>2. /\ sending[t].packet \in 1 .. l
          /\ sending[t].left \in 1 .. WireLength[kind[sending[t].packet]]
          /\ sending[t].left = WireLength[kind[sending[t].packet]]
                => starts[sending[t].packet] < 0
      BY <1>t, <1>11, <3>1 DEF Apart, AtFirstByte, l
    <3>3. kind'[sending[t].packet] = kind[sending[t].packet]
      BY <1>2, <3>2
    <3> QED
      BY <1>a, <3>1, <3>2, <3>3
  <2> QED
    BY <2>1, <2>2
<1>12. ASSUME NEW t \in Senders, sending'[t] # Idle, NEW u \in Senders \ {t}
       PROVE  sending'[u].packet # sending'[t].packet
  <2>1. CASE t = s
    <3>1. sending'[t].packet = l + 1 /\ sending'[u] = sending[u]
      BY <1>6, <2>1
    <3>2. CASE sending[u] = Idle
      BY <1>1, <3>1, <3>2 DEF Idle
    <3>3. CASE sending[u] # Idle
      <4>1. sending'[u].packet \in 1 .. l
        BY <1>11, <2>1, <3>1, <3>3
      <4> QED
        BY <1>1, <3>1, <4>1
    <3> QED
      BY <3>2, <3>3
  <2>2. CASE t # s /\ u = s
    <3>1. sending'[t].packet \in 1 .. l /\ sending'[u].packet = l + 1
      BY <1>6, <1>11, <1>12, <2>2
    <3> QED
      BY <1>1, <3>1
  <2>3. CASE t # s /\ u # s
    BY <1>t, <1>6, <1>12, <2>3 DEF Apart
  <2> QED
    BY <2>1, <2>2, <2>3
<1>13. Apart'
  <2>1. starts' = starts /\ Len(kind') = l + 1
    BY <1>1, <1>2
  <2> QED
    BY <1>11, <1>12, <2>1 DEF Apart, AtFirstByte
<1> QED
  BY <1>7, <1>9, <1>10, <1>13 DEF Stream

(* A write leaves every variable of the type it has. *)
LEMMA WroteTyped ==
    ASSUME TypeOK, UNCHANGED <<kind, broken>>, UNCHANGED receiverVars,
           written' \in Nat, written <= written', parts' \in 0 .. MaxParts,
           sending' \in [Senders -> [packet : 0 .. MaxPackets, left : Nat]],
           starts' \in [Packets -> Nat \cup {0 - 1}],
           ends' \in [Packets -> Nat \cup {0 - 1}]
    PROVE  TypeOK'
<1>1. kind' \in Seq(Kinds) /\ Len(kind') <= MaxPackets /\ broken' \in BOOLEAN
  BY DEF TypeOK
<1>2. /\ to' \in 0 .. written' /\ from' \in 0 .. to' /\ to' - from' <= RecvBufSize
      /\ pos' \in Nat /\ pos' >= from'
  <2>1. /\ written \in Nat /\ to \in 0 .. written /\ from \in 0 .. to
        /\ to - from <= RecvBufSize /\ pos \in Nat /\ pos >= from
    BY DEF TypeOK
  <2>2. to' = to /\ from' = from /\ pos' = pos
    OBVIOUS
  <2> QED
    BY <2>1, <2>2
<1>3. /\ attached' \in Seq(Packets) /\ junk' \in BOOLEAN
      /\ dirty' \in BOOLEAN /\ cut' \subseteq Packets
  BY DEF TypeOK
<1> QED
  BY <1>1, <1>2, <1>3 DEF TypeOK

LEMMA WholeStep ==
    ASSUME Stream, NEW s \in Senders, SendWhole(s)
    PROVE  Stream' /\ Stable
<1> DEFINE p == sending[s].packet
           n == sending[s].left
<1>t. TypeOK /\ Laid /\ Apart
  BY DEF Stream
<1>1. /\ sending[s] # Idle /\ Write(s, n) /\ UNCHANGED <<kind, broken, parts>>
      /\ UNCHANGED receiverVars /\ sending' = [sending EXCEPT ![s] = Idle]
  BY DEF SendWhole
<1>2. n \in 1 .. n
  <2>1. p \in 1 .. Len(kind) /\ n \in 1 .. WireLength[kind[p]]
    BY <1>t, <1>1 DEF Apart
  <2>2. WireLength[kind[p]] \in Nat
    BY <1>t, <2>1, KindOf, Lengthy
  <2> QED
    BY <2>1, <2>2
<1>3. /\ p \in Packets /\ p \in 1 .. Len(kind)
      /\ n \in Nat /\ written' = written + n
      /\ starts' \in [Packets -> Nat \cup {0 - 1}]
      /\ ends' \in [Packets -> Nat \cup {0 - 1}]
      /\ \A q \in Packets : q # p => starts'[q] = starts[q] /\ ends'[q] = ends[q]
  BY <1>1, <1>2, Wrote
<1>4. Stable /\ Laid'
  BY <1>1, <1>2, WroteStable
<1> HIDE DEF n
<1>5. /\ sending'[s] = Idle
      /\ \A t \in Senders : t # s => sending'[t] = sending[t]
      /\ sending' \in [Senders -> [packet : 0 .. MaxPackets, left : Nat]]
  <2>1. Idle \in [packet : 0 .. MaxPackets, left : Nat]
    BY FramingAssumption DEF Idle
  <2> QED
    BY <1>t, <1>1, <2>1 DEF TypeOK
<1>6. TypeOK'
  <2>1. written \in Nat /\ written' \in Nat /\ written <= written'
    BY <1>t, <1>3 DEF TypeOK
  <2>2. parts' \in 0 .. MaxParts
    BY <1>t, <1>1 DEF TypeOK
  <2> QED
    BY <1>t, <1>1, <1>3, <1>5, <2>1, <2>2, WroteTyped
<1>7. ASSUME NEW t \in Senders, sending'[t] # Idle
      PROVE  /\ t # s /\ sending'[t] = sending[t] /\ sending[t].packet \in 1 .. Len(kind)
             /\ starts'[sending[t].packet] = starts[sending[t].packet]
  <2>1. t # s /\ sending'[t] = sending[t]
    BY <1>5, <1>7
  <2>2. sending[t].packet \in 1 .. Len(kind) /\ sending[t].packet # p
    BY <1>t, <1>1, <1>7, <2>1 DEF Apart
  <2>3. sending[t].packet \in Packets
    BY <1>t, <2>2, KindOf
  <2> QED
    BY <1>3, <2>1, <2>2, <2>3
<1>8. ASSUME NEW t \in Senders, sending'[t] # Idle, NEW u \in Senders \ {t}
      PROVE  sending'[u].packet # sending'[t].packet
  <2>1. CASE u = s
    <3>1. sending'[u].packet = 0 /\ sending'[t].packet \in 1 .. Len(kind)
      BY <1>5, <1>7, <1>8, <2>1 DEF Idle
    <3> QED
      BY <3>1
  <2>2. CASE u # s
    BY <1>t, <1>5, <1>7, <1>8, <2>2 DEF Apart
  <2> QED
    BY <2>1, <2>2
<1>9. Apart'
  BY <1>t, <1>1, <1>7, <1>8 DEF Apart, AtFirstByte
<1> QED
  BY <1>4, <1>6, <1>9 DEF Stream

LEMMA PartStep ==
    ASSUME Stream, NEW s \in Senders, NEW n, SendPart(s, n)
    PROVE  Stream' /\ Stable
<1> DEFINE p == sending[s].packet
           l == sending[s].left
<1>t. TypeOK /\ Laid /\ Apart
  BY DEF Stream
<1>1. /\ sending[s] # Idle /\ Write(s, n) /\ UNCHANGED <<kind, broken>>
      /\ UNCHANGED receiverVars /\ sending' = [sending EXCEPT ![s].left = @ - 1]
      /\ parts < MaxParts /\ parts' = parts + 1 /\ n \in 1 .. l - 1
  BY DEF SendPart
<1>2. n \in 1 .. l /\ l \in Nat /\ l >= 2 /\ l - 1 \in Nat
      /\ l <= WireLength[kind[p]] /\ WireLength[kind[p]] \in Nat
  <2>1. p \in 1 .. Len(kind) /\ l \in 1 .. WireLength[kind[p]]
    BY <1>t, <1>1 DEF Apart
  <2>2. WireLength[kind[p]] \in Nat
    BY <1>t, <2>1, KindOf, Lengthy
  <2> HIDE DEF l
  <2> QED
    BY <1>1, <2>1, <2>2
<1>3. /\ p \in Packets /\ p \in 1 .. Len(kind)
      /\ n \in Nat /\ written' = written + n
      /\ starts' \in [Packets -> Nat \cup {0 - 1}]
      /\ ends' \in [Packets -> Nat \cup {0 - 1}]
      /\ \A q \in Packets : q # p => starts'[q] = starts[q] /\ ends'[q] = ends[q]
  BY <1>1, <1>2, Wrote
<1>4. Stable /\ Laid'
  BY <1>1, <1>2, WroteStable
<1>5. /\ sending'[s].packet = p /\ sending'[s].left = l - 1
      /\ \A t \in Senders : t # s => sending'[t] = sending[t]
      /\ sending' \in [Senders -> [packet : 0 .. MaxPackets, left : Nat]]
  BY <1>t, <1>1, <1>2 DEF TypeOK
<1> HIDE DEF l
<1>6. TypeOK'
  <2>1. written \in Nat /\ written' \in Nat /\ written <= written'
    BY <1>t, <1>3 DEF TypeOK
  <2>2. parts' \in 0 .. MaxParts
    <3>1. parts \in 0 .. MaxParts /\ MaxParts \in Nat
      BY <1>t, FramingAssumption DEF TypeOK
    <3> QED
      BY <1>1, <3>1
  <2> QED
    BY <1>t, <1>1, <1>3, <1>5, <2>1, <2>2, WroteTyped
<1>7. ASSUME NEW t \in Senders, t # s, sending'[t] # Idle
      PROVE  /\ sending'[t] = sending[t] /\ sending[t].packet \in 1 .. Len(kind)
             /\ starts'[sending[t].packet] = starts[sending[t].packet]
             /\ sending[t].packet # p
  <2>1. sending'[t] = sending[t]
    BY <1>5, <1>7
  <2>2. sending[t].packet \in 1 .. Len(kind) /\ sending[t].packet # p
    BY <1>t, <1>1, <1>7, <2>1 DEF Apart
  <2>3. sending[t].packet \in Packets
    BY <1>t, <2>2, KindOf
  <2> QED
    BY <1>3, <2>1, <2>2, <2>3
<1>8. ASSUME NEW t \in Senders, sending'[t] # Idle
      PROVE  /\ sending'[t].packet \in 1 .. Len(kind)
             /\ sending'[t].left \in 1 .. WireLength[kind[sending'[t].packet]]
             /\ sending'[t].left = WireLength[kind[sending'[t].packet]]
                   => starts'[sending'[t].packet] < 0
  <2>1. CASE t = s
    BY <1>2, <1>3, <1>5, <2>1
  <2>2. CASE t # s
    BY <1>t, <1>7, <1>8, <2>2 DEF Apart, AtFirstByte
  <2> QED
    BY <2>1, <2>2
<1>9. ASSUME NEW t \in Senders, sending'[t] # Idle, NEW u \in Senders \ {t}
      PROVE  sending'[u].packet # sending'[t].packet
  <2>1. CASE u = s
    <3>1. t # s
      BY <2>1
    <3> QED
      BY <1>5, <1>7, <1>9, <2>1, <3>1
  <2>2. CASE t = s
    BY <1>t, <1>1, <1>5, <2>2 DEF Apart
  <2>3. CASE t # s /\ u # s
    BY <1>t, <1>5, <1>7, <1>9, <2>3 DEF Apart
  <2> QED
    BY <2>1, <2>2, <2>3
<1>10. Apart'
  BY <1>1, <1>8, <1>9 DEF Apart, AtFirstByte
<1> QED
  BY <1>4, <1>6, <1>10 DEF Stream

LEMMA FailStep ==
    ASSUME Stream, NEW s \in Senders, SendFails(s)
    PROVE  Stream' /\ Stable
<1>t. TypeOK /\ Laid /\ Apart
  BY DEF Stream
<1>1. /\ sending' = [sending EXCEPT ![s] = Idle] /\ broken' = TRUE
      /\ UNCHANGED <<kind, parts, starts, ends, written>> /\ UNCHANGED receiverVars
  BY DEF SendFails
<1>2. /\ sending'[s] = Idle
      /\ \A t \in Senders : t # s => sending'[t] = sending[t]
      /\ sending' \in [Senders -> [packet : 0 .. MaxPackets, left : Nat]]
  <2>1. Idle \in [packet : 0 .. MaxPackets, left : Nat]
    BY FramingAssumption DEF Idle
  <2> QED
    BY <1>t, <1>1, <2>1 DEF TypeOK
<1>3. TypeOK'
  BY <1>t, <1>1, <1>2 DEF TypeOK
<1>4. Laid'
  BY <1>t, <1>1 DEF Laid, Whole
<1>5. Stable
  BY <1>t, <1>1 DEF Stable
<1>6. ASSUME NEW t \in Senders, sending'[t] # Idle, NEW u \in Senders \ {t}
      PROVE  sending'[u].packet # sending'[t].packet
  <2>1. CASE u = s
    <3>1. sending'[u].packet = 0 /\ sending'[t].packet \in 1 .. Len(kind)
      BY <1>t, <1>2, <1>6, <2>1 DEF Idle, Apart
    <3> QED
      BY <3>1
  <2>2. CASE u # s
    BY <1>t, <1>2, <1>6, <2>2 DEF Apart
  <2> QED
    BY <2>1, <2>2
<1>7. ASSUME NEW t \in Senders, sending'[t] # Idle
      PROVE  t # s /\ sending'[t] = sending[t]
  BY <1>2, <1>7
<1>8. Apart'
  BY <1>t, <1>1, <1>6, <1>7 DEF Apart, AtFirstByte
<1> QED
  BY <1>3, <1>4, <1>5, <1>8 DEF Stream

-----------------------------------------------------------------------------
(* The receiver's side. *)
Reading == AttachedInOrder /\ Behind /\ InStep /\ Ahead

(* The facts about whole packets that the receiver's side goes by. *)
LEMMA Wholes ==
    ASSUME Stream
    PROVE  /\ starts \in [Packets -> Nat \cup {0 - 1}]
           /\ ends \in [Packets -> Nat \cup {0 - 1}]
           /\ written \in Nat /\ to \in Nat /\ from \in Nat /\ pos \in Int
           /\ from <= to /\ to <= written /\ from <= pos
           /\ \A p \in Packets : starts[p] >= 0 =>
                 kind[p] \in Kinds /\ starts[p] < written
           /\ \A p \in Packets : Whole(p) =>
                 /\ starts[p] >= 0 /\ ends[p] <= written
                 /\ ends[p] = starts[p] + WireLength[kind[p]]
                 /\ starts[p] < ends[p]
           /\ \A p, q \in Packets : p # q /\ starts[q] >= 0 =>
                 /\ starts[p] # starts[q]
                 /\ Whole(p) => starts[q] < starts[p] \/ ends[p] <= starts[q]
<1>t. TypeOK /\ Laid
  BY DEF Stream
<1>1. /\ starts \in [Packets -> Nat \cup {0 - 1}]
      /\ ends \in [Packets -> Nat \cup {0 - 1}]
      /\ written \in Nat /\ to \in Nat /\ from \in Nat
      /\ from <= to /\ to <= written /\ from <= pos
  BY <1>t DEF TypeOK
<1>p. pos \in Int
  BY <1>t DEF TypeOK
<1>2. ASSUME NEW p \in Packets, starts[p] >= 0
      PROVE  kind[p] \in Kinds /\ starts[p] < written
  <2>1. p <= Len(kind) /\ starts[p] < written
    BY <1>t, <1>2 DEF Laid
  <2>2. p \in 1 .. Len(kind)
    BY <1>t, <2>1 DEF Packets, TypeOK
  <2> QED
    BY <1>t, <2>1, <2>2, KindOf
<1>3. ASSUME NEW p \in Packets, Whole(p)
      PROVE  /\ starts[p] >= 0 /\ ends[p] <= written
             /\ ends[p] = starts[p] + WireLength[kind[p]]
             /\ starts[p] < ends[p]
  <2>1. /\ starts[p] >= 0 /\ ends[p] <= written
        /\ ends[p] = starts[p] + WireLength[kind[p]]
    BY <1>t, <1>3 DEF Laid
  <2>2. WireLength[kind[p]] \in Nat /\ WireLength[kind[p]] >= 1
    BY <1>2, <2>1, Lengthy
  <2> QED
    BY <1>1, <2>1, <2>2
<1>4. ASSUME NEW p \in Packets, NEW q \in Packets, p # q, starts[q] >= 0
      PROVE  /\ starts[p] # starts[q]
             /\ Whole(p) => starts[q] < starts[p] \/ ends[p] <= starts[q]
  BY <1>t, <1>4 DEF Laid
<1> QED
  BY <1>1, <1>p, <1>2, <1>3, <1>4

(* What is in the buffer is not changed by the senders. *)
LEMMA SentStep ==
    ASSUME Stream, Stream', Stable, Reading, UNCHANGED receiverVars
    PROVE  Reading'
<1>1. /\ starts \in [Packets -> Nat \cup {0 - 1}]
      /\ ends \in [Packets -> Nat \cup {0 - 1}]
      /\ written \in Nat /\ to \in Nat /\ from \in Nat /\ to <= written
      /\ \A p \in Packets : Whole(p) => starts[p] >= 0
  BY Wholes
<1>2. /\ starts' \in [Packets -> Nat \cup {0 - 1}]
      /\ ends' \in [Packets -> Nat \cup {0 - 1}]
      /\ \A p \in Packets : ends'[p] >= 0 => starts'[p] >= 0
  BY DEF Stream, TypeOK, Laid, Whole
<1>3. UNCHANGED <<from, to, pos, attached, junk, dirty, cut>>
  OBVIOUS
<1>4. \A p \in Packets :
        /\ starts[p] >= 0 => /\ starts'[p] = starts[p] /\ ends'[p] = ends[p]
                             /\ kind'[p] = kind[p]
        /\ starts'[p] >= 0 /\ starts'[p] < to => starts[p] >= 0
  BY <1>1, <1>2 DEF Stable
<1>5. \A p \in Packets : attached' = attached
  BY <1>3
<1>6. \A j \in DOMAIN attached : attached[j] \in Packets /\ starts[attached[j]] >= 0
  <2>1. attached \in Seq(Packets)
    BY DEF Stream, TypeOK
  <2>2. \A j \in DOMAIN attached : attached[j] \in Packets
    BY <2>1
  <2> QED
    BY <2>2 DEF Reading, Behind
<1>7. AttachedInOrder' /\ Behind'
  <2>1. \A j \in DOMAIN attached : starts'[attached[j]] = starts[attached[j]]
    BY <1>4, <1>6
  <2> QED
    BY <1>3, <2>1 DEF Reading, AttachedInOrder, Behind, InStreamOrder
<1>8. \A p \in Packets :
        (ends'[p] >= 0 /\ starts'[p] < to) <=> (ends[p] >= 0 /\ starts[p] < to)
  BY <1>1, <1>2, <1>4 DEF Whole
<1>9. Touched(from, to)' = Touched(from, to)
  <2> SUFFICES ASSUME NEW p \in Packets
               PROVE  (ends'[p] >= 0 /\ starts'[p] < to /\ ends'[p] > from)
                        <=> (ends[p] >= 0 /\ starts[p] < to /\ ends[p] > from)
    BY <1>3 DEF Touched, Whole
  <2>1. ends[p] >= 0 => ends'[p] = ends[p]
    BY <1>1, <1>4 DEF Whole
  <2> QED
    BY <1>8, <2>1
<1>10. \A p \in Touched(from, to) : /\ p \in Packets /\ starts'[p] = starts[p]
                                    /\ ends'[p] = ends[p] /\ kind'[p] = kind[p]
  BY <1>1, <1>4 DEF Touched
<1>11. Clean(from, to)' <=> Clean(from, to)
  <2> DEFINE T == Touched(from, to)
  <2> HIDE DEF T
  <2>1. Touched(from, to)' = T /\ Touched(from, to) = T
    BY <1>9 DEF T
  <2>2. \A p \in T : /\ starts'[p] = starts[p] /\ ends'[p] = ends[p]
                     /\ kind'[p] = kind[p]
    BY <1>10 DEF T
  <2> QED
    BY <1>3, <2>1, <2>2 DEF Clean
<1>12. InStep'
  BY <1>3, <1>9, <1>10, <1>11 DEF Reading, InStep
<1>13. Ahead'
  <2> SUFFICES ASSUME NEW p \in Packets, ends'[p] >= 0, starts'[p] < to,
                      p \notin cut, p \notin Attached
               PROVE  ends'[p] <= to /\ from <= starts'[p] /\ pos <= starts'[p]
    BY <1>3 DEF Ahead, Whole, Attached
  <2>1. Whole(p) /\ starts[p] < to /\ starts[p] >= 0
    BY <1>1, <1>8 DEF Whole
  <2>2. ends[p] <= to /\ from <= starts[p] /\ pos <= starts[p]
    BY <2>1 DEF Reading, Ahead
  <2> QED
    BY <1>4, <2>1, <2>2
<1> QED
  BY <1>7, <1>12, <1>13 DEF Reading

-----------------------------------------------------------------------------
LEMMA RecvStep ==
    ASSUME Stream, Reading, NEW n, Recv(n)
    PROVE  Stream' /\ Reading'
<1>t. TypeOK /\ Laid /\ Apart
  BY DEF Stream
<1>w. /\ starts \in [Packets -> Nat \cup {0 - 1}]
      /\ ends \in [Packets -> Nat \cup {0 - 1}]
      /\ written \in Nat /\ to \in Nat /\ from \in Nat /\ pos \in Int
      /\ from <= to /\ to <= written /\ from <= pos
      /\ \A p \in Packets : Whole(p) => starts[p] >= 0 /\ starts[p] < ends[p]
      /\ \A p, q \in Packets : p # q /\ starts[q] >= 0 =>
            /\ starts[p] # starts[q]
            /\ Whole(p) => starts[q] < starts[p] \/ ends[p] <= starts[q]
  BY Wholes
<1> DEFINE new == to + n
<1>1. /\ pos >= to /\ n \in 1 .. Smaller(RecvBufSize, written - to)
      /\ from' = to /\ to' = new /\ pos' = to
      /\ dirty' = (dirty \/ ~Clean(to, new))
      /\ cut' = IF Clean(to, new) THEN cut ELSE cut \cup Touched(to, new)
      /\ UNCHANGED <<attached, junk, senderVars, streamVars>>
  BY DEF Recv, RecvAnd
<1>2. n \in Nat /\ n >= 1 /\ n <= RecvBufSize /\ new <= written
  <2>1. RecvBufSize \in Nat /\ written - to \in Nat
    BY <1>w, FramingAssumption
  <2> QED
    BY <1>1, <1>w, <2>1 DEF Smaller
<1>3. new \in Nat /\ to < new /\ new - to <= RecvBufSize
  BY <1>w, <1>2
<1> HIDE DEF new
<1>4. TypeOK'
  <2>1. dirty' \in BOOLEAN /\ cut' \subseteq Packets
    BY <1>t, <1>1 DEF TypeOK, Touched
  <2> QED
    BY <1>t, <1>w, <1>1, <1>2, <1>3, <2>1 DEF TypeOK
<1>5. Laid' /\ Apart'
  BY <1>t, <1>1 DEF Laid, Apart, Whole, AtFirstByte
<1>6. AttachedInOrder'
  BY <1>1 DEF Reading, AttachedInOrder, InStreamOrder
<1>7. Behind'
  <2> SUFFICES ASSUME NEW j \in DOMAIN attached
               PROVE  starts[attached[j]] \in 0 .. new - 1 /\ starts[attached[j]] < to
    BY <1>1 DEF Behind
  <2>1. starts[attached[j]] \in 0 .. to - 1
    BY DEF Reading, Behind
  <2> QED
    BY <1>w, <1>3, <2>1
<1> DEFINE T == Touched(to, new)
           C == Clean(to, new)
<1>8. Touched(from, to)' = T /\ (Clean(from, to)' <=> C)
  BY <1>1 DEF Touched, Clean, Whole
<1>9. C => \E p \in T : starts[p] = to
  <2> SUFFICES ASSUME C
               PROVE  \E p \in T : starts[p] = to
    OBVIOUS
  <2>1. to \in to .. new - 1
    BY <1>w, <1>3
  <2>2. PICK p \in T : starts[p] <= to /\ to < ends[p]
    BY <2>1 DEF Clean
  <2>3. to <= starts[p] /\ p \in Packets
    BY DEF Clean, Touched
  <2> QED
    BY <1>w, <2>2, <2>3
<1>10. InStep'
  <2>1. ~C => dirty' /\ T \subseteq cut'
    BY <1>1
  <2>2. C => \E p \in T : starts'[p] = pos'
    BY <1>1, <1>9
  <2> HIDE DEF C, T
  <2> QED
    BY <1>8, <2>1, <2>2 DEF InStep
<1>11. Ahead'
  <2> SUFFICES ASSUME NEW p \in Packets, Whole(p), starts[p] < new,
                      p \notin cut', p \notin Attached
               PROVE  ends[p] <= new /\ to <= starts[p]
    BY <1>1 DEF Ahead, Whole, Attached
  <2>1. p \notin cut
    BY <1>1
  <2>2. starts[p] >= to
    <3> SUFFICES ASSUME starts[p] < to
                 PROVE  FALSE
      BY <1>w
    <3>1. pos <= starts[p]
      BY <2>1 DEF Reading, Ahead
    <3> QED
      BY <1>w, <1>1, <3>1
  <2>3. p \in T
    BY <1>w, <2>2 DEF Touched
  <2>4. C
    BY <1>1, <2>3
  <2> QED
    BY <2>2, <2>3, <2>4 DEF Clean
<1> QED
  BY <1>4, <1>5, <1>6, <1>7, <1>10, <1>11 DEF Stream, Reading

(* Where the loop stands when the buffer is clean. *)
LEMMA AtWhole ==
    ASSUME Stream, Reading, pos < to, Clean(from, to)
    PROVE  \E p \in Touched(from, to) :
              /\ p \in Packets /\ Whole(p) /\ starts[p] = pos /\ Starting(pos) = {p}
              /\ ends[p] <= to /\ to - pos >= HeaderLength
<1>w. /\ starts \in [Packets -> Nat \cup {0 - 1}]
      /\ ends \in [Packets -> Nat \cup {0 - 1}] /\ to \in Nat
      /\ \A p \in Packets : starts[p] >= 0 => kind[p] \in Kinds
      /\ \A p \in Packets : Whole(p) =>
            starts[p] >= 0 /\ ends[p] = starts[p] + WireLength[kind[p]]
      /\ \A p, q \in Packets : p # q /\ starts[q] >= 0 => starts[p] # starts[q]
  BY Wholes
<1>1. PICK p \in Touched(from, to) : starts[p] = pos
  BY DEF Reading, InStep
<1>2. p \in Packets /\ Whole(p) /\ ends[p] <= to
  BY DEF Touched, Clean
<1>3. Starting(pos) = {p}
  BY <1>w, <1>1, <1>2 DEF Starting
<1>4. to - pos >= HeaderLength
  <2>1. /\ WireLength[kind[p]] \in Nat /\ WireLength[kind[p]] >= HeaderLength
        /\ HeaderLength \in Nat
    BY <1>w, <1>2, Lengthy
  <2> QED
    BY <1>w, <1>1, <1>2, <2>1
<1> QED
  BY <1>1, <1>2, <1>3, <1>4

LEMMA CutStep ==
    ASSUME Stream, Reading, NEW p \in Packets, CutPacket(p)
    PROVE  Stream' /\ Reading'
<1>t. TypeOK /\ Laid /\ Apart
  BY DEF Stream
<1>w. /\ starts \in [Packets -> Nat \cup {0 - 1}]
      /\ ends \in [Packets -> Nat \cup {0 - 1}]
      /\ written \in Nat /\ to \in Nat /\ from \in Nat /\ pos \in Int
      /\ from <= to /\ to <= written /\ from <= pos
      /\ \A q \in Packets : starts[q] >= 0 => kind[q] \in Kinds
      /\ \A q \in Packets : Whole(q) =>
            /\ starts[q] >= 0 /\ starts[q] < ends[q]
            /\ ends[q] = starts[q] + WireLength[kind[q]]
      /\ \A q, r \in Packets : q # r /\ starts[r] >= 0 =>
            /\ starts[q] # starts[r]
            /\ Whole(q) => starts[r] < starts[q] \/ ends[q] <= starts[r]
  BY Wholes
<1> DEFINE length == TableLength[kind[p]]
           next == pos + length
<1>1. /\ starts[p] = pos /\ pos < to /\ pos' = next
      /\ UNCHANGED <<from, to, dirty, cut, junk, senderVars, streamVars>>
      /\ attached' = Append(attached, p)
  BY DEF CutPacket, CutAs, Cut, Starting
<1>2. kind[p] \in Kinds /\ length \in Nat /\ length >= 1
  BY <1>w, <1>1, Lengthy
<1>3. next \in Nat /\ next > pos
  BY <1>w, <1>2
<1>4. /\ attached \in Seq(Packets) /\ Len(attached) \in Nat
      /\ attached' \in Seq(Packets) /\ Len(attached') = Len(attached) + 1
      /\ \A j \in 1 .. Len(attached) : attached'[j] = attached[j]
      /\ attached'[Len(attached) + 1] = p
      /\ DOMAIN attached' = 1 .. Len(attached) + 1
      /\ DOMAIN attached = 1 .. Len(attached)
  BY <1>t, <1>1 DEF TypeOK
<1> HIDE DEF next
<1>5. TypeOK'
  BY <1>t, <1>w, <1>1, <1>3, <1>4 DEF TypeOK
<1>6. Laid' /\ Apart'
  BY <1>t, <1>1 DEF Laid, Apart, Whole, AtFirstByte
<1>7. \A j \in 1 .. Len(attached) : /\ starts[attached[j]] \in 0 .. to - 1
                                    /\ starts[attached[j]] < pos
  BY <1>4 DEF Reading, Behind
<1>8. Behind'
  <2> SUFFICES ASSUME NEW j \in 1 .. Len(attached) + 1
               PROVE  /\ starts[attached'[j]] \in 0 .. to - 1
                      /\ starts[attached'[j]] < next
    BY <1>1, <1>4 DEF Behind
  <2>1. CASE j = Len(attached) + 1
    BY <1>w, <1>1, <1>3, <1>4, <2>1
  <2>2. CASE j # Len(attached) + 1
    <3>1. j \in 1 .. Len(attached)
      BY <1>4, <2>2
    <3> QED
      BY <1>w, <1>3, <1>4, <1>7, <3>1
  <2> QED
    BY <2>1, <2>2
<1>9. AttachedInOrder'
  <2> SUFFICES ASSUME NEW j \in 1 .. Len(attached) + 1,
                      NEW k \in 1 .. Len(attached) + 1, j < k
               PROVE  starts[attached'[j]] < starts[attached'[k]]
    BY <1>1, <1>4 DEF AttachedInOrder, InStreamOrder
  <2>1. j \in 1 .. Len(attached)
    BY <1>4
  <2>2. CASE k = Len(attached) + 1
    BY <1>1, <1>4, <1>7, <2>1, <2>2
  <2>3. CASE k # Len(attached) + 1
    <3>1. k \in 1 .. Len(attached)
      BY <1>4, <2>3
    <3>2. attached'[j] = attached[j] /\ attached'[k] = attached[k]
      BY <1>4, <2>1, <3>1
    <3>3. starts[attached[j]] < starts[attached[k]]
      BY <1>4, <2>1, <3>1 DEF Reading, AttachedInOrder, InStreamOrder
    <3> QED
      BY <3>2, <3>3
  <2> QED
    BY <2>2, <2>3
<1> DEFINE T == Touched(from, to)
           C == Clean(from, to)
<1>10. Touched(from, to)' = T /\ (Clean(from, to)' <=> C)
  BY <1>1 DEF Touched, Clean, Whole
(* in a clean buffer the next packet starts where this one ends *)
<1>11. ASSUME C
       PROVE  /\ Whole(p) /\ p \in T /\ ends[p] <= to
              /\ next = ends[p] \/ (next >= to /\ ends[p] = to)
  <2>1. Whole(p) /\ p \in T
    <3>1. PICK q \in T : Whole(q) /\ Starting(pos) = {q}
      BY <1>1, <1>11, AtWhole
    <3>2. p \in Starting(pos)
      BY <1>1 DEF Starting
    <3> QED
      BY <3>1, <3>2
  <2>2. /\ ends[p] <= to
        /\ \/ TableLength[kind[p]] = WireLength[kind[p]]
           \/ TableLength[kind[p]] > WireLength[kind[p]] /\ ends[p] = to
    BY <1>11, <2>1 DEF Clean
  <2>3. WireLength[kind[p]] \in Nat /\ ends[p] = starts[p] + WireLength[kind[p]]
    BY <1>w, <1>2, <2>1, Lengthy
  <2>4. next = ends[p] \/ (next >= to /\ ends[p] = to)
    <3>1. ends[p] = pos + WireLength[kind[p]] /\ next = pos + TableLength[kind[p]]
      BY <1>1, <2>3 DEF next
    <3>2. TableLength[kind[p]] \in Nat /\ ends[p] \in Int /\ next \in Int
      BY <1>w, <1>2, <1>3
    <3> QED
      BY <1>w, <2>2, <2>3, <3>1, <3>2
  <2> QED
    BY <2>1, <2>2, <2>4
<1>12. InStep'
  <2>1. ASSUME C, next < to
        PROVE  \E q \in T : starts[q] = next
    <3>1. next = ends[p] /\ Whole(p) /\ p \in Packets
      BY <1>w, <1>3, <1>11, <2>1
    <3>2. next \in from .. to - 1
      BY <1>w, <1>3, <2>1
    <3>3. PICK q \in T : starts[q] <= next /\ next < ends[q]
      BY <2>1, <3>2 DEF Clean
    <3>4. q \in Packets /\ Whole(q) /\ starts[q] >= 0
      BY <1>w, <3>3 DEF Touched
    <3>5. q # p
      BY <1>3, <3>1, <3>3
    <3>6. starts[q] < starts[p] \/ ends[p] <= starts[q]
      BY <1>w, <3>1, <3>4, <3>5
    <3>7. ~(starts[q] < starts[p])
      <4> SUFFICES ASSUME starts[q] < starts[p]
                   PROVE  FALSE
        OBVIOUS
      <4>1. starts[p] < starts[q] \/ ends[q] <= starts[p]
        BY <1>w, <1>1, <3>4, <3>5
      <4> QED
        BY <1>w, <1>1, <1>3, <3>1, <3>3, <3>4, <4>1
    <3> QED
      BY <1>w, <1>3, <3>1, <3>3, <3>4, <3>6, <3>7
  <2>2. ~C => dirty /\ T \subseteq cut
    BY DEF Reading, InStep
  <2> HIDE DEF C, T
  <2> QED
    BY <1>1, <1>10, <2>1, <2>2 DEF InStep
<1>13. Ahead'
  <2>1. Attached' = Attached \cup {p}
    BY <1>4 DEF Attached, Range
  <2> SUFFICES ASSUME NEW q \in Packets, Whole(q), starts[q] < to,
                      q \notin cut, q \notin Attached, q # p
               PROVE  ends[q] <= to /\ from <= starts[q] /\ next <= starts[q]
    BY <1>1, <2>1 DEF Ahead, Whole
  <2>2. ends[q] <= to /\ from <= starts[q] /\ pos <= starts[q]
    BY DEF Reading, Ahead
  <2>3. q \in T
    BY <1>w, <2>2 DEF Touched
  <2>4. C
    BY <2>3 DEF Reading, InStep
  <2>5. Whole(p) /\ (next = ends[p] \/ ends[p] = to)
    BY <1>11, <2>4
  <2>6. starts[q] >= 0 /\ ~(starts[q] < starts[p])
    BY <1>w, <1>1, <2>2
  <2>7. ends[p] <= starts[q]
    BY <1>w, <2>5, <2>6
  <2> QED
    BY <1>w, <1>3, <2>2, <2>5, <2>7
<1> QED
  BY <1>5, <1>6, <1>8, <1>9, <1>12, <1>13 DEF Stream, Reading

LEMMA AnythingStep ==
    ASSUME Stream, Reading, NEW length \in Lengths, CutAnything(length)
    PROVE  Stream' /\ Reading' /\ dirty
<1>t. TypeOK /\ Laid /\ Apart
  BY DEF Stream
<1>w. /\ to \in Nat /\ from \in Nat /\ pos \in Int /\ from <= pos
      /\ starts \in [Packets -> Nat \cup {0 - 1}]
  BY Wholes
<1>1. /\ pos < to /\ pos' = pos + length /\ junk' = TRUE
      /\ Starting(pos) = {} \/ to - pos < HeaderLength
      /\ UNCHANGED <<from, to, dirty, cut, attached, senderVars, streamVars>>
  BY DEF CutAnything, Cut
<1>2. length \in Nat /\ HeaderLength \in Nat
  BY FramingAssumption DEF Lengths
<1>3. pos' >= pos /\ pos' \in Nat /\ pos' >= from
  BY <1>w, <1>1, <1>2
<1>4. ~Clean(from, to)
  <2> SUFFICES ASSUME Clean(from, to)
               PROVE  FALSE
    OBVIOUS
  <2>1. PICK p \in Touched(from, to) : Starting(pos) = {p} /\ to - pos >= HeaderLength
    BY <1>1, AtWhole
  <2> QED
    BY <1>w, <1>1, <1>2, <2>1
<1>5. dirty /\ Touched(from, to) \subseteq cut
  BY <1>4 DEF Reading, InStep
<1>6. TypeOK'
  BY <1>t, <1>1, <1>3 DEF TypeOK
<1>7. Laid' /\ Apart'
  BY <1>t, <1>1 DEF Laid, Apart, Whole, AtFirstByte
<1>8. AttachedInOrder'
  BY <1>1 DEF Reading, AttachedInOrder, InStreamOrder
<1>9. Behind'
  <2> SUFFICES ASSUME NEW j \in DOMAIN attached
               PROVE  starts[attached[j]] \in 0 .. to - 1 /\ starts[attached[j]] < pos'
    BY <1>1 DEF Behind
  <2>1. starts[attached[j]] \in 0 .. to - 1 /\ starts[attached[j]] < pos
    BY DEF Reading, Behind
  <2> QED
    BY <1>w, <1>3, <2>1
<1>10. Touched(from, to)' = Touched(from, to) /\ (Clean(from, to)' <=> Clean(from, to))
  BY <1>1 DEF Touched, Clean, Whole
<1>11. InStep'
  BY <1>1, <1>4, <1>5, <1>10 DEF InStep
<1>12. Ahead'
  <2> SUFFICES ASSUME NEW p \in Packets, Whole(p), starts[p] < to,
                      p \notin cut, p \notin Attached
               PROVE  FALSE
    BY <1>1 DEF Ahead, Whole, Attached
  <2>1. from <= starts[p]
    BY DEF Reading, Ahead
  <2>2. ends[p] > starts[p] /\ ends[p] \in Int
    BY Wholes
  <2>3. p \in Touched(from, to)
    BY <1>w, <2>1, <2>2 DEF Touched
  <2> QED
    BY <1>5, <2>3
<1> QED
  BY <1>5, <1>6, <1>7, <1>8, <1>9, <1>11, <1>12 DEF Stream, Reading

(* What was received is whole until a recv() is not clean. *)
LEMMA SentUndamaged ==
    ASSUME Stream, Stream', Stable, Undamaged, UNCHANGED receiverVars
    PROVE  Undamaged'
<1>1. /\ starts \in [Packets -> Nat \cup {0 - 1}] /\ ends \in [Packets -> Nat \cup {0 - 1}]
      /\ written \in Nat /\ to \in Nat /\ to <= written
  BY Wholes
<1>2. ASSUME NEW p \in Packets, starts'[p] \in 0 .. to - 1
      PROVE  starts[p] \in 0 .. to - 1 /\ ends'[p] = ends[p]
  BY <1>1, <1>2 DEF Stable
<1> QED
  BY <1>2 DEF Undamaged, Whole

LEMMA RecvUndamaged ==
    ASSUME Stream, Undamaged, NEW n \in 1 .. written - to, Recv(n)
    PROVE  Undamaged'
<1>w. /\ starts \in [Packets -> Nat \cup {0 - 1}] /\ ends \in [Packets -> Nat \cup {0 - 1}]
      /\ written \in Nat /\ to \in Nat
      /\ \A p, q \in Packets : p # q /\ starts[q] >= 0 /\ Whole(p)
            => starts[q] < starts[p] \/ ends[p] <= starts[q]
  BY Wholes
<1>1. /\ to' = to + n /\ dirty' = (dirty \/ ~Clean(to, to + n)) /\ n \in Nat
      /\ Clean(to, to + n) => cut' = cut
      /\ UNCHANGED <<junk, starts, ends>>
  BY <1>w DEF Recv, RecvAnd
<1> SUFFICES ASSUME ~dirty'
             PROVE  /\ ~junk' /\ cut' = {}
                    /\ \A p \in Packets : starts'[p] \in 0 .. to' - 1 => ends'[p] >= 0
  BY DEF Undamaged, Whole
<1>2. ~dirty /\ Clean(to, to + n)
  BY <1>1
<1>3. ASSUME NEW p \in Packets, starts[p] \in to .. (to + n) - 1
      PROVE  ends[p] >= 0
  <2>1. PICK q \in Touched(to, to + n) : starts[q] <= starts[p] /\ starts[p] < ends[q]
    BY <1>2, <1>3 DEF Clean
  <2>2. q \in Packets /\ Whole(q)
    BY DEF Touched
  <2>3. q = p
    BY <1>w, <1>3, <2>1, <2>2
  <2> QED
    BY <2>2, <2>3 DEF Whole
<1> QED
  BY <1>w, <1>1, <1>2, <1>3 DEF Undamaged, Whole

-----------------------------------------------------------------------------
(* The inductive invariant. *)
Kept == Stream /\ Reading /\ Undamaged

LEMMA KeptInit == Init => Kept
<1> SUFFICES ASSUME Init
             PROVE  Kept
  OBVIOUS
<1>0. MaxPackets \in Nat /\ MaxParts \in Nat /\ RecvBufSize \in Nat
  BY FramingAssumption
<1>1. TypeOK
  <2>1. Idle \in [packet : 0 .. MaxPackets, left : Nat]
    BY <1>0 DEF Idle
  <2>2. kind \in Seq(Kinds) /\ Len(kind) = 0 /\ attached \in Seq(Packets)
    BY DEF Init
  <2>3. /\ broken \in BOOLEAN /\ junk \in BOOLEAN /\ dirty \in BOOLEAN
        /\ cut \subseteq Packets /\ parts \in 0 .. MaxParts
    <3>1. /\ broken \in BOOLEAN /\ junk \in BOOLEAN /\ dirty \in BOOLEAN
          /\ cut \subseteq Packets
      BY Zenon DEF Init
    <3>2. parts \in 0 .. MaxParts
      BY <1>0 DEF Init
    <3> QED
      BY <3>1, <3>2
  <2>4. /\ sending \in [Senders -> [packet : 0 .. MaxPackets, left : Nat]]
        /\ starts \in [Packets -> Nat \cup {0 - 1}]
        /\ ends \in [Packets -> Nat \cup {0 - 1}]
    BY <2>1 DEF Init
  <2>5. /\ written \in Nat /\ to \in 0 .. written /\ from \in 0 .. to
        /\ to - from <= RecvBufSize /\ pos \in Nat /\ pos >= from
    BY <1>0 DEF Init
  <2> QED
    BY <1>0, <2>2, <2>3, <2>4, <2>5 DEF TypeOK
<1>2. Laid /\ Apart
  BY DEF Init, Laid, Apart, Whole
<1>3. AttachedInOrder /\ Behind
  <2>1. DOMAIN attached = {}
    BY DEF Init
  <2> QED
    BY <2>1 DEF AttachedInOrder, Behind
<1>4. Touched(from, to) = {} /\ from = 0 /\ to = 0
  BY DEF Init, Touched, Whole
<1>5. Clean(from, to)
  BY <1>4 DEF Clean
<1>6. InStep
  BY <1>5 DEF Init, InStep
<1>7. Ahead /\ Undamaged
  BY DEF Init, Ahead, Whole, Undamaged
<1> QED
  BY <1>1, <1>2, <1>3, <1>6, <1>7 DEF Kept, Stream, Reading

LEMMA KeptStep == Kept /\ [Next]_vars => Kept'
<1> SUFFICES ASSUME Kept, [Next]_vars
             PROVE  Kept'
  OBVIOUS
<1>k. Stream /\ Reading /\ Undamaged
  BY DEF Kept
<1>1. ASSUME NEW s \in Senders, NEW k \in Kinds, BeginSend(s, k) PROVE Kept'
  <2>1. Stream' /\ Stable /\ UNCHANGED receiverVars
    BY <1>k, <1>1, BeginStep DEF BeginSend
  <2> QED
    BY <1>k, <2>1, SentStep, SentUndamaged DEF Kept
<1>2. ASSUME NEW s \in Senders, SendWhole(s) PROVE Kept'
  <2>1. Stream' /\ Stable /\ UNCHANGED receiverVars
    BY <1>k, <1>2, WholeStep DEF SendWhole
  <2> QED
    BY <1>k, <2>1, SentStep, SentUndamaged DEF Kept
<1>3. ASSUME NEW s \in Senders, SendFails(s) PROVE Kept'
  <2>1. Stream' /\ Stable /\ UNCHANGED receiverVars
    BY <1>k, <1>3, FailStep DEF SendFails
  <2> QED
    BY <1>k, <2>1, SentStep, SentUndamaged DEF Kept
<1>4. ASSUME NEW s \in Senders, NEW n \in 1 .. sending[s].left, SendPart(s, n)
      PROVE  Kept'
  <2>1. Stream' /\ Stable /\ UNCHANGED receiverVars
    BY <1>k, <1>4, PartStep DEF SendPart
  <2> QED
    BY <1>k, <2>1, SentStep, SentUndamaged DEF Kept
<1>5. ASSUME NEW n \in 1 .. written - to, Recv(n) PROVE Kept'
  <2> QED
    BY <1>k, <1>5, RecvStep, RecvUndamaged DEF Kept
<1>6. ASSUME NEW p \in Packets, CutPacket(p) PROVE Kept'
  <2>1. Undamaged'
    BY <1>k, <1>6 DEF CutPacket, CutAs, Cut, Undamaged, Whole
  <2> QED
    BY <1>k, <1>6, <2>1, CutStep DEF Kept
<1>7. ASSUME NEW length \in Lengths, CutAnything(length) PROVE Kept'
  <2>1. dirty' = dirty
    BY <1>7 DEF CutAnything, Cut
  <2> QED
    BY <1>k, <1>7, <2>1, AnythingStep DEF Kept, Undamaged
<1>8. ASSUME UNCHANGED vars PROVE Kept'
  <2>1. Stream'
    BY <1>k, <1>8 DEF vars, Stream, TypeOK, Laid, Apart, Whole, AtFirstByte
  <2>2. Stable
    <3>1. starts \in [Packets -> Nat \cup {0 - 1}]
      BY <1>k, Wholes
    <3> QED
      BY <1>8, <3>1 DEF vars, Stable
  <2> QED
    BY <1>k, <1>8, <2>1, <2>2, SentStep, SentUndamaged DEF vars, Kept
<1> QED
  BY <1>1, <1>2, <1>3, <1>4, <1>5, <1>6, <1>7, <1>8 DEF Next

LEMMA AlwaysKept == Spec => []Kept
  BY KeptInit, KeptStep, PTL DEF Spec

(* Whatever is cut or written in part, packets are attached in the order   *)
(* of the stream and none twice, and in every buffer of whole packets the  *)
(* loop stands at one's start (ClientNetwork.cpp:66-94,                    *)
(* ServerNetwork.cpp:81-106), for any two tables of lengths.               *)
THEOREM StreamKept == Spec => []StreamInv
<1>1. Kept => StreamInv
  BY DEF Kept, Stream, Reading, StreamInv
<1> QED
  BY <1>1, AlwaysKept, PTL

(* A recv() that cuts a packet harms only the packets that it returned:    *)
(* every other one that has come whole is attached.                        *)
THEOREM LossStaysConfined == Spec => []LossConfined
<1>1. Kept => LossConfined
  <2> SUFFICES ASSUME Kept, pos >= to, NEW p \in Packets,
                      Whole(p), ends[p] <= to, p \notin cut, p \notin Attached
               PROVE  FALSE
    BY DEF LossConfined
  <2>1. /\ starts[p] < ends[p] /\ starts[p] \in Int /\ ends[p] \in Int
        /\ to \in Nat /\ pos \in Int
    BY Wholes DEF Kept
  <2>2. starts[p] < to
    BY <2>1
  <2>3. pos <= starts[p]
    BY <2>2 DEF Kept, Reading, Ahead
  <2> QED
    BY <2>1, <2>2, <2>3
<1> QED
  BY <1>1, AlwaysKept, PTL

-----------------------------------------------------------------------------
(* Refinement of PacketQueue.  A packet goes in with its first byte; its   *)
(* number is how many start no later.                                      *)
From(b) == {p \in Packets : starts[p] \in 0 .. b}
Done    == IF attached = <<>> THEN {} ELSE From(starts[attached[Len(attached)]])
Begun   == {p \in Packets : starts[p] >= 0}

LEMMA Counting ==
    /\ IsFiniteSet(Packets)
    /\ \A S \in SUBSET Packets : IsFiniteSet(S) /\ Cardinality(S) \in Nat
    /\ \A S, T \in SUBSET Packets : S \subseteq T => Cardinality(S) <= Cardinality(T)
    /\ \A S \in SUBSET Packets, p \in Packets :
          p \notin S => Cardinality(S \cup {p}) = Cardinality(S) + 1
<1>1. IsFiniteSet(Packets)
  BY FS_Interval, FramingAssumption DEF Packets
<1>2. \A S \in SUBSET Packets : IsFiniteSet(S) /\ Cardinality(S) \in Nat
  BY <1>1, FS_Subset, FS_CardinalityType
<1> QED
  BY <1>1, <1>2, FS_Subset, FS_AddElement

Counted ==
    /\ UpTo(written) = Cardinality(Begun)
    /\ (IF attached = <<>> THEN 0 ELSE UpTo(starts[attached[Len(attached)]]))
          = Cardinality(Done)

LEMMA Counts == Kept => Counted
<1> SUFFICES ASSUME Stream
             PROVE  Counted
  BY DEF Kept
<1>1. starts \in [Packets -> Nat \cup {0 - 1}] /\ written \in Nat
      /\ \A p \in Packets : starts[p] >= 0 => starts[p] < written
  BY Wholes
<1>2. From(written) = Begun
  BY <1>1 DEF From, Begun
<1>3. Cardinality({}) = 0
  BY FS_EmptySet
<1> QED
  BY <1>2, <1>3 DEF Counted, UpTo, From, Done

(* What the receiver does not do leaves the packets that came out alone. *)
LEMMA DoneKept ==
    ASSUME Stream, Stable, Reading, UNCHANGED attached, Stream'
    PROVE  Done' = Done
<1>w. /\ starts \in [Packets -> Nat \cup {0 - 1}] /\ written \in Nat /\ to \in Nat
      /\ to <= written
  BY Wholes
<1>v. starts' \in [Packets -> Nat \cup {0 - 1}]
  BY Wholes DEF Stream, TypeOK
<1>1. CASE attached = <<>>
  BY <1>1 DEF Done
<1>2. CASE attached # <<>>
  <2> DEFINE l == attached[Len(attached)]
  <2>1. attached \in Seq(Packets) /\ Len(attached) \in DOMAIN attached
    BY <1>2 DEF Stream, TypeOK
  <2>2. l \in Packets /\ starts[l] \in 0 .. to - 1
    BY <2>1 DEF Reading, Behind
  <2>3. starts'[l] = starts[l] /\ l' = l
    BY <1>w, <2>2 DEF Stable
  <2> HIDE DEF l
  <2>4. \A p \in Packets : starts'[p] \in 0 .. starts[l] <=> starts[p] \in 0 .. starts[l]
    BY <1>w, <1>v, <2>2 DEF Stable
  <2>5. From(starts[l])' = From(starts[l])
    BY <2>3, <2>4 DEF From
  <2> QED
    BY <1>2, <2>5 DEF Done, l
<1> QED
  BY <1>1, <1>2

(* A write puts at most one packet in. *)
LEMMA WroteBegun ==
    ASSUME Stream, NEW s \in Senders, sending[s] # Idle,
           NEW n \in 1 .. sending[s].left, Write(s, n)
    PROVE  \/ Begun' = Begun
           \/ Cardinality(Begun') = Cardinality(Begun) + 1
<1> DEFINE p == sending[s].packet
<1>1. /\ p \in Packets /\ written \in Nat
      /\ starts \in [Packets -> Nat \cup {0 - 1}]
      /\ starts' \in [Packets -> Nat \cup {0 - 1}]
      /\ \A q \in Packets : q # p => starts'[q] = starts[q]
      /\ AtFirstByte(s) => starts[p] < 0 /\ starts'[p] = written
      /\ ~AtFirstByte(s) => starts'[p] = starts[p]
  BY Wrote, Wholes
<1> HIDE DEF p
<1>2. CASE AtFirstByte(s)
  <2>1. Begun' = Begun \cup {p} /\ p \notin Begun
    BY <1>1, <1>2 DEF Begun
  <2>2. Begun \in SUBSET Packets
    BY DEF Begun
  <2> QED
    BY <1>1, <2>1, <2>2, Counting
<1>3. CASE ~AtFirstByte(s)
  BY <1>1, <1>3 DEF Begun
<1> QED
  BY <1>2, <1>3

LEMMA CutTakes ==
    ASSUME Kept, NEW p \in Packets, CutPacket(p)
    PROVE  /\ Done' = From(pos) /\ Begun' = Begun
           /\ Done \cup {p} \subseteq Done' /\ p \notin Done /\ Done' \subseteq Begun
           /\ ~dirty => Done' = Done \cup {p}
<1>k. Stream /\ Reading /\ Undamaged
  BY DEF Kept
<1>w. /\ starts \in [Packets -> Nat \cup {0 - 1}] /\ to \in Nat /\ pos \in Nat
      /\ \A q, r \in Packets : q # r /\ starts[r] >= 0 => starts[q] # starts[r]
  BY <1>k, Wholes DEF Stream, TypeOK
<1>1. /\ starts[p] = pos /\ pos < to /\ UNCHANGED starts
      /\ attached' = Append(attached, p) /\ attached \in Seq(Packets)
  BY <1>k DEF CutPacket, CutAs, Cut, Starting, Stream, TypeOK
<1>2. attached' # <<>> /\ attached'[Len(attached')] = p
  BY <1>1
<1>3. Done' = From(pos) /\ Begun' = Begun
  BY <1>1, <1>2 DEF Done, From, Begun
<1>4. p \in From(pos) /\ From(pos) \subseteq Begun
  BY <1>w, <1>1 DEF From, Begun
<1>5. ASSUME NEW q \in Done
      PROVE  q \in Packets /\ starts[q] \in 0 .. pos - 1
  <2> DEFINE l == attached[Len(attached)]
  <2>1. Len(attached) \in DOMAIN attached
    BY <1>1, <1>5 DEF Done
  <2>2. starts[l] < pos /\ starts[l] \in Nat
    BY <1>k, <2>1 DEF Reading, Behind
  <2>3. q \in Packets /\ starts[q] \in 0 .. starts[l]
    BY <1>5 DEF Done, From
  <2> QED
    BY <1>w, <2>2, <2>3
<1>6. Done \subseteq From(pos) /\ p \notin Done
  BY <1>w, <1>1, <1>5 DEF From
<1>7. ASSUME ~dirty, NEW q \in Packets, starts[q] \in 0 .. pos - 1
      PROVE  q \in Done
  <2>1. Whole(q) /\ starts[q] < to /\ q \notin cut
    BY <1>k, <1>w, <1>1, <1>7 DEF Undamaged
  <2>2. q \in Attached
    <3>1. ~(pos <= starts[q])
      BY <1>w, <1>7
    <3> QED
      BY <1>k, <2>1, <3>1 DEF Reading, Ahead
  <2>3. PICK j \in DOMAIN attached : attached[j] = q
    BY <2>2 DEF Attached, Range
  <2>4. Len(attached) \in DOMAIN attached /\ attached # <<>> /\ j <= Len(attached)
        /\ j \in Nat /\ Len(attached) \in Nat
    BY <1>1, <2>3
  <2>5. starts[q] <= starts[attached[Len(attached)]] /\ starts[attached[Len(attached)]] \in Nat
    <3>1. starts[attached[Len(attached)]] \in Nat
      BY <1>k, <2>4 DEF Reading, Behind
    <3>2. CASE j = Len(attached)
      BY <1>w, <2>3, <3>1, <3>2
    <3>3. CASE j < Len(attached)
      BY <1>k, <1>w, <2>3, <2>4, <3>1, <3>3 DEF Reading, AttachedInOrder, InStreamOrder
    <3> QED
      BY <2>4, <3>2, <3>3
  <2> QED
    BY <1>7, <1>w, <2>4, <2>5 DEF Done, From
<1>8. ~dirty => From(pos) = Done \cup {p}
  <2> SUFFICES ASSUME ~dirty, NEW q \in Packets, starts[q] \in 0 .. pos, q # p
               PROVE  q \in Done
    BY <1>4, <1>6 DEF From
  <2>1. starts[q] # pos
    BY <1>w, <1>1
  <2>2. starts[q] \in 0 .. pos - 1
    BY <1>w, <2>1
  <2> QED
    BY <1>7, <2>2
<1> QED
  BY <1>3, <1>4, <1>6, <1>8

LEMMA RefineInit == Init => Queue!QueueInit
<1> SUFFICES ASSUME Init PROVE Queue!QueueInit
  OBVIOUS
<1>1. attached = <<>> /\ ~dirty /\ ~junk
  BY DEF Init
<1>2. Begun = {} /\ Counted
  BY KeptInit, Counts DEF Init, Begun
<1>3. UpTo(written) = 0
  BY <1>2, FS_EmptySet DEF Counted
<1> QED
  BY <1>1, <1>3 DEF Queue!QueueInit

LEMMA RefineStep ==
    Kept /\ Kept' /\ Counted /\ Counted' /\ [Next]_vars
        => [Queue!QueueNext]_(Queue!queueVars)
<1> SUFFICES ASSUME Kept, Kept', Counted, Counted', [Next]_vars
             PROVE  [Queue!QueueNext]_(Queue!queueVars)
  OBVIOUS
<1> DEFINE put   == UpTo(written)
           taken == IF attached = <<>> THEN 0 ELSE UpTo(starts[attached[Len(attached)]])
<1>k. Stream /\ Reading /\ Undamaged /\ Stream'
  BY DEF Kept
<1>c. put = Cardinality(Begun) /\ taken = Cardinality(Done)
  BY DEF Counted
<1>d. put' = Cardinality(Begun') /\ taken' = Cardinality(Done')
  BY DEF Counted
<1>s. ASSUME Begun' = Begun, Done' = Done, UNCHANGED junk, dirty => dirty'
      PROVE  [Queue!QueueNext]_(Queue!queueVars)
  <2>1. put' = put /\ taken' = taken /\ dirty \in BOOLEAN /\ dirty' \in BOOLEAN
    BY <1>c, <1>d, <1>s, <1>k DEF Stream, TypeOK
  <2>2. CASE dirty' = dirty
    BY <1>s, <2>1, <2>2 DEF Queue!queueVars
  <2>3. CASE dirty' # dirty
    BY <1>s, <2>1, <2>3 DEF Queue!QueueNext, Queue!Disturb
  <2> QED
    BY <2>2, <2>3
<1>1. ASSUME NEW s \in Senders, NEW n \in 1 .. sending[s].left, sending[s] # Idle,
             Write(s, n), UNCHANGED <<kind, receiverVars>>
      PROVE  [Queue!QueueNext]_(Queue!queueVars)
  <2>1. Done' = Done
    BY <1>k, <1>1, WroteStable, DoneKept
  <2>2. CASE Begun' = Begun
    BY <1>1, <1>s, <2>1, <2>2
  <2>3. CASE Cardinality(Begun') = Cardinality(Begun) + 1
    <3>1. put' = put + 1 /\ taken' = taken /\ UNCHANGED <<dirty, junk>>
      BY <1>1, <1>c, <1>d, <2>1, <2>3
    <3> QED
      BY <3>1 DEF Queue!QueueNext, Queue!Put
  <2> QED
    BY <1>k, <1>1, <2>2, <2>3, WroteBegun
<1>2. ASSUME UNCHANGED <<starts, attached, junk>>, dirty => dirty'
      PROVE  [Queue!QueueNext]_(Queue!queueVars)
  BY <1>2, <1>s DEF Begun, Done, From
<1>3. ASSUME NEW s \in Senders, NEW k \in Kinds, BeginSend(s, k)
      PROVE  [Queue!QueueNext]_(Queue!queueVars)
  BY <1>2, <1>3 DEF BeginSend
<1>4. ASSUME NEW s \in Senders, SendWhole(s)
      PROVE  [Queue!QueueNext]_(Queue!queueVars)
  <2>1. sending[s].left \in 1 .. sending[s].left
    BY <1>k, <1>4 DEF SendWhole, Stream, Apart, TypeOK
  <2> QED
    BY <1>1, <1>4, <2>1 DEF SendWhole
<1>5. ASSUME NEW s \in Senders, NEW n \in 1 .. sending[s].left, SendPart(s, n)
      PROVE  [Queue!QueueNext]_(Queue!queueVars)
  BY <1>1, <1>5 DEF SendPart
<1>6. ASSUME NEW s \in Senders, SendFails(s)
      PROVE  [Queue!QueueNext]_(Queue!queueVars)
  BY <1>2, <1>6 DEF SendFails
<1>7. ASSUME NEW n \in 1 .. written - to, Recv(n)
      PROVE  [Queue!QueueNext]_(Queue!queueVars)
  BY <1>2, <1>7 DEF Recv, RecvAnd
<1>8. ASSUME NEW p \in Packets, CutPacket(p)
      PROVE  [Queue!QueueNext]_(Queue!queueVars)
  <2>1. /\ Begun' = Begun /\ Done \cup {p} \subseteq Done' /\ p \notin Done
        /\ Done' \subseteq Begun /\ (~dirty => Done' = Done \cup {p})
    BY <1>8, CutTakes
  <2>2. Done \in SUBSET Packets /\ Done' \in SUBSET Packets /\ Begun \in SUBSET Packets
    BY <2>1 DEF Begun
  <2>3. /\ taken' <= put /\ put' = put
        /\ taken + 1 <= taken' /\ (~dirty => taken' = taken + 1)
        /\ taken \in Nat /\ taken' \in Nat /\ put \in Nat
    <3> HIDE DEF put, taken
    <3>1. Cardinality(Done \cup {p}) = taken + 1
      BY <1>c, <2>1, <2>2, Counting
    <3>2. Done \cup {p} \in SUBSET Packets /\ Cardinality(Begun') = Cardinality(Begun)
      BY <2>1, <2>2
    <3>3. Cardinality(Done \cup {p}) <= Cardinality(Done') /\ Cardinality(Done') <= Cardinality(Begun)
      BY <2>1, <2>2, <3>2, Counting
    <3>4. Cardinality(Done) \in Nat /\ Cardinality(Done') \in Nat /\ Cardinality(Begun) \in Nat
      BY <2>2, Counting
    <3>5. ~dirty => Cardinality(Done') = Cardinality(Done \cup {p})
      BY <2>1
    <3> QED
      BY <1>c, <1>d, <3>1, <3>2, <3>3, <3>4, <3>5
  <2>4. UNCHANGED <<dirty, junk>>
    BY <1>8 DEF CutPacket, CutAs, Cut
  <2>5. CASE dirty
    BY <2>3, <2>4, <2>5 DEF Queue!QueueNext, Queue!PassOver
  <2>6. CASE ~dirty
    BY <2>3, <2>4, <2>6 DEF Queue!QueueNext, Queue!Take
  <2> QED
    BY <2>5, <2>6
<1>9. ASSUME NEW length \in Lengths, CutAnything(length)
      PROVE  [Queue!QueueNext]_(Queue!queueVars)
  <2>1. dirty /\ junk' = TRUE /\ UNCHANGED <<starts, attached, dirty, written>>
    BY <1>k, <1>9, AnythingStep DEF CutAnything, Cut
  <2>2. put' = put /\ taken' = taken
    BY <2>1 DEF UpTo
  <2> QED
    BY <2>1, <2>2 DEF Queue!QueueNext, Queue!Fail
<1>10. ASSUME UNCHANGED vars
       PROVE  [Queue!QueueNext]_(Queue!queueVars)
  BY <1>2, <1>10 DEF vars
<1> QED
  BY <1>3, <1>4, <1>5, <1>6, <1>7, <1>8, <1>9, <1>10 DEF Next

(***************************************************************************)
(* Stream and receive loop are a queue of packets until a recv() is not    *)
(* clean, and keep the order of the packets ever after (NetworkLib.h:194,  *)
(* ClientNetwork.cpp:66-94).                                               *)
(***************************************************************************)
THEOREM StreamRefinesQueue == Spec => StreamImplementsQueue
<1>1. Kept /\ Kept' /\ Counted /\ Counted' /\ [Next]_vars
         => [Queue!QueueNext]_(Queue!queueVars)
  BY RefineStep
<1> QED
  BY <1>1, Counts, RefineInit, AlwaysKept, PTL DEF Spec, StreamImplementsQueue, Queue!QueueSpec
=============================================================================
