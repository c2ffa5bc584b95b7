--------------------------- MODULE SessionsProofs ---------------------------
(***************************************************************************)
(* Proofs about Sessions, for any connections, any slots and any number of *)
(* sending threads.                                                        *)
(***************************************************************************)
EXTENDS Sessions, TLAPS, FiniteSetTheorems

USE DEF Slots, registry, work, receiver, sending, history, aside, Unflagged, CountWithout

-----------------------------------------------------------------------------
(* operator[] turns no entry into a null entry and changes nothing else. *)
LEMMA LookedUp ==
    ASSUME TypeOK, NEW i \in Slots, LookUp(i)
    PROVE  /\ sessionMap' \in [Slots -> Conns \cup {Null, Absent}]
           /\ \A j \in Slots : \/ sessionMap'[j] = sessionMap[j]
                               \/ sessionMap[j] = Absent /\ sessionMap'[j] = Null
<1>1. CASE sessionMap[i] = Absent
  BY <1>1 DEF LookUp, TypeOK
<1>2. CASE sessionMap[i] # Absent
  BY <1>2 DEF LookUp, TypeOK
<1> QED
  BY <1>1, <1>2

LEMMA TypeInit == Init => TypeOK
  BY SessionsAssumption DEF Init, TypeOK, RecvPCs, Faults

LEMMA TypeStep ==
    ASSUME TypeOK, Attended, SlotsAgree, [Next]_vars
    PROVE  TypeOK'
<1> USE SessionsAssumption DEF TypeOK, RecvPCs, Faults, Enters, LookUp, Sent
<1>1. CASE \E c \in Conns : Knock(c)
  BY <1>1 DEF Knock
<1>2. CASE \E c \in Conns : Leave(c)
  BY <1>2 DEF Leave
<1>3. CASE \E c \in Conns : Accept(c)
  BY <1>3 DEF Accept
<1>4. CASE \E c \in Conns : AcceptOverrun(c)
  BY <1>4 DEF AcceptOverrun
<1>5. CASE \E c \in Conns : Remove(c)
  BY <1>5 DEF Remove
<1>6. CASE AddToMap
  BY <1>6 DEF AddToMap
<1>7. CASE AddSocket
  BY <1>7 DEF AddSocket
<1>8. CASE AddCount
  BY <1>8 DEF AddCount
<1>9. CASE RemoveSocket
  BY <1>9 DEF RemoveSocket
<1>10. CASE RemoveFromMap
  BY <1>10 DEF RemoveFromMap
<1>11. CASE RemoveCount
  <2>1. rconn \in Conns
    BY <1>11 DEF RemoveCount, SlotsAgree
  <2> QED
    BY <1>11, <2>1 DEF RemoveCount
<1>12. CASE \E s \in Senders : BeginBroadcast(s)
  BY <1>12 DEF BeginBroadcast, Registered
<1>13. ASSUME NEW s \in Senders, CheckSlot(s)
       PROVE  TypeOK'
  <2>1. /\ spc' \in [Senders -> {"idle", "check", "use", "one"}]
        /\ si' \in [Senders -> 0 .. MaxConnection + 1]
    <3>1. CASE indexList[si[s]]
      BY <1>13, <3>1 DEF CheckSlot
    <3>2. CASE ~indexList[si[s]]
      <4>1. si[s] + 1 \in 0 .. MaxConnection + 1
        BY <1>13 DEF CheckSlot, AfterLast
      <4> QED
        BY <1>13, <3>2, <4>1 DEF CheckSlot
    <3> QED
      BY <3>1, <3>2
  <2>2. overlap' \in [Senders -> BOOLEAN]
    BY <1>13 DEF CheckSlot
  <2> QED
    BY <1>13, <2>1, <2>2 DEF CheckSlot
<1>14. ASSUME NEW s \in Senders, UseSlot(s)
       PROVE  TypeOK'
  <2>1. si[s] \in Slots
    BY <1>14 DEF UseSlot, Attended
  <2>2. sessionMap' \in [Slots -> Conns \cup {Null, Absent}]
    BY <1>14, <2>1, LookedUp DEF UseSlot
  <2>3. CASE sessionMap[si[s]] \in Conns
    <3> PICK c \in Conns : c = sessionMap[si[s]]
      BY <2>3
    <3>1. reached' \in [Senders -> [Conns -> Nat]]
      <4>1. reached' = [reached EXCEPT ![s][c] = @ + 1]
        BY <1>14 DEF UseSlot
      <4> QED
        BY <4>1
    <3>2. /\ spc' = [spc EXCEPT ![s] = "check"] /\ si' = [si EXCEPT ![s] = @ + 1]
          /\ overlap' = [overlap EXCEPT ![s] = FALSE] /\ fault' = fault
      BY <1>14, <2>3 DEF UseSlot
    <3>3. si[s] + 1 \in 0 .. MaxConnection + 1
      BY <2>1
    <3>4. /\ spc' \in [Senders -> {"idle", "check", "use", "one"}]
          /\ si' \in [Senders -> 0 .. MaxConnection + 1]
          /\ overlap' \in [Senders -> BOOLEAN]
      BY <3>2, <3>3
    <3> QED
      BY <1>14, <2>2, <3>1, <3>2, <3>4 DEF UseSlot
  <2>4. CASE sessionMap[si[s]] \notin Conns
    BY <1>14, <2>2, <2>4 DEF UseSlot
  <2> QED
    BY <2>3, <2>4
<1>15. CASE \E s \in Senders : EndBroadcast(s)
  BY <1>15 DEF EndBroadcast
<1>16. ASSUME NEW s \in Senders, EndSend(s)
       PROVE  TypeOK'
  <2>1. /\ spc' \in [Senders -> {"idle", "check", "use", "one"}]
        /\ si' \in [Senders -> 0 .. MaxConnection + 1]
        /\ erased' \in [Senders -> BOOLEAN] /\ overlap' \in [Senders -> BOOLEAN]
    <3>1. 0 \in 0 .. MaxConnection + 1
      OBVIOUS
    <3>2. \/ UNCHANGED <<spc, si, erased, overlap>>
          \/ /\ spc' = [spc EXCEPT ![s] = "idle"] /\ si' = [si EXCEPT ![s] = 0]
             /\ erased' = [erased EXCEPT ![s] = FALSE]
             /\ overlap' = [overlap EXCEPT ![s] = FALSE]
      BY <1>16 DEF EndSend
    <3>3. CASE UNCHANGED <<spc, si, erased, overlap>>
      BY <3>3
    <3>4. CASE ~UNCHANGED <<spc, si, erased, overlap>>
      <4>1. /\ spc' = [spc EXCEPT ![s] = "idle"] /\ si' = [si EXCEPT ![s] = 0]
            /\ erased' = [erased EXCEPT ![s] = FALSE]
            /\ overlap' = [overlap EXCEPT ![s] = FALSE]
        BY <3>2, <3>4
      <4>2. si' \in [Senders -> 0 .. MaxConnection + 1]
        BY <3>1, <4>1
      <4> QED
        BY <4>1, <4>2
    <3> QED
      BY <3>3, <3>4
  <2>2. fault' \in Faults
    BY <1>16 DEF EndSend
  <2> QED
    BY <1>16, <2>1, <2>2 DEF EndSend
<1>17. ASSUME NEW s \in Senders, NEW i \in Slots, BeginSend(s, i)
       PROVE  TypeOK'
  <2>1. /\ spc' \in [Senders -> {"idle", "check", "use", "one"}]
        /\ si' \in [Senders -> 0 .. MaxConnection + 1]
    BY <1>17 DEF BeginSend
  <2>2. overlap' \in [Senders -> BOOLEAN]
    BY <1>17 DEF BeginSend
  <2>3. sessionMap' \in [Slots -> Conns \cup {Null, Absent}]
    BY <1>17, LookedUp DEF BeginSend
  <2> QED
    BY <1>17, <2>1, <2>2, <2>3 DEF BeginSend
<1>18. CASE UNCHANGED vars
  BY <1>18 DEF vars
<1> QED
  BY <1>1, <1>2, <1>3, <1>4, <1>5, <1>6, <1>7, <1>8, <1>9, <1>10, <1>11, <1>12, <1>13, <1>14, <1>15, <1>16, <1>17, <1>18 DEF Next, Receive, Send

LEMMA TakenCounted ==
    /\ IsFiniteSet(Taken) /\ Cardinality(Taken) \in Nat
<1>1. IsFiniteSet(Slots)
  BY SessionsAssumption, FS_Interval
<1> QED
  BY <1>1, FS_Subset, FS_CardinalityType DEF Taken

LEMMA TakenOne ==
    ASSUME TypeOK, NEW i \in Slots, NEW b \in BOOLEAN, b # indexList[i],
           indexList' = [indexList EXCEPT ![i] = b]
    PROVE  /\ Cardinality(Taken) \in Nat /\ Cardinality(Taken') \in Nat
           /\ b => Cardinality(Taken') = Cardinality(Taken) + 1
           /\ ~b => Cardinality(Taken) = Cardinality(Taken') + 1
<1>1. IsFiniteSet(Taken)
  BY TakenCounted
<1>2. CASE b
  <2>1. Taken' = Taken \cup {i} /\ i \notin Taken
    BY <1>2 DEF Taken, TypeOK
  <2> QED
    BY <1>1, <1>2, <2>1, FS_AddElement, FS_CardinalityType
<1>3. CASE ~b
  <2>1. Taken' = Taken \ {i} /\ i \in Taken
    BY <1>3 DEF Taken, TypeOK
  <2>2. IsFiniteSet(Taken') /\ Taken = Taken' \cup {i} /\ i \notin Taken'
    BY <1>1, <2>1, FS_Subset
  <2> QED
    BY <1>3, <2>2, FS_AddElement, FS_CardinalityType
<1> QED
  BY <1>2, <1>3

(* A sending thread touches the registry only by looking slots up. *)
LEMMA SendersLookUp ==
    ASSUME TypeOK, Attended, NEW s \in Senders, Send(s)
    PROVE  /\ \A j \in Slots : \/ sessionMap'[j] = sessionMap[j]
                               \/ sessionMap[j] = Absent /\ sessionMap'[j] = Null
           /\ UNCHANGED <<peer, indexList, socketIndex, sessionCount, rpc, rconn, rindex>>
<1>1. CASE UseSlot(s)
  <2>1. si[s] \in Slots /\ LookUp(si[s])
    BY <1>1 DEF UseSlot, Attended
  <2> QED
    BY <1>1, <2>1, LookedUp DEF UseSlot
<1>2. CASE \E i \in Slots : BeginSend(s, i)
  <2>1. PICK i \in Slots : BeginSend(s, i)
    BY <1>2
  <2> QED
    BY <2>1, LookedUp DEF BeginSend
<1>3. CASE BeginBroadcast(s) \/ CheckSlot(s) \/ EndBroadcast(s) \/ EndSend(s)
  BY <1>3 DEF BeginBroadcast, CheckSlot, EndBroadcast, EndSend
<1> QED
  BY <1>1, <1>2, <1>3 DEF Send

LEMMA SlotsStep ==
    ASSUME TypeOK, UsedOnce, Attended, SlotsAgree, [Next]_vars
    PROVE  SlotsAgree'
<1>0. IsFiniteSet(Taken) /\ Cardinality(Taken) \in Nat
  BY TakenCounted
<1> USE SessionsAssumption DEF SlotsAgree, AtWork, Adding, Removing
<1>1. ASSUME NEW c \in Conns, Accept(c)
      PROVE  SlotsAgree'
  <2>1. PICK i \in Slots : /\ ~indexList[i] /\ indexList' = [indexList EXCEPT ![i] = TRUE]
                           /\ rindex' = i /\ rconn' = c /\ rpc' = "add2" /\ rpc = "select"
                           /\ socketIndex[c] = Absent
                           /\ UNCHANGED <<sessionMap, socketIndex, sessionCount>>
    BY <1>1 DEF Accept, Lowest, FreeSlots, Enters
  <2>2. Cardinality(Taken') = Cardinality(Taken) + 1 /\ Cardinality(Taken) \in Nat
    BY <2>1, TakenOne
  <2>3. sessionCount' = Cardinality(Taken') - 1 /\ sessionMap[i] \notin Conns
    BY <2>1, <2>2
  <2>4. \A j \in Slots : indexList'[j] = IF j = i THEN TRUE ELSE indexList[j]
    BY <2>1 DEF TypeOK
  <2>5. \A j \in Slots : ~AtWork(j)' =>
            /\ indexList'[j] <=> sessionMap'[j] \in Conns
            /\ indexList'[j] => socketIndex'[sessionMap'[j]] = j
    BY <2>1, <2>4
  <2>6. \A d \in Conns : socketIndex'[d] # Absent => sessionMap'[socketIndex'[d]] = d
    BY <2>1
  <2>7. i \in Slots /\ indexList'[i]
    BY <2>4
  <2>8. rpc' # "select" =>
            /\ rconn' \in Conns /\ (indexList'[rindex'] <=> Adding')
            /\ sessionMap'[rindex'] \notin Conns
            /\ socketIndex'[rconn'] = Absent
    BY <2>1, <2>3, <2>7
  <2>9. Adding' /\ ~Removing' /\ rpc' = "add2"
    BY <2>1
  <2>10. sessionCount' = Cardinality(Taken') + (IF Removing' THEN 1 ELSE 0)
                                             - (IF Adding' THEN 1 ELSE 0)
    <3> HIDE DEF Adding, Removing, SlotsAgree
    <3> QED
      BY <2>2, <2>3, <2>9
  <2> QED
    <3> HIDE DEF Adding, Removing, AtWork
    <3> QED
      BY <2>5, <2>6, <2>8, <2>9, <2>10
<1>2. ASSUME NEW c \in Conns, Remove(c)
      PROVE  SlotsAgree'
  <2> PICK i : i = socketIndex[c]
    OBVIOUS
  <2>1. /\ i \in Slots /\ indexList[i] /\ indexList' = [indexList EXCEPT ![i] = FALSE]
        /\ rindex' = i /\ rconn' = c /\ rpc' = "rem2" /\ rpc = "select" /\ sessionMap[i] = c
        /\ UNCHANGED <<sessionMap, socketIndex, sessionCount>>
    BY <1>2 DEF Remove, TypeOK, Enters
  <2>2. Cardinality(Taken) = Cardinality(Taken') + 1 /\ Cardinality(Taken') \in Nat
    BY <2>1, TakenOne
  <2>3. sessionCount' = Cardinality(Taken') + 1
    BY <2>1, <2>2
  <2>4. \A j \in Slots : indexList'[j] = IF j = i THEN FALSE ELSE indexList[j]
    BY <2>1 DEF TypeOK
  <2>5. \A j \in Slots : ~AtWork(j)' =>
            /\ indexList'[j] <=> sessionMap'[j] \in Conns
            /\ indexList'[j] => socketIndex'[sessionMap'[j]] = j
    BY <2>1, <2>4
  <2>6. \A d \in Conns : socketIndex'[d] # Absent => sessionMap'[socketIndex'[d]] = d
    BY <2>1
  <2>7. i \in Slots /\ ~indexList'[i]
    BY <2>1, <2>4
  <2> QED
    BY <2>1, <2>3, <2>5, <2>6, <2>7
<1>3. CASE ~(\E c \in Conns : Accept(c) \/ Remove(c))
  <2>1. indexList' = indexList /\ Taken' = Taken
    BY <1>3 DEF Next, Receive, Send, Knock, Leave, AcceptOverrun, AddToMap, AddSocket, AddCount,
       RemoveSocket, RemoveFromMap, RemoveCount, BeginBroadcast, CheckSlot, UseSlot,
       EndBroadcast, EndSend, BeginSend, vars, Taken
  <2> USE <2>1
  <2>2. CASE AddToMap
    BY <2>2 DEF AddToMap, TypeOK
  <2>3. CASE AddSocket
    BY <2>3 DEF AddSocket, TypeOK
  <2>4. CASE AddCount
    BY <2>4, <1>0 DEF AddCount, TypeOK
  <2>5. CASE RemoveSocket
    <3>1. /\ rpc = "rem2" /\ rpc' = "rem3" /\ rconn \in Conns /\ sessionMap[rindex] = rconn
          /\ socketIndex' = [socketIndex EXCEPT ![rconn] = Absent]
          /\ UNCHANGED <<sessionMap, sessionCount, rconn, rindex>>
      BY <2>5 DEF RemoveSocket
    <3>2. \A i \in Slots : i # rindex /\ indexList[i] => sessionMap[i] # rconn
      BY <3>1
    <3> QED
      BY <3>1, <3>2 DEF TypeOK
  <2>6. CASE RemoveFromMap
    <3>1. /\ rpc = "rem3" /\ rpc' = "rem4" /\ rconn \in Conns /\ rindex \in Slots
          /\ socketIndex[rconn] = Absent /\ sessionMap[rindex] = rconn
          /\ \A i \in Slots : sessionMap'[i] = IF i = rindex THEN Absent ELSE sessionMap[i]
          /\ UNCHANGED <<socketIndex, sessionCount, rconn, rindex>>
      BY <2>6 DEF RemoveFromMap, TypeOK
    <3> QED
      BY <3>1 DEF TypeOK
  <2>7. CASE RemoveCount
    <3>1. /\ rpc = "rem4" /\ rpc' = "select" /\ sessionCount' = sessionCount - 1
          /\ UNCHANGED <<sessionMap, socketIndex>>
      BY <2>7 DEF RemoveCount
    <3>2. sessionCount' = Cardinality(Taken')
      BY <3>1, <1>0
    <3>3. \A i \in Slots : indexList[i] <=> sessionMap[i] \in Conns
      BY <3>1
    <3> QED
      BY <3>1, <3>2, <3>3
  <2>8. CASE \E s \in Senders : Send(s)
    <3>1. /\ \A j \in Slots : \/ sessionMap'[j] = sessionMap[j]
                              \/ sessionMap[j] = Absent /\ sessionMap'[j] = Null
          /\ UNCHANGED <<socketIndex, sessionCount, rpc, rconn, rindex>>
      BY <2>8, SendersLookUp
    <3> QED
      BY <3>1 DEF TypeOK
  <2>9. CASE \/ \E c \in Conns : Knock(c) \/ Leave(c) \/ AcceptOverrun(c)
             \/ UNCHANGED vars
    <3>1. UNCHANGED <<sessionMap, socketIndex, sessionCount, rpc, rconn, rindex>>
      BY <2>9 DEF Knock, Leave, AcceptOverrun, vars
    <3> QED
      BY <3>1
  <2> QED
    BY <1>3, <2>2, <2>3, <2>4, <2>5, <2>6, <2>7, <2>8, <2>9 DEF Next, Receive
<1> QED
  BY <1>1, <1>2, <1>3

LEMMA UsedOnceStep ==
    ASSUME TypeOK, UsedOnce, Attended, SlotsAgree, [Next]_vars
    PROVE  UsedOnce'
<1> USE SessionsAssumption DEF UsedOnce, Adding, Removing
<1>1. CASE \E c \in Conns : Knock(c)
  BY <1>1 DEF Knock, TypeOK
<1>2. CASE \E c \in Conns : Leave(c)
  BY <1>2 DEF Leave, TypeOK
<1>3. CASE \E c \in Conns : Accept(c)
  BY <1>3 DEF Accept, Enters, TypeOK
<1>4. CASE \E c \in Conns : AcceptOverrun(c)
  BY <1>4 DEF AcceptOverrun, TypeOK
<1>5. CASE \E c \in Conns : Remove(c)
  BY <1>5 DEF Remove, Enters, TypeOK
<1>6. CASE AddToMap
  BY <1>6 DEF AddToMap, TypeOK
<1>7. CASE AddSocket
  BY <1>7 DEF AddSocket, TypeOK
<1>8. CASE AddCount
  BY <1>8 DEF AddCount
<1>9. CASE RemoveSocket
  BY <1>9 DEF RemoveSocket, TypeOK
<1>10. CASE RemoveFromMap
  BY <1>10 DEF RemoveFromMap, TypeOK
<1>11. CASE RemoveCount
  <2>1. /\ rpc = "rem4" /\ rpc' = "select" /\ rconn \in Conns
        /\ \A c \in Conns : peer'[c] = IF c = rconn THEN "closed" ELSE peer[c]
        /\ socketIndex[rconn] = Absent /\ sessionMap[rindex] \notin Conns
        /\ UNCHANGED <<sessionMap, socketIndex>>
    BY <1>11 DEF RemoveCount, SlotsAgree, TypeOK
  <2>2. \A i \in Slots : sessionMap[i] # rconn
    <3> SUFFICES ASSUME NEW i \in Slots, sessionMap[i] = rconn
                 PROVE  FALSE
      OBVIOUS
    <3>1. ~AtWork(i) /\ indexList[i]
      BY <2>1 DEF AtWork, SlotsAgree
    <3> QED
      BY <2>1, <3>1 DEF SlotsAgree
  <2> QED
    BY <2>1, <2>2
<1>12. CASE \E s \in Senders : Send(s)
  <2>1. /\ \A j \in Slots : \/ sessionMap'[j] = sessionMap[j]
                            \/ sessionMap[j] = Absent /\ sessionMap'[j] = Null
        /\ UNCHANGED <<peer, socketIndex, rpc, rconn>>
    BY <1>12, SendersLookUp
  <2> QED
    BY <2>1
<1>13. CASE UNCHANGED vars
  BY <1>13 DEF vars
<1> QED
  BY <1>1, <1>2, <1>3, <1>4, <1>5, <1>6, <1>7, <1>8, <1>9, <1>10, <1>11, <1>12,
     <1>13 DEF Next, Receive

LEMMA AttendedStep ==
    ASSUME TypeOK, TypeOK', SlotsAgree, Attended, [Next]_vars
    PROVE  Attended'
<1> USE SessionsAssumption DEF TypeOK, Attended, SlotsAgree, AtWork, Adding, Removing, Enters, LookUp
<1>1. CASE \E c \in Conns : Knock(c)
  BY <1>1 DEF Knock
<1>2. CASE \E c \in Conns : Leave(c)
  BY <1>2 DEF Leave
<1>3. ASSUME NEW c \in Conns, Accept(c)
      PROVE  Attended'
  <2>1. PICK i \in Slots : /\ indexList' = [indexList EXCEPT ![i] = TRUE]
                           /\ rindex' = i /\ rpc' = "add2" /\ rpc = "select"
                           /\ \A s \in Senders : overlap'[s] =
                                 (overlap[s] \/ (spc[s] \in {"use", "one"} /\ si[s] = i))
                           /\ UNCHANGED sending
    <3> HIDE DEF TypeOK, Attended, SlotsAgree, AtWork, Adding, Removing, LookUp
    <3> QED
      BY <1>3 DEF Accept, Lowest, FreeSlots
  <2> QED
    BY <2>1 DEF sending
<1>4. CASE \E c \in Conns : AcceptOverrun(c)
  BY <1>4 DEF AcceptOverrun
<1>5. CASE \E c \in Conns : Remove(c)
  BY <1>5 DEF Remove
<1>6. CASE AddToMap
  BY <1>6 DEF AddToMap
<1>7. CASE AddSocket
  BY <1>7 DEF AddSocket
<1>8. CASE AddCount
  BY <1>8 DEF AddCount
<1>9. CASE RemoveSocket
  BY <1>9 DEF RemoveSocket
<1>10. CASE RemoveFromMap
  BY <1>10 DEF RemoveFromMap
<1>11. CASE RemoveCount
  BY <1>11 DEF RemoveCount
<1>12. CASE \E s \in Senders : BeginBroadcast(s)
  BY <1>12 DEF BeginBroadcast
<1>13. CASE \E s \in Senders : CheckSlot(s)
  BY <1>13 DEF CheckSlot, AfterLast
<1>14. ASSUME NEW s \in Senders, UseSlot(s)
       PROVE  Attended'
  <2>1. UNCHANGED <<indexList, rpc, rindex, erased>>
    BY <1>14 DEF UseSlot
  <2>2. spc[s] = "use" /\ ~erased[s]
    BY <1>14 DEF UseSlot
  <2>3. \A t \in Senders \ {s} : /\ spc'[t] = spc[t] /\ si'[t] = si[t]
                                 /\ overlap'[t] = overlap[t]
    BY <1>14 DEF UseSlot
  <2>4. \/ spc'[s] = "check"
        \/ spc'[s] = spc[s] /\ si'[s] = si[s] /\ overlap'[s] = overlap[s]
    BY <1>14 DEF UseSlot
  <2> QED
    <3> HIDE DEF TypeOK, SlotsAgree, LookUp, Enters, Adding, Removing
    <3> QED
      BY <2>1, <2>2, <2>3, <2>4
<1>15. CASE \E s \in Senders : EndBroadcast(s)
  BY <1>15 DEF EndBroadcast
<1>16. CASE \E s \in Senders : EndSend(s)
  BY <1>16 DEF EndSend
<1>17. ASSUME NEW s \in Senders, NEW i \in Slots, BeginSend(s, i)
       PROVE  Attended'
  <2>1. UNCHANGED <<indexList, rpc, rindex, erased>> /\ spc[s] = "idle"
    BY <1>17 DEF BeginSend
  <2>2. \A t \in Senders \ {s} : /\ spc'[t] = spc[t] /\ si'[t] = si[t]
                                 /\ overlap'[t] = overlap[t]
    BY <1>17 DEF BeginSend
  <2>3. \/ spc'[s] = "idle" /\ si'[s] = 0
        \/ spc'[s] = "one" /\ si'[s] = i /\ (overlap'[s] <=> AtWork(i))
    <3>1. spc \in [Senders -> {"idle", "check", "use", "one"}] /\ DOMAIN si = Senders
          /\ DOMAIN overlap = Senders
      OBVIOUS
    <3> HIDE DEF TypeOK, Attended, SlotsAgree, AtWork, Adding, Removing, LookUp
    <3> QED
      BY <1>17, <3>1 DEF BeginSend
  <2> QED
    <3> HIDE DEF TypeOK, SlotsAgree, LookUp, Enters, Adding, Removing
    <3> QED
      BY <2>1, <2>2, <2>3
<1>18. CASE UNCHANGED vars
  BY <1>18 DEF vars
<1> QED
  BY <1>1, <1>2, <1>3, <1>4, <1>5, <1>6, <1>7, <1>8, <1>9, <1>10, <1>11, <1>12, <1>13, <1>14, <1>15, <1>16, <1>17, <1>18 DEF Next, Receive, Send

-----------------------------------------------------------------------------
(* A connection is in one slot. *)
LEMMA OneSlot ==
    ASSUME TypeOK, SlotsAgree, NEW i \in Slots, NEW j \in Slots,
           sessionMap[i] \in Conns, sessionMap[i] = sessionMap[j]
    PROVE  i = j
<1>1. \A k \in Slots : ~AtWork(k) /\ sessionMap[k] \in Conns =>
                          socketIndex[sessionMap[k]] = k
  BY DEF SlotsAgree
<1>2. \A k \in Slots : AtWork(k) /\ sessionMap[k] \in Conns =>
            /\ k = rindex /\ sessionMap[k] = rconn
            /\ socketIndex[rconn] \in {rindex, Absent}
  BY DEF SlotsAgree, AtWork, TypeOK, RecvPCs
<1>3. \A k \in Slots : k # Absent
  BY SessionsAssumption
<1> QED
  BY <1>1, <1>2, <1>3

(* The table is only changed at the slot at work; a connection leaves it for good. *)
LEMMA TableKept ==
    ASSUME TypeOK, UsedOnce, Attended, SlotsAgree, [Next]_vars
    PROVE  /\ \A i \in Slots : \A c \in Conns :
                  sessionMap[i] = c => sessionMap'[i] = c \/ Left(c)'
           /\ \A c \in Conns : Left(c) => Left(c)'
<1> USE SessionsAssumption
<1>1. CASE AddToMap
  BY <1>1 DEF AddToMap, SlotsAgree, TypeOK, Left
<1>2. CASE RemoveFromMap
  <2>1. /\ rpc' = "rem4" /\ rconn' = rconn /\ peer' = peer /\ sessionMap[rindex] = rconn
        /\ \A i \in Slots : i # rindex => sessionMap'[i] = sessionMap[i]
        /\ rpc = "rem3"
    BY <1>2 DEF RemoveFromMap, SlotsAgree, TypeOK
  <2> QED
    BY <2>1 DEF Left
<1>3. CASE RemoveCount
  BY <1>3 DEF RemoveCount, TypeOK, Left
<1>4. CASE \E s \in Senders : Send(s)
  <2>1. /\ \A j \in Slots : \/ sessionMap'[j] = sessionMap[j]
                            \/ sessionMap[j] = Absent /\ sessionMap'[j] = Null
        /\ UNCHANGED <<peer, rpc, rconn>>
    BY <1>4, SendersLookUp
  <2>2. \A i \in Slots : sessionMap[i] \in Conns => sessionMap'[i] = sessionMap[i]
    BY <2>1
  <2>3. \A c \in Conns : Left(c) => Left(c)'
    BY <2>1 DEF Left
  <2> QED
    BY <2>2, <2>3
<1>5. CASE \/ \E c \in Conns : Knock(c) \/ Leave(c) \/ Accept(c) \/ AcceptOverrun(c) \/ Remove(c)
           \/ AddSocket \/ AddCount \/ RemoveSocket \/ UNCHANGED vars
  <2>1. sessionMap' = sessionMap /\ (rpc = "rem4" => rpc' = rpc /\ rconn' = rconn)
    BY <1>5 DEF Knock, Leave, Accept, AcceptOverrun, Remove, AddSocket, AddCount, RemoveSocket, vars
  <2>2. \A c \in Conns : peer[c] = "closed" => peer'[c] = "closed"
    BY <1>5 DEF Knock, Leave, Accept, AcceptOverrun, Remove, AddSocket, AddCount, RemoveSocket, vars, TypeOK
  <2> QED
    BY <2>1, <2>2 DEF Left
<1> QED
  BY <1>1, <1>2, <1>3, <1>4, <1>5 DEF Next, Receive

(* A sender that stays where it is keeps what it knows of the slots behind *)
(* it, when the connections it vouches for stay settled.                   *)
LEMMA BehindKept ==
    ASSUME TypeOK, UsedOnce, Attended, SlotsAgree, [Next]_vars,
           NEW s \in Senders, Behind(s),
           spc'[s] = spc[s], si'[s] = si[s], reached'[s] = reached[s],
           stable'[s] \subseteq stable[s],
           \A c \in stable'[s] : Settled(c)' /\ socketIndex'[c] = socketIndex[c]
    PROVE  Behind(s)'
<1>1. \A c \in Conns : Passed(s, c) => Passed(s, c)' \/ Left(c)'
  <2> SUFFICES ASSUME NEW c \in Conns, NEW i \in Slots, i < si[s], sessionMap[i] = c
               PROVE  Passed(s, c)' \/ Left(c)'
    BY DEF Passed
  <2>1. sessionMap'[i] = c \/ Left(c)'
    BY TableKept
  <2> QED
    BY <2>1 DEF Passed
<1>2. \A c \in Conns : Left(c) => Left(c)'
  BY TableKept
<1> QED
  BY <1>1, <1>2 DEF Behind

(* BeginBroadcast: what is registered now is settled. *)
LEMMA RegisteredSettled ==
    ASSUME TypeOK, SlotsAgree, NEW c \in Registered
    PROVE  c \in Conns /\ Settled(c)
<1>1. /\ c \in Conns /\ socketIndex[c] # Absent /\ indexList[socketIndex[c]]
      /\ ~(rpc = "add4" /\ rconn = c) /\ socketIndex[c] \in Slots
  BY DEF Registered, TypeOK
<1>2. sessionMap[socketIndex[c]] = c
  BY <1>1 DEF SlotsAgree
<1>3. ASSUME AtWork(socketIndex[c])
      PROVE  FALSE
  <2>1. Adding /\ (rpc = "add2" => sessionMap[rindex] \notin Conns)
        /\ (rpc # "add2" => rconn = c)
    BY <1>1, <1>2, <1>3 DEF SlotsAgree, AtWork, Adding
  <2> QED
    BY <1>1, <1>2, <1>3, <2>1 DEF SlotsAgree, AtWork, Adding
<1> QED
  BY <1>1, <1>3 DEF Settled

LEMMA SentStep ==
    ASSUME TypeOK, TypeOK', UsedOnce, Attended, SlotsAgree, SentBehind, [Next]_vars
    PROVE  SentBehind'
<1> USE SessionsAssumption
<1>0. \A s \in Senders : Behind(s)
  BY DEF SentBehind
<1>1. ASSUME NEW s \in Senders, Send(s), NEW t \in Senders \ {s}
      PROVE  Behind(t)'
  <2>1. UNCHANGED <<indexList, socketIndex, rpc, rindex>>
    BY <1>1, SendersLookUp
  <2>2. /\ spc'[t] = spc[t] /\ si'[t] = si[t] /\ reached'[t] = reached[t]
        /\ stable'[t] = stable[t]
    <3>1. CASE BeginBroadcast(s) \/ CheckSlot(s)
      BY <1>1, <3>1 DEF BeginBroadcast, CheckSlot, TypeOK
    <3>4. CASE EndBroadcast(s)
      BY <1>1, <3>4 DEF EndBroadcast, TypeOK
    <3>5. CASE EndSend(s)
      BY <1>1, <3>5 DEF EndSend, TypeOK
    <3>2. CASE UseSlot(s)
      BY <1>1, <3>2 DEF UseSlot, Sent, TypeOK
    <3>3. CASE \E i \in Slots : BeginSend(s, i)
      BY <1>1, <3>3 DEF BeginSend, TypeOK
    <3> QED
      BY <1>1, <3>1, <3>2, <3>3, <3>4, <3>5 DEF Send
  <2>3. \A c \in stable[t] : Settled(c)' /\ socketIndex'[c] = socketIndex[c]
    BY <1>0, <2>1 DEF Behind, Settled, AtWork
  <2> QED
    BY <1>0, <2>2, <2>3, BehindKept
<1>2. ASSUME NEW s \in Senders, BeginBroadcast(s)
      PROVE  Behind(s)'
  <2>1. /\ spc'[s] = "check" /\ stable'[s] = Registered /\ si[s] = 0
        /\ \A c \in Conns : reached[s][c] = 0
        /\ UNCHANGED <<registry, receiver, si, reached>>
    BY <1>0, <1>2 DEF BeginBroadcast, Behind, Attended, TypeOK
  <2>2. \A c \in Registered : c \in Conns /\ Settled(c) /\ Settled(c)' /\ ~(socketIndex[c] < 0)
    BY <2>1, RegisteredSettled DEF Settled, AtWork, TypeOK
  <2> QED
    BY <2>1, <2>2 DEF Behind
<1>3. ASSUME NEW s \in Senders, CheckSlot(s)
      PROVE  Behind(s)'
  <2>1. /\ spc[s] = "check" /\ UNCHANGED <<registry, receiver, reached, stable, peer>>
        /\ \/ indexList[si[s]] /\ spc'[s] = "use" /\ si'[s] = si[s]
           \/ ~indexList[si[s]] /\ spc'[s] = "check" /\ si'[s] = si[s] + 1
    BY <1>3 DEF CheckSlot, TypeOK
  <2>2. \A c \in stable[s] : Settled(c)' /\ socketIndex[c] \in Slots
                             /\ (socketIndex[c] < si'[s] <=> socketIndex[c] < si[s])
    BY <1>0, <2>1 DEF Behind, Settled, AtWork, TypeOK
  <2>3. \A c \in Conns : Left(c)' = Left(c) /\ (Passed(s, c) => Passed(s, c)')
    BY <2>1 DEF Left, Passed, TypeOK
  <2> QED
    BY <1>0, <2>1, <2>2, <2>3 DEF Behind
<1>4. ASSUME NEW s \in Senders, UseSlot(s), sessionMap[si[s]] \notin Conns
      PROVE  Behind(s)'
  <2>1. /\ UNCHANGED <<indexList, socketIndex, rpc, rindex>>
        /\ UNCHANGED <<spc, si, reached, stable>>
    BY <1>4 DEF UseSlot
  <2>2. \A c \in stable[s] : Settled(c)' /\ socketIndex'[c] = socketIndex[c]
    BY <1>0, <2>1 DEF Behind, Settled, AtWork
  <2> QED
    BY <1>0, <2>1, <2>2, BehindKept
<1>5. ASSUME NEW s \in Senders, UseSlot(s), sessionMap[si[s]] \in Conns
      PROVE  Behind(s)'
  <2> PICK c \in Conns : c = sessionMap[si[s]]
    BY <1>5
  <2>1. si[s] \in Slots /\ spc[s] = "use"
    BY <1>5 DEF UseSlot, Attended
  <2>2. /\ \A d \in Conns : reached'[s][d] = IF d = c THEN reached[s][d] + 1 ELSE reached[s][d]
        /\ spc'[s] = "check" /\ si'[s] = si[s] + 1
        /\ UNCHANGED <<indexList, socketIndex, rpc, rindex, rconn, peer, stable>>
    BY <1>5, <2>1 DEF UseSlot, Sent, TypeOK
  <2>3. sessionMap' = sessionMap
    BY <1>5, <2>1 DEF UseSlot, LookUp
  <2>4. reached[s][c] = 0
    <3>1. ~Passed(s, c)
      BY <2>1, OneSlot DEF Passed, TypeOK
    <3>2. ~Left(c)
      <4>1. peer[c] # "closed"
        BY <2>1 DEF UsedOnce
      <4>2. ~(rpc = "rem4" /\ rconn = c)
        BY <2>1 DEF SlotsAgree, AtWork
      <4> QED
        BY <4>1, <4>2 DEF Left
    <3>3. reached[s][c] \in Nat /\ reached[s][c] <= 1 /\ reached[s][c] # 1
      BY <1>0, <3>1, <3>2 DEF Behind, TypeOK
    <3> QED
      BY <3>3
  <2>5. \A d \in stable[s] : /\ d \in Conns /\ Settled(d)' /\ socketIndex[d] \in Slots
                             /\ d = c => socketIndex[d] = si[s]
                             /\ d # c => socketIndex[d] # si[s]
    <3>1. \A d \in stable[s] : /\ d \in Conns /\ Settled(d) /\ socketIndex[d] \in Slots
                               /\ sessionMap[socketIndex[d]] = d
      BY <1>0 DEF Behind, Settled, SlotsAgree, TypeOK
    <3>2. \A d \in stable[s] : d = c => socketIndex[d] = si[s]
      BY <2>1, <3>1, OneSlot
    <3> QED
      BY <2>2, <3>1, <3>2 DEF Settled, AtWork
  <2>6. \A d \in stable[s] : reached'[s][d] = IF socketIndex'[d] < si'[s] THEN 1 ELSE 0
    <3>1. \A d \in stable[s] : reached[s][d] = IF socketIndex[d] < si[s] THEN 1 ELSE 0
      BY <1>0 DEF Behind
    <3> QED
      BY <2>1, <2>2, <2>4, <2>5, <3>1
  <2>7. \A d \in Conns : reached'[s][d] <= 1 /\ (reached'[s][d] = 1 => Passed(s, d)' \/ Left(d)')
    <3>1. Passed(s, c)' /\ reached'[s][c] = 1
      BY <2>1, <2>2, <2>3, <2>4 DEF Passed
    <3>2. \A d \in Conns : (Passed(s, d) => Passed(s, d)') /\ (Left(d) => Left(d)')
      BY <2>1, <2>2, <2>3 DEF Passed, Left
    <3>3. \A d \in Conns : reached[s][d] <= 1 /\ (reached[s][d] = 1 => Passed(s, d) \/ Left(d))
      BY <1>0 DEF Behind
    <3> QED
      BY <2>2, <3>1, <3>2, <3>3
  <2> QED
    BY <2>2, <2>5, <2>6, <2>7 DEF Behind
<1>6. ASSUME NEW s \in Senders, EndBroadcast(s)
      PROVE  Behind(s)'
  BY <1>6 DEF EndBroadcast, Behind, TypeOK
<1>7. ASSUME NEW s \in Senders, EndSend(s) \/ \E i \in Slots : BeginSend(s, i)
      PROVE  Behind(s)'
  <2>1. /\ spc[s] \in {"idle", "one"} /\ spc'[s] \in {"idle", "one"}
        /\ UNCHANGED <<reached, stable>>
    BY <1>7 DEF EndSend, BeginSend, TypeOK
  <2>2. stable'[s] = {} /\ \A c \in Conns : reached'[s][c] = 0
    BY <1>0, <2>1 DEF Behind
  <2> QED
    BY <2>2 DEF Behind
<1>8. CASE \E s \in Senders : Send(s)
  BY <1>1, <1>2, <1>3, <1>4, <1>5, <1>6, <1>7, <1>8 DEF Send, SentBehind
<1>9. ASSUME NEW s \in Senders, UNCHANGED <<spc, si, reached>>,
             stable'[s] \subseteq stable[s],
             \A c \in stable'[s] : Settled(c)' /\ socketIndex'[c] = socketIndex[c]
      PROVE  Behind(s)'
  BY <1>0, <1>9, BehindKept
<1>10. \A s \in Senders : \A c \in stable[s] :
          /\ c \in Conns /\ Settled(c) /\ socketIndex[c] \in Slots
          /\ sessionMap[socketIndex[c]] = c
  BY <1>0 DEF Behind, Settled, SlotsAgree, TypeOK
<1>11. CASE \E c \in Conns : Accept(c)
  <2>1. PICK i \in Slots : /\ ~indexList[i] /\ indexList' = [indexList EXCEPT ![i] = TRUE]
                           /\ rindex' = i /\ socketIndex' = socketIndex
                           /\ UNCHANGED <<spc, si, reached, stable>>
    BY <1>11 DEF Accept, Lowest, FreeSlots, Enters
  <2>2. \A s \in Senders : \A c \in stable[s] : Settled(c)'
    BY <1>10, <2>1 DEF Settled, AtWork, TypeOK
  <2> QED
    BY <1>9, <2>1, <2>2 DEF SentBehind
<1>12. ASSUME NEW c \in Conns, Remove(c)
       PROVE  SentBehind'
  <2>1. /\ socketIndex[c] \in Slots /\ sessionMap[socketIndex[c]] = c
        /\ indexList' = [indexList EXCEPT ![socketIndex[c]] = FALSE]
        /\ rindex' = socketIndex[c] /\ socketIndex' = socketIndex
        /\ \A s \in Senders : stable'[s] = stable[s] \ {c}
        /\ UNCHANGED <<spc, si, reached>>
    BY <1>12 DEF Remove, Enters, SlotsAgree, TypeOK
  <2>2. \A s \in Senders : \A d \in stable[s] : d # c => socketIndex[d] # socketIndex[c]
    BY <1>10, <2>1
  <2>3. \A s \in Senders : \A d \in stable'[s] : Settled(d)'
    BY <1>10, <2>1, <2>2 DEF Settled, AtWork, TypeOK
  <2> QED
    BY <1>9, <2>1, <2>3 DEF SentBehind
<1>13. CASE AddSocket \/ RemoveSocket
  <2>1. /\ \A d \in Conns \ {rconn} : socketIndex'[d] = socketIndex[d]
        /\ UNCHANGED <<indexList, rindex, spc, si, reached, stable>>
        /\ rpc # "select"
    BY <1>13 DEF AddSocket, RemoveSocket, SlotsAgree, TypeOK
  <2>2. \A s \in Senders : \A d \in stable[s] : d # rconn
    BY <1>10, <1>13 DEF AddSocket, RemoveSocket, SlotsAgree, Settled, AtWork
  <2>3. \A s \in Senders : \A d \in stable[s] : Settled(d)' /\ socketIndex'[d] = socketIndex[d]
    BY <1>10, <2>1, <2>2 DEF Settled, AtWork
  <2> QED
    BY <1>9, <2>1, <2>3 DEF SentBehind
<1>14. CASE \/ \E c \in Conns : Knock(c) \/ Leave(c) \/ AcceptOverrun(c)
            \/ AddToMap \/ AddCount \/ RemoveFromMap \/ RemoveCount \/ UNCHANGED vars
  <2>1. /\ UNCHANGED <<indexList, socketIndex, rindex, spc, si, reached, stable>>
        /\ rpc' = rpc \/ rpc # "select"
    BY <1>14 DEF Knock, Leave, AcceptOverrun, AddToMap, AddCount, RemoveFromMap,
       RemoveCount, vars
  <2>2. \A s \in Senders : \A d \in stable[s] : Settled(d)'
    BY <1>10, <2>1 DEF Settled, AtWork
  <2> QED
    BY <1>9, <2>1, <2>2 DEF SentBehind
<1> QED
  BY <1>8, <1>11, <1>12, <1>13, <1>14 DEF Next, Receive

LEMMA FaultStep ==
    ASSUME TypeOK, Attended, SlotsAgree, FaultNeedsOverlap, [Next]_vars
    PROVE  FaultNeedsOverlap'
<1>1. CASE fault' = fault /\ ~UNCHANGED vars
  <2>1. fault = "none"
    BY <1>1 DEF Next, Receive, Send, Running, Knock, Leave, Accept, AcceptOverrun, Remove,
       AddToMap, AddSocket, AddCount, RemoveSocket, RemoveFromMap, RemoveCount, BeginBroadcast,
       CheckSlot, UseSlot, EndBroadcast, EndSend, BeginSend
  <2> QED
    BY <1>1, <2>1 DEF FaultNeedsOverlap
<1>2. CASE UNCHANGED vars
  BY <1>2 DEF FaultNeedsOverlap, vars
<1>3. CASE fault' # fault /\ RemoveSocket
  BY <1>3 DEF RemoveSocket, SlotsAgree
<1>4. ASSUME NEW c \in Conns, AcceptOverrun(c)
      PROVE  FaultNeedsOverlap'
  BY <1>4 DEF AcceptOverrun, FaultNeedsOverlap
<1>5. ASSUME NEW s \in Senders, UseSlot(s), fault' # fault
      PROVE  FaultNeedsOverlap'
  <2>1. /\ spc[s] = "use" /\ sessionMap[si[s]] \notin Conns /\ si[s] \in Slots
        /\ UNCHANGED <<spc, overlap>>
    BY <1>5 DEF UseSlot, Attended
  <2>2. overlap[s]
    BY <2>1 DEF Attended, SlotsAgree
  <2> QED
    BY <2>1, <2>2 DEF FaultNeedsOverlap
<1>6. ASSUME NEW s \in Senders, EndSend(s), fault' # fault
      PROVE  FaultNeedsOverlap'
  <2>1. spc[s] = "one" /\ erased[s] /\ UNCHANGED <<spc, overlap>>
    BY <1>6 DEF EndSend
  <2> QED
    BY <2>1 DEF FaultNeedsOverlap, Attended
<1>7. CASE fault' # fault
  BY <1>3, <1>4, <1>5, <1>6, <1>7 DEF Next, Receive, Send, Knock, Leave, Accept, Remove,
     AddToMap, AddSocket, AddCount, RemoveFromMap, RemoveCount, BeginBroadcast,
     CheckSlot, EndBroadcast, BeginSend, vars
<1> QED
  BY <1>1, <1>2, <1>7

(* Between two calls no slot is at work: the four parts describe one set. *)
LEMMA ConsistentAtRest ==
    ASSUME TypeOK, SlotsAgree
    PROVE  RegistryConsistent
<1> SUFFICES ASSUME rpc = "select"
             PROVE  RegistryConsistent
  BY DEF RegistryConsistent
<1>1. \A i \in Slots : ~AtWork(i)
  BY DEF AtWork
<1>2. sessionCount = Cardinality(Taken)
  BY TakenCounted DEF SlotsAgree, Adding, Removing
<1> QED
  BY <1>1, <1>2 DEF RegistryConsistent, SlotsAgree, Taken

(* The inductive part of RegistryInv. *)
Kept == TypeOK /\ SlotsAgree /\ UsedOnce /\ Attended /\ SentBehind /\ FaultNeedsOverlap

LEMMA InvInit == Init => Kept
<1> SUFFICES ASSUME Init
             PROVE  Kept
  OBVIOUS
<1>1. TypeOK
  BY TypeInit
<1>2. SlotsAgree
  <2>1. Cardinality(Taken) = 0
    BY FS_EmptySet DEF Init, Taken
  <2> QED
    BY <2>1, SessionsAssumption DEF Init, SlotsAgree, Adding, Removing
<1>3. UsedOnce /\ Attended /\ FaultNeedsOverlap
  BY SessionsAssumption DEF Init, UsedOnce, Attended, FaultNeedsOverlap, Adding, Removing
<1>4. SentBehind
  BY DEF Init, SentBehind, Behind
<1> QED
  BY <1>1, <1>2, <1>3, <1>4 DEF Kept

LEMMA InvStep == Kept /\ [Next]_vars => Kept'
<1> SUFFICES ASSUME Kept, [Next]_vars
             PROVE  Kept'
  OBVIOUS
<1>1. TypeOK /\ SlotsAgree /\ UsedOnce /\ Attended /\ SentBehind /\ FaultNeedsOverlap
  BY DEF Kept
<1>2. TypeOK'
  BY <1>1, TypeStep
<1>3. SlotsAgree'
  BY <1>1, SlotsStep
<1>4. UsedOnce'
  BY <1>1, UsedOnceStep
<1>5. Attended'
  BY <1>1, <1>2, AttendedStep
<1>6. SentBehind'
  BY <1>1, <1>2, SentStep
<1>7. FaultNeedsOverlap'
  BY <1>1, FaultStep
<1> QED
  BY <1>2, <1>3, <1>4, <1>5, <1>6, <1>7 DEF Kept

(***************************************************************************)
(* The registry keeps its types at every step, and whenever AddSession and *)
(* RemoveSession have finished, indexList, the two maps and the count      *)
(* describe the same sessions (SessionNode.h:92-147).                      *)
(***************************************************************************)
THEOREM RegistryKept == Spec => []RegistryInv
<1>1. Kept => RegistryInv
  BY ConsistentAtRest DEF Kept, RegistryInv
<1> QED
  BY <1>1, InvInit, InvStep, PTL DEF Spec

(***************************************************************************)
(* Without the receive thread at its slot meanwhile, no sending thread     *)
(* reads a null or an erased entry (ServerNetwork.cpp:199-215).            *)
(***************************************************************************)
THEOREM FaultsOnlyWhenOverlapping == Spec => []FaultNeedsOverlap
<1>1. RegistryInv => FaultNeedsOverlap
  BY DEF RegistryInv
<1> QED
  BY <1>1, RegistryKept, PTL

(***************************************************************************)
(* SendPacketToAll reaches every session that stays registered while it    *)
(* runs, and none twice, for any number of slots and of sending threads.   *)
(***************************************************************************)
THEOREM BroadcastsReach == Spec => []BroadcastReaches
<1>1. RegistryInv => BroadcastReaches
  <2> SUFFICES ASSUME RegistryInv, NEW s \in Senders, NEW c \in Conns
               PROVE  /\ reached[s][c] <= 1
                      /\ (spc[s] = "check" /\ si[s] = AfterLast /\ c \in stable[s])
                            => reached[s][c] = 1
    BY DEF BroadcastReaches
  <2>1. reached[s][c] <= 1
    BY DEF RegistryInv, SentBehind, Behind
  <2>2. ASSUME si[s] = AfterLast, c \in stable[s]
        PROVE  reached[s][c] = 1
    <3>1. socketIndex[c] \in Slots
      BY <2>2 DEF RegistryInv, SentBehind, Behind, Settled, TypeOK
    <3>2. socketIndex[c] < si[s]
      BY <2>2, <3>1, SessionsAssumption DEF AfterLast
    <3> QED
      BY <2>2, <3>2 DEF RegistryInv, SentBehind, Behind
  <2> QED
    BY <2>1, <2>2
<1> QED
  BY <1>1, RegistryKept, PTL

-----------------------------------------------------------------------------
(* The refinement of SlotTable. *)

(* A slot has the same holder while its flag and its entry stay, and the   *)
(* entry of the slot just taken is written as its holder.                  *)
LEMMA HolderKept ==
    ASSUME TypeOK, TypeOK', UsedOnce, Attended, SlotsAgree, SlotsAgree', [Next]_vars,
           indexList' = indexList
    PROVE  Holder' = Holder
<1> SUFFICES ASSUME NEW i \in Slots, indexList[i]
             PROVE  (IF rpc = "add2" /\ rindex = i THEN rconn ELSE sessionMap[i])'
                    = IF rpc = "add2" /\ rindex = i THEN rconn ELSE sessionMap[i]
  BY DEF Holder
<1> USE SessionsAssumption
<1>1. CASE AddToMap
  BY <1>1 DEF AddToMap, TypeOK
<1>2. CASE RemoveFromMap
  <2>1. rpc = "rem3" /\ rpc' = "rem4" /\ ~indexList[rindex]
    BY <1>2 DEF RemoveFromMap, SlotsAgree, Adding
  <2> QED
    BY <1>2, <2>1 DEF RemoveFromMap, TypeOK
<1>3. CASE \E s \in Senders : Send(s)
  <2>1. /\ \A j \in Slots : \/ sessionMap'[j] = sessionMap[j]
                            \/ sessionMap[j] = Absent /\ sessionMap'[j] = Null
        /\ UNCHANGED <<rpc, rconn, rindex>>
    BY <1>3, SendersLookUp
  <2>2. AtWork(i) \/ sessionMap[i] \in Conns
    BY DEF SlotsAgree
  <2>3. AtWork(i) => rpc = "add2" \/ sessionMap[i] \in Conns
    BY DEF SlotsAgree, AtWork, Adding
  <2>4. AtWork(i) => rindex = i
    BY DEF AtWork
  <2> QED
    BY <2>1, <2>2, <2>3, <2>4
<1>4. ASSUME NEW c \in Conns, Accept(c) \/ Remove(c)
      PROVE  FALSE
  <2>1. CASE Accept(c)
    BY <2>1 DEF Accept, Lowest, FreeSlots, TypeOK
  <2>2. CASE Remove(c)
    <3>1. /\ socketIndex[c] \in Slots /\ indexList[socketIndex[c]]
          /\ indexList' = [indexList EXCEPT ![socketIndex[c]] = FALSE]
      BY <2>2 DEF Remove, SlotsAgree, AtWork, TypeOK
    <3> QED
      BY <3>1 DEF TypeOK
  <2> QED
    BY <1>4, <2>1, <2>2
<1>5. CASE \/ \E c \in Conns : Knock(c) \/ Leave(c) \/ AcceptOverrun(c)
           \/ AddSocket \/ AddCount \/ RemoveSocket \/ RemoveCount \/ UNCHANGED vars
  <2>1. \/ UNCHANGED sessionMap /\ rpc # "add2" /\ rpc' # "add2"
        \/ UNCHANGED <<sessionMap, receiver>>
    BY <1>5 DEF Knock, Leave, AcceptOverrun, AddSocket, AddCount, RemoveSocket, RemoveCount, vars
  <2> QED
    BY <2>1
<1> QED
  BY <1>1, <1>2, <1>3, <1>4, <1>5 DEF Next, Receive

LEMMA TableStep ==
    ASSUME TypeOK, TypeOK', UsedOnce, Attended, SlotsAgree, SlotsAgree', [Next]_vars
    PROVE  [Table!TableNext]_Holder
<1> USE SessionsAssumption
<1>1. Holder \in [Slots -> Conns \cup {Null, Absent}] /\ Holder' = [i \in Slots |-> Holder'[i]]
  BY DEF Holder, TypeOK
<1>2. ASSUME NEW c \in Conns, Accept(c)
      PROVE  Table!TableNext
  <2>1. PICK i \in Slots : /\ ~indexList[i] /\ \A j \in Slots : ~indexList[j] => i <= j
                           /\ indexList' = [indexList EXCEPT ![i] = TRUE]
                           /\ rindex' = i /\ rconn' = c /\ rpc' = "add2" /\ rpc = "select"
                           /\ socketIndex[c] = Absent /\ sessionMap' = sessionMap
    BY <1>2 DEF Accept, Lowest, FreeSlots, Enters
  <2>2. \A j \in Slots : indexList[j] => sessionMap[j] \in Conns /\ socketIndex[sessionMap[j]] = j
    BY <2>1 DEF SlotsAgree, AtWork
  <2>3. \A j \in Slots : Holder[j] = IF indexList[j] THEN sessionMap[j] ELSE Absent
    BY <2>1 DEF Holder
  <2>4. \A j \in Slots : Holder[j] # c
    BY <2>1, <2>2, <2>3
  <2>5. i \in Table!Free /\ \A j \in Table!Free : i <= j
    BY <2>1, <2>2, <2>3 DEF Table!Free
  <2>6. Holder' = [Holder EXCEPT ![i] = c]
    <3>1. \A j \in Slots : Holder'[j] = IF j = i THEN c ELSE Holder[j]
      BY <2>1, <2>3 DEF Holder, TypeOK
    <3> QED
      BY <1>1, <3>1
  <2>7. Table!Open(i, c)
    BY <2>4, <2>5, <2>6 DEF Table!Open
  <2> QED
    BY <2>7 DEF Table!TableNext
<1>3. ASSUME NEW c \in Conns, Remove(c)
      PROVE  Table!TableNext
  <2> PICK i : i = socketIndex[c]
    OBVIOUS
  <2>1. /\ i \in Slots /\ sessionMap[i] = c /\ rpc = "select" /\ rpc' = "rem2"
        /\ indexList' = [indexList EXCEPT ![i] = FALSE] /\ sessionMap' = sessionMap
    BY <1>3 DEF Remove, Enters, SlotsAgree, TypeOK
  <2>2. indexList[i]
    BY <2>1 DEF SlotsAgree, AtWork
  <2>3. Holder[i] = c
    BY <2>1, <2>2 DEF Holder
  <2>4. Holder' = [Holder EXCEPT ![i] = Absent]
    <3>1. \A j \in Slots : Holder'[j] = IF j = i THEN Absent ELSE Holder[j]
      BY <2>1 DEF Holder, TypeOK
    <3> QED
      BY <1>1, <3>1
  <2>5. Table!Close(i)
    BY <2>3, <2>4 DEF Table!Close, Table!Free
  <2> QED
    BY <2>1, <2>5 DEF Table!TableNext
<1>4. CASE ~(\E c \in Conns : Accept(c) \/ Remove(c))
  <2>1. indexList' = indexList
    BY <1>4 DEF Next, Receive, Send, Knock, Leave, AcceptOverrun, AddToMap, AddSocket, AddCount,
       RemoveSocket, RemoveFromMap, RemoveCount, BeginBroadcast, CheckSlot, UseSlot,
       EndBroadcast, EndSend, BeginSend, vars
  <2> QED
    BY <2>1, HolderKept
<1> QED
  BY <1>2, <1>3, <1>4

(***************************************************************************)
(* AddSession and RemoveSession, seven writes that senders may interrupt,  *)
(* implement a table that gives each connection the lowest free slot and   *)
(* takes it back (SessionNode.h:92-147).                                   *)
(***************************************************************************)
THEOREM RefinesSlotTable == Spec => ImplementsSlotTable
<1>1. Init => Table!TableInit
  BY DEF Init, Table!TableInit, Holder
<1>2. Kept /\ Kept' /\ [Next]_vars => [Table!TableNext]_Holder
  BY TableStep DEF Kept
<1> QED
  BY <1>1, <1>2, InvInit, InvStep, PTL DEF Spec, ImplementsSlotTable, Table!TableSpec

=============================================================================
