-------------------------- MODULE ProcessListProofs -------------------------
(***************************************************************************)
(* Proofs about ProcessList, for every number of entries ever attached:    *)
(* what the two threads keep whatever they do, and what they keep as long  *)
(* as they do not meet.                                                    *)
(***************************************************************************)
EXTENDS ProcessList, TLAPS, SequenceTheorems

USE DEF Entries, Nil, Relinked, Second, outcome

-----------------------------------------------------------------------------
LEMMA Appended ==
    ASSUME NEW S, NEW s \in Seq(S), NEW e \in S
    PROVE  /\ Append(s, e) \in Seq(S) /\ Len(Append(s, e)) = Len(s) + 1
           /\ Len(s) \in Nat /\ DOMAIN s = 1 .. Len(s)
           /\ DOMAIN Append(s, e) = 1 .. Len(s) + 1
           /\ \A k \in DOMAIN s : s[k] \in S /\ Append(s, e)[k] = s[k]
           /\ Append(s, e)[Len(s) + 1] = e
  BY AppendProperties

(* Handle records the entry it has, or that it came too early. *)
LEMMA Handling ==
    ASSUME TypeOK, Handle, first \in Entries
    PROVE  \/ /\ first \notin filled /\ handled' = handled /\ raced' = TRUE
              /\ ignored' = ignored \cup {first}
           \/ /\ first \in filled /\ handled' \in Seq(Entries)
              /\ UNCHANGED <<ignored, raced>>
              /\ Len(handled) \in Nat /\ DOMAIN handled = 1 .. Len(handled)
              /\ Len(handled') = Len(handled) + 1
              /\ DOMAIN handled' = 1 .. Len(handled) + 1
              /\ \A k \in DOMAIN handled : handled'[k] = handled[k]
              /\ handled'[Len(handled) + 1] = first
<1>1. CASE first \in filled
  <2>1. handled \in Seq(Entries) /\ handled' = Append(handled, first)
        /\ UNCHANGED <<ignored, raced>>
    BY <1>1 DEF Handle, TypeOK
  <2> HIDE DEF Entries
  <2> QED
    BY <1>1, <2>1, Appended
<1>2. CASE first \notin filled
  BY <1>2 DEF Handle
<1> QED
  BY <1>1, <1>2

LEMMA HandledGrows ==
    ASSUME TypeOK, Handle, first \in Entries
    PROVE  \A k \in DOMAIN handled' :
              \/ k = Len(handled) + 1 /\ handled'[k] = first /\ first \in filled
              \/ k \in DOMAIN handled /\ k < Len(handled) + 1 /\ handled'[k] = handled[k]
<1>1. Len(handled) \in Nat /\ DOMAIN handled = 1 .. Len(handled)
  BY DEF TypeOK
<1>2. CASE handled' = handled
  BY <1>1, <1>2
<1>3. CASE handled' # handled
  <2>1. /\ first \in filled /\ DOMAIN handled' = 1 .. Len(handled) + 1
        /\ \A k \in DOMAIN handled : handled'[k] = handled[k]
        /\ handled'[Len(handled) + 1] = first
    BY <1>3, Handling
  <2> QED
    BY <1>1, <2>1
<1> QED
  BY <1>2, <1>3

LEMMA Typed ==
    ASSUME TypeOK
    PROVE  /\ head \in Nat /\ tail \in Nat /\ session \in Nat /\ first \in Nat
           /\ MaxEntries \in Nat
           /\ \A e \in Entries : e \in Nat /\ next[e] \in Nat
           /\ \A k \in DOMAIN handled : handled[k] \in Entries /\ k \in 1 .. Len(handled)
           /\ Len(handled) \in Nat
  BY EntriesAssumption DEF TypeOK

Steps == Forward /\ TypeOK /\ HandledInOrder

LEMMA TypeStep == Steps /\ [Next]_vars => TypeOK'
<1> SUFFICES ASSUME Steps, [Next]_vars
             PROVE  TypeOK'
  OBVIOUS
<1> USE DEF Steps, TypeOK, list, producer, consumer, PStep, CStep, Linking
<1>0. raced' \in BOOLEAN
  BY DEF Next, Attach, Take, AttachNew, AttachTest, AttachTail, AttachHead, AttachLink,
     AttachMove, AttachFill, GetFirstSession, Handle, DeleteTest, DeleteLast,
     DeleteNoHead, DeleteNoTail, DeleteNext, Meets, vars
<1>1. CASE AttachNew
  BY <1>0, <1>1, EntriesAssumption DEF AttachNew
<1>2. CASE AttachTest
  BY <1>0, <1>2 DEF AttachTest
<1>3. CASE AttachTail
  BY <1>0, <1>3, EntriesAssumption DEF AttachTail, Forward
<1>4. CASE AttachHead
  BY <1>0, <1>4, EntriesAssumption DEF AttachHead, Forward
<1>5. CASE AttachLink
  <2>1. session \in Entries
    BY <1>5, EntriesAssumption DEF AttachLink, Forward
  <2>2. next' \in [Entries -> Entries \cup {Nil}] /\ crashed' \in BOOLEAN
    BY <1>5, <2>1 DEF AttachLink
  <2> QED
    BY <1>0, <1>5, <2>2 DEF AttachLink
<1>6. CASE AttachMove
  BY <1>0, <1>6, EntriesAssumption DEF AttachMove, Forward
<1>7. CASE AttachFill
  <2>1. session \in Entries
    BY <1>7, EntriesAssumption DEF AttachFill, Forward
  <2>2. filled' \subseteq Entries /\ crashed' \in BOOLEAN
    BY <1>7, <2>1 DEF AttachFill
  <2> QED
    BY <1>0, <1>7, <2>2 DEF AttachFill
<1>8. CASE GetFirstSession
  BY <1>0, <1>8 DEF GetFirstSession
<1>9. CASE Handle
  <2>1. first \in Entries
    BY <1>9 DEF Handle, Forward
  <2>2. handled' \in Seq(Entries) /\ ignored' \subseteq Entries
    BY <1>9, <2>1, Handling
  <2> QED
    BY <1>0, <1>9, <2>2 DEF Handle
<1>10. CASE DeleteTest
  BY <1>0, <1>10 DEF DeleteTest
<1>11. CASE DeleteLast
  BY <1>0, <1>11 DEF DeleteLast, Forward
<1>12. CASE DeleteNoHead
  BY <1>0, <1>12 DEF DeleteNoHead
<1>13. CASE DeleteNoTail
  BY <1>0, <1>13 DEF DeleteNoTail
<1>14. CASE DeleteNext
  BY <1>0, <1>14 DEF DeleteNext, Forward
<1>15. CASE UNCHANGED vars
  BY <1>15 DEF vars
<1> QED
  BY <1>1, <1>2, <1>3, <1>4, <1>5, <1>6, <1>7, <1>8, <1>9, <1>10, <1>11, <1>12, <1>13,
     <1>14, <1>15 DEF Next, Attach, Take

LEMMA ForwardStep == Steps /\ TypeOK' /\ [Next]_vars => Forward'
<1> SUFFICES ASSUME Steps, TypeOK', [Next]_vars
             PROVE  Forward'
  OBVIOUS
<1> USE Typed DEF Steps, Forward, Complete, list, producer, consumer, PStep, CStep, Linking
<1>1. CASE AttachNew
  BY <1>1 DEF AttachNew
<1>2. CASE AttachTest
  BY <1>2 DEF AttachTest
<1>3. CASE AttachTail
  BY <1>3 DEF AttachTail
<1>4. CASE AttachHead
  BY <1>4 DEF AttachHead
<1>5. CASE AttachLink
  <2>1. \A e \in Entries : next'[e] = next[e] \/ (e = tail /\ next'[e] = session)
    BY <1>5 DEF AttachLink, TypeOK
  <2> QED
    BY <1>5, <2>1 DEF AttachLink
<1>6. CASE AttachMove
  BY <1>6 DEF AttachMove
<1>7. CASE AttachFill
  <2>1. filled' \subseteq filled \cup {session} /\ ppc = "fill" /\ ppc' = "idle"
        /\ UNCHANGED <<head, tail, next, session, consumer, handled>>
    BY <1>7 DEF AttachFill
  <2>2. \A e \in filled' : e <= Complete'
    <3>1. \A e \in filled : e \in Nat
      BY DEF TypeOK
    <3> QED
      BY <2>1, <3>1
  <2> QED
    BY <2>1, <2>2
<1>8. CASE GetFirstSession
  BY <1>8 DEF GetFirstSession
<1>9. CASE Handle
  <2>1. cpc = "handle" /\ head = first /\ first \in Entries
    BY <1>9 DEF Handle, TypeOK
  <2>2. \A k \in DOMAIN handled' :
            handled'[k] = first \/ (k \in DOMAIN handled /\ handled'[k] = handled[k])
    BY <1>9, <2>1, HandledGrows
  <2> QED
    BY <1>9, <2>1, <2>2 DEF Handle
<1>10. CASE DeleteTest
  BY <1>10 DEF DeleteTest
<1>11. CASE DeleteLast
  BY <1>11 DEF DeleteLast
<1>12. CASE DeleteNoHead
  BY <1>12 DEF DeleteNoHead
<1>13. CASE DeleteNoTail
  BY <1>13 DEF DeleteNoTail
<1>14. CASE DeleteNext
  <2>1. /\ cpc = "next" /\ cpc' = "get" /\ head \in Entries /\ head' = next[head]
        /\ UNCHANGED <<tail, next, filled, producer, first, handled>>
    BY <1>14 DEF DeleteNext, TypeOK
  <2>2. head' # Nil => head < head' /\ head' <= session /\ (Linking => head' < session)
    BY <2>1
  <2>3. ppc \in {"tail", "head"} => FALSE
    BY <2>1
  <2>4. \A k \in DOMAIN handled' : handled'[k] <= head
    BY <2>1
  <2> QED
    BY <2>1, <2>2, <2>3, <2>4
<1>15. CASE UNCHANGED vars
  BY <1>15 DEF vars
<1> QED
  BY <1>1, <1>2, <1>3, <1>4, <1>5, <1>6, <1>7, <1>8, <1>9, <1>10, <1>11, <1>12, <1>13,
     <1>14, <1>15 DEF Next, Attach, Take

LEMMA OrderStep == Steps /\ [Next]_vars => HandledInOrder'
<1> SUFFICES ASSUME Steps, [Next]_vars
             PROVE  HandledInOrder'
  OBVIOUS
<1> USE DEF Steps, HandledInOrder
<1>1. CASE Handle
  <2>1. CASE first \in filled
    <3>1. handled' = Append(handled, first) /\ first \in Entries
      BY <1>1, <2>1 DEF Handle, TypeOK
    <3>2. \A k \in DOMAIN handled : handled[k] < first
      BY <1>1 DEF Handle, Forward
    <3>3. \A k \in DOMAIN handled' :
              \/ k = Len(handled) + 1 /\ handled'[k] = first
              \/ k \in DOMAIN handled /\ k < Len(handled) + 1 /\ handled'[k] = handled[k]
      BY <1>1, <3>1, HandledGrows
    <3>4. \A k \in DOMAIN handled : handled[k] \in Nat
      BY Typed
    <3> QED
      BY <3>1, <3>2, <3>3, <3>4, Typed
  <2>2. CASE first \notin filled
    BY <1>1, <2>2 DEF Handle
  <2> QED
    BY <2>1, <2>2
<1>2. CASE ~Handle
  BY <1>2 DEF Next, Attach, Take, AttachNew, AttachTest, AttachTail, AttachHead, AttachLink,
     AttachMove, AttachFill, GetFirstSession, DeleteTest, DeleteLast, DeleteNoHead,
     DeleteNoTail, DeleteNext, vars
<1> QED
  BY <1>1, <1>2

LEMMA IntactStep ==
    ASSUME Steps, ~raced => Intact, TypeOK', Forward', [Next]_vars, ~raced'
    PROVE  Intact'
<1>0. ~raced /\ Intact
  BY DEF Next, Attach, Take, AttachNew, AttachTest, AttachTail, AttachHead, AttachLink,
     AttachMove, AttachFill, GetFirstSession, Handle, DeleteTest, DeleteLast,
     DeleteNoHead, DeleteNoTail, DeleteNext, vars, PStep, CStep, Steps, TypeOK
<1> USE <1>0, Typed DEF Steps, Forward, list, producer, consumer, PStep, CStep, Linking, Meets,
    Links, TakesLast, Intact, Removed, Linked, Complete, Last
<1>1. CASE AttachNew
  <2>1. /\ ppc = "idle" /\ ppc' = "test" /\ session' = session + 1
        /\ cpc \notin {"last", "nohead", "notail"}
        /\ UNCHANGED <<list, consumer, crashed, handled, ignored>>
    BY <1>1 DEF AttachNew
  <2>2. Removed' = Removed
    BY <2>1
  <2>3. Linked' = Linked /\ Complete' = Complete
    BY <2>1
  <2>4. Last' = Last
    BY <2>1, <2>2, <2>3
  <2> HIDE DEF Removed, Linked, Complete, Last
  <2> QED
    BY <2>1, <2>2, <2>3, <2>4
<1>2. CASE AttachTest
  BY <1>2 DEF AttachTest, TypeOK
<1>3. CASE AttachTail
  BY <1>3 DEF AttachTail, TypeOK
<1>4. CASE AttachHead
  BY <1>4 DEF AttachHead, TypeOK
<1>5. CASE AttachLink
  <2>1. /\ ppc = "link" /\ ppc' = "move" /\ cpc \notin {"last", "nohead", "notail"}
        /\ tail = session - 1 /\ Removed < tail
    BY <1>5 DEF AttachLink
  <2>2. tail \in Entries \ freed
    BY <2>1 DEF TypeOK
  <2>3. next' = [next EXCEPT ![tail] = session]
        /\ UNCHANGED <<head, tail, filled, freed, session, cpc, first, handled, ignored, crashed>>
    BY <1>5, <2>2 DEF AttachLink
  <2>4. /\ Removed' = Removed /\ Linked' = Linked + 1 /\ Complete' = Complete
        /\ Last' = Last /\ Linked = session - 1
    BY <2>1, <2>3
  <2>5. \A e \in Entries \ freed : next'[e] = IF e < session THEN e + 1 ELSE Nil
    <3> TAKE e \in Entries \ freed
    <3>1. next'[e] = IF e = tail THEN session ELSE next[e]
      BY <2>3 DEF TypeOK
    <3>2. next[e] = IF e < session - 1 THEN e + 1 ELSE Nil
      BY <2>4
    <3> QED
      BY <2>1, <3>1, <3>2
  <2>6. Removed \in Int /\ Linked' = session /\ Removed < session
    BY <2>1, <2>4
  <2> HIDE DEF Removed, Linked, Complete, Last
  <2>7. head' = IF cpc' = "nohead" THEN Removed'
                ELSE IF Removed' = Linked' THEN Nil ELSE Removed' + 1
    BY <2>1, <2>3, <2>4, <2>6
  <2>8. Len(handled') <= Complete' /\ filled' = 1 .. Complete' /\ freed' = 1 .. Removed'
    BY <2>3, <2>4
  <2>9. \A e \in Entries \ freed' : next'[e] = IF e < Linked' THEN e + 1 ELSE Nil
    BY <2>3, <2>5, <2>6
  <2>10. UNCHANGED <<head, tail, freed, session, cpc, first, handled, ignored, crashed>>
    BY <2>3
  <2>11. /\ 0 <= Removed' /\ Removed' <= Linked' /\ tail' = Last'
         /\ \A k \in DOMAIN handled' : handled'[k] = k
    BY <2>4, <2>6, <2>10
  <2>12. /\ cpc' \in TakesLast => ppc' = "idle" /\ Len(handled') = session'
         /\ cpc' \in {"handle", "test", "last", "next"} => Removed' < Linked'
         /\ cpc' = "next" => head' < tail'
         /\ Removed' < session' - 1
    BY <2>1, <2>4, <2>6, <2>10
  <2> QED
    BY <2>1, <2>7, <2>8, <2>9, <2>10, <2>11, <2>12
<1>6. CASE AttachMove
  BY <1>6 DEF AttachMove, TypeOK
<1>7. CASE AttachFill
  <2>1. /\ ppc = "fill" /\ ppc' = "idle" /\ cpc \notin {"last", "nohead", "notail"}
        /\ session > 0 /\ Removed < session
    BY <1>7 DEF AttachFill
  <2>2. session \notin freed
    BY <2>1
  <2>3. filled' = filled \cup {session}
        /\ UNCHANGED <<head, tail, next, freed, session, cpc, first, handled, ignored, crashed>>
    BY <1>7, <2>2 DEF AttachFill
  <2>4. /\ Removed' = Removed /\ Linked' = Linked /\ Complete' = session
        /\ Last' = Last /\ Complete = session - 1
    BY <2>1, <2>3
  <2>5. filled' = 1 .. session
    BY <2>1, <2>3, <2>4
  <2> HIDE DEF Removed, Linked, Complete, Last
  <2> QED
    BY <2>1, <2>3, <2>4, <2>5
<1>8. CASE GetFirstSession
  BY <1>8 DEF GetFirstSession, TypeOK
<1>9. CASE Handle
  <2>1. /\ cpc = "handle" /\ cpc' = "test" /\ first = head /\ first \in Entries
        /\ UNCHANGED <<list, producer, first, crashed>>
        /\ Removed = Len(handled) /\ head = Len(handled) + 1
    BY <1>9 DEF Handle, TypeOK
  <2>2. /\ first \in filled /\ UNCHANGED ignored
        /\ Len(handled') = Len(handled) + 1
        /\ \A k \in DOMAIN handled' : handled'[k] = k
    BY <1>9, <2>1, Handling, HandledGrows
  <2>3. /\ Removed' = Removed /\ Linked' = Linked /\ Complete' = Complete /\ Last' = Last
    BY <2>1, <2>2
  <2> HIDE DEF Removed, Linked, Complete, Last
  <2> QED
    BY <2>1, <2>2, <2>3
<1>10. CASE DeleteTest
  <2>1. /\ cpc = "test" /\ head # Nil /\ cpc' = IF head = tail THEN "last" ELSE "next"
        /\ UNCHANGED <<list, producer, first, crashed, handled, ignored>>
        /\ Removed = Len(handled) - 1 /\ head = Removed + 1 /\ Removed < Linked
    BY <1>10 DEF DeleteTest
  <2>2. /\ Removed' = Removed /\ Linked' = Linked /\ Complete' = Complete /\ Last' = Last
    BY <2>1
  <2>3. head # tail => head < tail
    BY <2>1
  <2>4. head = tail => ppc = "idle" /\ Len(handled) = session
    <3> SUFFICES ASSUME head = tail
                 PROVE  ppc = "idle" /\ Len(handled) = session
      OBVIOUS
    <3>1. ppc \in {"idle", "fill"}
      BY <1>10, <2>1 DEF DeleteTest, TypeOK
    <3>2. tail = session
      BY <2>1, <3>1
    <3> QED
      BY <2>1, <3>1, <3>2
  <2> HIDE DEF Removed, Linked, Complete, Last
  <2> QED
    BY <2>1, <2>2, <2>3, <2>4
<1>11. CASE DeleteLast
  BY <1>11 DEF DeleteLast, TypeOK
<1>12. CASE DeleteNoHead
  BY <1>12 DEF DeleteNoHead, TypeOK
<1>13. CASE DeleteNoTail
  BY <1>13 DEF DeleteNoTail, TypeOK
<1>14. CASE DeleteNext
  <2>1. /\ cpc = "next" /\ cpc' = "get" /\ head' = next[head] /\ freed' = freed \cup {head}
        /\ UNCHANGED <<tail, next, filled, producer, first, crashed, handled, ignored>>
        /\ Removed = Len(handled) - 1 /\ head = Removed + 1 /\ head < tail
    BY <1>14 DEF DeleteNext
  <2>2. /\ Removed' = Removed + 1 /\ Linked' = Linked /\ Complete' = Complete
        /\ freed' = 1 .. Removed'
    BY <2>1
  <2>3. head \in Entries \ freed /\ tail <= Linked /\ head' = head + 1
    BY <2>1 DEF TypeOK
  <2>4. /\ Last' = Last /\ Removed' < Linked' /\ Removed \in Int /\ Linked \in Int
        /\ ppc \in {"link", "move"} => Removed + 1 < session - 1
    BY <2>1, <2>2, <2>3
  <2> HIDE DEF Removed, Linked, Complete, Last
  <2> QED
    BY <2>1, <2>2, <2>3, <2>4
<1>15. CASE UNCHANGED vars
  BY <1>15 DEF vars
<1> QED
  BY <1>1, <1>2, <1>3, <1>4, <1>5, <1>6, <1>7, <1>8, <1>9, <1>10, <1>11, <1>12, <1>13, <1>14, <1>15 DEF Next, Attach, Take


LEMMA ListInit == Init => ListInv
<1> SUFFICES ASSUME Init PROVE ListInv
  OBVIOUS
<1>1. Len(handled) = 0 /\ DOMAIN handled = {} /\ handled \in Seq(Entries)
  BY DEF Init
<1>2. /\ head = Nil /\ tail = Nil /\ next = [e \in Entries |-> Nil]
      /\ filled = {} /\ freed = {} /\ ppc = "idle" /\ session = 0 /\ cpc = "get"
      /\ first = Nil /\ ~crashed /\ ignored = {}
  BY DEF Init
<1>3. crashed \in BOOLEAN /\ raced \in BOOLEAN
  BY DEF Init
<1>4. TypeOK /\ HandledInOrder
  BY <1>1, <1>2, <1>3, EntriesAssumption DEF TypeOK, HandledInOrder
<1>5. Forward
  BY <1>1, <1>2, EntriesAssumption DEF Forward, Complete, Linking
<1>6. Removed = 0 /\ Linked = 0 /\ Complete = 0
  <2>1. Removed = Len(handled) - 0 /\ Linked = session - 0 /\ Complete = session - 0
    BY <1>2 DEF Removed, Linked, Complete, Linking
  <2> QED
    BY <1>1, <1>2, <2>1
<1>7. Last = Nil
  BY <1>2, <1>6 DEF Last
<1>8. Intact
  BY <1>1, <1>2, <1>6, <1>7, EntriesAssumption DEF Intact, TakesLast
<1> QED
  BY <1>4, <1>5, <1>8 DEF ListInv

LEMMA ListStep == ListInv /\ [Next]_vars => ListInv'
<1> SUFFICES ASSUME ListInv, [Next]_vars
             PROVE  ListInv'
  OBVIOUS
<1>1. Steps /\ (~raced => Intact)
  BY DEF ListInv, Steps
<1>2. TypeOK' /\ Forward' /\ HandledInOrder'
  BY <1>1, TypeStep, ForwardStep, OrderStep
<1>3. ~raced' => Intact'
  BY <1>1, <1>2, IntactStep
<1> QED
  BY <1>2, <1>3 DEF ListInv

(***************************************************************************)
(* Whatever the threads do to the list, its links lead from older packets  *)
(* to newer ones and packets are handled in the order they came; until the *)
(* threads meet, the list is linked from its head to the last entry        *)
(* (ProcessSession.h:206-249).                                             *)
(***************************************************************************)
THEOREM ListKept == Spec => []ListInv
  BY ListInit, ListStep, PTL DEF Spec

(***************************************************************************)
(* Refinement of PacketQueue: receiving a packet is the end of Attach,     *)
(* handling it the switch; every other step is a stutter, or the meeting   *)
(* of the threads.                                                         *)
(***************************************************************************)
LastHandled == IF handled = <<>> THEN 0 ELSE handled[Len(handled)]

(* Where only pointers change, the queue does not, or it is disturbed. *)
LEMMA PointerStep ==
    ASSUME ListInv, ~crashed, UNCHANGED <<handled, crashed, Complete>>,
           raced' \in BOOLEAN, raced => raced'
    PROVE  [Queue!QueueNext]_(Queue!queueVars)
<1>1. CASE raced'
  BY <1>1 DEF Queue!QueueNext, Queue!Disturb
<1>2. CASE ~raced'
  BY <1>2 DEF ListInv, TypeOK, Queue!queueVars
<1> QED
  BY <1>1, <1>2

LEMMA RefineInit == Init => Queue!QueueInit
<1> SUFFICES ASSUME Init PROVE Queue!QueueInit
  OBVIOUS
<1>1. handled = <<>> /\ Complete = 0 /\ ~raced /\ ~crashed
  BY DEF Init, Complete
<1> QED
  BY <1>1 DEF Queue!QueueInit

LEMMA RefineStep ==
    ListInv /\ ListInv' /\ [Next]_vars => [Queue!QueueNext]_(Queue!queueVars)
<1> SUFFICES ASSUME ListInv, ListInv', [Next]_vars
             PROVE  [Queue!QueueNext]_(Queue!queueVars)
  OBVIOUS
<1>1. CASE AttachFill
  <2>1. Complete' = Complete + 1 /\ UNCHANGED <<handled, raced>> /\ ~crashed
    BY <1>1 DEF AttachFill, PStep, Complete, Meets, Links, consumer, ListInv, TypeOK
  <2>2. CASE crashed' = crashed
    BY <2>1, <2>2 DEF Queue!QueueNext, Queue!Put
  <2>3. CASE crashed' # crashed
    <3>1. crashed' /\ raced
      BY <2>1, <2>3 DEF ListInv, TypeOK, Intact
    <3> QED
      BY <2>1, <3>1 DEF Queue!QueueNext, Queue!Fail
  <2> QED
    BY <2>2, <2>3
<1>2. CASE AttachLink
  <2>1. UNCHANGED <<handled, Complete>> /\ ~crashed /\ raced' \in BOOLEAN /\ (raced => raced')
    BY <1>2 DEF AttachLink, PStep, Complete, ListInv, TypeOK
  <2>2. CASE crashed' = crashed
    BY <2>1, <2>2, PointerStep
  <2>3. CASE crashed' # crashed
    <3>1. crashed' /\ raced'
      BY <2>1, <2>3 DEF ListInv, TypeOK, Intact
    <3>2. raced
      <4> SUFFICES ASSUME ~raced PROVE FALSE
        BY DEF ListInv, TypeOK
      <4>1. Intact /\ ppc = "link" /\ session \in Nat /\ Removed < session - 1
        BY <1>2, Typed DEF AttachLink, ListInv, Intact
      <4>2. tail = session - 1 /\ cpc \notin {"nohead", "notail"}
        BY <4>1 DEF Intact, Last, Linked, Linking, TakesLast
      <4>3. freed = 1 .. Removed /\ 0 <= Removed /\ Removed \in Int
        BY <4>1, Typed DEF Intact, Removed, ListInv
      <4>4. tail \notin freed \cup {Nil}
        BY <4>1, <4>2, <4>3
      <4> QED
        BY <1>2, <2>3, <4>4 DEF AttachLink
    <3> QED
      BY <2>1, <3>1, <3>2 DEF Queue!QueueNext, Queue!Fail
  <2> QED
    BY <2>2, <2>3
<1>3. CASE Handle
  <2> DEFINE n == Len(handled)
  <2>1. /\ first \in Entries /\ first = head /\ ~crashed
        /\ UNCHANGED <<crashed, Complete>>
    BY <1>3 DEF Handle, ListInv, Forward, TypeOK, Complete, producer
  <2>2. CASE first \notin filled
    BY <1>3, <2>1, <2>2, PointerStep DEF Handle
  <2>3. CASE first \in filled
    <3>1. /\ n \in Nat /\ handled \in Seq(Entries) /\ DOMAIN handled = 1 .. n
          /\ handled' = Append(handled, first) /\ UNCHANGED raced
      BY <1>3, <2>3 DEF Handle, ListInv, TypeOK
    <3>2. Len(handled') = n + 1 /\ handled'[n + 1] = first /\ handled' # <<>>
      BY <2>1, <3>1
    <3>3. LastHandled' = first
      BY <3>2 DEF LastHandled
    <3>4. first <= Complete
      BY <2>3 DEF ListInv, Forward
    <3>5. LastHandled < first /\ LastHandled \in Nat
      <4>1. CASE handled = <<>>
        BY <2>1, <4>1 DEF LastHandled
      <4>2. CASE handled # <<>>
        <5>1. n \in DOMAIN handled
          BY <3>1, <4>2
        <5>2. handled[n] < head /\ handled[n] \in Nat
          BY <1>3, <2>1, <5>1, Typed DEF Handle, ListInv, Forward
        <5> QED
          BY <2>1, <4>2, <5>2 DEF LastHandled
      <4> QED
        BY <4>1, <4>2
    <3>6. ~raced => first = LastHandled + 1
      <4> SUFFICES ASSUME ~raced PROVE first = LastHandled + 1
        OBVIOUS
      <4>1. first = n + 1 /\ \A k \in DOMAIN handled : handled[k] = k
        <5>1. Intact /\ cpc = "handle"
          BY <1>3 DEF Handle, ListInv
        <5>2. Removed = n /\ Linked \in Int
          BY <3>1, <5>1, Typed DEF Removed, Linked, ListInv
        <5>3. /\ Removed < Linked /\ head = IF Removed = Linked THEN Nil ELSE Removed + 1
              /\ \A k \in DOMAIN handled : handled[k] = k
          BY <5>1 DEF Intact
        <5>4. first = Removed + 1
          <6> HIDE DEF Removed, Linked, n
          <6> QED
            BY <2>1, <3>1, <5>2, <5>3
        <5> QED
          BY <5>2, <5>3, <5>4
      <4>2. LastHandled = n
        BY <3>1, <4>1 DEF LastHandled
      <4> QED
        BY <4>1, <4>2
    <3>7. Complete \in Int /\ raced \in BOOLEAN
      BY Typed DEF Complete, ListInv, TypeOK
    <3>8. CASE raced
      <4>1. Queue!PassOver
        BY <2>1, <3>1, <3>3, <3>4, <3>5, <3>7, <3>8 DEF Queue!PassOver, LastHandled
      <4> QED
        BY <2>1, <4>1 DEF Queue!QueueNext
    <3>9. CASE ~raced
      <4>1. Queue!Take
        BY <2>1, <3>1, <3>3, <3>4, <3>5, <3>6, <3>7, <3>9 DEF Queue!Take, LastHandled
      <4> QED
        BY <2>1, <4>1 DEF Queue!QueueNext
    <3> QED
      BY <3>8, <3>9
  <2> QED
    BY <2>2, <2>3
<1>4. CASE ~(AttachFill \/ AttachLink \/ Handle)
  <2>1. CASE Next
    <3> USE DEF PStep, CStep, Complete, producer, ListInv, TypeOK
    <3>1. ~crashed /\ UNCHANGED <<handled, crashed, Complete>> /\ (raced => raced')
      <4>1. CASE AttachNew
        BY <4>1 DEF AttachNew
      <4>2. CASE AttachTest \/ AttachTail \/ AttachHead \/ AttachMove
        BY <4>2 DEF AttachTest, AttachTail, AttachHead, AttachMove
      <4>3. CASE Take /\ ~Handle
        BY <4>3 DEF Take, GetFirstSession, DeleteTest, DeleteLast, DeleteNoHead,
           DeleteNoTail, DeleteNext
      <4> QED
        BY <1>4, <2>1, <4>1, <4>2, <4>3 DEF Next, Attach
    <3>2. raced' \in BOOLEAN
      BY DEF ListInv, TypeOK
    <3> QED
      BY <3>1, <3>2, PointerStep
  <2>2. CASE UNCHANGED vars
    BY <2>2 DEF vars, producer, Complete, Queue!queueVars
  <2> QED
    BY <2>1, <2>2
<1> QED
  BY <1>1, <1>2, <1>3, <1>4

(***************************************************************************)
(* The list with its pointers and two threads is the queue that the other  *)
(* models take it for, as long as the threads do not meet at the last      *)
(* entry or at one that is not filled, and keeps the order of the packets  *)
(* ever after (ProcessSession.h:206-249, main.cpp:261-303).                *)
(***************************************************************************)
THEOREM ListRefinesQueue == Spec => ListImplementsQueue
<1>1. ListInv /\ [Next]_vars => [Queue!QueueNext]_(Queue!queueVars)
  BY ListStep, RefineStep
<1> QED
  BY <1>1, RefineInit, ListKept, PTL DEF Spec, ListImplementsQueue, Queue!QueueSpec
=============================================================================
