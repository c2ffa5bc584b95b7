---------------------------- MODULE ProcessList -----------------------------
(***************************************************************************)
(* The list of received packets (CatNet/ProcessSession.h,                  *)
(* ProcessSessionList), shared without a lock by the receive thread, which *)
(* attaches entries, and the thread that handles them: the server's main   *)
(* thread (main.cpp:261-303) or the client's application thread            *)
(* (process_packet.cpp:37-100).                                            *)
(*                                                                         *)
(* Attach and DeleteFirstSession are one step per shared access that       *)
(* matters.  m_Prev is written and never read, so it is left out.  Entries *)
(* are numbered in the order they are attached and memory is not used      *)
(* twice.  A write to freed memory may end the program or do nothing.      *)
(***************************************************************************)
EXTENDS Integers, Sequences

CONSTANT MaxEntries     \* bound: entries ever attached

ASSUME EntriesAssumption == MaxEntries \in Nat \ {0}

Entries == 1 .. MaxEntries
Nil     == 0            \* nullptr

VARIABLES
    head, tail,     \* m_Head, m_Tail
    next,           \* entry -> m_Next
    filled,         \* entries whose index, state and packet are written
    freed,          \* entries that were deleted
    \* the receive thread, in Attach
    ppc,            \* its next step
    session,        \* the entry it attaches; the last one when it is idle
    \* the handling thread
    cpc,            \* its next step
    first,          \* what GetFirstSession returned
    \* outcome and history
    crashed,        \* null dereference, or a write to freed memory that hurt
    handled,        \* entries handled, in order
    ignored,        \* entries seen before they were filled, and lost
    raced           \* the two threads met where they must not (see Meets)

list     == <<head, tail, next, filled, freed>>
producer == <<ppc, session>>
consumer == <<cpc, first>>
outcome  == <<crashed, handled, ignored>>
vars == <<list, producer, consumer, outcome, raced>>

TypeOK ==
    /\ head \in Entries \cup {Nil} /\ tail \in Entries \cup {Nil}
    /\ next \in [Entries -> Entries \cup {Nil}]
    /\ filled \subseteq Entries /\ freed \subseteq Entries
    /\ ppc \in {"idle", "test", "tail", "head", "link", "move", "fill"}
    /\ session \in 0 .. MaxEntries
    /\ cpc \in {"get", "handle", "test", "last", "nohead", "notail", "next"}
    /\ first \in Entries \cup {Nil}
    /\ crashed \in BOOLEAN /\ raced \in BOOLEAN
    /\ handled \in Seq(Entries) /\ ignored \subseteq Entries

Init ==
    /\ head = Nil /\ tail = Nil
    /\ next = [e \in Entries |-> Nil]
    /\ filled = {} /\ freed = {}
    /\ ppc = "idle" /\ session = 0
    /\ cpc = "get" /\ first = Nil
    /\ crashed = FALSE /\ handled = <<>> /\ ignored = {} /\ raced = FALSE

-----------------------------------------------------------------------------
(* Where an overlap can hurt: the handling thread takes the last entry out *)
(* while another one is being linked, or it has an entry that is linked    *)
(* but not filled.                                                         *)
TakesLast == {"last", "nohead", "notail"}
Links     == {"test", "tail", "head", "link", "move"}
Meets(p, c) == p \in Links /\ c \in TakesLast

PStep(pc) == /\ ppc' = pc
             /\ raced' = (raced \/ Meets(pc, cpc))
CStep(pc) == /\ cpc' = pc
             /\ raced' = (raced \/ Meets(ppc, pc))

-----------------------------------------------------------------------------
(* Attach. *)

AttachNew ==
    /\ ~crashed /\ ppc = "idle" /\ session < MaxEntries
    /\ session' = session + 1
    /\ PStep("test")
    /\ UNCHANGED <<list, consumer, outcome>>

(* if (!m_Head) *)
AttachTest ==
    /\ ~crashed /\ ppc = "test"
    /\ PStep(IF head = Nil THEN "tail" ELSE "link")
    /\ UNCHANGED <<list, session, consumer, outcome>>

(* m_Head = m_Tail = session, from the right *)
AttachTail ==
    /\ ~crashed /\ ppc = "tail"
    /\ tail' = session
    /\ PStep("head")
    /\ UNCHANGED <<head, next, filled, freed, session, consumer, outcome>>

AttachHead ==
    /\ ~crashed /\ ppc = "head"
    /\ head' = session
    /\ PStep("fill")
    /\ UNCHANGED <<tail, next, filled, freed, session, consumer, outcome>>

(* m_Tail->m_Next = session *)
NotLinked == next                                   \* (mutant)
Relinked  == [next EXCEPT ![tail] = session]

AttachLink ==
    /\ ~crashed /\ ppc = "link"
    /\ \/ /\ tail \notin freed \cup {Nil}
          /\ next' = Relinked
          /\ UNCHANGED crashed
       \/ /\ tail \in freed
          /\ crashed' \in BOOLEAN
          /\ UNCHANGED next
       \/ /\ tail = Nil
          /\ crashed' = TRUE
          /\ UNCHANGED next
    /\ PStep("move")
    /\ UNCHANGED <<head, tail, filled, freed, session, consumer, handled, ignored>>

(* m_Tail = session *)
AttachMove ==
    /\ ~crashed /\ ppc = "move"
    /\ tail' = session
    /\ PStep("fill")
    /\ UNCHANGED <<head, next, filled, freed, session, consumer, outcome>>

(* Index, address, state and packet are written last.  Up to the packet    *)
(* the entry is not filled: what is handled then is not what was received. *)
AttachFill ==
    /\ ~crashed /\ ppc = "fill"
    /\ IF session \in freed
       THEN crashed' \in BOOLEAN /\ UNCHANGED filled
       ELSE filled' = filled \cup {session} /\ UNCHANGED crashed
    /\ PStep("idle")
    /\ UNCHANGED <<head, tail, next, freed, session, consumer, handled, ignored>>

-----------------------------------------------------------------------------
(* The handling loop. *)

GetFirstSession ==
    /\ ~crashed /\ cpc = "get" /\ head # Nil
    /\ first' = head
    /\ CStep("handle")
    /\ UNCHANGED <<list, producer, outcome>>

(* The switch on m_SessionState: an entry that is not filled has state 0,  *)
(* which is no case, or its packet is still empty.                         *)
Handle ==
    /\ ~crashed /\ cpc = "handle"
    /\ cpc' = "test"
    /\ IF first \in filled
       THEN handled' = Append(handled, first) /\ UNCHANGED <<ignored, raced>>
       ELSE /\ ignored' = ignored \cup {first}
            /\ raced' = TRUE
            /\ UNCHANGED handled
    /\ UNCHANGED <<list, producer, first, crashed>>

(* DeleteFirstSession: m_Head == m_Tail? *)
DeleteTest ==
    /\ ~crashed /\ cpc = "test"
    /\ CStep(IF head = Nil THEN "get" ELSE IF head = tail THEN "last" ELSE "next")
    /\ UNCHANGED <<list, producer, first, outcome>>

DeleteLast ==
    /\ ~crashed /\ cpc = "last"
    /\ freed' = freed \cup {head}
    /\ CStep("nohead")
    /\ UNCHANGED <<head, tail, next, filled, producer, first, outcome>>

DeleteNoHead ==
    /\ ~crashed /\ cpc = "nohead"
    /\ head' = Nil
    /\ CStep("notail")
    /\ UNCHANGED <<tail, next, filled, freed, producer, first, outcome>>

DeleteNoTail ==
    /\ ~crashed /\ cpc = "notail"
    /\ tail' = Nil
    /\ CStep("get")
    /\ UNCHANGED <<head, next, filled, freed, producer, first, outcome>>

(* m_Head = session->m_Next; delete session *)
SameHead == head        \* (mutants)
LastOne  == tail
Second   == next[head]

DeleteNext ==
    /\ ~crashed /\ cpc = "next"
    /\ head' = Second
    /\ freed' = freed \cup {head}
    /\ CStep("get")
    /\ UNCHANGED <<tail, next, filled, producer, first, outcome>>

-----------------------------------------------------------------------------
Attach == \/ AttachNew \/ AttachTest \/ AttachTail \/ AttachHead
          \/ AttachLink \/ AttachMove \/ AttachFill
Take   == \/ GetFirstSession \/ Handle \/ DeleteTest \/ DeleteLast
          \/ DeleteNoHead \/ DeleteNoTail \/ DeleteNext

Next == Attach \/ Take

Spec == Init /\ [][Next]_vars

(* Both threads keep running. *)
FairSpec == Spec /\ WF_vars(Attach) /\ WF_vars(Take)

-----------------------------------------------------------------------------
HandledSet == {handled[k] : k \in DOMAIN handled}

(***************************************************************************)
(* Whatever the two threads do to the list, packets are handled in the     *)
(* order they were received and none is handled twice.                     *)
(***************************************************************************)
HandledInOrder ==
    \A j, k \in DOMAIN handled : j < k => handled[j] < handled[k]

(* Packets received: the entry in Attach is not one yet.                   *)
Complete == session - (IF ppc = "idle" THEN 0 ELSE 1)

(* The links lead from older entries to newer ones, and the head is newer  *)
(* than what was handled, whether or not the threads have met.             *)
Linking == ppc \in {"test", "tail", "head", "link"}
Forward ==
    /\ ppc # "idle" => session > 0
    /\ head <= session /\ tail <= session
    /\ \A e \in filled : e <= Complete
    /\ Linking => head < session
    /\ ppc \in {"test", "tail", "link"} => tail < session
    /\ ppc \in {"tail", "head"} => head = Nil
    /\ \A e \in Entries : next[e] # Nil =>
          e < next[e] /\ next[e] <= session /\ (Linking => next[e] < session)
    /\ cpc \in {"handle", "test", "last", "nohead", "next"} => head = first /\ first # Nil
    /\ \A k \in DOMAIN handled :
          /\ handled[k] <= session /\ (Linking => handled[k] < session)
          /\ head # Nil => handled[k] <= head
          /\ cpc \in {"get", "handle", "notail"} /\ head # Nil => handled[k] < head

(* Until they meet, entries are handled and deleted one after the other    *)
(* from the front of a list that is linked up to the last one.             *)
Removed  == Len(handled) - (IF cpc \in {"test", "last", "next"} THEN 1 ELSE 0)
Linked   == session - (IF Linking THEN 1 ELSE 0)
Last     == IF ppc = "head" THEN session
            ELSE IF Removed = Linked /\ cpc \notin {"nohead", "notail"} THEN Nil
            ELSE IF ppc \in {"test", "link", "move"} THEN session - 1
            ELSE session

Intact ==
    /\ ~crashed /\ ignored = {}
    /\ Len(handled) <= Complete /\ filled = 1 .. Complete
    /\ \A k \in DOMAIN handled : handled[k] = k
    /\ 0 <= Removed /\ Removed <= Linked /\ freed = 1 .. Removed
    /\ \A e \in Entries \ freed : next[e] = IF e < Linked THEN e + 1 ELSE Nil
    /\ head = IF cpc = "nohead" THEN Removed
              ELSE IF Removed = Linked THEN Nil ELSE Removed + 1
    /\ tail = Last
    /\ cpc \in TakesLast => ppc = "idle" /\ Len(handled) = session
    /\ cpc \in {"handle", "test", "last", "next"} => Removed < Linked
    /\ cpc = "next" => head < tail
    /\ ppc \in {"link", "move"} => Removed < session - 1
    /\ ppc \in {"tail", "head"} => Removed = Linked /\ cpc = "get"

(***************************************************************************)
(* The list keeps its types, its pointers among them, and its order        *)
(* (ProcessSession.h:206-249): the inductive invariant behind the          *)
(* refinement.                                                             *)
(***************************************************************************)
ListInv == TypeOK /\ HandledInOrder /\ Forward /\ (~raced => Intact)

(***************************************************************************)
(* The two threads implement PacketQueue with their pointers: unless the   *)
(* last entry is taken out while another is linked, or an entry is seen    *)
(* before it is filled, nothing crashes and packets are handled one after  *)
(* the other; afterwards they still keep their order.  In particular the   *)
(* threads do not disturb each other while two entries are in the list.    *)
(***************************************************************************)
Queue == INSTANCE PacketQueue WITH
            put       <- Complete,
            taken     <- IF handled = <<>> THEN 0 ELSE handled[Len(handled)],
            disturbed <- raced,
            failed    <- crashed
ListImplementsQueue == Queue!QueueSpec

(***************************************************************************)
(* Without such a meeting every packet received is handled in the end.     *)
(***************************************************************************)
HandledUnlessRaced ==
    \A e \in Entries : session = e ~> (raced \/ e \in HandledSet)

(***************************************************************************)
(* "Message Loop. Check any message from server and process."              *)
(* (Client/src/net/process_packet.cpp:35-36): when the loop ends with no   *)
(* message being attached, GetFirstSession has returned each one received, *)
(* be it that it looked at the state and the packet before they were set.  *)
(***************************************************************************)
EveryMessageProcessed ==
    (ppc = "idle" /\ cpc = "get" /\ head = Nil) =>
        HandledSet \cup ignored = 1 .. session
=============================================================================
