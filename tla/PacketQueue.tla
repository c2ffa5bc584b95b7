---------------------------- MODULE PacketQueue -----------------------------
(***************************************************************************)
(* What the way of a packet promises, on the stream and in the list of     *)
(* received packets: each one comes out once, in the order in which they   *)
(* went in, and nothing else does.  Once the way is disturbed packets may  *)
(* be passed over, and something else may come out or the program may end; *)
(* but what comes out keeps its order and comes once.                      *)
(*                                                                         *)
(* Framing and ProcessList implement this specification, each with its own *)
(* notion of what disturbs it.  Lobby, Netcode, Combat and ClientApp take  *)
(* the way for an undisturbed queue.                                       *)
(***************************************************************************)
EXTENDS Naturals

VARIABLES
    put,        \* how many packets went in; they are numbered from 1
    taken,      \* the number of the last one that came out, or 0
    disturbed,
    failed

queueVars == <<put, taken, disturbed, failed>>

QueueInit == put = 0 /\ taken = 0 /\ ~disturbed /\ ~failed

Put == /\ put' = put + 1
       /\ UNCHANGED <<taken, disturbed, failed>>

Take == /\ taken < put
        /\ taken' = taken + 1
        /\ UNCHANGED <<put, disturbed, failed>>

Disturb == /\ disturbed'
           /\ UNCHANGED <<put, taken, failed>>

PassOver == /\ disturbed
            /\ taken' \in taken + 1 .. put
            /\ UNCHANGED <<put, disturbed, failed>>

(* With or without the packet that is just going in. *)
Fail == /\ disturbed /\ failed'
        /\ put' \in {put, put + 1}
        /\ UNCHANGED <<taken, disturbed>>

QueueNext == Put \/ Take \/ Disturb \/ PassOver \/ Fail

QueueSpec == QueueInit /\ [][QueueNext]_queueVars
=============================================================================
