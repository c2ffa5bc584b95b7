------------------------------ MODULE InputLog ------------------------------
(***************************************************************************)
(* What a player is promised about the movement inputs sent on one         *)
(* connection: they move the server's tank one by one, in the order in     *)
(* which they were sent and each once, and what the player is shown as     *)
(* acknowledged is a first part of them that never shrinks.                *)
(*                                                                         *)
(* Netcode implements this specification (see its refinement mapping).     *)
(***************************************************************************)
EXTENDS Naturals, Sequences

VARIABLES
    player,     \* which client process holds the tank, counted from 0
    sent,       \* how many inputs that process has sent: 0 .. sent - 1
    applied,    \* the sequence of inputs that moved the tank
    acked       \* the set of inputs in the state the player was told

logVars == <<player, sent, applied, acked>>

LogInit == player = 0 /\ sent = 0 /\ applied = <<>> /\ acked = {}

LogSend == sent' = sent + 1 /\ UNCHANGED <<player, applied, acked>>

(* The next input, and only that one, moves the tank. *)
LogApply == /\ Len(applied) < sent
            /\ applied' = Append(applied, Len(applied))
            /\ UNCHANGED <<player, sent, acked>>

FirstPart(inputs) ==
    /\ inputs \subseteq {applied[k] : k \in DOMAIN applied}
    /\ \A j, k \in DOMAIN applied :
          j < k /\ applied[k] \in inputs => applied[j] \in inputs

LogAck == /\ FirstPart(acked') /\ acked \subseteq acked'
          /\ UNCHANGED <<player, sent, applied>>

(* Another process takes over the tank: its log starts empty. *)
LogHandOver == /\ player' = player + 1
               /\ sent' = 0 /\ applied' = <<>> /\ acked' = {}

LogNext == LogSend \/ LogApply \/ LogAck \/ LogHandOver

LogSpec == LogInit /\ [][LogNext]_logVars
=============================================================================
