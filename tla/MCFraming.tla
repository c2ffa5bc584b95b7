----------------------------- MODULE MCFraming ------------------------------
(* A small instance of Framing for TLC, with the lengths of the packets    *)
(* scaled down: where the code has 4 bytes for an id, 8 written and 37 cut *)
(* for a Disconnect and up to 37 for all others, here an id has 2,         *)
(* Disconnect 3 and 4, another packet 4.  What counts is kept: an id is    *)
(* shorter than what is written of a Disconnect, that is shorter than what *)
(* is cut, and the receive buffer is no multiple of a length.  Which       *)
(* packets of the code the two stand for is in Stands, and the properties  *)
(* below hold the lengths and the fields of Wire against it.               *)
EXTENDS Framing, Wire, TLC

CONSTANTS disconnect, other

MCWireLength  == disconnect :> 3 @@ other :> 4
MCTableLength == disconnect :> 4 @@ other :> 4

Stands == disconnect :> {"S2C_DISCONNECT_CLIENT"}
          @@ other :> Ids \ {"S2C_DISCONNECT_CLIENT"}

(* What TLC shows of the stream holds for the packets of the code: each is *)
(* cut as long as it is written (ClientNetwork.cpp:6-52 and                *)
(* ServerNetwork.cpp:7-35 against the senders and the packed structs), but *)
(* for the Disconnect, of which more is cut.                               *)
CutLonger  == {id \in Ids : SizeOf(Put(id)) < CutLength(id)}
CutShorter == {id \in Ids : SizeOf(Put(id)) > CutLength(id)}
CutAsWritten ==
    \A p \in Attached :
        /\ Stands[kind[p]] \cap CutShorter = {}
        /\ Stands[kind[p]] \cap CutLonger =
              IF WireLength[kind[p]] < TableLength[kind[p]]
              THEN Stands[kind[p]] ELSE {}

(* A packet that was attached carries all that its handler acts on, at the *)
(* place where the handler looks for it and assigned by the sender:        *)
(* neither what a Disconnect leaves out nor what the senders of missiles   *)
(* and tank states leave unset (Server/src/send_packet.cpp:68-76, 134-166) *)
(* is ever used.                                                           *)
Garbled == {id \in Ids : \E field \in Used(id) : ~Arrives(id, field)}
ActsOnWhatWasSent == \A p \in Attached : Stands[kind[p]] \cap Garbled = {}

(* Senders, tables of lengths and handlers agree about every packet        *)
(* (packets_s2c.h:28-131, packets_c2s.h:18-65).                            *)
PacketsAgree == CutAsWritten /\ ActsOnWhatWasSent

Symmetry == Permutations(Senders)
=============================================================================
