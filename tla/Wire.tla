-------------------------------- MODULE Wire --------------------------------
(***************************************************************************)
(* What the packets are made of: the packed structs of packets_s2c.h and   *)
(* packets_c2s.h, what each sender puts into a PacketMessage (operator <<  *)
(* copies sizeof(T) bytes behind the last ones), what the receiver takes   *)
(* for the packet (s2cSize, c2sSize) and which fields its handler uses     *)
(* (operator >> copies sizeof(T) bytes from the read position).            *)
(*                                                                         *)
(* A layout is the sequence of the fields with their sizes in bytes.  Both *)
(* programs are built from the same headers by the same compiler, so the   *)
(* order of the bytes in a field does not matter.  The module has no       *)
(* state: MCFraming says which packet of Framing stands for which ids.     *)
(***************************************************************************)
EXTENDS Integers, Sequences, SequencesExt, TLC

Fields(names, size) ==
    [i \in DOMAIN names |-> [name |-> names[i], size |-> size]]
Four(names)         == Fields(names, 4)     \* int, int32_t, float
Byte(names)         == Fields(names, 1)     \* int8_t, bool
Pad(size)           == Fields(<<"pad">>, size)

SizeOf(layout) == FoldLeft(LAMBDA n, f : n + f.size, 0, layout)

(* Where a field is and how long; a layout has no two of one name but pads. *)
Place(layout, name) ==
    LET i == CHOOSE i \in DOMAIN layout : layout[i].name = name
    IN  <<SizeOf(SubSeq(layout, 1, i - 1)), layout[i].size>>

-----------------------------------------------------------------------------
BASE      == Four(<<"client_id">>)
INPUTBASE == Byte(<<"user_id">>) \o Four(<<"sequence_id", "frameTime">>)
ClientPos == BASE \o Four(<<"x", "y">>) \o Pad(21)

S2C ==
  [S2C_WELCOMEMESSAGE    |-> BASE \o Pad(29),
   S2C_FULLGAME          |-> BASE \o Pad(29),
   S2C_ENTERGAMEOK       |-> <<>>,
   S2C_NEW_CLIENT        |-> ClientPos,
   S2C_OLD_CLIENT        |-> ClientPos,
   S2C_DISCONNECT_CLIENT |-> BASE \o Pad(29),
   S2C_TANKMOVEMENT      |-> BASE \o Four(<<"sequence_id", "x", "y", "w",
                                            "vx", "vy">>) \o Pad(5),
   S2C_TANKTURRET        |-> BASE \o Four(<<"sequence_id", "angle">>)
                             \o Pad(21),
   S2C_MISSILE           |-> BASE \o Four(<<"sequence_id">>) \o Byte(<<"alive">>)
                             \o Four(<<"missile_id", "x", "y", "w", "vx", "vy">>),
   S2C_TANKSTATE         |-> BASE \o Four(<<"sequence_id">>) \o Byte(<<"active">>)
                             \o Four(<<"hp", "score">>) \o Pad(16),
   S2C_CLICKSTART        |-> BASE \o Byte(<<"active">>) \o Pad(28)]

C2S ==
  [C2S_ENTERGAME    |-> Byte(<<"user_id">>)
                        \o Four(<<"x", "y", "sprite_size_x", "sprite_size_y">>)
                        \o Pad(8),
   C2S_TANKMOVEMENT |-> INPUTBASE \o Byte(<<"rotate", "throttle">>),
   C2S_TANKTURRET   |-> INPUTBASE \o Four(<<"angle">>) \o Byte(<<"missile_shot">>),
   C2S_DISCONNECT   |-> Byte(<<"user_id">>),
   C2S_CLICKSTART   |-> Byte(<<"user_id", "active">>)]

Ids        == DOMAIN S2C \cup DOMAIN C2S
Struct(id) == IF id \in DOMAIN S2C THEN S2C[id] ELSE C2S[id]
Header     == Four(<<"id">>)

-----------------------------------------------------------------------------
(* The senders.  A Disconnect is the bare session id (send_packet.cpp:75), *)
(* all others are a struct.  The pads and the sequence_id of missiles and  *)
(* of tank states are never assigned: what was on the stack is sent.       *)

ToClient(id) ==
    Header \o IF id = "S2C_DISCONNECT_CLIENT" THEN BASE ELSE S2C[id]
ToServer(id) == Header \o C2S[id]
Put(id)      == IF id \in DOMAIN S2C THEN ToClient(id) ELSE ToServer(id)

Unset(id) ==
    {"pad"} \cup IF id \in {"S2C_MISSILE", "S2C_TANKSTATE"}
                 THEN {"sequence_id"} ELSE {}

(* What the receive loops take for the packet, besides the id. *)

(* (mutant) the switch lacks the case of TANKSTATE, and ends with -1 *)
s2cSizeNoTankState(id) ==
    IF id = "S2C_TANKSTATE" THEN 0 - 1 ELSE SizeOf(S2C[id])

s2cSize(id) == SizeOf(S2C[id])
c2sSize(id) == SizeOf(C2S[id])
CutLength(id) ==
    SizeOf(Header) + IF id \in DOMAIN S2C THEN s2cSize(id) ELSE c2sSize(id)

(* What the handlers act on.  The server goes by the session and not by    *)
(* user_id; ENTERGAMEOK and FULLGAME count by their id alone.  That        *)
(* ClickedStart is followed by UpdateMissile, which reads behind the       *)
(* packet, is in ClientApp.                                                *)
UsedToJoin ==
    [S2C_WELCOMEMESSAGE    |-> {"client_id"},
     S2C_NEW_CLIENT        |-> {"client_id", "x", "y"},
     S2C_OLD_CLIENT        |-> {"client_id", "x", "y"},
     S2C_DISCONNECT_CLIENT |-> {"client_id"}]

UsedToMove ==
    [S2C_TANKMOVEMENT |-> {"client_id", "sequence_id", "x", "y", "w", "vx", "vy"},
     S2C_TANKTURRET   |-> {"client_id", "sequence_id", "angle"}]

UsedToPlay ==
    [S2C_CLICKSTART |-> {"client_id", "active"},
     S2C_MISSILE    |-> {"client_id", "alive", "missile_id", "x", "y", "w",
                         "vx", "vy"},
     S2C_TANKSTATE  |-> {"client_id", "active", "hp", "score"}]

UsedByServer ==
    [C2S_ENTERGAME    |-> {"x", "y", "sprite_size_x", "sprite_size_y"},
     C2S_TANKMOVEMENT |-> {"sequence_id", "rotate", "throttle", "frameTime"},
     C2S_TANKTURRET   |-> {"sequence_id", "angle", "missile_shot"},
     C2S_CLICKSTART   |-> {"active"}]

Uses     == UsedToJoin @@ UsedToMove @@ UsedToPlay @@ UsedByServer
Used(id) == IF id \in DOMAIN Uses THEN Uses[id] ELSE {}

(* The handler of id finds in field what its sender assigned to it. *)
Arrives(id, field) ==
    /\ field \notin Unset(id)
    /\ Place(Put(id), field) = Place(Header \o Struct(id), field)
=============================================================================
