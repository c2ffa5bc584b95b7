----------------------------- MODULE MCNetcode ------------------------------
(* Small instances of Netcode for TLC: the cfg files give the bounds. *)
EXTENDS Netcode
=============================================================================
