------------------------------ MODULE MCLobby -------------------------------
(* Small instances of Lobby for TLC.  Clients are interchangeable. *)
EXTENDS Lobby, TLC

Symmetry == Permutations(Clients)
=============================================================================
