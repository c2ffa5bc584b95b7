---------------------------- MODULE MCClientApp -----------------------------
(* Small instances of ClientApp for TLC: the cfg files give the bounds. *)
EXTENDS ClientApp
=============================================================================
