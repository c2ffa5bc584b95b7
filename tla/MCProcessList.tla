--------------------------- MODULE MCProcessList ----------------------------
(* Small instances of ProcessList for TLC: the cfg files give the bound. *)
EXTENDS ProcessList
=============================================================================
