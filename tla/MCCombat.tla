------------------------------ MODULE MCCombat ------------------------------
(* A small instance of Combat for TLC: two tanks; the cfg files give  *)
(* the hits a tank can take and the frames it waits after a death.         *)
EXTENDS Combat, TLC
=============================================================================
