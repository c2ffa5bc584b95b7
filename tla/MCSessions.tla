----------------------------- MODULE MCSessions -----------------------------
(* A small instance of Sessions for TLC.  Connections are interchangeable. *)
EXTENDS Sessions, TLC

Symmetry == Permutations(Conns) \cup Permutations(Senders)
=============================================================================
