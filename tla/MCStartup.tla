----------------------------- MODULE MCStartup ------------------------------
(* A small instance of Startup for TLC: two clients, two slots and a game  *)
(* for one, so that a client can be refused and a slot given again.        *)
EXTENDS Startup
=============================================================================
