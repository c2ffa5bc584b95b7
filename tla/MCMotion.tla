------------------------------ MODULE MCMotion ------------------------------
(* One thing on a narrow screen: wide enough that a tank wraps at both     *)
(* edges within the inputs a client can have, and that a blending takes    *)
(* several frames.  The longest input takes a tank off the screen for more *)
(* than one wrap.                                                          *)
EXTENDS Motion

MCMoves      == {-3, 0, 1, 5}
MCReads      == {0, 1, 2}
MCTimeDeltas == {1}
=============================================================================
