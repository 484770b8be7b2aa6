--------------------------- MODULE MCSessionVerbs ---------------------------
(* SessionVerbs on small sets: two opens at a time, of one bot or of two, and *)
(* one command.                                                               *)
EXTENDS SessionVerbs

CONSTANTS o1, o2, r1, p1, p2
=============================================================================
