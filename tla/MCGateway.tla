----------------------------- MODULE MCGateway ------------------------------
(* Gateway on small sets: two connections that may serve one session, and two *)
(* turns, so that one may be started while an interrupted one still sends.    *)
EXTENDS Gateway

CONSTANTS c1, c2, k1, k2, t1, t2
=============================================================================
