--------------------------- MODULE MCGatewayClient ---------------------------
(* One connection with one call, and two events over a ring of one.  Calls    *)
(* meet only in the map that close_terminal drains, each under its own id,    *)
(* and in the first-come writer queue; a subscriber that has read neither     *)
(* event has lost the first.                                                  *)
EXTENDS GatewayClient

=============================================================================
