--------------------------- MODULE MCApprovalCards ---------------------------
(* ApprovalCards for TLC: one request, which is an approval or a              *)
(* clarification, one answer call and two connections, with a pass of the     *)
(* supervisor on each: a card may be re-emitted on the first, and removed     *)
(* with its transcript, by a rebuild or an open, before the second.           *)
EXTENDS ApprovalCards

=============================================================================
