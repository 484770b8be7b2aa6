---------------------------- MODULE MCSupervisor ----------------------------
(* Supervisor on small sets.  One task runs the exported verbs, one after the *)
(* other, against the supervisors they spawned: two supervisor identities let *)
(* a second one exist if the flag fails to prevent it, and a connection       *)
(* identity is needed for the client and for each process that can hold one.  *)
(* Verbs that overlap verbs are what SupervisorProofs covers, for any number. *)
EXTENDS Supervisor

=============================================================================
