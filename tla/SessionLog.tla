----------------------------- MODULE SessionLog ------------------------------
(***************************************************************************)
(* What a gateway promises of its sessions, and all that the app's resume  *)
(* and replay rely on: the events of a session form a log that only grows  *)
(* at its end, an event's number is its place in the log, and the log goes *)
(* with the session.  A session that is busy stops being so by its turn's  *)
(* end, by an interrupt (which the log tells of), or with the session.     *)
(***************************************************************************)
EXTENDS Naturals, Sequences

CONSTANTS
  Sids,
  Events,
  Gone,         \* in place of a log: there is no such session
  Interrupted   \* the event that tells of an interrupt

VARIABLES log, busy

vars == <<log, busy>>

Init == log = [s \in Sids |-> Gone] /\ busy = [s \in Sids |-> FALSE]

\* A session is made: by session.create, which may reuse an id, or by the
\* first request that names it.
Make(s) ==
  /\ log'  = [log EXCEPT ![s] = << >>]
  /\ busy' = [busy EXCEPT ![s] = FALSE]

Grow(s, e) ==
  /\ log[s] # Gone
  /\ log' = [log EXCEPT ![s] = Append(@, e)]
  /\ UNCHANGED busy

Start(s) ==
  /\ ~busy[s]
  /\ log'  = [log EXCEPT ![s] = IF @ = Gone THEN << >> ELSE @]
  /\ busy' = [busy EXCEPT ![s] = TRUE]

Finish(s) ==
  /\ busy[s]
  /\ busy' = [busy EXCEPT ![s] = FALSE]
  /\ UNCHANGED log

Interrupt(s) ==
  /\ busy[s]
  /\ log'  = [log EXCEPT ![s] = Append(@, Interrupted)]
  /\ busy' = [busy EXCEPT ![s] = FALSE]

Close(s) ==
  /\ log'  = [log EXCEPT ![s] = Gone]
  /\ busy' = [busy EXCEPT ![s] = FALSE]

Next == \E s \in Sids : \/ Make(s) \/ Start(s) \/ Finish(s) \/ Interrupt(s) \/ Close(s)
                        \/ \E e \in Events : Grow(s, e)

Spec == Init /\ [][Next]_vars
=============================================================================
