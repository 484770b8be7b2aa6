---------------------------- MODULE GatewayClient ----------------------------
(***************************************************************************)
(* One gateway WebSocket connection (hermes_core/src/rpc/client.rs): the   *)
(* future of connect(), the reader, writer and heartbeat tasks it starts,  *)
(* and the calls and close requests of its users, all of which meet in     *)
(* `Shared`: the connection state, the map of pending calls, the queue to  *)
(* the writer and the event broadcast.                                     *)
(*                                                                         *)
(* Five processes may end the connection.  Each does it in several steps   *)
(* (publish Closed, fail the pending calls, stop the writer) that the      *)
(* others may interleave with.  The text of frames is abstracted to what   *)
(* the reader does with them, the clocks to timeouts and a deadline of     *)
(* inbound silence that may fire; frames that only feed that clock change  *)
(* nothing.  The default configuration is modelled: the heartbeat is on.   *)
(***************************************************************************)
EXTENDS Naturals, Sequences, SequencesExt

CONSTANTS
  Calls,      \* request ids; next_id never hands one out twice
  MaxEvents,  \* bound on the events the gateway emits after gateway.ready
  EventCap    \* how many frames the event broadcast retains; 1024 in connect()

ASSUME ClientAssumption == MaxEvents \in Nat /\ EventCap \in Nat \ {0}

Reasons == {"local", "notready", "server", "ungraceful"}
Closers == {"connect", "caller", "reader", "writer", "heartbeat"}

VARIABLES
  conn,         \* the state watch: connecting, open, or the reason of Closed
  phase,        \* where each of the five processes is
  why,          \* the reason the reader closes with
  aborted,      \* writer.abort() was called
  outbound,     \* the unbounded queue to the writer: calls, "ping", "close"
  pending,      \* Shared.pending
  slot,         \* the oneshot of each call
  call,         \* where each call is
  late,         \* history: the call was inserted after a close was published
  readyHere,    \* gateway.ready is in the event broadcast
  emitted,      \* how many events the reader broadcast after gateway.ready
  firstRx,      \* Shared.first_events_rx: held by connect, parked or taken
  cursor,       \* the frame the first subscriber reads next; gateway.ready is 0
  got,          \* history: the events the first subscriber received
  told          \* history: the events its Lagged errors counted as lost

closeVars == <<conn, phase, why, aborted>>
callVars  == <<outbound, pending, slot, call, late>>
firstVars == <<firstRx, cursor, got, told>>
eventVars == <<readyHere, emitted, firstVars>>
vars      == <<closeVars, callVars, eventVars>>

\* The broadcast is a ring: the oldest frame that is still in it.
Oldest == IF emitted < EventCap THEN 0 ELSE emitted + 1 - EventCap

TypeOK ==
  /\ conn \in {"connecting", "open"} \cup Reasons
  /\ phase \in [Closers -> {"off", "run", "close", "drain", "done"}]
  /\ why \in {"server", "ungraceful"}
  /\ aborted \in BOOLEAN
  /\ outbound \in Seq(Calls \cup {"ping", "close"})
  /\ pending \subseteq Calls
  /\ slot \in [Calls -> {"empty", "result", "rpc", "closed"}]
  /\ call \in [Calls -> {"idle", "checked", "inserted", "waiting", "expired", "settled"}]
  /\ late \in [Calls -> BOOLEAN]
  /\ readyHere \in BOOLEAN
  /\ emitted \in 0 .. MaxEvents
  /\ firstRx \in {"connect", "parked", "taken"}
  /\ cursor \in 0 .. MaxEvents + 1
  /\ got \subseteq 0 .. MaxEvents
  /\ told \subseteq 0 .. MaxEvents

Init ==
  /\ conn = "connecting"
  /\ phase = [x \in Closers |-> IF x \in {"caller", "heartbeat"} THEN "off" ELSE "run"]
  /\ why = "ungraceful"
  /\ aborted = FALSE
  /\ outbound = <<>>
  /\ pending = {}
  /\ slot = [c \in Calls |-> "empty"]
  /\ call = [c \in Calls |-> "idle"]
  /\ late = [c \in Calls |-> FALSE]
  /\ readyHere = FALSE
  /\ emitted = 0
  /\ firstRx = "connect"
  /\ cursor = 0
  /\ got = {}
  /\ told = {}

Closed == conn \in Reasons
Connected == firstRx # "connect"        \* connect() has returned Ok
WriterGone == phase["writer"] = "done"  \* the receiver of the queue is dropped

Goto(x, from, to) == phase[x] = from /\ phase' = [phase EXCEPT ![x] = to]

\* A ping behind an unsent ping, or a close behind a close, adds nothing.
Enqueue(m) ==
  outbound' = IF WriterGone \/ m \in ToSet(outbound)
              THEN outbound ELSE Append(outbound, m)

-----------------------------------------------------------------------------
(* Closing                                                                  *)

\* Mutation: a later closer overwrites the reason.
CloseTerminalAlways(reason) == conn' = reason

\* close_terminal: under close_lock, the first closer wins.
CloseTerminal(reason) == conn' = IF Closed THEN conn ELSE reason

\* Mutation: the map is not drained.
FailPendingNobody == UNCHANGED <<pending, slot, call, late>>

\* fail_pending: whatever is in the map is answered with Closed.
FailPending ==
  /\ slot' = [c \in Calls |-> IF c \in pending THEN "closed" ELSE slot[c]]
  /\ pending' = {}
  /\ UNCHANGED <<call, late>>

\* shutdown(reason) of connect() and of close().  fail_pending and the queueing
\* of the Close frame are one step: what others do between them commutes.
Shutdown(x, reason) ==
  \/ /\ Goto(x, "close", "drain")
     /\ CloseTerminal(reason)
     /\ UNCHANGED callVars
  \/ /\ Goto(x, "drain", IF x = "caller" THEN "run" ELSE "done")
     /\ FailPending
     /\ Enqueue("close")
     /\ UNCHANGED conn

\* Mutation: connect closes with a reason of its own.
ConnectShutdownTimeout ==
  Shutdown("connect", "timeout") /\ UNCHANGED <<why, aborted, eventVars>>

ConnectShutdown ==
  Shutdown("connect", "notready") /\ UNCHANGED <<why, aborted, eventVars>>

CallerClose ==
  /\ Goto("caller", "run", "close")
  /\ UNCHANGED <<conn, why, aborted, callVars, eventVars>>

CallerShutdown ==
  Shutdown("caller", "local") /\ UNCHANGED <<why, aborted, eventVars>>

-----------------------------------------------------------------------------
(* connect(), after the handshake: wait for gateway.ready.                  *)

\* The ready event is received: mark_open, park the subscription for the
\* first events() caller, start the heartbeat, return the client.  Once newer
\* frames have pushed gateway.ready out of the ring, connect() is told that it
\* lagged, reads on, and can only time out.
ConnectReady ==
  /\ phase["connect"] = "run"
  /\ readyHere /\ Oldest = 0
  /\ conn' = "open"
  /\ firstRx' = "parked"
  /\ cursor' = 1
  /\ phase' = [phase EXCEPT !["connect"] = "done", !["caller"] = "run",
                            !["heartbeat"] = "run"]
  /\ UNCHANGED <<why, aborted, callVars, readyHere, emitted, got, told>>

ConnectTimeout ==
  /\ Goto("connect", "run", "close")
  /\ UNCHANGED <<conn, why, aborted, callVars, eventVars>>

-----------------------------------------------------------------------------
(* The reader task                                                          *)

ReaderReady ==
  /\ phase["reader"] = "run"
  /\ ~readyHere
  /\ readyHere' = TRUE
  /\ UNCHANGED <<closeVars, callVars, emitted, firstVars>>

ReaderEvent ==
  /\ phase["reader"] = "run"
  /\ readyHere /\ emitted < MaxEvents
  /\ emitted' = emitted + 1
  /\ UNCHANGED <<closeVars, callVars, readyHere, firstVars>>

\* The response to a call that was written resolves its pending entry; if that
\* is gone the response is dropped.  A failed write may still have arrived.
ReaderResponse(c) ==
  /\ phase["reader"] = "run"
  /\ c \in pending \ ToSet(outbound)
  /\ call[c] \in {"waiting", "expired"}
  /\ pending' = pending \ {c}
  /\ \E kind \in {"result", "rpc"} : slot' = [slot EXCEPT ![c] = kind]
  /\ UNCHANGED <<closeVars, outbound, call, late, eventVars>>

\* A Close frame keeps the server's reason; EOF and errors are ungraceful.
ReaderEnd ==
  /\ Goto("reader", "run", "close")
  /\ why' \in {"server", "ungraceful"}
  /\ UNCHANGED <<conn, aborted, callVars, eventVars>>

ReaderTerminal ==
  /\ \/ /\ Goto("reader", "close", "drain")
        /\ CloseTerminal(why)
        /\ why' = "ungraceful"
        /\ UNCHANGED <<aborted, callVars>>
     \/ /\ Goto("reader", "drain", "done")
        /\ FailPending
        /\ aborted' = TRUE
        /\ UNCHANGED <<conn, why, outbound>>
  /\ UNCHANGED eventVars

-----------------------------------------------------------------------------
(* The writer task                                                          *)

WriterSend ==
  /\ phase["writer"] = "run"
  /\ outbound # <<>>
  /\ outbound' = Tail(outbound)
  /\ phase' = [phase EXCEPT !["writer"] = IF Head(outbound) = "close" THEN "done" ELSE "run"]
  /\ UNCHANGED <<conn, why, aborted, pending, slot, call, late, eventVars>>

WriterFails ==
  /\ outbound # <<>> /\ Head(outbound) # "close"
  /\ Goto("writer", "run", "close")
  /\ outbound' = Tail(outbound)
  /\ UNCHANGED <<conn, why, aborted, pending, slot, call, late, eventVars>>

\* Only the writer that closes first fails the pending calls itself.
WriterTerminal ==
  /\ \/ /\ Goto("writer", "close", IF Closed THEN "done" ELSE "drain")
        /\ CloseTerminal("ungraceful")
        /\ UNCHANGED callVars
     \/ /\ Goto("writer", "drain", "done")
        /\ FailPending
        /\ UNCHANGED <<conn, outbound>>
  /\ UNCHANGED <<why, aborted, eventVars>>

WriterAborted ==
  /\ aborted
  /\ Goto("writer", "run", "done")
  /\ UNCHANGED <<conn, why, aborted, callVars, eventVars>>

-----------------------------------------------------------------------------
(* The heartbeat task                                                       *)

HeartbeatPing ==
  /\ ~Closed
  /\ phase["heartbeat"] = "run"
  /\ Enqueue("ping")
  /\ UNCHANGED <<closeVars, pending, slot, call, late, eventVars>>

\* Mutation: the task ends at the deadline and leaves the connection alone.
HeartbeatGivesUp ==
  /\ Goto("heartbeat", "run", "done")
  /\ UNCHANGED <<conn, why, aborted, callVars, eventVars>>

\* No frame came in for `deadline`.
HeartbeatDeadline ==
  /\ ~Closed
  /\ Goto("heartbeat", "run", "close")
  /\ UNCHANGED <<conn, why, aborted, callVars, eventVars>>

HeartbeatStop ==
  /\ Closed
  /\ Goto("heartbeat", "run", "done")
  /\ UNCHANGED <<conn, why, aborted, callVars, eventVars>>

HeartbeatTerminal ==
  Shutdown("heartbeat", "ungraceful") /\ UNCHANGED <<why, aborted, eventVars>>

-----------------------------------------------------------------------------
(* call_with_timeout(); probe_now() is the same with a shorter timeout.     *)

CallCheck(c) ==
  /\ Connected
  /\ call[c] = "idle"
  /\ call' = [call EXCEPT ![c] = IF Closed THEN "settled" ELSE "checked"]
  /\ UNCHANGED <<closeVars, outbound, pending, slot, late, eventVars>>

CallInsert(c) ==
  /\ call[c] = "checked"
  /\ pending' = pending \cup {c}
  /\ call' = [call EXCEPT ![c] = "inserted"]
  /\ late' = [late EXCEPT ![c] = Closed]
  /\ UNCHANGED <<closeVars, outbound, slot, eventVars>>

CallQueue(c) ==
  /\ call[c] = "inserted"
  /\ Enqueue(c)
  /\ call' = [call EXCEPT ![c] = IF WriterGone THEN "settled" ELSE "waiting"]
  /\ pending' = IF WriterGone THEN pending \ {c} ELSE pending
  /\ UNCHANGED <<closeVars, slot, late, eventVars>>

CallTake(c) ==
  /\ call[c] = "waiting"
  /\ slot[c] # "empty"
  /\ call' = [call EXCEPT ![c] = "settled"]
  /\ UNCHANGED <<closeVars, outbound, pending, slot, late, eventVars>>

\* Mutation: the wait is bounded only while the connection lives.
CallExpireWhileOpen(c) ==
  /\ ~Closed
  /\ call[c] = "waiting"
  /\ slot[c] = "empty"
  /\ call' = [call EXCEPT ![c] = "expired"]
  /\ UNCHANGED <<closeVars, outbound, pending, slot, late, eventVars>>

CallExpire(c) ==
  /\ call[c] = "waiting"
  /\ slot[c] = "empty"
  /\ call' = [call EXCEPT ![c] = "expired"]
  /\ UNCHANGED <<closeVars, outbound, pending, slot, late, eventVars>>

\* Mutation: the entry of a timed out call stays in the map.
CallGiveUpKeepingEntry(c) ==
  /\ call[c] = "expired"
  /\ call' = [call EXCEPT ![c] = "settled"]
  /\ UNCHANGED <<closeVars, outbound, pending, slot, late, eventVars>>

\* The entry is dropped, so that a late reply finds no caller.
CallGiveUp(c) ==
  /\ call[c] = "expired"
  /\ pending' = pending \ {c}
  /\ call' = [call EXCEPT ![c] = "settled"]
  /\ UNCHANGED <<closeVars, outbound, slot, late, eventVars>>

-----------------------------------------------------------------------------
(* events()                                                                 *)

\* Mutation: every caller gets a fresh subscription.
EventsFresh ==
  /\ Connected
  /\ firstRx' = "taken"
  /\ cursor' = IF firstRx = "parked" THEN emitted + 1 ELSE cursor
  /\ UNCHANGED <<closeVars, callVars, readyHere, emitted, got, told>>

\* The first caller is handed the subscription connect() read gateway.ready
\* from; a later one subscribes anew and is not followed.
Events ==
  /\ Connected
  /\ firstRx' = "taken"
  /\ UNCHANGED <<closeVars, callVars, readyHere, emitted, cursor, got, told>>

\* recv() of the first subscriber: its next event, or, when the ring has been
\* written over that one, the number of those lost, to go on at the oldest.
FirstReceives ==
  /\ firstRx = "taken"
  /\ cursor <= emitted
  /\ IF cursor < Oldest
     THEN /\ told' = told \cup (cursor .. Oldest - 1)
          /\ cursor' = Oldest
          /\ UNCHANGED got
     ELSE /\ got' = got \cup {cursor}
          /\ cursor' = cursor + 1
          /\ UNCHANGED told
  /\ UNCHANGED <<closeVars, callVars, readyHere, emitted, firstRx>>

-----------------------------------------------------------------------------

CallStep(c) ==
  \/ CallInsert(c)
  \/ CallQueue(c)
  \/ CallTake(c)
  \/ CallGiveUp(c)

Next ==
  \/ ConnectReady
  \/ ConnectTimeout
  \/ ConnectShutdown
  \/ CallerClose
  \/ CallerShutdown
  \/ ReaderReady
  \/ ReaderEvent
  \/ \E c \in Calls : ReaderResponse(c)
  \/ ReaderEnd
  \/ ReaderTerminal
  \/ WriterSend
  \/ WriterFails
  \/ WriterTerminal
  \/ WriterAborted
  \/ HeartbeatPing
  \/ HeartbeatDeadline
  \/ HeartbeatStop
  \/ HeartbeatTerminal
  \/ \E c \in Calls : CallCheck(c) \/ CallExpire(c) \/ CallStep(c)
  \/ Events
  \/ FirstReceives

Spec == Init /\ [][Next]_vars

(* Fairness: the runtime polls every ready task and time passes.  Nothing    *)
(* is assumed of the gateway (no frame, no end of the stream need ever       *)
(* come), of a socket (a write need not fail) or of the users; the deadline  *)
(* of silence need not pass unless nobody reads.                             *)
TaskFairness ==
  /\ WF_vars(ConnectReady \/ ConnectTimeout) /\ WF_vars(ConnectShutdown)
  /\ WF_vars(CallerShutdown) /\ WF_vars(ReaderTerminal)
  /\ WF_vars(WriterSend) /\ WF_vars(WriterTerminal) /\ WF_vars(WriterAborted)
  /\ WF_vars(HeartbeatStop) /\ WF_vars(HeartbeatTerminal)
  /\ WF_vars(phase["reader"] = "done" /\ HeartbeatDeadline)
  /\ \A c \in Calls : WF_vars(CallStep(c))

TimerFairness == \A c \in Calls : WF_vars(CallExpire(c))

\* Call timers are not in it: what must happen must not wait one out, and what
\* rests on them says so.
FairSpec == Spec /\ TaskFairness

-----------------------------------------------------------------------------
(* Properties                                                               *)

\* "First closer wins: once Closed, the reason never changes", whichever of
\* the five processes close and in whatever order their steps interleave;
\* except for connect() itself, whose mark_open takes no lock and may put Open
\* over a Closed.
FirstCloserWins ==
  [][Closed => conn' = conn \/ (phase["connect"] = "run" /\ conn' = "open")]_vars

\* No finished call leaves an entry behind, be it answered, failed, refused
\* by the queue or timed out with the answer arriving in between.
NoForgottenEntry == \A c \in Calls : call[c] = "settled" => c \notin pending

\* The first events() caller, however late it calls: each event since
\* gateway.ready that it is past, it received, or was told by a Lagged that it
\* lost (the supervisor then catches up); and only EventCap newer frames, which
\* push an event out of the ring, lose it one.
FirstSubscriberMissesNothing ==
  firstRx = "taken" =>
    /\ 1 .. cursor - 1 \subseteq got \cup told
    /\ \A e \in told : e \notin got /\ e + EventCap <= emitted

\* A call that was in flight when the connection closed is failed by the
\* closer; it does not wait for its timeout, and not for the socket to die.
InFlightCallsFailAtOnce ==
  \A c \in Calls : c \in pending /\ ~late[c] /\ Closed ~> c \notin pending

\* If call timers fire, every call ends, also one that passed the Closed check
\* just before the connection closed and entered the map after it was drained.
EveryCallSettles ==
  TimerFairness => \A c \in Calls : call[c] = "checked" ~> call[c] = "settled"

\* A connection nobody reads any more ends up Closed and stays so, even if
\* connect() marked it Open after the reader had gone.
DeadReaderEndsClosed == phase["reader"] = "done" ~> []Closed

=============================================================================
