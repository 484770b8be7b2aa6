----------------------------- MODULE ClientProofs -----------------------------
(***************************************************************************)
(* What the two clients of HermesCore promise, for every value of their    *)
(* constants.                                                              *)
(*                                                                         *)
(* GatewayClient, the WebSocket client, for any number of calls and        *)
(* events: its types, that no finished call is left in Shared.pending, and *)
(* that the reason of a close stands whatever the five closers do.         *)
(*                                                                         *)
(* AuthClient, the HTTP client (CookieJar), for any number of requests in  *)
(* flight, any number of files, issued cookies and failing writes: saves   *)
(* that do not overlap leave a jar that can be read at every moment, and   *)
(* that is the one in memory when they are over.                           *)
(*                                                                         *)
(* The two share no state; each is proved about on its own.                *)
(***************************************************************************)
EXTENDS GatewayClient, CookieJar, TLAPS

(***************************************************************************)
(* NoForgottenEntry is not inductive: a call ends by taking the answer out *)
(* of its oneshot (CallTake) without looking at the map.  Whoever fills a  *)
(* oneshot has removed the entry before, and no entry comes back, because  *)
(* an entry is made only while the oneshot is still empty.                 *)
(***************************************************************************)
EntryOfUnfinished ==
  \A c \in Calls : c \in pending => call[c] \in {"inserted", "waiting", "expired"}

AnsweredHasNoEntry == \A c \in Calls : slot[c] # "empty" => c \notin pending

EmptyBeforeInsert ==
  \A c \in Calls : call[c] \in {"idle", "checked"} => slot[c] = "empty"

EntryInv ==
  /\ TypeOK
  /\ EntryOfUnfinished
  /\ AnsweredHasNoEntry
  /\ EmptyBeforeInsert

-----------------------------------------------------------------------------
(* GatewayClient: lemmas about the helpers                                  *)

\* An enqueued message keeps the queue to the writer well typed.
LEMMA EnqueueTyped ==
  ASSUME outbound \in Seq(Calls \cup {"ping", "close"}),
         NEW m \in Calls \cup {"ping", "close"},
         Enqueue(m)
  PROVE  outbound' \in Seq(Calls \cup {"ping", "close"})
BY DEF Enqueue

\* A step of a closer from one phase to another keeps the phases well typed.
LEMMA GotoTyped ==
  ASSUME phase \in [Closers -> {"off", "run", "close", "drain", "done"}],
         NEW x \in Closers, NEW from,
         NEW to \in {"off", "run", "close", "drain", "done"},
         Goto(x, from, to)
  PROVE  phase' \in [Closers -> {"off", "run", "close", "drain", "done"}]
BY DEF Goto

\* close_terminal stores a reason, or leaves the one that is there.
LEMMA CloseTerminalTyped ==
  ASSUME conn \in {"connecting", "open"} \cup Reasons,
         NEW r \in Reasons, CloseTerminal(r)
  PROVE  /\ conn' \in {"connecting", "open"} \cup Reasons
         /\ Closed => conn' = conn
BY DEF CloseTerminal, Closed

\* fail_pending answers whatever is in the map, and only that.
LEMMA FailPendingKeeps ==
  ASSUME EntryInv, FailPending
  PROVE  /\ pending' \subseteq Calls
         /\ slot' \in [Calls -> {"empty", "result", "rpc", "closed"}]
         /\ call' = call /\ late' = late
         /\ EntryOfUnfinished' /\ AnsweredHasNoEntry' /\ EmptyBeforeInsert'
BY DEF EntryInv, TypeOK, FailPending, EntryOfUnfinished, AnsweredHasNoEntry, EmptyBeforeInsert

\* What leaves the calls, the map and the oneshots alone keeps their invariant.
LEMMA CallsUntouched ==
  ASSUME EntryInv, UNCHANGED <<pending, slot, call>>
  PROVE  EntryOfUnfinished' /\ AnsweredHasNoEntry' /\ EmptyBeforeInsert'
BY DEF EntryInv, EntryOfUnfinished, AnsweredHasNoEntry, EmptyBeforeInsert

\* What the first subscriber receives, or is told it lost, are events.
LEMMA FirstTyped ==
  ASSUME cursor \in 0 .. MaxEvents + 1, emitted \in 0 .. MaxEvents,
         got \subseteq 0 .. MaxEvents, told \subseteq 0 .. MaxEvents,
         FirstReceives
  PROVE  /\ cursor' \in 0 .. MaxEvents + 1
         /\ got' \subseteq 0 .. MaxEvents /\ told' \subseteq 0 .. MaxEvents
<1>1. emitted \in Nat /\ EventCap \in Nat \ {0} /\ MaxEvents \in Nat
  BY ClientAssumption
<1>2. Oldest \in Nat /\ Oldest <= emitted
  BY <1>1 DEF Oldest
<1>3. CASE cursor < Oldest
  <2>1. told' = told \cup (cursor .. Oldest - 1) /\ cursor' = Oldest /\ got' = got
    BY <1>3 DEF FirstReceives
  <2> QED BY <1>1, <1>2, <2>1
<1>4. CASE ~(cursor < Oldest)
  <2>1. got' = got \cup {cursor} /\ cursor' = cursor + 1 /\ told' = told /\ cursor <= emitted
    BY <1>4 DEF FirstReceives
  <2> QED BY <1>1, <2>1
<1> QED BY <1>3, <1>4

\* shutdown(reason), by whoever calls it.
LEMMA ShutdownKeeps ==
  ASSUME EntryInv, NEW x \in Closers, NEW r \in Reasons, Shutdown(x, r),
         UNCHANGED <<why, aborted, eventVars>>
  PROVE  EntryInv'
<1>1. CASE Goto(x, "close", "drain") /\ CloseTerminal(r) /\ UNCHANGED callVars
  <2>1. TypeOK'
    BY <1>1, GotoTyped, CloseTerminalTyped DEF EntryInv, TypeOK, callVars, eventVars, firstVars
  <2> QED BY <1>1, <2>1, CallsUntouched DEF EntryInv, callVars
<1>2. CASE /\ Goto(x, "drain", IF x = "caller" THEN "run" ELSE "done")
           /\ FailPending /\ Enqueue("close") /\ UNCHANGED conn
  <2>1. TypeOK'
    BY <1>2, GotoTyped, FailPendingKeeps, EnqueueTyped DEF EntryInv, TypeOK, eventVars, firstVars
  <2> QED BY <1>2, <2>1, FailPendingKeeps DEF EntryInv
<1> QED BY <1>1, <1>2 DEF Shutdown

-----------------------------------------------------------------------------
(* GatewayClient: the invariant                                             *)

\* No call has begun and nothing is in the map.
LEMMA InitEntries == Init => EntryInv
<1> SUFFICES ASSUME Init PROVE EntryInv
  OBVIOUS
<1>1. phase \in [Closers -> {"off", "run", "close", "drain", "done"}]
  BY DEF Init
<1>2. /\ cursor \in 0 .. MaxEvents + 1 /\ emitted \in 0 .. MaxEvents
      /\ got \subseteq 0 .. MaxEvents /\ told \subseteq 0 .. MaxEvents
  BY ClientAssumption DEF Init
<1>3. outbound \in Seq(Calls \cup {"ping", "close"})
  BY DEF Init
<1>4. /\ slot \in [Calls -> {"empty", "result", "rpc", "closed"}]
      /\ call \in [Calls -> {"idle", "checked", "inserted", "waiting", "expired", "settled"}]
      /\ late \in [Calls -> BOOLEAN]
      /\ pending \subseteq Calls
  BY DEF Init
<1>5. TypeOK
  BY <1>1, <1>2, <1>3, <1>4 DEF Init, TypeOK
<1> QED
  BY <1>5 DEF Init, EntryInv, EntryOfUnfinished, AnsweredHasNoEntry, EmptyBeforeInsert

\* The steps of connect(), of close() and of the heartbeat.
LEMMA UserSteps ==
  ASSUME EntryInv,
         \/ ConnectReady \/ ConnectTimeout \/ ConnectShutdown
         \/ CallerClose \/ CallerShutdown
         \/ HeartbeatPing \/ HeartbeatDeadline \/ HeartbeatStop \/ HeartbeatTerminal
         \/ Events \/ FirstReceives
  PROVE  EntryInv'
<1> USE DEF callVars, closeVars, eventVars, firstVars
<1>1. CASE ConnectReady
  <2>1. cursor' \in 0 .. MaxEvents + 1 BY <1>1, ClientAssumption DEF ConnectReady
  <2>2. TypeOK' BY <1>1, <2>1 DEF EntryInv, TypeOK, ConnectReady, Closers
  <2> QED BY <1>1, <2>2, CallsUntouched DEF EntryInv, ConnectReady
<1>2. CASE ConnectTimeout
  <2>1. TypeOK' BY <1>2, GotoTyped DEF EntryInv, TypeOK, ConnectTimeout, Closers
  <2> QED BY <1>2, <2>1, CallsUntouched DEF EntryInv, ConnectTimeout
<1>3. CASE ConnectShutdown
  BY <1>3, ShutdownKeeps DEF ConnectShutdown, Closers, Reasons
<1>4. CASE CallerClose
  <2>1. TypeOK' BY <1>4, GotoTyped DEF EntryInv, TypeOK, CallerClose, Closers
  <2> QED BY <1>4, <2>1, CallsUntouched DEF EntryInv, CallerClose
<1>5. CASE CallerShutdown
  BY <1>5, ShutdownKeeps DEF CallerShutdown, Closers, Reasons
<1>6. CASE HeartbeatPing
  <2>1. TypeOK' BY <1>6, EnqueueTyped DEF EntryInv, TypeOK, HeartbeatPing
  <2> QED BY <1>6, <2>1, CallsUntouched DEF EntryInv, HeartbeatPing
<1>7. CASE HeartbeatDeadline
  <2>1. TypeOK' BY <1>7, GotoTyped DEF EntryInv, TypeOK, HeartbeatDeadline, Closers
  <2> QED BY <1>7, <2>1, CallsUntouched DEF EntryInv, HeartbeatDeadline
<1>8. CASE HeartbeatStop
  <2>1. TypeOK' BY <1>8, GotoTyped DEF EntryInv, TypeOK, HeartbeatStop, Closers
  <2> QED BY <1>8, <2>1, CallsUntouched DEF EntryInv, HeartbeatStop
<1>9. CASE HeartbeatTerminal
  BY <1>9, ShutdownKeeps DEF HeartbeatTerminal, Closers, Reasons
<1>10. CASE Events
  <2>1. TypeOK' BY <1>10 DEF EntryInv, TypeOK, Events
  <2> QED BY <1>10, <2>1, CallsUntouched DEF EntryInv, Events
<1>11. CASE FirstReceives
  <2>1. /\ cursor' \in 0 .. MaxEvents + 1
        /\ got' \subseteq 0 .. MaxEvents /\ told' \subseteq 0 .. MaxEvents
    BY <1>11, FirstTyped DEF EntryInv, TypeOK, FirstReceives
  <2>2. TypeOK' BY <1>11, <2>1 DEF EntryInv, TypeOK, FirstReceives
  <2> QED BY <1>11, <2>2, CallsUntouched DEF EntryInv, FirstReceives
<1> QED BY <1>1, <1>2, <1>3, <1>4, <1>5, <1>6, <1>7, <1>8, <1>9, <1>10, <1>11

\* The steps of the reader and the writer, but for the response to a call.
LEMMA TaskSteps ==
  ASSUME EntryInv,
         \/ ReaderReady \/ ReaderEvent \/ ReaderEnd \/ ReaderTerminal
         \/ WriterSend \/ WriterFails \/ WriterTerminal \/ WriterAborted
  PROVE  EntryInv'
<1> USE DEF callVars, closeVars, eventVars, firstVars
<1>1. CASE ReaderReady
  <2>1. TypeOK' BY <1>1 DEF EntryInv, TypeOK, ReaderReady
  <2> QED BY <1>1, <2>1, CallsUntouched DEF EntryInv, ReaderReady
<1>2. CASE ReaderEvent
  <2>1. TypeOK' BY <1>2, ClientAssumption DEF EntryInv, TypeOK, ReaderEvent
  <2> QED BY <1>2, <2>1, CallsUntouched DEF EntryInv, ReaderEvent
<1>3. CASE ReaderEnd
  <2>1. TypeOK' BY <1>3, GotoTyped DEF EntryInv, TypeOK, ReaderEnd, Closers
  <2> QED BY <1>3, <2>1, CallsUntouched DEF EntryInv, ReaderEnd
<1>4. CASE ReaderTerminal
  <2>1. CASE /\ Goto("reader", "close", "drain") /\ CloseTerminal(why)
             /\ why' = "ungraceful" /\ UNCHANGED <<aborted, callVars, eventVars>>
    <3>1. TypeOK'
      <4>1. why \in Reasons BY DEF EntryInv, TypeOK, Reasons
      <4> QED BY <2>1, <4>1, GotoTyped, CloseTerminalTyped DEF EntryInv, TypeOK, Closers
    <3> QED BY <2>1, <3>1, CallsUntouched DEF EntryInv
  <2>2. CASE /\ Goto("reader", "drain", "done") /\ FailPending
             /\ aborted' = TRUE /\ UNCHANGED <<conn, why, outbound, eventVars>>
    <3>1. TypeOK'
      BY <2>2, GotoTyped, FailPendingKeeps DEF EntryInv, TypeOK, Closers
    <3> QED BY <2>2, <3>1, FailPendingKeeps DEF EntryInv
  <2> QED BY <1>4, <2>1, <2>2 DEF ReaderTerminal
<1>5. CASE WriterSend
  <2>1. TypeOK' BY <1>5 DEF EntryInv, TypeOK, WriterSend, Closers
  <2> QED BY <1>5, <2>1, CallsUntouched DEF EntryInv, WriterSend
<1>6. CASE WriterFails
  <2>1. TypeOK' BY <1>6, GotoTyped DEF EntryInv, TypeOK, WriterFails, Closers
  <2> QED BY <1>6, <2>1, CallsUntouched DEF EntryInv, WriterFails
<1>7. CASE WriterTerminal
  <2>1. CASE /\ Goto("writer", "close", IF Closed THEN "done" ELSE "drain")
             /\ CloseTerminal("ungraceful")
             /\ UNCHANGED <<why, aborted, callVars, eventVars>>
    <3>1. TypeOK'
      BY <2>1, GotoTyped, CloseTerminalTyped DEF EntryInv, TypeOK, Closers, Reasons
    <3> QED BY <2>1, <3>1, CallsUntouched DEF EntryInv
  <2>2. CASE /\ Goto("writer", "drain", "done") /\ FailPending
             /\ UNCHANGED <<conn, why, aborted, outbound, eventVars>>
    <3>1. TypeOK'
      BY <2>2, GotoTyped, FailPendingKeeps DEF EntryInv, TypeOK, Closers
    <3> QED BY <2>2, <3>1, FailPendingKeeps DEF EntryInv
  <2> QED BY <1>7, <2>1, <2>2 DEF WriterTerminal
<1>8. CASE WriterAborted
  <2>1. TypeOK' BY <1>8, GotoTyped DEF EntryInv, TypeOK, WriterAborted, Closers
  <2> QED BY <1>8, <2>1, CallsUntouched DEF EntryInv, WriterAborted
<1> QED BY <1>1, <1>2, <1>3, <1>4, <1>5, <1>6, <1>7, <1>8

\* The steps of one call, and the response to it.
LEMMA CallSteps ==
  ASSUME EntryInv, NEW c \in Calls,
         ReaderResponse(c) \/ CallCheck(c) \/ CallExpire(c) \/ CallStep(c)
  PROVE  EntryInv'
<1> USE DEF callVars, closeVars, eventVars, firstVars, EntryInv, EntryOfUnfinished,
            AnsweredHasNoEntry, EmptyBeforeInsert, TypeOK
<1>1. CASE ReaderResponse(c) BY <1>1 DEF ReaderResponse
<1>2. CASE CallCheck(c)      BY <1>2 DEF CallCheck
<1>3. CASE CallExpire(c)     BY <1>3 DEF CallExpire
<1>4. CASE CallInsert(c)     BY <1>4 DEF CallInsert, Closed
<1>5. CASE CallQueue(c)
  <2>1. outbound' \in Seq(Calls \cup {"ping", "close"})
    BY <1>5, EnqueueTyped DEF CallQueue
  <2> QED BY <1>5, <2>1 DEF CallQueue
<1>6. CASE CallTake(c)       BY <1>6 DEF CallTake
<1>7. CASE CallGiveUp(c)     BY <1>7 DEF CallGiveUp
<1> QED BY <1>1, <1>2, <1>3, <1>4, <1>5, <1>6, <1>7 DEF CallStep

LEMMA EntriesStep == EntryInv /\ [Next]_vars => EntryInv'
<1> SUFFICES ASSUME EntryInv, [Next]_vars PROVE EntryInv'
  OBVIOUS
<1>1. CASE Next
  BY <1>1, UserSteps, TaskSteps, CallSteps DEF Next
<1>2. CASE UNCHANGED vars
  <2>1. UNCHANGED <<conn, phase, why, aborted, outbound, pending, slot, call, late,
                    readyHere, emitted, firstRx, cursor, got, told>>
    BY <1>2 DEF vars, closeVars, callVars, eventVars, firstVars
  <2>2. TypeOK'  BY <2>1 DEF EntryInv, TypeOK, Reasons
  <2> QED  BY <2>1, <2>2 DEF EntryInv, EntryOfUnfinished, AnsweredHasNoEntry, EmptyBeforeInsert
<1> QED BY <1>1, <1>2

LEMMA EntriesHold == Spec => []EntryInv
BY InitEntries, EntriesStep, PTL DEF Spec

-----------------------------------------------------------------------------
(* GatewayClient: theorems                                                  *)

\* Every reachable state of a connection is well typed, for any calls.
THEOREM ClientTyped == Spec => []TypeOK
<1>1. EntryInv => TypeOK BY DEF EntryInv
<1> QED BY <1>1, EntriesHold, PTL

\* However many calls share the map, and however their answers, timeouts and
\* refusals interleave with five closers draining it, a call that has ended
\* (call_with_timeout returned) has no entry in Shared.pending.
THEOREM NoneForgotten == Spec => []NoForgottenEntry
<1>1. EntryInv => NoForgottenEntry
  BY DEF EntryInv, EntryOfUnfinished, NoForgottenEntry
<1> QED BY <1>1, EntriesHold, PTL

\* close_terminal keeps the first reason in every step of every process, with
\* mark_open at the end of connect() as the one exception.
THEOREM ReasonStands == Spec => FirstCloserWins
<1>1. EntryInv /\ [Next]_vars
        => (Closed => conn' = conn \/ (phase["connect"] = "run" /\ conn' = "open"))
  <2> SUFFICES ASSUME EntryInv, Next, Closed
               PROVE  conn' = conn \/ (phase["connect"] = "run" /\ conn' = "open")
    BY DEF vars, closeVars
  <2> USE DEF closeVars, CloseTerminal, Shutdown
  <2>1. CASE ConnectReady \/ ConnectTimeout \/ ConnectShutdown
    BY <2>1 DEF ConnectReady, ConnectTimeout, ConnectShutdown
  <2>2. CASE CallerClose \/ CallerShutdown \/ Events \/ FirstReceives
    BY <2>2 DEF CallerClose, CallerShutdown, Events, FirstReceives
  <2>3. CASE ReaderReady \/ ReaderEvent \/ ReaderEnd \/ ReaderTerminal
    BY <2>3 DEF ReaderReady, ReaderEvent, ReaderEnd, ReaderTerminal
  <2>4. CASE WriterSend \/ WriterFails \/ WriterTerminal \/ WriterAborted
    BY <2>4 DEF WriterSend, WriterFails, WriterTerminal, WriterAborted
  <2>5. CASE HeartbeatPing \/ HeartbeatDeadline \/ HeartbeatStop \/ HeartbeatTerminal
    BY <2>5 DEF HeartbeatPing, HeartbeatDeadline, HeartbeatStop, HeartbeatTerminal
  <2>6. ASSUME NEW c \in Calls,
               ReaderResponse(c) \/ CallCheck(c) \/ CallExpire(c) \/ CallStep(c)
        PROVE  conn' = conn
    BY <2>6 DEF ReaderResponse, CallCheck, CallExpire, CallStep, CallInsert, CallQueue,
                CallTake, CallGiveUp
  <2> QED BY <2>1, <2>2, <2>3, <2>4, <2>5, <2>6 DEF Next
<1> QED BY <1>1, EntriesHold, PTL DEF Spec, FirstCloserWins

(***************************************************************************)
(* FirstSubscriberMissesNothing speaks of a subscription that was handed   *)
(* over.  What makes it hold is what the parked one keeps while nobody     *)
(* reads it: it stands behind gateway.ready, and nothing was read from it. *)
(***************************************************************************)
ParkedUnread ==
  /\ firstRx # "taken" => got = {} /\ told = {}
  /\ firstRx = "connect" => cursor = 0
  /\ phase["connect"] = "run" => firstRx = "connect"
  /\ firstRx = "parked" => cursor = 1
  /\ firstRx = "taken" => cursor >= 1

BehindCursor == \A e \in got \cup told : e < cursor

FirstInv == ParkedUnread /\ BehindCursor /\ FirstSubscriberMissesNothing

\* Whatever the ring drops and however late events() is first called, that
\* caller receives every event since gateway.ready or is told it lost it, and
\* is told so of none that EventCap newer ones have not pushed out.
THEOREM FirstMissesNothing == Spec => []FirstSubscriberMissesNothing
<1>1. Init => FirstInv
  BY DEF Init, FirstInv, ParkedUnread, BehindCursor, FirstSubscriberMissesNothing
<1>2. EntryInv /\ FirstInv /\ [Next]_vars => FirstInv'
  <2> SUFFICES ASSUME EntryInv, FirstInv, [Next]_vars PROVE FirstInv'
    OBVIOUS
  <2> USE DEF FirstInv, ParkedUnread, BehindCursor, FirstSubscriberMissesNothing,
              eventVars, firstVars
  <2>1. /\ cursor \in Nat /\ emitted \in Nat /\ MaxEvents \in Nat /\ EventCap \in Nat \ {0}
        /\ got \subseteq Nat /\ told \subseteq Nat
        /\ firstRx \in {"connect", "parked", "taken"}
    BY ClientAssumption DEF EntryInv, TypeOK
  <2>2. CASE ConnectReady
    <3>1. firstRx' = "parked" /\ cursor' = 1 /\ got' = got /\ told' = told
      BY <2>2 DEF ConnectReady
    <3>2. firstRx = "connect" /\ phase'["connect"] # "run"
      BY <2>2 DEF ConnectReady, EntryInv, TypeOK, Closers
    <3> QED BY <3>1, <3>2
  <2>3. CASE Events
    <3>1. /\ firstRx' = "taken" /\ cursor' = cursor /\ got' = got /\ told' = told
          /\ emitted' = emitted /\ phase' = phase /\ firstRx # "connect"
      BY <2>3 DEF Events, Connected, closeVars
    <3>2. cursor >= 1 /\ phase'["connect"] # "run" /\ BehindCursor'
      BY <2>1, <3>1
    <3>3. 1 .. cursor - 1 \subseteq got \cup told
      <4>1. CASE firstRx = "parked"
        BY <4>1, <2>1
      <4>2. CASE firstRx = "taken"
        BY <4>2
      <4> QED BY <4>1, <4>2, <3>1, <2>1
    <3>4. \A e \in told : e \notin got /\ e + EventCap <= emitted
      BY <2>1, <3>1
    <3> QED BY <3>1, <3>2, <3>3, <3>4
  <2>4. CASE FirstReceives
    <3>1. Oldest \in Nat /\ Oldest <= emitted /\ (Oldest # 0 => Oldest + EventCap = emitted + 1)
      BY <2>1 DEF Oldest
    <3>2. firstRx = "taken" /\ firstRx' = "taken" /\ emitted' = emitted /\ cursor <= emitted
      BY <2>4 DEF FirstReceives
    <3>5. phase'["connect"] # "run"
      BY <3>2, <2>4 DEF FirstReceives, closeVars
    <3>3. CASE cursor < Oldest
      <4>1. told' = told \cup (cursor .. Oldest - 1) /\ cursor' = Oldest /\ got' = got
        BY <2>4, <3>3 DEF FirstReceives
      <4>2. 1 .. cursor' - 1 \subseteq got' \cup told'
        BY <2>1, <3>1, <3>2, <3>3, <4>1
      <4>3. \A e \in told' : e \notin got' /\ e + EventCap <= emitted'
        BY <2>1, <3>1, <3>2, <3>3, <4>1
      <4>4. BehindCursor' /\ cursor' >= 1
        BY <2>1, <3>1, <3>2, <3>3, <4>1
      <4> QED BY <3>2, <4>2, <4>3, <4>4, <3>5
    <3>4. CASE ~(cursor < Oldest)
      <4>1. got' = got \cup {cursor} /\ cursor' = cursor + 1 /\ told' = told
        BY <2>4, <3>4 DEF FirstReceives
      <4>2. 1 .. cursor' - 1 \subseteq got' \cup told'
        BY <2>1, <3>2, <4>1
      <4>3. \A e \in told' : e \notin got' /\ e + EventCap <= emitted'
        BY <2>1, <3>2, <4>1
      <4>4. BehindCursor' /\ cursor' >= 1
        BY <2>1, <3>2, <4>1
      <4> QED BY <3>2, <4>2, <4>3, <4>4, <3>5
    <3> QED BY <3>3, <3>4
  <2>5. CASE ReaderEvent
    <3>1. emitted' = emitted + 1 /\ UNCHANGED <<phase, firstRx, cursor, got, told>>
      BY <2>5 DEF ReaderEvent, closeVars
    <3>2. \A e \in told : e \in Nat
      BY <2>1
    <3>3. firstRx = "taken" => \A e \in told : e \notin got /\ e + EventCap <= emitted + 1
      BY <2>1, <3>2
    <3> QED BY <3>1, <3>3
  <2>6. CASE /\ UNCHANGED <<firstVars, emitted>>
             /\ phase'["connect"] = "run" => phase["connect"] = "run"
    BY <2>1, <2>6
  <2> USE DEF closeVars, callVars, Shutdown, Goto
  <2>7. phase \in [Closers -> {"off", "run", "close", "drain", "done"}]
    BY DEF EntryInv, TypeOK
  <2>8. CASE \/ ConnectTimeout \/ ConnectShutdown \/ CallerClose \/ CallerShutdown
             \/ HeartbeatPing \/ HeartbeatDeadline \/ HeartbeatStop \/ HeartbeatTerminal
    BY <2>6, <2>7, <2>8 DEF ConnectTimeout, ConnectShutdown, CallerClose, CallerShutdown,
       HeartbeatPing, HeartbeatDeadline, HeartbeatStop, HeartbeatTerminal, Closers
  <2>9. CASE ReaderReady \/ ReaderEnd \/ ReaderTerminal
    BY <2>6, <2>7, <2>9 DEF ReaderReady, ReaderEnd, ReaderTerminal, Closers
  <2>10. CASE WriterSend \/ WriterFails \/ WriterTerminal \/ WriterAborted
    BY <2>6, <2>7, <2>10 DEF WriterSend, WriterFails, WriterTerminal, WriterAborted, Closers
  <2>11. ASSUME NEW c \in Calls,
                ReaderResponse(c) \/ CallCheck(c) \/ CallExpire(c) \/ CallStep(c)
         PROVE  FirstInv'
    BY <2>6, <2>11 DEF ReaderResponse, CallCheck, CallExpire, CallStep, CallInsert,
       CallQueue, CallTake, CallGiveUp
  <2>12. CASE UNCHANGED vars
    BY <2>6, <2>12 DEF vars
  <2> QED
    BY <2>2, <2>3, <2>4, <2>5, <2>8, <2>9, <2>10, <2>11, <2>12 DEF Next
<1>3. FirstInv => FirstSubscriberMissesNothing
  BY DEF FirstInv
<1> QED BY <1>1, <1>2, <1>3, EntriesHold, PTL DEF Spec

-----------------------------------------------------------------------------
(* The cookie jar: types                                                    *)

LEMMA TypeInit == JarInit => JarTypeOK
<1> SUFFICES ASSUME JarInit PROVE JarTypeOK
  OBVIOUS
<1>1. pc \in [Slots -> PCs] /\ kind \in [Slots -> Kinds]
  BY DEF JarInit, PCs, Kinds
<1>2. /\ sent \in [Slots -> Versions \cup {Keep}] /\ buf \in [Slots -> Versions]
      /\ jar \in Versions /\ issued \in Versions /\ fails \in 0..MaxFails
  BY CookieJarAssumption DEF JarInit, Versions
<1>3. /\ ino \in [Slots -> Inodes \cup {NoFile}] /\ data \in [Inodes -> Versions \cup {Torn}]
      /\ \A s \in Slots : ino[s] # NoFile <=> pc[s] = "write"
  BY DEF JarInit
<1> QED BY <1>1, <1>2, <1>3 DEF JarInit, JarTypeOK

\* What a process would read back is a version of the cookies.
LEMMA StoredVersion ==
  ASSUME JarTypeOK, ~Unreadable
  PROVE  Stored \in Versions
BY CookieJarAssumption DEF JarTypeOK, Unreadable, Stored, Versions

LEMMA AnswerTyped ==
  ASSUME JarTypeOK, NEW s \in Slots, NEW d \in Versions \cup {Keep}, Answer(s, d)
  PROVE  /\ pc' \in [Slots -> PCs] /\ kind' \in [Slots -> Kinds]
         /\ sent' \in [Slots -> Versions \cup {Keep}]
         /\ pc[s] = "asked" /\ pc'[s] = "answered" /\ \A u \in Slots \ {s} : pc'[u] = pc[u]
BY DEF JarTypeOK, Answer, Step, PCs, Kinds

LEMMA IssueTyped ==
  ASSUME JarTypeOK, Issue
  PROVE  issued' \in Versions /\ accepted' \subseteq Versions
BY CookieJarAssumption DEF JarTypeOK, Issue, Versions

LEMMA RouteTyped ==
  ASSUME JarTypeOK, NEW s \in Slots, Route(s)
  PROVE  /\ JarTypeOK' /\ pc[s] = "asked" /\ pc'[s] = "answered"
         /\ \A u \in Slots \ {s} : pc'[u] = pc[u]
<1>1. PICK d \in Versions \cup {Keep} : Answer(s, d)
  <2>1. CASE RouteLogin(s) \/ (RouteTicket(s) /\ Issue /\ Answer(s, issued'))
    BY <2>1, IssueTyped DEF RouteLogin
  <2>2. CASE RouteLogout(s)
    BY <2>2, CookieJarAssumption DEF RouteLogout, Versions
  <2>3. CASE RouteFails(s) \/ (RouteTicket(s) /\ Answer(s, Keep))
    BY <2>3 DEF RouteFails
  <2> QED BY <2>1, <2>2, <2>3 DEF Route, RouteTicket
<1>2. issued' \in Versions /\ accepted' \subseteq Versions
  BY IssueTyped DEF Route, RouteLogin, RouteTicket, RouteLogout, RouteFails, gateVars, JarTypeOK
<1>3. UNCHANGED <<auth, jar, buf, ino, tmp, path, data, fails, overlapped>>
  BY DEF Route, fileVars
<1>4. /\ pc' \in [Slots -> PCs] /\ kind' \in [Slots -> Kinds]
      /\ sent' \in [Slots -> Versions \cup {Keep}]
      /\ pc[s] = "asked" /\ pc'[s] = "answered" /\ \A u \in Slots \ {s} : pc'[u] = pc[u]
  BY <1>1, AnswerTyped
<1> QED BY <1>2, <1>3, <1>4 DEF JarTypeOK

LEMMA VerbTyped ==
  ASSUME JarTypeOK, NEW s \in Slots, Login(s) \/ \E k \in Kinds \ {"login"} : Ask(s, k)
  PROVE  JarTypeOK'
<1>1. ASSUME NEW k \in Kinds, NEW d \in Versions, Send(s, k, d)
      PROVE  /\ pc' \in [Slots -> PCs] /\ kind' \in [Slots -> Kinds]
             /\ sent' \in [Slots -> Versions \cup {Keep}]
             /\ \A u \in Slots : ino[u] # NoFile <=> pc'[u] = "write"
  BY <1>1 DEF JarTypeOK, Send, Step, PCs
<1>2. CASE Login(s)
  <2>1. jar' \in Versions
    BY <1>2, StoredVersion DEF Login, JarTypeOK
  <2> QED BY <1>1, <1>2, <2>1 DEF Login, JarTypeOK, fileVars, gateVars, Kinds
<1>3. ASSUME NEW k \in Kinds \ {"login"}, Ask(s, k) PROVE JarTypeOK'
  BY <1>1, <1>3 DEF Ask, JarTypeOK, fileVars, gateVars
<1> QED BY <1>2, <1>3

LEMMA SaveTyped ==
  ASSUME JarTypeOK, NEW s \in Slots, Receive(s) \/ Save(s) \/ SaveFails(s) \/ GiveUp(s)
  PROVE  JarTypeOK'
<1> USE DEF Step, PCs, Saving, fileVars, gateVars
<1>1. CASE Receive(s)
  BY <1>1, CookieJarAssumption DEF Receive, JarTypeOK, Versions
<1>2. CASE Snapshot(s)
  BY <1>2 DEF Snapshot, JarTypeOK
<1>3. CASE OpenTmp(s)
  BY <1>3, CookieJarAssumption DEF OpenTmp, JarTypeOK
<1>4. CASE WriteTmp(s)
  BY <1>4, CookieJarAssumption DEF WriteTmp, JarTypeOK, Versions
<1>5. CASE Rename(s)
  BY <1>5 DEF Rename, JarTypeOK
<1>6. CASE SaveFails(s)
  BY <1>6, CookieJarAssumption DEF SaveFails, JarTypeOK, Versions
<1>7. CASE GiveUp(s)
  BY <1>7, CookieJarAssumption DEF GiveUp, JarTypeOK, Versions, Kinds
<1> QED BY <1>1, <1>2, <1>3, <1>4, <1>5, <1>6, <1>7 DEF Save

LEMMA TypeStep == JarTypeOK /\ [JarNext]_jarVars => JarTypeOK'
<1> SUFFICES ASSUME JarTypeOK, [JarNext]_jarVars PROVE JarTypeOK'
  OBVIOUS
<1>1. CASE Expire
  BY <1>1 DEF Expire, JarTypeOK, slotVars, fileVars
<1>2. CASE Restart
  <2>1. jar' \in Versions /\ 0 \in Versions
    BY <1>2, StoredVersion, CookieJarAssumption DEF Restart, Versions
  <2>2. /\ pc' \in [Slots -> PCs] /\ kind' \in [Slots -> Kinds]
        /\ sent' \in [Slots -> Versions \cup {Keep}] /\ buf' \in [Slots -> Versions]
        /\ ino' \in [Slots -> Inodes \cup {NoFile}]
        /\ \A s \in Slots : ino'[s] # NoFile <=> pc'[s] = "write"
    BY <1>2, <2>1 DEF Restart, PCs, Kinds
  <2>3. auth' \in BOOLEAN /\ overlapped' \in BOOLEAN
    BY <1>2 DEF Restart, Unreadable
  <2> QED BY <1>2, <2>1, <2>2, <2>3 DEF Restart, JarTypeOK, fileVars, gateVars
<1>3. CASE UNCHANGED jarVars
  BY <1>3 DEF jarVars, slotVars, fileVars, gateVars, JarTypeOK
<1> QED BY <1>1, <1>2, <1>3, RouteTyped, VerbTyped, SaveTyped DEF JarNext, Request

LEMMA TypeAlways == JarSpec => []JarTypeOK
BY TypeInit, TypeStep, PTL DEF JarSpec

-----------------------------------------------------------------------------
(* The cookie jar: a save on its own                                        *)

\* The jar and its temporary file are different files, whoever writes.
TwoFiles == tmp = NoFile \/ tmp # path

\* Without its client the process has found a jar it cannot read.
NoClientNoJar == ~auth => overlapped

\* The one that saves holds the temporary file; on its way from snapshot to
\* rename goes what is in memory, unless a write has failed.
OneSaves ==
  \A s, u \in Slots : pc[s] \in Saving /\ pc[u] \in Saving => s = u

SaveOnItsWay(s) ==
  /\ pc[s] = "write"  => ino[s] = tmp /\ data[tmp] = Torn
  /\ pc[s] = "rename" => tmp # NoFile /\ data[tmp] # Torn
  /\ fails = 0 => /\ pc[s] \in {"open", "write"} => buf[s] = jar
                  /\ pc[s] = "rename" => data[tmp] = jar

NobodySaves == \A s \in Slots : pc[s] \notin Saving

Lone ==
  /\ OneSaves
  /\ ~Unreadable
  /\ \A s \in Slots : SaveOnItsWay(s)
  /\ NobodySaves /\ fails = 0 => jar = Stored

JarInv == JarTypeOK /\ TwoFiles /\ NoClientNoJar /\ (~overlapped => Lone)

LEMMA JarInvInit == JarInit => JarInv
<1> SUFFICES ASSUME JarInit PROVE JarInv
  OBVIOUS
<1>1. JarTypeOK
  BY TypeInit
<1> QED BY <1>1 DEF JarInit, JarInv, TwoFiles, NoClientNoJar, Lone, OneSaves, Unreadable, SaveOnItsWay,
                    Saving, Stored

\* Nothing moves that has to do with a save.
LEMMA JarUntouched ==
  ASSUME JarInv, JarTypeOK', UNCHANGED <<jar, buf, ino, tmp, path, data, fails, overlapped>>,
         auth' = auth, \A s \in Slots : pc'[s] = pc[s] \/ {pc[s], pc'[s]} \cap Saving = {}
  PROVE  JarInv'
<1>1. \A s \in Slots : /\ pc'[s] \in Saving <=> pc[s] \in Saving
                       /\ pc'[s] \in Saving => pc'[s] = pc[s]
  OBVIOUS
<1>2. TwoFiles' /\ NoClientNoJar'
  BY DEF JarInv, TwoFiles, NoClientNoJar
<1>3. ~overlapped' => Lone'
  BY <1>1 DEF JarInv, Lone, OneSaves, Unreadable, SaveOnItsWay, NobodySaves, Stored, Saving
<1> QED BY <1>2, <1>3 DEF JarInv

LEMMA JarVerb ==
  ASSUME JarInv, JarTypeOK', NEW s \in Slots,
         \/ Login(s) \/ (\E k \in Kinds \ {"login"} : Ask(s, k))
         \/ Route(s) \/ GiveUp(s)
  PROVE  JarInv'
<1>1. CASE Login(s) /\ ~auth
  <2>1. overlapped /\ overlapped' /\ tmp' = tmp /\ path' = path
    BY <1>1 DEF JarInv, NoClientNoJar, Login, fileVars
  <2> QED BY <2>1 DEF JarInv, TwoFiles, NoClientNoJar
<1>2. CASE Login(s) /\ auth
  BY <1>2, JarUntouched DEF Login, Send, Step, fileVars, Saving, JarInv, JarTypeOK
<1>3. ASSUME NEW k \in Kinds, Ask(s, k) PROVE JarInv'
  BY <1>3, JarUntouched DEF Ask, Send, Step, fileVars, Saving, JarInv, JarTypeOK
<1>4. CASE Route(s)
  BY <1>4, RouteTyped, JarUntouched DEF Route, fileVars, Saving, JarInv
<1>5. CASE GiveUp(s)
  BY <1>5, JarUntouched DEF GiveUp, Step, fileVars, Saving, JarInv, JarTypeOK
<1> QED BY <1>1, <1>2, <1>3, <1>4, <1>5

\* Who is not saving while another is, on its own.
LEMMA OthersRest ==
  ASSUME JarInv, ~overlapped, NEW s \in Slots, pc[s] \in Saving
  PROVE  \A u \in Slots \ {s} : pc[u] \notin Saving
BY DEF JarInv, Lone, OneSaves

LEMMA JarReceive ==
  ASSUME JarInv, JarTypeOK', NEW s \in Slots, Receive(s)
  PROVE  JarInv'
<1>1. TwoFiles' /\ NoClientNoJar'
  BY DEF JarInv, TwoFiles, NoClientNoJar, Receive, fileVars
<1>2. ASSUME ~overlapped' PROVE Lone'
  <2>1. /\ Lone /\ pc'[s] = "snapshot"
        /\ \A u \in Slots \ {s} : pc[u] \notin Saving /\ pc'[u] = pc[u]
    BY <1>2 DEF JarInv, JarTypeOK, Receive, Step
  <2>2. OneSaves' /\ ~NobodySaves'
    BY <2>1 DEF OneSaves, NobodySaves, Saving
  <2>3. ~Unreadable'
    BY <2>1 DEF Lone, Unreadable, Receive, fileVars
  <2>4. \A u \in Slots : SaveOnItsWay(u)'
    BY <2>1 DEF SaveOnItsWay, Saving
  <2> QED BY <2>2, <2>3, <2>4 DEF Lone
<1> QED BY <1>1, <1>2 DEF JarInv

LEMMA JarSnapshot ==
  ASSUME JarInv, JarTypeOK', NEW s \in Slots, Snapshot(s)
  PROVE  JarInv'
<1>1. TwoFiles' /\ NoClientNoJar'
  BY DEF JarInv, TwoFiles, NoClientNoJar, Snapshot, fileVars
<1>2. ASSUME ~overlapped' PROVE Lone'
  <2>1. /\ Lone /\ pc'[s] = "open" /\ buf'[s] = jar' /\ pc[s] \in Saving
        /\ \A u \in Slots \ {s} : pc[u] \notin Saving /\ pc'[u] = pc[u]
    BY <1>2, OthersRest DEF JarInv, JarTypeOK, Snapshot, Step, Saving
  <2>2. OneSaves' /\ ~NobodySaves'
    BY <2>1 DEF OneSaves, NobodySaves, Saving
  <2>3. ~Unreadable'
    BY <2>1 DEF Lone, Unreadable, Snapshot, fileVars
  <2>4. \A u \in Slots : SaveOnItsWay(u)'
    BY <2>1 DEF SaveOnItsWay, Saving
  <2> QED BY <2>2, <2>3, <2>4 DEF Lone
<1> QED BY <1>1, <1>2 DEF JarInv

LEMMA JarOpen ==
  ASSUME JarInv, JarTypeOK', NEW s \in Slots, OpenTmp(s)
  PROVE  JarInv'
<1>1. PICK i \in Inodes :
        /\ IF tmp = NoFile THEN Unreferenced(i) ELSE i = tmp
        /\ tmp' = i /\ data' = [data EXCEPT ![i] = Torn] /\ ino' = [ino EXCEPT ![s] = i]
  BY DEF OpenTmp
<1>2. i # path /\ path' = path /\ jar' = jar /\ fails' = fails /\ buf' = buf
  BY <1>1 DEF JarInv, TwoFiles, Unreferenced, OpenTmp
<1>3. TwoFiles' /\ NoClientNoJar'
  BY <1>1, <1>2 DEF JarInv, TwoFiles, NoClientNoJar, OpenTmp
<1>4. ASSUME ~overlapped' PROVE Lone'
  <2>1. /\ Lone /\ pc[s] = "open" /\ pc'[s] = "write"
        /\ \A u \in Slots \ {s} : pc[u] \notin Saving /\ pc'[u] = pc[u]
    BY <1>4, OthersRest DEF JarInv, JarTypeOK, OpenTmp, Step, Saving
  <2>2. OneSaves' /\ ~NobodySaves'
    BY <2>1 DEF OneSaves, NobodySaves, Saving
  <2>3. ~Unreadable'
    BY <1>1, <1>2, <2>1 DEF Lone, Unreadable, JarInv, JarTypeOK
  <2>4. ino'[s] = tmp' /\ data'[tmp'] = Torn
    BY <1>1 DEF JarInv, JarTypeOK
  <2>5. SaveOnItsWay(s)'
    BY <1>2, <2>1, <2>4 DEF Lone, SaveOnItsWay
  <2>6. \A u \in Slots \ {s} : SaveOnItsWay(u)'
    BY <2>1 DEF SaveOnItsWay, Saving
  <2> QED BY <2>2, <2>3, <2>5, <2>6 DEF Lone
<1> QED BY <1>3, <1>4 DEF JarInv

LEMMA JarWrite ==
  ASSUME JarInv, JarTypeOK', NEW s \in Slots, WriteTmp(s)
  PROVE  JarInv'
<1>1. TwoFiles' /\ NoClientNoJar'
  BY DEF JarInv, TwoFiles, NoClientNoJar, WriteTmp
<1>2. ASSUME ~overlapped' PROVE Lone'
  <2>1. /\ Lone /\ pc[s] = "write" /\ pc'[s] = "rename"
        /\ \A u \in Slots \ {s} : pc[u] \notin Saving /\ pc'[u] = pc[u]
    BY <1>2, OthersRest DEF JarInv, JarTypeOK, WriteTmp, Step, Saving
  <2>2. ino[s] = tmp /\ data[tmp] = Torn /\ tmp # NoFile /\ tmp # path /\ tmp \in Inodes
    BY <2>1 DEF Lone, SaveOnItsWay, JarInv, JarTypeOK, TwoFiles
  <2>3. data' = [data EXCEPT ![tmp] = buf[s]] /\ tmp' = tmp /\ path' = path
    BY <2>2 DEF WriteTmp
  <2>4. buf[s] # Torn
    BY CookieJarAssumption DEF JarInv, JarTypeOK, Versions
  <2>5. OneSaves' /\ ~NobodySaves'
    BY <2>1 DEF OneSaves, NobodySaves, Saving
  <2>6. ~Unreadable'
    BY <2>1, <2>2, <2>3 DEF Lone, Unreadable, JarInv, JarTypeOK
  <2>7. data'[tmp'] = buf[s] /\ jar' = jar /\ fails' = fails
    BY <2>2, <2>3 DEF JarInv, JarTypeOK, WriteTmp
  <2>8. SaveOnItsWay(s)'
    BY <2>1, <2>2, <2>3, <2>4, <2>7 DEF Lone, SaveOnItsWay
  <2>9. \A u \in Slots \ {s} : SaveOnItsWay(u)'
    BY <2>1 DEF SaveOnItsWay, Saving
  <2> QED BY <2>5, <2>6, <2>8, <2>9 DEF Lone
<1> QED BY <1>1, <1>2 DEF JarInv

LEMMA JarRename ==
  ASSUME JarInv, JarTypeOK', NEW s \in Slots, Rename(s)
  PROVE  JarInv'
<1>1. TwoFiles' /\ NoClientNoJar'
  BY DEF JarInv, TwoFiles, NoClientNoJar, Rename
<1>2. ASSUME ~overlapped' PROVE Lone'
  <2>1. /\ Lone /\ pc[s] = "rename" /\ pc'[s] = "idle"
        /\ \A u \in Slots \ {s} : pc[u] \notin Saving /\ pc'[u] = pc[u]
    BY <1>2, OthersRest DEF JarInv, JarTypeOK, Rename, Step, Saving
  <2>2. /\ tmp # NoFile /\ path' = tmp /\ data' = data /\ data[tmp] # Torn
        /\ fails = 0 => jar = data[tmp]
        /\ jar' = jar /\ fails' = fails
    BY <2>1 DEF Lone, SaveOnItsWay, Rename
  <2>3. OneSaves' /\ ~Unreadable' /\ (fails' = 0 => jar' = Stored')
    BY <2>1, <2>2 DEF OneSaves, Saving, Unreadable, Stored
  <2>4. \A u \in Slots : SaveOnItsWay(u)'
    BY <2>1 DEF SaveOnItsWay, Saving
  <2> QED BY <2>3, <2>4 DEF Lone
<1> QED BY <1>1, <1>2 DEF JarInv

LEMMA JarFails ==
  ASSUME JarInv, JarTypeOK', NEW s \in Slots, SaveFails(s)
  PROVE  JarInv'
<1>1. TwoFiles' /\ NoClientNoJar'
  BY DEF JarInv, TwoFiles, NoClientNoJar, SaveFails
<1>2. ASSUME ~overlapped' PROVE Lone'
  <2>1. /\ Lone /\ pc'[s] = "idle" /\ fails' # 0
        /\ \A u \in Slots \ {s} : pc[u] \notin Saving /\ pc'[u] = pc[u]
    BY <1>2, OthersRest DEF JarInv, JarTypeOK, SaveFails, Step, Saving
  <2>2. OneSaves'
    BY <2>1 DEF OneSaves, Saving
  <2>3. ~Unreadable'
    BY <2>1 DEF Lone, Unreadable, SaveFails
  <2>4. \A u \in Slots : SaveOnItsWay(u)'
    BY <2>1 DEF SaveOnItsWay, Saving
  <2> QED BY <2>1, <2>2, <2>3, <2>4 DEF Lone
<1> QED BY <1>1, <1>2 DEF JarInv

\* A restart rides on what is on the disk: with a jar that can be read the
\* process starts as if it had just saved it.
LEMMA JarRestart ==
  ASSUME JarInv, JarTypeOK', Restart
  PROVE  JarInv'
<1>1. TwoFiles'
  BY DEF JarInv, TwoFiles, Restart, fileVars
<1>2. Unreadable' <=> Unreadable
  BY DEF Restart, fileVars, Unreadable
<1>3. NoClientNoJar'
  BY DEF NoClientNoJar, Restart
<1>4. ASSUME ~overlapped' PROVE Lone'
  <2>1. ~Unreadable /\ jar' = Stored /\ Stored' = Stored /\ \A u \in Slots : pc'[u] = "idle"
    BY <1>4 DEF Restart, fileVars, Stored
  <2> QED BY <1>2, <2>1 DEF Lone, OneSaves, SaveOnItsWay, NobodySaves, Saving
<1> QED BY <1>1, <1>3, <1>4 DEF JarInv

LEMMA JarStep == JarInv /\ [JarNext]_jarVars => JarInv'
<1> SUFFICES ASSUME JarInv, [JarNext]_jarVars PROVE JarInv'
  OBVIOUS
<1>1. JarTypeOK'
  BY TypeStep DEF JarInv
<1>2. ASSUME NEW s \in Slots, Request(s) PROVE JarInv'
  BY <1>1, <1>2, JarVerb, JarReceive, JarSnapshot, JarOpen, JarWrite, JarRename, JarFails
     DEF Request, Save
<1>3. CASE Expire \/ UNCHANGED jarVars
  BY <1>1, <1>3, JarUntouched DEF Expire, jarVars, slotVars, fileVars
<1> QED BY <1>1, <1>2, <1>3, JarVerb, JarRestart DEF JarNext

LEMMA JarAlways == JarSpec => []JarInv
BY JarInvInit, JarStep, PTL DEF JarSpec

-----------------------------------------------------------------------------
(* The cookie jar: theorems                                                 *)

\* The cookie jar, its files and the requests in flight are well typed, and a
\* save holds a file open exactly while it writes it (AuthClient).
THEOREM JarTyped == JarSpec => []JarTypeOK
BY TypeAlways

\* Whenever the process is killed, saves that never overlapped leave a jar that
\* AuthClient::new can read: save_jar's write and rename are atomic for one
\* writer, with failing writes and cookies changing under the save.
THEOREM LoneSaves == JarSpec => []LoneSavesAreWhole
<1>1. JarInv => LoneSavesAreWhole
  BY DEF JarInv, Lone, LoneSavesAreWhole
<1> QED BY <1>1, JarAlways, PTL

\* When nothing is being saved the file holds the cookies in memory, but for a
\* failed write or overlapping saves (send, save_jar): the next process goes on
\* with the session.
THEOREM IdleSaved == JarSpec => []IdleJarIsSaved
<1>1. JarInv => IdleJarIsSaved
  BY DEF JarInv, JarTypeOK, Lone, NobodySaves, Saving, PCs, IdleJarIsSaved
<1> QED BY <1>1, JarAlways, PTL

=============================================================================
