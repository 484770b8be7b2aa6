----------------------------- MODULE Supervisor -----------------------------
(***************************************************************************)
(* The connection lifecycle of HermesCore (hermes_core/src/core.rs).       *)
(*                                                                         *)
(* Exported verbs (connect, disconnect, forget_gateway, app_did_foreground,*)
(* pair, login) run as tasks on a two-worker runtime; each may be          *)
(* interleaved with the others and with the supervisor, the one task that  *)
(* reads a connection's events and owns the reconnect ladder.  One action  *)
(* is one stretch of code between two points another task can observe: a   *)
(* lock section, an access to an atomic flag, or the return of an await.   *)
(*                                                                         *)
(* A connection is seen as the supervisor sees it, through its state       *)
(* watch: open, closed locally, or lost (any other close reason).  What a  *)
(* connection does inside is the subject of GatewayClient, what travels    *)
(* over it the subject of SessionSync.  The length of a backoff step is    *)
(* abstracted: the timer may fire at any time.                             *)
(***************************************************************************)
EXTENDS Naturals, FiniteSets

CONSTANTS
  Tasks,      \* slots for calls of exported verbs (concurrent app coroutines)
  Sups,       \* identities of supervisor tasks
  Conns,      \* identities of GatewayClient connections, recycled when unused
  Sinks,      \* EventSinks the app may register
  NoConn,     \* state.client = None
  NoSink      \* state.sink = None

ASSUME SupervisorAssumption ==
  /\ Tasks \cap Sups = {}
  /\ NoConn \notin Conns
  /\ NoSink \notin Sinks

VARIABLES
  pc,          \* where each task and supervisor is; "idle" when not running
  held,        \* the GatewayClient value in a local variable of the process
  heldSink,    \* the sink a process captured
  seen,        \* supervisor's watch: last connection state it has seen
  notified,    \* supervisor's stop waiter has been woken
  conn,        \* published state of every connection
  closedSent,  \* how many Closed statuses were published for a connection
  client,      \* CoreState.client
  sink,        \* CoreState.sink
  paired,      \* CoreState.endpoint.is_some()
  cookies,     \* the cookie jar holds a gateway session
  stopFlag,    \* HermesCore.stop_flag
  supervising  \* HermesCore.supervising

procVars == <<pc, held, heldSink, seen, notified>>
connVars == <<conn, closedSent>>
coreVars == <<client, sink, paired, cookies>>
flagVars == <<stopFlag, supervising>>
vars     == <<procVars, connVars, coreVars, flagVars>>

Procs == Tasks \cup Sups

TaskPCs == {"idle", "c_begin", "c_mint", "c_install", "c_unflag", "c_swap",
            "c_spawn", "f_swap", "f_sink", "f_begin", "f_mint", "f_install",
            "f_unflag", "f_spawn", "f_clear", "d_notify", "d_take", "d_close",
            "g_notify", "g_take", "g_wipe"}
SupPCs == {"idle", "start", "loop", "down", "ladder", "armed", "sleep",
           "s_begin", "s_mint", "s_install", "exit"}
ConnStates == {"open", "local", "lost"}

TypeOK ==
  /\ pc \in [Procs -> TaskPCs \cup SupPCs]
  /\ \A t \in Tasks : pc[t] \in TaskPCs
  /\ \A s \in Sups : pc[s] \in SupPCs
  /\ held \in [Procs -> Conns \cup {NoConn}]
  /\ heldSink \in [Procs -> Sinks \cup {NoSink}]
  /\ seen \in [Sups -> ConnStates]
  /\ notified \in [Sups -> BOOLEAN]
  /\ conn \in [Conns -> ConnStates]
  /\ closedSent \in [Conns -> Nat]
  /\ client \in Conns \cup {NoConn}
  /\ sink \in Sinks \cup {NoSink}
  /\ paired \in BOOLEAN /\ cookies \in BOOLEAN
  /\ stopFlag \in BOOLEAN /\ supervising \in BOOLEAN

Init ==
  /\ pc = [p \in Procs |-> "idle"]
  /\ held = [p \in Procs |-> NoConn]
  /\ heldSink = [p \in Procs |-> NoSink]
  /\ seen = [s \in Sups |-> "lost"]
  /\ notified = [s \in Sups |-> FALSE]
  /\ conn = [c \in Conns |-> "lost"]
  /\ closedSent = [c \in Conns |-> 0]
  /\ client = NoConn
  /\ sink = NoSink
  /\ paired \in BOOLEAN
  /\ cookies \in BOOLEAN
  /\ stopFlag = FALSE
  /\ supervising = FALSE

Goto(p, to) == pc' = [pc EXCEPT ![p] = to]
Step(p, from, to) == pc[p] = from /\ Goto(p, to)

\* A connection nobody refers to any more: nothing it does can be observed,
\* so its identity may be used again.
Unused(c) == client # c /\ \A p \in Procs : held[p] # c

-----------------------------------------------------------------------------
(* establish(): read endpoint and cookie jar under the lock, then await the *)
(* ws-ticket and the handshake.  Shared by connect, app_did_foreground and  *)
(* the ladder; the caller says where each outcome leads.                    *)

EstablishBegin(p, begin, mint, onError) ==
  /\ Step(p, begin, IF paired THEN mint ELSE onError)
  /\ UNCHANGED <<held, heldSink, seen, notified, connVars, coreVars, flagVars>>

EstablishOk(p, mint, install) ==
  /\ Step(p, mint, install)
  /\ cookies
  /\ \E c \in Conns :
       /\ Unused(c)
       /\ conn' = [conn EXCEPT ![c] = "open"]
       /\ closedSent' = [closedSent EXCEPT ![c] = 0]
       /\ held' = [held EXCEPT ![p] = c]
  /\ UNCHANGED <<heldSink, seen, notified, coreVars, flagVars>>

\* A network error, a rejected upgrade, a timeout; or SessionExpired (401).
EstablishErr(p, mint, onError) ==
  /\ Step(p, mint, onError)
  /\ UNCHANGED <<held, heldSink, seen, notified, connVars, coreVars, flagVars>>

Install(p, from, to) ==
  /\ Step(p, from, to)
  /\ client' = held[p]
  /\ UNCHANGED <<held, heldSink, seen, notified, connVars, sink, paired,
                 cookies, flagVars>>

Unflag(p, from, to) ==
  /\ Step(p, from, to)
  /\ stopFlag' = FALSE
  /\ UNCHANGED <<held, heldSink, seen, notified, connVars, coreVars, supervising>>

\* Mutation: the supervisor is awaited in the calling task, not spawned.
SpawnInline(t, from) ==
  /\ Step(t, from, "start")
  /\ UNCHANGED <<held, heldSink, seen, notified, connVars, coreVars, flagVars>>

\* handle.spawn(supervise(client, sink)); the spawning task then returns.
Spawn(t, from) ==
  /\ pc[t] = from
  /\ \E s \in Sups :
       /\ pc[s] = "idle"
       /\ pc' = [pc EXCEPT ![t] = "idle", ![s] = "start"]
       /\ held' = [held EXCEPT ![t] = NoConn, ![s] = held[t]]
       /\ heldSink' = [heldSink EXCEPT ![t] = NoSink, ![s] = heldSink[t]]
  /\ UNCHANGED <<seen, notified, connVars, coreVars, flagVars>>

Return(t, from) ==
  /\ Step(t, from, "idle")
  /\ held' = [held EXCEPT ![t] = NoConn]
  /\ heldSink' = [heldSink EXCEPT ![t] = NoSink]

-----------------------------------------------------------------------------
(* connect(sink)                                                            *)

ConnectStart(t, k) ==
  /\ Step(t, "idle", "c_begin")
  /\ sink' = k
  /\ heldSink' = [heldSink EXCEPT ![t] = k]
  /\ UNCHANGED <<held, seen, notified, connVars, client, paired, cookies, flagVars>>

\* Mutation: the result of the swap is not looked at.
ConnectSwapUnchecked(t) ==
  /\ Step(t, "c_swap", "c_spawn")
  /\ supervising' = TRUE
  /\ UNCHANGED <<held, heldSink, seen, notified, connVars, coreVars, stopFlag>>

ConnectSwap(t) ==
  /\ IF supervising
     THEN Return(t, "c_swap")      \* "a supervisor is already running, keeping it"
     ELSE Step(t, "c_swap", "c_spawn") /\ UNCHANGED <<held, heldSink>>
  /\ supervising' = TRUE
  /\ UNCHANGED <<seen, notified, connVars, coreVars, stopFlag>>

Connect(t) ==
  \/ \E k \in Sinks : ConnectStart(t, k)
  \/ EstablishBegin(t, "c_begin", "c_mint", "idle")
  \/ EstablishOk(t, "c_mint", "c_install")
  \/ EstablishErr(t, "c_mint", "idle")
  \/ Install(t, "c_install", "c_unflag")
  \/ Unflag(t, "c_unflag", "c_swap")
  \/ ConnectSwap(t)
  \/ Spawn(t, "c_spawn")

-----------------------------------------------------------------------------
(* app_did_foreground().  With a live supervisor it only probes, which      *)
(* changes nothing here.                                                    *)

ForegroundStart(t) ==
  /\ ~supervising
  /\ Step(t, "idle", "f_swap")
  /\ UNCHANGED <<held, heldSink, seen, notified, connVars, coreVars, flagVars>>

ForegroundSwap(t) ==
  /\ Step(t, "f_swap", IF supervising THEN "idle" ELSE "f_sink")
  /\ supervising' = TRUE
  /\ UNCHANGED <<held, heldSink, seen, notified, connVars, coreVars, stopFlag>>

ForegroundSink(t) ==
  /\ Step(t, "f_sink", IF sink = NoSink THEN "f_clear" ELSE "f_begin")
  /\ heldSink' = [heldSink EXCEPT ![t] = sink]
  /\ UNCHANGED <<held, seen, notified, connVars, coreVars, flagVars>>

ForegroundClear(t) ==
  /\ Return(t, "f_clear")
  /\ supervising' = FALSE
  /\ UNCHANGED <<seen, notified, connVars, coreVars, stopFlag>>

Foreground(t) ==
  \/ ForegroundStart(t)
  \/ ForegroundSwap(t)
  \/ ForegroundSink(t)
  \/ EstablishBegin(t, "f_begin", "f_mint", "f_clear")
  \/ EstablishOk(t, "f_mint", "f_install")
  \/ EstablishErr(t, "f_mint", "f_clear")
  \/ Install(t, "f_install", "f_unflag")
  \/ Unflag(t, "f_unflag", "f_spawn")
  \/ Spawn(t, "f_spawn")
  \/ ForegroundClear(t)

-----------------------------------------------------------------------------
(* disconnect() and forget_gateway()                                        *)

\* signal_stop() is two accesses: the flag, then notify_waiters().
StopFlagUp(t, to) ==
  /\ Step(t, "idle", to)
  /\ stopFlag' = TRUE
  /\ UNCHANGED <<held, heldSink, seen, notified, connVars, coreVars, supervising>>

NotifyWaiters(t, from, to) ==
  /\ Step(t, from, to)
  /\ notified' = [s \in Sups |-> notified[s] \/ pc[s] \in {"armed", "sleep"}]
  /\ UNCHANGED <<held, heldSink, seen, connVars, coreVars, flagVars>>

\* Closed(LOCAL_CLOSE_REASON), unless the connection closed before.
CloseLocally(c) ==
  conn' = IF c \in Conns /\ conn[c] = "open"
          THEN [conn EXCEPT ![c] = "local"] ELSE conn

DisconnectTake(t) ==
  /\ Step(t, "d_take", "d_close")
  /\ held' = [held EXCEPT ![t] = client]
  /\ client' = NoConn
  /\ UNCHANGED <<heldSink, seen, notified, connVars, sink, paired, cookies, flagVars>>

\* Mutation: disconnect publishes the Closed status itself as well.
DisconnectCloseAndReport(t) ==
  /\ Return(t, "d_close")
  /\ CloseLocally(held[t])
  /\ closedSent' = [c \in Conns |->
       IF c = held[t] THEN closedSent[c] + 1 ELSE closedSent[c]]
  /\ UNCHANGED <<seen, notified, coreVars, flagVars>>

DisconnectClose(t) ==
  /\ Return(t, "d_close")
  /\ CloseLocally(held[t])
  /\ UNCHANGED <<seen, notified, closedSent, coreVars, flagVars>>

Disconnect(t) ==
  \/ StopFlagUp(t, "d_notify")
  \/ NotifyWaiters(t, "d_notify", "d_take")
  \/ DisconnectTake(t)
  \/ DisconnectClose(t)

\* Here the guard of the lock lives to the end of the `if let`: one section.
ForgetTake(t) ==
  /\ Step(t, "g_take", "g_wipe")
  /\ client' = NoConn
  /\ CloseLocally(client)
  /\ UNCHANGED <<held, heldSink, seen, notified, closedSent, sink, paired,
                 cookies, flagVars>>

\* Endpoint, registry and sessions go; `auth` and the jar file are not touched.
ForgetWipe(t) ==
  /\ Step(t, "g_wipe", "idle")
  /\ paired' = FALSE
  /\ UNCHANGED <<held, heldSink, seen, notified, connVars, client, sink,
                 cookies, flagVars>>

Forget(t) ==
  \/ StopFlagUp(t, "g_notify")
  \/ NotifyWaiters(t, "g_notify", "g_take")
  \/ ForgetTake(t)
  \/ ForgetWipe(t)

Pair ==
  /\ paired' = TRUE
  /\ UNCHANGED <<procVars, connVars, client, sink, cookies, flagVars>>

Login ==
  /\ paired
  /\ cookies' = TRUE
  /\ UNCHANGED <<procVars, connVars, client, sink, paired, flagVars>>

-----------------------------------------------------------------------------
(* supervise()                                                              *)

\* The status published for connection c; Closed once per observed close.
Publish(c) ==
  closedSent' = IF conn[c] = "open" THEN closedSent
                ELSE [closedSent EXCEPT ![c] = @ + 1]

\* What a published state leads to.
AfterState(st) ==
  CASE st = "open"  -> "loop"
    [] st = "local" -> "exit"
    [] st = "lost"  -> "down"

\* Mutation: dead_on_arrival is not handled, the event loop is entered.
SupStartIntoLoop(s) ==
  /\ Step(s, "start", IF conn[held[s]] = "local" THEN "exit" ELSE "loop")
  /\ seen' = [seen EXCEPT ![s] = conn[held[s]]]
  /\ Publish(held[s])
  /\ UNCHANGED <<held, heldSink, notified, conn, coreVars, flagVars>>

\* Subscribe, mark the current value as seen and act on it: the watch will
\* not fire for it again.  The resume phase runs before the event loop; it
\* does not look at the watch.
SupStart(s) ==
  /\ Step(s, "start", AfterState(conn[held[s]]))
  /\ seen' = [seen EXCEPT ![s] = conn[held[s]]]
  /\ Publish(held[s])
  /\ UNCHANGED <<held, heldSink, notified, conn, coreVars, flagVars>>

SupStateChanged(s) ==
  /\ Step(s, "loop", AfterState(conn[held[s]]))
  /\ conn[held[s]] # seen[s]
  /\ seen' = [seen EXCEPT ![s] = conn[held[s]]]
  /\ Publish(held[s])
  /\ UNCHANGED <<held, heldSink, notified, conn, coreVars, flagVars>>

\* The dead client is not used again: the ladder replaces `current`.
SupDown(s) ==
  /\ Step(s, "down", IF stopFlag THEN "exit" ELSE "ladder")
  /\ held' = [held EXCEPT ![s] = NoConn]
  /\ UNCHANGED <<heldSink, seen, notified, connVars, coreVars, flagVars>>

\* sleep_until_stopped: register the waiter ...
SupArm(s) ==
  /\ Step(s, "ladder", "armed")
  /\ notified' = [notified EXCEPT ![s] = FALSE]
  /\ UNCHANGED <<held, heldSink, seen, connVars, coreVars, flagVars>>

\* Mutation: the flag is not read after registering.
SupWaitOnly(s) ==
  /\ Step(s, "armed", "sleep")
  /\ UNCHANGED <<held, heldSink, seen, notified, connVars, coreVars, flagVars>>

\* ... then read the flag, then wait.
SupReadFlag(s) ==
  /\ Step(s, "armed", IF stopFlag THEN "exit" ELSE "sleep")
  /\ UNCHANGED <<held, heldSink, seen, notified, connVars, coreVars, flagVars>>

SupWake(s) ==
  /\ notified[s]
  /\ Step(s, "sleep", "armed")
  /\ notified' = [notified EXCEPT ![s] = FALSE]
  /\ UNCHANGED <<held, heldSink, seen, connVars, coreVars, flagVars>>

\* The backoff step elapses; timeout() polls the waiter first.
SupTimer(s) ==
  /\ ~notified[s]
  /\ Step(s, "sleep", "s_begin")
  /\ UNCHANGED <<held, heldSink, seen, notified, connVars, coreVars, flagVars>>

\* SessionExpired: NeedsPassword is published and the supervisor returns.
SupExpired(s) ==
  /\ Step(s, "s_mint", "exit")
  /\ UNCHANGED <<held, heldSink, seen, notified, connVars, coreVars, flagVars>>

\* supervise() clears its own flag once supervise_inner has returned.
SupExit(s) ==
  /\ Return(s, "exit")
  /\ seen' = [seen EXCEPT ![s] = "lost"]
  /\ notified' = [notified EXCEPT ![s] = FALSE]
  /\ supervising' = FALSE
  /\ UNCHANGED <<connVars, coreVars, stopFlag>>

Supervise(s) ==
  \/ SupStart(s)
  \/ SupStateChanged(s)
  \/ SupDown(s)
  \/ SupArm(s)
  \/ SupReadFlag(s)
  \/ SupWake(s)
  \/ SupTimer(s)
  \/ EstablishBegin(s, "s_begin", "s_mint", "ladder")
  \/ EstablishOk(s, "s_mint", "s_install")
  \/ EstablishErr(s, "s_mint", "ladder")
  \/ SupExpired(s)
  \/ Install(s, "s_install", "start")
  \/ SupExit(s)

-----------------------------------------------------------------------------

\* The gateway, the network or the heartbeat ends a connection.
Lose(c) ==
  /\ conn[c] = "open"
  /\ conn' = [conn EXCEPT ![c] = "lost"]
  /\ UNCHANGED <<procVars, closedSent, coreVars, flagVars>>

TaskStep(t) == Connect(t) \/ Foreground(t) \/ Disconnect(t) \/ Forget(t)

Next ==
  \/ \E t \in Tasks : TaskStep(t)
  \/ \E s \in Sups : Supervise(s)
  \/ \E c \in Conns : Lose(c)
  \/ Pair
  \/ Login

Spec == Init /\ [][Next]_vars

(* Fairness.  The runtime polls every ready task, every await of a task     *)
(* has a timeout (15 s per HTTP call, 15 s for gateway.ready), and a gateway *)
(* that can be reached again and again answers in the end.  Nothing is       *)
(* assumed of the app, and nothing makes a connection fail.                  *)
Fairness ==
  \A s \in Sups : /\ WF_vars(Supervise(s))
                 /\ SF_vars(EstablishOk(s, "s_mint", "s_install"))

FairSpec == Spec /\ Fairness

-----------------------------------------------------------------------------
(* Properties                                                               *)

Alive(s) == pc[s] # "idle"

\* "Two supervisors would double-deliver every change and fight over the
\* reconnect": whatever connects, disconnects and foregrounds overlap, at
\* most one supervisor task exists.
AtMostOneSupervisor ==
  \A s1, s2 \in Sups : Alive(s1) /\ Alive(s2) => s1 = s2

\* Whoever must lower the supervising flag again: a task that won the swap
\* and has not handed it on, and a supervisor.
OwnsFlag(p) ==
  \/ /\ p \in Tasks
     /\ pc[p] \in {"c_spawn", "f_sink", "f_begin", "f_mint", "f_install",
                   "f_unflag", "f_spawn", "f_clear"}
  \/ p \in Sups /\ Alive(p)

Owners == {p \in Procs : OwnsFlag(p)}

\* The flag never sticks: it is up exactly while some process is bound to
\* lower it.  Otherwise "app_did_foreground would see a live supervisor
\* forever and only ping instead of recovering".
FlagHasOwner == supervising <=> Owners # {}

\* One close of a connection reaches the app as one Closed status, although
\* disconnect, forget_gateway and the peer may all close it and a client may
\* be dead before its supervisor starts.
ClosedReportedOnce == \A c \in Conns : closedSent[c] <= 1

Laddering == {"ladder", "armed", "sleep", "s_begin", "s_mint"}

\* A supervisor on the reconnect ladder leaves it when a stop is signalled,
\* even one that lands between reading the flag and going to sleep, and even
\* if the gateway never answers.
LadderHeedsStop ==
  \A s \in Sups :
    pc[s] \in Laddering /\ stopFlag ~> pc[s] \notin Laddering \/ ~stopFlag

\* A supervisor whose connection is lost, even before it first looked at it,
\* obtains a new one, unless it ends, a stop is signalled or the credentials
\* are missing.
LossIsRecovered ==
  \A s \in Sups :
    pc[s] \in {"start", "loop"} /\ conn[held[s]] = "lost"
      ~> pc[s] \in {"idle", "s_install"} \/ stopFlag \/ ~paired \/ ~cookies

(* Statements of the source that do not hold.                               *)

Quiet == \A t \in Tasks : pc[t] = "idle"

\* connect: it "spawns ONE supervisor task that owns the single broadcast
\* subscription"; an open client without a supervisor delivers nothing.
ConnectedMeansSupervised ==
  Quiet /\ client # NoConn /\ conn[client] = "open" => \E s \in Sups : Alive(s)

=============================================================================
