------------------------------- MODULE Gateway -------------------------------
(***************************************************************************)
(* The gateway the app is exercised against (fake_gateway/server.rs): its  *)
(* session table behind one mutex, a task per connection, a task per turn, *)
(* the delayed sender of a create's title, and the single-use tickets.     *)
(*                                                                         *)
(* Every lock section is a step.  A connection's task serves one request   *)
(* at a time and does not write to its socket meanwhile; the tasks of      *)
(* other connections and of turns run in parallel with it.  A turn's task  *)
(* can be aborted only while it sleeps: a poll that has begun is finished, *)
(* with the turn's next lock section in it.                                *)
(*                                                                         *)
(* Session ids are numbers, "fake-session-n"; a client may name one it     *)
(* remembers from an earlier process.  A record's order is unique in the   *)
(* process, so that it also tells one life of an id from the next.         *)
(***************************************************************************)
EXTENDS Naturals, Sequences, Positions

CONSTANTS
  Conns,        \* connections, each used once
  Tickets,
  Turns,        \* turn tasks, recycled when nothing refers to them
  None,
  Absent,       \* no record under the id
  MaxSid,       \* bound: session ids
  TurnLength,   \* frames of a recorded turn, the last one its completion
  DropAfter,    \* --drop-after, 0 when it is not given
  MaxRequests   \* bound: requests

ASSUME GatewayAssumption ==
  /\ MaxSid \in Nat \ {0} /\ TurnLength \in Nat \ {0} /\ DropAfter \in Nat /\ MaxRequests \in Nat
  /\ None \notin Conns \cup Tickets \cup Turns

VARIABLES
  sessions,     \* GatewayState.sessions
  nextSid, nextOrder,
  tickets,      \* "unminted", "unspent", "spent"
  armed,        \* drop_armed
  conn,         \* per connection: its state, the ticket it came with, sent
  out,          \* per connection: the channel to its socket
  serving,      \* per connection: where its handler is, and for what
  asked,        \* requests so far (a bound)
  turn,         \* the turn tasks
  delayed       \* titles waiting for their 50 ms

connVars == <<conn, out, serving, asked>>
vars     == <<sessions, nextSid, nextOrder, tickets, armed, connVars, turn, delayed>>

Sids   == 1..MaxSid
Events == {"title", "frame", "complete", "interrupted"}

Idle == [pc |-> "idle", sid |-> 1, turn |-> None]
Free == [pc |-> "free", sid |-> 1, conn |-> None, left |-> 0, aborted |-> FALSE,
         frame |-> None]

Init ==
  /\ sessions = [s \in Sids |-> Absent]
  /\ nextSid = 1 /\ nextOrder = 0
  /\ tickets = [k \in Tickets |-> "unminted"]
  /\ armed = (DropAfter > 0)
  /\ conn = [c \in Conns |-> [state |-> "new", ticket |-> None, sent |-> 0]]
  /\ out = [c \in Conns |-> << >>]
  /\ serving = [c \in Conns |-> Idle]
  /\ asked = 0
  /\ turn = [t \in Turns |-> Free]
  /\ delayed = {}

-----------------------------------------------------------------------------
(* Records                                                                  *)

Present(s) == sessions[s] # Absent

Fresh == [order |-> nextOrder, titled |-> FALSE, running |-> FALSE, seq |-> 0,
          events |-> << >>, turn |-> None]

\* sessions.entry(id).or_insert_with(..)
Entry(s)   == IF Present(s) THEN sessions[s] ELSE Fresh
Counted(s) == nextOrder' = IF Present(s) THEN nextOrder ELSE nextOrder + 1

\* next_seq_and_record, of a record.
Recorded(r, e) ==
  [r EXCEPT !.seq = @ + 1, !.events = Append(@, [seq |-> r.seq + 1, type |-> e])]

\* The frame of the event a record holds last.
Frame(s, r) == [sid |-> s, life |-> r.order, seq |-> r.seq, type |-> r.events[Len(r.events)].type]
Reply == [sid |-> 0, life |-> 0, seq |-> 0, type |-> "reply"]

\* Into the connection's channel: a dead one takes nothing, and that is no error.
Post(c, frames) ==
  out' = IF conn[c].state = "open" THEN [out EXCEPT ![c] = @ \o frames] ELSE out

-----------------------------------------------------------------------------
(* Tickets and connections                                                  *)

\* POST /api/auth/ws-ticket with a session cookie.
MintTicket ==
  \E k \in Tickets :
    /\ tickets[k] = "unminted"
    /\ tickets' = [tickets EXCEPT ![k] = "unspent"]
    /\ UNCHANGED <<sessions, nextSid, nextOrder, armed, connVars, turn, delayed>>

\* serve_ws returns: the channel goes with its receiver.
Ended(c, k) ==
  /\ conn' = [conn EXCEPT ![c] = [state |-> "closed", ticket |-> k, sent |-> 0]]
  /\ out'  = [out EXCEPT ![c] = << >>]

\* A frame has gone out on c, whose channel then holds q.  The connection is
\* dropped after the n-th frame, once in the process, or fails, and its channel
\* with it.  (The counter stops at n: beyond it every frame is the same.)
Count(c, n) == IF n < DropAfter THEN n + 1 ELSE DropAfter
OnWire(c, n, k, q) ==
  LET dropped == armed /\ Count(c, n) >= DropAfter
  IN \/ /\ ~dropped
        /\ conn' = [conn EXCEPT ![c] = [state |-> "open", ticket |-> k, sent |-> Count(c, n)]]
        /\ out' = [out EXCEPT ![c] = q]
        /\ UNCHANGED armed
     \/ dropped /\ armed' = FALSE /\ Ended(c, k)
     \/ UNCHANGED armed /\ Ended(c, k)      \* the send fails

\* accept_ws, and the gateway.ready frame it begins with.  The handshake may
\* fail after its ticket was taken.
Accept(c) ==
  \E k \in Tickets :
    /\ conn[c].state = "new" /\ tickets[k] = "unspent"
    /\ tickets' = [tickets EXCEPT ![k] = "spent"]
    /\ OnWire(c, 0, k, << >>)
    /\ UNCHANGED <<sessions, nextSid, nextOrder, serving, asked, turn, delayed>>

\* serve_ws: the next frame of the channel.
Deliver(c) ==
  /\ conn[c].state = "open" /\ serving[c].pc = "idle" /\ out[c] # << >>
  /\ OnWire(c, conn[c].sent, conn[c].ticket, Tail(out[c]))
  /\ UNCHANGED <<sessions, nextSid, nextOrder, tickets, serving, asked, turn, delayed>>

\* Mutation: the connection's end cuts its handler short.
HangUpAtOnce(c) ==
  /\ conn[c].state = "open"
  /\ Ended(c, conn[c].ticket)
  /\ UNCHANGED <<sessions, nextSid, nextOrder, tickets, armed, serving, asked, turn, delayed>>

\* serve_ws: the client closes, or the stream ends.
HangUp(c) ==
  /\ conn[c].state = "open" /\ serving[c].pc = "idle"
  /\ Ended(c, conn[c].ticket)
  /\ UNCHANGED <<sessions, nextSid, nextOrder, tickets, armed, serving, asked, turn, delayed>>

-----------------------------------------------------------------------------
(* Requests.  A handler replies into the channel of its connection.  The    *)
(* requests that only read (ping, list, most_recent, events.since, pending, *)
(* slash.exec, ...) are one.                                                *)

Ask(c) ==
  /\ conn[c].state = "open" /\ serving[c].pc = "idle" /\ asked < MaxRequests
  /\ asked' = asked + 1
  /\ UNCHANGED <<conn, tickets, armed>>

Read(c) ==
  /\ Ask(c) /\ Post(c, <<Reply>>)
  /\ UNCHANGED <<sessions, nextSid, nextOrder, serving, turn, delayed>>

\* session.resume and session.title make the record they name.
Touch(c, s, titled) ==
  /\ Ask(c) /\ Post(c, <<Reply>>)
  /\ sessions' = [sessions EXCEPT ![s] = [Entry(s) EXCEPT !.titled = @ \/ titled]]
  /\ Counted(s)
  /\ UNCHANGED <<nextSid, serving, turn, delayed>>

\* session.create: the id is the next number, whoever holds it already; an
\* older record is replaced, its turn left running.
Create(c, titled) ==
  /\ Ask(c) /\ nextSid \in Sids
  /\ sessions' = [sessions EXCEPT ![nextSid] = [Fresh EXCEPT !.titled = titled]]
  /\ nextSid' = nextSid + 1 /\ nextOrder' = nextOrder + 1
  /\ Post(c, <<Reply>>)
  /\ serving' = IF titled THEN [serving EXCEPT ![c].pc = "title", ![c].sid = nextSid] ELSE serving
  /\ UNCHANGED <<turn, delayed>>

\* The title becomes an event, sent later.
CreateTitle(c) ==
  LET s == serving[c].sid
      r == Recorded(sessions[s], "title")
  IN /\ serving[c].pc = "title"
     /\ serving' = [serving EXCEPT ![c] = Idle]
     /\ IF Present(s)
          THEN /\ sessions' = [sessions EXCEPT ![s] = r]
               /\ delayed' = delayed \cup {[conn |-> c, frame |-> Frame(s, r)]}
          ELSE UNCHANGED <<sessions, delayed>>
     /\ UNCHANGED <<nextSid, nextOrder, tickets, armed, conn, out, asked, turn>>

SendDelayed ==
  \E d \in delayed :
    /\ delayed' = delayed \ {d}
    /\ Post(d.conn, <<d.frame>>)
    /\ UNCHANGED <<sessions, nextSid, nextOrder, tickets, armed, conn, serving, asked, turn>>

\* JoinHandle::abort, of the task a record holds.
Abort(r) ==
  turn' = IF r.turn = None THEN turn ELSE [turn EXCEPT ![r.turn].aborted = TRUE]

\* session.close
Close(c, s) ==
  /\ Ask(c) /\ Post(c, <<Reply>>)
  /\ IF Present(s) THEN Abort(sessions[s]) /\ sessions' = [sessions EXCEPT ![s] = Absent]
                   ELSE UNCHANGED <<turn, sessions>>
  /\ UNCHANGED <<nextSid, nextOrder, serving, delayed>>

\* Mutation: the flag is left to the turn that was just aborted.
InterruptStillRunning(c, s) ==
  LET r == Recorded([sessions[s] EXCEPT !.turn = None], "interrupted")
  IN /\ Ask(c)
     /\ IF Present(s) /\ sessions[s].running
          THEN /\ Abort(sessions[s])
               /\ sessions' = [sessions EXCEPT ![s] = r]
               /\ Post(c, <<Frame(s, r), Reply>>)
          ELSE Post(c, <<Reply>>) /\ UNCHANGED <<turn, sessions>>
     /\ UNCHANGED <<nextSid, nextOrder, serving, delayed>>

\* Mutation: the completion is pushed under the number of the last event.
InterruptSameSeq(c, s) ==
  LET r == [sessions[s] EXCEPT !.turn = None, !.running = FALSE,
              !.events = Append(@, [seq |-> sessions[s].seq, type |-> "interrupted"])]
  IN /\ Ask(c)
     /\ IF Present(s) /\ sessions[s].running
          THEN /\ Abort(sessions[s])
               /\ sessions' = [sessions EXCEPT ![s] = r]
               /\ Post(c, <<Frame(s, r), Reply>>)
          ELSE Post(c, <<Reply>>) /\ UNCHANGED <<turn, sessions>>
     /\ UNCHANGED <<nextSid, nextOrder, serving, delayed>>

\* session.interrupt: the turn is aborted, and completed in its place.
Interrupt(c, s) ==
  LET r == Recorded([sessions[s] EXCEPT !.turn = None, !.running = FALSE], "interrupted")
  IN /\ Ask(c)
     /\ IF Present(s) /\ sessions[s].running
          THEN /\ Abort(sessions[s])
               /\ sessions' = [sessions EXCEPT ![s] = r]
               /\ Post(c, <<Frame(s, r), Reply>>)
          ELSE Post(c, <<Reply>>) /\ UNCHANGED <<turn, sessions>>
     /\ UNCHANGED <<nextSid, nextOrder, serving, delayed>>

\* prompt.submit: the flag and the reply, then the task, then its handle in
\* the record the id has by then.
Submit(c, s) ==
  /\ Ask(c) /\ Post(c, <<Reply>>) /\ Counted(s)
  /\ IF Entry(s).running
       THEN UNCHANGED <<sessions, serving>>
       ELSE /\ sessions' = [sessions EXCEPT ![s] = [Entry(s) EXCEPT !.running = TRUE]]
            /\ serving' = [serving EXCEPT ![c].pc = "spawn", ![c].sid = s]
  /\ UNCHANGED <<nextSid, turn, delayed>>

Unheld(t) == /\ turn[t].pc = "free"
             /\ \A s \in Sids : Present(s) => sessions[s].turn # t
             /\ \A c \in Conns : serving[c].turn # t

SubmitSpawn(c) ==
  \E t \in Turns :
    /\ serving[c].pc = "spawn" /\ Unheld(t)
    /\ turn' = [turn EXCEPT ![t] = [Free EXCEPT !.pc = "asleep", !.sid = serving[c].sid,
                                                !.conn = c, !.left = TurnLength]]
    /\ serving' = [serving EXCEPT ![c].pc = "store", ![c].turn = t]
    /\ UNCHANGED <<sessions, nextSid, nextOrder, tickets, armed, conn, out, asked, delayed>>

SubmitStore(c) ==
  LET s == serving[c].sid
  IN /\ serving[c].pc = "store"
     /\ serving' = [serving EXCEPT ![c] = Idle]
     /\ sessions' = IF Present(s) THEN [sessions EXCEPT ![s].turn = serving[c].turn] ELSE sessions
     /\ UNCHANGED <<nextSid, nextOrder, tickets, armed, conn, out, asked, turn, delayed>>

-----------------------------------------------------------------------------
(* run_turn: sleep, then per frame record it, send it and sleep; at the end *)
(* the running flag is cleared.                                             *)

TurnWake(t) ==
  /\ turn[t].pc = "asleep"
  /\ turn' = IF turn[t].aborted THEN [turn EXCEPT ![t] = Free] ELSE [turn EXCEPT ![t].pc = "awake"]
  /\ UNCHANGED <<sessions, nextSid, nextOrder, tickets, armed, connVars, delayed>>

FrameType(t) == IF turn[t].left = 1 THEN "complete" ELSE "frame"

\* Mutation: recording makes the record again when the session is gone.
TurnRecordAnyway(t) ==
  LET s == turn[t].sid
      r == Recorded(Entry(s), FrameType(t))
  IN /\ turn[t].pc = "awake" /\ turn[t].left > 0
     /\ sessions' = [sessions EXCEPT ![s] = r] /\ Counted(s)
     /\ turn' = [turn EXCEPT ![t].pc = "sending", ![t].left = @ - 1, ![t].frame = Frame(s, r)]
     /\ UNCHANGED <<nextSid, tickets, armed, connVars, delayed>>

TurnRecord(t) ==
  LET s == turn[t].sid
      r == Recorded(sessions[s], FrameType(t))
  IN /\ turn[t].pc = "awake" /\ turn[t].left > 0
     /\ IF Present(s)
          THEN /\ sessions' = [sessions EXCEPT ![s] = r]
               /\ turn' = [turn EXCEPT ![t].pc = "sending", ![t].left = @ - 1, ![t].frame = Frame(s, r)]
          ELSE turn' = [turn EXCEPT ![t] = Free] /\ UNCHANGED sessions
     /\ UNCHANGED <<nextSid, nextOrder, tickets, armed, connVars, delayed>>

TurnSend(t) ==
  /\ turn[t].pc = "sending"
  /\ Post(turn[t].conn, <<turn[t].frame>>)
  /\ turn' = [turn EXCEPT ![t].pc = "asleep", ![t].frame = None]
  /\ UNCHANGED <<sessions, nextSid, nextOrder, tickets, armed, conn, serving, asked, delayed>>

\* Mutation: only the handle is cleared.
TurnEndStillRunning(t) ==
  LET s == turn[t].sid
  IN /\ turn[t].pc = "awake" /\ turn[t].left = 0
     /\ sessions' = IF Present(s) THEN [sessions EXCEPT ![s].turn = None] ELSE sessions
     /\ turn' = [turn EXCEPT ![t] = Free]
     /\ UNCHANGED <<nextSid, nextOrder, tickets, armed, connVars, delayed>>

TurnEnd(t) ==
  LET s == turn[t].sid
  IN /\ turn[t].pc = "awake" /\ turn[t].left = 0
     /\ sessions' = IF Present(s) THEN [sessions EXCEPT ![s].running = FALSE, ![s].turn = None]
                                  ELSE sessions
     /\ turn' = [turn EXCEPT ![t] = Free]
     /\ UNCHANGED <<nextSid, nextOrder, tickets, armed, connVars, delayed>>

-----------------------------------------------------------------------------
Request(c) ==
  \/ Read(c)
  \/ \E titled \in BOOLEAN : Create(c, titled) \/ (\E s \in Sids : Touch(c, s, titled))
  \/ \E s \in Sids : Close(c, s) \/ Interrupt(c, s) \/ Submit(c, s)

Handle(c) == CreateTitle(c) \/ SubmitSpawn(c) \/ SubmitStore(c)
RunTurn(t) == TurnWake(t) \/ TurnRecord(t) \/ TurnSend(t) \/ TurnEnd(t)

Next ==
  \/ MintTicket \/ SendDelayed
  \/ \E c \in Conns : Accept(c) \/ Deliver(c) \/ HangUp(c) \/ Request(c) \/ Handle(c)
  \/ \E t \in Turns : RunTurn(t)

Spec == Init /\ [][Next]_vars

\* The runtime polls every task that is ready; whether a client asks, or its
\* socket takes frames, is not up to it.
FairSpec == /\ Spec
            /\ \A c \in Conns : WF_vars(Handle(c))
            /\ \A t \in Turns : WF_vars(RunTurn(t))

-----------------------------------------------------------------------------
(* Properties                                                               *)

EventsOf == [seq : Nat \ {0}, type : Events]
FramesOf == [sid : Sids, life : Nat, seq : Nat \ {0}, type : Events]
Records  == [order : Nat, titled : BOOLEAN, running : BOOLEAN, seq : Nat,
             events : Seq(EventsOf), turn : Turns \cup {None}]

\* Absent is no record, and no log either.
ASSUME AbsentAssumption == Absent \notin Records /\ Absent \notin Seq(Events)

\* Everything has its type, and a handler is at work only for a connection
\* that is open (serve_ws returns between requests, never inside one).
TypeOK ==
  /\ sessions \in [Sids -> Records \cup {Absent}]
  /\ nextSid \in 1..(MaxSid + 1) /\ nextOrder \in Nat
  /\ tickets \in [Tickets -> {"unminted", "unspent", "spent"}]
  /\ armed \in BOOLEAN
  /\ conn \in [Conns -> [state : {"new", "open", "closed"}, ticket : Tickets \cup {None},
                         sent : 0..DropAfter]]
  /\ out \in [Conns -> Seq(FramesOf \cup {Reply})]
  /\ serving \in [Conns -> [pc : {"idle", "title", "spawn", "store"}, sid : Sids,
                            turn : Turns \cup {None}]]
  /\ asked \in 0..MaxRequests
  /\ turn \in [Turns -> [pc : {"free", "asleep", "awake", "sending"}, sid : Sids,
                         conn : Conns \cup {None}, left : 0..TurnLength, aborted : BOOLEAN,
                         frame : FramesOf \cup {None}]]
  /\ delayed \subseteq [conn : Conns, frame : FramesOf]
  /\ \A c \in Conns : serving[c].pc # "idle" => conn[c].state = "open"

\* A session marked running has a turn that will clear the mark: one that was
\* not aborted, or the handler about to start it.  Otherwise every later
\* prompt would be answered "redirected", with nobody to redirect it to.
HasTurn(s) ==
  \/ \E c \in Conns : serving[c].pc = "spawn" /\ serving[c].sid = s
  \/ \E t \in Turns : turn[t].pc # "free" /\ ~turn[t].aborted /\ turn[t].sid = s
RunningHasATurn == \A s \in Sids : Present(s) /\ sessions[s].running => HasTurn(s)

\* session.events.since: the events after the n-th, by their numbers.
EventsSince(r, n) == Picked(r.events, {i \in DOMAIN r.events : r.events[i].seq > n})

\* A replay gives what the client lacks, each event once and in order: of the
\* two places that number events (next_seq_and_record and the interrupt), none
\* skips or repeats a number, whatever turns run on the session.
ReplayFillsTheGap ==
  \A s \in Sids : Present(s) =>
    /\ sessions[s].seq = Len(sessions[s].events)
    /\ \A n \in 0..sessions[s].seq :
         EventsSince(sessions[s], n) = SubSeq(sessions[s].events, n + 1, sessions[s].seq)

\* The session table is a log in the sense the app relies on (SessionLog).
LogOf(s) == IF Present(s) THEN [i \in 1..Len(sessions[s].events) |-> sessions[s].events[i].type]
                          ELSE Absent
Log == INSTANCE SessionLog WITH
  Gone <- Absent, Interrupted <- "interrupted",
  log  <- [s \in Sids |-> LogOf(s)],
  busy <- [s \in Sids |-> Present(s) /\ sessions[s].running]
ImplementsLog == Log!Spec

\* A running session comes to rest: its turn ends, is interrupted, or goes
\* with the session, on whichever connection it was started and however that
\* one ended.
RunningEnds ==
  \A s \in Sids : (Present(s) /\ sessions[s].running) ~> ~(Present(s) /\ sessions[s].running)
=============================================================================
