--------------------------- MODULE GatewayProofs ----------------------------
(***************************************************************************)
(* What the fake gateway keeps for any number of connections, session ids, *)
(* turns and requests: its types, that a session marked running has        *)
(* somebody to clear the mark, and that its session table is a log of the  *)
(* kind the app relies on (SessionLog).                                    *)
(***************************************************************************)
EXTENDS Gateway, SequenceTheorems, FiniteSetTheorems, TLAPS

Frames == FramesOf \cup {Reply}

(* The parts of TypeOK, by who changes them together.                       *)
TableOK == /\ sessions \in [Sids -> Records \cup {Absent}]
           /\ nextSid \in 1..(MaxSid + 1) /\ nextOrder \in Nat

SocketOK == /\ tickets \in [Tickets -> {"unminted", "unspent", "spent"}]
            /\ armed \in BOOLEAN
            /\ conn \in [Conns -> [state : {"new", "open", "closed"},
                                   ticket : Tickets \cup {None}, sent : 0..DropAfter]]

OutOK == out \in [Conns -> Seq(Frames)]

ServingOK == serving \in [Conns -> [pc : {"idle", "title", "spawn", "store"}, sid : Sids,
                                    turn : Turns \cup {None}]]

Tasks == [pc : {"free", "asleep", "awake", "sending"}, sid : Sids, conn : Conns \cup {None},
          left : 0..TurnLength, aborted : BOOLEAN, frame : FramesOf \cup {None}]

\* A turn at work has a connection to send to, and then a frame to send.
Equipped(u) == /\ u.pc # "free" => u.conn \in Conns
               /\ u.pc = "sending" => u.frame \in FramesOf
TurnOK == turn \in [Turns -> {u \in Tasks : Equipped(u)}]

DelayedOK == delayed \subseteq [conn : Conns, frame : FramesOf]

AtWork == \A c \in Conns : serving[c].pc # "idle" => conn[c].state = "open"

Typed == /\ TableOK /\ SocketOK /\ OutOK /\ ServingOK /\ TurnOK /\ DelayedOK /\ AtWork
         /\ asked \in 0..MaxRequests

-----------------------------------------------------------------------------
(* Lemmas about records and frames                                          *)

\* A record that is there is one.
LEMMA PresentRecord ==
  ASSUME TableOK, NEW s \in Sids, Present(s)
  PROVE  sessions[s] \in Records
BY DEF TableOK, Present

LEMMA FreshRecord ==
  ASSUME TableOK
  PROVE  Fresh \in Records /\ ~Fresh.running /\ Fresh.turn = None /\ Fresh.events = << >>
BY DEF TableOK, Fresh, Records

\* next_seq_and_record adds one event and touches nothing else of a record.
LEMMA RecordedRecord ==
  ASSUME NEW r \in Records, NEW e \in Events
  PROVE  /\ Recorded(r, e) \in Records
         /\ Recorded(r, e).events = Append(r.events, [seq |-> r.seq + 1, type |-> e])
         /\ Recorded(r, e).seq = r.seq + 1
         /\ Recorded(r, e).running = r.running
         /\ Recorded(r, e).turn = r.turn
         /\ Recorded(r, e).order = r.order
<1>1. r.events \in Seq(EventsOf) /\ r.seq \in Nat
  BY DEF Records
<1>2. [seq |-> r.seq + 1, type |-> e] \in EventsOf
  BY <1>1 DEF EventsOf
<1>3. Append(r.events, [seq |-> r.seq + 1, type |-> e]) \in Seq(EventsOf)
  BY <1>1, <1>2
<1> DEFINE ev == [seq |-> r.seq + 1, type |-> e]
           q  == [r EXCEPT !.seq = r.seq + 1, !.events = Append(r.events, ev)]
<1>4. Recorded(r, e) = q
  BY DEF Recorded, Records
<1>5. q \in Records
  <2>1. ASSUME NEW n \in Nat, NEW es \in Seq(EventsOf)
        PROVE  [r EXCEPT !.seq = n, !.events = es] \in Records
    BY DEF Records
  <2>2. r.seq + 1 \in Nat /\ Append(r.events, ev) \in Seq(EventsOf)
    BY <1>1, <1>3
  <2> HIDE DEF ev
  <2> QED BY <2>1, <2>2, Zenon
<1>6. /\ q.events = Append(r.events, ev) /\ q.seq = r.seq + 1
      /\ q.running = r.running /\ q.turn = r.turn /\ q.order = r.order
  BY DEF Records
<1> QED BY <1>4, <1>5, <1>6

\* The frame of an event just recorded is a frame.
LEMMA RecordedFrame ==
  ASSUME NEW r \in Records, NEW e \in Events, NEW s \in Sids
  PROVE  Frame(s, Recorded(r, e)) \in FramesOf
<1> DEFINE q == Recorded(r, e)
           ev == [seq |-> r.seq + 1, type |-> e]
<1>1. /\ q.order \in Nat /\ q.seq \in Nat \ {0}
      /\ q.events = Append(r.events, ev)
  BY RecordedRecord DEF Records
<1>2. r.events \in Seq(EventsOf)
  BY DEF Records
<1>3. q.events[Len(q.events)] = ev
  BY <1>1, <1>2
<1>4. /\ Frame(s, q).sid = s /\ Frame(s, q).life = q.order
      /\ Frame(s, q).seq = q.seq /\ Frame(s, q).type = e
  BY <1>3 DEF Frame
<1> QED BY <1>1, <1>3, <1>4 DEF Frame, FramesOf

LEMMA EntryRecord ==
  ASSUME TableOK, NEW s \in Sids
  PROVE  Entry(s) \in Records
BY PresentRecord, FreshRecord DEF Entry

\* What is put into a channel keeps it typed.
LEMMA PostTyped ==
  ASSUME OutOK, NEW c \in Conns, NEW q \in Seq(Frames), Post(c, q)
  PROVE  OutOK'
BY DEF OutOK, Post

LEMMA ReplyFrames ==
  /\ Reply \in Frames
  /\ \A f \in FramesOf : f \in Frames /\ <<f>> \in Seq(Frames) /\ <<f, Reply>> \in Seq(Frames)
  /\ <<Reply>> \in Seq(Frames)
BY DEF Frames

-----------------------------------------------------------------------------
(* Types                                                                    *)

LEMMA InitTyped == Init => Typed
<1> SUFFICES ASSUME Init PROVE Typed
  OBVIOUS
<1>1. TableOK BY GatewayAssumption DEF Init, TableOK
<1>2. SocketOK BY GatewayAssumption DEF Init, SocketOK
<1>3. OutOK BY DEF Init, OutOK
<1>4. ServingOK /\ AtWork
  BY GatewayAssumption DEF Init, ServingOK, AtWork, Idle, Sids
<1>5. TurnOK BY GatewayAssumption DEF Init, TurnOK, Tasks, Equipped, Free, Sids
<1>6. DelayedOK /\ asked \in 0..MaxRequests
  BY GatewayAssumption DEF Init, DelayedOK
<1> QED BY <1>1, <1>2, <1>3, <1>4, <1>5, <1>6 DEF Typed

\* A frame written to a socket: the connection goes on, or ends.
LEMMA OnWireTyped ==
  ASSUME Typed, NEW c \in Conns, NEW n \in 0..DropAfter, NEW k \in Tickets \cup {None},
         NEW q \in Seq(Frames), conn[c].state = "open" => serving[c].pc = "idle",
         OnWire(c, n, k, q), tickets' \in [Tickets -> {"unminted", "unspent", "spent"}],
         serving' = serving
  PROVE  SocketOK' /\ OutOK' /\ AtWork'
<1> USE DEF Typed
<1>1. Count(c, n) \in 0..DropAfter
  BY GatewayAssumption DEF Count
<1>2. armed' \in BOOLEAN
  BY DEF OnWire, SocketOK
<1>3. serving[c].pc = "idle"
  BY DEF AtWork
<1>4. CASE /\ conn' = [conn EXCEPT ![c] = [state |-> "open", ticket |-> k, sent |-> Count(c, n)]]
           /\ out' = [out EXCEPT ![c] = q]
  BY <1>1, <1>2, <1>3, <1>4 DEF SocketOK, OutOK, AtWork
<1>5. CASE Ended(c, k)
  BY <1>2, <1>3, <1>5, GatewayAssumption DEF SocketOK, OutOK, AtWork, Ended
<1> QED BY <1>4, <1>5 DEF OnWire

\* Tickets, connections and the channels.
LEMMA WireTyped ==
  ASSUME Typed,
         MintTicket \/ SendDelayed \/ \E c \in Conns : Accept(c) \/ Deliver(c) \/ HangUp(c)
  PROVE  Typed'
<1> USE DEF Typed
<1>1. CASE MintTicket
  BY <1>1 DEF MintTicket, connVars, TableOK, SocketOK, OutOK, ServingOK, TurnOK, DelayedOK, AtWork
<1>2. CASE SendDelayed
  <2>1. PICK d \in delayed : delayed' = delayed \ {d} /\ Post(d.conn, <<d.frame>>)
    BY <1>2 DEF SendDelayed
  <2>2. OutOK'
    <3>1. d.conn \in Conns /\ d.frame \in FramesOf
      BY DEF DelayedOK
    <3> QED BY <2>1, <3>1, ReplyFrames, PostTyped
  <2>3. DelayedOK'
    BY <2>1 DEF DelayedOK
  <2> QED BY <1>2, <2>2, <2>3 DEF SendDelayed, TableOK, SocketOK, ServingOK, TurnOK, AtWork
<1>3. ASSUME NEW c \in Conns, Accept(c) PROVE Typed'
  <2>1. PICK k \in Tickets :
          /\ conn[c].state = "new"
          /\ tickets' = [tickets EXCEPT ![k] = "spent"]
          /\ OnWire(c, 0, k, << >>)
    BY <1>3 DEF Accept
  <2>2. tickets' \in [Tickets -> {"unminted", "unspent", "spent"}]
    BY <2>1 DEF SocketOK
  <2>3. SocketOK' /\ OutOK' /\ AtWork'
    <3>1. << >> \in Seq(Frames) /\ 0 \in 0..DropAfter
      BY GatewayAssumption
    <3> QED BY <1>3, <2>1, <2>2, <3>1, OnWireTyped DEF Accept
  <2> QED BY <1>3, <2>3 DEF Accept, TableOK, ServingOK, TurnOK, DelayedOK
<1>4. ASSUME NEW c \in Conns, Deliver(c) PROVE Typed'
  <2>1. Tail(out[c]) \in Seq(Frames)
    BY <1>4 DEF Deliver, OutOK
  <2>2. conn[c].sent \in 0..DropAfter /\ conn[c].ticket \in Tickets \cup {None}
    BY DEF SocketOK
  <2>3. SocketOK' /\ OutOK' /\ AtWork'
    <3>1. tickets' \in [Tickets -> {"unminted", "unspent", "spent"}]
      BY <1>4 DEF Deliver, SocketOK
    <3> QED BY <1>4, <2>1, <2>2, <3>1, OnWireTyped DEF Deliver
  <2> QED BY <1>4, <2>3 DEF Deliver, TableOK, ServingOK, TurnOK, DelayedOK
<1>5. ASSUME NEW c \in Conns, HangUp(c) PROVE Typed'
  <2>1. SocketOK' /\ OutOK'
    BY <1>5, GatewayAssumption DEF HangUp, Ended, SocketOK, OutOK
  <2>2. AtWork'
    BY <1>5 DEF HangUp, Ended, AtWork, SocketOK
  <2> QED BY <1>5, <2>1, <2>2 DEF HangUp, TableOK, ServingOK, TurnOK, DelayedOK
<1> QED BY <1>1, <1>2, <1>3, <1>4, <1>5

\* One record is set, or removed.
LEMMA TableSet ==
  ASSUME TableOK, NEW s \in Sids, NEW r \in Records \cup {Absent},
         sessions' = [sessions EXCEPT ![s] = r],
         nextSid' = nextSid \/ (nextSid \in Sids /\ nextSid' = nextSid + 1),
         nextOrder' = nextOrder \/ nextOrder' = nextOrder + 1
  PROVE  TableOK'
BY GatewayAssumption DEF TableOK, Sids

LEMMA AskTyped ==
  ASSUME Typed, NEW c \in Conns, Ask(c)
  PROVE  /\ SocketOK' /\ asked' \in 0..MaxRequests /\ conn' = conn
         /\ conn[c].state = "open" /\ serving[c].pc = "idle"
BY GatewayAssumption DEF Typed, Ask, SocketOK

LEMMA AbortTyped ==
  ASSUME Typed, NEW r \in Records, Abort(r)
  PROVE  TurnOK'
<1>1. CASE r.turn = None
  BY <1>1 DEF Typed, Abort, TurnOK
<1>2. CASE r.turn \in Turns
  <2> DEFINE u == [turn[r.turn] EXCEPT !.aborted = TRUE]
  <2>1. u \in Tasks /\ Equipped(u)
    BY <1>2 DEF Typed, TurnOK, Tasks, Equipped
  <2>2. turn' = [turn EXCEPT ![r.turn] = u]
    BY <1>2, GatewayAssumption DEF Abort, Typed, TurnOK
  <2> HIDE DEF u
  <2> QED BY <1>2, <2>1, <2>2 DEF Typed, TurnOK
<1> QED BY <1>1, <1>2 DEF Records

\* A request that leaves what its handler does next, the turns and the titles.
LEMMA PlainRequest ==
  ASSUME Typed, NEW c \in Conns, Ask(c), NEW q \in Seq(Frames), Post(c, q),
         TableOK', TurnOK', UNCHANGED <<serving, delayed>>
  PROVE  Typed'
BY AskTyped, PostTyped DEF Typed, ServingOK, DelayedOK, AtWork

LEMMA RequestTyped ==
  ASSUME Typed, NEW c \in Conns, Request(c)
  PROVE  Typed'
<1>1. CASE Read(c)
  BY <1>1, PlainRequest, ReplyFrames DEF Read, Typed, TableOK, TurnOK
<1>2. ASSUME NEW titled \in BOOLEAN, NEW s \in Sids, Touch(c, s, titled) PROVE Typed'
  <2>1. [Entry(s) EXCEPT !.titled = @ \/ titled] \in Records
    BY EntryRecord DEF Records, Typed
  <2>2. TableOK'
    BY <1>2, <2>1, TableSet DEF Typed, Touch, Counted
  <2> QED BY <1>2, <2>2, PlainRequest, ReplyFrames DEF Touch, Typed, TurnOK
<1>3. ASSUME NEW titled \in BOOLEAN, Create(c, titled) PROVE Typed'
  <2>1. [Fresh EXCEPT !.titled = titled] \in Records
    BY FreshRecord DEF Records, Typed
  <2>2. TableOK'
    BY <1>3, <2>1, TableSet DEF Typed, Create
  <2>3. ServingOK' /\ AtWork'
    BY <1>3, AskTyped DEF Create, Typed, ServingOK, AtWork
  <2> QED BY <1>3, <2>2, <2>3, AskTyped, PostTyped, ReplyFrames
          DEF Create, Typed, TurnOK, DelayedOK
<1>4. ASSUME NEW s \in Sids, Close(c, s) PROVE Typed'
  <2>1. TableOK'
    BY <1>4, TableSet DEF Typed, Close, TableOK
  <2>2. TurnOK'
    BY <1>4, AbortTyped, PresentRecord DEF Typed, Close, TurnOK
  <2> QED BY <1>4, <2>1, <2>2, PlainRequest, ReplyFrames DEF Close
<1>5. ASSUME NEW s \in Sids, Interrupt(c, s) PROVE Typed'
  <2> DEFINE b == [sessions[s] EXCEPT !.turn = None, !.running = FALSE]
             r == Recorded(b, "interrupted")
  <2>1. CASE Present(s) /\ sessions[s].running
    <3>1. b \in Records
      BY <2>1, PresentRecord DEF Records, Typed
    <3>2. r \in Records /\ Frame(s, r) \in FramesOf
      BY <3>1, RecordedRecord, RecordedFrame DEF Events
    <3> HIDE DEF b
    <3>3. Abort(sessions[s]) /\ sessions' = [sessions EXCEPT ![s] = r] /\ Post(c, <<Frame(s, r), Reply>>)
      BY <1>5, <2>1 DEF Interrupt, b
    <3>4. TableOK' /\ TurnOK'
      BY <1>5, <2>1, <3>2, <3>3, TableSet, AbortTyped, PresentRecord DEF Typed, Interrupt
    <3> QED BY <1>5, <3>2, <3>3, <3>4, PlainRequest, ReplyFrames DEF Interrupt
  <2>2. CASE ~(Present(s) /\ sessions[s].running)
    BY <1>5, <2>2, PlainRequest, ReplyFrames DEF Interrupt, Typed, TableOK, TurnOK
  <2> QED BY <2>1, <2>2
<1>6. ASSUME NEW s \in Sids, Submit(c, s) PROVE Typed'
  <2>1. [Entry(s) EXCEPT !.running = TRUE] \in Records
    BY EntryRecord DEF Records, Typed
  <2>2. TableOK'
    BY <1>6, <2>1, TableSet DEF Typed, Submit, Counted, TableOK
  <2>3. ServingOK' /\ AtWork'
    BY <1>6, AskTyped DEF Submit, Typed, ServingOK, AtWork
  <2> QED BY <1>6, <2>2, <2>3, AskTyped, PostTyped, ReplyFrames
          DEF Submit, Typed, TurnOK, DelayedOK
<1> QED BY <1>1, <1>2, <1>3, <1>4, <1>5, <1>6 DEF Request

\* What a handler does after its reply: the title, the turn, its handle.
LEMMA HandleTyped ==
  ASSUME Typed, NEW c \in Conns, Handle(c)
  PROVE  Typed'
<1> USE DEF Typed
<1>1. CASE CreateTitle(c)
  <2> DEFINE s == serving[c].sid
             r == Recorded(sessions[s], "title")
  <2>1. s \in Sids
    BY DEF ServingOK
  <2>2. ServingOK' /\ AtWork'
    BY <1>1, GatewayAssumption DEF CreateTitle, ServingOK, AtWork, Idle, Sids
  <2>3. CASE Present(s)
    <3>1. r \in Records /\ Frame(s, r) \in FramesOf
      BY <2>1, <2>3, PresentRecord, RecordedRecord, RecordedFrame DEF Events
    <3>2. /\ sessions' = [sessions EXCEPT ![s] = r]
          /\ delayed' = delayed \cup {[conn |-> c, frame |-> Frame(s, r)]}
      BY <1>1, <2>3 DEF CreateTitle
    <3>3. TableOK'
      <4>1. nextSid' = nextSid /\ nextOrder' = nextOrder
        BY <1>1 DEF CreateTitle
      <4> HIDE DEF r
      <4> QED BY <2>1, <3>1, <3>2, <4>1, TableSet
    <3>4. DelayedOK'
      <4> HIDE DEF r
      <4> QED BY <3>1, <3>2 DEF DelayedOK
    <3> QED BY <1>1, <2>2, <3>3, <3>4 DEF CreateTitle, SocketOK, OutOK, TurnOK
  <2>4. CASE ~Present(s)
    BY <1>1, <2>2, <2>4 DEF CreateTitle, TableOK, SocketOK, OutOK, TurnOK, DelayedOK
  <2> QED BY <2>3, <2>4
<1>2. CASE SubmitSpawn(c)
  <2>1. PICK t \in Turns :
          /\ turn' = [turn EXCEPT ![t] = [Free EXCEPT !.pc = "asleep", !.sid = serving[c].sid,
                                                      !.conn = c, !.left = TurnLength]]
          /\ serving' = [serving EXCEPT ![c].pc = "store", ![c].turn = t]
    BY <1>2 DEF SubmitSpawn
  <2>2. TurnOK'
    <3> DEFINE u == [Free EXCEPT !.pc = "asleep", !.sid = serving[c].sid, !.conn = c, !.left = TurnLength]
    <3>1. Free \in Tasks
      BY GatewayAssumption DEF Tasks, Free, Sids
    <3>2. u \in Tasks /\ Equipped(u)
      <4> DEFINE v(f) == [f EXCEPT !.pc = "asleep", !.sid = serving[c].sid, !.conn = c,
                                   !.left = TurnLength]
      <4>1. serving[c].sid \in Sids /\ TurnLength \in 0..TurnLength
        BY GatewayAssumption DEF ServingOK
      <4>2. ASSUME NEW f \in Tasks PROVE v(f) \in Tasks
        BY <4>1 DEF Tasks
      <4>3. ASSUME NEW f \in Tasks PROVE Equipped(v(f))
        BY DEF Tasks, Equipped
      <4> QED BY <3>1, <4>2, <4>3, Zenon
    <3>3. turn' = [turn EXCEPT ![t] = u]
      BY <2>1 DEF u
    <3> QED BY <3>2, <3>3 DEF TurnOK
  <2>3. ServingOK'
    BY <2>1 DEF ServingOK
  <2>4. AtWork'
    BY <1>2, <2>1 DEF ServingOK, AtWork, SubmitSpawn
  <2> QED BY <1>2, <2>2, <2>3, <2>4 DEF SubmitSpawn, TableOK, SocketOK, OutOK, DelayedOK
<1>3. CASE SubmitStore(c)
  <2>1. ServingOK' /\ AtWork'
    BY <1>3, GatewayAssumption DEF SubmitStore, ServingOK, AtWork, Idle, Sids
  <2>2. TableOK'
    <3> DEFINE s == serving[c].sid
    <3>1. s \in Sids /\ serving[c].turn \in Turns \cup {None}
      BY DEF ServingOK
    <3>2. CASE Present(s)
      <4>1. [sessions[s] EXCEPT !.turn = serving[c].turn] \in Records
        BY <3>1, <3>2, PresentRecord DEF Records
      <4> QED BY <1>3, <3>1, <3>2, <4>1, TableSet DEF SubmitStore
    <3>3. CASE ~Present(s)
      BY <1>3, <3>3 DEF SubmitStore, TableOK
    <3> QED BY <3>2, <3>3
  <2> QED BY <1>3, <2>1, <2>2 DEF SubmitStore, SocketOK, OutOK, TurnOK, DelayedOK
<1> QED BY <1>1, <1>2, <1>3 DEF Handle

LEMMA RunTurnTyped ==
  ASSUME Typed, NEW t \in Turns, RunTurn(t)
  PROVE  Typed'
<1> USE DEF Typed
<1> DEFINE s == turn[t].sid
<1>0. s \in Sids /\ Free \in Tasks /\ Equipped(Free)
  BY GatewayAssumption DEF TurnOK, Tasks, Equipped, Free, Sids
<1>1. CASE TurnWake(t)
  <2>1. TurnOK'
    BY <1>0, <1>1 DEF TurnWake, TurnOK, Tasks, Equipped
  <2> QED BY <1>1, <2>1 DEF TurnWake, connVars, TableOK, SocketOK, OutOK, ServingOK, DelayedOK, AtWork
<1>2. CASE TurnRecord(t)
  <2> DEFINE r == Recorded(sessions[s], FrameType(t))
  <2>1. CASE Present(s)
    <3>1. r \in Records /\ Frame(s, r) \in FramesOf
      BY <1>0, <2>1, PresentRecord, RecordedRecord, RecordedFrame DEF FrameType, Events
    <3>2. /\ sessions' = [sessions EXCEPT ![s] = r] /\ turn[t].left > 0
          /\ turn' = [turn EXCEPT ![t].pc = "sending", ![t].left = @ - 1, ![t].frame = Frame(s, r)]
          /\ nextSid' = nextSid /\ nextOrder' = nextOrder
      BY <1>2, <2>1 DEF TurnRecord
    <3> HIDE DEF r
    <3>3. TableOK'
      BY <1>0, <3>1, <3>2, TableSet
    <3>4. TurnOK'
      <4>1. turn[t].left - 1 \in 0..TurnLength
        BY <3>2, GatewayAssumption DEF TurnOK, Tasks
      <4> QED BY <1>2, <3>1, <3>2, <4>1 DEF TurnOK, Tasks, Equipped, TurnRecord
    <3> QED BY <1>2, <3>3, <3>4 DEF TurnRecord, connVars, SocketOK, OutOK, ServingOK, DelayedOK, AtWork
  <2>2. CASE ~Present(s)
    <3>1. TurnOK'
      BY <1>0, <1>2, <2>2 DEF TurnRecord, TurnOK
    <3> QED BY <1>2, <2>2, <3>1 DEF TurnRecord, connVars, TableOK, SocketOK, OutOK, ServingOK,
                                    DelayedOK, AtWork
  <2> QED BY <2>1, <2>2
<1>3. CASE TurnSend(t)
  <2>1. turn[t].frame \in FramesOf
    BY <1>3 DEF TurnSend, TurnOK, Equipped
  <2>2. TurnOK'
    BY <1>3 DEF TurnSend, TurnOK, Tasks, Equipped
  <2>3. OutOK'
    <3>1. turn[t].conn \in Conns
      BY <1>3 DEF TurnSend, TurnOK, Equipped
    <3> QED BY <1>3, <2>1, <3>1, PostTyped, ReplyFrames DEF TurnSend
  <2> QED BY <1>3, <2>2, <2>3 DEF TurnSend, TableOK, SocketOK, ServingOK, DelayedOK, AtWork
<1>4. CASE TurnEnd(t)
  <2>1. TurnOK'
    BY <1>0, <1>4 DEF TurnEnd, TurnOK
  <2>2. TableOK'
    <3>1. CASE Present(s)
      <4>1. [sessions[s] EXCEPT !.running = FALSE, !.turn = None] \in Records
        BY <1>0, <3>1, PresentRecord DEF Records
      <4> QED BY <1>0, <1>4, <3>1, <4>1, TableSet, PresentRecord DEF TurnEnd, TableOK, Records
    <3>2. CASE ~Present(s)
      BY <1>4, <3>2 DEF TurnEnd, TableOK
    <3> QED BY <3>1, <3>2
  <2> QED BY <1>4, <2>1, <2>2 DEF TurnEnd, connVars, SocketOK, OutOK, ServingOK, DelayedOK, AtWork
<1> QED BY <1>1, <1>2, <1>3, <1>4 DEF RunTurn

LEMMA TypedStep == Typed /\ [Next]_vars => Typed'
<1> SUFFICES ASSUME Typed, [Next]_vars PROVE Typed'
  OBVIOUS
<1>1. CASE Next
  BY <1>1, WireTyped, RequestTyped, HandleTyped, RunTurnTyped DEF Next
<1>2. CASE UNCHANGED vars
  BY <1>2 DEF vars, connVars, Typed, TableOK, SocketOK, OutOK, ServingOK, TurnOK, DelayedOK, AtWork
<1> QED BY <1>1, <1>2

LEMMA TypedAlways == Spec => []Typed
BY InitTyped, TypedStep, PTL DEF Spec

-----------------------------------------------------------------------------
(* A running session has a turn                                             *)

\* A handle leads to a turn of the session it is kept for, or to one that has
\* finished.  Without it an interrupt or a close could abort a turn that some
\* other session waits for.
Of(t, s) == turn[t].pc = "free" \/ turn[t].sid = s

HandlesOwn ==
  /\ \A s \in Sids : Present(s) /\ sessions[s].turn # None => Of(sessions[s].turn, s)
  /\ \A c \in Conns : serving[c].turn # None =>
       serving[c].pc = "store" /\ Of(serving[c].turn, serving[c].sid)

RunningInv == Typed /\ HandlesOwn /\ RunningHasATurn

\* The turn t will clear the mark of s.
Clears(t, s) == turn[t].pc # "free" /\ ~turn[t].aborted /\ turn[t].sid = s

\* Neither a record nor a turn nor a handler moves.
LEMMA RunningUntouched ==
  ASSUME RunningInv, Typed', UNCHANGED <<sessions, serving, turn>>
  PROVE  RunningInv'
BY DEF RunningInv, HandlesOwn, RunningHasATurn, HasTurn, Present, Of

\* A record is set to one that does not run unless it ran, or is removed, and
\* keeps its handle or has none.
LEMMA RunningSet ==
  ASSUME RunningInv, Typed', NEW s \in Sids, UNCHANGED <<serving, turn>>,
         \A z \in Sids \ {s} : sessions'[z] = sessions[z],
         Present(s)' =>
           /\ sessions'[s].turn = None \/ (Present(s) /\ sessions'[s].turn = sessions[s].turn)
           /\ sessions'[s].running => Present(s) /\ sessions[s].running
  PROVE  RunningInv'
BY DEF RunningInv, HandlesOwn, RunningHasATurn, HasTurn, Present, Of

\* A session is closed or interrupted, and the turn its record holds aborted.
LEMMA RunningAbort ==
  ASSUME RunningInv, Typed', NEW s \in Sids, Present(s), UNCHANGED serving,
         Abort(sessions[s]),
         \A z \in Sids \ {s} : sessions'[z] = sessions[z],
         Present(s)' => sessions'[s].turn = None /\ ~sessions'[s].running
  PROVE  RunningInv'
<1> DEFINE h == sessions[s].turn
<1>1. h = None \/ (h \in Turns /\ h # None)
  BY PresentRecord, GatewayAssumption DEF RunningInv, Typed, Records
<1>2. \A t \in Turns : /\ turn'[t].pc = turn[t].pc /\ turn'[t].sid = turn[t].sid
                       /\ t # h => turn'[t].aborted = turn[t].aborted
  BY <1>1 DEF Abort, RunningInv, Typed, TurnOK, Tasks
<1>3. \A z \in Sids : Present(z) => sessions[z].turn \in Turns \cup {None}
  BY PresentRecord DEF RunningInv, Typed, Records
<1>4. HandlesOwn'
  BY <1>2, <1>3 DEF RunningInv, Typed, ServingOK, HandlesOwn, Of, Present
<1>5. RunningHasATurn'
  <2> SUFFICES ASSUME NEW z \in Sids, Present(z)', sessions'[z].running PROVE HasTurn(z)'
    BY DEF RunningHasATurn
  <2>1. z # s /\ Present(z) /\ sessions[z].running
    BY DEF Present
  <2>2. HasTurn(z)
    BY <2>1 DEF RunningInv, RunningHasATurn
  <2>3. ASSUME NEW t \in Turns, Clears(t, z) PROVE Clears(t, z)'
    <3>1. t # h
      BY <1>1, <2>1, <2>3, GatewayAssumption DEF RunningInv, HandlesOwn, Of, Clears
    <3> QED BY <1>2, <2>3, <3>1 DEF Clears
  <2> QED BY <2>2, <2>3 DEF HasTurn, Clears
<1> QED BY <1>4, <1>5 DEF RunningInv

LEMMA RunningRequest ==
  ASSUME RunningInv, Typed', NEW c \in Conns, Request(c)
  PROVE  RunningInv'
<1>0. Typed /\ TableOK /\ serving[c].pc = "idle" /\ serving[c].turn = None
  <2>1. Ask(c)
    BY DEF Request, Read, Create, Touch, Close, Interrupt, Submit
  <2> QED BY <2>1, AskTyped DEF RunningInv, Typed, HandlesOwn
<1>1. CASE Read(c)
  BY <1>1, RunningUntouched DEF Read
<1>2. ASSUME NEW titled \in BOOLEAN, NEW s \in Sids, Touch(c, s, titled) PROVE RunningInv'
  <2> DEFINE r == [Entry(s) EXCEPT !.titled = @ \/ titled]
  <2>1. r.turn = Entry(s).turn /\ r.running = Entry(s).running
    BY <1>0, EntryRecord DEF Records
  <2>2. sessions' = [sessions EXCEPT ![s] = r]
    BY <1>2 DEF Touch
  <2> HIDE DEF r
  <2>3. /\ r.turn = None \/ (Present(s) /\ r.turn = sessions[s].turn)
        /\ r.running => Present(s) /\ sessions[s].running
    BY <1>0, <2>1, FreshRecord DEF Entry
  <2>4. sessions'[s] = r /\ \A z \in Sids \ {s} : sessions'[z] = sessions[z]
    BY <1>0, <2>2 DEF TableOK
  <2> QED BY <1>2, <2>3, <2>4, RunningSet DEF Touch
<1>3. ASSUME NEW titled \in BOOLEAN, Create(c, titled) PROVE RunningInv'
  <2> DEFINE r == [Fresh EXCEPT !.titled = titled]
  <2>1. r.turn = None /\ ~r.running
    BY <1>0, FreshRecord DEF Records
  <2>2. sessions' = [sessions EXCEPT ![nextSid] = r] /\ nextSid \in Sids
    BY <1>3 DEF Create
  <2> HIDE DEF r
  <2>3. sessions'[nextSid] = r /\ \A z \in Sids \ {nextSid} : sessions'[z] = sessions[z]
    BY <1>0, <2>2 DEF TableOK
  <2>4. \A d \in Conns : serving[d].pc \in {"spawn", "store"} \/ serving[d].turn # None
          => serving'[d] = serving[d]
    BY <1>0, <1>3 DEF Create, Typed, ServingOK
  <2>5. \A d \in Conns : serving'[d].turn = serving[d].turn
    BY <1>3 DEF Create, RunningInv, Typed, ServingOK
  <2>t. turn' = turn
    BY <1>3 DEF Create
  <2>6. HandlesOwn'
    <3>1. (\A z \in Sids : Present(z) /\ sessions[z].turn # None => Of(sessions[z].turn, z))'
      BY <2>t, <2>1, <2>3 DEF RunningInv, HandlesOwn, Of, Present
    <3>2. (\A d \in Conns : serving[d].turn # None =>
            serving[d].pc = "store" /\ Of(serving[d].turn, serving[d].sid))'
      BY <2>t, <2>4, <2>5 DEF RunningInv, HandlesOwn, Of
    <3> QED BY <3>1, <3>2 DEF HandlesOwn
  <2>7. RunningHasATurn'
    <3> SUFFICES ASSUME NEW z \in Sids, Present(z)', sessions'[z].running PROVE HasTurn(z)'
      BY DEF RunningHasATurn
    <3>1. z # nextSid /\ HasTurn(z)
      BY <2>1, <2>2, <2>3 DEF RunningInv, RunningHasATurn, Present
    <3> QED BY <2>t, <2>4, <3>1 DEF HasTurn
  <2> QED BY <2>6, <2>7 DEF RunningInv
<1>4. ASSUME NEW s \in Sids, Close(c, s) PROVE RunningInv'
  <2>1. CASE Present(s)
    BY <1>0, <1>4, <2>1, RunningAbort DEF Close, TableOK, Present
  <2>2. CASE ~Present(s)
    BY <1>4, <2>2, RunningUntouched DEF Close
  <2> QED BY <2>1, <2>2
<1>5. ASSUME NEW s \in Sids, Interrupt(c, s) PROVE RunningInv'
  <2> DEFINE b == [sessions[s] EXCEPT !.turn = None, !.running = FALSE]
             r == Recorded(b, "interrupted")
  <2>1. CASE Present(s) /\ sessions[s].running
    <3>1. b \in Records /\ b.turn = None /\ ~b.running
      BY <1>0, <2>1, PresentRecord DEF Records
    <3>2. Abort(sessions[s]) /\ sessions' = [sessions EXCEPT ![s] = r] /\ serving' = serving
      BY <1>5, <2>1 DEF Interrupt
    <3> HIDE DEF b
    <3>3. r.turn = None /\ ~r.running
      BY <3>1, RecordedRecord DEF Events
    <3> HIDE DEF r
    <3>4. sessions'[s] = r /\ \A z \in Sids \ {s} : sessions'[z] = sessions[z]
      BY <1>0, <3>2 DEF TableOK
    <3> QED BY <2>1, <3>2, <3>3, <3>4, RunningAbort
  <2>2. CASE ~(Present(s) /\ sessions[s].running)
    BY <1>5, <2>2, RunningUntouched DEF Interrupt
  <2> QED BY <2>1, <2>2
<1>6. ASSUME NEW s \in Sids, Submit(c, s) PROVE RunningInv'
  <2>1. CASE Entry(s).running
    BY <1>6, <2>1, RunningUntouched DEF Submit
  <2>2. CASE ~Entry(s).running
    <3> DEFINE r == [Entry(s) EXCEPT !.running = TRUE]
    <3>1. r.turn = Entry(s).turn
      BY <1>0, EntryRecord DEF Records
    <3>2. r.turn = None \/ (Present(s) /\ r.turn = sessions[s].turn)
      BY <1>0, <3>1, FreshRecord DEF Entry
    <3>3. sessions' = [sessions EXCEPT ![s] = r] /\ turn' = turn
      BY <1>6, <2>2 DEF Submit
    <3> HIDE DEF r
    <3>4. sessions'[s] = r /\ \A z \in Sids \ {s} : sessions'[z] = sessions[z]
      BY <1>0, <3>3 DEF TableOK
    <3>5. /\ serving'[c].pc = "spawn" /\ serving'[c].sid = s /\ serving'[c].turn = None
          /\ \A d \in Conns \ {c} : serving'[d] = serving[d]
      BY <1>0, <1>6, <2>2 DEF Submit, Typed, ServingOK
    <3>6. HandlesOwn'
      BY <3>2, <3>3, <3>4, <3>5 DEF RunningInv, HandlesOwn, Of, Present
    <3>7. RunningHasATurn'
      BY <1>0, <3>3, <3>4, <3>5 DEF RunningInv, RunningHasATurn, HasTurn, Present
    <3> QED BY <3>6, <3>7 DEF RunningInv
  <2> QED BY <2>1, <2>2
<1> QED BY <1>1, <1>2, <1>3, <1>4, <1>5, <1>6 DEF Request

LEMMA RunningHandle ==
  ASSUME RunningInv, Typed', NEW c \in Conns, Handle(c)
  PROVE  RunningInv'
<1>0. Typed /\ TableOK /\ ServingOK
  BY DEF RunningInv, Typed
<1> DEFINE s == serving[c].sid
<1>s. s \in Sids
  BY <1>0 DEF ServingOK
<1>1. CASE CreateTitle(c)
  <2>1. serving[c].turn = None /\ serving[c].pc = "title"
    BY <1>1 DEF CreateTitle, RunningInv, HandlesOwn
  <2>2. \A d \in Conns : /\ serving'[d].turn = serving[d].turn
                         /\ d # c => serving'[d] = serving[d]
    BY <1>0, <1>1, <2>1 DEF CreateTitle, ServingOK, Idle
  <2>3. /\ turn' = turn
        /\ \A z \in Sids : /\ Present(z)' <=> Present(z)
                           /\ Present(z) => /\ sessions'[z].turn = sessions[z].turn
                                            /\ sessions'[z].running = sessions[z].running
    <3> DEFINE r == Recorded(sessions[s], "title")
    <3>1. CASE Present(s)
      <4>1. r \in Records /\ r.turn = sessions[s].turn /\ r.running = sessions[s].running
        BY <1>0, <1>s, <3>1, PresentRecord, RecordedRecord DEF Events
      <4>2. sessions' = [sessions EXCEPT ![s] = r] /\ turn' = turn
        BY <1>1, <3>1 DEF CreateTitle
      <4> HIDE DEF r
      <4> QED BY <1>0, <1>s, <3>1, <4>1, <4>2, AbsentAssumption DEF TableOK, Present
    <3>2. CASE ~Present(s)
      BY <1>1, <3>2 DEF CreateTitle, Present
    <3> QED BY <3>1, <3>2
  <2>4. HandlesOwn'
    BY <2>1, <2>2, <2>3 DEF RunningInv, HandlesOwn, Of
  <2>5. RunningHasATurn'
    BY <2>1, <2>2, <2>3 DEF RunningInv, RunningHasATurn, HasTurn
  <2> QED BY <2>4, <2>5 DEF RunningInv
<1>2. CASE SubmitSpawn(c)
  <2>1. PICK t \in Turns :
          /\ serving[c].pc = "spawn" /\ Unheld(t)
          /\ turn' = [turn EXCEPT ![t] = [Free EXCEPT !.pc = "asleep", !.sid = s,
                                                      !.conn = c, !.left = TurnLength]]
          /\ serving' = [serving EXCEPT ![c].pc = "store", ![c].turn = t]
          /\ sessions' = sessions
    BY <1>2 DEF SubmitSpawn
  <2>2. /\ turn'[t].pc = "asleep" /\ turn'[t].sid = s /\ ~turn'[t].aborted
        /\ \A u \in Turns \ {t} : turn'[u] = turn[u]
    BY <1>0, <2>1 DEF Typed, TurnOK, Free
  <2>3. /\ serving'[c].pc = "store" /\ serving'[c].turn = t /\ serving'[c].sid = s
        /\ \A d \in Conns \ {c} : serving'[d] = serving[d]
    BY <1>0, <2>1 DEF ServingOK
  <2>4. HandlesOwn'
    <3>1. \A z \in Sids : Present(z) => sessions[z].turn \in Turns \cup {None}
      BY <1>0, PresentRecord DEF Records
    <3>2. \A d \in Conns : serving[d].turn \in Turns \cup {None}
      BY <1>0 DEF ServingOK
    <3>3. (\A z \in Sids : Present(z) /\ sessions[z].turn # None => Of(sessions[z].turn, z))'
      <4> SUFFICES ASSUME NEW z \in Sids, Present(z), sessions[z].turn # None
                   PROVE  turn'[sessions[z].turn].pc = "free" \/ turn'[sessions[z].turn].sid = z
        BY <2>1 DEF Present, Of
      <4>1. sessions[z].turn \in Turns \ {t} /\ Of(sessions[z].turn, z)
        BY <2>1, <3>1 DEF RunningInv, HandlesOwn, Unheld
      <4> QED BY <2>2, <4>1 DEF Of
    <3>4. (\A d \in Conns : serving[d].turn # None =>
            serving[d].pc = "store" /\ Of(serving[d].turn, serving[d].sid))'
      <4> SUFFICES ASSUME NEW d \in Conns, serving'[d].turn # None
                   PROVE  (serving[d].pc = "store" /\ Of(serving[d].turn, serving[d].sid))'
        OBVIOUS
      <4>1. CASE d = c
        BY <2>2, <2>3, <4>1 DEF Of
      <4>2. CASE d # c
        <5>1. serving'[d] = serving[d] /\ serving[d].turn \in Turns \ {t}
          BY <2>1, <2>3, <3>2, <4>2 DEF Unheld
        <5> QED BY <2>2, <5>1 DEF RunningInv, HandlesOwn, Of
      <4> QED BY <4>1, <4>2
    <3> QED BY <3>3, <3>4 DEF HandlesOwn
  <2>5. RunningHasATurn'
    <3> SUFFICES ASSUME NEW z \in Sids, Present(z), sessions[z].running PROVE HasTurn(z)'
      BY <2>1 DEF RunningHasATurn, Present
    <3>1. HasTurn(z)
      BY DEF RunningInv, RunningHasATurn
    <3>2. CASE z = s
      BY <2>2, <3>2 DEF HasTurn
    <3>3. CASE z # s
      BY <2>1, <2>2, <2>3, <3>1, <3>3 DEF HasTurn, Unheld
    <3> QED BY <3>2, <3>3
  <2> QED BY <2>4, <2>5 DEF RunningInv
<1>3. CASE SubmitStore(c)
  <2>1. /\ serving'[c] = Idle /\ serving[c].pc = "store" /\ turn' = turn
        /\ \A d \in Conns \ {c} : serving'[d] = serving[d]
    BY <1>0, <1>3 DEF SubmitStore, ServingOK
  <2>2. \A z \in Sids : Present(z)' =>
          /\ Present(z)
          /\ sessions'[z].running = sessions[z].running
          /\ sessions'[z].turn = (IF z = s THEN serving[c].turn ELSE sessions[z].turn)
    <3> DEFINE r == [sessions[s] EXCEPT !.turn = serving[c].turn]
    <3>1. CASE Present(s)
      <4>1. r.turn = serving[c].turn /\ r.running = sessions[s].running
        BY <1>0, <1>s, <3>1, PresentRecord DEF Records
      <4>2. sessions' = [sessions EXCEPT ![s] = r]
        BY <1>3, <3>1 DEF SubmitStore
      <4> HIDE DEF r
      <4> QED BY <1>0, <1>s, <3>1, <4>1, <4>2 DEF TableOK, Present
    <3>2. CASE ~Present(s)
      BY <1>3, <3>2 DEF SubmitStore, Present
    <3> QED BY <3>1, <3>2
  <2>3. HandlesOwn'
    BY <1>s, <2>1, <2>2 DEF RunningInv, HandlesOwn, Of, Idle
  <2>4. RunningHasATurn'
    BY <2>1, <2>2 DEF RunningInv, RunningHasATurn, HasTurn, Idle
  <2> QED BY <2>3, <2>4 DEF RunningInv
<1> QED BY <1>1, <1>2, <1>3 DEF Handle

\* A step of a turn's task: it goes on with the same session, or finishes when
\* it was aborted or its session does not run (any more).
LEMMA RunningTurn ==
  ASSUME RunningInv, Typed', NEW t \in Turns, serving' = serving,
         NEW s \in Sids, s = turn[t].sid,
         \A u \in Turns \ {t} : turn'[u] = turn[u],
         \/ turn'[t].pc = "free" /\ turn[t].aborted
         \/ turn'[t].pc = "free" /\ ~(Present(s)' /\ sessions'[s].running)
         \/ turn[t].pc # "free" /\ turn'[t].sid = turn[t].sid
            /\ turn'[t].aborted = turn[t].aborted /\ turn'[t].pc # "free",
         \A z \in Sids : Present(z)' =>
           /\ Present(z)
           /\ sessions'[z].turn \in {sessions[z].turn, None}
           /\ sessions'[z].running => sessions[z].running
  PROVE  RunningInv'
<1>1. \A z \in Sids : Present(z) => sessions[z].turn \in Turns \cup {None}
  BY PresentRecord DEF RunningInv, Typed, Records
<1>2. \A d \in Conns : serving[d].turn \in Turns \cup {None}
  BY DEF RunningInv, Typed, ServingOK
<1>3. \A u \in Turns, z \in Sids : Of(u, z) => (turn'[u].pc = "free" \/ turn'[u].sid = z)
  BY DEF Of
<1>4. HandlesOwn'
  BY <1>1, <1>2, <1>3 DEF RunningInv, Typed, ServingOK, HandlesOwn, Of
<1>5. RunningHasATurn'
  <2> SUFFICES ASSUME NEW z \in Sids, Present(z)', sessions'[z].running PROVE HasTurn(z)'
    BY DEF RunningHasATurn
  <2>1. HasTurn(z)
    BY DEF RunningInv, RunningHasATurn
  <2>2. ASSUME NEW u \in Turns, Clears(u, z) PROVE Clears(u, z)'
    <3>1. CASE u = t
      BY <2>2, <3>1 DEF Clears, Present
    <3>2. CASE u # t
      BY <2>2, <3>2 DEF Clears
    <3> QED BY <3>1, <3>2
  <2> QED BY <2>1, <2>2 DEF HasTurn, Clears
<1> QED BY <1>4, <1>5 DEF RunningInv

LEMMA RunningRunTurn ==
  ASSUME RunningInv, Typed', NEW t \in Turns, RunTurn(t)
  PROVE  RunningInv'
<1>0. Typed /\ TableOK /\ TurnOK
  BY DEF RunningInv, Typed
<1>s. PICK s \in Sids : s = turn[t].sid
  BY <1>0 DEF TurnOK, Tasks
<1> USE <1>s
<1>1. CASE TurnWake(t)
  <2>1. \A u \in Turns \ {t} : turn'[u] = turn[u]
    BY <1>0, <1>1 DEF TurnWake, TurnOK
  <2>2. \/ turn'[t].pc = "free" /\ turn[t].aborted
        \/ turn[t].pc # "free" /\ turn'[t].sid = turn[t].sid
           /\ turn'[t].aborted = turn[t].aborted /\ turn'[t].pc # "free"
    BY <1>0, <1>1 DEF TurnWake, TurnOK, Tasks, Free
  <2> QED BY <1>1, <2>1, <2>2, RunningTurn DEF TurnWake, connVars, Present
<1>2. CASE TurnRecord(t)
  <2> DEFINE r == Recorded(sessions[s], FrameType(t))
  <2>1. \A u \in Turns \ {t} : turn'[u] = turn[u]
    BY <1>0, <1>2 DEF TurnRecord, TurnOK
  <2>2. CASE Present(s)
    <3>1. r.turn = sessions[s].turn /\ r.running = sessions[s].running
      BY <1>0, <2>2, PresentRecord, RecordedRecord DEF FrameType, Events
    <3>2. sessions' = [sessions EXCEPT ![s] = r] /\ serving' = serving
      BY <1>2, <2>2 DEF TurnRecord, connVars
    <3>3. turn[t].pc # "free" /\ turn'[t].sid = turn[t].sid
          /\ turn'[t].aborted = turn[t].aborted /\ turn'[t].pc # "free"
      BY <1>0, <1>2, <2>2 DEF TurnRecord, TurnOK, Tasks
    <3> HIDE DEF r
    <3>4. \A z \in Sids : Present(z)' =>
            /\ Present(z)
            /\ sessions'[z].turn \in {sessions[z].turn, None}
            /\ sessions'[z].running => sessions[z].running
      BY <1>0, <2>2, <3>1, <3>2 DEF TableOK, Present
    <3> QED BY <2>1, <3>2, <3>3, <3>4, RunningTurn
  <2>3. CASE ~Present(s)
    <3>1. sessions' = sessions /\ serving' = serving /\ turn'[t].pc = "free"
      BY <1>0, <1>2, <2>3 DEF TurnRecord, connVars, TurnOK, Free
    <3>2. ~Present(s)' /\ \A z \in Sids : Present(z)' => Present(z)
      BY <2>3, <3>1 DEF Present
    <3> QED BY <2>1, <3>1, <3>2, RunningTurn
  <2> QED BY <2>2, <2>3
<1>3. CASE TurnSend(t)
  <2>1. /\ \A u \in Turns \ {t} : turn'[u] = turn[u]
        /\ turn[t].pc # "free" /\ turn'[t].sid = turn[t].sid
        /\ turn'[t].aborted = turn[t].aborted /\ turn'[t].pc # "free"
    BY <1>0, <1>3 DEF TurnSend, TurnOK, Tasks
  <2> QED BY <1>3, <2>1, RunningTurn DEF TurnSend, Present
<1>4. CASE TurnEnd(t)
  <2>1. /\ \A u \in Turns \ {t} : turn'[u] = turn[u]
        /\ turn'[t].pc = "free" /\ serving' = serving
    BY <1>0, <1>4 DEF TurnEnd, connVars, TurnOK, Free
  <2>2. CASE Present(s)
    <3> DEFINE r == [sessions[s] EXCEPT !.running = FALSE, !.turn = None]
    <3>1. r.turn = None /\ ~r.running
      BY <1>0, <2>2, PresentRecord DEF Records
    <3>2. sessions' = [sessions EXCEPT ![s] = r]
      BY <1>0, <1>4, <2>2, PresentRecord DEF TurnEnd, TableOK, Records
    <3> HIDE DEF r
    <3>3. sessions'[s] = r /\ \A z \in Sids \ {s} : sessions'[z] = sessions[z]
      BY <1>0, <3>2 DEF TableOK
    <3> QED BY <2>1, <2>2, <3>1, <3>3, RunningTurn DEF Present
  <2>3. CASE ~Present(s)
    <3>1. sessions' = sessions
      BY <1>4, <2>3 DEF TurnEnd
    <3>2. ~Present(s)' /\ \A z \in Sids : Present(z)' => Present(z)
      BY <2>3, <3>1 DEF Present
    <3> QED BY <2>1, <3>1, <3>2, RunningTurn
  <2> QED BY <2>2, <2>3
<1> QED BY <1>1, <1>2, <1>3, <1>4 DEF RunTurn

LEMMA RunningStep == RunningInv /\ [Next]_vars => RunningInv'
<1> SUFFICES ASSUME RunningInv, [Next]_vars PROVE RunningInv'
  OBVIOUS
<1>1. Typed'
  BY TypedStep DEF RunningInv
<1>2. CASE MintTicket \/ SendDelayed \/ \E c \in Conns : Accept(c) \/ Deliver(c) \/ HangUp(c)
  BY <1>1, <1>2, RunningUntouched DEF MintTicket, SendDelayed, Accept, Deliver, HangUp, connVars
<1>3. CASE UNCHANGED vars
  BY <1>1, <1>3, RunningUntouched DEF vars, connVars
<1> QED BY <1>1, <1>2, <1>3, RunningRequest, RunningHandle, RunningRunTurn DEF Next

LEMMA RunningInit == Init => RunningInv
<1> SUFFICES ASSUME Init PROVE RunningInv
  OBVIOUS
<1>1. HandlesOwn /\ RunningHasATurn
  BY DEF Init, HandlesOwn, RunningHasATurn, Present, Idle
<1> QED BY <1>1, InitTyped DEF RunningInv

-----------------------------------------------------------------------------
(* The table is a log                                                       *)

Types(r) == [i \in 1..Len(r.events) |-> r.events[i].type]

LogMap  == [s \in Sids |-> LogOf(s)]
BusyMap == [s \in Sids |-> Present(s) /\ sessions[s].running]

\* The log of a record is a sequence, which a recorded event extends.
LEMMA TypesGrow ==
  ASSUME NEW r \in Records, NEW e \in Events
  PROVE  Types(r) \in Seq(Events) /\ Types(Recorded(r, e)) = Append(Types(r), e)
<1> DEFINE ev == [seq |-> r.seq + 1, type |-> e]
           q  == Recorded(r, e)
<1>1. r.events \in Seq(EventsOf)
  BY DEF Records
<1>2. Types(r) \in Seq(Events)
  <2>1. Len(r.events) \in Nat /\ \A i \in 1..Len(r.events) : r.events[i].type \in Events
    <3>1. Len(r.events) \in Nat /\ \A i \in 1..Len(r.events) : r.events[i] \in EventsOf
      BY <1>1
    <3> QED BY <3>1 DEF EventsOf
  <2> QED BY <2>1 DEF Types
<1>3. q.events = Append(r.events, ev)
  BY RecordedRecord
<1>4. Len(q.events) = Len(r.events) + 1 /\ Len(Types(r)) = Len(r.events)
  BY <1>1, <1>2, <1>3 DEF Types
<1>5. \A i \in 1..Len(r.events) + 1 :
        q.events[i].type = IF i <= Len(r.events) THEN r.events[i].type ELSE e
  BY <1>1, <1>3
<1> HIDE DEF q
<1>6. Types(q) = Append(Types(r), e)
  BY <1>1, <1>2, <1>4, <1>5 DEF Types
<1> QED BY <1>2, <1>6 DEF q

\* What a record that is set, or removed, does to the log and the busy flag.
LEMMA MapSet ==
  ASSUME TableOK, NEW s \in Sids, NEW r \in Records, sessions' = [sessions EXCEPT ![s] = r]
  PROVE  /\ LogMap' = [LogMap EXCEPT ![s] = Types(r)]
         /\ BusyMap' = [BusyMap EXCEPT ![s] = r.running]
BY AbsentAssumption DEF TableOK, LogMap, BusyMap, LogOf, Types, Present, Records

LEMMA MapRemove ==
  ASSUME TableOK, NEW s \in Sids, sessions' = [sessions EXCEPT ![s] = Absent]
  PROVE  /\ LogMap' = [LogMap EXCEPT ![s] = Absent]
         /\ BusyMap' = [BusyMap EXCEPT ![s] = FALSE]
BY DEF TableOK, LogMap, BusyMap, LogOf, Present

LEMMA LogInit == Init => Log!Init
<1> SUFFICES ASSUME Init PROVE Log!Init
  OBVIOUS
<1> QED BY DEF Init, Log!Init, LogOf, Present

\* Steps that leave the table alone are none of the log's.
LEMMA LogStutter ==
  ASSUME sessions' = sessions
  PROVE  UNCHANGED Log!vars
BY DEF Log!vars, LogOf, Present

\* An event is recorded in a session that is there.
LEMMA LogGrows ==
  ASSUME TableOK, NEW s \in Sids, Present(s), NEW r \in Records, NEW e \in Events,
         Types(r) = Types(sessions[s]), r.running = sessions[s].running,
         sessions' = [sessions EXCEPT ![s] = Recorded(r, e)]
  PROVE  Log!Grow(s, e)
<1>0. sessions[s] \in Records
  BY PresentRecord
<1> DEFINE q == Recorded(r, e)
<1>1. /\ q \in Records /\ q.running = sessions[s].running
      /\ Types(q) = Append(Types(sessions[s]), e)
  <2>1. q \in Records /\ q.running = r.running
    BY RecordedRecord
  <2>2. Types(q) = Append(Types(r), e)
    BY TypesGrow
  <2> HIDE DEF q
  <2> QED BY <2>1, <2>2
<1>2. /\ LogMap' = [LogMap EXCEPT ![s] = Append(Types(sessions[s]), e)]
      /\ BusyMap' = [BusyMap EXCEPT ![s] = sessions[s].running]
  <2>1. sessions' = [sessions EXCEPT ![s] = q]
    OBVIOUS
  <2> HIDE DEF q
  <2>2. LogMap' = [LogMap EXCEPT ![s] = Types(q)] /\ BusyMap' = [BusyMap EXCEPT ![s] = q.running]
    BY <1>1, <2>1, MapSet
  <2> QED BY <1>1, <2>2
<1>3. LogMap[s] = Types(sessions[s]) /\ BusyMap[s] = sessions[s].running
  BY <1>0 DEF LogMap, BusyMap, LogOf, Types, Records
<1>4. LogMap[s] # Absent
  BY <1>0, <1>3, TypesGrow, AbsentAssumption DEF Events
<1>5. LogMap' = [LogMap EXCEPT ![s] = Append(@, e)] /\ BusyMap' = BusyMap
  BY <1>2, <1>3 DEF LogMap, BusyMap
<1> QED BY <1>4, <1>5 DEF Log!Grow, LogMap, BusyMap

\* A record replaced by one with the same events and the same mark.
LEMMA LogSame ==
  ASSUME TableOK, NEW s \in Sids, Present(s), NEW r \in Records,
         r.events = sessions[s].events, r.running = sessions[s].running,
         sessions' = [sessions EXCEPT ![s] = r]
  PROVE  UNCHANGED Log!vars
<1>1. sessions[s] \in Records
  BY PresentRecord
<1>2. LogMap' = LogMap /\ BusyMap' = BusyMap
  <2>1. /\ LogMap' = [LogMap EXCEPT ![s] = Types(r)]
        /\ BusyMap' = [BusyMap EXCEPT ![s] = r.running]
    BY MapSet
  <2>2. LogMap[s] = Types(r) /\ BusyMap[s] = r.running
    BY <1>1 DEF LogMap, BusyMap, LogOf, Types, Records
  <2> QED BY <2>1, <2>2 DEF LogMap, BusyMap
<1> QED BY <1>2 DEF Log!vars, LogMap, BusyMap

\* A record that is new, or takes the place of another.
LEMMA LogMakes ==
  ASSUME TableOK, NEW s \in Sids, NEW r \in Records, r.events = << >>, ~r.running,
         sessions' = [sessions EXCEPT ![s] = r]
  PROVE  Log!Make(s)
<1>1. Types(r) = << >>
  BY DEF Types
<1>2. LogMap' = [LogMap EXCEPT ![s] = << >>] /\ BusyMap' = [BusyMap EXCEPT ![s] = FALSE]
  BY <1>1, MapSet DEF Records
<1> QED BY <1>2 DEF Log!Make, LogMap, BusyMap

LEMMA LogRequest ==
  ASSUME Typed, NEW c \in Conns, Request(c)
  PROVE  Log!Next \/ UNCHANGED Log!vars
<1>0. TableOK
  BY DEF Typed
<1>1. CASE Read(c)
  BY <1>1, LogStutter DEF Read
<1>2. ASSUME NEW titled \in BOOLEAN, NEW s \in Sids, Touch(c, s, titled)
      PROVE  Log!Make(s) \/ UNCHANGED Log!vars
  <2> DEFINE r == [Entry(s) EXCEPT !.titled = @ \/ titled]
  <2>1. r \in Records /\ r.events = Entry(s).events /\ r.running = Entry(s).running
    BY <1>0, EntryRecord DEF Records
  <2>2. sessions' = [sessions EXCEPT ![s] = r]
    BY <1>2 DEF Touch
  <2> HIDE DEF r
  <2>3. CASE Present(s)
    BY <1>0, <2>1, <2>2, <2>3, LogSame DEF Entry
  <2>4. CASE ~Present(s)
    BY <1>0, <2>1, <2>2, <2>4, LogMakes, FreshRecord DEF Entry
  <2> QED BY <2>3, <2>4
<1>3. ASSUME NEW titled \in BOOLEAN, Create(c, titled)
      PROVE  \E s \in Sids : Log!Make(s)
  <2>s. PICK s \in Sids : s = nextSid
    BY <1>3 DEF Create
  <2> DEFINE r == [Fresh EXCEPT !.titled = titled]
  <2>1. r \in Records /\ r.events = << >> /\ ~r.running
    BY <1>0, FreshRecord DEF Records
  <2>2. sessions' = [sessions EXCEPT ![s] = r]
    BY <1>3, <2>s DEF Create
  <2> HIDE DEF r
  <2> QED BY <1>0, <2>1, <2>2, LogMakes
<1>4. ASSUME NEW s \in Sids, Close(c, s)
      PROVE  Log!Close(s) \/ UNCHANGED Log!vars
  <2>1. CASE Present(s)
    <3>1. LogMap' = [LogMap EXCEPT ![s] = Absent] /\ BusyMap' = [BusyMap EXCEPT ![s] = FALSE]
      BY <1>0, <1>4, <2>1, MapRemove DEF Close
    <3> QED BY <3>1 DEF Log!Close, LogMap, BusyMap
  <2>2. CASE ~Present(s)
    BY <1>4, <2>2, LogStutter DEF Close
  <2> QED BY <2>1, <2>2
<1>5. ASSUME NEW s \in Sids, Interrupt(c, s)
      PROVE  Log!Interrupt(s) \/ UNCHANGED Log!vars
  <2> DEFINE b == [sessions[s] EXCEPT !.turn = None, !.running = FALSE]
             r == Recorded(b, "interrupted")
  <2>1. CASE Present(s) /\ sessions[s].running
    <3>1. sessions[s] \in Records
      BY <1>0, <2>1, PresentRecord
    <3>2. b \in Records /\ b.events = sessions[s].events /\ ~b.running
      BY <3>1 DEF Records
    <3>3. sessions' = [sessions EXCEPT ![s] = r]
      BY <1>5, <2>1 DEF Interrupt
    <3> HIDE DEF b
    <3>4. r \in Records /\ ~r.running /\ Types(r) = Append(Types(sessions[s]), "interrupted")
      <4>1. r \in Records /\ ~r.running
        BY <3>2, RecordedRecord DEF Events
      <4>2. "interrupted" \in Events
        BY DEF Events
      <4>3. Types(r) = Append(Types(b), "interrupted")
        BY <3>2, <4>2, TypesGrow
      <4>4. Types(b) = Types(sessions[s])
        BY <3>2 DEF Types
      <4> QED BY <4>1, <4>3, <4>4
    <3> HIDE DEF r
    <3>5. /\ LogMap' = [LogMap EXCEPT ![s] = Types(r)]
          /\ BusyMap' = [BusyMap EXCEPT ![s] = r.running]
      BY <1>0, <3>3, <3>4, MapSet
    <3>6. LogMap[s] = Types(sessions[s]) /\ BusyMap[s]
      BY <2>1 DEF LogMap, BusyMap, LogOf, Types
    <3>7. /\ LogMap' = [LogMap EXCEPT ![s] = Append(@, "interrupted")]
          /\ BusyMap' = [BusyMap EXCEPT ![s] = FALSE]
      BY <3>4, <3>5, <3>6 DEF LogMap, Records
    <3> QED BY <3>6, <3>7 DEF Log!Interrupt, LogMap, BusyMap
  <2>2. CASE ~(Present(s) /\ sessions[s].running)
    BY <1>5, <2>2, LogStutter DEF Interrupt
  <2> QED BY <2>1, <2>2
<1>6. ASSUME NEW s \in Sids, Submit(c, s)
      PROVE  Log!Start(s) \/ UNCHANGED Log!vars
  <2>1. CASE Entry(s).running
    BY <1>6, <2>1, LogStutter DEF Submit
  <2>2. CASE ~Entry(s).running
    <3> DEFINE r == [Entry(s) EXCEPT !.running = TRUE]
    <3>1. r \in Records /\ r.events = Entry(s).events /\ r.running
      BY <1>0, EntryRecord DEF Records
    <3>2. sessions' = [sessions EXCEPT ![s] = r]
      BY <1>6, <2>2 DEF Submit
    <3> HIDE DEF r
    <3>3. LogMap' = [LogMap EXCEPT ![s] = Types(r)] /\ BusyMap' = [BusyMap EXCEPT ![s] = TRUE]
      BY <1>0, <3>1, <3>2, MapSet DEF Records
    <3>4. Types(r) = IF LogMap[s] = Absent THEN << >> ELSE LogMap[s]
      <4>1. CASE Present(s)
        <5>1. LogMap[s] = Types(sessions[s]) /\ Types(r) = Types(sessions[s])
          BY <3>1, <4>1 DEF LogMap, LogOf, Types, Entry
        <5>2. LogMap[s] # Absent
          BY <1>0, <4>1, <5>1, PresentRecord, TypesGrow, AbsentAssumption DEF Events
        <5> QED BY <5>1, <5>2
      <4>2. CASE ~Present(s)
        BY <1>0, <3>1, <4>2, FreshRecord DEF LogMap, LogOf, Types, Entry
      <4> QED BY <4>1, <4>2
    <3>5. ~BusyMap[s]
      BY <2>2 DEF BusyMap, Entry
    <3>6. LogMap' = [LogMap EXCEPT ![s] = IF @ = Absent THEN << >> ELSE @]
      BY <3>3, <3>4 DEF LogMap
    <3> QED BY <3>3, <3>5, <3>6 DEF Log!Start, LogMap, BusyMap
  <2> QED BY <2>1, <2>2
<1> QED BY <1>1, <1>2, <1>3, <1>4, <1>5, <1>6 DEF Request, Log!Next

LEMMA LogHandle ==
  ASSUME Typed, NEW c \in Conns, Handle(c)
  PROVE  Log!Next \/ UNCHANGED Log!vars
<1>0. TableOK
  BY DEF Typed
<1>s. PICK s \in Sids : s = serving[c].sid
  BY DEF Typed, ServingOK
<1> USE <1>s
<1>1. CASE CreateTitle(c)
  <2>1. CASE Present(s)
    <3>1. sessions' = [sessions EXCEPT ![s] = Recorded(sessions[s], "title")]
      BY <1>1, <2>1 DEF CreateTitle
    <3>2. sessions[s] \in Records /\ "title" \in Events
      BY <1>0, <2>1, PresentRecord DEF Events
    <3>3. Log!Grow(s, "title")
      BY <1>0, <2>1, <3>1, <3>2, LogGrows
    <3> QED BY <3>2, <3>3 DEF Log!Next
  <2>2. CASE ~Present(s)
    BY <1>1, <2>2, LogStutter DEF CreateTitle
  <2> QED BY <2>1, <2>2
<1>2. CASE SubmitSpawn(c)
  BY <1>2, LogStutter DEF SubmitSpawn
<1>3. CASE SubmitStore(c)
  <2>1. CASE Present(s)
    <3> DEFINE r == [sessions[s] EXCEPT !.turn = serving[c].turn]
    <3>1. r \in Records /\ r.events = sessions[s].events /\ r.running = sessions[s].running
      BY <1>0, <2>1, PresentRecord DEF Records, Typed, ServingOK
    <3>2. sessions' = [sessions EXCEPT ![s] = r]
      BY <1>0, <1>3, <2>1 DEF SubmitStore, TableOK
    <3> HIDE DEF r
    <3> QED BY <1>0, <2>1, <3>1, <3>2, LogSame
  <2>2. CASE ~Present(s)
    BY <1>3, <2>2, LogStutter DEF SubmitStore
  <2> QED BY <2>1, <2>2
<1> QED BY <1>1, <1>2, <1>3 DEF Handle

LEMMA LogTurn ==
  ASSUME Typed, NEW t \in Turns, RunTurn(t)
  PROVE  Log!Next \/ UNCHANGED Log!vars
<1>0. TableOK
  BY DEF Typed
<1>s. PICK s \in Sids : s = turn[t].sid
  BY DEF Typed, TurnOK, Tasks
<1> USE <1>s
<1>1. CASE TurnWake(t) \/ TurnSend(t)
  BY <1>1, LogStutter DEF TurnWake, TurnSend
<1>2. CASE TurnRecord(t)
  <2>1. CASE Present(s)
    <3>1. sessions' = [sessions EXCEPT ![s] = Recorded(sessions[s], FrameType(t))]
      BY <1>2, <2>1 DEF TurnRecord
    <3>2. sessions[s] \in Records /\ FrameType(t) \in Events
      BY <1>0, <2>1, PresentRecord DEF Events, FrameType
    <3>3. Log!Grow(s, FrameType(t))
      BY <1>0, <2>1, <3>1, <3>2, LogGrows
    <3> QED BY <3>2, <3>3 DEF Log!Next
  <2>2. CASE ~Present(s)
    BY <1>2, <2>2, LogStutter DEF TurnRecord
  <2> QED BY <2>1, <2>2
<1>3. CASE TurnEnd(t)
  <2>1. CASE Present(s)
    <3> DEFINE r == [sessions[s] EXCEPT !.running = FALSE, !.turn = None]
    <3>0. sessions[s] \in Records
      BY <1>0, <2>1, PresentRecord
    <3>1. r \in Records /\ r.events = sessions[s].events /\ ~r.running
      BY <3>0 DEF Records
    <3>2. sessions' = [sessions EXCEPT ![s] = r]
      BY <1>0, <1>3, <2>1, <3>0 DEF TurnEnd, TableOK, Records
    <3> HIDE DEF r
    <3>3. CASE sessions[s].running
      <4>1. /\ LogMap' = [LogMap EXCEPT ![s] = Types(r)]
            /\ BusyMap' = [BusyMap EXCEPT ![s] = r.running]
        BY <1>0, <3>1, <3>2, MapSet
      <4>2. LogMap[s] = Types(r) /\ BusyMap[s]
        BY <2>1, <3>1, <3>3 DEF LogMap, BusyMap, LogOf, Types
      <4>3. LogMap' = LogMap /\ BusyMap' = [BusyMap EXCEPT ![s] = FALSE]
        BY <3>1, <4>1, <4>2 DEF LogMap, Records
      <4>4. Log!Finish(s)
        BY <4>2, <4>3 DEF Log!Finish, LogMap, BusyMap
      <4> QED BY <4>4 DEF Log!Next
    <3>4. CASE ~sessions[s].running
      BY <1>0, <2>1, <3>0, <3>1, <3>2, <3>4, LogSame DEF Records
    <3> QED BY <3>3, <3>4
  <2>2. CASE ~Present(s)
    BY <1>3, <2>2, LogStutter DEF TurnEnd
  <2> QED BY <2>1, <2>2
<1> QED BY <1>1, <1>2, <1>3 DEF RunTurn

LEMMA LogStep == Typed /\ [Next]_vars => [Log!Next]_(Log!vars)
<1> SUFFICES ASSUME Typed, [Next]_vars PROVE Log!Next \/ UNCHANGED Log!vars
  OBVIOUS
<1>1. CASE MintTicket \/ SendDelayed \/ \E c \in Conns : Accept(c) \/ Deliver(c) \/ HangUp(c)
  BY <1>1, LogStutter DEF MintTicket, SendDelayed, Accept, Deliver, HangUp
<1>2. CASE UNCHANGED vars
  BY <1>2, LogStutter DEF vars
<1> QED BY <1>1, <1>2, LogRequest, LogHandle, LogTurn DEF Next

-----------------------------------------------------------------------------
(* Numbers are places                                                       *)

Numbered(r) ==
  /\ r.seq = Len(r.events)
  /\ \A i \in 1 .. Len(r.events) : r.events[i].seq = i

AllNumbered == \A s \in Sids : Present(s) => Numbered(sessions[s])

LEMMA RecordedNumbered ==
  ASSUME NEW r \in Records, Numbered(r), NEW e \in Events
  PROVE  Numbered(Recorded(r, e))
<1> DEFINE ev == [seq |-> r.seq + 1, type |-> e]
           q  == Recorded(r, e)
<1>1. r.events \in Seq(EventsOf) /\ r.seq = Len(r.events)
  BY DEF Records, Numbered
<1>2. q.events = Append(r.events, ev) /\ q.seq = r.seq + 1
  BY RecordedRecord
<1>3. /\ Len(q.events) = Len(r.events) + 1
      /\ \A i \in 1 .. Len(r.events) : q.events[i] = r.events[i]
      /\ q.events[Len(r.events) + 1] = ev
  BY <1>1, <1>2
<1>4. \A i \in 1 .. Len(q.events) : q.events[i].seq = i
  BY <1>1, <1>3 DEF Numbered
<1> HIDE DEF q
<1>5. Numbered(q)
  BY <1>1, <1>2, <1>3, <1>4 DEF Numbered
<1> QED BY <1>5 DEF q

LEMMA NumberedSet ==
  ASSUME TableOK, AllNumbered, NEW s \in Sids, NEW r, Numbered(r) \/ r = Absent,
         sessions' = [sessions EXCEPT ![s] = r]
  PROVE  AllNumbered'
BY DEF TableOK, AllNumbered, Present, Numbered

\* Whoever has the events of a numbered record and its counter is one.
LEMMA NumberedSame ==
  ASSUME NEW q, NEW r, Numbered(q), r.events = q.events, r.seq = q.seq
  PROVE  Numbered(r)
BY DEF Numbered

LEMMA EntryNumbered ==
  ASSUME AllNumbered, NEW s \in Sids
  PROVE  Numbered(Entry(s)) /\ Numbered(Fresh)
BY DEF AllNumbered, Entry, Numbered, Fresh

LEMMA NumberedRequest ==
  ASSUME Typed, AllNumbered, NEW c \in Conns, Request(c)
  PROVE  AllNumbered'
<1>0. TableOK  BY DEF Typed
<1>1. ASSUME sessions' = sessions PROVE AllNumbered'
  BY <1>1 DEF AllNumbered, Present, Numbered
<1>2. CASE Read(c)  BY <1>1, <1>2 DEF Read
<1>3. ASSUME NEW titled \in BOOLEAN, NEW s \in Sids, Touch(c, s, titled) PROVE AllNumbered'
  <2>1. PICK r : r = [Entry(s) EXCEPT !.titled = @ \/ titled]  OBVIOUS
  <2>2. r.events = Entry(s).events /\ r.seq = Entry(s).seq  BY <1>0, <2>1, EntryRecord DEF Records
  <2>3. Numbered(r)  BY <2>2, EntryNumbered, NumberedSame
  <2> QED BY <1>0, <1>3, <2>1, <2>3, NumberedSet DEF Touch
<1>4. ASSUME NEW titled \in BOOLEAN, Create(c, titled) PROVE AllNumbered'
  <2>1. PICK s, r : s \in Sids /\ s = nextSid /\ r = [Fresh EXCEPT !.titled = titled]
    BY <1>4 DEF Create
  <2>2. r.events = Fresh.events /\ r.seq = Fresh.seq  BY <1>0, <2>1, FreshRecord DEF Records
  <2>3. Numbered(r)  BY <2>1, <2>2, EntryNumbered, NumberedSame
  <2> QED BY <1>0, <1>4, <2>1, <2>3, NumberedSet DEF Create
<1>5. ASSUME NEW s \in Sids, Close(c, s) PROVE AllNumbered'
  BY <1>0, <1>1, <1>5, NumberedSet DEF Close
<1>6. ASSUME NEW s \in Sids, Interrupt(c, s) PROVE AllNumbered'
  <2>1. CASE Present(s) /\ sessions[s].running
    <3>1. PICK b : b = [sessions[s] EXCEPT !.turn = None, !.running = FALSE]  OBVIOUS
    <3>2. sessions[s] \in Records  BY <1>0, <2>1, PresentRecord
    <3>3. b \in Records /\ b.events = sessions[s].events /\ b.seq = sessions[s].seq
      BY <3>1, <3>2 DEF Records
    <3>4. Numbered(b)  BY <2>1, <3>3, NumberedSame DEF AllNumbered
    <3>5. Numbered(Recorded(b, "interrupted"))
      BY <3>3, <3>4, RecordedNumbered DEF Events
    <3>6. sessions' = [sessions EXCEPT ![s] = Recorded(b, "interrupted")]
      BY <1>6, <2>1, <3>1 DEF Interrupt
    <3> QED BY <1>0, <3>5, <3>6, NumberedSet
  <2>2. CASE ~(Present(s) /\ sessions[s].running)
    BY <1>1, <1>6, <2>2 DEF Interrupt
  <2> QED BY <2>1, <2>2
<1>7. ASSUME NEW s \in Sids, Submit(c, s) PROVE AllNumbered'
  <2>1. CASE Entry(s).running  BY <1>1, <1>7, <2>1 DEF Submit
  <2>2. CASE ~Entry(s).running
    <3>1. PICK r : r = [Entry(s) EXCEPT !.running = TRUE]  OBVIOUS
    <3>2. r.events = Entry(s).events /\ r.seq = Entry(s).seq  BY <1>0, <3>1, EntryRecord DEF Records
    <3>3. Numbered(r)  BY <3>2, EntryNumbered, NumberedSame
    <3> QED BY <1>0, <1>7, <2>2, <3>1, <3>3, NumberedSet DEF Submit
  <2> QED BY <2>1, <2>2
<1> QED BY <1>2, <1>3, <1>4, <1>5, <1>6, <1>7 DEF Request

LEMMA NumberedStep == Typed /\ AllNumbered /\ [Next]_vars => AllNumbered'
<1> SUFFICES ASSUME Typed, AllNumbered, [Next]_vars PROVE AllNumbered'
  OBVIOUS
<1>0. TableOK  BY DEF Typed
<1>1. ASSUME sessions' = sessions PROVE AllNumbered'
  BY <1>1 DEF AllNumbered, Present, Numbered
<1>2. ASSUME NEW s \in Sids, Present(s), NEW e \in Events,
             sessions' = [sessions EXCEPT ![s] = Recorded(sessions[s], e)]
      PROVE  AllNumbered'
  <2>1. PICK r : r = Recorded(sessions[s], e)  OBVIOUS
  <2>2. Numbered(r)
    BY <1>0, <1>2, <2>1, PresentRecord, RecordedNumbered DEF AllNumbered
  <2> QED BY <1>0, <1>2, <2>1, <2>2, NumberedSet
<1>3. ASSUME NEW s \in Sids, Present(s), NEW r, sessions' = [sessions EXCEPT ![s] = r],
             r.events = sessions[s].events, r.seq = sessions[s].seq
      PROVE  AllNumbered'
  <2>1. Numbered(r)  BY <1>3, NumberedSame DEF AllNumbered
  <2> QED BY <1>0, <1>3, <2>1, NumberedSet
<1>4. ASSUME NEW c \in Conns, Handle(c) PROVE AllNumbered'
  <2>s. PICK s \in Sids : s = serving[c].sid  BY DEF Typed, ServingOK
  <2>1. CASE CreateTitle(c)
    BY <1>1, <1>2, <2>s, <2>1 DEF CreateTitle, Events
  <2>2. CASE SubmitSpawn(c)  BY <1>1, <2>2 DEF SubmitSpawn
  <2>3. CASE SubmitStore(c)
    <3>1. CASE Present(s)
      <4>1. PICK r : r = [sessions[s] EXCEPT !.turn = serving[c].turn]  OBVIOUS
      <4>2. r.events = sessions[s].events /\ r.seq = sessions[s].seq
        BY <1>0, <3>1, <4>1, PresentRecord DEF Records
      <4>3. sessions' = [sessions EXCEPT ![s] = r]
        BY <1>0, <2>s, <2>3, <3>1, <4>1 DEF SubmitStore, TableOK
      <4> QED BY <1>3, <3>1, <4>2, <4>3
    <3>2. CASE ~Present(s)  BY <1>1, <2>s, <2>3, <3>2 DEF SubmitStore
    <3> QED BY <3>1, <3>2
  <2> QED BY <1>4, <2>1, <2>2, <2>3 DEF Handle
<1>5. ASSUME NEW t \in Turns, RunTurn(t) PROVE AllNumbered'
  <2>s. PICK s \in Sids : s = turn[t].sid  BY DEF Typed, TurnOK, Tasks
  <2>1. CASE TurnWake(t) \/ TurnSend(t)  BY <1>1, <2>1 DEF TurnWake, TurnSend
  <2>2. CASE TurnRecord(t)
    <3>1. FrameType(t) \in Events  BY DEF FrameType, Events
    <3> QED BY <1>1, <1>2, <2>s, <2>2, <3>1 DEF TurnRecord
  <2>3. CASE TurnEnd(t)
    <3>1. CASE Present(s)
      <4>1. PICK r : r = [sessions[s] EXCEPT !.running = FALSE, !.turn = None]  OBVIOUS
      <4>2. sessions[s] \in Records  BY <1>0, <3>1, PresentRecord
      <4>3. r.events = sessions[s].events /\ r.seq = sessions[s].seq
        BY <4>1, <4>2 DEF Records
      <4>4. sessions' = [sessions EXCEPT ![s] = r]
        BY <1>0, <2>s, <2>3, <3>1, <4>1, <4>2 DEF TurnEnd, TableOK, Records
      <4> QED BY <1>3, <3>1, <4>3, <4>4
    <3>2. CASE ~Present(s)  BY <1>1, <2>s, <2>3, <3>2 DEF TurnEnd
    <3> QED BY <3>1, <3>2
  <2> QED BY <1>5, <2>1, <2>2, <2>3 DEF RunTurn
<1>6. CASE MintTicket \/ SendDelayed \/ \E c \in Conns : Accept(c) \/ Deliver(c) \/ HangUp(c)
  BY <1>1, <1>6 DEF MintTicket, SendDelayed, Accept, Deliver, HangUp
<1>7. CASE UNCHANGED vars  BY <1>1, <1>7 DEF vars
<1> QED BY <1>4, <1>5, <1>6, <1>7, NumberedRequest DEF Next

\* The places above n, and the k-th of them.
LEMMA LaterPlaces ==
  ASSUME NEW L \in Nat, NEW n \in 0 .. L
  PROVE  /\ Cardinality(n + 1 .. L) = L - n
         /\ \A k \in 1 .. L - n : Nth(n + 1 .. L, k) = n + k
<1>1. Cardinality(n + 1 .. L) = L - n
  <2>1. n + 1 \in Int /\ L \in Int  OBVIOUS
  <2>2. Cardinality(n + 1 .. L) = IF n + 1 > L THEN 0 ELSE L - (n + 1) + 1
    BY <2>1, FS_Interval
  <2> QED BY <2>2
<1>2. ASSUME NEW i \in n + 1 .. L PROVE Upto(n + 1 .. L, i) = i - n
  <2>1. {j \in n + 1 .. L : j <= i} = n + 1 .. i  OBVIOUS
  <2>2. Cardinality(n + 1 .. i) = i - n  BY FS_Interval
  <2> QED BY <2>1, <2>2 DEF Upto
<1>3. ASSUME NEW k \in 1 .. L - n PROVE Nth(n + 1 .. L, k) = n + k
  <2>1. n + k \in n + 1 .. L /\ \A i \in n + 1 .. L : Upto(n + 1 .. L, i) = k <=> i = n + k
    BY <1>2
  <2>2. PICK I : I = n + 1 .. L  OBVIOUS
  <2>3. n + k \in I /\ \A i \in I : Upto(I, i) = k <=> i = n + k  BY <2>1, <2>2
  <2>4. Nth(I, k) = n + k  BY <2>3 DEF Nth
  <2> QED BY <2>2, <2>4
<1> QED BY <1>1, <1>3

LEMMA SinceIsTheRest ==
  ASSUME NEW r \in Records, Numbered(r), NEW n \in 0 .. r.seq
  PROVE  EventsSince(r, n) = SubSeq(r.events, n + 1, r.seq)
<1>1. PICK es, L : es = r.events /\ L = r.seq  OBVIOUS
<1>2. es \in Seq(EventsOf) /\ L \in Nat /\ L = Len(es)
  BY <1>1 DEF Records, Numbered
<1>3. {i \in DOMAIN es : es[i].seq > n} = n + 1 .. L
  <2>1. DOMAIN es = 1 .. L /\ \A i \in 1 .. L : es[i].seq = i  BY <1>1, <1>2 DEF Numbered
  <2> QED BY <1>1, <1>2, <2>1
<1>4. EventsSince(r, n) = [k \in 1 .. L - n |-> es[n + k]]
  BY <1>1, <1>2, <1>3, LaterPlaces DEF EventsSince, Picked
<1>5. SubSeq(es, n + 1, L) = [k \in 1 .. L - n |-> es[n + k]]
  <2>1. Len(SubSeq(es, n + 1, L)) = L - n /\ SubSeq(es, n + 1, L) \in Seq(EventsOf)
    BY <1>1, <1>2
  <2>2. \A k \in 1 .. L - n : SubSeq(es, n + 1, L)[k] = es[n + k]
    BY <1>1, <1>2
  <2> QED BY <2>1, <2>2
<1> QED BY <1>1, <1>4, <1>5

-----------------------------------------------------------------------------
(* Theorems                                                                 *)

\* Every reachable state of the gateway is well typed, and a handler works only
\* for an open connection, for any number of clients, ids and turns.
THEOREM GatewayTyped == Spec => []TypeOK
<1>1. Typed => TypeOK
  BY DEF Typed, TableOK, SocketOK, OutOK, ServingOK, TurnOK, Tasks, DelayedOK, AtWork, Frames, TypeOK
<1> QED BY <1>1, TypedAlways, PTL

\* prompt.submit, session.interrupt, session.close and the end of run_turn leave
\* no session marked running without a live turn, however many connections and
\* turns meet in it.
THEOREM RunningHasSomebody == Spec => []RunningHasATurn
<1>1. RunningInv => RunningHasATurn
  BY DEF RunningInv
<1> QED BY <1>1, RunningInit, RunningStep, PTL DEF Spec

\* The session table implements SessionLog: every step of a handler or a turn
\* makes, extends or removes one log as SessionLog allows, or none.
THEOREM TableIsALog == Spec => ImplementsLog
BY LogInit, LogStep, TypedAlways, PTL DEF Spec, ImplementsLog, Log!Spec

\* Handlers and turns number the events of a session by their places in its log, so
\* that session.events.since gives exactly what a client lacks, from any number on.
THEOREM NumbersArePlaces == Spec => []ReplayFillsTheGap
<1>1. Init => AllNumbered
  BY DEF Init, AllNumbered, Present
<1>2. Typed /\ AllNumbered => ReplayFillsTheGap
  BY PresentRecord, SinceIsTheRest DEF Typed, AllNumbered, ReplayFillsTheGap, Numbered
<1> QED BY <1>1, <1>2, InitTyped, TypedStep, NumberedStep, PTL DEF Spec

=============================================================================
