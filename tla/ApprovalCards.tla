---------------------------- MODULE ApprovalCards ----------------------------
(***************************************************************************)
(* The cards the user must answer, from the gateway to the screen          *)
(* (hermes_core/src/core.rs: reemit_approvals, respond_approval,           *)
(* respond_clarify, interrupt, the delivery of changes to the EventSink;   *)
(* transcript/reducer.rs: the approval and clarify cards;                  *)
(* android GatewayRepository.kt and TranscriptState.kt: what the app does  *)
(* with a change).                                                         *)
(*                                                                         *)
(* One session.  A task computes changes under the core's lock and hands   *)
(* them to the sink after it, one by one (`out`), so that the changes of   *)
(* two tasks may arrive in another order than the rows were made in.  The  *)
(* app queues them to its main thread (`pipe`), which puts each row at its *)
(* index.  Changes for a session that is being opened are parked.  Retry   *)
(* and a new login open every session of the registry again, those that    *)
(* are open as tabs and have rows included.                                *)
(***************************************************************************)
EXTENDS Naturals, Sequences, SequencesExt

CONSTANTS
  Requests,    \* request ids
  Questions,   \* questions of one clarification
  Answers,     \* respond_approval and respond_clarify calls
  History,     \* messages session.resume returns
  ParkMax,     \* PARKED_CHANGES_MAX (512 in the code)
  MaxConns,    \* bound on connections; the last one lasts
  MaxOpens     \* bound on open_session calls

ASSUME CardsAssumption ==
  /\ {"none", "text", "blank"} \cap Requests = {}
  /\ History \in Nat /\ MaxOpens \in Nat
  /\ {Questions, ParkMax, MaxConns} \subseteq Nat \ {0}

VARIABLES
  \* the gateway
  clarifies,   \* the requests that are clarify.request, the others approval.request
  asked,       \* the event log of the session: its requests, in order
  oldest,      \* how many of them the log has dropped
  waiting,     \* questions of each request the gateway waits for
  attached,    \* this connection receives the session's events
  \* the connection
  up, conns,   \* it is open; how many there have been
  buffer,      \* the supervisor's broadcast receiver: positions in `asked`
  \* CoreState
  open,        \* the session is in `sessions`
  rows,        \* its transcript
  seen,        \* its watermark
  emitted,     \* emitted_approvals
  \* tasks
  spc, sup,    \* the supervisor and its locals
  ans,         \* each respond call
  opc, opens,  \* openMainSession or openExistingSession, with openAndRegister
  closing,     \* closeTab waits for close_session to return
  out,         \* changes computed and not handed over, in the order they were made in
  \* the app
  stored,      \* the registry has the session
  tab,         \* it is in the tab set
  pending,     \* it is in pendingKeys
  pipe,        \* the channel to the main thread
  view,        \* its rows
  parked,
  \* history
  lost,        \* approvals whose re-emitted card was removed with the transcript it was on
  checked,     \* approval.pending was asked since the transcript was made, and while the
               \* connection received the session's events
  astray       \* since the transcript of a tab was replaced, a change overtook an earlier
               \* one to the same row, the park gave one up, or the tab went with the
               \* session open

gateVars == <<clarifies, asked, oldest, waiting, attached>>
wireVars == <<up, conns, buffer>>
coreVars == <<open, rows, seen, emitted>>
supVars  == <<spc, sup>>
tabVars  == <<opc, opens, closing, stored, tab, pending>>
appVars  == <<pipe, view, parked>>
histVars == <<lost, checked, astray>>
vars == <<gateVars, wireVars, coreVars, supVars, ans, tabVars, out, appVars, histVars>>

Approvals == Requests \ clarifies
Procs == {"sup", "open"} \cup Answers

Rows == [id : Requests \cup {"text", "blank"}, waits : BOOLEAN]
Card(id) == [id |-> id, waits |-> TRUE]
Blank == [id |-> "blank", waits |-> FALSE]
Text == [id |-> "text", waits |-> FALSE]

Changes == [type : {"appended", "updated", "reset"}, index : Nat, row : Rows]
Change(type, i, row) == [type |-> type, index |-> i, row |-> row]

\* The changes a task has yet to hand over.
Sends == [by : Procs, change : Changes]
Through(p) == \A i \in DOMAIN out : out[i].by # p

Opening == {"resume", "install", "register"}

Idle == [id |-> "none", conn |-> 0, pc |-> "idle"]

TypeOK ==
  /\ asked \in Seq(Requests) /\ clarifies \subseteq Requests /\ oldest \in 0 .. Len(asked)
  /\ waiting \in [Requests -> 0 .. Questions]
  /\ attached \in BOOLEAN /\ up \in BOOLEAN /\ open \in BOOLEAN
  /\ conns \in 1 .. MaxConns
  /\ buffer \in Seq(1 .. Len(asked))
  /\ rows \in Seq(Rows) /\ seen \in 0 .. Len(asked) /\ emitted \subseteq Approvals
  /\ spc \in {"resume", "since", "rebuild", "replay", "list", "cards", "loop"}
  /\ sup \in [mark : 0 .. Len(asked), todo : Seq(1 .. Len(asked)), cards : SUBSET Approvals]
  /\ ans \in [Answers -> [id : Requests \cup {"none"}, conn : 0 .. MaxConns,
                          pc : {"idle", "sent", "taken"}]]
  /\ opc \in Opening \cup {"idle", "listed", "drain", "failed"}
  /\ opens \in 0 .. MaxOpens
  /\ closing \in BOOLEAN /\ stored \in BOOLEAN /\ tab \in BOOLEAN /\ pending \in BOOLEAN
  /\ out \in Seq(Sends) /\ pipe \in Seq(Changes)
  /\ view \in Seq(Rows)
  /\ parked \in Seq(Changes) /\ Len(parked) <= ParkMax
  /\ lost \subseteq Approvals /\ checked \in BOOLEAN /\ astray \in BOOLEAN

\* ingest_resume_messages: the history holds no cards.
HistoryRows == [i \in 1 .. History |-> Text]

\* The session was opened on this connection, or the app has just started and the
\* registry has it; the supervisor is at its first pass over the registry or past it.
Init ==
  /\ clarifies \in SUBSET Requests
  /\ asked = <<>> /\ oldest = 0
  /\ waiting = [id \in Requests |-> 0]
  /\ up = TRUE /\ conns = 1 /\ buffer = <<>>
  /\ open \in BOOLEAN /\ attached = open /\ tab = open
  /\ rows = (IF open THEN HistoryRows ELSE <<>>) /\ view = rows
  /\ seen = 0 /\ emitted = {}
  /\ spc \in {"resume", "loop"} /\ sup = [mark |-> 0, todo |-> <<>>, cards |-> {}]
  /\ ans = [a \in Answers |-> Idle]
  /\ opc = "idle" /\ opens = 0
  /\ closing = FALSE /\ stored = TRUE /\ pending = FALSE
  /\ out = <<>> /\ pipe = <<>> /\ parked = <<>>
  /\ lost = {} /\ checked = FALSE /\ astray = FALSE

-----------------------------------------------------------------------------
(* The gateway and the network                                              *)

\* A tool or the model asks; the turn waits for the answer.
Ask(id) ==
  /\ ~Contains(asked, id)
  /\ asked' = Append(asked, id)
  /\ waiting' = [waiting EXCEPT ![id] = IF id \in Approvals THEN 1 ELSE Questions]
  /\ buffer' = IF up /\ attached THEN Append(buffer, Len(asked) + 1) ELSE buffer
  /\ UNCHANGED <<clarifies, oldest, attached, up, conns, coreVars, supVars, ans, tabVars, out,
                 appVars, histVars>>

\* The event log is a ring.
Truncate ==
  /\ oldest < Len(asked)
  /\ oldest' = oldest + 1
  /\ UNCHANGED <<clarifies, asked, waiting, attached, wireVars, coreVars, supVars, ans, tabVars, out,
                 appVars, histVars>>

Lose ==
  /\ up /\ conns < MaxConns
  /\ up' = FALSE /\ attached' = FALSE
  /\ UNCHANGED <<clarifies, asked, oldest, waiting, conns, buffer, coreVars, supVars, ans, tabVars,
                 out, appVars, histVars>>

\* Mutation: a late answer is counted too.
CountLate(id) == waiting' = [waiting EXCEPT ![id] = @ - 1]

\* The gateway has one answer to the request.
Count(id) == waiting' = [waiting EXCEPT ![id] = IF @ > 0 THEN @ - 1 ELSE 0]

\* An interrupt or a timeout in the gateway: it waits no longer, and nothing tells the
\* core; `interrupt` leaves the cards as they are.  An answer of another client, or one
\* that arrives after its caller has given up, is one question less.
Withdraw ==
  /\ \E id \in Requests : waiting[id] > 0
  /\ \/ waiting' = [id \in Requests |-> 0]
     \/ \E id \in Requests : Count(id)
  /\ UNCHANGED <<clarifies, asked, oldest, attached, wireVars, coreVars, supVars, ans, tabVars, out,
                 appVars, histVars>>

-----------------------------------------------------------------------------
(* Rows and their delivery                                                  *)

\* What a task computes under the lock it delivers after it.
Deliver(p, change) == out' = Append(out, [by |-> p, change |-> change])

DeliverAll(p, changes) ==
  out' = out \o [i \in DOMAIN changes |-> [by |-> p, change |-> changes[i]]]

\* on_approval_request, on_clarify_request
AppendCard(id) ==
  /\ rows' = Append(rows, Card(id))
  /\ Deliver("sup", Change("appended", Len(rows) + 1, Card(id)))

\* deliver_event and route_event.
DeliverEvent(n) ==
  IF open
  THEN /\ AppendCard(asked[n])
       /\ seen' = IF n > seen THEN n ELSE seen
       /\ UNCHANGED <<open, emitted>>
  ELSE UNCHANGED <<coreVars, out>>

HistoryChanges ==
  <<Change("reset", 0, Blank)>> \o [i \in 1 .. History |-> Change("appended", i, Text)]

\* Both changes write some row, and the later one must stay.
Overlap(c, d) == c.type = "reset" \/ d.type = "reset" \/ c.index = d.index

\* One EventSink::on_transcript call: a task hands over its changes in their order, two
\* tasks in any.
OnTranscript(p) ==
  \E j \in DOMAIN out :
    /\ out[j].by = p /\ \A i \in 1 .. j - 1 : out[i].by # p
    /\ pipe' = Append(pipe, out[j].change)
    /\ out' = RemoveAt(out, j)
    /\ astray' = (astray \/ \E i \in 1 .. j - 1 : Overlap(out[i].change, out[j].change))
    /\ UNCHANGED <<gateVars, wireVars, coreVars, supVars, ans, tabVars, view, parked, lost, checked>>

-----------------------------------------------------------------------------
(* The supervisor                                                           *)

\* A step of the supervisor: it has handed over what it computed before.
SupStep(from, to) ==
  /\ spc = from /\ spc' = to
  /\ Through("sup")
  /\ UNCHANGED <<clarifies, asked, oldest, waiting, ans, tabVars, appVars>>

\* Connected again; what the old broadcast still held is dropped.
SupReconnect ==
  /\ ~up /\ conns < MaxConns
  /\ SupStep("loop", "resume")
  /\ up' = TRUE /\ conns' = conns + 1
  /\ buffer' = <<>>
  /\ checked' = FALSE
  /\ UNCHANGED <<attached, coreVars, sup, out, lost, astray>>

\* resume_all, over the registry; a session whose calls fail is skipped, and a call that
\* timed out may have reached the gateway.
SupResume ==
  /\ \/ up /\ stored /\ attached' = TRUE /\ (SupStep("resume", "since") \/ SupStep("resume", "list"))
     \/ SupStep("resume", "list") /\ UNCHANGED attached
  /\ sup' = [sup EXCEPT !.mark = seen]
  /\ UNCHANGED <<wireVars, coreVars, out, histVars>>

SupSince ==
  /\ \/ /\ up /\ sup.mark < oldest
        /\ SupStep("since", "rebuild")
        /\ UNCHANGED sup
     \/ /\ up /\ sup.mark >= oldest
        /\ SupStep("since", "replay")
        /\ sup' = [sup EXCEPT !.todo = [i \in 1 .. Len(asked) - sup.mark |-> sup.mark + i]]
     \/ SupStep("since", "list") /\ UNCHANGED sup
  /\ UNCHANGED <<attached, wireVars, coreVars, out, histVars>>

SupRebuild ==
  /\ SupStep("rebuild", "list")
  /\ IF open
     THEN /\ rows' = HistoryRows /\ seen' = 0
          /\ lost' = lost \cup emitted
          /\ DeliverAll("sup", HistoryChanges)
          /\ astray' = (astray /\ ~tab)
     ELSE UNCHANGED <<rows, seen, out, lost, astray>>
  /\ UNCHANGED <<attached, wireVars, open, emitted, sup, checked>>

SupReplay ==
  /\ \/ /\ sup.todo = <<>>
        /\ SupStep("replay", "list")
        /\ UNCHANGED <<sup, coreVars, out>>
     \/ /\ sup.todo # <<>>
        /\ SupStep("replay", "replay")
        /\ DeliverEvent(Head(sup.todo))
        /\ sup' = [sup EXCEPT !.todo = Tail(@)]
  /\ UNCHANGED <<attached, wireVars, histVars>>

\* reemit_approvals: the session's live sid, then approval.pending, which lists
\* what is waited for in an order of the gateway's own; a session that is not open, or
\* whose call fails, is skipped.
SupList ==
  /\ \/ /\ up /\ open
        /\ SupStep("list", "cards")
        /\ sup' = [sup EXCEPT !.cards = {id \in Approvals : waiting[id] > 0}]
        /\ checked' = TRUE
     \/ SupStep("list", "loop") /\ UNCHANGED <<sup, checked>>
  /\ UNCHANGED <<attached, wireVars, coreVars, out, lost, astray>>

\* has_unresolved_approval
HasCard(id) == \E i \in DOMAIN rows : rows[i] = Card(id)

CardsDone ==
  /\ sup.cards = {}
  /\ SupStep("cards", "loop")
  /\ UNCHANGED <<attached, wireVars, coreVars, sup, out, histVars>>

\* One card: neither re-emitted before nor waiting on the transcript.
SupCard ==
  \/ CardsDone
  \/ /\ SupStep("cards", "cards")
     /\ \E id \in sup.cards :
          /\ sup' = [sup EXCEPT !.cards = @ \ {id}]
          /\ IF open /\ id \notin emitted /\ ~HasCard(id)
             THEN AppendCard(id) /\ emitted' = emitted \cup {id}
             ELSE UNCHANGED <<rows, emitted, out>>
     /\ UNCHANGED <<attached, wireVars, open, seen, histVars>>

SupEvent ==
  /\ buffer # <<>>
  /\ SupStep("loop", "loop")
  /\ DeliverEvent(Head(buffer))
  /\ buffer' = Tail(buffer)
  /\ UNCHANGED <<attached, up, conns, sup, histVars>>

-----------------------------------------------------------------------------
(* respond_approval, respond_clarify                                        *)

OnScreen(id) == tab /\ \E i \in DOMAIN view : view[i] = Card(id)

AnsStep(a, from, to) == ans[a].pc = from /\ ans' = [ans EXCEPT ![a] = to]

\* The user answers a card on the screen.
Respond(a, id) ==
  /\ OnScreen(id)
  /\ open /\ up
  /\ AnsStep(a, "idle", [id |-> id, conn |-> conns, pc |-> "sent"])
  /\ UNCHANGED <<gateVars, wireVars, coreVars, supVars, tabVars, out, appVars, histVars>>

Online(a) == up /\ ans[a].conn = conns

\* The gateway takes an answer to what it waits for, one question a call; a late
\* answer to a clarification gets the status `expired`, which is no error.
RespondTaken(a) ==
  /\ Online(a)
  /\ waiting[ans[a].id] > 0 \/ ans[a].id \in clarifies
  /\ AnsStep(a, "sent", [ans[a] EXCEPT !.pc = "taken"])
  /\ Count(ans[a].id)
  /\ UNCHANGED <<clarifies, asked, oldest, attached, wireVars, coreVars, supVars, tabVars, out, appVars,
                 histVars>>

\* 4009, no such request: an error like any other, the call returns it.
RespondGone(a) ==
  /\ Online(a)
  /\ waiting[ans[a].id] = 0 /\ ans[a].id \in Approvals
  /\ AnsStep(a, "sent", Idle)
  /\ UNCHANGED <<gateVars, wireVars, coreVars, supVars, tabVars, out, appVars, histVars>>

\* Mutation: a call that was not answered is taken for one that was.
RespondLostIgnored(a) ==
  /\ AnsStep(a, "sent", [ans[a] EXCEPT !.pc = "taken"])
  /\ Count(ans[a].id) \/ UNCHANGED waiting
  /\ UNCHANGED <<clarifies, asked, oldest, attached, wireVars, coreVars, supVars, tabVars, out, appVars,
                 histVars>>

\* No answer to the call, the connection having gone or the call having timed out, before
\* the gateway had the answer or after: an error, which the call returns.
RespondLost(a) ==
  /\ AnsStep(a, "sent", Idle)
  /\ Count(ans[a].id) \/ UNCHANGED waiting
  /\ UNCHANGED <<clarifies, asked, oldest, attached, wireVars, coreVars, supVars, tabVars, out, appVars,
                 histVars>>

\* resolve_approval, resolve_clarify: the first such card.
FirstCard(id, i) == rows[i] = Card(id) /\ \A j \in 1 .. i - 1 : rows[j] # Card(id)

RespondResolve(a) ==
  /\ AnsStep(a, "taken", Idle)
  /\ Through(a)
  /\ LET id == ans[a].id IN
       \/ /\ ~(open /\ HasCard(id))
          /\ UNCHANGED <<rows, out>>
       \/ /\ open
          /\ \E i \in DOMAIN rows :
               /\ FirstCard(id, i)
               /\ rows' = [rows EXCEPT ![i].waits = FALSE]
               /\ Deliver(a, Change("updated", i, rows'[i]))
  /\ UNCHANGED <<gateVars, wireVars, open, seen, emitted, supVars, tabVars, appVars, histVars>>

AnswerCall(a) ==
  \/ \E id \in Requests : Respond(a, id)
  \/ RespondTaken(a)
  \/ RespondGone(a)
  \/ RespondLost(a)
  \/ RespondResolve(a)

-----------------------------------------------------------------------------
(* Tabs: openMainSession, openExistingSession, openAndRegister and closeTab *)
(* on the main thread, open_session and close_session in the core.          *)

TabStep(from, to) == opc = from /\ opc' = to

\* openMainSession, after connect: every session of the registry goes to pendingKeys,
\* whether it is open or not.
Restore ==
  /\ stored /\ opens < MaxOpens
  /\ TabStep("idle", "listed")
  /\ opens' = opens + 1
  /\ pending' = TRUE
  /\ UNCHANGED <<gateVars, wireVars, coreVars, supVars, ans, out, closing, stored, tab, appVars,
                 histVars>>

\* Its turn comes.
OpenNext ==
  /\ TabStep("listed", "resume")
  /\ UNCHANGED <<gateVars, wireVars, coreVars, supVars, ans, opens, out, closing, stored, tab, pending,
                 appVars, histVars>>

\* openExistingSession: a session that is open as a tab is only switched to.
Pick ==
  /\ ~tab /\ opens < MaxOpens
  /\ TabStep("idle", "resume")
  /\ opens' = opens + 1
  /\ UNCHANGED <<gateVars, wireVars, coreVars, supVars, ans, out, closing, stored, tab, pending,
                 appVars, histVars>>

\* The gateway has session.resume: from now on the connection gets the events.
Attach ==
  /\ up
  /\ attached' = TRUE
  /\ checked' = (checked /\ attached)

OpenResume ==
  /\ TabStep("resume", "install")
  /\ Attach
  /\ UNCHANGED <<clarifies, asked, oldest, waiting, wireVars, coreVars, supVars, ans, opens, out,
                 closing, stored, tab, pending, appVars, lost, astray>>

\* A failed open drops what was parked; the gateway may have had the call.
OpenFails ==
  /\ TabStep("resume", IF pending THEN "failed" ELSE "idle")
  /\ Attach \/ UNCHANGED <<attached, checked>>
  /\ parked' = <<>>
  /\ UNCHANGED <<clarifies, asked, oldest, waiting, wireVars, coreVars, supVars, ans, opens, out,
                 closing, stored, tab, pending, pipe, view, lost, astray>>

\* openMainSession is through with the other sessions.
RestoreEnds ==
  /\ TabStep("failed", "idle")
  /\ pending' = FALSE
  /\ UNCHANGED <<gateVars, wireVars, coreVars, supVars, ans, opens, out, closing, stored, tab, appVars,
                 histVars>>

\* A session that is open already is replaced, its re-emitted cards with it, which
\* emitted_approvals keeps.  Without messages there is no Reset, and what the app has
\* had, or has yet to get, stays.
OpenInstall ==
  /\ TabStep("install", "register")
  /\ open' = TRUE /\ stored' = TRUE /\ rows' = HistoryRows /\ seen' = 0
  /\ IF History = 0
     THEN /\ UNCHANGED out
          /\ astray' = ~(out = <<>> /\ pipe = <<>> /\ parked = <<>> /\ view = <<>>)
     ELSE /\ DeliverAll("open", HistoryChanges)
          /\ astray' = FALSE
  /\ lost' = IF open THEN lost \cup emitted ELSE lost
  /\ checked' = FALSE
  /\ UNCHANGED <<gateVars, wireVars, emitted, supVars, ans, opens, closing, tab, pending, appVars>>

\* A row is put at its index, after blank ones if need be.
Place(shown, i, row) ==
  [k \in 1 .. (IF i > Len(shown) THEN i ELSE Len(shown)) |->
     IF k = i THEN row ELSE IF k <= Len(shown) THEN shown[k] ELSE Blank]

\* applyTranscriptChange
Apply(change, shown) ==
  IF change.type = "reset" THEN <<>> ELSE Place(shown, change.index, change.row)

\* open_session has returned: apply what was parked, one by one, the main thread
\* doing nothing else before it is through, then add the tab.
Returned == opc \in {"register", "drain"} /\ Through("open")

Unpark ==
  /\ Returned /\ parked # <<>>
  /\ opc' = "drain"
  /\ view' = Apply(Head(parked), view) /\ parked' = Tail(parked)
  /\ UNCHANGED <<gateVars, wireVars, coreVars, supVars, ans, opens, out, closing, stored, tab, pending,
                 pipe, histVars>>

\* Mutation: the tab starts with no rows, whatever the stream has delivered.
RegisterClobbering ==
  /\ Returned /\ parked = <<>>
  /\ opc' = "idle"
  /\ tab' = TRUE /\ pending' = FALSE
  /\ view' = <<>>
  /\ UNCHANGED <<gateVars, wireVars, coreVars, supVars, ans, opens, out, closing, stored, pipe, parked,
                 histVars>>

\* ensureSession keeps the rows that are there.
Register ==
  /\ Returned /\ parked = <<>>
  /\ opc' = "idle"
  /\ tab' = TRUE /\ pending' = FALSE
  /\ UNCHANGED <<gateVars, wireVars, coreVars, supVars, ans, opens, out, closing, stored, appVars,
                 histVars>>

\* Mutation: what was re-emitted to the closed tab is remembered.
CloseTabKeepingEmitted ==
  /\ tab /\ ~closing
  /\ closing' = TRUE
  /\ open' = FALSE /\ stored' = FALSE /\ rows' = <<>> /\ seen' = 0
  /\ lost' = {} /\ checked' = FALSE
  /\ UNCHANGED <<gateVars, wireVars, emitted, supVars, ans, opc, opens, tab, pending, out, appVars,
                 astray>>

\* closeTab calls close_session.
CloseTab ==
  /\ tab /\ ~closing
  /\ closing' = TRUE
  /\ open' = FALSE /\ stored' = FALSE /\ rows' = <<>> /\ seen' = 0 /\ emitted' = {}
  /\ lost' = {} /\ checked' = FALSE
  /\ UNCHANGED <<gateVars, wireVars, supVars, ans, opc, opens, tab, pending, out, appVars, astray>>

\* It has returned: the tab and its rows go, those of a session that was opened again
\* meanwhile too.
DropTab ==
  /\ closing /\ opc # "drain"
  /\ closing' = FALSE
  /\ tab' = FALSE /\ view' = <<>>
  /\ astray' = (astray \/ open)
  /\ UNCHANGED <<gateVars, wireVars, coreVars, supVars, ans, opc, opens, out, stored, pending, pipe,
                 parked, lost, checked>>

Known == tab \/ pending

\* onTranscriptChange: an unknown key is parked while an open is in flight, the oldest
\* parked change giving way to a new one; a change for it is dropped otherwise.
OnTranscriptChange ==
  /\ pipe # <<>> /\ opc # "drain"
  /\ pipe' = Tail(pipe)
  /\ \/ /\ Known
        /\ view' = Apply(Head(pipe), view)
        /\ UNCHANGED <<parked, astray>>
     \/ /\ ~Known /\ opc \in Opening
        /\ parked' = Append(IF Len(parked) < ParkMax THEN parked ELSE Tail(parked), Head(pipe))
        /\ astray' = (astray \/ Len(parked) = ParkMax)
        /\ UNCHANGED view
     \/ /\ ~Known /\ opc \notin Opening
        /\ UNCHANGED <<view, parked, astray>>
  /\ UNCHANGED <<gateVars, wireVars, coreVars, supVars, ans, tabVars, out, lost, checked>>

Tab ==
  Restore \/ OpenNext \/ Pick \/ OpenResume \/ OpenFails \/ RestoreEnds \/ OpenInstall \/ Unpark
    \/ Register \/ CloseTab \/ DropTab

-----------------------------------------------------------------------------

Gateway ==
  \/ \E id \in Requests : Ask(id)
  \/ Withdraw
  \/ Truncate
  \/ Lose

Supervisor ==
  SupReconnect \/ SupResume \/ SupSince \/ SupRebuild \/ SupReplay \/ SupList \/ SupCard
    \/ SupEvent

Next ==
  \/ Gateway
  \/ Supervisor
  \/ \E a \in Answers : AnswerCall(a)
  \/ Tab
  \/ \E p \in Procs : OnTranscript(p)
  \/ OnTranscriptChange

Spec == Init /\ [][Next]_vars

-----------------------------------------------------------------------------
(* Properties                                                               *)

Delivered == out = <<>> /\ pipe = <<>>

\* The core's transcript and the app's row list must not drift apart
\* (core.rs:1996-1999): once every change has arrived, shown at once or parked, in the
\* first life of the tab or a later one, on a tab that stayed open while Retry opened it
\* again too, the screen shows the transcript; unless, since that was last replaced, a
\* change overtook an earlier one to the same row, the park gave one up, or the tab went
\* while the session was open.
AppAgrees == Known /\ open /\ Delivered /\ ~astray => view = rows

\* An approval card that takes no answer any more is one the gateway no longer waits
\* for, whatever was lost, rebuilt or re-emitted in between: the turn behind a card
\* that looks answered does not hang.
ResolvedIsAnswered ==
  \A i \in DOMAIN rows : rows[i].id \in Approvals /\ ~rows[i].waits => waiting[rows[i].id] = 0

\* reemit_approvals has run on this connection.
Settled == open /\ attached /\ checked /\ spc = "loop" /\ buffer = <<>>

\* Every approval the gateway waits for has a card, asked before this connection or
\* on it, in the first life of the tab or a later one; unless a rebuild, or a re-open of
\* the open session, has removed the card the approval was re-emitted with.
PendingIsShown ==
  Settled => \A id \in Approvals : waiting[id] > 0 => HasCard(id) \/ id \in lost

(* A statement of the source that does not hold.                            *)

\* core.rs:351-352, emitted_approvals: "Unresolved approval request_ids already on a
\* transcript", which is why reemit_approvals passes over them.
EmittedIsOnTranscript ==
  Settled => \A id \in emitted : waiting[id] > 0 => HasCard(id)

=============================================================================
