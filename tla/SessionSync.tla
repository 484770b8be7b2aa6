----------------------------- MODULE SessionSync -----------------------------
(***************************************************************************)
(* How the transcript of one open session follows the gateway              *)
(* (hermes_core/src/core.rs: open_session, close_session, send, resume_all,*)
(* rebuild_session, repoint_live_sid, catch_up_all, deliver_event,         *)
(* route_event).  Sessions are independent of each other here: the loops   *)
(* over keys run one after the other and share nothing but the delay.      *)
(*                                                                         *)
(* Four parties interleave: the gateway, the supervisor, a call of         *)
(* open_session and a call of send.  The core's lock is never held across  *)
(* an await, so an action is a lock section or an RPC.  An RPC is one step:*)
(* the reader puts frames into the broadcast and answers calls in wire     *)
(* order, so when a reply is seen every earlier event is in the buffer.    *)
(*                                                                         *)
(* A message or event is an item: <<e, n>> is the n-th event of gateway    *)
(* epoch e, <<0, n>> the n-th user message.  An event adds one row, as     *)
(* message.start, status.update, approval.request and error do.            *)
(***************************************************************************)
EXTENDS Naturals, Sequences, FiniteSets, SequencesExt

CONSTANTS
  MaxEvents,    \* bound on events per gateway epoch
  MaxEpochs,    \* bound on gateway processes, one after the other
  MaxConns,     \* bound on connections
  MaxSends,     \* bound on user messages
  MaxOpens,     \* bound on open_session calls
  Capacity,     \* of the event broadcast (1024 in the code)
  OpenAtStart,  \* the session was opened and resumed once before
  None          \* no session, no record

VARIABLES
  \* the gateway
  epoch, emitted, oldest,  \* epoch, its last seq, the last seq out of the log
  history,                 \* the stored conversation
  attached,                \* this connection receives the session's events
  \* the connection
  up, connNo,              \* a live sid is named by the connection it is of
  buffer, lagged,          \* the supervisor's broadcast receiver
  \* CoreState
  live,                    \* the LiveSession: rows, live sid, history epoch
  rec,                     \* the registry record: watermark, replay epoch
  sidIndex,                \* live sids that route to this session
  historyEpoch,            \* the global counter of rebuilds
  \* tasks
  spc, sup,                \* the supervisor and its locals
  opc, opened,             \* open_session: where it is; messages, live sid
  opens,
  npc, sending,            \* send: where it is; item and epoch snapshot
  sends,
  gap                      \* history: a gap fill was given up

gateVars == <<epoch, emitted, oldest, history, attached>>
wireVars == <<up, connNo, buffer, lagged>>
coreVars == <<live, rec, sidIndex, historyEpoch>>
supVars  == <<spc, sup>>
openVars == <<opc, opened, opens>>
sendVars == <<npc, sending, sends>>
vars     == <<gateVars, wireVars, coreVars, supVars, openVars, sendVars, gap>>

Items == (0 .. MaxEpochs) \X (1 .. MaxEvents + MaxSends)
Epochs == 0 .. MaxEpochs     \* 0 is the empty replay_epoch
Sids == 1 .. MaxConns
Records == [seen : 0 .. MaxEvents, epoch : Epochs]
Lives == [rows : Seq(Items), sid : Sids, epoch : Nat]
SupIdle == [rec |-> None, msgs |-> <<>>, todo |-> <<>>]
OpenIdle == [msgs |-> <<>>, sid |-> 1]
SendIdle == [sid |-> 1, epoch |-> 0]

ASSUME SyncAssumption ==
  /\ {MaxEvents, MaxSends, MaxOpens} \subseteq Nat
  /\ {MaxEpochs, MaxConns, Capacity} \subseteq Nat \ {0}
  /\ OpenAtStart \in BOOLEAN
  /\ None \notin Records /\ None \notin Lives

TypeOK ==
  /\ epoch \in 1 .. MaxEpochs /\ emitted \in 0 .. MaxEvents /\ oldest \in 0 .. emitted
  /\ history \in Seq(Items)
  /\ attached \in BOOLEAN /\ up \in BOOLEAN /\ lagged \in BOOLEAN /\ gap \in BOOLEAN
  /\ connNo \in Sids
  /\ buffer \in Seq(Items) /\ Len(buffer) <= Capacity
  /\ live \in Lives \cup {None}
  /\ rec \in Records \cup {None}
  /\ sidIndex \subseteq Sids
  /\ historyEpoch \in Nat
  /\ spc \in {"record", "resume", "repoint", "since", "rebuild", "replay", "loop",
              "catch", "fill"}
  /\ sup \in [rec : Records \cup {None}, msgs : Seq(Items), todo : Seq(Items)]
  /\ opc \in {"idle", "resume", "install"}
  /\ opened \in [msgs : Seq(Items), sid : Sids]
  /\ opens \in 0 .. MaxOpens /\ sends \in 0 .. MaxSends
  /\ npc \in {"idle", "submit", "append"}
  /\ sending \in [sid : Sids, epoch : Nat]

Init ==
  /\ epoch = 1 /\ emitted = 0 /\ oldest = 0
  /\ history = <<>>
  /\ attached = OpenAtStart
  /\ up = TRUE /\ connNo = 1
  /\ buffer = <<>> /\ lagged = FALSE
  /\ live = IF OpenAtStart THEN [rows |-> <<>>, sid |-> 1, epoch |-> 0] ELSE None
  /\ rec = IF OpenAtStart THEN [seen |-> 0, epoch |-> 1] ELSE None
  /\ sidIndex = IF OpenAtStart THEN {1} ELSE {}
  /\ historyEpoch = 0
  /\ spc = "loop" /\ sup = SupIdle
  /\ opc = "idle" /\ opened = OpenIdle /\ opens = 0
  /\ npc = "idle" /\ sending = SendIdle /\ sends = 0
  /\ gap = FALSE

-----------------------------------------------------------------------------
(* The gateway and the network                                              *)

\* A full broadcast drops its oldest event; the receiver is told it lagged.
Broadcast(item) ==
  IF Len(buffer) < Capacity
  THEN buffer' = Append(buffer, item) /\ UNCHANGED lagged
  ELSE buffer' = Append(Tail(buffer), item) /\ lagged' = TRUE

Emit ==
  /\ emitted < MaxEvents
  /\ emitted' = emitted + 1
  /\ history' = Append(history, <<epoch, emitted + 1>>)
  /\ IF up /\ attached THEN Broadcast(<<epoch, emitted + 1>>)
                       ELSE UNCHANGED <<buffer, lagged>>
  /\ UNCHANGED <<epoch, oldest, attached, up, connNo, coreVars, supVars,
                 openVars, sendVars, gap>>

\* The event log is a ring: its oldest event goes.
Truncate ==
  /\ oldest < emitted
  /\ oldest' = oldest + 1
  /\ UNCHANGED <<epoch, emitted, history, attached, wireVars, coreVars, supVars,
                 openVars, sendVars, gap>>

Disconnected ==
  /\ up /\ connNo < MaxConns
  /\ up' = FALSE
  /\ attached' = FALSE
  /\ UNCHANGED <<history, connNo, buffer, lagged, coreVars, supVars, openVars,
                 sendVars, gap>>

LoseConnection == Disconnected /\ UNCHANGED <<epoch, emitted, oldest>>

\* A new process: a new epoch with an empty log; the conversation is stored.
Restart ==
  /\ Disconnected
  /\ epoch < MaxEpochs
  /\ epoch' = epoch + 1
  /\ emitted' = 0 /\ oldest' = 0

-----------------------------------------------------------------------------
(* route_event, deliver_event, SessionRegistry::touch                       *)

Higher(a, b) == IF a > b THEN a ELSE b

\* Mutation: the watermark counts the events that were delivered.
TouchCounting(r, seq, e) ==
  IF r = None THEN None
  ELSE [seen |-> r.seen + 1, epoch |-> IF e = 0 THEN r.epoch ELSE e]

Touch(r, seq, e) ==
  IF r = None THEN None
  ELSE [seen |-> Higher(r.seen, seq), epoch |-> IF e = 0 THEN r.epoch ELSE e]

\* The reducer applies whatever is routed to it; seq is not compared.
DeliverEvent(item) ==
  /\ live' = IF live = None THEN None ELSE [live EXCEPT !.rows = Append(@, item)]
  /\ rec' = IF live = None THEN rec ELSE Touch(rec, item[2], 0)
  /\ UNCHANGED <<sidIndex, historyEpoch>>

-----------------------------------------------------------------------------
(* The supervisor                                                           *)

SupGoto(from, to) == spc = from /\ spc' = to

\* The ladder has a new connection; resume_all starts over.
SupReconnect ==
  /\ ~up
  /\ SupGoto("loop", "record")
  /\ up' = TRUE /\ connNo' = connNo + 1
  /\ buffer' = <<>> /\ lagged' = FALSE
  /\ UNCHANGED <<gateVars, coreVars, sup, openVars, sendVars, gap>>

SupRecord ==
  /\ SupGoto("record", IF rec = None THEN "loop" ELSE "resume")
  /\ sup' = [SupIdle EXCEPT !.rec = rec]
  /\ UNCHANGED <<gateVars, wireVars, coreVars, openVars, sendVars, gap>>

\* A failed session.resume leaves the session for the next connection.
SupResume ==
  /\ \/ /\ up
        /\ SupGoto("resume", "repoint")
        /\ attached' = TRUE
        /\ sup' = [sup EXCEPT !.msgs = history]
     \/ /\ SupGoto("resume", "loop")
        /\ sup' = SupIdle
        /\ UNCHANGED attached
  /\ UNCHANGED <<epoch, emitted, oldest, history, wireVars, coreVars, openVars,
                 sendVars, gap>>

\* repoint_live_sid
Repoint ==
  IF live = None \/ live.sid = connNo THEN UNCHANGED <<live, sidIndex>>
  ELSE /\ live' = [live EXCEPT !.sid = connNo]
       /\ sidIndex' = (sidIndex \ {live.sid}) \cup {connNo}

SupRepoint ==
  /\ SupGoto("repoint", "since")
  /\ Repoint
  /\ UNCHANGED <<gateVars, wireVars, rec, historyEpoch, sup, openVars, sendVars, gap>>

\* The reply of session.events.since: what the log still holds past `seen`.
Missed(seen) ==
  LET from == Higher(seen, oldest)
  IN  IF from >= emitted THEN <<>>
      ELSE [i \in 1 .. emitted - from |-> <<epoch, from + i>>]

Truncated(seen) == seen < oldest

\* Mutation: the epoch the watermark was taken under is not compared.
MustRebuildIfTruncated == Truncated(sup.rec.seen)

\* A watermark of another epoch, or one the log no longer reaches back to.
MustRebuild == Truncated(sup.rec.seen) \/ sup.rec.epoch \notin {0, epoch}

SupSince ==
  /\ \/ /\ up
        /\ SupGoto("since", IF MustRebuild THEN "rebuild" ELSE "replay")
        /\ sup' = [sup EXCEPT !.todo = Missed(sup.rec.seen),
                              !.rec = [seen |-> emitted, epoch |-> epoch]]
        /\ UNCHANGED gap
     \/ /\ SupGoto("since", "loop")
        /\ sup' = SupIdle
        /\ gap' = TRUE
  /\ UNCHANGED <<gateVars, wireVars, coreVars, openVars, sendVars>>

\* rebuild_session
Rebuild(msgs, e) ==
  /\ historyEpoch' = historyEpoch + 1
  /\ IF live = None THEN UNCHANGED <<live, rec>>
     ELSE /\ live' = [live EXCEPT !.rows = msgs, !.epoch = historyEpoch + 1]
          /\ rec' = IF rec = None THEN None ELSE [seen |-> 0, epoch |-> e]

SupRebuild ==
  /\ SupGoto("rebuild", "loop")
  /\ Rebuild(sup.msgs, sup.rec.epoch)
  /\ sup' = SupIdle
  /\ gap' = FALSE
  /\ UNCHANGED <<gateVars, wireVars, sidIndex, openVars, sendVars>>

\* Each replayed event names the stored key, so it needs no live sid; after
\* the last one the watermark moves to latest_seq.
SupReplay ==
  \/ /\ sup.todo # <<>>
     /\ SupGoto("replay", "replay")
     /\ DeliverEvent(Head(sup.todo))
     /\ sup' = [sup EXCEPT !.todo = Tail(@)]
     /\ UNCHANGED <<gateVars, wireVars, openVars, sendVars, gap>>
  \/ /\ sup.todo = <<>>
     /\ SupGoto("replay", "loop")
     /\ rec' = Touch(rec, sup.rec.seen, sup.rec.epoch)
     /\ sup' = SupIdle
     /\ UNCHANGED <<gateVars, wireVars, live, sidIndex, historyEpoch, openVars,
                    sendVars, gap>>

\* One event of the broadcast; one whose live sid is unknown is dropped.
SupEvent ==
  /\ spc = "loop" /\ ~lagged /\ buffer # <<>>
  /\ buffer' = Tail(buffer)
  /\ IF connNo \in sidIndex THEN DeliverEvent(Head(buffer)) ELSE UNCHANGED coreVars
  /\ UNCHANGED <<gateVars, up, connNo, lagged, supVars, openVars, sendVars, gap>>

SupLag ==
  /\ lagged
  /\ lagged' = FALSE
  /\ SupGoto("loop", IF rec = None THEN "loop" ELSE "catch")
  /\ sup' = [SupIdle EXCEPT !.rec = rec]
  /\ UNCHANGED <<gateVars, up, connNo, buffer, coreVars, openVars, sendVars, gap>>

\* catch_up_all asks again from the watermark; `truncated` is not looked at.
SupCatchUp ==
  /\ \/ /\ up
        /\ SupGoto("catch", "fill")
        /\ sup' = [SupIdle EXCEPT !.todo = Missed(sup.rec.seen)]
        /\ gap' = (gap \/ Truncated(sup.rec.seen))
     \/ /\ SupGoto("catch", "loop")
        /\ sup' = SupIdle
        /\ gap' = TRUE
  /\ UNCHANGED <<gateVars, wireVars, coreVars, openVars, sendVars>>

SupFill ==
  \/ /\ sup.todo # <<>>
     /\ SupGoto("fill", "fill")
     /\ DeliverEvent(Head(sup.todo))
     /\ sup' = [sup EXCEPT !.todo = Tail(@)]
     /\ UNCHANGED <<gateVars, wireVars, openVars, sendVars, gap>>
  \/ /\ sup.todo = <<>>
     /\ SupGoto("fill", "loop")
     /\ UNCHANGED <<gateVars, wireVars, coreVars, sup, openVars, sendVars, gap>>

-----------------------------------------------------------------------------
(* open_session(Some(id)) and close_session                                 *)

OpenStart ==
  /\ opc = "idle" /\ opens < MaxOpens
  /\ opc' = "resume"
  /\ opens' = opens + 1
  /\ UNCHANGED <<gateVars, wireVars, coreVars, supVars, opened, sendVars, gap>>

OpenResume ==
  /\ opc = "resume"
  /\ \/ /\ up
        /\ attached' = TRUE
        /\ opened' = [msgs |-> history, sid |-> connNo]
        /\ opc' = "install"
     \/ /\ opc' = "idle"
        /\ UNCHANGED <<attached, opened>>
  /\ UNCHANGED <<epoch, emitted, oldest, history, wireVars, coreVars, supVars,
                 opens, sendVars, gap>>

\* A fresh LiveSession: the watermark resets, the recorded epoch is kept.
OpenInstall ==
  /\ opc = "install"
  /\ opc' = "idle"
  /\ historyEpoch' = historyEpoch + 1
  /\ live' = [rows |-> opened.msgs, sid |-> opened.sid, epoch |-> historyEpoch + 1]
  /\ sidIndex' = sidIndex \cup {opened.sid}
  /\ rec' = [seen |-> 0, epoch |-> IF rec = None THEN 0 ELSE rec.epoch]
  /\ opened' = OpenIdle
  /\ gap' = FALSE
  /\ UNCHANGED <<gateVars, wireVars, supVars, opens, sendVars>>

Close ==
  /\ live # None
  /\ live' = None
  /\ sidIndex' = sidIndex \ {live.sid}
  /\ rec' = None
  /\ gap' = FALSE
  /\ UNCHANGED <<gateVars, wireVars, historyEpoch, supVars, openVars, sendVars>>

-----------------------------------------------------------------------------
(* send                                                                     *)

SendStart ==
  /\ npc = "idle" /\ sends < MaxSends
  /\ live # None
  /\ npc' = "submit"
  /\ sends' = sends + 1
  /\ sending' = [sid |-> live.sid, epoch |-> live.epoch]
  /\ UNCHANGED <<gateVars, wireVars, coreVars, supVars, openVars, gap>>

\* prompt.submit.  The message is stored even if the reply does not make it.
SendSubmit ==
  /\ npc = "submit"
  /\ \/ /\ up /\ attached /\ sending.sid = connNo
        /\ history' = Append(history, <<0, sends>>)
        /\ \/ npc' = "append" /\ UNCHANGED sending
           \/ npc' = "idle" /\ sending' = SendIdle
     \/ /\ npc' = "idle" /\ sending' = SendIdle
        /\ UNCHANGED history
  /\ UNCHANGED <<epoch, emitted, oldest, attached, wireVars, coreVars, supVars,
                 openVars, sends, gap>>

\* Mutation: the epoch snapshot is not compared.
SendAppendAlways ==
  /\ npc = "append"
  /\ npc' = "idle" /\ sending' = SendIdle
  /\ live' = IF live = None THEN None ELSE [live EXCEPT !.rows = Append(@, <<0, sends>>)]
  /\ UNCHANGED <<gateVars, wireVars, rec, sidIndex, historyEpoch, supVars, openVars,
                 sends, gap>>

SendAppend ==
  /\ npc = "append"
  /\ npc' = "idle" /\ sending' = SendIdle
  /\ live' = IF live # None /\ live.epoch = sending.epoch
             THEN [live EXCEPT !.rows = Append(@, <<0, sends>>)] ELSE live
  /\ UNCHANGED <<gateVars, wireVars, rec, sidIndex, historyEpoch, supVars, openVars,
                 sends, gap>>

-----------------------------------------------------------------------------

Gateway == Emit \/ Truncate \/ LoseConnection
Supervisor ==
  \/ SupReconnect \/ SupRecord \/ SupResume \/ SupRepoint \/ SupSince
  \/ SupRebuild \/ SupReplay \/ SupEvent \/ SupLag \/ SupCatchUp \/ SupFill
Open == OpenStart \/ OpenResume \/ OpenInstall \/ Close
Send == SendStart \/ SendSubmit \/ SendAppend

Next == Gateway \/ Restart \/ Supervisor \/ Open \/ Send

Spec == Init /\ [][Next]_vars

-----------------------------------------------------------------------------
(* Properties                                                               *)

Shown == IF live = None THEN {} ELSE ToSet(live.rows)

\* The supervisor has handled all it was sent on a connection that carries
\* this session.
Settled ==
  /\ spc = "loop" /\ up /\ attached
  /\ buffer = <<>> /\ ~lagged
  /\ live # None /\ live.sid = connNo

\* The session was opened and resumed once, and not opened again since: an
\* open loses the events that come before it is installed, and records no
\* replay epoch, so that a restart of the gateway is not noticed until a resume
\* pass has recorded one.
OnlyResumed == opens = 0

\* However the connection is lost, the gateway restarted, its log truncated
\* and the broadcast overrun, a settled session shows every event, unless a
\* gap fill was given up.
NothingMissed ==
  Settled /\ OnlyResumed /\ ~gap => \A item \in ToSet(history) : item[1] # 0 => item \in Shown

\* No interleaving of send with rebuilds and re-opens shows a user message
\* twice: the history epoch is compared after the submit.
NoDoubledUserRow ==
  live # None =>
    \A i, j \in 1 .. Len(live.rows) :
      live.rows[i] = live.rows[j] /\ live.rows[i][1] = 0 => i = j

(* Statements of the source that do not hold.                               *)

\* send: after a rebuild during the submit "the server-rebuilt history
\* already contains the user's message".
SkippedAppendIsShown ==
  [][npc = "append" /\ npc' = "idle" /\ live # None /\ live.epoch # sending.epoch
       => <<0, sends>> \in Shown]_vars

=============================================================================
