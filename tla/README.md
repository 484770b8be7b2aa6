# Hermo: a TLA+ development of the Hermes client core

Hermo is a mobile client for a Hermes gateway. A Rust library (`hermes_core`)
keeps the connection, the sessions and their transcripts; an Android app (Kotlin)
and an iOS app (Swift, a one-to-one port) render what the core delivers through a
callback interface. A fake gateway in the repository stands in for the real one.
Concurrency, failure and ordering live in the core and at its two borders, the
gateway and the app, and those are what this directory models.

Paths below are relative to `src/`; `core.rs` is `hermes_core/src/core.rs`,
`client.rs` is `hermes_core/src/rpc/client.rs`, `server.rs` is
`tools/fake_gateway/src/server.rs`.

## 1. Inventory

| component | state | operations | hard behaviours |
|---|---|---|---|
| Connection lifecycle (`core.rs`: `connect`, `disconnect`, `app_did_foreground`, `forget_gateway`, `pair`, `login`, `establish`, `supervise`, `sleep_until_stopped`, `signal_stop`) | `CoreState.client`, `.sink`, `.endpoint`, `.auth`; `stop_flag`, `stop_notify`, `supervising` | exported verbs run as tasks on a two-worker runtime; one supervisor task per connected core | every verb overlaps every other and the supervisor; flags are read before an await and used after it; reconnect ladder |
| Gateway client (`client.rs`) | `Shared`: state watch, pending map, event broadcast, parked first subscription, close lock; writer queue | `connect`, `call`, `probe_now`, `events`, `close`; reader, writer and heartbeat tasks | five processes may close the connection; a response, a timeout and a close race for each call |
| Session sync (`core.rs`: `open_session`, `send`, `close_session`, `resume_all`, `rebuild_session`, `catch_up_all`, `deliver_event`, `route_event`) | `sessions` (reducer, watermark, live sid, history epoch), `sid_index`, `registry` | open, send, close; one resume pass per (re)connect; one routed change list per event | RPCs without the lock, results applied after it was free; replay overlapping live events; gateway restarts (epochs) |
| Transcript reducer (`transcript/reducer.rs`, `transcript/model.rs`) | rows, index of the streaming row, thinking row, tool id to row index | one handler per gateway event, history ingestion, approval/clarify resolution | positions into a growing row list; events out of the expected order |
| Approval re-emission (`core.rs`: `reemit_approvals`, `respond_approval`, `respond_clarify`) | `emitted_approvals`, the cards on the transcripts | ask for what is pending on every connect, answer a card | answers and replies that get lost; rebuilds between two re-emissions |
| Delivery to the app (`EventSink`, `GatewayRepository.kt`, `TranscriptState.kt`) | the app's row lists, `pendingKeys`, `parkedChanges` | apply a change at its index; park changes of a session being opened | changes are computed under the lock and delivered after it, by several tasks |
| Session registry (`session_registry.rs`, `flush_registry`, `load/save_registry`) | ordered records with title and watermark, active key, `registry_dirty`, `sessions.json` | upsert, close, set_active, touch, flush, load | a kill between a change and its flush; failed saves; forgetting while something flushes |
| Auth (`auth/client.rs`, `auth/endpoint.rs`) | cookie jar and its file, endpoint file | login, mint a ticket, parse a QR payload | a jar saved by concurrent requests |
| Slash commands (`rpc/slash.rs`, `core.rs` `run_slash_ladder`) | none | exec, else dispatch; aliases, submits, prefills | an RPC failing between rungs, a tab re-opened under it, alias circles |
| Bot chats (`bot_chat.rs`, `open_bot_chat`) | none | list remote sessions, resume the bot's or create one | two opens each list before either creates |
| RPC wrappers, frames (`rpc/api.rs`, `rpc/frames.rs`, `protocol.rs`, `json.rs`) | none | encode a call, decode a reply or an event | defensive parsing |
| Fake gateway (`server.rs`, `fixtures.rs`) | session table with event logs, turn tasks, tickets, connections, the armed drop | every RPC of the wire; a task per connection and per turn | aborts that come too late; records closed or made again under a running turn |
| Backoff (`reconnect.rs`), markdown (`markdown.rs`) | none | a delay; blocks of a text | saturation; parsing |
| Android screens, iOS app, probe | views; the Swift port of the app state; a command line | | |

How they interact: an exported verb is a future the app awaits; its body runs on
the core's own runtime. The verbs and the supervisor share `CoreState` behind one
lock that is never held across an await, plus three atomics. The core talks to a
gateway only through a `GatewayClient` (calls out, events and a state watch in) and,
for logins and tickets, through `AuthClient`. The core calls the app through
`EventSink` (`on_transcript`, `on_connection`), always outside the lock.

## 2. Properties that make each component correct

| component | what must hold |
|---|---|
| Connection lifecycle | one supervisor; a raised `supervising` flag has somebody to lower it; an open connection is served; a stop ends the ladder; a lost connection is replaced; one close is reported once |
| Gateway client | the first close reason stands; every call ends, in-flight ones as soon as the connection closes; nothing is leaked; the first subscriber misses no event; a connection without a reader ends Closed |
| Session sync | after a reconnect nothing is missing; a watermark is only used on the log it was taken from; a user message is shown once |
| Transcript reducer | positions address the rows they are for; one card per tool; sealed text stays |
| Approvals | a pending approval is on the screen; a card that looks answered was answered |
| Delivery to the app | the app's row list equals the core's when nothing is in flight |
| Registry | a list that differs from its file is announced; a restart finds the tabs; a rename gets to the file |
| Auth | a jar on disk can be read again, and is the one in memory when nothing is under way |
| Verbs | one chat per bot; a tab is labelled with its owner; a command comes to an end |
| Fake gateway | event numbers are places in the log; a running session comes to rest |

## 3. Modules

| module | models | state | actions |
|---|---|---|---|
| `Supervisor` | connection lifecycle | `client`, `sink`, `paired`, `cookies` are CoreState; `stopFlag`, `supervising` the atomics; `pc`, `held`, `heldSink`, `seen`, `notified` the locals of tasks | one per stretch of code between two points another task can observe (a lock section, an atomic access, the end of an await) |
| `GatewayClient` | `client.rs` | `conn` is the state watch; `phase`, `why`, `aborted` the five closers; `outbound`, `pending`, `slot`, `call` the calls; `firstRx`, `cursor`, `got`, `told` the parked subscription and what its owner has read of the broadcast, a ring of `EventCap` frames | connect, reader, writer, heartbeat, caller and each call, with the three steps of a shutdown apart |
| `SessionSync` | one open session: open, close, send, the resume pass, catch-up, routing | gateway (`epoch`, `emitted`, `oldest`, `history`, `attached`), wire (`up`, `connNo`, `buffer`, `lagged`), CoreState (`live`, `rec`, `sidIndex`, `historyEpoch`), and the locals of the supervisor, an opener and a sender | a lock section or an RPC |
| `TranscriptReducer` | `transcript/reducer.rs` | `rows`, `streaming`, `thinking`, `tools`, `header`, and `changes`, what the last call returned | one per handler |
| `TabRegistry` | `session_registry.rs`, the two files of the data directory, `pair`, `forget_gateway`, `disconnect`'s flush, `set_session_title` | `registry`, `live`, `endpoint` are CoreState; `dirty` the atomic; `sup`, `pc`, `arg` the supervisor's flush and the verbs; `disk`, `epFile` the files | a lock section, an access to the flag, or a file operation |
| `CookieJar` | `AuthClient` and the login routes | `jar` the store; `buf`, `ino` the locals of a save; `tmp`, `path`, `data` the two names and the file contents behind them | a request's way: send, answer, receive, snapshot, create, write, rename |
| `SessionVerbs` | `open_session`, `open_bot_chat`, `run_slash` over the RPC wrappers | `live`, `label`, `historyEpoch` of CoreState; `chats` the gateway's; `open`, `run`, `sup` the locals of verbs and supervisor | a lock section or an RPC |
| `ApprovalCards` | cards of one session from the gateway to the screen | gateway (`asked`, `waiting`, ...), CoreState (`rows`, `seen`, `emitted`), `out` the changes tasks have yet to hand over, the app (`stored`, `tab`, `pending`, `pipe`, `view`, `parked`) | a lock section, an RPC, one delivered change, one main-thread callback |
| `Gateway` | `server.rs` | `sessions`, `nextSid`, `nextOrder`, `tickets`, `armed`; `conn`, `out`, `serving` per connection; `turn`, `delayed` the spawned tasks | one lock section or one socket write of a task |
| `Positions` | what a filter leaves of a list (`close` and `from_json` of the tab list, `session.events.since`) | | operators on positions, without recursion, so that proofs can use them |
| `SessionLog` | what the app relies on of any gateway's sessions | `log`, `busy` | `Gateway` is shown to implement it |
| `SupervisorProofs`, `TranscriptProofs`, `TabRegistryProofs`, `ClientProofs` (of `GatewayClient` and `CookieJar`), `GatewayProofs`, `SessionSyncProofs`, `SessionVerbsProofs`, `ApprovalCardsProofs` | | | theorems and proofs |
| `MC*` | | | what TLC needs: model values, payloads, symmetry sets; bounds are in the `.cfg` files |

They are separate modules because they meet in narrow places. `Supervisor` sees a
connection through its state watch only (open, closed locally, lost);
`GatewayClient` says how that watch may move. `SessionSync` starts where the ladder
of `Supervisor` has a connection, and treats a transcript as a list of items;
`TranscriptReducer` says what one event does to it. `ApprovalCards` composes the
core with the gateway on one side and the app on the other, for the rows whose
absence hurts most. `SessionSync` and `ApprovalCards` assume of a gateway what
`SessionLog` says (a log that grows at its end, numbered by place) and let it, in
addition, drop its head and restart; the repository's own gateway does implement
`SessionLog`.

Every mutation operator (named after the definition it stands for, e.g.
`MustRebuildIfTruncated`) is a plausible bug in that definition; it is not part of
any specification, and shows that the property listed beside it notices.

### Choices worth knowing

- *Connection identities* of `Supervisor` are recycled once nobody refers to them
  (`Unused`), so a run of three connections covers any number of reconnects; turn
  tasks of `Gateway` likewise (`Unheld`).
- *`GatewayClient`*: the default configuration, heartbeat on. Time is abstracted:
  a call timer, the ready timeout and the silence deadline may fire at any time. The
  broadcast forgets its oldest frame when it is full, also `gateway.ready` itself: a
  burst of more events than it holds before `connect` has polled ends in the ready
  timeout. Of the callers of `events` the first is followed; a later one subscribes anew.
- *`SessionSync`*: an RPC is one step, because the reader hands over replies and
  events in wire order. `LiveSession.last_seen_seq` is written and never
  read by the code; the watermark is the one in the registry record. One event adds
  one row and an item identifies it, which is what lets "shown twice" and "missing"
  be said. `gap` is a history variable: it is set where the code logs a failed
  `events.since` and goes on, and where a catch-up is answered with `truncated`, the
  two places that give up a fill; a rebuild or re-open clears it.
- *`TranscriptReducer`*: text is counted in pieces, payload fields other than ids,
  names and the open/closed flags are left out, and so are the payloads the handlers
  ignore (no id, no text, `heartbeat`), which change nothing. A history may name one tool
  call twice; `restored` records how many rows the last one brought.
- *`TabRegistry`*: a save under the lock is one step, since it writes a file nobody
  reads and renames it; `endpoint.json` is written in place and takes two. The
  supervisor flushes where the code does: on a tick of its event loop, at the head of the
  ladder and at its end, and nowhere between the rungs. The
  variables `unsaved`, `quiet`, `wiped`, `forgot` record the four ways in which a list
  may differ from its file with nobody about to save it: a failed save of a verb, the
  end of a resume pass (which moves watermarks and does not raise the flag), a removed
  file, and a forget.
- *`CookieJar`*: a file is an inode, so that a rename moves what the other save may
  still be writing. Written over another writer's text, a shorter jar leaves a tail.
- *`ApprovalCards`*: a session is opened by `openExistingSession` (`Pick`), which only
  switches to a tab that is there, or by `openMainSession` (`Restore`), which Retry, a
  restored network and a new login run, and which opens every session of the registry
  again, the open tabs with their rows included. `astray` records that, since the
  transcript was last replaced, a change overtook an earlier one to the same row, the
  park gave a change up, or the tab was dropped with the session open (a `closeTab` that
  a Retry overtook). A replacement clears it, unless there are no messages, hence no
  Reset, while the app has older rows or will get some. `lost` records the approvals whose
  re-emitted card was removed by a rebuild or by an open over the open session, both of
  which leave `emitted_approvals` as it is. `AppAgrees` and `PendingIsShown` say what
  holds without them. Assumed: one `openMainSession` or pick is under way at a time, no
  other session's open keeps the park alive, and `CoreState.client` is the connection the
  supervisor serves. The lag of the broadcast is in `SessionSync` only. What an open has
  parked is applied change by change (`Unpark`); no other main-thread callback comes in
  between.
- *`Gateway`*: a spawned task is aborted only while it sleeps; a poll that has begun
  is finished, with the turn's next lock section in it. Requests that change nothing
  are one action. An armed drop is over with the frame that drops the connection, and stays
  armed when that send fails.
- *`SessionVerbs`*: the gateway may list any row without its durable id (the bot's own
  chat too, which `bot_chat::resolve` then passes over), leave the owner out of a reply,
  and answer aliases in a circle. An open reads the client once for the list and again for
  the create (`ReadClient`), so that a reconnection may come between. A create its caller
  gave up, at a timeout or with its connection, is `late`: the gateway may handle it at any
  time afterwards, or never. `bot_chat.rs` 26 supposes that the gateway keeps one row
  of a title; that is not assumed. `twinned` records the bots for whom a
  list was answered that could not show their chat.

## 4. Runs

All passing runs are exhaustive. Deadlock is checked where the system cannot stop;
`SessionSync`, `SessionVerbs`, `ApprovalCards` and `Gateway` are bounded in events,
calls and connections, so they do stop, as does a closed `GatewayClient`.

| run | bounds | distinct states | shows |
|---|---|---|---|
| `supervisor` | one verb at a time, two supervisors, three connections, one sink | 249 k | one supervisor, a close is reported once, a stop ends the ladder wherever it lands, a loss is recovered |
| `client` | one call, two events, a broadcast of one | 604 k | no forgotten entry; the first subscriber misses nothing untold; the first closer wins; in-flight calls fail at once, a dead reader ends Closed, every call settles |
| `sync` | two events per epoch, two epochs, three connections, broadcast of one, one send, one open | 7 M | nothing missed; no doubled user row |
| `transcript` | four rows, two tools, one name, one request, history of two rows, text of one piece | 742 k | positions, one card per tool (also with a history that repeats an id), sealed text |
| `registry` | two keys (one is the empty string), one verb beside the supervisor, one seq, one failing write, four QR payloads | 389 k | differences are announced; the tab list is on disk; a rename reaches it |
| `jar` | two requests at a time, three inodes, two issued cookie versions, one failing write | 291 k | saves that do not overlap are whole; a jar at rest is saved |
| `gateway` | two connections, one id, two turns of one frame, a drop after two frames, three requests | 768 k | numbering, `SessionLog`, running sessions come to rest |
| `verbs` | two opens, each made once, one command, two profiles, two connections, one alias hop, one rebuild | 965 k | twins take a list that could not show the first; labels; the ladder ends |
| `cards` | one request, one answer call, two connections with a pass of the supervisor on each, one open, history of one row, a park of two | 7 M | the screen agrees; resolved is answered; pending is shown |

Why the bounds are enough. A verb and a supervisor are what the races on the flags take
(the theorems of section 6 hold for any number of verbs); a third connection is one that
replaces another while a third is held, and in `sync` it gives a second
reconnect on top of an incomplete first one. Calls of a client meet only in the queue
and the pending map, so one is enough (the theorems of section 6 hold for any number).
With a broadcast of one (1024 in the code) a second event pushes the first out.
In `sync` a second event overruns the broadcast of one, and two epochs give one restart.
A transcript of four rows has room for an abandoned placeholder, a fresh one, a
streaming row and one more; rows interact only through positions, and tool names only
by being the same, so that one name is the hard case. A history of two rows may repeat
an id. Two saves are what
tears a shared temporary file, and a third inode is the one in place while both write.
Two turns on one id are an orphan and its successor; the second connection is the one
that interrupts. Two opens are what twins take (the second is the retry of the first, or a rival), and one alias hop shows the step from
below the bound to the bound. One request is enough in `cards` because cards interact
only through the row list, which `transcript` covers, and through the order of delivery,
which the history row and its Reset bring in. The supervisor begins there with its first
pass still to come or done, over a session that is open or only in the registry, so that
two connections are two re-emissions; one open is a Retry over a live tab, a restored tab,
or a closed one picked again. A park of two (512 in the code) both fills and, when a card
follows the Reset and the history row, overflows.

`sync` starts with a session that was opened and resumed before. It may be closed and
opened again; after that `NothingMissed` says nothing (`OnlyResumed`), because a
re-opened session does miss events and does not notice a restart: see the list at the
end of section 7.

## 5. Fairness

`Supervisor!Fairness`: tokio runs a supervisor that can run (WF); a gateway that is
asked again and again answers at some time (SF of a successful establish), which is
an assumption about the network, made only for `LossIsRecovered`. Exported verbs get
no fairness. `GatewayClient!TaskFairness`: tokio runs its tasks (WF of each), the
heartbeat's deadline fires once nothing is inbound any more (it is a timer, and the
reader is gone); the calls' timers are not in it, and `EveryCallSettles`, which needs
them, has their fairness as its premise (every call of the code has a timeout).
`TabRegistry`: the supervisor's and the verbs' steps after a lock section are taken (WF of
`SupRaise`, `FlushSave`, `RenameRaise`, `DisconnectSave`); a resume phase comes to an end
(SF of `SupEnter`), since it goes over finitely many tabs and its RPCs have timeouts; and a
tick is not starved by events, because `select!` picks at random among the ready branches,
while a loop that is left before its first tick is followed by a flush (SF of `FlushSwap`).
Nothing says that the ladder ends: there is no flush on it, so `RenameReachesDisk` has as
its premise that a supervisor is again and again off the ladder.
`Gateway`: a handler or a turn that can go on does (WF of each); no client need ask and
no socket need take frames. `SessionVerbs`: a ladder that has begun goes on (WF),
because every call settles (`EveryCallSettles`). The other modules state safety only.

## 6. Theorems

Each is proved for every value of the constants, from the module's named assumption
(the null values are no members and no records, the bounds are naturals).

`SupervisorProofs`, for any sets of tasks, supervisors, connections and sinks:

- `TypeCorrect`: `TypeOK`. Inductive together with `HeldOK`: a process holds a
  connection between getting it and handing it on.
- `OneSupervisor`, `FlagNeverSticks`: `AtMostOneSupervisor` is not inductive, since a
  supervisor is spawned by a task that won the swap of `supervising` several steps
  earlier. The invariant counts everybody between winning the swap and lowering the
  flag as an owner, says that the owner is unique, and that the flag is up exactly
  when there is one; `FlagHasOwner` is the second half.
- `OneCloseOneReport`: `ClosedReportedOnce`. Inductive with: a connection is carried
  (on its way from `establish` to the event loop, and in it) by one process at a time,
  the close of a carried connection has not been reported, and the event loop is entered
  with a connection last seen open only.

`TranscriptProofs`, for any ids, names and bounds:

- `TranscriptTyped`, `PositionsAlwaysSound`, `ToolsHaveOneCard`. They are inductive
  together only: that `tool.start` of a new id makes no second card needs the map to
  know every card, and that an update through the map leaves the other positions
  alone needs the row it finds to be a card of that tool. The proof reduces every
  handler to an append or an update of one row (`Appending`, `Updating`), and both to
  what they have in common (`RowsKept`).
- `SealedForGood`: the action property `SealedTextStays`, from the same invariant: the
  only assistant row an update may hit is the streaming one, which is open.

`TabRegistryProofs`, for any keys, any number of concurrent verbs and failing writes:

- `FlagAnnounces`: `PendingIsFlagged`. Inductive with the range of `pc`: each action
  that changes the list saves it, raises the flag, is on its way to raise it, or is one
  of the recorded exceptions; and the flag is lowered only by somebody about to save.
- `RegistryTyped`: `TypeOK`. Inductive with: the list in memory and the one in the file are
  lists of records with one record per key (`ListsOK`), which is what makes a list read back
  the one that was written; and a payload on its way through `pair` was accepted by
  `parse_qr_payload` (`VerbsOK`).
- `TabsOnDisk`: `TabListOnDisk`. Inductive with `ListsOK`: an action saves the list, keeps
  its tabs, or is one of the recorded exceptions.
- Both rest on lemmas about `Picked` (`PickedPlaces`): the k-th of some positions exists for
  every k up to their number, and later ones lie further on. The induction in them is by a
  least counterexample, from the well-foundedness of `<` on the naturals.

`ClientProofs`, of the connection, for any calls and events:

- `ClientTyped`, `NoneForgotten`: a call ends by taking its answer, without a look at
  the pending map. Inductive together with: who has an entry has not ended, an answer
  is given after the entry is removed, and an entry is made before there is an answer.
- `ReasonStands`: the action property `FirstCloserWins`.
- `FirstMissesNothing`: `FirstSubscriberMissesNothing`, for any number of events and any
  capacity of the broadcast. Inductive with: the parked subscription has not been read
  since `gateway.ready` (`ParkedUnread`), and what was got or told lies behind the cursor
  (`BehindCursor`), so that nothing is both, and the ring loses only what `EventCap` newer
  frames have pushed out.

`ClientProofs`, of the jar (whose names begin with `jar`), for any number of requests in flight, files, issued cookies and
failing writes:

- `JarTyped`, `LoneSaves`, `IdleSaved`: inductive together with: the jar and the
  temporary file are two files; and, while no two saves have overlapped, at most one
  request is saving, what it writes is the temporary file, torn until written, and what
  is on its way from the snapshot to the rename is the jar in memory.

`GatewayProofs`, for any connections, ids, tickets, turns and bounds:

- `GatewayTyped`: `TypeOK`, inductive in parts, with: a handler serves an open
  connection only.
- `RunningHasSomebody`: `RunningHasATurn`. A handle leads to a turn of its own session,
  so that aborting what a record holds cannot strand another session.
- `TableIsALog`: `ImplementsLog`, the refinement: initial states map to initial states
  of `SessionLog`, and every step makes, extends or removes one log, or stutters.
- `NumbersArePlaces`: `ReplayFillsTheGap`. Inductive with the types: every event of a session
  has its place in the log as its number. What a replay picks from such a log is its tail.

`SessionSyncProofs`, for any number of events, gateway processes, connections, sends and
opens, and any capacity of the broadcast:

- `SyncTypes`: `TypeOK`. A transcript is typed by the events that reach it, so the types
  are inductive together with `Linked` (a lagged receiver holds something, an attached
  session has a connection, a pass has a record in hand) and `EventsOnly`: nothing but
  events of this and earlier gateway processes travels in the broadcast or in a reply.
- `NoDoubledRow`: `NoDoubledUserRow`. A rebuild or a re-open installs messages it fetched
  some steps before, so the invariant `UserInv` follows every copy of the conversation:
  each has a message at most once; each lacks the one being sent until it is stored; and a
  transcript under the history epoch a send has snapshotted still lacks its message, since
  any copy that could hold it is installed under a later epoch.
- `NothingIsMissed`: `NothingMissed`. What a settled session shows is decided by the whole
  history of its connections; `Following` says what holds in between. The transcript has
  everything up to the watermark (`Watermarked`), and everything before the next event of
  the stream it reads, or, when nothing is on its way, everything emitted (`Streaming`);
  a replay takes up where the transcript ends and ends where the stream begins
  (`Replaying`); the reply of `session.resume` has everything before the stream it opened
  (`Replied`). For that the broadcast has to be a run of consecutive events of one gateway
  process that ends with the last emitted one (`BufferInv`), and the live sid has to name
  the connection whenever something is on its way (`Placed`), or the event is dropped. A
  lag breaks the second claim and not the first, which is why catching up from the
  watermark mends it; `truncated` breaks both, and sets `gap`.

`SessionVerbsProofs`, for any opens, commands, profiles, stored sessions and connections:

- `LabelsRight`: `LabelIsOwner`. The record is written some RPCs after the owner was
  learned; inductive with `OpenerKnows`: an opener with a session in hand has it from a
  list scoped to its profile, from the chat it made, or knows the owner from the wire.
- `VerbsTyped`: `TypeOK`. A tab that is live is one the gateway stores, under an epoch that
  was handed out (`LiveOK`), and what the supervisor and a command hold names such a tab.
- `TwinsNeedABlindList`: `TwinsTakeABlindList`. Inductive with `Single`: for a bot of whom no
  list was blind, one create at most is on the way, waited for or given up, and none once
  there is a chat. A list answered then shows that chat with its id, so that
  `ResolveBotChat` finds one and no create follows.

`ApprovalCardsProofs`, for any requests, questions, answers, opens and connections:

- `CardsTyped`: `TypeOK`, inductive with: a respond call under way names a request.
- `ResolvedAnswered`: `ResolvedIsAnswered`. A card is resolved some steps after the
  gateway took the answer; inductive with: what the gateway waits for is in its log, where
  a request enters once, so that an answered one is never waited for again; and a respond
  call between reply and lock holds an answered request.
- `PendingShown`: `PendingIsShown`, which speaks of a supervisor that has settled. Before
  that, an approval the gateway waits for has a card, lost one to a rebuild or to an open
  over the open session, or is coming:
  in the list of `approval.pending` or in the broadcast (`WaitingShown`). That one the list
  passes over was not forgotten needs `EmittedShown`: what was re-emitted keeps its card
  until it is answered or a replacement of the rows takes it, a tab that was closed starts
  with nothing emitted,
  and (from `ResolvedAnswered`'s invariant) an answer marks no card that is waited for.
- `ScreenAgrees`: `AppAgrees`, which speaks of a moment when every change has arrived, for
  any history and any capacity of the park. Before that, each row settles (`Settles`): the
  last change to it, with what a task has yet to hand over taken after the queue to the
  main thread, and that after the park, brings what the transcript has there; or no change
  to it is left and the app has it. That speaks of all indices: for a row the transcript
  does not have, only a Reset can be that change. The change a task hands over next may be
  anywhere in `out`: unless it overtakes one to the same row, taking it out leaves the last
  change to each row what it was. `TabHas` says that the session is not open without its
  tab, and `ParkedFor` that something is parked only while a tab is being opened, so that a
  tab's change never overtakes the park. An open over an open tab needs no case of its own:
  its Reset is the last change to every row, whatever is still on its way.

Every invariant and every action property that a passing run checks is so stated by a
theorem. Only model-checked: the liveness properties (liveness under fairness is beyond
the prover). `MCTabRegistry` has TLC compare `Picked` with `SelectSeq` on all lists of up to
four members: that they agree on every list is an induction over data.

## 7. Where code and text disagree

Each run below checks one statement of the repository and finds a behaviour of the code
that contradicts it; PROJECT.json quotes the statement.

| run | statement | what the code does |
|---|---|---|
| `supervisor_orphan` | a connect has a supervisor | a supervisor about to return keeps the flag up; the new connection is unserved |
| `sync_skipped` | the rebuilt history contains the message | its messages were fetched before the submit |
| `cards_reemitted` | what is in `emitted_approvals` is on a transcript | a rebuild, or a Retry's open over the open session (`core.rs` 674), wipes the card and leaves the entry, so the approval is not shown again |

Met while modelling, and not kept as runs:

- `core.rs` 1688: `stop_flag` is not read between the end of the ladder's sleep and the
  installation of the new client, so a `disconnect` in that window reconnects
  (1272-1273: "so the supervisor never reconnects").
- `core.rs` 1514: a second `connect` stores its sink, the running supervisor keeps the
  one it was spawned with (1505-1506: "every exported method deliver through it").
- `core.rs` 591: `forget_gateway` leaves the cookie jar (577-578: "drop [...] the
  cookies"), and a verb or flush between the removal of `sessions.json` and the lock
  writes the forgotten list again.
- `core.rs` 1070: `respond_approval` says that an error 4009 (answered elsewhere) still
  resolves the card (1050-1051), but `?` returns before the resolution.
- `core.rs` 1131: the card of a batch clarification is resolved by its first answer,
  though `ack.remaining` may name more questions; and a clarification whose card a
  rebuild removed is not re-emitted by anything.
- `core.rs` 2010: an `approval.request` still in the broadcast when its card was
  re-emitted makes a second card.
- `core.rs` 1838: a session opened on a live connection has no recorded epoch until the
  next resume pass, and an empty one never counts as changed (`session_registry.rs`
  28-29).
- `core.rs` 1856: an event between `session.resume` and the end of the replay is both
  replayed and delivered from the broadcast; `seq` is not compared.
- `core.rs` 434: an event before the installation of an opened session is dropped, and
  the next one moves the watermark past it.
- `core.rs` 681: opening a session without messages emits no Reset, so that an open over a
  tab with rows leaves the app with the old ones, and a change of the closed session that is
  still on its way is shown as a row of the new one.
- `core.rs` 1758: changes are handed over after the lock. When a verb resolves a card in
  between, its RowUpdated may come first; the app pads and sets the row, and the RowAppended
  that follows puts the waiting card back for good (`TranscriptState.kt` 128-129: "no update
  is ever lost"). `AppAgrees` excepts it.
- `core.rs` 1941: `catch_up_all` ignores `truncated` (in the model it sets `gap`).
- `client.rs` 246: `mark_open` overwrites a Closed that the reader published after
  gateway.ready (169-175: "Terminal state"); the heartbeat closes it again later, which
  is what `DeadReaderEndsClosed` shows. `FirstCloserWins` leaves `mark_open` out.
- `auth/client.rs` 158: two saves at a time share `cookies.json.tmp`; one truncates what
  the other renames, so that a kill leaves a jar that `AuthClient::new` refuses, also at
  the next login (136-139: "a crash mid-write can never leave a half-written jar
  behind"). Hence the history variable in `LoneSavesAreWhole`.
- `reducer.rs` 277: a second `message.start` leaves the first row `streaming` for ever
  while `is_streaming` turns false at the next completion.
- `reducer.rs` 611: `tool.start` without `tool.generating` takes over a completed card
  of the history (604: "unpaired `tool.generating` placeholder").
- `GatewayRepository.kt` 170: the park holds 512 changes, so that the Reset and the
  first rows of a longer history give way (195: "no history is lost"). `AppAgrees`
  excepts it.
- `GatewayRepository.kt` 621: `closeTab` drops the tab after `close_session` has returned; a
  Retry that has opened the session again meanwhile leaves it open in the core, with no tab.
- `core.rs` 1668: the ladder flushes at its head only. A title that is
  installed while it tries to reconnect (by a rename whose reply came just before the loss)
  stays in memory until a supervisor is off the ladder, and is lost with a kill before that.
- `server.rs`: a created id may be one a client has named before, and its record is
  replaced with the turn left running; `events.since` never says `truncated` of a
  session it knows; an interrupt between the running flag and the stored handle leaves
  a turn that completes the session a second time.

## 8. Not modelled

Frame and JSON decoding (`rpc/frames.rs`, `json.rs`), markdown, the building of urls,
HTTP framing and the delays of the backoff are pure functions of one input without a
property that another step could break. The screens show the state above; the iOS app is
the Swift port of the Kotlin state; the probe runs verbs one after another. Of the Android
state, the phases, drafts and the slash policy are single-threaded view state. Several
sessions at a time are not composed: they share `sid_index` and the registry, whose keys
do not meet, and the supervisor takes them one after another.

What is left to do: a composition of `SessionSync` with `TranscriptReducer` (a rebuild
keeps cards that are still being used), and overlapping opens of two tabs in the app.
