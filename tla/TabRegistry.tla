----------------------------- MODULE TabRegistry -----------------------------
(***************************************************************************)
(* What HermesCore keeps in its data directory about the paired gateway:   *)
(* endpoint.json and sessions.json (core.rs, session_registry.rs,          *)
(* auth/endpoint.rs).                                                      *)
(*                                                                         *)
(* The tab list lives in memory under the state lock.  Opening, closing    *)
(* and clearing write it out at once, under that lock; events only raise   *)
(* registry_dirty, and the supervisor writes the list every few seconds in *)
(* its event loop, when the connection is lost, and when it ends, but not  *)
(* while it waits on the reconnect ladder.  Verbs run concurrently with    *)
(* the supervisor, a save may fail, and the process may be killed between  *)
(* any two steps.  One action is one lock section, one access to the flag  *)
(* or one file operation made outside the lock.  A save under the lock is  *)
(* one action: it writes sessions.json.tmp, which nobody reads, and        *)
(* renames it.                                                             *)
(*                                                                         *)
(* Left out: cols, profile_name and replay_epoch of a record, which follow *)
(* the rules of last_seen_seq and title; the cookie jar (see CookieJar).   *)
(***************************************************************************)
EXTENDS Naturals, Sequences, SequencesExt, Positions

CONSTANTS
  Keys,       \* durable session ids
  Unnamed,    \* the ones that are the empty string: a reply without an id
  Busy,       \* bound: the ones that get events and renames
  Tasks,      \* slots for calls of exported verbs
  Payloads,   \* QR payloads the camera may read, see ValidQr
  NoKey,      \* active_key = None
  NoFile,     \* the file does not exist; no endpoint
  Torn,       \* a file that does not parse
  MaxSeq,     \* bound: highest seq of an event
  MaxFails    \* bound: writes that fail

ASSUME TabRegistryAssumption ==
  /\ Unnamed \subseteq Keys /\ Busy \subseteq Keys /\ NoKey \notin Keys
  /\ MaxSeq \in Nat /\ MaxFails \in Nat

VARIABLES
  registry,   \* CoreState.registry
  live,       \* the keys of CoreState.sessions
  endpoint,   \* CoreState.endpoint
  dirty,      \* HermesCore.registry_dirty
  pc, arg,    \* where each verb is, and the key or payload it was called with
  sup,        \* where the supervisor is
  disk,       \* sessions.json
  epFile,     \* endpoint.json
  fails,      \* writes that failed so far
  unsaved,    \* history: a save of the list failed since the last good one
  quiet,      \* history: a resume pass changed a record since the last save
  wiped,      \* history: a forget removed the file since the last good save
  forgot      \* history: a forget ended and no tab was opened since

memVars  == <<registry, live, endpoint, dirty, pc, arg, sup>>
histVars == <<unsaved, quiet, wiped, forgot>>
diskVars == <<disk, epFile, fails, histVars>>
vars     == <<memVars, diskVars>>

Records  == [key : Keys, seq : 0..MaxSeq, title : BOOLEAN]
Lists    == [tabs : Seq(Records), active : Keys \cup {NoKey}]
Empty    == [tabs |-> <<>>, active |-> NoKey]
ListOf(r) == [i \in DOMAIN r.tabs |-> r.tabs[i].key]
Listed(r) == Range(ListOf(r))
RecordOf(r, k) == r.tabs[CHOOSE i \in DOMAIN r.tabs : r.tabs[i].key = k]

\* A file that is not there is no list.
ASSUME NoFileAssumption == NoFile \notin Lists

-----------------------------------------------------------------------------
(* SessionRegistry.  A title is TRUE once the session has been renamed.     *)

\* Mutation: a known tab gets a second record.
UpsertAgain(r, rec) == [r EXCEPT !.tabs = Append(@, rec)]

Upsert(r, rec) ==
  [r EXCEPT !.tabs = IF rec.key \in Listed(r)
                     THEN [i \in DOMAIN @ |-> IF @[i].key = rec.key THEN rec ELSE @[i]]
                     ELSE Append(@, rec)]

CloseTab(r, k) ==
  [tabs |-> Picked(r.tabs, {i \in DOMAIN r.tabs : r.tabs[i].key # k}),
   active |-> IF r.active = k THEN NoKey ELSE r.active]

SetActive(r, k) == [r EXCEPT !.active = k]

Touch(r, k, n) ==
  [r EXCEPT !.tabs = [i \in DOMAIN @ |->
     IF @[i].key = k /\ n > @[i].seq THEN [@[i] EXCEPT !.seq = n] ELSE @[i]]]

Rename(r, k, title) ==
  [r EXCEPT !.tabs = [i \in DOMAIN @ |->
     IF @[i].key = k THEN [@[i] EXCEPT !.title = title] ELSE @[i]]]

\* from_json(to_json(r)): a record without its id is skipped, and an active
\* key that is the empty string reads back as none.
Parsed(r) ==
  [tabs |-> Picked(r.tabs, {i \in DOMAIN r.tabs : r.tabs[i].key \notin Unnamed}),
   active |-> IF r.active \in Unnamed THEN NoKey ELSE r.active]

\* HermesCore::new reads both files; what is missing or does not parse is
\* an empty list, no endpoint.
Load(file) == IF file \in {NoFile, Torn} THEN Empty ELSE Parsed(file)

\* parse_qr_payload, over the parts of a payload.
ValidQr(p) ==
  /\ p.scheme = "hermes" /\ p.host = "connect" /\ p.version = 1
  /\ p.url \in {"http", "https"}   \* the scheme of a url that is there
  /\ ~p.userinfo

Init ==
  /\ registry = Empty /\ live = {} /\ endpoint = NoFile
  /\ dirty = FALSE
  /\ pc = [t \in Tasks |-> "idle"] /\ arg = [t \in Tasks |-> NoKey]
  /\ sup = "off"
  /\ disk = NoFile /\ epFile = NoFile
  /\ fails = 0 /\ unsaved = FALSE /\ quiet = FALSE /\ wiped = FALSE /\ forgot = FALSE

Step(t, from, to) == pc[t] = from /\ pc' = [pc EXCEPT ![t] = to]
Begin(t, at, x)   == Step(t, "idle", at) /\ arg' = [arg EXCEPT ![t] = x]
End(t, from)      == Step(t, from, "idle") /\ arg' = [arg EXCEPT ![t] = NoKey]

Fail == fails < MaxFails /\ fails' = fails + 1

\* save_registry(r), or its failure.
Saved(r)  == disk' = r /\ unsaved' = FALSE /\ quiet' = FALSE /\ wiped' = FALSE /\ UNCHANGED fails
SaveFails == Fail /\ unsaved' = TRUE /\ UNCHANGED <<disk, quiet, wiped>>
Save(r)   == Saved(r) \/ SaveFails

-----------------------------------------------------------------------------
(* Tabs: open_session after its reply, close_session, clear_sessions.       *)

\* A reply may come at any time after the call: nothing is kept over it but
\* the key.  The title outlives a re-open, the watermark does not.
Open(k) ==
  LET rec == [key |-> k, seq |-> 0,
              title |-> k \in Listed(registry) /\ RecordOf(registry, k).title]
      r   == SetActive(Upsert(registry, rec), k)
  IN /\ registry' = r /\ live' = live \cup {k}
     /\ Save(r) /\ forgot' = FALSE
     /\ UNCHANGED <<endpoint, dirty, pc, arg, sup, epFile>>

\* Mutation: the list is left for the next flush, and nothing flags it.
CloseUnsaved(k) ==
  /\ registry' = CloseTab(registry, k) /\ live' = live \ {k}
  /\ UNCHANGED <<endpoint, dirty, pc, arg, sup, diskVars>>

Close(k) ==
  /\ registry' = CloseTab(registry, k) /\ live' = live \ {k}
  /\ Save(registry')
  /\ UNCHANGED <<endpoint, dirty, pc, arg, sup, epFile, forgot>>

Clear ==
  /\ registry' = Empty /\ live' = {}
  /\ Save(Empty)
  /\ UNCHANGED <<endpoint, dirty, pc, arg, sup, epFile, forgot>>

-----------------------------------------------------------------------------
(* deliver_event: the lock section, and the flag raised after it.  Called   *)
(* by the supervisor for an event and by set_session_title for a rename.    *)

\* Where the supervisor goes on after a step of its own.
After == [raise |-> "loop", replayed |-> "resume",
          save |-> "loop", down_save |-> "ladder", last_save |-> "off"]

Routed(k, r) == k \in live /\ registry' = r

\* A broadcast event in the loop, a replayed one in the resume phase.
SupEvent(k) ==
  /\ \/ sup = "loop" /\ sup' = "raise"
     \/ sup = "resume" /\ sup' = "replayed"
  /\ \/ \E n \in 1..MaxSeq : Routed(k, Touch(registry, k, n))
     \/ Routed(k, Rename(registry, k, TRUE))
  /\ UNCHANGED <<live, endpoint, dirty, pc, arg, diskVars>>

\* Mutation: the flag is lowered again by the event that should raise it.
SupRaiseNothing ==
  /\ sup \in {"raise", "replayed"} /\ sup' = After[sup]
  /\ UNCHANGED <<registry, live, endpoint, dirty, pc, arg, diskVars>>

SupRaise ==
  /\ sup \in {"raise", "replayed"} /\ sup' = After[sup]
  /\ dirty' = TRUE
  /\ UNCHANGED <<registry, live, endpoint, pc, arg, diskVars>>

\* Once the gateway has answered; nothing happens for a key that is not live.
RenameDeliver(t) ==
  /\ \E k \in Busy : Routed(k, Rename(registry, k, TRUE)) /\ Begin(t, "raising", k)
  /\ UNCHANGED <<live, endpoint, dirty, sup, diskVars>>

RenameRaise(t) ==
  /\ End(t, "raising")
  /\ dirty' = TRUE
  /\ UNCHANGED <<registry, live, endpoint, sup, diskVars>>

\* The end of a resume: touch with what the replay reached, or a rebuild
\* from zero.  Neither raises the flag.
SupResume(k) ==
  /\ sup = "resume" /\ k \in Listed(registry)
  /\ \/ \E n \in 1..MaxSeq : registry' = Touch(registry, k, n)
     \/ /\ k \in live
        /\ registry' = Upsert(registry, [RecordOf(registry, k) EXCEPT !.seq = 0])
  /\ registry' # registry
  /\ quiet' = TRUE
  /\ UNCHANGED <<live, endpoint, dirty, pc, arg, sup, disk, epFile, fails, unsaved, wiped, forgot>>

-----------------------------------------------------------------------------
(* flush_registry: swap the flag, then lock and save; raise it again when   *)
(* the save fails.  The supervisor flushes on a tick of its event loop, when *)
(* it leaves the loop ("down") and when it ends ("ending").                  *)

SupStart ==
  /\ sup = "off" /\ endpoint # NoFile /\ sup' = "resume"
  /\ UNCHANGED <<registry, live, endpoint, dirty, pc, arg, diskVars>>

\* resume_all is through; or the connection was dead on arrival.
SupEnter ==
  /\ sup = "resume" /\ sup' \in {"loop", "down"}
  /\ UNCHANGED <<registry, live, endpoint, dirty, pc, arg, diskVars>>

\* The connection is lost, closed locally, or a new one was established.  On
\* the ladder a stop or an expired login end the supervisor; a stop that is
\* seen right after the flush at its head needs no flush of its own.
SupMove ==
  /\ \/ sup = "loop" /\ sup' \in {"down", "ending"}
     \/ sup = "resume" /\ sup' = "ending"
     \/ sup = "ladder" /\ sup' \in {"resume", "ending", "off"}
  /\ UNCHANGED <<registry, live, endpoint, dirty, pc, arg, diskVars>>

FlushSwap ==
  /\ \E leg \in {<<"loop", "save">>, <<"down", "down_save">>, <<"ending", "last_save">>} :
       /\ sup = leg[1]
       /\ sup' = IF dirty THEN leg[2] ELSE After[leg[2]]
  /\ dirty' = FALSE
  /\ UNCHANGED <<registry, live, endpoint, pc, arg, diskVars>>

\* Mutation: a failed flush does not raise the flag again.
FlushSaveForgetting ==
  /\ sup \in {"save", "down_save", "last_save"}
  /\ Save(registry)
  /\ sup' = After[sup]
  /\ UNCHANGED <<registry, live, endpoint, dirty, pc, arg, epFile, forgot>>

FlushSave ==
  /\ sup \in {"save", "down_save", "last_save"}
  /\ \/ Saved(registry) /\ UNCHANGED dirty
     \/ /\ Fail /\ dirty' = TRUE
        /\ UNCHANGED <<disk, histVars>>
  /\ sup' = After[sup]
  /\ UNCHANGED <<registry, live, endpoint, pc, arg, epFile, forgot>>

\* disconnect() flushes too, after it has told the supervisor to stop.
DisconnectSwap(t) ==
  /\ dirty /\ Begin(t, "d_save", NoKey)
  /\ dirty' = FALSE
  /\ UNCHANGED <<registry, live, endpoint, sup, diskVars>>

DisconnectSave(t) ==
  /\ End(t, "d_save")
  /\ \/ Saved(registry) /\ UNCHANGED dirty
     \/ Fail /\ dirty' = TRUE /\ UNCHANGED <<disk, unsaved, quiet, wiped>>
  /\ UNCHANGED <<registry, live, endpoint, sup, epFile, forgot>>

-----------------------------------------------------------------------------
(* pair(payload): endpoint.json is written in place, its errors ignored,    *)
(* and then the endpoint is installed.                                      *)

PairStart(t) ==
  /\ \A u \in Tasks : pc[u] \notin {"writing", "filling", "pairing"}
  /\ \E p \in Payloads : ValidQr(p) /\ Begin(t, "writing", p)
  /\ UNCHANGED <<registry, live, endpoint, dirty, sup, diskVars>>

PairWrite(t) ==
  /\ \/ Step(t, "writing", "filling") /\ epFile' = Torn /\ UNCHANGED fails
     \/ Step(t, "writing", "pairing") /\ Fail /\ UNCHANGED epFile
  /\ UNCHANGED <<registry, live, endpoint, dirty, arg, sup, disk, histVars>>

\* The file may have been removed since it was truncated.
PairFill(t) ==
  /\ Step(t, "filling", "pairing")
  /\ epFile' = IF epFile = Torn THEN arg[t] ELSE epFile
  /\ UNCHANGED <<registry, live, endpoint, dirty, arg, sup, disk, fails, histVars>>

PairInstall(t) ==
  /\ endpoint' = arg[t]
  /\ End(t, "pairing")
  /\ UNCHANGED <<registry, live, dirty, sup, diskVars>>

-----------------------------------------------------------------------------
(* forget_gateway(): stop the supervisor, remove both files, and only then  *)
(* take the lock and empty the state.                                       *)

ForgetStart(t) ==
  /\ Begin(t, "f_endpoint", NoKey)
  /\ UNCHANGED <<registry, live, endpoint, dirty, sup, diskVars>>

ForgetEndpoint(t) ==
  /\ Step(t, "f_endpoint", "f_tabs")
  /\ epFile' = NoFile
  /\ UNCHANGED <<registry, live, endpoint, dirty, arg, sup, disk, fails, histVars>>

ForgetTabs(t) ==
  /\ Step(t, "f_tabs", "f_clear")
  /\ disk' = NoFile /\ wiped' = TRUE
  /\ UNCHANGED <<registry, live, endpoint, dirty, arg, sup, epFile, fails, unsaved, quiet, forgot>>

ForgetClear(t) ==
  /\ End(t, "f_clear")
  /\ endpoint' = NoFile /\ registry' = Empty /\ live' = {}
  /\ forgot' = TRUE
  /\ UNCHANGED <<dirty, sup, disk, epFile, fails, unsaved, quiet, wiped>>

\* The process is killed and started again: HermesCore::new.
Restart ==
  /\ registry' = Load(disk) /\ live' = {}
  /\ endpoint' = IF epFile = Torn THEN NoFile ELSE epFile
  /\ dirty' = FALSE /\ sup' = "off"
  /\ pc' = [t \in Tasks |-> "idle"] /\ arg' = [t \in Tasks |-> NoKey]
  /\ unsaved' = FALSE /\ quiet' = FALSE /\ wiped' = FALSE
  /\ UNCHANGED <<disk, epFile, fails, forgot>>

Verb(t) ==
  \/ RenameDeliver(t) \/ RenameRaise(t) \/ DisconnectSwap(t) \/ DisconnectSave(t)
  \/ PairStart(t) \/ PairWrite(t) \/ PairFill(t) \/ PairInstall(t)
  \/ ForgetStart(t) \/ ForgetEndpoint(t) \/ ForgetTabs(t) \/ ForgetClear(t)

Supervise ==
  SupStart \/ SupEnter \/ SupMove \/ SupRaise \/ FlushSwap \/ FlushSave

Next ==
  \/ \E t \in Tasks : Verb(t)
  \/ \E k \in Keys : Open(k) \/ Close(k)
  \/ \E k \in Busy : SupEvent(k) \/ SupResume(k)
  \/ Clear \/ Supervise \/ Restart

Spec == Init /\ [][Next]_vars

\* A runnable task is polled; a resume phase goes through finitely many tabs
\* and replayed events, and its RPCs end, by their timeouts if need be.
\* select! picks at random among the branches that are ready, so that events
\* do not starve a tick, and a loop left before its first tick is followed by
\* a flush.  Nothing says that the ladder ever ends.
FairSpec ==
  /\ Spec
  /\ SF_vars(SupEnter) /\ WF_vars(SupRaise) /\ WF_vars(FlushSave) /\ SF_vars(FlushSwap)
  /\ \A t \in Tasks : WF_vars(RenameRaise(t) \/ DisconnectSave(t))

-----------------------------------------------------------------------------
(* Properties                                                               *)

PCs  == {"idle", "raising", "d_save", "writing", "filling",
         "pairing", "f_endpoint", "f_tabs", "f_clear"}
SPCs == {"off", "resume", "replayed", "loop", "raise", "save", "down", "down_save",
         "ladder", "ending", "last_save"}
Valid == {p \in Payloads : ValidQr(p)}

\* Everything has its type, also what is read back from a file; a key has
\* one record (upsert replaces), and the supervisor, endpoint and verbs are
\* in one of their states.
TypeOK ==
  /\ registry \in Lists /\ disk \in Lists \cup {NoFile}
  /\ IsInjective(ListOf(registry))
  /\ live \subseteq Keys /\ sup \in SPCs
  /\ endpoint \in Valid \cup {NoFile} /\ epFile \in Valid \cup {NoFile, Torn}
  /\ pc \in [Tasks -> PCs] /\ arg \in [Tasks -> Keys \cup Valid \cup {NoKey}]
  /\ fails \in 0..MaxFails
  /\ {dirty, unsaved, quiet, wiped, forgot} \subseteq BOOLEAN

\* What a restart would find, up to the records that do not survive parsing.
Stored(r) == disk = r \/ Load(disk) = r

\* registry_dirty is lowered before the save and raised after the lock of
\* deliver_event is gone: at every moment a list that differs from the file
\* is still announced by the flag, or by someone about to raise it or to
\* save.  The exceptions are the changes nothing announces: a failed save of
\* a verb, the end of a resume pass, and a forget.
PendingIsFlagged ==
  \/ Stored(registry)
  \/ dirty \/ sup \in {"raise", "replayed", "save", "down_save", "last_save"}
  \/ \E t \in Tasks : pc[t] \in {"raising", "d_save"}
  \/ unsaved \/ quiet \/ wiped \/ forgot

\* Which tabs are open, their order and the active one are never left to a
\* flush: a kill at any moment loses no tab and brings none back, unless a
\* save failed or a gateway was being forgotten.
TabListOnDisk ==
  unsaved \/ wiped \/ forgot
    \/ \E r \in {disk, Load(disk)} :
         r # NoFile /\ ListOf(r) = ListOf(registry) /\ r.active = registry.active

Named(r, k) == k \in Listed(r) /\ RecordOf(r, k).title

\* A rename reaches the file, whichever verb or event made it, failed saves,
\* losses and ends of the supervisor notwithstanding, provided that some
\* supervisor is again and again off the ladder, which has no flush.  The
\* title may be lost first, with its tab or to a kill, and a forget may
\* remove the file.
RenameReachesDisk ==
  []<>(sup \notin {"off", "ladder"}) =>
    \A k \in Keys \ Unnamed :
      Named(registry, k) ~> (Named(Load(disk), k) \/ ~Named(registry, k) \/ wiped)

=============================================================================
