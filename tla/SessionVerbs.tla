---------------------------- MODULE SessionVerbs ----------------------------
(***************************************************************************)
(* The verbs that take several RPCs: opening a session or a bot's chat     *)
(* (core.rs open_session_inner and open_bot_chat, bot_chat.rs) and running *)
(* a slash command (run_slash_ladder, submit_slash_message, rpc/slash.rs), *)
(* over the wrappers of rpc/api.rs.                                        *)
(*                                                                         *)
(* A verb reads the core under its lock, awaits an RPC with the lock       *)
(* released, and reads or writes the core again: meanwhile another verb    *)
(* opens or closes the tab, the supervisor reconnects and rebuilds it, and *)
(* the connection the verb holds may be gone.  A request is handled by the *)
(* gateway or not, the reply arrives or not, and what the verb gave up on  *)
(* may be handled afterwards; the gateway answers what it likes, aliases   *)
(* that go in a circle included.                                           *)
(*                                                                         *)
(* The gateway's stored sessions are numbered by age; a message is the     *)
(* slash command it came from.                                             *)
(***************************************************************************)
EXTENDS Naturals, Sequences, FiniteSets

CONSTANTS
  Opens,         \* open_session and open_bot_chat calls, each made once
  Runs,          \* run_slash calls, each made once
  Profiles,
  None,
  MAX_ALIAS_HOPS,
  MaxChats,      \* bound: sessions the gateway stores
  MaxConns,      \* bound: connections
  MaxRebuilds    \* bound: rebuilds by the supervisor

ASSUME VerbsAssumption ==
  /\ None \notin Profiles \cup Opens \cup Runs \cup Nat
  /\ None \notin [sid : Nat, epoch : Nat, rows : Seq(Runs)]
  /\ {MAX_ALIAS_HOPS, MaxRebuilds} \subseteq Nat /\ {MaxChats, MaxConns} \subseteq Nat \ {0}

VARIABLES
  chats,         \* gateway: stored sessions, oldest first
  conn, up,      \* the latest connection, and whether it is alive
  live,          \* CoreState.sessions
  label,         \* the profile_name of the registry records
  historyEpoch,
  open,          \* the opens
  run,           \* the slash commands
  sup,           \* what the supervisor's session.resume returned
  rebuilds,
  twinned        \* history: profiles whose chat a list could not show

coreVars == <<live, label, historyEpoch>>
vars     == <<chats, conn, up, coreVars, open, run, sup, rebuilds, twinned>>

Ids      == 1..MaxChats
Existing == 1..Len(chats)
Conns    == 1..MaxConns

OpenNew  == [pc |-> "new", conn |-> 1, profile |-> None, bot |-> FALSE, id |-> None,
             msgs |-> << >>, wire |-> None]
RunNew   == [pc |-> "new", id |-> 1, conn |-> 1, sid |-> 1, hop |-> 0, epoch |-> 0,
             result |-> "none"]

Init ==
  /\ chats = << >> /\ conn = 1 /\ up = TRUE
  /\ live = [i \in Ids |-> None] /\ label = [i \in Ids |-> None] /\ historyEpoch = 0
  /\ open = [o \in Opens |-> OpenNew]
  /\ run = [r \in Runs |-> RunNew]
  /\ sup = None
  /\ rebuilds = 0 /\ twinned = {}

-----------------------------------------------------------------------------
(* The connection and the supervisor                                        *)

Lose ==
  /\ up /\ up' = FALSE
  /\ UNCHANGED <<chats, conn, coreVars, open, run, sup, rebuilds, twinned>>

\* The ladder's next connection becomes CoreState.client.
Reconnect ==
  /\ ~up /\ conn < MaxConns
  /\ up' = TRUE /\ conn' = conn + 1
  /\ UNCHANGED <<chats, coreVars, open, run, sup, rebuilds, twinned>>

SupResume(i) ==
  /\ up /\ sup = None /\ live[i] # None /\ rebuilds < MaxRebuilds
  /\ sup' = [id |-> i, msgs |-> chats[i].msgs]
  /\ rebuilds' = rebuilds + 1
  /\ UNCHANGED <<chats, conn, up, coreVars, open, run, twinned>>

\* repoint_live_sid, and rebuild_session when the replay does not fit.
SupInstall ==
  /\ sup # None /\ sup' = None
  /\ \/ /\ live' = IF live[sup.id] = None THEN live ELSE [live EXCEPT ![sup.id].sid = conn]
        /\ UNCHANGED historyEpoch
     \/ /\ live' = IF live[sup.id] = None THEN live
                   ELSE [live EXCEPT ![sup.id] = [sid |-> conn, epoch |-> historyEpoch + 1,
                                                  rows |-> sup.msgs]]
        /\ historyEpoch' = historyEpoch + 1
  /\ UNCHANGED <<chats, conn, up, label, open, run, rebuilds, twinned>>

CloseTab(i) ==
  /\ live[i] # None
  /\ live' = [live EXCEPT ![i] = None] /\ label' = [label EXCEPT ![i] = None]
  /\ UNCHANGED <<chats, conn, up, historyEpoch, open, run, sup, rebuilds, twinned>>

-----------------------------------------------------------------------------
(* Opening                                                                  *)

Begin(o, st) ==
  /\ open[o].pc = "new"
  /\ open' = [open EXCEPT ![o] = st]
  /\ UNCHANGED <<chats, conn, up, coreVars, run, sup, rebuilds, twinned>>

\* open_session: of a new session, or of one the app has seen.
OpenSession(o) ==
  \E i \in Existing \cup {None} : Begin(o, [OpenNew EXCEPT !.pc = "found", !.id = i])

OpenBotChat(o, p) ==
  Begin(o, [OpenNew EXCEPT !.pc = "list", !.conn = conn, !.profile = p, !.bot = TRUE])

\* The verb returns; or it has given up on a create, at a timeout or with its
\* connection, and the gateway may have the request all the same.
Returns(o)  == open' = [open EXCEPT ![o] = [OpenNew EXCEPT !.pc = "done"]]
GivesUp(o)  == open[o].pc = "create" /\ open' = [open EXCEPT ![o].pc = "late"]
OpenFails(o) ==
  /\ open[o].pc \in {"list", "found", "create", "resume"} /\ (Returns(o) \/ GivesUp(o))
  /\ UNCHANGED <<chats, conn, up, coreVars, run, sup, rebuilds, twinned>>

\* An RPC of the verb is answered on the connection it was made on.
Ready(o) == up /\ open[o].conn = conn

\* The rows of session.list, newest first, scoped to the profile; some builds
\* list a row without its durable id.
BotChats(p) == {i \in Existing : chats[i].profile = p /\ chats[i].botChat}
ListReply(S, unnamed) ==
  [n \in 1..Len(chats) |->
     LET i == Len(chats) + 1 - n
     IN [exact |-> i \in S, id |-> IF i \in unnamed THEN None ELSE i]]

\* The first row of exactly that title that can be resumed, or none.
ResolveBotChat(rows) ==
  LET hits == {n \in 1..Len(rows) : rows[n].exact /\ rows[n].id # None}
  IN IF hits = {} THEN None ELSE rows[CHOOSE n \in hits : \A m \in hits : n <= m].id

\* The creates of p's chat the gateway may yet handle.
OnTheWay(p) ==
  {o \in Opens : /\ open[o].bot /\ open[o].profile = p
                 /\ \/ open[o].pc \in {"create", "late"}
                    \/ open[o].pc = "found" /\ open[o].id = None}

\* What no list of p's shows: a chat still to be made, or one without its id.
Unseen(p, unnamed) ==
  OnTheWay(p) # {} \/ (BotChats(p) # {} /\ BotChats(p) \subseteq unnamed)

Resolved(o, i, unnamed) ==
  /\ open[o].pc = "list" /\ Ready(o)
  /\ open' = [open EXCEPT ![o].pc = "found", ![o].id = i]
  /\ twinned' = twinned \cup {p \in {open[o].profile} : Unseen(p, unnamed)}
  /\ UNCHANGED <<chats, conn, up, coreVars, run, sup, rebuilds>>

\* Mutation: the list is the launch profile's, whoever the chat is for.
ResolveAnyProfile(o) ==
  \E unnamed \in SUBSET Existing :
    LET S == {i \in Existing : chats[i].botChat}
    IN Resolved(o, ResolveBotChat(ListReply(S, unnamed)), unnamed)

\* Mutation: the chat is created without a look at the list.
ResolveCreate(o) == \E unnamed \in SUBSET Existing : Resolved(o, None, unnamed)

\* open_bot_chat: the gateway's list, and what is made of it.
Resolve(o) ==
  \E unnamed \in SUBSET Existing :
    Resolved(o, ResolveBotChat(ListReply(BotChats(open[o].profile), unnamed)), unnamed)

\* open_session_inner reads the client again: another one, it may be, than the
\* list went over.
ReadClient(o) ==
  /\ open[o].pc = "found"
  /\ open' = [open EXCEPT ![o].pc = IF open[o].id = None THEN "create" ELSE "resume",
                          ![o].conn = conn]
  /\ UNCHANGED <<chats, conn, up, coreVars, run, sup, rebuilds, twinned>>

\* The replies: some builds do not name the owner.
CreateReply(i, p) == {[id |-> i, msgs |-> << >>, wire |-> w] : w \in {None, p}}
ResumeReply(i)    == {[id |-> i, msgs |-> chats[i].msgs, wire |-> w] : w \in {None, chats[i].profile}}

Replied(o, reply) ==
  open' = [open EXCEPT ![o].pc = "install", ![o].id = reply.id, ![o].msgs = reply.msgs,
                       ![o].wire = reply.wire]

\* session.create: a bot's chat carries its profile and the title, a bare one
\* belongs to the launch profile.
Minted(o, p) ==
  /\ Len(chats) < MaxChats /\ p \in IF open[o].bot THEN {open[o].profile} ELSE Profiles
  /\ chats' = Append(chats, [profile |-> p, botChat |-> open[o].bot, msgs |-> << >>])
  /\ UNCHANGED <<conn, up, coreVars, run, sup, rebuilds, twinned>>

\* The reply may be lost with the session made.
CreateSession(o) ==
  /\ open[o].pc = "create" /\ Ready(o)
  /\ \E p \in Profiles :
       /\ Minted(o, p)
       /\ (\E reply \in CreateReply(Len(chats) + 1, p) : Replied(o, reply)) \/ Returns(o)

\* The gateway handles a create nobody waits for any more.
LateCreate(o) ==
  /\ open[o].pc = "late" /\ Returns(o)
  /\ \E p \in Profiles : Minted(o, p)

ResumeSession(o) ==
  /\ open[o].pc = "resume" /\ Ready(o)
  /\ \E reply \in ResumeReply(open[o].id) : Replied(o, reply)
  /\ UNCHANGED <<chats, conn, up, coreVars, run, sup, rebuilds, twinned>>

\* The owner: the wire's word, else what the verb was called with.
Learned(o) == IF open[o].wire # None THEN open[o].wire ELSE open[o].profile

\* The lock section after the reply: a fresh LiveSession, with a new epoch.
Install(o) ==
  LET i == open[o].id
  IN /\ open[o].pc = "install"
     /\ historyEpoch' = historyEpoch + 1
     /\ live' = [live EXCEPT ![i] = [sid |-> open[o].conn, epoch |-> historyEpoch + 1,
                                     rows |-> open[o].msgs]]
     /\ label' = [label EXCEPT ![i] = IF Learned(o) = None THEN @ ELSE Learned(o)]
     /\ Returns(o)
     /\ UNCHANGED <<chats, conn, up, run, sup, rebuilds, twinned>>

-----------------------------------------------------------------------------
(* Slash commands                                                           *)

RunVars == <<conn, up, label, historyEpoch, open, sup, rebuilds, twinned>>

RunSlash(r, i) ==
  /\ run[r].pc = "new" /\ live[i] # None
  /\ run' = [run EXCEPT ![r].pc = "enter", ![r].id = i]
  /\ UNCHANGED <<chats, live, RunVars>>

At(r, pc)      == run[r].pc = pc
Goto(r, pc)    == run' = [run EXCEPT ![r].pc = pc]
End(r, result) == run' = [run EXCEPT ![r] = [RunNew EXCEPT !.pc = "done", !.result = result]]

\* Each level of the ladder reads the client and the live sid afresh.
Enter(r) ==
  LET l == live[run[r].id]
  IN /\ At(r, "enter")
     /\ IF l = None THEN End(r, "error")
        ELSE run' = [run EXCEPT ![r].pc = "exec", ![r].conn = conn, ![r].sid = l.sid]
     /\ UNCHANGED <<chats, live, RunVars>>

\* The request reaches its session: the connection is the one it was read
\* with, and so is the live sid.
Reaches(r) == up /\ run[r].conn = conn /\ run[r].sid = conn

\* What comes of a request: a reply, when it reaches the session, or an error.
Replies(r, S) == IF Reaches(r) THEN S \cup {"error"} ELSE {"error"}

\* plan_after_slash_exec: an error is told from another by its code.
PlanAfterSlashExec(reply) ==
  CASE reply = "ok"   -> "output"
    [] reply = "4004" -> "empty"
    [] reply = "4018" -> "dispatch"
    [] OTHER          -> "error"

SlashExec(r) ==
  /\ At(r, "exec")
  /\ \E reply \in Replies(r, {"ok", "4004", "4018"}) :
       LET plan == PlanAfterSlashExec(reply)
       IN IF plan = "dispatch" THEN Goto(r, "dispatch") ELSE End(r, plan)
  /\ UNCHANGED <<chats, live, RunVars>>

\* DispatchOutcome::from_value, by the type of the reply.
DispatchTypes == {"exec", "plugin", "alias", "skill", "send", "prefill", "unheard of"}
DispatchOutcome(type) ==
  CASE type \in {"exec", "plugin"} -> "Output"
    [] type = "alias"              -> "Alias"
    [] type = "skill"              -> "Skill"
    [] type = "send"               -> "Send"
    [] type = "prefill"            -> "Prefill"
    [] OTHER                       -> "Unknown"

PlanFromDispatch(outcome) ==
  CASE outcome = "Output"            -> "output"
    [] outcome = "Prefill"           -> "prefill"
    [] outcome \in {"Send", "Skill"} -> "submit"
    [] outcome = "Alias"             -> "alias"
    [] outcome = "Unknown"           -> "output"     \* "unknown dispatch type"

\* Mutation: aliases are followed as long as there are any.
FollowAlways(r) ==
  run' = [run EXCEPT ![r].pc = "enter", ![r].hop = IF @ < MAX_ALIAS_HOPS THEN @ + 1 ELSE @]

\* Mutation: one more.
FollowOneMore(r) ==
  IF run[r].hop > MAX_ALIAS_HOPS THEN End(r, "loop")
  ELSE run' = [run EXCEPT ![r].pc = "enter", ![r].hop = @ + 1]

\* An alias: the ladder again, for its target, or ALIAS_LOOP_CODE.
Follow(r) ==
  IF run[r].hop >= MAX_ALIAS_HOPS THEN End(r, "loop")
  ELSE run' = [run EXCEPT ![r].pc = "enter", ![r].hop = @ + 1]

CommandDispatch(r) ==
  /\ At(r, "dispatch")
  /\ \E reply \in Replies(r, DispatchTypes) :
       LET plan == PlanFromDispatch(DispatchOutcome(reply))
       IN CASE reply = "error" -> End(r, "error")
            [] plan = "alias"  -> Follow(r)
            [] plan = "submit" -> Goto(r, "epoch")
            [] OTHER           -> End(r, plan)
  /\ UNCHANGED <<chats, live, RunVars>>

\* submit_slash_message: the epoch before the submit ...
Snapshot(r) ==
  LET l == live[run[r].id]
  IN /\ At(r, "epoch")
     /\ IF l = None THEN End(r, "error")
        ELSE run' = [run EXCEPT ![r].pc = "submit", ![r].epoch = l.epoch]
     /\ UNCHANGED <<chats, live, RunVars>>

SubmitStatus(status) ==
  CASE status = "streaming"  -> "Streaming"
    [] status = "redirected" -> "Redirected"
    [] OTHER                 -> "Other"

\* prompt.submit: a message the gateway stored may have its reply lost.
Submit(r) ==
  /\ At(r, "submit")
  /\ \/ /\ Reaches(r)
        /\ chats' = [chats EXCEPT ![run[r].id].msgs = Append(@, r)]
        /\ \E status \in {"streaming", "redirected", "unheard of", "lost"} :
             IF SubmitStatus(status) = "Other" THEN End(r, "error") ELSE Goto(r, "append")
     \/ End(r, "error") /\ UNCHANGED chats
  /\ UNCHANGED <<live, RunVars>>

\* ... and again after it: a rebuilt or re-opened transcript gets no row.
AppendRow(r) ==
  LET i == run[r].id
  IN /\ At(r, "append") /\ End(r, "submitted")
     /\ live' = IF live[i] # None /\ live[i].epoch = run[r].epoch
                THEN [live EXCEPT ![i].rows = Append(@, r)] ELSE live
     /\ UNCHANGED <<chats, RunVars>>

-----------------------------------------------------------------------------
Open(o) == \/ OpenFails(o) \/ Resolve(o) \/ ReadClient(o) \/ CreateSession(o) \/ LateCreate(o)
           \/ ResumeSession(o) \/ Install(o)
Ladder(r) == \/ Enter(r) \/ SlashExec(r) \/ CommandDispatch(r)
             \/ Snapshot(r) \/ Submit(r) \/ AppendRow(r)

Next ==
  \/ Lose \/ Reconnect \/ SupInstall
  \/ \E i \in Ids : SupResume(i) \/ CloseTab(i) \/ (\E r \in Runs : RunSlash(r, i))
  \/ \E o \in Opens : OpenSession(o) \/ Open(o) \/ (\E p \in Profiles : OpenBotChat(o, p))
  \/ \E r \in Runs : Ladder(r)

Spec == Init /\ [][Next]_vars

\* A call of GatewayClient settles (its own module's EveryCallSettles), so
\* that a ladder that has begun goes on.
FairSpec == Spec /\ \A r \in Runs : WF_vars(Ladder(r))

-----------------------------------------------------------------------------
(* Properties                                                               *)

\* Everything has its type; a tab is listed and live together, under an epoch
\* that was handed out.
TypeOK ==
  /\ chats \in Seq([profile : Profiles, botChat : BOOLEAN, msgs : Seq(Runs)])
  /\ Len(chats) <= MaxChats /\ conn \in Conns /\ up \in BOOLEAN
  /\ live \in [Ids -> [sid : Conns, epoch : Nat, rows : Seq(Runs)] \cup {None}]
  /\ label \in [Ids -> Profiles \cup {None}] /\ historyEpoch \in Nat
  /\ open \in [Opens -> [pc : {"new", "list", "found", "create", "late", "resume", "install",
                               "done"},
                         conn : Conns, profile : Profiles \cup {None}, bot : BOOLEAN, id : Ids \cup {None},
                         msgs : Seq(Runs), wire : Profiles \cup {None}]]
  /\ run \in [Runs -> [pc : {"new", "enter", "exec", "dispatch", "epoch", "submit", "append",
                             "done"},
                       id : Ids, conn : Conns, sid : Conns, hop : 0..MAX_ALIAS_HOPS,
                       epoch : Nat,
                       result : {"none", "output", "empty", "prefill", "submitted", "loop",
                                 "error"}]]
  /\ sup \in [id : Ids, msgs : Seq(Runs)] \cup {None}
  /\ rebuilds \in 0..MaxRebuilds /\ twinned \subseteq Profiles
  /\ \A i \in Ids : live[i] = None => label[i] = None
  /\ \A i \in Ids : live[i] # None => live[i].epoch \in 1..historyEpoch

\* List-before-create keeps one chat per bot, over lost replies, retries and
\* reconnections: a bot has a second one only if a list was answered while the
\* first was still to be made, by an open under way or one given up, or showed
\* it without an id.
TwinsTakeABlindList == \A p \in Profiles : Cardinality(BotChats(p)) > 1 => p \in twinned

\* A tab is labelled with the profile that owns its session, or not at all:
\* no open resumes another bot's chat, and no fallback mislabels one.
LabelIsOwner == \A i \in Ids : label[i] # None => label[i] = chats[i].profile

\* A command comes to an end, even when the gateway's aliases do not.
LadderEnds == \A r \in Runs : run[r].pc # "new" ~> run[r].pc = "done"
=============================================================================
