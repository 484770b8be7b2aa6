------------------------------ MODULE CookieJar ------------------------------
(***************************************************************************)
(* Authenticated HTTP against the dashboard: AuthClient and its cookie jar *)
(* (auth/client.rs), the verbs of core.rs that use it, the jar file, and   *)
(* the gateway's HTTP routes as seen from a cookie.                        *)
(*                                                                         *)
(* Requests run concurrently: the ladder mints a ticket while the drawer   *)
(* lists profiles.  The gateway handles a request in one step; its reply   *)
(* is received later, lost, or overtaken by the timeout.  After every      *)
(* reply the client saves the jar: a snapshot under the lock, then, with   *)
(* the lock released, the file operations of fs::write (create or truncate *)
(* cookies.json.tmp, write) and rename, one action each.  A file is an     *)
(* inode, since a writer goes on writing to the one it opened wherever it  *)
(* has been renamed to.  The process may be killed at any step.            *)
(*                                                                         *)
(* The session cookies are a version: 0 is none, the others are what the   *)
(* gateway issued, in order.  What most modules call Init, Next, Spec,     *)
(* TypeOK and vars has the prefix Jar here, so that ClientProofs can       *)
(* extend this module together with GatewayClient.                         *)
(***************************************************************************)
EXTENDS Naturals, FiniteSets

CONSTANTS
  Slots,        \* requests in flight at a time
  Inodes,       \* identities of files, recycled when nothing refers to them
  NoFile,       \* the name does not exist
  Keep,         \* a reply that sets no cookies
  Torn,         \* truncated and not yet written: does not parse
  MaxVersion,   \* bound: cookies the gateway issues
  MaxFails      \* bound: file operations that fail

ASSUME CookieJarAssumption ==
  NoFile \notin Inodes /\ {Torn, Keep} \cap Nat = {} /\ MaxVersion \in Nat /\ MaxFails \in Nat

VARIABLES
  auth,         \* CoreState.auth is Some
  jar,          \* the cookies in AuthClient.jar
  pc, kind,     \* where each request is, and which route it calls
  sent,         \* the cookies the request carried, then the ones its reply sets
  buf, ino,     \* save_jar: the serialised snapshot, the inode being written
  tmp, path,    \* cookies.json.tmp, cookies.json
  data,         \* what each inode holds
  issued,       \* gateway: cookies issued so far
  accepted,     \* gateway: the versions it still accepts
  fails,        \* file operations that failed
  overlapped    \* history: since the jar was loaded, or torn, two saves ran at a time

slotVars == <<pc, kind, sent, buf, ino>>
fileVars == <<tmp, path, data, fails>>
gateVars == <<issued, accepted>>
jarVars     == <<auth, jar, slotVars, fileVars, gateVars, overlapped>>

Kinds    == {"login", "ticket", "read", "logout"}   \* read: profiles, me, status
Saving   == {"snapshot", "open", "write", "rename"}
Versions == 0..MaxVersion
JarInit ==
  /\ auth = TRUE /\ jar = 0
  /\ pc = [s \in Slots |-> "idle"]
  /\ kind = [s \in Slots |-> "read"]
  /\ sent = [s \in Slots |-> 0]
  /\ buf = [s \in Slots |-> 0]
  /\ ino = [s \in Slots |-> NoFile]
  /\ tmp = NoFile /\ path = NoFile
  /\ data = [i \in Inodes |-> Torn]
  /\ issued = 0 /\ accepted = {}
  /\ fails = 0 /\ overlapped = FALSE

Step(s, from, to) == pc[s] = from /\ pc' = [pc EXCEPT ![s] = to]

\* What AuthClient::new finds: no file is an empty jar, a file that does not
\* parse is an error.
Unreadable == path # NoFile /\ data[path] = Torn
Stored     == IF path = NoFile THEN 0 ELSE data[path]

-----------------------------------------------------------------------------
(* The verbs.  login builds the client when there is none, and fails on a   *)
(* corrupt jar; the others fail without a client: ask for the password.     *)

Send(s, k, cookies) ==
  /\ Step(s, "idle", "asked")
  /\ kind' = [kind EXCEPT ![s] = k]
  /\ sent' = [sent EXCEPT ![s] = cookies]

Login(s) ==
  /\ auth \/ ~Unreadable
  /\ auth' = TRUE
  /\ jar' = IF auth THEN jar ELSE Stored
  /\ Send(s, "login", jar')
  /\ UNCHANGED <<buf, ino, fileVars, gateVars, overlapped>>

Ask(s, k) ==
  /\ auth
  /\ Send(s, k, jar)
  /\ UNCHANGED <<auth, jar, buf, ino, fileVars, gateVars, overlapped>>

-----------------------------------------------------------------------------
(* The gateway: route_http, and login behind it.  A 200 to login or to a    *)
(* ticket request may set new cookies (the access cookie is rotated from    *)
(* the refresh cookie there), a logout removes them.  Every other status    *)
(* sets none.                                                               *)

Allowed(s) == sent[s] \in accepted

Answer(s, cookies) ==
  /\ Step(s, "asked", "answered")
  /\ sent' = [sent EXCEPT ![s] = cookies]
  /\ kind' = [kind EXCEPT ![s] = "read"]

Issue == /\ issued < MaxVersion /\ issued' = issued + 1
         /\ accepted' = accepted \cup {issued'}

\* Any route may fail: 401, 429, 404, 500.
RouteFails(s) == Answer(s, Keep) /\ UNCHANGED gateVars

RouteLogin(s) == kind[s] = "login" /\ Issue /\ Answer(s, issued')

RouteTicket(s) ==
  /\ kind[s] = "ticket" /\ Allowed(s)
  /\ \/ Issue /\ Answer(s, issued')
     \/ Answer(s, Keep) /\ UNCHANGED gateVars

RouteLogout(s) == kind[s] = "logout" /\ Answer(s, 0) /\ UNCHANGED gateVars

Route(s) ==
  /\ RouteLogin(s) \/ RouteTicket(s) \/ RouteLogout(s) \/ RouteFails(s)
  /\ UNCHANGED <<auth, jar, buf, ino, fileVars, overlapped>>

\* The gateway ends every session it has given out.
Expire ==
  /\ accepted # {} /\ accepted' = {}
  /\ UNCHANGED <<auth, jar, slotVars, fileVars, issued, overlapped>>

-----------------------------------------------------------------------------
(* send(): the reply's cookies enter the jar as it is received; the jar is  *)
(* saved, whatever the status, and only then the status is looked at.       *)

Receive(s) ==
  /\ Step(s, "answered", "snapshot")
  /\ jar' = IF sent[s] = Keep THEN jar ELSE sent[s]
  /\ sent' = [sent EXCEPT ![s] = 0]
  /\ overlapped' = (overlapped \/ \E u \in Slots \ {s} : pc[u] \in Saving)
  /\ UNCHANGED <<auth, kind, buf, ino, fileVars, gateVars>>

\* The connection fails, or the request timeout ends the wait, before or
\* after the gateway has handled the request.
GiveUp(s) ==
  /\ pc[s] \in {"asked", "answered"}
  /\ Step(s, pc[s], "idle")
  /\ sent' = [sent EXCEPT ![s] = 0]
  /\ kind' = [kind EXCEPT ![s] = "read"]
  /\ UNCHANGED <<auth, jar, buf, ino, fileVars, gateVars, overlapped>>

-----------------------------------------------------------------------------
(* save_jar()                                                               *)

Snapshot(s) ==
  /\ Step(s, "snapshot", "open")
  /\ buf' = [buf EXCEPT ![s] = jar]
  /\ UNCHANGED <<auth, jar, kind, sent, ino, fileVars, gateVars, overlapped>>

Unreferenced(i) == i \notin {tmp, path} /\ \A u \in Slots : ino[u] # i

\* Mutation: fs::write on the jar itself.
OpenJar(s) ==
  /\ Step(s, "open", "write")
  /\ \E i \in Inodes :
       /\ IF path = NoFile THEN Unreferenced(i) ELSE i = path
       /\ path' = i
       /\ data' = [data EXCEPT ![i] = Torn]
       /\ ino' = [ino EXCEPT ![s] = i]
  /\ UNCHANGED <<auth, jar, kind, sent, buf, tmp, fails, gateVars, overlapped>>

OpenTmp(s) ==
  /\ Step(s, "open", "write")
  /\ \E i \in Inodes :
       /\ IF tmp = NoFile THEN Unreferenced(i) ELSE i = tmp
       /\ tmp' = i
       /\ data' = [data EXCEPT ![i] = Torn]
       /\ ino' = [ino EXCEPT ![s] = i]
  /\ UNCHANGED <<auth, jar, kind, sent, buf, path, fails, gateVars, overlapped>>

\* Written over what another writer put there since the truncation, a shorter
\* text leaves the other's tail behind.
WriteTmp(s) ==
  /\ Step(s, "write", "rename")
  /\ \E d \in {buf[s]} \cup (IF data[ino[s]] = Torn THEN {} ELSE {Torn}) :
       data' = [data EXCEPT ![ino[s]] = d]
  /\ ino' = [ino EXCEPT ![s] = NoFile] /\ buf' = [buf EXCEPT ![s] = 0]
  /\ UNCHANGED <<auth, jar, kind, sent, tmp, path, fails, gateVars, overlapped>>

\* Mutation: the temporary file is not renamed over an older jar.
RenameIfNew(s) ==
  /\ Step(s, "rename", "idle")
  /\ path' = IF path = NoFile THEN tmp ELSE path
  /\ tmp' = IF path = NoFile THEN NoFile ELSE tmp
  /\ UNCHANGED <<auth, jar, kind, sent, buf, ino, data, fails, gateVars, overlapped>>

\* When another save has renamed it already the name is gone: only a warning.
Rename(s) ==
  /\ Step(s, "rename", "idle")
  /\ path' = IF tmp = NoFile THEN path ELSE tmp
  /\ tmp' = NoFile
  /\ UNCHANGED <<auth, jar, kind, sent, buf, ino, data, fails, gateVars, overlapped>>

\* Mutation: the file stays open when writing it fails.
SaveFailsOpen(s) ==
  /\ fails < MaxFails /\ fails' = fails + 1
  /\ pc[s] \in {"open", "write"} /\ Step(s, pc[s], "idle")
  /\ buf' = [buf EXCEPT ![s] = 0]
  /\ UNCHANGED <<auth, jar, kind, sent, ino, tmp, path, data, gateVars, overlapped>>

\* Creating or writing fails: a warning, and the request goes on.
SaveFails(s) ==
  /\ fails < MaxFails /\ fails' = fails + 1
  /\ pc[s] \in {"open", "write"} /\ Step(s, pc[s], "idle")
  /\ ino' = [ino EXCEPT ![s] = NoFile] /\ buf' = [buf EXCEPT ![s] = 0]
  /\ UNCHANGED <<auth, jar, kind, sent, tmp, path, data, gateVars, overlapped>>

\* The process is killed and started again: HermesCore::new.
Restart ==
  /\ auth' = ~Unreadable
  /\ jar' = IF Unreadable THEN 0 ELSE Stored
  /\ pc' = [s \in Slots |-> "idle"]
  /\ ino' = [s \in Slots |-> NoFile]
  /\ kind' = [s \in Slots |-> "read"] /\ sent' = [s \in Slots |-> 0]
  /\ buf' = [s \in Slots |-> 0]
  /\ overlapped' = Unreadable
  /\ UNCHANGED <<fileVars, gateVars>>

Save(s)    == Snapshot(s) \/ OpenTmp(s) \/ WriteTmp(s) \/ Rename(s)
Request(s) == Route(s) \/ Receive(s) \/ Save(s) \/ SaveFails(s)

JarNext ==
  \/ \E s \in Slots : Login(s) \/ (\E k \in Kinds \ {"login"} : Ask(s, k))
  \/ \E s \in Slots : Request(s) \/ GiveUp(s)
  \/ Expire \/ Restart

JarSpec == JarInit /\ [][JarNext]_jarVars

-----------------------------------------------------------------------------
(* Properties                                                               *)

PCs == {"idle", "asked", "answered"} \cup Saving

\* Everything has its type, and a save has a file open exactly while it writes
\* it.
JarTypeOK ==
  /\ auth \in BOOLEAN /\ jar \in Versions
  /\ pc \in [Slots -> PCs] /\ kind \in [Slots -> Kinds]
  /\ sent \in [Slots -> Versions \cup {Keep}]
  /\ buf \in [Slots -> Versions] /\ ino \in [Slots -> Inodes \cup {NoFile}]
  /\ {tmp, path} \subseteq Inodes \cup {NoFile} /\ data \in [Inodes -> Versions \cup {Torn}]
  /\ issued \in Versions /\ accepted \subseteq Versions
  /\ fails \in 0..MaxFails /\ overlapped \in BOOLEAN
  /\ \A s \in Slots : ino[s] # NoFile <=> pc[s] = "write"

\* One save at a time is atomic: killed at any moment, it leaves the old jar
\* or the new one, never one that AuthClient::new refuses (save_jar).
LoneSavesAreWhole == Unreadable => overlapped

\* Once the requests are over, the file holds the cookies the process holds,
\* so the next process resumes the session without a login, unless a save
\* failed or two overlapped.
IdleJarIsSaved ==
  (\A s \in Slots : pc[s] \in {"idle", "asked", "answered"})
    => jar = Stored \/ fails > 0 \/ overlapped

=============================================================================
