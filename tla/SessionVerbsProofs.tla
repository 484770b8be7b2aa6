------------------------- MODULE SessionVerbsProofs -------------------------
(***************************************************************************)
(* For any number of opens, commands, profiles, stored sessions and        *)
(* connections: a tab is labelled with the profile that owns its session,  *)
(* and a bot gets a second chat only when a list could not show the first. *)
(***************************************************************************)
EXTENDS SessionVerbs, FiniteSetTheorems, SequenceTheorems, WellFoundedInduction, TLAPS

Chat  == [profile : Profiles, botChat : BOOLEAN, msgs : Seq(Runs)]
OpenT == [pc : {"new", "list", "found", "create", "late", "resume", "install", "done"},
          conn : Conns,
          profile : Profiles \cup {None}, bot : BOOLEAN, id : Ids \cup {None},
          msgs : Seq(Runs), wire : Profiles \cup {None}]

Typed == /\ chats \in Seq(Chat) /\ Len(chats) <= MaxChats /\ conn \in Conns
         /\ label \in [Ids -> Profiles \cup {None}]
         /\ open \in [Opens -> OpenT] /\ twinned \subseteq Profiles

(***************************************************************************)
(* LabelIsOwner is not inductive: Install writes what the opener has       *)
(* learned some RPCs before.  An opener knows whose session it has in      *)
(* hand: from the list it looked through, the chat it made, or the wire.   *)
(***************************************************************************)
Knows(w) ==
  /\ w.bot => w.profile \in Profiles
  /\ ~w.bot => w.profile = None /\ w.pc # "list"
  /\ w.pc \in {"resume", "install"} \/ (w.pc = "found" /\ w.id # None) =>
       /\ w.id \in Existing
       /\ w.bot => chats[w.id].profile = w.profile
  /\ w.pc = "install" /\ w.wire # None => w.wire = chats[w.id].profile

OpenerKnows == \A o \in Opens : Knows(open[o])

LabelKnown == \A i \in Ids : label[i] # None => i \in Existing /\ label[i] = chats[i].profile

(***************************************************************************)
(* Until a list misses the chat of p, one create of it is on the way at    *)
(* most, and none once there is a chat.                                    *)
(***************************************************************************)
Single(p) ==
  /\ \A o, u \in OnTheWay(p) : o = u
  /\ \A i, j \in BotChats(p) : i = j
  /\ OnTheWay(p) # {} => BotChats(p) = {}

TwinInv == \A p \in Profiles \ twinned : Single(p)

VerbInv == Typed /\ OpenerKnows /\ LabelKnown /\ TwinInv

-----------------------------------------------------------------------------
(* What the list says                                                       *)

LEMMA Least ==
  ASSUME NEW S \in SUBSET Nat, S # {}
  PROVE  \E n \in S : \A m \in S : n <= m
<1>1. IsWellFoundedOn(OpToRel(<, Nat), Nat)
  BY NatLessThanWellFounded
<1>2. \E n \in S : \A m \in S : ~(<<m, n>> \in OpToRel(<, Nat))
  BY <1>1, WFMin, Zenon
<1>3. \A m, n \in Nat : m < n => <<m, n>> \in OpToRel(<, Nat)
  BY DEF OpToRel
<1>4. PICK n \in S : \A m \in S : ~(<<m, n>> \in OpToRel(<, Nat))
  BY <1>2
<1>5. \A m \in S : ~(m < n)
  BY <1>3, <1>4, Zenon
<1> QED BY <1>5

LEMMA RowsListed ==
  ASSUME Typed, NEW S \in SUBSET Existing, NEW unnamed \in SUBSET Existing,
         NEW rows \in {ListReply(S, unnamed)}
  PROVE  /\ Len(rows) \in Nat
         /\ \A n \in 1..Len(rows) : rows[n].exact /\ rows[n].id # None => rows[n].id \in S
         /\ \A i \in S \ unnamed : \E n \in 1..Len(rows) : rows[n].exact /\ rows[n].id = i
<1> DEFINE L == Len(chats)
<1>1. L \in Nat
  BY DEF Typed
<1>2. rows = [n \in 1..L |-> [exact |-> L + 1 - n \in S,
                             id |-> IF L + 1 - n \in unnamed THEN None ELSE L + 1 - n]]
  BY DEF ListReply
<1>3. Len(rows) = L
  BY <1>1, <1>2
<1>4. \A n \in 1..L : /\ rows[n].exact <=> L + 1 - n \in S
                      /\ rows[n].id = IF L + 1 - n \in unnamed THEN None ELSE L + 1 - n
  <2> SUFFICES ASSUME NEW n \in 1..L
               PROVE  /\ rows[n].exact <=> L + 1 - n \in S
                      /\ rows[n].id = IF L + 1 - n \in unnamed THEN None ELSE L + 1 - n
    OBVIOUS
  <2>1. PICK x : x = (IF L + 1 - n \in unnamed THEN None ELSE L + 1 - n)
    OBVIOUS
  <2>2. PICK e \in BOOLEAN : e = (L + 1 - n \in S)
    <3>1. (L + 1 - n \in S) \in BOOLEAN
      OBVIOUS
    <3> QED BY <3>1, Zenon
  <2>3. rows[n] = [exact |-> e, id |-> x]
    BY <1>2, <2>1, <2>2
  <2>4. rows[n].exact = e /\ rows[n].id = x
    BY <2>3
  <2> QED BY <2>1, <2>2, <2>4
<1>5. \A n \in 1..L : rows[n].exact /\ rows[n].id # None => rows[n].id \in S
  <2> SUFFICES ASSUME NEW n \in 1..L, rows[n].exact, rows[n].id # None PROVE rows[n].id \in S
    OBVIOUS
  <2>1. L + 1 - n \in S /\ rows[n].id = IF L + 1 - n \in unnamed THEN None ELSE L + 1 - n
    BY <1>4
  <2> QED BY <2>1
<1>6. \A i \in S \ unnamed : \E n \in 1..L : rows[n].exact /\ rows[n].id = i
  <2> SUFFICES ASSUME NEW i \in S \ unnamed
               PROVE  \E n \in 1..L : rows[n].exact /\ rows[n].id = i
    OBVIOUS
  <2>1. PICK n \in 1..L : L + 1 - n = i
    <3>1. L + 1 - i \in 1..L /\ L + 1 - (L + 1 - i) = i
      BY <1>1 DEF Existing
    <3> QED BY <3>1
  <2>2. rows[n].exact /\ rows[n].id = i
    BY <1>4, <2>1
  <2> QED BY <2>2
<1> QED BY <1>1, <1>3, <1>5, <1>6

LEMMA ResolvedChat ==
  ASSUME Typed, NEW S \in SUBSET Existing, NEW unnamed \in SUBSET Existing,
         NEW rows \in {ListReply(S, unnamed)}, NEW i, i = ResolveBotChat(rows)
  PROVE  (i = None => S \subseteq unnamed) /\ (i # None => i \in S)
<1> DEFINE hits == {n \in 1..Len(rows) : rows[n].exact /\ rows[n].id # None}
           first == CHOOSE n \in hits : \A m \in hits : n <= m
<1>1. S \ unnamed # {} => hits # {}
  <2>1. \A z \in S : z # None
    BY VerbsAssumption DEF Existing, Typed
  <2> SUFFICES ASSUME NEW z \in S \ unnamed PROVE hits # {}
    OBVIOUS
  <2>2. \A x \in S \ unnamed : \E n \in 1..Len(rows) : rows[n].exact /\ rows[n].id = x
    BY RowsListed
  <2>3. PICK n \in 1..Len(rows) : rows[n].exact /\ rows[n].id = z
    BY <2>2
  <2>4. n \in hits
    BY <2>1, <2>3
  <2> QED BY <2>4
<1>2. CASE hits = {}
  BY <1>1, <1>2 DEF ResolveBotChat
<1>3. CASE hits # {}
  <2>1. hits \in SUBSET Nat
    BY RowsListed
  <2>2. \E n \in hits : \A m \in hits : n <= m
    BY <1>3, <2>1, Least
  <2>3. first \in hits
    BY <2>2
  <2>4. i = rows[first].id
    BY <1>3 DEF ResolveBotChat
  <2>5. i \in S
    BY <2>3, <2>4, RowsListed
  <2>6. \A z \in S : z # None
    BY VerbsAssumption DEF Existing, Typed
  <2> QED BY <2>5, <2>6
<1> QED BY <1>2, <1>3

-----------------------------------------------------------------------------
(* Chats                                                                    *)

\* The gateway keeps what it stores: a session keeps its profile and its title.
ChatsKept == /\ chats' \in Seq(Chat) /\ Len(chats) <= Len(chats')
             /\ \A i \in Existing : /\ chats'[i].profile = chats[i].profile
                                    /\ chats'[i].botChat = chats[i].botChat

LEMMA ChatsSame == Typed /\ chats' = chats => ChatsKept /\ Existing' = Existing
BY DEF Typed, ChatsKept, Existing

LEMMA ChatMade ==
  ASSUME Typed, NEW c \in Chat, chats' = Append(chats, c)
  PROVE  /\ ChatsKept /\ Len(chats') = Len(chats) + 1
         /\ Existing' = Existing \cup {Len(chats')} /\ chats'[Len(chats')] = c
<1>1. chats \in Seq(Chat) /\ Len(chats) \in Nat
  BY DEF Typed
<1>2. /\ chats' \in Seq(Chat) /\ Len(chats') = Len(chats) + 1 /\ chats'[Len(chats) + 1] = c
      /\ \A i \in 1..Len(chats) : chats'[i] = chats[i]
  BY <1>1
<1> QED BY <1>1, <1>2 DEF ChatsKept, Existing

LEMMA ChatSaid ==
  ASSUME Typed, NEW i, NEW r \in Runs, chats' = [chats EXCEPT ![i].msgs = Append(@, r)]
  PROVE  ChatsKept /\ Len(chats') = Len(chats)
<1>1. chats \in [1..Len(chats) -> Chat] /\ Len(chats) \in Nat
  BY DEF Typed
<1>2. CASE i \in 1..Len(chats)
  <2>1. [chats[i] EXCEPT !.msgs = Append(@, r)] \in Chat
    <3>1. chats[i] \in [profile : Profiles, botChat : BOOLEAN, msgs : Seq(Runs)]
      BY <1>1, <1>2 DEF Chat
    <3>2. Append(chats[i].msgs, r) \in Seq(Runs)
      BY <3>1
    <3> QED BY <3>1, <3>2 DEF Chat
  <2>2. chats' = [chats EXCEPT ![i] = [chats[i] EXCEPT !.msgs = Append(@, r)]]
    BY <1>1, <1>2
  <2>3. chats' \in [1..Len(chats) -> Chat] 
    BY <1>1, <2>1, <2>2
  <2>4. chats' \in Seq(Chat) /\ Len(chats') = Len(chats)
    BY <1>1, <2>3
  <2>5. \A j \in 1..Len(chats) : /\ chats'[j].profile = chats[j].profile
                                 /\ chats'[j].botChat = chats[j].botChat
    BY <1>1, <1>2, <2>2 DEF Chat
  <2> QED BY <1>1, <2>4, <2>5 DEF ChatsKept, Existing
<1>3. CASE i \notin 1..Len(chats)
  <2>1. chats' = chats
    BY <1>1, <1>3
  <2> QED BY <1>1, <2>1, ChatsSame DEF ChatsKept
<1> QED BY <1>2, <1>3

LEMMA BotChatsKept ==
  ASSUME ChatsKept, Len(chats') = Len(chats), NEW p
  PROVE  BotChats(p)' = BotChats(p)
BY DEF ChatsKept, BotChats, Existing

-----------------------------------------------------------------------------
(* Steps                                                                    *)

\* Neither opens nor labels move, and no chat is made.
LEMMA VerbUntouched ==
  ASSUME VerbInv, Typed', ChatsKept, Len(chats') = Len(chats), UNCHANGED <<open, twinned>>,
         \A i \in Ids : label'[i] = label[i] \/ label'[i] = None
  PROVE  VerbInv'
<1>1. Existing' = Existing
  BY DEF Existing
<1>2. OpenerKnows'
  BY <1>1 DEF VerbInv, OpenerKnows, Knows, ChatsKept
<1>3. LabelKnown'
  BY <1>1 DEF VerbInv, LabelKnown, ChatsKept
<1>4. \A p \in Profiles : OnTheWay(p)' = OnTheWay(p)
  BY DEF OnTheWay
<1>5. TwinInv'
  BY <1>4, BotChatsKept DEF VerbInv, TwinInv, Single
<1> QED BY <1>2, <1>3, <1>5 DEF VerbInv

\* An open that has found nothing is to make the chat.
Making(w) == w.bot /\ (w.pc \in {"create", "late"} \/ (w.pc = "found" /\ w.id = None))

\* One open goes on, and no chat is made: if it is now to make one, it was
\* already, or there is none and no other is to, or the list was blind.
LEMMA OpenMoves ==
  ASSUME VerbInv, Typed', NEW o \in Opens, NEW st \in OpenT, open' = [open EXCEPT ![o] = st],
         chats' = chats, twinned \subseteq twinned', LabelKnown', Knows(st)',
         Making(st) => \/ Making(open[o]) /\ open[o].profile = st.profile
                       \/ st.profile \in twinned'
                       \/ OnTheWay(st.profile) = {} /\ BotChats(st.profile) = {}
  PROVE  VerbInv'
<1>1. Existing' = Existing /\ \A p : BotChats(p)' = BotChats(p)
  BY DEF Existing, BotChats
<1>2. open'[o] = st /\ \A u \in Opens \ {o} : open'[u] = open[u]
  BY DEF VerbInv, Typed
<1>3. OpenerKnows'
  <2>1. \A u \in Opens \ {o} : Knows(open[u])'
    BY <1>1, <1>2 DEF VerbInv, OpenerKnows, Knows
  <2> QED BY <1>2, <2>1 DEF OpenerKnows, Knows
<1>4. TwinInv'
  <2> SUFFICES ASSUME NEW p \in Profiles \ twinned' PROVE Single(p)'
    BY DEF TwinInv
  <2>1. Single(p)
    BY DEF VerbInv, TwinInv
  <2>2. \A u \in OnTheWay(p)' : u # o => u \in OnTheWay(p)
    BY <1>2 DEF OnTheWay
  <2>3. o \in OnTheWay(p)' => Making(st) /\ st.profile = p
    BY <1>2 DEF OnTheWay, Making
  <2>4. CASE OnTheWay(p) = {} /\ BotChats(p) = {}
    BY <1>1, <2>2, <2>4 DEF Single
  <2>5. CASE o \notin OnTheWay(p)' \/ (Making(open[o]) /\ open[o].profile = p)
    <3>1. OnTheWay(p)' \subseteq OnTheWay(p)
      BY <2>2, <2>5 DEF OnTheWay, Making
    <3> QED BY <1>1, <2>1, <3>1 DEF Single
  <2> QED BY <2>3, <2>4, <2>5
<1> QED BY <1>3, <1>4 DEF VerbInv

LEMMA LabelStays ==
  ASSUME VerbInv, ChatsKept, label' = label
  PROVE  LabelKnown'
BY DEF VerbInv, Typed, LabelKnown, ChatsKept, Existing

LEMMA NewTyped == OpenNew \in OpenT /\ Knows(OpenNew) /\ ~Making(OpenNew) /\ OpenNew.pc = "new"
BY VerbsAssumption DEF OpenNew, OpenT, Conns, Knows, Making

DoneOpen == [OpenNew EXCEPT !.pc = "done"]
LEMMA DoneTyped == DoneOpen \in OpenT /\ Knows(DoneOpen) /\ ~Making(DoneOpen) /\ ~DoneOpen.bot
<1>1. PICK st : st = [OpenNew EXCEPT !.pc = "done"]
  OBVIOUS
<1>2. st \in OpenT
  BY <1>1, NewTyped DEF OpenT
<1>3. st.pc = "done" /\ ~st.bot /\ st.profile = None
  BY <1>1 DEF OpenNew
<1>4. Knows(st) /\ ~Making(st)
  BY <1>3 DEF Knows, Making
<1> QED BY <1>1, <1>2, <1>3, <1>4 DEF DoneOpen

LEMMA OpenTyped ==
  ASSUME Typed, NEW o \in Opens, NEW st \in OpenT, open' = [open EXCEPT ![o] = st],
         UNCHANGED <<chats, conn, label>>, twinned' \subseteq Profiles
  PROVE  Typed'
BY DEF Typed

LEMMA KeepsOpenSession ==
  ASSUME VerbInv, NEW o \in Opens, OpenSession(o)
  PROVE  VerbInv'
<1>1. PICK i \in Existing \cup {None} : Begin(o, [OpenNew EXCEPT !.pc = "found", !.id = i])
  BY DEF OpenSession
<1>0. PICK st : st = [OpenNew EXCEPT !.pc = "found", !.id = i]
  OBVIOUS
<1>2. UNCHANGED <<chats, conn, label, twinned>> /\ open' = [open EXCEPT ![o] = st]
  BY <1>0, <1>1 DEF Begin, coreVars
<1>3. Existing \subseteq Ids /\ Existing' = Existing
  BY <1>2, VerbsAssumption DEF VerbInv, Typed, Existing, Ids
<1>4. st \in OpenT
  BY <1>0, <1>3, NewTyped DEF OpenT
<1>5. ~st.bot /\ st.profile = None /\ st.id = i /\ st.pc = "found"
  BY <1>0 DEF OpenNew
<1>6. Knows(st)' /\ ~Making(st)
  BY <1>3, <1>5 DEF Knows, Making
<1>7. Typed' /\ LabelKnown'
  BY <1>2, <1>4, OpenTyped, LabelStays, ChatsSame DEF VerbInv, Typed
<1> QED BY <1>2, <1>4, <1>6, <1>7, OpenMoves

LEMMA KeepsOpenBotChat ==
  ASSUME VerbInv, NEW o \in Opens, NEW p \in Profiles, OpenBotChat(o, p)
  PROVE  VerbInv'
<1>0. PICK st : st = [OpenNew EXCEPT !.pc = "list", !.conn = conn, !.profile = p, !.bot = TRUE]
  OBVIOUS
<1>1. open' = [open EXCEPT ![o] = st] /\ UNCHANGED <<chats, conn, label, twinned>>
  BY <1>0 DEF OpenBotChat, Begin, coreVars
<1>2. st \in OpenT /\ st.bot /\ st.profile = p /\ st.pc = "list"
  BY <1>0, NewTyped DEF VerbInv, Typed, OpenT, OpenNew
<1>3. Knows(st)' /\ ~Making(st)
  BY <1>2 DEF Knows, Making
<1>4. Typed' /\ LabelKnown'
  BY <1>1, <1>2, OpenTyped, LabelStays, ChatsSame DEF VerbInv, Typed
<1> QED BY <1>1, <1>2, <1>3, <1>4, OpenMoves

\* The verb returns, or gives a create up that the gateway may yet handle.
LEMMA KeepsFails ==
  ASSUME VerbInv, NEW o \in Opens, OpenFails(o)
  PROVE  VerbInv'
<1>1. UNCHANGED <<chats, conn, label, twinned>> /\ open[o] \in OpenT /\ Knows(open[o])
  BY DEF OpenFails, coreVars, VerbInv, Typed, OpenerKnows
<1>2. PICK st : /\ open' = [open EXCEPT ![o] = st]
                /\ st = DoneOpen \/ (open[o].pc = "create" /\ st = [open[o] EXCEPT !.pc = "late"])
  <2>1. CASE Returns(o)
    BY <2>1 DEF Returns, DoneOpen
  <2>2. CASE GivesUp(o)
    <3>1. open' = [open EXCEPT ![o] = [open[o] EXCEPT !.pc = "late"]]
      BY <2>2 DEF GivesUp
    <3> QED BY <2>2, <3>1 DEF GivesUp
  <2> QED BY <2>1, <2>2 DEF OpenFails
<1>3. \/ st = DoneOpen
      \/ /\ open[o].pc = "create" /\ st.pc = "late" /\ st.bot = open[o].bot
         /\ st.profile = open[o].profile
  BY <1>1, <1>2 DEF OpenT
<1>4. st \in OpenT
  <2>1. [open[o] EXCEPT !.pc = "late"] \in OpenT
    BY <1>1 DEF OpenT
  <2> QED BY <1>2, <2>1, DoneTyped
<1>5. Knows(st)'
  <2>1. CASE st = DoneOpen
    BY <2>1 DEF Knows, DoneOpen, OpenNew
  <2> QED BY <1>1, <1>3, <2>1 DEF Knows
<1>6. Making(st) => Making(open[o]) /\ open[o].profile = st.profile
  BY <1>3, DoneTyped DEF Making
<1>7. Typed' /\ LabelKnown'
  BY <1>1, <1>2, <1>4, OpenTyped, LabelStays, ChatsSame DEF VerbInv, Typed
<1> QED BY <1>1, <1>2, <1>4, <1>5, <1>6, <1>7, OpenMoves

\* What the list could not show is why the chat of p may be made again.
LEMMA KeepsResolve ==
  ASSUME VerbInv, NEW o \in Opens, Resolve(o)
  PROVE  VerbInv'
<1>1. PICK unnamed \in SUBSET Existing :
        Resolved(o, ResolveBotChat(ListReply(BotChats(open[o].profile), unnamed)), unnamed)
  BY DEF Resolve
<1>2. PICK p : p = open[o].profile
  OBVIOUS
<1>3. PICK S : S = BotChats(p)
  OBVIOUS
<1>4. PICK rows : rows = ListReply(S, unnamed)
  OBVIOUS
<1>5. PICK i : i = ResolveBotChat(rows)
  OBVIOUS
<1>6. PICK st : st = [open[o] EXCEPT !.pc = "found", !.id = i]
  OBVIOUS
<1>7. /\ open[o].pc = "list" /\ open' = [open EXCEPT ![o] = st]
      /\ UNCHANGED <<chats, conn, label>>
      /\ twinned' = twinned \cup {q \in {p} : Unseen(q, unnamed)}
  BY <1>1, <1>2, <1>3, <1>4, <1>5, <1>6 DEF Resolved, coreVars
<1>8. open[o].bot /\ p \in Profiles /\ open[o] \in OpenT
  BY <1>2, <1>7 DEF VerbInv, OpenerKnows, Knows, Typed
<1>9. S \in SUBSET Existing
  BY <1>3 DEF BotChats
<1>10. (i = None => S \subseteq unnamed) /\ (i # None => i \in S)
  BY <1>4, <1>5, <1>9, ResolvedChat DEF VerbInv
<1>11. Existing \subseteq Ids /\ Existing' = Existing
  BY <1>7, VerbsAssumption DEF VerbInv, Typed, Existing, Ids
<1>12. st \in OpenT /\ st.bot /\ st.profile = p /\ st.id = i /\ st.pc = "found"
  BY <1>2, <1>6, <1>8, <1>9, <1>10, <1>11 DEF OpenT
<1>13. Knows(st)'
  BY <1>3, <1>7, <1>8, <1>9, <1>10, <1>11, <1>12 DEF Knows, BotChats
<1>14. twinned' \subseteq Profiles
  BY <1>7, <1>8 DEF VerbInv, Typed
<1>15. Typed' /\ LabelKnown'
  BY <1>7, <1>12, <1>14, OpenTyped, LabelStays, ChatsSame DEF VerbInv, Typed
<1>16. Making(st) => p \in twinned' \/ (OnTheWay(p) = {} /\ BotChats(p) = {})
  BY <1>3, <1>7, <1>10, <1>12 DEF Making, Unseen
<1> QED BY <1>7, <1>12, <1>13, <1>15, <1>16, OpenMoves

LEMMA KeepsReadClient ==
  ASSUME VerbInv, NEW o \in Opens, ReadClient(o)
  PROVE  VerbInv'
<1>1. /\ UNCHANGED <<chats, conn, label, twinned>> /\ open[o].pc = "found"
      /\ open[o] \in OpenT /\ Knows(open[o])
  BY DEF ReadClient, coreVars, VerbInv, Typed, OpenerKnows
<1>2. PICK st : st = [open[o] EXCEPT !.pc = IF open[o].id = None THEN "create" ELSE "resume",
                                     !.conn = conn]
  OBVIOUS
<1>3. open' = [open EXCEPT ![o] = st]
  BY <1>2 DEF ReadClient
<1>4. st \in OpenT
  BY <1>1, <1>2 DEF OpenT, VerbInv, Typed
<1>5. /\ st.pc = (IF open[o].id = None THEN "create" ELSE "resume") /\ st.bot = open[o].bot
      /\ st.profile = open[o].profile /\ st.id = open[o].id
  BY <1>1, <1>2 DEF OpenT
<1>6. Knows(st)'
  BY <1>1, <1>5 DEF Knows, Existing
<1>7. Making(st) => Making(open[o]) /\ open[o].profile = st.profile
  BY <1>1, <1>5 DEF Making
<1>8. Typed' /\ LabelKnown'
  BY <1>1, <1>3, <1>4, OpenTyped, LabelStays, ChatsSame DEF VerbInv, Typed
<1> QED BY <1>1, <1>3, <1>4, <1>6, <1>7, <1>8, OpenMoves

\* A chat is made by an open that was to make one, and is no longer.
LEMMA MintKeeps ==
  ASSUME VerbInv, NEW o \in Opens, NEW p \in Profiles, Minted(o, p), NEW st \in OpenT,
         open' = [open EXCEPT ![o] = st], open[o].pc \in {"create", "late"},
         \/ st = DoneOpen
         \/ /\ st.pc = "install" /\ st.bot = open[o].bot /\ st.profile = open[o].profile
            /\ st.id = Len(chats) + 1 /\ st.wire \in {None, p}
  PROVE  VerbInv'
<1>1. open[o] \in OpenT /\ Knows(open[o]) /\ UNCHANGED <<conn, label, twinned>>
  BY DEF Minted, coreVars, VerbInv, Typed, OpenerKnows
<1>2. open[o].bot => open[o].profile = p
  BY DEF Minted
<1>3. PICK c : c = [profile |-> p, botChat |-> open[o].bot, msgs |-> << >>]
  OBVIOUS
<1>4. PICK n : n = Len(chats')
  OBVIOUS
<1>5. c \in Chat /\ c.profile = p /\ c.botChat = open[o].bot
  BY <1>1, <1>3 DEF Chat, OpenT
<1>6. chats' = Append(chats, c)
  BY <1>3 DEF Minted
<1>7. /\ ChatsKept /\ n = Len(chats) + 1 /\ Existing' = Existing \cup {n} /\ chats'[n] = c
  BY <1>4, <1>5, <1>6, ChatMade DEF VerbInv
<1>8. n \in Ids /\ n \notin Existing /\ chats' \in Seq(Chat) /\ Len(chats') <= MaxChats
  BY <1>4, <1>7, VerbsAssumption DEF Minted, VerbInv, Typed, Existing, Ids, ChatsKept
<1>9. open'[o] = st /\ \A u \in Opens \ {o} : open'[u] = open[u]
  BY DEF VerbInv, Typed
<1>10. Typed'
  BY <1>1, <1>8 DEF VerbInv, Typed
<1>11. LabelKnown'
  BY <1>1, <1>7, LabelStays
<1>12. OpenerKnows'
  <2>1. \A u \in Opens \ {o} : Knows(open[u])'
    BY <1>7, <1>9 DEF VerbInv, OpenerKnows, Knows, ChatsKept
  <2>2. CASE st = DoneOpen
    <3>1. Knows(st)'
      BY <2>2 DEF Knows, DoneOpen, OpenNew
    <3> QED BY <1>9, <2>1, <3>1 DEF OpenerKnows, Knows
  <2>3. CASE st.pc = "install" /\ st.bot = open[o].bot /\ st.profile = open[o].profile
             /\ st.id = Len(chats) + 1 /\ st.wire \in {None, p}
    <3>1. Knows(st)'
      BY <1>1, <1>2, <1>5, <1>7, <2>3 DEF Knows
    <3> QED BY <1>9, <2>1, <3>1 DEF OpenerKnows, Knows
  <2> QED BY <2>2, <2>3
<1>13. TwinInv'
  <2> SUFFICES ASSUME NEW q \in Profiles \ twinned PROVE Single(q)'
    BY <1>1 DEF TwinInv
  <2>1. Single(q)
    BY DEF VerbInv, TwinInv
  <2>2. o \notin OnTheWay(q)' /\ OnTheWay(q)' \subseteq OnTheWay(q)
    BY <1>9, DoneTyped DEF OnTheWay, Making
  <2>3. CASE open[o].bot /\ p = q
    <3>1. o \in OnTheWay(q)
      BY <1>2, <2>3 DEF OnTheWay
    <3>2. BotChats(q) = {} /\ OnTheWay(q)' = {}
      BY <2>1, <2>2, <3>1 DEF Single
    <3>3. BotChats(q)' \subseteq {n}
      BY <1>7, <3>2 DEF BotChats, ChatsKept
    <3> QED BY <3>2, <3>3 DEF Single
  <2>4. CASE ~(open[o].bot /\ p = q)
    <3>1. BotChats(q)' = BotChats(q)
      BY <1>5, <1>7, <1>8, <2>4 DEF BotChats, ChatsKept
    <3> QED BY <2>1, <2>2, <3>1 DEF Single
  <2> QED BY <2>3, <2>4
<1> QED BY <1>10, <1>11, <1>12, <1>13 DEF VerbInv

LEMMA KeepsCreate ==
  ASSUME VerbInv, NEW o \in Opens, CreateSession(o)
  PROVE  VerbInv'
<1>1. open[o].pc = "create" /\ open[o] \in OpenT
  BY DEF CreateSession, VerbInv, Typed
<1>2. PICK p \in Profiles :
        /\ Minted(o, p)
        /\ (\E reply \in CreateReply(Len(chats) + 1, p) : Replied(o, reply)) \/ Returns(o)
  BY DEF CreateSession
<1>3. CASE Returns(o)
  <2>1. PICK st \in OpenT : st = DoneOpen
    BY DoneTyped
  <2>2. open' = [open EXCEPT ![o] = st]
    BY <1>3, <2>1 DEF Returns, DoneOpen
  <2> QED BY <1>1, <1>2, <2>1, <2>2, MintKeeps
<1>4. ASSUME NEW reply \in CreateReply(Len(chats) + 1, p), Replied(o, reply) PROVE VerbInv'
  <2>1. reply.id = Len(chats) + 1 /\ reply.msgs = << >> /\ reply.wire \in {None, p}
    BY <1>4 DEF CreateReply
  <2>2. PICK st : st = [open[o] EXCEPT !.pc = "install", !.id = reply.id, !.msgs = reply.msgs,
                                       !.wire = reply.wire]
    OBVIOUS
  <2>3. open' = [open EXCEPT ![o] = st]
    BY <1>4, <2>2 DEF Replied
  <2>4. Len(chats) + 1 \in Ids
    BY <1>2, VerbsAssumption DEF Minted, VerbInv, Typed, Ids
  <2>5. reply.id \in Ids /\ reply.msgs \in Seq(Runs) /\ reply.wire \in Profiles \cup {None}
    BY <2>1, <2>4
  <2>6. st \in OpenT
    BY <1>1, <2>2, <2>5 DEF OpenT
  <2>7. /\ st.pc = "install" /\ st.bot = open[o].bot /\ st.profile = open[o].profile
        /\ st.id = reply.id /\ st.wire = reply.wire
    BY <1>1, <2>2 DEF OpenT
  <2> QED BY <1>1, <1>2, <2>1, <2>3, <2>6, <2>7, MintKeeps
<1> QED BY <1>2, <1>3, <1>4

LEMMA KeepsLate ==
  ASSUME VerbInv, NEW o \in Opens, LateCreate(o)
  PROVE  VerbInv'
<1>1. PICK p \in Profiles : Minted(o, p)
  BY DEF LateCreate
<1>2. PICK st \in OpenT : st = DoneOpen
  BY DoneTyped
<1>3. open' = [open EXCEPT ![o] = st] /\ open[o].pc = "late"
  BY <1>2 DEF LateCreate, Returns, DoneOpen
<1> QED BY <1>1, <1>2, <1>3, MintKeeps

LEMMA KeepsResume ==
  ASSUME VerbInv, NEW o \in Opens, ResumeSession(o)
  PROVE  VerbInv'
<1>1. /\ UNCHANGED <<chats, conn, label, twinned>> /\ open[o].pc = "resume"
      /\ open[o] \in OpenT /\ Knows(open[o])
  BY DEF ResumeSession, coreVars, VerbInv, Typed, OpenerKnows
<1>2. PICK reply \in ResumeReply(open[o].id) : Replied(o, reply)
  BY DEF ResumeSession
<1>3. PICK i \in Existing : i = open[o].id
  BY <1>1 DEF Knows
<1>4. chats[i] \in Chat /\ Existing \subseteq Ids /\ Existing' = Existing
  BY <1>1, VerbsAssumption DEF VerbInv, Typed, Existing, Ids
<1>5. reply.id = i /\ reply.msgs \in Seq(Runs) /\ reply.wire \in {None, chats[i].profile}
  BY <1>2, <1>3, <1>4 DEF ResumeReply, Chat
<1>6. PICK st : st = [open[o] EXCEPT !.pc = "install", !.id = reply.id, !.msgs = reply.msgs,
                                     !.wire = reply.wire]
  OBVIOUS
<1>7. open' = [open EXCEPT ![o] = st]
  BY <1>2, <1>6 DEF Replied
<1>8. reply.wire \in Profiles \cup {None}
  BY <1>4, <1>5 DEF Chat
<1>9. st \in OpenT
  BY <1>1, <1>4, <1>5, <1>6, <1>8 DEF OpenT
<1>10. /\ st.pc = "install" /\ st.bot = open[o].bot /\ st.profile = open[o].profile
       /\ st.id = i /\ st.wire = reply.wire /\ ~Making(st)
  BY <1>1, <1>5, <1>6 DEF OpenT, Making
<1>11. Knows(st)'
  BY <1>1, <1>3, <1>4, <1>5, <1>10 DEF Knows
<1>12. Typed' /\ LabelKnown'
  BY <1>1, <1>7, <1>9, OpenTyped, LabelStays, ChatsSame DEF VerbInv, Typed
<1> QED BY <1>1, <1>7, <1>9, <1>10, <1>11, <1>12, OpenMoves

LEMMA KeepsInstall ==
  ASSUME VerbInv, NEW o \in Opens, Install(o)
  PROVE  VerbInv'
<1>1. /\ open[o].pc = "install" /\ open' = [open EXCEPT ![o] = DoneOpen]
      /\ label' = [label EXCEPT ![open[o].id] = IF Learned(o) = None THEN @ ELSE Learned(o)]
      /\ UNCHANGED <<chats, conn, twinned>> /\ open[o] \in OpenT /\ Knows(open[o])
  BY DEF Install, Returns, DoneOpen, VerbInv, Typed, OpenerKnows
<1>2. PICK i \in Existing : i = open[o].id
  BY <1>1 DEF Knows
<1>3. /\ Existing \subseteq Ids /\ Existing' = Existing /\ chats[i] \in Chat
  BY <1>1, VerbsAssumption DEF VerbInv, Typed, Existing, Ids
<1>4. Learned(o) # None => Learned(o) = chats[i].profile
  BY <1>1, <1>2 DEF Learned, Knows
<1>5. Learned(o) \in Profiles \cup {None}
  BY <1>3, <1>4 DEF Chat
<1>6. /\ \A j \in Ids \ {i} : label'[j] = label[j]
      /\ label'[i] = IF Learned(o) = None THEN label[i] ELSE Learned(o)
      /\ label' \in [Ids -> Profiles \cup {None}]
  BY <1>1, <1>2, <1>3, <1>5 DEF VerbInv, Typed
<1>7. LabelKnown'
  BY <1>1, <1>3, <1>4, <1>6 DEF VerbInv, LabelKnown
<1>8. Typed'
  BY <1>1, <1>6, DoneTyped DEF VerbInv, Typed
<1>9. Knows(DoneOpen)'
  BY DEF Knows, DoneOpen, OpenNew
<1> QED BY <1>1, <1>7, <1>8, <1>9, DoneTyped, OpenMoves

LEMMA KeepsLadder ==
  ASSUME VerbInv, NEW r \in Runs, Ladder(r)
  PROVE  VerbInv'
<1>1. UNCHANGED <<conn, label, open, twinned>>
  BY DEF Ladder, Enter, SlashExec, CommandDispatch, Snapshot, Submit, AppendRow, RunVars
<1>2. chats' = chats \/ chats' = [chats EXCEPT ![run[r].id].msgs = Append(@, r)]
  BY DEF Ladder, Enter, SlashExec, CommandDispatch, Snapshot, Submit, AppendRow, RunVars
<1>3. PICK i : i = run[r].id
  OBVIOUS
<1>4. ChatsKept /\ Len(chats') = Len(chats)
  BY <1>2, <1>3, ChatsSame, ChatSaid DEF VerbInv
<1>5. Typed'
  BY <1>1, <1>4 DEF VerbInv, Typed, ChatsKept
<1> QED BY <1>1, <1>4, <1>5, VerbUntouched

LEMMA VerbInit == Init => VerbInv
<1> SUFFICES ASSUME Init PROVE VerbInv
  OBVIOUS
<1>1. Typed
  BY NewTyped, VerbsAssumption DEF Init, Typed, Conns
<1>2. OpenerKnows
  BY NewTyped DEF Init, OpenerKnows
<1>3. LabelKnown
  BY DEF Init, LabelKnown
<1>4. \A p : OnTheWay(p) = {} /\ BotChats(p) = {}
  BY NewTyped DEF Init, OnTheWay, Making, BotChats, Existing
<1> QED BY <1>1, <1>2, <1>3, <1>4 DEF VerbInv, TwinInv, Single

LEMMA VerbStep == VerbInv /\ [Next]_vars => VerbInv'
<1> SUFFICES ASSUME VerbInv, [Next]_vars PROVE VerbInv'
  OBVIOUS
<1>1. CASE \/ Lose \/ Reconnect \/ SupInstall \/ UNCHANGED vars
           \/ \E i \in Ids : SupResume(i) \/ \E r \in Runs : RunSlash(r, i)
  <2>1. UNCHANGED <<chats, label, open, twinned>> /\ conn' \in Conns
    <3>1. CASE Reconnect
      BY <3>1, VerbsAssumption DEF Reconnect, coreVars, VerbInv, Typed, Conns
    <3> QED BY <1>1, <3>1 DEF Lose, SupInstall, SupResume, RunSlash, RunVars, vars, coreVars,
                            VerbInv, Typed
  <2>2. Typed'
    BY <2>1 DEF VerbInv, Typed
  <2> QED BY <2>1, <2>2, ChatsSame, VerbUntouched DEF VerbInv
<1>2. ASSUME NEW i \in Ids, CloseTab(i) PROVE VerbInv'
  <2>1. UNCHANGED <<chats, conn, open, twinned>> /\ label' = [label EXCEPT ![i] = None]
    BY <1>2 DEF CloseTab
  <2>2. Typed' /\ \A j \in Ids : label'[j] = label[j] \/ label'[j] = None
    BY <2>1 DEF VerbInv, Typed
  <2> QED BY <2>1, <2>2, ChatsSame, VerbUntouched DEF VerbInv
<1> QED BY <1>1, <1>2, KeepsOpenSession, KeepsOpenBotChat, KeepsFails, KeepsResolve, KeepsReadClient,
           KeepsCreate, KeepsLate, KeepsResume, KeepsInstall, KeepsLadder DEF Next, Open

-----------------------------------------------------------------------------
(* Types.  Epochs are handed out in order: no tab has one that was not.     *)

LiveT == [sid : Conns, epoch : Nat, rows : Seq(Runs)]
SupT  == [id : Ids, msgs : Seq(Runs)]
RunT  == [pc : {"new", "enter", "exec", "dispatch", "epoch", "submit", "append", "done"},
          id : Ids, conn : Conns, sid : Conns, hop : 0..MAX_ALIAS_HOPS, epoch : Nat,
          result : {"none", "output", "empty", "prefill", "submitted", "loop", "error"}]

LiveOK == /\ live \in [Ids -> LiveT \cup {None}]
          /\ \A i \in Ids : live[i] = None => label[i] = None
          /\ \A i \in Ids : live[i] # None => i \in Existing /\ live[i].epoch \in 1..historyEpoch
RunOK  == run \in [Runs -> RunT]
SupOK  == sup \in SupT \cup {None} /\ up \in BOOLEAN
EpochOK == historyEpoch \in Nat /\ rebuilds \in 0..MaxRebuilds

StateOK == LiveOK /\ RunOK /\ SupOK /\ EpochOK

LEMMA Bounds ==
  MaxChats \in Nat /\ MaxRebuilds \in Nat /\ MAX_ALIAS_HOPS \in Nat /\ MaxConns \in Nat
BY VerbsAssumption

\* A tab that is open is none that is closed.
LEMMA LiveIsSome == \A l \in LiveT : l # None
<1>1. Conns \subseteq Nat
  BY Bounds DEF Conns
<1>2. LiveT \subseteq [sid : Nat, epoch : Nat, rows : Seq(Runs)]
  BY <1>1 DEF LiveT
<1> QED BY <1>2, VerbsAssumption

LEMMA Stored ==
  ASSUME Typed, NEW i \in Existing
  PROVE  i \in Ids /\ chats[i] \in Chat /\ chats[i].msgs \in Seq(Runs)
<1>1. chats[i] \in Chat
  BY DEF Typed, Existing
<1>2. i \in Ids
  BY VerbsAssumption DEF Typed, Existing, Ids
<1> QED BY <1>1, <1>2 DEF Chat

LEMMA Grows == ChatsKept /\ Typed => Existing \subseteq Existing'
BY DEF ChatsKept, Typed, Existing

LEMMA LiveStays ==
  ASSUME Typed, LiveOK, ChatsKept, UNCHANGED <<live, label, historyEpoch>>
  PROVE  LiveOK'
BY Grows DEF LiveOK

\* A tab gets the next epoch, or keeps the one it has.
LEMMA LiveMoves ==
  ASSUME Typed, LiveOK, historyEpoch \in Nat, historyEpoch' \in {historyEpoch, historyEpoch + 1},
         NEW i \in Existing, NEW l \in LiveT, live' = [live EXCEPT ![i] = l],
         l.epoch \in 1..historyEpoch', ChatsKept, label' \in [Ids -> Profiles \cup {None}],
         \A j \in Ids \ {i} : label'[j] = label[j]
  PROVE  LiveOK'
<1>1. i \in Ids /\ l # None
  BY Stored, LiveIsSome
<1>2. live' \in [Ids -> LiveT \cup {None}] /\ live'[i] = l /\ \A j \in Ids \ {i} : live'[j] = live[j]
  BY <1>1 DEF LiveOK
<1>3. \A j \in Ids : live[j] # None => live[j].epoch \in 1..historyEpoch'
  <2>1. \A e \in 1..historyEpoch : e \in 1..historyEpoch'
    OBVIOUS
  <2> QED BY <2>1 DEF LiveOK
<1>4. \A j \in Ids : live'[j] = None => label'[j] = None
  BY <1>1, <1>2 DEF LiveOK
<1>5. i \in Existing' /\ \A j \in Ids : live[j] # None => j \in Existing'
  BY Grows DEF LiveOK
<1>6. \A j \in Ids : live'[j] # None => j \in Existing' /\ live'[j].epoch \in 1..historyEpoch'
  BY <1>1, <1>2, <1>3, <1>5
<1> QED BY <1>2, <1>4, <1>6 DEF LiveOK

LEMMA StateOpens ==
  ASSUME VerbInv, StateOK, NEW o \in Opens, OpenSession(o) \/ \E p \in Profiles : OpenBotChat(o, p)
  PROVE  StateOK'
<1>1. PICK st : Begin(o, st)
  BY DEF OpenSession, OpenBotChat
<1>2. UNCHANGED <<chats, up, live, label, historyEpoch, run, sup, rebuilds>>
  BY <1>1 DEF Begin, coreVars
<1>3. LiveOK'
  BY <1>2, LiveStays, ChatsSame DEF VerbInv, StateOK
<1> QED BY <1>2, <1>3 DEF StateOK, RunOK, SupOK, EpochOK

LEMMA StateOpen ==
  ASSUME VerbInv, VerbInv', StateOK, NEW o \in Opens,
         \/ OpenFails(o) \/ Resolve(o) \/ ReadClient(o)
         \/ CreateSession(o) \/ LateCreate(o) \/ ResumeSession(o)
  PROVE  StateOK'
<1>1. UNCHANGED <<up, live, label, historyEpoch, run, sup, rebuilds>>
  BY DEF OpenFails, Resolve, Resolved, ReadClient, CreateSession, LateCreate, Minted,
         ResumeSession, coreVars
<1>2. Existing \subseteq Existing'
  <2>1. ASSUME NEW p, Minted(o, p) PROVE Existing \subseteq Existing'
    <3>1. PICK c : chats' = Append(chats, c)
      BY <2>1 DEF Minted
    <3>2. Len(chats') = Len(chats) + 1 /\ Len(chats) \in Nat
      BY <3>1 DEF VerbInv, Typed
    <3> QED BY <3>2 DEF Existing
  <2>2. CASE chats' = chats
    BY <2>2 DEF Existing
  <2> QED BY <2>1, <2>2 DEF OpenFails, Resolve, Resolved, ReadClient, CreateSession, LateCreate,
                            ResumeSession
<1>3. LiveOK'
  BY <1>1, <1>2 DEF LiveOK, StateOK
<1> QED BY <1>1, <1>3 DEF StateOK, RunOK, SupOK, EpochOK

LEMMA StateInstall ==
  ASSUME VerbInv, VerbInv', StateOK, NEW o \in Opens, Install(o)
  PROVE  StateOK'
<1>1. /\ open[o].pc = "install" /\ open[o] \in OpenT /\ historyEpoch' = historyEpoch + 1
      /\ Knows(open[o]) /\ UNCHANGED <<chats, up, run, sup, rebuilds>>
  BY DEF Install, VerbInv, Typed, OpenerKnows
<1>2. PICK i \in Existing : i = open[o].id
  BY <1>1 DEF Knows
<1>3. PICK l : l = [sid |-> open[o].conn, epoch |-> historyEpoch + 1, rows |-> open[o].msgs]
  OBVIOUS
<1>4. PICK b : b = IF Learned(o) = None THEN label[i] ELSE Learned(o)
  OBVIOUS
<1>5. live' = [live EXCEPT ![i] = l] /\ label' = [label EXCEPT ![i] = b]
  BY <1>2, <1>3, <1>4 DEF Install
<1>6. l \in LiveT /\ l.epoch \in 1..historyEpoch' /\ historyEpoch \in Nat
  BY <1>1, <1>3 DEF StateOK, EpochOK, OpenT, LiveT
<1>7. label' \in [Ids -> Profiles \cup {None}] /\ \A j \in Ids \ {i} : label'[j] = label[j]
  BY <1>5 DEF VerbInv, Typed
<1>8. ChatsKept
  BY <1>1, ChatsSame DEF VerbInv
<1>9. LiveOK'
  BY <1>1, <1>5, <1>6, <1>7, <1>8, LiveMoves DEF VerbInv, StateOK
<1> QED BY <1>1, <1>6, <1>9 DEF StateOK, RunOK, SupOK, EpochOK

\* What the supervisor fetched it installs or drops.
LEMMA StateSupInstall ==
  ASSUME VerbInv, VerbInv', StateOK, SupInstall
  PROVE  StateOK'
<1>1. /\ sup \in SupT /\ sup # None /\ sup' = None
      /\ UNCHANGED <<chats, up, label, run, rebuilds>>
  BY DEF SupInstall, StateOK, SupOK
<1>2. PICK i \in Ids : i = sup.id
  BY <1>1 DEF SupT
<1>3. historyEpoch' \in {historyEpoch, historyEpoch + 1} /\ historyEpoch \in Nat
  BY DEF SupInstall, StateOK, EpochOK
<1>4. ChatsKept /\ label' \in [Ids -> Profiles \cup {None}]
  BY <1>1, ChatsSame DEF VerbInv, Typed
<1>5. CASE live[i] = None
  <2>1. live' = live
    BY <1>2, <1>5 DEF SupInstall
  <2>2. \A j \in Ids : live[j] # None => live[j].epoch \in 1..historyEpoch'
    <3>1. \A e \in 1..historyEpoch : e \in 1..historyEpoch'
      BY <1>3
    <3> QED BY <3>1 DEF StateOK, LiveOK
  <2>3. LiveOK'
    BY <1>1, <2>1, <2>2 DEF StateOK, LiveOK, Existing
  <2> QED BY <1>1, <1>3, <2>3 DEF StateOK, RunOK, SupOK, EpochOK
<1>6. CASE live[i] # None
  <2>1. PICK m \in LiveT : m = live[i]
    BY <1>6 DEF StateOK, LiveOK
  <2>2. i \in Existing /\ m.epoch \in 1..historyEpoch
    BY <1>6, <2>1 DEF StateOK, LiveOK
  <2>3. CASE live' = [live EXCEPT ![i].sid = conn] /\ historyEpoch' = historyEpoch
    <3>1. live' = [live EXCEPT ![i] = [m EXCEPT !.sid = conn]]
      BY <2>1, <2>3 DEF StateOK, LiveOK
    <3>2. [m EXCEPT !.sid = conn] \in LiveT /\ [m EXCEPT !.sid = conn].epoch = m.epoch
      BY DEF LiveT, VerbInv, Typed
    <3>3. LiveOK'
      BY <1>1, <1>3, <1>4, <2>2, <2>3, <3>1, <3>2, LiveMoves DEF VerbInv, StateOK
    <3> QED BY <1>1, <1>3, <3>3 DEF StateOK, RunOK, SupOK, EpochOK
  <2>4. CASE /\ live' = [live EXCEPT ![i] = [sid |-> conn, epoch |-> historyEpoch + 1,
                                             rows |-> sup.msgs]]
             /\ historyEpoch' = historyEpoch + 1
    <3>1. PICK l : l = [sid |-> conn, epoch |-> historyEpoch + 1, rows |-> sup.msgs]
      OBVIOUS
    <3>2. l \in LiveT /\ l.epoch \in 1..historyEpoch'
      BY <1>1, <1>3, <2>4, <3>1 DEF LiveT, SupT, VerbInv, Typed
    <3>3. LiveOK'
      BY <1>1, <1>3, <1>4, <2>2, <2>4, <3>1, <3>2, LiveMoves DEF VerbInv, StateOK
    <3> QED BY <1>1, <1>3, <3>3 DEF StateOK, RunOK, SupOK, EpochOK
  <2> QED BY <1>2, <1>6, <2>3, <2>4 DEF SupInstall
<1> QED BY <1>5, <1>6

LEMMA StateSupResume ==
  ASSUME VerbInv, VerbInv', StateOK, NEW i \in Ids, SupResume(i)
  PROVE  StateOK'
<1>1. /\ live[i] # None /\ rebuilds < MaxRebuilds /\ rebuilds' = rebuilds + 1
      /\ sup' = [id |-> i, msgs |-> chats[i].msgs]
      /\ UNCHANGED <<chats, up, live, label, historyEpoch, run>>
  BY DEF SupResume, coreVars
<1>2. sup' \in SupT
  BY <1>1, Stored DEF StateOK, LiveOK, VerbInv, SupT
<1>3. EpochOK'
  BY <1>1, Bounds DEF StateOK, EpochOK
<1>4. LiveOK'
  BY <1>1, LiveStays, ChatsSame DEF StateOK, VerbInv
<1> QED BY <1>1, <1>2, <1>3, <1>4 DEF StateOK, RunOK, SupOK

LEMMA StateClose ==
  ASSUME VerbInv, VerbInv', StateOK, NEW i \in Ids, CloseTab(i)
  PROVE  StateOK'
<1>1. /\ live' = [live EXCEPT ![i] = None] /\ label' = [label EXCEPT ![i] = None]
      /\ UNCHANGED <<chats, up, historyEpoch, run, sup, rebuilds>>
  BY DEF CloseTab
<1>2. LiveOK'
  <2>1. live' \in [Ids -> LiveT \cup {None}] /\ label'[i] = None /\ live'[i] = None
    BY <1>1 DEF StateOK, LiveOK, VerbInv, Typed
  <2>2. \A j \in Ids \ {i} : live'[j] = live[j] /\ label'[j] = label[j]
    BY <1>1 DEF StateOK, LiveOK, VerbInv, Typed
  <2> QED BY <1>1, <2>1, <2>2 DEF StateOK, LiveOK, Existing
<1> QED BY <1>1, <1>2 DEF StateOK, RunOK, SupOK, EpochOK

LEMMA RunIdle == RunNew \in RunT /\ RunNew.pc = "new" /\ RunNew.hop = 0
<1>1. 1 \in Ids /\ 1 \in Conns /\ 0 \in 0..MAX_ALIAS_HOPS
  BY VerbsAssumption, Bounds DEF Ids, Conns
<1> QED BY <1>1 DEF RunT, RunNew

Results == {"output", "empty", "prefill", "submitted", "loop", "error"}

LEMMA RunEnds ==
  ASSUME RunOK, NEW r \in Runs, NEW result \in Results, End(r, result)
  PROVE  RunOK'
<1>1. [RunNew EXCEPT !.pc = "done", !.result = result] \in RunT
  BY RunIdle DEF RunT, Results
<1> QED BY <1>1 DEF End, RunOK

LEMMA RunGoes ==
  ASSUME RunOK, NEW r \in Runs, NEW pc \in {"dispatch", "epoch", "append"}, Goto(r, pc)
  PROVE  RunOK'
<1>1. PICK q \in RunT : q = run[r]
  BY DEF RunOK
<1>2. run' = [run EXCEPT ![r] = [q EXCEPT !.pc = pc]]
  BY <1>1 DEF Goto, RunOK
<1>3. [q EXCEPT !.pc = pc] \in RunT
  BY DEF RunT
<1> QED BY <1>2, <1>3 DEF RunOK

LEMMA RunFollows ==
  ASSUME RunOK, NEW r \in Runs, Follow(r)
  PROVE  RunOK'
<1>1. PICK q \in RunT : q = run[r]
  BY DEF RunOK
<1>2. CASE q.hop >= MAX_ALIAS_HOPS
  BY <1>1, <1>2, RunEnds DEF Follow, Results
<1>3. CASE ~(q.hop >= MAX_ALIAS_HOPS)
  <2>1. run' = [run EXCEPT ![r] = [q EXCEPT !.pc = "enter", !.hop = q.hop + 1]]
    BY <1>1, <1>3 DEF Follow, RunOK
  <2>2. q.hop + 1 \in 0..MAX_ALIAS_HOPS
    BY <1>3, Bounds DEF RunT
  <2>3. [q EXCEPT !.pc = "enter", !.hop = q.hop + 1] \in RunT
    BY <2>2 DEF RunT
  <2> QED BY <2>1, <2>3 DEF RunOK
<1> QED BY <1>2, <1>3

\* Each rung takes what it needs from the tab, or ends.
LEMMA RunLadder ==
  ASSUME VerbInv, StateOK, NEW r \in Runs, Ladder(r)
  PROVE  RunOK'
<1>1. PICK q \in RunT : q = run[r]
  BY DEF StateOK, RunOK
<1>2. q.id \in Ids /\ RunOK
  BY DEF RunT, StateOK
<1>3. PICK l \in LiveT \cup {None} : l = live[q.id]
  BY <1>2 DEF StateOK, LiveOK
<1>4. l # None => l.sid \in Conns /\ l.epoch \in Nat
  BY DEF LiveT
<1>5. CASE Enter(r)
  <2>1. CASE l = None
    BY <1>1, <1>2, <1>3, <1>5, <2>1, RunEnds DEF Enter, Results
  <2>2. CASE l # None
    <3>1. run' = [run EXCEPT ![r] = [q EXCEPT !.pc = "exec", !.conn = conn, !.sid = l.sid]]
      BY <1>1, <1>3, <1>5, <2>2 DEF Enter, StateOK, RunOK
    <3>2. [q EXCEPT !.pc = "exec", !.conn = conn, !.sid = l.sid] \in RunT
      BY <1>4, <2>2 DEF RunT, VerbInv, Typed
    <3> QED BY <1>2, <3>1, <3>2 DEF RunOK
  <2> QED BY <2>1, <2>2
<1>6. CASE SlashExec(r)
  <2>1. PICK reply : LET plan == PlanAfterSlashExec(reply)
                     IN IF plan = "dispatch" THEN Goto(r, "dispatch") ELSE End(r, plan)
    BY <1>6 DEF SlashExec
  <2>2. PICK plan : plan = PlanAfterSlashExec(reply)
    OBVIOUS
  <2>3. plan \in {"output", "empty", "dispatch", "error"}
    BY <2>2 DEF PlanAfterSlashExec
  <2>4. (plan = "dispatch" /\ Goto(r, "dispatch")) \/ (plan # "dispatch" /\ End(r, plan))
    BY <2>1, <2>2
  <2>5. plan # "dispatch" => plan \in Results
    BY <2>3 DEF Results
  <2> QED BY <1>2, <2>4, <2>5, RunEnds, RunGoes
<1>7. CASE CommandDispatch(r)
  <2>1. PICK reply \in Replies(r, DispatchTypes) :
          LET plan == PlanFromDispatch(DispatchOutcome(reply))
          IN CASE reply = "error" -> End(r, "error")
               [] plan = "alias"  -> Follow(r)
               [] plan = "submit" -> Goto(r, "epoch")
               [] OTHER           -> End(r, plan)
    BY <1>7 DEF CommandDispatch
  <2>2. PICK plan : plan = PlanFromDispatch(DispatchOutcome(reply))
    OBVIOUS
  <2>3. reply # "error" => plan \in {"output", "prefill", "submit", "alias"}
    <3>1. reply # "error" => DispatchOutcome(reply) \in {"Output", "Alias", "Skill", "Send", "Prefill", "Unknown"}
      BY DEF DispatchOutcome
    <3> QED BY <2>2, <3>1 DEF PlanFromDispatch
  <2>4. \/ reply = "error" /\ End(r, "error")
        \/ Follow(r)
        \/ Goto(r, "epoch")
        \/ reply # "error" /\ plan # "alias" /\ plan # "submit" /\ End(r, plan)
    <3>1. CASE reply = "error"
      <4>1. plan \notin {"alias", "submit"}
        BY <2>2, <3>1 DEF PlanFromDispatch, DispatchOutcome
      <4> QED BY <2>1, <2>2, <3>1, <4>1
    <3>2. CASE reply # "error" /\ plan = "alias"
      BY <2>1, <2>2, <3>2
    <3>3. CASE reply # "error" /\ plan = "submit"
      BY <2>1, <2>2, <3>3
    <3>4. CASE reply # "error" /\ plan # "alias" /\ plan # "submit"
      BY <2>1, <2>2, <3>4
    <3> QED BY <3>1, <3>2, <3>3, <3>4
  <2>5. plan \in {"output", "prefill"} => plan \in Results
    BY DEF Results
  <2>6. "error" \in Results
    BY DEF Results
  <2> QED BY <1>2, <2>3, <2>4, <2>5, <2>6, RunEnds, RunGoes, RunFollows
<1>8. CASE Snapshot(r)
  <2>1. CASE l = None
    BY <1>1, <1>2, <1>3, <1>8, <2>1, RunEnds DEF Snapshot, Results
  <2>2. CASE l # None
    <3>1. run' = [run EXCEPT ![r] = [q EXCEPT !.pc = "submit", !.epoch = l.epoch]]
      BY <1>1, <1>3, <1>8, <2>2 DEF Snapshot, StateOK, RunOK
    <3>2. [q EXCEPT !.pc = "submit", !.epoch = l.epoch] \in RunT
      BY <1>4, <2>2 DEF RunT
    <3> QED BY <1>2, <3>1, <3>2 DEF RunOK
  <2> QED BY <2>1, <2>2
<1>9. CASE Submit(r)
  <2>1. End(r, "error") \/ Goto(r, "append")
    BY <1>9 DEF Submit
  <2> QED BY <1>2, <2>1, RunEnds, RunGoes DEF Results
<1>10. CASE AppendRow(r)
  BY <1>2, <1>10, RunEnds DEF AppendRow, Results
<1> QED BY <1>5, <1>6, <1>7, <1>8, <1>9, <1>10 DEF Ladder

LEMMA StateLadder ==
  ASSUME VerbInv, VerbInv', StateOK, NEW r \in Runs, Ladder(r)
  PROVE  StateOK'
<1>1. UNCHANGED <<up, label, historyEpoch, sup, rebuilds>>
  BY DEF Ladder, Enter, SlashExec, CommandDispatch, Snapshot, Submit, AppendRow, RunVars
<1>2. chats' = chats \/ chats' = [chats EXCEPT ![run[r].id].msgs = Append(@, r)]
  BY DEF Ladder, Enter, SlashExec, CommandDispatch, Snapshot, Submit, AppendRow, RunVars
<1>3. PICK i \in Ids : i = run[r].id
  BY DEF StateOK, RunOK, RunT
<1>4. Existing' = Existing
  BY <1>2, <1>3, ChatSaid DEF VerbInv, Existing
<1>5. live' = live \/ \E l \in LiveT : /\ live[i] # None /\ live' = [live EXCEPT ![i] = l]
                                    /\ l.epoch = live[i].epoch
  <2>1. CASE AppendRow(r) /\ live' # live
    <3>1. live[i] # None /\ live' = [live EXCEPT ![i].rows = Append(@, r)]
      BY <1>3, <2>1 DEF AppendRow
    <3>2. PICK m \in LiveT : m = live[i]
      BY <3>1 DEF StateOK, LiveOK
    <3>3. live' = [live EXCEPT ![i] = [m EXCEPT !.rows = Append(m.rows, r)]]
      BY <3>1, <3>2 DEF StateOK, LiveOK
    <3>4. /\ [m EXCEPT !.rows = Append(m.rows, r)] \in LiveT
          /\ [m EXCEPT !.rows = Append(m.rows, r)].epoch = m.epoch
      BY DEF LiveT
    <3> QED BY <3>1, <3>2, <3>3, <3>4
  <2>2. AppendRow(r) \/ live' = live
    BY DEF Ladder, Enter, SlashExec, CommandDispatch, Snapshot, Submit
  <2> QED BY <2>1, <2>2
<1>6. LiveOK'
  <2>1. CASE live' = live
    BY <1>1, <1>4, <2>1 DEF StateOK, LiveOK
  <2>2. ASSUME NEW l \in LiveT, live[i] # None, live' = [live EXCEPT ![i] = l],
               l.epoch = live[i].epoch
        PROVE  LiveOK'
    <3>1. i \in Existing /\ l.epoch \in 1..historyEpoch' /\ historyEpoch \in Nat
      BY <1>1, <2>2 DEF StateOK, LiveOK, EpochOK
    <3>2. ChatsKept
      BY <1>2, <1>3, ChatsSame, ChatSaid DEF VerbInv
    <3>3. label' \in [Ids -> Profiles \cup {None}]
      BY <1>1 DEF VerbInv, Typed
    <3> QED BY <1>1, <2>2, <3>1, <3>2, <3>3, LiveMoves DEF VerbInv, StateOK
  <2> QED BY <1>5, <2>1, <2>2
<1> QED BY <1>1, <1>6, RunLadder DEF StateOK, SupOK, EpochOK

LEMMA StateInit == Init => StateOK
<1> SUFFICES ASSUME Init PROVE StateOK
  OBVIOUS
<1>1. LiveOK /\ SupOK
  BY DEF Init, LiveOK, SupOK
<1>2. RunOK
  BY RunIdle DEF Init, RunOK
<1>3. EpochOK
  BY Bounds DEF Init, EpochOK
<1> QED BY <1>1, <1>2, <1>3 DEF StateOK

LEMMA StateStep == VerbInv /\ VerbInv' /\ StateOK /\ [Next]_vars => StateOK'
<1> SUFFICES ASSUME VerbInv, VerbInv', StateOK, [Next]_vars PROVE StateOK'
  OBVIOUS
<1>1. CASE Lose \/ Reconnect \/ UNCHANGED vars
  <2>1. /\ UNCHANGED <<chats, live, label, historyEpoch, run, sup, rebuilds>>
        /\ up' \in BOOLEAN
    BY <1>1 DEF Lose, Reconnect, vars, coreVars, StateOK, SupOK
  <2> QED BY <2>1, LiveStays, ChatsSame DEF VerbInv, StateOK, RunOK, SupOK, EpochOK
<1>2. ASSUME NEW i \in Ids, NEW r \in Runs, RunSlash(r, i) PROVE StateOK'
  <2>1. UNCHANGED <<chats, live, up, label, historyEpoch, sup, rebuilds>>
    BY <1>2 DEF RunSlash, RunVars
  <2>2. PICK q \in RunT : q = run[r]
    BY DEF StateOK, RunOK
  <2>3. run' = [run EXCEPT ![r] = [q EXCEPT !.pc = "enter", !.id = i]]
    BY <1>2, <2>2 DEF RunSlash, StateOK, RunOK
  <2>4. [q EXCEPT !.pc = "enter", !.id = i] \in RunT
    BY DEF RunT
  <2>5. RunOK'
    BY <2>3, <2>4 DEF StateOK, RunOK
  <2> QED BY <2>1, <2>5, LiveStays, ChatsSame DEF VerbInv, StateOK, SupOK, EpochOK
<1> QED BY <1>1, <1>2, StateSupInstall, StateSupResume, StateClose, StateOpens, StateOpen,
           StateInstall, StateLadder DEF Next, Open

-----------------------------------------------------------------------------
(* Theorems                                                                 *)

\* However opens, closes, rebuilds, lost replies and reconnections interleave, what
\* open_session and open_bot_chat write into a record is the session's owner.
THEOREM LabelsRight == Spec => []LabelIsOwner
<1>1. VerbInv => LabelIsOwner
  BY DEF VerbInv, LabelKnown, LabelIsOwner
<1> QED BY <1>1, VerbInit, VerbStep, PTL DEF Spec

\* open_bot_chat makes a second chat of a bot only when a list could not show the first:
\* a create of it was on the way, by a call still waiting or by one that gave up, or its
\* row came without an id; whatever replies are lost, whatever is handled late, and
\* whichever connections the list and the create go over.
THEOREM TwinsNeedABlindList == Spec => []TwinsTakeABlindList
<1>1. VerbInv => TwinsTakeABlindList
  <2> SUFFICES ASSUME VerbInv, NEW p \in Profiles, p \notin twinned
               PROVE  ~(Cardinality(BotChats(p)) > 1)
    BY DEF TwinsTakeABlindList
  <2>1. BotChats(p) = {} \/ \E i : BotChats(p) = {i}
    <3>1. PICK S : S = BotChats(p)
      OBVIOUS
    <3>2. \A i, j \in S : i = j
      BY <3>1 DEF VerbInv, TwinInv, Single
    <3>3. S = {} \/ \E i : S = {i}
      BY <3>2
    <3> QED BY <3>1, <3>3
  <2>2. Cardinality(BotChats(p)) \in {0, 1}
    BY <2>1, FS_EmptySet, FS_Singleton
  <2> QED BY <2>2
<1> QED BY <1>1, VerbInit, VerbStep, PTL DEF Spec

\* Everything a verb keeps over its RPCs has its type; a closed tab has no label, and an
\* open one an epoch that was handed out.
THEOREM VerbsTyped == Spec => []TypeOK
<1>1. VerbInv /\ StateOK => TypeOK
  BY DEF VerbInv, Typed, StateOK, LiveOK, RunOK, SupOK, EpochOK, TypeOK, Chat, OpenT, LiveT, RunT,
         SupT
<1> QED BY <1>1, VerbInit, VerbStep, StateInit, StateStep, PTL DEF Spec

=============================================================================
