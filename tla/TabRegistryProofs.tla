-------------------------- MODULE TabRegistryProofs --------------------------
(***************************************************************************)
(* What TabRegistry guarantees for every set of keys, any number of        *)
(* concurrent verbs and any number of failing writes.                      *)
(***************************************************************************)
EXTENDS TabRegistry, FiniteSetTheorems, WellFoundedInduction, TLAPS

-----------------------------------------------------------------------------
(* Positions                                                                *)

\* A set of numbers has a least one.
LEMMA HasLeast ==
  ASSUME NEW T, T \subseteq Nat, T # {}
  PROVE  \E x \in T : \A y \in T : x <= y
<1>1. IsWellFoundedOn(OpToRel(<, Nat), Nat)
  BY NatLessThanWellFounded
<1>2. PICK x \in T : \A y \in T : ~(<<y, x>> \in OpToRel(<, Nat))
  BY <1>1, WFMin, Zenon
<1>3. \A x1, y1 \in Nat : y1 < x1 => <<y1, x1>> \in OpToRel(<, Nat)
  BY DEF OpToRel
<1>4. \A y \in T : ~(y < x)
  BY <1>2, <1>3
<1> QED BY <1>4

\* Of n positions, one is the k-th, for every k up to their number.
LEMMA NthPosition ==
  ASSUME NEW n \in Nat, NEW I, I \subseteq 1 .. n, NEW k \in 1 .. Cardinality(I)
  PROVE  Nth(I, k) \in I /\ Upto(I, Nth(I, k)) = k
<1> DEFINE Below(m) == {j \in I : j <= m}
<1>1. IsFiniteSet(I) /\ Cardinality(I) \in Nat
  <2>1. IsFiniteSet(1 .. n)  BY FS_Interval
  <2> QED BY <2>1, FS_Subset, FS_CardinalityType
<1>2. ASSUME NEW m \in Nat PROVE IsFiniteSet(Below(m)) /\ Cardinality(Below(m)) \in Nat
  BY <1>1, FS_Subset, FS_CardinalityType
<1> DEFINE T == {m \in Nat : k <= Cardinality(Below(m))}
<1>3. Below(n) = I /\ Below(0) = {} /\ \A j \in I : j \in Nat
  <2>1. \A j \in I : j \in Nat /\ j <= n /\ ~(j <= 0)
    OBVIOUS
  <2> QED BY <2>1
<1>4. n \in T
  BY <1>3
<1>5. PICK m \in T : \A y \in T : m <= y
  <2>1. T \subseteq Nat /\ T # {}  BY <1>4
  <2> HIDE DEF T
  <2> QED BY <2>1, HasLeast
<1>6. m # 0
  <2>1. Cardinality(Below(0)) = 0  BY <1>3, FS_EmptySet
  <2> QED BY <2>1
<1>7. PICK p \in Nat : m = p + 1
  <2>1. m - 1 \in Nat /\ m = (m - 1) + 1  BY <1>6
  <2> QED BY <2>1
<1>8. Cardinality(Below(p)) < k
  <2>1. p \notin T  BY <1>5, <1>7
  <2> QED BY <1>2, <2>1
<1>9. m \in I /\ m \notin Below(p) /\ Below(m) = Below(p) \cup {m}
  <2>1. CASE m \notin I
    <3>1. \A j \in I : j <= m <=> j <= p  BY <1>3, <1>7, <2>1
    <3>2. Below(m) = Below(p)  BY <3>1
    <3> QED BY <1>5, <1>2, <1>8, <3>2
  <2>2. CASE m \in I
    <3>1. \A j \in I : j <= m <=> j <= p \/ j = m  BY <1>3, <1>7
    <3>2. ~(m <= p)  BY <1>7
    <3> QED BY <2>2, <3>1, <3>2
  <2> QED BY <2>1, <2>2
<1>10. Cardinality(Below(m)) = Cardinality(Below(p)) + 1
  BY <1>2, <1>9, FS_AddElement
<1>11. Cardinality(Below(m)) = k
  BY <1>2, <1>5, <1>8, <1>10
<1>12. m \in I /\ Upto(I, m) = k
  BY <1>9, <1>11 DEF Upto
<1> QED BY <1>12 DEF Nth

\* What a filter leaves: members of the list, each position once.
LEMMA PickedPlaces ==
  ASSUME NEW S, NEW s \in Seq(S), NEW I, I \subseteq DOMAIN s
  PROVE  /\ Picked(s, I) \in Seq(S) /\ DOMAIN Picked(s, I) = 1 .. Cardinality(I)
         /\ \A k \in 1 .. Cardinality(I) : Nth(I, k) \in I /\ Picked(s, I)[k] = s[Nth(I, k)]
         /\ \A k, l \in 1 .. Cardinality(I) : Nth(I, k) = Nth(I, l) => k = l
<1>1. Len(s) \in Nat /\ I \subseteq 1 .. Len(s)
  OBVIOUS
<1>2. \A k \in 1 .. Cardinality(I) : Nth(I, k) \in I /\ Upto(I, Nth(I, k)) = k
  BY <1>1, NthPosition
<1>3. Cardinality(I) \in Nat
  <2>1. IsFiniteSet(1 .. Len(s))  BY <1>1, FS_Interval
  <2>2. IsFiniteSet(I)  BY <1>1, <2>1, FS_Subset
  <2> QED BY <2>2, FS_CardinalityType
<1>4. \A k \in 1 .. Cardinality(I) : s[Nth(I, k)] \in S
  BY <1>1, <1>2
<1> QED BY <1>2, <1>3, <1>4 DEF Picked

-----------------------------------------------------------------------------
(* Lists of tabs                                                            *)

\* One record per key.
Single(r) == IsInjective(ListOf(r))

\* The same tabs in the same order, and the same one active.
SameTabs(q, r) == ListOf(q) = ListOf(r) /\ q.active = r.active

LEMMA ListFacts ==
  ASSUME NEW r \in Lists
  PROVE  /\ r.tabs \in Seq(Records) /\ Len(r.tabs) \in Nat /\ DOMAIN r.tabs = 1 .. Len(r.tabs)
         /\ r.active \in Keys \cup {NoKey}
         /\ \A i \in DOMAIN r.tabs : r.tabs[i] \in Records
         /\ DOMAIN ListOf(r) = DOMAIN r.tabs
         /\ \A i \in DOMAIN r.tabs : ListOf(r)[i] = r.tabs[i].key
         /\ Listed(r) \subseteq Keys
         /\ \A k : k \in Listed(r) <=> \E i \in DOMAIN r.tabs : r.tabs[i].key = k
<1>1. r.tabs \in Seq(Records) /\ r.active \in Keys \cup {NoKey}
  BY DEF Lists
<1>2. PICK s \in Seq(Records) : s = r.tabs  BY <1>1
<1>3. Len(s) \in Nat /\ DOMAIN s = 1 .. Len(s) /\ \A i \in DOMAIN s : s[i] \in Records
  OBVIOUS
<1>4. \A i \in DOMAIN s : s[i].key \in Keys  BY <1>3 DEF Records
<1> QED BY <1>1, <1>2, <1>3, <1>4 DEF ListOf, Listed, Range

LEMMA EmptyList == Empty \in Lists /\ Single(Empty)
<1>1. <<>> \in Seq(Records)  OBVIOUS
<1>2. Empty \in Lists  BY <1>1 DEF Empty, Lists
<1>3. Empty.tabs = <<>>  BY DEF Empty
<1>4. DOMAIN ListOf(Empty) = {}  BY <1>3 DEF ListOf
<1> QED BY <1>2, <1>4 DEF Single, IsInjective

\* Records that change, but for their keys.
LEMMA KeysStay ==
  ASSUME NEW r \in Lists, NEW f, f = [i \in DOMAIN r.tabs |-> f[i]],
         \A i \in DOMAIN r.tabs : f[i] \in Records /\ f[i].key = r.tabs[i].key,
         NEW q, q = [r EXCEPT !.tabs = f]
  PROVE  q \in Lists /\ SameTabs(q, r) /\ (Single(r) => Single(q))
<1>1. f \in Seq(Records) /\ DOMAIN f = DOMAIN r.tabs
  <2>1. PICK n \in Nat : DOMAIN r.tabs = 1 .. n  BY ListFacts
  <2>2. f \in [1 .. n -> Records]  BY <2>1
  <2> QED BY <2>1, <2>2
<1>2. q \in Lists /\ q.tabs = f /\ q.active = r.active
  BY <1>1 DEF Lists
<1>3. ListOf(q) = ListOf(r)
  BY <1>1, <1>2 DEF ListOf
<1> QED BY <1>2, <1>3 DEF SameTabs, Single

LEMMA TouchKeeps ==
  ASSUME NEW r \in Lists, NEW k, NEW n \in 1 .. MaxSeq
  PROVE  Touch(r, k, n) \in Lists /\ SameTabs(Touch(r, k, n), r)
         /\ (Single(r) => Single(Touch(r, k, n)))
<1>1. PICK f : f = [i \in DOMAIN r.tabs |->
                      IF r.tabs[i].key = k /\ n > r.tabs[i].seq
                      THEN [r.tabs[i] EXCEPT !.seq = n] ELSE r.tabs[i]]
  OBVIOUS
<1>2. ASSUME NEW x \in Records PROVE [x EXCEPT !.seq = n] \in Records /\ [x EXCEPT !.seq = n].key = x.key
  <2>1. n \in 0 .. MaxSeq  BY TabRegistryAssumption
  <2> QED BY <2>1 DEF Records
<1>3. \A i \in DOMAIN r.tabs : f[i] \in Records /\ f[i].key = r.tabs[i].key
  BY <1>1, <1>2, ListFacts
<1>4. Touch(r, k, n) = [r EXCEPT !.tabs = f] /\ f = [i \in DOMAIN r.tabs |-> f[i]]
  BY <1>1 DEF Touch, Lists
<1> QED BY <1>3, <1>4, KeysStay

LEMMA RenameKeeps ==
  ASSUME NEW r \in Lists, NEW k, NEW title \in BOOLEAN
  PROVE  Rename(r, k, title) \in Lists /\ SameTabs(Rename(r, k, title), r)
         /\ (Single(r) => Single(Rename(r, k, title)))
<1>1. PICK f : f = [i \in DOMAIN r.tabs |->
                      IF r.tabs[i].key = k THEN [r.tabs[i] EXCEPT !.title = title] ELSE r.tabs[i]]
  OBVIOUS
<1>2. ASSUME NEW x \in Records
      PROVE  [x EXCEPT !.title = title] \in Records /\ [x EXCEPT !.title = title].key = x.key
  BY DEF Records
<1>3. \A i \in DOMAIN r.tabs : f[i] \in Records /\ f[i].key = r.tabs[i].key
  BY <1>1, <1>2, ListFacts
<1>4. Rename(r, k, title) = [r EXCEPT !.tabs = f] /\ f = [i \in DOMAIN r.tabs |-> f[i]]
  BY <1>1 DEF Rename, Lists
<1> QED BY <1>3, <1>4, KeysStay

\* upsert: a known tab keeps its place, a new one comes last.
LEMMA UpsertKeeps ==
  ASSUME NEW r \in Lists, NEW rec \in Records
  PROVE  /\ Upsert(r, rec) \in Lists
         /\ Single(r) => Single(Upsert(r, rec))
         /\ rec.key \in Listed(r) => SameTabs(Upsert(r, rec), r)
<1>1. CASE rec.key \in Listed(r)
  <2>1. PICK f : f = [i \in DOMAIN r.tabs |-> IF r.tabs[i].key = rec.key THEN rec ELSE r.tabs[i]]
    OBVIOUS
  <2>2. \A i \in DOMAIN r.tabs : f[i] \in Records /\ f[i].key = r.tabs[i].key
    BY <2>1, ListFacts
  <2>3. Upsert(r, rec) = [r EXCEPT !.tabs = f] /\ f = [i \in DOMAIN r.tabs |-> f[i]]
    BY <1>1, <2>1 DEF Upsert, Lists
  <2> QED BY <2>2, <2>3, KeysStay
<1>2. CASE rec.key \notin Listed(r)
  <2>1. PICK s, n, q : s = r.tabs /\ n = Len(s) /\ q = Upsert(r, rec)  OBVIOUS
  <2>2. q \in Lists /\ q.tabs = Append(s, rec)
    <3>1. s \in Seq(Records) /\ Append(s, rec) \in Seq(Records)  BY <2>1, ListFacts
    <3>2. q = [r EXCEPT !.tabs = Append(s, rec)]  BY <1>2, <2>1 DEF Upsert, Lists
    <3> QED BY <3>1, <3>2 DEF Lists
  <2>3. /\ DOMAIN q.tabs = 1 .. n + 1 /\ DOMAIN s = 1 .. n /\ n \in Nat
        /\ \A i \in 1 .. n : q.tabs[i] = s[i]
        /\ q.tabs[n + 1] = rec
    <3>1. s \in Seq(Records)  BY <2>1, ListFacts
    <3> QED BY <2>1, <2>2, <3>1
  <2>4. \A i \in 1 .. n : s[i].key # rec.key
    BY <1>2, <2>1, <2>3, ListFacts
  <2>5. ASSUME Single(r), NEW a \in 1 .. n + 1, NEW b \in 1 .. n + 1, q.tabs[a].key = q.tabs[b].key
        PROVE  a = b
    <3>1. \A i, j \in 1 .. n : s[i].key = s[j].key => i = j
      BY <2>1, <2>3, <2>5, ListFacts DEF Single, IsInjective
    <3>2. CASE a \in 1 .. n /\ b \in 1 .. n  BY <2>3, <2>5, <3>1, <3>2
    <3>3. CASE a = n + 1 \/ b = n + 1  BY <2>3, <2>4, <2>5, <3>3
    <3> QED BY <2>3, <3>2, <3>3
  <2>6. Single(r) => Single(q)
    BY <2>2, <2>3, <2>5, ListFacts DEF Single, IsInjective
  <2> QED BY <1>2, <2>1, <2>2, <2>6
<1> QED BY <1>1, <1>2

LEMMA ActiveKeeps ==
  ASSUME NEW r \in Lists, NEW k \in Keys
  PROVE  SetActive(r, k) \in Lists /\ (Single(r) => Single(SetActive(r, k)))
<1>1. SetActive(r, k) \in Lists /\ SetActive(r, k).tabs = r.tabs
  BY DEF SetActive, Lists
<1> QED BY <1>1 DEF Single, ListOf

\* What is left of a list by a filter is one.
LEMMA PickedKeeps ==
  ASSUME NEW r \in Lists, NEW I, I \subseteq DOMAIN r.tabs, NEW x \in Keys \cup {NoKey},
         NEW q, q = [tabs |-> Picked(r.tabs, I), active |-> x]
  PROVE  q \in Lists /\ (Single(r) => Single(q))
<1>1. PICK s \in Seq(Records) : s = r.tabs  BY ListFacts
<1>2. PICK m : m = Cardinality(I)  OBVIOUS
<1>3. /\ q.tabs \in Seq(Records) /\ DOMAIN q.tabs = 1 .. m
      /\ \A k \in 1 .. m : Nth(I, k) \in I /\ q.tabs[k] = s[Nth(I, k)]
      /\ \A k, l \in 1 .. m : Nth(I, k) = Nth(I, l) => k = l
  BY <1>1, <1>2, PickedPlaces
<1>4. q \in Lists  BY <1>3 DEF Lists
<1>5. ASSUME Single(r) PROVE Single(q)
  <2>1. \A i, j \in I : s[i].key = s[j].key => i = j
    BY <1>1, <1>5, ListFacts DEF Single, IsInjective
  <2>2. ASSUME NEW k \in 1 .. m, NEW l \in 1 .. m, q.tabs[k].key = q.tabs[l].key PROVE k = l
    BY <1>3, <2>1, <2>2
  <2>3. DOMAIN ListOf(q) = 1 .. m /\ \A k \in 1 .. m : ListOf(q)[k] = q.tabs[k].key
    BY <1>3, <1>4, ListFacts
  <2> QED BY <2>2, <2>3 DEF Single, IsInjective
<1> QED BY <1>4, <1>5

LEMMA CloseKeeps ==
  ASSUME NEW r \in Lists, NEW k
  PROVE  CloseTab(r, k) \in Lists /\ (Single(r) => Single(CloseTab(r, k)))
<1>1. (IF r.active = k THEN NoKey ELSE r.active) \in Keys \cup {NoKey}  BY ListFacts
<1>2. PICK I : I = {i \in DOMAIN r.tabs : r.tabs[i].key # k}  OBVIOUS
<1>3. PICK q : q = CloseTab(r, k)  OBVIOUS
<1>4. I \subseteq DOMAIN r.tabs
      /\ q = [tabs |-> Picked(r.tabs, I), active |-> IF r.active = k THEN NoKey ELSE r.active]
  BY <1>2, <1>3 DEF CloseTab
<1>5. q \in Lists /\ (Single(r) => Single(q))
  BY <1>1, <1>4, PickedKeeps
<1> QED BY <1>3, <1>5

LEMMA LoadKeeps ==
  ASSUME NEW d \in Lists \cup {NoFile}, d # NoFile => Single(d)
  PROVE  Load(d) \in Lists /\ Single(Load(d))
<1>1. CASE d \in {NoFile, Torn}  BY <1>1, EmptyList DEF Load
<1>2. CASE d \notin {NoFile, Torn}
  <2>1. (IF d.active \in Unnamed THEN NoKey ELSE d.active) \in Keys \cup {NoKey}
    BY <1>2, ListFacts
  <2>2. {i \in DOMAIN d.tabs : d.tabs[i].key \notin Unnamed} \subseteq DOMAIN d.tabs  OBVIOUS
  <2>3. Parsed(d) \in Lists /\ Single(Parsed(d))
    BY <1>2, <2>1, <2>2, PickedKeeps DEF Parsed
  <2> QED BY <1>2, <2>3 DEF Load
<1> QED BY <1>1, <1>2

\* The record of a listed key.
LEMMA RecordFound ==
  ASSUME NEW r \in Lists, NEW k \in Listed(r)
  PROVE  RecordOf(r, k) \in Records /\ RecordOf(r, k).key = k
<1>1. \E i \in DOMAIN r.tabs : r.tabs[i].key = k  BY ListFacts
<1> QED BY <1>1, ListFacts DEF RecordOf

-----------------------------------------------------------------------------
(* Program points                                                           *)

PcOK == pc \in [Tasks -> PCs]

\* Every verb moves between its own program points.
LEMMA VerbMoves ==
  ASSUME PcOK, NEW t \in Tasks, Verb(t)
  PROVE  PcOK' /\ \A u \in Tasks \ {t} : pc'[u] = pc[u]
  BY DEF PcOK, PCs, Verb, RenameDeliver, RenameRaise, DisconnectSwap,
     DisconnectSave, PairStart, PairWrite, PairFill,
     PairInstall, ForgetStart, ForgetEndpoint, ForgetTabs, ForgetClear, Begin, End, Step

LEMMA PcStep == PcOK /\ [Next]_vars => PcOK'
  <1> SUFFICES ASSUME PcOK, [Next]_vars PROVE PcOK'
    OBVIOUS
  <1>1. ASSUME NEW t \in Tasks, Verb(t) PROVE PcOK'
    BY <1>1, VerbMoves
  <1>2. ASSUME Restart PROVE PcOK'
    BY <1>2 DEF Restart, PcOK, PCs
  <1>3. ASSUME pc' = pc PROVE PcOK'
    BY <1>3 DEF PcOK
  <1>4. (\A t \in Tasks : ~Verb(t)) /\ ~Restart => pc' = pc
    BY DEF Next, vars, memVars, Open, Close, SupEvent, SupResume, Clear, Supervise, SupRaise,
       FlushSwap, FlushSave, SupEnter, SupMove, SupStart
  <1> QED BY <1>1, <1>2, <1>3, <1>4

LEMMA PcAlways == Spec => []PcOK
  <1>1. Init => PcOK
    BY DEF Init, PcOK, PCs
  <1> QED BY <1>1, PcStep, PTL DEF Spec

-----------------------------------------------------------------------------
(* Types.  A list read back has one record per key only if the one written  *)
(* had, and what pair() installs was a payload it had checked.              *)

ListsOK ==
  /\ registry \in Lists /\ Single(registry)
  /\ disk \in Lists \cup {NoFile} /\ (disk # NoFile => Single(disk))

VerbsOK ==
  /\ pc \in [Tasks -> PCs] /\ arg \in [Tasks -> Keys \cup Valid \cup {NoKey}]
  /\ \A t \in Tasks : pc[t] \in {"writing", "filling", "pairing"} => arg[t] \in Valid
  /\ endpoint \in Valid \cup {NoFile} /\ epFile \in Valid \cup {NoFile, Torn}

RestOK ==
  /\ live \subseteq Keys /\ sup \in SPCs /\ fails \in 0 .. MaxFails
  /\ {dirty, unsaved, quiet, wiped, forgot} \subseteq BOOLEAN

Typed == ListsOK /\ VerbsOK /\ RestOK

LEMMA SaveKeeps ==
  ASSUME ListsOK, NEW r, r \in Lists, Single(r), registry' = r, Save(r)
  PROVE  ListsOK' /\ (unsaved' \/ disk' = registry')
<1>1. CASE Saved(r)
  BY <1>1 DEF Saved, ListsOK, Single, ListOf
<1>2. CASE SaveFails
  BY <1>2 DEF SaveFails, ListsOK, Single, ListOf
<1> QED BY <1>1, <1>2 DEF Save

\* Another list of the same or other tabs, and no file touched.
LEMMA ListKeeps ==
  ASSUME ListsOK, NEW r, r \in Lists, Single(r), registry' = r, disk' \in {disk, NoFile, registry}
  PROVE  ListsOK'
BY DEF ListsOK, Single, ListOf

LEMMA OpenList ==
  ASSUME ListsOK, NEW k \in Keys, Open(k)
  PROVE  registry' \in Lists /\ (Single(registry))' /\ Save(registry')
<1>1. PICK title \in BOOLEAN : title = (k \in Listed(registry) /\ RecordOf(registry, k).title)
  <2>1. CASE k \in Listed(registry)
    <3>1. RecordOf(registry, k).title \in BOOLEAN
      BY <2>1, RecordFound DEF ListsOK, Records
    <3> QED BY <3>1
  <2>2. CASE k \notin Listed(registry)
    BY <2>2
  <2> QED BY <2>1, <2>2
<1>2. PICK rec, q, r : /\ rec = [key |-> k, seq |-> 0, title |-> title]
                       /\ q = Upsert(registry, rec) /\ r = SetActive(q, k)
  OBVIOUS
<1>3. rec \in Records
  <2>1. 0 \in 0 .. MaxSeq  BY TabRegistryAssumption
  <2> QED BY <1>2, <2>1 DEF Records
<1>4. q \in Lists /\ Single(q)
  BY <1>2, <1>3, UpsertKeeps DEF ListsOK
<1>5. r \in Lists /\ Single(r)
  BY <1>2, <1>4, ActiveKeeps
<1>6. registry' = r /\ Save(r)
  BY <1>1, <1>2 DEF Open
<1> QED BY <1>5, <1>6 DEF Single, ListOf

\* The list after an event, a rename or the end of a resume pass.
LEMMA EventList ==
  ASSUME ListsOK, NEW k \in Keys,
         \/ \E n \in 1 .. MaxSeq : registry' = Touch(registry, k, n)
         \/ registry' = Rename(registry, k, TRUE)
         \/ k \in Listed(registry) /\ registry' = Upsert(registry, [RecordOf(registry, k) EXCEPT !.seq = 0])
  PROVE  \E r \in Lists : registry' = r /\ Single(r) /\ SameTabs(r, registry)
<1>1. ASSUME NEW n \in 1 .. MaxSeq, registry' = Touch(registry, k, n)
      PROVE  \E r \in Lists : registry' = r /\ Single(r) /\ SameTabs(r, registry)
  BY <1>1, TouchKeeps DEF ListsOK
<1>2. CASE registry' = Rename(registry, k, TRUE)
  BY <1>2, RenameKeeps DEF ListsOK
<1>3. CASE /\ k \in Listed(registry)
           /\ registry' = Upsert(registry, [RecordOf(registry, k) EXCEPT !.seq = 0])
  <2>1. PICK rec : rec = [RecordOf(registry, k) EXCEPT !.seq = 0]  OBVIOUS
  <2>2. RecordOf(registry, k) \in Records /\ RecordOf(registry, k).key = k
    BY <1>3, RecordFound DEF ListsOK
  <2>3. rec \in Records /\ rec.key = k
    <3>1. 0 \in 0 .. MaxSeq  BY TabRegistryAssumption
    <3> QED BY <2>1, <2>2, <3>1 DEF Records
  <2> QED BY <1>3, <2>1, <2>3, UpsertKeeps DEF ListsOK
<1> QED BY <1>1, <1>2, <1>3

LEMMA ListsStep ==
  ASSUME ListsOK, [Next]_vars
  PROVE  ListsOK'
<1> USE DEF diskVars, histVars
<1>0. registry \in Lists /\ Single(registry)  BY DEF ListsOK
<1>1. ASSUME NEW t \in Tasks, Verb(t) PROVE ListsOK'
  <2>1. CASE RenameDeliver(t)
    <3>1. PICK k \in Busy : Routed(k, Rename(registry, k, TRUE))  BY <2>1 DEF RenameDeliver
    <3>2. PICK r \in Lists : registry' = r /\ Single(r)
      BY <3>1, EventList, TabRegistryAssumption DEF Routed
    <3> QED BY <2>1, <3>2, ListKeeps DEF RenameDeliver
  <2>2. CASE RenameRaise(t) \/ DisconnectSwap(t)
    BY <1>0, <2>2, ListKeeps DEF RenameRaise, DisconnectSwap
  <2>3. CASE DisconnectSave(t)
    BY <1>0, <2>3, ListKeeps DEF DisconnectSave, Saved
  <2>4. CASE PairStart(t) \/ PairWrite(t) \/ PairFill(t) \/ PairInstall(t)
    BY <1>0, <2>4, ListKeeps DEF PairStart, PairWrite, PairFill, PairInstall
  <2>5. CASE ForgetStart(t) \/ ForgetEndpoint(t) \/ ForgetTabs(t)
    BY <1>0, <2>5, ListKeeps DEF ForgetStart, ForgetEndpoint, ForgetTabs
  <2>6. CASE ForgetClear(t)
    BY <2>6, EmptyList, ListKeeps DEF ForgetClear
  <2> QED BY <1>1, <2>1, <2>2, <2>3, <2>4, <2>5, <2>6 DEF Verb
<1>2. ASSUME NEW k \in Keys, Open(k) PROVE ListsOK'
  <2>1. PICK r : r = registry'  OBVIOUS
  <2>2. r \in Lists /\ Single(r) /\ Save(r)
    BY <1>2, <2>1, OpenList DEF Single, ListOf
  <2> QED BY <2>1, <2>2, SaveKeeps
<1>3. ASSUME NEW k \in Keys, Close(k) PROVE ListsOK'
  <2>1. PICK r : r = CloseTab(registry, k)  OBVIOUS
  <2> QED BY <1>0, <1>3, <2>1, CloseKeeps, SaveKeeps DEF Close
<1>4. ASSUME NEW k \in Busy, SupEvent(k) \/ SupResume(k) PROVE ListsOK'
  <2>1. PICK r \in Lists : registry' = r /\ Single(r)
    BY <1>4, EventList, TabRegistryAssumption DEF SupEvent, SupResume, Routed
  <2> QED BY <1>4, <2>1, ListKeeps DEF SupEvent, SupResume
<1>5. CASE Clear
  BY <1>5, EmptyList, SaveKeeps DEF Clear
<1>6. CASE Supervise
  BY <1>0, <1>6, ListKeeps DEF Supervise, SupStart, SupEnter, SupMove, SupRaise, FlushSwap, FlushSave, Saved
<1>7. CASE Restart
  <2>1. PICK r : r = Load(disk)  OBVIOUS
  <2>2. r \in Lists /\ Single(r)  BY <2>1, LoadKeeps DEF ListsOK
  <2> QED BY <1>7, <2>1, <2>2, ListKeeps DEF Restart
<1>8. CASE UNCHANGED vars
  BY <1>0, <1>8, ListKeeps DEF vars, memVars
<1> QED BY <1>1, <1>2, <1>3, <1>4, <1>5, <1>6, <1>7, <1>8 DEF Next

LEMMA VerbsStep ==
  ASSUME VerbsOK, [Next]_vars
  PROVE  VerbsOK'
<1> USE DEF diskVars, Begin, End, Step
<1>1. ASSUME NEW t \in Tasks, NEW at \in PCs, NEW x \in Keys \cup Valid \cup {NoKey},
             pc' = [pc EXCEPT ![t] = at], arg' = [arg EXCEPT ![t] = x],
             at \in {"writing", "filling", "pairing"} => x \in Valid,
             endpoint' \in Valid \cup {NoFile}, epFile' \in Valid \cup {NoFile, Torn}
      PROVE  VerbsOK'
  <2>1. pc' \in [Tasks -> PCs] /\ arg' \in [Tasks -> Keys \cup Valid \cup {NoKey}]
    BY <1>1 DEF VerbsOK
  <2>2. \A u \in Tasks : pc'[u] \in {"writing", "filling", "pairing"} => arg'[u] \in Valid
    BY <1>1 DEF VerbsOK
  <2> QED BY <1>1, <2>1, <2>2 DEF VerbsOK
<1>2. ASSUME NEW t \in Tasks, Verb(t) PROVE VerbsOK'
  <2>1. /\ endpoint \in Valid \cup {NoFile} /\ epFile \in Valid \cup {NoFile, Torn}
        /\ arg[t] \in Keys \cup Valid \cup {NoKey}
        /\ arg' = arg => arg' = [arg EXCEPT ![t] = arg[t]]
    BY DEF VerbsOK
  <2>2. /\ {"idle", "raising", "d_save", "writing", "filling", "pairing", "f_endpoint", "f_tabs",
            "f_clear"} \subseteq PCs
        /\ NoKey \in Keys \cup Valid \cup {NoKey} /\ Busy \subseteq Keys
    BY TabRegistryAssumption DEF PCs
  <2>3. CASE RenameDeliver(t)
    BY <1>1, <2>1, <2>2, <2>3 DEF RenameDeliver
  <2>4. CASE RenameRaise(t) \/ DisconnectSwap(t) \/ DisconnectSave(t)
    BY <1>1, <2>1, <2>2, <2>4 DEF RenameRaise, DisconnectSwap, DisconnectSave
  <2>5. CASE PairStart(t)
    <3>1. PICK p \in Payloads : ValidQr(p) /\ Begin(t, "writing", p)
      BY <2>5 DEF PairStart
    <3>2. p \in Valid  BY <3>1 DEF Valid
    <3> QED BY <1>1, <2>1, <2>2, <2>5, <3>1, <3>2 DEF PairStart
  <2>6. CASE PairWrite(t) \/ PairFill(t)
    <3>1. arg[t] \in Valid /\ arg' = arg  BY <2>6 DEF PairWrite, PairFill, VerbsOK
    <3>2. epFile' \in Valid \cup {NoFile, Torn} /\ endpoint' = endpoint
      BY <2>1, <2>6, <3>1 DEF PairWrite, PairFill
    <3> QED BY <1>1, <2>1, <2>2, <2>6, <3>1, <3>2 DEF PairWrite, PairFill
  <2>7. CASE PairInstall(t)
    <3>1. arg[t] \in Valid  BY <2>7 DEF PairInstall, VerbsOK
    <3> QED BY <1>1, <2>1, <2>2, <2>7, <3>1 DEF PairInstall
  <2>8. CASE ForgetStart(t) \/ ForgetEndpoint(t) \/ ForgetTabs(t) \/ ForgetClear(t)
    <3>1. CASE ForgetStart(t)  BY <1>1, <2>1, <2>2, <3>1 DEF ForgetStart
    <3>2. CASE ForgetEndpoint(t)  BY <1>1, <2>1, <2>2, <3>2 DEF ForgetEndpoint
    <3>3. CASE ForgetTabs(t)  BY <1>1, <2>1, <2>2, <3>3 DEF ForgetTabs
    <3>4. CASE ForgetClear(t)  BY <1>1, <2>1, <2>2, <3>4 DEF ForgetClear
    <3> QED BY <2>8, <3>1, <3>2, <3>3, <3>4
  <2> QED BY <1>2, <2>3, <2>4, <2>5, <2>6, <2>7, <2>8 DEF Verb
<1>3. ASSUME UNCHANGED <<pc, arg, endpoint, epFile>> PROVE VerbsOK'
  BY <1>3 DEF VerbsOK
<1>4. CASE Restart
  <2>1. endpoint' \in Valid \cup {NoFile}  BY <1>4 DEF Restart, VerbsOK
  <2> QED BY <1>4, <2>1 DEF Restart, VerbsOK, PCs
<1>5. CASE UNCHANGED vars
  BY <1>3, <1>5 DEF vars, memVars
<1>6. ASSUME NEW k \in Keys, Open(k) \/ Close(k) PROVE VerbsOK'
  BY <1>3, <1>6 DEF Open, Close
<1>7. ASSUME NEW k \in Busy, SupEvent(k) \/ SupResume(k) PROVE VerbsOK'
  BY <1>3, <1>7 DEF SupEvent, SupResume
<1>8. CASE Clear \/ Supervise
  BY <1>3, <1>8 DEF Clear, Supervise, SupStart, SupEnter, SupMove, SupRaise, FlushSwap, FlushSave
<1> QED BY <1>2, <1>4, <1>5, <1>6, <1>7, <1>8 DEF Next

LEMMA SaveRest ==
  ASSUME RestOK, NEW r, Save(r)
  PROVE  fails' \in 0 .. MaxFails /\ {unsaved', quiet', wiped'} \subseteq BOOLEAN
<1>1. CASE Saved(r)  BY <1>1 DEF Saved, RestOK
<1>2. CASE SaveFails
  <2>1. fails' \in 0 .. MaxFails  BY <1>2, TabRegistryAssumption DEF SaveFails, Fail, RestOK
  <2>2. {unsaved', quiet', wiped'} \subseteq BOOLEAN  BY <1>2 DEF SaveFails, RestOK
  <2> QED BY <2>1, <2>2
<1> QED BY <1>1, <1>2 DEF Save

LEMMA RestStep ==
  ASSUME RestOK, [Next]_vars
  PROVE  RestOK'
<1> USE DEF diskVars, histVars
<1>0. /\ live \subseteq Keys /\ sup \in SPCs /\ fails \in 0 .. MaxFails
      /\ {dirty, unsaved, quiet, wiped, forgot} \subseteq BOOLEAN
      /\ \A x \in {"off", "resume", "replayed", "loop", "raise", "save", "down", "down_save",
                  "ladder", "ending", "last_save"} : x \in SPCs
  BY DEF RestOK, SPCs
<1>1. ASSUME /\ live' \subseteq Keys /\ sup' \in SPCs /\ fails' \in 0 .. MaxFails
             /\ {dirty', unsaved', quiet', wiped', forgot'} \subseteq BOOLEAN
      PROVE  RestOK'
  BY <1>1 DEF RestOK
<1>2. Fail => fails' \in 0 .. MaxFails
  BY <1>0, TabRegistryAssumption DEF Fail
<1>3. ASSUME NEW t \in Tasks, Verb(t) PROVE RestOK'
  <2>1. live' \subseteq Keys /\ sup' \in SPCs
    BY <1>0, <1>3 DEF Verb, RenameDeliver, RenameRaise, DisconnectSwap, DisconnectSave, PairStart,
       PairWrite, PairFill, PairInstall, ForgetStart, ForgetEndpoint, ForgetTabs, ForgetClear
  <2>2. fails' = fails \/ Fail
    BY <1>3 DEF Verb, RenameDeliver, RenameRaise, DisconnectSwap, DisconnectSave, PairStart,
       PairWrite, PairFill, PairInstall, ForgetStart, ForgetEndpoint, ForgetTabs, ForgetClear, Saved
  <2>3. {dirty', unsaved', quiet', wiped', forgot'} \subseteq BOOLEAN
    BY <1>0, <1>3 DEF Verb, RenameDeliver, RenameRaise, DisconnectSwap, DisconnectSave, PairStart,
       PairWrite, PairFill, PairInstall, ForgetStart, ForgetEndpoint, ForgetTabs, ForgetClear, Saved
  <2> QED BY <1>0, <1>1, <1>2, <2>1, <2>2, <2>3
<1>4. ASSUME NEW k \in Keys, Open(k) \/ Close(k) PROVE RestOK'
  <2>1. live' \subseteq Keys /\ sup' = sup /\ dirty' = dirty /\ forgot' \in {FALSE, forgot}
    BY <1>0, <1>4 DEF Open, Close
  <2>2. \E r : Save(r)  BY <1>4 DEF Open, Close
  <2> QED BY <1>0, <1>1, <2>1, <2>2, SaveRest
<1>5. ASSUME NEW k \in Busy, SupEvent(k) \/ SupResume(k) PROVE RestOK'
  BY <1>0, <1>1, <1>5 DEF SupEvent, SupResume
<1>6. CASE Clear
  <2>1. live' = {} /\ sup' = sup /\ dirty' = dirty /\ forgot' = forgot /\ Save(Empty)
    BY <1>6 DEF Clear
  <2> QED BY <1>0, <1>1, <2>1, SaveRest
<1>7. CASE Supervise
  <2>4. live' = live
    BY <1>7 DEF Supervise, SupStart, SupEnter, SupMove, SupRaise, FlushSwap, FlushSave
  <2>5. ASSUME SupStart \/ SupEnter \/ SupMove \/ SupRaise \/ FlushSave PROVE sup' \in SPCs
    BY <1>0, <2>5 DEF SupStart, SupEnter, SupMove, SupRaise, FlushSave, After
  <2>6. ASSUME FlushSwap PROVE sup' \in SPCs
    BY <1>0, <2>6 DEF FlushSwap, After
  <2>1. live' = live /\ sup' \in SPCs
    BY <1>7, <2>4, <2>5, <2>6 DEF Supervise
  <2>2. fails' = fails \/ Fail
    BY <1>7 DEF Supervise, SupStart, SupEnter, SupMove, SupRaise, FlushSwap, FlushSave, Saved
  <2>3. {dirty', unsaved', quiet', wiped', forgot'} \subseteq BOOLEAN
    BY <1>0, <1>7 DEF Supervise, SupStart, SupEnter, SupMove, SupRaise, FlushSwap, FlushSave, Saved
  <2> QED BY <1>0, <1>1, <1>2, <2>1, <2>2, <2>3
<1>8. CASE Restart
  BY <1>0, <1>1, <1>8 DEF Restart
<1>9. CASE UNCHANGED vars
  BY <1>0, <1>1, <1>9 DEF vars, memVars
<1> QED BY <1>3, <1>4, <1>5, <1>6, <1>7, <1>8, <1>9 DEF Next

LEMMA TypedInit == Init => Typed
<1> SUFFICES ASSUME Init PROVE Typed
  OBVIOUS
<1>1. ListsOK  BY EmptyList DEF Init, ListsOK
<1>2. VerbsOK  BY DEF Init, VerbsOK, PCs
<1>3. RestOK
  <2>1. fails \in 0 .. MaxFails  BY TabRegistryAssumption DEF Init
  <2>2. {dirty, unsaved, quiet, wiped, forgot} \subseteq BOOLEAN  BY DEF Init
  <2> QED BY <2>1, <2>2 DEF Init, RestOK, SPCs
<1> QED BY <1>1, <1>2, <1>3 DEF Typed

LEMMA TypedStep == Typed /\ [Next]_vars => Typed'
BY ListsStep, VerbsStep, RestStep DEF Typed

-----------------------------------------------------------------------------
(* The list of tabs in the file                                             *)

LEMMA TabsStep ==
  ASSUME ListsOK, TabListOnDisk, [Next]_vars
  PROVE  TabListOnDisk'
<1> USE DEF diskVars, histVars
<1>1. ASSUME registry' \in Lists, disk' = registry' \/ Load(disk)' = registry'
      PROVE  TabListOnDisk'
  BY <1>1, NoFileAssumption DEF TabListOnDisk
<1>2. ASSUME UNCHANGED <<disk, unsaved, wiped, forgot>> \/ (disk' = disk /\ unsaved /\ unsaved')
             \/ (disk' = disk /\ wiped /\ wiped') \/ (disk' = disk /\ forgot /\ forgot'),
             NEW r, registry' = r, SameTabs(r, registry)
      PROVE  TabListOnDisk'
  <2>1. ListOf(registry)' = ListOf(registry) /\ registry'.active = registry.active
    BY <1>2 DEF SameTabs, ListOf
  <2>2. disk' = disk => Load(disk)' = Load(disk)  BY DEF Load
  <2> QED BY <1>2, <2>1, <2>2 DEF TabListOnDisk
<1>3. SameTabs(registry, registry)  BY DEF SameTabs
<1>4. registry' \in Lists  BY ListsStep DEF ListsOK
<1>5. ASSUME unsaved' \/ wiped' \/ forgot' PROVE TabListOnDisk'
  BY <1>5 DEF TabListOnDisk
<1>6. ASSUME NEW r, Save(r), registry' = r PROVE TabListOnDisk'
  BY <1>1, <1>4, <1>5, <1>6 DEF Save, Saved, SaveFails
<1>7. ASSUME NEW t \in Tasks, Verb(t) PROVE TabListOnDisk'
  <2>1. CASE RenameDeliver(t)
    <3>1. PICK k \in Busy : registry' = Rename(registry, k, TRUE)
      BY <2>1 DEF RenameDeliver, Routed
    <3>2. PICK r \in Lists : registry' = r /\ SameTabs(r, registry)
      BY <3>1, EventList, TabRegistryAssumption
    <3> QED BY <1>2, <2>1, <3>2 DEF RenameDeliver
  <2>2. CASE RenameRaise(t) \/ DisconnectSwap(t)
    BY <1>2, <1>3, <2>2 DEF RenameRaise, DisconnectSwap
  <2>3. CASE DisconnectSave(t)
    BY <1>1, <1>2, <1>3, <1>4, <2>3 DEF DisconnectSave, Saved
  <2>4. CASE PairStart(t) \/ PairWrite(t) \/ PairFill(t) \/ PairInstall(t)
    BY <1>2, <1>3, <2>4 DEF PairStart, PairWrite, PairFill, PairInstall
  <2>5. CASE ForgetStart(t) \/ ForgetEndpoint(t)
    BY <1>2, <1>3, <2>5 DEF ForgetStart, ForgetEndpoint
  <2>6. CASE ForgetTabs(t) \/ ForgetClear(t)
    BY <1>5, <2>6 DEF ForgetTabs, ForgetClear
  <2> QED BY <1>7, <2>1, <2>2, <2>3, <2>4, <2>5, <2>6 DEF Verb
<1>8. ASSUME NEW k \in Keys, Open(k) \/ Close(k) PROVE TabListOnDisk'
  BY <1>6, <1>8 DEF Open, Close
<1>9. ASSUME NEW k \in Busy, SupEvent(k) \/ SupResume(k) PROVE TabListOnDisk'
  <2>1. PICK r \in Lists : registry' = r /\ SameTabs(r, registry)
    BY <1>9, EventList, TabRegistryAssumption DEF SupEvent, SupResume, Routed
  <2> QED BY <1>2, <1>9, <2>1 DEF SupEvent, SupResume
<1>10. CASE Clear
  BY <1>6, <1>10 DEF Clear
<1>11. CASE Supervise
  BY <1>1, <1>2, <1>3, <1>4, <1>11
     DEF Supervise, SupStart, SupEnter, SupMove, SupRaise, FlushSwap, FlushSave, Saved
<1>12. CASE Restart
  <2>1. Load(disk)' = registry'  BY <1>12 DEF Restart, Load
  <2> QED BY <1>1, <1>4, <2>1
<1>13. CASE UNCHANGED vars
  BY <1>2, <1>3, <1>13 DEF vars, memVars
<1> QED BY <1>7, <1>8, <1>9, <1>10, <1>11, <1>12, <1>13 DEF Next

-----------------------------------------------------------------------------
\* The flag announces every difference between the list and its file.  The
\* invariant is inductive but for the range of pc: each action that changes
\* the list saves it, raises the flag, is on its way to raise it, or is one
\* of the three exceptions.
THEOREM FlagAnnounces == Spec => []PendingIsFlagged
<1>1. Init => PendingIsFlagged
  BY DEF Init, PendingIsFlagged, Stored, Load
<1>2. PcOK /\ PendingIsFlagged /\ [Next]_vars => PendingIsFlagged'
  <2> SUFFICES ASSUME PcOK, PendingIsFlagged, [Next]_vars PROVE PendingIsFlagged'
    OBVIOUS
  <2> USE DEF PendingIsFlagged, Stored, diskVars, histVars
  <2>1. ASSUME NEW t \in Tasks, Verb(t) PROVE PendingIsFlagged'
    <3> USE DEF PcOK
    <3>1. CASE RenameDeliver(t)
      <4>1. pc'[t] = "raising"
        BY <3>1 DEF RenameDeliver, Begin, Step
      <4> QED BY <4>1
    <3>2. CASE RenameRaise(t)
      BY <3>2 DEF RenameRaise
    <3>3. CASE ForgetTabs(t) \/ ForgetClear(t)
      BY <3>3 DEF ForgetTabs, ForgetClear
    <3>4. ASSUME pc[t] \notin {"raising", "d_save"}, UNCHANGED <<registry, disk, dirty, sup, histVars>>
          PROVE  PendingIsFlagged'
      <4>1. \A u \in Tasks : pc[u] \in {"raising", "d_save"} => pc'[u] = pc[u]
        BY <2>1, <3>4, VerbMoves
      <4> QED BY <3>4, <4>1 DEF Load
    <3>5. CASE PairStart(t) \/ PairWrite(t) \/ PairFill(t) \/ PairInstall(t)
      BY <3>4, <3>5 DEF PairStart, PairWrite, PairFill, PairInstall, Begin, End, Step, Fail
    <3>6. CASE ForgetStart(t) \/ ForgetEndpoint(t)
      BY <3>4, <3>6 DEF ForgetStart, ForgetEndpoint, Begin, Step
    <3>7. CASE DisconnectSwap(t)
      <4>1. pc'[t] = "d_save"
        BY <3>7 DEF DisconnectSwap, Begin, Step
      <4> QED BY <4>1
    <3>8. CASE DisconnectSave(t)
      BY <3>8 DEF DisconnectSave, Saved
    <3> QED BY <2>1, <3>1, <3>2, <3>3, <3>5, <3>6, <3>7, <3>8 DEF Verb
  <2>2. ASSUME NEW k \in Keys, Open(k) PROVE PendingIsFlagged'
    BY <2>2 DEF Open, Save, Saved, SaveFails
  <2>3. ASSUME NEW k \in Keys, Close(k) PROVE PendingIsFlagged'
    BY <2>3 DEF Close, Save, Saved, SaveFails
  <2>4. ASSUME NEW k \in Busy, SupEvent(k) \/ SupResume(k) PROVE PendingIsFlagged'
    BY <2>4 DEF SupEvent, SupResume
  <2>5. ASSUME Clear PROVE PendingIsFlagged'
    BY <2>5 DEF Clear, Save, Saved, SaveFails
  <2>6. ASSUME Supervise PROVE PendingIsFlagged'
    BY <2>6 DEF Supervise, SupRaise, FlushSwap, FlushSave, SupStart, SupEnter, SupMove, Saved, Fail
  <2>7. ASSUME Restart PROVE PendingIsFlagged'
    BY <2>7 DEF Restart
  <2>8. ASSUME UNCHANGED vars PROVE PendingIsFlagged'
    BY <2>8 DEF vars, memVars
  <2> QED BY <2>1, <2>2, <2>3, <2>4, <2>5, <2>6, <2>7, <2>8 DEF Next
<1> QED BY <1>1, <1>2, PcAlways, PTL DEF Spec

\* Every list that is kept, written or read back is one of records, with one record per
\* key; only payloads that parse_qr_payload accepts are installed or stored.
THEOREM RegistryTyped == Spec => []TypeOK
<1>1. Typed => TypeOK
  BY DEF Typed, ListsOK, VerbsOK, RestOK, Single, TypeOK
<1> QED BY <1>1, TypedInit, TypedStep, PTL DEF Spec

\* Opening, closing and clearing write the list of tabs before they return, and nothing
\* else changes which tabs there are, in which order or which one is active: a kill at any
\* moment finds them, failed saves and forgets apart.
THEOREM TabsOnDisk == Spec => []TabListOnDisk
<1>1. Init => TabListOnDisk
  BY EmptyList, NoFileAssumption DEF Init, TabListOnDisk, Load
<1>2. Typed /\ TabListOnDisk /\ [Next]_vars => TabListOnDisk'
  BY TabsStep DEF Typed
<1> QED BY <1>1, <1>2, TypedInit, TypedStep, PTL DEF Spec

=============================================================================
