-------------------------- MODULE SessionSyncProofs --------------------------
(***************************************************************************)
(* SessionSync for every bound and every capacity of the broadcast: its    *)
(* types, that no user message is shown twice, and that a session that is  *)
(* only ever resumed misses no event.                                      *)
(*                                                                         *)
(* None of the three is inductive.  The types need to know that only       *)
(* events, never user messages, travel in the broadcast and in a replay    *)
(* (EventsOnly).  Two rows of one message need the copies that rebuilds    *)
(* and re-opens carry to be followed too (UserInv).  What a settled        *)
(* session shows follows from two claims about what it has in between: it  *)
(* has every event up to its watermark, and every event before the next    *)
(* one of the stream it reads (Following).                                 *)
(***************************************************************************)
EXTENDS SessionSync, SequenceTheorems, TLAPS

Phase(ps) == spc \in ps

\* How the connection, the broadcast and the supervisor's locals go together.
Linked ==
  /\ ~up => connNo < MaxConns
  /\ attached => up
  /\ lagged => buffer # <<>>
  /\ up /\ buffer # <<>> => attached
  /\ Phase({"resume", "repoint", "since", "rebuild", "replay", "catch"}) => sup.rec # None
  /\ Phase({"rebuild", "replay"}) => sup.rec.epoch >= 1
  /\ npc # "idle" => sends >= 1

IsEvent(x) == x[1] >= 1 /\ x[2] <= MaxEvents

EventsOnly ==
  /\ \A i \in DOMAIN buffer : IsEvent(buffer[i])
  /\ \A i \in DOMAIN sup.todo : IsEvent(sup.todo[i])

SyncTyped == TypeOK /\ Linked /\ EventsOnly

-----------------------------------------------------------------------------
(* Sequences                                                                *)

LEMMA Appended ==
  ASSUME NEW S, NEW s \in Seq(S), NEW x \in S
  PROVE  /\ Append(s, x) \in Seq(S)
         /\ Len(Append(s, x)) = Len(s) + 1
         /\ Append(s, x)[Len(s) + 1] = x
         /\ \A i \in 1 .. Len(s) : Append(s, x)[i] = s[i]
         /\ ToSet(Append(s, x)) = ToSet(s) \cup {x}
<1>1. /\ Append(s, x) \in Seq(S) /\ Len(Append(s, x)) = Len(s) + 1
      /\ Append(s, x)[Len(s) + 1] = x
      /\ \A i \in 1 .. Len(s) : Append(s, x)[i] = s[i]
  OBVIOUS
<1>2. DOMAIN s = 1 .. Len(s) /\ DOMAIN Append(s, x) = 1 .. Len(s) + 1 /\ Len(s) \in Nat
  BY <1>1
<1>3. ToSet(Append(s, x)) = ToSet(s) \cup {x}
  BY <1>1, <1>2 DEF ToSet
<1> QED BY <1>1, <1>3

LEMMA Cut ==
  ASSUME NEW S, NEW s \in Seq(S), s # <<>>
  PROVE  /\ Head(s) \in S /\ Head(s) = s[1]
         /\ Tail(s) \in Seq(S) /\ Len(s) >= 1 /\ Len(Tail(s)) = Len(s) - 1
         /\ \A i \in 1 .. Len(s) - 1 : Tail(s)[i] = s[i + 1]
         /\ ToSet(s) = {Head(s)} \cup ToSet(Tail(s))
<1>1. /\ Head(s) \in S /\ Head(s) = s[1]
      /\ Tail(s) \in Seq(S) /\ Len(s) >= 1 /\ Len(Tail(s)) = Len(s) - 1
      /\ \A i \in 1 .. Len(s) - 1 : Tail(s)[i] = s[i + 1]
  BY HeadTailProperties
<1>2. DOMAIN s = 1 .. Len(s) /\ DOMAIN Tail(s) = 1 .. Len(s) - 1 /\ Len(s) \in Nat
  BY <1>1
<1>3. ASSUME NEW i \in 1 .. Len(s) PROVE s[i] = Head(s) \/ s[i] \in ToSet(Tail(s))
  <2>1. CASE i = 1  BY <1>1, <2>1
  <2>2. CASE i # 1
    <3>1. i - 1 \in DOMAIN Tail(s) /\ Tail(s)[i - 1] = s[i]
      BY <1>1, <1>2, <2>2
    <3> QED BY <3>1 DEF ToSet
  <2> QED BY <2>1, <2>2
<1>4. ASSUME NEW i \in DOMAIN Tail(s) PROVE Tail(s)[i] \in ToSet(s)
  BY <1>1, <1>2 DEF ToSet
<1>5. Head(s) \in ToSet(s)
  BY <1>1, <1>2 DEF ToSet
<1>6. ToSet(s) = {Head(s)} \cup ToSet(Tail(s))
  BY <1>2, <1>3, <1>4, <1>5 DEF ToSet
<1> QED BY <1>1, <1>6

-----------------------------------------------------------------------------
(* What the operators of the core do to well-typed state                    *)

LEMMA Bounds ==
  /\ MaxEvents \in Nat /\ MaxSends \in Nat /\ MaxOpens \in Nat
  /\ MaxEpochs \in Nat \ {0} /\ MaxConns \in Nat \ {0} /\ Capacity \in Nat \ {0}
  /\ OpenAtStart \in BOOLEAN
BY SyncAssumption

LEMMA NoneIsNone ==
  None \notin Records /\ None \notin Lives
BY SyncAssumption

LEMMA EventItem ==
  ASSUME NEW e \in 1 .. MaxEpochs, NEW n \in 1 .. MaxEvents
  PROVE  <<e, n>> \in Items /\ IsEvent(<<e, n>>)
BY Bounds DEF Items, IsEvent

LEMMA ItemParts ==
  ASSUME NEW x \in Items
  PROVE  x[1] \in 0 .. MaxEpochs /\ x[2] \in 1 .. MaxEvents + MaxSends /\ x = <<x[1], x[2]>>
BY DEF Items

LEMMA RowAdded ==
  ASSUME NEW l \in Lives, NEW x \in Items, NEW m, m = [l EXCEPT !.rows = Append(@, x)]
  PROVE  m \in Lives /\ m.rows = Append(l.rows, x) /\ m.sid = l.sid /\ m.epoch = l.epoch
<1>1. l.rows \in Seq(Items) /\ Append(l.rows, x) \in Seq(Items)
  BY DEF Lives
<1> QED BY <1>1 DEF Lives

LEMMA Touched ==
  ASSUME NEW r \in Records, NEW n \in 0 .. MaxEvents, NEW e \in Epochs
  PROVE  /\ Touch(r, n, e) \in Records
         /\ Touch(r, n, e).seen = Higher(r.seen, n)
         /\ Touch(r, n, e).epoch = IF e = 0 THEN r.epoch ELSE e
BY NoneIsNone DEF Touch, Records, Higher

LEMMA Delivered ==
  ASSUME SyncTyped, NEW x \in Items, IsEvent(x), DeliverEvent(x)
  PROVE  /\ live' \in Lives \cup {None} /\ rec' \in Records \cup {None}
         /\ UNCHANGED <<sidIndex, historyEpoch>>
         /\ live = None => live' = None /\ rec' = rec
         /\ live # None =>
              /\ live' # None /\ live'.rows = Append(live.rows, x)
              /\ live'.sid = live.sid /\ live'.epoch = live.epoch
         /\ live # None /\ rec # None =>
              /\ rec' # None /\ rec'.seen = Higher(rec.seen, x[2]) /\ rec'.epoch = rec.epoch
         /\ rec = None => rec' = None
<1>1. x[2] \in 0 .. MaxEvents /\ 0 \in Epochs
  BY ItemParts, Bounds DEF IsEvent, Epochs
<1>2. CASE live = None
  BY <1>2 DEF DeliverEvent, SyncTyped, TypeOK
<1>3. CASE live # None
  <2>1. live \in Lives  BY <1>3 DEF SyncTyped, TypeOK
  <2>2. /\ live' \in Lives /\ live'.rows = Append(live.rows, x)
        /\ live'.sid = live.sid /\ live'.epoch = live.epoch
    BY <1>3, <2>1, RowAdded DEF DeliverEvent
  <2>3. rec' = Touch(rec, x[2], 0)  BY <1>3 DEF DeliverEvent
  <2>4. CASE rec = None
    BY <1>3, <2>2, <2>3, <2>4, NoneIsNone DEF DeliverEvent, Touch
  <2>5. CASE rec # None
    <3>1. rec \in Records  BY <2>5 DEF SyncTyped, TypeOK
    <3>2. /\ rec' \in Records /\ rec'.seen = Higher(rec.seen, x[2])
          /\ rec'.epoch = rec.epoch
      BY <1>1, <2>3, <3>1, Touched
    <3>3. UNCHANGED <<sidIndex, historyEpoch>>  BY DEF DeliverEvent
    <3> QED BY <1>3, <2>2, <2>5, <3>2, <3>3, NoneIsNone
  <2> QED BY <2>4, <2>5
<1> QED BY <1>2, <1>3

\* What the gateway's log still holds past a watermark, in order.
LEMMA MissedRun ==
  ASSUME SyncTyped, NEW n \in 0 .. MaxEvents
  PROVE  /\ Missed(n) \in Seq(Items)
         /\ \A i \in DOMAIN Missed(n) :
              IsEvent(Missed(n)[i]) /\ Missed(n)[i] = <<epoch, Higher(n, oldest) + i>>
         /\ Missed(n) # <<>> => Higher(n, oldest) < emitted
         /\ \A k \in Higher(n, oldest) + 1 .. emitted : <<epoch, k>> \in ToSet(Missed(n))
<1> DEFINE from == Higher(n, oldest)
<1>1. from \in Nat /\ emitted \in Nat /\ emitted <= MaxEvents /\ epoch \in 1 .. MaxEpochs /\ oldest \in Nat
  BY Bounds DEF SyncTyped, TypeOK, Higher
<1> HIDE DEF from
<1>2. CASE from >= emitted
  <2>1. Missed(n) = <<>>  BY <1>2 DEF Missed, from
  <2> QED BY <1>1, <1>2, <2>1 DEF from
<1>3. CASE ~(from >= emitted)
  <2>1. Missed(n) = [i \in 1 .. emitted - from |-> <<epoch, from + i>>]
    BY <1>3 DEF Missed, from
  <2>2. emitted - from \in Nat  BY <1>1, <1>3
  <2>3. ASSUME NEW i \in 1 .. emitted - from
        PROVE  from + i \in 1 .. MaxEvents
    BY <1>1, <2>2, Bounds
  <2>4. ASSUME NEW i \in 1 .. emitted - from
        PROVE  <<epoch, from + i>> \in Items /\ IsEvent(<<epoch, from + i>>)
    BY <1>1, <2>3, EventItem
  <2>5. Missed(n) \in Seq(Items) /\ DOMAIN Missed(n) = 1 .. emitted - from
    BY <2>1, <2>2, <2>4
  <2>6. ASSUME NEW k \in from + 1 .. emitted PROVE <<epoch, k>> \in ToSet(Missed(n))
    <3>1. k - from \in 1 .. emitted - from /\ from + (k - from) = k
      BY <1>1
    <3>2. Missed(n)[k - from] = <<epoch, k>>
      BY <2>1, <3>1
    <3> QED BY <2>5, <3>1, <3>2 DEF ToSet
  <2> QED BY <1>1, <1>3, <2>1, <2>4, <2>5, <2>6 DEF from
<1> QED BY <1>2, <1>3

-----------------------------------------------------------------------------
(* Types                                                                    *)

LEMMA TypedInit == Init => SyncTyped
<1> SUFFICES ASSUME Init PROVE SyncTyped
  OBVIOUS
<1> USE Bounds
<1>1. live \in Lives \cup {None}
  <2>1. [rows |-> <<>>, sid |-> 1, epoch |-> 0] \in Lives
    BY DEF Lives, Sids
  <2> QED BY <2>1 DEF Init
<1>2. rec \in Records \cup {None}
  <2>1. [seen |-> 0, epoch |-> 1] \in Records
    BY DEF Records, Epochs
  <2> QED BY <2>1 DEF Init
<1>3. /\ sup \in [rec : Records \cup {None}, msgs : Seq(Items), todo : Seq(Items)]
      /\ opened \in [msgs : Seq(Items), sid : Sids] /\ sending \in [sid : Sids, epoch : Nat]
  BY DEF Init, SupIdle, OpenIdle, SendIdle, Sids
<1>4. Linked /\ EventsOnly
  BY DEF Init, Linked, Phase, EventsOnly, SupIdle
<1>5. /\ epoch \in 1 .. MaxEpochs /\ connNo \in Sids /\ sidIndex \subseteq Sids
      /\ history \in Seq(Items) /\ buffer \in Seq(Items) /\ Len(buffer) <= Capacity
  BY DEF Init, Sids
<1>6. attached \in BOOLEAN /\ up \in BOOLEAN /\ lagged \in BOOLEAN /\ gap \in BOOLEAN
  BY DEF Init
<1>7. /\ emitted \in 0 .. MaxEvents /\ oldest \in 0 .. emitted
      /\ historyEpoch \in Nat /\ opens \in 0 .. MaxOpens /\ sends \in 0 .. MaxSends
      /\ spc = "loop" /\ opc = "idle" /\ npc = "idle"
  BY DEF Init
<1> QED BY <1>1, <1>2, <1>3, <1>4, <1>5, <1>6, <1>7 DEF SyncTyped, TypeOK

LEMMA GatewayTyped ==
  ASSUME SyncTyped, Gateway \/ Restart
  PROVE  SyncTyped'
<1> USE Bounds DEF gateVars, wireVars, coreVars, supVars, openVars, sendVars
<1>1. CASE Emit
  <2> DEFINE item == <<epoch, emitted + 1>>
  <2>1. item \in Items /\ IsEvent(item)
    <3>1. epoch \in 1 .. MaxEpochs /\ emitted + 1 \in 1 .. MaxEvents
      BY <1>1 DEF Emit, SyncTyped, TypeOK
    <3> QED BY <3>1, EventItem
  <2> HIDE DEF item
  <2>2. history' \in Seq(Items)
    BY <1>1, <2>1, Appended DEF Emit, SyncTyped, TypeOK, item
  <2>3. /\ buffer' \in Seq(Items) /\ Len(buffer') <= Capacity /\ lagged' \in BOOLEAN
        /\ \A i \in DOMAIN buffer' : IsEvent(buffer'[i])
        /\ lagged' => buffer' # <<>>
        /\ buffer' # <<>> => (attached \/ buffer # <<>>)
    <3>1. CASE ~(up /\ attached)
      BY <1>1, <3>1 DEF Emit, SyncTyped, TypeOK, EventsOnly, Linked
    <3>2. CASE up /\ attached /\ Len(buffer) < Capacity
      <4>1. buffer' = Append(buffer, item) /\ lagged' = lagged
        BY <1>1, <3>2 DEF Emit, Broadcast, item
      <4>2. buffer \in Seq(Items)  BY DEF SyncTyped, TypeOK
      <4>3. /\ buffer' \in Seq(Items) /\ Len(buffer') = Len(buffer) + 1
            /\ buffer'[Len(buffer) + 1] = item
            /\ \A i \in 1 .. Len(buffer) : buffer'[i] = buffer[i]
        BY <2>1, <4>1, <4>2, Appended
      <4>4. ASSUME NEW i \in DOMAIN buffer' PROVE IsEvent(buffer'[i])
        <5>1. i = Len(buffer) + 1 \/ i \in DOMAIN buffer  BY <4>2, <4>3
        <5>2. CASE i = Len(buffer) + 1  BY <2>1, <4>3, <5>2
        <5>3. CASE i \in DOMAIN buffer
          BY <4>2, <4>3, <5>3 DEF SyncTyped, EventsOnly
        <5> QED BY <5>1, <5>2, <5>3
      <4>5. Len(buffer') <= Capacity /\ lagged' \in BOOLEAN
        BY <3>2, <4>1, <4>2, <4>3 DEF SyncTyped, TypeOK
      <4> QED BY <3>2, <4>2, <4>3, <4>4, <4>5
    <3>3. CASE up /\ attached /\ ~(Len(buffer) < Capacity)
      <4>1. buffer' = Append(Tail(buffer), item) /\ lagged' = TRUE
        BY <1>1, <3>3 DEF Emit, Broadcast, item
      <4>2. buffer \in Seq(Items) /\ Len(buffer) = Capacity /\ buffer # <<>>
        BY <3>3 DEF SyncTyped, TypeOK
      <4>3. /\ Tail(buffer) \in Seq(Items) /\ Len(Tail(buffer)) = Len(buffer) - 1
            /\ \A i \in 1 .. Len(buffer) - 1 : Tail(buffer)[i] = buffer[i + 1]
        BY <4>2, Cut
      <4>4. /\ buffer' \in Seq(Items) /\ Len(buffer') = Len(buffer)
            /\ buffer'[Len(buffer)] = item
            /\ \A i \in 1 .. Len(buffer) - 1 : buffer'[i] = Tail(buffer)[i]
        BY <2>1, <4>1, <4>3, Appended
      <4>5. ASSUME NEW i \in DOMAIN buffer' PROVE IsEvent(buffer'[i])
        <5>1. CASE i = Len(buffer)  BY <2>1, <4>4, <5>1
        <5>2. CASE i # Len(buffer)
          <6>1. i \in 1 .. Len(buffer) - 1 /\ i + 1 \in DOMAIN buffer
            BY <4>2, <4>4, <5>2
          <6> QED BY <4>3, <4>4, <6>1 DEF SyncTyped, EventsOnly
        <5> QED BY <5>1, <5>2
      <4> QED BY <3>3, <4>1, <4>2, <4>4, <4>5
    <3> QED BY <3>1, <3>2, <3>3
  <2>4. emitted' \in 0 .. MaxEvents /\ oldest' \in 0 .. emitted'
    BY <1>1 DEF Emit, SyncTyped, TypeOK
  <2>5. UNCHANGED <<epoch, attached, up, connNo, coreVars, supVars, openVars, sendVars, gap>>
    BY <1>1 DEF Emit
  <2>6. TypeOK'
    BY <2>2, <2>3, <2>4, <2>5 DEF SyncTyped, TypeOK
  <2>7. Linked' /\ EventsOnly'
    BY <2>3, <2>5 DEF SyncTyped, Linked, EventsOnly, Phase
  <2> QED BY <2>6, <2>7 DEF SyncTyped
<1>2. CASE Truncate
  BY <1>2 DEF Truncate, SyncTyped, TypeOK, Linked, EventsOnly, Phase
<1>3. CASE LoseConnection
  <2>1. TypeOK'
    BY <1>3 DEF LoseConnection, Disconnected, SyncTyped, TypeOK
  <2> QED BY <1>3, <2>1 DEF LoseConnection, Disconnected, SyncTyped, Linked, EventsOnly, Phase
<1>4. CASE Restart
  <2>1. /\ epoch' \in 1 .. MaxEpochs /\ emitted' \in 0 .. MaxEvents /\ oldest' \in 0 .. emitted'
    BY <1>4 DEF Restart, SyncTyped, TypeOK
  <2>2. up' \in BOOLEAN /\ attached' \in BOOLEAN
    BY <1>4 DEF Restart, Disconnected
  <2>3. TypeOK'
    BY <1>4, <2>1, <2>2 DEF Restart, Disconnected, SyncTyped, TypeOK
  <2> QED BY <1>4, <2>3 DEF Restart, Disconnected, SyncTyped, Linked, EventsOnly, Phase
<1> QED BY <1>1, <1>2, <1>3, <1>4 DEF Gateway

LEMMA SendTyped ==
  ASSUME SyncTyped, Send
  PROVE  SyncTyped'
<1> USE Bounds DEF gateVars, wireVars, coreVars, supVars, openVars, sendVars
<1>1. CASE SendStart
  <2>1. live \in Lives /\ sending' \in [sid : Sids, epoch : Nat]
    BY <1>1 DEF SendStart, SyncTyped, TypeOK, Lives
  <2> QED BY <1>1, <2>1 DEF SendStart, SyncTyped, TypeOK, Linked, EventsOnly, Phase
<1>2. SendIdle \in [sid : Sids, epoch : Nat]
  BY DEF SendIdle, Sids
<1>3. npc # "idle" => <<0, sends>> \in Items
  <2>1. npc # "idle" => sends \in 1 .. MaxEvents + MaxSends
    BY DEF SyncTyped, TypeOK, Linked
  <2> QED BY <2>1 DEF Items
<1>4. CASE SendSubmit
  <2>1. history' \in Seq(Items)
    <3>1. history \in Seq(Items) /\ <<0, sends>> \in Items
      BY <1>3, <1>4 DEF SendSubmit, SyncTyped, TypeOK
    <3>2. Append(history, <<0, sends>>) \in Seq(Items)
      BY <3>1, Appended
    <3> QED BY <1>4, <3>1, <3>2 DEF SendSubmit
  <2>2. npc' \in {"idle", "submit", "append"} /\ sending' \in [sid : Sids, epoch : Nat]
    BY <1>2, <1>4 DEF SendSubmit, SyncTyped, TypeOK
  <2>3. npc' # "idle" => npc # "idle"
    BY <1>4 DEF SendSubmit
  <2>4. TypeOK'
    BY <1>4, <2>1, <2>2 DEF SendSubmit, SyncTyped, TypeOK
  <2> QED BY <1>4, <2>3, <2>4 DEF SendSubmit, SyncTyped, Linked, EventsOnly, Phase
<1>5. CASE SendAppend
  <2>1. live' \in Lives \cup {None}
    BY <1>3, <1>5, RowAdded DEF SendAppend, SyncTyped, TypeOK
  <2>2. TypeOK'
    BY <1>2, <1>5, <2>1 DEF SendAppend, SyncTyped, TypeOK
  <2> QED BY <1>5, <2>2 DEF SendAppend, SyncTyped, Linked, EventsOnly, Phase
<1> QED BY <1>1, <1>4, <1>5 DEF Send

LEMMA OpenTyped ==
  ASSUME SyncTyped, Open
  PROVE  SyncTyped'
<1> USE Bounds DEF gateVars, wireVars, coreVars, supVars, openVars, sendVars
<1>1. CASE OpenStart
  <2>1. opens' \in 0 .. MaxOpens  BY <1>1 DEF OpenStart, SyncTyped, TypeOK
  <2>2. TypeOK'  BY <1>1, <2>1 DEF OpenStart, SyncTyped, TypeOK
  <2> QED BY <1>1, <2>2 DEF OpenStart, SyncTyped, Linked, EventsOnly, Phase
<1>2. CASE OpenResume
  <2>1. opened' \in [msgs : Seq(Items), sid : Sids] /\ opc' \in {"idle", "resume", "install"}
    BY <1>2 DEF OpenResume, SyncTyped, TypeOK
  <2>2. attached' \in BOOLEAN /\ (attached' => up) /\ (attached => attached')
    <3>1. attached \in BOOLEAN /\ (attached => up)  BY DEF SyncTyped, TypeOK, Linked
    <3>2. UNCHANGED up /\ (attached' = attached \/ (up /\ attached' = TRUE))
      BY <1>2 DEF OpenResume
    <3>3. CASE attached' = attached  BY <3>1, <3>3
    <3>4. CASE up /\ attached' = TRUE  BY <3>4
    <3> QED BY <3>2, <3>3, <3>4
  <2>3. TypeOK'  BY <1>2, <2>1, <2>2 DEF OpenResume, SyncTyped, TypeOK
  <2> QED BY <1>2, <2>2, <2>3 DEF OpenResume, SyncTyped, Linked, EventsOnly, Phase
<1>3. CASE OpenInstall
  <2>1. historyEpoch' \in Nat /\ opened.msgs \in Seq(Items) /\ opened.sid \in Sids
    BY <1>3 DEF OpenInstall, SyncTyped, TypeOK
  <2>2. live' \in Lives /\ sidIndex' \subseteq Sids
    BY <1>3, <2>1 DEF OpenInstall, SyncTyped, TypeOK, Lives
  <2>3. rec' \in Records
    BY <1>3 DEF OpenInstall, SyncTyped, TypeOK, Records, Epochs
  <2>4. opened' \in [msgs : Seq(Items), sid : Sids]
    BY <1>3 DEF OpenInstall, OpenIdle, Sids
  <2>5. TypeOK'  BY <1>3, <2>1, <2>2, <2>3, <2>4 DEF OpenInstall, SyncTyped, TypeOK
  <2> QED BY <1>3, <2>5 DEF OpenInstall, SyncTyped, Linked, EventsOnly, Phase
<1>4. CASE Close
  <2>1. TypeOK'  BY <1>4 DEF Close, SyncTyped, TypeOK
  <2> QED BY <1>4, <2>1 DEF Close, SyncTyped, Linked, EventsOnly, Phase
<1> QED BY <1>1, <1>2, <1>3, <1>4 DEF Open

Sups == [rec : Records \cup {None}, msgs : Seq(Items), todo : Seq(Items)]

LEMMA SupTyped ==
  ASSUME SyncTyped
  PROVE  /\ sup \in Sups /\ SupIdle \in Sups
         /\ sup.rec \in Records \cup {None} /\ sup.msgs \in Seq(Items) /\ sup.todo \in Seq(Items)
         /\ SupIdle.rec = None /\ SupIdle.msgs = <<>> /\ SupIdle.todo = <<>>
         /\ rec \in Records \cup {None}
         /\ [SupIdle EXCEPT !.rec = rec] \in Sups
         /\ [SupIdle EXCEPT !.rec = rec].rec = rec
         /\ [SupIdle EXCEPT !.rec = rec].msgs = <<>>
         /\ [SupIdle EXCEPT !.rec = rec].todo = <<>>
<1>1. sup \in Sups /\ rec \in Records \cup {None}
  BY DEF SyncTyped, TypeOK, Sups
<1>2. SupIdle \in Sups /\ SupIdle.rec = None /\ SupIdle.msgs = <<>> /\ SupIdle.todo = <<>>
  BY DEF SupIdle, Sups
<1>3. [SupIdle EXCEPT !.rec = rec] = [rec |-> rec, msgs |-> <<>>, todo |-> <<>>]
  BY DEF SupIdle
<1> QED BY <1>1, <1>2, <1>3 DEF Sups

\* The actions of the supervisor that send nothing to the core.
LEMMA SupWireTyped ==
  ASSUME SyncTyped, SupReconnect \/ SupRecord \/ SupResume \/ SupLag
  PROVE  SyncTyped'
<1> USE Bounds DEF gateVars, wireVars, coreVars, supVars, openVars, sendVars, SupGoto
<1>1. CASE SupReconnect
  <2>1. connNo' \in Sids /\ buffer' \in Seq(Items) /\ Len(buffer') <= Capacity
    BY <1>1 DEF SupReconnect, SyncTyped, TypeOK, Linked, Sids
  <2>2. TypeOK'  BY <1>1, <2>1 DEF SupReconnect, SyncTyped, TypeOK
  <2>3. EventsOnly'  BY <1>1 DEF SupReconnect, SyncTyped, EventsOnly
  <2> QED BY <1>1, <2>2, <2>3 DEF SupReconnect, SyncTyped, Linked, Phase
<1>2. CASE SupRecord
  <2>1. sup' \in Sups /\ sup'.rec = rec /\ sup'.todo = <<>>
    BY <1>2, SupTyped DEF SupRecord
  <2>2. spc' \in {"loop", "resume"} /\ (spc' = "resume" => rec # None)
    BY <1>2 DEF SupRecord
  <2>3. TypeOK'  BY <1>2, <2>1, <2>2 DEF SupRecord, SyncTyped, TypeOK, Sups
  <2> QED BY <1>2, <2>1, <2>2, <2>3 DEF SupRecord, SyncTyped, Linked, EventsOnly, Phase
<1>3. CASE SupResume
  <2>1. /\ sup' \in Sups /\ (spc' = "repoint" => sup'.rec = sup.rec)
        /\ (sup'.todo = sup.todo \/ sup'.todo = <<>>)
    BY <1>3, SupTyped DEF SupResume, SyncTyped, TypeOK, Sups
  <2>2. spc = "resume" /\ spc' \in {"loop", "repoint"} /\ (attached' => up) /\ (attached => attached')
    BY <1>3 DEF SupResume, SyncTyped, Linked
  <2>3. attached' \in BOOLEAN  BY <1>3 DEF SupResume, SyncTyped, TypeOK
  <2>4. TypeOK'  BY <1>3, <2>1, <2>2, <2>3 DEF SupResume, SyncTyped, TypeOK, Sups
  <2>5. EventsOnly'  BY <1>3, <2>1 DEF SupResume, SyncTyped, EventsOnly
  <2> QED BY <1>3, <2>1, <2>2, <2>4, <2>5 DEF SupResume, SyncTyped, Linked, Phase
<1>4. CASE SupLag
  <2>1. sup' \in Sups /\ sup'.rec = rec /\ sup'.todo = <<>>
    BY <1>4, SupTyped DEF SupLag
  <2>2. spc' \in {"loop", "catch"} /\ (spc' = "catch" => rec # None)
    BY <1>4 DEF SupLag
  <2>3. TypeOK'  BY <1>4, <2>1, <2>2 DEF SupLag, SyncTyped, TypeOK, Sups
  <2> QED BY <1>4, <2>1, <2>2, <2>3 DEF SupLag, SyncTyped, Linked, EventsOnly, Phase
<1> QED BY <1>1, <1>2, <1>3, <1>4

\* The two requests for what was missed.
LEMMA SupAskTyped ==
  ASSUME SyncTyped, SupSince \/ SupCatchUp
  PROVE  SyncTyped'
<1> USE Bounds DEF gateVars, wireVars, coreVars, supVars, openVars, sendVars, SupGoto
<1>1. spc \in {"since", "catch"} /\ sup.rec \in Records /\ sup.rec.seen \in 0 .. MaxEvents
  BY SupTyped DEF SupSince, SupCatchUp, SyncTyped, Linked, Phase, Records
<1>2. /\ Missed(sup.rec.seen) \in Seq(Items)
      /\ \A i \in DOMAIN Missed(sup.rec.seen) : IsEvent(Missed(sup.rec.seen)[i])
  BY <1>1, MissedRun
<1>3. [seen |-> emitted, epoch |-> epoch] \in Records /\ epoch >= 1
  BY DEF SyncTyped, TypeOK, Records, Epochs
<1>4. /\ sup' \in Sups
      /\ \A i \in DOMAIN sup'.todo : IsEvent(sup'.todo[i])
      /\ spc' \in {"rebuild", "replay", "loop", "fill"}
      /\ spc' \in {"rebuild", "replay"} => sup'.rec # None /\ sup'.rec.epoch >= 1
  <2>1. CASE SupSince
    <3>1. CASE sup' = SupIdle
      <4>1. spc' \in {"rebuild", "replay", "loop"}  BY <2>1 DEF SupSince
      <4>2. sup'.rec = None /\ sup'.todo = <<>> /\ sup' \in Sups  BY <3>1, SupTyped
      <4>3. spc' \notin {"rebuild", "replay"}
        <5>1. SUFFICES ASSUME spc' \in {"rebuild", "replay"} PROVE FALSE
          BY <4>1
        <5>2. sup'.rec = [seen |-> emitted, epoch |-> epoch]
          BY <2>1, <5>1, SupTyped DEF SupSince, Sups
        <5> QED BY <1>3, <4>2, <5>2, NoneIsNone
      <4> QED BY <4>1, <4>2, <4>3
    <3>2. CASE sup' = [sup EXCEPT !.todo = Missed(sup.rec.seen),
                                  !.rec = [seen |-> emitted, epoch |-> epoch]]
      <4>1. /\ sup' \in Sups /\ sup'.todo = Missed(sup.rec.seen)
            /\ sup'.rec = [seen |-> emitted, epoch |-> epoch]
        BY <1>2, <1>3, <3>2, SupTyped DEF Sups
      <4> QED BY <1>2, <1>3, <2>1, <4>1, NoneIsNone DEF SupSince
    <3> QED BY <2>1, <3>1, <3>2 DEF SupSince
  <2>2. CASE SupCatchUp
    <3>1. CASE sup' = SupIdle
      BY <2>2, <3>1, SupTyped DEF SupCatchUp
    <3>2. CASE sup' = [SupIdle EXCEPT !.todo = Missed(sup.rec.seen)]
      <4>1. sup' \in Sups /\ sup'.todo = Missed(sup.rec.seen)
        BY <1>2, <3>2, SupTyped DEF Sups
      <4> QED BY <1>2, <2>2, <4>1 DEF SupCatchUp
    <3> QED BY <2>2, <3>1, <3>2 DEF SupCatchUp
  <2> QED BY <2>1, <2>2
<1>5. gap' \in BOOLEAN /\ UNCHANGED <<gateVars, wireVars, coreVars, openVars, sendVars>>
  BY DEF SupSince, SupCatchUp, SyncTyped, TypeOK
<1>6. TypeOK'  BY <1>4, <1>5 DEF SyncTyped, TypeOK, Sups
<1> QED BY <1>4, <1>5, <1>6 DEF SyncTyped, Linked, EventsOnly, Phase

\* The actions that change the core's state.
LEMMA SupCoreTyped ==
  ASSUME SyncTyped, SupRepoint \/ SupRebuild \/ SupReplay \/ SupEvent \/ SupFill
  PROVE  SyncTyped'
<1> USE Bounds DEF gateVars, wireVars, coreVars, supVars, openVars, sendVars, SupGoto
<1>1. CASE SupRepoint
  <2>1. live' \in Lives \cup {None} /\ sidIndex' \subseteq Sids
    BY <1>1 DEF SupRepoint, Repoint, SyncTyped, TypeOK, Lives
  <2>2. TypeOK'  BY <1>1, <2>1 DEF SupRepoint, SyncTyped, TypeOK
  <2> QED BY <1>1, <2>2 DEF SupRepoint, SyncTyped, Linked, EventsOnly, Phase
<1>2. CASE SupRebuild
  <2>1. sup.msgs \in Seq(Items) /\ sup.rec \in Records /\ sup.rec.epoch \in Epochs
    BY <1>2, SupTyped DEF SupRebuild, SyncTyped, Linked, Phase, Records
  <2>2. historyEpoch' \in Nat /\ historyEpoch' = historyEpoch + 1
    BY <1>2 DEF SupRebuild, Rebuild, SyncTyped, TypeOK
  <2>3. live' \in Lives \cup {None}
    BY <1>2, <2>1, <2>2 DEF SupRebuild, Rebuild, SyncTyped, TypeOK, Lives
  <2>4. rec' \in Records \cup {None}
    <3>1. [seen |-> 0, epoch |-> sup.rec.epoch] \in Records  BY <2>1 DEF Records
    <3> QED BY <1>2, <3>1 DEF SupRebuild, Rebuild, SyncTyped, TypeOK
  <2>5. sup' \in Sups /\ sup'.todo = <<>>  BY <1>2, SupTyped DEF SupRebuild
  <2>6. TypeOK'
    BY <1>2, <2>2, <2>3, <2>4, <2>5 DEF SupRebuild, SyncTyped, TypeOK, Sups
  <2> QED BY <1>2, <2>5, <2>6 DEF SupRebuild, SyncTyped, Linked, EventsOnly, Phase
<1>3. ASSUME spc \in {"replay", "fill"}, spc' = spc, sup.todo # <<>>,
             DeliverEvent(Head(sup.todo)), sup' = [sup EXCEPT !.todo = Tail(@)],
             UNCHANGED <<gateVars, wireVars, openVars, sendVars, gap>>
      PROVE  SyncTyped'
  <2>1. /\ Head(sup.todo) \in Items /\ Tail(sup.todo) \in Seq(Items)
        /\ IsEvent(Head(sup.todo)) /\ \A i \in DOMAIN Tail(sup.todo) : IsEvent(Tail(sup.todo)[i])
    BY <1>3, SupTyped, Cut DEF SyncTyped, EventsOnly
  <2>2. live' \in Lives \cup {None} /\ rec' \in Records \cup {None}
        /\ UNCHANGED <<sidIndex, historyEpoch>>
    BY <1>3, <2>1, Delivered
  <2>3. sup' \in Sups /\ sup'.todo = Tail(sup.todo) /\ sup'.rec = sup.rec
    BY <1>3, <2>1, SupTyped DEF Sups
  <2>4. TypeOK'  BY <1>3, <2>2, <2>3 DEF SyncTyped, TypeOK, Sups
  <2> QED BY <1>3, <2>1, <2>3, <2>4 DEF SyncTyped, Linked, EventsOnly, Phase
<1>4. CASE SupReplay
  <2>1. CASE sup.todo # <<>>
    BY <1>3, <1>4, <2>1 DEF SupReplay
  <2>2. CASE sup.todo = <<>>
    <3>1. /\ spc = "replay" /\ spc' = "loop" /\ rec' = Touch(rec, sup.rec.seen, sup.rec.epoch)
          /\ sup' = SupIdle
          /\ UNCHANGED <<gateVars, wireVars, live, sidIndex, historyEpoch, openVars, sendVars, gap>>
      BY <1>4, <2>2 DEF SupReplay
    <3>2. sup.rec \in Records /\ sup.rec.seen \in 0 .. MaxEvents /\ sup.rec.epoch \in Epochs
      BY <3>1, SupTyped DEF SyncTyped, Linked, Phase, Records
    <3>3. rec' \in Records \cup {None}
      BY <3>1, <3>2, Touched DEF SyncTyped, TypeOK, Touch
    <3>4. sup' \in Sups /\ sup'.todo = <<>>  BY <3>1, SupTyped
    <3>5. TypeOK'  BY <3>1, <3>3, <3>4 DEF SyncTyped, TypeOK, Sups
    <3> QED BY <3>1, <3>4, <3>5 DEF SyncTyped, Linked, EventsOnly, Phase
  <2> QED BY <2>1, <2>2
<1>5. CASE SupFill
  <2>1. CASE sup.todo # <<>>
    BY <1>3, <1>5, <2>1 DEF SupFill
  <2>2. CASE sup.todo = <<>>
    <3>1. /\ spc = "fill" /\ spc' = "loop"
          /\ UNCHANGED <<gateVars, wireVars, coreVars, sup, openVars, sendVars, gap>>
      BY <1>5, <2>2 DEF SupFill
    <3>2. TypeOK'  BY <3>1 DEF SyncTyped, TypeOK
    <3> QED BY <3>1, <3>2 DEF SyncTyped, Linked, EventsOnly, Phase
  <2> QED BY <2>1, <2>2
<1>6. CASE SupEvent
  <2>1. buffer \in Seq(Items) /\ buffer # <<>> /\ Len(buffer) <= Capacity
    BY <1>6 DEF SupEvent, SyncTyped, TypeOK
  <2>2. /\ Head(buffer) \in Items /\ buffer' \in Seq(Items) /\ Len(buffer') <= Capacity
        /\ IsEvent(Head(buffer)) /\ \A i \in DOMAIN buffer' : IsEvent(buffer'[i])
    BY <1>6, <2>1, Cut DEF SupEvent, SyncTyped, EventsOnly
  <2>3. live' \in Lives \cup {None} /\ rec' \in Records \cup {None}
        /\ UNCHANGED <<sidIndex, historyEpoch>>
    BY <1>6, <2>2, Delivered DEF SupEvent, SyncTyped, TypeOK
  <2>4. TypeOK'  BY <1>6, <2>2, <2>3 DEF SupEvent, SyncTyped, TypeOK
  <2>5. lagged = FALSE /\ UNCHANGED <<up, connNo, attached, lagged, spc, sup, npc, sends>>
    BY <1>6 DEF SupEvent, SyncTyped, TypeOK
  <2> QED BY <2>1, <2>2, <2>4, <2>5 DEF SyncTyped, Linked, EventsOnly, Phase
<1> QED BY <1>1, <1>2, <1>4, <1>5, <1>6

LEMMA TypedStep == SyncTyped /\ [Next]_vars => SyncTyped'
<1> SUFFICES ASSUME SyncTyped, [Next]_vars PROVE SyncTyped'
  OBVIOUS
<1>1. CASE Next
  BY <1>1, GatewayTyped, SendTyped, OpenTyped, SupWireTyped, SupAskTyped, SupCoreTyped
  DEF Next, Supervisor
<1>2. CASE UNCHANGED vars
  <2>1. TypeOK'
    BY <1>2 DEF vars, gateVars, wireVars, coreVars, supVars, openVars, sendVars, SyncTyped, TypeOK
  <2> QED BY <1>2, <2>1 DEF vars, gateVars, wireVars, coreVars, supVars, openVars, sendVars,
          SyncTyped, Linked, EventsOnly, Phase
<1> QED BY <1>1, <1>2

LEMMA TypedAlways == Spec => []SyncTyped
BY TypedInit, TypedStep, PTL DEF Spec

-----------------------------------------------------------------------------
(* A user message has one row                                               *)

Once(s)  == \A i, j \in DOMAIN s : s[i] = s[j] /\ s[i][1] = 0 => i = j
Sent(s)  == \A i \in DOMAIN s : s[i][1] = 0 => s[i][2] <= sends
Lacks(s) == \A i \in DOMAIN s : s[i] # <<0, sends>>

\* Every copy of the conversation has each message at most once, and lacks the
\* one that is being sent for as long as it is not stored.  A send that may
\* still append its row finds the epoch it started with only in a transcript
\* that has not been rebuilt since, which lacks the message too.
UserInv ==
  /\ Once(history) /\ Once(sup.msgs) /\ Once(opened.msgs)
  /\ Sent(history) /\ Sent(sup.msgs) /\ Sent(opened.msgs)
  /\ live # None => Once(live.rows) /\ Sent(live.rows) /\ live.epoch <= historyEpoch
  /\ npc = "submit" =>
       /\ Lacks(history) /\ Lacks(sup.msgs) /\ Lacks(opened.msgs)
       /\ live # None => Lacks(live.rows)
  /\ npc = "append" /\ live # None /\ live.epoch = sending.epoch => Lacks(live.rows)
  /\ npc # "idle" => sending.epoch <= historyEpoch

LEMMA EventAppended ==
  ASSUME NEW s \in Seq(Items), NEW x \in Items, x[1] # 0
  PROVE  /\ Once(s) => Once(Append(s, x))
         /\ Sent(s) => Sent(Append(s, x))
         /\ Lacks(s) => Lacks(Append(s, x))
<1>1. /\ Append(s, x) \in Seq(Items) /\ Len(Append(s, x)) = Len(s) + 1
      /\ Append(s, x)[Len(s) + 1] = x
      /\ \A i \in 1 .. Len(s) : Append(s, x)[i] = s[i]
  BY Appended
<1>2. DOMAIN s = 1 .. Len(s) /\ DOMAIN Append(s, x) = 1 .. Len(s) + 1 /\ Len(s) \in Nat
  BY <1>1
<1> QED BY <1>1, <1>2 DEF Once, Sent, Lacks

LEMMA MessageAppended ==
  ASSUME NEW s \in Seq(Items), Once(s), Sent(s), Lacks(s), <<0, sends>> \in Items
  PROVE  Once(Append(s, <<0, sends>>)) /\ Sent(Append(s, <<0, sends>>))
<1> DEFINE x == <<0, sends>>
<1>1. /\ Append(s, x) \in Seq(Items) /\ Len(Append(s, x)) = Len(s) + 1
      /\ Append(s, x)[Len(s) + 1] = x
      /\ \A i \in 1 .. Len(s) : Append(s, x)[i] = s[i]
  BY Appended
<1>2. DOMAIN s = 1 .. Len(s) /\ DOMAIN Append(s, x) = 1 .. Len(s) + 1 /\ Len(s) \in Nat
  BY <1>1
<1>3. sends \in Nat  BY DEF Items
<1> QED BY <1>1, <1>2, <1>3 DEF Once, Sent, Lacks

LEMMA UserInit == Init => UserInv
BY DEF Init, UserInv, Once, Sent, Lacks, SupIdle, OpenIdle

LEMMA UserGateway ==
  ASSUME SyncTyped, UserInv, Gateway \/ Restart
  PROVE  UserInv'
<1> USE DEF gateVars, wireVars, coreVars, supVars, openVars, sendVars
<1>1. UNCHANGED <<coreVars, supVars, openVars, sendVars>>
  BY DEF Gateway, Emit, Truncate, LoseConnection, Restart, Disconnected
<1>2. CASE history' = history
  BY <1>1, <1>2 DEF UserInv, Once, Sent, Lacks
<1>3. CASE Emit
  <2>1. history \in Seq(Items) /\ <<epoch, emitted + 1>> \in Items /\ epoch # 0
    <3>1. epoch \in 1 .. MaxEpochs /\ emitted + 1 \in 1 .. MaxEvents
      BY <1>3, Bounds DEF Emit, SyncTyped, TypeOK
    <3> QED BY <3>1, EventItem DEF SyncTyped, TypeOK
  <2> DEFINE h == Append(history, <<epoch, emitted + 1>>)
  <2>2. history' = h /\ Once(h) /\ Sent(h) /\ (Lacks(history) => Lacks(h))
    BY <1>3, <2>1, EventAppended DEF UserInv, Emit
  <2> HIDE DEF h
  <2> QED BY <1>1, <2>2 DEF UserInv, Once, Sent, Lacks
<1> QED BY <1>2, <1>3 DEF Gateway, Truncate, LoseConnection, Restart, Disconnected

\* A row for an event changes nothing here.
LEMMA UserDelivered ==
  ASSUME SyncTyped, UserInv, NEW x \in Items, IsEvent(x), DeliverEvent(x),
         sup'.msgs = sup.msgs, UNCHANGED <<history, opened, npc, sending, sends>>
  PROVE  UserInv'
<1>1. x[1] # 0  BY ItemParts DEF IsEvent
<1>2. CASE live = None
  <2>1. live' = None /\ historyEpoch' = historyEpoch  BY <1>2, Delivered
  <2> QED BY <1>2, <2>1 DEF UserInv, Once, Sent, Lacks
<1>3. CASE live # None
  <2>1. /\ live' # None /\ live'.rows = Append(live.rows, x) /\ live'.epoch = live.epoch
        /\ historyEpoch' = historyEpoch
    BY <1>3, Delivered
  <2>2. live.rows \in Seq(Items)  BY <1>3 DEF SyncTyped, TypeOK, Lives
  <2> DEFINE r == Append(live.rows, x)
  <2>3. /\ Once(live.rows) => Once(r)
        /\ Sent(live.rows) => Sent(r)
        /\ Lacks(live.rows) => Lacks(r)
    BY <1>1, <2>2, EventAppended
  <2>4. live'.rows = r  BY <2>1
  <2> HIDE DEF r
  <2> QED BY <1>3, <2>1, <2>3, <2>4 DEF UserInv, Once, Sent, Lacks
<1> QED BY <1>2, <1>3

LEMMA UserSupervisor ==
  ASSUME SyncTyped, UserInv, Supervisor
  PROVE  UserInv'
<1> USE DEF gateVars, wireVars, coreVars, supVars, openVars, sendVars, SupGoto
<1>0. Once(<<>>) /\ Sent(<<>>) /\ Lacks(<<>>) /\ SupIdle.msgs = <<>>
  BY DEF Once, Sent, Lacks, SupIdle
\* What leaves the transcript alone may forget or replace the reply it holds.
<1>1. ASSUME UNCHANGED <<history, live, historyEpoch, opened, npc, sending, sends>>,
             \/ sup'.msgs = sup.msgs \/ sup'.msgs = <<>> \/ sup'.msgs = history
      PROVE  UserInv'
  BY <1>0, <1>1 DEF UserInv, Once, Sent, Lacks
<1>2. CASE SupReconnect \/ SupRecord \/ SupLag
  BY <1>1, <1>2, SupTyped DEF SupReconnect, SupRecord, SupLag
<1>3. CASE SupResume
  <2>1. CASE sup' = SupIdle
    BY <1>1, <1>3, <2>1, SupTyped DEF SupResume
  <2>2. CASE sup' = [sup EXCEPT !.msgs = history]
    <3>1. sup'.msgs = history  BY <2>2, SupTyped DEF Sups
    <3> QED BY <1>1, <1>3, <3>1 DEF SupResume
  <2> QED BY <1>3, <2>1, <2>2 DEF SupResume
<1>4. CASE SupSince
  <2>1. CASE sup' = SupIdle
    BY <1>1, <1>4, <2>1, SupTyped DEF SupSince
  <2>2. CASE sup' = [sup EXCEPT !.todo = Missed(sup.rec.seen),
                                !.rec = [seen |-> emitted, epoch |-> epoch]]
    <3>1. sup'.msgs = sup.msgs  BY <2>2, SupTyped DEF Sups
    <3> QED BY <1>1, <1>4, <3>1 DEF SupSince
  <2> QED BY <1>4, <2>1, <2>2 DEF SupSince
<1>5. CASE SupCatchUp
  <2>1. sup'.msgs = <<>>  BY <1>5 DEF SupCatchUp, SupIdle
  <2> QED BY <1>1, <1>5, <2>1 DEF SupCatchUp
<1>6. CASE SupRepoint
  <2>1. CASE live' = live
    BY <1>1, <1>6, <2>1 DEF SupRepoint, Repoint
  <2>2. CASE live # None /\ live' = [live EXCEPT !.sid = connNo]
    <3>1. live \in Lives  BY <2>2 DEF SyncTyped, TypeOK
    <3>2. live'.rows = live.rows /\ live'.epoch = live.epoch
      BY <2>2, <3>1 DEF Lives
    <3> QED BY <1>6, <2>2, <3>2 DEF SupRepoint, UserInv, Once, Sent, Lacks
  <2> QED BY <1>6, <2>1, <2>2 DEF SupRepoint, Repoint
<1>7. CASE SupRebuild
  <2>1. historyEpoch' = historyEpoch + 1 /\ historyEpoch \in Nat /\ sup'.msgs = <<>>
        /\ UNCHANGED <<history, opened, npc, sending, sends>>
    BY <1>0, <1>7 DEF SupRebuild, Rebuild, SyncTyped, TypeOK
  <2>2. CASE live = None
    BY <1>0, <1>7, <2>1, <2>2 DEF SupRebuild, Rebuild, UserInv, Once, Sent, Lacks, SyncTyped, TypeOK
  <2>3. CASE live # None
    <3>1. live \in Lives  BY <2>3 DEF SyncTyped, TypeOK
    <3>2. live'.rows = sup.msgs /\ live'.epoch = historyEpoch + 1
      BY <1>7, <2>3, <3>1 DEF SupRebuild, Rebuild, Lives
    <3>3. sending.epoch \in Nat  BY DEF SyncTyped, TypeOK
    <3> QED BY <1>0, <2>1, <2>3, <3>2, <3>3 DEF UserInv, Once, Sent, Lacks
  <2> QED BY <2>2, <2>3
<1>8. ASSUME sup.todo # <<>>, DeliverEvent(Head(sup.todo)),
             sup' = [sup EXCEPT !.todo = Tail(@)],
             UNCHANGED <<gateVars, openVars, sendVars>>
      PROVE  UserInv'
  <2>1. Head(sup.todo) \in Items /\ IsEvent(Head(sup.todo)) /\ sup'.msgs = sup.msgs
    BY <1>8, SupTyped, Cut DEF SyncTyped, EventsOnly, Sups
  <2> QED BY <1>8, <2>1, UserDelivered
<1>9. CASE SupReplay \/ SupFill
  <2>1. CASE sup.todo # <<>>
    BY <1>8, <1>9, <2>1 DEF SupReplay, SupFill
  <2>2. CASE sup.todo = <<>>
    BY <1>0, <1>1, <1>9, <2>2 DEF SupReplay, SupFill
  <2> QED BY <2>1, <2>2
<1>10. CASE SupEvent
  <2>1. CASE UNCHANGED coreVars
    BY <1>1, <1>10, <2>1 DEF SupEvent
  <2>2. CASE DeliverEvent(Head(buffer))
    <3>1. Head(buffer) \in Items /\ IsEvent(Head(buffer))
      BY <1>10, Cut DEF SupEvent, SyncTyped, TypeOK, EventsOnly
    <3> QED BY <1>10, <2>2, <3>1, UserDelivered DEF SupEvent
  <2> QED BY <1>10, <2>1, <2>2 DEF SupEvent
<1> QED BY <1>2, <1>3, <1>4, <1>5, <1>6, <1>7, <1>9, <1>10 DEF Supervisor

LEMMA UserOpen ==
  ASSUME SyncTyped, UserInv, Open
  PROVE  UserInv'
<1> USE DEF gateVars, wireVars, coreVars, supVars, openVars, sendVars
<1>1. CASE OpenStart \/ Close
  BY <1>1 DEF OpenStart, Close, UserInv, Once, Sent, Lacks
<1>2. CASE OpenResume
  <2>1. opened'.msgs = opened.msgs \/ opened'.msgs = history
    BY <1>2 DEF OpenResume
  <2> QED BY <1>2, <2>1 DEF OpenResume, UserInv, Once, Sent, Lacks
<1>3. CASE OpenInstall
  <2>1. /\ live'.rows = opened.msgs /\ live'.epoch = historyEpoch + 1 /\ opened'.msgs = <<>>
        /\ historyEpoch' = historyEpoch + 1
        /\ UNCHANGED <<history, sup, npc, sending, sends>>
    BY <1>3 DEF OpenInstall, OpenIdle
  <2>2. historyEpoch \in Nat /\ sending.epoch \in Nat  BY DEF SyncTyped, TypeOK
  <2> QED BY <2>1, <2>2 DEF UserInv, Once, Sent, Lacks
<1> QED BY <1>1, <1>2, <1>3 DEF Open

LEMMA UserSend ==
  ASSUME SyncTyped, UserInv, Send
  PROVE  UserInv'
<1> USE DEF gateVars, wireVars, coreVars, supVars, openVars, sendVars
<1>1. CASE SendStart
  <2>1. /\ npc' = "submit" /\ sends' = sends + 1 /\ sending'.epoch = live.epoch
        /\ live # None /\ UNCHANGED <<history, live, historyEpoch, sup, opened>>
    BY <1>1 DEF SendStart
  <2>2. ASSUME NEW s \in Seq(Items), Sent(s)
        PROVE  /\ \A i \in DOMAIN s : s[i][1] = 0 => s[i][2] <= sends + 1
               /\ \A i \in DOMAIN s : s[i] # <<0, sends + 1>>
    <3>1. \A i \in DOMAIN s : s[i] \in Items  OBVIOUS
    <3>2. \A i \in DOMAIN s : s[i][2] \in Nat  BY <3>1, ItemParts, Bounds
    <3>3. sends \in Nat  BY DEF SyncTyped, TypeOK
    <3> QED BY <2>2, <3>2, <3>3 DEF Sent
  <2>3. /\ history \in Seq(Items) /\ sup.msgs \in Seq(Items) /\ opened.msgs \in Seq(Items)
        /\ live.rows \in Seq(Items)
    BY <2>1 DEF SyncTyped, TypeOK, Lives
  <2> QED BY <2>1, <2>2, <2>3 DEF UserInv, Once, Sent, Lacks
<1>2. npc # "idle" => <<0, sends>> \in Items
  <2>1. npc # "idle" => sends \in 1 .. MaxEvents + MaxSends
    BY Bounds DEF SyncTyped, TypeOK, Linked
  <2> QED BY <2>1, Bounds DEF Items
<1>3. CASE SendSubmit
  <2>1. CASE history' = history
    BY <1>3, <2>1 DEF SendSubmit, UserInv, Once, Sent, Lacks
  <2>2. CASE history' = Append(history, <<0, sends>>)
    <3> DEFINE h == Append(history, <<0, sends>>)
    <3>1. Once(h) /\ Sent(h)
      BY <1>2, <1>3, MessageAppended DEF SendSubmit, UserInv, SyncTyped, TypeOK
    <3>2. history' = h  BY <2>2
    <3>3. npc = "submit" /\ npc' \in {"append", "idle"} /\ (npc' = "append" => sending' = sending)
      BY <1>3 DEF SendSubmit
    <3>4. UNCHANGED <<live, historyEpoch, sup, opened, sends>>
      BY <1>3 DEF SendSubmit
    <3> HIDE DEF h
    <3> QED BY <3>1, <3>2, <3>3, <3>4 DEF UserInv, Once, Sent, Lacks
  <2> QED BY <1>3, <2>1, <2>2 DEF SendSubmit
<1>4. CASE SendAppend
  <2>1. CASE live' = live
    BY <1>4, <2>1 DEF SendAppend, UserInv, Once, Sent, Lacks
  <2>2. CASE /\ live # None /\ live.epoch = sending.epoch
             /\ live' = [live EXCEPT !.rows = Append(@, <<0, sends>>)]
    <3>1. live \in Lives /\ live.rows \in Seq(Items)
      BY <2>2 DEF SyncTyped, TypeOK, Lives
    <3>2. PICK r : r = Append(live.rows, <<0, sends>>)
      OBVIOUS
    <3>3. Once(r) /\ Sent(r)
      BY <1>2, <1>4, <2>2, <3>1, <3>2, MessageAppended DEF SendAppend, UserInv
    <3>4. live'.rows = r /\ live'.epoch = live.epoch
      BY <1>2, <1>4, <2>2, <3>1, <3>2, RowAdded DEF SendAppend
    <3>5. npc' = "idle" /\ UNCHANGED <<history, historyEpoch, sup, opened, sends>>
      BY <1>4 DEF SendAppend
    <3>6. Once(live'.rows) /\ Sent(r)'
      BY <3>3, <3>4, <3>5 DEF Sent
    <3> QED BY <2>2, <3>4, <3>5, <3>6 DEF UserInv, Once, Sent
  <2> QED BY <1>4, <2>1, <2>2 DEF SendAppend
<1> QED BY <1>1, <1>3, <1>4 DEF Send

LEMMA UserStep == SyncTyped /\ UserInv /\ [Next]_vars => UserInv'
<1> SUFFICES ASSUME SyncTyped, UserInv, [Next]_vars PROVE UserInv'
  OBVIOUS
<1>1. CASE Next
  BY <1>1, UserGateway, UserSupervisor, UserOpen, UserSend DEF Next
<1>2. CASE UNCHANGED vars
  BY <1>2 DEF vars, gateVars, wireVars, coreVars, supVars, openVars, sendVars,
     UserInv, Once, Sent, Lacks
<1> QED BY <1>1, <1>2

LEMMA UserAlways == Spec => []UserInv
BY UserInit, UserStep, TypedAlways, PTL DEF Spec

-----------------------------------------------------------------------------
(* Positions in the stream of events                                        *)

Marks == Nat \X Nat

Leq(x, y) == x[1] < y[1] \/ (x[1] = y[1] /\ x[2] <= y[2])

\* S has every event of history h up to mark m, and m is not ahead of top, the
\* last event emitted.
Got(S, m, h, top) ==
  /\ Leq(m, top)
  /\ \A x \in ToSet(h) : x[1] # 0 /\ Leq(x, m) => x \in S

Top == <<epoch, emitted>>

LEMMA LeqTrans ==
  ASSUME NEW x \in Marks, NEW y \in Marks, NEW z \in Marks, Leq(x, y), Leq(y, z)
  PROVE  Leq(x, z)
BY DEF Marks, Leq

LEMMA ItemsAreMarks == Items \subseteq Marks
BY Bounds DEF Items, Marks

LEMMA InSet ==
  ASSUME NEW S, NEW s \in Seq(S)
  PROVE  ToSet(s) \subseteq S
BY DEF ToSet

LEMMA GotMore ==
  ASSUME NEW S, NEW T, NEW m, NEW h, NEW top, Got(S, m, h, top), S \subseteq T
  PROVE  Got(T, m, h, top)
BY DEF Got

LEMMA GotLess ==
  ASSUME NEW S, NEW m \in Marks, NEW k \in Marks, NEW h \in Seq(Items), NEW top \in Marks,
         Got(S, m, h, top), Leq(k, m)
  PROVE  Got(S, k, h, top)
<1>1. Leq(k, top)  BY LeqTrans DEF Got
<1>2. ASSUME NEW x \in ToSet(h), x[1] # 0, Leq(x, k) PROVE x \in S
  <2>1. x \in Marks  BY InSet, ItemsAreMarks
  <2>2. Leq(x, m)  BY <1>2, <2>1, LeqTrans
  <2> QED BY <1>2, <2>2 DEF Got
<1> QED BY <1>1, <1>2 DEF Got

\* The history of events ends with the last one emitted.
HistoryPast == \A x \in ToSet(history) : x[1] # 0 => Leq(x, Top)

LEMMA TopMark ==
  ASSUME SyncTyped
  PROVE  Top \in Marks /\ history \in Seq(Items)
BY Bounds DEF SyncTyped, TypeOK, Top, Marks

\* What a step may do to the history: only a new event that is past all the
\* others, or a user message.
LEMMA HistoryGrows ==
  ASSUME SyncTyped, [Next]_vars
  PROVE  /\ Leq(Top, Top')
         /\ \A x \in ToSet(history') :
              x \in ToSet(history) \/ x[1] = 0 \/ (x = Top' /\ Top' = <<epoch, emitted + 1>>)
<1> USE DEF gateVars, wireVars, coreVars, supVars, openVars, sendVars, Top
<1>0. epoch \in Nat /\ emitted \in Nat  BY Bounds DEF SyncTyped, TypeOK
<1>1. CASE UNCHANGED <<epoch, emitted, history>>
  BY <1>0, <1>1 DEF Leq
<1>2. CASE Emit
  <2>1. <<epoch, emitted + 1>> \in Items
    <3>1. epoch \in 1 .. MaxEpochs /\ emitted + 1 \in 1 .. MaxEvents
      BY <1>2, Bounds DEF Emit, SyncTyped, TypeOK
    <3> QED BY <3>1, EventItem
  <2>2. ToSet(history') = ToSet(history) \cup {<<epoch, emitted + 1>>}
    BY <1>2, <2>1, TopMark, Appended DEF Emit
  <2> QED BY <1>0, <1>2, <2>2 DEF Emit, Leq
<1>3. CASE Restart
  BY <1>0, <1>3 DEF Restart, Disconnected, Leq
<1>4. CASE SendSubmit
  <2>1. <<0, sends>> \in Items
    <3>1. sends \in 1 .. MaxEvents + MaxSends
      BY <1>4, Bounds DEF SendSubmit, SyncTyped, TypeOK, Linked
    <3> QED BY <3>1, Bounds DEF Items
  <2>2. ToSet(Append(history, <<0, sends>>)) = ToSet(history) \cup {<<0, sends>>}
    BY <2>1, TopMark, Appended
  <2>3. history' = history \/ history' = Append(history, <<0, sends>>)
    BY <1>4 DEF SendSubmit
  <2>4. epoch' = epoch /\ emitted' = emitted  BY <1>4 DEF SendSubmit
  <2>5. CASE history' = history  BY <1>1, <2>4, <2>5
  <2>6. CASE history' = Append(history, <<0, sends>>)
    <3>1. ASSUME NEW x \in ToSet(history') PROVE x \in ToSet(history) \/ x[1] = 0
      BY <2>2, <2>6
    <3> QED BY <1>0, <2>4, <3>1 DEF Leq
  <2> QED BY <2>3, <2>5, <2>6
<1>5. CASE Truncate \/ LoseConnection
  BY <1>1, <1>5 DEF Truncate, LoseConnection, Disconnected
<1>6. CASE Supervisor
  BY <1>1, <1>6 DEF Supervisor, SupReconnect, SupRecord, SupResume, SupRepoint, SupSince,
     SupRebuild, SupReplay, SupEvent, SupLag, SupCatchUp, SupFill
<1>7. CASE Open
  BY <1>1, <1>7 DEF Open, OpenStart, OpenResume, OpenInstall, Close
<1>8. CASE SendStart \/ SendAppend
  BY <1>1, <1>8 DEF SendStart, SendAppend
<1>9. CASE UNCHANGED vars
  BY <1>1, <1>9 DEF vars
<1> QED BY <1>2, <1>3, <1>4, <1>5, <1>6, <1>7, <1>8, <1>9 DEF Next, Gateway, Send

LEMMA NextTopMark ==
  ASSUME SyncTyped, [Next]_vars
  PROVE  Top' \in Marks /\ history' \in Seq(Items)
<1>1. SyncTyped'  BY TypedStep
<1>2. epoch' \in 1 .. MaxEpochs /\ emitted' \in 0 .. MaxEvents /\ history' \in Seq(Items)
  BY <1>1 DEF SyncTyped, TypeOK
<1>3. epoch' \in Nat /\ emitted' \in Nat  BY <1>2, Bounds
<1> QED BY <1>2, <1>3 DEF Top, Marks

\* So what has been got up to a mark stays got.
LEMMA GotKept ==
  ASSUME SyncTyped, [Next]_vars, NEW S, NEW m \in Marks, Got(S, m, history, Top)
  PROVE  Got(S, m, history', Top')
<1>1. Top' \in Marks  BY NextTopMark
<1>2. Leq(m, Top')  BY <1>1, TopMark, HistoryGrows, LeqTrans DEF Got
<1>3. ~Leq(<<epoch, emitted + 1>>, m)
  BY TopMark DEF Got, Leq, Top, Marks
<1>4. ASSUME NEW x \in ToSet(history'), x[1] # 0, Leq(x, m) PROVE x \in S
  BY <1>3, <1>4, HistoryGrows DEF Got
<1> QED BY <1>2, <1>4 DEF Got

LEMMA PastStep ==
  ASSUME SyncTyped, HistoryPast, [Next]_vars
  PROVE  HistoryPast'
<1>1. Top' \in Marks  BY NextTopMark
<1>2. ASSUME NEW x \in ToSet(history'), x[1] # 0 PROVE Leq(x, Top')
  <2>1. CASE x \in ToSet(history)
    <3>1. x \in Marks  BY <2>1, TopMark, InSet, ItemsAreMarks
    <3> QED BY <1>1, <1>2, <2>1, <3>1, TopMark, HistoryGrows, LeqTrans DEF HistoryPast
  <2>2. CASE x = Top'
    BY <1>1, <2>2 DEF Leq, Marks
  <2> QED BY <1>2, <2>1, <2>2, HistoryGrows
<1> QED BY <1>2 DEF HistoryPast

-----------------------------------------------------------------------------
(* The broadcast                                                            *)

\* Events of one gateway process, none left out.
IsRun(s) == \A i \in DOMAIN s : s[i] = <<s[1][1], s[1][2] + (i - 1)>>

Before(s) == <<s[1][1], s[1][2] - 1>>

\* What the receiver holds is the end of what was emitted, for as long as the
\* session is attached.
BufferInv ==
  /\ IsRun(buffer)
  /\ attached /\ buffer # <<>> => buffer[Len(buffer)] = Top

LEMMA RunAppended ==
  ASSUME NEW s \in Seq(Items), NEW x \in Items, IsRun(s),
         s # <<>> => x = <<s[Len(s)][1], s[Len(s)][2] + 1>>
  PROVE  /\ IsRun(Append(s, x)) /\ Append(s, x) # <<>>
         /\ Append(s, x)[Len(Append(s, x))] = x
         /\ Append(s, x)[1] = IF s = <<>> THEN x ELSE s[1]
<1>1. /\ Append(s, x) \in Seq(Items) /\ Len(Append(s, x)) = Len(s) + 1
      /\ Append(s, x)[Len(s) + 1] = x
      /\ \A i \in 1 .. Len(s) : Append(s, x)[i] = s[i]
  BY Appended
<1>2. DOMAIN s = 1 .. Len(s) /\ DOMAIN Append(s, x) = 1 .. Len(s) + 1 /\ Len(s) \in Nat
  BY <1>1
<1>3. CASE s = <<>>
  <2>1. Len(s) = 0 /\ x = <<x[1], x[2]>> /\ x[2] \in Nat
    BY <1>3, ItemParts, Bounds
  <2>2. \A i \in DOMAIN Append(s, x) : i = 1  BY <1>2, <2>1
  <2>3. Append(s, x)[1] = x  BY <1>1, <2>1
  <2>4. x = <<x[1], x[2] + (1 - 1)>>  BY <2>1
  <2>5. IsRun(Append(s, x))  BY <2>2, <2>3, <2>4 DEF IsRun
  <2> QED BY <1>1, <1>3, <2>1, <2>3, <2>5
<1>4. CASE s # <<>>
  <2>1. Len(s) >= 1 /\ 1 \in DOMAIN s /\ Len(s) \in DOMAIN s /\ s[1] \in Items
    BY <1>2, <1>4
  <2>2. s[1][2] \in Nat /\ s[1][1] \in Nat  BY <2>1, ItemParts, Bounds
  <2>3. s[Len(s)] = <<s[1][1], s[1][2] + (Len(s) - 1)>>  BY <2>1 DEF IsRun
  <2>4. x = <<s[1][1], s[1][2] + Len(s)>>
    BY <1>2, <1>4, <2>2, <2>3
  <2>5. Append(s, x)[1] = s[1]  BY <1>1, <2>1
  <2>6. ASSUME NEW i \in DOMAIN Append(s, x)
        PROVE  Append(s, x)[i] = <<s[1][1], s[1][2] + (i - 1)>>
    <3>1. CASE i = Len(s) + 1
      BY <1>1, <1>2, <2>2, <2>4, <3>1
    <3>2. CASE i # Len(s) + 1
      <4>1. i \in DOMAIN s /\ Append(s, x)[i] = s[i]  BY <1>1, <1>2, <3>2
      <4> QED BY <4>1 DEF IsRun
    <3> QED BY <3>1, <3>2
  <2>7. IsRun(Append(s, x))  BY <2>5, <2>6 DEF IsRun
  <2> QED BY <1>1, <1>2, <1>4, <2>5, <2>7
<1> QED BY <1>3, <1>4

LEMMA RunCut ==
  ASSUME NEW s \in Seq(Items), s # <<>>, IsRun(s)
  PROVE  /\ IsRun(Tail(s)) /\ Head(s) = s[1] /\ s[1] \in Items
         /\ Tail(s) # <<>> =>
              /\ Tail(s)[1] = <<s[1][1], s[1][2] + 1>>
              /\ Tail(s)[Len(Tail(s))] = s[Len(s)]
         /\ Tail(s) = <<>> => s[1] = s[Len(s)]
<1>1. /\ Head(s) \in Items /\ Head(s) = s[1] /\ Tail(s) \in Seq(Items)
      /\ Len(s) >= 1 /\ Len(Tail(s)) = Len(s) - 1
      /\ \A i \in 1 .. Len(s) - 1 : Tail(s)[i] = s[i + 1]
  BY Cut
<1>2. DOMAIN s = 1 .. Len(s) /\ DOMAIN Tail(s) = 1 .. Len(s) - 1 /\ Len(s) \in Nat
  BY <1>1
<1>3. s[1][2] \in Nat /\ s[1][1] \in Nat  BY <1>1, ItemParts, Bounds
<1>4. ASSUME NEW i \in DOMAIN Tail(s)
      PROVE  Tail(s)[i] = <<s[1][1], s[1][2] + i>>
  <2>1. i + 1 \in DOMAIN s /\ Tail(s)[i] = s[i + 1] /\ (i + 1) - 1 = i
    BY <1>1, <1>2
  <2> QED BY <2>1 DEF IsRun
<1>5. CASE Tail(s) = <<>>
  <2>1. Len(s) = 1
    <3>1. ASSUME Len(s) # 1 PROVE FALSE
      <4>1. Len(Tail(s)) # 0  BY <1>1, <1>2, <3>1
      <4>2. Len(<<>>) = 0  OBVIOUS
      <4> QED BY <1>5, <4>1, <4>2
    <3> QED BY <3>1
  <2> QED BY <1>1, <1>5, <2>1 DEF IsRun
<1>6. CASE Tail(s) # <<>>
  <2>1. Len(s) >= 2 /\ 1 \in DOMAIN Tail(s) /\ Len(Tail(s)) \in DOMAIN Tail(s)
    BY <1>1, <1>2, <1>6
  <2>2. Tail(s)[1] = <<s[1][1], s[1][2] + 1>>  BY <1>4, <2>1
  <2>3. ASSUME NEW i \in DOMAIN Tail(s)
        PROVE  Tail(s)[i] = <<Tail(s)[1][1], Tail(s)[1][2] + (i - 1)>>
    <3>1. (s[1][2] + 1) + (i - 1) = s[1][2] + i  BY <1>2, <1>3
    <3> QED BY <1>4, <2>2, <3>1
  <2>4. Tail(s)[Len(Tail(s))] = s[Len(s)]
    <3>1. Len(Tail(s)) \in 1 .. Len(s) - 1 /\ Len(Tail(s)) + 1 = Len(s)
      BY <1>1, <1>2, <2>1
    <3> QED BY <1>1, <3>1
  <2>5. IsRun(Tail(s))  BY <2>3 DEF IsRun
  <2> QED BY <1>1, <2>2, <2>4, <2>5, <1>6
<1> QED BY <1>5, <1>6

LEMMA EmitBuffer ==
  ASSUME SyncTyped, BufferInv, Emit
  PROVE  /\ ~attached => UNCHANGED <<buffer, lagged>>
         /\ attached =>
              /\ IsRun(buffer') /\ buffer' # <<>> /\ buffer'[Len(buffer')] = Top'
              /\ ~lagged' => ~lagged /\ buffer'[1] = IF buffer = <<>> THEN Top' ELSE buffer[1]
<1> DEFINE item == <<epoch, emitted + 1>>
<1>1. item \in Items
  <2>1. epoch \in 1 .. MaxEpochs /\ emitted + 1 \in 1 .. MaxEvents
    BY Bounds DEF Emit, SyncTyped, TypeOK
  <2> QED BY <2>1, EventItem
<1>2. Top' = item  BY DEF Emit, Top
<1> HIDE DEF item
<1>3. buffer \in Seq(Items)  BY DEF SyncTyped, TypeOK
<1>4. buffer # <<>> /\ attached => item = <<buffer[Len(buffer)][1], buffer[Len(buffer)][2] + 1>>
  BY DEF BufferInv, Top, item
<1>5. CASE ~attached
  BY <1>5 DEF Emit
<1>6. CASE attached /\ Len(buffer) < Capacity
  <2>1. buffer' = Append(buffer, item) /\ lagged' = lagged
    BY <1>6 DEF Emit, Broadcast, item, SyncTyped, Linked
  <2> QED BY <1>1, <1>2, <1>3, <1>4, <1>6, <2>1, RunAppended DEF BufferInv
<1>7. CASE attached /\ ~(Len(buffer) < Capacity)
  <2>1. buffer' = Append(Tail(buffer), item) /\ lagged' = TRUE
    BY <1>7 DEF Emit, Broadcast, item, SyncTyped, Linked
  <2>2. buffer # <<>>  BY <1>7, Bounds
  <2>3. /\ IsRun(Tail(buffer)) /\ Tail(buffer) \in Seq(Items)
        /\ Tail(buffer) # <<>> => Tail(buffer)[Len(Tail(buffer))] = buffer[Len(buffer)]
    BY <1>3, <2>2, RunCut, Cut DEF BufferInv
  <2> QED BY <1>1, <1>2, <1>4, <1>7, <2>1, <2>2, <2>3, RunAppended
<1> QED BY <1>5, <1>6, <1>7

LEMMA BufferStep ==
  ASSUME SyncTyped, BufferInv, [Next]_vars
  PROVE  BufferInv'
<1> USE DEF gateVars, wireVars, coreVars, supVars, openVars, sendVars
<1>1. ASSUME buffer' = buffer, ~attached' \/ UNCHANGED <<epoch, emitted>>, attached' => up, up' = up
      PROVE  BufferInv'
  BY <1>1 DEF BufferInv, Top, SyncTyped, Linked
<1>2. CASE Emit
  <2>1. CASE attached
    BY <1>2, <2>1, EmitBuffer DEF BufferInv
  <2>2. CASE ~attached
    BY <1>2, <2>2, EmitBuffer DEF BufferInv, Emit
  <2> QED BY <2>1, <2>2
<1>3. CASE Restart \/ LoseConnection
  BY <1>3 DEF Restart, LoseConnection, Disconnected, BufferInv
<1>4. CASE SupReconnect
  BY <1>4 DEF SupReconnect, BufferInv, IsRun
<1>5. CASE SupEvent
  <2>1. buffer \in Seq(Items) /\ buffer # <<>> /\ buffer' = Tail(buffer)
        /\ UNCHANGED <<epoch, emitted, attached>>
    BY <1>5 DEF SupEvent, SyncTyped, TypeOK
  <2>2. IsRun(Tail(buffer))  BY <2>1, RunCut DEF BufferInv
  <2>3. attached /\ Tail(buffer) # <<>> => Tail(buffer)[Len(Tail(buffer))] = Top
    BY <2>1, RunCut DEF BufferInv
  <2> QED BY <2>1, <2>2, <2>3 DEF BufferInv, Top
<1>6. CASE Truncate \/ Send \/ UNCHANGED vars
  BY <1>1, <1>6 DEF Truncate, Send, SendStart, SendSubmit, SendAppend, vars, SyncTyped, Linked
<1>7. CASE Open
  BY <1>1, <1>7 DEF Open, OpenStart, OpenResume, OpenInstall, Close, SyncTyped, Linked
<1>8. CASE SupRecord \/ SupResume \/ SupRepoint \/ SupSince \/ SupRebuild \/ SupReplay
           \/ SupLag \/ SupCatchUp \/ SupFill
  BY <1>1, <1>8 DEF SupRecord, SupResume, SupRepoint, SupSince, SupRebuild, SupReplay,
     SupLag, SupCatchUp, SupFill, SyncTyped, Linked
<1> QED BY <1>2, <1>3, <1>4, <1>5, <1>6, <1>7, <1>8 DEF Next, Gateway, Supervisor

-----------------------------------------------------------------------------
(* A session that is only resumed                                           *)

Mark == <<rec.epoch, rec.seen>>
SupMark == <<sup.rec.epoch, sup.rec.seen>>
Todo == ToSet(sup.todo)
Reply == ToSet(sup.msgs)

\* S has everything before the next event of the stream, or, when nothing is
\* on its way, everything emitted.
StreamHas(S) ==
  /\ buffer # <<>> => Got(S, Before(buffer), history, Top)
  /\ buffer = <<>> /\ attached => Got(S, Top, history, Top)

\* The events on their way, and those to come on this connection, are of e.
OfConnection(e) ==
  /\ buffer # <<>> => buffer[1][1] = e
  /\ attached => epoch = e

\* Where the supervisor is, and what that says of the connection and the core.
Placed ==
  /\ rec # None /\ live.sid \in sidIndex
  /\ Phase({"record", "resume"}) => ~attached /\ buffer = <<>>
  /\ Phase({"repoint", "since", "rebuild", "replay", "catch", "fill"}) /\ up => attached
  /\ spc # "repoint" /\ (attached \/ buffer # <<>>) => live.sid = connNo
  /\ Phase({"resume", "repoint", "since", "catch"}) => sup.rec = rec

\* The reply of session.resume has everything before the stream it opened.
Replied ==
  /\ Phase({"repoint", "since"}) /\ up => Got(Reply, <<epoch, 0>>, history, Top)
  /\ Phase({"repoint", "since", "rebuild"}) /\ ~lagged => StreamHas(Reply)
  /\ spc = "rebuild" =>
       /\ Got(Reply, <<sup.rec.epoch, 0>>, history, Top)
       /\ OfConnection(sup.rec.epoch)

\* The transcript has everything up to the watermark.
Watermarked == rec.epoch >= 1 /\ Got(Shown, Mark, history, Top)

\* The transcript, with what a replay or a fill is about to add, has everything
\* before the stream, unless the receiver has lagged and has yet to be told.
Streaming ==
  /\ Phase({"loop", "catch", "fill", "replay"}) => OfConnection(rec.epoch)
  /\ spc = "loop" /\ ~lagged => StreamHas(Shown)
  /\ Phase({"fill", "replay"}) /\ ~lagged => StreamHas(Shown \cup Todo)

\* A replay or a fill goes on from what the transcript has, and a replay ends
\* where the reply said the log ended.
Replaying ==
  /\ Phase({"fill", "replay"}) /\ sup.todo # <<>> =>
       /\ IsRun(sup.todo) /\ sup.todo[1][1] = rec.epoch
       /\ Got(Shown, Before(sup.todo), history, Top)
  /\ spc = "replay" =>
       /\ sup.rec.epoch = rec.epoch
       /\ Got(Shown \cup Todo, SupMark, history, Top)

\* What is in the broadcast or in a reply was emitted.
NothingAhead == \A x \in ToSet(buffer) \cup Todo : Leq(x, Top)

Following ==
  OnlyResumed =>
    /\ opc = "idle"
    /\ live # None =>
         /\ Placed /\ Replied
         /\ ~gap => Watermarked /\ Streaming /\ Replaying

SyncInv == SyncTyped /\ HistoryPast /\ BufferInv /\ NothingAhead /\ Following

LEMMA SyncInit == Init => SyncInv
<1> SUFFICES ASSUME Init PROVE SyncInv
  OBVIOUS
<1>1. SyncTyped  BY TypedInit
<1>2. history = <<>> /\ ToSet(history) = {} /\ buffer = <<>>
  BY DEF Init, ToSet
<1>3. HistoryPast /\ BufferInv /\ NothingAhead
  <2>1. sup.todo = <<>>  BY DEF Init, SupIdle
  <2>2. Todo = {} /\ ToSet(buffer) = {}  BY <1>2, <2>1 DEF Todo, ToSet
  <2> QED BY <1>2, <2>2 DEF HistoryPast, BufferInv, IsRun, NothingAhead
<1>4. ASSUME live # None
      PROVE  /\ OpenAtStart /\ live.sid = 1 /\ live.rows = <<>> /\ rec.epoch = 1 /\ rec.seen = 0
             /\ rec # None /\ sidIndex = {1}
  <2>1. OpenAtStart  BY <1>4 DEF Init
  <2>2. live.sid = 1 /\ live.rows = <<>> /\ rec = [seen |-> 0, epoch |-> 1] /\ sidIndex = {1}
    BY <2>1 DEF Init
  <2>3. rec # None
    <3>1. [seen |-> 0, epoch |-> 1] \in Records  BY Bounds DEF Records, Epochs
    <3> QED BY <2>2, <3>1, NoneIsNone
  <2> QED BY <2>1, <2>2, <2>3
<1>5. ASSUME live # None PROVE Placed /\ Replied /\ Watermarked /\ Streaming /\ Replaying
  <2>1. \A S : Got(S, <<1, 0>>, history, Top)
    BY <1>2 DEF Got, Leq, Top, Init
  <2>2. Placed /\ Replied /\ Replaying
    BY <1>2, <1>4, <1>5 DEF Init, Placed, Replied, Replaying, Phase
  <2>3. Watermarked  BY <1>4, <1>5, <2>1 DEF Watermarked, Mark
  <2>4. Streaming
    BY <1>2, <1>4, <1>5, <2>1 DEF Init, Streaming, Phase, OfConnection, StreamHas, Top
  <2> QED BY <2>2, <2>3, <2>4
<1>6. Following  BY <1>5 DEF Following, Init
<1> QED BY <1>1, <1>3, <1>6 DEF SyncInv

-----------------------------------------------------------------------------
(* What is on its way was emitted                                           *)

LEMMA BeforeFirst ==
  ASSUME NEW s \in Seq(Items), s # <<>>
  PROVE  /\ s[1] \in Items /\ s[1] \in ToSet(s) /\ Len(s) \in DOMAIN s
         /\ s[1][1] \in Nat /\ s[1][2] \in Nat \ {0}
         /\ s[1] = <<s[1][1], s[1][2]>>
         /\ Before(s) \in Marks /\ s[1] \in Marks
<1>1. 1 \in DOMAIN s /\ Len(s) \in DOMAIN s /\ s[1] \in Items
  OBVIOUS
<1>2. s[1][1] \in Nat /\ s[1][2] \in Nat \ {0} /\ s[1] = <<s[1][1], s[1][2]>>
  BY <1>1, ItemParts, Bounds
<1>3. s[1] \in ToSet(s)  BY <1>1 DEF ToSet
<1> QED BY <1>1, <1>2, <1>3, ItemsAreMarks DEF Before, Marks

LEMMA AheadStep ==
  ASSUME SyncTyped, NothingAhead, [Next]_vars
  PROVE  NothingAhead'
<1> USE DEF gateVars, wireVars, coreVars, supVars, openVars, sendVars, SupGoto
<1>1. Top' \in Marks /\ Top \in Marks /\ Leq(Top, Top')
  BY NextTopMark, TopMark, HistoryGrows
<1>2. buffer \in Seq(Items) /\ sup.todo \in Seq(Items) /\ SupIdle.todo = <<>>
  BY SupTyped DEF SyncTyped, TypeOK
<1>3. ASSUME NEW x \in ToSet(buffer) \cup ToSet(sup.todo) PROVE Leq(x, Top')
  <2>1. x \in Marks  BY <1>2, InSet, ItemsAreMarks
  <2> QED BY <1>1, <2>1, LeqTrans DEF NothingAhead, Todo
<1>4. ASSUME /\ ToSet(buffer') \subseteq ToSet(buffer) \cup {Top'}
             /\ ToSet(sup'.todo) \subseteq ToSet(sup.todo)
      PROVE  NothingAhead'
  <2>1. Leq(Top', Top')  BY <1>1 DEF Leq, Marks
  <2> QED BY <1>3, <1>4, <2>1 DEF NothingAhead, Todo
<1>5. \A s : s = <<>> => ToSet(s) = {}
  BY DEF ToSet
<1>6. CASE Emit
  <2> DEFINE item == <<epoch, emitted + 1>>
  <2>1. item \in Items
    <3>1. epoch \in 1 .. MaxEpochs /\ emitted + 1 \in 1 .. MaxEvents
      BY <1>6, Bounds DEF Emit, SyncTyped, TypeOK
    <3> QED BY <3>1, EventItem
  <2>2. Top' = item  BY <1>6 DEF Emit, Top
  <2> HIDE DEF item
  <2>3. buffer' = buffer \/ buffer' = Append(buffer, item)
        \/ (buffer # <<>> /\ buffer' = Append(Tail(buffer), item))
    <3>1. Len(buffer) < Capacity \/ buffer # <<>>  BY Bounds
    <3> QED BY <1>6, <3>1 DEF Emit, Broadcast, item
  <2>4. ToSet(Append(buffer, item)) = ToSet(buffer) \cup {item}
    BY <1>2, <2>1, Appended
  <2>5. ASSUME buffer # <<>>
        PROVE  ToSet(Append(Tail(buffer), item)) \subseteq ToSet(buffer) \cup {item}
    <3>1. PICK s : s = Tail(buffer)  OBVIOUS
    <3>2. s \in Seq(Items) /\ ToSet(s) \subseteq ToSet(buffer)
      BY <1>2, <2>5, <3>1, Cut
    <3>3. ToSet(Append(s, item)) = ToSet(s) \cup {item}
      BY <2>1, <3>2, Appended
    <3> QED BY <3>1, <3>2, <3>3
  <2>6. ToSet(buffer') \subseteq ToSet(buffer) \cup {item}
    BY <2>3, <2>4, <2>5
  <2>7. sup' = sup  BY <1>6 DEF Emit
  <2> QED BY <1>4, <2>2, <2>6, <2>7
<1>7. CASE Truncate \/ LoseConnection \/ Restart \/ Open \/ Send \/ UNCHANGED vars
  BY <1>4, <1>7 DEF Truncate, LoseConnection, Restart, Disconnected, Open, OpenStart, OpenResume,
     OpenInstall, Close, Send, SendStart, SendSubmit, SendAppend, vars
<1>8. CASE SupReconnect
  BY <1>4, <1>5, <1>8 DEF SupReconnect
<1>9. CASE SupRecord \/ SupLag
  <2>1. sup'.todo = <<>> /\ buffer' = buffer
    BY <1>9, SupTyped DEF SupRecord, SupLag
  <2> QED BY <1>4, <1>5, <2>1
<1>10. CASE SupResume \/ SupRepoint \/ SupRebuild
  <2>1. buffer' = buffer /\ (sup'.todo = sup.todo \/ sup'.todo = <<>>)
    BY <1>2, <1>10, SupTyped DEF SupResume, SupRepoint, SupRebuild, Sups
  <2> QED BY <1>4, <1>5, <2>1
<1>11. CASE SupSince \/ SupCatchUp
  <2>1. sup.rec.seen \in 0 .. MaxEvents
    BY <1>11, SupTyped DEF SupSince, SupCatchUp, SyncTyped, Linked, Phase, Records
  <2>2. buffer' = buffer /\ UNCHANGED <<epoch, emitted>>
    BY <1>11 DEF SupSince, SupCatchUp
  <2>3. sup'.todo = <<>> \/ sup'.todo = Missed(sup.rec.seen)
    BY <1>2, <1>11, SupTyped DEF SupSince, SupCatchUp, Sups
  <2>4. ASSUME NEW x \in ToSet(Missed(sup.rec.seen)) PROVE Leq(x, Top)
    <3> DEFINE m == Missed(sup.rec.seen)
               from == Higher(sup.rec.seen, oldest)
    <3>1. PICK i \in DOMAIN m : x = m[i]  BY DEF ToSet
    <3>2. x = <<epoch, from + i>>  BY <2>1, <3>1, MissedRun
    <3>3. m = [j \in 1 .. emitted - from |-> <<epoch, from + j>>]
      BY <3>1 DEF Missed
    <3>4. i \in 1 .. emitted - from  BY <3>1, <3>3
    <3>5. from \in Nat /\ emitted \in Nat /\ epoch \in Nat
      BY <2>1, Bounds DEF SyncTyped, TypeOK, Higher
    <3> HIDE DEF m, from
    <3>6. from + i <= emitted  BY <3>4, <3>5
    <3> QED BY <3>2, <3>6 DEF Leq, Top
  <2>5. ASSUME NEW x \in ToSet(buffer') PROVE Leq(x, Top')
    BY <1>3, <2>2
  <2>6. ASSUME NEW x \in ToSet(sup'.todo) PROVE Leq(x, Top')
    BY <1>5, <2>2, <2>3, <2>4 DEF Top
  <2> QED BY <2>5, <2>6 DEF NothingAhead, Todo
<1>12. CASE SupReplay \/ SupFill
  <2>1. buffer' = buffer  BY <1>12 DEF SupReplay, SupFill
  <2>2. sup'.todo = sup.todo \/ sup'.todo = <<>> \/ (sup.todo # <<>> /\ sup'.todo = Tail(sup.todo))
    BY <1>2, <1>12, SupTyped DEF SupReplay, SupFill, Sups
  <2>3. sup.todo # <<>> => ToSet(Tail(sup.todo)) \subseteq ToSet(sup.todo)
    BY <1>2, Cut
  <2> QED BY <1>4, <1>5, <2>1, <2>2, <2>3
<1>13. CASE SupEvent
  <2>1. buffer # <<>> /\ buffer' = Tail(buffer) /\ sup' = sup
    BY <1>13 DEF SupEvent
  <2>2. ToSet(Tail(buffer)) \subseteq ToSet(buffer)  BY <1>2, <2>1, Cut
  <2> QED BY <1>4, <2>1, <2>2
<1> QED BY <1>6, <1>7, <1>8, <1>9, <1>10, <1>11, <1>12, <1>13 DEF Next, Gateway, Supervisor

-----------------------------------------------------------------------------
(* What a step of the others does to a session that is followed             *)

LEMMA GotNext ==
  ASSUME NEW S, NEW e \in Nat, NEW n \in Nat \ {0}, NEW h \in Seq(Items), NEW top,
         Got(S, <<e, n - 1>>, h, top), Leq(<<e, n>>, top)
  PROVE  Got(S \cup {<<e, n>>}, <<e, n>>, h, top)
<1>1. ASSUME NEW x \in ToSet(h), x[1] # 0, Leq(x, <<e, n>>) PROVE x \in S \cup {<<e, n>>}
  <2>1. x \in Items  BY InSet
  <2>2. x[1] \in Nat /\ x[2] \in Nat /\ x = <<x[1], x[2]>>  BY <2>1, ItemParts, Bounds
  <2>3. CASE Leq(x, <<e, n - 1>>)  BY <1>1, <2>3 DEF Got
  <2>4. CASE ~Leq(x, <<e, n - 1>>)
    <3>1. x[1] = e /\ x[2] = n  BY <1>1, <2>2, <2>4 DEF Leq
    <3> QED BY <2>2, <3>1
  <2> QED BY <2>3, <2>4
<1> QED BY <1>1 DEF Got

\* A receiver of the attached session holds events of this gateway process.
LEMMA AttachedRun ==
  ASSUME SyncTyped, BufferInv, attached
  PROVE  /\ OfConnection(epoch)
         /\ buffer # <<>> => Leq(Before(buffer), Top)
<1>1. CASE buffer = <<>>
  BY <1>1 DEF OfConnection
<1>2. CASE buffer # <<>>
  <2>1. buffer \in Seq(Items)  BY DEF SyncTyped, TypeOK
  <2>2. Len(buffer) \in DOMAIN buffer /\ buffer[1][1] \in Nat /\ buffer[1][2] \in Nat \ {0}
    BY <1>2, <2>1, BeforeFirst
  <2>3. Top = <<buffer[1][1], buffer[1][2] + (Len(buffer) - 1)>>
    BY <1>2, <2>2 DEF BufferInv, IsRun
  <2>4. epoch = buffer[1][1] /\ emitted = buffer[1][2] + (Len(buffer) - 1)
    BY <2>3 DEF Top
  <2>5. Len(buffer) \in Nat /\ Len(buffer) >= 1
    BY <1>2, <2>1
  <2>6. buffer[1][2] - 1 <= emitted
    BY <2>2, <2>4, <2>5
  <2> QED BY <2>4, <2>6 DEF OfConnection, Leq, Before, Top
<1> QED BY <1>1, <1>2

\* The gateway, the network and send leave the core and the supervisor alone,
\* but for a row that send may add, and what is on its way follows.
Elsewhere == Gateway \/ Restart \/ Send \/ UNCHANGED vars

LEMMA ElsewhereKeeps ==
  ASSUME SyncTyped, Elsewhere
  PROVE  /\ UNCHANGED <<rec, sidIndex, connNo, spc, sup, gap, opc, opens>>
         /\ Shown \subseteq Shown'
         /\ (live' = None) <=> (live = None)
         /\ live # None => live'.sid = live.sid
         /\ up' => up /\ epoch' = epoch
         /\ up' /\ attached => attached'
         /\ attached' => attached
<1> USE DEF gateVars, wireVars, coreVars, supVars, openVars, sendVars
<1>1. CASE Gateway \/ Restart
  BY <1>1 DEF Gateway, Emit, Truncate, LoseConnection, Restart, Disconnected, Shown
<1>2. CASE SendStart \/ SendSubmit \/ UNCHANGED vars
  BY <1>2 DEF SendStart, SendSubmit, vars, Shown
<1>3. CASE SendAppend
  <2>1. CASE live' = live
    BY <1>3, <2>1 DEF SendAppend, Shown
  <2>2. CASE live # None /\ live' = [live EXCEPT !.rows = Append(@, <<0, sends>>)]
    <3>1. <<0, sends>> \in Items
      <4>1. sends \in 1 .. MaxEvents + MaxSends
        BY <1>3, Bounds DEF SendAppend, SyncTyped, TypeOK, Linked
      <4> QED BY <4>1, Bounds DEF Items
    <3>2. live \in Lives /\ live.rows \in Seq(Items)
      BY <2>2 DEF SyncTyped, TypeOK, Lives
    <3>3. live' \in Lives /\ live'.rows = Append(live.rows, <<0, sends>>) /\ live'.sid = live.sid
      BY <2>2, <3>1, <3>2, RowAdded
    <3>4. ToSet(Append(live.rows, <<0, sends>>)) = ToSet(live.rows) \cup {<<0, sends>>}
      BY <3>1, <3>2, Appended
    <3>5. live' # None  BY <3>3, NoneIsNone
    <3>6. Shown' = ToSet(live.rows) \cup {<<0, sends>>} /\ Shown = ToSet(live.rows)
      BY <2>2, <3>3, <3>4, <3>5 DEF Shown
    <3> QED BY <1>3, <2>2, <3>3, <3>5, <3>6 DEF SendAppend
  <2> QED BY <1>3, <2>1, <2>2 DEF SendAppend
<1> QED BY <1>1, <1>2, <1>3 DEF Elsewhere, Send

LEMMA ElsewhereStream ==
  ASSUME SyncTyped, BufferInv, Elsewhere
  PROVE  /\ buffer' # <<>> => buffer # <<>> \/ attached
         /\ ~lagged' => ~lagged
         /\ \A S : StreamHas(S) /\ ~lagged' => StreamHas(S)'
         /\ \A e : OfConnection(e) => OfConnection(e)'
<1> USE DEF gateVars, wireVars, coreVars, supVars, openVars, sendVars
<1>1. [Next]_vars  BY DEF Elsewhere, Next
<1>2. buffer \in Seq(Items) /\ Top \in Marks
  BY TopMark DEF SyncTyped, TypeOK
<1>3. ASSUME NEW S, NEW m \in Marks, Got(S, m, history, Top) PROVE Got(S, m, history', Top')
  BY <1>1, <1>3, GotKept
<1>4. buffer # <<>> => Before(buffer) \in Marks
  BY <1>2, BeforeFirst
<1>5. ASSUME UNCHANGED <<buffer, lagged>>,
             ~attached' \/ (attached /\ UNCHANGED <<epoch, emitted>>)
      PROVE  /\ \A S : StreamHas(S) => StreamHas(S)'
             /\ \A e : OfConnection(e) => OfConnection(e)'
  <2>1. ASSUME NEW S, StreamHas(S) PROVE StreamHas(S)'
    <3>1. CASE buffer # <<>>
      <4>1. Got(S, Before(buffer), history', Top')
        BY <1>3, <1>4, <2>1, <3>1 DEF StreamHas
      <4> QED BY <1>5, <3>1, <4>1 DEF StreamHas, Before
    <3>2. CASE buffer = <<>> /\ ~attached'
      BY <1>5, <3>2 DEF StreamHas
    <3>3. CASE buffer = <<>> /\ attached /\ UNCHANGED <<epoch, emitted>>
      <4>1. Got(S, Top, history', Top') /\ Top' = Top
        BY <1>2, <1>3, <2>1, <3>3 DEF StreamHas, Top
      <4> QED BY <1>5, <3>3, <4>1 DEF StreamHas
    <3> QED BY <1>5, <3>1, <3>2, <3>3
  <2>2. ASSUME NEW e, OfConnection(e) PROVE OfConnection(e)'
    BY <1>5, <2>2 DEF OfConnection
  <2> QED BY <2>1, <2>2
<1>6. CASE Emit
  <2>1. CASE ~attached
    BY <1>5, <1>6, <2>1, EmitBuffer DEF Emit
  <2>2. CASE attached
    <3>1. /\ IsRun(buffer') /\ buffer' # <<>> /\ buffer'[Len(buffer')] = Top'
          /\ ~lagged' => ~lagged /\ buffer'[1] = IF buffer = <<>> THEN Top' ELSE buffer[1]
      BY <1>6, <2>2, EmitBuffer
    <3>2. Top' = <<epoch, emitted + 1>> /\ Top = <<epoch, emitted>> /\ emitted \in Nat
          /\ epoch' = epoch /\ attached'
      BY <1>6, <2>2, Bounds DEF Emit, Top, SyncTyped, TypeOK
    <3>3. ASSUME NEW S, StreamHas(S), ~lagged' PROVE StreamHas(S)'
      <4>1. CASE buffer = <<>>
        <5>1. Before(buffer') = Top
          BY <3>1, <3>2, <3>3, <4>1 DEF Before
        <5>2. Got(S, Top, history', Top')
          BY <1>2, <1>3, <2>2, <3>3, <4>1 DEF StreamHas
        <5> QED BY <3>1, <5>1, <5>2 DEF StreamHas
      <4>2. CASE buffer # <<>>
        <5>1. Before(buffer') = Before(buffer)
          BY <3>1, <3>3, <4>2 DEF Before
        <5>2. Got(S, Before(buffer), history', Top')
          BY <1>3, <1>4, <3>3, <4>2 DEF StreamHas
        <5> QED BY <3>1, <5>1, <5>2 DEF StreamHas
      <4> QED BY <4>1, <4>2
    <3>4. ASSUME NEW e, OfConnection(e) PROVE OfConnection(e)'
      <4>1. e = epoch  BY <2>2, <3>4 DEF OfConnection
      <4>2. SyncTyped' /\ BufferInv'  BY <1>1, TypedStep, BufferStep
      <4>3. buffer' \in Seq(Items)  BY <4>2 DEF SyncTyped, TypeOK
      <4>4. 1 \in DOMAIN buffer' /\ Len(buffer') \in DOMAIN buffer'
        BY <3>1, <4>3
      <4>5. buffer'[Len(buffer')][1] = buffer'[1][1]
        BY <3>1, <4>4 DEF IsRun
      <4> QED BY <3>1, <3>2, <4>1, <4>5 DEF OfConnection, Top
    <3> QED BY <2>2, <3>1, <3>3, <3>4
  <2> QED BY <2>1, <2>2
<1>7. CASE LoseConnection \/ Restart
  BY <1>5, <1>7 DEF LoseConnection, Restart, Disconnected
<1>8. CASE Truncate \/ Send \/ UNCHANGED vars
  BY <1>5, <1>8 DEF Truncate, Send, SendStart, SendSubmit, SendAppend, vars, OfConnection
<1> QED BY <1>6, <1>7, <1>8 DEF Elsewhere, Gateway

LEMMA MarksTyped ==
  ASSUME SyncTyped
  PROVE  /\ epoch \in Nat \ {0} /\ emitted \in Nat
         /\ rec # None => Mark \in Marks /\ rec.epoch \in Nat /\ rec.seen \in 0 .. MaxEvents
         /\ sup.rec # None =>
              SupMark \in Marks /\ sup.rec.epoch \in Nat /\ sup.rec.seen \in 0 .. MaxEvents
<1>1. epoch \in 1 .. MaxEpochs /\ emitted \in 0 .. MaxEvents
  BY DEF SyncTyped, TypeOK
<1>2. ASSUME NEW r \in Records
      PROVE  <<r.epoch, r.seen>> \in Marks /\ r.epoch \in Nat /\ r.seen \in 0 .. MaxEvents
  BY Bounds DEF Records, Epochs, Marks
<1>3. rec \in Records \cup {None} /\ sup.rec \in Records \cup {None}
  BY SupTyped
<1> QED BY <1>1, <1>2, <1>3, Bounds DEF Mark, SupMark

LEMMA FollowElsewhere ==
  ASSUME SyncTyped, BufferInv, NothingAhead, Following, Elsewhere
  PROVE  Following'
<1> SUFFICES ASSUME OnlyResumed', live' # None
             PROVE  /\ Placed' /\ Replied'
                    /\ ~gap' => Watermarked' /\ Streaming' /\ Replaying'
  BY ElsewhereKeeps DEF Following, OnlyResumed
<1>1. /\ UNCHANGED <<rec, sidIndex, connNo, spc, sup, gap, opc, opens>>
      /\ Shown \subseteq Shown'
      /\ live # None /\ live'.sid = live.sid
      /\ up' => up /\ epoch' = epoch
      /\ up' /\ attached => attached'
      /\ attached' => attached
  BY ElsewhereKeeps
<1>2. /\ buffer' # <<>> => buffer # <<>> \/ attached
      /\ ~lagged' => ~lagged
  BY ElsewhereStream
<1>3. ASSUME NEW S, StreamHas(S), ~lagged' PROVE StreamHas(S)'
  BY <1>3, ElsewhereStream
<1>4. ASSUME NEW e, OfConnection(e) PROVE OfConnection(e)'
  BY <1>4, ElsewhereStream
<1>5. ASSUME NEW S, NEW T, NEW m \in Marks, Got(S, m, history, Top), S \subseteq T
      PROVE  Got(T, m, history', Top')
  BY <1>5, GotKept, GotMore DEF Elsewhere, Next
<1>6. /\ Placed /\ Replied
      /\ ~gap => Watermarked /\ Streaming /\ Replaying
  BY <1>1 DEF Following, OnlyResumed
<1>7. ASSUME NEW S, NEW T, StreamHas(S), S \subseteq T, ~lagged' PROVE StreamHas(T)'
  BY <1>3, <1>7, GotMore DEF StreamHas
<1>8. epoch \in Nat /\ (rec # None => Mark \in Marks)
      /\ (sup.rec # None => sup.rec.epoch \in Nat /\ SupMark \in Marks)
  BY MarksTyped
<1>9. Placed'
  BY <1>1, <1>2, <1>6 DEF Placed, Phase
<1>10. Replied'
  <2>1. ASSUME Phase({"repoint", "since"}), up'
        PROVE  Got(Reply, <<epoch, 0>>, history', Top')
    BY <1>1, <1>5, <1>6, <1>8, <2>1 DEF Replied, Marks
  <2>2. ASSUME Phase({"repoint", "since", "rebuild"}), ~lagged'
        PROVE  StreamHas(Reply)'
    <3>1. PICK S : S = Reply  OBVIOUS
    <3>2. StreamHas(S)  BY <1>2, <1>6, <2>2, <3>1 DEF Replied
    <3>3. StreamHas(S)'  BY <1>3, <2>2, <3>2
    <3>4. Reply' = S  BY <1>1, <3>1 DEF Reply
    <3> QED BY <3>3, <3>4 DEF StreamHas
  <2>3. ASSUME spc = "rebuild"
        PROVE  /\ Got(Reply, <<sup.rec.epoch, 0>>, history', Top')
               /\ OfConnection(sup.rec.epoch)'
    <3>1. sup.rec # None  BY <2>3 DEF SyncTyped, Linked, Phase
    <3>2. <<sup.rec.epoch, 0>> \in Marks  BY <1>8, <3>1 DEF Marks
    <3>3. Got(Reply, <<sup.rec.epoch, 0>>, history', Top')
      BY <1>5, <1>6, <2>3, <3>2 DEF Replied
    <3>4. PICK e : e = sup.rec.epoch  OBVIOUS
    <3>5. OfConnection(e)'  BY <1>4, <1>6, <2>3, <3>4 DEF Replied
    <3> QED BY <1>1, <3>3, <3>4, <3>5 DEF OfConnection
  <2> QED BY <1>1, <2>1, <2>2, <2>3 DEF Replied, Phase, Reply
<1> SUFFICES ASSUME ~gap
             PROVE  Watermarked' /\ Streaming' /\ Replaying'
  BY <1>1, <1>9, <1>10
<1>11. Watermarked'
  <2>1. Got(Shown', Mark, history', Top')
    BY <1>1, <1>5, <1>6, <1>8 DEF Watermarked, Placed
  <2> QED BY <1>1, <1>6, <2>1 DEF Watermarked, Mark
<1>12. Todo' = Todo  BY <1>1 DEF Todo
<1>13. Streaming'
  <2>1. ASSUME Phase({"loop", "catch", "fill", "replay"})
        PROVE  OfConnection(rec.epoch)'
    <3>1. PICK e : e = rec.epoch  OBVIOUS
    <3>2. OfConnection(e)'  BY <1>4, <1>6, <2>1, <3>1 DEF Streaming
    <3> QED BY <1>1, <3>1, <3>2 DEF OfConnection
  <2>2. ASSUME spc = "loop", ~lagged' PROVE StreamHas(Shown)'
    <3>1. PICK S : S = Shown'  OBVIOUS
    <3>2. StreamHas(Shown) /\ Shown \subseteq S  BY <1>1, <1>2, <1>6, <2>2, <3>1 DEF Streaming
    <3>3. StreamHas(S)'  BY <1>7, <2>2, <3>2
    <3> QED BY <3>1, <3>3 DEF StreamHas
  <2>3. ASSUME Phase({"fill", "replay"}), ~lagged' PROVE StreamHas(Shown \cup Todo)'
    <3>1. PICK S : S = Shown' \cup Todo'  OBVIOUS
    <3>2. StreamHas(Shown \cup Todo) /\ Shown \cup Todo \subseteq S
      BY <1>1, <1>2, <1>6, <1>12, <2>3, <3>1 DEF Streaming
    <3>3. StreamHas(S)'  BY <1>7, <2>3, <3>2
    <3> QED BY <3>1, <3>3 DEF StreamHas
  <2> QED BY <1>1, <2>1, <2>2, <2>3 DEF Streaming, Phase
<1>14. Replaying'
  <2>1. ASSUME Phase({"fill", "replay"}), sup.todo # <<>>
        PROVE  Got(Shown', Before(sup.todo), history', Top')
    <3>1. Before(sup.todo) \in Marks  BY <2>1, SupTyped, BeforeFirst
    <3> QED BY <1>1, <1>5, <1>6, <2>1, <3>1 DEF Replaying
  <2>2. ASSUME spc = "replay"
        PROVE  Got(Shown' \cup Todo', SupMark, history', Top')
    <3>1. SupMark \in Marks
      BY <1>8, <2>2 DEF SyncTyped, Linked, Phase
    <3>2. Shown \cup Todo \subseteq Shown' \cup Todo'  BY <1>1, <1>12
    <3> QED BY <1>5, <1>6, <2>2, <3>1, <3>2 DEF Replaying
  <2> QED BY <1>1, <1>6, <2>1, <2>2 DEF Replaying, Phase, SupMark, Before
<1> QED BY <1>11, <1>13, <1>14

\* A pass of resume_all up to the repointing.
LEMMA FollowResume ==
  ASSUME SyncTyped, Following, SupReconnect \/ SupRecord \/ SupResume \/ SupRepoint
  PROVE  Following'
<1> USE DEF gateVars, wireVars, coreVars, supVars, openVars, sendVars, SupGoto
<1>1. /\ UNCHANGED <<rec, gap, opc, opens, history, epoch, emitted>>
      /\ (live' = None) <=> (live = None)
      /\ live # None => live'.rows = live.rows
  <2>1. CASE SupReconnect \/ SupRecord \/ SupResume
    BY <2>1 DEF SupReconnect, SupRecord, SupResume
  <2>2. CASE SupRepoint
    <3>1. UNCHANGED <<rec, gap, opc, opens, history, epoch, emitted>>
      BY <2>2 DEF SupRepoint
    <3>2. CASE live' = live  BY <3>1, <3>2
    <3>3. CASE live # None /\ live' = [live EXCEPT !.sid = connNo]
      <4>1. live \in Lives /\ connNo \in Sids  BY <3>3 DEF SyncTyped, TypeOK
      <4>2. live' \in Lives /\ live'.rows = live.rows  BY <3>3, <4>1 DEF Lives
      <4> QED BY <3>1, <3>3, <4>2, NoneIsNone
    <3> QED BY <2>2, <3>2, <3>3 DEF SupRepoint, Repoint
  <2> QED BY <2>1, <2>2
<1>2. Shown' = Shown  BY <1>1 DEF Shown
<1> SUFFICES ASSUME OnlyResumed', live' # None
             PROVE  /\ Placed' /\ Replied'
                    /\ ~gap' => Watermarked' /\ Streaming' /\ Replaying'
  BY <1>1 DEF Following, OnlyResumed
<1>3. /\ live # None /\ Placed /\ Replied
      /\ ~gap => Watermarked /\ Streaming /\ Replaying
  BY <1>1 DEF Following, OnlyResumed
<1>4. ~gap => Watermarked'
  BY <1>1, <1>2, <1>3 DEF Watermarked, Mark, Top
<1>5. CASE SupReconnect
  <2>1. spc' = "record" /\ ~attached' /\ buffer' = <<>>
        /\ UNCHANGED <<rec, live, sidIndex>>
    BY <1>5 DEF SupReconnect, SyncTyped, Linked
  <2>2. Placed'  BY <1>3, <2>1 DEF Placed, Phase
  <2>3. Replied' /\ Streaming' /\ Replaying'
    BY <2>1 DEF Replied, Streaming, Replaying, Phase
  <2> QED BY <1>1, <1>4, <2>2, <2>3
<1>6. CASE SupRecord
  <2>1. spc = "record" /\ spc' = "resume" /\ sup'.rec = rec
        /\ UNCHANGED <<rec, live, sidIndex, attached, buffer, connNo>>
    BY <1>3, <1>6, SupTyped DEF SupRecord, Placed
  <2>2. Placed'  BY <1>3, <2>1 DEF Placed, Phase
  <2>3. Replied' /\ Streaming' /\ Replaying'
    BY <2>1 DEF Replied, Streaming, Replaying, Phase
  <2> QED BY <1>1, <1>4, <2>2, <2>3
<1>7. CASE SupResume
  <2>1. /\ spc = "resume" /\ UNCHANGED <<rec, live, sidIndex, buffer, lagged, up, connNo>>
        /\ ~attached /\ buffer = <<>> /\ sup.rec = rec
    BY <1>3, <1>7 DEF SupResume, Placed, Phase
  <2>2. CASE /\ up /\ spc' = "repoint" /\ attached' = TRUE
             /\ sup' = [sup EXCEPT !.msgs = history]
    <3>1. sup'.rec = rec /\ sup'.msgs = history
      BY <2>1, <2>2, SupTyped DEF Sups
    <3>2. Placed'  BY <1>3, <2>1, <2>2, <3>1 DEF Placed, Phase
    <3>3. Leq(<<epoch, 0>>, Top) /\ Leq(Top, Top)
      BY MarksTyped DEF Leq, Top
    <3>4. Got(ToSet(history), <<epoch, 0>>, history, Top) /\ Got(ToSet(history), Top, history, Top)
      BY <3>3 DEF Got
    <3>5. Reply' = ToSet(history) /\ Top' = Top
      BY <1>1, <3>1 DEF Reply, Top
    <3>6. Replied'
      BY <1>1, <2>1, <2>2, <3>4, <3>5 DEF Replied, Phase, StreamHas, Top
    <3>7. Streaming' /\ Replaying'
      BY <2>2 DEF Streaming, Replaying, Phase
    <3> QED BY <1>1, <1>4, <3>2, <3>6, <3>7
  <2>3. CASE spc' = "loop" /\ attached' = attached
    <3>1. Placed'  BY <1>3, <2>1, <2>3 DEF Placed, Phase
    <3>2. Replied' /\ Replaying'  BY <2>3 DEF Replied, Replaying, Phase
    <3>3. Streaming'
      BY <2>1, <2>3 DEF Streaming, Phase, OfConnection, StreamHas
    <3> QED BY <1>1, <1>4, <3>1, <3>2, <3>3
  <2> QED BY <1>7, <2>2, <2>3 DEF SupResume
<1>8. CASE SupRepoint
  <2>1. /\ spc = "repoint" /\ spc' = "since"
        /\ UNCHANGED <<rec, buffer, lagged, up, attached, connNo, sup>>
    BY <1>8 DEF SupRepoint
  <2>2. live'.sid = connNo /\ connNo \in sidIndex'
    <3>1. CASE live.sid = connNo
      BY <1>3, <1>8, <3>1 DEF SupRepoint, Repoint, Placed
    <3>2. CASE live.sid # connNo
      <4>1. live \in Lives /\ connNo \in Sids  BY <1>3 DEF SyncTyped, TypeOK
      <4>2. live' = [live EXCEPT !.sid = connNo] /\ connNo \in sidIndex'
        BY <1>3, <1>8, <3>2 DEF SupRepoint, Repoint
      <4> QED BY <4>1, <4>2 DEF Lives
    <3> QED BY <3>1, <3>2
  <2>3. Placed'  BY <1>3, <2>1, <2>2 DEF Placed, Phase
  <2>4. Replied'
    BY <1>1, <1>3, <2>1 DEF Replied, Phase, Reply, StreamHas, Before, Top
  <2>5. Streaming' /\ Replaying'
    BY <2>1 DEF Streaming, Replaying, Phase
  <2> QED BY <1>1, <1>4, <2>3, <2>4, <2>5
<1> QED BY <1>5, <1>6, <1>7, <1>8

\* What the gateway answers from its log takes up where the watermark is.
LEMMA Answered ==
  ASSUME SyncTyped, BufferInv, attached,
         NEW S, NEW n \in 0 .. MaxEvents, Got(S, <<epoch, n>>, history, Top), ~Truncated(n)
  PROVE  /\ Got(S \cup ToSet(Missed(n)), Top, history, Top)
         /\ StreamHas(S \cup ToSet(Missed(n)))
         /\ Missed(n) # <<>> =>
              /\ IsRun(Missed(n)) /\ Missed(n)[1][1] = epoch
              /\ Before(Missed(n)) = <<epoch, n>>
<1> DEFINE T == S \cup ToSet(Missed(n))
<1>1. epoch \in Nat /\ emitted \in Nat /\ n \in Nat /\ oldest \in Nat
  BY MarksTyped, Bounds DEF SyncTyped, TypeOK
<1>2. Higher(n, oldest) = n  BY <1>1 DEF Truncated, Higher
<1>3. ASSUME NEW x \in ToSet(history), x[1] # 0, Leq(x, Top) PROVE x \in T
  <2>1. x \in Items  BY TopMark, InSet
  <2>2. x[1] \in Nat /\ x[2] \in Nat /\ x = <<x[1], x[2]>>  BY <2>1, ItemParts, Bounds
  <2>3. CASE Leq(x, <<epoch, n>>)  BY <1>3, <2>3 DEF Got
  <2>4. CASE ~Leq(x, <<epoch, n>>)
    <3>1. x[1] = epoch /\ x[2] \in n + 1 .. emitted
      BY <1>1, <1>3, <2>2, <2>4 DEF Leq, Top
    <3>2. <<epoch, x[2]>> \in ToSet(Missed(n))
      BY <1>2, <3>1, MissedRun
    <3> QED BY <2>2, <3>1, <3>2
  <2> QED BY <2>3, <2>4
<1>4. Leq(Top, Top)  BY <1>1 DEF Leq, Top
<1>5. Got(T, Top, history, Top)  BY <1>3, <1>4 DEF Got
<1>6. StreamHas(T)
  <2>1. CASE buffer = <<>>  BY <1>5, <2>1 DEF StreamHas
  <2>2. CASE buffer # <<>>
    <3>1. Before(buffer) \in Marks /\ Leq(Before(buffer), Top)
      BY <2>2, AttachedRun, BeforeFirst DEF SyncTyped, TypeOK
    <3>2. Got(T, Before(buffer), history, Top)
      BY <1>5, <3>1, TopMark, GotLess
    <3> QED BY <2>2, <3>2 DEF StreamHas
  <2> QED BY <2>1, <2>2
<1>7. ASSUME Missed(n) # <<>>
      PROVE  /\ IsRun(Missed(n)) /\ Missed(n)[1][1] = epoch
             /\ Before(Missed(n)) = <<epoch, n>>
  <2>1. PICK m \in Seq(Items) : m = Missed(n)  BY MissedRun
  <2>2. \A i \in DOMAIN m : m[i] = <<epoch, n + i>>
    BY <1>2, <2>1, MissedRun
  <2>3. 1 \in DOMAIN m  BY <1>7, <2>1
  <2>4. m[1] = <<epoch, n + 1>>  BY <2>2, <2>3
  <2>5. ASSUME NEW i \in DOMAIN m PROVE m[i] = <<m[1][1], m[1][2] + (i - 1)>>
    <3>1. i \in Nat  BY <2>1
    <3>2. (n + 1) + (i - 1) = n + i  BY <1>1, <3>1
    <3> QED BY <2>2, <2>4, <3>2
  <2>6. (n + 1) - 1 = n  BY <1>1
  <2> QED BY <2>1, <2>4, <2>5, <2>6 DEF IsRun, Before
<1> QED BY <1>5, <1>6, <1>7

\* The next event reaches the transcript, and the watermark stays right.
LEMMA FollowDeliver ==
  ASSUME SyncTyped, live # None, rec # None, NEW x \in Items, IsEvent(x), DeliverEvent(x),
         Leq(x, Top), UNCHANGED <<history, epoch, emitted>>
  PROVE  /\ live' # None /\ live'.sid = live.sid /\ sidIndex' = sidIndex
         /\ rec' # None /\ rec'.epoch = rec.epoch
         /\ Shown' = Shown \cup {x}
         /\ Got(Shown, <<x[1], x[2] - 1>>, history, Top) => Got(Shown', x, history, Top)
         /\ /\ Watermarked /\ x[1] = rec.epoch
            /\ Got(Shown, <<x[1], x[2] - 1>>, history, Top)
            => Watermarked'
<1>1. /\ live' # None /\ live'.rows = Append(live.rows, x) /\ live'.sid = live.sid
      /\ sidIndex' = sidIndex
      /\ rec' # None /\ rec'.seen = Higher(rec.seen, x[2]) /\ rec'.epoch = rec.epoch
  BY Delivered
<1>2. Shown' = Shown \cup {x}
  <2>1. live.rows \in Seq(Items)  BY DEF SyncTyped, TypeOK, Lives
  <2>2. ToSet(Append(live.rows, x)) = ToSet(live.rows) \cup {x}
    BY <2>1, Appended
  <2> QED BY <1>1, <2>2 DEF Shown
<1>3. x[1] \in Nat /\ x[2] \in Nat \ {0} /\ x = <<x[1], x[2]>>
  BY ItemParts, Bounds
<1>4. ASSUME Got(Shown, <<x[1], x[2] - 1>>, history, Top)
      PROVE  Got(Shown', x, history, Top)
  <2>1. PICK S : S = Shown  OBVIOUS
  <2>2. PICK e \in Nat, n \in Nat \ {0} : e = x[1] /\ n = x[2]  BY <1>3
  <2>3. x = <<e, n>>  BY <1>3, <2>2
  <2>4. Got(S \cup {<<e, n>>}, <<e, n>>, history, Top)
    BY <1>4, <2>1, <2>2, <2>3, TopMark, GotNext
  <2> QED BY <1>2, <2>1, <2>3, <2>4
<1>5. ASSUME Watermarked, x[1] = rec.epoch, Got(Shown, <<x[1], x[2] - 1>>, history, Top)
      PROVE  Watermarked'
  <2>1. Got(Shown', x, history, Top)  BY <1>4, <1>5
  <2>2. Got(Shown', Mark, history, Top)
    BY <1>2, <1>5, GotMore DEF Watermarked
  <2>3. Mark' = x \/ Mark' = Mark
    BY <1>1, <1>3, <1>5 DEF Mark, Higher
  <2>4. Top' = Top  BY DEF Top
  <2>5. Got(Shown', Mark', history', Top')
    BY <2>1, <2>2, <2>3, <2>4
  <2> QED BY <1>1, <1>5, <2>5 DEF Watermarked
<1> QED BY <1>1, <1>2, <1>4, <1>5

\* The reply of session.events.since decides between a replay and a rebuild.
LEMMA FollowSince ==
  ASSUME SyncTyped, BufferInv, Following, SupSince
  PROVE  Following'
<1> USE DEF gateVars, wireVars, coreVars, supVars, openVars, sendVars, SupGoto
<1>1. /\ spc = "since"
      /\ UNCHANGED <<gateVars, wireVars, coreVars, openVars>>
  BY DEF SupSince
<1>2. Shown' = Shown /\ Top' = Top  BY <1>1 DEF Shown, Top
<1> SUFFICES ASSUME OnlyResumed', live' # None
             PROVE  /\ Placed' /\ Replied'
                    /\ ~gap' => Watermarked' /\ Streaming' /\ Replaying'
  BY <1>1 DEF Following, OnlyResumed
<1>3. /\ live # None /\ Placed /\ Replied
      /\ ~gap => Watermarked /\ Streaming /\ Replaying
  BY <1>1 DEF Following, OnlyResumed
<1>4. CASE spc' = "loop" /\ gap' = TRUE
  <2>1. Placed'  BY <1>1, <1>3, <1>4 DEF Placed, Phase
  <2>2. Replied'  BY <1>4 DEF Replied, Phase
  <2> QED BY <1>4, <2>1, <2>2
<1>5. CASE /\ up /\ spc' = IF MustRebuild THEN "rebuild" ELSE "replay"
           /\ sup' = [sup EXCEPT !.todo = Missed(sup.rec.seen),
                                 !.rec = [seen |-> emitted, epoch |-> epoch]]
           /\ gap' = gap
  <2>1. /\ sup'.todo = Missed(sup.rec.seen) /\ sup'.msgs = sup.msgs
        /\ sup'.rec = [seen |-> emitted, epoch |-> epoch]
    BY <1>5, SupTyped DEF Sups
  <2>2. attached /\ sup.rec = rec /\ live.sid = connNo /\ OfConnection(epoch)
    BY <1>1, <1>3, <1>5, AttachedRun DEF Placed, Phase
  <2>3. Placed'
    BY <1>1, <1>3, <1>5, <2>2 DEF Placed, Phase
  <2>4. SupMark' = Top /\ sup'.rec.epoch = epoch
    BY <2>1 DEF SupMark, Top
  <2>5. Reply' = Reply  BY <2>1 DEF Reply
  <2>6. CASE MustRebuild
    <3>1. spc' = "rebuild"  BY <1>5, <2>6
    <3>2. ~lagged => StreamHas(Reply)
      BY <1>1, <1>3 DEF Replied, Phase
    <3>3. Got(Reply, <<epoch, 0>>, history, Top)
      BY <1>1, <1>3, <1>5 DEF Replied, Phase
    <3>4. Replied'
      BY <1>1, <1>2, <2>2, <2>4, <2>5, <3>1, <3>2, <3>3
      DEF Replied, Phase, StreamHas, OfConnection, Before
    <3>5. ~gap => Watermarked'
      BY <1>1, <1>2, <1>3 DEF Watermarked, Mark
    <3>6. Streaming' /\ Replaying'
      BY <3>1 DEF Streaming, Replaying, Phase
    <3> QED BY <1>5, <2>3, <3>4, <3>5, <3>6
  <2>7. CASE ~MustRebuild
    <3>1. spc' = "replay"  BY <1>5, <2>7
    <3>2. Replied'  BY <3>1 DEF Replied, Phase
    <3> SUFFICES ASSUME ~gap PROVE Watermarked' /\ Streaming' /\ Replaying'
      BY <1>5, <2>3, <3>2
    <3>3. Watermarked /\ ~Truncated(rec.seen) /\ rec.epoch = epoch
      BY <1>3, <2>2, <2>7, MarksTyped DEF MustRebuild, Watermarked, Placed
    <3>4. rec # None /\ rec.seen \in 0 .. MaxEvents
      BY <1>3, MarksTyped DEF Placed
    <3>5. PICK S, n : S = Shown /\ n = rec.seen  OBVIOUS
    <3>6. Mark = <<epoch, n>> /\ Got(S, <<epoch, n>>, history, Top)
      BY <3>3, <3>5 DEF Watermarked, Mark
    <3>7. /\ Got(S \cup ToSet(Missed(n)), Top, history, Top)
          /\ StreamHas(S \cup ToSet(Missed(n)))
          /\ Missed(n) # <<>> =>
              /\ IsRun(Missed(n)) /\ Missed(n)[1][1] = epoch
              /\ Before(Missed(n)) = <<epoch, n>>
      BY <2>2, <3>3, <3>4, <3>5, <3>6, Answered
    <3>8. Shown' = S /\ sup'.todo = Missed(n) /\ Todo' = ToSet(Missed(n))
      BY <1>2, <2>1, <2>2, <3>5 DEF Todo
    <3>9. Watermarked'
      BY <1>1, <1>2, <3>3 DEF Watermarked, Mark
    <3>10. PICK T, m : T = S \cup ToSet(Missed(n)) /\ m = Missed(n)  OBVIOUS
    <3>11. StreamHas(T)'
      BY <1>1, <1>2, <3>7, <3>10 DEF StreamHas, Before
    <3>12. Shown' \cup Todo' = T  BY <3>8, <3>10
    <3>13. Streaming'
      BY <1>1, <2>2, <3>1, <3>3, <3>11, <3>12 DEF Streaming, Phase, OfConnection, StreamHas
    <3>14. sup'.todo = m /\ (m # <<>> => IsRun(m) /\ m[1][1] = epoch /\ Before(m) = <<epoch, n>>)
      BY <3>7, <3>8, <3>10
    <3>15. Got(T, SupMark', history', Top')
      BY <1>1, <1>2, <2>4, <3>7, <3>10
    <3>16. Got(Shown', <<epoch, n>>, history', Top')
      BY <1>1, <1>2, <3>6, <3>8
    <3>17. Replaying'
      BY <1>1, <2>4, <3>3, <3>12, <3>14, <3>15, <3>16 DEF Replaying, IsRun, Before
    <3> QED BY <3>9, <3>13, <3>17
  <2> QED BY <2>6, <2>7
<1> QED BY <1>4, <1>5 DEF SupSince

LEMMA FollowRebuild ==
  ASSUME SyncTyped, Following, SupRebuild
  PROVE  Following'
<1> USE DEF gateVars, wireVars, coreVars, supVars, openVars, sendVars, SupGoto
<1>1. /\ spc = "rebuild" /\ spc' = "loop" /\ gap' = FALSE
      /\ UNCHANGED <<gateVars, wireVars, sidIndex, openVars>>
      /\ live' # None => live # None
  BY DEF SupRebuild, Rebuild
<1> SUFFICES ASSUME OnlyResumed', live' # None
             PROVE  Placed' /\ Replied' /\ Watermarked' /\ Streaming' /\ Replaying'
  BY <1>1 DEF Following, OnlyResumed
<1>2. live # None /\ Placed /\ Replied
  BY <1>1 DEF Following, OnlyResumed
<1>3. live \in Lives /\ historyEpoch \in Nat /\ sup.msgs \in Seq(Items) /\ sup.rec.epoch \in Nat \ {0}
  BY <1>1, <1>2, SupTyped, MarksTyped DEF SyncTyped, TypeOK, Linked, Phase
<1>4. PICK e : e = sup.rec.epoch  OBVIOUS
<1>5. live'.sid = live.sid /\ live'.rows = sup.msgs
  BY <1>2, <1>3 DEF SupRebuild, Rebuild, Lives
<1>6. rec' # None /\ rec'.epoch = e /\ rec'.seen = 0
  <2>1. rec' = [seen |-> 0, epoch |-> e]
    BY <1>2, <1>4 DEF SupRebuild, Rebuild, Placed
  <2>2. rec' \in Records \cup {None}
    <3>1. SyncTyped'  BY TypedStep DEF Next, Supervisor
    <3> QED BY <3>1 DEF SyncTyped, TypeOK
  <2>3. sup.rec \in Records
    BY <1>1, SupTyped DEF SyncTyped, Linked, Phase
  <2>4. [seen |-> 0, epoch |-> e] \in Records
    BY <1>4, <2>3, Bounds DEF Records
  <2> QED BY <2>1, <2>4, NoneIsNone
<1>7. Shown' = Reply /\ Top' = Top
  BY <1>1, <1>5 DEF Shown, Reply, Top
<1>8. Got(Reply, <<e, 0>>, history, Top) /\ OfConnection(e)
      /\ (~lagged => StreamHas(Reply))
  BY <1>1, <1>2, <1>4 DEF Replied, Phase
<1>9. Placed'
  BY <1>1, <1>2, <1>5, <1>6 DEF Placed, Phase
<1>10. Replied' /\ Replaying'
  BY <1>1 DEF Replied, Replaying, Phase
<1>11. Watermarked'
  BY <1>1, <1>3, <1>4, <1>6, <1>7, <1>8 DEF Watermarked, Mark
<1>12. Streaming'
  BY <1>1, <1>6, <1>7, <1>8 DEF Streaming, Phase, OfConnection, StreamHas, Before
<1> QED BY <1>9, <1>10, <1>11, <1>12

\* A replay or a fill: an event of it, and its end.
LEMMA FollowReplay ==
  ASSUME SyncTyped, NothingAhead, Following, SupReplay \/ SupFill
  PROVE  Following'
<1> USE DEF gateVars, wireVars, coreVars, supVars, openVars, sendVars, SupGoto
<1>1. /\ spc \in {"replay", "fill"} /\ spc' \in {spc, "loop"}
      /\ UNCHANGED <<gateVars, wireVars, openVars, gap>>
  BY DEF SupReplay, SupFill
<1>2. (live = None) => (live' = None)
  BY DEF SupReplay, SupFill, DeliverEvent
<1> SUFFICES ASSUME OnlyResumed', live' # None
             PROVE  /\ Placed' /\ Replied'
                    /\ ~gap' => Watermarked' /\ Streaming' /\ Replaying'
  BY <1>1 DEF Following, OnlyResumed
<1>3. /\ live # None /\ Placed /\ Replied
      /\ ~gap => Watermarked /\ Streaming /\ Replaying
  BY <1>1, <1>2 DEF Following, OnlyResumed
<1>4. rec # None /\ Top' = Top
  BY <1>1, <1>3 DEF Placed, Top
<1>5. Replied'  BY <1>1 DEF Replied, Phase
<1>6. CASE /\ sup.todo # <<>> /\ spc' = spc /\ DeliverEvent(Head(sup.todo))
           /\ sup' = [sup EXCEPT !.todo = Tail(@)]
  <2>1. PICK s \in Seq(Items) : s = sup.todo  BY SupTyped
  <2>2. PICK x \in Items : x = s[1]  BY <1>6, <2>1, BeforeFirst
  <2>3. /\ x \in ToSet(s) /\ x[1] \in Nat /\ x[2] \in Nat \ {0} /\ x = <<x[1], x[2]>>
        /\ Before(s) = <<x[1], x[2] - 1>> /\ Head(s) = x /\ Tail(s) \in Seq(Items)
        /\ ToSet(s) = {x} \cup ToSet(Tail(s))
    BY <1>6, <2>1, <2>2, BeforeFirst, Cut DEF Before
  <2>4. IsEvent(x) /\ Leq(x, Top)
    <3>1. 1 \in DOMAIN s  BY <1>6, <2>1
    <3> QED BY <2>1, <2>2, <2>3, <3>1 DEF SyncTyped, EventsOnly, NothingAhead, Todo
  <2>5. DeliverEvent(x)  BY <1>6, <2>1, <2>3
  <2>6. /\ live' # None /\ live'.sid = live.sid /\ sidIndex' = sidIndex
        /\ rec' # None /\ rec'.epoch = rec.epoch
        /\ Shown' = Shown \cup {x}
        /\ Got(Shown, <<x[1], x[2] - 1>>, history, Top) => Got(Shown', x, history, Top)
        /\ /\ Watermarked /\ x[1] = rec.epoch
           /\ Got(Shown, <<x[1], x[2] - 1>>, history, Top)
           => Watermarked'
    BY <1>1, <1>3, <1>4, <2>4, <2>5, FollowDeliver
  <2>7. sup'.todo = Tail(s) /\ sup'.rec = sup.rec
    BY <1>6, <2>1, SupTyped DEF Sups
  <2>8. Placed'
    BY <1>1, <1>3, <1>6, <2>6 DEF Placed, Phase
  <2> SUFFICES ASSUME ~gap PROVE Watermarked' /\ Streaming' /\ Replaying'
    BY <1>1, <1>5, <2>8
  <2>9. /\ IsRun(s) /\ x[1] = rec.epoch
        /\ Got(Shown, <<x[1], x[2] - 1>>, history, Top)
    BY <1>1, <1>3, <1>6, <2>1, <2>2, <2>3 DEF Replaying, Phase
  <2>10. Watermarked' /\ Got(Shown', x, history, Top)
    BY <1>3, <2>6, <2>9
  <2>11. PICK T : T = Shown \cup Todo  OBVIOUS
  <2>12. Shown' \cup Todo' = T
    BY <2>1, <2>3, <2>6, <2>7, <2>11 DEF Todo
  <2>13. Streaming'
    <3>1. ~lagged => StreamHas(T)  BY <1>1, <1>3, <2>11 DEF Streaming, Phase
    <3>2. OfConnection(rec.epoch)  BY <1>1, <1>3 DEF Streaming, Phase
    <3> QED BY <1>1, <1>4, <1>6, <2>6, <2>12, <3>1, <3>2
        DEF Streaming, Phase, StreamHas, OfConnection, Before
  <2>14. PICK r : r = Tail(s)  OBVIOUS
  <2>15. r # <<>> => IsRun(r) /\ r[1] = <<x[1], x[2] + 1>>
    BY <1>6, <2>1, <2>2, <2>9, <2>14, RunCut
  <2>16. r # <<>> => Before(r) = x
    BY <2>3, <2>15 DEF Before
  <2>17. Got(Shown', x, history', Top')
    BY <1>1, <1>4, <2>10
  <2>18. spc = "replay" => sup'.rec.epoch = rec'.epoch /\ Got(T, SupMark', history', Top')
    BY <1>1, <1>3, <1>4, <2>6, <2>7, <2>11 DEF Replaying, SupMark
  <2>19. sup'.todo = r  BY <2>7, <2>14
  <2>20. r # <<>> => r[1][1] = rec'.epoch  BY <2>6, <2>9, <2>15
  <2>21. Replaying'
    BY <1>6, <2>12, <2>15, <2>16, <2>17, <2>18, <2>19, <2>20
    DEF Replaying, Phase, IsRun, Before
  <2> QED BY <2>10, <2>13, <2>21
<1>7. CASE /\ sup.todo = <<>> /\ spc' = "loop"
           /\ UNCHANGED <<live, sidIndex, historyEpoch>>
           /\ \/ rec' = rec
              \/ spc = "replay" /\ rec' = Touch(rec, sup.rec.seen, sup.rec.epoch)
  <2>1. Todo = {}  BY <1>7 DEF Todo, ToSet
  <2>2. Shown' = Shown  BY <1>7 DEF Shown
  <2>3. CASE rec' = rec
    <3>1. Placed'  BY <1>1, <1>3, <1>7, <2>3 DEF Placed, Phase
    <3>2. Replaying'  BY <1>7 DEF Replaying, Phase
    <3>3. ~gap => Watermarked'
      BY <1>1, <1>3, <1>4, <2>2, <2>3 DEF Watermarked, Mark
    <3>4. PICK T : T = Shown  OBVIOUS
    <3>5. T = Shown \cup Todo  BY <2>1, <3>4
    <3>6. ~gap /\ ~lagged => StreamHas(T)
      BY <1>1, <1>3, <3>5 DEF Streaming, Phase
    <3>7. ~gap => Streaming'
      BY <1>1, <1>3, <1>4, <1>7, <2>2, <2>3, <3>4, <3>6
      DEF Streaming, Phase, StreamHas, OfConnection, Before
    <3> QED BY <1>1, <1>5, <3>1, <3>2, <3>3, <3>7
  <2>4. CASE spc = "replay" /\ rec' = Touch(rec, sup.rec.seen, sup.rec.epoch)
    <3>1. sup.rec # None  BY <2>4 DEF SyncTyped, Linked, Phase
    <3>2. rec \in Records /\ sup.rec.seen \in 0 .. MaxEvents /\ sup.rec.epoch \in Epochs
      <4>1. rec \in Records /\ sup.rec \in Records  BY <1>4, <3>1, SupTyped
      <4> QED BY <4>1 DEF Records
    <3>3. /\ rec' \in Records /\ rec'.seen = Higher(rec.seen, sup.rec.seen)
          /\ rec'.epoch = IF sup.rec.epoch = 0 THEN rec.epoch ELSE sup.rec.epoch
      BY <2>4, <3>2, Touched
    <3>4. rec' # None  BY <3>3, NoneIsNone
    <3>5. Placed'  BY <1>1, <1>3, <1>7, <3>4 DEF Placed, Phase
    <3>6. Replaying'  BY <1>7 DEF Replaying, Phase
    <3> SUFFICES ASSUME ~gap PROVE Watermarked' /\ Streaming'
      BY <1>1, <1>5, <3>5, <3>6
    <3>7. rec'.epoch = rec.epoch /\ sup.rec.epoch = rec.epoch
      BY <1>3, <2>4, <3>3 DEF Replaying
    <3>8. Mark' = Mark \/ Mark' = SupMark
      BY <3>3, <3>7 DEF Mark, SupMark, Higher
    <3>9. PICK T : T = Shown  OBVIOUS
    <3>10. T = Shown \cup Todo  BY <2>1, <3>9
    <3>11. Got(T, SupMark, history, Top) /\ Got(T, Mark, history, Top) /\ rec.epoch >= 1
      BY <1>3, <2>4, <3>9, <3>10 DEF Replaying, Watermarked
    <3>12. Got(T, Mark', history', Top')
      BY <1>1, <1>4, <3>8, <3>11
    <3>13. Watermarked'
      BY <2>2, <3>7, <3>9, <3>11, <3>12 DEF Watermarked
    <3>14. OfConnection(rec.epoch) /\ (~lagged => StreamHas(T))
      BY <1>1, <1>3, <3>10 DEF Streaming, Phase
    <3>15. Streaming'
      BY <1>1, <1>4, <1>7, <2>2, <3>7, <3>9, <3>14
      DEF Streaming, Phase, StreamHas, OfConnection, Before
    <3> QED BY <3>13, <3>15
  <2> QED BY <1>7, <2>3, <2>4
<1> QED BY <1>6, <1>7 DEF SupReplay, SupFill

\* An event of the broadcast is routed, since the live sid names the connection.
LEMMA FollowEvent ==
  ASSUME SyncTyped, BufferInv, NothingAhead, Following, SupEvent
  PROVE  Following'
<1> USE DEF gateVars, wireVars, coreVars, supVars, openVars, sendVars
<1>1. /\ spc = "loop" /\ ~lagged /\ buffer # <<>> /\ buffer' = Tail(buffer)
      /\ UNCHANGED <<gateVars, up, connNo, lagged, supVars, openVars, gap>>
  BY DEF SupEvent
<1>2. (live = None) => (live' = None)
  BY DEF SupEvent, DeliverEvent
<1> SUFFICES ASSUME OnlyResumed', live' # None
             PROVE  /\ Placed' /\ Replied'
                    /\ ~gap' => Watermarked' /\ Streaming' /\ Replaying'
  BY <1>1 DEF Following, OnlyResumed
<1>3. /\ live # None /\ Placed /\ Replied
      /\ ~gap => Watermarked /\ Streaming /\ Replaying
  BY <1>1, <1>2 DEF Following, OnlyResumed
<1>4. rec # None /\ Top' = Top
  BY <1>1, <1>3 DEF Placed, Top
<1>5. PICK s \in Seq(Items) : s = buffer  BY DEF SyncTyped, TypeOK
<1>6. PICK x \in Items : x = s[1]  BY <1>1, <1>5, BeforeFirst
<1>7. /\ x \in ToSet(s) /\ x[1] \in Nat /\ x[2] \in Nat \ {0} /\ x = <<x[1], x[2]>>
      /\ Before(s) = <<x[1], x[2] - 1>> /\ Head(s) = x /\ Tail(s) \in Seq(Items)
  BY <1>1, <1>5, <1>6, BeforeFirst, Cut DEF Before
<1>8. IsEvent(x) /\ Leq(x, Top)
  <2>1. 1 \in DOMAIN s  BY <1>1, <1>5
  <2> QED BY <1>5, <1>6, <1>7, <2>1 DEF SyncTyped, EventsOnly, NothingAhead
<1>9. DeliverEvent(x)
  BY <1>1, <1>3, <1>5, <1>7 DEF SupEvent, Placed
<1>10. /\ live' # None /\ live'.sid = live.sid /\ sidIndex' = sidIndex
       /\ rec' # None /\ rec'.epoch = rec.epoch
       /\ Shown' = Shown \cup {x}
       /\ Got(Shown, <<x[1], x[2] - 1>>, history, Top) => Got(Shown', x, history, Top)
       /\ /\ Watermarked /\ x[1] = rec.epoch
          /\ Got(Shown, <<x[1], x[2] - 1>>, history, Top)
          => Watermarked'
  BY <1>1, <1>3, <1>4, <1>8, <1>9, FollowDeliver
<1>11. Placed'
  BY <1>1, <1>3, <1>10 DEF Placed, Phase
<1>12. Replied' /\ Replaying'
  BY <1>1 DEF Replied, Replaying, Phase
<1> SUFFICES ASSUME ~gap PROVE Watermarked' /\ Streaming'
  BY <1>1, <1>11, <1>12
<1>13. /\ x[1] = rec.epoch
       /\ Got(Shown, <<x[1], x[2] - 1>>, history, Top)
       /\ attached => epoch = rec.epoch
  BY <1>1, <1>3, <1>5, <1>6, <1>7 DEF Streaming, Phase, OfConnection, StreamHas
<1>14. Watermarked' /\ Got(Shown', x, history', Top')
  BY <1>1, <1>3, <1>4, <1>10, <1>13
<1>15. PICK r : r = Tail(s)  OBVIOUS
<1>16. r # <<>> => r[1] = <<x[1], x[2] + 1>>
  BY <1>1, <1>5, <1>6, <1>15, RunCut DEF BufferInv
<1>17. r = <<>> /\ attached => x = Top
  BY <1>1, <1>5, <1>6, <1>15, RunCut DEF BufferInv
<1>18. r # <<>> => Before(r) = x /\ r[1][1] = rec.epoch
  BY <1>7, <1>13, <1>16 DEF Before
<1>19. buffer' = r /\ attached' = attached /\ epoch' = epoch
  BY <1>1, <1>5, <1>15
<1>20. Streaming'
  <2>1. r # <<>> => Got(Shown', Before(r), history', Top')
    BY <1>14, <1>18
  <2>2. r = <<>> /\ attached => Got(Shown', Top', history', Top')
    BY <1>4, <1>14, <1>17
  <2>3. StreamHas(Shown)'
    BY <1>19, <2>1, <2>2 DEF StreamHas, Before
  <2>4. OfConnection(rec.epoch)'
    BY <1>10, <1>13, <1>18, <1>19 DEF OfConnection
  <2> QED BY <1>1, <2>3, <2>4 DEF Streaming, Phase
<1> QED BY <1>14, <1>20

\* The receiver lagged: ask for what it dropped, from the watermark.
LEMMA FollowCatchUp ==
  ASSUME SyncTyped, BufferInv, Following, SupLag \/ SupCatchUp
  PROVE  Following'
<1> USE DEF gateVars, wireVars, coreVars, supVars, openVars, sendVars, SupGoto
<1>1. UNCHANGED <<gateVars, up, connNo, buffer, coreVars, openVars>>
  BY DEF SupLag, SupCatchUp
<1>2. Shown' = Shown /\ Top' = Top  BY <1>1 DEF Shown, Top
<1> SUFFICES ASSUME OnlyResumed', live' # None
             PROVE  /\ Placed' /\ Replied'
                    /\ ~gap' => Watermarked' /\ Streaming' /\ Replaying'
  BY <1>1 DEF Following, OnlyResumed
<1>3. /\ live # None /\ Placed /\ Replied
      /\ ~gap => Watermarked /\ Streaming /\ Replaying
  BY <1>1 DEF Following, OnlyResumed
<1>4. rec # None  BY <1>3 DEF Placed
<1>5. ~gap => Watermarked'
  BY <1>1, <1>2, <1>3 DEF Watermarked, Mark
<1>6. CASE SupLag
  <2>1. spc = "loop" /\ spc' = "catch" /\ gap' = gap /\ sup'.rec = rec
    BY <1>4, <1>6, SupTyped DEF SupLag
  <2>2. buffer # <<>> /\ (up => attached)
    BY <1>6 DEF SupLag, SyncTyped, Linked
  <2>3. Placed'  BY <1>1, <1>3, <2>1, <2>2 DEF Placed, Phase
  <2>4. Replied' /\ Replaying'  BY <2>1 DEF Replied, Replaying, Phase
  <2>5. ~gap => Streaming'
    BY <1>1, <1>3, <2>1 DEF Streaming, Phase, OfConnection
  <2> QED BY <1>5, <2>1, <2>3, <2>4, <2>5
<1>7. CASE SupCatchUp /\ spc' = "loop" /\ gap' = TRUE
  <2>1. spc = "catch" /\ lagged' = lagged  BY <1>7 DEF SupCatchUp
  <2>2. Placed'  BY <1>1, <1>3, <1>7, <2>1 DEF Placed, Phase
  <2>3. Replied'  BY <1>7 DEF Replied, Phase
  <2> QED BY <1>7, <2>2, <2>3
<1>8. CASE /\ SupCatchUp /\ up /\ spc' = "fill"
           /\ sup' = [SupIdle EXCEPT !.todo = Missed(sup.rec.seen)]
           /\ gap' = (gap \/ Truncated(sup.rec.seen))
  <2>1. spc = "catch" /\ lagged' = lagged /\ sup'.todo = Missed(sup.rec.seen)
    BY <1>8 DEF SupCatchUp, SupIdle
  <2>2. attached /\ sup.rec = rec /\ live.sid = connNo
    BY <1>3, <1>8, <2>1 DEF Placed, Phase
  <2>3. Placed'  BY <1>1, <1>3, <1>8, <2>2 DEF Placed, Phase
  <2>4. Replied'  BY <1>8 DEF Replied, Phase
  <2> SUFFICES ASSUME ~gap' PROVE Watermarked' /\ Streaming' /\ Replaying'
    BY <2>3, <2>4
  <2>5. ~gap /\ ~Truncated(rec.seen)
    <3>1. gap \in BOOLEAN /\ Truncated(sup.rec.seen) \in BOOLEAN
      BY DEF SyncTyped, TypeOK, Truncated
    <3> QED BY <1>8, <2>2, <3>1
  <2>6. Watermarked /\ rec.epoch = epoch
    BY <1>3, <2>1, <2>2, <2>5 DEF Streaming, Phase, OfConnection
  <2>7. PICK S, n : S = Shown /\ n = rec.seen  OBVIOUS
  <2>8. n \in 0 .. MaxEvents  BY <1>4, <2>7, MarksTyped
  <2>9. Got(S, <<epoch, n>>, history, Top)
    BY <2>6, <2>7 DEF Watermarked, Mark
  <2>10. /\ Got(S \cup ToSet(Missed(n)), Top, history, Top)
         /\ StreamHas(S \cup ToSet(Missed(n)))
         /\ Missed(n) # <<>> =>
              /\ IsRun(Missed(n)) /\ Missed(n)[1][1] = epoch
              /\ Before(Missed(n)) = <<epoch, n>>
    BY <2>2, <2>5, <2>7, <2>8, <2>9, Answered
  <2>11. PICK T, m : T = S \cup ToSet(Missed(n)) /\ m = Missed(n)  OBVIOUS
  <2>12. Shown' = S /\ sup'.todo = m /\ Shown' \cup Todo' = T
    BY <1>2, <2>1, <2>2, <2>7, <2>11 DEF Todo
  <2>13. StreamHas(T)'
    BY <1>1, <1>2, <2>10, <2>11 DEF StreamHas, Before
  <2>14. Streaming'
    BY <1>1, <1>3, <1>8, <2>1, <2>5, <2>12, <2>13 DEF Streaming, Phase, OfConnection, StreamHas
  <2>15. m # <<>> => IsRun(m) /\ m[1][1] = epoch /\ Before(m) = <<epoch, n>>
    BY <2>10, <2>11
  <2>16. Got(Shown', <<epoch, n>>, history', Top')
    BY <1>1, <1>2, <2>9, <2>12
  <2>17. rec'.epoch = epoch  BY <1>1, <2>6
  <2>18. Replaying'
    BY <1>8, <2>12, <2>15, <2>16, <2>17 DEF Replaying, IsRun, Before
  <2> QED BY <1>5, <2>5, <2>14, <2>18
<1> QED BY <1>6, <1>7, <1>8 DEF SupCatchUp

\* A new open or a close ends the claim.
LEMMA FollowOpen ==
  ASSUME SyncTyped, Following, Open
  PROVE  Following'
<1>1. CASE OpenStart
  <2>1. opens' = opens + 1 /\ opens \in Nat
    BY <1>1, Bounds DEF OpenStart, SyncTyped, TypeOK
  <2> QED BY <2>1 DEF Following, OnlyResumed
<1>2. CASE OpenResume \/ OpenInstall
  <2>1. opc # "idle" /\ opens' = opens  BY <1>2 DEF OpenResume, OpenInstall, supVars, openVars
  <2> QED BY <2>1 DEF Following, OnlyResumed
<1>3. CASE Close
  BY <1>3 DEF Close, Following, OnlyResumed, openVars
<1> QED BY <1>1, <1>2, <1>3 DEF Open

LEMMA SyncStep ==
  ASSUME SyncInv, [Next]_vars
  PROVE  SyncInv'
<1>1. SyncTyped /\ HistoryPast /\ BufferInv /\ NothingAhead /\ Following
  BY DEF SyncInv
<1>2. SyncTyped' /\ HistoryPast' /\ BufferInv' /\ NothingAhead'
  BY <1>1, TypedStep, PastStep, BufferStep, AheadStep
<1>3. Following'
  <2>1. CASE Elsewhere
    BY <1>1, <2>1, FollowElsewhere
  <2>2. CASE Open
    BY <1>1, <2>2, FollowOpen
  <2>3. CASE Supervisor
    BY <1>1, <2>3, FollowResume, FollowSince, FollowRebuild, FollowReplay, FollowEvent,
       FollowCatchUp DEF Supervisor
  <2> QED BY <2>1, <2>2, <2>3 DEF Elsewhere, Next
<1> QED BY <1>2, <1>3 DEF SyncInv

-----------------------------------------------------------------------------
(* The theorems                                                             *)

\* In every reachable state of send, open, close and the supervisor, whatever
\* the capacity and the bounds, each variable has its type: the live session
\* and its registry record are well formed, a live sid names a connection, and
\* the broadcast never holds more than its capacity.
THEOREM SyncTypes == Spec => []TypeOK
BY TypedAlways, PTL DEF SyncTyped

\* No interleaving of send with the rebuilds of resume_all and with re-opens
\* shows a user message twice: send appends its row only under the history
\* epoch it read before the submit, and a transcript of that epoch cannot hold
\* the message yet.
THEOREM NoDoubledRow == Spec => []NoDoubledUserRow
<1>1. ASSUME SyncTyped, UserInv PROVE NoDoubledUserRow
  <2> SUFFICES ASSUME live # None, NEW i \in 1 .. Len(live.rows), NEW j \in 1 .. Len(live.rows),
                      live.rows[i] = live.rows[j], live.rows[i][1] = 0
               PROVE  i = j
    BY DEF NoDoubledUserRow
  <2>1. live.rows \in Seq(Items)  BY <1>1 DEF SyncTyped, TypeOK, Lives
  <2>2. i \in DOMAIN live.rows /\ j \in DOMAIN live.rows  BY <2>1
  <2>3. Once(live.rows)  BY <1>1 DEF UserInv
  <2> QED BY <2>2, <2>3 DEF Once
<1> QED BY <1>1, TypedAlways, UserAlways, PTL

\* A session that is only resumed, whatever connections it lost, however the
\* gateway restarted, its log was cut and the broadcast overran: once the
\* supervisor has caught up, with no gap fill given up, the transcript shows
\* every event (resume_all, rebuild_session, catch_up_all, deliver_event).
THEOREM NothingIsMissed == Spec => []NothingMissed
<1>1. SyncInv => NothingMissed
  <2> SUFFICES ASSUME SyncInv, Settled, OnlyResumed, ~gap, NEW x \in ToSet(history), x[1] # 0
               PROVE  x \in Shown
    BY DEF NothingMissed
  <2>1. Got(Shown, Top, history, Top)
    BY DEF SyncInv, Following, Settled, Streaming, Phase, StreamHas
  <2>2. Leq(x, Top)  BY DEF SyncInv, HistoryPast
  <2> QED BY <2>1, <2>2 DEF Got
<1>2. SyncInv /\ [Next]_vars => SyncInv'
  BY SyncStep
<1> QED BY <1>1, <1>2, SyncInit, PTL DEF Spec

=============================================================================
