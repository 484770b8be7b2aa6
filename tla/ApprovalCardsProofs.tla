------------------------ MODULE ApprovalCardsProofs -------------------------
(***************************************************************************)
(* For any requests, questions, answer calls, connections and opens: what  *)
(* travels to the screen has its type; an approval card that takes no      *)
(* answer any more is one the gateway no longer waits for; an approval it  *)
(* waits for has a card once the supervisor has re-emitted them; and the   *)
(* screen shows the transcript once every change has arrived.              *)
(***************************************************************************)
EXTENDS ApprovalCards, SequenceTheorems, TLAPS

-----------------------------------------------------------------------------
(* Types                                                                    *)

SentHasId == \A a \in Answers : ans[a].pc # "idle" => ans[a].id \in Requests

Typed == TypeOK /\ SentHasId

Calls == [id : Requests \cup {"none"}, conn : 0 .. MaxConns, pc : {"idle", "sent", "taken"}]
Sups == [mark : 0 .. Len(asked), todo : Seq(1 .. Len(asked)), cards : SUBSET Approvals]

LEMMA Bounds ==
  /\ History \in Nat /\ MaxOpens \in Nat
  /\ Questions \in Nat \ {0} /\ ParkMax \in Nat \ {0} /\ MaxConns \in Nat \ {0}
  /\ "none" \notin Requests /\ "text" \notin Requests /\ "blank" \notin Requests
BY CardsAssumption

LEMMA SeqMono ==
  ASSUME NEW S, NEW T, S \subseteq T, NEW s \in Seq(S)
  PROVE  s \in Seq(T)
<1>1. s \in [1 .. Len(s) -> S] /\ Len(s) \in Nat
  OBVIOUS
<1>2. s \in [1 .. Len(s) -> T]
  BY <1>1
<1> QED BY <1>1, <1>2

LEMMA Cut ==
  ASSUME NEW S, NEW s \in Seq(S), s # <<>>
  PROVE  Head(s) \in S /\ Tail(s) \in Seq(S) /\ Len(Tail(s)) = Len(s) - 1
OBVIOUS

LEMMA RowsTyped ==
  /\ \A id \in Requests : Card(id) \in Rows
  /\ Text \in Rows /\ Blank \in Rows
  /\ HistoryRows \in Seq(Rows)
  /\ HistoryChanges \in Seq(Changes)
<1>1. /\ \A id \in Requests : Card(id) \in Rows
      /\ Text \in Rows /\ Blank \in Rows
  BY DEF Card, Text, Blank, Rows
<1>2. HistoryRows \in Seq(Rows)
  BY <1>1, Bounds DEF HistoryRows
<1>3. /\ \A i \in 1 .. History : Change("appended", i, Text) \in Changes
      /\ Change("reset", 0, Blank) \in Changes
  BY <1>1, Bounds DEF Change, Changes
<1>4. [i \in 1 .. History |-> Change("appended", i, Text)] \in Seq(Changes)
  BY <1>3, Bounds
<1>5. <<Change("reset", 0, Blank)>> \in Seq(Changes)
  BY <1>3
<1>6. HistoryChanges \in Seq(Changes)
  BY <1>4, <1>5 DEF HistoryChanges
<1> QED BY <1>1, <1>2, <1>6

LEMMA OutTyped ==
  ASSUME TypeOK, NEW p \in Procs, NEW c \in Changes, Deliver(p, c)
  PROVE  out' \in Seq(Sends)
<1>1. [by |-> p, change |-> c] \in Sends  BY DEF Sends
<1> QED BY <1>1 DEF Deliver, TypeOK

LEMMA AllOutTyped ==
  ASSUME TypeOK, NEW p \in Procs, NEW c \in Seq(Changes), DeliverAll(p, c)
  PROVE  out' \in Seq(Sends)
<1>1. PICK m : m = [i \in DOMAIN c |-> [by |-> p, change |-> c[i]]]  OBVIOUS
<1>2. DOMAIN c = 1 .. Len(c) /\ Len(c) \in Nat /\ \A i \in DOMAIN c : c[i] \in Changes  OBVIOUS
<1>3. \A i \in 1 .. Len(c) : [by |-> p, change |-> c[i]] \in Sends  BY <1>2 DEF Sends
<1>4. m \in Seq(Sends)  BY <1>1, <1>2, <1>3
<1>5. out' = out \o m  BY <1>1 DEF DeliverAll
<1> QED BY <1>4, <1>5 DEF TypeOK

LEMMA CardAppended ==
  ASSUME TypeOK, NEW id \in Requests, AppendCard(id)
  PROVE  rows' \in Seq(Rows) /\ out' \in Seq(Sends)
<1>1. rows \in Seq(Rows) /\ Card(id) \in Rows
  BY RowsTyped DEF TypeOK
<1>2. PICK c : c = Change("appended", Len(rows) + 1, Card(id))  OBVIOUS
<1>3. c \in Changes
  BY <1>1, <1>2 DEF Change, Changes
<1>4. rows' \in Seq(Rows)  BY <1>1 DEF AppendCard
<1>5. "sup" \in Procs  BY DEF Procs
<1>6. Deliver("sup", c)  BY <1>2 DEF AppendCard
<1> QED BY <1>3, <1>4, <1>5, <1>6, OutTyped

LEMMA EventDelivered ==
  ASSUME TypeOK, NEW n \in 1 .. Len(asked), DeliverEvent(n)
  PROVE  /\ rows' \in Seq(Rows) /\ out' \in Seq(Sends)
         /\ seen' \in 0 .. Len(asked) /\ UNCHANGED <<open, emitted>>
<1>1. asked \in Seq(Requests) /\ asked[n] \in Requests  BY DEF TypeOK
<1>2. CASE open
  <2>1. AppendCard(asked[n]) /\ seen' = IF n > seen THEN n ELSE seen
    BY <1>2 DEF DeliverEvent
  <2>2. seen' \in 0 .. Len(asked)  BY <1>1, <2>1 DEF TypeOK
  <2>3. UNCHANGED <<open, emitted>>  BY <1>2 DEF DeliverEvent
  <2> QED BY <1>1, <2>1, <2>2, <2>3, CardAppended
<1>3. CASE ~open
  BY <1>3 DEF DeliverEvent, coreVars, TypeOK
<1> QED BY <1>2, <1>3

LEMMA TypedInit == Init => Typed
<1> SUFFICES ASSUME Init PROVE Typed
  OBVIOUS
<1> USE Bounds, RowsTyped
<1>1. /\ asked = <<>> /\ Len(asked) = 0 /\ asked \in Seq(Requests)
      /\ buffer \in Seq(1 .. Len(asked)) /\ pipe \in Seq(Changes) /\ parked \in Seq(Changes)
      /\ Len(parked) <= ParkMax
  BY DEF Init
<1>2. sup \in [mark : 0 .. Len(asked), todo : Seq(1 .. Len(asked)), cards : SUBSET Approvals]
  BY <1>1 DEF Init
<1>3. ans \in [Answers -> Calls] /\ SentHasId
  BY DEF Init, Idle, Calls, SentHasId
<1>4. /\ attached \in BOOLEAN /\ up \in BOOLEAN /\ open \in BOOLEAN /\ tab \in BOOLEAN
      /\ pending \in BOOLEAN /\ stored \in BOOLEAN /\ closing \in BOOLEAN
      /\ checked \in BOOLEAN /\ astray \in BOOLEAN
  BY DEF Init
<1>5. out \in Seq(Sends)  BY DEF Init
<1>6. /\ clarifies \subseteq Requests /\ oldest \in 0 .. Len(asked)
      /\ waiting \in [Requests -> 0 .. Questions] /\ conns \in 1 .. MaxConns
      /\ rows \in Seq(Rows) /\ view \in Seq(Rows) /\ seen \in 0 .. Len(asked)
      /\ emitted \subseteq Approvals /\ lost \subseteq Approvals
      /\ opens \in 0 .. MaxOpens /\ spc \in {"resume", "loop"} /\ opc = "idle"
  BY <1>1 DEF Init
<1> QED BY <1>1, <1>2, <1>3, <1>4, <1>5, <1>6 DEF Typed, TypeOK, Calls

LEMMA GatewayTyped ==
  ASSUME Typed, Gateway
  PROVE  Typed'
<1> USE Bounds DEF wireVars, coreVars, supVars, tabVars, appVars, histVars
<1>1. ASSUME NEW id \in Requests, Ask(id) PROVE Typed'
  <2>1. /\ asked \in Seq(Requests) /\ asked' \in Seq(Requests)
        /\ Len(asked') = Len(asked) + 1 /\ Len(asked) \in Nat
    BY <1>1 DEF Ask, Typed, TypeOK
  <2>2. PICK n \in Nat : n = Len(asked)  BY <2>1
  <2>3. PICK N : N = 1 .. n + 1  OBVIOUS
  <2>4. 1 .. n \subseteq N /\ n + 1 \in N  BY <2>2, <2>3
  <2>5. buffer \in Seq(N)
    <3>1. buffer \in Seq(1 .. n)  BY <2>2 DEF Typed, TypeOK
    <3> QED BY <2>4, <3>1, SeqMono
  <2>6. buffer' \in Seq(N)  BY <1>1, <2>2, <2>4, <2>5 DEF Ask
  <2>7. sup.todo \in Seq(N) /\ sup.mark \in 0 .. n + 1 /\ sup.cards \subseteq Approvals
        /\ sup \in Sups
    <3>1. sup \in Sups  BY DEF Typed, TypeOK, Sups
    <3>2. sup.todo \in Seq(1 .. n) /\ sup.mark \in 0 .. n /\ sup.cards \subseteq Approvals
      BY <2>2, <3>1 DEF Sups
    <3>3. sup.todo \in Seq(N)  BY <2>4, <3>2, SeqMono
    <3> QED BY <3>1, <3>2, <3>3
  <2>8. N = 1 .. Len(asked') /\ n + 1 = Len(asked')  BY <2>1, <2>2, <2>3
  <2>9. sup' \in [mark : 0 .. Len(asked'), todo : Seq(1 .. Len(asked')), cards : SUBSET Approvals']
    BY <1>1, <2>7, <2>8 DEF Ask, Approvals, Sups
  <2>10. waiting' \in [Requests -> 0 .. Questions]
    BY <1>1 DEF Ask, Typed, TypeOK
  <2>11. oldest' \in 0 .. Len(asked') /\ seen' \in 0 .. Len(asked')
    BY <1>1, <2>1 DEF Ask, Typed, TypeOK
  <2>12. TypeOK'
    BY <1>1, <2>1, <2>6, <2>8, <2>9, <2>10, <2>11 DEF Ask, Typed, TypeOK, Approvals
  <2> QED BY <1>1, <2>12 DEF Ask, Typed, SentHasId
<1>2. CASE Truncate
  <2>1. oldest' \in 0 .. Len(asked)
    BY <1>2 DEF Truncate, Typed, TypeOK
  <2>2. TypeOK'  BY <1>2, <2>1, SMTT(40) DEF Truncate, Typed, TypeOK, Approvals
  <2> QED BY <1>2, <2>2 DEF Truncate, Typed, SentHasId
<1>3. CASE Lose
  <2>1. up' \in BOOLEAN /\ attached' \in BOOLEAN  BY <1>3 DEF Lose
  <2>2. TypeOK'  BY <1>3, <2>1 DEF Lose, Typed, TypeOK, Approvals
  <2> QED BY <1>3, <2>2 DEF Lose, Typed, SentHasId
<1>4. CASE Withdraw
  <2>1. waiting' \in [Requests -> 0 .. Questions]
    <3>1. waiting \in [Requests -> 0 .. Questions] /\ 0 \in 0 .. Questions  BY DEF Typed, TypeOK
    <3>2. ASSUME NEW id \in Requests, Count(id) PROVE waiting' \in [Requests -> 0 .. Questions]
      BY <3>1, <3>2 DEF Count
    <3> QED BY <1>4, <3>1, <3>2 DEF Withdraw
  <2>2. UNCHANGED <<clarifies, asked, oldest, attached, wireVars, coreVars, supVars, ans, tabVars, out,
                    appVars, histVars>>
    BY <1>4 DEF Withdraw
  <2>3. TypeOK'  BY <2>1, <2>2, SMTT(40) DEF Typed, TypeOK, Approvals
  <2> QED BY <2>2, <2>3 DEF Typed, SentHasId
<1> QED BY <1>1, <1>2, <1>3, <1>4 DEF Gateway

LEMMA SupTyped ==
  ASSUME Typed, Supervisor
  PROVE  Typed'
<1> USE Bounds DEF SupStep, gateVars, wireVars, coreVars, supVars, tabVars, appVars, histVars
<1>1. /\ sup \in Sups /\ asked \in Seq(Requests) /\ Len(asked) \in Nat
      /\ sup.mark \in 0 .. Len(asked) /\ sup.todo \in Seq(1 .. Len(asked))
      /\ sup.cards \subseteq Approvals
      /\ seen \in 0 .. Len(asked)
  BY DEF Typed, TypeOK, Sups
<1>2. ASSUME /\ UNCHANGED <<clarifies, asked, oldest, waiting, ans, tabVars, pipe, view, parked>>
             /\ attached' \in BOOLEAN /\ up' \in BOOLEAN /\ open' \in BOOLEAN
             /\ checked' \in BOOLEAN /\ astray' \in BOOLEAN
             /\ conns' \in 1 .. MaxConns /\ buffer' \in Seq(1 .. Len(asked))
             /\ rows' \in Seq(Rows) /\ seen' \in 0 .. Len(asked) /\ emitted' \subseteq Approvals
             /\ spc' \in {"resume", "since", "rebuild", "replay", "list", "cards", "loop"}
             /\ sup' \in Sups /\ out' \in Seq(Sends) /\ lost' \subseteq Approvals
      PROVE  Typed'
  <2>1. Approvals' = Approvals  BY <1>2 DEF Approvals
  <2>2. TypeOK'  BY <1>2, <2>1 DEF Typed, TypeOK, Sups
  <2> QED BY <1>2, <2>2 DEF Typed, SentHasId
<1>3. CASE SupReconnect
  <2>1. conns' \in 1 .. MaxConns /\ buffer' \in Seq(1 .. Len(asked))
    BY <1>3 DEF SupReconnect, Typed, TypeOK
  <2>2. up' \in BOOLEAN /\ checked' \in BOOLEAN
    BY <1>3 DEF SupReconnect
  <2> QED BY <1>1, <1>2, <1>3, <2>1, <2>2 DEF SupReconnect, Typed, TypeOK
<1>4. CASE SupResume
  <2>1. sup' \in Sups  BY <1>1, <1>4 DEF SupResume, Sups
  <2>2. attached' \in BOOLEAN  BY <1>4 DEF SupResume, Typed, TypeOK
  <2> QED BY <1>2, <1>4, <2>1, <2>2 DEF SupResume, Typed, TypeOK
<1>5. CASE SupSince
  <2>1. PICK n, m \in Nat : n = Len(asked) /\ m = sup.mark /\ m <= n  BY <1>1
  <2>2. [i \in 1 .. n - m |-> m + i] \in Seq(1 .. n)
    <3>1. \A i \in 1 .. n - m : m + i \in 1 .. n  BY <2>1
    <3>2. n - m \in Nat  BY <2>1
    <3> QED BY <3>1, <3>2
  <2>3. PICK td : td = [i \in 1 .. Len(asked) - sup.mark |-> sup.mark + i]  OBVIOUS
  <2>4. td \in Seq(1 .. Len(asked))  BY <2>1, <2>2, <2>3
  <2>5. sup' = sup \/ sup' = [sup EXCEPT !.todo = td]
    BY <1>5, <2>3 DEF SupSince
  <2>6. sup' \in Sups  BY <1>1, <2>4, <2>5 DEF Sups
  <2> QED BY <1>2, <1>5, <2>6 DEF SupSince, Typed, TypeOK
<1>6. CASE SupRebuild
  <2>1. CASE open
    <3>1. rows' \in Seq(Rows) /\ seen' \in 0 .. Len(asked) /\ lost' \subseteq Approvals
      BY <1>1, <1>6, <2>1, RowsTyped DEF SupRebuild, Typed, TypeOK
    <3>2. out' \in Seq(Sends)
      BY <1>6, <2>1, RowsTyped, AllOutTyped DEF SupRebuild, Typed, Procs
    <3>3. astray' \in BOOLEAN
      BY <1>6, <2>1 DEF SupRebuild
    <3> QED BY <1>1, <1>2, <1>6, <3>1, <3>2, <3>3 DEF SupRebuild, Typed, TypeOK
  <2>2. CASE ~open
    BY <1>1, <1>2, <1>6, <2>2 DEF SupRebuild, Typed, TypeOK
  <2> QED BY <2>1, <2>2
<1>7. CASE SupReplay
  <2>1. CASE sup.todo = <<>>
    BY <1>1, <1>2, <1>7, <2>1 DEF SupReplay, Typed, TypeOK
  <2>2. CASE sup.todo # <<>>
    <3>1. Head(sup.todo) \in 1 .. Len(asked) /\ Tail(sup.todo) \in Seq(1 .. Len(asked))
      <4>1. PICK N, s : N = 1 .. Len(asked) /\ s = sup.todo  OBVIOUS
      <4> QED BY <1>1, <2>2, <4>1, Cut
    <3>2. sup' = [sup EXCEPT !.todo = Tail(@)] /\ DeliverEvent(Head(sup.todo))
      BY <1>7, <2>2 DEF SupReplay
    <3>3. sup' \in Sups  BY <1>1, <3>1, <3>2 DEF Sups
    <3>4. /\ rows' \in Seq(Rows) /\ out' \in Seq(Sends)
          /\ seen' \in 0 .. Len(asked) /\ UNCHANGED <<open, emitted>>
      BY <3>1, <3>2, EventDelivered DEF Typed
    <3> QED BY <1>2, <1>7, <2>2, <3>3, <3>4 DEF SupReplay, Typed, TypeOK
  <2> QED BY <2>1, <2>2
<1>8. CASE SupList
  <2>1. sup' \in Sups /\ checked' \in BOOLEAN
    BY <1>1, <1>8 DEF SupList, Sups, Typed, TypeOK
  <2> QED BY <1>2, <1>8, <2>1 DEF SupList, Typed, TypeOK
<1>9. CASE SupCard
  <2>1. CASE CardsDone
    BY <1>1, <1>2, <2>1 DEF CardsDone, Typed, TypeOK
  <2>2. ASSUME NEW id \in sup.cards, SupStep("cards", "cards"), sup' = [sup EXCEPT !.cards = @ \ {id}],
               IF open /\ id \notin emitted /\ ~HasCard(id)
               THEN AppendCard(id) /\ emitted' = emitted \cup {id}
               ELSE UNCHANGED <<rows, emitted, out>>,
               UNCHANGED <<attached, wireVars, open, seen, histVars>>
        PROVE  Typed'
    <3>1. id \in Requests /\ id \in Approvals  BY <1>1 DEF Approvals
    <3>2. sup' \in Sups  BY <1>1, <2>2 DEF Sups
    <3>3. CASE AppendCard(id) /\ emitted' = emitted \cup {id}
      <4>1. rows' \in Seq(Rows) /\ out' \in Seq(Sends)
        BY <3>1, <3>3, CardAppended DEF Typed
      <4>2. emitted' \subseteq Approvals  BY <3>1, <3>3 DEF Typed, TypeOK
      <4> QED BY <1>2, <2>2, <3>2, <4>1, <4>2 DEF Typed, TypeOK
    <3>4. CASE UNCHANGED <<rows, emitted, out>>
      BY <1>2, <2>2, <3>2, <3>4 DEF Typed, TypeOK
    <3> QED BY <2>2, <3>3, <3>4
  <2> QED BY <1>9, <2>1, <2>2 DEF SupCard
<1>10. CASE SupEvent
  <2>1. /\ Head(buffer) \in 1 .. Len(asked) /\ buffer' \in Seq(1 .. Len(asked))
        /\ DeliverEvent(Head(buffer))
    <3>1. PICK N, s : N = 1 .. Len(asked) /\ s = buffer  OBVIOUS
    <3>2. s \in Seq(N) /\ s # <<>> /\ buffer' = Tail(s) /\ DeliverEvent(Head(buffer))
      BY <1>10, <3>1 DEF SupEvent, Typed, TypeOK
    <3> QED BY <3>1, <3>2, Cut
  <2>2. /\ rows' \in Seq(Rows) /\ out' \in Seq(Sends)
        /\ seen' \in 0 .. Len(asked) /\ UNCHANGED <<open, emitted>>
    BY <2>1, EventDelivered DEF Typed
  <2> QED BY <1>1, <1>2, <1>10, <2>1, <2>2 DEF SupEvent, Typed, TypeOK
<1> QED BY <1>3, <1>4, <1>5, <1>6, <1>7, <1>8, <1>9, <1>10 DEF Supervisor

\* A respond call moves; the row it resolves has a type of its own.
LEMMA AnswerTyped ==
  ASSUME Typed, NEW a \in Answers, AnswerCall(a)
  PROVE  Typed'
<1> USE Bounds DEF gateVars, wireVars, coreVars, supVars, tabVars, appVars, histVars
<1>1. /\ ans \in [Answers -> Calls] /\ waiting \in [Requests -> 0 .. Questions]
      /\ rows \in Seq(Rows) /\ Idle \in Calls /\ ans[a] \in Calls /\ conns \in 0 .. MaxConns
  BY DEF Typed, TypeOK, Calls, Idle
<1>2. ASSUME NEW from, NEW to \in Calls, AnsStep(a, from, to), to.pc # "idle" => to.id \in Requests,
             waiting' \in [Requests -> 0 .. Questions], rows' \in Seq(Rows), out' \in Seq(Sends),
             UNCHANGED <<clarifies, asked, oldest, attached, wireVars, open, seen, emitted, supVars,
                         tabVars, appVars, histVars>>
      PROVE  Typed'
  <2>1. Approvals' = Approvals  BY <1>2 DEF Approvals
  <2>2. ans' \in [Answers -> Calls] /\ ans' = [ans EXCEPT ![a] = to]
    BY <1>1, <1>2 DEF AnsStep
  <2>3. SentHasId'
    BY <1>1, <1>2, <2>2 DEF Typed, SentHasId
  <2>4. TypeOK'  BY <1>2, <2>1, <2>2, SMTT(40) DEF Typed, TypeOK, Calls
  <2> QED BY <2>3, <2>4 DEF Typed
<1>3. out \in Seq(Sends)
  BY DEF Typed, TypeOK
<1>4. ASSUME NEW id \in Requests, Respond(a, id) PROVE Typed'
  <2>1. PICK to : to = [id |-> id, conn |-> conns, pc |-> "sent"]  OBVIOUS
  <2>2. to \in Calls /\ to.id \in Requests  BY <1>1, <2>1 DEF Calls
  <2> QED BY <1>1, <1>2, <1>3, <1>4, <2>1, <2>2 DEF Respond, histVars
<1>5. ASSUME NEW id \in Requests, Count(id) PROVE waiting' \in [Requests -> 0 .. Questions]
  BY <1>1, <1>5 DEF Count
<1>6. CASE RespondTaken(a)
  <2>1. PICK to : to = [ans[a] EXCEPT !.pc = "taken"]  OBVIOUS
  <2>2. ans[a].id \in Requests  BY <1>6 DEF RespondTaken, AnsStep, Typed, SentHasId
  <2>3. to \in Calls /\ to.id \in Requests  BY <1>1, <2>1, <2>2 DEF Calls
  <2>4. waiting' \in [Requests -> 0 .. Questions]  BY <1>5, <1>6, <2>2 DEF RespondTaken
  <2> QED BY <1>1, <1>2, <1>3, <1>6, <2>1, <2>3, <2>4 DEF RespondTaken, histVars
<1>7. Idle.pc = "idle"  BY DEF Idle
<1>8. CASE RespondGone(a)
  BY <1>1, <1>2, <1>3, <1>7, <1>8 DEF RespondGone, histVars
<1>9. CASE RespondLost(a)
  <2>1. ans[a].id \in Requests  BY <1>9 DEF RespondLost, AnsStep, Typed, SentHasId
  <2>2. waiting' \in [Requests -> 0 .. Questions]  BY <1>1, <1>5, <1>9, <2>1 DEF RespondLost
  <2> QED BY <1>1, <1>2, <1>3, <1>7, <1>9, <2>2 DEF RespondLost, histVars
<1>10. CASE RespondResolve(a)
  <2>1. CASE UNCHANGED <<rows, out>>
    BY <1>1, <1>2, <1>3, <1>7, <1>10, <2>1 DEF RespondResolve
  <2>2. ASSUME NEW i \in DOMAIN rows, rows' = [rows EXCEPT ![i].waits = FALSE],
               Deliver(a, Change("updated", i, rows'[i]))
        PROVE  Typed'
    <3>1. DOMAIN rows = 1 .. Len(rows) /\ Len(rows) \in Nat /\ rows[i] \in Rows  BY <1>1
    <3>2. [rows[i] EXCEPT !.waits = FALSE] \in Rows  BY <3>1 DEF Rows
    <3>3. rows' \in Seq(Rows) /\ rows'[i] \in Rows
      BY <1>1, <2>2, <3>1, <3>2
    <3>5. PICK c : c = Change("updated", i, rows'[i])  OBVIOUS
    <3>4. c \in Changes  BY <3>1, <3>3, <3>5 DEF Change, Changes
    <3>6. Deliver(a, c) /\ a \in Procs
      BY <2>2, <3>5 DEF Procs
    <3>7. out' \in Seq(Sends)
      BY <3>4, <3>6, OutTyped DEF Typed
    <3> QED BY <1>1, <1>2, <1>7, <1>10, <3>3, <3>7 DEF RespondResolve
  <2> QED BY <1>10, <2>1, <2>2 DEF RespondResolve
<1> QED BY <1>4, <1>6, <1>8, <1>9, <1>10 DEF AnswerCall

LEMMA ApplyTyped ==
  ASSUME NEW c \in Changes, NEW shown \in Seq(Rows)
  PROVE  Apply(c, shown) \in Seq(Rows)
<1>1. CASE c.type = "reset"
  BY <1>1 DEF Apply
<1>2. CASE c.type # "reset"
  <2>1. PICK i, row : i = c.index /\ row = c.row /\ i \in Nat /\ row \in Rows
    BY DEF Changes
  <2>2. PICK n \in Nat : n = IF i > Len(shown) THEN i ELSE Len(shown)
    BY <2>1
  <2>3. \A k \in 1 .. n :
          (IF k = i THEN row ELSE IF k <= Len(shown) THEN shown[k] ELSE Blank) \in Rows
    BY <2>1, RowsTyped
  <2>4. Place(shown, i, row) \in Seq(Rows)
    BY <2>2, <2>3 DEF Place
  <2> QED BY <1>2, <2>1, <2>4 DEF Apply
<1> QED BY <1>1, <1>2

LEMMA TabTyped ==
  ASSUME Typed, Tab
  PROVE  Typed'
<1> DEFINE Pcs == Opening \cup {"idle", "listed", "drain", "failed"}
<1> USE Bounds DEF TabStep, gateVars, wireVars, coreVars, supVars, appVars, histVars, Opening
<1>1. /\ view \in Seq(Rows) /\ parked \in Seq(Changes) /\ Len(parked) <= ParkMax
      /\ opens \in 0 .. MaxOpens /\ opc \in Pcs
      /\ rows \in Seq(Rows) /\ seen \in 0 .. Len(asked) /\ Len(asked) \in Nat
      /\ out \in Seq(Sends) /\ emitted \subseteq Approvals /\ lost \subseteq Approvals
  BY DEF Typed, TypeOK
<1>2. /\ attached \in BOOLEAN /\ open \in BOOLEAN /\ tab \in BOOLEAN /\ pending \in BOOLEAN
      /\ stored \in BOOLEAN /\ closing \in BOOLEAN /\ checked \in BOOLEAN /\ astray \in BOOLEAN
  BY DEF Typed, TypeOK
<1>3. ASSUME /\ UNCHANGED <<clarifies, asked, oldest, waiting, up, conns, buffer, spc, sup, ans, pipe>>
             /\ attached' \in BOOLEAN /\ open' \in BOOLEAN /\ tab' \in BOOLEAN /\ pending' \in BOOLEAN
             /\ stored' \in BOOLEAN /\ closing' \in BOOLEAN
             /\ checked' \in BOOLEAN /\ astray' \in BOOLEAN
             /\ rows' \in Seq(Rows) /\ seen' \in 0 .. Len(asked) /\ emitted' \subseteq Approvals
             /\ opc' \in Pcs
             /\ opens' \in 0 .. MaxOpens /\ out' \in Seq(Sends)
             /\ view' \in Seq(Rows) /\ parked' \in Seq(Changes) /\ Len(parked') <= ParkMax
             /\ lost' \subseteq Approvals
      PROVE  Typed'
  <2>1. Approvals' = Approvals  BY <1>3 DEF Approvals
  <2>2. TypeOK'  BY <1>3, <2>1 DEF Typed, TypeOK
  <2> QED BY <1>3, <2>2 DEF Typed, SentHasId
<1>4. <<>> \in Seq(Rows) /\ <<>> \in Seq(Changes) /\ Len(<<>>) <= ParkMax /\ 0 \in 0 .. Len(asked)
  BY <1>1
<1>5. CASE Restore
  <2>1. opens' \in 0 .. MaxOpens  BY <1>1, <1>5 DEF Restore
  <2>2. opc' \in Pcs /\ pending' \in BOOLEAN  BY <1>5 DEF Restore
  <2> QED BY <1>1, <1>2, <1>3, <1>5, <2>1, <2>2 DEF Restore
<1>6. CASE Pick
  <2>1. opens' \in 0 .. MaxOpens  BY <1>1, <1>6 DEF Pick
  <2>2. opc' \in Pcs  BY <1>6 DEF Pick
  <2> QED BY <1>1, <1>2, <1>3, <1>6, <2>1, <2>2 DEF Pick
<1>7. CASE OpenNext
  <2>1. opc' \in Pcs  BY <1>7 DEF OpenNext
  <2> QED BY <1>1, <1>2, <1>3, <1>7, <2>1 DEF OpenNext
<1>8. Attach => attached' \in BOOLEAN /\ checked' \in BOOLEAN
  BY DEF Attach
<1>9. CASE OpenResume
  <2>1. opc' \in Pcs  BY <1>9 DEF OpenResume
  <2> QED BY <1>1, <1>2, <1>3, <1>8, <1>9, <2>1 DEF OpenResume
<1>10. CASE OpenFails
  <2>1. opc' \in Pcs  BY <1>10 DEF OpenFails
  <2>2. attached' \in BOOLEAN /\ checked' \in BOOLEAN  BY <1>2, <1>8, <1>10 DEF OpenFails
  <2> QED BY <1>1, <1>2, <1>3, <1>4, <1>10, <2>1, <2>2 DEF OpenFails
<1>11. CASE RestoreEnds
  <2>1. opc' \in Pcs /\ pending' \in BOOLEAN  BY <1>11 DEF RestoreEnds
  <2> QED BY <1>1, <1>2, <1>3, <1>11, <2>1 DEF RestoreEnds
<1>12. CASE OpenInstall
  <2>1. /\ open' \in BOOLEAN /\ stored' \in BOOLEAN /\ checked' \in BOOLEAN /\ astray' \in BOOLEAN
        /\ opc' \in Pcs
    BY <1>12 DEF OpenInstall
  <2>2. "open" \in Procs  BY DEF Procs
  <2>3. out' \in Seq(Sends)
    BY <1>1, <1>12, <2>2, RowsTyped, AllOutTyped DEF OpenInstall, Typed
  <2>4. lost' \subseteq Approvals
    BY <1>1, <1>12 DEF OpenInstall
  <2> QED BY <1>1, <1>2, <1>3, <1>4, <1>12, <2>1, <2>3, <2>4, RowsTyped DEF OpenInstall
<1>13. CASE Unpark
  <2>1. PICK s \in Seq(Changes) : s = parked  BY <1>1
  <2>2. s # <<>> /\ parked' = Tail(s) /\ view' = Apply(Head(s), view)
    BY <1>13, <2>1 DEF Unpark
  <2>3. Head(s) \in Changes /\ parked' \in Seq(Changes) /\ Len(parked') <= ParkMax
    BY <1>1, <2>1, <2>2, Cut
  <2>4. view' \in Seq(Rows)  BY <1>1, <2>2, <2>3, ApplyTyped
  <2>5. opc' \in Pcs  BY <1>13 DEF Unpark
  <2> QED BY <1>1, <1>2, <1>3, <1>13, <2>3, <2>4, <2>5 DEF Unpark
<1>14. CASE Register
  <2>1. tab' \in BOOLEAN /\ pending' \in BOOLEAN /\ opc' \in Pcs  BY <1>14 DEF Register
  <2> QED BY <1>1, <1>2, <1>3, <1>14, <2>1 DEF Register
<1>15. CASE CloseTab
  <2>1. open' \in BOOLEAN /\ stored' \in BOOLEAN /\ checked' \in BOOLEAN /\ closing' \in BOOLEAN
    BY <1>15 DEF CloseTab
  <2> QED BY <1>1, <1>2, <1>3, <1>4, <1>15, <2>1 DEF CloseTab
<1>16. CASE DropTab
  <2>1. tab' \in BOOLEAN /\ closing' \in BOOLEAN /\ astray' \in BOOLEAN  BY <1>16 DEF DropTab
  <2> QED BY <1>1, <1>2, <1>3, <1>4, <1>16, <2>1 DEF DropTab
<1> QED BY <1>5, <1>6, <1>7, <1>9, <1>10, <1>11, <1>12, <1>13, <1>14, <1>15, <1>16 DEF Tab

\* What is handed over is gone, the others stay in their order.
LEMMA Without ==
  ASSUME NEW S, NEW s \in Seq(S), NEW j \in DOMAIN s
  PROVE  /\ RemoveAt(s, j) \in Seq(S) /\ Len(RemoveAt(s, j)) = Len(s) - 1
         /\ \A i \in 1 .. Len(s) - 1 : RemoveAt(s, j)[i] = IF i < j THEN s[i] ELSE s[i + 1]
<1>1. PICK a, b : a = SubSeq(s, 1, j - 1) /\ b = SubSeq(s, j + 1, Len(s))
  OBVIOUS
<1>2. j \in 1 .. Len(s) /\ Len(s) \in Nat
  OBVIOUS
<1>3. /\ a \in Seq(S) /\ Len(a) = j - 1
      /\ \A i \in 1 .. j - 1 : a[i] = s[i]
  BY <1>1, <1>2, SubSeqProperties
<1>4. /\ b \in Seq(S) /\ Len(b) = Len(s) - j
      /\ \A i \in 1 .. Len(s) - j : b[i] = s[i + j]
  BY <1>1, <1>2, SubSeqProperties
<1>5. PICK w : w = a \o b
  OBVIOUS
<1>6. /\ w \in Seq(S) /\ Len(w) = Len(a) + Len(b)
      /\ \A i \in 1 .. Len(a) + Len(b) : w[i] = IF i <= Len(a) THEN a[i] ELSE b[i - Len(a)]
  BY <1>3, <1>4, <1>5, ConcatProperties
<1>7. ASSUME NEW i \in 1 .. Len(s) - 1 PROVE w[i] = IF i < j THEN s[i] ELSE s[i + 1]
  <2>1. CASE i < j
    BY <1>2, <1>3, <1>4, <1>6, <2>1
  <2>2. CASE ~(i < j)
    <3>1. i - (j - 1) \in 1 .. Len(s) - j /\ (i - (j - 1)) + j = i + 1 /\ ~(i <= j - 1)
      BY <1>2, <2>2
    <3>2. w[i] = b[i - (j - 1)]  BY <1>2, <1>3, <1>4, <1>6, <3>1
    <3>3. b[i - (j - 1)] = s[(i - (j - 1)) + j]  BY <1>4, <3>1
    <3> QED BY <2>2, <3>1, <3>2, <3>3
  <2> QED BY <2>1, <2>2
<1>8. RemoveAt(s, j) = w
  BY <1>1, <1>5 DEF RemoveAt
<1>9. Len(w) = Len(s) - 1
  BY <1>2, <1>3, <1>4, <1>6
<1> QED BY <1>6, <1>7, <1>8, <1>9

\* A change on its way to the app, and in it.
LEMMA ChangeTyped ==
  ASSUME Typed, (\E p \in Procs : OnTranscript(p)) \/ OnTranscriptChange
  PROVE  Typed'
<1> USE Bounds DEF gateVars, wireVars, coreVars, supVars, tabVars, histVars
<1>1. /\ view \in Seq(Rows) /\ parked \in Seq(Changes) /\ Len(parked) <= ParkMax
      /\ pipe \in Seq(Changes) /\ out \in Seq(Sends) /\ astray \in BOOLEAN
  BY DEF Typed, TypeOK
<1>2. ASSUME /\ UNCHANGED <<gateVars, wireVars, coreVars, supVars, ans, tabVars, lost, checked>>
             /\ astray' \in BOOLEAN
             /\ view' \in Seq(Rows) /\ parked' \in Seq(Changes) /\ Len(parked') <= ParkMax
             /\ pipe' \in Seq(Changes) /\ out' \in Seq(Sends)
      PROVE  Typed'
  <2>1. Approvals' = Approvals  BY <1>2 DEF Approvals
  <2>2. TypeOK'  BY <1>2, <2>1, SMTT(40) DEF Typed, TypeOK
  <2> QED BY <1>2, <2>2 DEF Typed, SentHasId
<1>3. ASSUME NEW p \in Procs, OnTranscript(p) PROVE Typed'
  <2>1. PICK j \in DOMAIN out : /\ pipe' = Append(pipe, out[j].change) /\ out' = RemoveAt(out, j)
                                /\ astray' \in BOOLEAN
    BY <1>3 DEF OnTranscript
  <2>2. out[j].change \in Changes
    <3>1. out[j] \in Sends  BY <1>1, <2>1
    <3> QED BY <3>1 DEF Sends
  <2>3. out' \in Seq(Sends)  BY <1>1, <2>1, Without
  <2>4. pipe' \in Seq(Changes)  BY <1>1, <2>1, <2>2
  <2> QED BY <1>1, <1>2, <1>3, <2>1, <2>3, <2>4 DEF OnTranscript
<1>4. CASE OnTranscriptChange
  <2>1. PICK s, q \in Seq(Changes) : s = pipe /\ q = parked  BY <1>1
  <2>2. s # <<>> /\ pipe' = Tail(s)  BY <1>4, <2>1 DEF OnTranscriptChange
  <2>3. Head(s) \in Changes /\ pipe' \in Seq(Changes)  BY <2>1, <2>2, Cut
  <2>0. astray' \in BOOLEAN  BY <1>1, <1>4 DEF OnTranscriptChange
  <2>4. CASE UNCHANGED parked /\ view' = Apply(Head(s), view)
    BY <1>1, <1>2, <1>4, <2>0, <2>3, <2>4, ApplyTyped DEF OnTranscriptChange
  <2>5. CASE UNCHANGED <<view, parked>>
    BY <1>1, <1>2, <1>4, <2>0, <2>3, <2>5 DEF OnTranscriptChange
  <2>6. CASE UNCHANGED view /\ parked' = Append(IF Len(q) < ParkMax THEN q ELSE Tail(q), Head(s))
    <3>1. PICK kept : kept = IF Len(q) < ParkMax THEN q ELSE Tail(q)  OBVIOUS
    <3>2. Len(q) <= ParkMax  BY <1>1, <2>1
    <3>3. kept \in Seq(Changes) /\ Len(kept) < ParkMax
      <4>1. CASE Len(q) < ParkMax  BY <2>1, <3>1, <4>1
      <4>2. CASE ~(Len(q) < ParkMax)
        <5>1. Len(q) = ParkMax /\ q # <<>>  BY <2>1, <3>2, <4>2
        <5> QED BY <2>1, <3>1, <4>2, <5>1, Cut
      <4> QED BY <4>1, <4>2
    <3>4. parked' \in Seq(Changes) /\ Len(parked') <= ParkMax
      BY <2>3, <2>6, <3>1, <3>3
    <3> QED BY <1>1, <1>2, <1>4, <2>0, <2>3, <2>6, <3>4 DEF OnTranscriptChange
  <2> QED BY <1>4, <2>1, <2>4, <2>5, <2>6 DEF OnTranscriptChange
<1> QED BY <1>3, <1>4

LEMMA TypedStep == Typed /\ [Next]_vars => Typed'
<1> SUFFICES ASSUME Typed, [Next]_vars PROVE Typed'
  OBVIOUS
<1>1. CASE UNCHANGED vars
  BY <1>1 DEF vars, gateVars, wireVars, coreVars, supVars, tabVars, appVars, histVars, Typed, TypeOK,
              SentHasId, Approvals
<1> QED BY <1>1, GatewayTyped, SupTyped, AnswerTyped, TabTyped, ChangeTyped DEF Next

\* Every row the screen shows, every change on its way or parked, every position of the
\* log a task holds and every card it re-emits has its type, and no more than
\* PARKED_CHANGES_MAX changes are ever parked, however the tasks interleave.
THEOREM CardsTyped == Spec => []TypeOK
<1>1. Typed => TypeOK  BY DEF Typed
<1> QED BY <1>1, TypedInit, TypedStep, PTL DEF Spec

-----------------------------------------------------------------------------

(***************************************************************************)
(* ResolvedIsAnswered is not inductive: a card is resolved some steps      *)
(* after the gateway took the answer, and an approval once answered could  *)
(* be asked again.  The gateway asks each request once (it is in the log   *)
(* from then on), so what it waits for only goes down afterwards.          *)
(***************************************************************************)
IsRows == rows \in Seq({rows[i] : i \in DOMAIN rows})

WaitsForAsked ==
  /\ asked \in Seq(Requests) /\ clarifies \subseteq Requests
  /\ waiting \in [Requests -> Nat]
  /\ \A id \in Approvals : waiting[id] \in {0, 1} /\ (waiting[id] = 1 => Contains(asked, id))

\* What a respond call holds between the gateway's reply and the lock.
TakenIsAnswered ==
  \A a \in Answers : ans[a].pc = "taken" /\ ans[a].id \in Approvals =>
    Contains(asked, ans[a].id) /\ waiting[ans[a].id] = 0

AnsTyped ==
  ans \in [Answers -> [id : Requests \cup {"none"}, conn : Nat, pc : {"idle", "sent", "taken"}]]

ResolvedWasAsked ==
  \A i \in DOMAIN rows : rows[i].id \in Approvals /\ ~rows[i].waits =>
    Contains(asked, rows[i].id) /\ waiting[rows[i].id] = 0

CardInv == /\ conns \in Nat /\ IsRows /\ WaitsForAsked /\ AnsTyped /\ SentHasId
           /\ TakenIsAnswered /\ ResolvedWasAsked

-----------------------------------------------------------------------------
(* Rows                                                                     *)

LEMMA SeqOfOwn ==
  ASSUME NEW S, NEW s \in Seq(S)
  PROVE  s \in Seq({s[i] : i \in DOMAIN s})
<1>1. s \in [1..Len(s) -> {s[i] : i \in DOMAIN s}] /\ Len(s) \in Nat
  OBVIOUS
<1> QED BY <1>1

LEMMA RowsAppend ==
  ASSUME IsRows, NEW c, rows' = Append(rows, c)
  PROVE  /\ IsRows' /\ Len(rows') = Len(rows) + 1 /\ rows'[Len(rows) + 1] = c
         /\ DOMAIN rows = 1..Len(rows) /\ DOMAIN rows' = 1..Len(rows)+1
         /\ \A i \in 1..Len(rows) : rows'[i] = rows[i]
<1> DEFINE S == {rows[i] : i \in DOMAIN rows} \cup {c}
<1>1. rows \in Seq(S)
  BY DEF IsRows
<1>2. rows' \in Seq(S) /\ c \in S
  BY <1>1
<1> HIDE DEF S
<1>3. IsRows'
  BY <1>2, SeqOfOwn DEF IsRows
<1> QED BY <1>1, <1>2, <1>3

LEMMA RowsHistory ==
  ASSUME rows' = HistoryRows
  PROVE  IsRows' /\ (\A i \in DOMAIN rows : rows[i].id \notin Requests)'
<1>1. HistoryRows \in Seq({Text}) /\ \A i \in DOMAIN HistoryRows : HistoryRows[i] = Text
  BY CardsAssumption DEF HistoryRows
<1>2. IsRows'
  BY <1>1, SeqOfOwn DEF IsRows
<1>3. Text.id \notin Requests
  BY CardsAssumption DEF Text
<1> QED BY <1>1, <1>2, <1>3

-----------------------------------------------------------------------------
(* Steps                                                                    *)

\* Whoever leaves the gateway and the answers alone may append cards that wait
\* for an answer, or replace the transcript by one without cards.
LEMMA CoreKeeps ==
  ASSUME CardInv, UNCHANGED <<clarifies, asked, waiting, ans>>, conns' \in Nat,
         \/ rows' = rows
         \/ rows' = HistoryRows \/ rows' = << >>
         \/ \E id : rows' = Append(rows, Card(id))
  PROVE  CardInv'
<1>1. WaitsForAsked' /\ AnsTyped' /\ SentHasId' /\ TakenIsAnswered'
  BY DEF CardInv, WaitsForAsked, AnsTyped, SentHasId, TakenIsAnswered, Approvals
<1>2. CASE rows' = rows
  BY <1>1, <1>2 DEF CardInv, IsRows, ResolvedWasAsked, Approvals
<1>3. CASE rows' = HistoryRows
  BY <1>1, <1>3, RowsHistory DEF CardInv, ResolvedWasAsked, Approvals
<1>4. CASE rows' = << >>
  BY <1>1, <1>4 DEF CardInv, IsRows, ResolvedWasAsked
<1>5. ASSUME NEW id, rows' = Append(rows, Card(id)) PROVE CardInv'
  <2>1. Card(id).waits
    BY DEF Card
  <2>2. ResolvedWasAsked'
    BY <1>5, <2>1, RowsAppend DEF CardInv, ResolvedWasAsked, Approvals
  <2> QED BY <1>1, <1>5, <2>2, RowsAppend DEF CardInv
<1> QED BY <1>2, <1>3, <1>4, <1>5

LEMMA LogGrows ==
  ASSUME asked \in Seq(Requests), NEW id \in Requests, asked' = Append(asked, id)
  PROVE  /\ asked' \in Seq(Requests) /\ Contains(asked, id)'
         /\ \A z : Contains(asked, z) => Contains(asked, z)'
<1>1. /\ asked' \in Seq(Requests) /\ Len(asked') = Len(asked) + 1 /\ asked'[Len(asked')] = id
      /\ \A i \in 1..Len(asked) : asked'[i] = asked[i]
  OBVIOUS
<1> QED BY <1>1 DEF Contains

LEMMA AskKeeps ==
  ASSUME CardInv, NEW id \in Requests, Ask(id)
  PROVE  CardInv'
<1> USE DEF Ask, coreVars, Approvals
<1>1. /\ asked' \in Seq(Requests) /\ Contains(asked, id)' /\ ~Contains(asked, id)
      /\ \A z : Contains(asked, z) => Contains(asked, z)'
  BY LogGrows DEF CardInv, WaitsForAsked
<1>2. WaitsForAsked'
  BY <1>1, CardsAssumption DEF CardInv, WaitsForAsked
<1>3. \A z \in Requests : Contains(asked, z) => waiting'[z] = waiting[z]
  BY <1>1 DEF CardInv, WaitsForAsked
<1>4. TakenIsAnswered'
  BY <1>1, <1>3 DEF CardInv, TakenIsAnswered
<1>5. ResolvedWasAsked'
  BY <1>1, <1>3 DEF CardInv, ResolvedWasAsked
<1> QED BY <1>2, <1>4, <1>5 DEF CardInv, IsRows, AnsTyped, SentHasId

\* What is waited for never grows but by a new request.
LEMMA LessWaiting ==
  ASSUME CardInv, UNCHANGED <<clarifies, asked>>, waiting' \in [Requests -> Nat],
         \A id \in Requests : waiting'[id] <= waiting[id]
  PROVE  /\ WaitsForAsked'
         /\ \A id \in Approvals : waiting[id] = 0 => waiting'[id] = 0
BY DEF CardInv, WaitsForAsked, Approvals, Contains

LEMMA CountLess ==
  ASSUME CardInv, NEW id \in Requests, Count(id)
  PROVE  /\ waiting' \in [Requests -> Nat] /\ \A z \in Requests : waiting'[z] <= waiting[z]
         /\ id \in Approvals => waiting'[id] = 0
BY DEF CardInv, WaitsForAsked, Count

LEMMA WithdrawKeeps ==
  ASSUME CardInv, Withdraw
  PROVE  CardInv'
<1>1. waiting' \in [Requests -> Nat] /\ \A id \in Requests : waiting'[id] <= waiting[id]
  BY CountLess DEF Withdraw, CardInv, WaitsForAsked
<1>2. WaitsForAsked' /\ \A id \in Approvals : waiting[id] = 0 => waiting'[id] = 0
  BY <1>1, LessWaiting DEF Withdraw
<1> QED BY <1>2 DEF Withdraw, CardInv, IsRows, AnsTyped, SentHasId, TakenIsAnswered,
                    ResolvedWasAsked, Approvals, coreVars, wireVars

\* A respond call goes on, and what is waited for does not grow.
LEMMA AnswerMoves ==
  ASSUME CardInv, NEW a \in Answers, NEW from, UNCHANGED <<clarifies, asked, rows, conns>>,
         NEW to \in [id : Requests \cup {"none"}, conn : Nat, pc : {"idle", "sent", "taken"}],
         AnsStep(a, from, to), waiting' \in [Requests -> Nat],
         \A id \in Requests : waiting'[id] <= waiting[id],
         to.pc # "idle" => to.id \in Requests,
         to.pc = "taken" /\ to.id \in Approvals => Contains(asked, to.id) /\ waiting'[to.id] = 0
  PROVE  CardInv'
<1>1. WaitsForAsked' /\ \A id \in Approvals : waiting[id] = 0 => waiting'[id] = 0
  BY LessWaiting
<1>2. /\ AnsTyped' /\ ans'[a] = to /\ \A u \in Answers \ {a} : ans'[u] = ans[u]
  BY DEF AnsStep, CardInv, AnsTyped
<1>3. SentHasId'
  BY <1>2 DEF CardInv, SentHasId
<1>4. TakenIsAnswered'
  BY <1>1, <1>2 DEF CardInv, TakenIsAnswered, Approvals
<1>5. ResolvedWasAsked'
  BY <1>1 DEF CardInv, ResolvedWasAsked, Approvals
<1> QED BY <1>1, <1>2, <1>3, <1>4, <1>5 DEF CardInv, IsRows

LEMMA ResolveKeeps ==
  ASSUME CardInv, NEW a \in Answers, RespondResolve(a)
  PROVE  CardInv'
<1> DEFINE id == ans[a].id
<1>1. /\ ans[a].pc = "taken" /\ AnsStep(a, "taken", Idle)
      /\ UNCHANGED <<clarifies, asked, waiting, conns>>
  BY DEF RespondResolve, AnsStep, gateVars, wireVars
<1>2. Idle \in [id : Requests \cup {"none"}, conn : Nat, pc : {"idle", "sent", "taken"}]
  BY DEF Idle
<1>3. WaitsForAsked' /\ AnsTyped' /\ SentHasId' /\ TakenIsAnswered'
  BY <1>1, <1>2 DEF CardInv, WaitsForAsked, AnsTyped, SentHasId, TakenIsAnswered, AnsStep,
                    Approvals, Idle
<1>4. CASE rows' = rows
  BY <1>1, <1>3, <1>4 DEF CardInv, IsRows, ResolvedWasAsked, Approvals
<1>5. ASSUME NEW i \in DOMAIN rows, FirstCard(id, i), rows' = [rows EXCEPT ![i].waits = FALSE]
      PROVE  CardInv'
  <2>1. rows[i].id = id
    BY <1>5 DEF FirstCard, Card
  <2>2. DOMAIN rows' = DOMAIN rows /\ \A j \in DOMAIN rows \ {i} : rows'[j] = rows[j]
    BY <1>5
  <2>3. rows'[i].id = id
    BY <1>5, <2>1 DEF FirstCard, Card
  <2>4. id \in Approvals => Contains(asked, id) /\ waiting[id] = 0
    BY <1>1 DEF CardInv, TakenIsAnswered
  <2>5. ResolvedWasAsked'
    BY <1>1, <2>2, <2>3, <2>4 DEF CardInv, ResolvedWasAsked, Approvals
  <2>6. IsRows'
    <3> DEFINE S == {rows[j] : j \in DOMAIN rows} \cup {rows'[i]}
    <3>1. rows \in Seq(S) /\ rows'[i] \in S
      BY DEF CardInv, IsRows
    <3>2. DOMAIN rows = 1..Len(rows) /\ Len(rows) \in Nat
      BY <3>1
    <3>3. rows' \in [1..Len(rows) -> S]
      BY <1>5, <2>2, <3>1, <3>2
    <3>4. rows' \in Seq(S)
      BY <3>2, <3>3
    <3> HIDE DEF S
    <3> QED BY <3>4, SeqOfOwn DEF IsRows
  <2> QED BY <1>1, <1>3, <2>5, <2>6 DEF CardInv
<1> QED BY <1>4, <1>5 DEF RespondResolve

LEMMA AnswerKeeps ==
  ASSUME CardInv, NEW a \in Answers, AnswerCall(a)
  PROVE  CardInv'
<1> DEFINE Ans == [id : Requests \cup {"none"}, conn : Nat, pc : {"idle", "sent", "taken"}]
<1>1. Idle \in Ans /\ Idle.pc = "idle" /\ ans[a] \in Ans /\ \A z \in Requests : waiting[z] <= waiting[z]
  BY DEF Idle, CardInv, AnsTyped, WaitsForAsked
<1>2. ASSUME NEW id \in Requests, Respond(a, id) PROVE CardInv'
  <2>1. /\ [id |-> id, conn |-> conns, pc |-> "sent"] \in Ans
        /\ UNCHANGED <<clarifies, asked, rows, conns, waiting>>
    BY <1>2 DEF Respond, CardInv, gateVars, wireVars, coreVars
  <2> QED BY <1>1, <1>2, <2>1, AnswerMoves DEF Respond, CardInv, WaitsForAsked
<1>3. CASE RespondTaken(a)
  <2> DEFINE to == [ans[a] EXCEPT !.pc = "taken"]
  <2>1. /\ to \in Ans /\ to.pc = "taken" /\ to.id = ans[a].id
        /\ UNCHANGED <<clarifies, asked, rows, conns>>
    BY <1>1, <1>3 DEF RespondTaken, wireVars, coreVars
  <2>2. ans[a].id \in Requests
    BY <1>3 DEF RespondTaken, AnsStep, CardInv, SentHasId
  <2>3. to.id \in Approvals => Contains(asked, to.id) /\ waiting'[to.id] = 0
    BY <1>3, <2>1, <2>2, CountLess DEF RespondTaken, Approvals, CardInv, WaitsForAsked
  <2>4. AnsStep(a, "sent", to)
    BY <1>3 DEF RespondTaken
  <2>5. waiting' \in [Requests -> Nat] /\ \A z \in Requests : waiting'[z] <= waiting[z]
    BY <1>3, <2>2, CountLess DEF RespondTaken
  <2> HIDE DEF to
  <2> QED BY <2>1, <2>2, <2>3, <2>4, <2>5, AnswerMoves
<1>4. CASE RespondGone(a)
  <2>1. UNCHANGED <<clarifies, asked, rows, conns, waiting>> /\ AnsStep(a, "sent", Idle)
    BY <1>4 DEF RespondGone, gateVars, wireVars, coreVars
  <2> QED BY <1>1, <2>1, AnswerMoves DEF CardInv, WaitsForAsked
<1>5. CASE RespondLost(a)
  <2>1. UNCHANGED <<clarifies, asked, rows, conns>> /\ AnsStep(a, "sent", Idle)
    BY <1>5 DEF RespondLost, wireVars, coreVars
  <2>2. ans[a].id \in Requests
    BY <1>5 DEF RespondLost, AnsStep, CardInv, SentHasId
  <2>3. waiting' \in [Requests -> Nat] /\ \A z \in Requests : waiting'[z] <= waiting[z]
    BY <1>1, <1>5, <2>2, CountLess DEF RespondLost, CardInv, WaitsForAsked
  <2> QED BY <1>1, <2>1, <2>3, AnswerMoves
<1> QED BY <1>2, <1>3, <1>4, <1>5, ResolveKeeps DEF AnswerCall

\* The supervisor, the tab and the app make waiting cards and whole transcripts.
LEMMA SupKeeps ==
  ASSUME CardInv, Supervisor
  PROVE  CardInv'
<1> USE DEF SupStep, wireVars, coreVars, CardInv
<1>1. CASE SupReconnect
  BY <1>1, CoreKeeps DEF SupReconnect
<1>2. CASE SupResume
  BY <1>2, CoreKeeps DEF SupResume
<1>3. CASE SupSince
  BY <1>3, CoreKeeps DEF SupSince
<1>4. CASE SupRebuild
  BY <1>4, CoreKeeps DEF SupRebuild
<1>5. CASE SupReplay
  BY <1>5, CoreKeeps DEF SupReplay, DeliverEvent, AppendCard
<1>6. CASE SupList
  BY <1>6, CoreKeeps DEF SupList
<1>7. CASE SupCard
  BY <1>7, CoreKeeps DEF SupCard, CardsDone, AppendCard
<1>8. CASE SupEvent
  BY <1>8, CoreKeeps DEF SupEvent, DeliverEvent, AppendCard
<1> QED BY <1>1, <1>2, <1>3, <1>4, <1>5, <1>6, <1>7, <1>8 DEF Supervisor

LEMMA TabKeeps ==
  ASSUME CardInv, Tab
  PROVE  CardInv'
<1> USE DEF gateVars, wireVars, coreVars, CardInv
<1>1. CASE Restore \/ OpenNext \/ Pick \/ RestoreEnds \/ Unpark \/ Register \/ DropTab
  BY <1>1, CoreKeeps DEF Restore, OpenNext, Pick, RestoreEnds, Unpark, Register, DropTab
<1>2. CASE OpenResume \/ OpenFails
  BY <1>2, CoreKeeps DEF OpenResume, OpenFails
<1>3. CASE OpenInstall
  BY <1>3, CoreKeeps DEF OpenInstall
<1>4. CASE CloseTab
  BY <1>4, CoreKeeps DEF CloseTab
<1> QED BY <1>1, <1>2, <1>3, <1>4 DEF Tab

LEMMA CardInit == Init => CardInv
<1> SUFFICES ASSUME Init PROVE CardInv
  OBVIOUS
<1>1. rows \in Seq({Text}) /\ \A i \in DOMAIN rows : rows[i] = Text
  <2>1. /\ HistoryRows \in Seq({Text}) /\ \A i \in DOMAIN HistoryRows : HistoryRows[i] = Text
        /\ <<>> \in Seq({Text}) /\ DOMAIN <<>> = {}
    BY CardsAssumption DEF HistoryRows
  <2>2. rows = HistoryRows \/ rows = <<>>
    BY DEF Init
  <2> QED BY <2>1, <2>2
<1>2. IsRows
  BY <1>1, SeqOfOwn DEF IsRows
<1>3. ResolvedWasAsked
  BY <1>1, CardsAssumption DEF ResolvedWasAsked, Text, Approvals
<1>4. WaitsForAsked
  BY DEF Init, WaitsForAsked, Approvals
<1>5. AnsTyped /\ SentHasId /\ TakenIsAnswered
  BY DEF Init, Idle, AnsTyped, SentHasId, TakenIsAnswered
<1> QED BY <1>2, <1>3, <1>4, <1>5 DEF Init, CardInv

LEMMA CardStep == CardInv /\ [Next]_vars => CardInv'
<1> SUFFICES ASSUME CardInv, [Next]_vars PROVE CardInv'
  OBVIOUS
<1>1. CASE Truncate \/ Lose
  BY <1>1, CoreKeeps DEF Truncate, Lose, wireVars, coreVars, CardInv
<1>2. CASE (\E p \in Procs : OnTranscript(p)) \/ OnTranscriptChange
  BY <1>2, CoreKeeps DEF OnTranscript, OnTranscriptChange, gateVars, wireVars, coreVars, CardInv
<1>3. CASE UNCHANGED vars
  BY <1>3, CoreKeeps DEF vars, gateVars, wireVars, coreVars, CardInv
<1> QED BY <1>1, <1>2, <1>3, AskKeeps, WithdrawKeeps, SupKeeps, TabKeeps, AnswerKeeps
        DEF Next, Gateway

-----------------------------------------------------------------------------
(* PendingIsShown is about a supervisor that has settled.  Before that, an   *)
(* approval the gateway waits for may be on its way: in the list of          *)
(* approval.pending the supervisor goes through, or in its broadcast.  One   *)
(* that was re-emitted before is passed over, so it has its card or a        *)
(* rebuild, or a re-open of the open session, has removed it.                *)

CheckedLate == (attached => up) /\ (checked => spc \in {"cards", "loop"})

EmittedAsked ==
  /\ ~open => emitted = {}
  /\ \A id \in emitted \cup sup.cards : Contains(asked, id)

EmittedShown == \A id \in emitted : waiting[id] > 0 => HasCard(id) \/ id \in lost

Coming(id) ==
  \/ spc = "cards" /\ id \in sup.cards
  \/ \E i \in DOMAIN buffer : asked[buffer[i]] = id

WaitingShown ==
  open /\ checked /\ attached =>
    \A id \in Approvals : waiting[id] > 0 => HasCard(id) \/ id \in lost \/ Coming(id)

Shown == CheckedLate /\ EmittedAsked /\ EmittedShown /\ WaitingShown

LEMMA CardsStay ==
  ASSUME CardInv, NEW c, rows' = Append(rows, c)
  PROVE  /\ \A z : HasCard(z) => HasCard(z)'
         /\ \A z : c = Card(z) => HasCard(z)'
<1>1. /\ DOMAIN rows = 1..Len(rows) /\ DOMAIN rows' = 1..Len(rows)+1
      /\ \A i \in 1..Len(rows) : rows'[i] = rows[i]
      /\ rows'[Len(rows) + 1] = c /\ Len(rows) \in Nat
  BY RowsAppend DEF CardInv, IsRows
<1>2. \A i \in DOMAIN rows : i \in DOMAIN rows' /\ rows'[i] = rows[i]
  BY <1>1
<1>3. Len(rows) + 1 \in DOMAIN rows'
  BY <1>1
<1> QED BY <1>1, <1>2, <1>3 DEF HasCard, Card

\* The transcript keeps what is waited for, and the supervisor is not further than it was.
LEMMA ShownKept ==
  ASSUME Typed, Shown, UNCHANGED <<clarifies, asked, open, emitted>>, CheckedLate',
         \A id \in Approvals : waiting'[id] > 0 => waiting[id] > 0,
         \A id \in Approvals : waiting[id] > 0 /\ HasCard(id) => HasCard(id)',
         lost \subseteq lost', sup'.cards \subseteq sup.cards,
         open /\ checked' /\ attached' =>
           checked /\ attached /\ buffer' = buffer /\ spc' = spc /\ sup'.cards = sup.cards
  PROVE  Shown'
<1>1. emitted \subseteq Approvals /\ Approvals' = Approvals  BY DEF Typed, TypeOK, Approvals
<1>2. EmittedAsked'  BY DEF Shown, EmittedAsked, Contains
<1>3. EmittedShown'  BY <1>1 DEF Shown, EmittedShown
<1>4. WaitingShown'
  <2> SUFFICES ASSUME open /\ checked' /\ attached', NEW id \in Approvals, waiting'[id] > 0
               PROVE  HasCard(id)' \/ id \in lost' \/ Coming(id)'
    BY <1>1 DEF WaitingShown
  <2>1. HasCard(id) \/ id \in lost \/ Coming(id)  BY DEF Shown, WaitingShown
  <2> QED BY <2>1 DEF Coming
<1> QED BY <1>2, <1>3, <1>4 DEF Shown

LEMMA ShownGateway ==
  ASSUME Typed, CardInv, Shown, Gateway
  PROVE  Shown'
<1> USE DEF wireVars, coreVars, supVars, tabVars, appVars, histVars
<1>1. ASSUME NEW id \in Requests, Ask(id) PROVE Shown'
  <2>1. /\ asked \in Seq(Requests) /\ buffer \in Seq(1 .. Len(asked)) /\ Len(asked) \in Nat
        /\ emitted \subseteq Approvals /\ sup.cards \subseteq Approvals
        /\ Approvals' = Approvals /\ waiting \in [Requests -> 0 .. Questions]
    BY <1>1 DEF Ask, Typed, TypeOK, Approvals
  <2>2. /\ \A z : Contains(asked, z) => Contains(asked, z)'
        /\ \A i \in 1 .. Len(asked) : asked'[i] = asked[i]
        /\ asked'[Len(asked) + 1] = id
    BY <1>1, <2>1, LogGrows DEF Ask
  <2>3. \A z \in Approvals : z # id => waiting'[z] = waiting[z]
    BY <1>1, <2>1 DEF Ask, Approvals
  <2>4. EmittedAsked'
    BY <1>1, <2>2 DEF Ask, Shown, EmittedAsked
  <2>5. EmittedShown'
    <3> SUFFICES ASSUME NEW z \in emitted, waiting'[z] > 0 PROVE HasCard(z)' \/ z \in lost'
      BY <1>1 DEF EmittedShown, Ask
    <3>1. z # id /\ z \in Approvals  BY <1>1, <2>1 DEF Ask, Shown, EmittedAsked
    <3>2. HasCard(z) \/ z \in lost  BY <2>3, <3>1 DEF Shown, EmittedShown
    <3> QED BY <1>1, <3>2 DEF Ask, HasCard
  <2>6. WaitingShown'
    <3> SUFFICES ASSUME open /\ checked /\ attached, NEW z \in Approvals, waiting'[z] > 0
                 PROVE  HasCard(z)' \/ z \in lost' \/ Coming(z)'
      BY <1>1, <2>1 DEF WaitingShown, Ask
    <3>1. buffer' = Append(buffer, Len(asked) + 1)  BY <1>1 DEF Ask, Shown, CheckedLate
    <3>2. PICK b : b = buffer  OBVIOUS
    <3>3. PICK n \in Nat : n = Len(asked)  BY <2>1
    <3>4. PICK N : N = 1 .. n  OBVIOUS
    <3>5. b \in Seq(N) /\ buffer' = Append(b, n + 1)  BY <2>1, <3>1, <3>2, <3>3, <3>4
    <3>6. /\ DOMAIN b = 1 .. Len(b) /\ Len(b) \in Nat /\ \A i \in DOMAIN b : b[i] \in N
          /\ DOMAIN buffer' = 1 .. Len(b) + 1 /\ buffer'[Len(b) + 1] = n + 1
          /\ \A i \in 1 .. Len(b) : buffer'[i] = b[i]
      BY <3>5
    <3>7. CASE z = id
      <4>1. Len(b) + 1 \in DOMAIN buffer' /\ asked'[buffer'[Len(b) + 1]] = id
        BY <2>2, <3>3, <3>6
      <4> QED BY <3>7, <4>1 DEF Coming
    <3>8. CASE z # id
      <4>1. HasCard(z) \/ z \in lost \/ Coming(z)  BY <2>3, <3>8 DEF Shown, WaitingShown
      <4>2. ASSUME NEW i \in DOMAIN b, asked[b[i]] = z
            PROVE  i \in DOMAIN buffer' /\ asked'[buffer'[i]] = z
        BY <2>2, <3>3, <3>4, <3>6, <4>2
      <4>3. CASE \E i \in DOMAIN buffer : asked[buffer[i]] = z
        BY <3>2, <4>2, <4>3 DEF Coming
      <4> QED BY <1>1, <4>1, <4>3 DEF Ask, HasCard, Coming
    <3> QED BY <3>7, <3>8
  <2> QED BY <1>1, <2>4, <2>5, <2>6 DEF Ask, Shown, CheckedLate
<1>2. CASE Truncate
  BY <1>2, ShownKept DEF Truncate, Shown, CheckedLate, HasCard
<1>3. CASE Lose
  BY <1>3, ShownKept DEF Lose, Shown, CheckedLate, HasCard
<1>4. CASE Withdraw
  <2>1. \A id \in Approvals : waiting'[id] > 0 => waiting[id] > 0
    <3>1. CASE waiting' = [id \in Requests |-> 0]
      <4>1. \A id \in Approvals : ~(waiting'[id] > 0)  BY <3>1 DEF Approvals
      <4> QED BY <4>1
    <3>2. ASSUME NEW one \in Requests, Count(one)
          PROVE  \A id \in Approvals : waiting'[id] > 0 => waiting[id] > 0
      <4>1. waiting \in [Requests -> Nat]  BY DEF CardInv, WaitsForAsked
      <4>2. waiting' \in [Requests -> Nat] /\ \A z \in Requests : waiting'[z] <= waiting[z]
        BY <3>2, CountLess
      <4> QED BY <4>1, <4>2 DEF Approvals
    <3> QED BY <1>4, <3>1, <3>2 DEF Withdraw
  <2> QED BY <1>4, <2>1, ShownKept DEF Withdraw, Shown, CheckedLate, HasCard
<1> QED BY <1>1, <1>2, <1>3, <1>4 DEF Gateway

LEMMA ShownSup ==
  ASSUME Typed, CardInv, Shown, Supervisor
  PROVE  Shown'
<1> USE DEF SupStep, wireVars, coreVars, tabVars, appVars, histVars
<1>1. /\ sup \in Sups /\ sup.cards \subseteq Approvals /\ emitted \subseteq Approvals
      /\ UNCHANGED <<clarifies, asked, waiting, opc>> /\ Approvals' = Approvals
  <2>1. UNCHANGED <<clarifies, asked, waiting, opc>>
    BY DEF Supervisor, SupReconnect, SupResume, SupSince, SupRebuild, SupReplay, SupList, SupCard,
           CardsDone, SupEvent
  <2> QED BY <2>1 DEF Typed, TypeOK, Sups, Approvals
<1>2. /\ \A z : HasCard(z) /\ UNCHANGED rows => HasCard(z)'
      /\ \A n : DeliverEvent(n) => /\ open' = open /\ emitted' = emitted
                                   /\ \A z : HasCard(z) => HasCard(z)'
  <2>1. \A z : HasCard(z) /\ UNCHANGED rows => HasCard(z)'  BY DEF HasCard
  <2>2. ASSUME NEW n, DeliverEvent(n), open
        PROVE  open' = open /\ emitted' = emitted /\ \A z : HasCard(z) => HasCard(z)'
    BY <2>2, CardsStay DEF DeliverEvent, AppendCard
  <2>3. ASSUME NEW n, DeliverEvent(n), ~open
        PROVE  open' = open /\ emitted' = emitted /\ \A z : HasCard(z) => HasCard(z)'
    BY <2>1, <2>3 DEF DeliverEvent
  <2> QED BY <2>1, <2>2, <2>3
<1>4. CASE SupReconnect
  <2>1. CheckedLate'  BY <1>4 DEF SupReconnect, CheckedLate
  <2> QED BY <1>1, <1>2, <1>4, <2>1, ShownKept DEF SupReconnect
<1>5. CASE SupResume
  <2>1. sup'.cards = sup.cards  BY <1>1, <1>5 DEF SupResume, Sups
  <2>2. ~checked  BY <1>5 DEF SupResume, Shown, CheckedLate
  <2>3. CheckedLate'  BY <1>5, <2>2 DEF SupResume, Shown, CheckedLate
  <2> QED BY <1>1, <1>2, <1>5, <2>1, <2>2, <2>3, ShownKept DEF SupResume
<1>6. CASE SupSince
  <2>1. sup'.cards = sup.cards  BY <1>1, <1>6 DEF SupSince, Sups
  <2>2. ~checked  BY <1>6 DEF SupSince, Shown, CheckedLate
  <2>3. CheckedLate'  BY <1>6, <2>2 DEF SupSince, Shown, CheckedLate
  <2> QED BY <1>1, <1>2, <1>6, <2>1, <2>2, <2>3, ShownKept DEF SupSince
<1>7. CASE SupRebuild
  <2>1. ~checked /\ ~checked' /\ UNCHANGED <<attached, up, open, emitted, sup>>
    BY <1>7 DEF SupRebuild, Shown, CheckedLate
  <2>2. CheckedLate' /\ WaitingShown'
    BY <2>1 DEF Shown, CheckedLate, WaitingShown
  <2>3. EmittedAsked'
    BY <1>1, <2>1 DEF Shown, EmittedAsked, Contains
  <2>4. EmittedShown'
    <3>1. CASE open
      BY <1>7, <2>1, <3>1 DEF SupRebuild, EmittedShown
    <3>2. CASE ~open
      BY <2>1, <3>2 DEF EmittedShown, Shown, EmittedAsked
    <3> QED BY <3>1, <3>2
  <2> QED BY <2>2, <2>3, <2>4 DEF Shown
<1>8. CASE SupReplay
  <2>1. sup'.cards = sup.cards  BY <1>1, <1>8 DEF SupReplay, Sups
  <2>2. ~checked  BY <1>8 DEF SupReplay, Shown, CheckedLate
  <2>3. CheckedLate'  BY <1>8, <2>2 DEF SupReplay, Shown, CheckedLate
  <2>4. open' = open /\ emitted' = emitted /\ \A z : HasCard(z) => HasCard(z)'
    BY <1>2, <1>8 DEF SupReplay
  <2> QED BY <1>1, <1>8, <2>1, <2>2, <2>3, <2>4, ShownKept DEF SupReplay
<1>9. CASE SupList
  <2>1. CASE up /\ open /\ spc' = "cards" /\ checked' = TRUE
             /\ sup' = [sup EXCEPT !.cards = {id \in Approvals : waiting[id] > 0}]
    <3>1. sup'.cards = {id \in Approvals : waiting[id] > 0}  BY <1>1, <2>1 DEF Sups
    <3>2. \A id \in sup'.cards : Contains(asked, id)
      BY <1>1, <3>1 DEF CardInv, WaitsForAsked
    <3>3. EmittedAsked'
      BY <1>1, <1>9, <3>2 DEF SupList, Shown, EmittedAsked, Contains
    <3>4. EmittedShown'
      BY <1>1, <1>9 DEF SupList, Shown, EmittedShown, HasCard
    <3>5. WaitingShown'
      BY <1>1, <2>1, <3>1 DEF WaitingShown, Coming
    <3>6. CheckedLate'  BY <1>9, <2>1 DEF SupList, Shown, CheckedLate
    <3> QED BY <1>9, <3>3, <3>4, <3>5, <3>6 DEF SupList, Shown
  <2>2. CASE UNCHANGED <<sup, checked>> /\ spc' = "loop" /\ spc = "list"
    <3>1. ~checked  BY <2>2 DEF Shown, CheckedLate
    <3>2. CheckedLate'  BY <1>9, <2>2 DEF SupList, Shown, CheckedLate
    <3> QED BY <1>1, <1>2, <1>9, <2>2, <3>1, <3>2, ShownKept DEF SupList
  <2> QED BY <1>9, <2>1, <2>2 DEF SupList
<1>10. CASE SupCard
  <2>1. CASE CardsDone
    <3>1. UNCHANGED <<asked, buffer, sup, checked, attached, up, open, emitted, rows, lost>>
          /\ sup.cards = {} /\ spc' = "loop"
      BY <2>1 DEF CardsDone
    <3>2. WaitingShown'
      BY <1>1, <3>1 DEF Shown, WaitingShown, Coming, HasCard
    <3>3. EmittedShown' /\ EmittedAsked'
      BY <1>1, <3>1 DEF Shown, EmittedShown, EmittedAsked, HasCard, Contains
    <3>4. CheckedLate'
      BY <3>1 DEF Shown, CheckedLate
    <3> QED BY <3>2, <3>3, <3>4 DEF Shown
  <2>2. ASSUME NEW id \in sup.cards, SupStep("cards", "cards"), sup' = [sup EXCEPT !.cards = @ \ {id}],
               IF open /\ id \notin emitted /\ ~HasCard(id)
               THEN AppendCard(id) /\ emitted' = emitted \cup {id}
               ELSE UNCHANGED <<rows, emitted, out>>,
               UNCHANGED <<attached, wireVars, open, seen, histVars>>
        PROVE  Shown'
    <3>1. sup'.cards = sup.cards \ {id}  BY <1>1, <2>2 DEF Sups
    <3>2. \A z : HasCard(z) => HasCard(z)'
      BY <1>2, <2>2, CardsStay DEF AppendCard
    <3>3. emitted' = emitted \/ (emitted' = emitted \cup {id} /\ HasCard(id)' /\ open)
      BY <2>2, CardsStay DEF AppendCard
    <3>4. open /\ waiting[id] > 0 => HasCard(id)' \/ id \in lost
      BY <2>2, <3>2, CardsStay DEF AppendCard, Shown, EmittedShown
    <3>5. EmittedAsked'
      BY <1>1, <2>2, <3>1, <3>3 DEF Shown, EmittedAsked, Contains
    <3>6. EmittedShown'
      BY <1>1, <2>2, <3>2, <3>3 DEF Shown, EmittedShown
    <3>7. WaitingShown'
      <4> SUFFICES ASSUME open /\ checked /\ attached, NEW z \in Approvals, waiting[z] > 0
                   PROVE  HasCard(z)' \/ z \in lost \/ Coming(z)'
        BY <1>1, <2>2 DEF WaitingShown
      <4>1. HasCard(z) \/ z \in lost \/ Coming(z)  BY DEF Shown, WaitingShown
      <4>2. Coming(z) /\ z # id => Coming(z)'
        BY <1>1, <2>2, <3>1 DEF Coming
      <4> QED BY <3>2, <3>4, <4>1, <4>2
    <3>8. CheckedLate'
      BY <2>2 DEF Shown, CheckedLate
    <3> QED BY <3>5, <3>6, <3>7, <3>8 DEF Shown
  <2> QED BY <1>10, <2>1, <2>2 DEF SupCard
<1>11. CASE SupEvent
  <2>1. DeliverEvent(Head(buffer)) /\ open' = open /\ emitted' = emitted
        /\ \A z : HasCard(z) => HasCard(z)'
    BY <1>2, <1>11 DEF SupEvent
  <2>2. UNCHANGED <<attached, up, sup, lost, checked>> /\ spc = "loop" /\ spc' = "loop"
        /\ buffer # <<>> /\ buffer' = Tail(buffer)
    BY <1>11 DEF SupEvent
  <2>3. EmittedShown' /\ EmittedAsked'
    BY <1>1, <2>1, <2>2 DEF Shown, EmittedShown, EmittedAsked, Contains
  <2>4. CheckedLate'
    BY <2>1, <2>2 DEF Shown, CheckedLate
  <2>5. WaitingShown'
    <3> SUFFICES ASSUME open /\ checked /\ attached, NEW z \in Approvals, waiting[z] > 0
                 PROVE  HasCard(z)' \/ z \in lost \/ Coming(z)'
      BY <1>1, <2>1, <2>2 DEF WaitingShown
    <3>1. PICK N, b : N = 1 .. Len(asked) /\ b = buffer /\ b \in Seq(N)
      BY DEF Typed, TypeOK
    <3>2. /\ DOMAIN b = 1 .. Len(b) /\ Len(b) \in Nat /\ b[1] = Head(b) /\ b # <<>>
          /\ \A i \in 2 .. Len(b) : i - 1 \in DOMAIN Tail(b) /\ Tail(b)[i - 1] = b[i]
      BY <2>2, <3>1
    <3>3. PICK id : id = asked[b[1]]  OBVIOUS
    <3>4. HasCard(id)'
      <4>1. AppendCard(id)  BY <2>1, <3>1, <3>2, <3>3 DEF DeliverEvent
      <4> QED BY <4>1, CardsStay DEF AppendCard
    <3>5. HasCard(z) \/ z \in lost \/ \E i \in DOMAIN b : asked[b[i]] = z
      BY <2>2, <3>1 DEF Shown, WaitingShown, Coming
    <3>6. ASSUME NEW i \in DOMAIN b, asked[b[i]] = z PROVE HasCard(z)' \/ Coming(z)'
      <4>1. CASE i = 1  BY <3>3, <3>4, <3>6, <4>1
      <4>2. CASE i # 1
        <5>1. i \in 2 .. Len(b)  BY <3>2, <4>2
        <5>2. i - 1 \in DOMAIN buffer' /\ asked'[buffer'[i - 1]] = z
          BY <1>1, <2>2, <3>1, <3>2, <3>6, <5>1
        <5> QED BY <5>2 DEF Coming
      <4> QED BY <4>1, <4>2
    <3> QED BY <2>1, <2>2, <3>5, <3>6
  <2> QED BY <2>3, <2>4, <2>5 DEF Shown
<1> QED BY <1>4, <1>5, <1>6, <1>7, <1>8, <1>9, <1>10, <1>11 DEF Supervisor

\* An answer marks a card nobody waits for, the others stay.
LEMMA ShownAnswer ==
  ASSUME Typed, CardInv, Shown, NEW a \in Answers, AnswerCall(a)
  PROVE  Shown'
<1> USE DEF gateVars, wireVars, coreVars, supVars, tabVars, appVars
<1>1. /\ UNCHANGED <<clarifies, asked, attached, wireVars, open, emitted, supVars, tabVars, appVars>>
      /\ UNCHANGED <<lost, checked>>
  BY DEF AnswerCall, Respond, RespondTaken, RespondGone, RespondLost, RespondResolve, histVars
<1>2. CheckedLate'  BY <1>1 DEF Shown, CheckedLate
<1>3. \A id \in Approvals : waiting'[id] > 0 => waiting[id] > 0
  <2>1. waiting \in [Requests -> 0 .. Questions]  BY DEF Typed, TypeOK
  <2>2. ASSUME NEW r, Count(r) PROVE \A id \in Approvals : waiting'[id] > 0 => waiting[id] > 0
    BY <2>1, <2>2 DEF Count, Approvals
  <2> QED BY <2>2 DEF AnswerCall, Respond, RespondTaken, RespondGone, RespondLost, RespondResolve
<1>4. \A id \in Approvals : waiting[id] > 0 /\ HasCard(id) => HasCard(id)'
  <2>1. CASE rows' = rows  BY <2>1 DEF HasCard
  <2>2. ASSUME RespondResolve(a), NEW i \in DOMAIN rows, FirstCard(ans[a].id, i),
               rows' = [rows EXCEPT ![i].waits = FALSE]
        PROVE  \A id \in Approvals : waiting[id] > 0 /\ HasCard(id) => HasCard(id)'
    <3> SUFFICES ASSUME NEW id \in Approvals, waiting[id] > 0,
                        NEW j \in DOMAIN rows, rows[j] = Card(id)
                 PROVE  HasCard(id)'
      BY DEF HasCard
    <3>1. id # ans[a].id
      BY <2>2 DEF RespondResolve, AnsStep, CardInv, TakenIsAnswered
    <3>2. i # j  BY <2>2, <3>1 DEF FirstCard, Card
    <3>3. j \in DOMAIN rows' /\ rows'[j] = rows[j]  BY <2>2, <3>2
    <3> QED BY <3>3 DEF HasCard, Card
  <2> QED BY <2>1, <2>2 DEF AnswerCall, Respond, RespondTaken, RespondGone, RespondLost, RespondResolve
<1> QED BY <1>1, <1>2, <1>3, <1>4, ShownKept

LEMMA ShownTab ==
  ASSUME Typed, Shown, Tab
  PROVE  Shown'
<1> USE DEF TabStep, gateVars, wireVars, coreVars, supVars, tabVars, appVars, histVars
<1>1. CASE Restore \/ OpenNext \/ Pick \/ RestoreEnds \/ Unpark \/ Register \/ DropTab
  <2>1. UNCHANGED <<gateVars, up, buffer, coreVars, supVars, lost, checked>>
    BY <1>1 DEF Restore, OpenNext, Pick, RestoreEnds, Unpark, Register, DropTab
  <2>2. CheckedLate'
    BY <2>1 DEF Shown, CheckedLate
  <2>3. \A id \in Approvals : HasCard(id) => HasCard(id)'  BY <2>1 DEF HasCard
  <2> QED BY <2>1, <2>2, <2>3, ShownKept
<1>2. CASE OpenResume \/ OpenFails
  <2>1. UNCHANGED <<clarifies, asked, waiting, up, buffer, coreVars, supVars, lost>>
    BY <1>2 DEF OpenResume, OpenFails
  <2>2. (up /\ attached' = TRUE /\ checked' = (checked /\ attached)) \/ UNCHANGED <<attached, checked>>
    BY <1>2 DEF OpenResume, OpenFails, Attach
  <2>3. CheckedLate'
    <3>1. attached' => attached \/ up
      BY <2>2
    <3>2. checked' => checked
      BY <2>2, Zenon
    <3>3. up' = up /\ spc' = spc
      BY <2>1
    <3> QED BY <3>1, <3>2, <3>3 DEF Shown, CheckedLate
  <2>4. \A id \in Approvals : HasCard(id) => HasCard(id)'  BY <2>1 DEF HasCard
  <2>5. checked' /\ attached' => checked /\ attached
    BY <2>2
  <2>6. /\ UNCHANGED <<clarifies, asked, open, emitted>> /\ lost \subseteq lost'
        /\ waiting' = waiting /\ buffer' = buffer /\ spc' = spc /\ sup' = sup
    BY <2>1
  <2> QED BY <2>3, <2>4, <2>5, <2>6, ShownKept
<1>3. CASE OpenInstall
  <2>1. \A id \in emitted : id \in lost'
    BY <1>3 DEF OpenInstall, Shown, EmittedAsked
  <2> QED BY <1>3, <2>1 DEF OpenInstall, Shown, CheckedLate, EmittedAsked, EmittedShown,
                          WaitingShown, Contains
<1>4. CASE CloseTab
  BY <1>4 DEF CloseTab, Shown, CheckedLate, EmittedAsked, EmittedShown, WaitingShown, Contains
<1> QED BY <1>1, <1>2, <1>3, <1>4 DEF Tab

LEMMA ShownInit == Init => Shown
BY DEF Init, Shown, CheckedLate, EmittedAsked, EmittedShown, WaitingShown

LEMMA ShownStep == Typed /\ CardInv /\ Shown /\ [Next]_vars => Shown'
<1> SUFFICES ASSUME Typed, CardInv, Shown, [Next]_vars PROVE Shown'
  OBVIOUS
<1>1. CASE UNCHANGED vars \/ (\E p \in Procs : OnTranscript(p)) \/ OnTranscriptChange
  <2>1. UNCHANGED <<gateVars, wireVars, coreVars, supVars, ans, tabVars, lost, checked>>
    BY <1>1 DEF vars, appVars, histVars, OnTranscript, OnTranscriptChange
  <2>2. \A id \in Approvals : HasCard(id) => HasCard(id)'  BY <2>1 DEF HasCard, coreVars
  <2>3. CheckedLate'
    BY <2>1 DEF Shown, CheckedLate, gateVars, wireVars, coreVars, supVars, tabVars
  <2> QED BY <2>1, <2>2, <2>3, ShownKept
          DEF gateVars, wireVars, coreVars, supVars, tabVars
<1> QED BY <1>1, ShownGateway, ShownSup, ShownAnswer, ShownTab DEF Next

-----------------------------------------------------------------------------
(***************************************************************************)
(* AppAgrees is about a moment when everything has arrived.  Before that,  *)
(* each row of the transcript is what the last change to it will bring,    *)
(* taking what the tasks have yet to hand over, in the order it was made   *)
(* in, after the queue to the main thread, and that after the park; or it  *)
(* is in the app already.  What the transcript does not have, a Reset on   *)
(* its way removes, or the app does not have it either.  A change that is  *)
(* handed over before earlier ones leaves this so if they are to other     *)
(* rows.                                                                   *)
(***************************************************************************)

\* The change writes the k-th row.
Writes(c, k) == c.type = "reset" \/ c.index = k

\* Nothing in s writes the k-th row.
Silent(s, k) == \A i \in DOMAIN s : ~Writes(s[i], k)

\* The change makes the k-th row what it is in the transcript r.
Brings(r, c, k) == IF c.type = "reset" THEN k > Len(r) ELSE k <= Len(r) /\ c.row = r[k]

\* The last change in s to the k-th row does.
Ends(r, s, k) ==
  \E i \in DOMAIN s : /\ Writes(s[i], k) /\ Brings(r, s[i], k)
                      /\ \A j \in DOMAIN s : j > i => ~Writes(s[j], k)

\* The k-th of the rows v is that of the transcript.
Same(r, v, k) == IF k <= Len(r) THEN k <= Len(v) /\ v[k] = r[k] ELSE k > Len(v)

\* The park q and then the queue s, applied to v, bring it.
Comes(r, q, s, v, k) ==
  \/ Ends(r, s, k)
  \/ Silent(s, k) /\ Ends(r, q, k)
  \/ Silent(s, k) /\ Silent(q, k) /\ Same(r, v, k)

\* The changes that are still with the tasks.
Carried(o) == [i \in DOMAIN o |-> o[i].change]

Settles(k) ==
  \/ Ends(rows, Carried(out), k)
  \/ Silent(Carried(out), k) /\ Comes(rows, parked, pipe, view, k)

Agree == \A k \in Nat \ {0} : Settles(k)

\* An open session has a tab, or will have one once the open is through.
TabHas == open /\ ~astray => tab \/ opc \in {"register", "drain"}

\* Something is parked only for a tab that is being opened.
ParkedFor == parked # <<>> => ~Known /\ opc \in Opening \cup {"drain"}

AgreeInv == ParkedFor /\ TabHas /\ (open /\ ~astray => Agree)

LEMMA CarriedTyped ==
  ASSUME NEW o \in Seq(Sends)
  PROVE  /\ Carried(o) \in Seq(Changes) /\ Len(Carried(o)) = Len(o)
         /\ \A i \in 1 .. Len(o) : Carried(o)[i] = o[i].change
<1>1. \A i \in 1 .. Len(o) : o[i].change \in Changes
  <2> SUFFICES ASSUME NEW i \in 1 .. Len(o) PROVE o[i].change \in Changes
    OBVIOUS
  <2>1. o[i] \in Sends  OBVIOUS
  <2> QED BY <2>1 DEF Sends
<1>2. DOMAIN o = 1 .. Len(o) /\ Len(o) \in Nat
  OBVIOUS
<1>3. PICK w : w = [i \in 1 .. Len(o) |-> o[i].change]
  OBVIOUS
<1>4. w \in Seq(Changes) /\ Len(w) = Len(o) /\ \A i \in 1 .. Len(o) : w[i] = o[i].change
  BY <1>1, <1>2, <1>3
<1>5. Carried(o) = w
  BY <1>2, <1>3 DEF Carried
<1> QED BY <1>4, <1>5

\* Deliver and DeliverAll.
LEMMA CarriedAll ==
  ASSUME NEW o \in Seq(Sends), NEW p \in Procs, NEW s \in Seq(Changes),
         NEW n, n = o \o [i \in DOMAIN s |-> [by |-> p, change |-> s[i]]]
  PROVE  n \in Seq(Sends) /\ Carried(n) = Carried(o) \o s
<1>1. PICK m : m = [i \in DOMAIN s |-> [by |-> p, change |-> s[i]]]
  OBVIOUS
<1>2. Len(s) \in Nat /\ DOMAIN s = 1 .. Len(s) /\ \A i \in 1 .. Len(s) : s[i] \in Changes
  OBVIOUS
<1>3. m \in Seq(Sends) /\ Len(m) = Len(s) /\ \A i \in 1 .. Len(s) : m[i].change = s[i]
  <2>1. \A i \in 1 .. Len(s) : [by |-> p, change |-> s[i]] \in Sends
    BY <1>2 DEF Sends
  <2>2. m = [i \in 1 .. Len(s) |-> [by |-> p, change |-> s[i]]]
    BY <1>1, <1>2
  <2> QED BY <1>2, <2>1, <2>2
<1>4. PICK a \in Seq(Changes) : a = Carried(o) /\ Len(a) = Len(o) /\ \A i \in 1 .. Len(o) : a[i] = o[i].change
  BY CarriedTyped
<1>5. /\ n \in Seq(Sends) /\ Len(n) = Len(o) + Len(m)
      /\ \A i \in 1 .. Len(o) + Len(m) : n[i] = IF i <= Len(o) THEN o[i] ELSE m[i - Len(o)]
  BY <1>1, <1>3, ConcatProperties
<1>6. PICK b \in Seq(Changes) : b = Carried(n) /\ Len(b) = Len(n) /\ \A i \in 1 .. Len(n) : b[i] = n[i].change
  BY <1>5, CarriedTyped
<1>7. PICK w : w = a \o s
  OBVIOUS
<1>8. /\ w \in Seq(Changes) /\ Len(w) = Len(a) + Len(s)
      /\ \A i \in 1 .. Len(a) + Len(s) : w[i] = IF i <= Len(a) THEN a[i] ELSE s[i - Len(a)]
  BY <1>7, ConcatProperties
<1>9. Len(b) = Len(w) /\ Len(w) = Len(o) + Len(s) /\ Len(o) \in Nat
  BY <1>3, <1>4, <1>5, <1>6, <1>8
<1>10. ASSUME NEW i \in 1 .. Len(w) PROVE b[i] = w[i]
  <2>1. b[i] = n[i].change
    BY <1>6, <1>9
  <2>2. CASE i <= Len(o)
    <3>1. i \in 1 .. Len(o) /\ n[i] = o[i] /\ w[i] = a[i]
      BY <1>3, <1>4, <1>5, <1>8, <1>9, <2>2
    <3> QED BY <1>4, <2>1, <3>1
  <2>3. CASE ~(i <= Len(o))
    <3>1. i - Len(o) \in 1 .. Len(s)
      BY <1>2, <1>9, <2>3
    <3>2. n[i] = m[i - Len(o)] /\ w[i] = s[i - Len(o)]
      BY <1>3, <1>4, <1>5, <1>8, <1>9, <2>3
    <3> QED BY <1>3, <2>1, <3>1, <3>2
  <2> QED BY <2>2, <2>3
<1>11. b = w
  BY <1>6, <1>8, <1>9, <1>10
<1> QED BY <1>4, <1>5, <1>6, <1>7, <1>11

\* What comes after other changes is last all the same.
LEMMA EndsAfter ==
  ASSUME NEW a \in Seq(Changes), NEW s \in Seq(Changes), NEW r, NEW k, Ends(r, s, k)
  PROVE  Ends(r, a \o s, k)
<1>1. PICK w : w = a \o s
  OBVIOUS
<1>2. /\ w \in Seq(Changes) /\ Len(w) = Len(a) + Len(s)
      /\ \A i \in 1 .. Len(a) + Len(s) : w[i] = IF i <= Len(a) THEN a[i] ELSE s[i - Len(a)]
  BY <1>1, ConcatProperties
<1>3. PICK i \in DOMAIN s : /\ Writes(s[i], k) /\ Brings(r, s[i], k)
                            /\ \A j \in DOMAIN s : j > i => ~Writes(s[j], k)
  BY DEF Ends
<1>4. Len(a) \in Nat /\ Len(s) \in Nat /\ DOMAIN s = 1 .. Len(s) /\ DOMAIN w = 1 .. Len(a) + Len(s)
  BY <1>2
<1>5. ASSUME NEW j \in 1 .. Len(s) PROVE Len(a) + j \in DOMAIN w /\ w[Len(a) + j] = s[j]
  <2>1. Len(a) + j \in 1 .. Len(a) + Len(s) /\ ~(Len(a) + j <= Len(a)) /\ (Len(a) + j) - Len(a) = j
    BY <1>4
  <2> QED BY <1>2, <1>4, <2>1
<1>6. ASSUME NEW j \in DOMAIN w, j > Len(a) + i PROVE ~Writes(w[j], k)
  <2>1. j - Len(a) \in 1 .. Len(s) /\ j - Len(a) > i /\ Len(a) + (j - Len(a)) = j
    BY <1>4, <1>6
  <2>2. w[j] = s[j - Len(a)]
    BY <1>5, <2>1
  <2> QED BY <1>3, <1>4, <2>1, <2>2
<1>7. Len(a) + i \in DOMAIN w /\ w[Len(a) + i] = s[i]
  BY <1>4, <1>5
<1>8. Ends(r, w, k)
  BY <1>3, <1>6, <1>7 DEF Ends
<1> QED BY <1>1, <1>8

\* A task hands over a change before others that are to other rows.
LEMMA Overtakes ==
  ASSUME NEW o \in Seq(Sends), NEW j \in DOMAIN o, NEW c, c = o[j].change,
         \A i \in 1 .. j - 1 : ~Overlap(o[i].change, c), NEW r, NEW k
  PROVE  /\ Silent(Carried(o), k) => ~Writes(c, k) /\ Silent(Carried(RemoveAt(o, j)), k)
         /\ Ends(r, Carried(o), k) =>
              \/ Ends(r, Carried(RemoveAt(o, j)), k)
              \/ Silent(Carried(RemoveAt(o, j)), k) /\ Writes(c, k) /\ Brings(r, c, k)
<1>1. PICK s \in Seq(Changes) :
        s = Carried(o) /\ Len(s) = Len(o) /\ \A i \in 1 .. Len(o) : s[i] = o[i].change
  BY CarriedTyped
<1>2. PICK n : n = RemoveAt(o, j)
  OBVIOUS
<1>3. /\ n \in Seq(Sends) /\ Len(n) = Len(o) - 1
      /\ \A i \in 1 .. Len(o) - 1 : n[i] = IF i < j THEN o[i] ELSE o[i + 1]
  BY <1>2, Without
<1>4. PICK t \in Seq(Changes) :
        t = Carried(n) /\ Len(t) = Len(n) /\ \A i \in 1 .. Len(n) : t[i] = n[i].change
  BY <1>3, CarriedTyped
<1>5. /\ Len(s) \in Nat /\ DOMAIN s = 1 .. Len(s) /\ DOMAIN t = 1 .. Len(s) - 1
      /\ j \in 1 .. Len(s) /\ s[j] = c
  BY <1>1, <1>3, <1>4
<1>6. ASSUME NEW i \in DOMAIN t
      PROVE  /\ i < j => i \in DOMAIN s /\ t[i] = s[i]
             /\ ~(i < j) => i + 1 \in DOMAIN s /\ t[i] = s[i + 1]
  <2>1. i \in 1 .. Len(o) - 1 /\ i \in 1 .. Len(o) /\ i + 1 \in 1 .. Len(o)
    BY <1>1, <1>5
  <2>2. t[i] = n[i].change
    BY <1>3, <1>4, <2>1
  <2> QED BY <1>1, <1>3, <1>5, <2>1, <2>2
<1>7. Silent(s, k) => ~Writes(c, k) /\ Silent(t, k)
  BY <1>5, <1>6 DEF Silent
<1>8. Ends(r, s, k) => Ends(r, t, k) \/ (Silent(t, k) /\ Writes(c, k) /\ Brings(r, c, k))
  <2> SUFFICES ASSUME NEW i \in DOMAIN s, Writes(s[i], k), Brings(r, s[i], k),
                      \A l \in DOMAIN s : l > i => ~Writes(s[l], k)
               PROVE  Ends(r, t, k) \/ (Silent(t, k) /\ Writes(c, k) /\ Brings(r, c, k))
    BY DEF Ends
  <2>1. CASE i < j
    <3>1. i \in DOMAIN t /\ t[i] = s[i]  BY <1>5, <1>6, <2>1
    <3>2. ASSUME NEW l \in DOMAIN t, l > i PROVE ~Writes(t[l], k)
      BY <1>5, <1>6, <3>2
    <3> QED BY <3>1, <3>2 DEF Ends
  <2>2. CASE i > j
    <3>1. i - 1 \in DOMAIN t /\ ~(i - 1 < j) /\ (i - 1) + 1 = i  BY <1>5, <2>2
    <3>2. t[i - 1] = s[i]  BY <1>6, <3>1
    <3>3. ASSUME NEW l \in DOMAIN t, l > i - 1 PROVE ~Writes(t[l], k)
      <4>1. ~(l < j) /\ l + 1 > i  BY <1>5, <2>2, <3>3
      <4> QED BY <1>6, <4>1
    <3> QED BY <3>1, <3>2, <3>3 DEF Ends
  <2>3. CASE i = j
    <3>1. Writes(c, k) /\ Brings(r, c, k)  BY <1>5, <2>3
    <3>2. ASSUME NEW l \in DOMAIN t PROVE ~Writes(t[l], k)
      <4>1. CASE l < j
        <5>1. l \in 1 .. j - 1 /\ t[l] = o[l].change  BY <1>1, <1>5, <1>6, <4>1
        <5>2. ~Overlap(t[l], c)  BY <5>1
        <5> QED BY <3>1, <5>2 DEF Overlap, Writes
      <4>2. CASE ~(l < j)
        <5>1. l + 1 \in DOMAIN s /\ l + 1 > i /\ t[l] = s[l + 1]  BY <1>5, <1>6, <2>3, <4>2
        <5> QED BY <5>1
      <4> QED BY <4>1, <4>2
    <3> QED BY <3>1, <3>2 DEF Silent
  <2> QED BY <1>5, <2>1, <2>2, <2>3
<1> QED BY <1>1, <1>2, <1>4, <1>7, <1>8

\* A change joins a queue ...
LEMMA Joins ==
  ASSUME NEW s \in Seq(Changes), NEW c \in Changes, NEW r, NEW k
  PROVE  /\ Silent(s, k) /\ ~Writes(c, k) => Silent(Append(s, c), k)
         /\ Ends(r, s, k) /\ ~Writes(c, k) => Ends(r, Append(s, c), k)
         /\ Writes(c, k) /\ Brings(r, c, k) => Ends(r, Append(s, c), k)
<1>1. PICK q \in Seq(Changes) : q = Append(s, c)
  <2>1. Append(s, c) \in Seq(Changes)  OBVIOUS
  <2> QED BY <2>1
<1>2. /\ DOMAIN q = 1 .. Len(s) + 1 /\ DOMAIN s = 1 .. Len(s) /\ Len(s) \in Nat
      /\ q[Len(s) + 1] = c /\ \A i \in DOMAIN s : q[i] = s[i]
  BY <1>1
<1>3. Silent(s, k) /\ ~Writes(c, k) => Silent(q, k)
  BY <1>2 DEF Silent
<1>4. Ends(r, s, k) /\ ~Writes(c, k) => Ends(r, q, k)
  <2> SUFFICES ASSUME NEW i \in DOMAIN s, Writes(s[i], k), Brings(r, s[i], k),
                      \A j \in DOMAIN s : j > i => ~Writes(s[j], k), ~Writes(c, k)
               PROVE  Ends(r, q, k)
    BY DEF Ends
  <2>1. i \in DOMAIN q /\ q[i] = s[i] /\ \A j \in DOMAIN q : j > i => ~Writes(q[j], k)
    BY <1>2
  <2> QED BY <2>1 DEF Ends
<1>5. Writes(c, k) /\ Brings(r, c, k) => Ends(r, q, k)
  <2>1. Len(s) + 1 \in DOMAIN q /\ \A j \in DOMAIN q : ~(j > Len(s) + 1)
    BY <1>2
  <2> QED BY <1>2, <2>1 DEF Ends
<1> QED BY <1>1, <1>3, <1>4, <1>5

\* ... or leaves it.
LEMMA Leaves ==
  ASSUME NEW s \in Seq(Changes), s # <<>>, NEW r, NEW k
  PROVE  /\ Silent(s, k) => ~Writes(Head(s), k) /\ Silent(Tail(s), k)
         /\ Ends(r, s, k) => \/ Ends(r, Tail(s), k)
                             \/ Silent(Tail(s), k) /\ Writes(Head(s), k) /\ Brings(r, Head(s), k)
<1>1. PICK q \in Seq(Changes), c \in Changes : q = Tail(s) /\ c = Head(s)
  <2>1. Tail(s) \in Seq(Changes) /\ Head(s) \in Changes  BY Cut
  <2> QED BY <2>1
<1>2. /\ DOMAIN s = 1 .. Len(s) /\ Len(s) \in Nat /\ 1 \in DOMAIN s /\ s[1] = c
      /\ \A i \in DOMAIN q : i \in Nat /\ i + 1 \in DOMAIN s /\ q[i] = s[i + 1]
      /\ \A i \in DOMAIN s : i # 1 => i - 1 \in DOMAIN q /\ q[i - 1] = s[i]
  BY <1>1
<1>3. Silent(s, k) => ~Writes(c, k) /\ Silent(q, k)
  BY <1>2 DEF Silent
<1>4. Ends(r, s, k) => Ends(r, q, k) \/ (Silent(q, k) /\ Writes(c, k) /\ Brings(r, c, k))
  <2> SUFFICES ASSUME NEW i \in DOMAIN s, Writes(s[i], k), Brings(r, s[i], k),
                      \A j \in DOMAIN s : j > i => ~Writes(s[j], k)
               PROVE  Ends(r, q, k) \/ (Silent(q, k) /\ Writes(c, k) /\ Brings(r, c, k))
    BY DEF Ends
  <2>1. CASE i = 1
    <3>1. \A j \in DOMAIN q : j + 1 > 1  BY <1>2
    <3>2. Silent(q, k)  BY <1>2, <2>1, <3>1 DEF Silent
    <3> QED BY <1>2, <2>1, <3>2
  <2>2. CASE i # 1
    <3>1. \A j \in DOMAIN q : j > i - 1 => j + 1 > i  BY <1>2
    <3>2. \A j \in DOMAIN q : j > i - 1 => ~Writes(q[j], k)  BY <1>2, <3>1
    <3>3. i - 1 \in DOMAIN q /\ q[i - 1] = s[i]  BY <1>2, <2>2
    <3> QED BY <3>2, <3>3 DEF Ends
  <2> QED BY <2>1, <2>2
<1> QED BY <1>1, <1>3, <1>4

\* applyTranscriptChange puts a row at its index and leaves the others alone; blank rows
\* come before it only where rows are still to come.
LEMMA Applied ==
  ASSUME NEW v \in Seq(Rows), NEW c \in Changes, NEW r \in Seq(Rows), NEW k \in Nat \ {0}
  PROVE  /\ Writes(c, k) /\ Brings(r, c, k) => Same(r, Apply(c, v), k)
         /\ ~Writes(c, k) /\ c.index <= Len(r) /\ Same(r, v, k) => Same(r, Apply(c, v), k)
<1>1. CASE c.type = "reset"
  <2>1. Writes(c, k) /\ Apply(c, v) = <<>> /\ Len(<<>>) = 0  BY <1>1 DEF Writes, Apply
  <2> QED BY <1>1, <2>1 DEF Brings, Same
<1>2. CASE c.type # "reset"
  <2>1. PICK i, row : i = c.index /\ row = c.row /\ i \in Nat
    BY DEF Changes
  <2>2. PICK n \in Nat : n = IF i > Len(v) THEN i ELSE Len(v)
    BY <2>1
  <2>3. PICK w : w = Place(v, i, row)
    OBVIOUS
  <2>4. w = [j \in 1 .. n |-> IF j = i THEN row ELSE IF j <= Len(v) THEN v[j] ELSE Blank]
    BY <2>2, <2>3 DEF Place
  <2>5. Len(w) = n /\ \A j \in 1 .. n : w[j] = IF j = i THEN row ELSE IF j <= Len(v) THEN v[j] ELSE Blank
    BY <2>4
  <2>6. Apply(c, v) = w /\ (Writes(c, k) <=> i = k)
    BY <1>2, <2>1, <2>3 DEF Apply, Writes
  <2>7. Brings(r, c, k) <=> k <= Len(r) /\ row = r[k]
    BY <1>2, <2>1 DEF Brings
  <2>8. ASSUME i = k, k <= Len(r), row = r[k] PROVE Same(r, w, k)
    <3>1. k \in 1 .. n  BY <2>2, <2>8
    <3>2. k <= Len(w) /\ w[k] = row  BY <2>5, <2>8, <3>1
    <3> QED BY <2>8, <3>2 DEF Same
  <2>9. ASSUME i # k, i <= Len(r), Same(r, v, k) PROVE Same(r, w, k)
    <3>1. CASE k <= Len(r)
      <4>1. k <= Len(v) /\ v[k] = r[k]  BY <2>9, <3>1 DEF Same
      <4>2. k \in 1 .. n  BY <2>2, <4>1
      <4>3. k <= Len(w) /\ w[k] = v[k]  BY <2>5, <2>9, <4>1, <4>2
      <4> QED BY <3>1, <4>1, <4>3 DEF Same
    <3>2. CASE ~(k <= Len(r))
      <4>1. k > Len(v)  BY <2>9, <3>2 DEF Same
      <4>2. k > n  BY <2>1, <2>2, <2>9, <3>2, <4>1
      <4>3. k > Len(w)  BY <2>5, <4>2
      <4> QED BY <3>2, <4>3 DEF Same
    <3> QED BY <3>1, <3>2
  <2> QED BY <2>1, <2>6, <2>7, <2>8, <2>9
<1> QED BY <1>1, <1>2

\* Who brings a row the transcript does not have is a Reset, which writes every row.
LEMMA Removed ==
  ASSUME NEW r \in Seq(Rows), NEW s \in Seq(Changes), NEW i \in Nat, i > Len(r), Ends(r, s, i), NEW k
  PROVE  ~Silent(s, k)
<1>1. PICK j \in DOMAIN s : Brings(r, s[j], i)
  BY DEF Ends
<1>2. ~(i <= Len(r))
  OBVIOUS
<1>3. s[j].type = "reset"
  BY <1>1, <1>2 DEF Brings
<1> QED BY <1>3 DEF Silent, Writes

\* The k-th row is in both transcripts, the same, or in neither.
LEMMA Unmoved ==
  ASSUME NEW r, NEW n, NEW k, k <= Len(n) <=> k <= Len(r), k > Len(n) <=> k > Len(r),
         k <= Len(r) => n[k] = r[k]
  PROVE  /\ \A s : Ends(r, s, k) => Ends(n, s, k)
         /\ \A q, s, v : Comes(r, q, s, v, k) => Comes(n, q, s, v, k)
<1>1. \A c : Brings(r, c, k) => Brings(n, c, k)
  BY DEF Brings
<1>2. \A s : Ends(r, s, k) => Ends(n, s, k)
  BY <1>1 DEF Ends
<1>3. \A v : Same(r, v, k) => Same(n, v, k)
  BY DEF Same
<1> QED BY <1>2, <1>3 DEF Comes

\* A task makes or changes a row, and has the change to hand over.
LEMMA AgreeDeliver ==
  ASSUME Typed, Agree, NEW p \in Procs, NEW c \in Changes,
         Deliver(p, c), c.type # "reset", rows' \in Seq(Rows),
         c.index \in 1 .. Len(rows'), rows'[c.index] = c.row,
         \A k \in Nat \ {0} : k # c.index => /\ k <= Len(rows') <=> k <= Len(rows)
                                             /\ k <= Len(rows) => rows'[k] = rows[k],
         UNCHANGED <<pipe, parked, view>>
  PROVE  Agree'
<1>1. PICK o \in Seq(Sends) : o = out
  BY DEF Typed, TypeOK
<1>2. PICK s \in Seq(Changes) : s = Carried(o)
  BY CarriedTyped
<1>3. PICK m : m = out'
  OBVIOUS
<1>4. PICK w : w = Append(s, c)
  OBVIOUS
<1>5. Carried(m) = w
  <2>1. PICK one \in Seq(Changes) : one = <<c>>
    <3>1. <<c>> \in Seq(Changes)  OBVIOUS
    <3> QED BY <3>1
  <2>2. [i \in DOMAIN one |-> [by |-> p, change |-> one[i]]] = <<[by |-> p, change |-> c]>>
    BY <2>1
  <2>3. m = o \o <<[by |-> p, change |-> c]>>
    <3>1. PICK d : d = [by |-> p, change |-> c]  OBVIOUS
    <3>2. d \in Sends  BY <3>1 DEF Sends
    <3>3. Append(o, d) = o \o <<d>>  BY <3>2
    <3> QED BY <1>1, <1>3, <3>1, <3>3 DEF Deliver
  <2>4. Carried(m) = Carried(o) \o one
    BY <2>2, <2>3, CarriedAll
  <2>5. s \o one = Append(s, c)
    BY <2>1
  <2> QED BY <1>2, <1>4, <2>4, <2>5
<1>6. ASSUME NEW k \in Nat \ {0}, k = c.index PROVE Settles(k)'
  <2>1. Writes(c, k) /\ Brings(rows', c, k)
    BY <1>6 DEF Writes, Brings
  <2>2. PICK n : n = rows'  OBVIOUS
  <2>3. Ends(n, w, k)
    BY <1>4, <2>1, <2>2, Joins
  <2> QED BY <1>3, <1>5, <2>2, <2>3 DEF Settles
<1>7. ASSUME NEW k \in Nat \ {0}, k # c.index PROVE Settles(k)'
  <2>1. rows \in Seq(Rows)  BY DEF Typed, TypeOK
  <2>2. /\ k <= Len(rows') <=> k <= Len(rows)
        /\ k > Len(rows') <=> k > Len(rows)
        /\ k <= Len(rows) => rows'[k] = rows[k]
    BY <1>7, <2>1
  <2>3. PICK r, n : r = rows /\ n = rows'  OBVIOUS
  <2>4. /\ \A q : Ends(r, q, k) => Ends(n, q, k)
        /\ \A q, u, v : Comes(r, q, u, v, k) => Comes(n, q, u, v, k)
    BY <2>2, <2>3, Unmoved
  <2>5. ~Writes(c, k)  BY <1>7 DEF Writes
  <2>6. CASE Ends(r, s, k)
    <3>1. Ends(n, w, k)  BY <1>4, <2>4, <2>5, <2>6, Joins
    <3> QED BY <1>3, <1>5, <2>3, <3>1 DEF Settles
  <2>7. CASE Silent(s, k) /\ Comes(r, parked, pipe, view, k)
    <3>1. Silent(w, k)  BY <1>4, <2>5, <2>7, Joins
    <3>2. Comes(n, parked', pipe', view', k)  BY <2>4, <2>7
    <3> QED BY <1>3, <1>5, <2>3, <3>1, <3>2 DEF Settles
  <2> QED BY <1>1, <1>2, <2>3, <2>6, <2>7 DEF Agree, Settles
<1> QED BY <1>6, <1>7 DEF Agree

\* on_approval_request and on_clarify_request add a row ...
LEMMA AgreeAppend ==
  ASSUME Typed, Agree, NEW id \in Requests, AppendCard(id), UNCHANGED <<pipe, parked, view>>
  PROVE  Agree'
<1>1. PICK r \in Seq(Rows) : r = rows
  BY DEF Typed, TypeOK
<1>2. PICK row \in Rows : row = Card(id)
  BY RowsTyped
<1>3. PICK n \in Nat : n = Len(r) + 1
  <2>1. Len(r) + 1 \in Nat  OBVIOUS
  <2> QED BY <2>1
<1>4. PICK c : c = Change("appended", n, row)
  OBVIOUS
<1>5. c \in Changes /\ c.type # "reset" /\ c.index = n /\ c.row = row
  BY <1>4 DEF Change, Changes
<1>6. rows' = Append(r, row) /\ Deliver("sup", c)
  BY <1>1, <1>2, <1>3, <1>4 DEF AppendCard
<1>7. /\ rows' \in Seq(Rows) /\ Len(rows') = n /\ rows'[n] = row
      /\ \A k \in 1 .. Len(r) : rows'[k] = r[k]
  BY <1>3, <1>6
<1>8. c.index \in 1 .. Len(rows') /\ rows'[c.index] = c.row
  BY <1>3, <1>5, <1>7
<1>9. ASSUME NEW k \in Nat \ {0}, k # c.index
      PROVE  /\ k <= Len(rows') <=> k <= Len(rows)
             /\ k <= Len(rows) => rows'[k] = rows[k]
  BY <1>1, <1>3, <1>5, <1>7, <1>9
<1>10. "sup" \in Procs  BY DEF Procs
<1> QED BY <1>5, <1>6, <1>7, <1>8, <1>9, <1>10, AgreeDeliver

\* ... and resolve_approval and resolve_clarify change one.
LEMMA AgreeResolve ==
  ASSUME Typed, Agree, NEW a \in Answers, NEW i \in DOMAIN rows,
         rows' = [rows EXCEPT ![i].waits = FALSE], Deliver(a, Change("updated", i, rows'[i])),
         UNCHANGED <<pipe, parked, view>>
  PROVE  Agree'
<1>1. PICK r \in Seq(Rows) : r = rows
  BY DEF Typed, TypeOK
<1>2. i \in 1 .. Len(r) /\ r[i] \in Rows /\ Len(r) \in Nat
  BY <1>1
<1>3. PICK row : row = [r[i] EXCEPT !.waits = FALSE]
  OBVIOUS
<1>4. row \in Rows
  BY <1>2, <1>3 DEF Rows
<1>5. /\ rows' \in Seq(Rows) /\ Len(rows') = Len(r) /\ rows'[i] = row
      /\ \A k \in 1 .. Len(r) : k # i => rows'[k] = r[k]
  BY <1>1, <1>2, <1>3, <1>4
<1>6. PICK c : c = Change("updated", i, row)
  OBVIOUS
<1>7. c \in Changes /\ c.type # "reset" /\ c.index = i /\ c.row = row
  BY <1>2, <1>4, <1>6 DEF Change, Changes
<1>8. Deliver(a, c) /\ a \in Procs
  BY <1>5, <1>6 DEF Procs
<1>9. c.index \in 1 .. Len(rows') /\ rows'[c.index] = c.row
  BY <1>2, <1>5, <1>7
<1>10. ASSUME NEW k \in Nat \ {0}, k # c.index
       PROVE  /\ k <= Len(rows') <=> k <= Len(rows)
              /\ k <= Len(rows) => rows'[k] = rows[k]
  BY <1>1, <1>2, <1>5, <1>7, <1>10
<1> QED BY <1>5, <1>7, <1>8, <1>9, <1>10, AgreeDeliver

\* A Reset and the rows after it bring the whole of a replaced transcript.
LEMMA HistoryBrought ==
  /\ HistoryRows \in Seq(Rows) /\ Len(HistoryRows) = History /\ HistoryChanges \in Seq(Changes)
  /\ \A k \in Nat \ {0} : Ends(HistoryRows, HistoryChanges, k)
<1>1. PICK r \in Seq(Rows), s \in Seq(Changes) : r = HistoryRows /\ s = HistoryChanges
  BY RowsTyped
<1>2. History \in Nat  BY Bounds
<1>3. Len(r) = History /\ \A k \in 1 .. History : r[k] = Text
  BY <1>1, <1>2 DEF HistoryRows
<1>4. /\ Len(s) = History + 1 /\ s[1] = Change("reset", 0, Blank)
      /\ \A i \in 1 .. History : s[i + 1] = Change("appended", i, Text)
  <2>1. PICK a, b : /\ a = <<Change("reset", 0, Blank)>>
                    /\ b = [i \in 1 .. History |-> Change("appended", i, Text)]
    OBVIOUS
  <2>2. Len(a) = 1 /\ a[1] = Change("reset", 0, Blank)
    BY <2>1
  <2>3. a \in Seq(Changes) /\ b \in Seq(Changes)
    <3>1. /\ \A i \in 1 .. History : Change("appended", i, Text) \in Changes
          /\ Change("reset", 0, Blank) \in Changes
      BY <1>2, RowsTyped DEF Change, Changes
    <3> QED BY <1>2, <2>1, <3>1
  <2>4. Len(b) = History /\ \A i \in 1 .. History : b[i] = Change("appended", i, Text)
    BY <1>2, <2>1
  <2>5. s = a \o b  BY <1>1, <2>1 DEF HistoryChanges
  <2>6. /\ Len(s) = Len(a) + Len(b) /\ s[1] = a[1]
        /\ \A i \in 1 .. Len(b) : s[i + 1] = b[i]
    <3>1. /\ Len(s) = Len(a) + Len(b)
          /\ \A i \in 1 .. Len(a) + Len(b) : s[i] = IF i <= Len(a) THEN a[i] ELSE b[i - Len(a)]
      BY <2>3, <2>5, ConcatProperties
    <3>2. Len(b) \in Nat
      BY <1>2, <2>4
    <3>3. s[1] = a[1]
      BY <2>2, <3>1, <3>2
    <3>4. ASSUME NEW i \in 1 .. Len(b) PROVE s[i + 1] = b[i]
      <4>1. i + 1 \in 1 .. 1 + Len(b) /\ ~(i + 1 <= 1) /\ (i + 1) - 1 = i
        BY <3>2
      <4> QED BY <2>2, <3>1, <4>1
    <3> QED BY <3>1, <3>3, <3>4
  <2> QED BY <2>2, <2>4, <2>6
<1>5. ASSUME NEW k \in Nat \ {0} PROVE Ends(r, s, k)
  <2>1. \A i \in DOMAIN s : i # 1 => i - 1 \in 1 .. History /\ s[i].index = i - 1 /\ s[i].type = "appended"
    <3> SUFFICES ASSUME NEW i \in DOMAIN s, i # 1
                 PROVE  i - 1 \in 1 .. History /\ s[i].index = i - 1 /\ s[i].type = "appended"
      OBVIOUS
    <3>1. i - 1 \in 1 .. History /\ i = (i - 1) + 1  BY <1>2, <1>4
    <3>2. s[i] = Change("appended", i - 1, Text)  BY <1>4, <3>1
    <3> QED BY <3>1, <3>2 DEF Change
  <2>2. CASE k <= History
    <3>1. k + 1 \in DOMAIN s /\ s[k + 1] = Change("appended", k, Text) /\ r[k] = Text
      BY <1>2, <1>3, <1>4, <2>2
    <3>2. Writes(s[k + 1], k) /\ Brings(r, s[k + 1], k)
      BY <1>3, <2>2, <3>1 DEF Writes, Brings, Change
    <3>3. ASSUME NEW j \in DOMAIN s, j > k + 1 PROVE ~Writes(s[j], k)
      <4>1. j # 1 /\ j - 1 # k  BY <1>4, <3>3
      <4> QED BY <2>1, <4>1 DEF Writes
    <3> QED BY <3>1, <3>2, <3>3 DEF Ends
  <2>3. CASE k > History
    <3>1. 1 \in DOMAIN s /\ s[1].type = "reset"  BY <1>2, <1>4 DEF Change
    <3>2. Writes(s[1], k) /\ Brings(r, s[1], k)
      BY <1>3, <2>3, <3>1 DEF Writes, Brings
    <3>3. ASSUME NEW j \in DOMAIN s, j > 1 PROVE ~Writes(s[j], k)
      <4>1. j # 1 /\ j - 1 # k  BY <1>2, <1>4, <2>3, <3>3
      <4> QED BY <2>1, <4>1 DEF Writes
    <3> QED BY <3>1, <3>2, <3>3 DEF Ends
  <2> QED BY <1>2, <2>2, <2>3
<1> QED BY <1>1, <1>3, <1>5

LEMMA AgreeReplace ==
  ASSUME Typed, NEW p \in Procs, rows' = HistoryRows, DeliverAll(p, HistoryChanges)
  PROVE  Agree'
<1>1. PICK o \in Seq(Sends) : o = out
  BY DEF Typed, TypeOK
<1>2. PICK s \in Seq(Changes), r \in Seq(Rows) : s = HistoryChanges /\ r = HistoryRows
  BY HistoryBrought
<1>3. PICK m : m = out'
  OBVIOUS
<1>4. Carried(m) = Carried(o) \o s
  BY <1>1, <1>2, <1>3, CarriedAll DEF DeliverAll
<1>5. ASSUME NEW k \in Nat \ {0} PROVE Settles(k)'
  <2>1. Ends(r, s, k)  BY <1>2, HistoryBrought
  <2>2. PICK a \in Seq(Changes) : a = Carried(o)  BY CarriedTyped
  <2>3. Ends(r, a \o s, k)  BY <2>1, EndsAfter
  <2>4. Ends(r, Carried(m), k)  BY <1>4, <2>2, <2>3
  <2> QED BY <1>2, <1>3, <2>4 DEF Settles
<1> QED BY <1>5 DEF Agree

\* An open that brings no messages, when the app has nothing and is to get nothing.
LEMMA AgreeEmpty ==
  ASSUME rows' = <<>>, out' = <<>>, pipe' = <<>>, parked' = <<>>, view' = <<>>
  PROVE  Agree'
<1>1. Carried(<<>>) = <<>>
  BY DEF Carried
<1>2. ASSUME NEW k \in Nat \ {0} PROVE Settles(k)'
  <2>1. Silent(<<>>, k)  BY DEF Silent
  <2>2. Same(<<>>, <<>>, k)
    <3>1. ~(k <= 0) /\ k > 0 /\ Len(<<>>) = 0  OBVIOUS
    <3> QED BY <3>1 DEF Same
  <2>3. Comes(<<>>, <<>>, <<>>, <<>>, k)  BY <2>1, <2>2 DEF Comes
  <2> QED BY <1>1, <2>1, <2>3 DEF Settles
<1> QED BY <1>2 DEF Agree

\* A change leaves the queue for the park ...
LEMMA Parks ==
  ASSUME NEW q \in Seq(Changes), NEW s \in Seq(Changes), s # <<>>, NEW r, NEW v, NEW k,
         Comes(r, q, s, v, k)
  PROVE  Comes(r, Append(q, Head(s)), Tail(s), v, k)
<1>1. PICK c \in Changes, t \in Seq(Changes) : c = Head(s) /\ t = Tail(s)
  BY Cut
<1>2. PICK w \in Seq(Changes) : w = Append(q, c)
  <2>1. Append(q, c) \in Seq(Changes)  OBVIOUS
  <2> QED BY <2>1
<1>3. /\ Silent(s, k) => ~Writes(c, k) /\ Silent(t, k)
      /\ Ends(r, s, k) => Ends(r, t, k) \/ (Silent(t, k) /\ Writes(c, k) /\ Brings(r, c, k))
  BY <1>1, Leaves
<1>4. /\ Silent(q, k) /\ ~Writes(c, k) => Silent(w, k)
      /\ Ends(r, q, k) /\ ~Writes(c, k) => Ends(r, w, k)
      /\ Writes(c, k) /\ Brings(r, c, k) => Ends(r, w, k)
  BY <1>2, Joins
<1>5. Comes(r, w, t, v, k)
  BY <1>3, <1>4 DEF Comes
<1> QED BY <1>1, <1>2, <1>5

\* ... and the park for the screen.
LEMMA Unparks ==
  ASSUME NEW q \in Seq(Changes), q # <<>>, NEW s \in Seq(Changes), NEW r \in Seq(Rows),
         NEW v \in Seq(Rows), NEW k \in Nat \ {0}, Comes(r, q, s, v, k),
         Silent(q, k) /\ Silent(s, k) => Head(q).index <= Len(r)
  PROVE  Comes(r, Tail(q), s, Apply(Head(q), v), k)
<1>1. PICK c \in Changes, t \in Seq(Changes) : c = Head(q) /\ t = Tail(q)
  BY Cut
<1>2. PICK w : w = Apply(c, v)
  OBVIOUS
<1>3. /\ Silent(q, k) => ~Writes(c, k) /\ Silent(t, k)
      /\ Ends(r, q, k) => Ends(r, t, k) \/ (Silent(t, k) /\ Writes(c, k) /\ Brings(r, c, k))
  BY <1>1, Leaves
<1>4. /\ Writes(c, k) /\ Brings(r, c, k) => Same(r, w, k)
      /\ ~Writes(c, k) /\ c.index <= Len(r) /\ Same(r, v, k) => Same(r, w, k)
  BY <1>2, Applied
<1>5. Silent(q, k) /\ Silent(s, k) => c.index <= Len(r)
  BY <1>1
<1>6. Comes(r, t, s, w, k)
  BY <1>3, <1>4, <1>5 DEF Comes
<1> QED BY <1>1, <1>2, <1>6

\* When nothing on its way writes some row, no Reset is, so every change is to a row the
\* transcript has: no row beyond it appears.
LEMMA InTranscript ==
  ASSUME Typed, Agree, NEW k, Silent(Carried(out), k), Silent(pipe, k), Silent(parked, k),
         NEW q \in {pipe, parked}, NEW j \in DOMAIN q
  PROVE  q[j].index <= Len(rows)
<1>1. PICK r \in Seq(Rows), o \in Seq(Sends) : r = rows /\ o = out
  BY DEF Typed, TypeOK
<1>2. q \in Seq(Changes)
  BY DEF Typed, TypeOK
<1>3. PICK i \in Nat : i = q[j].index
  <2>1. q[j] \in Changes  BY <1>2
  <2> QED BY <2>1 DEF Changes
<1>4. SUFFICES ASSUME ~(i <= Len(r)) PROVE FALSE
  BY <1>1, <1>3
<1>5. i > Len(r) /\ i \in Nat \ {0}
  BY <1>4
<1>6. ~Silent(q, i)
  BY <1>3 DEF Silent, Writes
<1>7. Settles(i)
  BY <1>5 DEF Agree
<1>8. ASSUME NEW s \in Seq(Changes), Ends(r, s, i) PROVE ~Silent(s, k)
  BY <1>5, <1>8, Removed
<1>9. parked \in Seq(Changes) /\ pipe \in Seq(Changes) /\ Carried(out) \in Seq(Changes)
  BY <1>1, CarriedTyped DEF Typed, TypeOK
<1> QED BY <1>1, <1>6, <1>7, <1>8, <1>9 DEF Settles, Comes

\* on_transcript: what the change overtakes is to other rows.
LEMMA AgreeHandedOver ==
  ASSUME Typed, Agree, NEW p \in Procs, OnTranscript(p), ~astray'
  PROVE  Agree'
<1>1. PICK o \in Seq(Sends), q \in Seq(Changes) : o = out /\ q = pipe
  BY DEF Typed, TypeOK
<1>2. PICK j \in DOMAIN o : /\ pipe' = Append(q, o[j].change) /\ out' = RemoveAt(o, j)
                            /\ \A i \in 1 .. j - 1 : ~Overlap(o[i].change, o[j].change)
  BY <1>1 DEF OnTranscript
<1>3. PICK c \in Changes : c = o[j].change
  <2>1. o[j] \in Sends  OBVIOUS
  <2> QED BY <2>1 DEF Sends
<1>4. PICK w, n : w = Append(q, c) /\ n = RemoveAt(o, j)
  OBVIOUS
<1>5. pipe' = w /\ out' = n /\ UNCHANGED <<rows, parked, view>>
  BY <1>2, <1>3, <1>4 DEF OnTranscript, coreVars
<1>6. ASSUME NEW k \in Nat \ {0} PROVE Settles(k)'
  <2>1. PICK r, s, t : r = rows /\ s = Carried(o) /\ t = Carried(n)  OBVIOUS
  <2>2. /\ Silent(s, k) => ~Writes(c, k) /\ Silent(t, k)
        /\ Ends(r, s, k) => Ends(r, t, k) \/ (Silent(t, k) /\ Writes(c, k) /\ Brings(r, c, k))
    BY <1>2, <1>3, <1>4, <2>1, Overtakes
  <2>3. /\ Silent(q, k) /\ ~Writes(c, k) => Silent(w, k)
        /\ Ends(r, q, k) /\ ~Writes(c, k) => Ends(r, w, k)
        /\ Writes(c, k) /\ Brings(r, c, k) => Ends(r, w, k)
    BY <1>4, Joins
  <2>4. Ends(r, t, k) \/ (Silent(t, k) /\ Comes(r, parked, w, view, k)) => Settles(k)'
    BY <1>5, <2>1 DEF Settles
  <2>5. CASE Ends(r, s, k)
    <3>1. CASE Ends(r, t, k)  BY <2>4, <3>1
    <3>2. CASE Silent(t, k) /\ Writes(c, k) /\ Brings(r, c, k)
      <4>1. Comes(r, parked, w, view, k)  BY <2>3, <3>2 DEF Comes
      <4> QED BY <2>4, <3>2, <4>1
    <3> QED BY <2>2, <2>5, <3>1, <3>2
  <2>6. CASE Silent(s, k) /\ Comes(r, parked, q, view, k)
    <3>1. ~Writes(c, k) /\ Silent(t, k)  BY <2>2, <2>6
    <3>2. Comes(r, parked, w, view, k)  BY <2>3, <2>6, <3>1 DEF Comes
    <3> QED BY <2>4, <3>1, <3>2
  <2> QED BY <1>1, <2>1, <2>5, <2>6 DEF Agree, Settles
<1> QED BY <1>6 DEF Agree

\* onTranscriptChange: a tab's change is shown, nothing being parked for a tab; one for a
\* session that is being opened is parked.
LEMMA AgreeArrived ==
  ASSUME Typed, AgreeInv, OnTranscriptChange
  PROVE  AgreeInv'
<1>1. PICK r \in Seq(Rows), v \in Seq(Rows), q \in Seq(Changes), s \in Seq(Changes) :
        r = rows /\ v = view /\ q = parked /\ s = pipe
  BY DEF Typed, TypeOK
<1>2. /\ s # <<>> /\ pipe' = Tail(s) /\ opc # "drain"
      /\ UNCHANGED <<rows, open, out, tab, pending, opc>> /\ (astray => astray')
  <2>1. /\ pipe # <<>> /\ pipe' = Tail(pipe) /\ opc # "drain"
        /\ UNCHANGED <<rows, open, out, tab, pending, opc>>
    BY DEF OnTranscriptChange, coreVars, tabVars
  <2>2. astray => astray'
    BY Zenon DEF OnTranscriptChange
  <2> QED BY <1>1, <2>1, <2>2
<1>3. 1 \in DOMAIN s /\ s[1] = Head(s) /\ Tail(s) \in Seq(Changes)
  BY <1>2, Cut
<1>4. TabHas' /\ (Known' <=> Known)
  BY <1>2 DEF AgreeInv, TabHas, Known
<1>5. CASE Known /\ view' = Apply(Head(s), v) /\ UNCHANGED <<parked, astray>>
  <2>1. q = <<>> /\ ParkedFor'
    BY <1>1, <1>2, <1>4, <1>5 DEF AgreeInv, ParkedFor
  <2>2. ASSUME Agree, NEW k \in Nat \ {0} PROVE Settles(k)'
    <3>1. CASE Ends(r, Carried(out), k)
      BY <1>1, <1>2, <3>1 DEF Settles
    <3>2. CASE Silent(Carried(out), k) /\ Comes(r, q, s, v, k)
      <4>1. Silent(q, k) /\ ~Ends(r, q, k)  BY <2>1 DEF Silent, Ends
      <4>2. Comes(r, s, q, v, k)  BY <3>2, <4>1 DEF Comes
      <4>3. Silent(s, k) => Head(s).index <= Len(r)
        BY <1>1, <1>3, <2>2, <3>2, <4>1, InTranscript
      <4>4. PICK w, t : w = Apply(Head(s), v) /\ t = Tail(s)  OBVIOUS
      <4>5. Comes(r, t, q, w, k)  BY <1>2, <4>2, <4>3, <4>4, Unparks
      <4>6. Comes(r, q, t, w, k)  BY <4>1, <4>5 DEF Comes
      <4>7. rows' = r /\ parked' = q /\ pipe' = t /\ view' = w  BY <1>1, <1>2, <1>5, <4>4
      <4>8. Silent(Carried(out'), k)  BY <1>2, <3>2
      <4> QED BY <4>6, <4>7, <4>8 DEF Settles
    <3> QED BY <1>1, <2>2, <3>1, <3>2 DEF Agree, Settles
  <2>3. Agree => Agree'
    BY <2>2 DEF Agree
  <2> QED BY <1>2, <1>4, <1>5, <2>1, <2>3 DEF AgreeInv
<1>6. CASE /\ ~Known /\ opc \in Opening
           /\ parked' = Append(IF Len(q) < ParkMax THEN q ELSE Tail(q), Head(s))
           /\ astray' = (astray \/ Len(q) = ParkMax)
           /\ UNCHANGED view
  <2>1. ParkedFor'
    BY <1>2, <1>4, <1>6 DEF ParkedFor
  <2>2. ASSUME ~astray', Agree, NEW k \in Nat \ {0} PROVE Settles(k)'
    <3>0. Len(q) < ParkMax
      <4>1. Len(q) <= ParkMax /\ Len(q) # ParkMax  BY <1>1, <1>6, <2>2 DEF Typed, TypeOK
      <4>2. Len(q) \in Nat /\ ParkMax \in Nat  BY Bounds
      <4> QED BY <4>1, <4>2
    <3>1. CASE Ends(r, Carried(out), k)
      BY <1>1, <1>2, <3>1 DEF Settles
    <3>2. CASE Silent(Carried(out), k) /\ Comes(r, q, s, v, k)
      <4>1. PICK w, t : w = Append(q, Head(s)) /\ t = Tail(s)  OBVIOUS
      <4>2. Comes(r, w, t, v, k)  BY <1>2, <3>2, <4>1, Parks
      <4>3. rows' = r /\ parked' = w /\ pipe' = t /\ view' = v  BY <1>1, <1>2, <1>6, <3>0, <4>1
      <4>4. Silent(Carried(out'), k)  BY <1>2, <3>2
      <4> QED BY <4>2, <4>3, <4>4 DEF Settles
    <3> QED BY <1>1, <2>2, <3>1, <3>2 DEF Agree, Settles
  <2>3. ~astray' /\ Agree => Agree'
    BY <2>2 DEF Agree
  <2> QED BY <1>2, <1>4, <2>1, <2>3 DEF AgreeInv
<1>7. CASE ~Known /\ opc \notin Opening /\ UNCHANGED <<parked, view, astray>>
  <2>1. parked = <<>> /\ ~(open /\ ~astray)
    BY <1>2, <1>7 DEF AgreeInv, ParkedFor, TabHas, Known, Opening
  <2> QED BY <1>2, <1>4, <1>7, <2>1 DEF AgreeInv, ParkedFor
<1> QED BY <1>1, <1>5, <1>6, <1>7 DEF OnTranscriptChange

\* open_session has returned: the park is shown, in its order.
LEMMA AgreeUnparked ==
  ASSUME Typed, Agree, Unpark
  PROVE  Agree'
<1>1. PICK r \in Seq(Rows), v \in Seq(Rows), q \in Seq(Changes), s \in Seq(Changes) :
        r = rows /\ v = view /\ q = parked /\ s = pipe
  BY DEF Typed, TypeOK
<1>2. PICK w, t : w = Apply(Head(q), v) /\ t = Tail(q)
  OBVIOUS
<1>3. q # <<>> /\ parked' = t /\ view' = w /\ UNCHANGED <<rows, out, pipe>>
  BY <1>1, <1>2 DEF Unpark, coreVars
<1>4. 1 \in DOMAIN q /\ q[1] = Head(q)
  BY <1>3
<1>5. ASSUME NEW k \in Nat \ {0} PROVE Settles(k)'
  <2>1. CASE Ends(r, Carried(out), k)
    BY <1>1, <1>3, <2>1 DEF Settles
  <2>2. CASE Silent(Carried(out), k) /\ Comes(r, q, s, v, k)
    <3>1. Silent(q, k) /\ Silent(s, k) => Head(q).index <= Len(r)
      BY <1>1, <1>4, <2>2, InTranscript
    <3>2. Comes(r, t, s, w, k)  BY <1>2, <1>3, <2>2, <3>1, Unparks
    <3> QED BY <1>1, <1>3, <2>2, <3>2 DEF Settles
  <2> QED BY <1>1, <2>1, <2>2 DEF Agree, Settles
<1> QED BY <1>5 DEF Agree

\* What touches neither the rows nor what is on its way.
LEMMA AgreeSame ==
  ASSUME AgreeInv, UNCHANGED <<open, rows, out, astray, pipe, tab, pending, view, parked, opc>>
  PROVE  AgreeInv'
BY DEF AgreeInv, ParkedFor, TabHas, Known, Agree, Settles

\* The rows change, and Agree holds again.
LEMMA AgreeAgain ==
  ASSUME AgreeInv, UNCHANGED <<open, tab, pending, parked, opc>>,
         open /\ ~astray' => (~astray \/ tab) /\ Agree'
  PROVE  AgreeInv'
BY DEF AgreeInv, ParkedFor, TabHas, Known

LEMMA AgreeSup ==
  ASSUME Typed, AgreeInv, Supervisor
  PROVE  AgreeInv'
<1> USE DEF coreVars, appVars, tabVars, histVars
<1>1. CASE SupReconnect \/ SupResume \/ SupSince \/ SupList \/ CardsDone
  BY <1>1, AgreeSame DEF SupReconnect, SupResume, SupSince, SupList, CardsDone, SupStep
<1>2. ASSUME NEW from, NEW to, SupStep(from, to)
      PROVE  UNCHANGED <<pipe, tab, pending, view, parked, opc>>
  BY <1>2 DEF SupStep
<1>3. ASSUME NEW from, NEW to, SupStep(from, to), UNCHANGED <<open, astray>>, NEW id \in Requests,
             AppendCard(id)
      PROVE  AgreeInv'
  <2>1. UNCHANGED <<pipe, tab, pending, view, parked, opc>>  BY <1>2, <1>3
  <2>2. Agree => Agree'  BY <1>3, <2>1, AgreeAppend
  <2>3. open /\ ~astray => Agree  BY DEF AgreeInv
  <2> QED BY <1>3, <2>1, <2>2, <2>3, AgreeAgain
<1>4. ASSUME NEW from, NEW to, SupStep(from, to), UNCHANGED astray, NEW n \in 1 .. Len(asked),
             DeliverEvent(n)
      PROVE  AgreeInv'
  <2>1. asked[n] \in Requests  BY <1>4 DEF Typed, TypeOK
  <2>2. CASE open  BY <1>3, <1>4, <2>1, <2>2 DEF DeliverEvent
  <2>3. CASE ~open
    <3>1. UNCHANGED <<coreVars, out>>  BY <1>4, <2>3 DEF DeliverEvent
    <3> QED BY <1>2, <1>4, <3>1, AgreeSame
  <2> QED BY <2>2, <2>3
<1>5. CASE SupReplay
  <2>1. PICK s \in Seq(1 .. Len(asked)) : s = sup.todo  BY DEF Typed, TypeOK
  <2>2. CASE s = <<>>  BY <1>5, <2>1, <2>2, AgreeSame DEF SupReplay, SupStep
  <2>3. CASE s # <<>>
    <3>1. Head(s) \in 1 .. Len(asked)  BY <2>3, Cut
    <3> QED BY <1>4, <1>5, <2>1, <2>3, <3>1 DEF SupReplay
  <2> QED BY <2>2, <2>3
<1>6. CASE SupEvent
  <2>1. PICK s \in Seq(1 .. Len(asked)) : s = buffer  BY DEF Typed, TypeOK
  <2>2. s # <<>>  BY <1>6, <2>1 DEF SupEvent
  <2>3. Head(s) \in 1 .. Len(asked)  BY <2>2, Cut
  <2> QED BY <1>4, <1>6, <2>1, <2>3 DEF SupEvent
<1>7. CASE SupCard
  <2>1. CASE CardsDone  BY <1>1, <2>1
  <2>2. CASE ~CardsDone
    <3>1. PICK id \in sup.cards :
             /\ SupStep("cards", "cards") /\ UNCHANGED <<open, astray>>
             /\ AppendCard(id) \/ UNCHANGED <<rows, out>>
      BY <1>7, <2>2 DEF SupCard
    <3>2. id \in Requests  BY DEF Typed, TypeOK, Approvals
    <3> QED BY <1>2, <1>3, <3>1, <3>2, AgreeSame
  <2> QED BY <2>1, <2>2
<1>8. CASE SupRebuild
  <2>1. SupStep("rebuild", "list") /\ UNCHANGED open  BY <1>8 DEF SupRebuild
  <2>2. CASE open
    <3>1. rows' = HistoryRows /\ DeliverAll("sup", HistoryChanges) /\ (~astray' => ~astray \/ tab)
      BY <1>8, <2>2 DEF SupRebuild
    <3>2. Agree'
      <4>1. "sup" \in Procs  BY DEF Procs
      <4> QED BY <3>1, <4>1, AgreeReplace
    <3> QED BY <1>2, <2>1, <3>1, <3>2, AgreeAgain
  <2>3. CASE ~open
    <3>1. UNCHANGED <<rows, out, astray>>  BY <1>8, <2>3 DEF SupRebuild
    <3> QED BY <1>2, <2>1, <3>1, AgreeSame
  <2> QED BY <2>2, <2>3
<1> QED BY <1>1, <1>5, <1>6, <1>7, <1>8 DEF Supervisor

LEMMA AgreeTab ==
  ASSUME Typed, AgreeInv, Tab
  PROVE  AgreeInv'
<1> USE DEF coreVars, appVars, tabVars, histVars, TabStep
<1>1. CASE Restore \/ OpenNext \/ Pick \/ RestoreEnds \/ OpenResume \/ OpenFails
  <2>1. UNCHANGED <<open, rows, out, astray, pipe, view, tab>>
    BY <1>1 DEF Restore, OpenNext, Pick, RestoreEnds, OpenResume, OpenFails
  <2>2. Agree => parked' # parked \/ Agree'
    BY <2>1 DEF Agree, Settles
  <2>3. TabHas' /\ ~(opc \in {"register", "drain"})
    BY <1>1, <2>1 DEF Restore, OpenNext, Pick, RestoreEnds, OpenResume, OpenFails, AgreeInv, TabHas
  <2>4. open /\ ~astray => parked = <<>>
    BY <2>3 DEF AgreeInv, TabHas, ParkedFor, Known
  <2>5. ParkedFor' /\ (parked' = <<>> \/ parked' = parked)
    BY <1>1 DEF Restore, OpenNext, Pick, RestoreEnds, OpenResume, OpenFails, AgreeInv, ParkedFor,
                Known, Opening
  <2> QED BY <2>1, <2>2, <2>3, <2>4, <2>5 DEF AgreeInv
<1>2. CASE OpenInstall
  <2>1. ParkedFor' /\ TabHas'
    BY <1>2 DEF OpenInstall, AgreeInv, ParkedFor, TabHas, Known, Opening
  <2>2. rows' = HistoryRows /\ UNCHANGED <<pipe, parked, view>>
    BY <1>2 DEF OpenInstall
  <2>3. ASSUME ~astray' PROVE Agree'
    <3>1. CASE History = 0
      <4>1. rows' = <<>>  BY <2>2, <3>1, HistoryBrought
      <4>2. out' = <<>> /\ pipe' = <<>> /\ parked' = <<>> /\ view' = <<>>
        BY <1>2, <2>3, <3>1 DEF OpenInstall
      <4> QED BY <4>1, <4>2, AgreeEmpty
    <3>2. CASE History # 0
      <4>1. "open" \in Procs  BY DEF Procs
      <4> QED BY <1>2, <2>2, <3>2, <4>1, AgreeReplace DEF OpenInstall
    <3> QED BY <3>1, <3>2
  <2> QED BY <2>1, <2>3 DEF AgreeInv
<1>3. CASE Unpark
  <2>1. /\ parked # <<>> /\ opc' = "drain" /\ UNCHANGED <<open, astray, tab, pending>>
    BY <1>3 DEF Unpark
  <2>2. ParkedFor' /\ TabHas'
    BY <2>1 DEF AgreeInv, ParkedFor, TabHas, Known
  <2> QED BY <1>3, <2>1, <2>2, AgreeUnparked DEF AgreeInv
<1>4. CASE Register
  <2>1. parked = <<>> /\ tab' = TRUE /\ UNCHANGED <<open, rows, out, astray, pipe, view, parked>>
    BY <1>4 DEF Register
  <2> QED BY <2>1 DEF AgreeInv, ParkedFor, TabHas, Agree, Settles
<1>5. CASE CloseTab
  <2>1. open' = FALSE /\ UNCHANGED <<tab, pending, parked, opc>>
    BY <1>5 DEF CloseTab
  <2> QED BY <2>1 DEF AgreeInv, ParkedFor, TabHas, Known
<1>6. CASE DropTab
  <2>1. ~(open' /\ ~astray') /\ tab' = FALSE /\ UNCHANGED <<pending, parked, opc>>
    BY <1>6 DEF DropTab
  <2> QED BY <2>1 DEF AgreeInv, ParkedFor, TabHas, Known
<1> QED BY <1>1, <1>2, <1>3, <1>4, <1>5, <1>6 DEF Tab

LEMMA AgreeAnswer ==
  ASSUME Typed, AgreeInv, NEW a \in Answers, AnswerCall(a)
  PROVE  AgreeInv'
<1> USE DEF coreVars, appVars, tabVars, histVars
<1>1. UNCHANGED <<open, astray, appVars, tabVars>>
  BY DEF AnswerCall, Respond, RespondTaken, RespondGone, RespondLost, RespondResolve
<1>2. CASE UNCHANGED <<rows, out>>
  BY <1>1, <1>2, AgreeSame
<1>3. CASE ~UNCHANGED <<rows, out>>
  <2>1. RespondResolve(a)
    BY <1>3 DEF AnswerCall, Respond, RespondTaken, RespondGone, RespondLost
  <2>2. PICK i \in DOMAIN rows : /\ rows' = [rows EXCEPT ![i].waits = FALSE]
                                 /\ Deliver(a, Change("updated", i, rows'[i]))
    BY <1>3, <2>1 DEF RespondResolve
  <2>3. Agree => Agree'
    BY <1>1, <2>2, AgreeResolve
  <2>4. open /\ ~astray => Agree
    BY DEF AgreeInv
  <2> QED BY <1>1, <2>3, <2>4, AgreeAgain
<1> QED BY <1>2, <1>3

LEMMA AgreeInit == Init => AgreeInv
<1> SUFFICES ASSUME Init PROVE AgreeInv
  OBVIOUS
<1>1. parked = <<>> /\ pipe = <<>> /\ view = rows /\ out = <<>> /\ tab = open
  BY DEF Init
<1>2. PICK r \in Seq(Rows) : r = rows
  <2>1. <<>> \in Seq(Rows)  OBVIOUS
  <2> QED BY <2>1, HistoryBrought DEF Init
<1>3. Carried(<<>>) = <<>>
  BY DEF Carried
<1>4. ASSUME NEW k \in Nat \ {0} PROVE Settles(k)
  <2>1. Same(r, r, k)  BY <1>2 DEF Same
  <2>2. Silent(<<>>, k)  BY DEF Silent
  <2>3. Comes(r, <<>>, <<>>, r, k)  BY <2>1, <2>2 DEF Comes
  <2> QED BY <1>1, <1>2, <1>3, <2>2, <2>3 DEF Settles
<1> QED BY <1>1, <1>4 DEF AgreeInv, ParkedFor, TabHas, Agree

LEMMA AgreeStep == Typed /\ AgreeInv /\ [Next]_vars => AgreeInv'
<1> SUFFICES ASSUME Typed, AgreeInv, [Next]_vars PROVE AgreeInv'
  OBVIOUS
<1> USE DEF coreVars, appVars, tabVars, histVars
<1>1. CASE UNCHANGED vars \/ Gateway
  BY <1>1, AgreeSame DEF vars, Gateway, Ask, Withdraw, Truncate, Lose
<1>2. ASSUME NEW p \in Procs, OnTranscript(p) PROVE AgreeInv'
  <2>1. UNCHANGED <<open, tab, pending, parked, opc>> /\ (astray => astray')
    BY <1>2 DEF OnTranscript
  <2>2. ~astray' /\ Agree => Agree'
    BY <1>2, AgreeHandedOver
  <2>3. open /\ ~astray => Agree
    BY DEF AgreeInv
  <2> QED BY <2>1, <2>2, <2>3, AgreeAgain
<1>3. CASE OnTranscriptChange
  BY <1>3, AgreeArrived
<1> QED BY <1>1, <1>2, <1>3, AgreeSup, AgreeTab, AgreeAnswer DEF Next

-----------------------------------------------------------------------------
(* Theorems                                                                 *)

\* However answers, lost replies, other clients, rebuilds, re-emissions and re-opens
\* interleave, respond_approval resolves no card of an approval the gateway still
\* waits for.
THEOREM ResolvedAnswered == Spec => []ResolvedIsAnswered
<1>1. CardInv => ResolvedIsAnswered
  BY DEF CardInv, ResolvedWasAsked, ResolvedIsAnswered
<1> QED BY <1>1, CardInit, CardStep, PTL DEF Spec

\* Once reemit_approvals is through on a connection, every approval the gateway waits for
\* has a card: whatever was lost with a connection, replayed, emitted before, answered
\* meanwhile or dropped with a closed tab, whoever appended it first, and however often
\* Retry opened the session again.  Only a card that was re-emitted and then removed with
\* the rows it was among, by a rebuild or by an open over the open session, is excepted.
THEOREM PendingShown == Spec => []PendingIsShown
<1>1. Shown => PendingIsShown
  BY DEF Shown, WaitingShown, Coming, PendingIsShown, Settled
<1>2. Init => Typed /\ CardInv /\ Shown
  BY TypedInit, CardInit, ShownInit
<1>3. Typed /\ CardInv /\ Shown /\ [Next]_vars => (Typed /\ CardInv /\ Shown)'
  BY TypedStep, CardStep, ShownStep
<1> QED BY <1>1, <1>2, <1>3, PTL DEF Spec

\* However the tasks hand their changes over, in the order they were made in or not, whether
\* they are shown as they arrive or parked until open_session returns, and whether the
\* session was opened over an open tab: once all have arrived, the screen shows the core's
\* transcript, unless, since it was last replaced, a change overtook an earlier one to the
\* same row, the park gave one up, or the tab went while the session was open.
THEOREM ScreenAgrees == Spec => []AppAgrees
<1>1. Typed /\ AgreeInv => AppAgrees
  <2> SUFFICES ASSUME Typed, AgreeInv, Known, open, Delivered, ~astray PROVE view = rows
    BY DEF AppAgrees
  <2>1. PICK r \in Seq(Rows), v \in Seq(Rows) : r = rows /\ v = view
    BY DEF Typed, TypeOK
  <2>2. parked = <<>> /\ pipe = <<>> /\ out = <<>>
    BY DEF AgreeInv, ParkedFor, Delivered
  <2>3. ASSUME NEW k \in Nat \ {0} PROVE Same(r, v, k)
    <3>1. Carried(<<>>) = <<>>  BY DEF Carried
    <3>2. ~Ends(r, <<>>, k)  BY DEF Ends
    <3> QED BY <2>1, <2>2, <3>1, <3>2 DEF AgreeInv, Agree, Settles, Comes
  <2>4. Len(r) = Len(v)
    <3>1. ~(Len(r) > Len(v))
      BY <2>3 DEF Same
    <3>2. ~(Len(v) > Len(r))
      BY <2>3 DEF Same
    <3> QED BY <3>1, <3>2
  <2>5. \A k \in 1 .. Len(r) : v[k] = r[k]
    BY <2>3 DEF Same
  <2> QED BY <2>1, <2>4, <2>5
<1>2. Init => Typed /\ CardInv /\ Shown /\ AgreeInv
  BY TypedInit, CardInit, ShownInit, AgreeInit
<1>3. Typed /\ CardInv /\ Shown /\ AgreeInv /\ [Next]_vars => (Typed /\ CardInv /\ Shown /\ AgreeInv)'
  BY TypedStep, CardStep, ShownStep, AgreeStep
<1> QED BY <1>1, <1>2, <1>3, PTL DEF Spec

=============================================================================
