--------------------------- MODULE TranscriptProofs ---------------------------
(***************************************************************************)
(* TranscriptReducer, for every set of ids and names and every bound: the  *)
(* positions kept into the row list are sound, and a tool has one card.    *)
(*                                                                         *)
(* Neither is inductive alone.  That tool.start of a new id cannot make a  *)
(* second card needs the map to be complete (OneCardPerTool), and that an  *)
(* update through the map leaves the other positions alone needs the row   *)
(* it finds to be a tool card (ToolsSound).                                *)
(***************************************************************************)
EXTENDS TranscriptReducer, WellFoundedInduction, TLAPS

IInv == TypeOK /\ PositionsSound /\ OneCardPerTool

-----------------------------------------------------------------------------
(* What the two primitives do to the row list                               *)

LEMMA Appending ==
  ASSUME TypeOK, NEW row \in Rows, AppendRow(row)
  PROVE  /\ rows' \in Seq(Rows) /\ Len(rows') = NewIndex
         /\ rows'[NewIndex] = row
         /\ \A i \in DOMAIN rows : i \in DOMAIN rows' /\ rows'[i] = rows[i]
         /\ \A i \in DOMAIN rows' : i \in DOMAIN rows \/ i = NewIndex
         /\ NewIndex \in DOMAIN rows' /\ NewIndex \notin DOMAIN rows
         /\ changes' \in Seq(Changes) /\ header' \subseteq Fields /\ restored' = restored
<1>1. rows \in Seq(Rows) /\ rows' = Append(rows, row)  BY DEF TypeOK, AppendRow
<1>2. Change("appended", NewIndex) \in Changes  BY <1>1 DEF Change, Changes, NewIndex
<1>3. changes' \in Seq(Changes) /\ header' \subseteq Fields /\ restored' = restored
  BY <1>2 DEF AppendRow, TypeOK
<1> QED  BY <1>1, <1>3 DEF NewIndex

LEMMA Updating ==
  ASSUME TypeOK, NEW i \in DOMAIN rows, NEW row \in Rows, UpdateRow(i, row)
  PROVE  /\ rows' \in Seq(Rows) /\ Len(rows') = Len(rows) /\ DOMAIN rows' = DOMAIN rows
         /\ rows'[i] = row
         /\ \A j \in DOMAIN rows : j # i => rows'[j] = rows[j]
         /\ changes' \in Seq(Changes) /\ header' \subseteq Fields /\ restored' = restored
<1>1. rows \in Seq(Rows) /\ rows' = [rows EXCEPT ![i] = row]  BY DEF TypeOK, UpdateRow
<1>2. i \in Nat  BY <1>1
<1>3. Change("updated", i) \in Changes  BY <1>2 DEF Change, Changes
<1>4. changes' \in Seq(Changes) /\ header' \subseteq Fields /\ restored' = restored
  BY <1>3 DEF UpdateRow, TypeOK
<1> QED  BY <1>1, <1>4

\* What the two have in common: a row keeps its place, kind and card id.
RowsKept ==
  /\ rows' \in Seq(Rows) /\ changes' \in Seq(Changes) /\ header' \subseteq Fields /\ restored' = restored
  /\ Len(rows') >= Len(rows)
  /\ \A i \in DOMAIN rows : /\ i \in DOMAIN rows'
                            /\ rows'[i].kind = rows[i].kind
                            /\ rows'[i].id = rows[i].id
  /\ \A i \in DOMAIN rows' : i \in DOMAIN rows \/ rows'[i].kind # "tool" \/ rows'[i].id = None

LEMMA AppendKeeps ==
  ASSUME TypeOK, NEW row \in Rows, row.kind # "tool" \/ row.id = None, AppendRow(row)
  PROVE  RowsKept
BY Appending DEF RowsKept, NewIndex, TypeOK

LEMMA UpdateKeeps ==
  ASSUME TypeOK, NEW i \in DOMAIN rows, NEW row \in Rows, UpdateRow(i, row),
         row.kind = rows[i].kind, row.id = rows[i].id
  PROVE  RowsKept
<1>1. /\ rows' \in Seq(Rows) /\ Len(rows') = Len(rows) /\ DOMAIN rows' = DOMAIN rows
      /\ rows'[i] = row
      /\ \A j \in DOMAIN rows : j # i => rows'[j] = rows[j]
      /\ changes' \in Seq(Changes) /\ header' \subseteq Fields /\ restored' = restored
  BY Updating
<1>2. Len(rows) \in Nat  BY DEF TypeOK
<1> QED  BY <1>1, <1>2 DEF RowsKept

LEMMA ThinkingKept ==
  ASSUME TypeOK, ThinkingSound, RowsKept, thinking' = thinking
  PROVE  ThinkingSound' /\ thinking' \in 0 .. Len(rows')
<1>1. rows \in Seq(Rows) /\ thinking \in 0 .. Len(rows)  BY DEF TypeOK
<1> QED  BY <1>1 DEF ThinkingSound, RowsKept, Holds

LEMMA ToolsKept ==
  ASSUME TypeOK, ToolsSound, OneCardPerTool, RowsKept, tools' = tools
  PROVE  ToolsSound' /\ OneCardPerTool' /\ tools' \in [ToolIds -> 0 .. Len(rows')]
<1>1. rows \in Seq(Rows) /\ rows' \in Seq(Rows) /\ tools \in [ToolIds -> 0 .. Len(rows)]
  BY DEF TypeOK, RowsKept
<1>2. tools' \in [ToolIds -> 0 .. Len(rows')]  BY <1>1 DEF RowsKept
<1>3. ToolsSound'  BY <1>1 DEF ToolsSound, RowsKept, Holds
<1>4. OneCardPerTool'
  BY <1>1, ReducerAssumption DEF OneCardPerTool, RowsKept
<1> QED  BY <1>2, <1>3, <1>4

LEMMA StreamingKept ==
  ASSUME TypeOK, StreamingSound, RowsKept, streaming' = streaming,
         streaming # 0 => rows'[streaming].open = rows[streaming].open
  PROVE  StreamingSound' /\ streaming' \in 0 .. Len(rows')
<1>1. rows \in Seq(Rows) /\ streaming \in 0 .. Len(rows)  BY DEF TypeOK
<1> QED  BY <1>1 DEF StreamingSound, RowsKept, Holds

\* Rows only kept, and every position unchanged: all of IInv is.
LEMMA OnlyRowsKept ==
  ASSUME IInv, RowsKept, UNCHANGED <<streaming, thinking, tools>>,
         streaming # 0 => rows'[streaming].open = rows[streaming].open
  PROVE  IInv'
<1>1. StreamingSound' /\ streaming' \in 0 .. Len(rows')
  BY StreamingKept DEF IInv, PositionsSound
<1>2. ThinkingSound' /\ thinking' \in 0 .. Len(rows')
  BY ThinkingKept DEF IInv, PositionsSound
<1>3. ToolsSound' /\ OneCardPerTool' /\ tools' \in [ToolIds -> 0 .. Len(rows')]
  BY ToolsKept DEF IInv, PositionsSound
<1> QED  BY <1>1, <1>2, <1>3 DEF IInv, TypeOK, PositionsSound, RowsKept

\* A new row that is not a card of a tool, and no position moved.
LEMMA PlainAppend ==
  ASSUME IInv, NEW row \in Rows, row.kind # "tool" \/ row.id = None, AppendRow(row),
         UNCHANGED <<streaming, thinking, tools>>
  PROVE  IInv'
<1>1. RowsKept  BY AppendKeeps DEF IInv
<1>2. streaming # 0 => rows'[streaming].open = rows[streaming].open
  <2>1. streaming # 0 => streaming \in DOMAIN rows
    BY DEF IInv, PositionsSound, StreamingSound, Holds
  <2> QED  BY <2>1, Appending DEF IInv
<1> QED  BY <1>1, <1>2, OnlyRowsKept

\* An update of a row that is not the streaming one, and no position moved.
LEMMA PlainUpdate ==
  ASSUME IInv, NEW i \in DOMAIN rows, NEW row \in Rows, UpdateRow(i, row),
         row.kind = rows[i].kind, row.id = rows[i].id,
         i = streaming => row.open = rows[i].open,
         UNCHANGED <<streaming, thinking, tools>>
  PROVE  IInv'
<1>1. RowsKept  BY UpdateKeeps DEF IInv
<1>2. streaming # 0 => rows'[streaming].open = rows[streaming].open
  <2>1. streaming # 0 => streaming \in DOMAIN rows
    BY DEF IInv, PositionsSound, StreamingSound, Holds
  <2>2. rows'[i] = row /\ \A j \in DOMAIN rows : j # i => rows'[j] = rows[j]
    BY Updating DEF IInv
  <2> QED  BY <2>1, <2>2
<1> QED  BY <1>1, <1>2, OnlyRowsKept

LEMMA Ignored ==
  ASSUME IInv, Ignore
  PROVE  IInv'
BY DEF IInv, Ignore, TypeOK, PositionsSound, StreamingSound, ThinkingSound, ToolsSound,
       OneCardPerTool, Holds

-----------------------------------------------------------------------------
(* The handlers                                                             *)

\* A sealed streaming row: what interim and complete share.
LEMMA Sealing ==
  ASSUME IInv, streaming # 0, NEW text \in Nat,
         UpdateRow(streaming, [rows[streaming] EXCEPT !.open = FALSE, !.text = text]),
         streaming' = 0, UNCHANGED <<thinking, tools>>
  PROVE  IInv'
<1> DEFINE row == [rows[streaming] EXCEPT !.open = FALSE, !.text = text]
<1>1. streaming \in DOMAIN rows /\ rows[streaming] \in Rows
  BY DEF IInv, TypeOK, PositionsSound, StreamingSound, Holds
<1>2. row \in Rows /\ row.kind = rows[streaming].kind /\ row.id = rows[streaming].id
  BY <1>1 DEF Rows
<1>3. RowsKept  BY <1>1, <1>2, UpdateKeeps DEF IInv
<1>4. ThinkingSound' /\ thinking' \in 0 .. Len(rows')
  BY <1>3, ThinkingKept DEF IInv, PositionsSound
<1>5. ToolsSound' /\ OneCardPerTool' /\ tools' \in [ToolIds -> 0 .. Len(rows')]
  BY <1>3, ToolsKept DEF IInv, PositionsSound
<1>6. streaming' \in 0 .. Len(rows') /\ StreamingSound'
  BY DEF IInv, TypeOK, StreamingSound, UpdateRow
<1> QED  BY <1>3, <1>4, <1>5, <1>6 DEF IInv, TypeOK, PositionsSound, RowsKept

\* A fresh streaming row: what message.start and a stray delta share.
LEMMA Opening ==
  ASSUME IInv, NEW text \in Nat, AppendRow(Row("assistant", text, TRUE)),
         streaming' = NewIndex, thinking' \in {0, thinking}, UNCHANGED tools
  PROVE  IInv'
<1> DEFINE row == Row("assistant", text, TRUE)
<1>1. row \in Rows /\ row.kind = "assistant" /\ row.open
  BY DEF Row, Rows, Kinds
<1>2. RowsKept  BY <1>1, AppendKeeps DEF IInv
<1>3. ThinkingSound' /\ thinking' \in 0 .. Len(rows')
  <2>1. CASE thinking' = 0
    BY <2>1, <1>2 DEF ThinkingSound, RowsKept
  <2>2. CASE thinking' = thinking
    BY <2>2, <1>2, ThinkingKept DEF IInv, PositionsSound
  <2> QED  BY <2>1, <2>2
<1>4. ToolsSound' /\ OneCardPerTool' /\ tools' \in [ToolIds -> 0 .. Len(rows')]
  BY <1>2, ToolsKept DEF IInv, PositionsSound
<1>5. Len(rows') = NewIndex /\ rows'[NewIndex] = row /\ NewIndex \in DOMAIN rows'
  BY <1>1, Appending DEF IInv
<1>6. NewIndex \in 0 .. NewIndex  BY DEF IInv, TypeOK, NewIndex
<1>7. streaming' \in 0 .. Len(rows') /\ StreamingSound'
  <2> HIDE DEF row
  <2> QED  BY <1>1, <1>5, <1>6 DEF StreamingSound, Holds
<1> QED  BY <1>2, <1>3, <1>4, <1>7 DEF IInv, TypeOK, PositionsSound, RowsKept

LEMMA MessageStep ==
  ASSUME IInv, Message
  PROVE  IInv'
<1>1. CASE MessageStart
  BY <1>1, Opening DEF MessageStart
<1>2. CASE MessageDelta
  <2>1. CASE ~Holds(streaming, "assistant")
    BY <1>2, <2>1, Opening DEF MessageDelta
  <2>2. CASE Holds(streaming, "assistant")
    <3> DEFINE row == [rows[streaming] EXCEPT !.text = @ + 1]
    <3>1. streaming \in DOMAIN rows /\ rows[streaming] \in Rows
      BY <2>2 DEF Holds, IInv, TypeOK
    <3>2. /\ row \in Rows /\ row.kind = rows[streaming].kind
          /\ row.id = rows[streaming].id /\ row.open = rows[streaming].open
      BY <3>1 DEF Rows
    <3>3. UpdateRow(streaming, row) /\ UNCHANGED <<streaming, thinking, tools>>
      BY <1>2, <2>2 DEF MessageDelta
    <3> QED  BY <3>1, <3>2, <3>3, PlainUpdate
  <2> QED  BY <2>1, <2>2
<1>3. ASSUME NEW b \in BOOLEAN, NEW t \in Texts, MessageInterim(b, t)
      PROVE  IInv'
  <2>1. CASE Ignore  BY <2>1, Ignored
  <2>2. CASE streaming # 0 /\ ~Ignore
    <3> DEFINE text == IF b THEN rows[streaming].text ELSE t
    <3>1. rows[streaming] \in Rows
      BY <2>2 DEF IInv, TypeOK, PositionsSound, StreamingSound, Holds
    <3>2. text \in Nat  BY <3>1 DEF Rows, Texts
    <3>3. UpdateRow(streaming, [rows[streaming] EXCEPT !.open = FALSE, !.text = text])
      BY <1>3, <2>2, <3>1 DEF MessageInterim, Rows
    <3>4. streaming' = 0 /\ UNCHANGED <<thinking, tools>>
      BY <1>3, <2>2 DEF MessageInterim
    <3> HIDE DEF text
    <3> QED  BY <2>2, <3>2, <3>3, <3>4, Sealing
  <2> QED  BY <1>3, <2>1, <2>2 DEF MessageInterim
<1>4. ASSUME NEW t \in Texts, MessageComplete(t)
      PROVE  IInv'
  <2>1. CASE Ignore  BY <2>1, Ignored
  <2>2. CASE streaming # 0 /\ ~Ignore
    <3>1. rows[streaming] \in Rows
      BY <2>2 DEF IInv, TypeOK, PositionsSound, StreamingSound, Holds
    <3>2. [rows[streaming] EXCEPT !.text = t, !.open = FALSE]
            = [rows[streaming] EXCEPT !.open = FALSE, !.text = t]
      BY <3>1 DEF Rows
    <3>3. UpdateRow(streaming, [rows[streaming] EXCEPT !.open = FALSE, !.text = t])
      BY <1>4, <2>2, <3>2 DEF MessageComplete
    <3>4. t \in Nat /\ streaming' = 0 /\ UNCHANGED <<thinking, tools>>
      BY <1>4, <2>2 DEF MessageComplete, Texts
    <3> QED  BY <2>2, <3>3, <3>4, Sealing
  <2> QED  BY <1>4, <2>1, <2>2 DEF MessageComplete
<1>5. ASSUME NEW p \in 0 .. 1, ThinkingDelta(p)
      PROVE  IInv'
  <2>1. CASE Holds(thinking, "thinking")
    <3> DEFINE row == [rows[thinking] EXCEPT !.text = @ + p]
    <3>1. thinking \in DOMAIN rows /\ rows[thinking] \in Rows
      BY <2>1 DEF Holds, IInv, TypeOK
    <3>2. /\ row \in Rows /\ row.kind = rows[thinking].kind
          /\ row.id = rows[thinking].id /\ row.open = rows[thinking].open
      BY <3>1 DEF Rows
    <3>3. UpdateRow(thinking, row) /\ UNCHANGED <<streaming, thinking, tools>>
      BY <1>5, <2>1 DEF ThinkingDelta
    <3> QED  BY <3>1, <3>2, <3>3, PlainUpdate
  <2>2. CASE ~Holds(thinking, "thinking")
    <3> DEFINE row == Row("thinking", p, FALSE)
    <3>1. AppendRow(row) /\ thinking' = NewIndex /\ UNCHANGED <<streaming, tools>>
      BY <1>5, <2>2 DEF ThinkingDelta
    <3>2. row \in Rows /\ row.kind = "thinking"  BY DEF Row, Rows, Kinds
    <3>3. RowsKept  BY <3>1, <3>2, AppendKeeps DEF IInv
    <3>4. /\ Len(rows') = NewIndex /\ rows'[NewIndex] = row /\ NewIndex \in DOMAIN rows'
          /\ \A i \in DOMAIN rows : rows'[i] = rows[i]
      BY <3>1, <3>2, Appending DEF IInv
    <3>5. ThinkingSound' /\ thinking' \in 0 .. Len(rows')
      <4>1. NewIndex \in 0 .. NewIndex  BY DEF IInv, TypeOK, NewIndex
      <4> HIDE DEF row
      <4> QED  BY <3>1, <3>2, <3>4, <4>1 DEF ThinkingSound, Holds
    <3>6. streaming # 0 => rows'[streaming].open = rows[streaming].open
      BY <3>4 DEF IInv, PositionsSound, StreamingSound, Holds
    <3>7. StreamingSound' /\ streaming' \in 0 .. Len(rows')
      BY <3>1, <3>3, <3>6, StreamingKept DEF IInv, PositionsSound
    <3>8. ToolsSound' /\ OneCardPerTool' /\ tools' \in [ToolIds -> 0 .. Len(rows')]
      BY <3>1, <3>3, ToolsKept DEF IInv, PositionsSound
    <3> QED  BY <3>3, <3>5, <3>7, <3>8 DEF IInv, TypeOK, PositionsSound, RowsKept
  <2> QED  BY <2>1, <2>2
<1> QED  BY <1>1, <1>2, <1>3, <1>4, <1>5 DEF Message

LEMMA ToolStep ==
  ASSUME IInv, Tool
  PROVE  IInv'
<1> USE DEF IInv
<1>1. ASSUME NEW name \in Names, ToolGenerating(name)
      PROVE  IInv'
  <2> DEFINE row == Card("tool", None, name, TRUE)
  <2>1. row \in Rows /\ row.id = None  BY DEF Card, Rows, Kinds
  <2>2. AppendRow(row) /\ UNCHANGED <<streaming, thinking, tools>>  BY <1>1 DEF ToolGenerating
  <2> HIDE DEF row
  <2> QED  BY <2>1, <2>2, PlainAppend
\* The cards the map finds.
<1>2. \A id \in ToolIds : tools[id] # 0 =>
        /\ tools[id] \in DOMAIN rows /\ rows[tools[id]] \in Rows
        /\ rows[tools[id]].kind = "tool" /\ rows[tools[id]].id = id
        /\ tools[id] # streaming
  <2>1. streaming # 0 => rows[streaming].kind = "assistant"
    BY DEF PositionsSound, StreamingSound, Holds
  <2> QED  BY <2>1 DEF TypeOK, PositionsSound, ToolsSound, Holds
<1>3. ASSUME NEW id \in ToolIds, NEW name \in Names, ToolRestart(id, name)
      PROVE  IInv'
  <2> DEFINE row == [rows[tools[id]] EXCEPT !.name = name, !.open = TRUE]
  <2>1. UpdateRow(tools[id], row) /\ tools[id] # 0 /\ UNCHANGED <<streaming, thinking, tools>>
    BY <1>3 DEF ToolRestart
  <2>2. row \in Rows /\ row.kind = rows[tools[id]].kind /\ row.id = rows[tools[id]].id
    <3>1. rows[tools[id]] \in Rows  BY <1>2, <2>1
    <3> QED  BY <3>1 DEF Rows
  <2> HIDE DEF row
  <2> QED  BY <1>2, <2>1, <2>2, PlainUpdate
<1>4. ASSUME NEW id \in ToolIds, NEW name \in Names, ToolPair(id, name)
      PROVE  IInv'
  <2>1. PICK i \in Unpaired(name) :
          /\ UpdateRow(i, [rows[i] EXCEPT !.id = id])
          /\ tools' = [tools EXCEPT ![id] = i]
          /\ tools[id] = 0 /\ UNCHANGED <<streaming, thinking>>
    BY <1>4 DEF ToolPair
  <2> DEFINE row == [rows[i] EXCEPT !.id = id]
  <2>2. /\ i \in DOMAIN rows /\ rows[i] \in Rows
        /\ rows[i].kind = "tool" /\ rows[i].id = None
    BY DEF Unpaired, TypeOK
  <2>3. row \in Rows /\ row.kind = "tool" /\ row.id = id  BY <2>2 DEF Rows
  <2> HIDE DEF row
  <2>4. UpdateRow(i, row)  BY <2>1 DEF row
  <2>5. /\ rows' \in Seq(Rows) /\ Len(rows') = Len(rows) /\ DOMAIN rows' = DOMAIN rows
        /\ rows'[i] = row
        /\ \A j \in DOMAIN rows : j # i => rows'[j] = rows[j]
        /\ changes' \in Seq(Changes) /\ header' \subseteq Fields /\ restored' = restored
    BY <2>2, <2>3, <2>4, Updating
  <2>6. TypeOK'
    BY <2>1, <2>2, <2>5 DEF TypeOK
  <2>7. StreamingSound' /\ ThinkingSound'
    BY <2>1, <2>2, <2>5 DEF PositionsSound, StreamingSound, ThinkingSound, Holds
  <2>8. ToolsSound'
    <3> SUFFICES ASSUME NEW other \in ToolIds, tools'[other] # 0
                 PROVE  Holds(tools[other], "tool")' /\ rows'[tools'[other]].id = other
      BY DEF ToolsSound
    <3>1. CASE other = id
      BY <2>1, <2>2, <2>3, <2>5, <3>1 DEF TypeOK, Holds
    <3>2. CASE other # id
      <4>1. tools'[other] = tools[other]  BY <2>1, <3>2 DEF TypeOK
      <4>2. tools[other] # i
        BY <1>2, <2>2, <4>1, ReducerAssumption
      <4> QED  BY <1>2, <2>5, <4>1, <4>2 DEF Holds
    <3> QED  BY <3>1, <3>2
  <2>9. OneCardPerTool'
    <3> SUFFICES ASSUME NEW j \in DOMAIN rows', NEW other \in ToolIds,
                        rows'[j].kind = "tool", rows'[j].id = other
                 PROVE  tools'[other] = j \/ (j < tools'[other] /\ tools'[other] <= restored')
      BY DEF OneCardPerTool
    <3>1. CASE j = i
      BY <2>1, <2>3, <2>5, <3>1 DEF TypeOK
    <3>2. CASE j # i
      <4>1. tools[other] = j \/ (j < tools[other] /\ tools[other] <= restored)
        BY <2>5, <3>2 DEF OneCardPerTool
      <4>2. other # id  BY <2>1, <2>5, <4>1 DEF TypeOK
      <4> QED  BY <2>1, <2>5, <4>1, <4>2 DEF TypeOK
    <3> QED  BY <3>1, <3>2
  <2> QED  BY <2>6, <2>7, <2>8, <2>9 DEF PositionsSound
<1>5. ASSUME NEW id \in ToolIds, NEW name \in Names, ToolAppend(id, name)
      PROVE  IInv'
  <2> DEFINE row == Card("tool", id, name, TRUE)
  <2>1. row \in Rows /\ row.kind = "tool" /\ row.id = id
    BY DEF Card, Rows, Kinds
  <2>2. /\ AppendRow(row) /\ tools[id] = 0
        /\ tools' = [tools EXCEPT ![id] = NewIndex] /\ UNCHANGED <<streaming, thinking>>
    BY <1>5 DEF ToolAppend
  <2> HIDE DEF row
  <2>3. /\ rows' \in Seq(Rows) /\ Len(rows') = NewIndex
        /\ rows'[NewIndex] = row
        /\ \A i \in DOMAIN rows : i \in DOMAIN rows' /\ rows'[i] = rows[i]
        /\ \A i \in DOMAIN rows' : i \in DOMAIN rows \/ i = NewIndex
        /\ NewIndex \in DOMAIN rows' /\ NewIndex \notin DOMAIN rows
        /\ changes' \in Seq(Changes) /\ header' \subseteq Fields /\ restored' = restored
    BY <2>1, <2>2, Appending
  <2>4. NewIndex = Len(rows) + 1 /\ Len(rows) \in Nat  BY DEF NewIndex, TypeOK
  <2>5. TypeOK'
    BY <2>2, <2>3, <2>4 DEF TypeOK
  <2>6. StreamingSound' /\ ThinkingSound'
    BY <2>2, <2>3 DEF PositionsSound, StreamingSound, ThinkingSound, Holds
  <2>7. ToolsSound'
    <3> SUFFICES ASSUME NEW other \in ToolIds, tools'[other] # 0
                 PROVE  Holds(tools[other], "tool")' /\ rows'[tools'[other]].id = other
      BY DEF ToolsSound
    <3>1. CASE other = id
      BY <2>1, <2>2, <2>3, <3>1 DEF TypeOK, Holds
    <3>2. CASE other # id
      <4>1. tools'[other] = tools[other]  BY <2>2, <3>2 DEF TypeOK
      <4> QED  BY <1>2, <2>3, <4>1 DEF Holds
    <3> QED  BY <3>1, <3>2
  <2>8. OneCardPerTool'
    <3> SUFFICES ASSUME NEW j \in DOMAIN rows', NEW other \in ToolIds,
                        rows'[j].kind = "tool", rows'[j].id = other
                 PROVE  tools'[other] = j \/ (j < tools'[other] /\ tools'[other] <= restored')
      BY DEF OneCardPerTool
    <3>1. CASE j = NewIndex
      BY <2>1, <2>2, <2>3, <3>1 DEF TypeOK
    <3>2. CASE j \in DOMAIN rows
      <4>1. tools[other] = j \/ (j < tools[other] /\ tools[other] <= restored)
        BY <2>3, <3>2 DEF OneCardPerTool
      <4>2. other # id  BY <2>2, <3>2, <4>1 DEF TypeOK
      <4> QED  BY <2>2, <2>3, <4>1, <4>2 DEF TypeOK
    <3> QED  BY <2>3, <3>1, <3>2
  <2> QED  BY <2>5, <2>6, <2>7, <2>8 DEF PositionsSound
<1>6. ASSUME NEW id \in ToolIds, ToolProgress(id)
      PROVE  IInv'
  <2>1. CASE Ignore  BY <2>1, Ignored
  <2>2. CASE ~Ignore
    <3>1. /\ UpdateRow(tools[id], rows[tools[id]]) /\ tools[id] \in DOMAIN rows
          /\ UNCHANGED <<streaming, thinking, tools>>
      BY <1>6, <2>2 DEF ToolProgress, Holds
    <3>2. rows[tools[id]] \in Rows  BY <3>1 DEF TypeOK
    <3> QED  BY <3>1, <3>2, PlainUpdate
  <2> QED  BY <2>1, <2>2
<1>7. ASSUME NEW id \in ToolIds, ToolComplete(id)
      PROVE  IInv'
  <2>1. CASE Ignore  BY <2>1, Ignored
  <2>2. CASE ~Ignore
    <3> DEFINE row == [rows[tools[id]] EXCEPT !.open = FALSE]
    <3>1. UpdateRow(tools[id], row) /\ tools[id] # 0 /\ UNCHANGED <<streaming, thinking, tools>>
      BY <1>7, <2>2 DEF ToolComplete
    <3>2. row \in Rows /\ row.kind = rows[tools[id]].kind /\ row.id = rows[tools[id]].id
      <4>1. rows[tools[id]] \in Rows  BY <1>2, <3>1
      <4> QED  BY <4>1 DEF Rows
    <3> HIDE DEF row
    <3> QED  BY <1>2, <3>1, <3>2, PlainUpdate
  <2> QED  BY <2>1, <2>2
<1> QED  BY <1>1, <1>3, <1>4, <1>5, <1>6, <1>7 DEF Tool, ToolStart

LEMMA OtherStep ==
  ASSUME IInv, Other
  PROVE  IInv'
<1>1. ASSUME NEW kind \in {"approval", "clarify"}, NEW id \in Requests \cup {None},
             AppendRow(Card(kind, id, None, TRUE)),
             UNCHANGED <<streaming, thinking, tools>>
      PROVE  IInv'
  <2> DEFINE row == Card(kind, id, None, TRUE)
  <2>1. row \in Rows /\ row.kind # "tool"  BY DEF Card, Rows, Kinds
  <2> HIDE DEF row
  <2> QED  BY <1>1, <2>1, PlainAppend DEF row
<1>2. ASSUME NEW kind \in {"user", "note"}, AppendRow(Row(kind, 0, FALSE)),
             UNCHANGED <<streaming, thinking, tools>>
      PROVE  IInv'
  <2> DEFINE row == Row(kind, 0, FALSE)
  <2>1. row \in Rows /\ row.kind # "tool"  BY DEF Row, Rows, Kinds
  <2> HIDE DEF row
  <2> QED  BY <1>2, <2>1, PlainAppend DEF row
<1>3. ASSUME NEW kind \in {"approval", "clarify"}, NEW id \in Requests, Resolve(kind, id)
      PROVE  IInv'
  <2>1. CASE Ignore  BY <2>1, Ignored
  <2>2. CASE ~Ignore
    <3>1. PICK i \in Unresolved(kind, id) :
            /\ UpdateRow(i, [rows[i] EXCEPT !.open = FALSE])
            /\ UNCHANGED <<streaming, thinking, tools>>
      BY <1>3, <2>2 DEF Resolve
    <3> DEFINE row == [rows[i] EXCEPT !.open = FALSE]
    <3>2. i \in DOMAIN rows /\ rows[i] \in Rows /\ rows[i].kind \in {"approval", "clarify"}
      BY DEF Unresolved, IInv, TypeOK
    <3>3. row \in Rows /\ row.kind = rows[i].kind /\ row.id = rows[i].id
      BY <3>2 DEF Rows
    <3>4. i # streaming
      BY <3>2 DEF IInv, PositionsSound, StreamingSound, Holds, TypeOK
    <3> HIDE DEF row
    <3>5. UpdateRow(i, row)  BY <3>1 DEF row
    <3> QED  BY <3>1, <3>2, <3>3, <3>4, <3>5, PlainUpdate
  <2> QED  BY <2>1, <2>2
<1>4. ASSUME NEW info \in SUBSET Fields, MergeHeader(info)
      PROVE  IInv'
  <2>1. CASE Ignore  BY <2>1, Ignored
  <2>2. CASE ~Ignore
    <3>1. /\ header' = header \cup info /\ changes' = <<Change("header", 0)>>
          /\ UNCHANGED <<rows, streaming, thinking, tools, restored>>
      BY <1>4, <2>2 DEF MergeHeader
    <3>2. Change("header", 0) \in Changes  BY DEF Change, Changes
    <3>3. changes' \in Seq(Changes)  BY <3>1, <3>2
    <3> QED  BY <3>1, <3>3 DEF IInv, TypeOK, PositionsSound, StreamingSound, ThinkingSound,
                               ToolsSound, OneCardPerTool, Holds
  <2> QED  BY <2>1, <2>2
<1>5. ASSUME NEW id \in Requests, ApprovalRequest(id)  PROVE IInv'
  BY <1>1, <1>5 DEF ApprovalRequest
<1>6. ASSUME NEW id \in Requests \cup {None}, ClarifyRequest(id)  PROVE IInv'
  BY <1>1, <1>6 DEF ClarifyRequest
<1>7. CASE Note  BY <1>2, <1>7 DEF Note
<1>8. CASE AppendUserRow  BY <1>2, <1>8 DEF AppendUserRow
<1> QED  BY <1>3, <1>4, <1>5, <1>6, <1>7, <1>8 DEF Other

\* A set of positions has a greatest.
LEMMA HasGreatest ==
  ASSUME NEW n \in Nat, NEW S, S \subseteq 1 .. n, S # {}
  PROVE  \E x \in S : \A y \in S : y <= x
<1> DEFINE T == {k \in Nat : n - k \in S}
<1>1. T \subseteq Nat /\ T # {}
  <2>1. PICK x \in S : TRUE  OBVIOUS
  <2>2. n - x \in T  BY <2>1
  <2> QED  BY <2>2
<1>2. IsWellFoundedOn(OpToRel(<, Nat), Nat)  BY NatLessThanWellFounded
<1> HIDE DEF T
<1>3. PICK k \in T : \A y \in T : ~(<<y, k>> \in OpToRel(<, Nat))
  BY <1>1, <1>2, WFMin, Zenon
<1>4. \A x1, y1 \in Nat : y1 < x1 => <<y1, x1>> \in OpToRel(<, Nat)  BY DEF OpToRel
<1>5. \A y \in T : ~(y < k)  BY <1>1, <1>3, <1>4
<1>6. k \in Nat /\ n - k \in S  BY DEF T
<1>7. \A y \in S : y <= n - k
  <2> TAKE y \in S
  <2>1. n - y \in T  BY DEF T
  <2>2. ~(n - y < k)  BY <1>5, <2>1
  <2> QED  BY <1>6, <2>2
<1> QED  BY <1>6, <1>7

\* The map's entry for an id in a history is the last card that bears it.
LEMMA LastCard ==
  ASSUME NEW n \in Nat, NEW history, DOMAIN history = 1 .. n, NEW id
  PROVE  /\ CardIn(history, id) \in 0 .. n
         /\ CardIn(history, id) # 0 =>
              CardIn(history, id) \in DOMAIN history /\ history[CardIn(history, id)].id = id
         /\ \A i \in DOMAIN history : history[i].id = id => i <= CardIn(history, id)
<1> DEFINE S == {i \in DOMAIN history : history[i].id = id}
<1>1. CASE S = {}  BY <1>1 DEF CardIn
<1>2. CASE S # {}
  <2>1. \E x \in S : \A y \in S : y <= x  BY <1>2, HasGreatest
  <2>2. \E i \in DOMAIN history :
          history[i].id = id /\ \A j \in DOMAIN history : history[j].id = id => j <= i
    BY <2>1
  <2>3. /\ CardIn(history, id) \in DOMAIN history /\ history[CardIn(history, id)].id = id
        /\ \A j \in DOMAIN history : history[j].id = id => j <= CardIn(history, id)
    BY <1>2, <2>2 DEF CardIn
  <2> QED  BY <2>3
<1> QED  BY <1>1, <1>2

\* A rebuilt transcript starts over: the rows are those of the history
\* and the map is read off them.
LEMMA IngestStep ==
  ASSUME IInv, NEW history \in Histories, IngestResumeMessages(history)
  PROVE  IInv'
<1>1. HistoryRows \subseteq Rows
  <2>1. Row("user", 0, FALSE) \in Rows /\ Row("assistant", 1, FALSE) \in Rows
    BY DEF Row, Rows, Kinds
  <2>2. \A call \in (ToolIds \cup {None}) \X Names : Card("tool", call[1], call[2], FALSE) \in Rows
    BY DEF Card, Rows, Kinds
  <2> QED  BY <2>1, <2>2 DEF HistoryRows
<1>2. \A row \in HistoryRows : row.kind = "tool" \/ row.id = None
  BY DEF HistoryRows, Row, Card
<1>3. PICK n \in 0 .. MaxHistory : history \in [1 .. n -> HistoryRows]
  BY DEF Histories
<1>4. history \in Seq(Rows) /\ Len(history) = n /\ n \in Nat
  BY <1>1, <1>3, ReducerAssumption
<1>5. IngestChanges(n) \in Seq(Changes)
  <2>1. IngestChanges(n) \in [1 .. n + 1 -> Changes]
    BY <1>4 DEF IngestChanges, Change, Changes
  <2> QED  BY <1>4, <2>1
<1>6. \A id \in ToolIds :
        /\ CardIn(history, id) \in 0 .. n
        /\ CardIn(history, id) # 0 =>
             CardIn(history, id) \in DOMAIN history /\ history[CardIn(history, id)].id = id
        /\ \A i \in DOMAIN history : history[i].id = id => i <= CardIn(history, id)
  BY <1>3, <1>4, LastCard
<1>7. /\ rows' = history /\ restored' = n /\ changes' = IngestChanges(n) /\ header' = {}
      /\ streaming' = 0 /\ thinking' = 0
      /\ tools' = [id \in ToolIds |-> CardIn(history, id)]
  BY <1>4 DEF IngestResumeMessages
<1> HIDE DEF CardIn, IngestChanges
<1>8. TypeOK'  BY <1>4, <1>5, <1>6, <1>7 DEF TypeOK
<1>9. StreamingSound' /\ ThinkingSound'  BY <1>7 DEF StreamingSound, ThinkingSound
<1>10. ToolsSound'
  <2> SUFFICES ASSUME NEW id \in ToolIds, CardIn(history, id) # 0
               PROVE  /\ CardIn(history, id) \in DOMAIN history
                      /\ history[CardIn(history, id)].kind = "tool"
                      /\ history[CardIn(history, id)].id = id
    BY <1>7 DEF ToolsSound, Holds
  <2>1. CardIn(history, id) \in DOMAIN history /\ history[CardIn(history, id)].id = id
    BY <1>4, <1>6
  <2>2. history[CardIn(history, id)] \in HistoryRows /\ id # None
    BY <1>3, <2>1, ReducerAssumption
  <2> QED  BY <1>2, <2>1, <2>2
<1>11. OneCardPerTool'  BY <1>4, <1>6, <1>7 DEF OneCardPerTool
<1> QED  BY <1>8, <1>9, <1>10, <1>11 DEF IInv, PositionsSound

-----------------------------------------------------------------------------
(* What is sealed stays                                                     *)

\* The body of SealedTextStays.
Stays ==
  ~Rebuilt =>
    \A i \in DOMAIN rows :
      rows[i].kind = "assistant" /\ ~rows[i].open => i \in DOMAIN rows' /\ rows'[i] = rows[i]

LEMMA AppendStays ==
  ASSUME IInv, NEW row, AppendRow(row)
  PROVE  Stays
<1>1. rows \in Seq(Rows) /\ rows' = Append(rows, row)  BY DEF AppendRow, IInv, TypeOK
<1>2. \A i \in DOMAIN rows : i \in DOMAIN rows' /\ rows'[i] = rows[i]
  <2> TAKE i \in DOMAIN rows
  <2>1. i \in 1 .. Len(rows) /\ Len(rows) \in Nat  BY <1>1
  <2>2. \A seq \in Seq(Rows) : seq = rows => DOMAIN Append(seq, row) = 1 .. Len(seq) + 1
    OBVIOUS
  <2> QED  BY <1>1, <2>1, <2>2
<1> QED  BY <1>2 DEF Stays

\* An update of the open streaming row or of a row that is not an assistant's.
LEMMA UpdateStays ==
  ASSUME IInv, NEW i \in DOMAIN rows, NEW row, UpdateRow(i, row),
         rows[i].kind # "assistant" \/ rows[i].open
  PROVE  Stays
BY DEF Stays, UpdateRow

LEMMA UnchangedStays ==
  ASSUME UNCHANGED rows
  PROVE  Stays
BY DEF Stays

LEMMA NextStays ==
  ASSUME IInv, Next
  PROVE  Stays
<1>1. streaming # 0 => streaming \in DOMAIN rows /\ rows[streaming].open
  BY DEF IInv, PositionsSound, StreamingSound, Holds
<1>2. \A id \in ToolIds : tools[id] # 0 => tools[id] \in DOMAIN rows /\ rows[tools[id]].kind = "tool"
  BY DEF IInv, PositionsSound, ToolsSound, Holds
<1>3. Ignore => Stays  BY UnchangedStays DEF Ignore
<1>4. CASE Message
  <2>1. MessageStart => Stays  BY AppendStays DEF MessageStart
  <2>2. MessageDelta => Stays
    <3>1. Holds(streaming, "assistant") => streaming \in DOMAIN rows /\ streaming # 0
      BY DEF Holds, IInv, TypeOK
    <3> QED  BY <1>1, <3>1, AppendStays, UpdateStays DEF MessageDelta
  <2>3. \A b \in BOOLEAN, t \in Texts : MessageInterim(b, t) => Stays
    BY <1>1, <1>3, UpdateStays DEF MessageInterim
  <2>4. \A t \in Texts : MessageComplete(t) => Stays
    BY <1>1, <1>3, UpdateStays DEF MessageComplete
  <2>5. \A p \in 0 .. 1 : ThinkingDelta(p) => Stays
    BY AppendStays, UpdateStays DEF ThinkingDelta, Holds
  <2> QED  BY <1>4, <2>1, <2>2, <2>3, <2>4, <2>5 DEF Message
<1>5. CASE Tool
  <2>1. \A name \in Names : ToolGenerating(name) => Stays  BY AppendStays DEF ToolGenerating
  <2>2. \A id \in ToolIds, name \in Names : ToolRestart(id, name) => Stays
    BY <1>2, UpdateStays DEF ToolRestart
  <2>3. \A id \in ToolIds, name \in Names : ToolPair(id, name) => Stays
    BY UpdateStays DEF ToolPair, Unpaired
  <2>4. \A id \in ToolIds, name \in Names : ToolAppend(id, name) => Stays
    BY AppendStays DEF ToolAppend
  <2>5. \A id \in ToolIds : ToolProgress(id) => Stays
    BY <1>3, UpdateStays DEF ToolProgress, Holds
  <2>6. \A id \in ToolIds : ToolComplete(id) => Stays
    BY <1>2, <1>3, UpdateStays DEF ToolComplete
  <2> QED  BY <1>5, <2>1, <2>2, <2>3, <2>4, <2>5, <2>6 DEF Tool, ToolStart
<1>6. CASE Other
  <2>1. \A id \in Requests : ApprovalRequest(id) => Stays  BY AppendStays DEF ApprovalRequest
  <2>2. \A id \in Requests \cup {None} : ClarifyRequest(id) => Stays
    BY AppendStays DEF ClarifyRequest
  <2>3. \A kind \in {"approval", "clarify"}, id \in Requests : Resolve(kind, id) => Stays
    BY <1>3, UpdateStays DEF Resolve, Unresolved
  <2>4. (Note \/ AppendUserRow) => Stays  BY AppendStays DEF Note, AppendUserRow
  <2>5. \A info \in SUBSET Fields : MergeHeader(info) => Stays
    BY <1>3, UnchangedStays DEF MergeHeader
  <2> QED  BY <1>6, <2>1, <2>2, <2>3, <2>4, <2>5 DEF Other
<1>7. CASE Ingest
  <2>1. PICK history \in Histories : IngestResumeMessages(history)  BY <1>7 DEF Ingest
  <2>2. PICK n \in 0 .. MaxHistory : history \in [1 .. n -> HistoryRows]
    BY DEF Histories
  <2>3. n \in Nat /\ Len(history) = n  BY <2>2, ReducerAssumption
  <2>4. changes' = IngestChanges(n)  BY <2>1, <2>3 DEF IngestResumeMessages
  <2>5. changes'[1].type = "reset" /\ changes' # <<>>
    BY <2>3, <2>4 DEF IngestChanges, Change
  <2> QED  BY <2>5 DEF Stays, Rebuilt
<1> QED  BY <1>4, <1>5, <1>6, <1>7 DEF Next

-----------------------------------------------------------------------------
(* The theorems                                                             *)

LEMMA Initially == Init => IInv
<1> SUFFICES ASSUME Init PROVE IInv  OBVIOUS
<1>1. rows = <<>> /\ DOMAIN rows = {} /\ Len(rows) = 0  BY DEF Init
<1> QED  BY <1>1 DEF Init, IInv, TypeOK, PositionsSound, StreamingSound, ThinkingSound,
                     ToolsSound, OneCardPerTool

LEMMA Inductive == IInv /\ [Next]_vars => IInv'
<1> SUFFICES ASSUME IInv, [Next]_vars PROVE IInv'  OBVIOUS
<1>1. CASE Message  BY <1>1, MessageStep
<1>2. CASE Tool  BY <1>2, ToolStep
<1>3. CASE Other  BY <1>3, OtherStep
<1>4. CASE Ingest  BY <1>4, IngestStep DEF Ingest
<1>5. CASE UNCHANGED vars
  BY <1>5 DEF vars, IInv, TypeOK, PositionsSound, StreamingSound, ThinkingSound, ToolsSound,
              OneCardPerTool, Holds
<1> QED  BY <1>1, <1>2, <1>3, <1>4, <1>5 DEF Next

\* Every transcript is well typed and every position lies within it.
THEOREM TranscriptTyped == Spec => []TypeOK
<1>1. IInv => TypeOK  BY DEF IInv
<1> QED  BY <1>1, Initially, Inductive, PTL DEF Spec

\* The reducer's unchecked indexing: streaming, thinking and the tool map
\* address rows of their own kind, for every event order.
THEOREM PositionsAlwaysSound == Spec => []PositionsSound
<1>1. IInv => PositionsSound  BY DEF IInv
<1> QED  BY <1>1, Initially, Inductive, PTL DEF Spec

\* No order of events and resumes shows a tool on two cards, but for a history
\* that itself repeats an id, whose last card is then the one in use.
THEOREM ToolsHaveOneCard == Spec => []OneCardPerTool
<1>1. IInv => OneCardPerTool  BY DEF IInv
<1> QED  BY <1>1, Initially, Inductive, PTL DEF Spec

\* on_message_interim and on_message_complete give the row away for good:
\* no later event but a rebuild writes to it.
THEOREM SealedForGood == Spec => SealedTextStays
<1>1. IInv /\ [Next]_vars => [Stays]_vars  BY NextStays
<1>2. [][Stays]_vars => SealedTextStays  BY PTL DEF Stays, SealedTextStays
<1> QED  BY <1>1, <1>2, Initially, Inductive, PTL DEF Spec

=============================================================================
