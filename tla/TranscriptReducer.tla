-------------------------- MODULE TranscriptReducer --------------------------
(***************************************************************************)
(* The per-session transcript (hermes_core/src/transcript/reducer.rs): a   *)
(* row list, three kinds of position kept into it, and the change stream   *)
(* the app draws from.  One action per event handler; the caller holds the *)
(* core's lock, so a handler is one step.                                  *)
(*                                                                         *)
(* Rows are numbered from 1 and position 0 is the code's None.  `text` is  *)
(* how many pieces of text a row was built from; `open` is `streaming` of  *)
(* an assistant row, the opposite of `complete` of a tool card and of      *)
(* `resolved` of an approval or clarify card.                              *)
(***************************************************************************)
EXTENDS Naturals, Sequences, FiniteSets, SequencesExt

CONSTANTS
  ToolIds,     \* tool_id values of the wire
  Names,       \* tool names
  Requests,    \* request_id values of approvals and clarifications
  Fields,      \* header fields
  None,        \* the empty id or name
  MaxRows,     \* bound on the rows
  MaxText,     \* bound on the pieces of a row
  MaxHistory   \* bound on the messages a resume returns

ASSUME ReducerAssumption ==
  /\ None \notin ToolIds \cup Names \cup Requests
  /\ MaxRows \in Nat /\ MaxText \in Nat /\ MaxHistory \in Nat

VARIABLES
  rows,       \* Transcript.rows
  header,     \* the header fields that have a value
  streaming,  \* the assistant row being streamed
  thinking,   \* the thinking row being streamed
  tools,      \* tool_id -> its card
  changes,    \* what the last call returned
  restored    \* history: how many rows the last resume brought

vars == <<rows, header, streaming, thinking, tools, changes, restored>>

Kinds == {"user", "assistant", "thinking", "tool", "approval", "clarify", "note"}

Rows == [kind : Kinds, text : Nat, id : ToolIds \cup Requests \cup {None},
         name : Names \cup {None}, open : BOOLEAN]

Changes == [type : {"appended", "updated", "reset", "header"}, index : Nat]

TypeOK ==
  /\ rows \in Seq(Rows)
  /\ header \subseteq Fields
  /\ streaming \in 0 .. Len(rows) /\ thinking \in 0 .. Len(rows)
  /\ tools \in [ToolIds -> 0 .. Len(rows)]
  /\ changes \in Seq(Changes)
  /\ restored \in 0 .. Len(rows)

Init ==
  /\ rows = <<>> /\ header = {}
  /\ streaming = 0 /\ thinking = 0
  /\ tools = [id \in ToolIds |-> 0]
  /\ changes = <<>> /\ restored = 0

-----------------------------------------------------------------------------
(* Building rows and changes                                                *)

Row(kind, text, open) ==
  [kind |-> kind, text |-> text, id |-> None, name |-> None, open |-> open]

Card(kind, id, name, open) ==
  [kind |-> kind, text |-> 0, id |-> id, name |-> name, open |-> open]

Change(type, i) == [type |-> type, index |-> i]

NewIndex == Len(rows) + 1

AppendRow(row) ==
  /\ NewIndex <= MaxRows
  /\ rows' = Append(rows, row)
  /\ changes' = <<Change("appended", NewIndex)>>
  /\ UNCHANGED <<header, restored>>

UpdateRow(i, row) ==
  /\ rows' = [rows EXCEPT ![i] = row]
  /\ changes' = <<Change("updated", i)>>
  /\ UNCHANGED <<header, restored>>

Ignore ==
  /\ changes' = <<>>
  /\ UNCHANGED <<rows, header, streaming, thinking, tools, restored>>

\* The row at i, if it is of this kind.
Holds(i, kind) == i \in DOMAIN rows /\ rows[i].kind = kind

-----------------------------------------------------------------------------
(* The assistant row                                                        *)

\* Mutation: the latch is set one row short.
MessageStartOffByOne ==
  /\ AppendRow(Row("assistant", 0, TRUE))
  /\ streaming' = Len(rows)
  /\ thinking' = 0
  /\ UNCHANGED tools

MessageStart ==
  /\ AppendRow(Row("assistant", 0, TRUE))
  /\ streaming' = NewIndex
  /\ thinking' = 0
  /\ UNCHANGED tools

\* Text without a message.start opens a row of its own.
MessageDelta ==
  \/ /\ Holds(streaming, "assistant")
     /\ rows[streaming].text < MaxText
     /\ UpdateRow(streaming, [rows[streaming] EXCEPT !.text = @ + 1])
     /\ UNCHANGED <<streaming, thinking, tools>>
  \/ /\ ~Holds(streaming, "assistant")
     /\ AppendRow(Row("assistant", 1, TRUE))
     /\ streaming' = NewIndex
     /\ UNCHANGED <<thinking, tools>>

\* Mutation: the latch is read, not taken.
MessageInterimKeepingLatch(already_streamed, text) ==
  /\ streaming # 0
  /\ UpdateRow(streaming, [rows[streaming] EXCEPT
                             !.open = FALSE,
                             !.text = IF already_streamed THEN @ ELSE text])
  /\ UNCHANGED <<streaming, thinking, tools>>

\* The row is sealed; later text opens a fresh one.
MessageInterim(already_streamed, text) ==
  \/ streaming = 0 /\ Ignore
  \/ /\ streaming # 0
     /\ UpdateRow(streaming, [rows[streaming] EXCEPT
                                !.open = FALSE,
                                !.text = IF already_streamed THEN @ ELSE text])
     /\ streaming' = 0
     /\ UNCHANGED <<thinking, tools>>

MessageComplete(text) ==
  \/ streaming = 0 /\ Ignore
  \/ /\ streaming # 0
     /\ UpdateRow(streaming, [rows[streaming] EXCEPT !.text = text, !.open = FALSE])
     /\ streaming' = 0
     /\ UNCHANGED <<thinking, tools>>

\* An empty thinking delta opens a row too.
ThinkingDelta(pieces) ==
  \/ /\ Holds(thinking, "thinking")
     /\ rows[thinking].text + pieces <= MaxText
     /\ UpdateRow(thinking, [rows[thinking] EXCEPT !.text = @ + pieces])
     /\ UNCHANGED <<streaming, thinking, tools>>
  \/ /\ ~Holds(thinking, "thinking")
     /\ AppendRow(Row("thinking", pieces, FALSE))
     /\ thinking' = NewIndex
     /\ UNCHANGED <<streaming, tools>>

-----------------------------------------------------------------------------
(* Tool cards                                                               *)

ToolGenerating(name) ==
  /\ AppendRow(Card("tool", None, name, TRUE))
  /\ UNCHANGED <<streaming, thinking, tools>>

\* What pending_generating_row may return: cards of the name without an id.
Unpaired(name) ==
  {i \in DOMAIN rows : rows[i].kind = "tool" /\ rows[i].id = None /\ rows[i].name = name}

\* tool.start of a known id updates its card and opens it again.
ToolRestart(id, name) ==
  /\ tools[id] # 0
  /\ UpdateRow(tools[id], [rows[tools[id]] EXCEPT !.name = name, !.open = TRUE])
  /\ UNCHANGED <<streaming, thinking, tools>>

\* Mutation: the paired card is not entered in the map.
ToolPairUnrecorded(id, name) ==
  /\ tools[id] = 0
  /\ \E i \in Unpaired(name) :
       /\ \A j \in Unpaired(name) : j <= i
       /\ UpdateRow(i, [rows[i] EXCEPT !.id = id])
       /\ UNCHANGED <<streaming, thinking, tools>>

\* tool.start of a new id takes the last unpaired card of its name.
ToolPair(id, name) ==
  /\ tools[id] = 0
  /\ \E i \in Unpaired(name) :
       /\ \A j \in Unpaired(name) : j <= i
       /\ UpdateRow(i, [rows[i] EXCEPT !.id = id])
       /\ tools' = [tools EXCEPT ![id] = i]
       /\ UNCHANGED <<streaming, thinking>>

ToolAppend(id, name) ==
  /\ tools[id] = 0
  /\ Unpaired(name) = {}
  /\ AppendRow(Card("tool", id, name, TRUE))
  /\ tools' = [tools EXCEPT ![id] = NewIndex]
  /\ UNCHANGED <<streaming, thinking>>

ToolStart(id, name) == ToolRestart(id, name) \/ ToolPair(id, name) \/ ToolAppend(id, name)

\* Only the subtitle changes, which rows do not carry here.
ToolProgress(id) ==
  \/ ~Holds(tools[id], "tool") /\ Ignore
  \/ /\ Holds(tools[id], "tool")
     /\ UpdateRow(tools[id], rows[tools[id]])
     /\ UNCHANGED <<streaming, thinking, tools>>

ToolComplete(id) ==
  \/ tools[id] = 0 /\ Ignore
  \/ /\ tools[id] # 0
     /\ UpdateRow(tools[id], [rows[tools[id]] EXCEPT !.open = FALSE])
     /\ UNCHANGED <<streaming, thinking, tools>>

-----------------------------------------------------------------------------
(* Cards to answer, notes, the header                                       *)

ApprovalRequest(id) ==
  /\ AppendRow(Card("approval", id, None, TRUE))
  /\ UNCHANGED <<streaming, thinking, tools>>

\* A clarification may come without an id.
ClarifyRequest(id) ==
  /\ AppendRow(Card("clarify", id, None, TRUE))
  /\ UNCHANGED <<streaming, thinking, tools>>

\* The cards `find` may return.
Unresolved(kind, id) ==
  {i \in DOMAIN rows : rows[i].kind = kind /\ rows[i].id = id /\ rows[i].open}

\* resolve_approval, resolve_clarify: the first such card.
Resolve(kind, id) ==
  \/ Unresolved(kind, id) = {} /\ Ignore
  \/ \E i \in Unresolved(kind, id) :
       /\ \A j \in Unresolved(kind, id) : i <= j
       /\ UpdateRow(i, [rows[i] EXCEPT !.open = FALSE])
       /\ UNCHANGED <<streaming, thinking, tools>>

\* status.update (except heartbeat) and error.
Note ==
  /\ AppendRow(Row("note", 0, FALSE))
  /\ UNCHANGED <<streaming, thinking, tools>>

AppendUserRow ==
  /\ AppendRow(Row("user", 0, FALSE))
  /\ UNCHANGED <<streaming, thinking, tools>>

\* merge_header: an empty field never blanks a known one.
MergeHeader(info) ==
  \/ info = {} /\ Ignore
  \/ /\ info # {}
     /\ header' = header \cup info
     /\ changes' = <<Change("header", 0)>>
     /\ UNCHANGED <<rows, streaming, thinking, tools, restored>>

-----------------------------------------------------------------------------
(* History                                                                  *)

\* The rows ingest_resume_messages builds; a tool message need not carry an id.
HistoryRows ==
  {Row("user", 0, FALSE), Row("assistant", 1, FALSE)}
    \cup {Card("tool", call[1], call[2], FALSE) : call \in (ToolIds \cup {None}) \X Names}

\* A stored conversation may name a tool call twice.
Histories == UNION {[1 .. n -> HistoryRows] : n \in 0 .. MaxHistory}

\* The card of an id in a history, the last of several; 0 if there is none.
CardIn(history, id) ==
  IF \E i \in DOMAIN history : history[i].id = id
  THEN CHOOSE i \in DOMAIN history :
         history[i].id = id /\ \A j \in DOMAIN history : history[j].id = id => j <= i
  ELSE 0

IngestChanges(n) ==
  [k \in 1 .. n + 1 |-> IF k = 1 THEN Change("reset", 0) ELSE Change("appended", k - 1)]

\* Mutation: the positions of the old transcript survive.
IngestResumeMessagesKeepingLatch(history) ==
  /\ rows' = history /\ restored' = Len(history)
  /\ changes' = IngestChanges(Len(history))
  /\ header' = {}
  /\ tools' = [id \in ToolIds |-> CardIn(history, id)]
  /\ UNCHANGED <<streaming, thinking>>

\* ingest_resume_messages; with no message it is reset_from_resume.
IngestResumeMessages(history) ==
  /\ rows' = history /\ restored' = Len(history)
  /\ changes' = IngestChanges(Len(history))
  /\ header' = {}
  /\ streaming' = 0 /\ thinking' = 0
  /\ tools' = [id \in ToolIds |-> CardIn(history, id)]

-----------------------------------------------------------------------------

Texts == 0 .. MaxText

Message ==
  \/ MessageStart \/ MessageDelta
  \/ \E b \in BOOLEAN, t \in Texts : MessageInterim(b, t)
  \/ \E t \in Texts : MessageComplete(t)
  \/ \E p \in 0 .. 1 : ThinkingDelta(p)

Tool ==
  \/ \E name \in Names : ToolGenerating(name)
  \/ \E id \in ToolIds, name \in Names : ToolStart(id, name)
  \/ \E id \in ToolIds : ToolProgress(id)
  \/ \E id \in ToolIds : ToolComplete(id)

Other ==
  \/ \E id \in Requests : ApprovalRequest(id)
  \/ \E id \in Requests \cup {None} : ClarifyRequest(id)
  \/ \E kind \in {"approval", "clarify"}, id \in Requests : Resolve(kind, id)
  \/ Note \/ AppendUserRow
  \/ \E info \in SUBSET Fields : MergeHeader(info)

Ingest == \E history \in Histories : IngestResumeMessages(history)

Next == Message \/ Tool \/ Other \/ Ingest

Spec == Init /\ [][Next]_vars

-----------------------------------------------------------------------------
(* Properties                                                               *)

\* A position the reducer keeps is one of a row of the right kind, whatever
\* the order of events, re-pairing and resumes: the code indexes with it
\* unchecked and writes what it finds there.
StreamingSound == streaming # 0 => Holds(streaming, "assistant") /\ rows[streaming].open

ThinkingSound == thinking # 0 => Holds(thinking, "thinking")

ToolsSound ==
  \A id \in ToolIds :
    tools[id] # 0 => Holds(tools[id], "tool") /\ rows[tools[id]].id = id

PositionsSound == StreamingSound /\ ThinkingSound /\ ToolsSound

\* on_tool_start: "exactly ONE card per tool", whether it was generated,
\* started twice, or came with the history, and the map knows it.  Only a
\* history that repeats an id shows it twice, and then its last card is the one
\* that events go on writing to.
OneCardPerTool ==
  \A i \in DOMAIN rows, id \in ToolIds :
    rows[i].kind = "tool" /\ rows[i].id = id =>
      \/ tools[id] = i
      \/ i < tools[id] /\ tools[id] <= restored

Rebuilt == changes' # <<>> /\ changes'[1].type = "reset"

\* What was sealed by interim or complete is never written again, except by
\* a rebuild: text that arrives late opens a row of its own.
SealedTextStays ==
  [][~Rebuilt =>
       \A i \in DOMAIN rows :
         rows[i].kind = "assistant" /\ ~rows[i].open =>
           i \in DOMAIN rows' /\ rows'[i] = rows[i]]_vars

=============================================================================
