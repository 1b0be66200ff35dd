--------------------------- MODULE HistoryFormat ---------------------------
(***************************************************************************)
(* The three readers of a checkpoint's message list: the history of a chat *)
(* (chat_history_formatter), the history of a schema project               *)
(* (_format_schema_history) and the turns that are indexed for search      *)
(* (extract_turns).  Each is a loop with an accumulator; what they should  *)
(* return is stated below without one.                                     *)
(*                                                                         *)
(* A message stands for its type and what is in it; its content is its     *)
(* position in the list, or blank.  Content is a string, as the providers  *)
(* of the agents return it.                                                *)
(***************************************************************************)
EXTENDS Naturals, Sequences, SequencesExt

CONSTANTS
    HistMessage, \* the messages that a list may contain
    MaxHistory,  \* bound: length of a list
    KeepRecent   \* messages that compaction wants to keep (8 in the code)

VARIABLE history \* the messages of a thread

\* Only a message of the LLM carries usage_metadata.
Message == {m \in [type : {"human", "ai", "tool", "system"}, text : BOOLEAN, reasoning : BOOLEAN,
                   calls : Nat, usage : BOOLEAN] : m.usage => m.type = "ai"}
ASSUME HistoryAssumption == HistMessage \subseteq Message /\ {MaxHistory, KeepRecent} \subseteq Nat

Part(kind, i) == [kind |-> kind, from |-> i]
Closed == [parts |-> <<>>]
If(condition, seq) == IF condition THEN seq ELSE <<>>

-----------------------------------------------------------------------------
\* _ai_parts: reasoning, tool calls, text that is not blank, in this order.
AiParts(m, i) ==
    If(m.reasoning, <<Part("reasoning", i)>>)
    \o [c \in 1..m.calls |-> Part("tool-call", i)]
    \o If(m.text, <<Part("text", i)>>)

UserMessage(i) == [role |-> "user", parts |-> <<Part("text", i)>>, usage |-> 0]
NewAssistant == [role |-> "assistant", parts |-> <<>>, usage |-> 0]

(* Mutant: the assistant message is not reset. *)
CloseAssistantKeep(acc) == [acc EXCEPT !.done = @ \o If(acc.open.parts # <<>>, <<acc.open>>)]

\* format_chat_history: messages so far and the assistant message in progress.
CloseAssistant(acc) == [done |-> acc.done \o If(acc.open.parts # <<>>, <<acc.open>>), open |-> Closed]
Opened(acc) == IF acc.open = Closed THEN NewAssistant ELSE acc.open

ReadChat(raw, acc, i) ==
    CASE raw[i].type = "human" ->
            [CloseAssistant(acc) EXCEPT !.done = Append(@, UserMessage(i))]
      [] raw[i].type = "ai" ->
            [acc EXCEPT !.open = [Opened(acc) EXCEPT !.parts = @ \o AiParts(raw[i], i),
                                                     !.usage = IF raw[i].usage THEN i ELSE @]]
      [] raw[i].type = "tool" ->
            [acc EXCEPT !.open = [Opened(acc) EXCEPT !.parts = Append(@, Part("tool-result", i))]]
      [] raw[i].type = "system" -> acc

NoChat == [done |-> <<>>, open |-> Closed]
FormatChatHistory(raw) ==
    LET Read(acc, i) == ReadChat(raw, acc, i) IN CloseAssistant(FoldLeftDomain(Read, NoChat, raw)).done

\* _format_schema_history: the texts of the assistant until the next human message.
FlushAssistant(acc) == [turns |-> acc.turns \o If(acc.pending # <<>>, <<<<"assistant", acc.pending>>>>),
                        pending |-> <<>>]

ReadSchema(raw, acc, i) ==
    CASE raw[i].type = "human" ->
            [FlushAssistant(acc) EXCEPT !.turns = Append(@, <<"user", <<i>>>>)]
      [] raw[i].type = "ai" /\ raw[i].text -> [acc EXCEPT !.pending = Append(@, i)]
      [] OTHER -> acc

NoTurns == [turns |-> <<>>, pending |-> <<>>]
FormatSchemaHistory(raw) ==
    LET Read(acc, i) == ReadSchema(raw, acc, i) IN FlushAssistant(FoldLeftDomain(Read, NoTurns, raw)).turns

(* Mutant: tool output is indexed as well. *)
ReadTurnAll(raw, acc, i) ==
    IF raw[i].text THEN Append(acc, <<IF raw[i].type = "human" THEN "user" ELSE "assistant", i>>) ELSE acc

\* extract_turns: what is worth indexing.
ReadTurn(raw, acc, i) ==
    IF raw[i].type \in {"human", "ai"} /\ raw[i].text
    THEN Append(acc, <<IF raw[i].type = "human" THEN "user" ELSE "assistant", i>>)
    ELSE acc

ExtractTurns(raw) ==
    LET Read(acc, i) == ReadTurn(raw, acc, i) IN FoldLeftDomain(Read, <<>>, raw)

(* Mutant: the list is cut where it is longer than wanted, in a turn or not. *)
CutIndexAnywhere(raw, minRecent) ==
    IF Len(raw) > minRecent THEN Len(raw) - minRecent ELSE 0

\* _safe_cut_index: how many messages may go, up to the first human one of
\* those to keep; none when there is no such message.
CutIndex(raw, minRecent) ==
    LET target == IF Len(raw) > minRecent THEN Len(raw) - minRecent ELSE 0
        human == {i \in DOMAIN raw : i > target /\ raw[i].type = "human"}
    IN IF human = {} THEN 0 ELSE Min(human) - 1

\* summarize_conversation of the schema agent (that of the SQL agent is the same
\* and a step of SqlChat), when the list is over its budget of tokens and the
\* summarizer answers: what is left of the list.  The older messages are
\* removed by id; add_messages has given each one.
SummarizeConversation(raw) == SubSeq(raw, CutIndex(raw, KeepRecent) + 1, Len(raw))

\* ChatHistoryView, SchemaProjectDetailView, reindex_thread: any list may be read.
HistInit == history \in UNION {[1..n -> HistMessage] : n \in 0..MaxHistory}

-----------------------------------------------------------------------------
\* The last of the positions a..b that has usage; 0 is none.
LastUsage(raw, a, b) ==
    LET used == {i \in a..b : raw[i].usage} IN IF used = {} THEN 0 ELSE Max(used)

\* What the page of a chat owes a message.
Shown(m, i) == CASE m.type = "human"  -> <<Part("text", i)>>
                 [] m.type = "ai"     -> AiParts(m, i)
                 [] m.type = "tool"   -> <<Part("tool-result", i)>>
                 [] m.type = "system" -> <<>>

\* "Each ASSISTANT turn = a contiguous run of AIMessage(s) + ToolMessage(s)
\* between two user turns" (chat_history_formatter): every part of every
\* message is shown once and in order, a user message holds one human message,
\* an assistant message is never empty and never next to another, and carries
\* the usage of the last AI message before the next human one that has any.
HistoryIsFaithful ==
    LET out == FormatChatHistory(history)
        At(k) == out[k].parts[1].from
        End(k) == IF k = Len(out) THEN Len(history) ELSE At(k + 1) - 1
        Start(k) == IF k = 1 THEN 1 ELSE At(k - 1) + 1
    IN
    /\ FlattenSeq([k \in DOMAIN out |-> out[k].parts]) =
         FlattenSeq([i \in DOMAIN history |-> Shown(history[i], i)])
    /\ \A k \in DOMAIN out :
        IF out[k].role = "user" THEN history[At(k)].type = "human" /\ Len(out[k].parts) = 1
        ELSE /\ out[k].parts # <<>>
             /\ k > 1 => out[k - 1].role = "user"
             /\ out[k].usage = LastUsage(history, Start(k), End(k))

\* The texts among parts, and among positions, in order.
PartTexts(raw, parts) ==
    FlattenSeq([j \in DOMAIN parts |-> If(parts[j].kind = "text" /\ raw[parts[j].from].text, <<parts[j].from>>)])
Texts(raw, seq) == FlattenSeq([j \in DOMAIN seq |-> If(raw[seq[j]].text, <<seq[j]>>)])

\* The three readers agree: what the search index holds of a thread are the
\* texts that its page shows, in both kinds of page and in the same order
\* (an empty question is shown and not indexed).
ViewsAgree ==
    LET indexed == [k \in DOMAIN ExtractTurns(history) |-> ExtractTurns(history)[k][2]]
        schema == FormatSchemaHistory(history)
        chat == FormatChatHistory(history)
    IN /\ indexed = FlattenSeq([k \in DOMAIN chat |-> PartTexts(history, chat[k].parts)])
       /\ indexed = FlattenSeq([k \in DOMAIN schema |-> Texts(history, schema[k][2])])
       /\ \A k \in DOMAIN schema : schema[k][1] = "assistant" =>
            (k > 1 => schema[k - 1][1] = "user") /\ schema[k][2] # <<>>

\* What the pages say of a list that was cut, with the positions of the whole one.
Back(i, cut) == IF i = 0 THEN 0 ELSE i + cut
PartsBack(parts, cut) == [k \in DOMAIN parts |-> Part(parts[k].kind, parts[k].from + cut)]
ChatBack(msg, cut) ==
    [role |-> msg.role, parts |-> PartsBack(msg.parts, cut), usage |-> Back(msg.usage, cut)]
ChatsBack(chat, cut) == [k \in DOMAIN chat |-> ChatBack(chat[k], cut)]
Later(positions, cut) == [k \in DOMAIN positions |-> positions[k] + cut]
SchemaBack(turn, cut) == <<turn[1], Later(turn[2], cut)>>
TurnsBack(turns, cut) == [k \in DOMAIN turns |-> SchemaBack(turns[k], cut)]

\* "always a HumanMessage (turn) boundary, so a tool call is never split from
\* its result" (_safe_cut_index), seen from the pages: after a compaction both
\* show the last of what they showed, from a question on, with no assistant
\* message torn, and the question that the turn is about is still there.
CompactionCutsTurns ==
    LET cut == CutIndex(history, KeepRecent)
        rest == SummarizeConversation(history)
        chat == FormatChatHistory(rest)
        schema == FormatSchemaHistory(rest)
    IN
    /\ IsSuffix(ChatsBack(chat, cut), FormatChatHistory(history))
    /\ IsSuffix(TurnsBack(schema, cut), FormatSchemaHistory(history))
    /\ cut > 0 => /\ chat # <<>> /\ chat[1].role = "user"
                  /\ schema # <<>> /\ schema[1][1] = "user"
    /\ (\E i \in DOMAIN history : history[i].type = "human") => \E i \in DOMAIN rest : rest[i].type = "human"
=============================================================================
