----------------------------- MODULE Histories ------------------------------
(***************************************************************************)
(* Requests and whole answers converted between the formats of Claude,     *)
(* Chat, Responses and Gemini (src/internal/transformer/convert, the ...Req *)
(* and ...Resp functions), and tool_chain_normalizer.go, which puts the    *)
(* results of tools next to their calls or refuses the history.            *)
(*                                                                         *)
(* A history is a sequence of messages or items [role, parts]; a part is a *)
(* text, a thought, a call or a result with its number or id.  A text that *)
(* is a string is told from a piece, a text in an array of content parts,  *)
(* and both from what is said in an item without a type.  A custom call    *)
(* and its output are the Responses items of a freeform tool.  Models,     *)
(* limits, schemas of tools and pictures are left out.                     *)
(***************************************************************************)
EXTENDS Naturals, Sequences, SequencesExt, FiniteSets

CONSTANTS
  CallIds,     \* ids of tool calls
  MaxMessages  \* bound: messages of a history, for each format

VARIABLES
  format,   \* the client's format: "claude", "chat", "responses"
  history   \* the messages of its request

historyVars == <<format, history>>

Message(role, parts) == [role |-> role, parts |-> parts]
Call(c) == <<"call", c>>
Result(c) == <<"result", c>>
Said == {"text", "piece", "untyped"}
Custom == {"custom", "output"}
Of(kinds, parts) == SelectSeq(parts, LAMBDA p : p[1] \in kinds)
Numbers(kind, parts) == [k \in DOMAIN Of({kind}, parts) |-> Of({kind}, parts)[k][2]]
AllParts(msgs) == FlattenSeq([k \in DOMAIN msgs |-> msgs[k].parts])
NonEmpty(role, parts) == IF parts = <<>> THEN <<>> ELSE <<Message(role, parts)>>

-----------------------------------------------------------------------------
(* Tool chains.  From a call on, messages are held back until all pending  *)
(* calls have their results.                                               *)

NoGroup(out) == [out |-> out, open |-> FALSE, pending |-> {}, tools |-> <<>>,
                 results |-> <<>>, late |-> <<>>, others |-> <<>>, bad |-> FALSE]

\* Mutant: what others said between calls and results is lost.
FlushResults(g) == NoGroup(g.out \o g.tools \o <<Message("user", g.results \o g.late)>>)

\* Claude wants all results in the user's next message; what the user said
\* meanwhile goes into it.
FlushClaude(g) == NoGroup(g.out \o g.tools \o <<Message("user", g.results \o g.late)>> \o g.others)

FlushFlat(g) == NoGroup(g.out \o g.tools \o g.results \o g.late)

CallsOf(g, m) ==
  LET cs == Numbers("call", m.parts)
  IN  [g EXCEPT !.bad = (ToSet(cs) \cap g.pending # {}) \/ ~IsInjective(cs),
                !.open = TRUE, !.pending = @ \cup ToSet(cs), !.tools = Append(@, m)]

ResultsFit(g, m) ==
  LET rs == Numbers("result", m.parts)
  IN  g.open /\ ToSet(rs) \subseteq g.pending /\ IsInjective(rs)

Answered(g, m) == g.pending \ ToSet(Numbers("result", m.parts))

\* normalizeClaudeMapMessagesForToolChains: a message of the user with a
\* result is taken as a whole.
GroupClaude(g, m) ==
  CASE g.bad -> g
    [] ~g.bad /\ Of({"call"}, m.parts) # <<>> -> CallsOf(g, m)
    [] ~g.bad /\ Of({"result"}, m.parts) # <<>> ->
         IF ~ResultsFit(g, m) THEN [g EXCEPT !.bad = TRUE]
         ELSE LET h == [g EXCEPT !.pending = Answered(g, m), !.results = @ \o m.parts]
              IN  IF h.pending = {} THEN FlushClaude(h) ELSE h
    [] OTHER -> IF ~g.open THEN [g EXCEPT !.out = Append(@, m)]
                ELSE IF m.role = "user" THEN [g EXCEPT !.late = @ \o m.parts]
                ELSE [g EXCEPT !.others = Append(@, m)]

\* normalizeOpenAIMessagesForToolChains, normalizeOpenAI2InputForToolChains
GroupFlat(g, m) ==
  CASE g.bad -> g
    [] ~g.bad /\ Of({"call"}, m.parts) # <<>> -> CallsOf(g, m)
    [] ~g.bad /\ Of({"result"}, m.parts) # <<>> ->
         IF ~ResultsFit(g, m) THEN [g EXCEPT !.bad = TRUE]
         ELSE LET h == [g EXCEPT !.pending = Answered(g, m), !.results = Append(@, m)]
              IN  IF h.pending = {} THEN FlushFlat(h) ELSE h
    [] OTHER -> IF ~g.open THEN [g EXCEPT !.out = Append(@, m)]
                ELSE [g EXCEPT !.late = Append(@, m)]

Made(msgs) == [refused |-> FALSE, messages |-> msgs]
Refused == [refused |-> TRUE, messages |-> <<>>]
Grouped(g) == IF g.bad \/ g.open THEN Refused ELSE Made(g.out)
ClaudeChains(msgs) == Grouped(FoldLeft(GroupClaude, NoGroup(<<>>), msgs))
FlatChains(msgs) == Grouped(FoldLeft(GroupFlat, NoGroup(<<>>), msgs))
Each(r, Op(_)) ==
  IF r.refused THEN r
  ELSE Made(FlattenSeq([k \in DOMAIN r.messages |-> Op(r.messages[k])]))

-----------------------------------------------------------------------------
(* Requests                                                                *)

ToolMessages(m) ==
  LET rs == Of({"result"}, m.parts) IN [k \in DOMAIN rs |-> Message("tool", <<rs[k]>>)]

\* Thoughts are not passed on; a message of nothing else leaves a place-holder.
ClaudeMessageToChat(m) ==
  LET texts == Of({"text"}, m.parts)
      calls == Of({"call"}, m.parts)
  IN  IF ToolMessages(m) # <<>> THEN ToolMessages(m) \o NonEmpty("user", texts)
      ELSE IF texts \o calls # <<>> THEN <<Message(m.role, texts \o calls)>>
      ELSE IF m.parts # <<>> THEN <<Message(m.role, <<<<"text", 0>>>>)>> ELSE <<>>

\* convertClaudeMessageToOpenAI2Items: texts up to a call or result are one message.
ClaudePartToItem(items, p) ==
  CASE p[1] = "think" -> items
    [] p[1] = "text" /\ items # <<>> /\ Last(items).parts[1][1] = "text" ->
         [items EXCEPT ![Len(items)].parts = Append(@, p)]
    [] OTHER -> Append(items, Message("item", <<p>>))
ClaudeMessageToItems(m) == FoldLeft(ClaudePartToItem, <<>>, m.parts)

\* Beside calls only a text that is a string is taken over.
ChatMessageToClaude(m) ==
  CASE m.role = "tool" -> <<Message("user", m.parts)>>
    [] m.role = "assistant" /\ Of({"call"}, m.parts) # <<>> ->
         <<Message("assistant", Of({"text", "call"}, m.parts))>>
    [] m.role \in {"system", "developer"} -> <<>>
    [] OTHER -> <<Message(m.role, Of(Said, m.parts))>>

ChatMessageToItems(m) ==
  IF m.role = "system" THEN <<>>
  ELSE NonEmpty("item", Of({"think"}, m.parts))
       \o NonEmpty("item", Of(Said, m.parts))
       \o [k \in DOMAIN Of({"call", "result"}, m.parts) |->
             Message("item", <<Of({"call", "result"}, m.parts)[k]>>)]

\* convertOpenAI2InputToClaude, convertOpenAI2InputToGeminiContents: calls are
\* collected up to a result, results up to a message.  Items of other types,
\* or of none, are passed over.
Flushed(r) == [r EXCEPT !.out = @ \o NonEmpty("assistant", r.uses), !.uses = <<>>]
PendingItem(r, it) ==
  CASE it.parts[1][1] = "call"   -> [r EXCEPT !.uses = @ \o it.parts]
    [] it.parts[1][1] = "result" -> [Flushed(r) EXCEPT !.res = @ \o it.parts]
    [] it.parts[1][1] \in {"text", "piece"} ->
         [Flushed(r) EXCEPT !.out = @ \o NonEmpty("user", r.res) \o <<it>>, !.res = <<>>]
    [] OTHER -> r
ItemsToTurns(items) ==
  LET r == Flushed(FoldLeft(PendingItem, [out |-> <<>>, uses |-> <<>>, res |-> <<>>],
                            SelectSeq(items, LAMBDA it : it.role # "developer")))
  IN  r.out \o NonEmpty("user", r.res)

\* OpenAI2ReqToOpenAI: reasoning waits for the assistant's next message.  Of a
\* message only the pieces are read; what is not a message is passed over.
ItemToChat(r, it) ==
  LET f == [r EXCEPT !.out = @ \o NonEmpty("assistant", r.uses), !.uses = <<>>]
  IN  CASE it.parts[1][1] = "think"  -> [r EXCEPT !.why = @ \o it.parts]
        [] it.parts[1][1] = "call"   -> [r EXCEPT !.uses = @ \o it.parts]
        [] it.parts[1][1] = "result" -> [f EXCEPT !.out = Append(@, Message("tool", it.parts))]
        [] it.parts[1][1] \in {"text", "piece"} ->
             LET own  == it.role = "assistant"
                 told == Of({"piece"}, it.parts)
             IN  [f EXCEPT !.out = Append(@, Message(it.role, IF own THEN r.why \o told ELSE told)),
                           !.why = IF own THEN <<>> ELSE @]
        [] OTHER -> r
ItemsToChat(items) ==
  LET r == FoldLeft(ItemToChat, [out |-> <<>>, uses |-> <<>>, why |-> <<>>], items)
  IN  r.out \o NonEmpty("assistant", r.uses) \o NonEmpty("assistant", r.why)

\* Gemini knows the name of a tool only, which is looked up by the call's id.
Named(r, p) ==
  CASE p[1] = "call"   -> [known |-> r.known \cup {p[2]}, parts |-> Append(r.parts, p)]
    [] p[1] = "result" -> [r EXCEPT !.parts =
                             Append(@, IF p[2] \in r.known THEN p ELSE Result(0))]
    [] OTHER           -> [r EXCEPT !.parts = Append(@, p)]
ContentOf(r, m) ==
  LET n == FoldLeft(Named, [known |-> r.known, parts |-> <<>>], m.parts)
  IN  [known |-> n.known, out |-> Append(r.out, Message(m.role, n.parts))]
GeminiContents(msgs) == Made(FoldLeft(ContentOf, [known |-> {}, out |-> <<>>], msgs).out)

\* What is asked of the model: of Chat's system messages the strings
\* (normalizeOpenAIRequestRoles), of Responses' developer items the pieces
\* (extractOpenAI2DeveloperInstructions).
Instructs(m) == m.role \in {"system", "developer"}
SystemPart(m, kind) == IF Instructs(m) THEN NonEmpty(m.role, Of({kind}, m.parts)) ELSE <<>>
Systems(msgs, kind) == FlattenSeq([k \in DOMAIN msgs |-> SystemPart(msgs[k], kind)])
With(front, r) == IF r.refused THEN r ELSE Made(front \o r.messages)

NormalizeClaudeRequestForUpstream(h) == ClaudeChains(h)
ClaudeReqToOpenAI(h)  == Each(ClaudeChains(h), ClaudeMessageToChat)
ClaudeReqToOpenAI2(h) == Each(ClaudeChains(h), ClaudeMessageToItems)
ClaudeReqToGemini(h)  == GeminiContents(h)

NormalizeOpenAIChatRequestForUpstream(h) == FlatChains(h)
OpenAIReqToClaude(h) ==
  With(Systems(h, "text"), ClaudeChains(Each(Made(h), ChatMessageToClaude).messages))
\* Of several system messages the last string becomes the instructions.
SystemStrings(h) == SelectSeq(h, LAMBDA m : m.role = "system" /\ Of({"text"}, m.parts) # <<>>)
OpenAIReqToOpenAI2(h) ==
  LET s == SystemStrings(h)
  IN  With(IF s = <<>> THEN s ELSE <<Last(s)>>, Each(FlatChains(h), ChatMessageToItems))
OpenAIReqToGemini(h) ==
  With(Systems(h, "text"), GeminiContents(SelectSeq(h, LAMBDA m : ~Instructs(m))))

\* Chat messages that a client has put among the items become items.
NormalizeItem(m) == [k \in DOMAIN m.parts |-> Message("item", <<m.parts[k]>>)]
NormalizeOpenAI2RequestForUpstream(h) == Each(Made(h), NormalizeItem)
OpenAI2ReqToClaude(h) == With(Systems(h, "piece"), ClaudeChains(ItemsToTurns(h)))
OpenAI2ReqToOpenAI(h) ==
  LET r == FlatChains(h) IN IF r.refused THEN r ELSE Made(ItemsToChat(r.messages))
OpenAI2ReqToGemini(h) == With(Systems(h, "piece"), GeminiContents(ItemsToTurns(h)))

\* A request of format f for an upstream of format g.
Convert(f, g, h) ==
  CASE f = "claude" /\ g = "claude"       -> NormalizeClaudeRequestForUpstream(h)
    [] f = "claude" /\ g = "chat"         -> ClaudeReqToOpenAI(h)
    [] f = "claude" /\ g = "responses"    -> ClaudeReqToOpenAI2(h)
    [] f = "claude" /\ g = "gemini"       -> ClaudeReqToGemini(h)
    [] f = "chat" /\ g = "claude"         -> OpenAIReqToClaude(h)
    [] f = "chat" /\ g = "chat"           -> NormalizeOpenAIChatRequestForUpstream(h)
    [] f = "chat" /\ g = "responses"      -> OpenAIReqToOpenAI2(h)
    [] f = "chat" /\ g = "gemini"         -> OpenAIReqToGemini(h)
    [] f = "responses" /\ g = "claude"    -> OpenAI2ReqToClaude(h)
    [] f = "responses" /\ g = "chat"      -> OpenAI2ReqToOpenAI(h)
    [] f = "responses" /\ g = "responses" -> NormalizeOpenAI2RequestForUpstream(h)
    [] OTHER                              -> OpenAI2ReqToGemini(h)

-----------------------------------------------------------------------------
(* Whole answers [parts, reason]: they ended for "tools", "length" or "end" *)

Ans(parts, reason) == [parts |-> parts, reason |-> reason]
Calls(a) == Of({"call"}, a.parts)
TextsFirst(a) == Of({"text"}, a.parts) \o Calls(a)
ThoughtsFirst(a) == Of({"think"}, a.parts) \o TextsFirst(a)
InOrder(a) == Of({"think", "text", "call"}, a.parts)
ThoughtAsText(a) ==
  LET ts == Of({"think", "text"}, a.parts)
  IN  [k \in DOMAIN ts |-> <<"text", ts[k][2]>>] \o Calls(a)
ToolsOr(a, reason) == IF Calls(a) # <<>> THEN "tools" ELSE reason

ClaudeRespToOpenAI(a)  == Ans(TextsFirst(a), a.reason)
ClaudeRespToOpenAI2(a) == Ans(TextsFirst(a), a.reason)
ClaudeRespToGemini(a)  == Ans(InOrder(a), IF a.reason = "tools" THEN "tools" ELSE "end")
OpenAIRespToClaude(a)  == Ans(ThoughtsFirst(a), ToolsOr(a, a.reason))
OpenAIRespToOpenAI2(a) == Ans(ThoughtsFirst(a), ToolsOr(a, "end"))
OpenAI2RespToClaude(a) == Ans(InOrder(a), ToolsOr(a, a.reason))
OpenAI2RespToOpenAI(a) == Ans(ThoughtsFirst(a), ToolsOr(a, "end"))
GeminiRespToClaude(a)  == Ans(InOrder(a), ToolsOr(a, "end"))
GeminiRespToOpenAI(a)  == Ans(ThoughtAsText(a), ToolsOr(a, "end"))
GeminiRespToOpenAI2(a) == Ans(ThoughtAsText(a), ToolsOr(a, "end"))

Answers(a) == {ClaudeRespToOpenAI(a), ClaudeRespToOpenAI2(a), ClaudeRespToGemini(a),
               OpenAIRespToClaude(a), OpenAIRespToOpenAI2(a), OpenAI2RespToClaude(a),
               OpenAI2RespToOpenAI(a), GeminiRespToClaude(a), GeminiRespToOpenAI(a),
               GeminiRespToOpenAI2(a)}

-----------------------------------------------------------------------------
(* The client writes its history                                           *)

Text == <<"text", Len(history) + 1>>
Piece == <<"piece", Len(history) + 1>>
Untyped == <<"untyped", Len(history) + 1>>
Think == <<"think", Len(history) + 1>>
CallSeqs == {<<Call(c)>> : c \in CallIds} \cup {<<Call(1), Call(c)>> : c \in CallIds}
ResultSeqs == {<<Result(c)>> : c \in CallIds} \cup {<<Result(c), Result(1)>> : c \in CallIds}

ClaudeMessages ==
  {Message("user", p) : p \in {<<Text>>} \cup ResultSeqs
                               \cup {<<Result(c), Text>> : c \in CallIds}}
  \cup {Message("assistant", p) : p \in {<<Text>>, <<Think>>, <<Think, Text>>} \cup CallSeqs
                                        \cup {<<Text, Call(c)>> : c \in CallIds}}
ChatMessages ==
  {Message(role, <<Text>>) : role \in {"system", "developer", "user", "assistant"}}
  \cup {Message(role, <<Piece>>) : role \in {"system", "user"}}
  \cup {Message("tool", <<Result(c)>>) : c \in CallIds}
  \cup {Message("assistant", p) : p \in {<<Think, Text>>, <<Piece, Call(1)>>} \cup CallSeqs
                                        \cup {<<Text, Call(c)>> : c \in CallIds}}
ResponsesItems ==
  {Message(role, <<Piece>>) : role \in {"developer", "user", "assistant"}}
  \cup {Message(role, <<Text>>) : role \in {"developer", "assistant"}}
  \cup {Message("user", <<Untyped>>)}
  \cup {Message("item", <<p>>) : p \in {Think, <<"custom", 1>>, <<"output", 1>>}
                                       \cup {Call(c) : c \in CallIds}
                                       \cup {Result(c) : c \in CallIds}}

HistoryInit == format \in {"claude", "chat", "responses"} /\ history = <<>>
HistoryNext ==
  /\ Len(history) < MaxMessages[format]
  /\ \E m \in CASE format = "claude" -> ClaudeMessages
                [] format = "chat"   -> ChatMessages
                [] OTHER             -> ResponsesItems : history' = Append(history, m)
  /\ UNCHANGED format

HistorySpec == HistoryInit /\ [][HistoryNext]_historyVars

-----------------------------------------------------------------------------
(* Properties                                                              *)

\* Every call has its result after it, before the id is used again.
Paired(parts) ==
  \A c \in CallIds :
    LET s == SelectSeq(parts, LAMBDA p : p \in {Call(c), Result(c)})
    IN  Len(s) % 2 = 0 /\ \A k \in DOMAIN s : s[k] = IF k % 2 = 1 THEN Call(c) ELSE Result(c)

\* Nothing but calls and results stands between a call and its result.
Adjacent(msgs) ==
  \A k \in DOMAIN msgs :
    Of({"call", "result"}, msgs[k].parts) = <<>> => Paired(AllParts(SubSeq(msgs, 1, k)))

Texts(parts) == {p[2] : p \in {q \in ToSet(parts) : q[1] \in Said}} \ {0}
TextsOf(msgs) == Texts(AllParts(msgs))

\* What is said that a conversion loses.  Chat: an array as system message, one
\* beside calls for Claude, and for Responses all system messages but the last.
\* Responses: an item without a type, and a string for Chat or of a developer.
Overruled(h) ==
  LET s == SystemStrings(h) IN IF s = <<>> THEN {} ELSE TextsOf(Front(s))
Loses(f, g, m, p) ==
  CASE f = "chat" /\ g # "chat" ->
         /\ p[1] = "piece"
         /\ Instructs(m) \/ (g = "claude" /\ Of({"call"}, m.parts) # <<>>)
    [] f = "responses" /\ g # "responses" ->
         p[1] = "untyped" \/ (p[1] = "text" /\ (g = "chat" \/ Instructs(m)))
    [] OTHER -> FALSE
Lost(f, g, h) ==
  (IF <<f, g>> = <<"chat", "responses">> THEN Overruled(h) ELSE {})
  \cup UNION {Texts(SelectSeq(m.parts, LAMBDA p : Loses(f, g, m, p))) : m \in ToSet(h)}

\* The Responses client's calls and results of one turn are put in order, so
\* a result just before its call passes and an id used twice does not.  Gemini
\* has no ids, and between Responses and Responses nothing is looked at.
Refuses(f, g, h, refused) ==
  LET before == AllParts(h)
  IN  CASE g = "gemini" \/ <<f, g>> = <<"responses", "responses">> -> ~refused
        [] <<f, g>> = <<"responses", "claude">> ->
             refused => ~(Paired(before) /\ IsInjective(Numbers("call", before)))
        [] OTHER -> refused <=> ~Paired(before)

Faithful(f, g, h) ==
  LET r == Convert(f, g, h)
      before == AllParts(h)
      after  == AllParts(r.messages)
  IN  /\ Refuses(f, g, h, r.refused)
      /\ ~r.refused => TextsOf(r.messages) = TextsOf(h) \ Lost(f, g, h)
      /\ (Paired(before) /\ ~r.refused) =>
           /\ Of({"call"}, after) = Of({"call"}, before)
           /\ Of({"result"}, after) = Of({"result"}, before)
           /\ IsInjective(Numbers("call", before)) =>
                Paired(after) /\ (g \in {"claude", "chat"} => Adjacent(r.messages))

\* A conversion of a request refuses a history exactly if a call has no result
\* or a result no call, and for Gemini and from Responses to Responses never;
\* otherwise it keeps the texts (but for those that Lost names), the calls and
\* the results and their order, and moves nothing between a call and its result,
\* however parallel calls, late results and remarks are mixed.  Custom calls and
\* their outputs are kept between Responses and Responses only.  A whole answer
\* keeps texts and calls and ends for tools exactly if there are calls (the
\* ...Req and ...Resp functions).  Ids used again keep their parts only.
HistoriesSound ==
  /\ \A g \in {"claude", "chat", "responses", "gemini"} : Faithful(format, g, history)
  /\ format # "claude" =>
       LET all == {"call", "result"} \cup Said \cup Custom
       IN  Of(all, AllParts(NormalizeOpenAI2RequestForUpstream(history).messages))
             = Of(all, AllParts(history))
  /\ history # <<>> => \A said \in {"end", "length"} :
       LET a == Ans(Last(history).parts, "end")
           b == [a EXCEPT !.reason = ToolsOr(a, said)]
       IN  \A c \in Answers(b) :
             /\ Calls(c) = Calls(b) /\ (c.reason = "tools" <=> Calls(c) # <<>>)
             /\ ToSet(Of({"text"}, b.parts)) \subseteq ToSet(c.parts)
=============================================================================
