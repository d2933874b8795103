--------------------------- MODULE ResponsesItems ---------------------------
(***************************************************************************)
(* Streams that are converted for a client of the Responses format:        *)
(* ClaudeStreamToOpenAI2, OpenAIStreamToOpenAI2 and GeminiStreamToOpenAI2  *)
(* (src/internal/transformer/convert/claude_openai2.go,                    *)
(* openai_openai2.go, openai2_gemini.go) with the items of common.go.      *)
(*                                                                         *)
(* An answer is items with an output index: each is added, filled and done,*)
(* and response.completed lists them.  The indices are computed from the   *)
(* blocks of Claude, the tool indices of Chat or a counter.  Texts, ids    *)
(* and names are left out but for whether they have come.                  *)
(***************************************************************************)
EXTENDS Naturals, Sequences, SequencesExt, FiniteSetsExt

CONSTANTS
  Origins,     \* formats of upstreams: "claude", "chat", "gemini"
  ToolIndices, \* indices of parallel tool calls of a Chat upstream
  MaxSteps     \* bound: events of the upstream

VARIABLES
  origin,  \* the upstream's format
  state,   \* the StreamContext
  reader,  \* what the client has made of the events
  input,   \* what the upstream has sent
  steps    \* events so far

itemVars == <<origin, state, reader, input, steps>>

Indices == 0..(2 * MaxSteps)
NoCall == [id |-> FALSE, name |-> FALSE, args |-> FALSE, added |-> FALSE]
NewState == [start |-> FALSE, text |-> FALSE, reasoning |-> FALSE, rdone |-> FALSE,
             ci |-> 0, tool |-> FALSE, ti |-> 0, finish |-> FALSE, counter |-> 0,
             texts |-> {}, calls |-> [i \in Indices |-> NoCall], thoughts |-> {}]
\* texts, calls, thoughts: the maps ResponseTextByIndex, ResponseTool...ByIndex
\* and ResponseReasoningByIndex

-----------------------------------------------------------------------------
(* The client: an SDK that follows the protocol                            *)

NewReader == [begun |-> FALSE, kind |-> [i \in Indices |-> "none"], done |-> {},
              listed |-> {}, over |-> FALSE, fault |-> "none"]

OpenItems(rd) == {i \in Indices : rd.kind[i] # "none" /\ i \notin rd.done}

Refuses(rd, e) ==
  CASE e.ev = "created"   -> rd.begun
    [] e.ev = "added"     -> rd.over \/ ~rd.begun \/ rd.kind[e.i] # "none"
    [] e.ev = "completed" -> rd.over \/ ~rd.begun \/ OpenItems(rd) # {}
    [] OTHER              -> rd.over \/ rd.kind[e.i] # e.kind \/ e.i \in rd.done

Reads(rd, e) ==
  IF rd.fault # "none" THEN rd
  ELSE IF Refuses(rd, e) THEN [rd EXCEPT !.fault = e.ev]
  ELSE CASE e.ev = "created"   -> [rd EXCEPT !.begun = TRUE]
         [] e.ev = "added"     -> [rd EXCEPT !.kind[e.i] = e.kind]
         [] e.ev = "done"      -> [rd EXCEPT !.done = @ \cup {e.i}]
         [] e.ev = "completed" -> [rd EXCEPT !.over = TRUE, !.listed = e.kind]
         [] OTHER              -> rd

-----------------------------------------------------------------------------
(* Writing (writeOpenAI2StreamEvent).  r.c is the context, r.cl the client. *)

Write(r, ev, i, kind) == [r EXCEPT !.cl = Reads(@, [ev |-> ev, i |-> i, kind |-> kind])]

\* openAI2CompletedOutput: an index is a call, reasoning or a message, the
\* first of them; a call without id or name is not listed.
Listed(c) ==
  LET calls == {i \in Indices : c.calls[i].id}
  IN  {<<i, "call">> : i \in {j \in calls : c.calls[j].name}}
      \cup {<<i, "reasoning">> : i \in c.thoughts \ calls}
      \cup {<<i, "message">> : i \in c.texts \ (calls \cup c.thoughts)}

WriteCompleted(r) == Write(r, "completed", 0, Listed(r.c))

AddMessage(r, i) ==
  Write([r EXCEPT !.c.texts = @ \cup {i}, !.c.text = TRUE], "added", i, "message")
TextDeltaAt(r, i) == Write([r EXCEPT !.c.texts = @ \cup {i}], "delta", i, "message")

DoneReasoning(r) ==
  IF r.c.reasoning /\ ~r.c.rdone
  THEN Write([r EXCEPT !.c.rdone = TRUE], "done", 0, "reasoning") ELSE r

DoneMessage(r, i) ==
  IF r.c.text THEN Write([r EXCEPT !.c.text = FALSE], "done", i, "message") ELSE r

\* recordOpenAI2ToolCall, recordOpenAI2ToolArguments
RecordCall(r, i, named) ==
  [r EXCEPT !.c.calls[i].id = @ \/ "id" \in named, !.c.calls[i].name = @ \/ "name" \in named]
RecordArguments(r, i) == [r EXCEPT !.c.calls[i].args = TRUE]

\* Mutant: the message comes first whether there is reasoning or not.
MessageFirst(c) == 0

\* responseMessageOutputIndex; reasoning is always the first item.
MessageIndex(c) == IF c.reasoning THEN 1 ELSE 0
ToolOutputIndex(c, k) == MessageIndex(c) + k + 1

-----------------------------------------------------------------------------
(* From Claude                                                             *)

ClaudeBlockStart(r, idx, kind) ==
  CASE kind = "thinking" ->
         IF r.c.reasoning THEN r
         ELSE Write([r EXCEPT !.c.reasoning = TRUE], "added", 0, "reasoning")
    [] kind = "text" ->
         LET s == DoneReasoning(r)
         IN  AddMessage([s EXCEPT !.c.ci = MessageIndex(s.c)], MessageIndex(s.c))
    [] OTHER ->
         Write(RecordCall([DoneReasoning(r) EXCEPT !.c.tool = TRUE, !.c.ti = idx],
                          idx, {"id", "name"}), "added", idx, "call")

ClaudeBlockDelta(r, kind) ==
  CASE kind = "thinking" ->
         IF r.c.reasoning THEN Write([r EXCEPT !.c.thoughts = @ \cup {0}], "delta", 0, "reasoning")
         ELSE r
    [] kind = "text" -> TextDeltaAt(r, r.c.ci)
    [] OTHER         -> Write(RecordArguments(r, r.c.ti), "delta", r.c.ti, "call")

\* The index says what is done, whatever kind of block has stopped.
ClaudeBlockStop(r, idx) ==
  CASE r.c.tool /\ idx = r.c.ti -> Write([r EXCEPT !.c.tool = FALSE], "done", idx, "call")
    [] ~(r.c.tool /\ idx = r.c.ti) /\ r.c.text /\ idx = r.c.ci -> DoneMessage(r, idx)
    [] OTHER -> IF idx = 0 THEN DoneReasoning(r) ELSE r

ClaudeStop(r) == WriteCompleted(DoneReasoning(r))

-----------------------------------------------------------------------------
(* From Chat: reasoning is kept back                                       *)

Created(r) == IF r.c.start THEN r ELSE Write([r EXCEPT !.c.start = TRUE], "created", 0, "none")

ChatContent(r) ==
  LET s == Created(r)
      b == IF s.c.text THEN s ELSE AddMessage(s, MessageIndex(s.c))
  IN  TextDeltaAt(b, MessageIndex(b.c))

\* Mutant: a call is added without waiting for its name.
AddCallEarly(r, i) ==
  IF r.c.calls[i].added \/ ~r.c.calls[i].id THEN r
  ELSE Write([Created(r) EXCEPT !.c.calls[i].added = TRUE], "added", i, "call")

\* ensureToolAdded: with the arguments that have come before.
AddCall(r, i) ==
  LET c == r.c.calls[i]
      s == Write([Created(r) EXCEPT !.c.calls[i].added = TRUE], "added", i, "call")
  IN  IF c.added \/ ~(c.id /\ c.name) THEN r
      ELSE IF c.args THEN Write(s, "delta", i, "call") ELSE s

ChatCall(r, k, named, args) ==
  LET i == ToolOutputIndex(r.c, k)
      s == IF named = {} THEN r ELSE AddCall(RecordCall(r, i, named), i)
      t == AddCall(RecordArguments(s, i), i)
  IN  IF ~args THEN s ELSE IF t.c.calls[i].added THEN Write(t, "delta", i, "call") ELSE t

DoneCall(r, i) == Write(r, "done", i, "call")
AddedCalls(c) == {i \in Indices : c.calls[i].added}

\* Calls are done only when the reason says that there are some.
ChatEnd(r, reason) ==
  LET s == DoneMessage(DoneReasoning(Created(r)), MessageIndex(r.c))
      t == IF reason = "tool_calls"
           THEN FoldLeft(DoneCall, s, SetToSortSeq(AddedCalls(s.c), <)) ELSE s
  IN  [WriteCompleted(t) EXCEPT !.c.finish = TRUE]

ChatDoneMark(r) ==
  IF r.c.finish THEN r ELSE WriteCompleted(DoneMessage(DoneReasoning(r), MessageIndex(r.c)))

-----------------------------------------------------------------------------
(* From Gemini                                                             *)

GeminiPartTo(r, part) ==
  IF part = "text"
  THEN TextDeltaAt(IF r.c.text THEN r ELSE AddMessage(r, 0), 0)
  ELSE LET i == r.c.counter + 1
           s == RecordArguments(RecordCall([r EXCEPT !.c.counter = i], i, {"id", "name"}), i)
       IN  Write(Write(s, "added", i, "call"), "done", i, "call")

GeminiEnd(r) == WriteCompleted(DoneMessage(r, 0))

-----------------------------------------------------------------------------
(* The upstream.  input.block is Claude's open block, input.next the number *)
(* of the next one; odd: what the conversion does not expect.              *)

NoInput == [stage |-> "new", block |-> "none", next |-> 0, kinds |-> {}, odd |-> FALSE]

ItemsInit ==
  /\ origin \in Origins /\ state = NewState /\ reader = NewReader
  /\ input = NoInput /\ steps = 0

At == [c |-> state, cl |-> reader]
Yields(r) == state' = r.c /\ reader' = r.cl
Step == /\ input.stage # "done" /\ steps < MaxSteps /\ steps' = steps + 1
        /\ UNCHANGED origin
Moves(stage, odd) == input' = [input EXCEPT !.stage = stage, !.odd = @ \/ odd]

\* One block at a time.  An answer is expected to think, then to speak, then to
\* call: a second text, or thoughts or a text after something else, are odd,
\* for their index is in use.
ClaudeStep ==
  /\ origin = "claude" /\ Step
  /\ \/ /\ input.stage = "new" /\ Moves("open", FALSE)
        /\ Yields(Write(At, "created", 0, "none"))
     \/ /\ input.stage = "open" /\ input.block = "none"
        /\ \E kind \in {"thinking", "text", "tool"} :
             /\ Yields(ClaudeBlockStart(At, input.next, kind))
             /\ input' = [input EXCEPT !.block = kind, !.next = @ + 1, !.kinds = @ \cup {kind},
                            !.odd = \/ @
                                    \/ kind = "thinking" /\ input.next > 0
                                    \/ kind = "text" /\ input.kinds \ {"thinking"} # {}]
     \/ input.block # "none" /\ Yields(ClaudeBlockDelta(At, input.block)) /\ UNCHANGED input
     \/ /\ input.block # "none" /\ Yields(ClaudeBlockStop(At, input.next - 1))
        /\ input' = [input EXCEPT !.block = "none"]
     \/ /\ input.stage = "open" /\ input.block = "none" /\ Yields(ClaudeStop(At))
        /\ Moves("done", FALSE)

\* A finish that does not mention the calls, and [DONE] without a finish but
\* with calls or before anything was written, are odd: an item stays open.
ChatStep ==
  /\ origin = "chat" /\ Step
  /\ \/ /\ input.stage # "finished"
        /\ \/ Yields(At) /\ Moves("open", FALSE) \* reasoning
           \/ Yields(ChatContent(At)) /\ Moves("open", FALSE)
           \/ \E k \in ToolIndices, named \in SUBSET {"id", "name"}, args \in BOOLEAN :
                Yields(ChatCall(At, k, named, args)) /\ Moves("open", FALSE)
           \/ \E reason \in {"stop", "tool_calls"} :
                /\ Yields(ChatEnd(At, reason))
                /\ Moves("finished", reason = "stop" /\ AddedCalls(state) # {})
     \/ Yields(ChatDoneMark(At)) /\ Moves("done", ~state.finish /\ (~state.start \/ AddedCalls(state) # {}))

\* [DONE] after the finish is odd: it completes the answer again.
GeminiStep ==
  /\ origin = "gemini" /\ Step
  /\ \/ /\ input.stage # "finished"
        /\ \E parts \in SeqOf({"text", "call"}, 2), ends \in BOOLEAN :
             LET r == FoldLeft(GeminiPartTo, Created(At), parts)
             IN  /\ Yields(IF ends THEN GeminiEnd(r) ELSE r)
                 /\ Moves(IF ends THEN "finished" ELSE "open", FALSE)
     \/ Yields(GeminiEnd(At)) /\ Moves("done", input.stage # "open")

ItemsNext == ClaudeStep \/ ChatStep \/ GeminiStep

ItemsSpec == ItemsInit /\ [][ItemsNext]_itemVars

-----------------------------------------------------------------------------
(* Properties                                                              *)

ItemsTypeOK ==
  /\ origin \in Origins /\ steps \in 0..MaxSteps
  /\ input.stage \in {"new", "open", "finished", "done"}
  /\ state.ci \in Nat /\ state.counter \in Nat
  /\ reader.done \subseteq Indices

\* What the client gets is an answer of the Responses format: items with an
\* index of their own that are added before they are filled, done once and all
\* done at the end, one end, and its list is of the items the client has seen,
\* however blocks, texts and parallel tool calls come whose ids, names and
\* arguments arrive apart (ClaudeStreamToOpenAI2, OpenAIStreamToOpenAI2,
\* GeminiStreamToOpenAI2).  The exceptions are named where input.odd is set.
\* Thoughts that came without text are not listed.
ResponsesItemsSound ==
  \/ input.odd
  \/ /\ reader.fault = "none"
     /\ input.stage \in {"finished", "done"} => reader.over
     /\ reader.over =>
          LET made == {<<i, reader.kind[i]>> : i \in reader.done}
          IN  /\ reader.listed \subseteq made
              /\ made \ reader.listed \subseteq {<<0, "reasoning">>}
=============================================================================
