---------------------------- MODULE ClaudeBlocks ----------------------------
(***************************************************************************)
(* Streams that are converted for a client of the Claude format:           *)
(* OpenAIStreamToClaude, OpenAI2StreamToClaude and GeminiStreamToClaude    *)
(* (src/internal/transformer/convert/claude_openai.go, claude_openai2.go,  *)
(* claude_gemini.go) with the tags of think_tags.go and the tool blocks of *)
(* common.go.  One StreamContext is carried from event to event.           *)
(*                                                                         *)
(* Claude sends an answer as numbered blocks, each started, filled and     *)
(* stopped; the upstreams have no such blocks, or others.  Texts are left  *)
(* out but for their length in a Responses item, ids and names but for     *)
(* whether they have come.                                                 *)
(***************************************************************************)
EXTENDS Naturals, Sequences, SequencesExt, FiniteSetsExt

CONSTANTS
  Sources,    \* formats of upstreams: "chat", "responses", "gemini"
  Texts,      \* texts of a chunk, as "text", "open", "close" and "half" tags
  Tools,      \* indices of parallel tool calls
  MaxChunks   \* bound: events of the upstream, for each format

VARIABLES
  source,   \* the upstream's format
  ctx,      \* the StreamContext
  seen,     \* what the client has made of the events
  asked,    \* what the upstream has sent
  chunks    \* events so far

blockVars == <<source, ctx, seen, asked, chunks>>

NoTool == [id |-> FALSE, name |-> FALSE, args |-> FALSE, at |-> 99,
           begun |-> FALSE, done |-> FALSE]
NewContext == [start |-> FALSE, text |-> FALSE, think |-> FALSE, ci |-> 0, ti |-> 0,
               finish |-> FALSE, inTag |-> FALSE, half |-> FALSE,
               tool |-> [k \in Tools |-> NoTool],
               got |-> [k \in Tools |-> 0], reasoned |-> {}]
\* got: length of ResponseTextByIndex; reasoned: keys of ResponseReasoningByIndex

-----------------------------------------------------------------------------
(* The client                                                              *)

NewClient == [begun |-> FALSE, kind |-> <<>>, shut |-> {}, over |-> FALSE,
              reason |-> FALSE, tools |-> {}, fault |-> "none"]

\* An SDK that follows the protocol: blocks are numbered from 0 without a gap.
Breach(cl, e) ==
  CASE e.ev = "message_start" -> cl.begun
    [] e.ev = "message_stop"  -> cl.over \/ Cardinality(cl.shut) < Len(cl.kind)
    [] e.ev = "message_delta" -> cl.over
    [] e.ev = "start"         -> cl.over \/ ~cl.begun \/ e.i # Len(cl.kind)
    [] OTHER -> \/ cl.over \/ e.i >= Len(cl.kind) \/ e.i \in cl.shut
                \/ cl.kind[e.i + 1] # e.kind

Receive(cl, e) ==
  IF cl.fault # "none" THEN cl
  ELSE IF Breach(cl, e) THEN [cl EXCEPT !.fault = e.ev]
  ELSE CASE e.ev = "message_start" -> [cl EXCEPT !.begun = TRUE]
         [] e.ev = "message_stop"  -> [cl EXCEPT !.over = TRUE]
         [] e.ev = "message_delta" -> [cl EXCEPT !.reason = @ \/ e.i = 1]
         [] e.ev = "start"         -> [cl EXCEPT !.kind = Append(@, e.kind)]
         [] e.ev = "stop"          -> [cl EXCEPT !.shut = @ \cup {e.i}]
         [] OTHER                  -> cl

-----------------------------------------------------------------------------
(* Writing.  r.c is the context and r.cl the client.                       *)

Put(r, ev, i, kind) == [r EXCEPT !.cl = Receive(@, [ev |-> ev, i |-> i, kind |-> kind])]
Say(r, ev) == Put(r, ev, 0, "none")
\* message_delta with a stop reason, or with the usage only
Reason(r) == Put(r, "message_delta", 1, "none")

StopThinking(r) ==
  IF r.c.think THEN Put([r EXCEPT !.c.think = FALSE], "stop", r.c.ti, "thinking") ELSE r

StopText(r) ==
  IF r.c.text THEN Put([r EXCEPT !.c.text = FALSE], "stop", r.c.ci, "text") ELSE r

\* Mutant: the next block gets the number of the text block.
StopTextOnly(r) == StopText(r)

\* Another block follows.
LeaveText(r) == IF r.c.text THEN [StopText(r) EXCEPT !.c.ci = @ + 1] ELSE r

StartThinking(r) ==
  Put([r EXCEPT !.c.think = TRUE, !.c.ti = r.c.ci, !.c.ci = @ + 1], "start", r.c.ci, "thinking")

\* makeThinkEmitters
EmitText(r) ==
  LET s == IF r.c.text THEN r
           ELSE Put([r EXCEPT !.c.text = TRUE], "start", r.c.ci, "text")
  IN  Put(s, "delta", s.c.ci, "text")

EmitThinking(r) ==
  LET s == IF r.c.think THEN r ELSE StartThinking(LeaveText(r))
  IN  Put(s, "delta", s.c.ti, "thinking")

\* emitTextWithClose, emitThinkingWithClose
EmitTextAfter(r) ==
  EmitText(IF r.c.think /\ ~r.c.text /\ ~r.c.inTag THEN StopThinking(r) ELSE r)
EmitThought(r) == StopThinking(EmitThinking(r))

\* consumeThinkTaggedStream: a tag that may go on in the next chunk is kept
\* back, and "rest" is how it goes on.
Piece(r, t) ==
  IF r.c.inTag
  THEN CASE t \in {"close", "tag"} -> [r EXCEPT !.c.inTag = FALSE]
         [] t = "half"             -> [r EXCEPT !.c.half = TRUE]
         [] OTHER                  -> EmitThought(r)
  ELSE CASE t \in {"open", "tag"}  -> [r EXCEPT !.c.inTag = TRUE]
         [] t = "half"             -> [r EXCEPT !.c.half = TRUE]
         [] OTHER                  -> EmitTextAfter(r)

\* ThinkingBuffer goes before the chunk.
Pieces(half, text) ==
  IF ~half \/ Head(text) = "text" THEN text
  ELSE IF Head(text) = "rest" THEN <<"tag">> \o Tail(text) ELSE <<"text">> \o text

AppendText(r, text) == FoldLeft(Piece, [r EXCEPT !.c.half = FALSE], Pieces(r.c.half, text))

\* flushThinkTaggedStream
Flush(r) ==
  LET s == IF ~r.c.half THEN r ELSE IF r.c.inTag THEN EmitThinking(r) ELSE EmitText(r)
  IN  [s EXCEPT !.c.inTag = FALSE, !.c.half = FALSE]

StopTool(r, k) == Put([r EXCEPT !.c.tool[k].done = TRUE], "stop", r.c.tool[k].at, "tool")

\* claudeStartedToolKeys, sorted
StartedTools(c) == {k \in Tools : c.tool[k].begun /\ ~c.tool[k].done}
StopTools(r) == FoldLeft(StopTool, r, SetToSortSeq(StartedTools(r.c), <))

\* claudeToolBlockIndex and the start of the block; arguments that came before
\* it follow.
StartTool(r, k) ==
  LET at == IF r.c.tool[k].at # 99 THEN r.c.tool[k].at ELSE r.c.ci
      s  == [r EXCEPT !.c.tool[k].at = at, !.c.tool[k].begun = TRUE,
                      !.c.ci = IF r.c.tool[k].at # 99 THEN @ ELSE @ + 1]
      b  == Put(s, "start", at, "tool")
  IN  IF r.c.tool[k].args THEN Put(b, "delta", at, "tool") ELSE b

Arguments(r, k) ==
  LET s == [r EXCEPT !.c.tool[k].args = TRUE]
  IN  IF s.c.tool[k].begun THEN Put(s, "delta", s.c.tool[k].at, "tool") ELSE s

-----------------------------------------------------------------------------
(* From Chat                                                               *)

Begun(r) == IF r.c.start THEN r ELSE Say([r EXCEPT !.c.start = TRUE], "message_start")

ChatReasoning(r) ==
  LET s == IF r.c.think THEN r ELSE StartThinking(r)
  IN  Put(s, "delta", s.c.ti, "thinking")

\* One tool call of the delta: its id and name, or one of them, and arguments.
ChatTool(r, k, named, args) ==
  LET s == IF named = {} THEN r
           ELSE [LeaveText(StopThinking(r)) EXCEPT
                   !.c.tool[k].id = @ \/ "id" \in named,
                   !.c.tool[k].name = @ \/ "name" \in named]
      t == s.c.tool[k]
      b == IF named # {} /\ ~t.begun /\ t.id /\ t.name THEN StartTool(s, k) ELSE s
  IN  IF args THEN Arguments(b, k) ELSE b

ChatFinish(r) ==
  [Reason(StopTools(StopText(StopThinking(r)))) EXCEPT !.c.finish = TRUE]

ChatDone(r) ==
  LET s == StopTools(StopText(StopThinking(Flush(r))))
  IN  Say(IF s.c.finish THEN s ELSE Reason(s), "message_stop")

-----------------------------------------------------------------------------
(* From Responses: items have an output index, events of an item may be    *)
(* missing, and response.completed repeats all items.                      *)

\* missingOpenAI2Text; the text of an item is as long as it will get, or the
\* client has got so far.
MissingText(r, i, len) ==
  IF len > r.c.got[i] THEN AppendText([r EXCEPT !.c.got[i] = len], <<"text">>) ELSE r

TextDelta(r, i, text) == AppendText([r EXCEPT !.c.got[i] = @ + 1], text)

ReasoningDelta(r, i) == EmitThinking([r EXCEPT !.c.reasoned = @ \cup {i}])

MissingReasoning(r, i) == IF i \in r.c.reasoned THEN r ELSE ReasoningDelta(r, i)

ReasoningDone(r, i) == StopThinking(MissingReasoning(r, i))

ToolAdded(r, i) == StartTool(LeaveText(StopThinking(r)), i)

ToolDone(r, i) == IF r.c.tool[i].begun THEN StopTool(r, i) ELSE r

\* An item of response.completed.
CompletedItem(r, it) ==
  CASE it.kind = "message"   -> MissingText(r, it.i, it.len)
    [] it.kind = "reasoning" -> MissingReasoning(r, it.i)
    [] OTHER                 -> IF r.c.tool[it.i].begun THEN r
                                ELSE StopTool(Arguments(ToolAdded(r, it.i), it.i), it.i)

Completed(r, items) ==
  LET s == StopText(StopThinking(Flush(FoldLeft(CompletedItem, r, items))))
  IN  [Say(Reason(s), "message_stop") EXCEPT !.c.finish = TRUE]

ResponsesDone(r) ==
  LET s == StopTools(StopText(StopThinking(Flush(r))))
  IN  IF s.c.finish THEN s ELSE [Say(s, "message_stop") EXCEPT !.c.finish = TRUE]

-----------------------------------------------------------------------------
(* From Gemini: an event has parts; a call comes complete.                 *)

GeminiPart(r, part) ==
  CASE part = "thought" -> EmitThinking(LeaveText(r))
    [] part = "text"    -> EmitText(StopThinking(r))
    [] OTHER ->
         LET s == StopThinking(LeaveText(r))
             b == Put(Put(Put(s, "start", s.c.ci, "tool"), "delta", s.c.ci, "tool"),
                      "stop", s.c.ci, "tool")
         IN  [b EXCEPT !.c.ci = @ + 1]

GeminiFinish(r) ==
  [Say(Reason(StopThinking(StopText(r))), "message_stop") EXCEPT !.c.finish = TRUE]

GeminiDone(r) ==
  LET s == StopText(r) IN Say(IF s.c.finish THEN s ELSE Reason(s), "message_stop")

-----------------------------------------------------------------------------
(* The upstream.  asked.items are the items of a Responses answer so far,  *)
(* of which the last may be open; odd: it has done what the conversion     *)
(* does not expect.                                                        *)

NothingAsked == [items |-> <<>>, stage |-> "new", odd |-> FALSE]

BlocksInit ==
  /\ source \in Sources /\ ctx = NewContext /\ seen = NewClient
  /\ asked = NothingAsked /\ chunks = 0

Now == [c |-> ctx, cl |-> seen]
Gives(r) == ctx' = r.c /\ seen' = r.cl
Event == /\ asked.stage # "done" /\ chunks < MaxChunks[source] /\ chunks' = chunks + 1
         /\ UNCHANGED source
Asks(stage, odd) == asked' = [asked EXCEPT !.stage = stage, !.odd = @ \/ odd]

\* Chat: reasoning, texts and tool calls in any order, the finish, [DONE].
\* Reasoning while a text is open is odd: it takes the number of the text; and
\* so is half a tag before the finish: it opens the text's block again.
ChatEvent ==
  /\ source = "chat" /\ Event
  /\ \/ /\ asked.stage # "finished"
        /\ \/ Gives(ChatReasoning(Begun(Now))) /\ Asks("open", ctx.text)
           \/ \E text \in Texts : Gives(AppendText(Begun(Now), text)) /\ Asks("open", FALSE)
           \/ \E k \in Tools, named \in SUBSET {"id", "name"}, args \in BOOLEAN :
                Gives(ChatTool(Begun(Now), k, named, args)) /\ Asks("open", FALSE)
           \/ Gives(ChatFinish(Begun(Now))) /\ Asks("finished", ctx.half)
     \/ Gives(Put(Begun(Now), "message_delta", 0, "none")) /\ UNCHANGED asked
     \/ ctx.start /\ Gives(ChatDone(Now)) /\ Asks("done", FALSE)

Item(kind) == [kind |-> kind, i |-> Len(asked.items), len |-> 0, st |-> "new"]
Last0 == asked.items[Len(asked.items)]
Changes(it) == asked' = [asked EXCEPT !.items[Len(asked.items)] = it]

\* The next item comes when the last one is done, or has been left out.  An end
\* while an item is open is odd, and so is one without response.completed: the
\* client gets no stop reason.
ResponsesEvent ==
  /\ source = "responses" /\ Event
  /\ \/ /\ asked.stage = "new" /\ Gives(Say(Now, "message_start")) /\ Asks("open", FALSE)
     \/ /\ asked.stage = "open"
        /\ \/ /\ Len(asked.items) \in Tools
              /\ asked.items # <<>> => Last0.st # "open"
              /\ \E kind \in {"message", "reasoning", "function_call"} :
                   \/ /\ asked' = [asked EXCEPT !.items =
                                     Append(@, [Item(kind) EXCEPT !.len = 1, !.st = "omitted"])]
                      /\ UNCHANGED <<ctx, seen>>
                   \/ /\ asked' = [asked EXCEPT !.items =
                                     Append(@, [Item(kind) EXCEPT !.st = "open"])]
                      /\ IF kind = "function_call" THEN Gives(ToolAdded(Now, Len(asked.items)))
                         ELSE UNCHANGED <<ctx, seen>>
           \/ /\ asked.items # <<>> /\ Last0.st = "open"
              /\ LET it == Last0 IN
                 CASE it.kind = "message" ->
                        \/ \E text \in Texts : /\ Gives(TextDelta(Now, it.i, text))
                                               /\ Changes([it EXCEPT !.len = @ + 1])
                        \/ \E more \in 0..1 : /\ Gives(MissingText(Now, it.i, it.len + more))
                                              /\ Changes([it EXCEPT !.len = @ + more, !.st = "done"])
                   [] it.kind = "reasoning" ->
                        \/ Gives(ReasoningDelta(Now, it.i)) /\ UNCHANGED asked
                        \/ Gives(ReasoningDone(Now, it.i)) /\ Changes([it EXCEPT !.st = "done"])
                   [] OTHER ->
                        \/ Gives(Arguments(Now, it.i)) /\ UNCHANGED asked
                        \/ Gives(ToolDone(Now, it.i)) /\ Changes([it EXCEPT !.st = "done"])
           \/ /\ Gives(Completed(Now, asked.items))
              /\ Asks("finished", asked.items # <<>> /\ Last0.st = "open")
     \/ /\ asked.stage # "new" /\ Gives(ResponsesDone(Now))
        /\ Asks("done", asked.stage = "open")

\* Gemini's own API ends with the finish reason; [DONE] comes from relays.  It is
\* odd after the finish, which has ended the message, and while a thought is
\* open, which it does not stop.
GeminiEvent ==
  /\ source = "gemini" /\ Event
  /\ \/ /\ asked.stage # "finished"
        /\ \E parts \in SeqOf({"thought", "text", "call"}, 2), ends \in BOOLEAN :
             LET r == FoldLeft(GeminiPart, Begun(Now), parts)
             IN  /\ Gives(IF ends THEN GeminiFinish(r) ELSE r)
                 /\ Asks(IF ends THEN "finished" ELSE "open", FALSE)
     \/ /\ ctx.start /\ Gives(GeminiDone(Now))
        /\ Asks("done", ctx.think \/ ctx.finish)

BlocksNext == ChatEvent \/ ResponsesEvent \/ GeminiEvent

BlocksSpec == BlocksInit /\ [][BlocksNext]_blockVars

-----------------------------------------------------------------------------
(* Properties                                                              *)

BlocksTypeOK ==
  /\ source \in Sources /\ chunks \in 0..MaxChunks[source]
  /\ asked.stage \in {"new", "open", "finished", "done"}
  /\ ctx.ci \in Nat /\ ctx.ti \in Nat
  /\ \A k \in Tools : ctx.tool[k].done => ctx.tool[k].begun

\* An item of a Responses answer, as far as the client has got it.
Passed(it) == CASE it.kind = "message"   -> ctx.got[it.i] = it.len
                [] it.kind = "reasoning" -> it.i \in ctx.reasoned
                [] OTHER                 -> ctx.tool[it.i].begun

\* What the client gets is a message of Claude's: blocks numbered without gap
\* or repetition, filled only while they are open, all of them stopped at the
\* end, one end and a reason for it, however texts, tags, thoughts and
\* parallel tool calls come; and nothing is lost of what a Responses upstream
\* leaves out for its last event to repeat (OpenAIStreamToClaude,
\* OpenAI2StreamToClaude, GeminiStreamToClaude).  The exceptions are named
\* where asked.odd is set.
ClaudeBlocksSound ==
  \/ asked.odd
  \/ /\ seen.fault = "none"
     /\ seen.over => seen.reason
     /\ asked.stage = "done" => seen.over
     /\ asked.stage \in {"finished", "done"} => \A n \in DOMAIN asked.items : Passed(asked.items[n])
=============================================================================
