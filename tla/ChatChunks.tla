----------------------------- MODULE ChatChunks -----------------------------
(***************************************************************************)
(* Streams that are converted for clients of the Chat and Gemini formats:  *)
(* ClaudeStreamToOpenAI, OpenAI2StreamToOpenAI, GeminiStreamToOpenAI,      *)
(* ClaudeStreamToGemini, OpenAI2StreamToGemini, OpenAIStreamToGemini       *)
(* (src/internal/transformer/convert).                                     *)
(*                                                                         *)
(* Such a client joins the texts of the chunks, and a tool call must reach *)
(* it once and whole.  A text is a sequence of fragments, a call the       *)
(* number of fragments of its arguments.                                   *)
(***************************************************************************)
EXTENDS Naturals, Sequences, SequencesExt, FiniteSetsExt

CONSTANTS
  Conversions, \* pairs <<format of the upstream, format of the client>>
  MaxItems,    \* bound: blocks, items or calls of an answer
  MaxLength,   \* bound: fragments of an item
  MaxSent      \* bound: events of the upstream

VARIABLES
  pair,   \* the conversion
  given,  \* whether items carry ids, and whether texts of items look alike
  items,  \* what the upstream has produced; its place is the index less one
  conv,   \* the StreamContext
  got,    \* what has reached the client
  sent    \* [n, stage, odd]: events so far

chunkVars == <<pair, given, items, conv, got, sent>>

Places == 0..(MaxItems - 1)
Nobody == 99
NewConv == [text |-> [i \in Places |-> <<>>], id |-> [i \in Places |-> Nobody],
            call |-> [i \in Places |-> Nobody], args |-> [i \in Places |-> 0],
            chat |-> <<>>, ci |-> 0, fin |-> FALSE]
\* ResponseTextByIndex, ResponseOutputItemIDByIndex, Response- or Claude-
\* ToolCallID..., ...ToolArguments..., ResponseToolChatIndexByOutputIndex

Nothing == [text |-> <<>>, calls |-> <<>>, finish |-> "none", ends |-> 0]
From(f) == pair[1] = f
To(f) == pair[2] = f

\* The first n fragments of an item's text.
Text(i, n) == [k \in 1..n |-> <<IF given.alike THEN 0 ELSE i, k>>]
Fragment(i, n) == <<Text(i, n)[n]>>

-----------------------------------------------------------------------------
(* Conversion.  r.c is the context and r.g the client.                     *)

Chunk(r, text) == [r EXCEPT !.g.text = @ \o text]
CallChunk(r, index, item, args) ==
  [r EXCEPT !.g.calls = Append(@, [index |-> index, item |-> item, args |-> args])]
\* A chunk with a finish reason, and [DONE].
Finish(r, reason) == [r EXCEPT !.g.finish = reason]
DoneMark(r) == [r EXCEPT !.g.ends = @ + 1]

Known(c, i) == IF given.ids THEN [c EXCEPT !.id[i] = i] ELSE c

\* missingOpenAI2Text
Missing(c, i, full) ==
  IF IsPrefix(c.text[i], full) THEN SubSeq(full, Len(c.text[i]) + 1, Len(full)) ELSE <<>>
AddText(c, i, text) == [c EXCEPT !.text[i] = @ \o text]
AddMissing(r, i, full) ==
  LET m == Missing(r.c, i, full) IN [Chunk(r, m) EXCEPT !.c = AddText(@, i, m)]

\* openAI2ChatToolIndex: numbered in the order in which they are handed on.
ChatIndex(c, i) == IF Contains(c.chat, i) THEN c.chat ELSE Append(c.chat, i)
PlaceOf(chat, i) == CHOOSE k \in 0..(Len(chat) - 1) : chat[k + 1] = i

HandOn(r, i) ==
  LET chat == ChatIndex(r.c, i)
  IN  CallChunk([r EXCEPT !.c.chat = chat], PlaceOf(chat, i), r.c.call[i], r.c.args[i])

\* Mutant: the list of response.completed has the indices of the events.
ByPosition(c, pos, it) == pos

\* resolveOpenAI2CompletedOutputIndex: the list may lack items, so an item is
\* looked for by its id, its call's id or the longest text it goes on with.
Resolve(c, pos, it) ==
  LET byId   == {i \in Places : given.ids /\ c.id[i] = it.i}
      byCall == {i \in Places : it.kind = "call" /\ c.call[i] = it.i}
      byText == {i \in Places : /\ it.kind = "message" /\ c.text[i] # <<>>
                                /\ IsPrefix(c.text[i], Text(it.i, it.len))}
      long   == {i \in byText : \A j \in byText : Len(c.text[j]) <= Len(c.text[i])}
  IN  CASE byId # {}   -> Min(byId)
        [] byId = {} /\ byCall # {} -> Min(byCall)
        [] byId = {} /\ byCall = {} /\ long # {} -> Min(long)
        [] OTHER -> pos

\* Items of response.completed: calls nobody has heard of, then the texts.
CompletedCall(r, e) ==
  LET i == Resolve(r.c, e.pos, e.it)
  IN  IF e.it.kind # "call" \/ r.c.call[i] # Nobody THEN r
      ELSE HandOn([r EXCEPT !.c.call[i] = e.it.i, !.c.args[i] = @ + e.it.len], i)
CompletedText(r, e) ==
  IF e.it.kind # "message" THEN r
  ELSE AddMissing(r, Resolve(r.c, e.pos, e.it), Text(e.it.i, e.it.len))
CompletedChunk(r, list) ==
  LET es    == [k \in DOMAIN list |-> [pos |-> k - 1, it |-> list[k]]]
      calls == FoldLeft(CompletedCall, r, es)
      some  == \E i \in Places : calls.c.call[i] # Nobody
  IN  Finish(FoldLeft(CompletedText, calls, es), IF some THEN "tool_calls" ELSE "stop")

\* OpenAIStreamToGemini keeps calls back until the finish reason names them.
KeptCall(r, i) == IF r.c.call[i] = Nobody THEN r ELSE CallChunk(r, i, r.c.call[i], r.c.args[i])
KeptCalls(r) == FoldLeft(KeptCall, r, SetToSortSeq(Places, <))

-----------------------------------------------------------------------------
(* The upstream                                                            *)

ChunksInit ==
  /\ pair \in Conversions
  /\ given \in [ids : BOOLEAN, alike : BOOLEAN]
  /\ ~From("responses") => given.ids /\ ~given.alike
  /\ items = <<>> /\ conv = NewConv /\ got = Nothing
  /\ sent = [n |-> 0, stage |-> "open", odd |-> FALSE]

This == [c |-> conv, g |-> got]
Passes(r) == conv' = r.c /\ got' = r.g
Sends(odd) ==
  /\ sent.stage = "open" /\ sent.n < MaxSent
  /\ sent' = [sent EXCEPT !.n = @ + 1, !.odd = @ \/ odd]
  /\ UNCHANGED <<pair, given>>
Ends(stage, odd) ==
  /\ sent.stage # "done" /\ sent.n < MaxSent
  /\ sent' = [n |-> sent.n + 1, stage |-> stage, odd |-> sent.odd \/ odd]
  /\ UNCHANGED <<pair, given, items>>

Open(i) == i < Len(items) /\ items[i + 1].st = "open"
It(i) == items[i + 1]
NewItem(kind, len, st) ==
  /\ Len(items) < MaxItems
  /\ items' = Append(items, [i |-> Len(items), kind |-> kind, len |-> len, st |-> st])
Grows(i, more) == items' = [items EXCEPT ![i + 1].len = @ + more]
Closes(i, more) == items' = [items EXCEPT ![i + 1].len = @ + more, ![i + 1].st = "done"]
CallsSent == {i \in Places : i < Len(items) /\ It(i).kind = "call"}

\* A delta of a text: it is passed on as it comes.
TextComes(i) ==
  /\ Open(i) /\ It(i).kind = "message" /\ It(i).len < MaxLength /\ Sends(FALSE) /\ Grows(i, 1)
  /\ LET f == Fragment(i, It(i).len + 1)
     IN  Passes([Chunk(This, f) EXCEPT !.c = AddText(Known(@, i), i, f)])

\* A call and its arguments are recorded.
CallStarts(args) ==
  LET i == Len(items) IN
  /\ Sends(FALSE) /\ NewItem("call", args, "open")
  /\ conv' = [Known(conv, i) EXCEPT !.call[i] = i, !.args[i] = args] /\ UNCHANGED got
ArgumentsCome(i) ==
  /\ Open(i) /\ It(i).kind = "call" /\ It(i).len < MaxLength /\ Sends(FALSE) /\ Grows(i, 1)
  /\ conv' = [conv EXCEPT !.args[i] = @ + 1] /\ UNCHANGED got

\* Responses: several items may be open, items may be left out, and the last
\* event lists all of them, or all but the reasoning.
ResponsesSends ==
  /\ From("responses")
  /\ \/ \E kind \in {"message", "reasoning"} :
          /\ Sends(FALSE) /\ NewItem(kind, 0, "open") /\ UNCHANGED got
          /\ conv' = IF To("chat") THEN Known(conv, Len(items)) ELSE conv
     \/ \E kind \in {"message", "call"} : \* odd: a Gemini client gets no last event
          Sends(To("gemini")) /\ NewItem(kind, 1, "omitted") /\ UNCHANGED <<conv, got>>
     \/ \E args \in 0..1 : CallStarts(args)
     \/ \E i \in Places :
          \/ TextComes(i) \/ ArgumentsCome(i)
          \/ \E more \in 0..1 : \* output_text.done, odd if a Gemini client misses more
               /\ Open(i) /\ It(i).kind = "message" /\ It(i).len + more \in 1..MaxLength
               /\ Sends(To("gemini") /\ more = 1) /\ Closes(i, more)
               /\ IF To("gemini") THEN UNCHANGED <<conv, got>>
                  ELSE Passes(AddMissing(This, i, Text(i, It(i).len + more)))
          \/ \E more \in 0..1 : \* output_item.done: arguments only if there are none
               /\ Open(i) /\ It(i).kind = "call" /\ (more = 1 => It(i).len = 0)
               /\ Sends(FALSE) /\ Closes(i, more)
               /\ Passes(HandOn([This EXCEPT !.c.args[i] = @ + more], i))
     \/ \E compact \in BOOLEAN : \* response.completed
          LET list == SelectSeq(items, LAMBDA it : ~(compact /\ it.kind = "reasoning"))
              left == {i \in Places : i < Len(items) /\ It(i).st = "omitted"}
          IN  /\ sent.stage = "open"
              \* odd: a call is still open; an item is new and its place in the
              \* list another's; texts cannot be told apart
              /\ Ends("finished", \/ \E i \in CallsSent : Open(i)
                                  \/ Len(list) < Len(items) /\ left # {}
                                  \/ given.alike /\ (~given.ids \/ left # {}))
              /\ IF To("chat") THEN Passes(CompletedChunk(This, list))
                 ELSE UNCHANGED <<conv, got>>
     \/ sent.stage = "finished" /\ Ends("done", FALSE) /\ Passes(DoneMark(This))

\* Claude: one block at a time; the end names the calls.
ClaudeSends ==
  /\ From("claude")
  /\ \/ /\ \A i \in Places : ~Open(i)
        /\ \/ CallStarts(0)
           \/ \E kind \in {"message", "reasoning"} :
                Sends(FALSE) /\ NewItem(kind, 0, "open") /\ UNCHANGED <<conv, got>>
     \/ \E i \in Places :
          \/ TextComes(i) \/ ArgumentsCome(i)
          \/ /\ Open(i) /\ Sends(FALSE) /\ Closes(i, 0)
             /\ Passes(IF It(i).kind = "call" THEN CallChunk(This, i, i, conv.args[i]) ELSE This)
     \/ /\ sent.stage = "open" /\ \A i \in Places : ~Open(i)
        /\ Ends("finished", FALSE)
        /\ LET tools == CallsSent # {} IN
           Passes(CASE To("chat") -> Finish(This, IF tools THEN "tool_calls" ELSE "stop")
                    [] To("gemini") /\ tools -> DoneMark([This EXCEPT !.c.fin = TRUE])
                    [] OTHER -> This)
     \/ /\ sent.stage = "finished" /\ Ends("done", FALSE)
        /\ Passes(IF conv.fin THEN This ELSE DoneMark(This))

\* Gemini, for a Chat client: a call comes whole.  Odd: the event with the
\* finish has no call, but an earlier one had; [DONE] comes after the finish.
GeminiSends ==
  /\ From("gemini")
  /\ \/ /\ Sends(FALSE) /\ NewItem("message", 1, "done")
        /\ Passes(Chunk(This, Fragment(Len(items), 1)))
     \/ /\ Sends(FALSE) /\ NewItem("call", 1, "done")
        /\ Passes([CallChunk(This, conv.ci, Len(items), 1) EXCEPT !.c.ci = @ + 1])
     \/ /\ sent.stage = "open" /\ Ends("finished", CallsSent # {})
        /\ Passes(DoneMark(Finish(This, "stop")))
     \/ /\ sent.stage = "open" /\ sent.n < MaxSent
        /\ NewItem("call", 1, "done") /\ UNCHANGED <<pair, given>>
        /\ sent' = [sent EXCEPT !.n = @ + 1, !.stage = "finished"]
        /\ Passes(DoneMark(Finish([CallChunk(This, conv.ci, Len(items), 1)
                                     EXCEPT !.c.ci = @ + 1], "tool_calls")))
     \/ sent.stage = "finished" /\ Ends("done", TRUE) /\ Passes(DoneMark(This))

\* Chat, for a Gemini client.  Odd: a chunk with a text and a call, or a finish
\* that does not name the calls; they are lost.
ChatSends ==
  /\ From("chat")
  /\ \/ /\ Sends(FALSE) /\ NewItem("message", 1, "done")
        /\ Passes(Chunk(This, Fragment(Len(items), 1)))
     \/ \E args \in 0..1 : CallStarts(args)
     \/ \E i \in Places : ArgumentsCome(i)
     \/ \E reason \in {"stop", "tool_calls"} :
          /\ sent.stage = "open" /\ Ends("finished", reason = "stop" /\ CallsSent # {})
          /\ Passes(IF reason = "tool_calls" THEN KeptCalls(This) ELSE This)
     \/ sent.stage = "finished" /\ Ends("done", FALSE) /\ Passes(DoneMark(This))

ChunksNext == ResponsesSends \/ ClaudeSends \/ GeminiSends \/ ChatSends

ChunksSpec == ChunksInit /\ [][ChunksNext]_chunkVars

-----------------------------------------------------------------------------
(* Properties                                                              *)

ChunksTypeOK ==
  /\ pair \in Conversions /\ Len(items) <= MaxItems /\ sent.n \in 0..MaxSent
  /\ sent.stage \in {"open", "finished", "done"}
  /\ \A i \in Places : conv.call[i] \in Places \cup {Nobody}

CountOf(s, x) == Cardinality({k \in DOMAIN s : s[k] = x})

\* All fragments of all texts.
AllText ==
  FoldLeft(LAMBDA s, it : IF it.kind = "message" THEN s \o Text(it.i, it.len) ELSE s, <<>>, items)

\* At the end the client has every fragment of every text once and every call
\* once, whole and under a number of its own, however items interleave, are
\* left out of the stream or out of the last list; it is told to run tools
\* exactly if there are calls; and it sees one [DONE] (the conversions named
\* above).  The exceptions are named where `odd' is set.
ChunksSound ==
  \/ sent.odd
  \/ /\ sent.stage \in {"finished", "done"} =>
          /\ \A f \in Places \X (1..MaxLength) : CountOf(got.text, f) = CountOf(AllText, f)
          /\ \A i \in CallsSent : CountOf([k \in DOMAIN got.calls |-> got.calls[k].item], i) = 1
          /\ \A k \in DOMAIN got.calls : got.calls[k].args = It(got.calls[k].item).len
          /\ IsInjective([k \in DOMAIN got.calls |-> got.calls[k].index])
          /\ pair \in {<<"responses", "chat">>, <<"gemini", "chat">>} =>
               \A k \in DOMAIN got.calls : got.calls[k].index = k - 1
          /\ To("chat") => got.finish = IF CallsSent # {} THEN "tool_calls" ELSE "stop"
     /\ got.ends <= 1 /\ (sent.stage = "done" => got.ends = 1)
=============================================================================
