------------------------------ MODULE Answers -------------------------------
(***************************************************************************)
(* Answers that do not stream (src/internal/proxy/streaming.go, response.go, *)
(* semantic_empty.go).  An upstream that can only stream is gathered into   *)
(* one answer (handleStreamingAsNonStreaming with its two accumulators);   *)
(* others answer at once (handleNonStreamingResponse).  An answer without  *)
(* any output is refused, so that the request is tried again.  For a stream *)
(* that goes to the client the same is decided event by event              *)
(* (inspectSemanticStreamEvent), which is followed here beside it.          *)
(*                                                                         *)
(* Events carry their index.  The upstream has made a sequence of items;   *)
(* the text of a message and the arguments of a call are made of pieces.   *)
(* The conversion of the gathered answer is in Histories; the format of    *)
(* the client matters when the answer is judged, and is chosen there.      *)
(***************************************************************************)
EXTENDS Naturals, Sequences, SequencesExt, FiniteSetsExt

CONSTANTS
  Styles,      \* formats of the upstream: chat, responses, claude
  MaxOut,      \* bound: items
  MaxPieces,   \* bound: pieces of an item
  MaxHappened  \* bound: events

VARIABLES
  style,     \* [format, deltas, strict]: whether texts are told in deltas, and
             \* whether the agent asked for text (requireTextOutput)
  out,       \* the items: [kind, n: pieces, told: pieces in events, st]
  kept,      \* the accumulator: [text, item] by output index
  live,      \* semanticStreamInspection of the events
  counted,   \* output tokens of the answer
  latest,    \* what lastJSONPayload holds
  answer,    \* [verdict, items, listed: by what all items were listed, or "no"]
  happened   \* events so far

answerVars == <<style, out, kept, live, counted, latest, answer, happened>>

Thoughts == {"thought", "spoken"} \* a spoken one carries its content
Kinds == {"message", "call"} \cup Thoughts
Positions == 1..MaxOut
Piece(i, n) == [k \in 1..n |-> <<i, k>>]
Item(i) == [kind |-> out[i].kind, at |-> i, parts |-> Piece(i, out[i].n)]
Absent == [kind |-> "none", at |-> 0, parts |-> <<>>]
Is(format) == style.format = format

AnswersInit ==
  /\ style \in [format : Styles, deltas : BOOLEAN, strict : BOOLEAN]
  /\ out = <<>>
  /\ kept = [text |-> [i \in Positions |-> <<>>], item |-> [i \in Positions |-> Absent]]
  /\ live = [output |-> FALSE, progress |-> FALSE]
  /\ counted = 0 /\ latest = "none" /\ happened = 0
  /\ answer = [verdict |-> "none", items |-> <<>>, listed |-> "no"]

-----------------------------------------------------------------------------
(* What is gathered                                                        *)

TextIn(kinds, items) ==
  FlattenSeq([k \in 1..Len(items) |-> IF items[k].kind \in kinds THEN items[k].parts ELSE <<>>])
TextOf(items) == TextIn({"message"}, items)
\* extractResponseOutputText takes the content of thoughts for text.
Said(items) == TextIn({"message", "spoken"}, items)

\* inspectOpenAIResponsesPayload, inspectOpenAIChatPayload, inspectClaudePayload
HasOutput(items) == \/ TextOf(items) # <<>>
                    \/ \E k \in 1..Len(items) : items[k].kind = "call"

\* messageItemWithText: text of events stands for an item's own.
KeptItem(i) ==
  IF kept.text[i] = <<>> THEN kept.item[i]
  ELSE [kind |-> "message", at |-> i, parts |-> kept.text[i]]

\* output: what the list of response.completed has, and what was kept.
ResponsesOutput(list) ==
  list \o SelectSeq([i \in Positions |-> KeptItem(i)], LAMBDA it : it # Absent)

\* Mutant: what was kept is added to every list.
AlwaysAdds(list) == ResponsesOutput(list)

\* openAIResponsesStreamAccumulator.payload: nothing is added to a list that
\* has text.
ResponsesPayload(list) == IF Said(list) # <<>> THEN list ELSE ResponsesOutput(list)

\* openAIChatStreamAccumulator.payload: the content of the message and the calls
\* by index, whatever the finish reason.
ChatPayload ==
  LET message(i) == out[i].kind = "message"
      call(i) == out[i].kind = "call"
      made(test(_)) == SetToSortSeq({i \in 1..Len(out) : test(i)}, <)
      parts(seq) == [k \in 1..Len(seq) |-> [kind |-> out[seq[k]].kind, at |-> seq[k],
                                            parts |-> kept.text[seq[k]]]]
  IN  parts(made(message)) \o parts(made(call))

\* What a client of the format reads as text: converted, thoughts are no content.
Read(client, items) ==
  IF Is("responses") /\ client = "responses" THEN Said(items) ELSE TextOf(items)

\* semanticEmptyErrorForResponseWithTextRequirement, of the converted answer: one
\* in Claude's shape is refused whatever the usage says.
Refused(client, items) ==
  IF style.strict THEN Read(client, items) = <<>>
  ELSE ~HasOutput(items) /\ (counted = 0 \/ client = "claude")

Answer(verdict, items, listed) ==
  answer' = [verdict |-> verdict, items |-> items, listed |-> listed]

\* The answer is handed to the client or refused.
Deliver(client, items, listed) ==
  Answer(IF Refused(client, items) THEN "refused" ELSE "given", items, listed)

-----------------------------------------------------------------------------
(* Events                                                                  *)

Open == answer.verdict = "none" /\ happened < MaxHappened /\ latest \notin {"failed", "partial"}
Happens(event) == /\ latest' = event /\ happened' = happened + 1 /\ UNCHANGED <<style, answer>>
Sees(output, progress) == live' = [output |-> live.output \/ output,
                                   progress |-> live.progress \/ progress]

\* An item begins: response.output_item.added, content_block_start, or the
\* first delta of a kind.
Begins(kind) ==
  /\ Open /\ Len(out) < MaxOut
  /\ kind = "spoken" => Is("responses")
  /\ Is("responses") /\ out # <<>> => Last(out).st # "open"
  /\ Is("chat") => \A i \in 1..Len(out) : out[i].kind = kind => kind = "call"
  /\ out' = Append(out, [kind |-> kind, n |-> 0, told |-> 0, st |-> "open"])
  /\ Sees(kind = "call", kind \in Thoughts /\ Is("responses"))
  /\ Happens("added") /\ UNCHANGED <<kept, counted>>

\* The items whose pieces may come: several at a time in a Chat answer.
Growing == {i \in 1..Len(out) : /\ out[i].st = "open" /\ out[i].n < MaxPieces
                                /\ Is("chat") \/ i = Len(out)}

\* Are the pieces of the item kept as they come?
IsKept(kind) == IF Is("chat") THEN kind \in {"message", "call"} ELSE kind = "message"

\* A piece comes: response.output_text.delta, content_block_delta, or a chunk.
\* An upstream may keep its texts for the event that ends them.
Grows(i) ==
  LET kind == out[i].kind
      told == style.deltas \/ ~Is("responses")
      n == out[i].n + 1
  IN  /\ Open
      /\ out' = [out EXCEPT ![i].n = n, ![i].told = IF told THEN n ELSE @]
      /\ kept' = IF told /\ IsKept(kind) THEN [kept EXCEPT !.text[i] = Append(@, <<i, n>>)]
                 ELSE kept
      /\ Sees((told /\ kind = "message") \/ (Is("claude") /\ kind = "call"),
              told /\ kind \in Thoughts /\ ~Is("chat"))
      /\ Happens("delta") /\ UNCHANGED counted

\* response.output_text.done, with or without the text
TextEnds(whole) ==
  LET i == Len(out)
  IN  /\ Open /\ Is("responses") /\ i > 0 /\ out[i].kind = "message" /\ out[i].st = "open"
      /\ out' = [out EXCEPT ![i].st = "texted", ![i].told = IF whole THEN out[i].n ELSE @]
      /\ kept' = IF whole /\ out[i].n > 0 THEN [kept EXCEPT !.text[i] = Piece(i, out[i].n)]
                 ELSE kept
      /\ Sees(whole /\ out[i].n > 0, FALSE)
      /\ Happens("delta") /\ UNCHANGED counted

\* response.output_item.done
ItemEnds ==
  LET i == Len(out)
  IN  /\ Open /\ Is("responses") /\ i > 0 /\ out[i].st # "done"
      /\ out' = [out EXCEPT ![i].st = "done", ![i].told = out[i].n]
      /\ kept' = [kept EXCEPT !.item[i] = Item(i)]
      /\ Sees(IF out[i].kind = "message" THEN out[i].n > 0 ELSE out[i].kind = "call" \/ (out[i].kind = "spoken" /\ out[i].n > 0),
              out[i].kind \in Thoughts)
      /\ Happens("delta") /\ UNCHANGED counted

\* The response begins: response.created.
Creates == /\ Open /\ Is("responses") /\ latest = "none"
           /\ Happens("response") /\ UNCHANGED <<out, kept, live, counted>>

\* A chunk with usage, or message_delta.
Uses == /\ Open /\ ~Is("responses") /\ counted = 0 /\ counted' = 1
        /\ Happens("response") /\ UNCHANGED <<out, kept, live>>

\* An event the accumulators do not know, such as an error.
Complains == Open /\ Is("responses") /\ Happens("other") /\ UNCHANGED <<out, kept, live, counted>>

Ends == answer.verdict = "none" /\ UNCHANGED <<style, out, kept, latest, happened>>
All == [i \in 1..Len(out) |-> Item(i)]

\* response.failed, or response.incomplete with what there is: neither completes
\* the answer, and nothing is kept of them.  The stream ends.
Fails(event) ==
  /\ Open /\ Is("responses")
  /\ event = "partial" => HasOutput(All)
  /\ Happens(event) /\ UNCHANGED <<out, kept, live, counted>>

\* response.completed lists all items, or none, and has the usage.
Completes(client, full, n) ==
  LET list == IF full THEN All ELSE <<>>
      items == ResponsesPayload(list)
  IN  /\ Ends /\ Is("responses")
      /\ Sees(HasOutput(list), FALSE)
      /\ counted' = n
      /\ Answer(IF Refused(client, items)' THEN "refused" ELSE "given", items,
                IF full THEN "completed" ELSE "no")

\* The stream ends without it: [DONE], or a connection that was closed.  If
\* nothing was kept, the last event stands for the answer, and one that is not
\* recognised is handed on; converted, it is an empty answer.
Stops(client) ==
  LET items == IF Is("chat") THEN ChatPayload ELSE ResponsesOutput(<<>>)
      bare == Is("responses") /\ items = <<>>
  IN  /\ Ends /\ ~Is("claude") /\ UNCHANGED <<live, counted>>
      /\ CASE latest = "none" -> Answer("error", <<>>, "no")
           [] bare /\ latest = "partial" /\ client = "responses" /\ ~style.strict ->
                Answer("given", All, "partial")
           [] bare /\ latest \in {"added", "delta", "other"} /\ client = "responses" ->
                Answer("given", <<>>, "no")
           [] ~bare /\ latest # "none" -> Deliver(client, items, "no")
           [] OTHER -> Answer("refused", <<>>, "no")

\* handleNonStreamingResponse: the upstream answers at once; live has followed
\* what it would have streamed.
AnswersAtOnce(client) ==
  /\ Ends /\ Sees(HasOutput(All) /\ Is("responses"), FALSE) /\ UNCHANGED counted
  /\ Deliver(client, All, "whole")

\* Reading the stream fails.
Breaks == Ends /\ UNCHANGED <<live, counted>> /\ Answer("error", <<>>, "no")

AnswersNext ==
  \/ \E kind \in Kinds : Begins(kind)
  \/ \E i \in Growing : Grows(i)
  \/ \E whole \in BOOLEAN : TextEnds(whole)
  \/ \E event \in {"failed", "partial"} : Fails(event)
  \/ ItemEnds \/ Creates \/ Uses \/ Complains \/ Breaks
  \/ \E client \in Styles :
       \/ \E full \in BOOLEAN, n \in 0..1 : Completes(client, full, n)
       \/ Stops(client) \/ AnswersAtOnce(client)
AnswersSpec == AnswersInit /\ [][AnswersNext]_answerVars

-----------------------------------------------------------------------------
(* Properties                                                              *)

Listed == answer.listed # "no"
\* What the client should read, from what the upstream has told.
Expected == FlattenSeq([i \in 1..Len(out) |->
              IF out[i].kind # "message" THEN <<>>
              ELSE Piece(i, IF Listed THEN out[i].n ELSE out[i].told)])
WholeCalls == {i \in 1..Len(out) : out[i].kind = "call"
                                   /\ (Listed \/ Is("chat") \/ out[i].st = "done")}
\* A list without text is completed with what was kept, so an item that both
\* have is there twice.
Twice(i) == answer.listed = "completed" /\ out[i].st = "done" /\ Said(All) = <<>>

\* An answer has the whole text once and in order and every call whole and once;
\* what is refused had neither; and the judgement of the stream, event by event,
\* is that of the answer as a whole (openAIResponsesStreamAccumulator,
\* openAIChatStreamAccumulator, semanticEmptyErrorForResponse,
\* inspectSemanticStreamEvent).  Four exceptions are the code's: a list of
\* calls and thoughts is doubled, the content of a thought counts as output in
\* a stream, so does a call that was cut short, and the list of an incomplete
\* response counts only if no event has told of its items.
AnswersSound ==
  LET places(i) == {k \in 1..Len(answer.items) : answer.items[k].at = i}
  IN  /\ answer.verdict = "given" =>
           /\ TextOf(answer.items) = Expected
           /\ \A i \in WholeCalls :
                /\ Cardinality(places(i)) = IF Twice(i) THEN 2 ELSE 1
                /\ \A k \in places(i) : answer.items[k].parts = Piece(i, out[i].n)
      /\ answer.verdict = "refused" => /\ Expected = <<>>
                                       /\ style.strict \/ WholeCalls = {}
      /\ answer.verdict \in {"given", "refused"} =>
           /\ HasOutput(answer.items) => live.output \/ answer.listed = "partial"
           /\ live.output => \/ HasOutput(answer.items)
                             \/ \E i \in 1..Len(out) :
                                  \/ out[i].kind = "spoken" /\ out[i].n > 0
                                  \/ out[i].kind = "call" /\ i \notin WholeCalls
=============================================================================
