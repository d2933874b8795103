--------------------------- MODULE StreamSession ---------------------------
(***************************************************************************)
(* The stream of one request to its client: downstreamStreamSession and    *)
(* handleStreamingResponse (src/internal/proxy/streaming.go) and the ways  *)
(* on which handleProxy ends or retries it (src/internal/proxy/proxy.go).  *)
(*                                                                         *)
(* Two goroutines write to the client: the request, which reads events of  *)
(* the upstream, converts, withholds and writes them, and a heartbeat.     *)
(* They share the session's lock, which the request takes several times    *)
(* for one event.  Events are kinds; texts, ids and numbers are left out.  *)
(***************************************************************************)
EXTENDS Naturals, Lists, FiniteSets, SequencesExt

CONSTANTS
  Clients,      \* kinds of clients of the run
  MaxAttempts,  \* attempts a request may make
  MaxEvents,    \* events the upstreams of a client send in all attempts together
  MaxBeats      \* heartbeats that find the stream open

AllClients == {"python", "js", "plain", "codex", "claude"}

ASSUME StreamAssumption ==
  /\ Clients \subseteq AllClients
  /\ MaxAttempts \in Nat \ {0} /\ MaxEvents \in [Clients -> Nat] /\ MaxBeats \in Nat

VARIABLES
  client,   \* the kind of the client
  gone,     \* the client has closed its connection
  session,  \* the fields of downstreamStreamSession under its lock
  beating,  \* the heartbeat goroutine is running
  beats,    \* heartbeats written
  pc,       \* where the request's goroutine is
  att,      \* the attempt: its number, whether its stream is converted, events
            \* read, whether the converter has begun (MessageStartSent) and
            \* the upstream has sent the end, attempts with a created event
  obs,      \* openAIResponsesCompletionState of the attempt
  buf,      \* events converted and not yet handed to the session
  pending,  \* events withheld until there is output (pendingWrites)
  res,      \* streamResponseResult: WroteData, WroteSemanticData, Reason
  sent      \* what the client has received: kinds with their attempt

vars == <<client, gone, session, beating, beats, pc, att, obs, buf, pending,
          res, sent>>

Kinds == {"created", "meta", "reason", "text", "function", "custom", "input",
          "tooldone", "part", "completed", "hollow"}
ToolKinds == {"function", "custom", "input", "tooldone"}
Terminal == {"completed", "hollow", "error"}
Reasons == {"none", "completed", "missing", "empty", "canceled", "write_failed",
            "upstream_error", "transform", "rejected"}
Events     == Kinds \cup {"error"}
NotCreated == Events \ {"created"}
Public     == Kinds \ {"meta"}

-----------------------------------------------------------------------------
(* What depends on the client                                              *)

Responses  == client # "claude"
\* shouldNormalizeStandardOpenAIResponsesStream
Strict     == Responses /\ client # "codex"
\* shouldTolerateMissingOpenAIResponsesCompleted
Tolerant   == client = "js"
\* the agents named in shouldCompleteInterruptedOpenAIResponsesStream
Completing == client \in {"python", "js", "codex"}

-----------------------------------------------------------------------------
(* The state of the answer that the proxy derives from the events          *)

Blank == [completed |-> FALSE, text |-> FALSE, tool |-> "none", part |-> FALSE]

\* observeJSON, of several events; tools of one answer follow each other.
Observed(o, data) ==
  LET tools == Kept(data, ToolKinds)
  IN  [completed |-> o.completed \/ Contains(data, "completed") \/ Contains(data, "hollow"),
       text |-> o.text \/ Contains(data, "text"),
       part |-> o.part \/ Contains(data, "part"),
       tool |-> IF tools = <<>> THEN o.tool
                ELSE IF Last(tools) = "tooldone" THEN "done" ELSE Last(tools)]

\* updateToolSafety
Pending(o) == o.tool \in {"function", "custom", "input"}
Unsafe(o)  == o.part \/ Pending(o)

\* Mutant: a pending tool call does not matter.
CanSynthesizeAnyway(o) == ~o.completed /\ (o.text \/ o.tool # "none")

CanSynthesize(o) == ~o.completed /\ ~Unsafe(o) /\ (o.text \/ o.tool = "done")

\* canSynthesizeInterruptedCustomToolInputCompleted
CanFinishInput(o) == ~o.completed /\ ~o.part /\ o.tool = "input"

\* inspectSemanticStreamJSON
HasOutput(k)   == k \in {"text", "function", "custom", "input", "tooldone",
                         "completed"}
HasProgress(k) == k = "reason"

-----------------------------------------------------------------------------
(* The session                                                             *)

NewSession == [started |-> FALSE, done |-> FALSE, closed |-> FALSE,
               written |-> FALSE, reserved |-> FALSE, waiting |-> FALSE]

\* Mutant: the filter of strict clients is used for all.
PassesStrict(s) == ~s.written

\* filterDuplicateOpenAIResponsesCreatedLocked: whether a created event that
\* reaches Write goes on to the client, ...
Passes(s) == ~s.written \/ (~Strict /\ s.waiting)

\* ... and what is noted of it.
Wrote(s, data) ==
  IF ~Responses \/ ~Contains(data, "created") THEN s
  ELSE IF s.written THEN [s EXCEPT !.waiting = Strict /\ @]
  ELSE [s EXCEPT !.written = TRUE, !.reserved = FALSE]

Filtered(s, data) ==
  IF ~Responses \/ Passes(s) THEN data ELSE Kept(data, NotCreated)

From(a, data) == [i \in 1..Len(data) |-> [k |-> data[i], a |-> a]]

\* downstreamStreamSession.Write of several events, while it is open.
Deliver(data) ==
  /\ sent' = sent \o From(att.n, Filtered(session, data))
  /\ session' = Wrote(session, data)

\* prepareOpenAIResponsesData: private events are dropped, the answer begins
\* with one created event, which is reserved until it is written.
PreparedFor(s, data) ==
  LET public == Kept(data, Public)
      rest   == Kept(public, NotCreated)
  IN  IF public = <<>> \/ s.written \/ s.reserved THEN rest
      ELSE <<"created">> \o rest

Reserve(s, data) ==
  LET public == Kept(data, Public)
  IN  IF public = <<>> \/ s.written \/ s.reserved THEN s
      ELSE [s EXCEPT !.reserved = TRUE,
                     !.waiting = @ \/ Head(public) # "created"]

\* releaseOpenAIResponsesCreatedReservation
Released(s) == IF Strict /\ ~s.written
               THEN [s EXCEPT !.reserved = FALSE, !.waiting = FALSE] ELSE s

-----------------------------------------------------------------------------

NoAttempt == [n |-> 0, conv |-> FALSE, up |-> 0, first |-> TRUE,
              begun |-> FALSE, over |-> FALSE, named |-> {}]
NoResult  == [wrote |-> FALSE, semantic |-> FALSE, why |-> "none"]

Init ==
  /\ client \in Clients /\ gone = FALSE
  /\ session = NewSession /\ beating = FALSE /\ beats = 0
  /\ pc = "start" /\ att = NoAttempt /\ obs = Blank
  /\ buf = <<>> /\ pending = <<>> /\ res = NoResult /\ sent = <<>>

\* Start commits the headers and starts the heartbeat.
StartSession ==
  /\ pc = "start"
  /\ session' = [session EXCEPT !.started = TRUE] /\ beating' = TRUE
  /\ pc' = "attempt"
  /\ UNCHANGED <<client, gone, beats, att, obs, buf, pending, res, sent>>

\* handleStreamingResponse begins to read; the endpoint speaks the client's
\* format or is converted.
BeginAttempt ==
  /\ pc = "attempt" /\ att.n < MaxAttempts
  /\ \E conv \in BOOLEAN :
       /\ conv => Responses
       /\ att' = [att EXCEPT !.n = @ + 1, !.conv = conv, !.first = TRUE,
                             !.begun = FALSE, !.over = FALSE]
  /\ pc' = "read"
  /\ UNCHANGED <<client, gone, session, beating, beats, obs, buf, pending,
                 res, sent>>

\* handleProxy runs out of attempts: "All endpoints failed".
GiveUp ==
  /\ pc = "attempt" /\ att.n = MaxAttempts
  /\ buf' = <<"error">> /\ pc' = "tell"
  /\ UNCHANGED <<client, gone, session, beating, beats, att, obs, pending,
                 res, sent>>

\* What an upstream may send next.
Offers ==
  LET more  == {"reason", "text", "function"}
      own   == {"custom", "part", "completed"}
                 \cup (IF att.first THEN {"created", "meta"} ELSE {})
                 \cup (IF obs.tool \in {"custom", "input"} THEN {"input"} ELSE {})
                 \cup (IF Pending(obs) THEN {"tooldone"} ELSE {})
  IN  IF att.over THEN {}
      ELSE more \cup {"hollow"}
           \cup (IF Responses /\ ~att.conv THEN own ELSE {})

\* The converter (OpenAIStreamToOpenAI2): reasoning stays inside, the first
\* output is preceded by a created event unless the session has sent one,
\* the end closes tools and text.
Converted(k, begun) ==
  LET first == IF begun THEN <<>> ELSE <<"created">>
  IN  CASE k = "reason" -> <<>>
        [] k = "hollow" -> first
             \o (IF Pending(obs) THEN <<"tooldone">> ELSE <<>>)
             \o (IF obs.text \/ obs.tool # "none" THEN <<"completed">>
                                                  ELSE <<"hollow">>)
        [] OTHER        -> first \o <<k>>

\* A complete event has been read: primeStreamContext, then the conversion.
ReadEvent(k) ==
  /\ pc = "read" /\ k \in Offers /\ att.up < MaxEvents[client]
  /\ LET begun == att.begun \/ (Responses /\ session.waiting)
     IN  /\ buf' = IF att.conv THEN Converted(k, begun) ELSE <<k>>
         /\ att' = [att EXCEPT !.up = @ + 1, !.first = FALSE, !.over = k \in Terminal,
                      !.begun = begun \/ (att.conv /\ k # "reason"),
                      !.named = IF k = "created" THEN @ \cup {att.n} ELSE @]
  /\ pc' = IF Strict THEN "prepare" ELSE "emit"
  /\ UNCHANGED <<client, gone, session, beating, beats, obs, pending, res,
                 sent>>

Prepare ==
  /\ pc = "prepare"
  /\ buf' = PreparedFor(session, buf)
  /\ session' = Reserve(session, buf)
  /\ pc' = "emit"
  /\ UNCHANGED <<client, gone, beating, beats, att, obs, pending, res, sent>>

\* observe, and writeTransformedEvent: output opens the stream, progress only lets pass
\* what has been withheld; everything else waits.  A failed write ends the
\* attempt.
Emit ==
  LET output == \E i \in DOMAIN buf : HasOutput(buf[i])
      moves  == output \/ res.wrote
                  \/ \E i \in DOMAIN buf : HasProgress(buf[i])
      all    == pending \o buf
  IN
  /\ pc = "emit"
  /\ IF buf = <<>> \/ ~moves
     THEN /\ pending' = all
          /\ pc' = "read"
          /\ UNCHANGED <<session, sent, res>>
     ELSE IF gone
     THEN /\ pc' = "leave"
          /\ \E why \in {"canceled", "write_failed"} : res' = [res EXCEPT !.why = why]
          /\ UNCHANGED <<session, sent, pending>>
     ELSE /\ Deliver(all)
          /\ pending' = <<>> /\ pc' = "read"
          /\ res' = [res EXCEPT !.wrote = TRUE, !.semantic = @ \/ output]
  /\ obs' = Observed(obs, buf) /\ buf' = <<>>
  /\ UNCHANGED <<client, gone, beating, beats, att>>

-----------------------------------------------------------------------------
(* The end of an attempt                                                   *)

\* writeSyntheticResponsesCompletion
Synthesize ==
  LET data == pending \o (IF Strict THEN PreparedFor(session, <<"completed">>)
                                    ELSE <<"completed">>)
  IN  /\ ~Tolerant /\ CanSynthesize(obs)
      /\ sent' = sent \o From(att.n, Filtered(session, data))
      /\ session' = Wrote(IF Strict THEN Reserve(session, <<"completed">>)
                                    ELSE session, data)
      /\ pending' = <<>>
      /\ obs' = [obs EXCEPT !.completed = TRUE]

Finishes == ~Responses \/ obs.completed
Left     == <<client, gone, beating, beats, att>>

\* [DONE] after a complete answer: nothing more is written.
Done ==
  /\ pc = "read" /\ Finishes
  /\ res' = [res EXCEPT !.why = "completed"] /\ pc' = "judge"
  /\ UNCHANGED <<Left, session, obs, buf, pending, sent>>

\* [DONE] before there was a completed event: one is made, and then [DONE]
\* itself is converted.  A converter that has not seen the end yet writes
\* the end of the answer on [DONE].
DoneEarly ==
  /\ pc = "read" /\ ~Finishes /\ ~gone
  /\ \/ /\ Synthesize
        /\ res' = [res EXCEPT !.why = "completed", !.wrote = TRUE,
                              !.semantic = TRUE]
        /\ buf' = IF att.conv THEN <<"completed">> ELSE <<>>
        /\ pc' = "last"
     \/ /\ ~(~Tolerant /\ CanSynthesize(obs))
        /\ res' = [res EXCEPT !.why = "missing"] /\ pc' = "leave"
        /\ UNCHANGED <<session, obs, buf, pending, sent>>
  /\ UNCHANGED Left

\* What [DONE] was converted to.
EmitLast ==
  /\ pc = "last"
  /\ IF gone
     THEN /\ res' = [res EXCEPT !.why = "write_failed"] /\ pc' = "leave"
          /\ UNCHANGED <<session, sent>>
     ELSE /\ Deliver(buf) /\ pc' = "judge" /\ UNCHANGED res
  /\ buf' = <<>>
  /\ UNCHANGED <<Left, obs, pending>>

\* The upstream closes its stream without [DONE].
EndOfFile ==
  /\ pc = "read" /\ ~gone
  /\ \/ /\ Finishes /\ res' = [res EXCEPT !.why = "completed"] /\ pc' = "judge"
        /\ UNCHANGED <<session, obs, pending, sent>>
     \/ /\ ~Finishes /\ Synthesize
        /\ res' = [res EXCEPT !.why = "completed", !.wrote = TRUE,
                              !.semantic = TRUE]
        /\ pc' = "judge"
     \/ /\ ~Finishes /\ ~(~Tolerant /\ CanSynthesize(obs))
        /\ res' = [res EXCEPT !.why = "missing"] /\ pc' = "leave"
        /\ UNCHANGED <<session, obs, pending, sent>>
  /\ UNCHANGED <<Left, buf>>

\* The client cancels, the stream breaks, an error event arrives, or an event
\* cannot be converted.  An upstream that has sent the end sends no error event.
Broken ==
  /\ pc = "read"
  /\ \/ /\ gone' = TRUE /\ res' = [res EXCEPT !.why = "canceled"]
     \/ /\ ~gone /\ UNCHANGED gone
        /\ \E why \in {"upstream_error", "transform", "rejected"} :
             /\ why = "rejected" => ~att.over
             /\ res' = [res EXCEPT !.why = why]
  /\ pc' = "leave"
  /\ UNCHANGED <<client, beating, beats, att, session, obs, buf, pending,
                 sent>>

\* An answer without output is an error, unless its token count says that
\* there was some; then what was withheld is written.
Judge ==
  /\ pc = "judge"
  /\ \/ /\ res.semantic /\ UNCHANGED <<session, sent, pending, res>>
     \/ /\ ~res.semantic
        /\ res' = [res EXCEPT !.why = "empty"]
        /\ UNCHANGED <<session, sent, pending>>
     \/ /\ ~res.semantic /\ Responses
        /\ IF gone THEN /\ res' = [res EXCEPT !.why = "write_failed"]
                        /\ UNCHANGED <<session, sent, pending>>
                   ELSE /\ Deliver(pending) /\ pending' = <<>>
                        /\ res' = [res EXCEPT !.wrote = TRUE]
  /\ pc' = "leave"
  /\ UNCHANGED <<Left, obs, buf>>

-----------------------------------------------------------------------------
(* What handleProxy makes of it                                            *)

\* interruptedOpenAIResponsesCompletionEvents
Interrupted ==
  CASE Completing /\ CanSynthesize(obs)              -> <<"completed">>
    [] client = "codex" /\ CanFinishInput(obs)       -> <<"tooldone", "completed">>
    [] OTHER                                         -> <<"error">>

\* A stream that ends too early after part of it has been written.
Breaks == \/ res.why = "missing" /\ res.wrote
          \/ res.why = "upstream_error" /\ res.semantic

Broke ==
  IF res.why = "missing"
  THEN IF Tolerant /\ ~Pending(obs) THEN <<>> ELSE Interrupted
  ELSE IF Completing /\ CanSynthesize(obs) THEN <<"completed">> ELSE <<"error">>

\* Mutant: the rejection of the last endpoint is not passed on.
TellingLess ==
  IF Breaks THEN Broke
  ELSE IF \/ res.why \in {"missing", "upstream_error"}
          \/ res.why = "empty" /\ res.wrote
       THEN <<"error">> ELSE <<>>

\* What the client is told when the request ends here.
Telling ==
  IF Breaks THEN Broke
  ELSE IF \/ res.why \in {"rejected", "missing", "upstream_error"}
          \/ res.why = "empty" /\ res.wrote
       THEN <<"error">> ELSE <<>>

\* The exits of the loop body that try again; a request pinned to its
\* endpoint ends where another one goes on.
MayRetry == \/ res.why = "rejected"
            \/ res.why \in {"missing", "empty"} /\ ~res.wrote
            \/ res.why = "upstream_error" /\ ~res.semantic

MustRetry == res.why = "empty" /\ ~res.wrote

\* handleStreamingResponse returns (its deferred release included).
Retry ==
  /\ pc = "leave" /\ MayRetry
  /\ session' = Released(session) /\ obs' = Blank /\ pending' = <<>>
  /\ res' = NoResult /\ pc' = "attempt"
  /\ UNCHANGED <<Left, buf, sent>>

Conclude ==
  /\ pc = "leave" /\ ~MustRetry
  /\ session' = Released(session)
  /\ buf' = Telling /\ obs' = Blank /\ pending' = <<>>
  /\ res' = [NoResult EXCEPT !.why = res.why] /\ pc' = "tell"
  /\ UNCHANGED <<Left, sent>>

Tell ==
  /\ pc = "tell"
  /\ IF gone THEN UNCHANGED <<session, sent>> ELSE Deliver(buf)
  /\ buf' = <<>> /\ pc' = "close"
  /\ UNCHANGED <<Left, obs, pending, res>>

\* Mutant: the goroutine of the heartbeat is not told.
CloseSilently ==
  /\ pc = "close" /\ ~session.done
  /\ session' = [session EXCEPT !.closed = TRUE]
  /\ pc' = "ended"
  /\ UNCHANGED <<Left, obs, buf, pending, res, sent>>

\* Close: first the channel, then the flag under the lock; after that the
\* handler returns and its ResponseWriter must not be used any more.
CloseChannel ==
  /\ pc = "close" /\ ~session.done
  /\ session' = [session EXCEPT !.done = TRUE]
  /\ UNCHANGED <<Left, pc, obs, buf, pending, res, sent>>

CloseFlag ==
  /\ pc = "close" /\ session.done
  /\ session' = [session EXCEPT !.closed = TRUE]
  /\ pc' = "ended"
  /\ UNCHANGED <<Left, obs, buf, pending, res, sent>>

-----------------------------------------------------------------------------
(* The heartbeat, and the client                                           *)

\* Mutant: the flag is not tested.
BeatOpen == beating /\ session.started

Open == beating /\ session.started /\ ~session.closed

\* writeHeartbeat: a client of the Responses format that has seen no created
\* event, and for which none is reserved, gets one; others a keep-alive.
Beat ==
  /\ Open /\ beats < MaxBeats /\ ~gone
  /\ beats' = beats + 1
  /\ IF Responses /\ ~session.written /\ ~session.reserved
     THEN /\ sent' = Append(sent, [k |-> "created", a |-> 0])
          /\ session' = [session EXCEPT !.written = TRUE, !.waiting = TRUE]
     ELSE /\ sent' = Append(sent, [k |-> "ping", a |-> 0])
          /\ UNCHANGED session
  /\ UNCHANGED <<client, gone, beating, pc, att, obs, buf, pending, res>>

\* heartbeatLoop returns.
BeatLoopEnds ==
  /\ beating /\ session.done /\ beating' = FALSE
  /\ UNCHANGED <<client, gone, session, beats, pc, att, obs, buf, pending,
                 res, sent>>

\* The client is gone; the request finds out when it writes (or in Broken).
Disconnect ==
  /\ ~gone /\ pc \in {"emit", "last", "judge", "tell"} /\ gone' = TRUE
  /\ UNCHANGED <<client, session, beating, beats, pc, att, obs, buf, pending,
                 res, sent>>

Request ==
  \/ StartSession \/ BeginAttempt \/ GiveUp
  \/ \E k \in Kinds : ReadEvent(k)
  \/ Prepare \/ Emit
  \/ Done \/ DoneEarly \/ EmitLast \/ EndOfFile \/ Broken \/ Judge
  \/ Retry \/ Conclude \/ Tell \/ CloseChannel \/ CloseFlag

Next == Request \/ Beat \/ BeatLoopEnds \/ Disconnect

\* The request's goroutine and the heartbeat's loop go on; an upstream that
\* is silent runs into a timeout (Broken).
Spec == Init /\ [][Next]_vars /\ WF_vars(Request) /\ WF_vars(BeatLoopEnds)

-----------------------------------------------------------------------------
(* Properties                                                              *)

TypeOK ==
  /\ client \in Clients /\ gone \in BOOLEAN
  /\ session \in [started : BOOLEAN, done : BOOLEAN, closed : BOOLEAN,
                  written : BOOLEAN, reserved : BOOLEAN, waiting : BOOLEAN]
  /\ beating \in BOOLEAN /\ beats \in 0..MaxBeats
  /\ pc \in {"start", "attempt", "read", "prepare", "emit", "last", "judge",
             "leave", "tell", "close", "ended"}
  /\ att \in [n : 0..MaxAttempts, conv : BOOLEAN, up : 0..MaxEvents[client],
              first : BOOLEAN, begun : BOOLEAN, over : BOOLEAN,
              named : SUBSET (0..MaxAttempts)]
  /\ obs \in [completed : BOOLEAN, text : BOOLEAN, part : BOOLEAN,
              tool : {"none", "function", "custom", "input", "done"}]
  /\ buf \in Seq(Events) /\ pending \in Seq(Events)
  /\ res \in [wrote : BOOLEAN, semantic : BOOLEAN, why : Reasons]
  /\ sent \in Seq([k : Events \cup {"ping"}, a : 0..MaxAttempts])

\* A client of the Responses format that is not Codex sees one created event,
\* before any other, and no private event, whoever of the request and the
\* heartbeat comes first and however many attempts there are
\* (prepareOpenAIResponsesData, writeOpenAIResponsesWaitingCreatedIfNeeded).
\* Codex, to which a heartbeat may send one too, sees the upstream's own
\* created event with its id before anything that follows it
\* (filterDuplicateOpenAIResponsesCreatedLocked).
CreatedFirst ==
  /\ TypeOK
  /\ Strict =>
       \A i \in DOMAIN sent : sent[i].k \notin {"ping", "error"} =>
         /\ \E j \in 1..i : sent[j].k = "created"
         /\ \A j \in 1..i - 1 : <<sent[i].k, sent[j].k>> # <<"created", "created">>
         /\ sent[i].k # "meta"
  /\ client = "codex" =>
       \A i \in DOMAIN sent :
         sent[i].a \in att.named /\ sent[i].k # "error" =>
           \E j \in 1..i : sent[j].k = "created" /\ sent[j].a \in 1..sent[i].a

CompletedBy(a) ==
  Cardinality({i \in DOMAIN sent : sent[i].a = a
                                   /\ sent[i].k \in {"completed", "hollow"}})

\* An answer is not declared complete while a tool call the client has seen
\* in it is half open; neither when the upstream leaves out the end nor when
\* its stream breaks (canSynthesizeCompleted).  One that is passed on as it
\* comes is completed once: the proxy does not add an end to one that has its
\* own (writeSyntheticResponsesCompletion).
CompleteMeansToolsDone ==
  /\ ~att.conv => CompletedBy(att.n) <= 1
  /\ \A i \in DOMAIN sent : sent[i].k = "completed" /\ ~att.over =>
       LET before == Kept(SubSeq(sent, 1, i), [k : ToolKinds, a : {sent[i].a}])
       IN  sent[i].a = att.n /\ before # <<>> => Last(before).k = "tooldone"

\* Nothing is written once the handler has returned, although the heartbeat
\* runs on for a while (Close, writeHeartbeat).
SilentAfterEnd == [][pc = "ended" => sent' = sent]_vars

\* The heartbeat's goroutine does not outlive its request for good (Close).
HeartbeatEnds == (pc = "ended") ~> ~beating

\* A Responses client that is still there is told how its request ended,
\* unless it is one that does not mind or an event could not be converted
\* (handleProxy).
EndTold ==
  pc = "ended" /\ ~gone /\ Responses
    /\ res.why # "transform" /\ ~(Tolerant /\ res.why = "missing")
  => \E i \in DOMAIN sent : sent[i].k \in Terminal
=============================================================================
