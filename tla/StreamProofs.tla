---------------------------- MODULE StreamProofs ----------------------------
(***************************************************************************)
(* What StreamSession promises, for any number of attempts, events and     *)
(* heartbeats: nothing is written once the handler has returned, the       *)
(* client is told how its request ended, its answer begins with the        *)
(* created event, and is complete only when the tool calls in it are.      *)
(*                                                                         *)
(* The module begins with what the filters of the stream keep of a         *)
(* sequence (Kept), goes on with the types, then follows the end of an     *)
(* answer from where it is noted (obs) to where it is written (sent), then *)
(* the created event from where it is made or read to the client, and last *)
(* the order of tool calls and of the ends that the proxy adds.            *)
(***************************************************************************)
EXTENDS StreamSession, ListProofs

-----------------------------------------------------------------------------
(* Types                                                                   *)

Session == [started : BOOLEAN, done : BOOLEAN, closed : BOOLEAN, written : BOOLEAN,
            reserved : BOOLEAN, waiting : BOOLEAN]
Attempt == [n : 0..MaxAttempts, conv : BOOLEAN, up : 0..MaxEvents[client], first : BOOLEAN,
            begun : BOOLEAN, over : BOOLEAN, named : SUBSET (0..MaxAttempts)]
Note == [completed : BOOLEAN, text : BOOLEAN, part : BOOLEAN,
         tool : {"none", "function", "custom", "input", "done"}]
Result == [wrote : BOOLEAN, semantic : BOOLEAN, why : Reasons]
Out == [k : Events \cup {"ping"}, a : 0..MaxAttempts]

Steps == {"start", "attempt", "read", "prepare", "emit", "last", "judge", "leave", "tell",
          "close", "ended"}

Typed ==
  /\ client \in Clients /\ gone \in BOOLEAN /\ session \in Session
  /\ beating \in BOOLEAN /\ beats \in 0..MaxBeats /\ pc \in Steps
  /\ att \in Attempt /\ obs \in Note /\ buf \in Seq(Events)
  /\ pending \in Seq(Events) /\ res \in Result /\ sent \in Seq(Out)

LEMMA TypedIsTypeOK == Typed => TypeOK
BY DEF Typed, TypeOK, Session, Attempt, Note, Result, Out, Steps

LEMMA KindsAreEvents ==
  /\ Kinds \subseteq Events /\ "error" \in Events /\ "created" \in Events
  /\ "completed" \in Events /\ "hollow" \in Events /\ "tooldone" \in Events
  /\ Public \subseteq Events /\ NotCreated \subseteq Events
  /\ \A k \in ToolKinds : k \in Events
BY DEF Kinds, Events, Public, NotCreated, ToolKinds

LEMMA ShortAreTyped ==
  /\ <<>> \in Seq(Events) /\ <<"created">> \in Seq(Events) /\ <<"error">> \in Seq(Events)
  /\ <<"completed">> \in Seq(Events) /\ <<"hollow">> \in Seq(Events)
  /\ <<"tooldone">> \in Seq(Events)
  /\ <<"tooldone", "completed">> \in Seq(Events)
  /\ \A k \in Kinds : <<k>> \in Seq(Events)
BY KindsAreEvents

LEMMA KeptEvents ==
  ASSUME NEW s \in Seq(Events), NEW K
  PROVE  Kept(s, K) \in Seq(Events) /\ \A i \in 1..Len(Kept(s, K)) : Kept(s, K)[i] \in K
<1>1. Kept(s, K) \in Seq(Events \cap K)
  BY KeptTyped
<1>2. \A q \in Seq(Events \cap K) : q \in Seq(Events) /\ \A i \in 1..Len(q) : q[i] \in K
  OBVIOUS
<1> QED
  BY <1>1, <1>2

LEMMA WroteTyped ==
  ASSUME NEW s \in Session, NEW data
  PROVE  Wrote(s, data) \in Session
BY DEF Wrote, Session, Strict, Responses

LEMMA ReserveTyped ==
  ASSUME NEW s \in Session, NEW data
  PROVE  Reserve(s, data) \in Session
BY DEF Reserve, Session

LEMMA ReleasedTyped ==
  ASSUME NEW s \in Session
  PROVE  Released(s) \in Session
BY DEF Released, Session

LEMMA PreparedTyped ==
  ASSUME NEW data \in Seq(Events), NEW s
  PROVE  PreparedFor(s, data) \in Seq(Events)
<1> DEFINE public == Kept(data, Public)
           rest   == Kept(public, NotCreated)
<1>1. public \in Seq(Events)
  BY KeptEvents
<1> HIDE DEF public
<1>2. rest \in Seq(Events)
  BY <1>1, KeptEvents
<1> HIDE DEF rest
<1>3. <<"created">> \o rest \in Seq(Events)
  BY <1>2, ShortAreTyped
<1> QED
  BY <1>2, <1>3 DEF PreparedFor, public, rest

LEMMA FilteredTyped ==
  ASSUME NEW data \in Seq(Events), NEW s
  PROVE  Filtered(s, data) \in Seq(Events)
BY KeptEvents DEF Filtered

LEMMA ObservedTyped ==
  ASSUME NEW o \in Note, NEW data \in Seq(Events)
  PROVE  Observed(o, data) \in Note
<1> DEFINE tools == Kept(data, ToolKinds)
<1>1. tools \in Seq(Events) /\ \A i \in 1..Len(tools) : tools[i] \in ToolKinds
  BY KeptEvents
<1> HIDE DEF tools
<1>2. tools # <<>> => Last(tools) \in ToolKinds
  BY <1>1 DEF Last
<1>3. (IF tools = <<>> THEN o.tool
       ELSE IF Last(tools) = "tooldone" THEN "done" ELSE Last(tools))
         \in {"none", "function", "custom", "input", "done"}
  BY <1>2 DEF ToolKinds, Note
<1> QED
  BY <1>3 DEF Observed, Note, tools

LEMMA ConvertedTyped ==
  ASSUME NEW k \in Kinds, NEW begun
  PROVE  Converted(k, begun) \in Seq(Events)
BY ShortAreTyped DEF Converted

LEMMA TellingTyped == Telling \in Seq(Events) /\ Interrupted \in Seq(Events)
<1>1. Interrupted \in Seq(Events)
  BY ShortAreTyped DEF Interrupted
<1> QED
  BY <1>1, ShortAreTyped DEF Telling, Broke

-----------------------------------------------------------------------------
(* Delivering                                                              *)

\* The client receives the events of q as part of attempt n.
Received(n, q) ==
  /\ sent' \in Seq(Out) /\ Len(sent') = Len(sent) + Len(q)
  /\ \A i \in 1..Len(sent) : sent'[i] = sent[i]
  /\ \A i \in 1..Len(q) : sent'[Len(sent) + i] = [k |-> q[i], a |-> n]
  /\ \A i \in 1..Len(sent') : i > Len(sent) =>
       i - Len(sent) \in 1..Len(q) /\ sent'[i] = [k |-> q[i - Len(sent)], a |-> n]

LEMMA Joined ==
  ASSUME NEW S, NEW s \in Seq(S), NEW t \in Seq(S)
  PROVE  /\ s \o t \in Seq(S) /\ Len(s \o t) = Len(s) + Len(t)
         /\ \A i \in 1..Len(s) : (s \o t)[i] = s[i]
         /\ \A i \in 1..Len(t) : (s \o t)[Len(s) + i] = t[i]
         /\ \A i \in 1..Len(s \o t) : i > Len(s) =>
              i - Len(s) \in 1..Len(t) /\ (s \o t)[i] = t[i - Len(s)]
<1>1. s \o t \in Seq(S) /\ Len(s \o t) = Len(s) + Len(t)
  OBVIOUS
<1>2. \A i \in 1..Len(s) : (s \o t)[i] = s[i]
  OBVIOUS
<1>3. \A i \in 1..Len(t) : (s \o t)[Len(s) + i] = t[i]
  OBVIOUS
<1>4. \A i \in 1..Len(s \o t) : i > Len(s) =>
        i - Len(s) \in 1..Len(t) /\ (s \o t)[i] = t[i - Len(s)]
  OBVIOUS
<1> QED
  BY <1>1, <1>2, <1>3, <1>4

LEMMA FromIsReceived ==
  ASSUME sent \in Seq(Out), NEW n \in 0..MaxAttempts, NEW q \in Seq(Events),
         sent' = sent \o From(n, q)
  PROVE  Received(n, q)
<1> DEFINE r == From(n, q)
<1>1. r \in Seq(Out) /\ Len(r) = Len(q) /\ \A i \in 1..Len(q) : r[i] = [k |-> q[i], a |-> n]
  <2>1. \A i \in 1..Len(q) : [k |-> q[i], a |-> n] \in Out
    BY DEF Out
  <2> QED
    BY <2>1 DEF From
<1>2. sent' = sent \o r
  OBVIOUS
<1> HIDE DEF r
<1>3. /\ sent \o r \in Seq(Out) /\ Len(sent \o r) = Len(sent) + Len(r)
      /\ \A i \in 1..Len(sent) : (sent \o r)[i] = sent[i]
      /\ \A i \in 1..Len(r) : (sent \o r)[Len(sent) + i] = r[i]
      /\ \A i \in 1..Len(sent \o r) : i > Len(sent) =>
           i - Len(sent) \in 1..Len(r) /\ (sent \o r)[i] = r[i - Len(sent)]
  <2>1. r \in Seq(Out)
    BY <1>1
  <2> QED
    BY <2>1, Joined, Zenon
<1>4. /\ sent' \in Seq(Out) /\ Len(sent') = Len(sent) + Len(r)
      /\ \A i \in 1..Len(sent) : sent'[i] = sent[i]
      /\ \A i \in 1..Len(r) : sent'[Len(sent) + i] = r[i]
      /\ \A i \in 1..Len(sent') : i > Len(sent) =>
           i - Len(sent) \in 1..Len(r) /\ sent'[i] = r[i - Len(sent)]
  BY <1>2, <1>3, Zenon
<1>5. Len(r) = Len(q) /\ \A i \in 1..Len(q) : r[i] = [k |-> q[i], a |-> n]
  BY <1>1
<1> QED
  BY <1>4, <1>5, Zenon DEF Received

\* The client receives one event of the heartbeat.
LEMMA BeatIsReceived ==
  ASSUME sent \in Seq(Out), NEW k \in Events \cup {"ping"},
         sent' = Append(sent, [k |-> k, a |-> 0])
  PROVE  /\ sent' \in Seq(Out) /\ Len(sent') = Len(sent) + 1
         /\ \A i \in 1..Len(sent) : sent'[i] = sent[i]
         /\ sent'[Len(sent) + 1] = [k |-> k, a |-> 0]
<1>1. [k |-> k, a |-> 0] \in Out
  BY StreamAssumption DEF Out
<1> QED
  BY <1>1

-----------------------------------------------------------------------------
(* Every step keeps the types.                                             *)

LEMMA InitTyped == Init => Typed
<1> SUFFICES ASSUME Init PROVE Typed
  OBVIOUS
<1>1. session \in Session /\ obs \in Note /\ res \in Result
  BY DEF Init, NewSession, Blank, NoResult, Session, Note, Result, Reasons
<1>2. att \in Attempt
  BY StreamAssumption DEF Init, NoAttempt, Attempt
<1>3. buf \in Seq(Events) /\ pending \in Seq(Events) /\ sent \in Seq(Out)
  BY DEF Init
<1>4. beats \in 0..MaxBeats
  BY StreamAssumption DEF Init
<1> QED
  BY <1>1, <1>2, <1>3, <1>4 DEF Init, Typed, Steps

\* The request's steps before it has read anything, and those of the others.
LEMMA OutsideTyped ==
  ASSUME Typed, \/ StartSession \/ BeginAttempt \/ GiveUp \/ Beat \/ BeatLoopEnds
                 \/ Disconnect \/ CloseChannel \/ CloseFlag
  PROVE  Typed'
<1> USE DEF Typed, Steps
<1>1. CASE StartSession
  <2>1. session' \in Session
    BY <1>1 DEF StartSession, Session
  <2> QED
    BY <1>1, <2>1 DEF StartSession, Attempt
<1>2. CASE BeginAttempt
  <2>1. att' \in Attempt
    <3>1. att \in Attempt /\ att.n < MaxAttempts /\ MaxAttempts \in Nat
      BY <1>2, StreamAssumption DEF BeginAttempt
    <3>2. att.n \in 0..MaxAttempts
      BY <3>1 DEF Attempt
    <3>3. PICK m \in 0..MaxAttempts : m = att.n + 1
      BY <3>1, <3>2
    <3>4. PICK c \in BOOLEAN :
            att' = [att EXCEPT !.n = m, !.conv = c, !.first = TRUE, !.begun = FALSE, !.over = FALSE]
      BY <1>2, <3>3 DEF BeginAttempt
    <3> QED
      BY <3>1, <3>4 DEF Attempt
  <2> QED
    BY <1>2, <2>1 DEF BeginAttempt, Attempt
<1>3. CASE GiveUp
  BY <1>3, ShortAreTyped DEF GiveUp, Attempt
<1>4. CASE Beat
  <2>1. session' \in Session
    BY <1>4 DEF Beat, Session
  <2>2. sent' \in Seq(Out)
    BY <1>4, BeatIsReceived, KindsAreEvents DEF Beat
  <2>3. beats' \in 0..MaxBeats
    BY <1>4, StreamAssumption DEF Beat
  <2> QED
    BY <1>4, <2>1, <2>2, <2>3 DEF Beat, Attempt
<1>5. CASE BeatLoopEnds
  BY <1>5 DEF BeatLoopEnds, Attempt
<1>6. CASE Disconnect
  BY <1>6 DEF Disconnect, Attempt
<1>7. CASE CloseChannel
  <2>1. session' \in Session
    BY <1>7 DEF CloseChannel, Session
  <2> QED
    BY <1>7, <2>1 DEF CloseChannel, Left, Attempt
<1>8. CASE CloseFlag
  <2>1. session' \in Session
    BY <1>8 DEF CloseFlag, Session
  <2> QED
    BY <1>8, <2>1 DEF CloseFlag, Left, Attempt
<1> QED
  BY <1>1, <1>2, <1>3, <1>4, <1>5, <1>6, <1>7, <1>8

\* Reading, preparing and emitting one event.
LEMMA ReadTyped ==
  ASSUME Typed, NEW k \in Kinds, ReadEvent(k)
  PROVE  Typed'
<1> USE DEF Typed
<1>1. buf' \in Seq(Events)
  BY ConvertedTyped, ShortAreTyped DEF ReadEvent
<1>2. att' \in Attempt
  <2>1. /\ att \in Attempt /\ att.up < MaxEvents[client]
        /\ att.n \in 0..MaxAttempts /\ att.named \subseteq 0..MaxAttempts
    BY DEF ReadEvent, Attempt
  <2>2. att.up + 1 \in 0..MaxEvents[client]
    BY <2>1, StreamAssumption DEF Attempt
  <2>3. PICK up \in 0..MaxEvents[client], begun \in BOOLEAN, over \in BOOLEAN,
             named \in SUBSET (0..MaxAttempts) :
          att' = [att EXCEPT !.up = up, !.first = FALSE, !.over = over, !.begun = begun,
                             !.named = named]
    <3> DEFINE b == att.begun \/ (Responses /\ session.waiting)
               named == IF k = "created" THEN att.named \cup {att.n} ELSE att.named
    <3>1. named \in SUBSET (0..MaxAttempts)
      BY <2>1
    <3>2. (b \/ (att.conv /\ k # "reason")) \in BOOLEAN /\ (k \in Terminal) \in BOOLEAN
      OBVIOUS
    <3>3. att' = [att EXCEPT !.up = att.up + 1, !.first = FALSE, !.over = k \in Terminal,
                             !.begun = b \/ (att.conv /\ k # "reason"), !.named = named]
      BY DEF ReadEvent
    <3> HIDE DEF b, named
    <3> QED
      BY <2>2, <3>1, <3>2, <3>3
  <2> QED
    BY <2>1, <2>3 DEF Attempt
<1>3. client' = client /\ pc' \in Steps
  BY DEF ReadEvent, Steps
<1> QED
  BY <1>1, <1>2, <1>3 DEF ReadEvent, Attempt

LEMMA PrepareTyped ==
  ASSUME Typed, Prepare
  PROVE  Typed'
BY PreparedTyped, ReserveTyped DEF Typed, Prepare, Attempt, Steps

\* An event that has been converted is withheld, finds the client gone or goes
\* to it with all that was withheld.
Withheld ==
  /\ buf = <<>> \/ ~res.wrote
  /\ pending' = pending \o buf /\ pc' = "read" /\ UNCHANGED <<session, sent, res>>

CutOff ==
  /\ gone /\ pc' = "leave" /\ UNCHANGED <<session, sent, pending>>
  /\ \E why \in {"canceled", "write_failed"} : res' = [res EXCEPT !.why = why]

Through ==
  /\ buf # <<>> /\ ~gone /\ Deliver(pending \o buf) /\ pending' = <<>> /\ pc' = "read"
  /\ \E b \in BOOLEAN : res' = [res EXCEPT !.wrote = TRUE, !.semantic = b]

LEMMA EmitCases ==
  ASSUME Emit
  PROVE  /\ pc = "emit" /\ obs' = Observed(obs, buf) /\ buf' = <<>>
         /\ UNCHANGED <<client, gone, beating, beats, att>>
         /\ Withheld \/ CutOff \/ Through
<1> DEFINE output == \E i \in DOMAIN buf : HasOutput(buf[i])
           moves  == output \/ res.wrote \/ \E i \in DOMAIN buf : HasProgress(buf[i])
<1>1. CASE buf = <<>> \/ ~moves
  BY <1>1 DEF Emit, Withheld
<1>2. CASE buf # <<>> /\ moves /\ gone
  BY <1>2 DEF Emit, CutOff
<1>3. CASE buf # <<>> /\ moves /\ ~gone
  <2>1. /\ Deliver(pending \o buf) /\ pending' = <<>> /\ pc' = "read"
        /\ res' = [res EXCEPT !.wrote = TRUE, !.semantic = res.semantic \/ output]
    BY <1>3 DEF Emit
  <2>2. (res.semantic \/ output) \in BOOLEAN
    OBVIOUS
  <2> HIDE DEF output
  <2>3. Through
    BY <1>3, <2>1, <2>2 DEF Through
  <2> QED
    BY <2>3 DEF Emit
<1> QED
  BY <1>1, <1>2, <1>3

LEMMA EmitTyped ==
  ASSUME Typed, Emit
  PROVE  Typed'
<1> USE DEF Typed
<1>1. obs' \in Note /\ buf' = <<>> /\ UNCHANGED <<client, gone, beating, beats, att>>
  BY ObservedTyped, EmitCases
<1>2. pending \o buf \in Seq(Events) /\ att.n \in 0..MaxAttempts
  BY DEF Attempt
<1>3. CASE Withheld
  BY <1>1, <1>2, <1>3 DEF Withheld, Steps, Attempt
<1>4. CASE CutOff
  BY <1>1, <1>4 DEF CutOff, Steps, Attempt, Result, Reasons
<1>5. CASE Through
  <2>1. session' \in Session /\ sent' \in Seq(Out)
    BY <1>2, <1>5, WroteTyped, FilteredTyped, FromIsReceived DEF Through, Deliver, Received
  <2>2. res' \in Result
    BY <1>5 DEF Through, Result
  <2> QED
    BY <1>1, <1>5, <2>1, <2>2 DEF Through, Steps, Attempt
<1> QED
  BY <1>3, <1>4, <1>5, EmitCases

\* The end that the proxy makes itself, and what is withheld before it.
Made == pending \o (IF Strict THEN PreparedFor(session, <<"completed">>) ELSE <<"completed">>)

LEMMA SynthesizeIs ==
  ASSUME Typed, Synthesize
  PROVE  /\ Made \in Seq(Events) /\ Received(att.n, Filtered(session, Made))
         /\ session' \in Session /\ pending' = <<>> /\ obs' = [obs EXCEPT !.completed = TRUE]
         /\ obs' \in Note /\ obs'.completed
<1> USE DEF Typed
<1>1. Made \in Seq(Events) /\ att.n \in 0..MaxAttempts
  <2>1. /\ PreparedFor(session, <<"completed">>) \in Seq(Events)
        /\ <<"completed">> \in Seq(Events)
    BY PreparedTyped, ShortAreTyped
  <2>2. att.n \in 0..MaxAttempts
    BY DEF Attempt
  <2> QED
    BY <2>1, <2>2 DEF Made
<1>2. sent' = sent \o From(att.n, Filtered(session, Made))
  BY DEF Synthesize, Made
<1>3. Received(att.n, Filtered(session, Made))
  BY <1>1, <1>2, FilteredTyped, FromIsReceived
<1>4. session' \in Session
  BY WroteTyped, ReserveTyped DEF Synthesize
<1>5. obs' = [obs EXCEPT !.completed = TRUE] /\ pending' = <<>>
  BY DEF Synthesize
<1>6. obs' \in Note /\ obs'.completed
  BY <1>5 DEF Note
<1> QED
  BY <1>1, <1>3, <1>4, <1>5, <1>6

\* [DONE] and the end of the stream.
LEMMA EndsTyped ==
  ASSUME Typed, Done \/ DoneEarly \/ EndOfFile \/ Broken
  PROVE  Typed'
<1> USE DEF Typed
<1>1. client' = client /\ att' = att /\ UNCHANGED <<beating, beats>>
  BY DEF Done, DoneEarly, EndOfFile, Broken, Left
<1>2. att' \in Attempt'
  BY <1>1 DEF Attempt
<1>3. pc' \in Steps /\ gone' \in BOOLEAN
  BY DEF Done, DoneEarly, EndOfFile, Broken, Left, Steps
<1>4. buf' \in Seq(Events)
  BY ShortAreTyped DEF Done, DoneEarly, EndOfFile, Broken
<1>5. \A why \in Reasons, w, m \in BOOLEAN :
        /\ [res EXCEPT !.why = why] \in Result
        /\ [res EXCEPT !.why = why, !.wrote = w, !.semantic = m] \in Result
  BY DEF Result
<1>6. \/ \E why \in Reasons : res' = [res EXCEPT !.why = why]
      \/ res' = [res EXCEPT !.why = "completed", !.wrote = TRUE, !.semantic = TRUE]
  BY DEF Done, DoneEarly, EndOfFile, Broken, Reasons
<1>7. res' \in Result
  BY <1>5, <1>6 DEF Reasons
<1>8. Synthesize \/ UNCHANGED <<session, obs, pending, sent>>
  BY DEF Done, DoneEarly, EndOfFile, Broken
<1>9. session' \in Session /\ obs' \in Note /\ pending' \in Seq(Events) /\ sent' \in Seq(Out)
  <2>1. CASE Synthesize
    <3>1. pending' = <<>> /\ session' \in Session /\ obs' \in Note /\ sent' \in Seq(Out)
      BY <2>1, SynthesizeIs DEF Received
    <3> QED
      BY <3>1, ShortAreTyped
  <2>2. CASE UNCHANGED <<session, obs, pending, sent>>
    BY <2>2
  <2> QED
    BY <1>8, <2>1, <2>2
<1> QED
  BY <1>1, <1>2, <1>3, <1>4, <1>7, <1>9

\* What the client is sent at the end.
LEMMA LastTyped ==
  ASSUME Typed, EmitLast \/ Judge \/ Tell
  PROVE  Typed'
<1> USE DEF Typed
<1>1. /\ client' = client /\ att' = att /\ UNCHANGED <<gone, beating, beats, obs>>
      /\ att.n \in 0..MaxAttempts
  BY DEF EmitLast, Judge, Tell, Left, Attempt
<1>2. att' \in Attempt'
  BY <1>1 DEF Attempt
<1>3. pc' \in Steps
  BY DEF EmitLast, Judge, Tell, Steps
<1>4. buf' \in Seq(Events) /\ pending' \in Seq(Events)
  <2>1. buf' \in {buf, <<>>} /\ pending' \in {pending, <<>>}
    BY DEF EmitLast, Judge, Tell, Left
  <2> QED
    BY <2>1, ShortAreTyped
<1>5. \A why \in Reasons : /\ [res EXCEPT !.why = why] \in Result
                            /\ [res EXCEPT !.wrote = TRUE] \in Result
  BY DEF Result
<1>6. res' \in Result
  BY <1>5 DEF EmitLast, Judge, Tell, Reasons
<1>7. Deliver(buf) \/ Deliver(pending) \/ UNCHANGED <<session, sent>>
  BY DEF EmitLast, Judge, Tell
<1>8. session' \in Session /\ sent' \in Seq(Out)
  BY <1>1, <1>7, WroteTyped, FilteredTyped, FromIsReceived DEF Deliver, Received
<1> QED
  BY <1>1, <1>2, <1>3, <1>4, <1>6, <1>8

LEMMA LeaveTyped ==
  ASSUME Typed, Retry \/ Conclude
  PROVE  Typed'
<1> USE DEF Typed
<1>1. client' = client /\ att' = att /\ UNCHANGED <<gone, beating, beats, sent>>
  BY DEF Retry, Conclude, Left
<1>2. att' \in Attempt' /\ pc' \in Steps
  BY <1>1 DEF Attempt, Retry, Conclude, Steps
<1>3. session' \in Session
  BY ReleasedTyped DEF Retry, Conclude
<1>4. buf' \in Seq(Events) /\ pending' = <<>>
  BY TellingTyped DEF Retry, Conclude
<1>5. obs' \in Note
  <2>1. Blank \in Note
    BY DEF Blank, Note
  <2>2. obs' = Blank
    BY DEF Retry, Conclude
  <2> QED
    BY <2>1, <2>2
<1>6. \A why \in Reasons : [NoResult EXCEPT !.why = why] \in Result
  BY DEF NoResult, Result
<1>7. NoResult \in Result /\ res.why \in Reasons
  BY DEF NoResult, Result, Reasons
<1>8. res' \in Result
  BY <1>6, <1>7 DEF Retry, Conclude
<1> QED
  BY <1>1, <1>2, <1>3, <1>4, <1>5, <1>8

LEMMA NextTyped == Typed /\ [Next]_vars => Typed'
<1> SUFFICES ASSUME Typed, [Next]_vars PROVE Typed'
  OBVIOUS
<1>1. CASE UNCHANGED vars
  BY <1>1 DEF vars, Typed, Attempt
<1> QED
  BY <1>1, OutsideTyped, ReadTyped, PrepareTyped, EmitTyped, EndsTyped, LastTyped, LeaveTyped
     DEF Next, Request

\* The variables of a session keep their shapes.
THEOREM StreamTyped == Spec => []TypeOK
<1>1. Spec => []Typed
  BY InitTyped, NextTyped, PTL DEF Spec
<1> QED
  BY <1>1, TypedIsTypeOK, PTL

-----------------------------------------------------------------------------
(* The end of a request                                                    *)

Closed == pc = "ended" => session.closed

LEMMA ClosedStays == Typed /\ Closed /\ [Next]_vars => Closed'
<1> SUFFICES ASSUME Typed, Closed, [Next]_vars PROVE Closed'
  OBVIOUS
<1>1. CASE UNCHANGED vars
  BY <1>1 DEF vars, Closed
<1>2. CASE Request
  <2>1. pc # "ended"
    BY <1>2 DEF Request, StartSession, BeginAttempt, GiveUp, ReadEvent, Prepare, Emit, Done,
       DoneEarly, EmitLast, EndOfFile, Broken, Judge, Retry, Conclude, Tell, CloseChannel,
       CloseFlag
  <2>2. pc' = "ended" => CloseFlag
    BY <1>2, <2>1 DEF Request, StartSession, BeginAttempt, GiveUp, ReadEvent, Prepare, Emit,
       Done, DoneEarly, EmitLast, EndOfFile, Broken, Judge, Retry, Conclude, Tell,
       CloseChannel
  <2>3. CloseFlag => session'.closed
    BY DEF CloseFlag, Typed, Session
  <2> QED
    BY <2>2, <2>3 DEF Closed
<1>3. CASE Beat
  <2>1. session'.closed = session.closed /\ pc' = pc
    BY <1>3 DEF Beat, Typed, Session
  <2> QED
    BY <2>1 DEF Closed
<1>4. CASE BeatLoopEnds \/ Disconnect
  BY <1>4 DEF BeatLoopEnds, Disconnect, Closed
<1> QED
  BY <1>1, <1>2, <1>3, <1>4 DEF Next

\* Nothing is written once the handler has returned: the heartbeat tests the
\* flag that Close has set under the lock (Close, writeHeartbeat).
THEOREM SilenceAfterEnd == Spec => SilentAfterEnd
<1>1. Init => Closed
  BY DEF Init, Closed
<1>2. Typed /\ Closed /\ [Next]_vars => [pc = "ended" => sent' = sent]_vars
  <2> SUFFICES ASSUME Typed, Closed, Next, pc = "ended" PROVE sent' = sent
    BY DEF vars
  <2>1. ~Request
    BY DEF Request, StartSession, BeginAttempt, GiveUp, ReadEvent, Prepare, Emit, Done,
       DoneEarly, EmitLast, EndOfFile, Broken, Judge, Retry, Conclude, Tell, CloseChannel,
       CloseFlag
  <2>2. ~Beat
    BY DEF Beat, Open, Closed
  <2> QED
    BY <2>1, <2>2 DEF Next, BeatLoopEnds, Disconnect
<1> QED
  BY <1>1, <1>2, InitTyped, NextTyped, ClosedStays, PTL DEF Spec, SilentAfterEnd

-----------------------------------------------------------------------------
(* What the client is told                                                 *)

Busy == {"read", "prepare", "emit", "last", "judge"}

EndIn(q) == \E i \in 1..Len(q) : q[i] \in Terminal
Told == \E i \in 1..Len(sent) : sent[i].k \in Terminal

\* There is nobody to tell, or nothing has to be told.
Waived == gone \/ ~Responses \/ res.why = "transform" \/ (Tolerant /\ res.why = "missing")

Rested == obs = Blank /\ pending = <<>> /\ res = NoResult

\* The end of an answer is on its way from where it is noted to the client.
Ends ==
  /\ pc \in {"start", "attempt"} => Rested
  /\ pc \in Busy /\ Responses /\ obs.completed => Told \/ EndIn(pending)
  /\ pc \in Busy /\ res.wrote => pending = <<>>
  /\ res.semantic => res.wrote
  /\ pc \in {"last", "judge"} => res.why = "completed" /\ (Responses => obs.completed)
  /\ res.why \in {"canceled", "write_failed"} => gone
  /\ pc = "leave" => res.why # "none" /\ (res.why = "completed" /\ Responses => Told)
  /\ pc = "tell" => Waived \/ Told \/ EndIn(buf)
  /\ pc \in {"close", "ended"} => Waived \/ Told

EndsInv == Typed /\ Ends

LEMMA NothingEnds == ~EndIn(<<>>)
BY DEF EndIn

LEMMA EndsJoin ==
  ASSUME NEW s \in Seq(Events), NEW t \in Seq(Events), EndIn(s) \/ EndIn(t)
  PROVE  EndIn(s \o t)
<1>1. /\ Len(s \o t) = Len(s) + Len(t) /\ Len(s) \in Nat /\ Len(t) \in Nat
      /\ \A i \in 1..Len(s) : (s \o t)[i] = s[i]
      /\ \A i \in 1..Len(t) : (s \o t)[Len(s) + i] = t[i]
  OBVIOUS
<1>2. CASE EndIn(s)
  <2>1. PICK i \in 1..Len(s) : s[i] \in Terminal
    BY <1>2 DEF EndIn
  <2>2. i \in 1..Len(s \o t) /\ (s \o t)[i] = s[i]
    BY <1>1, <2>1
  <2> QED
    BY <2>1, <2>2 DEF EndIn
<1>3. CASE EndIn(t)
  <2>1. PICK i \in 1..Len(t) : t[i] \in Terminal
    BY <1>3 DEF EndIn
  <2>2. Len(s) + i \in 1..Len(s \o t) /\ (s \o t)[Len(s) + i] = t[i]
    BY <1>1, <2>1
  <2> QED
    BY <2>1, <2>2 DEF EndIn
<1> QED
  BY <1>2, <1>3

LEMMA EndsPass ==
  ASSUME NEW data \in Seq(Events), NEW s, EndIn(data)
  PROVE  EndIn(Filtered(s, data))
<1>1. PICK i \in 1..Len(data) : data[i] \in Terminal
  BY DEF EndIn
<1>2. data[i] \in NotCreated
  BY <1>1 DEF NotCreated, Events, Kinds, Terminal
<1>3. \E j \in 1..Len(Kept(data, NotCreated)) : Kept(data, NotCreated)[j] = data[i]
  BY <1>2, KeptKeeps
<1> QED
  BY <1>1, <1>3 DEF Filtered, EndIn

LEMMA EndsReceived ==
  ASSUME sent \in Seq(Out), NEW n, NEW q \in Seq(Events), Received(n, q), Told \/ EndIn(q)
  PROVE  Told'
<1>1. /\ Len(sent') = Len(sent) + Len(q) /\ Len(sent) \in Nat /\ Len(q) \in Nat
      /\ \A i \in 1..Len(sent) : sent'[i] = sent[i]
      /\ \A i \in 1..Len(q) : sent'[Len(sent) + i] = [k |-> q[i], a |-> n]
  BY DEF Received
<1>2. CASE Told
  <2>1. PICK i \in 1..Len(sent) : sent[i].k \in Terminal
    BY <1>2 DEF Told
  <2>2. i \in 1..Len(sent') /\ sent'[i] = sent[i]
    BY <1>1, <2>1
  <2> QED
    BY <2>1, <2>2 DEF Told
<1>3. CASE EndIn(q)
  <2>1. PICK i \in 1..Len(q) : q[i] \in Terminal
    BY <1>3 DEF EndIn
  <2>2. Len(sent) + i \in 1..Len(sent')
    BY <1>1, <2>1
  <2>3. sent'[Len(sent) + i] = [k |-> q[i], a |-> n]
    BY <1>1, <2>1
  <2> QED
    BY <2>1, <2>2, <2>3 DEF Told
<1> QED
  BY <1>2, <1>3

LEMMA EndsObserved ==
  ASSUME NEW data \in Seq(Events), NEW o, Observed(o, data).completed
  PROVE  o.completed \/ EndIn(data)
BY DEF Observed, Contains, EndIn, Terminal

\* What is delivered has reached the client, or the filter has kept the end.
LEMMA EndsDelivered ==
  ASSUME Typed, NEW data \in Seq(Events), Deliver(data), Told \/ EndIn(data)
  PROVE  Told'
<1>1. att.n \in 0..MaxAttempts
  BY DEF Typed, Attempt
<1>2. Filtered(session, data) \in Seq(Events) /\ Received(att.n, Filtered(session, data))
  BY <1>1, FilteredTyped, FromIsReceived DEF Deliver, Typed
<1>3. Told \/ EndIn(Filtered(session, data))
  BY EndsPass
<1> QED
  BY <1>2, <1>3, EndsReceived DEF Typed

\* The steps before and between attempts, of reading, and of the others.
LEMMA EndsOutside ==
  ASSUME EndsInv, \/ StartSession \/ BeginAttempt \/ GiveUp \/ Beat \/ BeatLoopEnds
                  \/ Disconnect \/ CloseChannel \/ CloseFlag \/ Prepare
                  \/ \E k \in Kinds : ReadEvent(k)
  PROVE  Ends'
<1> USE DEF EndsInv
<1>1. Told => Told'
  <2>1. CASE UNCHANGED sent
    BY <2>1 DEF Told
  <2>2. CASE Beat
    <3>1. \E k \in Events \cup {"ping"} : sent' = Append(sent, [k |-> k, a |-> 0])
      BY <2>2, KindsAreEvents DEF Beat
    <3>2. /\ Len(sent') = Len(sent) + 1 /\ Len(sent) \in Nat
          /\ \A i \in 1..Len(sent) : sent'[i] = sent[i]
      BY <3>1, BeatIsReceived DEF Typed
    <3> QED
      BY <3>2 DEF Told
  <2> QED
    BY <2>1, <2>2 DEF StartSession, BeginAttempt, GiveUp, BeatLoopEnds, Disconnect,
       CloseChannel, CloseFlag, Prepare, ReadEvent
<1>2. UNCHANGED <<client, obs, pending, res>> /\ (gone => gone')
  <2>1. UNCHANGED <<client, obs, pending, res>> /\ (gone' = gone \/ gone' = TRUE)
    BY DEF StartSession, BeginAttempt, GiveUp, Beat, BeatLoopEnds, Disconnect, CloseChannel,
       CloseFlag, Prepare, ReadEvent, Left
  <2> QED
    BY <2>1
<1>3. /\ (Waived => Waived') /\ EndIn(pending)' = EndIn(pending) /\ Responses' = Responses
      /\ Rested' = Rested
  BY <1>2 DEF Waived, Responses, Tolerant, EndIn, Rested
<1>4. Rested => ~obs.completed /\ ~res.wrote
  BY DEF Rested, Blank, NoResult
<1>5. \/ pc = "start" /\ pc' = "attempt"
      \/ pc = "attempt" /\ pc' = "read"
      \/ pc = "attempt" /\ pc' = "tell" /\ EndIn(buf')
      \/ pc' = pc /\ buf' = buf
      \/ pc \in {"read", "prepare"} /\ pc' \in {"prepare", "emit"}
      \/ pc \in {"close", "ended"} /\ pc' \in {"close", "ended"}
  <2>1. GiveUp => EndIn(buf')
    BY DEF GiveUp, EndIn, Terminal
  <2> QED
    BY <2>1 DEF StartSession, BeginAttempt, GiveUp, Beat, BeatLoopEnds, Disconnect,
       CloseChannel, CloseFlag, Prepare, ReadEvent, Left
<1> QED
  BY <1>1, <1>2, <1>3, <1>4, <1>5 DEF Ends, Busy, EndIn

\* An end that is noted is delivered or withheld.
LEMMA EndsEmit ==
  ASSUME EndsInv, Emit
  PROVE  Ends'
<1> USE DEF EndsInv
<1>1. /\ pc = "emit" /\ obs' = Observed(obs, buf) /\ UNCHANGED <<client, gone>>
      /\ pending \in Seq(Events) /\ buf \in Seq(Events)
  BY EmitCases DEF Typed
<1>2. Responses' = Responses /\ pending \o buf \in Seq(Events)
  BY <1>1 DEF Responses
<1>3. Responses /\ obs'.completed => Told \/ EndIn(pending) \/ EndIn(buf)
  BY <1>1, EndsObserved DEF Ends, Busy
<1>4. EndIn(pending) \/ EndIn(buf) => EndIn(pending \o buf)
  BY <1>1, EndsJoin
<1>5. CASE Withheld
  <2>1. Told' = Told /\ EndIn(pending)' = EndIn(pending \o buf) /\ pc' = "read" /\ res' = res
    BY <1>5 DEF Withheld, Told, EndIn
  <2>2. res.wrote => pending \o buf = <<>>
    BY <1>1, <1>5 DEF Withheld, Ends, Busy
  <2>3. pending' = pending \o buf
    BY <1>5 DEF Withheld
  <2> QED
    BY <1>1, <1>2, <1>3, <1>4, <2>1, <2>2, <2>3 DEF Ends, Busy
<1>6. CASE CutOff
  <2>1. /\ gone' /\ pc' = "leave" /\ res'.why \in {"canceled", "write_failed"}
        /\ res'.wrote = res.wrote /\ res'.semantic = res.semantic
    BY <1>1, <1>6 DEF CutOff, Typed, Result
  <2> QED
    BY <1>1, <2>1 DEF Ends, Busy
<1>7. CASE Through
  <2>1. /\ Deliver(pending \o buf) /\ pending' = <<>> /\ pc' = "read" /\ res'.wrote
        /\ res'.why = res.why
    BY <1>7 DEF Through, Typed, Result
  <2>2. Responses /\ obs'.completed => Told'
    BY <1>2, <1>3, <1>4, <2>1, EndsDelivered
  <2> QED
    BY <1>1, <1>2, <2>1, <2>2 DEF Ends, Busy
<1> QED
  BY <1>5, <1>6, <1>7, EmitCases

LEMMA MadeEnds ==
  ASSUME Typed
  PROVE  EndIn(Made)
<1>1. \A q : q = <<"completed">> => /\ q \in Seq(Events) /\ EndIn(q)
                                   /\ Len(q) = 1 /\ q[1] = "completed"
  BY ShortAreTyped DEF EndIn, Terminal
<1>2. \A q \in Seq(Events) : (\E i \in 1..Len(q) : q[i] = "completed") => EndIn(q)
  BY DEF EndIn, Terminal
<1>3. "completed" \in Public /\ "completed" \in NotCreated
  BY DEF Public, NotCreated, Events, Kinds
<1>4. EndIn(PreparedFor(session, <<"completed">>))
  <2> DEFINE public == Kept(<<"completed">>, Public)
             rest   == Kept(public, NotCreated)
  <2>1. public \in Seq(Events) /\ \E i \in 1..Len(public) : public[i] = "completed"
    BY <1>1, <1>3, KeptKeeps, KeptEvents
  <2> HIDE DEF public
  <2>2. rest \in Seq(Events) /\ \E i \in 1..Len(rest) : rest[i] = "completed"
    BY <1>3, <2>1, KeptKeeps, KeptEvents
  <2> HIDE DEF rest
  <2>3. EndIn(rest) /\ EndIn(<<"created">> \o rest)
    BY <1>2, <2>2, ShortAreTyped, EndsJoin
  <2> QED
    BY <2>3 DEF PreparedFor, rest, public
<1> QED
  BY <1>1, <1>4, ShortAreTyped, PreparedTyped, EndsJoin DEF Made, Typed

LEMMA SynthesizeTells ==
  ASSUME Typed, Synthesize
  PROVE  Told'
<1>1. Received(att.n, Filtered(session, Made)) /\ Made \in Seq(Events)
  BY SynthesizeIs
<1>2. EndIn(Filtered(session, Made)) /\ Filtered(session, Made) \in Seq(Events)
  BY <1>1, MadeEnds, EndsPass, FilteredTyped
<1> QED
  BY <1>1, <1>2, EndsReceived DEF Typed

\* How reading may end: with an answer that is complete, or not, or by the
\* client, or with the end that the proxy makes.
Settled ==
  /\ Finishes /\ pc' = "judge" /\ res' = [res EXCEPT !.why = "completed"]
  /\ UNCHANGED <<gone, session, obs, buf, pending, sent>>

Failed ==
  /\ pc' = "leave" /\ UNCHANGED <<session, obs, buf, pending, sent>>
  /\ \/ /\ UNCHANGED gone
        /\ \E why \in {"missing", "upstream_error", "transform", "rejected"} :
             res' = [res EXCEPT !.why = why]
     \/ gone' = TRUE /\ res' = [res EXCEPT !.why = "canceled"]

Completed ==
  /\ Synthesize /\ ~Finishes /\ UNCHANGED gone
  /\ res' = [res EXCEPT !.why = "completed", !.wrote = TRUE, !.semantic = TRUE]
  /\ \/ pc' = "judge" /\ buf' = buf
     \/ pc' = "last" /\ buf' \in {<<"completed">>, <<>>}

LEMMA EndCases ==
  ASSUME Done \/ DoneEarly \/ EndOfFile \/ Broken
  PROVE  /\ pc = "read" /\ UNCHANGED <<client, beating, beats, att>>
         /\ Settled \/ Failed \/ Completed
<1>1. CASE Done
  BY <1>1 DEF Done, Settled, Left
<1>2. CASE DoneEarly
  BY <1>2 DEF DoneEarly, Completed, Failed, Left
<1>3. CASE EndOfFile
  BY <1>3 DEF EndOfFile, Settled, Completed, Failed, Left
<1>4. CASE Broken
  BY <1>4 DEF Broken, Failed
<1> QED
  BY <1>1, <1>2, <1>3, <1>4

\* [DONE] and the end of the stream.
LEMMA EndsEnd ==
  ASSUME EndsInv, Done \/ DoneEarly \/ EndOfFile \/ Broken
  PROVE  Ends'
<1> USE DEF EndsInv
<1>1. pc = "read" /\ client' = client /\ Responses' = Responses
  BY EndCases DEF Responses
<1>2. CASE Completed
  <2>1. /\ pending' = <<>> /\ obs'.completed /\ Told'
    BY <1>2, SynthesizeIs, SynthesizeTells DEF Completed
  <2>2. pc' \in {"last", "judge"} /\ res'.why = "completed" /\ res'.wrote
    BY <1>2 DEF Completed, Typed, Result
  <2> QED
    BY <2>1, <2>2 DEF Ends, Busy
<1>3. CASE Settled
  <2>1. Told' = Told /\ EndIn(pending)' = EndIn(pending) /\ UNCHANGED <<pending, obs, gone>>
    BY <1>3 DEF Settled, Told, EndIn
  <2>2. /\ pc' = "judge" /\ res'.why = "completed" /\ Finishes
        /\ res'.wrote = res.wrote /\ res'.semantic = res.semantic
    BY <1>3 DEF Settled, Typed, Result
  <2> QED
    BY <1>1, <2>1, <2>2 DEF Ends, Busy, Finishes
<1>4. CASE Failed
  <2>1. /\ pc' = "leave" /\ res'.wrote = res.wrote /\ res'.semantic = res.semantic
        /\ \/ gone' = gone /\ res'.why \in {"missing", "upstream_error", "transform", "rejected"}
           \/ gone' /\ res'.why = "canceled"
    BY <1>4 DEF Failed, Typed, Result
  <2> QED
    BY <1>1, <2>1 DEF Ends, Busy
<1> QED
  BY <1>2, <1>3, <1>4, EndCases

\* What is written at the end of an attempt, and what the client is told.
LEMMA EndsLast ==
  ASSUME EndsInv, EmitLast \/ Judge \/ Tell
  PROVE  Ends'
<1> USE DEF EndsInv
<1>1. /\ UNCHANGED <<client, gone, obs>> /\ Responses' = Responses
      /\ buf \in Seq(Events) /\ pending \in Seq(Events)
  BY DEF EmitLast, Judge, Tell, Left, Responses, Typed
<1>2. CASE EmitLast
  <2>1. CASE gone
    <3>1. /\ pc' = "leave" /\ res'.why = "write_failed"
          /\ res'.wrote = res.wrote /\ res'.semantic = res.semantic
      BY <1>2, <2>1 DEF EmitLast, Typed, Result
    <3> QED
      BY <1>1, <2>1, <3>1 DEF Ends, Busy
  <2>2. CASE ~gone
    <3>1. /\ pc = "last" /\ Deliver(buf) /\ pc' = "judge" /\ UNCHANGED <<res, pending>>
      BY <1>2, <2>2 DEF EmitLast
    <3>2. (Told => Told') /\ EndIn(pending)' = EndIn(pending)
      BY <1>1, <3>1, EndsDelivered DEF EndIn
    <3> QED
      BY <1>1, <3>1, <3>2 DEF Ends, Busy
  <2> QED
    BY <2>1, <2>2
<1>3. CASE Judge
  <2>1. /\ pc = "judge" /\ pc' = "leave" /\ res.why = "completed"
        /\ Responses => Told \/ EndIn(pending)
    BY <1>3 DEF Judge, Ends, Busy
  <2>2. CASE res.semantic /\ UNCHANGED <<session, sent, pending, res>>
    <3>1. ~EndIn(pending) /\ Told' = Told
      BY <2>1, <2>2, NothingEnds DEF Ends, Busy, Told
    <3> QED
      BY <1>1, <2>1, <2>2, <3>1 DEF Ends, Busy
  <2>3. CASE res'.why \in {"empty", "write_failed"} /\ ~res.semantic /\ res'.semantic = res.semantic
             /\ (res'.why = "write_failed" => gone)
    BY <1>1, <2>1, <2>3 DEF Ends, Busy
  <2>4. CASE /\ Responses /\ Deliver(pending) /\ ~res.semantic
             /\ res' = [res EXCEPT !.wrote = TRUE]
    <3>1. res'.why = "completed" /\ res'.wrote /\ Told'
      BY <1>1, <2>1, <2>4, EndsDelivered DEF Typed, Result
    <3> QED
      BY <1>1, <2>1, <3>1 DEF Ends, Busy
  <2>5. \A why \in Reasons : /\ [res EXCEPT !.why = why].why = why
                              /\ [res EXCEPT !.why = why].semantic = res.semantic
    BY DEF Typed, Result
  <2> QED
    BY <1>3, <2>2, <2>3, <2>4, <2>5 DEF Judge, Reasons
<1>4. CASE Tell
  <2>1. /\ pc = "tell" /\ pc' = "close" /\ UNCHANGED <<res, pending>>
        /\ gone \/ Deliver(buf)
    BY <1>4 DEF Tell
  <2>2. Waived' = Waived
    BY <1>1, <2>1 DEF Waived, Responses, Tolerant
  <2>3. CASE gone
    BY <1>1, <2>1, <2>2, <2>3 DEF Ends, Busy, Waived
  <2>4. CASE Deliver(buf)
    <3>1. Told \/ EndIn(buf) => Told'
      BY <1>1, <2>4, EndsDelivered
    <3> QED
      BY <1>1, <2>1, <2>2, <3>1 DEF Ends, Busy
  <2> QED
    BY <2>1, <2>3, <2>4
<1> QED
  BY <1>2, <1>3, <1>4

LEMMA InterruptedEnds == EndIn(Interrupted) /\ EndIn(<<"error">>) /\ EndIn(<<"completed">>)
<1>1. EndIn(<<"error">>) /\ EndIn(<<"completed">>)
  BY DEF EndIn, Terminal
<1>2. EndIn(<<"tooldone", "completed">>)
  <2> DEFINE q == <<"tooldone", "completed">>
  <2>1. 2 \in 1..Len(q) /\ q[2] \in Terminal
    BY DEF Terminal
  <2> QED
    BY <2>1 DEF EndIn
<1> QED
  BY <1>1, <1>2 DEF Interrupted

\* Every way out of handleProxy has an end for the client, ...
LEMMA TellingEnds ==
  ASSUME EndsInv, pc = "leave", ~MustRetry
  PROVE  Waived \/ Told \/ EndIn(Telling)
<1>1. res.why \in Reasons \ {"none"}
  BY DEF EndsInv, Typed, Result, Ends
<1>2. CASE res.why \in {"completed", "canceled", "write_failed", "transform"}
  BY <1>2 DEF EndsInv, Ends, Waived
<1>3. CASE res.why = "missing"
  <2>1. CASE res.wrote
    <3>1. Telling = Broke
      BY <1>3, <2>1 DEF Telling, Breaks
    <3> QED
      BY <1>3, <3>1, InterruptedEnds DEF Broke, Waived
  <2>2. CASE ~res.wrote
    BY <1>3, <2>2, InterruptedEnds DEF Telling, Breaks
  <2> QED
    BY <2>1, <2>2
<1>4. CASE res.why = "upstream_error"
  <2>1. Telling = Broke \/ Telling = <<"error">>
    BY <1>4 DEF Telling, Breaks
  <2>2. Broke \in {<<"completed">>, <<"error">>}
    BY <1>4 DEF Broke
  <2> QED
    BY <2>1, <2>2, InterruptedEnds
<1>5. CASE res.why \in {"empty", "rejected"}
  BY <1>5, InterruptedEnds DEF Telling, Breaks, MustRetry
<1> QED
  BY <1>1, <1>2, <1>3, <1>4, <1>5 DEF Reasons

\* ... and another attempt begins with nothing noted.
LEMMA EndsLeave ==
  ASSUME EndsInv, Retry \/ Conclude
  PROVE  Ends'
<1>1. CASE Retry
  <2>1. Rested' /\ pc' = "attempt" /\ res' = NoResult
    BY <1>1 DEF Retry, Rested
  <2> QED
    BY <2>1 DEF Ends, Busy, NoResult
<1>2. CASE Conclude
  <2>1. /\ pc = "leave" /\ ~MustRetry /\ pc' = "tell" /\ buf' = Telling
        /\ UNCHANGED <<client, gone, sent>>
    BY <1>2 DEF Conclude, Left
  <2>2. res'.why = res.why /\ ~res'.wrote /\ ~res'.semantic
    BY <1>2 DEF Conclude, NoResult
  <2>3. Waived' = Waived /\ Told' = Told /\ EndIn(buf)' = EndIn(Telling)
    BY <2>1, <2>2 DEF Waived, Told, EndIn, Responses, Tolerant
  <2>4. Waived' \/ Told' \/ EndIn(buf)'
    BY <2>1, <2>3, TellingEnds
  <2>5. res'.why \in {"canceled", "write_failed"} => gone'
    BY <2>1, <2>2 DEF EndsInv, Ends
  <2> QED
    BY <2>1, <2>2, <2>4, <2>5 DEF Ends, Busy
<1> QED
  BY <1>1, <1>2

LEMMA InitEnds == Init => Ends
BY DEF Init, Ends, Rested, NoResult, Blank, Busy

LEMMA NextEnds == EndsInv /\ [Next]_vars => Ends'
<1> SUFFICES ASSUME EndsInv, [Next]_vars PROVE Ends'
  OBVIOUS
<1>1. CASE UNCHANGED vars
  <2>1. UNCHANGED <<client, gone, pc, obs, buf, pending, res, sent>>
    BY <1>1 DEF vars
  <2> QED
    BY <2>1 DEF EndsInv, Ends, Rested, Busy, Waived, Told, EndIn, Responses, Tolerant
<1>2. CASE Next
  BY <1>2, EndsOutside, EndsEmit, EndsEnd, EndsLast, EndsLeave DEF Next, Request
<1> QED
  BY <1>1, <1>2

\* A Responses client that is still there is told how its request ended,
\* however many attempts it took and wherever the stream broke (handleProxy).
THEOREM EndAlwaysTold == Spec => []EndTold
<1>1. EndsInv => EndTold
  <2>1. Typed => DOMAIN sent = 1..Len(sent)
    BY DEF Typed
  <2> QED
    BY <2>1 DEF EndsInv, Ends, EndTold, Waived, Told
<1>2. Init => EndsInv
  BY InitTyped, InitEnds DEF EndsInv
<1>3. EndsInv /\ [Next]_vars => EndsInv'
  BY NextTyped, NextEnds DEF EndsInv
<1> QED
  BY <1>1, <1>2, <1>3, PTL DEF Spec
-----------------------------------------------------------------------------
(* The created event of clients other than Codex                           *)

Clean(q) == \A i \in 1..Len(q) : q[i] # "meta" /\ (q[i] = "created" => i = 1)
Plain(q) == \A i \in 1..Len(q) : q[i] \notin {"created", "meta"}
Opens(q) == q = <<>> \/ q[1] = "created" \/ \A i \in 1..Len(q) : q[i] = "error"

\* What is withheld is fit to be written: if the session has sent no created
\* event one is reserved exactly if something is withheld, and it is the first.
Ready(s, q) ==
  /\ Clean(q)
  /\ ~s.written => (s.reserved <=> q # <<>>) /\ (q # <<>> => q[1] = "created")

Withholding == IF pc = "emit" THEN pending \o buf ELSE pending

Begun == \E i \in 1..Len(sent) : sent[i].k = "created"

Once ==
  /\ \A i \in 1..Len(sent) : sent[i].k # "meta"
  /\ \A i, j \in 1..Len(sent) : sent[i].k = "created" /\ sent[j].k = "created" => i = j
  /\ \A i \in 1..Len(sent) : sent[i].k \notin {"ping", "error"} =>
       \E j \in 1..i : sent[j].k = "created"

Shown == Once /\ (session.written <=> Begun)

Opening ==
  /\ Shown
  /\ pc \in Busy => Ready(session, Withholding)
  /\ pc \in Busy \cup {"leave"} /\ res.wrote =>
       session.written \/ (pc = "leave" /\ res.why = "completed")
  /\ pc = "last" => session.written /\ Plain(buf)
  /\ pc \in {"start", "attempt"} => session.written \/ ~session.reserved
  /\ pc = "tell" =>
       Plain(buf) /\ (session.written \/ \A i \in 1..Len(buf) : buf[i] = "error")

LEMMA NothingIsReady ==
  ASSUME NEW s, s.written \/ ~s.reserved
  PROVE  Ready(s, <<>>)
BY DEF Ready, Clean

LEMMA ReadyOpens ==
  ASSUME NEW s \in Session, NEW q, Ready(s, q)
  PROVE  Clean(q) /\ (s.written \/ Opens(q))
BY DEF Ready, Opens

LEMMA CleanJoins ==
  ASSUME NEW q \in Seq(Events), NEW r \in Seq(Events), Clean(q), Plain(r)
  PROVE  Clean(q \o r)
<1>1. /\ q \o r \in Seq(Events) /\ Len(q \o r) = Len(q) + Len(r)
      /\ \A i \in 1..Len(q) : (q \o r)[i] = q[i]
      /\ \A i \in 1..Len(q \o r) : i > Len(q) =>
           i - Len(q) \in 1..Len(r) /\ (q \o r)[i] = r[i - Len(q)]
  <2> QED
    BY Joined, Zenon
<1>2. ASSUME NEW i \in 1..Len(q \o r)
      PROVE  (q \o r)[i] # "meta" /\ ((q \o r)[i] = "created" => i = 1)
  <2>1. CASE i > Len(q)
    BY <1>1, <2>1 DEF Plain
  <2>2. CASE ~(i > Len(q))
    <3>1. i \in 1..Len(q)
      BY <1>1, <2>2
    <3> QED
      BY <1>1, <3>1 DEF Clean
  <2> QED
    BY <2>1, <2>2
<1> QED
  BY <1>2 DEF Clean

LEMMA NothingKept == \A K : Kept(<<>>, K) = <<>>
<1> SUFFICES ASSUME NEW K PROVE Kept(<<>>, K) = <<>>
  OBVIOUS
<1>1. <<>> \in Seq(Events) /\ Len(<<>>) = 0
  OBVIOUS
<1>2. PICK f : KeptFrom(<<>>, K, Len(<<>>), f) /\ Kept(<<>>, K) = f[Len(<<>>)]
  BY <1>1, KeptIs
<1> QED
  BY <1>1, <1>2 DEF KeptFrom

LEMMA KeptIsPlain ==
  ASSUME NEW q \in Seq(Events), \A i \in 1..Len(q) : q[i] # "meta"
  PROVE  Kept(q, NotCreated) \in Seq(Events) /\ Plain(Kept(q, NotCreated))
<1> DEFINE S == Events \ {"meta"}
<1>1. q \in Seq(S)
  OBVIOUS
<1> HIDE DEF S
<1>2. Kept(q, NotCreated) \in Seq(S \cap NotCreated)
  BY <1>1, KeptTyped
<1>3. \A r \in Seq(S \cap NotCreated) : r \in Seq(Events) /\ Plain(r)
  BY DEF S, NotCreated, Plain
<1> QED
  BY <1>2, <1>3

\* prepareOpenAIResponsesData makes fit what is converted.
LEMMA PreparedIsReady ==
  ASSUME NEW s \in Session, NEW q \in Seq(Events), NEW data \in Seq(Events), Ready(s, q)
  PROVE  /\ Reserve(s, data) \in Session /\ Reserve(s, data).written = s.written
         /\ Ready(Reserve(s, data), q \o PreparedFor(s, data))
<1> DEFINE public == Kept(data, Public)
           rest   == Kept(public, NotCreated)
           made   == PreparedFor(s, data)
<1>1. public \in Seq(Events) /\ \A i \in 1..Len(public) : public[i] # "meta"
  <2>1. public \in Seq(Events) /\ \A i \in 1..Len(public) : public[i] \in Public
    BY KeptEvents
  <2> HIDE DEF public
  <2> QED
    BY <2>1 DEF Public
<1>2. made = IF public = <<>> \/ s.written \/ s.reserved THEN rest ELSE <<"created">> \o rest
  BY DEF PreparedFor
<1>3. Reserve(s, data) \in Session
  BY ReserveTyped
<1>4. Reserve(s, data).written = s.written
  BY DEF Reserve, Session
<1>5. Reserve(s, data).reserved = (s.reserved \/ ~(public = <<>> \/ s.written \/ s.reserved))
  BY DEF Reserve, Session
<1>6. rest \in Seq(Events) /\ Plain(rest) /\ (public = <<>> => rest = <<>>)
  <2> HIDE DEF public
  <2> QED
    BY <1>1, KeptIsPlain, NothingKept
<1> HIDE DEF public, rest
<1>7. CASE public = <<>> \/ s.written \/ s.reserved
  <2>1. made = rest /\ Reserve(s, data).reserved = s.reserved
    BY <1>2, <1>5, <1>7 DEF Session
  <2>2. Clean(q \o rest)
    BY <1>6, CleanJoins DEF Ready
  <2>3. CASE s.written
    BY <1>3, <1>4, <2>1, <2>2, <2>3 DEF Ready
  <2>4. CASE ~s.written /\ s.reserved
    <3>1. q # <<>> /\ q[1] = "created"
      BY <2>4 DEF Ready
    <3>2. q \o rest # <<>> /\ (q \o rest)[1] = "created"
      BY <1>6, <3>1
    <3> QED
      BY <1>3, <1>4, <2>1, <2>2, <2>4, <3>2 DEF Ready
  <2>5. CASE ~s.written /\ ~s.reserved
    <3>1. q = <<>> /\ rest = <<>>
      BY <1>6, <1>7, <2>5 DEF Ready
    <3>2. q \o rest = <<>>
      BY <3>1
    <3> QED
      BY <1>3, <1>4, <2>1, <2>2, <2>5, <3>2 DEF Ready
  <2> QED
    BY <2>3, <2>4, <2>5
<1>8. CASE ~(public = <<>> \/ s.written \/ s.reserved)
  <2>1. q = <<>> /\ Reserve(s, data).reserved /\ made = <<"created">> \o rest
    BY <1>2, <1>5, <1>8 DEF Ready
  <2>2. q \o made = <<"created">> \o rest
    BY <1>6, <2>1, ShortAreTyped
  <2>3. Clean(<<"created">>)
    BY DEF Clean
  <2>4. Clean(<<"created">> \o rest)
    BY <1>6, <2>3, CleanJoins, ShortAreTyped
  <2>5. <<"created">> \o rest # <<>> /\ (<<"created">> \o rest)[1] = "created"
    BY <1>6
  <2> HIDE DEF made
  <2> QED
    BY <1>3, <1>4, <2>1, <2>2, <2>4, <2>5 DEF Ready, made
<1> QED
  BY <1>7, <1>8

\* What the client receives begins with its only created event.
LEMMA OnceReceived ==
  ASSUME sent \in Seq(Out), NEW n, NEW q \in Seq(Events), Received(n, q), Once, Clean(q),
         IF Begun THEN Plain(q) ELSE Opens(q)
  PROVE  Once' /\ (Begun' <=> Begun \/ \E i \in 1..Len(q) : q[i] = "created")
<1>1. /\ Len(sent') = Len(sent) + Len(q) /\ Len(sent) \in Nat /\ Len(q) \in Nat
      /\ \A i \in 1..Len(sent) : sent'[i] = sent[i]
      /\ \A i \in 1..Len(q) : sent'[Len(sent) + i].k = q[i]
      /\ \A i \in 1..Len(sent') : i > Len(sent) =>
           i - Len(sent) \in 1..Len(q) /\ sent'[i].k = q[i - Len(sent)]
  BY DEF Received
<1>2. \A i \in 1..Len(sent') : \/ i \in 1..Len(sent) /\ sent'[i] = sent[i]
                               \/ /\ i - Len(sent) \in 1..Len(q) /\ i > Len(sent)
                                  /\ sent'[i].k = q[i - Len(sent)]
  BY <1>1
<1>3. \A i \in 1..Len(sent') : sent'[i].k # "meta"
  BY <1>2 DEF Once, Clean
<1>4. Begun => Begun'
  BY <1>1 DEF Begun
<1>5. (\E i \in 1..Len(q) : q[i] = "created") => Begun'
  <2> SUFFICES ASSUME NEW i \in 1..Len(q), q[i] = "created" PROVE Begun'
    OBVIOUS
  <2>1. Len(sent) + i \in 1..Len(sent') /\ sent'[Len(sent) + i].k = "created"
    BY <1>1
  <2> QED
    BY <2>1 DEF Begun
<1>6. Begun' => Begun \/ \E i \in 1..Len(q) : q[i] = "created"
  BY <1>2 DEF Begun
<1>7. ASSUME NEW i \in 1..Len(sent'), NEW j \in 1..Len(sent'),
             sent'[i].k = "created", sent'[j].k = "created"
      PROVE  i = j
  <2>1. CASE Begun
    BY <1>2, <1>7, <2>1 DEF Once, Plain
  <2>2. CASE ~Begun
    <3>1. i - Len(sent) = 1 /\ j - Len(sent) = 1
      BY <1>2, <1>7, <2>2 DEF Begun, Clean
    <3> QED
      BY <1>1, <3>1
  <2> QED
    BY <2>1, <2>2
<1>8. ASSUME NEW i \in 1..Len(sent'), sent'[i].k \notin {"ping", "error"}
      PROVE  \E j \in 1..i : sent'[j].k = "created"
  <2>1. CASE i \in 1..Len(sent)
    <3>1. PICK j \in 1..i : sent[j].k = "created"
      BY <1>1, <1>8, <2>1 DEF Once
    <3>2. sent'[j] = sent[j]
      BY <1>1, <2>1
    <3> QED
      BY <3>1, <3>2
  <2>2. CASE i \notin 1..Len(sent) /\ Begun
    <3>1. PICK j \in 1..Len(sent) : sent[j].k = "created"
      BY <2>2 DEF Begun
    <3>2. j \in 1..i /\ sent'[j] = sent[j]
      BY <1>1, <2>2
    <3> QED
      BY <3>1, <3>2
  <2>3. CASE i \notin 1..Len(sent) /\ ~Begun
    <3>1. i - Len(sent) \in 1..Len(q) /\ i > Len(sent) /\ q[i - Len(sent)] # "error"
      BY <1>2, <1>8, <2>3
    <3>2. q # <<>> /\ 1 \in 1..Len(q)
      BY <1>1, <3>1
    <3>3. q[1] = "created"
      BY <2>3, <3>1, <3>2 DEF Opens
    <3>4. Len(sent) + 1 \in 1..i /\ sent'[Len(sent) + 1].k = "created"
      BY <1>1, <3>1, <3>2, <3>3
    <3> QED
      BY <3>4
  <2> QED
    BY <2>1, <2>2, <2>3
<1> QED
  BY <1>3, <1>4, <1>5, <1>6, <1>7, <1>8 DEF Once

LEMMA ShownAfter ==
  ASSUME Typed, Strict, Shown, NEW data \in Seq(Events), Clean(data),
         session.written \/ Opens(data),
         NEW s \in Session, s.written = session.written, session' = Wrote(s, data),
         sent' = sent \o From(att.n, Filtered(session, data))
  PROVE  /\ Shown'
         /\ session'.written <=> session.written \/ \E i \in 1..Len(data) : data[i] = "created"
<1> DEFINE out == Filtered(session, data)
<1>1. out = (IF session.written THEN Kept(data, NotCreated) ELSE data) /\ Responses
  BY DEF Filtered, Passes, Strict
<1>2. out \in Seq(Events) /\ att.n \in 0..MaxAttempts
  BY FilteredTyped DEF Typed, Attempt
<1>3. Received(att.n, out)
  BY <1>2, FromIsReceived DEF Typed
<1>4. session.written => Plain(out)
  BY <1>1, KeptIsPlain DEF Clean
<1>5. Clean(out) /\ (IF Begun THEN Plain(out) ELSE Opens(out))
  <2> HIDE DEF out
  <2>1. Plain(out) => Clean(out)
    BY DEF Plain, Clean
  <2> QED
    BY <1>1, <1>4, <2>1 DEF Shown
<1> HIDE DEF out
<1>6. Once' /\ (Begun' <=> Begun \/ \E i \in 1..Len(out) : out[i] = "created")
  BY <1>2, <1>3, <1>5, OnceReceived DEF Shown, Typed
<1>7. session'.written <=> session.written \/ \E i \in 1..Len(data) : data[i] = "created"
  <2>1. Contains(data, "created") <=> \E i \in 1..Len(data) : data[i] = "created"
    BY DEF Contains
  <2> QED
    BY <1>1, <2>1 DEF Wrote, Session
<1>8. Begun' <=> session'.written
  BY <1>1, <1>4, <1>6, <1>7 DEF Shown, Plain
<1> QED
  BY <1>6, <1>7, <1>8 DEF Shown

LEMMA ShownDelivered ==
  ASSUME Typed, Strict, Shown, NEW data \in Seq(Events), Clean(data),
         session.written \/ Opens(data), Deliver(data)
  PROVE  /\ Shown'
         /\ session'.written <=> session.written \/ \E i \in 1..Len(data) : data[i] = "created"
BY ShownAfter DEF Deliver, Typed

\* The steps that write nothing and reserve nothing.
LEMMA OpeningQuiet ==
  ASSUME EndsInv, Strict, Opening,
         \/ StartSession \/ BeginAttempt \/ GiveUp \/ BeatLoopEnds \/ Disconnect
         \/ CloseChannel \/ CloseFlag \/ \E k \in Kinds : ReadEvent(k)
  PROVE  Opening'
<1> USE DEF EndsInv
<1>1. /\ session'.written = session.written /\ session'.reserved = session.reserved
      /\ UNCHANGED <<sent, res, pending>>
  BY DEF StartSession, BeginAttempt, GiveUp, BeatLoopEnds, Disconnect, CloseChannel, CloseFlag,
     ReadEvent, Left, Typed, Session
<1>2. Shown' = Shown
  BY <1>1 DEF Shown, Once, Begun
<1>3. Rested => pending = <<>> /\ ~res.wrote
  BY DEF Rested, NoResult
<1>4. \/ pc = "start" /\ pc' = "attempt"
      \/ pc = "attempt" /\ pc' = "read"
      \/ pc = "attempt" /\ pc' = "tell" /\ buf' = <<"error">>
      \/ pc' = pc /\ buf' = buf
      \/ pc = "read" /\ pc' = "prepare"
      \/ pc = "close" /\ pc' \in {"close", "ended"}
  BY DEF StartSession, BeginAttempt, GiveUp, BeatLoopEnds, Disconnect, CloseChannel, CloseFlag,
     ReadEvent, Left
<1>5. \A q : Ready(session', q) = Ready(session, q)
  BY <1>1 DEF Ready
<1>6. Plain(<<"error">>) /\ \A i \in 1..Len(<<"error">>) : <<"error">>[i] = "error"
  BY DEF Plain
<1>7. pc = "attempt" => Ready(session, <<>>) /\ Rested
  BY NothingIsReady DEF Opening, Ends
<1>8. CASE pc' = pc /\ buf' = buf
  <2>1. Withholding' = Withholding
    BY <1>1, <1>8 DEF Withholding
  <2> QED
    BY <1>1, <1>2, <1>5, <1>8, <2>1 DEF Opening, Busy, Plain
<1>9. CASE pc \in {"start", "attempt"} /\ pc' \in {"attempt", "read"}
  BY <1>1, <1>2, <1>3, <1>4, <1>5, <1>7, <1>9 DEF Opening, Busy, Withholding, Ends
<1>10. CASE pc = "attempt" /\ pc' = "tell" /\ buf' = <<"error">>
  BY <1>1, <1>2, <1>6, <1>10 DEF Opening, Busy, Plain
<1>11. CASE pc = "read" /\ pc' = "prepare"
  BY <1>1, <1>2, <1>5, <1>11 DEF Opening, Busy, Withholding
<1>12. CASE pc = "close" /\ pc' \in {"close", "ended"}
  BY <1>1, <1>2, <1>12 DEF Opening, Busy
<1> QED
  BY <1>4, <1>8, <1>9, <1>10, <1>11, <1>12

\* A heartbeat that sends the created event finds none reserved.
LEMMA OpeningBeat ==
  ASSUME Typed, Strict, Opening, Beat
  PROVE  Opening'
<1>1. UNCHANGED <<client, pc, buf, pending, res>> /\ Responses
  BY DEF Beat, Strict
<1>2. Withholding' = Withholding
  BY <1>1 DEF Withholding
<1>3. CASE ~session.written /\ ~session.reserved
  <2>1. sent' = Append(sent, [k |-> "created", a |-> 0]) /\ session'.written
    BY <1>1, <1>3 DEF Beat, Typed, Session
  <2>2. /\ Len(sent') = Len(sent) + 1 /\ Len(sent) \in Nat
        /\ \A i \in 1..Len(sent) : sent'[i] = sent[i]
        /\ sent'[Len(sent) + 1].k = "created"
    BY <2>1, BeatIsReceived, KindsAreEvents DEF Typed
  <2>3. \A i \in 1..Len(sent) : sent[i].k \in {"ping", "error"}
    BY <1>3 DEF Opening, Shown, Once, Begun
  <2>4. \A i \in 1..Len(sent') : \/ i \in 1..Len(sent) /\ sent'[i].k \in {"ping", "error"}
                                 \/ i = Len(sent) + 1 /\ sent'[i].k = "created"
    BY <2>2, <2>3
  <2>5. Begun'
    BY <2>2 DEF Begun
  <2>6. Once'
    <3>1. \A i \in 1..Len(sent') : sent'[i].k \notin {"ping", "error"} =>
            i \in 1..i /\ sent'[i].k = "created"
      BY <2>2, <2>4
    <3> QED
      BY <2>4, <3>1 DEF Once
  <2>7. \A q : Ready(session, q) => Ready(session', q)
    BY <2>1 DEF Ready
  <2> QED
    BY <1>1, <1>2, <2>1, <2>5, <2>6, <2>7 DEF Opening, Shown, Plain
<1>4. CASE ~(~session.written /\ ~session.reserved)
  <2>1. sent' = Append(sent, [k |-> "ping", a |-> 0]) /\ session' = session
    BY <1>1, <1>4 DEF Beat
  <2>2. /\ Len(sent') = Len(sent) + 1 /\ Len(sent) \in Nat
        /\ \A i \in 1..Len(sent) : sent'[i] = sent[i]
        /\ sent'[Len(sent) + 1].k = "ping"
    BY <2>1, BeatIsReceived DEF Typed
  <2>3. \A i \in 1..Len(sent') : \/ i \in 1..Len(sent) /\ sent'[i] = sent[i]
                                 \/ i = Len(sent) + 1 /\ sent'[i].k = "ping"
    BY <2>2
  <2>4. Begun' <=> Begun
    BY <2>2, <2>3 DEF Begun
  <2>5. Once'
    <3>1. ASSUME NEW i \in 1..Len(sent'), sent'[i].k \notin {"ping", "error"}
          PROVE  \E j \in 1..i : sent'[j].k = "created"
      <4>1. i \in 1..Len(sent) /\ sent'[i] = sent[i]
        BY <2>3, <3>1
      <4>2. PICK j \in 1..i : sent[j].k = "created"
        BY <3>1, <4>1 DEF Opening, Shown, Once
      <4> QED
        BY <2>2, <4>1, <4>2
    <3> QED
      BY <2>3, <3>1 DEF Opening, Shown, Once
  <2> QED
    BY <1>1, <1>2, <2>1, <2>4, <2>5 DEF Opening, Shown, Plain
<1> QED
  BY <1>3, <1>4

\* Preparing and emitting.
LEMMA OpeningEmit ==
  ASSUME Typed, Strict, Opening, Prepare \/ Emit
  PROVE  Opening'
<1>1. CASE Prepare
  <2>1. /\ pc = "prepare" /\ pc' = "emit" /\ buf' = PreparedFor(session, buf)
        /\ session' = Reserve(session, buf) /\ UNCHANGED <<pending, res, sent>>
    BY <1>1 DEF Prepare
  <2>2. Ready(session, pending)
    BY <2>1 DEF Opening, Busy, Withholding
  <2>3. /\ Reserve(session, buf).written = session.written
        /\ Ready(Reserve(session, buf), pending \o PreparedFor(session, buf))
    BY <2>2, PreparedIsReady DEF Typed
  <2>4. session'.written = session.written /\ Ready(session', pending' \o buf')
    BY <2>1, <2>3
  <2>5. Shown' = Shown
    BY <2>1, <2>4 DEF Shown, Once, Begun
  <2> QED
    BY <2>1, <2>4, <2>5 DEF Opening, Busy, Withholding
<1>2. CASE Emit
  <2>1. pc = "emit" /\ Ready(session, pending \o buf)
    BY <1>2, EmitCases DEF Opening, Busy, Withholding
  <2>2. CASE Withheld
    <3>1. /\ pc' = "read" /\ pending' = pending \o buf
          /\ UNCHANGED <<session, sent, res>>
      BY <2>2 DEF Withheld
    <3>2. Shown' = Shown
      BY <3>1 DEF Shown, Once, Begun
    <3> QED
      BY <2>1, <3>1, <3>2 DEF Opening, Busy, Withholding
  <2>3. CASE CutOff
    <3>1. pc' = "leave" /\ UNCHANGED <<session, sent>> /\ res'.wrote = res.wrote
      BY <2>3 DEF CutOff, Typed, Result
    <3>2. Shown' = Shown
      BY <3>1 DEF Shown, Once, Begun
    <3> QED
      BY <2>1, <3>1, <3>2 DEF Opening, Busy
  <2>4. CASE Through
    <3> DEFINE data == pending \o buf
    <3>1. buf # <<>> /\ Deliver(data) /\ pending' = <<>> /\ pc' = "read"
      BY <2>4 DEF Through
    <3>2. data \in Seq(Events) /\ data # <<>>
      BY <3>1 DEF Typed
    <3>3. Ready(session, data)
      BY <2>1
    <3> HIDE DEF data
    <3>4. Clean(data) /\ (session.written \/ Opens(data))
      BY <3>3, ReadyOpens DEF Typed
    <3>5. /\ Shown'
          /\ session'.written <=> session.written \/ \E i \in 1..Len(data) : data[i] = "created"
      BY <3>1, <3>2, <3>4, ShownDelivered DEF Opening
    <3>6. session'.written
      BY <3>2, <3>3, <3>5 DEF Ready
    <3>7. Ready(session', <<>>)
      BY <3>6, NothingIsReady
    <3> QED
      BY <3>1, <3>5, <3>6, <3>7 DEF Opening, Busy, Withholding
  <2> QED
    BY <1>2, <2>2, <2>3, <2>4, EmitCases
<1> QED
  BY <1>1, <1>2

\* The end that the proxy makes begins the answer if nothing else has.
LEMMA OpeningEnd ==
  ASSUME Typed, Strict, Opening, Done \/ DoneEarly \/ EndOfFile \/ Broken
  PROVE  Opening'
<1>1. /\ pc = "read" /\ Ready(session, pending)
      /\ (res.wrote => session.written)
  BY EndCases DEF Opening, Busy, Withholding
<1>2. CASE Settled
  <2>1. pc' = "judge" /\ UNCHANGED <<session, pending, sent>> /\ res'.wrote = res.wrote
    BY <1>2 DEF Settled, Typed, Result
  <2>2. Shown' = Shown
    BY <2>1 DEF Shown, Once, Begun
  <2> QED
    BY <1>1, <2>1, <2>2 DEF Opening, Busy, Withholding
<1>3. CASE Failed
  <2>1. pc' = "leave" /\ UNCHANGED <<session, pending, sent>> /\ res'.wrote = res.wrote
    BY <1>3 DEF Failed, Typed, Result
  <2>2. Shown' = Shown
    BY <2>1 DEF Shown, Once, Begun
  <2> QED
    BY <1>1, <2>1, <2>2 DEF Opening, Busy
<1>4. CASE Completed
  <2> DEFINE end == <<"completed">>
  <2>1. end \in Seq(Events) /\ end # <<>>
    BY ShortAreTyped
  <2>2. /\ Made = pending \o PreparedFor(session, end)
        /\ sent' = sent \o From(att.n, Filtered(session, Made))
        /\ session' = Wrote(Reserve(session, end), Made)
    BY <1>4 DEF Completed, Synthesize, Made
  <2> HIDE DEF end
  <2>3. Made \in Seq(Events) /\ Made # <<>> /\ pending' = <<>>
    BY <1>4, SynthesizeIs, MadeEnds, NothingEnds DEF Completed
  <2>4. /\ Reserve(session, end) \in Session /\ Reserve(session, end).written = session.written
        /\ Ready(Reserve(session, end), Made)
    BY <1>1, <2>1, <2>2, PreparedIsReady DEF Typed
  <2>5. Clean(Made) /\ (session.written \/ Opens(Made))
    BY <2>4, ReadyOpens
  <2>6. /\ Shown'
        /\ session'.written <=> session.written \/ \E i \in 1..Len(Made) : Made[i] = "created"
    BY <2>2, <2>3, <2>4, <2>5, ShownAfter DEF Opening
  <2>7. session'.written
    BY <2>3, <2>4, <2>6 DEF Ready
  <2>8. Ready(session', <<>>)
    BY <2>7, NothingIsReady
  <2>9. pc' = "judge" \/ (pc' = "last" /\ buf' \in {<<"completed">>, <<>>})
    BY <1>4 DEF Completed
  <2>10. Plain(<<"completed">>) /\ Plain(<<>>)
    BY DEF Plain
  <2>11. pc' = "last" => Plain(buf')
    BY <2>9, <2>10
  <2> QED
    BY <2>3, <2>6, <2>7, <2>8, <2>9, <2>11 DEF Opening, Busy, Withholding, Plain
<1> QED
  BY <1>2, <1>3, <1>4, EndCases

\* What is written at the end of an attempt, and what the client is told.
LEMMA OpeningLast ==
  ASSUME EndsInv, Strict, Opening, EmitLast \/ Judge \/ Tell
  PROVE  Opening'
<1> USE DEF EndsInv
<1>1. \A q : Plain(q) => Clean(q)
  BY DEF Plain, Clean
<1>2. buf \in Seq(Events) /\ pending \in Seq(Events)
  BY DEF Typed
<1>3. UNCHANGED <<session, sent>> => Shown' = Shown
  BY DEF Shown, Once, Begun
<1>4. CASE EmitLast
  <2>1. pc = "last" /\ pending' = pending /\ session.written /\ Plain(buf)
    BY <1>4 DEF EmitLast, Opening
  <2>2. CASE gone
    <3>1. pc' = "leave" /\ UNCHANGED <<session, sent>>
      BY <1>4, <2>2 DEF EmitLast
    <3> QED
      BY <1>3, <2>1, <3>1 DEF Opening, Busy
  <2>3. CASE ~gone
    <3>1. pc' = "judge" /\ Deliver(buf) /\ res' = res
      BY <1>4, <2>3 DEF EmitLast
    <3>2. Shown' /\ session'.written
      BY <1>1, <1>2, <2>1, <3>1, ShownDelivered DEF Opening
    <3>3. Ready(session, pending)
      BY <2>1 DEF Opening, Busy, Withholding
    <3>4. Ready(session', pending)
      BY <3>2, <3>3 DEF Ready
    <3> QED
      BY <2>1, <3>1, <3>2, <3>4 DEF Opening, Busy, Withholding
  <2> QED
    BY <2>2, <2>3
<1>5. CASE Judge
  <2>1. /\ pc = "judge" /\ pc' = "leave" /\ Ready(session, pending) /\ res.why = "completed"
        /\ (res.wrote => session.written)
    BY <1>5 DEF Judge, Opening, Busy, Withholding, Ends
  <2>2. CASE UNCHANGED <<session, sent>> /\ res'.wrote = res.wrote
    BY <1>3, <2>1, <2>2 DEF Opening, Busy
  <2>3. CASE Deliver(pending) /\ res' = [res EXCEPT !.wrote = TRUE]
    <3>1. Clean(pending) /\ (session.written \/ Opens(pending))
      BY <2>1, ReadyOpens DEF Typed
    <3>2. Shown'
      BY <1>2, <2>3, <3>1, ShownDelivered DEF Opening
    <3>3. res'.why = "completed"
      BY <2>1, <2>3 DEF Typed, Result
    <3> QED
      BY <2>1, <3>2, <3>3 DEF Opening, Busy
  <2>4. \A why \in Reasons : [res EXCEPT !.why = why].wrote = res.wrote
    BY DEF Typed, Result
  <2> QED
    BY <1>5, <2>2, <2>3, <2>4 DEF Judge, Reasons
<1>6. CASE Tell
  <2>1. pc = "tell" /\ pc' = "close"
    BY <1>6 DEF Tell
  <2>2. CASE UNCHANGED <<session, sent>>
    BY <1>3, <2>1, <2>2 DEF Opening, Busy
  <2>3. CASE Deliver(buf)
    <3>1. Plain(buf) /\ (session.written \/ Opens(buf))
      BY <2>1 DEF Opening, Opens
    <3>2. Shown'
      BY <1>1, <1>2, <2>3, <3>1, ShownDelivered DEF Opening
    <3> QED
      BY <2>1, <3>2 DEF Opening, Busy
  <2> QED
    BY <1>6, <2>2, <2>3 DEF Tell
<1> QED
  BY <1>4, <1>5, <1>6

\* Only a stream of which something was written is continued by more than an
\* error.
LEMMA TellingIsPlain ==
  /\ Plain(Telling)
  /\ ~Breaks => \A i \in 1..Len(Telling) : Telling[i] = "error"
<1>1. \A q \in {<<>>, <<"error">>} : Plain(q) /\ \A i \in 1..Len(q) : q[i] = "error"
  BY DEF Plain
<1>2. Plain(<<"completed">>) /\ Plain(<<"tooldone", "completed">>)
  <2>1. \A i \in 1..Len(<<"tooldone", "completed">>) : i = 1 \/ i = 2
    OBVIOUS
  <2> QED
    BY <2>1 DEF Plain
<1>3. Interrupted \in {<<"completed">>, <<"tooldone", "completed">>, <<"error">>}
  BY DEF Interrupted
<1>4. Broke \in {<<>>, <<"completed">>, <<"tooldone", "completed">>, <<"error">>}
  BY <1>3 DEF Broke
<1>5. CASE Breaks
  BY <1>1, <1>2, <1>4, <1>5 DEF Telling
<1>6. CASE ~Breaks
  <2>1. Telling \in {<<>>, <<"error">>}
    BY <1>6 DEF Telling
  <2> QED
    BY <1>1, <2>1
<1> QED
  BY <1>5, <1>6

LEMMA OpeningLeave ==
  ASSUME EndsInv, Strict, Opening, Retry \/ Conclude
  PROVE  Opening'
<1>1. /\ pc = "leave" /\ session' = Released(session) /\ sent' = sent
      /\ pc' = "attempt" \/ (pc' = "tell" /\ buf' = Telling)
  BY DEF Retry, Conclude, Left
<1>2. session'.written = session.written /\ (session'.written \/ ~session'.reserved)
  BY <1>1 DEF Released, EndsInv, Typed, Session
<1>3. Shown' = Shown
  BY <1>1, <1>2 DEF Shown, Once, Begun
<1>4. Plain(Telling) /\ (session.written \/ \A i \in 1..Len(Telling) : Telling[i] = "error")
  <2>1. CASE Breaks
    <3>1. res.wrote /\ res.why # "completed"
      BY <2>1 DEF Breaks, EndsInv, Ends
    <3> QED
      BY <1>1, <3>1, TellingIsPlain DEF Opening, Busy
  <2>2. CASE ~Breaks
    BY <2>2, TellingIsPlain
  <2> QED
    BY <2>1, <2>2
<1> QED
  BY <1>1, <1>2, <1>3, <1>4 DEF Opening, Busy, Plain

OpeningInv == EndsInv /\ (Strict => Opening)

LEMMA InitOpens == Init => Opening
<1> SUFFICES ASSUME Init PROVE Opening
  OBVIOUS
<1>1. sent = <<>> /\ ~session.written /\ ~session.reserved /\ ~res.wrote /\ pc = "start"
  BY DEF Init, NewSession, NoResult
<1> QED
  BY <1>1 DEF Opening, Shown, Once, Begun, Busy

LEMMA NextOpens == OpeningInv /\ [Next]_vars => (Strict => Opening)'
<1> SUFFICES ASSUME OpeningInv, [Next]_vars, Strict' PROVE Opening'
  OBVIOUS
<1>1. client' = client
  BY DEF Next, vars, Request, StartSession, BeginAttempt, GiveUp, ReadEvent, Prepare, Emit, Done,
     DoneEarly, EmitLast, EndOfFile, Broken, Judge, Retry, Conclude, Tell, CloseChannel,
     CloseFlag, Beat, BeatLoopEnds, Disconnect, Left
<1>2. Strict /\ Opening /\ EndsInv /\ Typed
  BY <1>1 DEF Strict, Responses, OpeningInv, EndsInv
<1>3. CASE UNCHANGED vars
  <2>1. UNCHANGED <<session, pc, buf, pending, res, sent>>
    BY <1>3 DEF vars
  <2> QED
    BY <1>2, <2>1 DEF Opening, Shown, Once, Begun, Busy, Withholding, Ready, Plain
<1>4. CASE Next
  BY <1>2, <1>4, OpeningQuiet, OpeningBeat, OpeningEmit, OpeningEnd, OpeningLast, OpeningLeave
     DEF Next, Request
<1> QED
  BY <1>3, <1>4

-----------------------------------------------------------------------------
(* The created event of Codex                                              *)

Codex == client = "codex"

LEMMA CodexIs == Codex => Responses /\ ~Strict
BY DEF Codex, Responses, Strict

First(q) == q # <<>> /\ q[1] = "created"
Wrong(q) == \A i \in 1..Len(q) : q[i] = "error"

\* The client has seen a created event of an upstream.
Seen == \E j \in 1..Len(sent) : sent[j].k = "created" /\ sent[j].a >= 1

Introduced ==
  \A i \in 1..Len(sent) : sent[i].a \in att.named /\ sent[i].k # "error" =>
    \E j \in 1..i : sent[j].k = "created" /\ sent[j].a \in 1..sent[i].a

Traced ==
  /\ session.written /\ ~session.waiting => Seen
  /\ att.named \subseteq 1..att.n
  /\ \A i \in 1..Len(sent) : sent[i].a <= att.n
  /\ Introduced

\* While an attempt whose upstream has sent a created event has something to
\* write, the client has seen one or it is the first thing withheld.
Naming ==
  /\ Traced
  /\ pc \notin {"start", "attempt"} => att.n >= 1
  /\ pc = "read" /\ att.first =>
       pending = <<>> /\ ~res.wrote /\ \A i \in 1..Len(sent) : sent[i].a < att.n
  /\ pc # "prepare" /\ (pc = "emit" => ~att.first)
  /\ att.n \in att.named =>
       /\ pc \in Busy => Seen \/ First(Withholding)
       /\ pc \in Busy \cup {"leave"} /\ res.wrote => Seen
       /\ pc = "last" => Seen
       /\ pc = "tell" => Seen \/ Wrong(buf)

LEMMA FirstJoins ==
  ASSUME NEW q \in Seq(Events), NEW r \in Seq(Events), First(q)
  PROVE  First(q \o r)
BY DEF First

LEMMA TracedDelivered ==
  ASSUME Typed, Codex, Traced, NEW data \in Seq(Events), Deliver(data), UNCHANGED att,
         att.n >= 1, att.n \in att.named => Seen \/ First(data) \/ Wrong(data)
  PROVE  Traced' /\ (Seen => Seen') /\ (First(data) => Seen')
<1> DEFINE out == Filtered(session, data)
           has == \E i \in 1..Len(data) : data[i] = "created"
<1>1. /\ out = (IF ~session.written \/ session.waiting THEN data ELSE Kept(data, NotCreated))
      /\ Responses /\ ~Strict
  BY CodexIs DEF Filtered, Passes
<1>2. out \in Seq(Events) /\ att.n \in 0..MaxAttempts
  BY FilteredTyped DEF Typed, Attempt
<1>3. Received(att.n, out)
  BY <1>2, FromIsReceived DEF Typed, Deliver
<1> HIDE DEF out
<1>4. /\ Len(sent') = Len(sent) + Len(out) /\ Len(sent) \in Nat /\ Len(out) \in Nat
      /\ \A i \in 1..Len(sent) : sent'[i] = sent[i]
      /\ \A i \in 1..Len(out) : /\ sent'[Len(sent) + i].k = out[i]
                                /\ sent'[Len(sent) + i].a = att.n
      /\ \A i \in 1..Len(sent') : i > Len(sent) =>
           /\ i - Len(sent) \in 1..Len(out)
           /\ sent'[i].k = out[i - Len(sent)] /\ sent'[i].a = att.n
  <2> DEFINE is(i, k) == sent'[i] = [k |-> k, a |-> att.n]
  <2>1. /\ Len(sent') = Len(sent) + Len(out) /\ Len(sent) \in Nat /\ Len(out) \in Nat
        /\ \A i \in 1..Len(sent) : sent'[i] = sent[i]
        /\ \A i \in 1..Len(out) : is(Len(sent) + i, out[i])
        /\ \A i \in 1..Len(sent') : i > Len(sent) =>
             i - Len(sent) \in 1..Len(out) /\ is(i, out[i - Len(sent)])
    <3>1. Len(sent) \in Nat /\ Len(out) \in Nat
      BY <1>2 DEF Typed
    <3> QED
      BY <1>3, <3>1, Zenon DEF Received
  <2>2. \A i, k : is(i, k) => sent'[i].k = k /\ sent'[i].a = att.n
    OBVIOUS
  <2> HIDE DEF is
  <2> QED
    BY <2>1, <2>2
<1>5. Seen => Seen'
  BY <1>4 DEF Seen
<1>6. ~Seen => out = data
  BY <1>1 DEF Traced
<1>7. has => Seen'
  <2> SUFFICES ASSUME ~Seen, NEW i \in 1..Len(data), data[i] = "created" PROVE Seen'
    BY <1>5
  <2>1. /\ Len(sent) + i \in 1..Len(sent') /\ sent'[Len(sent) + i].k = "created"
        /\ sent'[Len(sent) + i].a = att.n
    BY <1>4, <1>6
  <2> QED
    BY <2>1 DEF Seen
<1>8. First(data) => has
  BY DEF First
<1>9. session'.written /\ ~session'.waiting => Seen'
  <2>1. Contains(data, "created") <=> has
    BY DEF Contains
  <2> HIDE DEF has
  <2>2. ~has => session' = session
    BY <2>1 DEF Deliver, Wrote
  <2> QED
    BY <1>5, <1>7, <2>2 DEF Traced
<1>10. \A i \in 1..Len(sent') : sent'[i].a <= att'.n
  <2> SUFFICES ASSUME NEW i \in 1..Len(sent') PROVE sent'[i].a <= att.n
    OBVIOUS
  <2>1. CASE i > Len(sent)
    BY <1>2, <1>4, <2>1
  <2>2. CASE ~(i > Len(sent))
    <3>1. i \in 1..Len(sent)
      BY <1>4, <2>2
    <3> QED
      BY <1>4, <3>1 DEF Traced
  <2> QED
    BY <2>1, <2>2
<1>11. ASSUME NEW i \in 1..Len(sent'), sent'[i].a \in att.named, sent'[i].k # "error"
       PROVE  \E j \in 1..i : sent'[j].k = "created" /\ sent'[j].a \in 1..sent'[i].a
  <2>1. CASE i \in 1..Len(sent)
    <3>1. sent'[i] = sent[i]
      BY <1>4, <2>1
    <3>2. PICK j \in 1..i : sent[j].k = "created" /\ sent[j].a \in 1..sent[i].a
      BY <1>11, <2>1, <3>1 DEF Traced, Introduced
    <3>3. sent'[j] = sent[j]
      BY <1>4, <2>1
    <3> QED
      BY <3>1, <3>2, <3>3
  <2>2. CASE i \notin 1..Len(sent)
    <3>1. /\ i > Len(sent) /\ i - Len(sent) \in 1..Len(out)
          /\ sent'[i].k = out[i - Len(sent)] /\ sent'[i].a = att.n
      BY <1>4, <2>2
    <3>2. CASE Seen
      <4>1. PICK j \in 1..Len(sent) : sent[j].k = "created" /\ sent[j].a >= 1
        BY <3>2 DEF Seen
      <4>2. sent[j] \in Out /\ sent[j].a <= att.n
        BY <4>1 DEF Traced, Typed
      <4>3. sent[j].a \in 1..att.n
        BY <1>2, <4>1, <4>2 DEF Out
      <4>4. j \in 1..i /\ sent'[j] = sent[j]
        BY <1>4, <3>1
      <4> QED
        BY <3>1, <4>1, <4>3, <4>4
    <3>3. CASE ~Seen
      <4>1. out = data /\ ~Wrong(data)
        BY <1>6, <1>11, <3>1, <3>3 DEF Wrong
      <4>2. First(data)
        BY <1>11, <3>1, <3>3, <4>1
      <4>3. 1 \in 1..Len(out) /\ out[1] = "created"
        BY <1>4, <3>1, <4>1, <4>2 DEF First
      <4>4. /\ Len(sent) + 1 \in 1..i /\ sent'[Len(sent) + 1].k = "created"
            /\ sent'[Len(sent) + 1].a = att.n
        BY <1>4, <3>1, <4>3
      <4>5. att.n \in 1..att.n
        BY <1>2
      <4> QED
        BY <3>1, <4>4, <4>5
    <3> QED
      BY <3>2, <3>3
  <2> QED
    BY <2>1, <2>2
<1> QED
  BY <1>5, <1>7, <1>8, <1>9, <1>10, <1>11 DEF Traced, Introduced

LEMMA TracedStays ==
  ASSUME UNCHANGED <<sent, att>>, session'.written = session.written,
         session'.waiting = session.waiting
  PROVE  Traced' = Traced /\ Seen' = Seen
BY DEF Traced, Introduced, Seen

\* The steps that write nothing; what the upstream names is read first.
LEMMA NamingQuiet ==
  ASSUME EndsInv, Codex, Naming,
         \/ StartSession \/ GiveUp \/ BeatLoopEnds \/ Disconnect \/ CloseChannel \/ CloseFlag
  PROVE  Naming'
<1>1. /\ UNCHANGED <<sent, att, pending, res>>
      /\ session'.written = session.written /\ session'.waiting = session.waiting
  BY DEF StartSession, GiveUp, BeatLoopEnds, Disconnect, CloseChannel, CloseFlag, Left, EndsInv,
     Typed, Session
<1>2. Traced' = Traced /\ Seen' = Seen
  BY <1>1, TracedStays
<1>3. \/ pc = "start" /\ pc' = "attempt"
      \/ pc = "attempt" /\ pc' = "tell" /\ buf' = <<"error">> /\ att.n = MaxAttempts
      \/ pc' = pc /\ buf' = buf
      \/ pc = "close" /\ pc' = "ended"
  BY DEF StartSession, GiveUp, BeatLoopEnds, Disconnect, CloseChannel, CloseFlag, Left
<1>4. Wrong(<<"error">>) /\ MaxAttempts >= 1
  BY StreamAssumption DEF Wrong
<1>5. CASE pc' = pc /\ buf' = buf
  <2>1. Withholding' = Withholding
    BY <1>1, <1>5 DEF Withholding
  <2> QED
    BY <1>1, <1>2, <1>5, <2>1 DEF Naming, Busy, First, Wrong
<1>6. CASE pc' # pc
  BY <1>1, <1>2, <1>3, <1>4, <1>6 DEF Naming, Busy, Wrong
<1> QED
  BY <1>3, <1>5, <1>6

LEMMA NamingBegin ==
  ASSUME EndsInv, Codex, Naming, BeginAttempt
  PROVE  Naming'
<1>1. /\ pc = "attempt" /\ pc' = "read" /\ UNCHANGED <<session, sent, pending, res>>
      /\ Rested
  BY DEF BeginAttempt, EndsInv, Ends
<1>2. att.n \in Nat /\ att'.n = att.n + 1 /\ att'.named = att.named
  BY DEF BeginAttempt, EndsInv, Typed, Attempt
<1>3. \A i \in 1..Len(sent) : sent[i].a \in Nat /\ sent[i].a <= att.n
  <2>1. \A i \in 1..Len(sent) : sent[i] \in Out
    BY DEF EndsInv, Typed
  <2> QED
    BY <2>1 DEF Naming, Traced, Out
<1>4. att'.n \notin att'.named /\ att'.named \subseteq 1..att'.n /\ att'.n >= 1
  BY <1>2 DEF Naming, Traced
<1>5. Traced'
  BY <1>1, <1>2, <1>3, <1>4 DEF Naming, Traced, Introduced, Seen
<1>6. pending = <<>> /\ ~res.wrote
  BY <1>1 DEF Rested, NoResult
<1> QED
  BY <1>1, <1>2, <1>3, <1>4, <1>5, <1>6 DEF Naming

LEMMA NamingRead ==
  ASSUME EndsInv, Codex, Naming, NEW k \in Kinds, ReadEvent(k)
  PROVE  Naming'
<1> USE DEF EndsInv
<1>1. /\ pc = "read" /\ pc' = "emit" /\ UNCHANGED <<session, sent, pending, res>>
      /\ buf' \in Seq(Events)
  BY CodexIs, ReadTyped DEF ReadEvent, Typed
<1>2. /\ att'.n = att.n /\ ~att'.first /\ att.n \in Nat /\ att.n >= 1
      /\ att'.named = IF k = "created" THEN att.named \cup {att.n} ELSE att.named
  BY <1>1 DEF ReadEvent, Typed, Attempt, Naming
<1>3. Seen' = Seen /\ Withholding' = pending \o buf'
  BY <1>1 DEF Seen, Withholding
<1>4. CASE k = "created"
  <2>1. att.first /\ ~att.conv
    BY <1>4 DEF ReadEvent, Offers
  <2>2. buf' = <<"created">>
    BY <1>4, <2>1 DEF ReadEvent
  <2>3. pending = <<>> /\ ~res.wrote /\ \A i \in 1..Len(sent) : sent[i].a < att.n
    BY <1>1, <2>1 DEF Naming
  <2>4. First(Withholding')
    BY <1>3, <2>2, <2>3 DEF First
  <2>5. \A i \in 1..Len(sent) : sent[i].a # att.n
    <3>1. \A i \in 1..Len(sent) : sent[i] \in Out
      BY DEF Typed
    <3> QED
      BY <1>2, <2>3, <3>1 DEF Out
  <2>6. Traced'
    BY <1>1, <1>2, <1>3, <2>5 DEF Naming, Traced, Introduced
  <2> QED
    BY <1>1, <1>2, <2>3, <2>4, <2>6 DEF Naming, First
<1>5. CASE k # "created"
  <2>1. Traced'
    BY <1>1, <1>2, <1>3, <1>5 DEF Naming, Traced, Introduced
  <2>2. att.n \in att.named => Seen \/ First(pending)
    BY <1>1 DEF Naming, Busy, Withholding
  <2>3. First(pending) => First(pending \o buf')
    BY <1>1, FirstJoins DEF Typed
  <2>4. att.n \in att.named /\ res.wrote => Seen
    BY <1>1 DEF Naming, Busy
  <2> QED
    BY <1>1, <1>2, <1>3, <1>5, <2>1, <2>2, <2>3, <2>4 DEF Naming, First
<1> QED
  BY <1>4, <1>5

LEMMA NamingBeat ==
  ASSUME Typed, Codex, Naming, Beat
  PROVE  Naming'
<1>1. UNCHANGED <<client, pc, att, buf, pending, res>>
  BY DEF Beat
<1>2. PICK k \in Events \cup {"ping"} : sent' = Append(sent, [k |-> k, a |-> 0])
  BY KindsAreEvents DEF Beat
<1>3. /\ Len(sent') = Len(sent) + 1 /\ Len(sent) \in Nat
      /\ \A i \in 1..Len(sent) : sent'[i] = sent[i]
      /\ sent'[Len(sent) + 1].a = 0
  BY <1>2, BeatIsReceived DEF Typed
<1>4. \A i \in 1..Len(sent') : \/ i \in 1..Len(sent) /\ sent'[i] = sent[i]
                               \/ i = Len(sent) + 1 /\ sent'[i].a = 0
  BY <1>3
<1>5. Seen => Seen'
  BY <1>3 DEF Seen
<1>6. session'.written /\ ~session'.waiting => session.written /\ ~session.waiting
  BY DEF Beat, Typed, Session
<1>7. att.n \in Nat
  BY DEF Typed, Attempt
<1>8. \A i \in 1..Len(sent') : sent'[i].a <= att.n
  BY <1>4, <1>7 DEF Naming, Traced
<1>9. ASSUME NEW i \in 1..Len(sent'), sent'[i].a \in att.named, sent'[i].k # "error"
      PROVE  \E j \in 1..i : sent'[j].k = "created" /\ sent'[j].a \in 1..sent'[i].a
  <2>1. i \in 1..Len(sent) /\ sent'[i] = sent[i]
    BY <1>4, <1>7, <1>9 DEF Naming, Traced
  <2>2. PICK j \in 1..i : sent[j].k = "created" /\ sent[j].a \in 1..sent[i].a
    BY <1>9, <2>1 DEF Naming, Traced, Introduced
  <2>3. sent'[j] = sent[j]
    BY <1>3, <2>1
  <2> QED
    BY <2>1, <2>2, <2>3
<1>10. Traced'
  BY <1>1, <1>5, <1>6, <1>8, <1>9 DEF Naming, Traced, Introduced
<1>11. Withholding' = Withholding
  BY <1>1 DEF Withholding
<1>12. pc = "read" /\ att.first => \A i \in 1..Len(sent') : sent'[i].a < att.n
  BY <1>4, <1>7 DEF Naming
<1> QED
  BY <1>1, <1>5, <1>10, <1>11, <1>12 DEF Naming, First, Wrong

LEMMA NamingEmit ==
  ASSUME Typed, Codex, Naming, Emit
  PROVE  Naming'
<1>1. /\ pc = "emit" /\ UNCHANGED att /\ att.n >= 1 /\ ~att.first
      /\ att.n \in att.named => Seen \/ First(pending \o buf)
  BY EmitCases DEF Naming, Busy, Withholding
<1>2. CASE Withheld
  <2>1. pc' = "read" /\ pending' = pending \o buf /\ UNCHANGED <<session, sent, res>>
    BY <1>2 DEF Withheld
  <2>2. Traced' = Traced /\ Seen' = Seen
    BY <1>1, <2>1, TracedStays
  <2> QED
    BY <1>1, <2>1, <2>2 DEF Naming, Busy, Withholding, First
<1>3. CASE CutOff
  <2>1. pc' = "leave" /\ UNCHANGED <<session, sent>> /\ res'.wrote = res.wrote
    BY <1>3 DEF CutOff, Typed, Result
  <2>2. Traced' = Traced /\ Seen' = Seen
    BY <1>1, <2>1, TracedStays
  <2> QED
    BY <1>1, <2>1, <2>2 DEF Naming, Busy
<1>4. CASE Through
  <2>1. Deliver(pending \o buf) /\ pending \o buf \in Seq(Events) /\ pc' = "read"
    BY <1>4 DEF Through, Typed
  <2>2. Traced' /\ (Seen => Seen') /\ (First(pending \o buf) => Seen')
    BY <1>1, <2>1, TracedDelivered DEF Naming
  <2>3. att.n \in att.named => Seen'
    BY <1>1, <2>2
  <2> QED
    BY <1>1, <2>1, <2>2, <2>3 DEF Naming, Busy
<1> QED
  BY <1>2, <1>3, <1>4, EmitCases

LEMMA NamingEnd ==
  ASSUME Typed, Codex, Naming, Done \/ DoneEarly \/ EndOfFile \/ Broken
  PROVE  Naming'
<1>1. /\ pc = "read" /\ UNCHANGED att /\ att.n >= 1
      /\ att.n \in att.named => Seen \/ First(pending)
      /\ att.n \in att.named /\ res.wrote => Seen
  BY EndCases DEF Naming, Busy, Withholding
<1>2. CASE Settled
  <2>1. pc' = "judge" /\ UNCHANGED <<session, pending, sent>> /\ res'.wrote = res.wrote
    BY <1>2 DEF Settled, Typed, Result
  <2>2. Traced' = Traced /\ Seen' = Seen
    BY <1>1, <2>1, TracedStays
  <2> QED
    BY <1>1, <2>1, <2>2 DEF Naming, Busy, Withholding, First
<1>3. CASE Failed
  <2>1. pc' = "leave" /\ UNCHANGED <<session, pending, sent>> /\ res'.wrote = res.wrote
    BY <1>3 DEF Failed, Typed, Result
  <2>2. Traced' = Traced /\ Seen' = Seen
    BY <1>1, <2>1, TracedStays
  <2> QED
    BY <1>1, <2>1, <2>2 DEF Naming, Busy
<1>4. CASE Completed
  <2>1. Made = pending \o <<"completed">> /\ <<"completed">> \in Seq(Events)
    BY CodexIs, ShortAreTyped DEF Made
  <2>2. Made \in Seq(Events) /\ Deliver(Made) /\ pc' \in {"judge", "last"}
    BY <1>4, CodexIs, SynthesizeIs DEF Completed, Synthesize, Made, Deliver
  <2>3. First(pending) => First(Made)
    BY <2>1, FirstJoins DEF Typed
  <2>4. Traced' /\ (Seen => Seen') /\ (First(Made) => Seen')
    BY <1>1, <2>2, <2>3, TracedDelivered DEF Naming
  <2>5. att.n \in att.named => Seen'
    BY <1>1, <2>3, <2>4
  <2> QED
    BY <1>1, <2>2, <2>4, <2>5 DEF Naming, Busy
<1> QED
  BY <1>2, <1>3, <1>4, EndCases

LEMMA NamingLast ==
  ASSUME Typed, Codex, Naming, EmitLast \/ Judge \/ Tell
  PROVE  Naming'
<1>1. UNCHANGED att /\ buf \in Seq(Events) /\ pending \in Seq(Events) /\ att.n >= 1
  BY DEF EmitLast, Judge, Tell, Left, Typed, Naming
<1>2. UNCHANGED <<session, sent>> => Traced' = Traced /\ Seen' = Seen
  BY <1>1, TracedStays
<1>3. CASE EmitLast
  <2>1. pc = "last" /\ pc' \in {"leave", "judge"} /\ (att.n \in att.named => Seen)
    BY <1>3 DEF EmitLast, Naming
  <2>2. Deliver(buf) \/ UNCHANGED <<session, sent>>
    BY <1>3 DEF EmitLast
  <2>3. Deliver(buf) => Traced' /\ (Seen => Seen')
    BY <1>1, <2>1, TracedDelivered DEF Naming
  <2> QED
    BY <1>1, <1>2, <2>1, <2>2, <2>3 DEF Naming, Busy
<1>4. CASE Judge
  <2>1. /\ pc = "judge" /\ pc' = "leave"
        /\ att.n \in att.named => Seen \/ First(pending)
        /\ att.n \in att.named /\ res.wrote => Seen
    BY <1>4 DEF Judge, Naming, Busy, Withholding
  <2>2. Deliver(pending) \/ (UNCHANGED <<session, sent>> /\ res'.wrote = res.wrote)
    <3>1. /\ [res EXCEPT !.why = "empty"].wrote = res.wrote
          /\ [res EXCEPT !.why = "write_failed"].wrote = res.wrote
      BY DEF Typed, Result
    <3>2. \/ UNCHANGED <<session, sent, res>> \/ Deliver(pending)
          \/ /\ UNCHANGED <<session, sent>>
             /\ \/ res' = [res EXCEPT !.why = "empty"]
                \/ res' = [res EXCEPT !.why = "write_failed"]
      BY <1>4 DEF Judge
    <3>3. CASE UNCHANGED <<session, sent, res>>
      BY <3>3
    <3>4. CASE res' = [res EXCEPT !.why = "empty"]
      BY <3>1, <3>2, <3>4
    <3>5. CASE res' = [res EXCEPT !.why = "write_failed"]
      BY <3>1, <3>2, <3>5
    <3> QED
      BY <3>2, <3>3, <3>4, <3>5
  <2>3. Deliver(pending) => Traced' /\ (Seen => Seen') /\ (First(pending) => Seen')
    BY <1>1, <2>1, TracedDelivered DEF Naming
  <2> QED
    BY <1>1, <1>2, <2>1, <2>2, <2>3 DEF Naming, Busy
<1>5. CASE Tell
  <2>1. pc = "tell" /\ pc' = "close" /\ (att.n \in att.named => Seen \/ Wrong(buf))
    BY <1>5 DEF Tell, Naming
  <2>2. Deliver(buf) \/ UNCHANGED <<session, sent>>
    BY <1>5 DEF Tell
  <2>3. Deliver(buf) => Traced'
    BY <1>1, <2>1, TracedDelivered DEF Naming
  <2> QED
    BY <1>1, <1>2, <2>1, <2>2, <2>3 DEF Naming, Busy
<1> QED
  BY <1>3, <1>4, <1>5

LEMMA NamingLeave ==
  ASSUME EndsInv, Codex, Naming, Retry \/ Conclude
  PROVE  Naming'
<1>1. /\ pc = "leave" /\ UNCHANGED <<session, sent, att>> /\ att.n >= 1
      /\ pc' = "attempt" \/ (pc' = "tell" /\ buf' = Telling)
  BY CodexIs DEF Retry, Conclude, Left, Released, Naming
<1>2. Traced' = Traced /\ Seen' = Seen
  BY <1>1, TracedStays
<1>3. att.n \in att.named => Seen \/ Wrong(Telling)
  <2>1. Breaks => res.wrote
    BY DEF Breaks, EndsInv, Ends
  <2> QED
    BY <1>1, <2>1, TellingIsPlain DEF Naming, Wrong
<1> QED
  BY <1>1, <1>2, <1>3 DEF Naming, Busy, Wrong

CreatedInv == EndsInv /\ (Strict => Opening) /\ (Codex => Naming)

LEMMA InitNames == Init => Naming
<1> SUFFICES ASSUME Init PROVE Naming
  OBVIOUS
<1>1. /\ sent = <<>> /\ ~session.written /\ pc = "start" /\ att.named = {} /\ pending = <<>>
      /\ ~res.wrote
  BY DEF Init, NewSession, NoAttempt, NoResult
<1> QED
  BY <1>1 DEF Naming, Traced, Introduced

LEMMA NextNames == CreatedInv /\ [Next]_vars => (Codex => Naming)'
<1> SUFFICES ASSUME CreatedInv, [Next]_vars, Codex' PROVE Naming'
  OBVIOUS
<1>1. Codex /\ Naming /\ EndsInv /\ Typed /\ ~Prepare
  <2>1. client' = client
    BY DEF Next, vars, Request, StartSession, BeginAttempt, GiveUp, ReadEvent, Prepare, Emit,
       Done, DoneEarly, EmitLast, EndOfFile, Broken, Judge, Retry, Conclude, Tell,
       CloseChannel, CloseFlag, Beat, BeatLoopEnds, Disconnect, Left
  <2> QED
    BY <2>1 DEF Codex, CreatedInv, EndsInv, Naming, Prepare
<1>2. CASE UNCHANGED vars
  <2>1. UNCHANGED <<session, pc, att, buf, pending, res, sent>>
    BY <1>2 DEF vars
  <2>2. Traced' = Traced /\ Seen' = Seen /\ Withholding' = Withholding
    BY <2>1, TracedStays DEF Withholding
  <2> QED
    BY <1>1, <2>1, <2>2 DEF Naming, First, Wrong
<1>3. CASE Next
  BY <1>1, <1>3, NamingQuiet, NamingBegin, NamingRead, NamingBeat, NamingEmit, NamingEnd,
     NamingLast, NamingLeave DEF Next, Request
<1> QED
  BY <1>2, <1>3

\* Whoever of the request and its heartbeat comes first, and however many
\* attempts there are, the client's answer begins with one created event; Codex
\* sees its upstream's before what follows it (prepareOpenAIResponsesData,
\* filterDuplicateOpenAIResponsesCreatedLocked, writeHeartbeat).
THEOREM CreatedAlwaysFirst == Spec => []CreatedFirst
<1>1. CreatedInv => CreatedFirst
  <2> SUFFICES ASSUME CreatedInv PROVE CreatedFirst
    OBVIOUS
  <2>1. TypeOK /\ Typed /\ DOMAIN sent = 1..Len(sent)
    BY TypedIsTypeOK DEF CreatedInv, EndsInv, Typed
  <2>2. ASSUME Strict, NEW i \in 1..Len(sent), sent[i].k \notin {"ping", "error"}
        PROVE  /\ \E j \in 1..i : sent[j].k = "created"
               /\ \A j \in 1..i - 1 : <<sent[i].k, sent[j].k>> # <<"created", "created">>
               /\ sent[i].k # "meta"
    <3>1. Once
      BY <2>2 DEF CreatedInv, Opening, Shown
    <3>2. \A j \in 1..i - 1 : j \in 1..Len(sent) /\ j # i
      BY <2>1 DEF Typed
    <3> QED
      BY <2>2, <3>1, <3>2 DEF Once
  <2>3. Codex => Introduced
    BY DEF CreatedInv, Naming, Traced
  <2> QED
    BY <2>1, <2>2, <2>3 DEF CreatedFirst, Codex, Introduced
<1>2. Init => CreatedInv
  BY InitTyped, InitEnds, InitOpens, InitNames DEF CreatedInv, EndsInv
<1>3. CreatedInv /\ [Next]_vars => CreatedInv'
  BY NextTyped, NextEnds, NextOpens, NextNames DEF CreatedInv, EndsInv, OpeningInv
<1> QED
  BY <1>1, <1>2, <1>3, PTL DEF Spec

-----------------------------------------------------------------------------
(* Complete answers.  The tool calls of an attempt are followed from the   *)
(* note that is taken of them (obs) to the client, and so is its end: what *)
(* the proxy adds to an answer rests on the note, what the client sees on  *)
(* the events, and only their order makes one tell the truth of the other. *)

EndKinds == {"completed", "hollow"}
HalfOpen == {"function", "custom", "input"}

NoEnd(q)   == \A i \in 1..Len(q) : q[i] \notin EndKinds
OneEnd(q)  == \A i, j \in 1..Len(q) : q[i] \in EndKinds /\ q[j] \in EndKinds => i = j
NoTools(q) == \A i \in 1..Len(q) : q[i] \notin ToolKinds
NotComplete(q) == \A i \in 1..Len(q) : q[i] # "completed"

\* Tool calls of q are closed within q; q closes one; q ends only after it has
\* closed one, and opens none.
ClosedIn(q) == \A i \in 1..Len(q) : q[i] \in HalfOpen => \E j \in i..Len(q) : q[j] = "tooldone"
Closes(q)   == \E i \in 1..Len(q) : q[i] = "tooldone"
EndsClosed(q) ==
  \A i \in 1..Len(q) : q[i] \notin HalfOpen
                       /\ (q[i] = "completed" => \E j \in 1..i : q[j] = "tooldone")

\* The same of what the client has received of this attempt.
Mine(i)  == sent[i].a = att.n
NoneSent == \A i \in 1..Len(sent) : ~(Mine(i) /\ sent[i].k \in EndKinds)
OneSent  == \A i, j \in 1..Len(sent) :
              /\ Mine(i) /\ sent[i].k \in EndKinds
              /\ Mine(j) /\ sent[j].k \in EndKinds
              => i = j
ClosedBy(i) == \A j \in 1..i : Mine(j) /\ sent[j].k \in HalfOpen =>
                 \E m \in j..i : Mine(m) /\ sent[m].k = "tooldone"
AllClosed == ClosedBy(Len(sent))
TruthfulEnds == \A i \in 1..Len(sent) : Mine(i) /\ sent[i].k = "completed" => ClosedBy(i)

\* Where the end of the attempt's answer is.
EndPlaced ==
  /\ pc \in {"start", "attempt", "read", "prepare", "emit", "last", "judge"} => OneEnd(pending)
  /\ pc = "read" /\ ~att.over => NoneSent /\ NoEnd(pending)
  /\ pc \in {"prepare", "emit"} =>
       NoneSent /\ NoEnd(pending) /\ OneEnd(buf) /\ (~att.over => NoEnd(buf))
  /\ pc \in {"read", "judge"} => NoneSent \/ NoEnd(pending)
  /\ pc \in {"read", "last", "judge", "leave"} =>
       obs.completed \/ (NoneSent /\ (pc # "leave" => NoEnd(pending)))
  /\ pc = "last" => /\ NoTools(buf) /\ (att.conv \/ buf = <<>>)
                    /\ pending = <<>> /\ obs.completed
  /\ pc = "tell" => OneEnd(buf) /\ (NoneSent \/ NoEnd(buf))
  /\ ~att.conv => OneSent

\* What is noted of the attempt's tool calls, and what the client has seen.
ToolsNoted ==
  /\ pc \in {"read", "prepare", "emit", "last", "judge"} => Pending(obs) \/ AllClosed
  /\ pc = "last" => ~Pending(obs)
  /\ pc = "leave" => gone \/ Pending(obs) \/ AllClosed
  /\ pc = "tell" => gone \/ (NoTools(buf) /\ (AllClosed \/ NoEnd(buf))) \/ EndsClosed(buf)
  /\ NoTools(pending) /\ NotComplete(pending)
  /\ ~att.over => TruthfulEnds

\* Nothing of a later attempt has been sent.
Aged == \A i \in 1..Len(sent) : sent[i].a <= att.n

Complete == Aged /\ EndPlaced /\ ToolsNoted

CompleteInv == EndsInv /\ Complete

\* What is kept stands in its order: the j-th that is kept is the h[j]-th of s.
KeptAs(s, K, m, q, h) ==
  /\ h \in [1..Len(q) -> 1..m]
  /\ \A i, j \in 1..Len(q) : i < j => h[i] < h[j]
  /\ \A j \in 1..Len(q) : q[j] = s[h[j]] /\ s[h[j]] \in K
  /\ \A i \in 1..m : s[i] \in K => \E j \in 1..Len(q) : h[j] = i

LEMMA KeptOneMore ==
  ASSUME NEW S, NEW s \in Seq(S), NEW K, NEW m \in 1..Len(s), NEW q \in Seq(S), NEW h,
         KeptAs(s, K, m - 1, q, h)
  PROVE  \E g : KeptAs(s, K, m, OneKept(s, K, m, q), g)
<1>1. m \in Nat /\ m >= 1 /\ s[m] \in S /\ Len(q) \in Nat
  OBVIOUS
<1>2. CASE s[m] \notin K
  <2>1. OneKept(s, K, m, q) = q
    BY <1>2 DEF OneKept
  <2>2. h \in [1..Len(q) -> 1..m]
    <3>1. \A j \in 1..m - 1 : j \in 1..m
      BY <1>1
    <3> QED
      BY <3>1 DEF KeptAs
  <2>3. \A i \in 1..m : s[i] \in K => i \in 1..m - 1
    BY <1>1, <1>2
  <2>4. KeptAs(s, K, m, q, h)
    BY <2>2, <2>3 DEF KeptAs
  <2> QED
    BY <2>1, <2>4
<1>3. CASE s[m] \in K
  <2> DEFINE r == Append(q, s[m])
             g == [j \in 1..Len(q) + 1 |-> IF j = Len(q) + 1 THEN m ELSE h[j]]
  <2>1. /\ OneKept(s, K, m, q) = r /\ Len(r) = Len(q) + 1 /\ r[Len(q) + 1] = s[m]
        /\ \A j \in 1..Len(q) : r[j] = q[j]
    BY <1>1, <1>3 DEF OneKept
  <2>2. \A j \in 1..Len(q) : h[j] \in 1..m /\ h[j] < m /\ g[j] = h[j]
    <3>1. \A j \in 1..Len(q) : h[j] \in 1..m - 1
      BY DEF KeptAs
    <3>2. \A x \in 1..m - 1 : x \in 1..m /\ x < m
      BY <1>1
    <3>3. \A j \in 1..Len(q) : j \in 1..Len(q) + 1 /\ j # Len(q) + 1
      BY <1>1
    <3>4. \A j \in 1..Len(q) : g[j] = h[j]
      BY <3>3
    <3> QED
      BY <3>1, <3>2, <3>4
  <2>3. g[Len(q) + 1] = m /\ \A j \in 1..Len(q) + 1 : j \in 1..Len(q) \/ j = Len(q) + 1
    BY <1>1
  <2>4. g \in [1..Len(q) + 1 -> 1..m]
    <3>1. g = [j \in 1..Len(q) + 1 |-> g[j]]
      OBVIOUS
    <3>2. m \in 1..m
      BY <1>1
    <3> HIDE DEF g
    <3>3. \A j \in 1..Len(q) + 1 : g[j] \in 1..m
      BY <2>2, <2>3, <3>2
    <3> QED
      BY <3>1, <3>3
  <2> HIDE DEF r, g
  <2>5. \A i, j \in 1..Len(r) : i < j => g[i] < g[j]
    <3> SUFFICES ASSUME NEW i \in 1..Len(r), NEW j \in 1..Len(r), i < j PROVE g[i] < g[j]
      OBVIOUS
    <3>1. i \in 1..Len(q)
      BY <1>1, <2>1
    <3>2. CASE j = Len(q) + 1
      BY <2>2, <2>3, <3>1, <3>2
    <3>3. CASE j \in 1..Len(q)
      BY <2>2, <3>1, <3>3 DEF KeptAs
    <3> QED
      BY <2>1, <2>3, <3>2, <3>3
  <2>6. \A j \in 1..Len(r) : r[j] = s[g[j]] /\ s[g[j]] \in K
    BY <1>3, <2>1, <2>2, <2>3 DEF KeptAs
  <2>7. \A i \in 1..m : s[i] \in K => \E j \in 1..Len(r) : g[j] = i
    <3> SUFFICES ASSUME NEW i \in 1..m, s[i] \in K PROVE \E j \in 1..Len(r) : g[j] = i
      OBVIOUS
    <3>1. CASE i = m
      BY <1>1, <2>1, <2>3, <3>1
    <3>2. CASE i # m
      <4>1. i \in 1..m - 1
        BY <1>1, <3>2
      <4>2. PICK j \in 1..Len(q) : h[j] = i
        BY <4>1 DEF KeptAs
      <4> QED
        BY <1>1, <2>1, <2>2, <4>2
    <3> QED
      BY <3>1, <3>2
  <2>8. KeptAs(s, K, m, r, g)
    BY <2>1, <2>4, <2>5, <2>6, <2>7 DEF KeptAs
  <2> QED
    BY <2>1, <2>8
<1> QED
  BY <1>2, <1>3

LEMMA KeptOrder ==
  ASSUME NEW S, NEW s \in Seq(S), NEW K
  PROVE  \E h : KeptAs(s, K, Len(s), Kept(s, K), h)
<1>1. PICK f : KeptFrom(s, K, Len(s), f) /\ Kept(s, K) = f[Len(s)]
  BY KeptIs
<1> DEFINE G == {m \in 0..Len(s) : f[m] \in Seq(S) /\ \E h : KeptAs(s, K, m, f[m], h)}
<1>2. Len(s) \in Nat /\ \A m \in 1..Len(s) : s[m] \in S
  OBVIOUS
<1>3. 0 \in G
  <2>1. f[0] = <<>> /\ <<>> \in Seq(S) /\ 0 \in 0..Len(s) /\ Len(<<>>) = 0
    BY <1>1, <1>2 DEF KeptFrom
  <2>2. KeptAs(s, K, 0, <<>>, [j \in 1..0 |-> j])
    BY <2>1 DEF KeptAs
  <2> QED
    BY <2>1, <2>2
<1>4. ASSUME NEW m \in 1..Len(s), m - 1 \in G PROVE m \in G
  <2>1. f[m - 1] \in Seq(S) /\ m \in 0..Len(s)
    BY <1>2, <1>4
  <2>2. PICK h : KeptAs(s, K, m - 1, f[m - 1], h)
    BY <1>4
  <2>3. f[m] = OneKept(s, K, m, f[m - 1])
    BY <1>1 DEF KeptFrom
  <2>4. f[m] \in Seq(S)
    BY <1>2, <2>1, <2>3 DEF OneKept
  <2>5. \E g : KeptAs(s, K, m, f[m], g)
    BY <2>1, <2>2, <2>3, KeptOneMore
  <2> QED
    BY <2>1, <2>4, <2>5
<1> HIDE DEF G
<1>5. Len(s) \in G
  <2>1. Len(s) \in 0..Len(s)
    BY <1>2
  <2> QED
    BY <1>2, <1>3, <1>4, <2>1, Induction
<1> QED
  BY <1>1, <1>5 DEF G

\* The last that is kept is the last that was there.
LEMMA LastKept ==
  ASSUME NEW S, NEW s \in Seq(S), NEW K, Kept(s, K) # <<>>
  PROVE  \E i \in 1..Len(s) : /\ Last(Kept(s, K)) = s[i] /\ s[i] \in K
                              /\ \A j \in 1..Len(s) : s[j] \in K => j <= i
<1> DEFINE q == Kept(s, K)
<1>1. q \in Seq(S \cap K)
  BY KeptTyped
<1>2. PICK h : KeptAs(s, K, Len(s), q, h)
  BY KeptOrder
<1> HIDE DEF q
<1>3. q # <<>> /\ Len(q) \in 1..Len(q) /\ Last(q) = q[Len(q)]
  BY <1>1 DEF q, Last
<1>4. h[Len(q)] \in 1..Len(s) /\ q[Len(q)] = s[h[Len(q)]] /\ s[h[Len(q)]] \in K
  BY <1>2, <1>3 DEF KeptAs
<1>5. ASSUME NEW j \in 1..Len(s), s[j] \in K PROVE j <= h[Len(q)]
  <2>1. PICK k \in 1..Len(q) : h[k] = j
    BY <1>2, <1>5 DEF KeptAs
  <2>2. k = Len(q) \/ k < Len(q)
    BY <1>1
  <2>3. k < Len(q) => h[k] < h[Len(q)]
    BY <1>2, <1>3 DEF KeptAs
  <2>4. h[k] \in 1..Len(s)
    BY <2>1
  <2> QED
    BY <1>4, <2>1, <2>2, <2>3, <2>4
<1> QED
  BY <1>3, <1>4, <1>5 DEF q

-----------------------------------------------------------------------------
(* What filtering and joining keep                                         *)

\* What is true of q is true of r, which is made of q.
Keeps(q, r) ==
  /\ NoEnd(q) => NoEnd(r)
  /\ OneEnd(q) => OneEnd(r)
  /\ NoTools(q) => NoTools(r)
  /\ NotComplete(q) => NotComplete(r)
  /\ ClosedIn(q) => ClosedIn(r)
  /\ Closes(q) => Closes(r)
  /\ EndsClosed(q) => EndsClosed(r)

LEMMA KeepsTrans ==
  ASSUME NEW p, NEW q, NEW r, Keeps(p, q), Keeps(q, r)
  PROVE  Keeps(p, r)
BY DEF Keeps

LEMMA KeptKeepsAll ==
  ASSUME NEW q \in Seq(Events), NEW K, "tooldone" \in K
  PROVE  Keeps(q, Kept(q, K))
<1> DEFINE r == Kept(q, K)
<1>1. PICK h : KeptAs(q, K, Len(q), r, h)
  BY KeptOrder
<1>2. Len(r) \in Nat /\ Len(q) \in Nat
  BY KeptEvents
<1> HIDE DEF r
<1>3. /\ \A j \in 1..Len(r) : h[j] \in 1..Len(q) /\ r[j] = q[h[j]]
      /\ \A i, j \in 1..Len(r) : i < j => h[i] < h[j]
      /\ \A i \in 1..Len(q) : q[i] = "tooldone" => \E j \in 1..Len(r) : h[j] = i
  BY <1>1 DEF KeptAs
<1>4. \A i, j \in 1..Len(r) : h[i] = h[j] => i = j
  BY <1>2, <1>3
<1>5. \A i, j \in 1..Len(r) : h[i] <= h[j] => i <= j
  BY <1>2, <1>3
<1>6. OneEnd(q) => OneEnd(r)
  BY <1>3, <1>4 DEF OneEnd
<1>7. /\ NoEnd(q) => NoEnd(r)
      /\ NoTools(q) => NoTools(r)
      /\ NotComplete(q) => NotComplete(r)
  BY <1>3 DEF NoEnd, NoTools, NotComplete
<1>8. ASSUME ClosedIn(q) PROVE ClosedIn(r)
  <2> SUFFICES ASSUME NEW i \in 1..Len(r), r[i] \in HalfOpen
               PROVE  \E j \in i..Len(r) : r[j] = "tooldone"
    BY DEF ClosedIn
  <2>1. PICK m \in h[i]..Len(q) : q[m] = "tooldone"
    BY <1>3, <1>8 DEF ClosedIn
  <2>2. m \in 1..Len(q) /\ h[i] <= m
    BY <1>2, <1>3
  <2>3. PICK j \in 1..Len(r) : h[j] = m
    BY <1>3, <2>1, <2>2
  <2>4. j \in i..Len(r)
    BY <1>2, <1>5, <2>2, <2>3
  <2> QED
    BY <1>3, <2>1, <2>3, <2>4
<1>9. Closes(q) => Closes(r)
  BY <1>3 DEF Closes
<1>10. ASSUME EndsClosed(q) PROVE EndsClosed(r)
  <2> SUFFICES ASSUME NEW i \in 1..Len(r)
               PROVE  /\ r[i] \notin HalfOpen
                      /\ r[i] = "completed" => \E j \in 1..i : r[j] = "tooldone"
    BY DEF EndsClosed
  <2>1. r[i] \notin HalfOpen
    BY <1>3, <1>10 DEF EndsClosed
  <2>2. ASSUME r[i] = "completed" PROVE \E j \in 1..i : r[j] = "tooldone"
    <3>1. PICK m \in 1..h[i] : q[m] = "tooldone"
      BY <1>3, <1>10, <2>2 DEF EndsClosed
    <3>2. m \in 1..Len(q) /\ m <= h[i]
      BY <1>2, <1>3
    <3>3. PICK j \in 1..Len(r) : h[j] = m
      BY <1>3, <3>1, <3>2
    <3>4. j \in 1..i
      BY <1>2, <1>5, <3>2, <3>3
    <3> QED
      BY <1>3, <3>1, <3>3, <3>4
  <2> QED
    BY <2>1, <2>2
<1> QED
  BY <1>6, <1>7, <1>8, <1>9, <1>10 DEF Keeps, r

LEMMA NoOpenTool == \A k \in HalfOpen : k \in ToolKinds /\ k \notin EndKinds /\ k # "tooldone"
BY DEF HalfOpen, ToolKinds, EndKinds

\* A sequence that is continued.
LEMMA Continued ==
  ASSUME NEW p \in Seq(Events), NEW q \in Seq(Events)
  PROVE  /\ NoEnd(p) /\ NoEnd(q) => NoEnd(p \o q)
         /\ NoEnd(p) /\ OneEnd(q) => OneEnd(p \o q)
         /\ OneEnd(p) /\ NoEnd(q) => OneEnd(p \o q)
         /\ NoTools(p) /\ NoTools(q) => NoTools(p \o q)
         /\ NotComplete(p) /\ NotComplete(q) => NotComplete(p \o q)
         /\ NoTools(p) /\ ClosedIn(q) => ClosedIn(p \o q)
         /\ Closes(q) => Closes(p \o q)
<1> DEFINE r == p \o q
<1>1. /\ Len(p) \in Nat /\ Len(q) \in Nat /\ Len(r) = Len(p) + Len(q)
      /\ \A i \in 1..Len(p) : r[i] = p[i]
      /\ \A i \in 1..Len(q) : r[Len(p) + i] = q[i]
      /\ \A i \in 1..Len(r) : i > Len(p) => i - Len(p) \in 1..Len(q) /\ r[i] = q[i - Len(p)]
  <2>1. p \in Seq(Events) /\ q \in Seq(Events)
    OBVIOUS
  <2>2. /\ p \o q \in Seq(Events) /\ Len(p \o q) = Len(p) + Len(q)
        /\ \A i \in 1..Len(p) : (p \o q)[i] = p[i]
        /\ \A i \in 1..Len(q) : (p \o q)[Len(p) + i] = q[i]
        /\ \A i \in 1..Len(p \o q) : i > Len(p) =>
             i - Len(p) \in 1..Len(q) /\ (p \o q)[i] = q[i - Len(p)]
    BY <2>1, Joined, Zenon
  <2> QED
    BY <2>2
<1> HIDE DEF r
<1>2. \A i \in 1..Len(r) : i \in 1..Len(p) \/ i > Len(p)
  BY <1>1
<1>3. NoEnd(p) /\ NoEnd(q) => NoEnd(r)
  BY <1>1, <1>2 DEF NoEnd
<1>4. NoTools(p) /\ NoTools(q) => NoTools(r)
  BY <1>1, <1>2 DEF NoTools
<1>5. NotComplete(p) /\ NotComplete(q) => NotComplete(r)
  BY <1>1, <1>2 DEF NotComplete
<1>6. ASSUME NoEnd(p), OneEnd(q) PROVE OneEnd(r)
  <2> SUFFICES ASSUME NEW i \in 1..Len(r), NEW j \in 1..Len(r), r[i] \in EndKinds, r[j] \in EndKinds
               PROVE  i = j
    BY DEF OneEnd
  <2>1. i > Len(p) /\ j > Len(p)
    BY <1>1, <1>2, <1>6 DEF NoEnd
  <2>2. i - Len(p) = j - Len(p)
    BY <1>1, <1>6, <2>1 DEF OneEnd
  <2> QED
    BY <1>1, <2>2
<1>7. ASSUME OneEnd(p), NoEnd(q) PROVE OneEnd(r)
  <2> SUFFICES ASSUME NEW i \in 1..Len(r), NEW j \in 1..Len(r), r[i] \in EndKinds, r[j] \in EndKinds
               PROVE  i = j
    BY DEF OneEnd
  <2>1. i \in 1..Len(p) /\ j \in 1..Len(p)
    BY <1>1, <1>2, <1>7 DEF NoEnd
  <2> QED
    BY <1>1, <1>7, <2>1 DEF OneEnd
<1>8. ASSUME NoTools(p), ClosedIn(q) PROVE ClosedIn(r)
  <2> SUFFICES ASSUME NEW i \in 1..Len(r), r[i] \in HalfOpen
               PROVE  \E j \in i..Len(r) : r[j] = "tooldone"
    BY DEF ClosedIn
  <2>1. i > Len(p)
    BY <1>1, <1>2, <1>8, NoOpenTool DEF NoTools
  <2>2. PICK j \in (i - Len(p))..Len(q) : q[j] = "tooldone"
    BY <1>1, <1>8, <2>1 DEF ClosedIn
  <2>3. j \in 1..Len(q) /\ Len(p) + j \in i..Len(r)
    BY <1>1, <2>1
  <2> QED
    BY <1>1, <2>2, <2>3
<1>9. Closes(q) => Closes(r)
  <2> SUFFICES ASSUME NEW i \in 1..Len(q), q[i] = "tooldone" PROVE Closes(r)
    BY DEF Closes
  <2>1. Len(p) + i \in 1..Len(r) /\ r[Len(p) + i] = q[i]
    BY <1>1
  <2> QED
    BY <2>1 DEF Closes
<1> QED
  BY <1>3, <1>4, <1>5, <1>6, <1>7, <1>8, <1>9 DEF r

LEMMA FilteredKeeps ==
  ASSUME NEW q \in Seq(Events), NEW s
  PROVE  Keeps(q, Filtered(s, q))
<1>1. "tooldone" \in NotCreated /\ Keeps(q, q)
  BY DEF NotCreated, Events, Kinds, Keeps
<1>2. Keeps(q, Kept(q, NotCreated))
  BY <1>1, KeptKeepsAll
<1> QED
  BY <1>1, <1>2 DEF Filtered

\* What is prepared for a strict client; ClosedIn and OneEnd are all that the
\* created event before it could disturb.
LEMMA PreparedKeeps ==
  ASSUME NEW q \in Seq(Events), NEW s
  PROVE  /\ NoEnd(q) => NoEnd(PreparedFor(s, q))
         /\ OneEnd(q) => OneEnd(PreparedFor(s, q))
         /\ NoTools(q) => NoTools(PreparedFor(s, q))
<1> DEFINE public == Kept(q, Public)
           rest   == Kept(public, NotCreated)
<1>1. public \in Seq(Events) /\ Keeps(q, public)
  BY KeptEvents, KeptKeepsAll DEF Public, Kinds
<1> HIDE DEF public
<1>2. rest \in Seq(Events) /\ Keeps(public, rest)
  BY <1>1, KeptEvents, KeptKeepsAll DEF NotCreated, Events, Kinds
<1> HIDE DEF rest
<1>3. Keeps(q, rest)
  BY <1>1, <1>2, KeepsTrans
<1> DEFINE first == <<"created">>
<1>4. first \in Seq(Events) /\ NoEnd(first) /\ NoTools(first)
  BY ShortAreTyped DEF NoEnd, NoTools, EndKinds, ToolKinds
<1> HIDE DEF first
<1>5. /\ NoEnd(q) => NoEnd(first \o rest)
      /\ OneEnd(q) => OneEnd(first \o rest)
      /\ NoTools(q) => NoTools(first \o rest)
  BY <1>2, <1>3, <1>4, Continued DEF Keeps
<1>6. PreparedFor(s, q) \in {rest, first \o rest}
  BY DEF PreparedFor, public, rest, first
<1> QED
  BY <1>3, <1>5, <1>6 DEF Keeps

-----------------------------------------------------------------------------
(* What the client has received of the attempt                             *)

Untouched == /\ NoneSent' = NoneSent /\ OneSent' = OneSent /\ AllClosed' = AllClosed
             /\ TruthfulEnds' = TruthfulEnds

LEMMA NothingSent ==
  ASSUME UNCHANGED <<sent, att.n>>
  PROVE  Untouched
BY DEF Untouched, NoneSent, OneSent, AllClosed, TruthfulEnds, ClosedBy, Mine

\* Where the events of q are once they have been delivered.
LEMMA PartIs ==
  ASSUME Typed, NEW q \in Seq(Events), Received(att.n, q), UNCHANGED att.n
  PROVE  /\ Len(sent) \in Nat /\ Len(q) \in Nat /\ Len(sent') = Len(sent) + Len(q)
         /\ \A i \in 1..Len(sent) : sent'[i] = sent[i] /\ Mine(i)' = Mine(i)
         /\ \A i \in 1..Len(q) : /\ Len(sent) + i \in 1..Len(sent')
                                  /\ sent'[Len(sent) + i].k = q[i] /\ sent'[Len(sent) + i].a = att'.n
         /\ \A i \in 1..Len(sent') : i > Len(sent) =>
              i - Len(sent) \in 1..Len(q) /\ sent'[i].k = q[i - Len(sent)]
         /\ \A i \in 1..Len(sent') : i \in 1..Len(sent) \/ i > Len(sent)
<1>1. /\ Len(sent) \in Nat /\ Len(q) \in Nat /\ Len(sent') = Len(sent) + Len(q)
      /\ \A i \in 1..Len(sent) : sent'[i] = sent[i]
  BY DEF Received, Typed
<1>2. \A i \in 1..Len(q) : sent'[Len(sent) + i] = [k |-> q[i], a |-> att.n]
  BY DEF Received
<1>3. \A i \in 1..Len(sent') : i > Len(sent) =>
        i - Len(sent) \in 1..Len(q) /\ sent'[i] = [k |-> q[i - Len(sent)], a |-> att.n]
  BY DEF Received
<1>4. ASSUME NEW i \in 1..Len(q)
      PROVE  /\ Len(sent) + i \in 1..Len(sent')
             /\ sent'[Len(sent) + i].k = q[i] /\ sent'[Len(sent) + i].a = att'.n
  <2>1. sent'[Len(sent) + i] = [k |-> q[i], a |-> att.n]
    BY <1>2
  <2>2. Len(sent) + i \in 1..Len(sent')
    BY <1>1
  <2>3. sent'[Len(sent) + i].k = q[i] /\ sent'[Len(sent) + i].a = att.n
    BY <2>1
  <2>4. att'.n = att.n
    OBVIOUS
  <2> QED
    BY <2>2, <2>3, <2>4
<1>5. ASSUME NEW i \in 1..Len(sent'), i > Len(sent)
      PROVE  i - Len(sent) \in 1..Len(q) /\ sent'[i].k = q[i - Len(sent)]
  <2>1. i - Len(sent) \in 1..Len(q) /\ sent'[i] = [k |-> q[i - Len(sent)], a |-> att.n]
    BY <1>3, <1>5
  <2> QED
    BY <2>1
<1>6. \A i \in 1..Len(sent) : sent'[i] = sent[i] /\ Mine(i)' = Mine(i)
  BY <1>1 DEF Mine
<1>7. \A i \in 1..Len(sent') : i \in 1..Len(sent) \/ i > Len(sent)
  BY <1>1
<1>8. Len(sent) \in Nat /\ Len(q) \in Nat /\ Len(sent') = Len(sent) + Len(q)
  BY <1>1
<1> QED
  BY <1>4, <1>5, <1>6, <1>7, <1>8

\* The same for q, delivered as part of the attempt.
LEMMA PartSent ==
  ASSUME Typed, NEW q \in Seq(Events), Received(att.n, q), UNCHANGED att.n
  PROVE  /\ NoneSent /\ NoEnd(q) => NoneSent'
         /\ OneSent /\ NoEnd(q) => OneSent'
         /\ NoneSent /\ OneEnd(q) => OneSent'
         /\ AllClosed /\ NoTools(q) => AllClosed'
         /\ ClosedIn(q) /\ Closes(q) => AllClosed'
<1> DEFINE L == Len(sent)
<1>1. /\ L \in Nat /\ Len(q) \in Nat /\ Len(sent') = L + Len(q)
      /\ \A i \in 1..L : sent'[i] = sent[i]
      /\ \A i \in 1..Len(q) : sent'[L + i].k = q[i]
      /\ \A i \in 1..Len(sent') : i > L => i - L \in 1..Len(q) /\ sent'[i].k = q[i - L]
  BY PartIs
<1>2. \A i \in 1..Len(sent') : i \in 1..L \/ i > L
  BY PartIs
<1>3. /\ \A i \in 1..L : Mine(i)' = Mine(i)
      /\ \A i \in 1..Len(q) : L + i \in 1..Len(sent') /\ sent'[L + i].a = att'.n
  BY PartIs
<1>4. NoneSent /\ NoEnd(q) => NoneSent'
  BY <1>1, <1>2, <1>3 DEF NoneSent, NoEnd
<1>5. ASSUME OneSent, NoEnd(q) PROVE OneSent'
  <2>1. \A i \in 1..Len(sent') : sent'[i].k \in EndKinds => i \in 1..L
    BY <1>1, <1>2, <1>5 DEF NoEnd
  <2> QED
    BY <1>1, <1>3, <1>5, <2>1 DEF OneSent
<1>6. ASSUME NoneSent, OneEnd(q) PROVE OneSent'
  <2>1. \A i \in 1..Len(sent') : Mine(i)' /\ sent'[i].k \in EndKinds => i > L
    BY <1>1, <1>2, <1>3, <1>6 DEF NoneSent
  <2>2. \A i, j \in 1..Len(sent') :
          i > L /\ j > L /\ sent'[i].k \in EndKinds /\ sent'[j].k \in EndKinds => i - L = j - L
    BY <1>1, <1>6 DEF OneEnd
  <2>3. \A i, j \in 1..Len(sent') : i - L = j - L => i = j
    BY <1>1
  <2> QED
    BY <2>1, <2>2, <2>3 DEF OneSent
<1>7. ASSUME AllClosed, NoTools(q) PROVE AllClosed'
  <2> SUFFICES ASSUME NEW j \in 1..Len(sent'), Mine(j)', sent'[j].k \in HalfOpen
               PROVE  \E m \in j..Len(sent') : Mine(m)' /\ sent'[m].k = "tooldone"
    BY DEF AllClosed, ClosedBy
  <2>1. j \in 1..L
    BY <1>1, <1>2, <1>7, NoOpenTool DEF NoTools
  <2>2. PICK m \in j..L : Mine(m) /\ sent[m].k = "tooldone"
    BY <1>1, <1>3, <1>7, <2>1 DEF AllClosed, ClosedBy
  <2>3. m \in 1..L /\ m \in j..Len(sent')
    BY <1>1, <2>1
  <2> QED
    BY <1>1, <1>3, <2>2, <2>3
<1>8. ASSUME ClosedIn(q), Closes(q) PROVE AllClosed'
  <2> SUFFICES ASSUME NEW j \in 1..Len(sent'), Mine(j)', sent'[j].k \in HalfOpen
               PROVE  \E m \in j..Len(sent') : Mine(m)' /\ sent'[m].k = "tooldone"
    BY DEF AllClosed, ClosedBy
  <2>1. \E m \in 1..Len(q) : q[m] = "tooldone" /\ j <= L + m
    <3>1. CASE j \in 1..L
      <4>1. PICK m \in 1..Len(q) : q[m] = "tooldone"
        BY <1>8 DEF Closes
      <4> QED
        BY <1>1, <3>1, <4>1
    <3>2. CASE j > L
      <4>1. PICK m \in (j - L)..Len(q) : q[m] = "tooldone"
        BY <1>1, <1>8, <3>2 DEF ClosedIn
      <4>2. m \in 1..Len(q) /\ j <= L + m
        BY <1>1, <3>2, <4>1
      <4> QED
        BY <4>1, <4>2
    <3> QED
      BY <1>2, <3>1, <3>2
  <2>2. PICK m \in 1..Len(q) : q[m] = "tooldone" /\ j <= L + m
    BY <2>1
  <2>3. L + m \in j..Len(sent')
    BY <1>1, <2>2
  <2>4. sent'[L + m].a = att'.n /\ sent'[L + m].k = "tooldone"
    BY <1>1, <1>3, <2>2
  <2> QED
    BY <2>3, <2>4 DEF Mine
<1> QED
  BY <1>4, <1>5, <1>6, <1>7, <1>8

LEMMA TruthSent ==
  ASSUME Typed, NEW q \in Seq(Events), Received(att.n, q), UNCHANGED att.n, TruthfulEnds,
         NotComplete(q) \/ (AllClosed /\ NoTools(q)) \/ EndsClosed(q)
  PROVE  TruthfulEnds'
<1> DEFINE L == Len(sent)
<1>1. /\ L \in Nat /\ Len(q) \in Nat /\ Len(sent') = L + Len(q)
      /\ \A i \in 1..L : sent'[i] = sent[i]
      /\ \A i \in 1..Len(q) : sent'[L + i].k = q[i]
      /\ \A i \in 1..Len(sent') : i > L => i - L \in 1..Len(q) /\ sent'[i].k = q[i - L]
  BY PartIs
<1>2. \A i \in 1..Len(sent') : i \in 1..L \/ i > L
  BY PartIs
<1>3. /\ \A i \in 1..L : Mine(i)' = Mine(i)
      /\ \A i \in 1..Len(q) : L + i \in 1..Len(sent') /\ sent'[L + i].a = att'.n
  BY PartIs
<1> SUFFICES ASSUME NEW i \in 1..Len(sent'), Mine(i)', sent'[i].k = "completed",
                    NEW j \in 1..i, Mine(j)', sent'[j].k \in HalfOpen
             PROVE  \E m \in j..i : Mine(m)' /\ sent'[m].k = "tooldone"
  BY DEF TruthfulEnds, ClosedBy
<1>4. CASE i \in 1..L
  <2>1. j \in 1..L /\ \A m \in j..i : m \in 1..L
    BY <1>1, <1>4
  <2>2. \E m \in j..i : Mine(m) /\ sent[m].k = "tooldone"
    BY <1>1, <1>3, <1>4, <2>1 DEF TruthfulEnds, ClosedBy
  <2> QED
    BY <1>1, <1>3, <2>1, <2>2
<1>5. CASE i > L
  <2>1. i - L \in 1..Len(q) /\ q[i - L] = "completed"
    BY <1>1, <1>5
  <2>2. CASE AllClosed /\ NoTools(q)
    <3>1. j \in 1..L
      <4>1. j \in 1..Len(sent')
        BY <1>1
      <4> QED
        BY <1>1, <1>2, <2>2, <4>1, NoOpenTool DEF NoTools
    <3>2. PICK m \in j..L : Mine(m) /\ sent[m].k = "tooldone"
      BY <1>1, <1>3, <2>2, <3>1 DEF AllClosed, ClosedBy
    <3>3. m \in 1..L /\ m \in j..i
      BY <1>1, <1>5, <3>1
    <3> QED
      BY <1>1, <1>3, <3>2, <3>3
  <2>3. CASE EndsClosed(q)
    <3>1. PICK m \in 1..i - L : q[m] = "tooldone"
      BY <2>1, <2>3 DEF EndsClosed
    <3>2. m \in 1..Len(q)
      BY <1>1, <2>1
    <3>3. j \in 1..L
      <4>1. j \in 1..Len(sent')
        BY <1>1
      <4>2. ~(j > L)
        BY <1>1, <2>3, <4>1 DEF EndsClosed
      <4> QED
        BY <1>2, <4>1, <4>2
    <3>4. L + m \in j..i
      BY <1>1, <1>5, <3>1, <3>3
    <3>5. sent'[L + m].a = att'.n /\ sent'[L + m].k = "tooldone"
      BY <1>1, <1>3, <3>1, <3>2
    <3> QED
      BY <3>4, <3>5 DEF Mine
  <2> QED
    BY <2>1, <2>2, <2>3 DEF NotComplete
<1> QED
  BY <1>2, <1>4, <1>5

LEMMA Sends ==
  ASSUME Typed, NEW data \in Seq(Events), NEW s, Received(att.n, Filtered(s, data)), att' = att
  PROVE  /\ NoneSent /\ NoEnd(data) => NoneSent'
         /\ OneSent /\ NoEnd(data) => OneSent'
         /\ NoneSent /\ OneEnd(data) => OneSent'
         /\ AllClosed /\ NoTools(data) => AllClosed'
         /\ ClosedIn(data) /\ Closes(data) => AllClosed'
         /\ TruthfulEnds /\ (NotComplete(data) \/ (AllClosed /\ NoTools(data)) \/ EndsClosed(data))
              => TruthfulEnds'
         /\ Aged => Aged'
<1> DEFINE q == Filtered(s, data)
<1>1. q \in Seq(Events) /\ Keeps(data, q)
  BY FilteredTyped, FilteredKeeps
<1>2. Received(att.n, q) /\ UNCHANGED att.n
  OBVIOUS
<1> HIDE DEF q
<1>3. /\ NoneSent /\ NoEnd(q) => NoneSent'
      /\ OneSent /\ NoEnd(q) => OneSent'
      /\ NoneSent /\ OneEnd(q) => OneSent'
      /\ AllClosed /\ NoTools(q) => AllClosed'
      /\ ClosedIn(q) /\ Closes(q) => AllClosed'
  BY <1>1, <1>2, PartSent
<1>4. TruthfulEnds /\ (NotComplete(q) \/ (AllClosed /\ NoTools(q)) \/ EndsClosed(q)) => TruthfulEnds'
  BY <1>1, <1>2, TruthSent
<1>5. Aged => Aged'
  <2>1. \A i \in 1..Len(sent') : sent'[i].a = att.n \/ (i \in 1..Len(sent) /\ sent'[i] = sent[i])
    <3> SUFFICES ASSUME NEW i \in 1..Len(sent'), i \notin 1..Len(sent) PROVE sent'[i].a = att.n
      BY <1>2 DEF Received
    <3>1. sent'[i] = [k |-> q[i - Len(sent)], a |-> att.n]
      BY <1>1, <1>2, PartIs DEF Received
    <3> QED
      BY <3>1
  <2>2. att.n <= att.n
    BY DEF Typed, Attempt
  <2> QED
    BY <2>1, <2>2 DEF Aged
<1> QED
  BY <1>1, <1>3, <1>4, <1>5 DEF Keeps

LEMMA Delivers ==
  ASSUME Typed, NEW data \in Seq(Events), Deliver(data), att' = att
  PROVE  /\ NoneSent /\ NoEnd(data) => NoneSent'
         /\ OneSent /\ NoEnd(data) => OneSent'
         /\ NoneSent /\ OneEnd(data) => OneSent'
         /\ AllClosed /\ NoTools(data) => AllClosed'
         /\ ClosedIn(data) /\ Closes(data) => AllClosed'
         /\ TruthfulEnds /\ (NotComplete(data) \/ (AllClosed /\ NoTools(data)) \/ EndsClosed(data))
              => TruthfulEnds'
         /\ Aged => Aged'
<1>1. Received(att.n, Filtered(session, data))
  BY FilteredTyped, FromIsReceived DEF Deliver, Typed, Attempt
<1> QED
  BY <1>1, Sends

\* What is noted of events (observeJSON).
LEMMA ToolNoted ==
  ASSUME NEW o, NEW q \in Seq(Events)
  PROVE  /\ NoTools(q) => Observed(o, q).tool = o.tool
         /\ NoTools(q) \/ Pending(Observed(o, q)) \/ (ClosedIn(q) /\ Closes(q))
<1> DEFINE tools == Kept(q, ToolKinds)
<1>1. tools \in Seq(Events) /\ \A i \in 1..Len(tools) : tools[i] \in ToolKinds
  BY KeptEvents
<1>2. Observed(o, q).tool = IF tools = <<>> THEN o.tool
                            ELSE IF Last(tools) = "tooldone" THEN "done" ELSE Last(tools)
  BY DEF Observed
<1>3. PICK h : KeptAs(q, ToolKinds, Len(q), tools, h)
  BY KeptOrder
<1>4. NoTools(q) <=> tools = <<>>
  <2> HIDE DEF tools
  <2>1. tools = <<>> => NoTools(q)
    BY <1>3 DEF KeptAs, NoTools
  <2>2. NoTools(q) => Len(tools) = 0
    <3>1. Len(tools) \in Nat
      BY <1>1
    <3>2. 1 \in 1..Len(tools) => h[1] \in 1..Len(q) /\ q[h[1]] \in ToolKinds
      BY <1>3 DEF KeptAs
    <3> QED
      BY <3>1, <3>2 DEF NoTools
  <2> QED
    BY <1>1, <2>1, <2>2
<1>5. ASSUME tools # <<>>, ~Pending(Observed(o, q)) PROVE ClosedIn(q) /\ Closes(q)
  <2>1. PICK i \in 1..Len(q) : /\ Last(tools) = q[i] /\ q[i] \in ToolKinds
                               /\ \A j \in 1..Len(q) : q[j] \in ToolKinds => j <= i
    BY <1>5, LastKept
  <2>2. q[i] = "tooldone"
    <3>1. Last(tools) = "tooldone" \/ Observed(o, q).tool = Last(tools)
      BY <1>2, <1>5
    <3> QED
      BY <1>5, <2>1, <3>1 DEF Pending, ToolKinds
  <2>3. \A j \in 1..Len(q) : q[j] \in HalfOpen => i \in j..Len(q)
    BY <2>1, NoOpenTool
  <2> QED
    BY <2>2, <2>3 DEF ClosedIn, Closes
<1> QED
  BY <1>2, <1>4, <1>5

LEMMA EndNoted ==
  ASSUME NEW o, NEW q, o.completed \/ ~NoEnd(q)
  PROVE  Observed(o, q).completed
BY DEF Observed, Contains, NoEnd, EndKinds

LEMMA ShortParts ==
  /\ NoEnd(<<>>) /\ OneEnd(<<>>) /\ NoTools(<<>>) /\ NotComplete(<<>>) /\ EndsClosed(<<>>)
  /\ NoEnd(<<"error">>) /\ OneEnd(<<"error">>) /\ NoTools(<<"error">>)
  /\ EndsClosed(<<"error">>)
  /\ OneEnd(<<"completed">>) /\ NoTools(<<"completed">>)
  /\ OneEnd(<<"tooldone", "completed">>) /\ EndsClosed(<<"tooldone", "completed">>)
<1>1. \A q : q = <<"tooldone", "completed">> => OneEnd(q) /\ EndsClosed(q)
  <2> SUFFICES ASSUME NEW q, q = <<"tooldone", "completed">> PROVE OneEnd(q) /\ EndsClosed(q)
    OBVIOUS
  <2>1. Len(q) = 2 /\ q[1] = "tooldone" /\ q[2] = "completed" /\ \A i \in 1..2 : i = 1 \/ i = 2
    OBVIOUS
  <2>2. 1 \in 1..2 /\ 1 \in 1..1
    OBVIOUS
  <2> QED
    BY <2>1, <2>2 DEF OneEnd, EndsClosed, EndKinds, HalfOpen
<1>2. NoEnd(<<>>) /\ OneEnd(<<>>) /\ NoTools(<<>>) /\ NotComplete(<<>>) /\ EndsClosed(<<>>)
  BY DEF NoEnd, OneEnd, NoTools, NotComplete, EndsClosed
<1>3. NoEnd(<<"error">>) /\ OneEnd(<<"error">>) /\ NoTools(<<"error">>) /\ EndsClosed(<<"error">>)
  BY DEF NoEnd, OneEnd, NoTools, EndsClosed, EndKinds, ToolKinds, HalfOpen
<1>4. OneEnd(<<"completed">>) /\ NoTools(<<"completed">>)
  BY DEF OneEnd, NoTools, EndKinds, ToolKinds
<1> QED
  BY <1>1, <1>2, <1>3, <1>4

-----------------------------------------------------------------------------
(* Every step keeps it.                                                    *)

\* The heartbeat, and what leaves the client's stream alone.
LEMMA CompleteQuiet ==
  ASSUME CompleteInv, \/ StartSession \/ GiveUp \/ Beat \/ BeatLoopEnds \/ Disconnect
                      \/ CloseChannel \/ CloseFlag
  PROVE  Complete'
<1> USE DEF CompleteInv, EndsInv, Complete
<1>1. /\ UNCHANGED <<att, obs, pending>> /\ (gone => gone')
      /\ \/ UNCHANGED <<pc, buf>>
         \/ pc = "start" /\ pc' = "attempt"
         \/ pc \in {"close", "ended"} /\ pc' \in {"close", "ended"}
         \/ pc = "attempt" /\ pc' = "tell" /\ buf' = <<"error">>
  <2>1. UNCHANGED <<att, obs, pending>> /\ (gone' = gone \/ gone' = TRUE)
    BY DEF StartSession, GiveUp, Beat, BeatLoopEnds, Disconnect, CloseChannel, CloseFlag, Left
  <2>2. \/ UNCHANGED <<pc, buf>>
        \/ pc = "start" /\ pc' = "attempt"
        \/ pc \in {"close", "ended"} /\ pc' \in {"close", "ended"}
        \/ pc = "attempt" /\ pc' = "tell" /\ buf' = <<"error">>
    BY DEF StartSession, GiveUp, Beat, BeatLoopEnds, Disconnect, CloseChannel, CloseFlag, Left
  <2> QED
    BY <2>1, <2>2
<1>2. Untouched /\ Aged'
  <2>1. CASE UNCHANGED sent
    BY <1>1, <2>1, NothingSent DEF Aged
  <2>2. CASE Beat
    <3>1. PICK k \in {"created", "ping"} : sent' = Append(sent, [k |-> k, a |-> 0])
      BY <2>2 DEF Beat
    <3>2. k \in Events \cup {"ping"} /\ k \notin EndKinds /\ k \notin ToolKinds
          /\ k # "completed" /\ k # "tooldone" /\ k \notin HalfOpen
      BY KindsAreEvents DEF EndKinds, ToolKinds, HalfOpen
    <3> DEFINE L == Len(sent)
    <3>3. /\ L \in Nat /\ Len(sent') = L + 1 /\ sent'[L + 1] = [k |-> k, a |-> 0]
          /\ \A i \in 1..L : sent'[i] = sent[i]
      BY <3>1, <3>2, BeatIsReceived DEF Typed
    <3>4. sent'[L + 1].k = k /\ sent'[L + 1].a = 0
      BY <3>3
    <3>5. \A i \in 1..L + 1 : i \in 1..L \/ i = L + 1
      BY <3>3
    <3>6. att.n \in Nat /\ att' = att
      BY <1>1 DEF Typed, Attempt
    <3> HIDE DEF L
    <3>7. Aged'
      BY <3>3, <3>4, <3>5, <3>6 DEF Aged, L
    <3>8. NoneSent' = NoneSent /\ OneSent' = OneSent
      <4>1. \A i \in 1..L : i \in 1..L + 1
        BY <3>3 DEF L
      <4> QED
        BY <3>2, <3>3, <3>4, <3>5, <3>6, <4>1 DEF NoneSent, OneSent, Mine, L
    <3>9. AllClosed' = AllClosed
      <4>1. \A j \in 1..L : j..L \subseteq j..L + 1 /\ j \in 1..L + 1
        BY <3>3 DEF L
      <4>2. \A j \in 1..L : \A m \in j..L + 1 : m \in j..L \/ m = L + 1
        BY <3>3 DEF L
      <4>3. \A j \in 1..L : \A m \in j..L : m \in 1..L
        BY <3>3 DEF L
      <4> QED
        BY <3>2, <3>3, <3>4, <3>5, <3>6, <4>1, <4>2, <4>3 DEF AllClosed, ClosedBy, Mine, L
    <3>10. TruthfulEnds' = TruthfulEnds
      <4>1. \A i \in 1..L : i \in 1..L + 1 /\ \A j \in 1..i : j \in 1..L /\ \A m \in j..i : m \in 1..L
        BY <3>3 DEF L
      <4>2. \A i \in 1..L : ClosedBy(i)' = ClosedBy(i)
        BY <3>3, <3>6, <4>1 DEF ClosedBy, Mine
      <4> QED
        BY <3>2, <3>3, <3>4, <3>5, <3>6, <4>1, <4>2 DEF TruthfulEnds, Mine, L
    <3> QED
      BY <3>7, <3>8, <3>9, <3>10 DEF Untouched
  <2> QED
    BY <2>1, <2>2 DEF StartSession, GiveUp, BeatLoopEnds, Disconnect, CloseChannel, CloseFlag, Left
<1>3. /\ OneEnd(pending)' = OneEnd(pending) /\ NoEnd(pending)' = NoEnd(pending)
      /\ NoTools(pending)' = NoTools(pending) /\ NotComplete(pending)' = NotComplete(pending)
      /\ Pending(obs)' = Pending(obs)
  BY <1>1 DEF OneEnd, NoEnd, NoTools, NotComplete, Pending
<1>4. UNCHANGED buf => /\ OneEnd(buf)' = OneEnd(buf) /\ NoEnd(buf)' = NoEnd(buf)
                       /\ NoTools(buf)' = NoTools(buf) /\ EndsClosed(buf)' = EndsClosed(buf)
  BY DEF OneEnd, NoEnd, NoTools, EndsClosed
<1>5. buf' = <<"error">> => /\ OneEnd(buf)' /\ NoEnd(buf)' /\ EndsClosed(buf)'
  BY ShortParts DEF OneEnd, NoEnd, EndsClosed
<1>6. EndPlaced'
  BY <1>1, <1>2, <1>3, <1>4, <1>5 DEF EndPlaced, Untouched
<1>7. ToolsNoted'
  BY <1>1, <1>2, <1>3, <1>4, <1>5 DEF ToolsNoted, Untouched
<1> QED
  BY <1>2, <1>6, <1>7

\* A new attempt has sent nothing.
LEMMA CompleteBegin ==
  ASSUME CompleteInv, BeginAttempt
  PROVE  Complete'
<1> USE DEF CompleteInv, EndsInv, Complete
<1>1. /\ pc = "attempt" /\ pc' = "read" /\ UNCHANGED <<sent, pending, obs>> /\ pending = <<>>
  BY DEF BeginAttempt, Ends, Rested
<1>2. att.n \in Nat /\ att'.n = att.n + 1
  BY DEF Typed, Attempt, BeginAttempt
<1>3. \A i \in 1..Len(sent) : sent[i].a \in Nat /\ sent[i].a <= att.n
  <2>1. \A i \in 1..Len(sent) : sent[i] \in Out
    BY DEF Typed
  <2>2. \A i \in 1..Len(sent) : sent[i].a \in 0..MaxAttempts
    BY <2>1 DEF Out
  <2> QED
    BY <2>2, StreamAssumption DEF Aged
<1>4. Aged' /\ \A i \in 1..Len(sent) : ~Mine(i)'
  BY <1>1, <1>2, <1>3 DEF Aged, Mine
<1>5. NoneSent' /\ OneSent' /\ TruthfulEnds'
  BY <1>1, <1>4 DEF NoneSent, OneSent, TruthfulEnds
<1>6. AllClosed'
  BY <1>1, <1>4 DEF AllClosed, ClosedBy
<1>7. /\ NoEnd(pending)' /\ OneEnd(pending)' /\ NoTools(pending)' /\ NotComplete(pending)'
      /\ pending' = <<>>
  BY <1>1, ShortParts
<1>8. EndPlaced'
  BY <1>1, <1>5, <1>7 DEF EndPlaced
<1>9. ToolsNoted'
  BY <1>1, <1>5, <1>6, <1>7 DEF ToolsNoted
<1> QED
  BY <1>4, <1>8, <1>9

\* An event is read while the end has not been.
LEMMA ReadHasOneEnd ==
  ASSUME NEW k \in Kinds, NEW begun
  PROVE  /\ OneEnd(Converted(k, begun)) /\ OneEnd(<<k>>)
         /\ k \notin Terminal => NoEnd(Converted(k, begun)) /\ NoEnd(<<k>>)
<1> DEFINE first == IF begun THEN <<>> ELSE <<"created">>
<1>1. first \in Seq(Events) /\ NoEnd(first)
  BY ShortAreTyped DEF NoEnd, EndKinds
<1>2. \A x \in Kinds : /\ <<x>> \in Seq(Events) /\ OneEnd(<<x>>)
                       /\ (x \notin Terminal => NoEnd(<<x>>))
  BY ShortAreTyped DEF OneEnd, NoEnd, EndKinds, Terminal
<1>3. OneEnd(<<>>) /\ NoEnd(<<>>) /\ <<>> \in Seq(Events)
  BY ShortParts, ShortAreTyped
<1> HIDE DEF first
<1>4. CASE k = "reason"
  BY <1>2, <1>3, <1>4 DEF Converted
<1>5. CASE k = "hollow"
  <2> DEFINE tool == IF Pending(obs) THEN <<"tooldone">> ELSE <<>>
             last == IF obs.text \/ obs.tool # "none" THEN <<"completed">> ELSE <<"hollow">>
  <2>1. Converted(k, begun) = first \o tool \o last
    BY <1>5 DEF Converted, first
  <2>2. tool \in Seq(Events) /\ NoEnd(tool) /\ last \in Seq(Events) /\ OneEnd(last)
    BY <1>2, <1>3 DEF Kinds, Terminal
  <2> HIDE DEF tool, last
  <2>3. NoEnd(first \o tool) /\ first \o tool \in Seq(Events)
    BY <1>1, <2>2, Continued
  <2>4. OneEnd(first \o tool \o last)
    BY <2>2, <2>3, Continued
  <2> QED
    BY <1>2, <1>5, <2>1, <2>4 DEF Terminal
<1>6. CASE k \notin {"reason", "hollow"}
  <2>1. Converted(k, begun) = first \o <<k>>
    BY <1>6 DEF Converted, first
  <2> QED
    BY <1>1, <1>2, <2>1, Continued
<1> QED
  BY <1>4, <1>5, <1>6

LEMMA CompleteRead ==
  ASSUME CompleteInv, NEW k \in Kinds, ReadEvent(k)
  PROVE  Complete'
<1> USE DEF CompleteInv, EndsInv, Complete
<1>1. /\ pc = "read" /\ pc' \in {"prepare", "emit"} /\ ~att.over
      /\ UNCHANGED <<sent, pending, obs, gone>>
  BY DEF ReadEvent, Offers
<1>2. att'.n = att.n /\ att'.conv = att.conv /\ (att'.over <=> k \in Terminal)
  BY DEF ReadEvent, Typed, Attempt
<1>3. OneEnd(buf') /\ (k \notin Terminal => NoEnd(buf'))
  BY ReadHasOneEnd DEF ReadEvent
<1>4. Untouched /\ Aged'
  BY <1>1, <1>2, NothingSent DEF Aged
<1>5. EndPlaced'
  BY <1>1, <1>2, <1>3, <1>4 DEF EndPlaced, Untouched
<1>6. ToolsNoted'
  BY <1>1, <1>2, <1>4 DEF ToolsNoted, Untouched
<1> QED
  BY <1>4, <1>5, <1>6

LEMMA CompletePrepare ==
  ASSUME CompleteInv, Prepare
  PROVE  Complete'
<1> USE DEF CompleteInv, EndsInv, Complete
<1>1. /\ pc = "prepare" /\ pc' = "emit" /\ buf' = PreparedFor(session, buf)
      /\ UNCHANGED <<sent, pending, obs, gone, att>> /\ buf \in Seq(Events)
  BY DEF Prepare, Typed
<1>2. (OneEnd(buf) => OneEnd(buf')) /\ (NoEnd(buf) => NoEnd(buf'))
  BY <1>1, PreparedKeeps
<1>3. Untouched /\ Aged'
  BY <1>1, NothingSent DEF Aged
<1>4. EndPlaced'
  BY <1>1, <1>2, <1>3 DEF EndPlaced, Untouched
<1>5. ToolsNoted'
  BY <1>1, <1>3 DEF ToolsNoted, Untouched
<1> QED
  BY <1>3, <1>4, <1>5

\* What is withheld has no output.
LEMMA WithheldIsQuiet ==
  ASSUME Typed, Emit, Withheld
  PROVE  buf = <<>> \/ \A i \in 1..Len(buf) : ~HasOutput(buf[i])
<1> SUFFICES ASSUME buf # <<>>, NEW i \in 1..Len(buf), HasOutput(buf[i]) PROVE FALSE
  OBVIOUS
<1>1. i \in DOMAIN buf /\ pc' = "read" /\ res' = res /\ ~res.wrote
  BY DEF Typed, Withheld
<1>2. gone \/ \E b : res' = [res EXCEPT !.wrote = TRUE, !.semantic = b]
  BY <1>1 DEF Emit
<1>3. ~gone
  BY <1>1 DEF Emit
<1>4. \A b : [res EXCEPT !.wrote = TRUE, !.semantic = b].wrote
  BY DEF Typed, Result
<1> QED
  BY <1>1, <1>2, <1>3, <1>4

LEMMA CompleteEmit ==
  ASSUME CompleteInv, Emit
  PROVE  Complete'
<1> USE DEF CompleteInv, EndsInv, Complete
<1>1. /\ pc = "emit" /\ obs' = Observed(obs, buf) /\ UNCHANGED <<gone, att>>
      /\ pending \in Seq(Events) /\ buf \in Seq(Events)
  BY EmitCases DEF Typed
<1>2. /\ NoneSent /\ NoEnd(pending) /\ OneEnd(buf) /\ (~att.over => NoEnd(buf))
      /\ Pending(obs) \/ AllClosed
      /\ NoTools(pending) /\ NotComplete(pending) /\ (~att.over => TruthfulEnds)
  BY <1>1 DEF EndPlaced, ToolsNoted
<1> DEFINE all == pending \o buf
<1>3. all \in Seq(Events)
  BY <1>1
<1>4. /\ NoEnd(buf) => NoEnd(all)
      /\ OneEnd(all)
      /\ NoTools(buf) => NoTools(all)
      /\ NotComplete(buf) => NotComplete(all)
      /\ ClosedIn(buf) => ClosedIn(all)
      /\ Closes(buf) => Closes(all)
  BY <1>1, <1>2, Continued
<1>5. obs'.completed \/ NoEnd(buf)
  BY <1>1, EndNoted
<1>6. NoTools(buf) \/ Pending(obs)' \/ (ClosedIn(buf) /\ Closes(buf))
  <2>1. NoTools(buf) \/ Pending(obs') \/ (ClosedIn(buf) /\ Closes(buf))
    BY <1>1, ToolNoted
  <2> QED
    BY <2>1 DEF Pending
<1>7. NoTools(buf) => Pending(obs)' = Pending(obs)
  BY <1>1, ToolNoted DEF Pending
<1> HIDE DEF all
<1>8. CASE Withheld
  <2>1. pending' = all /\ pc' = "read" /\ UNCHANGED sent
    BY <1>8 DEF Withheld, all
  <2>2. NoTools(buf) /\ NotComplete(buf)
    <3>1. buf = <<>> \/ \A i \in 1..Len(buf) : ~HasOutput(buf[i])
      BY <1>8, WithheldIsQuiet
    <3>2. \A k : ~HasOutput(k) => k \notin ToolKinds /\ k # "completed"
      BY DEF HasOutput, ToolKinds
    <3> QED
      BY <3>1, <3>2, ShortParts DEF NoTools, NotComplete
  <2>3. Untouched /\ Aged'
    BY <1>1, <2>1, NothingSent DEF Aged
  <2>4. /\ OneEnd(pending') /\ NoTools(pending') /\ NotComplete(pending')
        /\ NoEnd(buf) => NoEnd(pending')
    BY <1>4, <2>1, <2>2
  <2>5. EndPlaced'
    BY <1>1, <1>2, <1>5, <2>1, <2>3, <2>4 DEF EndPlaced, Untouched
  <2>6. ToolsNoted'
    BY <1>1, <1>2, <1>7, <2>1, <2>2, <2>3, <2>4 DEF ToolsNoted, Untouched
  <2> QED
    BY <2>3, <2>5, <2>6
<1>9. CASE CutOff
  <2>1. gone' /\ pc' = "leave" /\ UNCHANGED <<sent, pending>>
    BY <1>1, <1>9 DEF CutOff
  <2>2. Untouched /\ Aged'
    BY <1>1, <2>1, NothingSent DEF Aged
  <2>3. EndPlaced'
    BY <1>1, <1>2, <2>1, <2>2 DEF EndPlaced, Untouched
  <2>4. ToolsNoted'
    BY <1>1, <1>2, <2>1, <2>2 DEF ToolsNoted, Untouched, NoTools, NotComplete
  <2> QED
    BY <2>2, <2>3, <2>4
<1>10. CASE Through
  <2>1. Deliver(all) /\ pending' = <<>> /\ pc' = "read"
    BY <1>10 DEF Through, all
  <2>2. /\ NoneSent /\ NoEnd(all) => NoneSent'
        /\ NoneSent /\ OneEnd(all) => OneSent'
        /\ AllClosed /\ NoTools(all) => AllClosed'
        /\ ClosedIn(all) /\ Closes(all) => AllClosed'
        /\ TruthfulEnds /\ NotComplete(all) => TruthfulEnds'
        /\ Aged => Aged'
    BY <1>1, <1>3, <2>1, Delivers
  <2>3. NoEnd(all) => NotComplete(all)
    BY DEF NoEnd, NotComplete, EndKinds
  <2>4. OneEnd(pending') /\ NoEnd(pending') /\ NoTools(pending') /\ NotComplete(pending')
    BY <2>1, ShortParts
  <2>5. EndPlaced'
    BY <1>1, <1>2, <1>4, <1>5, <2>1, <2>2, <2>4 DEF EndPlaced
  <2>6. Pending(obs)' \/ AllClosed'
    BY <1>2, <1>4, <1>6, <1>7, <2>2
  <2>7. ToolsNoted'
    BY <1>1, <1>2, <1>4, <2>1, <2>2, <2>3, <2>4, <2>6 DEF ToolsNoted
  <2> QED
    BY <2>2, <2>5, <2>7
<1> QED
  BY <1>8, <1>9, <1>10, EmitCases

\* [DONE] and the end of the stream: an end is made of what is noted.
LEMMA CompleteEnd ==
  ASSUME CompleteInv, Done \/ DoneEarly \/ EndOfFile \/ Broken
  PROVE  Complete'
<1> USE DEF CompleteInv, EndsInv, Complete
<1>1. pc = "read" /\ UNCHANGED att /\ buf \in Seq(Events) /\ pending \in Seq(Events)
  BY EndCases DEF Typed
<1>2. /\ Pending(obs) \/ AllClosed
      /\ OneEnd(pending) /\ (NoneSent \/ NoEnd(pending))
      /\ obs.completed \/ (NoneSent /\ NoEnd(pending))
      /\ NoTools(pending) /\ NotComplete(pending) /\ (~att.over => TruthfulEnds)
      /\ ~att.conv => OneSent
  BY <1>1 DEF EndPlaced, ToolsNoted
<1>3. CASE Settled \/ Failed
  <2>1. pc' \in {"judge", "leave"} /\ UNCHANGED <<sent, pending, obs>>
    BY <1>3 DEF Settled, Failed
  <2>2. Untouched /\ Aged'
    BY <1>1, <2>1, NothingSent DEF Aged
  <2>3. OneEnd(pending') /\ NoTools(pending') /\ NotComplete(pending') /\ pending' = pending
        /\ Pending(obs)' = Pending(obs) /\ obs'.completed = obs.completed
    BY <1>2, <2>1 DEF Pending
  <2>4. EndPlaced'
    BY <1>1, <1>2, <2>1, <2>2, <2>3 DEF EndPlaced, Untouched
  <2>5. ToolsNoted'
    BY <1>1, <1>2, <2>1, <2>2, <2>3 DEF ToolsNoted, Untouched
  <2> QED
    BY <2>2, <2>4, <2>5
<1>4. CASE Completed
  <2>1. /\ Made \in Seq(Events) /\ Received(att.n, Filtered(session, Made))
        /\ pending' = <<>> /\ obs' = [obs EXCEPT !.completed = TRUE] /\ obs'.completed
    BY <1>4, SynthesizeIs DEF Completed
  <2>2. ~obs.completed /\ ~Pending(obs)
    BY <1>4 DEF Completed, Synthesize, CanSynthesize, Unsafe
  <2>3. OneEnd(Made) /\ NoTools(Made)
    <3> DEFINE done == <<"completed">>
    <3>1. done \in Seq(Events) /\ OneEnd(done) /\ NoTools(done)
      BY ShortAreTyped, ShortParts
    <3> HIDE DEF done
    <3>2. /\ PreparedFor(session, done) \in Seq(Events)
          /\ OneEnd(PreparedFor(session, done)) /\ NoTools(PreparedFor(session, done))
      BY <3>1, PreparedTyped, PreparedKeeps
    <3>3. Made \in {pending \o done, pending \o PreparedFor(session, done)}
      BY DEF Made, done
    <3> QED
      BY <1>1, <1>2, <2>2, <3>1, <3>2, <3>3, Continued
  <2>4. OneSent' /\ AllClosed' /\ (TruthfulEnds => TruthfulEnds') /\ Aged'
    BY <1>1, <1>2, <2>1, <2>2, <2>3, Sends
  <2>5. /\ pc' \in {"last", "judge"}
        /\ pc' = "last" => buf' \in {<<"completed">>, <<>>} /\ (att.conv \/ buf' = <<>>)
    BY <1>4 DEF Completed, Finishes, Done, DoneEarly, EndOfFile, Broken
  <2>6. OneEnd(pending') /\ NoEnd(pending') /\ NoTools(pending') /\ NotComplete(pending')
    BY <2>1, ShortParts
  <2>7. pc' = "last" => NoTools(buf')
    BY <2>5, ShortParts
  <2>8. ~Pending(obs)'
    <3>1. obs'.tool = obs.tool
      BY <2>1 DEF Typed, Note
    <3> QED
      BY <2>2, <3>1 DEF Pending
  <2>9. EndPlaced'
    BY <1>1, <2>1, <2>4, <2>5, <2>6, <2>7 DEF EndPlaced
  <2>10. ToolsNoted'
    BY <1>1, <1>2, <2>4, <2>5, <2>6, <2>8 DEF ToolsNoted
  <2> QED
    BY <2>4, <2>9, <2>10
<1> QED
  BY <1>3, <1>4, EndCases

\* The last events of an attempt, and what the client is told.
LEMMA CompleteLast ==
  ASSUME CompleteInv, EmitLast \/ Judge \/ Tell
  PROVE  Complete'
<1> USE DEF CompleteInv, EndsInv, Complete
<1>1. /\ UNCHANGED <<gone, att, obs>> /\ Pending(obs)' = Pending(obs)
      /\ buf \in Seq(Events) /\ pending \in Seq(Events)
  BY DEF EmitLast, Judge, Tell, Left, Typed, Pending
<1>2. /\ NoTools(pending) /\ NotComplete(pending) /\ (~att.over => TruthfulEnds)
      /\ ~att.conv => OneSent
  BY DEF EndPlaced, ToolsNoted
<1>3. \/ /\ UNCHANGED <<sent, pending>>
         /\ \/ pc \in {"last", "judge"} /\ pc' = "leave"
            \/ pc = "tell" /\ pc' = "close"
      \/ pc = "last" /\ pc' = "judge" /\ Deliver(buf) /\ pending' = pending
      \/ pc = "judge" /\ pc' = "leave" /\ Deliver(pending) /\ pending' = <<>>
      \/ pc = "tell" /\ pc' = "close" /\ ~gone /\ Deliver(buf) /\ pending' = pending
  BY DEF EmitLast, Judge, Tell
<1>4. NoTools(pending') /\ NotComplete(pending')
  BY <1>2, <1>3, ShortParts
<1>5. CASE /\ UNCHANGED <<sent, pending>>
           /\ \/ pc \in {"last", "judge"} /\ pc' = "leave"
              \/ pc = "tell" /\ pc' = "close"
  <2>1. Untouched /\ Aged'
    BY <1>1, <1>5, NothingSent DEF Aged
  <2>2. EndPlaced'
    BY <1>1, <1>5, <2>1 DEF EndPlaced, Untouched
  <2>3. ToolsNoted'
    BY <1>1, <1>4, <1>5, <2>1 DEF ToolsNoted, Untouched
  <2> QED
    BY <2>1, <2>2, <2>3
<1>6. CASE pc = "last" /\ pc' = "judge" /\ Deliver(buf) /\ pending' = pending
  <2>1. /\ NoTools(buf) /\ (att.conv \/ buf = <<>>) /\ pending = <<>>
        /\ AllClosed /\ obs.completed
    BY <1>6 DEF EndPlaced, ToolsNoted, Ends
  <2>2. /\ OneSent /\ NoEnd(buf) => OneSent'
        /\ AllClosed' /\ (TruthfulEnds => TruthfulEnds') /\ Aged'
    BY <1>1, <1>6, <2>1, Delivers
  <2>3. OneEnd(pending') /\ NoEnd(pending')
    BY <1>6, <2>1, ShortParts
  <2>4. EndPlaced'
    BY <1>1, <1>2, <1>6, <2>1, <2>2, <2>3, ShortParts DEF EndPlaced
  <2>5. ToolsNoted'
    BY <1>1, <1>2, <1>4, <1>6, <2>2 DEF ToolsNoted
  <2> QED
    BY <2>2, <2>4, <2>5
<1>7. CASE pc = "judge" /\ pc' = "leave" /\ Deliver(pending) /\ pending' = <<>>
  <2>1. /\ NoneSent \/ NoEnd(pending)
        /\ OneEnd(pending) /\ (obs.completed \/ (NoneSent /\ NoEnd(pending)))
        /\ Pending(obs) \/ AllClosed
    BY <1>7 DEF EndPlaced, ToolsNoted
  <2>2. /\ NoneSent /\ NoEnd(pending) => NoneSent'
        /\ OneSent /\ NoEnd(pending) => OneSent'
        /\ NoneSent /\ OneEnd(pending) => OneSent'
        /\ AllClosed => AllClosed'
        /\ TruthfulEnds => TruthfulEnds'
        /\ Aged'
    BY <1>1, <1>2, <1>7, Delivers
  <2>3. EndPlaced'
    BY <1>1, <1>2, <1>7, <2>1, <2>2 DEF EndPlaced
  <2>4. ToolsNoted'
    BY <1>1, <1>2, <1>4, <1>7, <2>1, <2>2 DEF ToolsNoted
  <2> QED
    BY <2>2, <2>3, <2>4
<1>8. CASE pc = "tell" /\ pc' = "close" /\ ~gone /\ Deliver(buf) /\ pending' = pending
  <2>1. /\ OneEnd(buf) /\ (NoneSent \/ NoEnd(buf))
        /\ (NoTools(buf) /\ (AllClosed \/ NoEnd(buf))) \/ EndsClosed(buf)
    BY <1>8 DEF EndPlaced, ToolsNoted
  <2>2. NoEnd(buf) => NotComplete(buf)
    BY DEF NoEnd, NotComplete, EndKinds
  <2>3. /\ OneSent /\ NoEnd(buf) => OneSent'
        /\ NoneSent /\ OneEnd(buf) => OneSent'
        /\ TruthfulEnds => TruthfulEnds'
        /\ Aged'
    BY <1>1, <1>8, <2>1, <2>2, Delivers
  <2>4. EndPlaced'
    BY <1>1, <1>2, <1>8, <2>1, <2>3 DEF EndPlaced
  <2>5. ToolsNoted'
    BY <1>1, <1>2, <1>4, <1>8, <2>3 DEF ToolsNoted
  <2> QED
    BY <2>3, <2>4, <2>5
<1> QED
  BY <1>3, <1>5, <1>6, <1>7, <1>8

\* What handleProxy tells: an end only where none has been noted and no tool
\* call is open, or together with the end of the tool call.
LEMMA TellingTrue ==
  \/ Telling \in {<<>>, <<"error">>}
  \/ Telling = <<"completed">> /\ ~obs.completed /\ ~Pending(obs)
  \/ Telling = <<"tooldone", "completed">> /\ ~obs.completed
<1>1. \/ Interrupted = <<"error">>
      \/ Interrupted = <<"completed">> /\ ~obs.completed /\ ~Pending(obs)
      \/ Interrupted = <<"tooldone", "completed">> /\ ~obs.completed
  BY DEF Interrupted, CanSynthesize, Unsafe, CanFinishInput
<1>2. \/ Broke \in {<<>>, <<"error">>, Interrupted}
      \/ Broke = <<"completed">> /\ ~obs.completed /\ ~Pending(obs)
  BY DEF Broke, CanSynthesize, Unsafe
<1>3. Telling \in {<<>>, <<"error">>, Broke}
  BY DEF Telling
<1> QED
  BY <1>1, <1>2, <1>3

LEMMA CompleteLeave ==
  ASSUME CompleteInv, Retry \/ Conclude
  PROVE  Complete'
<1> USE DEF CompleteInv, EndsInv, Complete
<1>1. /\ pc = "leave" /\ UNCHANGED <<sent, att, gone>> /\ pending' = <<>>
      /\ pc' = "attempt" \/ (pc' = "tell" /\ buf' = Telling)
  BY DEF Retry, Conclude, Left
<1>2. Untouched /\ Aged'
  BY <1>1, NothingSent DEF Aged
<1>3. /\ OneEnd(pending') /\ NoEnd(pending') /\ NoTools(pending') /\ NotComplete(pending')
  BY <1>1, ShortParts
<1>4. /\ obs.completed \/ NoneSent
      /\ gone \/ Pending(obs) \/ AllClosed
      /\ ~att.over => TruthfulEnds
      /\ ~att.conv => OneSent
  BY <1>1 DEF EndPlaced, ToolsNoted
<1>5. /\ OneEnd(Telling) /\ (NoneSent \/ NoEnd(Telling))
      /\ gone \/ (NoTools(Telling) /\ (AllClosed \/ NoEnd(Telling))) \/ EndsClosed(Telling)
  BY <1>4, TellingTrue, ShortParts
<1>6. EndPlaced'
  BY <1>1, <1>2, <1>3, <1>4, <1>5 DEF EndPlaced, Untouched
<1>7. ToolsNoted'
  BY <1>1, <1>2, <1>3, <1>4, <1>5 DEF ToolsNoted, Untouched
<1> QED
  BY <1>2, <1>6, <1>7

LEMMA InitComplete == Init => Complete
<1> SUFFICES ASSUME Init PROVE Complete
  OBVIOUS
<1>1. sent = <<>> /\ pending = <<>> /\ pc = "start" /\ Len(sent) = 0
  BY DEF Init
<1>2. Aged /\ NoneSent /\ OneSent /\ TruthfulEnds
  BY <1>1 DEF Aged, NoneSent, OneSent, TruthfulEnds
<1> QED
  BY <1>1, <1>2, ShortParts DEF Complete, EndPlaced, ToolsNoted

LEMMA NextComplete == CompleteInv /\ [Next]_vars => Complete'
<1> SUFFICES ASSUME CompleteInv, [Next]_vars PROVE Complete'
  OBVIOUS
<1>1. CASE UNCHANGED vars
  <2>1. UNCHANGED <<pc, gone, att, obs, buf, pending, sent>> /\ UNCHANGED att.n
    BY <1>1 DEF vars
  <2>2. Untouched /\ Aged' = Aged
    BY <2>1, NothingSent DEF Aged
  <2>3. EndPlaced' = EndPlaced
    BY <2>1, <2>2 DEF EndPlaced, Untouched, OneEnd, NoEnd, NoTools
  <2>4. ToolsNoted' = ToolsNoted
    BY <2>1, <2>2 DEF ToolsNoted, Untouched, NoEnd, NoTools, NotComplete, EndsClosed, Pending
  <2> QED
    BY <2>2, <2>3, <2>4 DEF CompleteInv, Complete
<1>2. CASE Next
  BY <1>2, CompleteQuiet, CompleteBegin, CompleteRead, CompletePrepare, CompleteEmit, CompleteEnd,
     CompleteLast, CompleteLeave DEF Next, Request
<1> QED
  BY <1>1, <1>2

\* An answer that is passed on as it comes is completed once at most, and none
\* is declared complete while a tool call that the client has seen is half
\* open, wherever the upstream stops or breaks (canSynthesizeCompleted,
\* writeSyntheticResponsesCompletion, interruptedOpenAIResponsesCompletionEvents).
THEOREM CompletionIsTrue == Spec => []CompleteMeansToolsDone
<1>1. CompleteInv => CompleteMeansToolsDone
  <2> SUFFICES ASSUME CompleteInv PROVE CompleteMeansToolsDone
    OBVIOUS
  <2>1. sent \in Seq(Out) /\ DOMAIN sent = 1..Len(sent) /\ Len(sent) \in Nat
    BY DEF CompleteInv, EndsInv, Typed
  <2>2. ASSUME ~att.conv PROVE CompletedBy(att.n) <= 1
    <3> DEFINE E == {i \in DOMAIN sent : sent[i].a = att.n /\ sent[i].k \in {"completed", "hollow"}}
    <3>1. \A i, j \in E : i = j
      BY <2>1, <2>2 DEF CompleteInv, Complete, EndPlaced, OneSent, Mine, EndKinds
    <3> HIDE DEF E
    <3>2. E = {} \/ \E i : E = {i}
      BY <3>1
    <3>3. Cardinality(E) \in {0, 1}
      BY <3>2, FS_EmptySet, FS_Singleton
    <3> QED
      BY <3>3 DEF E, CompletedBy
  <2>3. ASSUME NEW i \in DOMAIN sent, sent[i].k = "completed", ~att.over, sent[i].a = att.n,
               NEW K, K = [k : ToolKinds, a : {sent[i].a}], Kept(SubSeq(sent, 1, i), K) # <<>>
        PROVE  Last(Kept(SubSeq(sent, 1, i), K)).k = "tooldone"
    <3> DEFINE s == SubSeq(sent, 1, i)
    <3>1. s \in Seq(Out) /\ Len(s) = i /\ i \in 1..Len(sent) /\ \A j \in 1..i : s[j] = sent[j]
      BY <2>1
    <3>0. Kept(s, K) # <<>>
      BY <2>3
    <3> HIDE DEF s
    <3>2. PICK l \in 1..i : /\ Last(Kept(s, K)) = s[l] /\ s[l] \in K
                            /\ \A j \in 1..i : s[j] \in K => j <= l
      <4>1. \E l \in 1..Len(s) : /\ Last(Kept(s, K)) = s[l] /\ s[l] \in K
                                 /\ \A j \in 1..Len(s) : s[j] \in K => j <= l
        BY <3>0, <3>1, LastKept
      <4> QED
        BY <3>1, <4>1
    <3>3. sent[l].k \in ToolKinds /\ sent[l].a = att.n /\ sent[l] = s[l]
      BY <2>3, <3>1, <3>2
    <3>4. ClosedBy(i)
      BY <2>3, <3>1 DEF CompleteInv, Complete, ToolsNoted, TruthfulEnds, Mine
    <3>5. ASSUME sent[l].k \in HalfOpen PROVE FALSE
      <4>1. PICK m \in l..i : sent[m].a = att.n /\ sent[m].k = "tooldone"
        BY <3>3, <3>4, <3>5 DEF ClosedBy, Mine
      <4>2. m \in 1..i /\ m \in 1..Len(sent) /\ l <= m
        BY <2>1, <3>1
      <4>3. sent[m] \in K
        <5>1. sent[m] \in Out
          BY <2>1, <4>2
        <5>2. sent[m] = [k |-> sent[m].k, a |-> sent[m].a]
          BY <5>1 DEF Out
        <5> QED
          BY <2>3, <4>1, <5>2 DEF ToolKinds
      <4>4. m <= l
        BY <3>1, <3>2, <4>2, <4>3
      <4>5. m = l
        BY <4>2, <4>4
      <4> QED
        BY <3>5, <4>1, <4>5 DEF HalfOpen
    <3> QED
      BY <3>2, <3>3, <3>5 DEF s, ToolKinds, HalfOpen
  <2> QED
    BY <2>2, <2>3 DEF CompleteMeansToolsDone
<1>2. Init => CompleteInv
  BY InitTyped, InitEnds, InitComplete DEF CompleteInv, EndsInv
<1>3. CompleteInv /\ [Next]_vars => CompleteInv'
  BY NextTyped, NextEnds, NextComplete DEF CompleteInv, EndsInv
<1> QED
  BY <1>1, <1>2, <1>3, PTL DEF Spec
=============================================================================
