--------------------------- MODULE ErrorTelemetry ---------------------------
(***************************************************************************)
(* Error counts of endpoints on their way to the licence server.  The      *)
(* proxy counts every error in a row per five-minute window                *)
(* (internal/proxy/endpoint_runtime.go,                                    *)
(* internal/storage/endpoint_error_stats.go).  A loop lists the rows with  *)
(* something new, uploads their counts and marks them                      *)
(* (internal/onlinelicense/client_license.go); the server keeps the        *)
(* largest count it has seen (internal/onlinelicense/store.go), because    *)
(* an upload may arrive twice or after its successor.                      *)
(***************************************************************************)
EXTENDS Naturals, FiniteSets

CONSTANTS
  Windows,    \* rows, ordered by window_start: a finite set of naturals
  Limit,      \* ListPendingEndpointErrorTelemetry: rows per upload
  MaxErrors,  \* bound: errors per window
  MaxFaults   \* bound: uploads whose answer does not arrive

ASSUME TelemetryAssumption == Windows \subseteq Nat /\ {MaxErrors, MaxFaults} \subseteq Nat

VARIABLES
  count,     \* count[w]: endpoint_error_stats.count
  uploaded,  \* uploaded[w]: endpoint_error_stats.uploaded_count
  server,    \* server[w]: license_endpoint_error_windows.count, 0: no row
  loop,      \* the upload in progress: the counts it sends
  wire,      \* requests that may still reach the server
  faults

vars == <<count, uploaded, server, loop, wire, faults>>

Nothing == [w \in {} |-> 0]
Resting == [pc |-> "idle", sent |-> Nothing]

Init ==
  /\ count = [w \in Windows |-> 0]
  /\ uploaded = [w \in Windows |-> 0]
  /\ server = [w \in Windows |-> 0]
  /\ loop = Resting /\ wire = {} /\ faults = 0

\* RecordEndpointErrorStat: insert, or add one.
RecordError(w) ==
  /\ count[w] < MaxErrors
  /\ count' = [count EXCEPT ![w] = @ + 1]
  /\ UNCHANGED <<uploaded, server, loop, wire, faults>>

Pending == {w \in Windows : count[w] > uploaded[w]}
Listed  == {w \in Pending : Cardinality({o \in Pending : o < w}) < Limit}

\* UploadEndpointErrorTelemetry lists the pending rows and sends their counts.
Upload ==
  /\ loop.pc = "idle" /\ Pending # {}
  /\ loop' = [pc |-> "sent", sent |-> [w \in Listed |-> count[w]]]
  /\ wire' = wire \cup {loop'.sent}
  /\ UNCHANGED <<count, uploaded, server, faults>>

\* Mutant: the server adds what an upload reports.
SumUp(m) == [w \in Windows |->
               IF w \in DOMAIN m THEN server[w] + m[w] ELSE server[w]]

\* RecordEndpointErrorTelemetry: count = MAX(count, excluded.count).
Merged(m) == [w \in Windows |->
                IF w \in DOMAIN m /\ m[w] > server[w] THEN m[w] ELSE server[w]]

\* The server stores the rows; its answer reaches a client that still waits.
Record(m) ==
  /\ m \in wire /\ wire' = wire \ {m}
  /\ server' = Merged(m)
  /\ loop' = IF loop.pc = "sent" /\ loop.sent = m
             THEN [loop EXCEPT !.pc = "stored"] ELSE loop
  /\ UNCHANGED <<count, uploaded, faults>>

\* Mutant: the rows are marked although the upload failed.
FailMarked ==
  /\ loop.pc = "sent"
  /\ faults < MaxFaults /\ faults' = faults + 1
  /\ loop' = [loop EXCEPT !.pc = "stored"]
  /\ wire' = {}
  /\ UNCHANGED <<count, uploaded, server>>

\* No answer: nothing is marked.  The request may be lost, still under way, or
\* stored already.
Fail ==
  /\ loop.pc \in {"sent", "stored"}
  /\ faults < MaxFaults /\ faults' = faults + 1
  /\ loop' = Resting
  /\ wire' \in SUBSET wire
  /\ UNCHANGED <<count, uploaded, server>>

\* MarkEndpointErrorStatsUploaded: uploaded_count = count, the count of now and
\* not the one that was sent.
Mark ==
  /\ loop.pc = "stored"
  /\ uploaded' = [w \in Windows |-> IF w \in DOMAIN loop.sent THEN count[w] ELSE uploaded[w]]
  /\ loop' = Resting
  /\ UNCHANGED <<count, server, wire, faults>>

Next ==
  \/ \E w \in Windows : RecordError(w)
  \/ Upload \/ Mark \/ Fail
  \/ \E m \in wire : Record(m)

\* runEndpointErrorTelemetryLoop uploads every five minutes.
Fairness == WF_vars(Upload) /\ WF_vars(Mark) /\ WF_vars(\E m \in wire : Record(m))

Spec == Init /\ [][Next]_vars /\ Fairness

-----------------------------------------------------------------------------
(* Properties                                                              *)

\* What an upload says: the counts of some windows.
Counts == UNION {[W -> 1..MaxErrors] : W \in SUBSET Windows}

TypeOK ==
  /\ count \in [Windows -> 0..MaxErrors]
  /\ uploaded \in [Windows -> 0..MaxErrors]
  /\ server \in [Windows -> Nat]
  /\ loop \in [pc : {"idle", "sent", "stored"}, sent : Counts]
  /\ wire \subseteq Counts
  /\ faults \in 0..MaxFaults

\* The server never shows more errors than happened, although uploads are
\* repeated after a lost answer and may arrive late
\* (RecordEndpointErrorTelemetry).
ServerNeverOver == TypeOK /\ \A w \in Windows : server[w] <= count[w]

\* A window in which an endpoint failed becomes known to the server, whatever
\* uploads are lost on the way (UploadEndpointErrorTelemetry).
FailuresArrive == \A w \in Windows : count[w] > 0 ~> server[w] > 0
=============================================================================
