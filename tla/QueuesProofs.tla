---------------------------- MODULE QueuesProofs ----------------------------
(***************************************************************************)
(* Four components that work on what others leave them: the upload of      *)
(* error counts (ErrorTelemetry), the device logins (DeviceLogin), the     *)
(* analysis jobs (AIJobs) and the quotas (CodexQuota).  Each has an        *)
(* inductive invariant of its own; they have no variable in common.        *)
(***************************************************************************)
EXTENDS ErrorTelemetry, DeviceLogin, AIJobs, CodexQuota, ListProofs

-----------------------------------------------------------------------------
(* Error counts.  What makes the server's counts safe is that nothing on   *)
(* the wire is larger than the client's count, which only grows: an upload *)
(* may then arrive at any time, in any order and more than once.           *)

\* Whatever may still reach the server is no more than what happened
\* (UploadEndpointErrorTelemetry sends the counts it has just listed).
WireBelow == \A m \in wire : \A w \in DOMAIN m : m[w] <= count[w]

CountsInv == ServerNeverOver /\ WireBelow

\* What an upload carries.
LEMMA CountsOfWindows ==
  ASSUME NEW m \in Counts, NEW w \in DOMAIN m
  PROVE  w \in Windows /\ m[w] \in 1..MaxErrors /\ m[w] \in Nat
<1>1. PICK W \in SUBSET Windows : m \in [W -> 1..MaxErrors]
  BY DEF Counts
<1> QED
  BY <1>1, TelemetryAssumption

\* What is listed is a count of some windows, none of them zero: a row is
\* listed because its count is above what was uploaded
\* (ListPendingEndpointErrorStats).
LEMMA UploadsAreCounts ==
  ASSUME TypeOK
  PROVE  [w \in Listed |-> count[w]] \in Counts
<1>1. \A w \in Listed : w \in Windows /\ count[w] \in 1..MaxErrors
  BY TelemetryAssumption DEF Listed, Pending, TypeOK
<1>2. Listed \in SUBSET Windows
  BY <1>1
<1>3. [w \in Listed |-> count[w]] \in [Listed -> 1..MaxErrors]
  BY <1>1
<1> QED
  BY <1>2, <1>3 DEF Counts

\* The largest of two counts is a count that is no larger than either bound:
\* the server's row after an upload (RecordEndpointErrorTelemetry).
LEMMA MergedBelow ==
  ASSUME CountsInv, NEW m \in wire
  PROVE  /\ Merged(m) \in [Windows -> Nat]
         /\ \A w \in Windows : Merged(m)[w] <= count[w]
<1>1. m \in Counts
  BY DEF CountsInv, ServerNeverOver, TypeOK
<1>2. PICK W \in SUBSET Windows : m \in [W -> 1..MaxErrors]
  BY <1>1 DEF Counts
<1>3. \A w \in Windows : server[w] \in Nat /\ server[w] <= count[w]
  BY DEF CountsInv, ServerNeverOver, TypeOK
<1>4. \A w \in DOMAIN m : m[w] \in Nat /\ m[w] <= count[w]
  BY <1>2, TelemetryAssumption DEF CountsInv, WireBelow
<1> QED
  BY <1>3, <1>4 DEF Merged

\* Every step of the proxy, the upload loop and the server keeps the invariant.
LEMMA CountsStep ==
  CountsInv /\ [Next]_vars => CountsInv'
<1> SUFFICES ASSUME CountsInv, [Next]_vars PROVE CountsInv'
  OBVIOUS
<1> USE TelemetryAssumption
<1>t. TypeOK
  BY DEF CountsInv, ServerNeverOver
<1>r. Resting \in [pc : {"idle", "sent", "stored"}, sent : Counts]
  <2>1. Nothing \in [{} -> 1..MaxErrors]
    BY DEF Nothing
  <2>2. Nothing \in Counts
    BY <2>1 DEF Counts
  <2> QED
    BY <2>2 DEF Resting
<1>1. ASSUME NEW w \in Windows, RecordError(w) PROVE CountsInv'
  <2>1. count' \in [Windows -> 0..MaxErrors]
    BY <1>1, <1>t DEF RecordError, TypeOK
  <2>2. \A o \in Windows : count[o] <= count'[o]
    BY <1>1, <1>t DEF RecordError, TypeOK
  <2>3. TypeOK'
    BY <1>1, <1>t, <2>1 DEF RecordError, TypeOK, Counts
  <2>4. \A o \in Windows : server'[o] <= count'[o]
    BY <1>1, <1>t, <2>1, <2>2 DEF RecordError, CountsInv, ServerNeverOver, TypeOK
  <2>5. \A m \in wire : \A o \in DOMAIN m : o \in Windows /\ m[o] \in Nat
    BY <1>t, CountsOfWindows DEF TypeOK
  <2>6. WireBelow'
    BY <1>1, <1>t, <2>1, <2>2, <2>5 DEF RecordError, CountsInv, WireBelow, TypeOK
  <2> QED
    BY <2>3, <2>4, <2>6 DEF CountsInv, ServerNeverOver
<1>2. CASE Upload
  <2> DEFINE new == [w \in Listed |-> count[w]]
  <2>1. new \in Counts
    BY <1>t, UploadsAreCounts
  <2>2. loop' = [pc |-> "sent", sent |-> new] /\ wire' = wire \cup {new}
    BY <1>2 DEF Upload
  <2>3. TypeOK'
    BY <1>2, <1>t, <2>1, <2>2 DEF Upload, TypeOK, Counts
  <2>4. \A w \in DOMAIN new : new[w] <= count[w]
    BY <1>t DEF TypeOK, Listed, Pending
  <2>5. WireBelow'
    BY <1>2, <2>2, <2>4 DEF Upload, WireBelow, CountsInv
  <2> QED
    BY <1>2, <2>3, <2>5 DEF Upload, CountsInv, ServerNeverOver
<1>3. CASE Mark
  <2>1. uploaded' \in [Windows -> 0..MaxErrors]
    BY <1>3, <1>t DEF Mark, TypeOK
  <2>2. TypeOK'
    BY <1>3, <1>t, <1>r, <2>1 DEF Mark, TypeOK, Counts
  <2> QED
    BY <1>3, <2>2 DEF Mark, CountsInv, ServerNeverOver, WireBelow
<1>4. CASE Fail
  <2>1. TypeOK'
    BY <1>4, <1>t, <1>r DEF Fail, TypeOK, Counts
  <2> QED
    BY <1>4, <2>1 DEF Fail, CountsInv, ServerNeverOver, WireBelow
<1>5. ASSUME NEW m \in wire, Record(m) PROVE CountsInv'
  <2>1. /\ server' \in [Windows -> Nat]
        /\ \A w \in Windows : server'[w] <= count[w]
    BY <1>5, MergedBelow DEF Record
  <2>2. loop' \in [pc : {"idle", "sent", "stored"}, sent : Counts]
    BY <1>5, <1>t DEF Record, TypeOK
  <2>3. TypeOK'
    BY <1>5, <1>t, <2>1, <2>2 DEF Record, TypeOK, Counts
  <2> QED
    BY <1>5, <2>1, <2>3 DEF Record, CountsInv, ServerNeverOver, WireBelow
<1>6. CASE UNCHANGED vars
  BY <1>6 DEF vars, CountsInv, ServerNeverOver, TypeOK, Counts, WireBelow
<1> QED
  BY <1>1, <1>2, <1>3, <1>4, <1>5, <1>6 DEF Next

\* The server never shows more errors of a window than the client has counted,
\* whatever uploads are lost, repeated or late (RecordEndpointErrorTelemetry).
THEOREM ServerStaysBelow == Spec => []ServerNeverOver
<1>1. Init => CountsInv
  <2> SUFFICES ASSUME Init PROVE CountsInv
    OBVIOUS
  <2>1. Nothing \in [{} -> 1..MaxErrors]
    BY DEF Nothing
  <2>2. Nothing \in Counts
    BY <2>1 DEF Counts
  <2> QED
    BY <2>2, TelemetryAssumption
       DEF Init, CountsInv, ServerNeverOver, TypeOK, WireBelow, Resting
<1>2. CountsInv => ServerNeverOver
  BY DEF CountsInv
<1> QED
  BY <1>1, <1>2, CountsStep, PTL DEF Spec

-----------------------------------------------------------------------------
(* Logins.  The goroutine marks the row as written and only then enters    *)
(* the outcome; until it does, anybody may cancel and either clock may run *)
(* out.  What keeps the outcome true is where the goroutine can be when    *)
(* the row is written, and that only the goroutine enters an end other     *)
(* than a cancellation.                                                    *)

\* A row is written on the last two steps only, and an end that says nothing
\* was stored is entered together with the end of the goroutine.
WrittenLate ==
  \A l \in Logins :
    /\ login[l].at = "enter" => login[l].wrote
    /\ login[l].wrote => login[l].at \in {"enter", "end"}
    /\ login[l].st \in {"failed", "expired", "complete"} => login[l].at = "end"

\* Once the tokens were issued it is known whose they are.
Signed(l) == login[l].at \in {"match", "look", "write"} => login[l].acc \in Accounts

OutcomeInv == OutcomeIsTrue /\ WrittenLate /\ \A l \in Logins : Signed(l)

\* A step of one login that leaves the rows alone keeps the invariant when the
\* login itself ends up in it.
LEMMA OneLogin ==
  ASSUME OutcomeInv, NEW l \in Logins, NEW you,
         login' = [login EXCEPT ![l] = you],
         you \in Session,
         stored' \subseteq [id : Logins, acc : Accounts, by : Logins],
         \A r, o \in stored' : r.id = o.id => r = o,
         you.st = "complete" => you.wrote,
         you.st \in {"failed", "expired"} => ~you.wrote,
         you.at = "enter" => you.wrote,
         you.wrote => you.at \in {"enter", "end"},
         you.st \in {"failed", "expired", "complete"} => you.at = "end",
         you.at \in {"match", "look", "write"} => you.acc \in Accounts
  PROVE  OutcomeInv'
<1>1. \A k \in Logins : login'[k] = IF k = l THEN you ELSE login[k]
  BY DEF OutcomeInv, OutcomeIsTrue, LoginTypeOK
<1>2. LoginTypeOK'
  BY DEF OutcomeInv, OutcomeIsTrue, LoginTypeOK
<1> QED
  BY <1>1, <1>2 DEF OutcomeInv, OutcomeIsTrue, WrittenLate, Signed

\* Whatever error ends the goroutine before the row is written ends it with a
\* true outcome (failSession).
LEMMA FailedIsTrue ==
  ASSUME OutcomeInv, NEW l \in Logins, login[l].at \notin {"enter", "end"},
         login' = Failed(l), stored' = stored
  PROVE  OutcomeInv'
<1> DEFINE me == login[l]
           new == IF me.st # "pending" THEN me.st
                  ELSE IF me.done THEN "expired" ELSE "failed"
           you == [me EXCEPT !.at = "end", !.st = new]
<1>m. me \in Session
  BY DEF OutcomeInv, OutcomeIsTrue, LoginTypeOK
<1>1. login' = [login EXCEPT ![l] = you]
  BY <1>m DEF Failed, OutcomeInv, OutcomeIsTrue, LoginTypeOK
<1>2. /\ ~me.wrote
      /\ me.st \notin {"failed", "expired", "complete"}
  BY DEF OutcomeInv, WrittenLate
<1>3. new \in Statuses /\ new # "complete"
  BY <1>m, <1>2 DEF Statuses, Session
<1>4. you \in Session
  <2> HIDE DEF new
  <2> QED
    BY <1>m, <1>3 DEF Session, Steps
<1>5. ~you.wrote /\ you.at = "end" /\ you.st # "complete"
  <2> HIDE DEF new
  <2> QED
    BY <1>m, <1>2, <1>3 DEF Session
<1>6. /\ stored' \subseteq [id : Logins, acc : Accounts, by : Logins]
      /\ \A r, o \in stored' : r.id = o.id => r = o
  BY DEF OutcomeInv, OutcomeIsTrue, LoginTypeOK
<1> HIDE DEF you
<1> QED
  BY <1>1, <1>4, <1>5, <1>6, OneLogin

\* A step that moves one login on, or turns one of its clocks, keeps the
\* invariant when it says nothing of the outcome.
LEMMA OneLoginMoves ==
  ASSUME OutcomeInv, NEW l \in Logins, NEW you \in Session,
         login' = [login EXCEPT ![l] = you], stored' = stored,
         you.wrote = login[l].wrote,
         you.at \in {"match", "look", "write"} => you.acc \in Accounts,
         \/ you.at = login[l].at /\ you.st \in {login[l].st, "canceled"}
         \/ /\ login[l].at \notin {"enter", "end"}
            /\ you.at # "enter"
            /\ you.st = login[l].st \/ you.st = "pending"
  PROVE  OutcomeInv'
<1>1. /\ stored' \subseteq [id : Logins, acc : Accounts, by : Logins]
      /\ \A r, o \in stored' : r.id = o.id => r = o
  BY DEF OutcomeInv, OutcomeIsTrue, LoginTypeOK
<1>2. /\ login[l].st = "complete" => login[l].wrote
      /\ login[l].st \in {"failed", "expired"} => ~login[l].wrote
      /\ login[l].at = "enter" => login[l].wrote
      /\ login[l].wrote => login[l].at \in {"enter", "end"}
      /\ login[l].st \in {"failed", "expired", "complete"} => login[l].at = "end"
  BY DEF OutcomeInv, OutcomeIsTrue, WrittenLate
<1> QED
  BY <1>1, <1>2, OneLogin

\* The goroutine goes to another step, short of the last one.
LEMMA GoesOn ==
  ASSUME OutcomeInv, NEW l \in Logins, NEW step \in Steps \ {"enter"},
         login[l].at \notin {"enter", "end"}, Enters(l, step), stored' = stored,
         step \in {"match", "look", "write"} => login[l].acc \in Accounts
  PROVE  OutcomeInv'
<1> DEFINE you == [login[l] EXCEPT !.at = step]
<1>1. login[l] \in Session
  BY DEF OutcomeInv, OutcomeIsTrue, LoginTypeOK
<1>2. login' = [login EXCEPT ![l] = you]
  BY DEF Enters
<1>3. you \in Session
  BY <1>1 DEF Session
<1>4. /\ you.wrote = login[l].wrote /\ you.st = login[l].st
      /\ you.at = step /\ you.acc = login[l].acc
  BY <1>1 DEF Session
<1> HIDE DEF you
<1> QED
  BY <1>2, <1>3, <1>4, OneLoginMoves

\* What other goroutines, the user and the clocks do to a session.
LEMMA OthersKeepOutcome ==
  ASSUME OutcomeInv, NEW l \in Logins,
         Start(l) \/ Cancel(l) \/ Due(l) \/ TimerFires(l)
  PROVE  OutcomeInv'
<1>m. login[l] \in Session
  BY DEF OutcomeInv, OutcomeIsTrue, LoginTypeOK
<1>a. Signed(l)
  BY DEF OutcomeInv
<1>1. CASE Start(l)
  <2> DEFINE you == [login[l] EXCEPT !.st = "pending", !.at = "poll"]
  <2>1. you \in Session /\ you.wrote = login[l].wrote /\ you.acc = login[l].acc
        /\ you.st = "pending" /\ you.at = "poll"
    BY <1>m DEF Session, Statuses, Steps
  <2>2. login' = [login EXCEPT ![l] = you] /\ stored' = stored
    BY <1>1 DEF Start
  <2>3. login[l].at = "none"
    BY <1>1 DEF Start, At
  <2> HIDE DEF you
  <2> QED
    BY <2>1, <2>2, <2>3, <1>a, OneLoginMoves DEF Signed
<1>2. CASE Cancel(l)
  <2> DEFINE you == [login[l] EXCEPT !.st = "canceled", !.done = TRUE]
  <2>1. you \in Session /\ you.wrote = login[l].wrote /\ you.acc = login[l].acc
        /\ you.st = "canceled" /\ you.at = login[l].at
    BY <1>m DEF Session, Statuses
  <2>2. login' = [login EXCEPT ![l] = you] /\ stored' = stored
    BY <1>2 DEF Cancel
  <2> HIDE DEF you
  <2> QED
    BY <2>1, <2>2, <1>a, OneLoginMoves DEF Signed
<1>3. CASE Due(l)
  <2> DEFINE you == [login[l] EXCEPT !.due = TRUE]
  <2>1. you \in Session /\ you.wrote = login[l].wrote /\ you.acc = login[l].acc
        /\ you.st = login[l].st /\ you.at = login[l].at
    BY <1>m DEF Session
  <2>2. login' = [login EXCEPT ![l] = you] /\ stored' = stored
    BY <1>3 DEF Due
  <2> HIDE DEF you
  <2> QED
    BY <2>1, <2>2, <1>a, OneLoginMoves DEF Signed
<1>4. CASE TimerFires(l)
  <2> DEFINE you == [login[l] EXCEPT !.done = TRUE]
  <2>1. you \in Session /\ you.wrote = login[l].wrote /\ you.acc = login[l].acc
        /\ you.st = login[l].st /\ you.at = login[l].at
    BY <1>m DEF Session
  <2>2. login' = [login EXCEPT ![l] = you] /\ stored' = stored
    BY <1>4 DEF TimerFires
  <2> HIDE DEF you
  <2> QED
    BY <2>1, <2>2, <1>a, OneLoginMoves DEF Signed
<1> QED
  BY <1>1, <1>2, <1>3, <1>4

\* What the goroutine does before it writes (completeLogin, upsertCredential).
LEMMA WorkKeepsOutcome ==
  ASSUME OutcomeInv, NEW l \in Logins,
         Poll(l) \/ Wake(l) \/ Exchange(l) \/ Match(l) \/ LastLook(l)
  PROVE  OutcomeInv'
<1>m. login[l] \in Session
  BY DEF OutcomeInv, OutcomeIsTrue, LoginTypeOK
<1>1. login[l].at \notin {"enter", "end"} /\ stored' = stored
  BY DEF Poll, Wake, Exchange, Match, LastLook, At
<1>a. login[l].at \in {"match", "look", "write"} => login[l].acc \in Accounts
  BY DEF OutcomeInv, Signed
<1>2. \/ login' = Failed(l)
      \/ \E step \in Steps \ {"enter"} :
           /\ Enters(l, step)
           /\ step \in {"match", "look", "write"} => login[l].acc \in Accounts
      \/ \E a \in Accounts :
           login' = [login EXCEPT ![l] = [login[l] EXCEPT !.at = "match", !.acc = a]]
      \/ \E r \in stored :
           /\ login' = [login EXCEPT ![l] = [login[l] EXCEPT !.at = "look", !.match = r.id]]
           /\ login[l].acc \in Accounts
  <2>e. {"sleep", "exchange", "poll"} \subseteq Steps \ {"enter", "match", "look", "write"}
    BY DEF Steps
  <2>1. CASE Poll(l)
    <3>1. login' = Failed(l) \/ Enters(l, "sleep") \/ Enters(l, "exchange")
      BY <2>1 DEF Poll
    <3> QED
      BY <2>e, <3>1
  <2>2. CASE Wake(l)
    <3>1. login' = Failed(l) \/ Enters(l, "poll")
      BY <2>2 DEF Wake
    <3> QED
      BY <2>e, <3>1
  <2>3. CASE Exchange(l)
    BY <2>3 DEF Exchange
  <2>4. CASE Match(l)
    BY <1>a, <2>4 DEF Match, Refused, RowsOf, Steps, At
  <2>5. CASE LastLook(l)
    BY <1>a, <2>5 DEF LastLook, Refused, Steps, At
  <2> QED
    BY <2>1, <2>2, <2>3, <2>4, <2>5
<1>3. ASSUME NEW a \in Accounts,
             login' = [login EXCEPT ![l] = [login[l] EXCEPT !.at = "match", !.acc = a]]
      PROVE  OutcomeInv'
  <2> DEFINE you == [login[l] EXCEPT !.at = "match", !.acc = a]
  <2>1. you \in Session /\ you.wrote = login[l].wrote
        /\ you.st = login[l].st /\ you.at = "match" /\ you.acc = a
    BY <1>m DEF Session, Steps
  <2>2. login' = [login EXCEPT ![l] = you]
    BY <1>3
  <2> HIDE DEF you
  <2> QED
    BY <1>1, <2>1, <2>2, OneLoginMoves
<1>4. ASSUME NEW r \in stored,
             login' = [login EXCEPT ![l] = [login[l] EXCEPT !.at = "look", !.match = r.id]],
             login[l].acc \in Accounts
      PROVE  OutcomeInv'
  <2> DEFINE you == [login[l] EXCEPT !.at = "look", !.match = r.id]
  <2>0. r.id \in Logins
    BY DEF OutcomeInv, OutcomeIsTrue, LoginTypeOK
  <2>1. you \in Session /\ you.wrote = login[l].wrote
        /\ you.st = login[l].st /\ you.at = "look"
        /\ you.acc = login[l].acc
    BY <1>m, <2>0 DEF Session, Steps
  <2>2. login' = [login EXCEPT ![l] = you]
    BY <1>4
  <2> HIDE DEF you
  <2> QED
    BY <1>1, <1>4, <2>1, <2>2, OneLoginMoves
<1> QED
  BY <1>1, <1>2, <1>3, <1>4, FailedIsTrue, GoesOn

\* The row a login writes has an id of its own or of the row it found, and
\* replaces that row.
LEMMA RowsStayApart ==
  ASSUME OutcomeInv, NEW l \in Logins, login[l].acc \in Accounts
  PROVE  /\ Written(l) \subseteq [id : Logins, acc : Accounts, by : Logins]
         /\ \A r, o \in Written(l) : r.id = o.id => r = o
<1> DEFINE row == [id |-> IF login[l].match = "none" THEN l ELSE login[l].match,
                   acc |-> login[l].acc, by |-> l]
<1>1. row \in [id : Logins, acc : Accounts, by : Logins]
  BY DEF OutcomeInv, OutcomeIsTrue, LoginTypeOK, Session
<1>2. Written(l) = {r \in stored : r.id # row.id} \cup {row}
  BY DEF Written
<1>3. /\ stored \subseteq [id : Logins, acc : Accounts, by : Logins]
      /\ \A r, o \in stored : r.id = o.id => r = o
  BY DEF OutcomeInv, OutcomeIsTrue, LoginTypeOK
<1> HIDE DEF row
<1> QED
  BY <1>1, <1>2, <1>3

\* The row is written, or it is not (SaveEndpointCredential,
\* UpdateEndpointCredential).
LEMMA UpsertKeepsOutcome ==
  ASSUME OutcomeInv, NEW l \in Logins, Upsert(l)
  PROVE  OutcomeInv'
<1>m. login[l] \in Session /\ login[l].at = "write"
  BY DEF OutcomeInv, OutcomeIsTrue, LoginTypeOK, Upsert, At
<1>1. CASE login' = Failed(l) /\ stored' = stored
  BY <1>m, <1>1, FailedIsTrue
<1>2. CASE /\ stored' = Written(l)
           /\ login' = [login EXCEPT ![l].at = "enter", ![l].wrote = TRUE]
  <2> DEFINE you == [login[l] EXCEPT !.at = "enter", !.wrote = TRUE]
  <2>1. you \in Session /\ you.wrote /\ you.at = "enter" /\ you.st = login[l].st
    BY <1>m DEF Session, Steps
  <2>2. login' = [login EXCEPT ![l] = you]
    BY <1>2
  <2>3. login[l].st \notin {"failed", "expired", "complete"}
    BY <1>m DEF OutcomeInv, WrittenLate
  <2>4. login[l].acc \in Accounts
    BY <1>m DEF OutcomeInv, Signed
  <2>5. /\ stored' \subseteq [id : Logins, acc : Accounts, by : Logins]
        /\ \A r, o \in stored' : r.id = o.id => r = o
    BY <1>2, <2>4, RowsStayApart
  <2> HIDE DEF you
  <2> QED
    BY <2>1, <2>2, <2>3, <2>5, OneLogin
<1> QED
  BY <1>1, <1>2 DEF Upsert

\* The end is entered under the lock (completeLogin).
LEMMA CompleteKeepsOutcome ==
  ASSUME OutcomeInv, NEW l \in Logins, Complete(l)
  PROVE  OutcomeInv'
<1>m. login[l] \in Session /\ login[l].at = "enter"
  BY DEF OutcomeInv, OutcomeIsTrue, LoginTypeOK, Complete, At
<1>w. login[l].wrote /\ login[l].st \notin {"failed", "expired", "complete"}
  BY <1>m DEF OutcomeInv, WrittenLate
<1>r. /\ stored' \subseteq [id : Logins, acc : Accounts, by : Logins]
      /\ \A r, o \in stored' : r.id = o.id => r = o
  BY DEF OutcomeInv, OutcomeIsTrue, LoginTypeOK, Complete
<1>1. CASE login[l].st = "pending"
  <2> DEFINE you == [login[l] EXCEPT !.at = "end", !.done = TRUE, !.st = "complete"]
  <2>1. you \in Session /\ you.wrote = login[l].wrote /\ you.at = "end" /\ you.st = "complete"
    BY <1>m DEF Session, Steps, Statuses
  <2>2. login' = [login EXCEPT ![l] = you]
    BY <1>1 DEF Complete
  <2> HIDE DEF you
  <2> QED
    BY <1>w, <1>r, <2>1, <2>2, OneLogin
<1>2. CASE login[l].st # "pending"
  <2> DEFINE you == [login[l] EXCEPT !.at = "end"]
  <2>1. you \in Session /\ you.wrote = login[l].wrote /\ you.at = "end" /\ you.st = login[l].st
    BY <1>m DEF Session, Steps
  <2>2. login' = [login EXCEPT ![l] = you]
    BY <1>2 DEF Complete
  <2> HIDE DEF you
  <2> QED
    BY <1>w, <1>r, <2>1, <2>2, OneLogin
<1> QED
  BY <1>1, <1>2

\* The manager is replaced: nothing of a session changes but who sees it.
LEMMA ForgettingKeepsOutcome ==
  ASSUME OutcomeInv, ForgetAll
  PROVE  OutcomeInv'
<1>1. ASSUME NEW l \in Logins
      PROVE  /\ login'[l] \in Session
             /\ login'[l].st = login[l].st /\ login'[l].at = login[l].at
             /\ login'[l].wrote = login[l].wrote /\ login'[l].acc = login[l].acc
  <2> DEFINE gone == login[l].lost \/ login[l].st # "none"
  <2>1. login'[l] = [login[l] EXCEPT !.lost = gone]
    BY DEF ForgetAll
  <2>2. login[l] \in Session
    BY DEF OutcomeInv, OutcomeIsTrue, LoginTypeOK
  <2>3. gone \in BOOLEAN
    OBVIOUS
  <2> HIDE DEF gone
  <2> QED
    BY <2>1, <2>2, <2>3 DEF Session
<1>2. DOMAIN login' = Logins /\ login' = [l \in Logins |-> login'[l]]
  BY DEF ForgetAll
<1>3. login' \in [Logins -> Session]
  BY <1>1, <1>2
<1>4. LoginTypeOK'
  BY <1>3 DEF OutcomeInv, OutcomeIsTrue, LoginTypeOK, ForgetAll
<1> QED
  BY <1>1, <1>4 DEF OutcomeInv, OutcomeIsTrue, WrittenLate, Signed

\* What a login ends with is true, whenever it is cancelled, runs out or fails
\* (completeLogin, failSession).
THEOREM OutcomeStaysTrue == LoginSpec => []OutcomeIsTrue
<1>1. LoginInit => OutcomeInv
  <2> SUFFICES ASSUME LoginInit PROVE OutcomeInv
    OBVIOUS
  <2>1. NoLogin \in Session
    BY DEF NoLogin, Session, Statuses, Steps
  <2>2. \A l \in Logins : login[l] = NoLogin
    BY DEF LoginInit
  <2>3. LoginTypeOK
    BY <2>1 DEF LoginInit, LoginTypeOK
  <2> QED
    BY <2>2, <2>3 DEF OutcomeInv, OutcomeIsTrue, WrittenLate, Signed, NoLogin
<1>2. OutcomeInv /\ [LoginNext]_loginVars => OutcomeInv'
  <2> SUFFICES ASSUME OutcomeInv, [LoginNext]_loginVars PROVE OutcomeInv'
    OBVIOUS
  <2>1. ASSUME NEW r \in stored, DeleteRow(r) PROVE OutcomeInv'
    BY <2>1 DEF DeleteRow, OutcomeInv, OutcomeIsTrue, LoginTypeOK, WrittenLate, Signed
  <2>2. CASE UNCHANGED loginVars
    BY <2>2 DEF loginVars, OutcomeInv, OutcomeIsTrue, LoginTypeOK, WrittenLate, Signed
  <2> QED
    BY <2>1, <2>2, OthersKeepOutcome, WorkKeepsOutcome, UpsertKeepsOutcome,
       CompleteKeepsOutcome, ForgettingKeepsOutcome DEF LoginNext, LoginRuns
<1>3. OutcomeInv => OutcomeIsTrue
  BY DEF OutcomeInv
<1> QED
  BY <1>1, <1>2, <1>3, PTL DEF LoginSpec

-----------------------------------------------------------------------------
(* Analysis jobs.  A goroutine that works on a job has it marked running,  *)
(* and a running job cannot be claimed: so the goroutine is the only one,  *)
(* and the attempts are not counted on while it holds results of one.      *)

\* What is worked on is marked running, by one goroutine (ClaimAIJob).
OneWorker ==
  /\ \A j \in Jobs : \A r, q \in Runners : Works(r, j) /\ Works(q, j) => r = q
  /\ \A j \in Jobs : \A r \in Runners : Works(r, j) => jobs[j].st = "running"

\* The findings and the report a job has are those of its last attempt.
Fresh(j) == /\ findings[j] = jobs[j].tries
            /\ j \in Monthly => report[j] = jobs[j].tries

\* A goroutine past a step of its work has left the results of that step: all
\* of them, when it is about to store a good end.
InHand(r) ==
  LET j == runner[r].job IN
  /\ runner[r].pc \in {"model", "report"} => findings[j] = jobs[j].tries
  /\ runner[r].pc = "store" /\ runner[r].st \in Done => Fresh(j)

Belongs(j) == jobs[j].st \in Done => Fresh(j)

JobsInv == /\ JobsTypeOK /\ OneWorker
           /\ \A r \in Runners : InHand(r)
           /\ \A j \in Jobs : Belongs(j)

\* A step of one goroutine that changes what is stored of one job keeps the
\* invariant, when nobody else works on that job or nothing of it is changed.
LEMMA OneRunner ==
  ASSUME JobsInv, NEW r \in Runners, NEW rec \in Runner, NEW j \in Jobs,
         runner' = [runner EXCEPT ![r] = rec],
         jobs' \in [Jobs -> Job],
         findings' \in [Jobs -> 0..MaxAttempts], report' \in [Jobs -> 0..MaxAttempts],
         serving' \in BOOLEAN, aiFaults' \in 0..MaxAIFaults,
         \A k \in Jobs \ {j} : jobs'[k] = jobs[k] /\ findings'[k] = findings[k]
                               /\ report'[k] = report[k],
         \/ \A q \in Runners \ {r} : ~Works(q, j)
         \/ jobs' = jobs /\ findings' = findings /\ report' = report,
         rec.pc \in AtWork => /\ rec.job = j /\ jobs'[j].st = "running"
                             /\ \A q \in Runners \ {r} : ~Works(q, j),
         InHand(r)', Belongs(j)'
  PROVE  JobsInv'
<1>1. \A q \in Runners : runner'[q] = IF q = r THEN rec ELSE runner[q]
  BY DEF JobsInv, JobsTypeOK
<1>2. JobsTypeOK'
  BY DEF JobsInv, JobsTypeOK
<1>3. \A q \in Runners \ {r} : \A k \in Jobs :
        /\ Works(q, k)' <=> Works(q, k)
        /\ Works(q, k) => jobs'[k] = jobs[k] /\ findings'[k] = findings[k]
                         /\ report'[k] = report[k]
  BY <1>1 DEF Works
<1>4. \A k \in Jobs : Works(r, k)' => /\ k = j /\ jobs'[j].st = "running"
                                     /\ \A q \in Runners \ {r} : ~Works(q, j)
  BY <1>1 DEF Works
<1>5. OneWorker'
  <2>1. \A k \in Jobs : \A p, q \in Runners : Works(p, k)' /\ Works(q, k)' => p = q
    BY <1>3, <1>4 DEF JobsInv, OneWorker
  <2>2. \A k \in Jobs : \A q \in Runners : Works(q, k)' => jobs'[k].st = "running"
    BY <1>3, <1>4 DEF JobsInv, OneWorker
  <2> QED
    BY <2>1, <2>2 DEF OneWorker
<1>6. ASSUME NEW q \in Runners \ {r} PROVE InHand(q)'
  <2>1. runner'[q] = runner[q] /\ InHand(q) /\ runner[q].job \in Jobs
    BY <1>1 DEF JobsInv, JobsTypeOK, Runner
  <2>2. CASE runner[q].pc \in AtWork
    BY <1>3, <2>1, <2>2 DEF InHand, Fresh, Works
  <2>3. CASE runner[q].pc \notin AtWork
    BY <2>1, <2>3 DEF InHand, AtWork
  <2> QED
    BY <2>2, <2>3
<1>7. ASSUME NEW k \in Jobs \ {j} PROVE Belongs(k)'
  BY DEF JobsInv, Belongs, Fresh
<1> QED
  BY <1>2, <1>5, <1>6, <1>7 DEF JobsInv

\* Who works on a job works on it alone.
LEMMA WorksAlone ==
  ASSUME JobsInv, NEW r \in Runners, runner[r].pc \in AtWork
  PROVE  /\ runner[r].job \in Jobs /\ jobs[runner[r].job].st = "running"
         /\ \A q \in Runners \ {r} : ~Works(q, runner[r].job)
<1>1. runner[r].job \in Jobs /\ Works(r, runner[r].job)
  BY DEF JobsInv, JobsTypeOK, Runner, Works
<1> QED
  BY <1>1 DEF JobsInv, OneWorker

\* A goroutine that stores nothing keeps the invariant: what it works on it
\* worked on before, and what it is to hold it holds.
LEMMA NothingStored ==
  ASSUME JobsInv, NEW r \in Runners, NEW rec \in Runner,
         Goes(r, rec), UNCHANGED <<jobs, findings, report, serving>>,
         aiFaults' \in 0..MaxAIFaults,
         rec.pc \in AtWork => runner[r].pc \in AtWork /\ rec.job = runner[r].job,
         rec.pc \in {"model", "report"} => findings[rec.job] = jobs[rec.job].tries,
         rec.pc = "store" /\ rec.st \in Done => Fresh(rec.job)
  PROVE  JobsInv'
<1>1. runner' = [runner EXCEPT ![r] = rec] /\ runner'[r] = rec
  BY DEF Goes, JobsInv, JobsTypeOK
<1>2. InHand(r)'
  BY <1>1 DEF InHand, Fresh
<1>3. rec.job \in Jobs
  BY DEF Runner
<1>4. Belongs(rec.job)'
  BY <1>3 DEF JobsInv, Belongs, Fresh
<1>5. rec.pc \in AtWork => /\ jobs'[rec.job].st = "running"
                          /\ \A q \in Runners \ {r} : ~Works(q, rec.job)
  BY WorksAlone
<1>6. /\ jobs' \in [Jobs -> Job] /\ serving' \in BOOLEAN
      /\ findings' \in [Jobs -> 0..MaxAttempts] /\ report' \in [Jobs -> 0..MaxAttempts]
  BY DEF JobsInv, JobsTypeOK
<1> QED
  BY <1>1, <1>2, <1>3, <1>4, <1>5, <1>6, OneRunner

\* A goroutine that comes to rest holds nothing.
LEMMA FreeIsRunner == Free \in Runner /\ Free.pc = "rest"
  BY JobsAssumption DEF Free, Runner, Jobs

\* Faults are counted up to their bound.
LEMMA FaultsCounted ==
  ASSUME JobsInv, Fine \/ Fault
  PROVE  aiFaults' \in 0..MaxAIFaults
BY JobsAssumption DEF JobsInv, JobsTypeOK, Fine, Fault

\* What happens before a job is claimed (handleAIJobs, RunAIScheduler,
\* queueAIJob, CreateAIJob).
LEMMA AskingKeepsResults ==
  ASSUME JobsInv, NEW r \in Runners,
         (\E j \in Jobs : Ask(r, j)) \/ Find(r) \/ Create(r)
  PROVE  JobsInv'
<1>m. runner[r] \in Runner
  BY DEF JobsInv, JobsTypeOK
<1>f. aiFaults' \in 0..MaxAIFaults
  BY FaultsCounted DEF Ask, Find, Create
<1>1. ASSUME NEW j \in Jobs, Ask(r, j) PROVE JobsInv'
  <2> DEFINE rec == [pc |-> "find", job |-> j, st |-> "none"]
  <2>1. rec \in Runner /\ rec.pc \notin AtWork
    BY DEF Runner, AtWork
  <2>2. Goes(r, rec) /\ UNCHANGED <<jobs, findings, report, serving>>
    BY <1>1 DEF Ask, OnlyRunner
  <2> HIDE DEF rec
  <2> QED
    BY <1>f, <2>1, <2>2, NothingStored DEF AtWork
<1>2. ASSUME NEW step \in {"create", "claim"}, To(r, step),
             UNCHANGED <<jobs, findings, report, serving>>
      PROVE  JobsInv'
  <2> DEFINE rec == [runner[r] EXCEPT !.pc = step]
  <2>1. rec \in Runner /\ rec.pc \notin AtWork
    BY <1>m DEF Runner, AtWork
  <2>2. Goes(r, rec)
    BY <1>2 DEF To
  <2> HIDE DEF rec
  <2> QED
    BY <1>f, <1>2, <2>1, <2>2, NothingStored DEF AtWork
<1>3. ASSUME Goes(r, Free), UNCHANGED <<jobs, findings, report, serving>>
      PROVE  JobsInv'
  BY <1>f, <1>3, FreeIsRunner, NothingStored DEF AtWork
<1>4. CASE Find(r)
  BY <1>2, <1>3, <1>4 DEF Find, Take, OnlyRunner
<1>5. CASE Create(r)
  <2>j. PICK j \in Jobs : j = runner[r].job
    BY <1>m DEF Runner
  <2>1. CASE UNCHANGED jobs
    BY <1>2, <1>3, <1>5, <2>1 DEF Create, Take
  <2>2. CASE /\ jobs[j].st = "none"
             /\ jobs' = [jobs EXCEPT ![j].st = "queued"]
             /\ To(r, "claim")
    <3> DEFINE rec == [runner[r] EXCEPT !.pc = "claim"]
    <3>1. rec \in Runner /\ rec.pc \notin AtWork
      BY <1>m DEF Runner, AtWork
    <3>2. runner' = [runner EXCEPT ![r] = rec] /\ runner'[r] = rec
      BY <2>2 DEF To, Goes, JobsInv, JobsTypeOK
    <3>3. /\ jobs' \in [Jobs -> Job] /\ jobs'[j].st = "queued"
          /\ \A k \in Jobs \ {j} : jobs'[k] = jobs[k]
      BY <2>2, <3>1 DEF JobsInv, JobsTypeOK, Job, Active
    <3>4. \A q \in Runners : ~Works(q, j)
      BY <2>2, <3>1 DEF JobsInv, OneWorker
    <3>5. /\ findings' = findings /\ report' = report /\ serving' = serving
          /\ findings \in [Jobs -> 0..MaxAttempts] /\ report \in [Jobs -> 0..MaxAttempts]
          /\ serving \in BOOLEAN
      BY <1>5 DEF Create, JobsInv, JobsTypeOK
    <3>6. InHand(r)'
      BY <3>1, <3>2 DEF InHand, AtWork
    <3>7. Belongs(j)'
      BY <3>3 DEF Belongs, Done
    <3> HIDE DEF rec
    <3> QED
      BY <1>f, <3>1, <3>2, <3>3, <3>4, <3>5, <3>6, <3>7, OneRunner
  <2> QED
    BY <1>5, <2>j, <2>1, <2>2 DEF Create
<1> QED
  BY <1>1, <1>4, <1>5

\* A job is claimed: nobody works on it, for it is not running (ClaimAIJob).
LEMMA ClaimKeepsResults ==
  ASSUME JobsInv, NEW r \in Runners, Claim(r)
  PROVE  JobsInv'
<1>m. runner[r] \in Runner
  BY DEF JobsInv, JobsTypeOK
<1>f. aiFaults' \in 0..MaxAIFaults
  BY FaultsCounted DEF Claim
<1>j. PICK j \in Jobs : j = runner[r].job
  BY <1>m DEF Runner
<1>1. CASE Goes(r, Free) /\ UNCHANGED jobs
  BY <1>f, <1>1, FreeIsRunner, NothingStored DEF Claim, AtWork
<1>2. ASSUME Claimable(jobs[j]), NEW rec \in Runner, Goes(r, rec),
             jobs' = [jobs EXCEPT ![j] = [st |-> "running", tries |-> jobs[j].tries + 1]],
             \/ rec = Free
             \/ rec.pc = "analyse" /\ rec.job = j
      PROVE  JobsInv'
  <2>1. runner' = [runner EXCEPT ![r] = rec] /\ runner'[r] = rec
    BY <1>2 DEF Goes, JobsInv, JobsTypeOK
  <2>2. jobs[j] \in Job /\ jobs[j].st # "running" /\ jobs[j].tries < MaxAttempts
    BY <1>2 DEF Claimable, JobsInv, JobsTypeOK
  <2>3. [st |-> "running", tries |-> jobs[j].tries + 1] \in Job
    BY <2>2, JobsAssumption DEF Job, Active
  <2>4. /\ jobs' \in [Jobs -> Job] /\ jobs'[j].st = "running"
        /\ \A k \in Jobs \ {j} : jobs'[k] = jobs[k]
    BY <1>2, <2>3 DEF JobsInv, JobsTypeOK
  <2>5. \A q \in Runners : ~Works(q, j)
    BY <2>2 DEF JobsInv, OneWorker
  <2>6. /\ findings' = findings /\ report' = report /\ serving' = serving
        /\ findings \in [Jobs -> 0..MaxAttempts] /\ report \in [Jobs -> 0..MaxAttempts]
        /\ serving \in BOOLEAN
    BY DEF Claim, JobsInv, JobsTypeOK
  <2>7. InHand(r)'
    BY <1>2, <2>1, FreeIsRunner DEF InHand
  <2>8. Belongs(j)'
    BY <2>4 DEF Belongs, Done
  <2>9. rec.pc \in AtWork => rec.job = j
    BY <1>2, FreeIsRunner DEF AtWork
  <2> QED
    BY <1>f, <2>1, <2>4, <2>5, <2>6, <2>7, <2>8, <2>9, OneRunner
<1>3. CASE /\ Claimable(jobs[j])
           /\ jobs' = [jobs EXCEPT ![j] = [st |-> "running", tries |-> jobs[j].tries + 1]]
           /\ To(r, "analyse") \/ Goes(r, Free)
  <2> DEFINE rec == [runner[r] EXCEPT !.pc = "analyse"]
  <2>1. rec \in Runner /\ rec.pc = "analyse" /\ rec.job = j
    BY <1>m, <1>j DEF Runner, AtWork
  <2>2. To(r, "analyse") => Goes(r, rec)
    BY DEF To
  <2> HIDE DEF rec
  <2> QED
    BY <1>2, <1>3, <2>1, <2>2, FreeIsRunner
<1> QED
  BY <1>j, <1>1, <1>3 DEF Claim

\* The work itself stores nothing but findings and a report, and those with
\* the attempt that is under way (RunAIJob, ReplaceAIFindings, SaveAIReport).
LEMMA WorkKeepsResults ==
  ASSUME JobsInv, NEW r \in Runners,
         Analyse(r) \/ Replace(r) \/ AskModel(r) \/ Save(r)
  PROVE  JobsInv'
<1>m. runner[r] \in Runner /\ InHand(r) /\ runner[r].pc \in AtWork
  BY DEF JobsInv, JobsTypeOK, Analyse, Replace, AskModel, Save, AtWork
<1>f. aiFaults' \in 0..MaxAIFaults
  BY FaultsCounted DEF Analyse, Replace, AskModel, Save
<1>j. PICK j \in Jobs : j = runner[r].job
  BY <1>m DEF Runner
<1>1. ASSUME GivesUp(r), UNCHANGED <<jobs, findings, report, serving>>
      PROVE  JobsInv'
  <2> DEFINE rec == [runner[r] EXCEPT !.pc = "store", !.st = "failed"]
  <2>1. rec \in Runner /\ rec.pc = "store" /\ rec.st \notin Done /\ rec.job = j
    BY <1>m, <1>j DEF Runner, AtWork, Done
  <2>2. Goes(r, rec)
    BY <1>1 DEF GivesUp
  <2> HIDE DEF rec
  <2> QED
    BY <1>m, <1>f, <1>j, <1>1, <2>1, <2>2, NothingStored
<1>2. ASSUME Analyse(r) PROVE JobsInv'
  <2> DEFINE rec == [runner[r] EXCEPT !.pc = "findings"]
  <2>1. rec \in Runner /\ rec.pc = "findings" /\ rec.job = j
    BY <1>m, <1>j DEF Runner, AtWork
  <2>2. Goes(r, rec) \/ GivesUp(r)
    BY <1>2 DEF Analyse, To
  <2>3. UNCHANGED <<jobs, findings, report, serving>>
    BY <1>2 DEF Analyse, OnlyRunner
  <2> HIDE DEF rec
  <2> QED
    BY <1>m, <1>f, <1>j, <1>1, <2>1, <2>2, <2>3, NothingStored
<1>3. ASSUME AskModel(r) PROVE JobsInv'
  <2>1. PICK st \in Done \cup {"failed"} :
          Goes(r, [runner[r] EXCEPT
                     !.pc = IF runner[r].job \in Monthly THEN "report" ELSE "store",
                     !.st = st])
    BY <1>3 DEF AskModel
  <2> DEFINE rec == [runner[r] EXCEPT
                       !.pc = IF runner[r].job \in Monthly THEN "report" ELSE "store",
                       !.st = st]
  <2>2. /\ rec \in Runner /\ rec.pc \in AtWork /\ rec.job = j
        /\ rec.pc = IF j \in Monthly THEN "report" ELSE "store"
    BY <1>m, <1>j DEF Runner, AtWork
  <2>3. findings[j] = jobs[j].tries
    BY <1>j, <1>m, <1>3 DEF InHand, AskModel
  <2>4. UNCHANGED <<jobs, findings, report, serving>>
    BY <1>3 DEF AskModel, OnlyRunner
  <2>5. Goes(r, rec)
    BY <2>1
  <2>6. rec.pc = "store" => Fresh(rec.job)
    BY <2>2, <2>3 DEF Fresh
  <2> HIDE DEF rec
  <2> QED
    BY <1>m, <1>f, <1>j, <2>2, <2>3, <2>4, <2>5, <2>6, NothingStored
<1>s. jobs[j] \in Job /\ jobs[j].st = "running" /\ \A q \in Runners \ {r} : ~Works(q, j)
  BY <1>m, <1>j, WorksAlone DEF JobsInv, JobsTypeOK
<1>4. ASSUME runner[r].pc = "findings", To(r, "model"),
             findings' = [findings EXCEPT ![j] = jobs[j].tries],
             UNCHANGED <<jobs, report, serving>>
      PROVE  JobsInv'
  <2> DEFINE rec == [runner[r] EXCEPT !.pc = "model"]
  <2>1. rec \in Runner /\ rec.pc = "model" /\ rec.job = j
    BY <1>m, <1>j DEF Runner, AtWork
  <2>2. runner' = [runner EXCEPT ![r] = rec]
    BY <1>4 DEF To, Goes
  <2> HIDE DEF rec
  <2>3. runner'[r] = rec
    BY <2>2 DEF JobsInv, JobsTypeOK
  <2>5. /\ findings' \in [Jobs -> 0..MaxAttempts] /\ findings'[j] = jobs[j].tries
        /\ \A k \in Jobs \ {j} : findings'[k] = findings[k]
    BY <1>s, <1>4 DEF JobsInv, JobsTypeOK, Job
  <2>6. /\ jobs' = jobs /\ report' = report /\ serving' = serving
        /\ jobs \in [Jobs -> Job] /\ report \in [Jobs -> 0..MaxAttempts]
        /\ serving \in BOOLEAN
    BY <1>4 DEF JobsInv, JobsTypeOK
  <2>7. InHand(r)'
    BY <2>1, <2>3, <2>5, <2>6 DEF InHand
  <2>8. Belongs(j)'
    BY <1>s, <2>6 DEF Belongs, Done
  <2> QED
    BY <1>f, <1>s, <2>1, <2>2, <2>5, <2>6, <2>7, <2>8, OneRunner
<1>5. ASSUME runner[r].pc = "report", To(r, "store"),
             report' = [report EXCEPT ![j] = jobs[j].tries],
             UNCHANGED <<jobs, findings, serving>>
      PROVE  JobsInv'
  <2> DEFINE rec == [runner[r] EXCEPT !.pc = "store"]
  <2>1. rec \in Runner /\ rec.pc = "store" /\ rec.job = j
    BY <1>m, <1>j DEF Runner, AtWork
  <2>2. runner' = [runner EXCEPT ![r] = rec]
    BY <1>5 DEF To, Goes
  <2> HIDE DEF rec
  <2>3. runner'[r] = rec
    BY <2>2 DEF JobsInv, JobsTypeOK
  <2>5. /\ report' \in [Jobs -> 0..MaxAttempts] /\ report'[j] = jobs[j].tries
        /\ \A k \in Jobs \ {j} : report'[k] = report[k]
    BY <1>s, <1>5 DEF JobsInv, JobsTypeOK, Job
  <2>6. /\ jobs' = jobs /\ findings' = findings /\ serving' = serving
        /\ jobs \in [Jobs -> Job] /\ findings \in [Jobs -> 0..MaxAttempts]
        /\ serving \in BOOLEAN
    BY <1>5 DEF JobsInv, JobsTypeOK
  <2>7. findings[j] = jobs[j].tries
    BY <1>j, <1>m, <1>5 DEF InHand
  <2>8. InHand(r)'
    BY <2>1, <2>3, <2>5, <2>6, <2>7 DEF InHand, Fresh
  <2>9. Belongs(j)'
    BY <1>s, <2>6 DEF Belongs, Done
  <2> QED
    BY <1>f, <1>s, <2>1, <2>2, <2>5, <2>6, <2>8, <2>9, OneRunner
<1>6. CASE Replace(r)
  BY <1>j, <1>1, <1>4, <1>6 DEF Replace
<1>7. CASE Save(r)
  BY <1>j, <1>1, <1>5, <1>7 DEF Save
<1> QED
  BY <1>2, <1>3, <1>6, <1>7

\* The goroutine's copy of the row is stored, its attempts are those of the
\* row (UpdateAIJob).
LEMMA FinishKeepsResults ==
  ASSUME JobsInv, NEW r \in Runners, Finish(r)
  PROVE  JobsInv'
<1>m. runner[r] \in Runner /\ InHand(r) /\ runner[r].pc = "store"
  BY DEF JobsInv, JobsTypeOK, Finish
<1>f. aiFaults' \in 0..MaxAIFaults
  BY FaultsCounted DEF Finish
<1>j. PICK j \in Jobs : j = runner[r].job
  BY <1>m DEF Runner
<1>s. jobs[j] \in Job /\ jobs[j].st = "running" /\ \A q \in Runners \ {r} : ~Works(q, j)
  BY <1>m, <1>j, WorksAlone DEF JobsInv, JobsTypeOK, AtWork
<1>1. Goes(r, Free) /\ runner' = [runner EXCEPT ![r] = Free] /\ runner'[r] = Free
  BY DEF Finish, Goes, JobsInv, JobsTypeOK
<1>2. CASE UNCHANGED jobs
  BY <1>f, <1>1, <1>2, FreeIsRunner, NothingStored DEF Finish, AtWork
<1>3. CASE jobs' = [jobs EXCEPT ![j].st = runner[r].st]
  <2>1. /\ jobs' \in [Jobs -> Job] /\ jobs'[j].st = runner[r].st
        /\ jobs'[j].tries = jobs[j].tries
        /\ \A k \in Jobs \ {j} : jobs'[k] = jobs[k]
    BY <1>m, <1>s, <1>3 DEF JobsInv, JobsTypeOK, Job, Runner
  <2>2. /\ findings' = findings /\ report' = report /\ serving' = serving
        /\ findings \in [Jobs -> 0..MaxAttempts] /\ report \in [Jobs -> 0..MaxAttempts]
        /\ serving \in BOOLEAN
    BY DEF Finish, JobsInv, JobsTypeOK
  <2>3. Belongs(j)'
    BY <1>m, <1>j, <2>1, <2>2 DEF InHand, Belongs, Fresh
  <2>4. InHand(r)'
    BY <1>1, FreeIsRunner DEF InHand
  <2> QED
    BY <1>f, <1>1, <1>s, <2>1, <2>2, <2>3, <2>4, FreeIsRunner, OneRunner DEF AtWork
<1> QED
  BY <1>j, <1>2, <1>3 DEF Finish

\* The program starts, or ends and leaves its rows as they are.
LEMMA RestartKeepsResults ==
  ASSUME JobsInv, Boot \/ Crash
  PROVE  JobsInv'
<1>1. CASE Boot
  BY <1>1 DEF Boot, JobsInv, JobsTypeOK, OneWorker, Works, InHand, Belongs, Fresh
<1>2. CASE Crash
  <2>1. \A r \in Runners : runner'[r] = Free
    BY <1>2 DEF Crash
  <2>2. \A r \in Runners : InHand(r)' /\ \A j \in Jobs : ~Works(r, j)'
    BY <2>1, FreeIsRunner DEF InHand, Works, AtWork
  <2>3. aiFaults' \in 0..MaxAIFaults
    BY <1>2, FaultsCounted DEF Crash
  <2>4. JobsTypeOK'
    BY <1>2, <2>3, FreeIsRunner DEF Crash, JobsInv, JobsTypeOK
  <2> QED
    BY <1>2, <2>2, <2>4 DEF Crash, JobsInv, OneWorker, Belongs, Fresh
<1> QED
  BY <1>1, <1>2

\* One goroutine works on a job, and a job that has ended holds the findings
\* and the report of the attempt that ended it, whoever asks for it how often
\* and whatever fails (ClaimAIJob, RunAIJob).
THEOREM ResultsAlwaysBelong == JobsSpec => []ResultsBelong
<1>1. JobsInit => JobsInv
  <2> SUFFICES ASSUME JobsInit PROVE JobsInv
    OBVIOUS
  <2>1. Unasked \in Job /\ Unasked.st = "none"
    BY JobsAssumption DEF Unasked, Job
  <2>2. JobsTypeOK
    <3>1. 0 \in 0..MaxAttempts /\ 0 \in 0..MaxAIFaults
      BY JobsAssumption
    <3>2. /\ jobs \in [Jobs -> Job] /\ runner \in [Runners -> Runner]
          /\ findings \in [Jobs -> 0..MaxAttempts] /\ report \in [Jobs -> 0..MaxAttempts]
      BY <2>1, <3>1, FreeIsRunner DEF JobsInit
    <3> QED
      BY <3>1, <3>2 DEF JobsInit, JobsTypeOK
  <2>3. \A r \in Runners : runner[r] = Free
    BY DEF JobsInit
  <2>4. \A j \in Jobs : jobs[j].st = "none"
    BY <2>1 DEF JobsInit
  <2> QED
    BY <2>2, <2>3, <2>4, FreeIsRunner
       DEF JobsInv, OneWorker, Works, AtWork, InHand, Belongs, Done
<1>2. JobsInv /\ [JobsNext]_aiVars => JobsInv'
  <2> SUFFICES ASSUME JobsInv, [JobsNext]_aiVars PROVE JobsInv'
    OBVIOUS
  <2>1. CASE UNCHANGED aiVars
    BY <2>1 DEF aiVars, JobsInv, JobsTypeOK, OneWorker, Works, InHand, Belongs, Fresh
  <2> QED
    BY <2>1, AskingKeepsResults, ClaimKeepsResults, WorkKeepsResults,
       FinishKeepsResults, RestartKeepsResults DEF JobsNext, Step, RunAIJob
<1>3. JobsInv => ResultsBelong
  BY DEF JobsInv, ResultsBelong, OneWorker, Belongs, Fresh
<1> QED
  BY <1>1, <1>2, <1>3, PTL DEF JobsSpec

-----------------------------------------------------------------------------
(* Sets of naturals: the quotas are compared by the first and last of such  *)
(* sets, which CHOOSE gives only when they exist.                           *)

\* Min is the least member there is.
LEMMA MinIs ==
  ASSUME NEW S, S \subseteq Nat, NEW x \in S, \A y \in S : x <= y
  PROVE  Min(S) = x
<1>1. Min(S) \in S /\ \A y \in S : Min(S) <= y
  BY DEF Min
<1>2. Min(S) \in Nat /\ x \in Nat /\ Min(S) <= x /\ x <= Min(S)
  BY <1>1
<1> QED
  BY <1>2

LEMMA MinOf ==
  ASSUME NEW S, S \subseteq Nat, S # {}
  PROVE  Min(S) \in S /\ \A y \in S : Min(S) <= y
BY LeastMember DEF Min

\* Max is the greatest member of a set with a bound.
LEMMA MaxOf ==
  ASSUME NEW S, S \subseteq Nat, S # {}, NEW n \in Nat, \A y \in S : y <= n
  PROVE  Max(S) \in S /\ \A y \in S : y <= Max(S)
<1> DEFINE Above == {k \in Nat : \A y \in S : y <= k}
<1>1. PICK k \in Above : \A l \in Above : k <= l
  <2>1. Above \subseteq Nat /\ n \in Above
    OBVIOUS
  <2> HIDE DEF Above
  <2> QED
    BY <2>1, LeastMember
<1>2. k \in S
  <2> SUFFICES ASSUME k \notin S PROVE FALSE
    OBVIOUS
  <2>1. \A y \in S : y < k
    BY <1>1
  <2>2. k - 1 \in Above
    <3>1. PICK y \in S : y < k
      BY <2>1
    <3>2. k - 1 \in Nat
      BY <3>1
    <3>3. \A z \in S : z \in Nat /\ z <= k - 1
      BY <2>1, <3>2
    <3> QED
      BY <3>2, <3>3
  <2> QED
    BY <1>1, <2>2
<1>3. \A y \in S : k >= y
  BY <1>1
<1>4. Max(S) \in S /\ \A y \in S : Max(S) >= y
  BY <1>2, <1>3 DEF Max
<1> QED
  BY <1>4

\* A finite set of naturals has a bound: a smallest one without would have
\* one without any of its members.
LEMMA FiniteIsBounded ==
  ASSUME NEW S, S \subseteq Nat, IsFiniteSet(S)
  PROVE  \E n \in Nat : \A y \in S : y <= n
<1> DEFINE Bounded(T) == \E n \in Nat : \A y \in T : y <= n
           Bad == {T \in FiniteSubsetsOf(Nat) : ~Bounded(T)}
<1> SUFFICES ASSUME ~Bounded(S) PROVE FALSE
  OBVIOUS
<1>1. Bad \subseteq FiniteSubsetsOf(Nat) /\ Bad # {}
  <2>1. S \in Bad
    BY DEF FiniteSubsetsOf
  <2> QED
    BY <2>1
<1>2. PICK T \in Bad : \A U \in Bad : <<U, T>> \notin StrictSubsetOrdering(Nat)
  <2> HIDE DEF Bad
  <2> QED
    BY <1>1, FS_StrictSubsetOrderingWellFounded, WFMin
<1>3. T \subseteq Nat /\ IsFiniteSet(T) /\ ~Bounded(T)
  BY DEF FiniteSubsetsOf
<1>4. PICK x : x \in T
  <2>1. Bounded({})
    OBVIOUS
  <2> QED
    BY <1>3, <2>1
<1>5. IsFiniteSet(T \ {x}) /\ T \ {x} \subseteq Nat
  BY <1>3, FS_RemoveElement
<1>6. Bounded(T \ {x})
  <2> SUFFICES ASSUME ~Bounded(T \ {x}) PROVE FALSE
    OBVIOUS
  <2>1. T \ {x} \in Bad
    BY <1>5 DEF FiniteSubsetsOf
  <2>2. T \ {x} \subseteq T /\ T \ {x} # T
    BY <1>4
  <2>3. <<T \ {x}, T>> \in StrictSubsetOrdering(Nat)
    BY <2>2, <1>3, <1>5 DEF StrictSubsetOrdering
  <2> QED
    BY <1>2, <2>1, <2>3
<1>7. PICK n \in Nat : \A y \in T \ {x} : y <= n
  BY <1>6
<1>8. x \in Nat
  BY <1>3, <1>4
<1>9. n + x \in Nat /\ \A y \in T : y <= n + x
  BY <1>7, <1>8, <1>3
<1> QED
  BY <1>9, <1>3

\* What a function that tells its arguments apart gives is as many.
LEMMA ImageAsMany ==
  ASSUME NEW S, IsFiniteSet(S), NEW f, DOMAIN f = S,
         \A x, y \in S : f[x] = f[y] => x = y
  PROVE  LET T == {f[x] : x \in S} IN IsFiniteSet(T) /\ Cardinality(T) = Cardinality(S)
<1> DEFINE T == {f[x] : x \in S}
           g == [x \in S |-> f[x]]
<1>1. g \in [S -> T]
  OBVIOUS
<1>2. g \in Injection(S, T)
  BY <1>1 DEF Injection, IsInjective
<1>3. g \in Surjection(S, T)
  BY <1>1 DEF Surjection
<1>4. ExistsBijection(S, T)
  BY <1>2, <1>3 DEF ExistsBijection, Bijection
<1> QED
  BY <1>4, FS_Bijection

\* A finite set made into a sequence: as long as the set is large.
LEMMA SeqOfSet ==
  ASSUME NEW S, IsFiniteSet(S)
  PROVE  SetToSeq(S) \in Seq(S) /\ Len(SetToSeq(S)) = Cardinality(S) /\ Cardinality(S) \in Nat
<1>1. Cardinality(S) \in Nat /\ ExistsBijection(1..Cardinality(S), S)
  BY FS_CardinalityType
<1>2. PICK f : f \in Bijection(1..Cardinality(S), S)
  BY <1>1 DEF ExistsBijection
<1>3. f \in [1..Cardinality(S) -> S] /\ IsInjective(f)
  BY <1>2 DEF Bijection, Injection, IsInjective
<1>4. SetToSeq(S) \in [1..Cardinality(S) -> S]
  BY <1>3 DEF SetToSeq
<1> QED
  BY <1>1, <1>4

-----------------------------------------------------------------------------
(* Quotas.  The inductive invariant ties each row to the last data stored,  *)
(* a call's counters to what it has still to do, and a reset credit taken   *)
(* to the answer; a reset lies within the longest window from the clock.    *)

LastPossible == MaxClock + Max({Lengths[w] : w \in QuotaWindows})
WindowMaps == [QuotaWindows -> [full : BOOLEAN, resets : 0..LastPossible]]
QuotaValues == [windows : WindowMaps, credits : BOOLEAN]
QuotaData == [windows : WindowMaps, credits : BOOLEAN, of : {"nothing", "codex", "other"}]
Told == {d \in QuotaData : d.of # "nothing"}
Loaded == [cred : Creds, enabled : BOOLEAN]

FetchRecords ==
  [pc : {"rest", "next", "ask", "refresh", "store", "told"}, todo : Seq(Loaded),
   retrying : BOOLEAN, answer : {"", "ok", "unauthorized", "failed"},
   data : QuotaData, loaded : Nat, updated : Nat, failed : Nat, skipped : Nat]
RedeemRecords ==
  [pc : {"rest", "ask", "answered", "told"}, cred : Creds \cup {""}, again : BOOLEAN,
   answer : {"", "ok", "unauthorized", "error", "network"}, taken : Nat]

QuotaTypes ==
  /\ clock \in 0..MaxClock
  /\ quota \in [Creds -> QuotaValues]
  /\ vouchers \in [Creds -> Nat]
  /\ account \in [Creds -> {"enabled", "disabled", "deleted"}]
  /\ token \in [Creds -> {"good", "stale", "dead"}]
  /\ known \in [Creds -> [data : QuotaData, status : {"", "ok", "unauthorized", "failed"}]]
  /\ good \in [Creds -> QuotaData]
  /\ onWay \subseteq [cred : Creds, data : Told]
  /\ fetch \in FetchRecords
  /\ redeem \in RedeemRecords

RowsKept == \A c \in Creds : known[c].data = good[c] /\ (known[c].status = "ok" => good[c] # NoData)

FetchCounts ==
  /\ fetch.pc # "rest" => fetch.updated + fetch.failed + fetch.skipped + Len(fetch.todo) = fetch.loaded
  /\ fetch.pc \in {"ask", "refresh", "store"} => fetch.todo # <<>>
  /\ fetch.pc = "told" => fetch.todo = <<>>
  /\ fetch.pc = "store" => fetch.answer # "" /\ (fetch.answer = "ok" => fetch.data \in Told)
  /\ fetch.pc = "refresh" => fetch.answer = "unauthorized"

\* An answer that was not a refusal of the token is the last.
RedeemCounts ==
  /\ redeem.pc # "rest" => redeem.cred \in Creds
  /\ redeem.pc \in {"rest", "ask"} => redeem.taken = 0
  /\ redeem.taken <= 1
  /\ redeem.pc \in {"answered", "told"} =>
       /\ redeem.answer = "ok" => redeem.taken = 1
       /\ redeem.answer \in {"unauthorized", "error"} => redeem.taken = 0

QuotaInv == QuotaTypes /\ RowsKept /\ FetchCounts /\ RedeemCounts

LEMMA LengthsTyped ==
  /\ LastPossible \in Nat /\ MaxClock \in Nat /\ Vouchers \in Nat
  /\ \A w \in QuotaWindows, t \in 0..MaxClock : t + Lengths[w] \in 0..LastPossible
<1> DEFINE lengths == {Lengths[w] : w \in QuotaWindows}
<1>1. lengths \subseteq Nat /\ lengths # {} /\ MaxClock \in Nat /\ Vouchers \in Nat
  BY QuotaAssumption DEF QuotaWindows
<1>2. IsFiniteSet(lengths)
  <2> DEFINE f == [w \in QuotaWindows |-> Lengths[w]]
  <2>1. f \in Surjection(QuotaWindows, lengths)
    BY DEF Surjection
  <2> HIDE DEF f, lengths
  <2> QED
    BY <2>1, QuotaAssumption, FS_Surjection DEF QuotaWindows
<1>3. PICK n \in Nat : \A l \in lengths : l <= n
  <2> HIDE DEF lengths
  <2> QED
    BY <1>1, <1>2, FiniteIsBounded
<1>4. Max(lengths) \in lengths /\ \A l \in lengths : l <= Max(lengths)
  <2> HIDE DEF lengths
  <2> QED
    BY <1>1, <1>3, MaxOf
<1>5. \A w \in QuotaWindows : Lengths[w] \in lengths
  OBVIOUS
<1>6. LastPossible = MaxClock + Max(lengths)
  BY DEF LastPossible
<1> HIDE DEF lengths
<1>7. Max(lengths) \in Nat
  BY <1>1, <1>4
<1>8. \A w \in QuotaWindows : Lengths[w] \in Nat /\ Lengths[w] <= Max(lengths)
  BY <1>1, <1>4, <1>5
<1> QED
  BY <1>1, <1>6, <1>7, <1>8

\* What the upstream tells, by each of its ways, is data of a limit.
LEMMA ToldTyped ==
  ASSUME QuotaTypes, NEW c \in Creds
  PROVE  /\ FromUsage(c) \in Told /\ FromEvent(c) \subseteq Told
         /\ \A n \in {{}, QuotaWindows}, b \in BOOLEAN : FromHeaders(c, n, b) \in Told
<1>1. quota[c].windows \in WindowMaps /\ quota[c].credits \in BOOLEAN
  BY DEF QuotaTypes, QuotaValues
<1>2. NoWindow \in [full : BOOLEAN, resets : 0..LastPossible]
  BY LengthsTyped DEF NoWindow
<1>3. FromUsage(c) \in Told
  BY <1>1 DEF FromUsage, Told, QuotaData
<1>4. [NoData EXCEPT !.of = "other"] \in Told
  BY <1>2 DEF NoData, Told, QuotaData, WindowMaps
<1>5. ASSUME NEW n \in {{}, QuotaWindows}, NEW b \in BOOLEAN
      PROVE  FromHeaders(c, n, b) \in Told
  <2>1. [w \in QuotaWindows |-> IF w \in n THEN quota[c].windows[w] ELSE NoWindow] \in WindowMaps
    BY <1>1, <1>2 DEF WindowMaps
  <2>2. (b /\ quota[c].credits) \in BOOLEAN
    BY <1>1
  <2> QED
    BY <2>1, <2>2 DEF FromHeaders, Told, QuotaData
<1> QED
  BY <1>3, <1>4, <1>5 DEF FromEvent

LEMMA NothingTyped == NoData \in QuotaData /\ NoData \notin Told
<1>1. NoWindow \in [full : BOOLEAN, resets : 0..LastPossible]
  BY LengthsTyped DEF NoWindow
<1> QED
  BY <1>1 DEF NoData, QuotaData, WindowMaps, Told

THEOREM QuotaInitially == QuotaInit => QuotaInv
<1> SUFFICES ASSUME QuotaInit PROVE QuotaInv
  OBVIOUS
<1> USE DEF QuotaInit
<1>1. NoWindow \in [full : BOOLEAN, resets : 0..LastPossible]
  BY LengthsTyped DEF NoWindow
<1>2. Unused \in QuotaValues
  BY <1>1 DEF Unused, QuotaValues, WindowMaps
<1>3. quota \in [Creds -> QuotaValues] /\ clock \in 0..MaxClock /\ vouchers \in [Creds -> Nat]
  BY <1>2, LengthsTyped
<1>4. \A c \in Creds : FromUsage(c) \in QuotaData /\ FromUsage(c) # NoData
  BY <1>2 DEF FromUsage, QuotaData, QuotaValues, Unused, NoData
<1>5. /\ known \in [Creds -> [data : QuotaData, status : {"", "ok", "unauthorized", "failed"}]]
      /\ \A c \in Creds : known[c].status = "ok" => known[c].data # NoData
  <2>1. CASE known = WithoutRows
    BY <2>1, NothingTyped DEF WithoutRows, NoRow
  <2>2. CASE known = [c \in Creds |-> [data |-> FromUsage(c), status |-> "ok"]]
    BY <2>2, <1>4
  <2> QED
    BY <2>1, <2>2
<1>6. good \in [Creds -> QuotaData] /\ RowsKept
  BY <1>5 DEF RowsKept
<1>7. /\ fetch \in FetchRecords
      /\ FetchCounts
  <2>1. fetch = NotFetching /\ <<>> \in Seq(Loaded)
    OBVIOUS
  <2>2. NotFetching \in FetchRecords
    BY <2>1, NothingTyped DEF NotFetching, FetchRecords
  <2>3. NotFetching.pc = "rest"
    BY DEF NotFetching, FetchRecords
  <2> QED
    BY <2>1, <2>2, <2>3 DEF FetchCounts
<1>8. /\ redeem \in RedeemRecords
      /\ RedeemCounts
  <2>1. NotRedeeming \in RedeemRecords
    BY DEF NotRedeeming, RedeemRecords
  <2>2. NotRedeeming.pc = "rest" /\ NotRedeeming.taken = 0
    BY DEF NotRedeeming
  <2>3. redeem = NotRedeeming
    OBVIOUS
  <2>4. RedeemCounts
    BY <2>2, <2>3 DEF RedeemCounts
  <2> QED
    BY <2>1, <2>3, <2>4
<1>9. QuotaTypes
  <2>1. /\ account \in [Creds -> {"enabled", "disabled", "deleted"}] /\ onWay = {}
        /\ token \in [Creds -> {"good", "stale", "dead"}]
    OBVIOUS
  <2> QED
    BY <1>3, <1>5, <1>6, <1>7, <1>8, <2>1 DEF QuotaTypes
<1> QED
  BY <1>6, <1>7, <1>8, <1>9 DEF QuotaInv

\* Windows that become exhausted or are reset, and credits that are bought.
LEMMA QuotaChanged ==
  ASSUME NEW q \in [Creds -> QuotaValues], NEW c \in Creds
  PROVE  /\ \A w \in QuotaWindows, n \in 0..LastPossible :
              [q EXCEPT ![c].windows[w] = [full |-> TRUE, resets |-> n]] \in [Creds -> QuotaValues]
         /\ [q EXCEPT ![c].credits = TRUE] \in [Creds -> QuotaValues]
         /\ [q EXCEPT ![c].windows = Unused.windows] \in [Creds -> QuotaValues]
<1>1. q[c] \in QuotaValues
  OBVIOUS
<1>2. NoWindow \in [full : BOOLEAN, resets : 0..LastPossible]
  BY LengthsTyped DEF NoWindow
<1>3. Unused.windows \in WindowMaps
  BY <1>2 DEF Unused, WindowMaps
<1>4. ASSUME NEW w \in QuotaWindows, NEW n \in 0..LastPossible
      PROVE  [q EXCEPT ![c].windows[w] = [full |-> TRUE, resets |-> n]] \in [Creds -> QuotaValues]
  <2> DEFINE m == [q[c].windows EXCEPT ![w] = [full |-> TRUE, resets |-> n]]
             v == [q[c] EXCEPT !.windows = m]
  <2>1. m \in WindowMaps
    BY <1>1 DEF QuotaValues, WindowMaps
  <2>2. v \in QuotaValues
    <3> HIDE DEF m
    <3> QED
      BY <1>1, <2>1 DEF QuotaValues
  <2>3. [q EXCEPT ![c].windows[w] = [full |-> TRUE, resets |-> n]] = [q EXCEPT ![c] = v]
    OBVIOUS
  <2> HIDE DEF v
  <2> QED
    BY <2>2, <2>3
<1>5. [q[c] EXCEPT !.credits = TRUE] \in QuotaValues
  BY <1>1 DEF QuotaValues
<1>6. [q[c] EXCEPT !.windows = Unused.windows] \in QuotaValues
  BY <1>1, <1>3 DEF QuotaValues
<1>7. /\ [q EXCEPT ![c].credits = TRUE] = [q EXCEPT ![c] = [q[c] EXCEPT !.credits = TRUE]]
      /\ [q EXCEPT ![c].windows = Unused.windows] = [q EXCEPT ![c] = [q[c] EXCEPT !.windows = Unused.windows]]
  OBVIOUS
<1> QED
  BY <1>4, <1>5, <1>6, <1>7

\* UpsertCredentialRateLimits keeps the data that was known unless there is
\* other, and says ok of nothing without data.
LEMMA StoresKeep ==
  ASSUME QuotaTypes, RowsKept, NEW c \in Creds, NEW data \in QuotaData,
         NEW status \in {"ok", "unauthorized", "failed"},
         status = "ok" => data \in Told, Stores(c, data, status)
  PROVE  /\ known' \in [Creds -> [data : QuotaData, status : {"", "ok", "unauthorized", "failed"}]]
         /\ good' \in [Creds -> QuotaData] /\ RowsKept'
<1> DEFINE row == Upserted(known[c], data, status)
<1>1. known[c] \in [data : QuotaData, status : {"", "ok", "unauthorized", "failed"}]
  BY DEF QuotaTypes
<1>2. row \in [data : QuotaData, status : {"", "ok", "unauthorized", "failed"}] /\ row.status = status
  BY <1>1 DEF Upserted
<1>3. row.data = IF data = NoData THEN known[c].data ELSE data
  BY DEF Upserted
<1>4. known' = [known EXCEPT ![c] = row]
  BY DEF Stores
<1>5. good' = IF data = NoData THEN good ELSE [good EXCEPT ![c] = data]
  BY DEF Stores
<1> HIDE DEF row
<1>6. /\ known' \in [Creds -> [data : QuotaData, status : {"", "ok", "unauthorized", "failed"}]]
      /\ good' \in [Creds -> QuotaData]
  BY <1>2, <1>4, <1>5 DEF QuotaTypes
<1>7. ASSUME NEW d \in Creds
      PROVE  known'[d].data = good'[d] /\ (known'[d].status = "ok" => good'[d] # NoData)
  <2>1. CASE d = c
    BY <2>1, <1>2, <1>3, <1>4, <1>5, NothingTyped DEF QuotaTypes, RowsKept
  <2>2. CASE d # c
    BY <2>2, <1>4, <1>5 DEF QuotaTypes, RowsKept
  <2> QED
    BY <2>1, <2>2
<1> QED
  BY <1>6, <1>7 DEF RowsKept

\* What changes at the upstream and on the way touches no row and no call.
LEMMA UpstreamTouches ==
  ASSUME QuotaInv, UpstreamOnly, clock' \in 0..MaxClock, quota' \in [Creds -> QuotaValues],
         vouchers' \in [Creds -> Nat], token' \in [Creds -> {"good", "stale", "dead"}],
         onWay' \subseteq [cred : Creds, data : Told]
  PROVE  QuotaInv'
BY DEF UpstreamOnly, QuotaInv, QuotaTypes, RowsKept, FetchCounts, RedeemCounts

LEMMA ClockTicksKeeps ==
  ASSUME QuotaInv, ClockTicks
  PROVE  QuotaInv'
<1>1. clock' = clock + 1 /\ clock < MaxClock /\ clock \in 0..MaxClock
  BY DEF ClockTicks, QuotaInv, QuotaTypes
<1>2. clock' \in 0..MaxClock
  BY <1>1, LengthsTyped
<1> QED
  BY <1>2, UpstreamTouches DEF ClockTicks, QuotaInv, QuotaTypes

LEMMA BuyKeeps ==
  ASSUME QuotaInv, NEW c \in Creds, Buy(c)
  PROVE  QuotaInv'
<1>1. quota' = [quota EXCEPT ![c].credits = TRUE] /\ quota \in [Creds -> QuotaValues]
  BY DEF Buy, QuotaInv, QuotaTypes
<1>2. quota' \in [Creds -> QuotaValues]
  BY <1>1, QuotaChanged, Zenon
<1>3. UNCHANGED <<clock, vouchers, token, onWay>> /\ UpstreamOnly
  BY DEF Buy
<1> QED
  BY <1>2, <1>3, UpstreamTouches DEF QuotaInv, QuotaTypes

LEMMA ExpireKeeps ==
  ASSUME QuotaInv, NEW c \in Creds, Expire(c)
  PROVE  QuotaInv'
<1>1. token' \in [Creds -> {"good", "stale", "dead"}]
  BY DEF Expire, QuotaInv, QuotaTypes
<1> QED
  BY <1>1, UpstreamTouches DEF Expire, QuotaInv, QuotaTypes

LEMMA AnswersKeeps ==
  ASSUME QuotaInv, NEW c \in Creds, Answers(c)
  PROVE  QuotaInv'
<1>1. PICK n \in {{}, QuotaWindows}, b \in BOOLEAN :
        \E data \in FromEvent(c) \cup {FromHeaders(c, n, b)} : onWay' = {[cred |-> c, data |-> data]}
  BY Zenon DEF Answers
<1>2. PICK data \in FromEvent(c) \cup {FromHeaders(c, n, b)} : onWay' = {[cred |-> c, data |-> data]}
  BY <1>1, Zenon
<1>3. data \in Told
  <2>1. FromEvent(c) \subseteq Told /\ FromHeaders(c, n, b) \in Told
    BY ToldTyped, Zenon DEF QuotaInv
  <2> QED
    BY <2>1, Zenon
<1>4. onWay' \subseteq [cred : Creds, data : Told]
  BY <1>2, <1>3
<1>5. UNCHANGED <<clock, quota, vouchers, token>> /\ UpstreamOnly
  BY Zenon DEF Answers
<1> QED
  BY <1>4, <1>5, UpstreamTouches DEF QuotaInv, QuotaTypes

LEMMA ExhaustKeeps ==
  ASSUME QuotaInv, NEW c \in Creds, NEW w \in QuotaWindows, Exhaust(c, w)
  PROVE  QuotaInv'
<1>1. /\ quota' = [quota EXCEPT ![c].windows[w] = [full |-> TRUE, resets |-> clock + Lengths[w]]]
      /\ UNCHANGED <<clock, vouchers, token, onWay, moves>> /\ UpstreamOnly
  BY Zenon DEF Exhaust
<1>2. quota \in [Creds -> QuotaValues] /\ clock + Lengths[w] \in 0..LastPossible
  BY LengthsTyped DEF QuotaInv, QuotaTypes
<1>3. quota' \in [Creds -> QuotaValues]
  BY <1>1, <1>2, QuotaChanged, Zenon
<1>4. UNCHANGED <<clock, vouchers, token, onWay>> /\ UpstreamOnly
  BY <1>1, Zenon
<1> QED
  BY <1>3, <1>4, UpstreamTouches DEF QuotaInv, QuotaTypes

LEMMA CaptureKeeps ==
  ASSUME QuotaInv, Capture
  PROVE  QuotaInv'
<1>1. PICK a \in onWay : /\ onWay' = onWay \ {a} /\ Stores(a.cred, a.data, "ok")
                         /\ UNCHANGED <<clock, quota, vouchers, account, token, fetch, redeem, moves>>
  BY DEF Capture
<1>2. a.cred \in Creds /\ a.data \in Told /\ a.data \in QuotaData
  BY DEF QuotaInv, QuotaTypes, Told
<1>3. /\ known' \in [Creds -> [data : QuotaData, status : {"", "ok", "unauthorized", "failed"}]]
      /\ good' \in [Creds -> QuotaData] /\ RowsKept'
  BY <1>1, <1>2, StoresKeep DEF QuotaInv
<1>4. QuotaTypes'
  BY <1>1, <1>3 DEF QuotaInv, QuotaTypes
<1>5. (FetchCounts /\ RedeemCounts)'
  BY <1>1 DEF QuotaInv, FetchCounts, RedeemCounts
<1> QED
  BY <1>3, <1>4, <1>5 DEF QuotaInv

LEMMA EditKeeps ==
  ASSUME QuotaInv, NEW c \in Creds, Edit(c)
  PROVE  QuotaInv'
<1> DEFINE Row == [data : QuotaData, status : {"", "ok", "unauthorized", "failed"}]
<1>1. NoRow \in Row /\ NoRow.data = NoData /\ NoRow.status = ""
  BY NothingTyped DEF NoRow
<1>2. UNCHANGED <<clock, quota, vouchers, token, onWay, fetch, redeem>>
  BY DEF Edit
<1>3. account' \in [Creds -> {"enabled", "disabled", "deleted"}]
  BY DEF Edit, QuotaInv, QuotaTypes
<1>4. /\ known' \in [Creds -> Row] /\ good' \in [Creds -> QuotaData] /\ RowsKept'
  <2>1. CASE /\ account' = [account EXCEPT ![c] = IF @ = "enabled" THEN "disabled" ELSE "enabled"]
             /\ UNCHANGED known
    <3>1. account'[c] # "deleted"
      BY <2>1 DEF QuotaInv, QuotaTypes
    <3>2. good' = good
      BY <3>1 DEF Edit, QuotaInv, QuotaTypes
    <3> QED
      BY <2>1, <3>2 DEF QuotaInv, QuotaTypes, RowsKept
  <2>2. CASE account' = [account EXCEPT ![c] = "deleted"] /\ known' = [known EXCEPT ![c] = NoRow]
    <3>1. account'[c] = "deleted"
      BY <2>2 DEF QuotaInv, QuotaTypes
    <3>2. good' = [good EXCEPT ![c] = NoData]
      BY <3>1 DEF Edit
    <3>3. known' \in [Creds -> Row] /\ good' \in [Creds -> QuotaData]
      BY <1>1, <2>2, <3>2, NothingTyped DEF QuotaInv, QuotaTypes
    <3>4. ASSUME NEW d \in Creds
          PROVE  known'[d].data = good'[d] /\ (known'[d].status = "ok" => good'[d] # NoData)
      <4>1. CASE d = c
        BY <4>1, <1>1, <2>2, <3>2 DEF QuotaInv, QuotaTypes
      <4>2. CASE d # c
        BY <4>2, <2>2, <3>2 DEF QuotaInv, QuotaTypes, RowsKept
      <4> QED
        BY <4>1, <4>2
    <3> QED
      BY <3>3, <3>4 DEF RowsKept
  <2> QED
    BY <2>1, <2>2 DEF Edit
<1>5. QuotaTypes'
  BY <1>2, <1>3, <1>4 DEF QuotaInv, QuotaTypes
<1>6. (FetchCounts /\ RedeemCounts)'
  BY <1>2 DEF QuotaInv, FetchCounts, RedeemCounts
<1> QED
  BY <1>4, <1>5, <1>6 DEF QuotaInv

\* A call in progress changes no row before it stores.
LEMMA FetchTouches ==
  ASSUME QuotaInv, FetchOnly, UNCHANGED <<known, good>>,
         token' \in [Creds -> {"good", "stale", "dead"}], fetch' \in FetchRecords, FetchCounts'
  PROVE  QuotaInv'
BY DEF QuotaInv, QuotaTypes, FetchOnly, FetchRecords, RowsKept, RedeemCounts

\* A sequence without its first element.
LEMMA WithoutFirst ==
  ASSUME NEW S, NEW s \in Seq(S), s # <<>>
  PROVE  /\ Head(s) \in S /\ Tail(s) \in Seq(S) /\ Len(s) = Len(Tail(s)) + 1
         /\ Len(s) \in Nat /\ Len(Tail(s)) \in Nat
OBVIOUS

LEMMA FetchBeginsKeeps ==
  ASSUME QuotaInv, FetchBegins
  PROVE  QuotaInv'
<1>1. PICK wanted \in {Existing} \cup {{c} : c \in Existing} :
        fetch' = [NotFetching EXCEPT !.pc = "next", !.loaded = Cardinality(wanted),
                   !.todo = SetToSeq({[cred |-> c, enabled |-> account[c] = "enabled"] : c \in wanted})]
  BY DEF FetchBegins
<1> DEFINE loaded == {[cred |-> c, enabled |-> account[c] = "enabled"] : c \in wanted}
           f == [c \in wanted |-> [cred |-> c, enabled |-> account[c] = "enabled"]]
<1>2. wanted \subseteq Creds
  BY DEF Existing
<1>3. IsFiniteSet(wanted)
  BY <1>2, QuotaAssumption, FS_Subset
<1>4. IsFiniteSet(loaded) /\ Cardinality(loaded) = Cardinality(wanted)
  <2>1. DOMAIN f = wanted /\ \A x, y \in wanted : f[x] = f[y] => x = y
    OBVIOUS
  <2>2. loaded = {f[c] : c \in wanted}
    OBVIOUS
  <2> HIDE DEF f, loaded
  <2>3. IsFiniteSet({f[c] : c \in wanted}) /\ Cardinality({f[c] : c \in wanted}) = Cardinality(wanted)
    BY <1>3, <2>1, ImageAsMany
  <2> QED
    BY <2>2, <2>3
<1>5. loaded \subseteq Loaded
  <2>1. \A c \in wanted : [cred |-> c, enabled |-> account[c] = "enabled"] \in Loaded
    BY <1>2, Zenon DEF Loaded
  <2> QED
    BY <2>1, Zenon
<1>6. SetToSeq(loaded) \in Seq(loaded) /\ Len(SetToSeq(loaded)) = Cardinality(wanted) /\ Cardinality(wanted) \in Nat
  <2> HIDE DEF loaded
  <2> QED
    BY <1>4, SeqOfSet
<1>7. fetch' = [NotFetching EXCEPT !.pc = "next", !.loaded = Cardinality(wanted), !.todo = SetToSeq(loaded)]
  BY <1>1
<1> HIDE DEF loaded
<1>8. SetToSeq(loaded) \in Seq(Loaded)
  BY <1>5, <1>6
<1>9. fetch' = [pc |-> "next", todo |-> SetToSeq(loaded), retrying |-> FALSE, answer |-> "", data |-> NoData,
                loaded |-> Cardinality(wanted), updated |-> 0, failed |-> 0, skipped |-> 0]
  BY <1>7 DEF NotFetching
<1>10. fetch' \in FetchRecords /\ FetchCounts'
  <2>1. fetch' \in FetchRecords
    BY <1>6, <1>8, <1>9, NothingTyped DEF FetchRecords
  <2>2. 0 + 0 + 0 + Len(SetToSeq(loaded)) = Cardinality(wanted)
    BY <1>6
  <2>3. /\ fetch'.pc = "next" /\ fetch'.todo = SetToSeq(loaded) /\ fetch'.loaded = Cardinality(wanted)
        /\ fetch'.updated = 0 /\ fetch'.failed = 0 /\ fetch'.skipped = 0
    BY <1>9
  <2> QED
    BY <2>1, <2>2, <2>3 DEF FetchCounts
<1> QED
  BY <1>10, FetchTouches DEF FetchBegins, QuotaInv, QuotaTypes

LEMMA FetchNextKeeps ==
  ASSUME QuotaInv, FetchNext
  PROVE  QuotaInv'
<1>1. fetch \in FetchRecords /\ fetch.pc = "next" /\ FetchCounts
  BY DEF QuotaInv, QuotaTypes, FetchRecords, FetchNext
<1>2. fetch.updated + fetch.failed + fetch.skipped + Len(fetch.todo) = fetch.loaded
  BY <1>1 DEF FetchCounts
<1>3. fetch' \in FetchRecords /\ FetchCounts'
  <2>1. CASE fetch.todo = <<>>
    <3>1. fetch' = [fetch EXCEPT !.pc = "told"]
      BY <2>1 DEF FetchNext
    <3> QED
      BY <1>1, <1>2, <2>1, <3>1 DEF FetchRecords, FetchCounts
  <2>2. CASE fetch.todo # <<>> /\ Head(fetch.todo).enabled
    <3>1. fetch' = [fetch EXCEPT !.pc = "ask", !.retrying = FALSE, !.data = NoData]
      BY <2>2 DEF FetchNext
    <3> QED
      BY <1>1, <1>2, <2>2, <3>1, NothingTyped DEF FetchRecords, FetchCounts
  <2>3. CASE fetch.todo # <<>> /\ ~Head(fetch.todo).enabled
    <3>1. fetch' = [fetch EXCEPT !.todo = Tail(fetch.todo), !.skipped = fetch.skipped + 1]
      BY <2>3 DEF FetchNext
    <3>2. fetch.todo \in Seq(Loaded) /\ fetch.skipped \in Nat /\ fetch.updated \in Nat /\ fetch.failed \in Nat
      BY <1>1 DEF FetchRecords
    <3>3. Tail(fetch.todo) \in Seq(Loaded) /\ Len(fetch.todo) = Len(Tail(fetch.todo)) + 1 /\ Len(Tail(fetch.todo)) \in Nat
      BY <2>3, <3>2, WithoutFirst
    <3>4. fetch.updated + fetch.failed + (fetch.skipped + 1) + Len(Tail(fetch.todo)) = fetch.loaded
      BY <1>2, <3>2, <3>3
    <3>5. fetch' \in FetchRecords
      <4>1. fetch.skipped + 1 \in Nat
        BY <3>2
      <4> HIDE DEF FetchOnly
      <4> QED
        BY <1>1, <3>1, <3>3, <4>1 DEF FetchRecords
    <3>6. /\ fetch'.pc = "next" /\ fetch'.todo = Tail(fetch.todo) /\ fetch'.skipped = fetch.skipped + 1
          /\ fetch'.updated = fetch.updated /\ fetch'.failed = fetch.failed /\ fetch'.loaded = fetch.loaded
      BY <1>1, <3>1 DEF FetchRecords
    <3> QED
      BY <3>4, <3>5, <3>6 DEF FetchCounts
  <2> QED
    BY <2>1, <2>2, <2>3
<1> QED
  BY <1>3, FetchTouches DEF FetchNext, QuotaInv, QuotaTypes

\* Who is asked for is a credential of the pool.
LEMMA CurrentTyped ==
  ASSUME QuotaInv, fetch.pc \in {"ask", "refresh", "store"}
  PROVE  Current \in Creds /\ FromUsage(Current) \in Told
<1>1. fetch.todo \in Seq(Loaded) /\ fetch.todo # <<>>
  BY DEF QuotaInv, QuotaTypes, FetchCounts, FetchRecords
<1>2. Head(fetch.todo) \in Loaded
  BY <1>1, WithoutFirst
<1>3. Current \in Creds
  BY <1>2 DEF Loaded, Current
<1> QED
  BY <1>3, ToldTyped DEF QuotaInv

LEMMA FetchAsksKeeps ==
  ASSUME QuotaInv, FetchAsks
  PROVE  QuotaInv'
<1>1. fetch \in FetchRecords /\ fetch.pc = "ask" /\ FetchCounts
  BY DEF QuotaInv, QuotaTypes, FetchRecords, FetchAsks
<1>2. FromUsage(Current) \in Told /\ FromUsage(Current) \in QuotaData
  BY <1>1, CurrentTyped DEF Told
<1>3. fetch' \in FetchRecords /\ FetchCounts'
  <2>1. CASE fetch' = [fetch EXCEPT !.pc = "store", !.answer = "ok", !.data = FromUsage(Current)]
    BY <1>1, <1>2, <2>1 DEF FetchRecords, FetchCounts
  <2>2. CASE fetch' = [fetch EXCEPT !.answer = "unauthorized", !.pc = IF fetch.retrying THEN "store" ELSE "refresh"]
    BY <1>1, <2>2 DEF FetchRecords, FetchCounts
  <2>3. CASE fetch' = [fetch EXCEPT !.answer = "failed", !.pc = "store"]
    BY <1>1, <2>3 DEF FetchRecords, FetchCounts
  <2> QED
    BY <2>1, <2>2, <2>3 DEF FetchAsks
<1> QED
  BY <1>3, FetchTouches DEF FetchAsks, QuotaInv, QuotaTypes

LEMMA FetchRefreshesKeeps ==
  ASSUME QuotaInv, FetchRefreshes
  PROVE  QuotaInv'
<1>1. fetch \in FetchRecords /\ fetch.pc = "refresh" /\ FetchCounts
  BY DEF QuotaInv, QuotaTypes, FetchRecords, FetchRefreshes
<1>2. fetch' \in FetchRecords /\ FetchCounts'
  <2>1. CASE fetch' = [fetch EXCEPT !.pc = "store"]
    BY <1>1, <2>1 DEF FetchRecords, FetchCounts
  <2>2. CASE fetch' = [fetch EXCEPT !.pc = "ask", !.retrying = TRUE]
    BY <1>1, <2>2 DEF FetchRecords, FetchCounts
  <2> QED
    BY <2>1, <2>2 DEF FetchRefreshes
<1>3. token' \in [Creds -> {"good", "stale", "dead"}]
  BY DEF FetchRefreshes, QuotaInv, QuotaTypes
<1> QED
  BY <1>2, <1>3, FetchTouches DEF FetchRefreshes

LEMMA FetchStoresKeeps ==
  ASSUME QuotaInv, FetchStores
  PROVE  QuotaInv'
<1>1. fetch \in FetchRecords /\ fetch.pc = "store" /\ FetchCounts
  BY DEF QuotaInv, QuotaTypes, FetchRecords, FetchStores
<1>2. /\ Current \in Creds /\ fetch.data \in QuotaData /\ fetch.answer \in {"ok", "unauthorized", "failed"}
      /\ (fetch.answer = "ok" => fetch.data \in Told)
  BY <1>1, CurrentTyped DEF FetchRecords, FetchCounts
<1>3. /\ known' \in [Creds -> [data : QuotaData, status : {"", "ok", "unauthorized", "failed"}]]
      /\ good' \in [Creds -> QuotaData] /\ RowsKept'
  BY <1>2, StoresKeep DEF FetchStores, QuotaInv
<1>4. fetch' \in FetchRecords /\ FetchCounts'
  <2>1. fetch' = [fetch EXCEPT !.pc = "next", !.todo = Tail(fetch.todo),
                    !.updated = IF fetch.answer = "ok" THEN fetch.updated + 1 ELSE fetch.updated,
                    !.failed  = IF fetch.answer = "ok" THEN fetch.failed ELSE fetch.failed + 1]
    BY DEF FetchStores
  <2>2. /\ fetch.todo \in Seq(Loaded) /\ fetch.skipped \in Nat /\ fetch.updated \in Nat /\ fetch.failed \in Nat
        /\ fetch.todo # <<>> /\ fetch.updated + fetch.failed + fetch.skipped + Len(fetch.todo) = fetch.loaded
    BY <1>1 DEF FetchRecords, FetchCounts
  <2>3. Tail(fetch.todo) \in Seq(Loaded) /\ Len(fetch.todo) = Len(Tail(fetch.todo)) + 1 /\ Len(Tail(fetch.todo)) \in Nat
    BY <2>2, WithoutFirst
  <2>4. fetch' \in FetchRecords
    <3>1. fetch.updated + 1 \in Nat /\ fetch.failed + 1 \in Nat
      BY <2>2
    <3> QED
      BY <1>1, <2>1, <2>2, <2>3, <3>1 DEF FetchRecords
  <2>5. /\ fetch'.pc = "next" /\ fetch'.todo = Tail(fetch.todo) /\ fetch'.skipped = fetch.skipped
        /\ fetch'.updated = (IF fetch.answer = "ok" THEN fetch.updated + 1 ELSE fetch.updated)
        /\ fetch'.failed = (IF fetch.answer = "ok" THEN fetch.failed ELSE fetch.failed + 1)
        /\ fetch'.loaded = fetch.loaded
    BY <1>1, <2>1 DEF FetchRecords
  <2>6. fetch'.updated + fetch'.failed + fetch'.skipped + Len(fetch'.todo) = fetch'.loaded
    <3> DEFINE u == fetch.updated  f == fetch.failed  k == fetch.skipped  n == Len(Tail(fetch.todo))
    <3>1. u \in Nat /\ f \in Nat /\ k \in Nat /\ n \in Nat /\ u + f + k + (n + 1) = fetch.loaded
      BY <2>2, <2>3
    <3>2. (u + 1) + f + k + n = fetch.loaded /\ u + (f + 1) + k + n = fetch.loaded
      <4> HIDE DEF u, f, k, n
      <4> QED
        BY <3>1
    <3>3. CASE fetch.answer = "ok"
      BY <3>2, <3>3, <2>5
    <3>4. CASE fetch.answer # "ok"
      BY <3>2, <3>4, <2>5
    <3> QED
      BY <3>3, <3>4
  <2> QED
    BY <2>4, <2>5, <2>6 DEF FetchCounts
<1>5. QuotaTypes'
  BY <1>3, <1>4 DEF FetchStores, FetchOnly, QuotaInv, QuotaTypes, FetchRecords
<1>6. RedeemCounts'
  BY DEF FetchStores, FetchOnly, QuotaInv, RedeemCounts
<1> QED
  BY <1>3, <1>4, <1>5, <1>6 DEF QuotaInv

LEMMA FetchEndsKeeps ==
  ASSUME QuotaInv, FetchEnds
  PROVE  QuotaInv'
<1>1. NotFetching \in FetchRecords /\ NotFetching.pc = "rest"
  <2>1. <<>> \in Seq(Loaded)
    OBVIOUS
  <2> QED
    BY <2>1, NothingTyped DEF NotFetching, FetchRecords
<1>2. fetch' \in FetchRecords /\ FetchCounts'
  BY <1>1 DEF FetchEnds, FetchCounts
<1> QED
  BY <1>2, FetchTouches DEF FetchEnds, QuotaInv, QuotaTypes

\* A redemption touches the quota, the credits and the token of its account.
LEMMA RedeemTouches ==
  ASSUME QuotaInv, RedeemOnly, quota' \in [Creds -> QuotaValues], vouchers' \in [Creds -> Nat],
         token' \in [Creds -> {"good", "stale", "dead"}], redeem' \in RedeemRecords, RedeemCounts'
  PROVE  QuotaInv'
BY DEF QuotaInv, QuotaTypes, RedeemOnly, RedeemRecords, RowsKept, FetchCounts

LEMMA RedeemBeginsKeeps ==
  ASSUME QuotaInv, NEW c \in Creds, RedeemBegins(c)
  PROVE  QuotaInv'
<1>1. redeem' = [NotRedeeming EXCEPT !.pc = "ask", !.cred = c]
  BY DEF RedeemBegins
<1>2. redeem' \in RedeemRecords /\ RedeemCounts'
  <2>1. redeem' = [pc |-> "ask", cred |-> c, again |-> FALSE, answer |-> "", taken |-> 0]
    BY <1>1 DEF NotRedeeming
  <2>2. redeem'.pc = "ask" /\ redeem'.cred = c /\ redeem'.taken = 0
    BY <2>1
  <2>3. redeem' \in RedeemRecords
    BY <2>1 DEF RedeemRecords
  <2>4. RedeemCounts'
    BY <2>2 DEF RedeemCounts
  <2> QED
    BY <2>3, <2>4
<1>3. token' \in [Creds -> {"good", "stale", "dead"}]
  BY DEF RedeemBegins, QuotaInv, QuotaTypes
<1> QED
  BY <1>2, <1>3, RedeemTouches DEF RedeemBegins, QuotaInv, QuotaTypes

LEMMA RedeemAsksKeeps ==
  ASSUME QuotaInv, RedeemAsks
  PROVE  QuotaInv'
<1> DEFINE c == redeem.cred
<1>1. redeem \in RedeemRecords /\ redeem.pc = "ask" /\ c \in Creds /\ redeem.taken = 0
  BY DEF RedeemAsks, QuotaInv, QuotaTypes, RedeemCounts, RedeemRecords
<1>2. PICK answer \in {"ok", "unauthorized", "error", "network"}, n \in {0, 1} :
        /\ redeem' = [redeem EXCEPT !.pc = "answered", !.answer = answer, !.taken = redeem.taken + n]
        /\ (answer = "ok" => n = 1) /\ (answer \in {"unauthorized", "error"} => n = 0)
        /\ \/ UNCHANGED <<quota, vouchers>>
           \/ vouchers[c] > 0 /\ Redeemed(c)
  <2>1. CASE redeem' = [redeem EXCEPT !.pc = "answered", !.answer = "unauthorized", !.taken = redeem.taken + 0]
             /\ UNCHANGED <<quota, vouchers>>
    BY <2>1
  <2>2. CASE redeem' = [redeem EXCEPT !.pc = "answered", !.answer = "error", !.taken = redeem.taken + 0]
             /\ UNCHANGED <<quota, vouchers>>
    BY <2>2
  <2>3. CASE redeem' = [redeem EXCEPT !.pc = "answered", !.answer = "ok", !.taken = redeem.taken + 1]
             /\ vouchers[c] > 0 /\ Redeemed(c)
    BY <2>3
  <2>4. CASE redeem' = [redeem EXCEPT !.pc = "answered", !.answer = "network", !.taken = redeem.taken + 1]
             /\ vouchers[c] > 0 /\ Redeemed(c)
    BY <2>4
  <2>5. CASE redeem' = [redeem EXCEPT !.pc = "answered", !.answer = "network", !.taken = redeem.taken + 0]
             /\ UNCHANGED <<quota, vouchers>>
    BY <2>5
  <2> QED
    BY <2>1, <2>2, <2>3, <2>4, <2>5 DEF RedeemAsks
<1>3. redeem' \in RedeemRecords /\ RedeemCounts'
  <2>1. redeem.taken + n = n /\ n \in Nat /\ n <= 1
    BY <1>1
  <2>2. redeem' \in RedeemRecords
    BY <1>1, <1>2, <2>1 DEF RedeemRecords
  <2>3. redeem'.pc = "answered" /\ redeem'.cred = c /\ redeem'.answer = answer /\ redeem'.taken = n
    BY <1>1, <1>2, <2>1 DEF RedeemRecords
  <2>4. RedeemCounts'
    BY <1>1, <1>2, <2>1, <2>3 DEF RedeemCounts
  <2> QED
    BY <2>2, <2>4
<1>4. quota' \in [Creds -> QuotaValues] /\ vouchers' \in [Creds -> Nat]
  <2>1. CASE UNCHANGED <<quota, vouchers>>
    BY <2>1 DEF QuotaInv, QuotaTypes
  <2>2. CASE vouchers[c] > 0 /\ Redeemed(c)
    <3>1. quota' = [quota EXCEPT ![c].windows = Unused.windows] /\ quota \in [Creds -> QuotaValues]
      BY <2>2 DEF Redeemed, QuotaInv, QuotaTypes
    <3>2. quota' \in [Creds -> QuotaValues]
      BY <1>1, <3>1, QuotaChanged, Zenon
    <3>3. vouchers' = [vouchers EXCEPT ![c] = vouchers[c] - 1] /\ vouchers \in [Creds -> Nat] /\ vouchers[c] > 0
      BY <2>2 DEF Redeemed, QuotaInv, QuotaTypes
    <3>4. vouchers[c] - 1 \in Nat
      BY <1>1, <3>3
    <3> HIDE DEF c
    <3> QED
      BY <3>2, <3>3, <3>4
  <2> QED
    BY <1>2, <2>1, <2>2
<1> QED
  BY <1>3, <1>4, RedeemTouches DEF RedeemAsks, QuotaInv, QuotaTypes

\* Only a refusal, which took nothing, is tried again.
LEMMA RedeemAnsweredKeeps ==
  ASSUME QuotaInv, RedeemAnswered
  PROVE  QuotaInv'
<1>1. redeem \in RedeemRecords /\ redeem.pc = "answered" /\ RedeemCounts
  BY DEF RedeemAnswered, QuotaInv, QuotaTypes, RedeemRecords
<1>2. redeem' \in RedeemRecords /\ RedeemCounts'
  <2>1. CASE redeem.answer = "unauthorized" /\ redeem' = [redeem EXCEPT !.pc = "ask", !.again = TRUE]
    BY <1>1, <2>1 DEF RedeemRecords, RedeemCounts
  <2>2. CASE redeem' = [redeem EXCEPT !.pc = "told"]
    BY <1>1, <2>2 DEF RedeemRecords, RedeemCounts
  <2> QED
    BY <2>1, <2>2 DEF RedeemAnswered, Retries
<1>3. token' \in [Creds -> {"good", "stale", "dead"}]
  BY DEF RedeemAnswered, QuotaInv, QuotaTypes
<1> QED
  BY <1>2, <1>3, RedeemTouches DEF RedeemAnswered, QuotaInv, QuotaTypes

LEMMA RedeemEndsKeeps ==
  ASSUME QuotaInv, RedeemEnds
  PROVE  QuotaInv'
<1>1. NotRedeeming \in RedeemRecords /\ NotRedeeming.pc = "rest" /\ NotRedeeming.taken = 0
  BY DEF NotRedeeming, RedeemRecords
<1>2. redeem' \in RedeemRecords /\ RedeemCounts'
  BY <1>1 DEF RedeemEnds, RedeemCounts
<1> QED
  BY <1>2, RedeemTouches DEF RedeemEnds, QuotaInv, QuotaTypes

LEMMA QuotaStep == QuotaInv /\ [QuotaNext]_quotaVars => QuotaInv'
<1> SUFFICES ASSUME QuotaInv, [QuotaNext]_quotaVars PROVE QuotaInv'
  OBVIOUS
<1>1. CASE \/ ClockTicks
           \/ \E c \in Creds : Buy(c) \/ Expire(c) \/ Answers(c)
           \/ \E c \in Creds, w \in QuotaWindows : Exhaust(c, w)
  BY <1>1, ClockTicksKeeps, BuyKeeps, ExpireKeeps, AnswersKeeps, ExhaustKeeps
<1>2. CASE Capture
  BY <1>2, CaptureKeeps
<1>3. CASE \E c \in Creds : Edit(c) \/ RedeemBegins(c)
  BY <1>3, EditKeeps, RedeemBeginsKeeps
<1>4. CASE FetchBegins \/ FetchNext \/ FetchAsks
  BY <1>4, FetchBeginsKeeps, FetchNextKeeps, FetchAsksKeeps
<1>5. CASE FetchRefreshes \/ FetchStores \/ FetchEnds
  BY <1>5, FetchRefreshesKeeps, FetchStoresKeeps, FetchEndsKeeps
<1>6. CASE RedeemAsks \/ RedeemAnswered \/ RedeemEnds
  BY <1>6, RedeemAsksKeeps, RedeemAnsweredKeeps, RedeemEndsKeeps
<1>7. CASE UNCHANGED quotaVars
  BY <1>7 DEF quotaVars, QuotaInv, QuotaTypes, RowsKept, FetchCounts, RedeemCounts
<1> QED
  BY <1>1, <1>2, <1>3, <1>4, <1>5, <1>6, <1>7 DEF QuotaNext

-----------------------------------------------------------------------------
(* What the invariant says of who is selected and of the home page.        *)

\* From now on an account that is limited now is admitted exactly from the
\* last reset of a window exhausted now: the others stay as they are.
LEMMA AdmittedFromReset ==
  ASSUME NEW d, d.windows \in WindowMaps, d.credits \in BOOLEAN, NEW t \in Nat, Limited(d, t)
  PROVE  /\ LastReset(d, t) \in Nat /\ LastReset(d, t) > t /\ LastReset(d, t) <= LastPossible
         /\ \A u \in Nat : u >= t => (Limited(d, u) <=> u < LastReset(d, t))
<1> DEFINE out == {x \in QuotaWindows : Exhausted(d.windows[x], t)}
           resets == {d.windows[w].resets : w \in out}
           last == Max(resets)
<1>1. \A w \in QuotaWindows : /\ d.windows[w].full \in BOOLEAN
                              /\ d.windows[w].resets \in 0..LastPossible
  BY DEF WindowMaps
<1>2. out # {} /\ ~d.credits
  BY DEF Limited
<1>3. resets # {} /\ resets \subseteq Nat /\ \A y \in resets : y <= LastPossible
  BY <1>1, <1>2, LengthsTyped
<1>4. last \in resets /\ \A y \in resets : y <= last
  <2> HIDE DEF resets
  <2> QED
    BY <1>3, MaxOf, LengthsTyped
<1>5. PICK v \in out : last = d.windows[v].resets
  <2> HIDE DEF last
  <2> QED
    BY <1>4
<1>6. last = LastReset(d, t)
  BY DEF LastReset
<1>7. \A w \in out : d.windows[w].resets \in resets
  OBVIOUS
<1>8. last \in Nat /\ last <= LastPossible /\ \A w \in out : d.windows[w].resets <= last
  <2> HIDE DEF resets, out, last
  <2> QED
    BY <1>3, <1>4, <1>7
<1> HIDE DEF resets, last
<1>9. d.windows[v].full /\ last > t /\ v \in QuotaWindows
  BY <1>5 DEF Exhausted
<1>10. ASSUME NEW u \in Nat, u >= t
       PROVE  Limited(d, u) <=> u < last
  <2>1. ASSUME u < last PROVE Limited(d, u)
    <3>1. Exhausted(d.windows[v], u)
      BY <1>5, <1>9, <2>1 DEF Exhausted
    <3> QED
      BY <1>2, <1>9, <3>1 DEF Limited
  <2>2. ASSUME Limited(d, u) PROVE u < last
    <3>1. PICK w \in QuotaWindows : Exhausted(d.windows[w], u)
      BY <2>2 DEF Limited
    <3>2. d.windows[w].full /\ d.windows[w].resets > u /\ d.windows[w].resets \in Nat
      BY <1>1, <3>1, LengthsTyped DEF Exhausted
    <3>3. w \in out
      BY <1>10, <3>2 DEF Exhausted
    <3> QED
      BY <1>8, <3>2, <3>3
  <2> QED
    BY <2>1, <2>2
<1> QED
  BY <1>6, <1>8, <1>9, <1>10

\* CodexRateLimitRetryAt tells the first moment at which one is admitted.
LEMMA SelectionIsRight == QuotaInv => SelectionMatches
<1> SUFFICES ASSUME QuotaInv PROVE SelectionMatches
  OBVIOUS
<1> DEFINE admits(c, t) == quota[c].credits \/ ~\E w \in QuotaWindows : Exhausted(quota[c].windows[w], t)
           enabled == {c \in Creds : account[c] = "enabled"}
           times == clock..LastPossible
<1> SUFFICES ASSUME \A c \in enabled : known[c].data = FromUsage(c)
             PROVE  /\ Usable(clock) = {c \in enabled : admits(c, clock)}
                    /\ enabled # {} /\ Usable(clock) = {} =>
                         PoolRetryAt = Min({t \in times : \E c \in enabled : admits(c, t)})
  BY DEF SelectionMatches, LastPossible
<1>1. clock \in Nat /\ quota \in [Creds -> QuotaValues] /\ LastPossible \in Nat
  <2>1. clock \in 0..MaxClock /\ quota \in [Creds -> QuotaValues]
    BY DEF QuotaInv, QuotaTypes
  <2> QED
    BY <2>1, LengthsTyped
<1>2. enabled = {c \in Existing : account[c] = "enabled"} /\ enabled \subseteq Existing
  BY DEF Existing
<1>3. ASSUME NEW c \in enabled
      PROVE  /\ RateLimits[c].data.windows = quota[c].windows
             /\ RateLimits[c].data.credits = quota[c].credits
             /\ RateLimits[c].data.windows \in WindowMaps /\ RateLimits[c].data.credits \in BOOLEAN
  <2>1. RateLimits[c].data = FromUsage(c)
    BY <1>2 DEF RateLimits
  <2>2. quota[c] \in QuotaValues
    BY <1>1
  <2> QED
    BY <2>1, <2>2 DEF FromUsage, QuotaValues
<1>4. ASSUME NEW c \in enabled, NEW t
      PROVE  admits(c, t) <=> ~Limited(RateLimits[c].data, t)
  BY <1>3 DEF Limited
<1>5. Usable(clock) = {c \in enabled : admits(c, clock)}
  <2> HIDE DEF enabled, admits
  <2>1. Usable(clock) = {c \in enabled : ~Limited(RateLimits[c].data, clock)}
    BY <1>2 DEF Usable
  <2> QED
    BY <1>4, <2>1
<1>6. ASSUME enabled # {}, Usable(clock) = {}
      PROVE  PoolRetryAt = Min({t \in times : \E c \in enabled : admits(c, t)})
  <2> DEFINE back(c) == LastReset(RateLimits[c].data, clock)
             backs == {back(c) : c \in enabled}
             open == {t \in times : \E c \in enabled : admits(c, t)}
  <2>1. ASSUME NEW c \in enabled
        PROVE  /\ back(c) \in times /\ back(c) \in Nat
               /\ \A t \in times : admits(c, t) <=> t >= back(c)
    <3>1. Limited(RateLimits[c].data, clock)
      <4> HIDE DEF enabled, admits
      <4> QED
        BY <1>4, <1>5, <1>6
    <3>2. /\ back(c) \in Nat /\ back(c) > clock /\ back(c) <= LastPossible
          /\ \A u \in Nat : u >= clock => (Limited(RateLimits[c].data, u) <=> u < back(c))
      BY <1>1, <1>3, <3>1, AdmittedFromReset
    <3> HIDE DEF back
    <3>3. back(c) \in times
      BY <1>1, <3>2
    <3>4. ASSUME NEW t \in times PROVE admits(c, t) <=> t >= back(c)
      <4>1. t \in Nat /\ t >= clock
        BY <1>1
      <4>2. Limited(RateLimits[c].data, t) <=> t < back(c)
        BY <3>2, <4>1
      <4>3. admits(c, t) <=> ~Limited(RateLimits[c].data, t)
        BY <1>4
      <4> HIDE DEF admits, enabled
      <4> QED
        BY <3>2, <4>1, <4>2, <4>3
    <3> QED
      BY <3>2, <3>3, <3>4
  <2>2. PoolRetryAt = Min(backs)
    BY <1>2 DEF PoolRetryAt
  <2> HIDE DEF back, enabled, admits, times
  <2>3. backs \subseteq Nat /\ backs # {}
    BY <1>6, <2>1
  <2>4. Min(backs) \in backs /\ \A y \in backs : Min(backs) <= y
    <3> HIDE DEF backs
    <3> QED
      BY <2>3, MinOf
  <2>5. PICK first \in enabled : Min(backs) = back(first)
    BY <2>4
  <2>6. back(first) \in Nat /\ \A c \in enabled : back(first) <= back(c)
    BY <2>1, <2>4, <2>5
  <2>7. back(first) \in open
    BY <2>1, <2>6
  <2>8. open \subseteq Nat
    BY <1>1 DEF times
  <2>9. ASSUME NEW t \in open PROVE back(first) <= t
    <3>1. PICK c \in enabled : t \in times /\ admits(c, t)
      OBVIOUS
    <3>2. t \in Nat /\ t >= back(c) /\ back(c) \in Nat
      BY <2>1, <2>8, <3>1
    <3> QED
      BY <2>6, <3>2
  <2>10. Min(open) = back(first)
    <3> HIDE DEF open
    <3> QED
      BY <2>7, <2>8, <2>9, MinIs
  <2> QED
    BY <2>2, <2>5, <2>10
<1> QED
  BY <1>5, <1>6

\* Accounts of different credentials are different, so the summary may count
\* either.
LEMMA AccountsCounted ==
  ASSUME QuotaInv, NEW S, S \subseteq Existing
  PROVE  Cardinality(S) = Cardinality({HomeAccount(c) : c \in S})
<1> DEFINE f == [c \in S |-> HomeAccount(c)]
<1>1. \A c \in S : HomeAccount(c).cred = c
  BY DEF HomeAccount
<1>2. DOMAIN f = S /\ \A x, y \in S : f[x] = f[y] => x = y
  BY <1>1
<1>3. S \subseteq Creds
  BY DEF Existing
<1>4. IsFiniteSet(S)
  BY <1>3, QuotaAssumption, FS_Subset
<1>5. {HomeAccount(c) : c \in S} = {f[c] : c \in S}
  OBVIOUS
<1> HIDE DEF f
<1>6. Cardinality({f[c] : c \in S}) = Cardinality(S)
  BY <1>2, <1>4, ImageAsMany
<1> QED
  BY <1>5, <1>6

LEMMA HomeIsRight == QuotaInv => HomeAgrees
<1> SUFFICES ASSUME QuotaInv PROVE HomeAgrees
  OBVIOUS
<1> DEFINE accounts == {HomeAccount(c) : c \in Existing}
           resets == {a.reset : a \in accounts} \ {0}
           all == UNION {ResetsOf(c) : c \in Existing}
           problem(c) == RateLimits[c].status \notin {"", "ok"}
<1>1. Overview.total = Cardinality(accounts)
  BY AccountsCounted DEF Overview
<1>2. Overview.active = Cardinality({a \in accounts : a.enabled /\ ~a.error})
  <2> DEFINE S == {c \in Existing : Healthy(c)}
  <2>1. \A c \in Existing : (HomeAccount(c).enabled /\ ~HomeAccount(c).error) <=> Healthy(c)
    BY DEF HomeAccount, Healthy
  <2>2. {a \in accounts : a.enabled /\ ~a.error} = {HomeAccount(c) : c \in S}
    BY <2>1
  <2>3. Cardinality(S) = Cardinality({HomeAccount(c) : c \in S})
    BY AccountsCounted
  <2>4. Overview.active = Cardinality(S)
    BY DEF Overview
  <2> QED
    BY <2>2, <2>3, <2>4
<1>3. Overview.problems = Cardinality({a \in accounts : a.error})
  <2> DEFINE S == {c \in Existing : problem(c)}
  <2>1. \A c \in Existing : HomeAccount(c).error <=> problem(c)
    BY DEF HomeAccount
  <2>2. {a \in accounts : a.error} = {HomeAccount(c) : c \in S}
    BY <2>1
  <2>3. Cardinality(S) = Cardinality({HomeAccount(c) : c \in S})
    BY AccountsCounted
  <2>4. Overview.problems = Cardinality(S)
    BY DEF Overview
  <2> QED
    BY <2>2, <2>3, <2>4
<1>4. Overview.highest = [w \in QuotaWindows |-> \E a \in accounts : a.full[w]]
  <2>1. \A c \in Existing, w \in QuotaWindows : HomeAccount(c).full[w] = RateLimits[c].data.windows[w].full
    BY DEF HomeAccount
  <2>2. Overview.highest = [w \in QuotaWindows |-> \E c \in Existing : RateLimits[c].data.windows[w].full]
    BY DEF Overview
  <2> QED
    BY <2>1, <2>2
<1>5. ASSUME NEW c \in Existing PROVE ResetsOf(c) \subseteq Nat /\ 0 \notin ResetsOf(c)
  <2>1. c \in Creds
    BY DEF Existing
  <2>2. RateLimits[c].data \in QuotaData
    BY <2>1 DEF RateLimits, QuotaInv, QuotaTypes
  <2>3. \A w \in QuotaWindows : RateLimits[c].data.windows[w].resets \in Nat
    BY <2>2, LengthsTyped DEF QuotaData, WindowMaps
  <2> QED
    BY <2>3 DEF ResetsOf
<1>6. ASSUME NEW c \in Existing
      PROVE  HomeAccount(c).reset = IF ResetsOf(c) = {} THEN 0 ELSE Min(ResetsOf(c))
  BY DEF HomeAccount
<1>7. Overview.next = IF all = {} THEN 0 ELSE Min(all)
  BY DEF Overview
<1>8. all \subseteq Nat /\ 0 \notin all
  BY <1>5
<1>9. resets \subseteq all
  <2> SUFFICES ASSUME NEW c \in Existing, HomeAccount(c).reset # 0 PROVE HomeAccount(c).reset \in all
    OBVIOUS
  <2>1. ResetsOf(c) # {} /\ HomeAccount(c).reset = Min(ResetsOf(c))
    BY <1>6
  <2>2. Min(ResetsOf(c)) \in ResetsOf(c)
    BY <1>5, <2>1, MinOf
  <2> QED
    BY <2>1, <2>2
<1>10. ASSUME NEW c \in Existing, ResetsOf(c) # {}
       PROVE  Min(ResetsOf(c)) \in resets /\ \A y \in ResetsOf(c) : Min(ResetsOf(c)) <= y
  <2>1. Min(ResetsOf(c)) \in ResetsOf(c) /\ \A y \in ResetsOf(c) : Min(ResetsOf(c)) <= y
    BY <1>5, <1>10, MinOf
  <2>2. HomeAccount(c).reset = Min(ResetsOf(c)) /\ Min(ResetsOf(c)) # 0
    BY <1>5, <1>6, <1>10, <2>1
  <2> QED
    BY <2>1, <2>2
<1>11. all = {} <=> resets = {}
  <2>1. ASSUME all # {} PROVE resets # {}
    <3>1. PICK c \in Existing : ResetsOf(c) # {}
      BY <2>1
    <3> QED
      BY <1>10, <3>1
  <2> QED
    BY <1>9, <2>1
<1>12. ASSUME all # {} PROVE Min(all) = Min(resets)
  <2>1. Min(all) \in all /\ \A y \in all : Min(all) <= y
    <3> HIDE DEF all
    <3> QED
      BY <1>8, <1>12, MinOf
  <2>2. PICK c \in Existing : Min(all) \in ResetsOf(c)
    <3>1. \E c \in Existing : Min(all) \in ResetsOf(c)
      BY <2>1
    <3> QED
      BY <3>1
  <2>3. Min(ResetsOf(c)) \in resets /\ Min(ResetsOf(c)) <= Min(all)
    BY <1>10, <2>2
  <2> HIDE DEF all, resets
  <2>4. Min(ResetsOf(c)) \in all /\ Min(all) <= Min(ResetsOf(c))
    BY <1>9, <2>1, <2>3
  <2>5. Min(all) = Min(ResetsOf(c))
    <3>1. Min(all) \in Nat /\ Min(ResetsOf(c)) \in Nat
      BY <1>8, <2>1, <2>4
    <3> QED
      BY <2>3, <2>4, <3>1
  <2>6. \A y \in resets : Min(all) <= y
    BY <1>9, <2>1
  <2>7. resets \subseteq Nat /\ Min(all) \in resets
    BY <1>8, <1>9, <2>3, <2>5
  <2> QED
    BY <2>6, <2>7, MinIs
<1>13. Overview.next = IF resets = {} THEN 0 ELSE Min(resets)
  <2> HIDE DEF all, resets
  <2> QED
    BY <1>7, <1>11, <1>12
<1> QED
  BY <1>1, <1>2, <1>3, <1>4, <1>13 DEF HomeAgrees

\* Who is selected, and the time told when nobody is, follow from the rows
\* alone; a failed query forgets nothing; a call takes one reset credit at
\* most; the home page adds up (QuotaSound).
THEOREM QuotaStaysSound == QuotaSpec => []QuotaSound
<1>1. QuotaInit => QuotaInv
  BY QuotaInitially
<1>2. QuotaInv /\ [QuotaNext]_quotaVars => QuotaInv'
  BY QuotaStep
<1>3. QuotaInv => QuotaSound
  <2> SUFFICES ASSUME QuotaInv PROVE QuotaSound
    OBVIOUS
  <2>1. FailureKeepsData
    <3>1. fetch \in FetchRecords
      BY DEF QuotaInv, QuotaTypes
    <3>2. fetch.pc = "told" => fetch.updated + fetch.failed + fetch.skipped = fetch.loaded
      <4>1. /\ fetch.updated \in Nat /\ fetch.failed \in Nat /\ fetch.skipped \in Nat
            /\ fetch.loaded \in Nat /\ Len(<<>>) = 0
        BY <3>1 DEF FetchRecords
      <4>2. fetch.pc = "told" => /\ fetch.todo = <<>>
                                 /\ fetch.updated + fetch.failed + fetch.skipped + Len(fetch.todo) = fetch.loaded
        BY DEF QuotaInv, FetchCounts
      <4> QED
        BY <4>1, <4>2
    <3> QED
      BY <3>2 DEF FailureKeepsData, QuotaInv, RowsKept
  <2>2. RedeemExact
    BY DEF RedeemExact, QuotaInv, RedeemCounts
  <2> QED
    BY <2>1, <2>2, SelectionIsRight, HomeIsRight DEF QuotaSound
<1> QED
  BY <1>1, <1>2, <1>3, PTL DEF QuotaSpec
=============================================================================
