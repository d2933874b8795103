---------------------------- MODULE RemoteProofs ----------------------------
(***************************************************************************)
(* Proofs about module RemoteCommands: a command runs at most once and is  *)
(* reported as what it was, and a command that has ended is not delivered  *)
(* again; for any number of commands, handlers, faults and remembered      *)
(* nonces.                                                                 *)
(*                                                                         *)
(* The argument does not need the nonces.  A command is clear while it     *)
(* waits: it has not run and nobody speaks of it.  The client takes a      *)
(* command only from the handler it is waiting for, which listed it while  *)
(* it was queued and since when the client has done nothing else; and once *)
(* that handler has answered the row no longer waits, so that no other     *)
(* poll of the client lists it again.                                      *)
(***************************************************************************)
EXTENDS RemoteCommands, FiniteSetTheorems, TLAPS

Waiting == {"none", "queued"}

\* The command has not run and no report of it exists.
Clear(c) ==
  /\ ran[c] = 0 /\ took[c] = "none"
  /\ status[c] \notin {"applied", "failed"}
  /\ \A m \in wire : m.cmd # c

WaitingIsClear == \A c \in Cmds : status[c] \in Waiting => Clear(c)

PollShape ==
  \A h \in Handlers :
    /\ poll[h].pc \in {"idle", "asked", "refused"} => poll[h].todo = {} /\ poll[h].keep = {}
    /\ poll[h].pc = "replied" => poll[h].todo = {}

\* What the handler the client waits for has listed.
ListedIsClear ==
  client.pc = "polling" =>
    /\ client.h \in Handlers
    /\ \A c \in poll[client.h].todo \cup poll[client.h].keep :
         Clear(c) /\ status[c] # "none"
    /\ poll[client.h].pc = "replied" =>
         \A c \in poll[client.h].keep : status[c] # "queued"

Busy == client.pc \in {"next", "execute", "executing", "report", "reporting"}

\* The command is being executed, and no report of it exists.
Begun(c) ==
  /\ ran[c] = 1 /\ took[c] = "part"
  /\ status[c] \notin {"applied", "failed"}
  /\ \A m \in wire : m.cmd # c

\* What the client has fetched and not executed yet.
BatchIsClear ==
  Busy =>
    /\ client.batch # {}
    /\ \A c \in client.batch : status[c] \notin Waiting
    /\ \A c \in client.batch \ {Current} : Clear(c)
    /\ client.pc \in {"next", "execute"} => Clear(Current)
    /\ client.pc = "executing" => Begun(Current)
    /\ client.pc = "report" =>
         /\ \A m \in wire : m.cmd # Current
         /\ client.result \in {"applied", "failed"}
         /\ client.result = "applied" <=> took[Current] = "all"

WireIsTrue ==
  \A m \in wire : /\ m.result = "applied" <=> took[m.cmd] = "all"
                  /\ status[m.cmd] \notin Waiting

Told == \A c \in Cmds : /\ ran[c] <= 1
                        /\ status[c] = "failed" => took[c] # "all"
                        /\ status[c] = "applied" => took[c] = "all"

IInv == /\ TypeOK /\ WaitingIsClear /\ PollShape /\ ListedIsClear
        /\ BatchIsClear /\ WireIsTrue /\ Told

-----------------------------------------------------------------------------
(* The first of a set of numbers                                           *)

\* There is no induction here: the intervals below the members are finite
\* sets, which the library orders by inclusion.
LEMMA FirstIsMember ==
  ASSUME NEW S, S \subseteq Nat, S # {}
  PROVE  First(S) \in S
<1> DEFINE Below == {0..x : x \in S}
<1>1. \A x \in S : 0..x \in FiniteSubsetsOf(Nat)
  BY FS_Interval DEF FiniteSubsetsOf
<1>2. Below \subseteq FiniteSubsetsOf(Nat) /\ Below # {}
  BY <1>1
<1>3. PICK T \in Below : \A U \in Below : <<U, T>> \notin StrictSubsetOrdering(Nat)
  <2> HIDE DEF Below
  <2> QED
    BY <1>2, FS_StrictSubsetOrderingWellFounded, WFMin
<1>4. PICK x \in S : T = 0..x
  OBVIOUS
<1>5. ASSUME NEW y \in S PROVE x <= y
  <2> SUFFICES ASSUME y < x PROVE FALSE
    OBVIOUS
  <2>1. 0..y \subseteq 0..x /\ 0..y # 0..x /\ 0..y \in Below
    OBVIOUS
  <2>2. 0..y \in SUBSET Nat /\ 0..x \in SUBSET Nat
    OBVIOUS
  <2> QED
    BY <1>3, <1>4, <2>1, <2>2 DEF StrictSubsetOrdering
<1> QED
  BY <1>5 DEF First

LEMMA CurrentIsMember ==
  ASSUME TypeOK, client.batch # {} PROVE Current \in client.batch /\ Current \in Cmds
<1>1. client.batch \subseteq Cmds /\ Cmds \subseteq Nat
  BY RemoteAssumption DEF TypeOK
<1> QED
  BY <1>1, FirstIsMember DEF Current

LEMMA NextListed ==
  ASSUME TypeOK, NEW h \in Handlers, poll[h].todo # {}
  PROVE  First(poll[h].todo) \in poll[h].todo /\ First(poll[h].todo) \in Cmds
<1>1. poll[h].todo \subseteq Cmds /\ Cmds \subseteq Nat
  BY RemoteAssumption DEF TypeOK
<1> QED
  BY <1>1, FirstIsMember

-----------------------------------------------------------------------------
(* Types                                                                   *)

Handled == [pc : {"idle", "asked", "listed", "replied", "refused"},
            todo : SUBSET Cmds, keep : SUBSET Cmds]
Polling == [pc : {"idle", "polling", "next", "execute", "executing", "report",
                  "reporting"},
            h : Handlers \cup {None}, batch : SUBSET Cmds,
            result : {"none", "applied", "failed"}]

StatusTyped == status \in [Cmds -> {"none"} \cup Open \cup Final]
PollTyped   == poll \in [Handlers -> Handled]
ClientTyped == client \in Polling
ServerTyped == /\ overdue \subseteq Cmds /\ stale \subseteq Cmds /\ entitled \in BOOLEAN
               /\ views \subseteq Cmds
DeviceTyped == /\ remembered \in Seq(Cmds) /\ Len(remembered) <= MaxRemembered
               /\ ran \in [Cmds -> Nat] /\ took \in [Cmds -> {"none", "part", "all"}]
WireTyped   == wire \subseteq [cmd : Cmds, result : {"applied", "failed"}]
FaultsTyped == faults \in 0..MaxFaults

LEMMA TypeParts ==
  TypeOK <=> /\ StatusTyped /\ PollTyped /\ ClientTyped /\ ServerTyped
             /\ DeviceTyped /\ WireTyped /\ FaultsTyped
BY DEF TypeOK, StatusTyped, PollTyped, ClientTyped, ServerTyped, DeviceTyped,
       WireTyped, FaultsTyped, Handled, Polling

LEMMA HandlerSteps ==
  ASSUME PollTyped, NEW h \in Handlers, NEW x \in Handled, poll' = [poll EXCEPT ![h] = x]
  PROVE  PollTyped'
BY DEF PollTyped

LEMMA RestTyped == Resting \in Polling /\ NoPoll \in Handled
BY DEF Resting, NoPoll, Polling, Handled

LEMMA TypeStep ==
  ASSUME TypeOK, BatchIsClear, Next PROVE TypeOK'
<1>0. /\ StatusTyped /\ PollTyped /\ ClientTyped /\ ServerTyped
      /\ DeviceTyped /\ WireTyped /\ FaultsTyped
  BY TypeParts
<1> DEFINE T == /\ StatusTyped' /\ PollTyped' /\ ClientTyped' /\ ServerTyped'
                /\ DeviceTyped' /\ WireTyped' /\ FaultsTyped'
<1> SUFFICES T
  BY DEF TypeOK, StatusTyped, PollTyped, ClientTyped, ServerTyped, DeviceTyped,
         WireTyped, FaultsTyped, Handled, Polling
<1> USE DEF ServerTyped, DeviceTyped, WireTyped, FaultsTyped
<1>1. ASSUME NEW c \in Cmds, Queue(c) \/ ViewRead(c) \/ ViewExpire(c) PROVE T
  BY <1>0, <1>1
  DEF Queue, ViewRead, ViewExpire, StatusTyped, PollTyped, ClientTyped, Open, Final
<1>2. ASSUME NEW c \in Cmds, ServerExpires(c) \/ ClientExpires(c) PROVE T
  BY <1>0, <1>2 DEF ServerExpires, ClientExpires, StatusTyped, PollTyped, ClientTyped
<1>3. ASSUME NEW h \in Handlers, PollList(h) PROVE T
  <2>1. Listed \in SUBSET Cmds
    BY DEF Listed, Queued
  <2>2. PollTyped'
    BY <1>0, <1>3, <2>1, HandlerSteps DEF PollList, NoPoll, Handled
  <2> QED
    BY <1>0, <1>3, <2>2 DEF PollList, StatusTyped, ClientTyped
<1>4. ASSUME NEW h \in Handlers, PollSort(h) PROVE T
  <2> DEFINE c == First(poll[h].todo)
  <2>1. c \in Cmds
    BY <1>4, NextListed DEF PollSort
  <2>2. poll[h] \in Handled
    BY <1>0 DEF PollTyped
  <2>3. Sorted(poll[h], c) \in Handled
    <3> HIDE DEF c
    <3> QED
      BY <2>1, <2>2 DEF Handled, Sorted
  <2>4. PollTyped'
    BY <1>0, <1>4, <2>3, HandlerSteps DEF PollSort
  <2>5. StatusTyped'
    BY <1>0, <1>4, <2>1 DEF PollSort, StatusTyped, Final
  <2> QED
    BY <1>0, <1>4, <2>4, <2>5 DEF PollSort, ClientTyped
<1>5. ASSUME NEW h \in Handlers, PollMark(h) PROVE T
  <2>1. [poll[h] EXCEPT !.pc = "replied"] \in Handled
    BY <1>0 DEF PollTyped, Handled
  <2>2. PollTyped'
    BY <1>0, <1>5, <2>1, HandlerSteps DEF PollMark
  <2>3. StatusTyped'
    BY <1>0, <1>5 DEF PollMark, MarkDelivered, StatusTyped, Open
  <2> QED
    BY <1>0, <1>5, <2>2, <2>3 DEF PollMark, ClientTyped
<1>6. ASSUME NEW h \in Handlers, PollDropped(h) PROVE T
  BY <1>0, <1>6, HandlerSteps, RestTyped DEF PollDropped, StatusTyped, ClientTyped
<1>7. ASSUME NEW h \in Handlers, ClientPoll(h) \/ ClientRetry(h) PROVE T
  <2>1. /\ [poll[h] EXCEPT !.pc = "asked"] \in Handled
        /\ [client EXCEPT !.pc = "polling", !.h = h] \in Polling
        /\ [client EXCEPT !.h = h] \in Polling
    <3> HIDE DEF ServerTyped, DeviceTyped, WireTyped, FaultsTyped
    <3>1. poll[h] \in Handled
      BY <1>0 DEF PollTyped
    <3>2. [poll[h] EXCEPT !.pc = "asked"] \in Handled
      BY <3>1 DEF Handled
    <3>3. /\ [client EXCEPT !.pc = "polling", !.h = h] \in Polling
          /\ [client EXCEPT !.h = h] \in Polling
      BY <1>0 DEF ClientTyped, Polling
    <3> QED
      BY <3>2, <3>3
  <2>2. PollTyped' /\ ClientTyped'
    <3>1. CASE ClientPoll(h)
      BY <1>0, <2>1, <3>1, HandlerSteps DEF ClientPoll, ClientTyped
    <3>2. CASE ClientRetry(h)
      BY <1>0, <2>1, <3>2, HandlerSteps, RestTyped DEF ClientRetry, ClientTyped, PollTyped
    <3> QED
      BY <1>7, <3>1, <3>2
  <2> QED
    BY <1>0, <1>7, <2>2, RemoteAssumption DEF ClientPoll, ClientRetry, StatusTyped
<1>8. ASSUME NEW h \in Handlers, ClientReceive(h) PROVE T
  <2>1. [client EXCEPT !.pc = "next", !.batch = poll[h].keep] \in Polling
    BY <1>0 DEF PollTyped, Handled, ClientTyped, Polling
  <2>2. PollTyped' /\ ClientTyped'
    BY <1>0, <1>8, <2>1, HandlerSteps, RestTyped DEF ClientReceive, ClientTyped
  <2> QED
    BY <1>0, <1>8, <2>2 DEF ClientReceive, StatusTyped
<1>9. CASE ClientVerify
  <2>1. Current \in Cmds
    BY <1>9, CurrentIsMember DEF BatchIsClear, Busy, ClientVerify
  <2>2. ClientTyped'
    <3> HIDE DEF ServerTyped, DeviceTyped, WireTyped, FaultsTyped
    <3>1. /\ [client EXCEPT !.pc = "report", !.result = "failed"] \in Polling
          /\ [client EXCEPT !.pc = "execute"] \in Polling
      BY <1>0 DEF ClientTyped, Polling
    <3> QED
      BY <1>9, <3>1 DEF ClientVerify, ClientTyped
  <2>3. Remember(Current) \in Seq(Cmds) /\ Len(Remember(Current)) <= MaxRemembered
    <3> HIDE DEF WireTyped, FaultsTyped, ServerTyped
    <3>1. Append(remembered, Current) \in Seq(Cmds) /\ Len(remembered) \in Nat
      BY <1>0, <2>1
    <3>2. Len(Append(remembered, Current)) = Len(remembered) + 1
      BY <1>0, <2>1
    <3> QED
      BY <1>0, <3>1, <3>2, RemoteAssumption DEF Remember
  <2> QED
    BY <1>0, <1>9, <2>2, <2>3 DEF ClientVerify, StatusTyped, PollTyped
<1>10. CASE ClientExecute
  <2>1. Current \in Cmds
    BY <1>10, CurrentIsMember DEF BatchIsClear, Busy, ClientExecute
  <2>2. ClientTyped'
    BY <1>0, <1>10 DEF ClientExecute, ClientTyped, Polling
  <2> QED
    BY <1>0, <1>10, <2>1, <2>2 DEF ClientExecute, StatusTyped, PollTyped
<1>14. CASE ClientFinish
  <2>1. Current \in Cmds
    BY <1>14, CurrentIsMember DEF BatchIsClear, Busy, ClientFinish
  <2>2. ClientTyped'
    BY <1>0, <1>14 DEF ClientFinish, ClientTyped, Polling
  <2> QED
    BY <1>0, <1>14, <2>1, <2>2 DEF ClientFinish, StatusTyped, PollTyped
<1>11. CASE ClientReport
  <2>1. Current \in Cmds /\ client.result \in {"applied", "failed"}
    BY <1>11, CurrentIsMember DEF BatchIsClear, Busy, ClientReport
  <2>2. ClientTyped'
    BY <1>0, <1>11 DEF ClientReport, ClientTyped, Polling
  <2> QED
    BY <1>0, <1>11, <2>1, <2>2 DEF ClientReport, StatusTyped, PollTyped
<1>12. ASSUME NEW m \in wire, SubmitResult(m) PROVE T
  <2>1. m.cmd \in Cmds /\ m.result \in {"applied", "failed"}
    BY <1>0, <1>12
  <2>2. StatusTyped'
    BY <1>0, <1>12, <2>1 DEF SubmitResult, StatusTyped, Final
  <2>3. Advance \in Polling
    BY <1>0, RestTyped DEF Advance, ClientTyped, Polling
  <2>4. ClientTyped'
    BY <1>0, <1>12, <2>3, RestTyped DEF SubmitResult, ClientTyped
  <2> QED
    BY <1>0, <1>12, <2>2, <2>4 DEF SubmitResult, PollTyped
<1>13. CASE ReportFails \/ Crash \/ Revoke
  <2>1. FaultsTyped'
    BY <1>0, <1>13, RemoteAssumption DEF ReportFails, Crash, Revoke
  <2>2. ClientTyped'
    BY <1>0, <1>13, RestTyped DEF ReportFails, Crash, Revoke, ClientTyped
  <2>3. WireTyped'
    BY <1>0, <1>13 DEF ReportFails, Crash, Revoke
  <2>4. StatusTyped' /\ PollTyped' /\ DeviceTyped' /\ ServerTyped'
    BY <1>0, <1>13 DEF ReportFails, Crash, Revoke, StatusTyped, PollTyped
  <2> QED
    BY <2>1, <2>2, <2>3, <2>4
<1> QED
  BY <1>1, <1>2, <1>3, <1>4, <1>5, <1>6, <1>7, <1>8, <1>9, <1>10, <1>11, <1>12, <1>13,
     <1>14
  DEF Next, PollStep, ClientStep

-----------------------------------------------------------------------------
(* Steps of the server                                                     *)

\* Rows go on: what has left the queue stays out of it, and no result comes.
RowsGoOn ==
  \A c \in Cmds :
    \/ status'[c] = status[c]
    \/ status[c] = "none" /\ status'[c] = "queued"
    \/ status'[c] \in {"delivered", "expired"}

LEMMA ClearStays ==
  ASSUME NEW c \in Cmds, Clear(c), RowsGoOn, UNCHANGED <<ran, took, wire>>
  PROVE  Clear(c)'
BY DEF Clear, RowsGoOn

LEMMA BegunStays ==
  ASSUME NEW c \in Cmds, Begun(c), RowsGoOn, UNCHANGED <<ran, took, wire>>
  PROVE  Begun(c)'
BY DEF Begun, RowsGoOn

LEMMA RowsKeep ==
  ASSUME IInv, RowsGoOn, UNCHANGED <<client, ran, took, wire>>
  PROVE  WaitingIsClear' /\ BatchIsClear' /\ WireIsTrue' /\ Told'
<1>1. WaitingIsClear'
  BY ClearStays DEF IInv, WaitingIsClear, RowsGoOn, Waiting
<1>2. Told' /\ WireIsTrue'
  BY TypeParts DEF IInv, Told, WireIsTrue, WireTyped, RowsGoOn, Waiting
<1>3. BatchIsClear'
  <2>1. client.batch \subseteq Cmds
    BY TypeParts DEF IInv, ClientTyped, Polling
  <2>2. PICK k : k = Current
    OBVIOUS
  <2>3. k = Current' /\ (Busy' <=> Busy) /\ client' = client
    BY <2>2 DEF Current, Busy
  <2>4. Busy => k \in client.batch
    BY <2>2, CurrentIsMember DEF IInv, BatchIsClear
  <2>5. \A c \in client.batch : /\ Clear(c) => Clear(c)'
                                /\ Begun(c) => Begun(c)'
                                /\ status[c] \notin Waiting => status'[c] \notin Waiting
    BY <2>1, ClearStays, BegunStays DEF RowsGoOn, Waiting
  <2>6. ASSUME Busy
        PROVE  /\ client.batch # {}
               /\ \A c \in client.batch : status'[c] \notin Waiting
               /\ \A c \in client.batch \ {k} : Clear(c)'
               /\ client.pc \in {"next", "execute"} => Clear(k)'
               /\ client.pc = "executing" => Begun(k)'
               /\ client.pc = "report" =>
                    /\ \A m \in wire : m.cmd # k
                    /\ client.result \in {"applied", "failed"}
                    /\ client.result = "applied" <=> took[k] = "all"
    BY <2>2, <2>4, <2>5, <2>6 DEF IInv, BatchIsClear
  <2> QED
    BY <2>3, <2>6 DEF BatchIsClear
<1> QED
  BY <1>1, <1>2, <1>3

LEMMA RowsKeepListed ==
  ASSUME IInv, RowsGoOn, UNCHANGED <<client, ran, took, wire, poll>>
  PROVE  PollShape' /\ ListedIsClear'
<1>1. PollShape'
  BY DEF IInv, PollShape
<1>2. ASSUME client.pc = "polling",
             NEW c \in poll[client.h].todo \cup poll[client.h].keep
      PROVE  /\ Clear(c)' /\ status'[c] # "none"
             /\ status[c] # "queued" => status'[c] # "queued"
  <2>1. c \in Cmds /\ Clear(c) /\ status[c] # "none"
    BY <1>2, TypeParts DEF IInv, ListedIsClear, PollTyped, Handled
  <2> QED
    BY <2>1, ClearStays DEF RowsGoOn
<1> QED
  BY <1>1, <1>2 DEF IInv, ListedIsClear

LEMMA ServerKeeps ==
  ASSUME IInv, TypeOK',
         \/ \E c \in Cmds : \/ Queue(c) \/ ViewRead(c) \/ ViewExpire(c)
                            \/ ServerExpires(c) \/ ClientExpires(c)
         \/ Revoke
  PROVE  IInv'
<1>1. RowsGoOn /\ UNCHANGED <<client, ran, took, wire, poll>>
  BY TypeParts DEF IInv, RowsGoOn, Queue, ViewRead, ViewExpire, ServerExpires,
                   ClientExpires, Revoke, StatusTyped
<1> QED
  BY <1>1, RowsKeep, RowsKeepListed DEF IInv

-----------------------------------------------------------------------------
(* Steps of a poll handler                                                 *)

\* What one handler does to its own entry.
LEMMA HandlerKeepsListed ==
  ASSUME IInv, RowsGoOn, UNCHANGED <<client, ran, took, wire>>,
         NEW h \in Handlers, NEW x, poll' = [poll EXCEPT ![h] = x],
         x.pc \in {"idle", "asked", "refused"} => x.todo = {} /\ x.keep = {},
         x.pc = "replied" => x.todo = {},
         client.pc = "polling" /\ client.h = h =>
           /\ \A c \in x.todo \cup x.keep : c \in Cmds /\ Clear(c) /\ status[c] # "none"
           /\ x.pc = "replied" => \A c \in x.keep : status'[c] # "queued"
  PROVE  PollShape' /\ ListedIsClear'
<1>1. poll' = [g \in Handlers |-> IF g = h THEN x ELSE poll[g]]
  BY TypeParts DEF IInv, PollTyped
<1>2. PollShape'
  BY <1>1 DEF IInv, PollShape
<1>3. ASSUME client.pc = "polling", client.h = h PROVE ListedIsClear'
  <2>1. poll'[client'.h] = x
    BY <1>1, <1>3
  <2>2. \A c \in x.todo \cup x.keep : Clear(c)' /\ status'[c] # "none"
    BY <1>3, ClearStays DEF RowsGoOn
  <2> QED
    BY <1>3, <2>1, <2>2 DEF ListedIsClear
<1>4. ASSUME client.pc = "polling", client.h # h PROVE ListedIsClear'
  <2>1. client.h \in Handlers /\ poll'[client'.h] = poll[client.h]
    BY <1>1, <1>4 DEF IInv, ListedIsClear
  <2>2. poll[client.h].todo \subseteq Cmds /\ poll[client.h].keep \subseteq Cmds
    BY <2>1, TypeParts DEF IInv, PollTyped, Handled
  <2>3. \A c \in poll[client.h].todo \cup poll[client.h].keep :
          Clear(c)' /\ status'[c] # "none" /\ (status[c] # "queued" => status'[c] # "queued")
    BY <1>4, <2>2, ClearStays DEF IInv, ListedIsClear, RowsGoOn
  <2> QED
    BY <1>4, <2>1, <2>3 DEF IInv, ListedIsClear
<1> QED
  BY <1>2, <1>3, <1>4 DEF ListedIsClear

LEMMA PollKeeps ==
  ASSUME IInv, TypeOK', NEW h \in Handlers, PollStep(h)
  PROVE  IInv'
<1>0. poll[h] \in Handled
  BY TypeParts DEF IInv, PollTyped
<1>1. CASE PollList(h)
  <2>1. RowsGoOn /\ UNCHANGED <<client, ran, took, wire>>
    BY <1>1 DEF PollList, RowsGoOn
  <2>2. \A c \in Listed : c \in Cmds /\ Clear(c) /\ status[c] # "none"
    BY DEF IInv, WaitingIsClear, Waiting, Listed, Queued
  <2>3. PICK x : /\ poll' = [poll EXCEPT ![h] = x]
                 /\ \/ x = [pc |-> "listed", todo |-> Listed, keep |-> {}]
                    \/ x = [pc |-> "refused", todo |-> {}, keep |-> {}]
    <3>1. CASE entitled
      BY <1>1, <3>1 DEF PollList
    <3>2. CASE ~entitled
      <4>1. [NoPoll EXCEPT !.pc = "refused"] = [pc |-> "refused", todo |-> {}, keep |-> {}]
        BY DEF NoPoll
      <4> QED
        BY <1>1, <3>2, <4>1 DEF PollList
    <3> QED
      BY <3>1, <3>2
  <2>4. PollShape' /\ ListedIsClear'
    BY <2>1, <2>2, <2>3, HandlerKeepsListed
  <2> QED
    BY <2>1, <2>4, RowsKeep DEF IInv
<1>2. CASE PollSort(h)
  <2> DEFINE c == First(poll[h].todo)
             x == Sorted(poll[h], c)
  <2>1. c \in poll[h].todo /\ c \in Cmds
    BY <1>2, NextListed DEF PollSort, IInv
  <2>2. RowsGoOn /\ UNCHANGED <<client, ran, took, wire>>
    BY <1>2, <2>1, TypeParts DEF PollSort, RowsGoOn, IInv, StatusTyped
  <2>3. x.pc = "listed" /\ x.todo \cup x.keep \subseteq poll[h].todo \cup poll[h].keep
    BY <1>0, <1>2, <2>1 DEF PollSort, Sorted, Handled
  <2>4. poll' = [poll EXCEPT ![h] = x]
    BY <1>2 DEF PollSort
  <2> HIDE DEF x, c
  <2>5. client.pc = "polling" /\ client.h = h =>
          \A k \in x.todo \cup x.keep : k \in Cmds /\ Clear(k) /\ status[k] # "none"
    BY <1>0, <2>3 DEF IInv, ListedIsClear, Handled
  <2>6. PollShape' /\ ListedIsClear'
    BY <2>2, <2>3, <2>4, <2>5, HandlerKeepsListed
  <2> QED
    BY <2>2, <2>6, RowsKeep DEF IInv
<1>3. CASE PollMark(h)
  <2> DEFINE x == [poll[h] EXCEPT !.pc = "replied"]
  <2>1. RowsGoOn /\ UNCHANGED <<client, ran, took, wire>>
    BY <1>3 DEF PollMark, MarkDelivered, RowsGoOn
  <2>2. x.pc = "replied" /\ x.todo = {} /\ x.keep = poll[h].keep /\ x.keep \subseteq Cmds
    BY <1>0, <1>3 DEF PollMark, Handled
  <2>3. \A c \in poll[h].keep : status'[c] # "queued"
    BY <1>3, <2>2 DEF PollMark, MarkDelivered
  <2>4. poll' = [poll EXCEPT ![h] = x]
    BY <1>3 DEF PollMark
  <2> HIDE DEF x
  <2>5. client.pc = "polling" /\ client.h = h =>
          \A k \in x.todo \cup x.keep : k \in Cmds /\ Clear(k) /\ status[k] # "none"
    BY <2>2 DEF IInv, ListedIsClear
  <2>6. PollShape' /\ ListedIsClear'
    BY <2>1, <2>2, <2>3, <2>4, <2>5, HandlerKeepsListed
  <2> QED
    BY <2>1, <2>6, RowsKeep DEF IInv
<1>4. CASE PollDropped(h)
  <2>1. RowsGoOn /\ UNCHANGED <<client, ran, took, wire>>
    BY <1>4 DEF PollDropped, RowsGoOn
  <2>2. PollShape' /\ ListedIsClear'
    BY <1>4, <2>1, HandlerKeepsListed DEF PollDropped, NoPoll
  <2> QED
    BY <2>1, <2>2, RowsKeep DEF IInv
<1> QED
  BY <1>1, <1>2, <1>3, <1>4 DEF PollStep

-----------------------------------------------------------------------------
(* Steps of the client                                                     *)

Unspoken == UNCHANGED <<status, ran, took, wire>>

LEMMA UnspokenKeeps ==
  ASSUME IInv, Unspoken
  PROVE  /\ WaitingIsClear' /\ WireIsTrue' /\ Told'
         /\ \A c : Clear(c) => Clear(c)'
BY DEF IInv, Unspoken, WaitingIsClear, WireIsTrue, Told, Clear

LEMMA NotBusy ==
  ASSUME client'.pc \in {"idle", "polling"} PROVE BatchIsClear'
BY DEF BatchIsClear, Busy

LEMMA ClientPollKeeps ==
  ASSUME IInv, TypeOK', NEW h \in Handlers, ClientPoll(h) \/ ClientRetry(h)
  PROVE  IInv'
<1>1. Unspoken
  BY DEF ClientPoll, ClientRetry, Unspoken
<1>2. client \in Polling /\ poll \in [Handlers -> Handled]
  BY TypeParts DEF IInv, ClientTyped, PollTyped
<1>3. CASE client' = Resting /\ poll' = poll
  BY <1>1, <1>3, UnspokenKeeps, NotBusy DEF IInv, Resting, ListedIsClear, PollShape
<1>4. CASE /\ poll[h].pc = "idle" /\ client'.pc = "polling" /\ client'.h = h
           /\ poll' = [poll EXCEPT ![h] = [@ EXCEPT !.pc = "asked"]]
  <2>1. poll[h].todo = {} /\ poll[h].keep = {}
    BY <1>4 DEF IInv, PollShape
  <2>2. poll'[h].pc = "asked" /\ poll'[h].todo = {} /\ poll'[h].keep = {}
    BY <1>2, <1>4, <2>1 DEF Handled
  <2>3. \A g \in Handlers \ {h} : poll'[g] = poll[g]
    BY <1>2, <1>4
  <2>4. PollShape' /\ ListedIsClear'
    BY <1>4, <2>2, <2>3 DEF IInv, PollShape, ListedIsClear
  <2> QED
    BY <1>1, <1>4, <2>4, UnspokenKeeps, NotBusy DEF IInv
<1> QED
  <2>1. CASE ClientPoll(h)
    BY <1>2, <1>4, <2>1 DEF ClientPoll, Polling
  <2>2. CASE ClientRetry(h)
    BY <1>2, <1>3, <1>4, <2>2 DEF ClientRetry, Polling
  <2> QED
    BY <2>1, <2>2

LEMMA ClientReceiveKeeps ==
  ASSUME IInv, TypeOK', NEW h \in Handlers, ClientReceive(h)
  PROVE  IInv'
<1>1. Unspoken
  BY DEF ClientReceive, Unspoken
<1>2. client \in Polling /\ poll \in [Handlers -> Handled]
  BY TypeParts DEF IInv, ClientTyped, PollTyped
<1>3. PollShape'
  BY <1>2 DEF ClientReceive, IInv, PollShape, NoPoll
<1>4. \A c \in poll[h].keep : Clear(c) /\ status[c] \notin Waiting
  BY DEF ClientReceive, IInv, ListedIsClear, PollShape, Waiting
<1>5. CASE poll[h].keep = {}
  BY <1>1, <1>3, <1>5, UnspokenKeeps, NotBusy
  DEF IInv, ClientReceive, Resting, ListedIsClear
<1>6. CASE poll[h].keep # {}
  <2>1. client'.pc = "next" /\ client'.batch = poll[h].keep
    BY <1>2, <1>6 DEF ClientReceive, Polling
  <2>2. PICK k : k = Current'
    OBVIOUS
  <2>3. k \in poll[h].keep
    BY <1>6, <2>1, <2>2, FirstIsMember, RemoteAssumption, <1>2 DEF Current, Handled
  <2>4. \A c \in poll[h].keep : Clear(c)' /\ status'[c] \notin Waiting
    BY <1>1, <1>4, UnspokenKeeps DEF Unspoken
  <2>5. BatchIsClear'
    BY <1>6, <2>1, <2>2, <2>3, <2>4 DEF BatchIsClear
  <2>6. ListedIsClear'
    BY <2>1 DEF ListedIsClear
  <2> QED
    BY <1>1, <1>3, <2>5, <2>6, UnspokenKeeps DEF IInv
<1> QED
  BY <1>5, <1>6

LEMMA ClientVerifyKeeps ==
  ASSUME IInv, TypeOK', ClientVerify
  PROVE  IInv'
<1>1. Unspoken /\ poll' = poll
  BY DEF ClientVerify, Unspoken
<1>2. client \in Polling
  BY TypeParts DEF IInv, ClientTyped
<1>3. /\ client'.pc \in {"report", "execute"} /\ client'.batch = client.batch
      /\ client'.pc = "report" => client'.result = "failed"
  BY <1>2 DEF ClientVerify, Polling
<1>4. PICK k : k = Current
  OBVIOUS
<1>5. k = Current'
  BY <1>3, <1>4 DEF Current
<1>6. /\ client.batch # {} /\ Clear(k)
      /\ \A c \in client.batch : status[c] \notin Waiting
      /\ \A c \in client.batch \ {k} : Clear(c)
  BY <1>4 DEF IInv, BatchIsClear, Busy, ClientVerify
<1>7. /\ Clear(k)' /\ \A c \in client.batch : status'[c] \notin Waiting
      /\ \A c \in client.batch \ {k} : Clear(c)'
  BY <1>1, <1>6, UnspokenKeeps DEF Unspoken
<1>8. BatchIsClear'
  <2>1. took'[k] # "all" /\ \A m \in wire' : m.cmd # k
    BY <1>7 DEF Clear
  <2> QED
    BY <1>3, <1>5, <1>6, <1>7, <2>1 DEF BatchIsClear
<1>9. ListedIsClear' /\ PollShape'
  BY <1>1, <1>3 DEF ListedIsClear, PollShape, IInv
<1> QED
  BY <1>1, <1>8, <1>9, UnspokenKeeps DEF IInv

\* Somebody speaks of k; every other command stays clear.
LEMMA ClearUnless ==
  ASSUME NEW k, NEW c, c # k, Clear(c),
         ran'[c] = ran[c], took'[c] = took[c], status'[c] = status[c],
         \A m \in wire' : m \in wire \/ m.cmd = k
  PROVE  Clear(c)'
BY DEF Clear

LEMMA ClientExecuteKeeps ==
  ASSUME IInv, TypeOK', ClientExecute \/ ClientFinish
  PROVE  IInv'
<1>1. /\ client \in Polling /\ ran \in [Cmds -> Nat]
      /\ took \in [Cmds -> {"none", "part", "all"}]
  BY TypeParts DEF IInv, ClientTyped, DeviceTyped
<1>2. PICK k : k = Current
  OBVIOUS
<1>3. /\ k \in client.batch /\ k \in Cmds
      /\ (ClientExecute /\ Clear(k)) \/ (ClientFinish /\ Begun(k))
      /\ \A c \in client.batch : status[c] \notin Waiting
      /\ \A c \in client.batch \ {k} : Clear(c)
  BY <1>2, CurrentIsMember DEF IInv, BatchIsClear, Busy, ClientExecute, ClientFinish
<1>4. /\ client'.pc \in {"executing", "report"} /\ client'.batch = client.batch
      /\ client'.pc = "report" =>
           /\ client'.result \in {"applied", "failed"}
           /\ client'.result = "applied" <=> took'[k] = "all"
      /\ client'.pc = "executing" => took'[k] = "part"
      /\ ran'[k] = 1
      /\ \A c \in Cmds \ {k} : took'[c] = took[c] /\ ran'[c] = ran[c]
      /\ UNCHANGED <<status, wire, poll>>
  <2>1. /\ client'.pc \in {"executing", "report"} /\ client'.batch = client.batch
        /\ client'.pc = "report" => client'.result \in {"applied", "failed"}
        /\ UNCHANGED <<status, wire, poll>>
    BY <1>1, <1>3 DEF ClientExecute, ClientFinish, Polling
  <2>2. CASE ClientExecute /\ ran[k] = 0 /\ took[k] = "none"
    <3>1. ran' = [ran EXCEPT ![k] = ran[k] + 1]
      BY <1>2, <2>2 DEF ClientExecute
    <3>2. \/ client'.pc = "report" /\ client'.result = "failed" /\ took' = took
          \/ client'.pc = "executing" /\ took' = [took EXCEPT ![k] = "part"]
      BY <1>1, <1>2, <2>2 DEF ClientExecute, Polling
    <3> QED
      BY <1>1, <1>3, <2>1, <2>2, <3>1, <3>2
  <2>3. CASE ClientFinish /\ ran[k] = 1 /\ took[k] = "part"
    <3>1. ran' = ran /\ client'.pc = "report"
      BY <1>1, <2>3 DEF ClientFinish, Polling
    <3>2. \/ client'.result = "failed" /\ took' = took
          \/ client'.result = "applied" /\ took' = [took EXCEPT ![k] = "all"]
      BY <1>1, <1>2, <2>3 DEF ClientFinish, Polling
    <3> QED
      BY <1>1, <1>3, <2>1, <2>3, <3>1, <3>2
  <2> QED
    BY <1>3, <2>2, <2>3 DEF Clear, Begun
<1>5. k = Current'
  BY <1>2, <1>4 DEF Current
<1>6. \A c \in Cmds \ {k} : Clear(c) => Clear(c)'
  BY <1>1, <1>4, ClearUnless
<1>7. WaitingIsClear'
  BY <1>3, <1>4, <1>6 DEF IInv, WaitingIsClear
<1>8. status[k] \notin {"applied", "failed"} /\ \A m \in wire : m.cmd # k
  BY <1>3 DEF Clear, Begun
<1>9. BatchIsClear'
  <2>1. \A c \in client'.batch \ {k} : Clear(c)'
    BY <1>1, <1>3, <1>4, <1>6 DEF Polling
  <2>2. client'.pc = "executing" => Begun(k)'
    BY <1>4, <1>8 DEF Begun
  <2> QED
    BY <1>3, <1>4, <1>5, <1>8, <2>1, <2>2 DEF BatchIsClear
<1>10. WireIsTrue'
  <2>1. \A m \in wire : m.cmd \in Cmds
    BY TypeParts DEF IInv, WireTyped
  <2> QED
    BY <1>4, <1>8, <2>1 DEF IInv, WireIsTrue
<1>11. Told'
  BY <1>1, <1>3, <1>4, <1>8 DEF IInv, Told
<1>12. ListedIsClear' /\ PollShape'
  BY <1>4 DEF ListedIsClear, PollShape, IInv
<1> QED
  BY <1>7, <1>9, <1>10, <1>11, <1>12 DEF IInv

LEMMA ClientReportKeeps ==
  ASSUME IInv, TypeOK', ClientReport
  PROVE  IInv'
<1>1. client \in Polling
  BY TypeParts DEF IInv, ClientTyped
<1>2. PICK k : k = Current
  OBVIOUS
<1>3. /\ k \in client.batch /\ k \in Cmds /\ status[k] \notin Waiting
      /\ \A c \in client.batch : status[c] \notin Waiting
      /\ \A c \in client.batch \ {k} : Clear(c)
      /\ client.result = "applied" <=> took[k] = "all"
  BY <1>2, CurrentIsMember DEF IInv, BatchIsClear, Busy, ClientReport
<1>4. /\ client'.pc = "reporting" /\ client'.batch = client.batch
      /\ wire' = wire \cup {[cmd |-> k, result |-> client.result]}
      /\ UNCHANGED <<status, ran, took, poll>>
  BY <1>1, <1>2 DEF ClientReport, Polling
<1>5. k = Current'
  BY <1>2, <1>4 DEF Current
<1>6. \A c \in Cmds \ {k} : Clear(c) => Clear(c)'
  BY <1>4, ClearUnless
<1>7. WaitingIsClear'
  BY <1>3, <1>4, <1>6 DEF IInv, WaitingIsClear
<1>8. BatchIsClear'
  <2>1. \A c \in client'.batch \ {k} : Clear(c)'
    BY <1>1, <1>3, <1>4, <1>6 DEF Polling
  <2> QED
    BY <1>3, <1>4, <1>5, <2>1 DEF BatchIsClear
<1>9. WireIsTrue'
  BY <1>3, <1>4 DEF IInv, WireIsTrue
<1>10. Told' /\ ListedIsClear' /\ PollShape'
  BY <1>4 DEF Told, ListedIsClear, PollShape, IInv
<1> QED
  BY <1>7, <1>8, <1>9, <1>10 DEF IInv

\* Messages disappear, and the client may give up.
LEMMA LossKeeps ==
  ASSUME IInv, TypeOK', client' = Resting, wire' \subseteq wire,
         UNCHANGED <<status, poll, ran, took>>
  PROVE  IInv'
<1>1. \A c : Clear(c) => Clear(c)'
  BY DEF Clear
<1>2. WaitingIsClear' /\ WireIsTrue' /\ Told' /\ PollShape'
  BY <1>1 DEF IInv, WaitingIsClear, WireIsTrue, Told, PollShape
<1> QED
  BY <1>2, NotBusy DEF IInv, ListedIsClear, Resting

LEMMA SubmitKeeps ==
  ASSUME IInv, TypeOK', NEW m \in wire, SubmitResult(m)
  PROVE  IInv'
<1>1. /\ client \in Polling /\ client.batch \subseteq Cmds
      /\ m.cmd \in Cmds /\ m.result \in {"applied", "failed"}
      /\ status \in [Cmds -> {"none"} \cup Open \cup Final]
  BY TypeParts DEF IInv, ClientTyped, WireTyped, StatusTyped, Polling
<1>2. /\ m.result = "applied" <=> took[m.cmd] = "all"
      /\ status[m.cmd] \notin Waiting
  BY DEF IInv, WireIsTrue
<1>3. /\ \/ status' = status
         \/ status' = [status EXCEPT ![m.cmd] = m.result]
      /\ UNCHANGED <<poll, ran, took>> /\ wire' = wire \ {m}
  BY DEF SubmitResult
<1>4. \A c \in Cmds : Clear(c) => c # m.cmd /\ Clear(c)'
  BY <1>1, <1>3 DEF Clear
<1>5. \A c \in Cmds :
        /\ status'[c] \in Waiting => status[c] \in Waiting
        /\ status[c] \notin Waiting => status'[c] \notin Waiting
        /\ status[c] # "none" => status'[c] # "none"
  BY <1>1, <1>3 DEF Waiting
<1>6. WaitingIsClear'
  BY <1>4, <1>5 DEF IInv, WaitingIsClear
<1>7. WireIsTrue'
  <2>1. \A n \in wire : n.cmd \in Cmds
    BY TypeParts DEF IInv, WireTyped
  <2> QED
    BY <1>3, <1>5, <2>1 DEF IInv, WireIsTrue
<1>8. Told'
  BY <1>1, <1>2, <1>3 DEF IInv, Told
<1>9. PollShape'
  BY <1>3 DEF IInv, PollShape
<1>10. BatchIsClear' /\ ListedIsClear'
  <2>1. CASE client' = client
    <3>1. ListedIsClear'
      <4>1. \A h \in Handlers : poll[h].todo \cup poll[h].keep \subseteq Cmds
        BY TypeParts DEF IInv, PollTyped, Handled
      <4>2. client.pc = "polling" =>
              \A c \in poll[client.h].todo \cup poll[client.h].keep :
                /\ Clear(c)' /\ status'[c] # "none"
                /\ status[c] # "queued" => status'[c] # "queued"
        BY <1>4, <1>5, <4>1 DEF IInv, ListedIsClear, Waiting
      <4> QED
        BY <1>3, <2>1, <4>2 DEF IInv, ListedIsClear
    <3>2. PICK k : k = Current
      OBVIOUS
    <3>3. k = Current' /\ (Busy' <=> Busy)
      BY <2>1, <3>2 DEF Current, Busy
    <3>4. ASSUME Busy PROVE BatchIsClear'
      <4>1. /\ client.batch # {} /\ k \in client.batch
            /\ \A c \in client.batch : status[c] \notin Waiting
            /\ \A c \in client.batch \ {k} : Clear(c)
            /\ client.pc \in {"next", "execute"} => Clear(k)
            /\ client.pc = "executing" => Begun(k)
            /\ client.pc = "report" =>
                 /\ \A n \in wire : n.cmd # k
                 /\ client.result \in {"applied", "failed"}
                 /\ client.result = "applied" <=> took[k] = "all"
        BY <3>2, <3>4, CurrentIsMember DEF IInv, BatchIsClear
      <4>2. /\ \A c \in client.batch : status'[c] \notin Waiting
            /\ \A c \in client.batch \ {k} : Clear(c)'
            /\ client.pc \in {"next", "execute"} => Clear(k)'
            /\ client.pc = "executing" => Begun(k)'
        BY <1>1, <1>3, <1>4, <1>5, <4>1 DEF Begun
      <4> QED
        BY <1>3, <2>1, <3>3, <4>1, <4>2 DEF BatchIsClear
    <3> QED
      BY <3>1, <3>3, <3>4 DEF BatchIsClear
  <2>2. CASE client' = Resting
    BY <2>2, NotBusy DEF ListedIsClear, Resting
  <2>3. CASE client.pc = "reporting" /\ client' = Advance /\ Advance # Resting
    <3>1. PICK k : k = Current
      OBVIOUS
    <3>2. /\ \A c \in client.batch : status[c] \notin Waiting
          /\ \A c \in client.batch \ {k} : Clear(c)
          /\ client.batch # {} /\ k \in client.batch
      BY <2>3, <3>1, CurrentIsMember DEF IInv, BatchIsClear, Busy
    <3>3. /\ client'.pc = "next" /\ client'.batch = client.batch \ {k}
          /\ client.batch # {k}
      BY <1>1, <2>3, <3>1 DEF Advance, Polling
    <3>4. PICK j : j = Current'
      OBVIOUS
    <3>5. j \in client'.batch
      BY <1>1, <3>2, <3>3, <3>4, FirstIsMember, RemoteAssumption DEF Current
    <3>6. \A c \in client'.batch : Clear(c)' /\ status'[c] \notin Waiting
      BY <1>1, <1>4, <1>5, <3>2, <3>3
    <3>7. BatchIsClear'
      BY <3>3, <3>4, <3>5, <3>6 DEF BatchIsClear
    <3> QED
      BY <3>3, <3>7 DEF ListedIsClear
  <2> QED
    BY <2>1, <2>2, <2>3 DEF SubmitResult
<1> QED
  BY <1>6, <1>7, <1>8, <1>9, <1>10 DEF IInv

-----------------------------------------------------------------------------
(* The theorems                                                            *)

LEMMA InitHolds == Init => IInv
BY RemoteAssumption
DEF Init, IInv, TypeOK, WaitingIsClear, Clear, PollShape, ListedIsClear, BatchIsClear,
    WireIsTrue, Told, Busy, NoPoll, Resting

LEMMA StepHolds == IInv /\ [Next]_vars => IInv'
<1> SUFFICES ASSUME IInv, [Next]_vars PROVE IInv'
  OBVIOUS
<1>1. CASE Next
  <2>1. TypeOK'
    BY <1>1, TypeStep DEF IInv
  <2> QED
    <3>1. CASE \E c \in Cmds : \/ Queue(c) \/ ViewRead(c) \/ ViewExpire(c)
                              \/ ServerExpires(c) \/ ClientExpires(c)
      BY <2>1, <3>1, ServerKeeps
    <3>2. CASE \E h \in Handlers : PollStep(h)
      BY <2>1, <3>2, PollKeeps
    <3>3. CASE \E h \in Handlers : ClientPoll(h) \/ ClientRetry(h)
      BY <2>1, <3>3, ClientPollKeeps
    <3>4. CASE \E h \in Handlers : ClientReceive(h)
      BY <2>1, <3>4, ClientReceiveKeeps
    <3>5. CASE ClientVerify
      BY <2>1, <3>5, ClientVerifyKeeps
    <3>6. CASE ClientExecute \/ ClientFinish
      BY <2>1, <3>6, ClientExecuteKeeps
    <3>7. CASE ClientReport
      BY <2>1, <3>7, ClientReportKeeps
    <3>8. CASE \E m \in wire : SubmitResult(m)
      BY <2>1, <3>8, SubmitKeeps
    <3>9. CASE ReportFails \/ Crash
      BY <2>1, <3>9, LossKeeps DEF ReportFails, Crash
    <3>10. CASE Revoke
      BY <2>1, <3>10, ServerKeeps
    <3> QED
      BY <1>1, <3>1, <3>2, <3>3, <3>4, <3>5, <3>6, <3>7, <3>8, <3>9, <3>10
      DEF Next, ClientStep
<1>2. CASE UNCHANGED vars
  BY <1>2 DEF vars, IInv, TypeOK, WaitingIsClear, Clear, PollShape, ListedIsClear,
              BatchIsClear, Busy, Begun, Current, WireIsTrue, Told
<1> QED
  BY <1>1, <1>2

\* No command is executed twice, across retries, crashes and lost reports,
\* whatever the number of nonces; one that was applied is never said to have
\* failed, and one that was not, or in part, never to have been applied.
THEOREM ReportsAlwaysTrue == Spec => []ReportsAreTrue
<1>1. IInv => ReportsAreTrue
  BY DEF IInv, Told, ReportsAreTrue
<1> QED
  BY <1>1, InitHolds, StepHolds, PTL DEF Spec

\* A command that has come to an end is never delivered again.
THEOREM EndedStaysEnded == Spec => NeverReopened
<1>1. IInv /\ [Next]_vars =>
        [\A c \in Cmds : status[c] \in Final => status'[c] \in Final]_vars
  <2> SUFFICES ASSUME IInv, Next
               PROVE  \A c \in Cmds : status[c] \in Final => status'[c] \in Final
    OBVIOUS
  <2>1. status \in [Cmds -> {"none"} \cup Open \cup Final]
    BY TypeParts DEF IInv, StatusTyped
  <2>2. \A m \in wire : m.result \in {"applied", "failed"}
    BY TypeParts DEF IInv, WireTyped
  <2> QED
    BY <2>1, <2>2
    DEF Next, Queue, ViewRead, ViewExpire, ServerExpires, ClientExpires, PollStep,
        PollList, PollSort, PollMark, PollDropped, MarkDelivered, ClientStep, ClientPoll,
        ClientRetry, ClientReceive, ClientVerify, ClientExecute, ClientFinish, ClientReport,
        SubmitResult, ReportFails, Crash, Revoke, Final
<1> QED
  BY <1>1, InitHolds, StepHolds, PTL DEF Spec, NeverReopened
=============================================================================
