--------------------------- MODULE RemoteCommands ---------------------------
(***************************************************************************)
(* Remote management of one device: the command rows of the licence server *)
(* (internal/onlinelicense/store.go, service.go) and the client that       *)
(* fetches commands, executes them and reports                             *)
(* (internal/onlinelicense/client_license.go).                             *)
(*                                                                         *)
(* Every SQL statement of the server is a step, because its handlers run   *)
(* concurrently: a poll the client has given up on goes on beside the one  *)
(* it sends to the next server URL, a result may arrive late, and an       *)
(* administrator's view expires what it has read as overdue.  The client   *)
(* itself runs one poll at a time.                                         *)
(*                                                                         *)
(* Server and client look at clocks of their own: a command may be overdue *)
(* for one and not yet for the other.                                      *)
(***************************************************************************)
EXTENDS Naturals, FiniteSets, Sequences

CONSTANTS
  Cmds,           \* command ids; rows are listed in the order of the ids
  Handlers,       \* poll requests the server works on at the same time
  Batch,          \* ListQueuedRemoteCommands: at most so many per poll
  MaxRemembered,  \* maxRememberedRemoteCommands
  MaxFaults,      \* bound: lost or late answers and crashes of the client
  None            \* no handler

ASSUME RemoteAssumption ==
  /\ Cmds \subseteq Nat /\ IsFiniteSet(Cmds)
  /\ Batch \in Nat \ {0} /\ MaxRemembered \in Nat \ {0}
  /\ MaxFaults \in Nat /\ None \notin Handlers

VARIABLES
  status,      \* status[c]: the row's status, "none" before it is queued
  overdue,     \* commands the server's clock has passed
  stale,       \* commands the client's clock has passed
  entitled,    \* the ticket is accepted (validateOnlineTicket)
  poll,        \* poll[h]: a poll handler: what it listed and what it keeps
  views,       \* commands a view has read as open and overdue
  client,      \* the client's poll in progress
  remembered,  \* the persisted nonces, oldest first
  wire,        \* results on their way to the server
  ran,         \* ran[c]: how often the client has executed c
  took,        \* took[c]: how much of c took effect: "none", "part", or "all"
               \* of it without an error
  faults

vars == <<status, overdue, stale, entitled, poll, views, client, remembered,
          wire, ran, took, faults>>

Open  == {"queued", "delivered"}
Final == {"applied", "failed", "expired"}

NoPoll == [pc |-> "idle", todo |-> {}, keep |-> {}]
Resting == [pc |-> "idle", h |-> None, batch |-> {}, result |-> "none"]

First(S) == CHOOSE c \in S : \A o \in S : c <= o
Holds(seq, c) == \E i \in DOMAIN seq : seq[i] = c

Init ==
  /\ status = [c \in Cmds |-> "none"]
  /\ overdue = {} /\ stale = {} /\ entitled = TRUE
  /\ poll = [h \in Handlers |-> NoPoll]
  /\ views = {} /\ client = Resting /\ remembered = <<>> /\ wire = {}
  /\ ran = [c \in Cmds |-> 0] /\ took = [c \in Cmds |-> "none"] /\ faults = 0

-----------------------------------------------------------------------------
(* The administrator                                                       *)

\* queueRemoteCommandFor, CreateRemoteCommand
Queue(c) ==
  /\ status[c] = "none"
  /\ \A o \in Cmds : o < c => status[o] # "none"
  /\ status' = [status EXCEPT ![c] = "queued"]
  /\ UNCHANGED <<overdue, stale, entitled, poll, views, client, remembered,
                 wire, ran, took, faults>>

\* RemoteCommandFor reads the row ...
ViewRead(c) ==
  /\ c \in overdue /\ status[c] \in Open
  /\ views' = views \cup {c}
  /\ UNCHANGED <<status, overdue, stale, entitled, poll, client, remembered,
                 wire, ran, took, faults>>

\* ... and then marks it expired, whatever it has become.
ViewExpire(c) ==
  /\ c \in views
  /\ status' = [status EXCEPT ![c] = "expired"]
  /\ views' = views \ {c}
  /\ UNCHANGED <<overdue, stale, entitled, poll, client, remembered, wire,
                 ran, took, faults>>

-----------------------------------------------------------------------------
(* The server's poll handler: PollRemoteCommands                           *)

Queued == {c \in Cmds : status[c] = "queued"}
Listed == {c \in Queued : Cardinality({o \in Queued : o < c}) < Batch}

PollList(h) ==
  /\ poll[h].pc = "asked"
  /\ poll' = [poll EXCEPT ![h] =
       IF entitled THEN [pc |-> "listed", todo |-> Listed, keep |-> {}]
                   ELSE [NoPoll EXCEPT !.pc = "refused"]]
  /\ UNCHANGED <<status, overdue, stale, entitled, views, client, remembered,
                 wire, ran, took, faults>>

\* One listed command is looked at; an overdue one is not sent.
Sorted(p, c) == [p EXCEPT !.todo = @ \ {c},
                          !.keep = IF c \in overdue THEN @ ELSE @ \cup {c}]

\* Mutant: an overdue command is passed over and its row left as it is.
PassOver(h) ==
  LET c == First(poll[h].todo) IN
  /\ poll[h].pc = "listed" /\ poll[h].todo # {}
  /\ poll' = [poll EXCEPT ![h] = Sorted(@, c)]
  /\ UNCHANGED <<status, overdue, stale, entitled, views, client, remembered,
                 wire, ran, took, faults>>

\* The loop over the listed commands: an overdue one is marked expired,
\* whatever its row says by now.
PollSort(h) ==
  LET c == First(poll[h].todo) IN
  /\ poll[h].pc = "listed" /\ poll[h].todo # {}
  /\ status' = IF c \in overdue THEN [status EXCEPT ![c] = "expired"] ELSE status
  /\ poll' = [poll EXCEPT ![h] = Sorted(@, c)]
  /\ UNCHANGED <<overdue, stale, entitled, views, client, remembered, wire,
                 ran, took, faults>>

\* Mutant: the rows stay queued.
MarkNone(S) == status
\* Mutant: the rows are marked whatever their status.
MarkAll(S) == [c \in Cmds |-> IF c \in S THEN "delivered" ELSE status[c]]

\* MarkRemoteCommandsDelivered: one transaction, only rows still queued.
MarkDelivered(S) ==
  [c \in Cmds |-> IF c \in S /\ status[c] = "queued" THEN "delivered"
                                                     ELSE status[c]]

PollMark(h) ==
  /\ poll[h].pc = "listed" /\ poll[h].todo = {}
  /\ status' = MarkDelivered(poll[h].keep)
  /\ poll' = [poll EXCEPT ![h] = [@ EXCEPT !.pc = "replied"]]
  /\ UNCHANGED <<overdue, stale, entitled, views, client, remembered, wire,
                 ran, took, faults>>

-----------------------------------------------------------------------------
(* The client: pollRemote                                                  *)

ClientPoll(h) ==
  /\ client.pc = "idle" /\ poll[h].pc = "idle"
  /\ client' = [client EXCEPT !.pc = "polling", !.h = h]
  /\ poll' = [poll EXCEPT ![h] = [@ EXCEPT !.pc = "asked"]]
  /\ UNCHANGED <<status, overdue, stale, entitled, views, remembered, wire,
                 ran, took, faults>>

\* A timeout: postJSON asks the next server URL, or gives up.  The handler
\* goes on; its answer is not read.
ClientRetry(h) ==
  /\ client.pc = "polling"
  /\ faults < MaxFaults /\ faults' = faults + 1
  /\ \/ /\ poll[h].pc = "idle"
        /\ client' = [client EXCEPT !.h = h]
        /\ poll' = [poll EXCEPT ![h] = [@ EXCEPT !.pc = "asked"]]
     \/ /\ h = client.h
        /\ client' = Resting
        /\ UNCHANGED poll
  /\ UNCHANGED <<status, overdue, stale, entitled, views, remembered, wire,
                 ran, took>>

ClientReceive(h) ==
  /\ client.pc = "polling" /\ client.h = h
  /\ poll[h].pc \in {"replied", "refused"}
  /\ client' = IF poll[h].keep = {} THEN Resting
               ELSE [client EXCEPT !.pc = "next", !.batch = poll[h].keep]
  /\ poll' = [poll EXCEPT ![h] = NoPoll]
  /\ UNCHANGED <<status, overdue, stale, entitled, views, remembered, wire,
                 ran, took, faults>>

\* The connection of an abandoned handler is gone.
PollDropped(h) ==
  /\ poll[h].pc \in {"replied", "refused"} /\ client.h # h
  /\ poll' = [poll EXCEPT ![h] = NoPoll]
  /\ UNCHANGED <<status, overdue, stale, entitled, views, client, remembered,
                 wire, ran, took, faults>>

Current == First(client.batch)

Remember(c) ==
  LET longer == Append(remembered, c)
  IN  IF Len(longer) > MaxRemembered THEN Tail(longer) ELSE longer

\* VerifyRemoteCommand and rememberRemoteCommand: the nonce is on disk before
\* anything is executed.
ClientVerify ==
  /\ client.pc = "next"
  /\ IF Current \in stale \/ Holds(remembered, Current)
     THEN /\ client' = [client EXCEPT !.pc = "report", !.result = "failed"]
          /\ UNCHANGED remembered
     ELSE /\ client' = [client EXCEPT !.pc = "execute"]
          /\ remembered' = Remember(Current)
  /\ UNCHANGED <<status, overdue, stale, entitled, poll, views, wire, ran,
                 took, faults>>

\* ExecuteRemoteCommand (remote_management.go) fails before anything is done, or
\* does the first of its steps ...
ClientExecute ==
  /\ client.pc = "execute"
  /\ ran' = [ran EXCEPT ![Current] = @ + 1]
  /\ \/ /\ client' = [client EXCEPT !.pc = "report", !.result = "failed"]
        /\ UNCHANGED took
     \/ /\ client' = [client EXCEPT !.pc = "executing"]
        /\ took' = [took EXCEPT ![Current] = "part"]
  /\ UNCHANGED <<status, overdue, stale, entitled, poll, views, remembered,
                 wire, faults>>

\* ... and then the rest, or fails on the way: AddEndpoint or UpdateEndpoint
\* before ToggleEndpoint, a change in memory before it is saved.  Nothing takes
\* back what was done.
ClientFinish ==
  /\ client.pc = "executing"
  /\ \/ /\ client' = [client EXCEPT !.pc = "report", !.result = "applied"]
        /\ took' = [took EXCEPT ![Current] = "all"]
     \/ /\ client' = [client EXCEPT !.pc = "report", !.result = "failed"]
        /\ UNCHANGED took
  /\ UNCHANGED <<status, overdue, stale, entitled, poll, views, remembered,
                 wire, ran, faults>>

ClientReport ==
  /\ client.pc = "report"
  /\ wire' = wire \cup {[cmd |-> Current, result |-> client.result]}
  /\ client' = [client EXCEPT !.pc = "reporting"]
  /\ UNCHANGED <<status, overdue, stale, entitled, poll, views, remembered,
                 ran, took, faults>>

Advance == IF client.batch = {Current} THEN Resting
           ELSE [client EXCEPT !.pc = "next", !.batch = @ \ {Current},
                               !.result = "none"]

\* SubmitRemoteResult, UpdateRemoteCommandResult: the row takes the result
\* whatever its status; a device that is no longer entitled is refused, and
\* the client drops the rest of the batch.  The client may have stopped
\* waiting for the answer.
SubmitResult(m) ==
  /\ m \in wire
  /\ wire' = wire \ {m}
  /\ status' = IF entitled THEN [status EXCEPT ![m.cmd] = m.result] ELSE status
  /\ client' = IF client.pc = "reporting" /\ m.cmd = Current
               THEN IF entitled THEN Advance ELSE Resting
               ELSE client
  /\ UNCHANGED <<overdue, stale, entitled, poll, views, remembered, ran, took,
                 faults>>

\* No answer to the report: pollRemote returns, the rest of the batch is
\* dropped.  The report was lost or is still under way.
ReportFails ==
  /\ client.pc = "reporting"
  /\ faults < MaxFaults /\ faults' = faults + 1
  /\ client' = Resting
  /\ wire' \in {wire, wire \ {[cmd |-> Current, result |-> client.result]}}
  /\ UNCHANGED <<status, overdue, stale, entitled, poll, views, remembered,
                 ran, took>>

\* The client's process ends and starts again: only the nonces are on disk.
Crash ==
  /\ client.pc # "idle"
  /\ faults < MaxFaults /\ faults' = faults + 1
  /\ client' = Resting
  /\ UNCHANGED <<status, overdue, stale, entitled, poll, views, remembered,
                 wire, ran, took>>

-----------------------------------------------------------------------------
(* Time, and the end of the licence                                        *)

ServerExpires(c) ==
  /\ status[c] # "none" /\ c \notin overdue
  /\ overdue' = overdue \cup {c}
  /\ UNCHANGED <<status, stale, entitled, poll, views, client, remembered,
                 wire, ran, took, faults>>

\* It shows when the client looks at the command.
ClientExpires(c) ==
  /\ client.pc = "next" /\ c \in client.batch /\ c \notin stale
  /\ stale' = stale \cup {c}
  /\ UNCHANGED <<status, overdue, entitled, poll, views, client, remembered,
                 wire, ran, took, faults>>

Revoke ==
  /\ entitled /\ entitled' = FALSE
  /\ UNCHANGED <<status, overdue, stale, poll, views, client, remembered,
                 wire, ran, took, faults>>

PollStep(h) == PollList(h) \/ PollSort(h) \/ PollMark(h) \/ PollDropped(h)

ClientStep ==
  \/ \E h \in Handlers : ClientPoll(h) \/ ClientReceive(h)
  \/ ClientVerify \/ ClientExecute \/ ClientFinish \/ ClientReport

Next ==
  \/ \E c \in Cmds : \/ Queue(c) \/ ViewRead(c) \/ ViewExpire(c)
                     \/ ServerExpires(c) \/ ClientExpires(c)
  \/ \E h \in Handlers : PollStep(h) \/ ClientRetry(h)
  \/ ClientStep
  \/ \E m \in wire : SubmitResult(m)
  \/ ReportFails \/ Crash \/ Revoke

\* Handlers go on; the poll loop starts a poll every few seconds and goes on
\* after an error (runRemoteManagementLoop); a report that is on its way is
\* handled or given up.
Fairness ==
  /\ \A h \in Handlers : WF_vars(PollStep(h))
  /\ WF_vars(ClientStep)
  /\ WF_vars(\E m \in wire : SubmitResult(m))

Spec == Init /\ [][Next]_vars /\ Fairness

-----------------------------------------------------------------------------
(* Properties                                                              *)

TypeOK ==
  /\ status \in [Cmds -> {"none"} \cup Open \cup Final]
  /\ overdue \subseteq Cmds /\ stale \subseteq Cmds /\ entitled \in BOOLEAN
  /\ poll \in [Handlers -> [pc : {"idle", "asked", "listed", "replied", "refused"},
                            todo : SUBSET Cmds, keep : SUBSET Cmds]]
  /\ views \subseteq Cmds
  /\ client \in [pc : {"idle", "polling", "next", "execute", "executing", "report",
                       "reporting"},
                 h : Handlers \cup {None}, batch : SUBSET Cmds,
                 result : {"none", "applied", "failed"}]
  /\ remembered \in Seq(Cmds) /\ Len(remembered) <= MaxRemembered
  /\ wire \subseteq [cmd : Cmds, result : {"applied", "failed"}]
  /\ ran \in [Cmds -> Nat] /\ took \in [Cmds -> {"none", "part", "all"}]
  /\ faults \in 0..MaxFaults

\* A command that has come to an end is never delivered again, although polls
\* the client has given up on mark rows they listed long ago
\* (MarkRemoteCommandsDelivered).
NeverReopened ==
  [][\A c \in Cmds : status[c] \in Final => status'[c] \in Final]_vars

\* No command is executed twice, across retries, crashes and lost reports, even
\* when the list of nonces is too short to tell; the administrator is told that
\* it was applied only if all of it was, without an error, and is never told
\* that it failed when it was (pollRemote, SubmitRemoteResult).  A command that
\* failed may have taken effect in part.
ReportsAreTrue ==
  /\ TypeOK
  /\ \A c \in Cmds : /\ ran[c] <= 1
                     /\ status[c] = "failed" => took[c] # "all"
                     /\ status[c] = "applied" => took[c] = "all"

\* A command does not wait in the queue for ever: an entitled client takes it,
\* or it expires (PollRemoteCommands).
QueueDrains ==
  \A c \in Cmds : status[c] = "queued" ~> (status[c] # "queued" \/ ~entitled)
=============================================================================
