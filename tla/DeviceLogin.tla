----------------------------- MODULE DeviceLogin -----------------------------
(***************************************************************************)
(* Login of a Codex account with a device code                             *)
(* (src/internal/codexauth/manager.go).  Start puts a session into the     *)
(* manager and starts a goroutine that polls the authority until the user  *)
(* has confirmed, exchanges the code and stores the credential; Status and *)
(* Cancel look at the session from other goroutines.                       *)
(*                                                                         *)
(* The session's context and the comparison of ExpiresAt with the clock    *)
(* are two clocks: either may be the first to notice the end.  A change of *)
(* the proxy settings replaces the manager (resetCodexAuthManager): the    *)
(* sessions can no longer be seen, and their goroutines go on.             *)
(***************************************************************************)
CONSTANTS
  Logins,     \* login ids
  Accounts    \* accounts a user may log in with

VARIABLES
  login,   \* login[l]: the session of l and its goroutine
  stored   \* the rows: the login that inserted it (its id), the account, and
           \* the login that wrote it last

loginVars == <<login, stored>>

Statuses == {"none", "pending", "complete", "failed", "canceled", "expired"}
Steps == {"none", "poll", "sleep", "exchange", "match", "look", "write",
          "enter", "end"}

\* due: m.now() is past ExpiresAt; done: the context has ended; acc: whose
\* tokens were issued; match: the row findExisting has found; wrote: the row
\* has been stored; lost: the manager has been replaced.
NoLogin == [st |-> "none", at |-> "none", due |-> FALSE, done |-> FALSE,
            acc |-> "none", match |-> "none", wrote |-> FALSE, lost |-> FALSE]

LoginInit ==
  /\ login = [l \in Logins |-> NoLogin]
  /\ stored = {}

RowsOf(a) == {r \in stored : r.acc = a}

At(l, step) == login[l].at = step
Enters(l, step) == login' = [login EXCEPT ![l].at = step]

-----------------------------------------------------------------------------
(* Other goroutines                                                        *)

\* Start, once the authority has issued a device code.
Start(l) ==
  /\ At(l, "none")
  /\ login' = [login EXCEPT ![l].st = "pending", ![l].at = "poll"]
  /\ UNCHANGED stored

Cancel(l) ==
  /\ login[l].st = "pending" /\ ~login[l].lost
  /\ login' = [login EXCEPT ![l].st = "canceled", ![l].done = TRUE]
  /\ UNCHANGED stored

\* Mutant: the stored status is answered as it is.
ShownStored(l) == login[l].st

\* What Status answers.
Shown(l) == IF login[l].st = "pending" /\ login[l].due THEN "expired"
            ELSE login[l].st

\* resetCodexAuthManager
ForgetAll ==
  /\ \E l \in Logins : login[l].st # "none" /\ ~login[l].lost
  /\ login' = [l \in Logins |-> [login[l] EXCEPT !.lost = @ \/ login[l].st # "none"]]
  /\ UNCHANGED stored

\* Time: the clock passes ExpiresAt, the context's timer fires.
Due(l) ==
  /\ login[l].st # "none" /\ ~login[l].due
  /\ login' = [login EXCEPT ![l].due = TRUE]
  /\ UNCHANGED stored

TimerFires(l) ==
  /\ login[l].st # "none" /\ ~login[l].done
  /\ login' = [login EXCEPT ![l].done = TRUE]
  /\ UNCHANGED stored

\* A user deletes the credential of an account.
DeleteRow(r) ==
  /\ stored' = stored \ {r}
  /\ UNCHANGED login

-----------------------------------------------------------------------------
(* The goroutine: completeLogin                                            *)

\* failSession
Failed(l) ==
  [login EXCEPT ![l].at = "end",
     ![l].st = IF @ # "pending" THEN @
               ELSE IF login[l].done THEN "expired" ELSE "failed"]

\* pollOnce: not yet confirmed, confirmed, or an error; the context ends the
\* request.  The poll timeout is an error as well.
Poll(l) ==
  /\ At(l, "poll")
  /\ \/ ~login[l].done /\ Enters(l, "sleep")
     \/ ~login[l].done /\ Enters(l, "exchange")
     \/ login' = Failed(l)
  /\ UNCHANGED stored

\* pollSleep
Wake(l) ==
  /\ At(l, "sleep")
  /\ IF login[l].done THEN login' = Failed(l) ELSE Enters(l, "poll")
  /\ UNCHANGED stored

\* exchangeCodeForTokens
Exchange(l) ==
  /\ At(l, "exchange")
  /\ \/ ~login[l].done /\ \E a \in Accounts :
          login' = [login EXCEPT ![l].at = "match", ![l].acc = a]
     \/ login' = Failed(l)
  /\ UNCHANGED stored

\* ensureSessionPending finds nothing against going on.
MayGoOn(l) == ~login[l].done /\ login[l].st = "pending" /\ ~login[l].due

\* ... otherwise the error of the context fails the session, and a session
\* that is no longer pending ends silently.
Refused(l) == IF login[l].done THEN login' = Failed(l) ELSE Enters(l, "end")

\* upsertCredential: the rows are loaded between two looks at the session, ...
Match(l) ==
  /\ At(l, "match")
  /\ \/ /\ MayGoOn(l)
        /\ \/ \E r \in RowsOf(login[l].acc) :
                login' = [login EXCEPT ![l].at = "look", ![l].match = r.id]
           \/ RowsOf(login[l].acc) = {} /\ Enters(l, "look")
           \/ login' = Failed(l)
     \/ ~MayGoOn(l) /\ Refused(l)
  /\ UNCHANGED stored

\* ... and a last look comes before the row is written, or goes wrong.  An
\* update finds no row when it has been deleted.
LastLook(l) ==
  /\ At(l, "look")
  /\ \/ MayGoOn(l) /\ Enters(l, "write")
     \/ ~MayGoOn(l) /\ Refused(l)
  /\ UNCHANGED stored

Written(l) ==
  LET row == [id |-> IF login[l].match = "none" THEN l ELSE login[l].match,
              acc |-> login[l].acc, by |-> l]
  IN  {r \in stored : r.id # row.id} \cup {row}

Found(l) == login[l].match = "none" \/ \E r \in stored : r.id = login[l].match

\* Mutant: that nothing was stored goes unnoticed.
UpsertUnnoticed(l) ==
  /\ At(l, "write")
  /\ \/ /\ Found(l)
        /\ stored' = Written(l)
        /\ login' = [login EXCEPT ![l].at = "enter", ![l].wrote = TRUE]
     \/ Enters(l, "enter") /\ UNCHANGED stored

\* SaveEndpointCredential, UpdateEndpointCredential
Upsert(l) ==
  /\ At(l, "write")
  /\ \/ /\ Found(l)
        /\ stored' = Written(l)
        /\ login' = [login EXCEPT ![l].at = "enter", ![l].wrote = TRUE]
     \/ login' = Failed(l) /\ UNCHANGED stored

\* The last step of completeLogin, under the lock.
Complete(l) ==
  /\ At(l, "enter")
  /\ login' = IF login[l].st = "pending"
              THEN [login EXCEPT ![l].at = "end", ![l].done = TRUE,
                      ![l].st = "complete"]
              ELSE [login EXCEPT ![l].at = "end"]
  /\ UNCHANGED stored

LoginRuns(l) == \/ Poll(l) \/ Wake(l) \/ Exchange(l) \/ Match(l)
                \/ LastLook(l) \/ Upsert(l) \/ Complete(l)

LoginNext ==
  \/ \E l \in Logins : \/ Start(l) \/ Cancel(l) \/ Due(l) \/ TimerFires(l)
                       \/ LoginRuns(l)
  \/ ForgetAll
  \/ \E r \in stored : DeleteRow(r)

\* The goroutine goes on, and both clocks do.
LoginFairness ==
  \A l \in Logins : /\ WF_loginVars(LoginRuns(l))
                    /\ WF_loginVars(Due(l)) /\ WF_loginVars(TimerFires(l))

LoginSpec == LoginInit /\ [][LoginNext]_loginVars /\ LoginFairness

-----------------------------------------------------------------------------
(* Properties                                                              *)

Session == [st : Statuses, at : Steps, due : BOOLEAN, done : BOOLEAN,
            acc : Accounts \cup {"none"}, match : Logins \cup {"none"},
            wrote : BOOLEAN, lost : BOOLEAN]

LoginTypeOK ==
  /\ login \in [Logins -> Session]
  /\ stored \subseteq [id : Logins, acc : Accounts, by : Logins]
  /\ \A r, o \in stored : r.id = o.id => r = o

\* What a login ends with is true: a complete one has stored its credential, a
\* failed one has stored nothing, although cancellation, expiry and errors
\* come at any moment (completeLogin, failSession).
OutcomeIsTrue ==
  /\ LoginTypeOK
  /\ \A l \in Logins :
       /\ login[l].st = "complete" => login[l].wrote
       /\ login[l].st \in {"failed", "expired"} => ~login[l].wrote

\* Nobody waits for a login for ever: whoever asks is told an end, also when
\* the goroutine has given up without entering one (Status).
LoginsEnd == \A l \in Logins : At(l, "poll") ~> (At(l, "end") /\ Shown(l) # "pending")
=============================================================================
