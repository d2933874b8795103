------------------------------ MODULE TokenPool ------------------------------
(***************************************************************************)
(* The credential pool of one token-pool endpoint: the rows of             *)
(* endpoint_credentials (internal/storage/credentials.go), the requests    *)
(* that select a row, use its access token and report the outcome          *)
(* (internal/proxy/proxy.go), the OAuth refresh with its per-credential    *)
(* single flight (internal/proxy/codex_credentials.go and                  *)
(* codex_refresh_singleflight.go), and the management edits that load a    *)
(* row, change it and write it back.                                       *)
(*                                                                         *)
(* Each storage call is one step: SQLiteStorage.mu and one SQL statement   *)
(* make it atomic; any call that writes may fail and then changes nothing. *)
(* What is NOT atomic is what the callers do between two calls, and that   *)
(* is what the program counters below keep apart: a worker holds a COPY of *)
(* the row from the moment it selects it, with the name the endpoint had.  *)
(*                                                                         *)
(* Time is abstracted to what the code asks of it.  A deadline is either   *)
(* ahead or past; an environment action lets it pass.                      *)
(***************************************************************************)
EXTENDS Naturals, FiniteSets

CONSTANTS
  Creds,        \* credential ids
  Workers,      \* goroutines that use or refresh a credential
  Admins,       \* goroutines that edit a row through the management API
  Names,        \* names the endpoint may have
  MaxFailures,  \* maxConsecutiveFailures
  MaxMint,      \* bound: token generations the authority issues per credential
  NoToken,      \* the row has no refresh token
  None          \* no worker, no credential

ASSUME ConstantsOK ==
  /\ MaxFailures \in Nat \ {0}
  /\ MaxMint \in Nat
  /\ NoToken \notin Nat
  /\ None \notin Creds \cup Workers \cup Names

VARIABLES
  row,        \* row[c]: the stored row
  saturated,  \* saturated[c]: the stored quota snapshot is at 100% and not reset
  minted,     \* authority: last token generation issued for c
  used,       \* authority: refresh tokens of c already exchanged
  lost,       \* history: exchanged tokens whose successor never reached the row
  calls,      \* credentialRefreshCalls: the worker that owns the flight, or None
  pc, cred, copy, updated, tried, cause, out,  \* each worker's locals
  admCred, admCopy                    \* each editor's loaded row

authVars   == <<minted, used, lost>>
workerVars == <<pc, cred, copy, updated, tried, cause, out>>
admVars    == <<admCred, admCopy>>
vars == <<row, saturated, authVars, calls, workerVars, admVars>>

Tokens     == Nat \cup {NoToken}
\* cooldown_until lies ahead, and whether last_error carries a rate-limit marker
CoolTags   == {"none", "rate", "other"}
\* expires_at: far, within needRefreshThreshold, or past
LifeStages == {"long", "near", "expired"}

\* Only status = "invalid" is ever read back from the status column
\* (deriveCredentialStatus, MarkCredentialSuccessIfCurrent), so the row keeps
\* that one bit of it.
Row == [present : BOOLEAN, enabled : BOOLEAN, invalid : BOOLEAN,
        fails : 0..MaxFailures, cool : CoolTags, life : LifeStages,
        access : Nat, refresh : Tokens, name : Names \cup {None}]

BlankRow == [present |-> FALSE, enabled |-> FALSE, invalid |-> FALSE,
             fails |-> 0, cool |-> "none", life |-> "long",
             access |-> 0, refresh |-> NoToken, name |-> None]

\* What a worker keeps of the row it loaded: refreshCredentialRequest replaces
\* the other fields before it writes the row back.
Held == [enabled : BOOLEAN, life : LifeStages, access : Nat, refresh : Tokens,
         name : Names \cup {None}]
NothingHeld == [enabled |-> FALSE, life |-> "long", access |-> 0, refresh |-> NoToken,
                name |-> None]
Hold(r) == [enabled |-> r.enabled, life |-> r.life,
            access |-> r.access, refresh |-> r.refresh, name |-> r.name]

RefreshResults == {"refreshed", "reused", "error"}
PCs == {"idle", "retry", "refresh", "redeem", "persist", "publish", "join",
        "returned", "send"}
Causes == {"none", "preflight", "auth", "manual"}

-----------------------------------------------------------------------------
(* Rows                                                                    *)

\* deriveCredentialStatus: the order of the tests is the code's.
Derive(r) ==
  CASE ~r.enabled                                  -> "disabled"
    [] r.enabled /\ r.life = "expired"             -> "expired"
    [] r.enabled /\ r.life # "expired" /\ r.cool # "none" -> "cooldown"
    [] r.enabled /\ r.life # "expired" /\ r.cool = "none" /\ r.invalid
                                                   -> "invalid"
    [] OTHER -> IF r.life = "near" /\ r.refresh # NoToken
                THEN "need_refresh" ELSE "active"

\* GetCredentialByID and GetEndpointCredentials hand out the row with its
\* status column replaced by the derived status.
Loaded(r) == [r EXCEPT !.invalid = (Derive(r) = "invalid")]

\* A new last_error moves a cooldown that is still running in or out of the
\* rate-limited class (codexCredentialCooldownRetryAt looks for markers in it).
Relabel(r, tag) == IF r.cool = "none" THEN "none" ELSE tag

\* Mutant: the counter is not kept within its bound.
BumpOver(r) == r.fails + 1

Bump(r) == IF r.fails < MaxFailures THEN r.fails + 1 ELSE MaxFailures

MarkSuccess(r) == [r EXCEPT !.invalid = FALSE, !.fails = 0, !.cool = "none"]

MarkAuthFailure(r) ==
  [r EXCEPT !.invalid = TRUE, !.fails = Bump(r), !.cool = Relabel(r, "other")]

MarkRateLimit(r) ==
  [r EXCEPT !.invalid = FALSE, !.fails = Bump(r), !.cool = "rate"]

MarkOtherFailure(r) ==
  [r EXCEPT !.invalid = FALSE, !.fails = Bump(r),
            !.cool = IF r.fails + 1 >= MaxFailures
                     THEN "other" ELSE Relabel(r, "other")]

MarkCooldown(r, tag) ==
  [r EXCEPT !.invalid = FALSE, !.fails = Bump(r), !.cool = tag]

\* UPDATE ... WHERE id=? changes nothing when the row is gone, nor when the
\* storage fails.
Write(c, r) == row' \in {row, IF row[c].present THEN [row EXCEPT ![c] = r] ELSE row}

\* WHERE id=? AND access_token=?: the outcome belongs to the stored generation.
Current(w) == row[cred[w]].present /\ row[cred[w]].access = copy[w].access

WriteIfCurrent(w, r) ==
  row' \in {row, IF Current(w) THEN [row EXCEPT ![cred[w]] = r] ELSE row}

\* Mutant: the row is stored without looking whether it is there.
MatchesAny(c, n) == TRUE

\* UpdateEndpointCredential: WHERE id=? AND endpoint_name=?, and an error when
\* no row matches: it is gone, or its endpoint has been renamed.
Matches(c, n) == row[c].present /\ row[c].name = n

-----------------------------------------------------------------------------
(* Selection: GetUsableEndpointCredentialByProvider for a Codex pool       *)

Limited(c) == saturated[c] \/ row[c].cool = "rate"

Usable == {c \in Creds : row[c].present /\ ~Limited(c)
                         /\ Derive(row[c]) \in {"active", "need_refresh"}}

RefreshableExpired == {c \in Creds : row[c].present /\ row[c].refresh # NoToken
                                     /\ Derive(row[c]) = "expired"}

\* ORDER BY failure_count ASC; ties go by last use, which is left open.
LeastFailures(S) == {c \in S : \A d \in S : row[c].fails <= row[d].fails}

Selectable == IF Usable # {} THEN LeastFailures(Usable)
                             ELSE LeastFailures(RefreshableExpired)

\* shouldTryCredentialRefresh
NeedsRefresh(r) == r.refresh # NoToken /\ r.life # "long"

-----------------------------------------------------------------------------
(* One worker                                                              *)

Goto(w, p) == pc' = [pc EXCEPT ![w] = p]

Release(w) ==   \* the attempt is over and its locals are gone
  /\ cred'  = [cred  EXCEPT ![w] = None]
  /\ copy'  = [copy  EXCEPT ![w] = NothingHeld]
  /\ cause' = [cause EXCEPT ![w] = "none"]
  /\ out'   = [out   EXCEPT ![w] = "none"]

Finish(w)   == Goto(w, "idle") /\ Release(w) /\ tried' = [tried EXCEPT ![w] = {}]
\* The request keeps refreshedCredentialAttempts for its next attempt.
TryAgain(w) == Goto(w, "retry") /\ Release(w) /\ UNCHANGED tried
\* The request goes out with the token at hand.
Send(w) == /\ Goto(w, "send")
           /\ cause' = [cause EXCEPT ![w] = "none"]
           /\ out'   = [out EXCEPT ![w] = "none"]

\* An attempt of a proxied request selects a credential.
Select(w) ==
  /\ pc[w] \in {"idle", "retry"}
  /\ \E c \in Selectable :
       /\ cred' = [cred EXCEPT ![w] = c]
       /\ copy' = [copy EXCEPT ![w] = Hold(row[c])]
       /\ \/ /\ NeedsRefresh(row[c])
             /\ cause' = [cause EXCEPT ![w] = "preflight"]
             /\ Goto(w, "refresh")
             /\ UNCHANGED out
          \/ ~NeedsRefresh(row[c]) /\ Send(w)
  /\ UNCHANGED <<row, saturated, authVars, calls, tried, updated, admVars>>

\* The retry budget of the request is spent.
GiveUp(w) ==
  /\ pc[w] = "retry"
  /\ Finish(w)
  /\ UNCHANGED <<row, saturated, authVars, calls, updated, admVars>>

\* RefreshCodexCredential: the user asks for a refresh of one credential.
ManualRefresh(w) ==
  /\ pc[w] = "idle"
  /\ \E c \in Creds :
       /\ row[c].present
       /\ cred'  = [cred EXCEPT ![w] = c]
       /\ copy'  = [copy EXCEPT ![w] = Hold(row[c])]
       /\ cause' = [cause EXCEPT ![w] = "manual"]
       /\ UNCHANGED <<tried, out>>
       /\ Goto(w, "refresh")
  /\ UNCHANGED <<row, saturated, authVars, calls, updated, admVars>>

\* Mutant: everyone refreshes alone.
FlyingNever(c) == FALSE
Flying(c) == calls[c] # None

\* refreshCredential and startCredentialRefresh: refuse an empty token, own
\* the flight of this credential, or join the one under way.
StartRefresh(w) ==
  /\ pc[w] = "refresh"
  /\ \/ /\ copy[w].refresh = NoToken
        /\ out' = [out EXCEPT ![w] = "error"]
        /\ Goto(w, "returned")
        /\ UNCHANGED calls
     \/ /\ copy[w].refresh # NoToken
        /\ ~Flying(cred[w])
        /\ calls' = [calls EXCEPT ![cred[w]] = w]
        /\ Goto(w, "redeem")
        /\ UNCHANGED out
     \/ /\ copy[w].refresh # NoToken
        /\ Flying(cred[w])
        /\ Goto(w, "join")
        /\ UNCHANGED <<calls, out>>
  /\ UNCHANGED <<row, saturated, authVars, cred, copy, updated, tried, cause, admVars>>

\* The exchange at the token endpoint.  The authority rotates the refresh
\* token or lets the caller keep it, and refuses one it has already rotated.
\* An answer without expires_in leaves the old expiry.
RedeemGranted(w) ==
  LET c == cred[w]  n == minted[c] + 1 IN
  /\ pc[w] = "redeem"
  /\ copy[w].refresh \notin used[c]
  /\ minted[c] < MaxMint
  /\ minted' = [minted EXCEPT ![c] = n]
  /\ \E rotates \in BOOLEAN, life \in {"long", copy[w].life} :
       /\ used' = IF rotates THEN [used EXCEPT ![c] = @ \cup {copy[w].refresh}] ELSE used
       /\ updated' = [updated EXCEPT ![w] =
            [copy[w] EXCEPT !.access = n, !.life = life,
                            !.refresh = IF rotates THEN n ELSE @]]
  /\ Goto(w, "persist")
  /\ UNCHANGED <<row, saturated, lost, calls, cred, copy, tried, cause, out, admVars>>

RedeemRefused(w) ==
  /\ pc[w] = "redeem"
  /\ copy[w].refresh \in used[cred[w]]
  /\ out' = [out EXCEPT ![w] = "reused"]
  /\ Goto(w, "publish")
  /\ UNCHANGED <<row, saturated, authVars, calls, cred, copy, updated, tried, cause, admVars>>

\* Timeout, transport error, 5xx, unreadable answer.  The authority may have
\* rotated the token before the answer was lost.
RedeemFailed(w) ==
  LET c == cred[w] IN
  /\ pc[w] = "redeem"
  /\ out' = [out EXCEPT ![w] = "error"]
  /\ Goto(w, "publish")
  /\ \/ UNCHANGED authVars
     \/ /\ copy[w].refresh \notin used[c] /\ minted[c] < MaxMint
        /\ minted' = [minted EXCEPT ![c] = @ + 1]
        /\ used' = [used EXCEPT ![c] = @ \cup {copy[w].refresh}]
        /\ lost' = [lost EXCEPT ![c] = @ \cup {copy[w].refresh}]
  /\ UNCHANGED <<row, saturated, calls, cred, copy, updated, tried, cause, admVars>>

\* UpdateEndpointCredential(&updated): the whole row, from the copy.
RefreshedRow(h) ==
  [present |-> TRUE, enabled |-> h.enabled, invalid |-> FALSE, fails |-> 0,
   cool |-> "none", life |-> h.life, access |-> h.access, refresh |-> h.refresh,
   name |-> h.name]

Persisted(w) ==
  LET c == cred[w] IN
  /\ Matches(c, updated[w].name)
  /\ row' = [row EXCEPT ![c] = RefreshedRow(updated[w])]
  /\ copy' = [copy EXCEPT ![w] = updated[w]]
  /\ out' = [out EXCEPT ![w] = "refreshed"]
  /\ UNCHANGED lost

\* The row does not match or the storage fails: what the authority issued is
\* forgotten, and the caller goes on with the copy it had.
NotPersisted(w) ==
  LET c == cred[w] IN
  /\ out' = [out EXCEPT ![w] = "error"]
  /\ lost' = [lost EXCEPT ![c] = @ \cup ({copy[w].refresh} \cap used[c])]
  /\ UNCHANGED <<row, copy>>

Persist(w) ==
  /\ pc[w] = "persist"
  /\ Persisted(w) \/ NotPersisted(w)
  /\ updated' = [updated EXCEPT ![w] = NothingHeld]
  /\ Goto(w, "publish")
  /\ UNCHANGED <<saturated, minted, used, calls, cred, tried, cause, admVars>>

\* Mutant: the channel is not closed.
NoJoiners(c) == {}

\* finishCredentialRefresh: forget the call, then release everyone who joined.
Joiners(c) == {v \in Workers : pc[v] = "join" /\ cred[v] = c}

Publish(w) ==
  LET c == cred[w]  released == Joiners(c) \cup {w} IN
  /\ pc[w] = "publish"
  /\ calls' = [calls EXCEPT ![c] = None]
  /\ pc'    = [v \in Workers |-> IF v \in released THEN "returned" ELSE pc[v]]
  /\ out'   = [v \in Workers |-> IF v \in released THEN out[w] ELSE out[v]]
  /\ copy'  = [v \in Workers |-> IF v \in released /\ out[w] = "refreshed"
                                 THEN copy[w] ELSE copy[v]]
  /\ UNCHANGED <<row, saturated, authVars, cred, tried, cause, updated, admVars>>

\* What the callers of refreshCredential do with its result.
ReturnOK(w) ==
  /\ pc[w] = "returned" /\ out[w] = "refreshed"
  /\ \/ /\ cause[w] = "preflight"
        /\ tried' = [tried EXCEPT ![w] = @ \cup {cred[w]}]
        /\ Send(w)
        /\ UNCHANGED <<cred, copy>>
     \/ cause[w] = "auth"   /\ TryAgain(w)
     \/ cause[w] = "manual" /\ Finish(w)
  /\ UNCHANGED <<row, saturated, authVars, calls, updated, admVars>>

\* markCredentialReuseInvalid is MarkCredentialFailure(id, 401): no token test.
\* The branch after a 401 adds MarkCredentialFailureIfCurrent, a second count
\* unless one of the two writes fails.
ReturnReused(w) ==
  LET c == cred[w]  marked == MarkAuthFailure(row[c]) IN
  /\ pc[w] = "returned" /\ out[w] = "reused"
  /\ \/ Write(c, marked)
     \/ cause[w] = "auth" /\ Current(w) /\ Write(c, MarkAuthFailure(marked))
  /\ \/ cause[w] = "preflight" /\ Send(w) /\ UNCHANGED <<cred, copy, tried>>
     \/ cause[w] = "auth"   /\ TryAgain(w)
     \/ cause[w] = "manual" /\ Finish(w)
  /\ UNCHANGED <<saturated, authVars, calls, updated, admVars>>

\* The manual path records the failure in RefreshCodexCredential and again in
\* the desktop binding, by id both times.
ReturnError(w) ==
  LET c == cred[w]  once == MarkOtherFailure(row[c]) IN
  /\ pc[w] = "returned" /\ out[w] = "error"
  /\ \/ cause[w] = "preflight" /\ Send(w) /\ UNCHANGED <<row, cred, copy, tried>>
     \/ cause[w] = "auth" /\ WriteIfCurrent(w, MarkAuthFailure(row[c])) /\ TryAgain(w)
     \/ /\ cause[w] = "manual"
        /\ Write(c, once) \/ Write(c, MarkOtherFailure(once))
        /\ Finish(w)
  /\ UNCHANGED <<saturated, authVars, calls, updated, admVars>>

(* The upstream answers.  Any answer may come, so each reaction is enabled  *)
(* while the request is out.                                               *)

\* Mutant: any success of the stored generation clears the row.
ClearsAny(w) == Current(w)
\* MarkCredentialSuccessIfCurrent: AND status <> 'invalid'
Clears(w) == Current(w) /\ ~row[cred[w]].invalid

\* A 200 also stores the quota snapshot of its headers, when it has one.
Succeed(w) ==
  /\ pc[w] = "send"
  /\ \E s \in BOOLEAN : saturated' = [saturated EXCEPT ![cred[w]] = s]
  /\ \/ Clears(w) /\ row' = [row EXCEPT ![cred[w]] = MarkSuccess(@)]
     \/ UNCHANGED row
  /\ Finish(w)
  /\ UNCHANGED <<authVars, calls, updated, admVars>>

\* 401 with a refresh token not tried yet in this request: refresh, then retry.
RefreshAfter401(w) ==
  /\ pc[w] = "send"
  /\ copy[w].refresh # NoToken /\ cred[w] \notin tried[w]
  /\ tried' = [tried EXCEPT ![w] = @ \cup {cred[w]}]
  /\ cause' = [cause EXCEPT ![w] = "auth"]
  /\ Goto(w, "refresh")
  /\ UNCHANGED <<row, saturated, authVars, calls, cred, copy, out, updated, admVars>>

\* A 401 that no refresh can cure, or a 403.  An HTML page with the 403 makes no
\* difference: shouldRetry(403) holds, so the test for one is never reached.
Reject(w) ==
  /\ pc[w] = "send"
  /\ WriteIfCurrent(w, MarkAuthFailure(row[cred[w]]))
  /\ TryAgain(w)
  /\ UNCHANGED <<saturated, authVars, calls, updated, admVars>>

RateLimit(w) ==
  /\ pc[w] = "send"
  /\ WriteIfCurrent(w, MarkRateLimit(row[cred[w]]))
  /\ TryAgain(w)
  /\ UNCHANGED <<saturated, authVars, calls, updated, admVars>>

\* WebSocket 429 with a reset time: markCredentialCooldown goes by id alone.
RateLimitUntilReset(w) ==
  /\ pc[w] = "send"
  /\ saturated' = [saturated EXCEPT ![cred[w]] = TRUE]
  /\ Write(cred[w], MarkCooldown(row[cred[w]], "rate"))
  /\ TryAgain(w)
  /\ UNCHANGED <<authVars, calls, updated, admVars>>

\* recordSemanticEmptyResponseFailure also cools by id alone.
SemanticEmpty(w) ==
  /\ pc[w] = "send"
  /\ Write(cred[w], MarkCooldown(row[cred[w]], "other"))
  /\ TryAgain(w)
  /\ UNCHANGED <<saturated, authVars, calls, updated, admVars>>

OtherFailure(w) ==
  /\ pc[w] = "send"
  /\ WriteIfCurrent(w, MarkOtherFailure(row[cred[w]]))
  /\ TryAgain(w)
  /\ UNCHANGED <<saturated, authVars, calls, updated, admVars>>

\* Transport error worth retrying, or the client went away.
NoPenalty(w) ==
  /\ pc[w] = "send"
  /\ TryAgain(w)
  /\ UNCHANGED <<row, saturated, authVars, calls, updated, admVars>>

-----------------------------------------------------------------------------
(* Management edits: updateDesktopCredential, and the same shape in the    *)
(* web API and in remote management: load, change, write the whole row.    *)

AdminLoad(a) ==
  /\ admCred[a] = None
  /\ \E c \in Creds :
       /\ row[c].present
       /\ admCred' = [admCred EXCEPT ![a] = c]
       /\ admCopy' = [admCopy EXCEPT ![a] = Loaded(row[c])]
  /\ UNCHANGED <<row, saturated, authVars, calls, workerVars>>

Edits(r) ==
  { [r EXCEPT !.enabled = FALSE], [r EXCEPT !.enabled = TRUE],
    [r EXCEPT !.invalid = FALSE, !.fails = 0, !.cool = "none"] }

\* UpdateEndpointCredential, which may find no row and may fail.
AdminWrites(a, r) ==
  \/ Matches(admCred[a], r.name) /\ row' = [row EXCEPT ![admCred[a]] = r]
  \/ UNCHANGED row

AdminStore(a) ==
  /\ admCred[a] # None
  /\ \E r \in Edits(admCopy[a]) : AdminWrites(a, r)
  /\ admCred' = [admCred EXCEPT ![a] = None]
  /\ admCopy' = [admCopy EXCEPT ![a] = BlankRow]
  /\ UNCHANGED <<saturated, authVars, calls, workerVars>>

\* UpdateEndpointCredentialToken: the user pastes a new access token, and the
\* row is cleared as by a success.
AdminToken(a) ==
  LET c == admCred[a] IN
  /\ c # None
  /\ minted[c] < MaxMint
  /\ minted' = [minted EXCEPT ![c] = @ + 1]
  /\ AdminWrites(a, [MarkSuccess(admCopy[a]) EXCEPT !.access = minted[c] + 1,
                                                    !.life = "long"])
  /\ admCred' = [admCred EXCEPT ![a] = None]
  /\ admCopy' = [admCopy EXCEPT ![a] = BlankRow]
  /\ UNCHANGED <<saturated, used, lost, calls, workerVars>>

\* DeleteEndpointCredential: usage, quota snapshot and row in one transaction.
\* The row's content plays no part, so loading it first is not a step.
Delete(c) ==
  /\ row[c].present
  /\ row' = [row EXCEPT ![c] = BlankRow]
  /\ saturated' = [saturated EXCEPT ![c] = FALSE]
  /\ UNCHANGED <<authVars, calls, workerVars, admVars>>

\* RenameEndpoint: the rows take the new name along, in one transaction.
RenameEndpoint(n) ==
  /\ \E c \in Creds : row[c].present /\ row[c].name # n
  /\ row' = [c \in Creds |-> IF row[c].present THEN [row[c] EXCEPT !.name = n] ELSE row[c]]
  /\ UNCHANGED <<saturated, authVars, calls, workerVars, admVars>>

-----------------------------------------------------------------------------
(* Time                                                                    *)

TokenAges(c) ==
  /\ row[c].present /\ row[c].life # "expired"
  /\ row' = [row EXCEPT ![c].life = IF @ = "long" THEN "near" ELSE "expired"]
  /\ UNCHANGED <<saturated, authVars, calls, workerVars, admVars>>

CooldownEnds(c) ==
  /\ row[c].cool # "none"
  /\ row' = [row EXCEPT ![c].cool = "none"]
  /\ UNCHANGED <<saturated, authVars, calls, workerVars, admVars>>

QuotaResets(c) ==
  /\ saturated[c]
  /\ saturated' = [saturated EXCEPT ![c] = FALSE]
  /\ UNCHANGED <<row, authVars, calls, workerVars, admVars>>

-----------------------------------------------------------------------------
Init ==
  /\ \E t \in [Creds -> {0, NoToken}], n \in Names :
       row = [c \in Creds |-> [BlankRow EXCEPT !.present = TRUE, !.enabled = TRUE,
                                               !.refresh = t[c], !.name = n]]
  /\ saturated = [c \in Creds |-> FALSE]
  /\ minted = [c \in Creds |-> 0]
  /\ used = [c \in Creds |-> {}]
  /\ lost = [c \in Creds |-> {}]
  /\ calls = [c \in Creds |-> None]
  /\ pc = [w \in Workers |-> "idle"]
  /\ cred = [w \in Workers |-> None]
  /\ copy = [w \in Workers |-> NothingHeld]
  /\ updated = [w \in Workers |-> NothingHeld]
  /\ tried = [w \in Workers |-> {}]
  /\ cause = [w \in Workers |-> "none"]
  /\ out = [w \in Workers |-> "none"]
  /\ admCred = [a \in Admins |-> None]
  /\ admCopy = [a \in Admins |-> BlankRow]

Redeem(w) == RedeemGranted(w) \/ RedeemRefused(w) \/ RedeemFailed(w)
Return(w) == ReturnOK(w) \/ ReturnReused(w) \/ ReturnError(w)

RefreshStep(w) == StartRefresh(w) \/ Redeem(w) \/ Persist(w) \/ Publish(w) \/ Return(w)

Report(w) == \/ Succeed(w) \/ RefreshAfter401(w) \/ Reject(w) \/ RateLimit(w)
             \/ RateLimitUntilReset(w) \/ SemanticEmpty(w) \/ OtherFailure(w)
             \/ NoPenalty(w)

RequestStep(w) == Select(w) \/ GiveUp(w) \/ ManualRefresh(w) \/ Report(w)

AdminStep(a) == AdminLoad(a) \/ AdminStore(a) \/ AdminToken(a)

RowStep(c) == Delete(c) \/ TokenAges(c) \/ CooldownEnds(c) \/ QuotaResets(c)

Next == \/ \E w \in Workers : RefreshStep(w) \/ RequestStep(w)
        \/ \E a \in Admins : AdminStep(a)
        \/ \E c \in Creds : RowStep(c)
        \/ \E n \in Names : RenameEndpoint(n)

\* A goroutine inside refreshCredential runs on, and the token exchange ends:
\* codexRefreshTimeout bounds it.
Fairness == \A w \in Workers : WF_vars(RefreshStep(w))

Spec == Init /\ [][Next]_vars
FairSpec == Spec /\ Fairness

-----------------------------------------------------------------------------
(* Properties                                                              *)

TypeOK ==
  /\ row \in [Creds -> Row]
  /\ saturated \in [Creds -> BOOLEAN]
  /\ minted \in [Creds -> Nat]
  /\ used \in [Creds -> SUBSET Nat]
  /\ lost \in [Creds -> SUBSET Nat]
  /\ calls \in [Creds -> Workers \cup {None}]
  /\ pc \in [Workers -> PCs]
  /\ cred \in [Workers -> Creds \cup {None}]
  /\ copy \in [Workers -> Held]
  /\ updated \in [Workers -> Held]
  /\ tried \in [Workers -> SUBSET Creds]
  /\ cause \in [Workers -> Causes]
  /\ out \in [Workers -> RefreshResults \cup {"none"}]
  /\ admCred \in [Admins -> Creds \cup {None}]
  /\ admCopy \in [Admins -> Row]

\* The worker is between startCredentialRefresh and finishCredentialRefresh.
OwnsFlight(w) == pc[w] \in {"redeem", "persist", "publish"}

\* refreshCredentialOnce: a credential has at most one exchange under way, the
\* registered call is alive, and whoever joined waits on a live call: no
\* joiner blocks on a channel that nobody will close.
SingleFlight ==
  /\ \A w \in Workers : OwnsFlight(w) => calls[cred[w]] = w
  /\ \A c \in Creds : calls[c] # None => OwnsFlight(calls[c]) /\ cred[calls[c]] = c
  /\ \A w \in Workers : pc[w] = "join" => calls[cred[w]] # None

\* A stored refresh token that the authority has already exchanged is either
\* about to be overwritten by the flight that exchanged it, or its successor
\* was lost: with the answer, or because the flight that had it could not store
\* it.  A late refresh from a stale copy never leaves a dead token behind.
\* Holds when no editor writes whole rows.
RefreshTokenFresh ==
  \A c \in Creds :
    row[c].present /\ row[c].refresh \in used[c] =>
      \/ row[c].refresh \in lost[c]
      \/ calls[c] # None /\ pc[calls[c]] = "persist"

\* A refresh writes the whole row from a copy loaded before the exchange; it
\* never takes the row back to an older access token.  Same condition.
GenerationsMonotone ==
  [][\A c \in Creds : row'[c].present => row'[c].access >= row[c].access]_vars

\* The mark of r is still there in s, or a failure is counted in its place, or
\* s has another token.
StaysMarked(r, s) == r.invalid /\ s.present /\ ~s.invalid /\ s.access = r.access
                       => s.fails > 0

\* A credential the upstream rejected does not come back clean with the same
\* token: a success that was in flight cannot clear the mark, only a new
\* token can (TestMarkCredentialSuccessDoesNotReactivateInvalidCredential).
\* Holds when no editor writes whole rows: one may clear the row on purpose.
NoCleanRevival ==
  [][\A c \in Creds : StaysMarked(row[c], row'[c])]_vars

\* A deleted credential stays deleted, whatever refresh, outcome or edit was
\* under way with its copy.
DeletedStaysDeleted ==
  [][\A c \in Creds : ~row[c].present => ~row'[c].present]_vars

\* Only an editor's own write re-enables a disabled credential: the interfaces
\* answer "Credential disabled" once the row is stored.
DisabledStaysDisabled ==
  [][\A c \in Creds : row[c].present /\ ~row[c].enabled /\ row'[c].enabled
                       => \E a \in Admins : admCred[a] = c /\ admCred'[a] = None]_vars

\* The pool implements the ledger of its tokens: every exchange uses the stored
\* refresh token, one at a time, and what it yields is stored next, lost with
\* the answer, or dropped because it could not be stored (refreshCredential
\* with its single flight).  Holds when no editor writes whole rows.
StoredTokens(c) ==
  IF row[c].present THEN {[access |-> row[c].access, refresh |-> row[c].refresh]} ELSE {}
TokensInHand(c) ==
  IF calls[c] # None /\ pc[calls[c]] = "persist"
  THEN {[access |-> updated[calls[c]].access, refresh |-> updated[calls[c]].refresh,
         of |-> copy[calls[c]].refresh]} ELSE {}

Ledger == INSTANCE TokenLedger WITH
  stored <- [c \in Creds |-> StoredTokens(c)], inHand <- [c \in Creds |-> TokensInHand(c)],
  newest <- minted, spent <- used, orphaned <- lost

KeepsLedger == Ledger!LedgerSpec

=============================================================================
