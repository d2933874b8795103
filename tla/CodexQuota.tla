------------------------------ MODULE CodexQuota ------------------------------
(***************************************************************************)
(* Quotas of Codex accounts (src/internal/proxy/codex_rate_limits.go,      *)
(* codex_reset_credits.go, storage/rate_limits.go,                         *)
(* service/codex_account_overview.go).  Answers of the upstream tell the   *)
(* quota in their headers and events, the user asks for it, and credits    *)
(* that reset it are redeemed; all of them store one row per credential,   *)
(* which decides who is selected.  The upstream is external.               *)
(*                                                                         *)
(* A percentage is abstracted to whether it has reached 100.               *)
(***************************************************************************)
EXTENDS Naturals, Sequences, FiniteSets, FiniteSetsExt, SequencesExt

CONSTANTS
  Creds,      \* credentials of the pool, each of an account of its own
  Lengths,    \* lengths of the windows: [primary |-> ..., secondary |-> ...]
  MaxClock,   \* bound: the clock stops here
  MaxUses,    \* bound: windows that become exhausted
  MaxMoves,   \* bound: answers on their way, edits, faults and repetitions
  MaxCalls,   \* bound: the user's calls at a time
  Vouchers    \* reset credits of each account

ASSUME QuotaAssumption ==
  /\ IsFiniteSet(Creds) /\ IsFiniteSet(DOMAIN Lengths) /\ DOMAIN Lengths # {}
  /\ Lengths \in [DOMAIN Lengths -> Nat \ {0}]
  /\ {MaxClock, Vouchers} \subseteq Nat

VARIABLES
  clock,
  quota,     \* what the upstream holds of an account
  vouchers,  \* reset credits left
  account,   \* enabled, disabled or deleted
  token,     \* good; stale: refused until it is refreshed; dead: cannot be
  known,     \* credential_rate_limits: [data, status], NoRow
  good,      \* the last data known
  onWay,     \* answers not captured yet: [cred, data]
  fetch,     \* FetchCodexRateLimits
  redeem,    \* ConsumeCodexResetCredit
  moves

quotaVars == <<clock, quota, vouchers, account, token, known, good, onWay, fetch, redeem, moves>>

QuotaWindows == DOMAIN Lengths
NoWindow == [full |-> FALSE, resets |-> 0]
Unused == [windows |-> [w \in QuotaWindows |-> NoWindow], credits |-> FALSE]
NoData == [windows |-> [w \in QuotaWindows |-> NoWindow], credits |-> FALSE, of |-> "nothing"]
NoRow == [data |-> NoData, status |-> ""]
NotFetching == [pc |-> "rest", todo |-> <<>>, retrying |-> FALSE, answer |-> "", data |-> NoData,
           loaded |-> 0, updated |-> 0, failed |-> 0, skipped |-> 0]
NotRedeeming == [pc |-> "rest", cred |-> "", again |-> FALSE, answer |-> "", taken |-> 0]

-----------------------------------------------------------------------------
(* Snapshots and what they mean                                            *)

\* buildCodexRateLimitData: the account's own limit, whatever else is listed.
FromUsage(c) == [windows |-> quota[c].windows, credits |-> quota[c].credits, of |-> "codex"]

\* parseCodexRateLimitsFromHeaders: what has no header is absent; without
\* headers of the account's own limit, another limit is taken for it.
FromHeaders(c, named, withCredits) ==
  [windows |-> [w \in QuotaWindows |-> IF w \in named THEN quota[c].windows[w] ELSE NoWindow],
   credits |-> withCredits /\ quota[c].credits,
   of      |-> IF named = {} /\ ~withCredits THEN "other" ELSE "codex"]

\* parseCodexRateLimitsFromEvent: the limit the event is about.
FromEvent(c) == {FromUsage(c), [NoData EXCEPT !.of = "other"]}

WithoutRows == [c \in Creds |-> NoRow]

\* The program starts without rows, or with those of an earlier run.
QuotaInit ==
  /\ clock = 0 /\ moves = 0
  /\ quota = [c \in Creds |-> Unused] /\ vouchers = [c \in Creds |-> Vouchers]
  /\ account = [c \in Creds |-> "enabled"] /\ token = [c \in Creds |-> "good"]
  /\ known \in {WithoutRows,
                 [c \in Creds |-> [data |-> FromUsage(c), status |-> "ok"]]}
  /\ good = [c \in Creds |-> known[c].data]
  /\ onWay = {} /\ fetch = NotFetching /\ redeem = NotRedeeming

Exhausted(w, t) == w.full /\ w.resets > t

\* Mutant: the first reset.
SoonestReset(data, t) ==
  Min({data.windows[w].resets : w \in {x \in QuotaWindows : Exhausted(data.windows[x], t)}})

\* CodexRateLimitRetryAt: every exhausted window must have been reset, unless
\* there are credits.
LastReset(data, t) ==
  Max({data.windows[w].resets : w \in {x \in QuotaWindows : Exhausted(data.windows[x], t)}})
Limited(data, t) == ~data.credits /\ \E w \in QuotaWindows : Exhausted(data.windows[w], t)

\* GetCredentialRateLimitsByEndpoint joins the rows with the credentials.
Existing == {c \in Creds : account[c] # "deleted"}
RateLimits == [c \in Existing |-> known[c]]

\* codexCredentialRateLimitRetryAt, for the pool: the first that comes back.
Usable(t) == {c \in Existing : account[c] = "enabled" /\ ~Limited(RateLimits[c].data, t)}
PoolRetryAt == Min({LastReset(RateLimits[c].data, clock) : c \in {d \in Existing : account[d] = "enabled"}})

\* codexOverviewCredentialHealthy
Healthy(c) == account[c] = "enabled" /\ RateLimits[c].status \in {"", "ok"}
HasData(c) == RateLimits[c].data # NoData
\* BuildCodexAccountOverview, addRateLimit and addWindow
ResetsOf(c) == {RateLimits[c].data.windows[w].resets : w \in QuotaWindows} \ {0}
Overview ==
  [total |-> Cardinality(Existing), active |-> Cardinality({c \in Existing : Healthy(c)}),
   problems |-> Cardinality({c \in Existing : RateLimits[c].status \notin {"", "ok"}}),
   available |-> Cardinality({c \in Existing : HasData(c)}),
   highest |-> [w \in QuotaWindows |-> \E c \in Existing : RateLimits[c].data.windows[w].full],
   next |-> LET all == UNION {ResetsOf(c) : c \in Existing} IN IF all = {} THEN 0 ELSE Min(all)]
\* buildCodexTokenPoolHomeAccount
HomeAccount(c) ==
  [cred |-> c, enabled |-> account[c] = "enabled",
   error |-> RateLimits[c].status \notin {"", "ok"},
   full |-> [w \in QuotaWindows |-> RateLimits[c].data.windows[w].full],
   reset |-> IF ResetsOf(c) = {} THEN 0 ELSE Min(ResetsOf(c))]

-----------------------------------------------------------------------------
(* Storing                                                                 *)

\* Mutant: a failed query forgets the quota.
Replaced(row, data, status) == [data |-> data, status |-> status]

\* UpsertCredentialRateLimits: without data only the status changes.
Upserted(row, data, status) ==
  [data |-> IF data = NoData THEN row.data ELSE data, status |-> status]

\* storeCredentialRateLimits, which does not ask whether the credential exists.
Stores(c, data, status) ==
  /\ known' = [known EXCEPT ![c] = Upserted(@, data, status)]
  /\ good' = IF data = NoData THEN good ELSE [good EXCEPT ![c] = data]

Moves == moves < MaxMoves /\ moves' = moves + 1
MayCall == Cardinality({k \in {<<"fetch", fetch.pc>>, <<"redeem", redeem.pc>>} : k[2] # "rest"}) < MaxCalls

-----------------------------------------------------------------------------
(* The upstream and the answers of requests                                *)

UpstreamOnly == UNCHANGED <<account, known, good, fetch, redeem>>

ClockTicks == /\ clock < MaxClock /\ clock' = clock + 1
              /\ UNCHANGED <<quota, vouchers, token, onWay, moves>> /\ UpstreamOnly

\* A window becomes exhausted; its reset is in the future.
Exhaust(c, w) ==
  /\ Cardinality({p \in Creds \X QuotaWindows : quota[p[1]].windows[p[2]].full}) < MaxUses
  /\ quota' = [quota EXCEPT ![c].windows[w] = [full |-> TRUE, resets |-> clock + Lengths[w]]]
  /\ UNCHANGED <<clock, vouchers, token, onWay, moves>> /\ UpstreamOnly

\* The account buys credits, or its token expires.
Buy(c) == /\ ~quota[c].credits /\ Moves /\ quota' = [quota EXCEPT ![c].credits = TRUE]
          /\ UNCHANGED <<clock, vouchers, token, onWay>> /\ UpstreamOnly
Expire(c) == /\ token[c] = "good" /\ Moves
             /\ \E to \in {"stale", "dead"} : token' = [token EXCEPT ![c] = to]
             /\ UNCHANGED <<clock, quota, vouchers, onWay>> /\ UpstreamOnly

\* A request is answered with a quota, which is not captured yet.
Answers(c) ==
  /\ account[c] = "enabled" /\ onWay = {} /\ Moves
  /\ \E named \in {{}, QuotaWindows}, withCredits \in BOOLEAN :
       \E data \in FromEvent(c) \cup {FromHeaders(c, named, withCredits)} :
         onWay' = {[cred |-> c, data |-> data]}
  /\ UNCHANGED <<clock, quota, vouchers, token>> /\ UpstreamOnly

\* captureCodexRateLimitsFromHeaders, captureCodexRateLimitsFromEvent
Capture ==
  \E a \in onWay :
    /\ onWay' = onWay \ {a} /\ Stores(a.cred, a.data, "ok")
    /\ UNCHANGED <<clock, quota, vouchers, account, token, fetch, redeem, moves>>

\* SetEndpointCredentialEnabled, DeleteEndpointCredential
Edit(c) ==
  /\ account[c] # "deleted" /\ Moves
  /\ \/ /\ account' = [account EXCEPT ![c] = IF @ = "enabled" THEN "disabled" ELSE "enabled"]
        /\ UNCHANGED known
     \/ /\ account' = [account EXCEPT ![c] = "deleted"] /\ known' = [known EXCEPT ![c] = NoRow]
  /\ good' = [good EXCEPT ![c] = IF account'[c] = "deleted" THEN NoData ELSE @]
  /\ UNCHANGED <<clock, quota, vouchers, token, onWay, fetch, redeem>>

-----------------------------------------------------------------------------
(* FetchCodexRateLimits                                                    *)

FetchOnly == UNCHANGED <<clock, quota, vouchers, account, onWay, redeem>>
Current == Head(fetch.todo).cred

\* The credentials are loaded once; one may be asked for alone.
FetchBegins ==
  /\ fetch.pc = "rest" /\ MayCall
  /\ \E wanted \in {Existing} \cup {{c} : c \in Existing} :
       fetch' = [NotFetching EXCEPT !.pc = "next", !.loaded = Cardinality(wanted),
                   !.todo = SetToSeq({[cred |-> c, enabled |-> account[c] = "enabled"] : c \in wanted})]
  /\ FetchOnly /\ UNCHANGED <<token, known, good, moves>>

FetchNext ==
  /\ fetch.pc = "next"
  /\ fetch' = CASE fetch.todo = <<>> -> [fetch EXCEPT !.pc = "told"]
                [] fetch.todo # <<>> /\ Head(fetch.todo).enabled
                     -> [fetch EXCEPT !.pc = "ask", !.retrying = FALSE, !.data = NoData]
                [] fetch.todo # <<>> /\ ~Head(fetch.todo).enabled
                     -> [fetch EXCEPT !.todo = Tail(@), !.skipped = @ + 1]
  /\ FetchOnly /\ UNCHANGED <<token, known, good, moves>>

\* fetchCodexRateLimitsForCredential
FetchAsks ==
  /\ fetch.pc = "ask"
  /\ \/ /\ token[Current] = "good" /\ UNCHANGED moves
        /\ fetch' = [fetch EXCEPT !.pc = "store", !.answer = "ok", !.data = FromUsage(Current)]
     \/ /\ token[Current] # "good" /\ UNCHANGED moves
        /\ fetch' = [fetch EXCEPT !.answer = "unauthorized",
                                  !.pc = IF fetch.retrying THEN "store" ELSE "refresh"]
     \/ /\ Moves \* network, blocked, upstream, parse_error, empty
        /\ fetch' = [fetch EXCEPT !.answer = "failed", !.pc = "store"]
  /\ FetchOnly /\ UNCHANGED <<token, known, good>>

\* refreshCredential (TokenPool); an error leaves the status unauthorized.
FetchRefreshes ==
  /\ fetch.pc = "refresh"
  /\ IF token[Current] = "dead"
     THEN fetch' = [fetch EXCEPT !.pc = "store"] /\ UNCHANGED token
     ELSE /\ fetch' = [fetch EXCEPT !.pc = "ask", !.retrying = TRUE]
          /\ token' = [token EXCEPT ![Current] = "good"]
  /\ FetchOnly /\ UNCHANGED <<known, good, moves>>

FetchStores ==
  /\ fetch.pc = "store" /\ Stores(Current, fetch.data, fetch.answer)
  /\ fetch' = [fetch EXCEPT !.pc = "next", !.todo = Tail(@),
                 !.updated = IF fetch.answer = "ok" THEN @ + 1 ELSE @,
                 !.failed  = IF fetch.answer = "ok" THEN @ ELSE @ + 1]
  /\ FetchOnly /\ UNCHANGED <<token, moves>>

FetchEnds == /\ fetch.pc = "told" /\ fetch' = NotFetching /\ Moves
             /\ FetchOnly /\ UNCHANGED <<token, known, good>>

-----------------------------------------------------------------------------
(* ConsumeCodexResetCredit                                                 *)

RedeemOnly == UNCHANGED <<clock, account, known, good, onWay, fetch>>

\* loadCodexResetCreditCredential, and a refresh before it is needed
RedeemBegins(c) ==
  /\ redeem.pc = "rest" /\ MayCall /\ account[c] # "deleted"
  /\ redeem' = [NotRedeeming EXCEPT !.pc = "ask", !.cred = c]
  /\ \/ UNCHANGED token
     \/ token[c] = "stale" /\ token' = [token EXCEPT ![c] = "good"]
  /\ RedeemOnly /\ UNCHANGED <<quota, vouchers, moves>>

\* The upstream takes a reset credit and resets the windows.
Redeemed(c) == /\ vouchers' = [vouchers EXCEPT ![c] = @ - 1]
               /\ quota' = [quota EXCEPT ![c].windows = Unused.windows]

\* consumeCodexResetCreditOnce: the answer may be lost.
RedeemAsks ==
  LET c == redeem.cred
      told(answer, n) == redeem' = [redeem EXCEPT !.pc = "answered", !.answer = answer, !.taken = @ + n]
  IN  /\ redeem.pc = "ask"
      /\ \/ /\ token[c] # "good" /\ told("unauthorized", 0) /\ UNCHANGED <<quota, vouchers, moves>>
         \/ /\ token[c] = "good" /\ vouchers[c] = 0 /\ told("error", 0)
            /\ UNCHANGED <<quota, vouchers, moves>>
         \/ /\ token[c] = "good" /\ vouchers[c] > 0 /\ Redeemed(c)
            /\ \/ told("ok", 1) /\ UNCHANGED moves
               \/ told("network", 1) /\ Moves
         \/ told("network", 0) /\ Moves /\ UNCHANGED <<quota, vouchers>>
      /\ RedeemOnly /\ UNCHANGED token

\* Mutant: an answer that was lost is asked for again.
RetriesAlways == {"unauthorized", "network"}

\* Only a refusal of the token is tried again.
Retries == {"unauthorized"}

RedeemAnswered ==
  LET again == redeem.answer \in Retries /\ ~redeem.again
  IN  /\ redeem.pc = "answered"
      /\ redeem' = IF again /\ token[redeem.cred] # "dead"
                   THEN [redeem EXCEPT !.pc = "ask", !.again = TRUE]
                   ELSE [redeem EXCEPT !.pc = "told"]
      /\ token' = IF again /\ token[redeem.cred] = "stale"
                  THEN [token EXCEPT ![redeem.cred] = "good"] ELSE token
      /\ RedeemOnly /\ UNCHANGED <<quota, vouchers, moves>>

RedeemEnds == /\ redeem.pc = "told" /\ redeem' = NotRedeeming /\ Moves
              /\ RedeemOnly /\ UNCHANGED <<quota, vouchers, token>>

QuotaNext ==
  \/ ClockTicks \/ Capture
  \/ \E c \in Creds : Buy(c) \/ Expire(c) \/ Answers(c) \/ Edit(c) \/ RedeemBegins(c)
  \/ \E c \in Creds, w \in QuotaWindows : Exhaust(c, w)
  \/ FetchBegins \/ FetchNext \/ FetchAsks \/ FetchRefreshes \/ FetchStores \/ FetchEnds
  \/ RedeemAsks \/ RedeemAnswered \/ RedeemEnds
QuotaSpec == QuotaInit /\ [][QuotaNext]_quotaVars

-----------------------------------------------------------------------------
(* Properties                                                              *)

\* A row that says what the upstream says selects whom the upstream admits,
\* and the time told to a client whose account is exhausted is the first at which
\* it will admit one (CodexRateLimitRetryAt, GetUsableEndpointCredentialByProvider).
SelectionMatches ==
  LET admits(c, t) == quota[c].credits \/ ~\E w \in QuotaWindows : Exhausted(quota[c].windows[w], t)
      enabled == {c \in Creds : account[c] = "enabled"}
      times == clock..(MaxClock + Max({Lengths[w] : w \in QuotaWindows}))
  IN  (\A c \in enabled : known[c].data = FromUsage(c)) =>
        /\ Usable(clock) = {c \in enabled : admits(c, clock)}
        /\ enabled # {} /\ Usable(clock) = {} =>
             PoolRetryAt = Min({t \in times : \E c \in enabled : admits(c, t)})

\* A failed query keeps the quota that was known, and every credential loaded
\* is counted once (UpsertCredentialRateLimits, FetchCodexRateLimits).
FailureKeepsData ==
  /\ \A c \in Creds : known[c].data = good[c] /\ (known[c].status = "ok" => good[c] # NoData)
  /\ fetch.pc = "told" => fetch.updated + fetch.failed + fetch.skipped = fetch.loaded

\* A call takes one reset credit at most, exactly one if it says so, and none
\* if it was refused (ConsumeCodexResetCredit).
RedeemExact ==
  /\ redeem.taken <= 1
  /\ redeem.pc = "told" => /\ redeem.answer = "ok" => redeem.taken = 1
                           /\ redeem.answer \in {"unauthorized", "error"} => redeem.taken = 0

\* The summary of the home page agrees with the accounts listed under it: its
\* figures are theirs, and only an account with an error or disabled is left
\* out of the active ones (BuildCodexAccountOverview, buildCodexTokenPoolHomeSummary).
HomeAgrees ==
  LET accounts == {HomeAccount(c) : c \in Existing}
      resets == {a.reset : a \in accounts} \ {0}
  IN  /\ Overview.total = Cardinality(accounts)
      /\ Overview.active = Cardinality({a \in accounts : a.enabled /\ ~a.error})
      /\ Overview.problems = Cardinality({a \in accounts : a.error})
      /\ Overview.highest = [w \in QuotaWindows |-> \E a \in accounts : a.full[w]]
      /\ Overview.next = IF resets = {} THEN 0 ELSE Min(resets)

QuotaSound == SelectionMatches /\ FailureKeepsData /\ RedeemExact /\ HomeAgrees
=============================================================================
