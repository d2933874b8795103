# A TLA+ model of AINexus

AINexus (the repository's module is `ccNexus`) is a local gateway between
coding agents (Claude Code, Codex, OpenAI-style clients) and a list of upstream
API *endpoints*. A request is converted to the format of an endpoint, sent,
converted back, and moved on to another endpoint when that fails. An endpoint
has one API key or a *token pool* of OAuth credentials that are chosen,
refreshed and put aside by the proxy. A desktop application, a web interface
and a licence server manage it.

This directory holds TLA+ modules of the parts whose correctness depends on
order, concurrency or failure, TLC configurations that check them on small
instances, and proofs that TLAPS checks. `PROJECT.json` lists components, runs,
mutants, the lines each definition stands for, findings, hazards and theorems.

    tlc -config TokenPoolRefresh.cfg MCTokenPool.tla     # any run
    tlapm TokenPoolProofs.tla                            # any proof module

## The system

Names of files are relative to `src/internal/`.

**Endpoint plan** (`proxy/request_fallback.go`, `endpoint_cooldown.go`,
`request_format_priority.go`). No state of its own. From the enabled endpoints
it drops those that are cooling and those at their concurrency limit, sorts by
how well their format fits the client, and finds the place to start from;
`Advance` goes round. Hard: three reorderings and two moduli over different
lists.

**Endpoint health** (`proxy/endpoint_cooldown.go`,
`endpoint_circuit_breaker.go`). State: a deadline per cooling endpoint, a window
of outcomes per endpoint, under two locks. Right when a breaker that is due has
tripped, and a cooldown ends only by its time, a success or the user. Hard: the
locks are taken one after the other, the clock is read before them.

**Failover loop** (`proxy/proxy.go`, `handleProxy`). State: the locals of each
request, and the shared `activeRequests`, cooldowns and `currentIndex`. Some
forty `continue`s and `return`s. Right when every request ends, every place in
`activeRequests` is given back once, and the client is told the truth about who
failed.

**Token pool** (`storage/credentials.go`, `proxy/codex_credentials.go`,
`codex_refresh_singleflight.go`; the editors in `cmd/desktop/app.go`,
`cmd/server/webui/api/credentials.go`). State: the rows of
`endpoint_credentials`, the calls under way, the copy each request holds. Right
when a refresh token, which the authority accepts once, is exchanged once; when
what comes late does not undo what is newer; when no one waits for ever. Hard:
every caller works on a copy of the row while the row changes.

**Stream to the client** (`proxy/streaming.go`, `semantic_empty.go`,
`responses_normalization.go`). A session with a heartbeat goroutine beside the
request. Right when the created event comes first, a stream ends with one
terminal event that is true, and nothing follows the end.

**Answers and conversions** (`transformer/convert`, `proxy/streaming.go`,
`response.go`). Streams, requests and answers in four formats (Claude, Chat,
Responses, Gemini), each with its own blocks, items or chunks. Right when the
result is well formed and nothing of the answer is lost or doubled.

**Codex quotas** (`proxy/codex_rate_limits.go`, `codex_reset_credits.go`,
`storage/rate_limits.go`, `service/codex_account_overview.go`). A snapshot per
credential from headers, events or a query, and credits that reset it.

**Endpoint list** (`config/config.go`, `service/endpoint.go`,
`cmd/server/webui/api/endpoints.go`, `proxy/runtime_snapshot.go`, `handler.go`).
The list in memory, its rows, the snapshot of a request, the index of the current
endpoint. Hard: an edit is copy, publish, save, without a lock over them.

**Settings and listener** (`service/settings.go`, `config/config.go`,
`proxy/proxy.go`). The configuration in memory, its rows, and the address served.

**Statistics** (`proxy/stats.go`, `storage/sqlite.go`, `service/stats.go`,
`service/archive.go`). Rows per day, endpoint and client; sums over periods.

**Backups** (`service/backup*.go`, `service/webdav.go`, `webdav/sync.go`,
`storage/sqlite.go`). Whole databases copied, compared and merged, through temporary
files. No lock keeps operations apart: those over WebDAV share a directory and the
names in it, those of S3 have directories of their own inside it.

**Device login** (`codexauth/manager.go`). A session and a goroutine that polls,
with `Cancel` and `Status` beside it.

**Licence server and client** (`onlinelicense/`, `cmd/desktop/app.go`). Cards
with device slots, activations, signed tickets with an offline grace; remote
commands; uploads of error counts; analysis jobs with a scheduler. Three
goroutines of the client start its proxy, each after checks of its own, in a fourth.

**Everything else** (model list cache, request building, agent configuration,
sessions, terminals, tray, updater, single instance, logger, LAN discovery, user
interfaces): presentation, files, operating system.

A request goes through `handleProxy`: plan from the configuration snapshot,
cooldowns and active counts; mark active; select a credential from storage and
perhaps refresh it; convert and send; write the stream; report the outcome to
the credential row, the breaker, the cooldown map, statistics; mark inactive;
continue or return. Each piece of shared state has its own lock and nothing is
atomic over two of them. The interfaces, remote commands and restores change the
same rows and maps from other goroutines.

## Modules

| module | models | checked by run |
|---|---|---|
| `Lists` | the members of a list and what a filter keeps of it, for `RequestPlan` and `StreamSession` | with these |
| `RequestPlan`, `PlanWalk` | the plan of a request, as operators; set-based reference definitions and the walk of `Advance` | `services` |
| `EndpointHealth` | cooldown map and circuit breaker | `services` |
| `Failover` (extends `RequestPlan`) | `handleProxy` with the shared counts, cooldowns and current endpoint | `failover_one`, `edits` |
| `TokenPool` | rows, requests, refresh, editors of one Codex token pool | `token_pool_refresh`, `token_use`, `token_pool_disabled` |
| `TokenLedger` | abstract: what the pool promises about tokens; `TokenPool` implements it | `token_pool_refresh` |
| `StreamSession` | the stream of one request and its heartbeat | `stream` |
| `ClaudeBlocks`, `ResponsesItems`, `ChatChunks` | streams converted for Claude, Responses, and Chat or Gemini clients | `services` |
| `Histories` | requests and whole answers converted; calls and results brought together | `services` |
| `Answers` | a stream gathered into one answer; empty answers refused | `services` |
| `Statistics` | recording, sums, renames, archives, the migration of an older table | `services` |
| `CodexQuota` | quota snapshots, selection by them, reset credits | `queues` |
| `Listener` | settings, rebinding, starts and stops, restarts | `services` |
| `EndpointList` | edits of the endpoint list, the index kept over them, saves that fail | `edits`, `endpoint_pool_lost` |
| `Backups` | backups, comparisons, restores, the merge | `edits` |
| `Licence` | cards, activations, tickets, refresh | `licence` |
| `LicensedProxy` (extends `Licence`) | the proxy that follows: the flag, the callers past its checks, the goroutines that start it, the server | `licence`, `licence_grace` |
| `RemoteCommands` | queue, delivery, execution and report of commands | `remote_commands` |
| `ErrorTelemetry`, `DeviceLogin`, `AIJobs` | uploads of error counts; a device login; analysis jobs | `queues` |
| `MC...` | instances for TLC | |
| `...Proofs` | theorems, see Proofs | |

`Failover` abstracts `EndpointHealth` (a recorded failure may trip the breaker
at any time), `TokenPool` (an attempt may find its pool starved or its
credential refused) and `StreamSession` (what has been written is one of
three). `MCServices`, `MCQueues` and `MCEdits` put components that share no
state into one run: a behaviour picks a scene and stays in it, and the variables
of the others keep their initial values. Only the run is shared; each scene
explores its component's whole state space. `MCLicence` has the licence without its
proxy on one scene, and the proxy with one card and one device on the other.

How state and actions correspond to the code is said at the head of each module
and line by line in `PROJECT.json` (`map`). The choices that matter:

- **Grain.** One action is what one lock, one storage call, one statement or one
  exchange over a network makes atomic; what the code does between them is
  open to everybody else. A server transaction of the licence store is one step,
  `RemoteCommands` has a step per statement, because its handlers use several.
- **RequestPlan.** An endpoint is its name; a list a sequence without
  repetitions; a cooldown entry absent, active or recovered. Case folding of
  names is left out.
- **EndpointHealth.** The stamp of a call is any time from `now - Skew` to `now`,
  as it is read before the lock. `Prune` drops leading events only. With
  `WindowSec = 0` nothing is pruned; that setting is not part of the instance.
- **Failover.** Each exit of the loop body is an action. `tries` is
  `endpointAttempts`, `left` what remains of the loop counter, `wrote` the two
  flags of the stream result. Preference tiers are left open.
- **TokenPool.** Tokens are generations; the authority may rotate the refresh
  token or keep it, refuses one it has rotated, and may lose its answer. Every
  write to a row may fail. `UpdateEndpointCredential` asks for id and endpoint name
  (`Matches`), so a refresh or an edit that began before `RenameEndpoint` stores
  nothing; every other write goes by the id. `lost` keeps the refresh tokens whose
  successor never reached the row, for either reason.
  Deadlines are abstracted to what the code asks of them; `last_used_at`, the
  second key of the selection, is a choice. Other providers' pools are left out.
- **Streams and histories.** Events, blocks, items and parts are kinds with
  numbers; texts are fragments, ids and names whether they have come.
- **Statistics, Backups.** Sums are compared with a history variable (`truth`,
  `made`), which no action of the code reads.
- **Backups.** A temporary file lies in the shared directory (WebDAV), in one of its
  operation inside it (S3), or is the backup itself (local). What a WebDAV operation
  removes on return is everything in the shared directory, whoever put it there.
  Writing a file, and reading one, is a single step.
- **Endpoint list.** A row is written whole, from the copy of the edit; its position
  is the row's own. The web API takes `enabled` from the request when it adds and
  updates, the desktop leaves it.
- **Licence.** Server and client share a clock. An answer may be lost after the
  transaction; the program may restart. Administrators' accounts, permissions and
  sessions are left out, and so is the signature. `LicensedProxy` keeps apart the
  flag `proxyStarted`, who is past the checks of `startProxyIfLicensed`, the
  goroutines that have not called `proxy.Start` yet, and the server; `Start` may
  fail, and accepting may fail later.
- **RemoteCommands.** A command takes effect in parts (`took`): `endpoint.create` adds
  and then toggles, `endpoint.update` likewise, and the second may fail. "failed" may
  therefore be told of a command that took effect in part.
- **Histories.** A text that is a string is told from a text in an array of content
  parts, from one in an item without `type`, and custom calls from calls, since the
  conversions treat them differently; `Lost` names exactly what is lost.
- **Answers.** Whether an answer is empty is judged in the client's format, after the
  conversion. A Responses stream may end with `response.failed` or
  `response.incomplete`.

## Runs

| run | instance | checks |
|---|---|---|
| `services` | one scene per component; 3 endpoints in a plan; 2 goroutines reporting on one endpoint; streams of up to 8 events; histories of 4 messages; 2 recorded requests; 2 calls that overlap over the settings | `BreakerSound`, `CooldownsStand`, `PlanSound`, `StreamsWellFormed`, `HistoriesSound`, `AnswersSound`, `StatisticsSound`, `ListenerSound` |
| `queues` | 2 windows of errors, 2 faults; 2 logins of one account; a monthly and a manual job, capacity 1; 2 accounts with 2 windows | `ServerNeverOver`, `FailuresArrive`, `OutcomeIsTrue`, `LoginsEnd`, `ResultsBelong`, `ScheduledJobsEnd`, `QuotaSound` |
| `failover_one` | 1 request, 3 endpoints (1 pool), pinned or not | `RejectedByAll`, `AllRequestsEnd` |
| `edits` | 2 requests, 2 endpoints of limit 1; 1 editor, 2 edits and a fault; 1 backup file at 3 providers, 1 worker, 2 goroutines that restore, 1 request, 3 operations | `ActiveIsExact`, `ListSound`, `RestoresAreExact` |
| `token_pool_refresh` | 1 credential, 2 workers: 2 generations and every outcome, or 1 generation and renames of the endpoint | `TypeOK`, `SingleFlight`, `RefreshTokenFresh`, `KeepsLedger`, `NoCleanRevival` |
| `token_use` | 1 worker and 1 editor; 2 workers that refresh | `DeletedStaysDeleted`, `PairReleased` |
| `licence` | 2 cards with 1 slot, 2 devices, 1 program; or 1 card, 1 device and its proxy, 2 goroutines that start it, 1 failed start or accept | `SlotsRespected`, `BlockedForGood`, `RevocationArrives`, `ProxyFollows` |
| `remote_commands` | 2 commands, 2 handlers, 1 remembered nonce, 1 fault | `ReportsAreTrue`, `NeverReopened`, `QueueDrains` |
| `stream` | 4 kinds of client, 2 attempts, 2 to 3 events, 1 heartbeat | `CreatedFirst`, `CompleteMeansToolsDone`, `EndTold`, `SilentAfterEnd`, `HeartbeatEnds` |
| `token_pool_disabled`, `endpoint_pool_lost`, `licence_grace` | | a violation each, see Findings |

**Bounds, and why they are enough.** Credentials interact only in the
selection, so one credential with two workers has every race over a row, a flight
and its joiners; a second generation is needed for a stale copy. A rename meets one
exchange at a time, so that setting of `MCTokenPool` has one generation, and the
outcomes that go by the id are left to the other. Two goroutines
with a lag of one step give every order of two reports. Two requests give every
race over a shared count, and three endpoints are the fewest for which an order,
a starting point and a skipped place differ. One slot and two devices compete;
the second card is the fallback. Two handlers let a poll be abandoned and
overtaken, and a memory of one nonce forgets. Streams are long enough for
every kind of block or item to meet every other with one in between, which is
where numbering goes wrong. Two calls over the settings have every overlap of their
three locks; starts and restarts come with bounds of their own. A worker and two restores overlap in every way over the shared
file, with one name at each provider, and a backup is restored twice; two goroutines that start are one more than the flag
expects. `MaxMint`,
`MaxTime`, `MaxClock`, `MaxEvents`, `Skew`, `MaxFaults`, `MaxEdits`, `MaxMishaps`,
`MaxStarting`, `MaxBackupOps` and the like
exist for TLC only. Symmetry of workers or requests is used in runs that check
no liveness.

**Deadlock** is not checked: every system here may stop, when all requests are
done, all calls made, all rows deleted.

**Fairness.** Weak fairness only, of goroutines that have been started and have
nothing to wait for: a request's own steps (header timeouts, the client or the
upstream end every attempt), a refresh (`codexRefreshTimeout` ends the exchange), the
loops that refresh the licence, poll commands and upload counts (tickers that run as
long as the program), the goroutines that start the proxy, the server's handlers, the
goroutine and both clocks of a login, the scheduler of analysis jobs, the heartbeat's loop. Nothing is assumed of
users, administrators, editors or the upstream.

Each property has a mutant in `PROJECT.json`: a plausible bug (a dropped guard, an
off-by-one, a missing reset) that the same run then finds.

## Findings

Each is a run in which TLC finds a violation of what a text of the repository says.

- `token_pool_disabled`: a refresh under way stores the whole row from its copy and
  enables a credential the user disabled meanwhile.
- `endpoint_pool_lost`: an edit that copied the list before another edit renamed
  an endpoint saves the old list and deletes the renamed endpoint with its
  credentials.
- `licence_grace`: a proxy that runs is not stopped when the offline grace ends
  while the server cannot be reached.

Other disagreements and oddities met while modelling. Each is a behaviour of these
modules, or of the lines named, without a run of its own.

*Requests.* The walk over a plan sorted by format starts at the current endpoint's
place and meets worse tiers before better ones. A request can start on a recovered
endpoint although `endpoint_cooldown.go:197` logs that it was put last. The
concurrency limit is checked when a request is planned and taken when it is
attempted, so two can exceed it. A stream that breaks after progress was flushed is
retried elsewhere, against the comment in `streaming.go`. "All endpoints failed" can
come before the second endpoint was tried (`proxy.go:1734` and `1925` reset
`endpointAttempts`, not the loop counter). When all credentials of the only endpoint
are limited, a request that does not stream gets an empty 200 (`proxy.go:968`). An
HTML 403 is treated by the retry branch before the test for it and invalidates
the credential.

An answer gathered from a completed list that has no text has each of its calls
twice (`AnswersSound` names the case); a stream that ends with `response.failed` is handed on
as a completed answer; the list of an incomplete response counts only when no event
told of its items.

*Token pool.* An invalid credential whose token has expired counts as expired and
may be selected (`credentials.go:65`); a late 429 or cooldown takes the mark away.
Marks that go by id (`proxy.go:1295`, `2075`) hit a newer token. An editor's store
of a whole row takes a token refreshed meanwhile back to the exchanged one. If the
endpoint is renamed during a refresh, or the storage fails after the exchange, the new
tokens are dropped and the row keeps a refresh token that is already dead
(`codex_credentials.go:190`); such tokens are in `lost`, and `RefreshTokenFresh` excuses
them as it excuses a lost answer. Because of the editors,
`RefreshTokenFresh`, `KeepsLedger`, `GenerationsMonotone` and `NoCleanRevival` are
stated for no editors.

*Streams.* A Chat upstream that sends `[DONE]` without a finish reason is completed
twice (`streaming.go:1376`); a sequence number is reset (`streaming.go:303`); a cut
Chat stream gathered into an answer gets finish "stop", a cut Responses stream is
delivered as far as it came; events without `output_index` fall on index 0.
Conversions: reasoning while a text block is open takes that block's number; a
Responses `[DONE]` without `response.completed` gives no stop reason; Gemini's `[DONE]`
after a finish ends the message twice; a second text or late thoughts of Claude
collide with an index in use; a completed list with an item that was not streamed
numbers it like another; a call open at `response.completed` is not handed on;
OpenAI to Gemini drops calls beside content. Conversions to Gemini clients have no
caller outside tests. Histories: a result just before its call is put in order for
some formats and refused for others; sequential calls of one turn become parallel
ones; "length" is lost between some formats. The properties say which of these cases
they leave out. Texts and calls are lost (`Lost` and `Custom` of `Histories`): Chat to
Claude drops text parts beside `tool_calls` (`claude_openai.go:225`), and Chat to any
other format drops a system message whose content is an array (`claude_openai.go:208`,
`openai_openai2.go:34`, `openai_gemini.go:28`); Chat to Responses keeps the last
system message only; Responses to any other format drops items without `type`,
developer items that are strings, and `custom_tool_call` items and their outputs
(`openai_openai2.go:433`, `claude_openai2.go:340` and `935`), and to Chat all items
whose content is a string. Gemini and Responses to Responses refuse no history,
complete or not.

*Edits and settings.* A snapshot may file an old list under the new version
(`runtime_snapshot.go:16`; `Readers` of `EndpointList`). A switch of the current
endpoint during an edit is undone; concurrent editors lose updates; a list that
fails validation after it was published stays live. After both binds fail the next
rebind listens on the empty address, although `proxy.go:227` says it restores the
previous listener; after a fatal accept error `Start` says "already started" for
ever; a
failed save leaves rows of both configurations although memory is restored; nil groups
(WebDAV, backup) are not cleared by a save; `PUT /api/config` ignores a locked port
and answers success.

*Statistics and backups.* A crash between the statements of
`migrateDailyStatsClientIP` leaves `daily_stats_old` unread for ever; request and
tokens of one call may fall on different days; `totalSuccess` is requests minus
errors although requests are successes only. WebDAV operations share a directory
that each of them removes: two restores that overlap may merge each other's backup
(`webdav.go:164`), and an S3 operation whose directory lies in it fails
(`backup_helpers.go:60`). `RestoresAreExact` allows the first, which no text denies, and
nothing else; a "default" device row makes `keep_local` count
double (`sqlite.go:1814`); a settings save between merge and `ReplaceWith` deletes
merged endpoints.

*The proxy and its licence.* Two callers that are past the checks of
`startProxyIfLicensed` both start it; the second `Start` fails and resets the flag
(`app.go:259`), and the first one's server stays without anybody who would stop it. The
same comes of a licence lost before the goroutine has bound, and of a fatal error of
accepting. `ProxyFollows` is about a proxy that has no such server (`Astray`).

*Remote commands.* A command reported as failed may have created an endpoint, or
changed one, before its second step failed (`remote_management.go:216`, `308`).

*Quotas.* An event about another metered limit replaces the account's snapshot;
headers without credits drop the stored ones; a snapshot captured late overwrites a
newer one; the overview's next reset may lie in the past.

*Logins, licence server.* A cancel after the last look still stores the credential;
a login shown as expired may become complete; two logins of one account insert two
rows. An analysis job left running by a crash is never claimed again and counts
against its owner's capacity until the yearly clean-up.

## Proofs

Everything below holds for all values of the constants that the assumption of its
module allows: `ConstantsOK` (the pool's marker values are no numbers or ids),
`FailoverAssumption`, `BackupsAssumption`, `LicenceAssumption`, `ProxyAssumption`,
`RemoteAssumption`,
`TelemetryAssumption`, `JobsAssumption`, `QuotaAssumption`, `HealthAssumption`,
`ListenerAssumption`, `ListAssumption`, `PlanAssumption` and `StreamAssumption`
(numbers are natural, what the code never sets to zero is positive, markers are
apart, sets it enumerates are finite; TLC evaluates each). `DeviceLogin` needs none. Bounds such as
`MaxMint` or `MaxFaults` are constants like the others, so a theorem is about any
number of faults.

| theorem | module | says |
|---|---|---|
| `TypeCorrect` | `TokenPoolProofs` | `Spec => []TypeOK` |
| `SingleFlightHolds` | `TokenPoolProofs` | `Spec => []SingleFlight` |
| `DeletionIsFinal` | `TokenPoolProofs` | `Spec => DeletedStaysDeleted` |
| `RefreshTokenStaysFresh` | `TokenPoolProofs` | `Admins = {}` implies `Spec => []RefreshTokenFresh` |
| `GenerationsNeverGoBack` | `TokenPoolProofs` | `Admins = {}` implies `Spec => GenerationsMonotone` |
| `RejectedStaysMarked` | `TokenPoolProofs` | `Admins = {}` implies `Spec => NoCleanRevival` |
| `PoolKeepsLedger` | `TokenPoolProofs` | `Admins = {}` implies `Spec => KeepsLedger`: the pool implements the ledger |
| `StreamTyped` | `StreamProofs` | `Spec => []TypeOK` |
| `CreatedAlwaysFirst` | `StreamProofs` | `Spec => []CreatedFirst` |
| `EndAlwaysTold` | `StreamProofs` | `Spec => []EndTold` |
| `SilenceAfterEnd` | `StreamProofs` | `Spec => SilentAfterEnd` |
| `CompletionIsTrue` | `StreamProofs` | `Spec => []CompleteMeansToolsDone` |
| `ActiveStaysExact` | `EditsProofs` | `Spec => []ActiveIsExact` (`Failover`) |
| `RejectionIsUnanimous` | `EditsProofs` | `Spec => RejectedByAll` (`Failover`) |
| `RestoresStayExact` | `EditsProofs` | `BackupsSpec => []RestoresAreExact` |
| `ListStaysTyped` | `EditsProofs` | `ListSpec => []ListTypeOK` |
| `EditsStayHeld` | `EditsProofs` | `Readers = {}` implies `ListSpec => []EditsHold` |
| `PoolsAlwaysSurvive` | `EditsProofs` | one editor at most implies `ListSpec => []PoolsSurvive` |
| `ListStaysSound` | `EditsProofs` | both imply `ListSpec => []ListSound`, what the run `edits` checks |
| `SlotsAlwaysRespected` | `LicenceProofs` | `Spec => []SlotsRespected` |
| `OnceBlockedStaysBlocked` | `LicenceProofs` | `Spec => BlockedForGood` |
| `ReportsAlwaysTrue` | `RemoteProofs` | `Spec => []ReportsAreTrue` |
| `EndedStaysEnded` | `RemoteProofs` | `Spec => NeverReopened` |
| `ServerStaysBelow` | `QueuesProofs` | `Spec => []ServerNeverOver` (`ErrorTelemetry`) |
| `OutcomeStaysTrue` | `QueuesProofs` | `LoginSpec => []OutcomeIsTrue` |
| `ResultsAlwaysBelong` | `QueuesProofs` | `JobsSpec => []ResultsBelong` |
| `BreakerStaysSound` | `ServicesProofs` | `Spec => []BreakerSound` |
| `QuotaStaysSound` | `QueuesProofs` | `QuotaSpec => []QuotaSound` |
| `CooldownsAlwaysStand` | `ServicesProofs` | `Spec => CooldownsStand` |
| `ListenerStaysSound` | `ServicesProofs` | `ListenerSpec => []ListenerSound` |
| `PlanStaysSound` | `ServicesProofs` | `PlanSpec => []PlanSound` |

**Single flight.** `SingleFlight` alone is not inductive: a worker without a
credential could "own" a flight of nothing, and one without a refresh token could
redeem it. `IInv` adds `Bound` (a worker inside an attempt has a credential) and
`Armed` (who redeems holds a token the authority issued). Two lemmas carry the
argument: `QuietStep` (a worker outside every flight moves to another place outside)
and `FlightStep` (nobody enters, leaves or joins); only `StartRefresh` and
`Publish` need more. `OwnFlight` turns the invariant into exclusion: who is in the
flight of a credential is alone in it.

**Deletion.** All writes go through `Write`, `WriteIfCurrent` or `Matches`, and none finds a
row that is gone (`WritesSpareGone`); no invariant beyond typing is needed.

**Freshness.** `FreshInv` says that every token anyone holds was issued (`IssuedRow`,
`IssuedUsed`, `IssuedCopy`), and that whoever is about to persist holds the newest
generation, newer than the row's, with a refresh token not yet exchanged, and with a
copy that has the row's own token (`Newest`): should the store fail, that token is the
one to be noted as lost. The exchange establishes `Newest`, since the token it issues is
newer than all used ones or the old one was just accepted, and since a token that is
still alive is the stored one in whatever copy (`LiveInv`); the single flight keeps it
until the row is written, since nobody else can exchange for this credential. All other
actions keep the tokens of the rows (`TokensKept`) and are covered by `QuietFresh`.

**No clean revival.** A success leaves a marked row as it is. A row loses its mark
through the store of a refresh, and that, by `Newest`, brings a newer token; or through an
outcome that goes by the id alone, and those count a failure.

**Ledger.** By `LiveInv` an exchange of the pool is one of the ledger, and by `Newest`
a store replaces the token its exchange used. Every other step either leaves the tokens
of the rows and of the flights alone (`Unseen`), drops what is in hand, or removes a row.

**Streams.** `Typed` says that what is converted, withheld and sent are events, for
which `Kept` (what a filter keeps of a sequence) has its lemmas. `SilentAfterEnd` needs that
a request that has ended has set the flag (`Closed`). `EndTold` follows the end of an
answer: what `obs` notes as the end is in `sent` or withheld, nothing is withheld
once the stream has begun, and every way out of the loop either leaves an end in
`sent`, hands one to `Tell`, or needs none (`Ends`). `CreatedFirst` has two invariants.
For strict clients (`Opening`): the session's `written` is exactly "a created event has
been sent"; while it is not, a created event is reserved exactly if something is withheld, and
then it is the first thing withheld (`Ready`), so that a heartbeat that sends one
finds none reserved. For Codex (`Naming`): an attempt whose upstream has sent a
created event withholds it first, or the client has seen one; the filter swallows it
only in the second case (`Traced`).
`CompletionIsTrue` has three more. What an attempt sends carries its number
(`Aged`), so that the events of its predecessors can be set aside. The end of an
answer is in one place: sent, withheld, in the buffer of a conversion, or still to be
made up (`EndPlaced`). `ToolsNoted` is the argument itself: as long as the session notes
no open call, every call the client has seen begin has been seen to end, and a
completion is sent, or made up, only then. What the filter withholds reaches the
client later but in its order (`KeptOrder`), which is why an end that
follows a call in the upstream follows it at the client too.

**Failover.** `IInv` needs of a request only its fields and that it has no answer before
its end: each way out of an attempt goes through `Leave`, and no other
step touches `active`. The counts are exact whatever is planned. That a rejection
is unanimous does need the plan: `OthersLeft` compares the length of the plan with
the number of endpoints that rejected, and these say the same as the sets because a
plan names each endpoint once (`Walkable`) and an index never leaves it, so that what
rejects is always one of the plan (`PlanHeld`).

**Backups.** `RestoreInv`: as long as no row stands under a foreign device id, every copy
of a database, in use, stored, half-written or in hand, counts no more than was made
(`CopiesAreSane`). What a restore reads (`ReadsItsOwn`): that of S3 finds what it asked
for in its own file, or nothing, since only removals reach it from outside; in the shared
file there is nothing or what some restore over WebDAV that has not returned asked for,
since a restore that returns removes it. Any number of restores may overlap.

**Endpoint list.** Edits may overlap in any way. `ListInv` says what an edit that is
alone finds at each of its steps (`OnItsWay`): the name it keeps is that of the
endpoint it found as the current one, the list it is about to put in use is what a
restart would load, and if it found no endpoint, the index is 0 or one endpoint at
most becomes enabled. That the index is 0 then is `Reset`: an index survives a list without
enabled endpoints only until the list is applied. `Fresh`, the snapshot filed under the
present version is the present list, is what a slow reader breaks: hence `Readers = {}`.
No two endpoints and no two rows share a name (`Unique`, `RowsOK`), so a saved list
is one of those its rows load as (`SavedLoads`) and a name has one place
(`IndexSettles`). `PoolsInv`, for edits one after the other: whatever credentials are
still to lose have their endpoint in the configuration, or, while a rename is stored
and not yet taken over (`Known`), in the list of the edit; hence no save deletes it.
With two editors the other's save does, which is the finding. The number of edits is
arbitrary; the names are three and the first list has two endpoints, as in the model.

**Licence.** `Slots` bounds the active activations of a card by its slots, or by none;
`AsksForCard` keeps a refresh from asking about no card. Only `ActivateCard` adds an
activation, after counting them in the same transaction; all else ends some
(`OnlyEnds`).

**Remote commands.** A command is `Clear` while it waits: it has not run, nothing of it
has taken effect and no report of it is about. `ListedIsClear`, `BatchIsClear` and
`WireIsTrue` follow it from the handler that lists it to the program and back: begun,
it has taken effect in part (`Begun`), and only one whose last step went through is
reported as applied. The nonces are not used: the client waits for one handler at a
time, so an abandoned poll cannot hand out what it listed.

**Queues.** `CountsInv`: no upload that may still arrive exceeds a count, which only
grows. `OutcomeInv`: a row is written in the last steps of a login's goroutine only
(`WrittenLate`), and whose it is is known before (`Signed`). `JobsInv`: a running
job has one goroutine (`OneWorker`), which holds results of the attempt under way
(`InHand`).

**Quotas.** `QuotaInv`: what a row keeps is the last good answer, and a row marked "ok"
has had one (`RowsKept`); while credentials are asked one after the other, those
counted and those left add up to those loaded (`FetchCounts`); a second call to redeem is
made only after a refusal, which takes no credit (`RedeemCounts`). That the account told
first is admitted first rests on `AdmittedFromReset`: an account is admitted from its
latest reset on.

**Health.** `HealthInv` says of each window that a stamp is later than one after it
by `Skew` at most (`Ordered`), none lies in the future (`Past`), and the whole is younger
than `Window + Skew` (`Recent`): pruning stops at the first young event, and `Ordered`
bounds what it leaves behind it.

**Plan.** Filtering a list by a set keeps the members that are in both, each once
(`KeptLists` in `ListProofs`, by induction along the list), and the filters of a plan are
joins of disjoint ones; so a plan lists `Chosen`, whatever the cooldowns, limits and
tiers (`PlanListed`). The start is the least step around the configured list that
meets a candidate, and a step of `d` is an endpoint at distance `d` (`Ring`), hence the
nearest (`StartListed`). The walk is the plan from there: `WalkInv` says where each step
stands (`Place`), which is somewhere else for each (`PlacesDiffer`).

**Listener.** Rebinding closes the old socket and opens the new one in steps, and its
failure is undone in steps as well. `ListenerInv` says when the server listens
elsewhere than configured (`Served`: a call is about to rebind, or the listener is known to
have failed), that an accept loop without its server is off (`OwnSockets`), and what a
call that nobody overlaps finds at each of its steps, in memory and in the stored rows
(`Alone`). With that a call's answer is true when it is given; without `Alone` the
theorem fails, since overlapping calls undo each other's changes.

Where an argument is about the first of several numbers or goes along a list,
the least member is found through the library's order of finite sets by inclusion
(`LeastMember`, `Induction` over a set of numbers, in `ListProofs`): its induction theorems take an operator as a
parameter, which the provers here cannot instantiate.

**Only model-checked.** Every liveness property (`PairReleased`, `AllRequestsEnd`,
`FailuresArrive`, `LoginsEnd`, `ScheduledJobsEnd`, `RevocationArrives`, `ProxyFollows`,
`QueueDrains`, `HeartbeatEnds`): liveness is out of the prover's reach. What is
computed by folds and recursion over data: `StreamsWellFormed`,
`HistoriesSound`, `AnswersSound`, `StatisticsSound`; the token theorems are for no editors, the theorems about the
endpoint list for no slow readers or one editor, as the properties they state are
false otherwise (see Findings).

## Not modelled

The analysis of errors by a language model, its prompts and the clean-up of its
jobs; administrators' accounts, sessions and permissions of the licence server, its
pages and HTTP routing; probes of endpoints; the model list cache; token estimates,
tool schemas and provider quirks of the transformers, and the conversion of Gemini
requests; request building and headers; agent configuration files; Claude OAuth
discovery; sessions, terminals, tray, updater, single instance, logger, LAN discovery;
user interfaces. These are presentation, wording, parsing, files or operating-system
work without shared state of their own. Logging and counts of connections are left
out everywhere. Plans beyond this: a second refinement (`RemoteCommands` to a queue
that executes at most once), failure classification (`utils.go`), the model list
cache.
