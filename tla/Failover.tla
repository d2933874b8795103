------------------------------ MODULE Failover ------------------------------
(***************************************************************************)
(* handleProxy (internal/proxy/proxy.go): a request plans the endpoints it *)
(* may try, and then attempts them in a loop with a budget, until one of   *)
(* its many exits.  Every `continue` and every `return` of the loop body is *)
(* a disjunct here.  Requests share the cooldown map, the active counts and *)
(* the current endpoint.                                                   *)
(*                                                                         *)
(* Abstractions.  A failure that is recorded may trip the circuit breaker  *)
(* (module EndpointHealth decides when); here it may trip at any time.  A  *)
(* reason may be configured without a cooldown.  Which credential of a     *)
(* pool is used is module TokenPool's matter.                              *)
(***************************************************************************)
EXTENDS RequestPlan, FiniteSets

CONSTANTS
  Order,          \* the enabled endpoints, in configuration order
  Requests,
  Pools,          \* the endpoints with a token pool; the others have an API key
  Limit,          \* Limit[e]: MaxConcurrentRequests, 0 without limit
  Policy,         \* RecoveredEndpointPolicy
  FastAttempts,   \* endpointFastFailoverAttempts
  SlowAttempts,   \* endpointSlowFailoverAttempts
  ExtraAttempts,  \* computeMaxRetries: what the usable credentials add
  MayPin,         \* requests may name an endpoint
  NoEndpoint

Endpoints == Members(Order)

ASSUME FailoverAssumption ==
  /\ Order \in Seq(Endpoints) /\ Len(Order) > 0
  /\ \A i, j \in DOMAIN Order : Order[i] = Order[j] => i = j
  /\ Pools \subseteq Endpoints
  /\ IsFiniteSet(Requests) /\ Limit \in [Endpoints -> Nat]
  /\ Policy \in Policies
  /\ {FastAttempts, SlowAttempts} \subseteq Nat \ {0} /\ ExtraAttempts \in Nat
  /\ MayPin \in BOOLEAN
  /\ NoEndpoint \notin Endpoints

VARIABLES
  current,   \* the endpoint at currentIndex
  cool,      \* endpointCooldowns, as in module RequestPlan
  active,    \* activeRequests
  req        \* req[r]: the locals of one request

vars == <<current, cool, active, req>>

Blank == [phase |-> "new", stream |-> FALSE, pin |-> NoEndpoint,
          chosen |-> NoEndpoint,  \* currentEndpointName
          plan |-> <<>>, index |-> 1, left |-> 0,
          tries |-> 0,            \* endpointAttempts
          rejected |-> {},        \* requestScopedRejectedEndpoints
          wrote |-> "nothing",    \* streamResult: Wrote(Semantic)Data
          answer |-> "none"]

\* The handler has returned and its locals are gone.
Done(a) == [Blank EXCEPT !.phase = "done", !.answer = a]

Answers == {"none", "ok", "error", "rejection", "silent", "gone", "all_failed"}

At(r) == IF req[r].pin # NoEndpoint THEN req[r].pin ELSE req[r].plan[req[r].index]

Trying(r) == req[r].phase = "trying"
Pinned(r) == req[r].pin # NoEndpoint
\* advanceRequestEndpoint goes nowhere on a plan of one.
Alone(r)  == Pinned(r) \/ Len(req[r].plan) <= 1

-----------------------------------------------------------------------------
(* Planning                                                                *)

\* A pinned request has all enabled endpoints as its plan.
Admitted(r, stream, pin) ==
  [req[r] EXCEPT !.phase = "filtered", !.stream = stream, !.pin = pin,
                 !.chosen = current,
                 !.plan = IF pin = NoEndpoint THEN PlanCandidates(Order, cool, Policy)
                          ELSE Order]

\* The request reads the current endpoint, then filters by cooldown, unless
\* it is pinned.
Filter(r) ==
  /\ req[r].phase = "new"
  /\ \E s \in BOOLEAN, p \in (IF MayPin THEN Endpoints ELSE {}) \cup {NoEndpoint} :
       /\ req' = [req EXCEPT ![r] = Admitted(r, s, p)]
       /\ cool' = IF p = NoEndpoint THEN CoolAfterPlan(Order, cool, Policy) ELSE cool
  /\ UNCHANGED <<current, active>>

Full == {e \in Endpoints : Limit[e] > 0 /\ active[e] >= Limit[e]}

\* The order by format, the starting point and the retry budget.
Planned(r, room, tier) ==
  LET me    == req[r]
      skip  == Policy = "deprioritize" /\ cool[me.chosen] = "recovered"
      plan  == IF Pinned(r) THEN me.plan ELSE Prioritized(room, tier)
      tries == (IF Pinned(r) THEN 1 ELSE Len(plan)) * SlowAttempts
      pools == Pools \cap (IF Pinned(r) THEN {me.pin} ELSE Members(plan))
  IN [me EXCEPT
       !.phase = "ready", !.plan = plan, !.chosen = NoEndpoint,
       !.index = PlanStart(plan, Order, me.chosen, ~Pinned(r) /\ skip),
       !.left = tries + IF pools # {} THEN ExtraAttempts ELSE 0]

\* The concurrency filter leaves room; preference tiers are left open: any
\* assignment may come.
Plan(r) ==
  /\ req[r].phase = "filtered"
  /\ \E tier \in [Endpoints -> 0..1], room \in {WithRoom(req[r].plan, Full)} :
       req' = [req EXCEPT ![r] = Planned(r, room, tier)]
  /\ UNCHANGED <<current, cool, active>>

\* The head of the loop; markRequestActive.
Attempt(r) ==
  /\ req[r].phase = "ready" /\ req[r].left > 0
  /\ active' = [active EXCEPT ![At(r)] = @ + 1]
  /\ req' = [req EXCEPT ![r].phase = "trying", ![r].left = @ - 1,
                        ![r].tries = @ + 1]
  /\ UNCHANGED <<current, cool>>

\* After the loop: "All endpoints failed".
GiveUp(r) ==
  /\ req[r].phase = "ready" /\ req[r].left = 0
  /\ req' = [req EXCEPT ![r] = Done("all_failed")]
  /\ UNCHANGED <<current, cool, active>>

\* writeTransformedEvent: progress first, or output at once.
WriteStream(r) ==
  /\ Trying(r) /\ req[r].stream
  /\ \E d \in {"data", "semantic"} \ {req[r].wrote} :
       /\ req[r].wrote # "semantic"
       /\ req' = [req EXCEPT ![r].wrote = d]
  /\ UNCHANGED <<current, cool, active>>

-----------------------------------------------------------------------------
(* How an attempt ends                                                     *)

\* Mutant: the entry is deleted whatever its count.
LeaveAll(r) == active' = [active EXCEPT ![At(r)] = 0]

\* markRequestInactive, on every way out of the loop body.
Leave(r) == active' = [active EXCEPT ![At(r)] = IF @ <= 1 THEN 0 ELSE @ - 1]

Answered(r, a) == req' = [req EXCEPT ![r] = Done(a)] /\ Leave(r)

Same(r)  == [req[r] EXCEPT !.phase = "ready", !.wrote = "nothing"]
\* Mutant: an attempt that starts afresh is not charged to the budget.
Free(r)  == [Same(r) EXCEPT !.tries = 0, !.left = @ + 1]
Anew(r)  == [Same(r) EXCEPT !.tries = 0]
Moved(r) == [Anew(r) EXCEPT !.index = IF Pinned(r) THEN @
                                      ELSE NextIndex(req[r].plan, @)]

Continue(r, me) == req' = [req EXCEPT ![r] = me] /\ Leave(r)

\* recordEndpointFailure: the breaker may cool the endpoint.  Marking it for
\* the reason does so unless the reason has no cooldown.
Tripped(e, trip) == IF trip THEN [cool EXCEPT ![e] = "active"] ELSE cool

\* The common end of a recorded failure: once the endpoint has had `limit`
\* attempts, or is cooling, cool it for the reason and move on.
FailAfter(r, limit) ==
  \E trip, marks \in BOOLEAN :
    LET e    == At(r)
        seen == Tripped(e, trip)
        over == req[r].tries >= limit \/ seen[e] = "active"
    IN /\ cool' = IF over /\ marks THEN [seen EXCEPT ![e] = "active"] ELSE seen
       /\ Continue(r, IF over THEN Moved(r) ELSE Same(r))

Nothing(r) == req[r].wrote = "nothing"

Succeed(r) ==
  /\ Trying(r)
  /\ cool' = [cool EXCEPT ![At(r)] = "none"]
  /\ Answered(r, "ok")
  /\ UNCHANGED current

\* Before anything is written: no credential, no key, a request that cannot be
\* built, a transport error (one attempt is enough for a streaming client), an
\* unusable body.
FailFast(r) ==
  /\ Trying(r) /\ Nothing(r)
  /\ \E limit \in {1, FastAttempts} : FailAfter(r, limit)
  /\ UNCHANGED current

\* A retryable HTTP status; quota and missing routes move on at once.
FailHTTP(r) ==
  /\ Trying(r) /\ Nothing(r)
  /\ \E limit \in {1, SlowAttempts} : FailAfter(r, limit)
  /\ UNCHANGED current

\* The upstream stream breaks, or ends too early, before semantic output.
\* Progress may have been written when it breaks; only a stream that ends
\* without response.completed is not retried then.
BreakEarly(r) ==
  /\ Trying(r) /\ req[r].stream /\ req[r].wrote # "semantic"
  /\ \E trip, marks \in BOOLEAN :
       LET e    == At(r)
           seen == Tripped(e, trip)
           over == req[r].tries >= FastAttempts \/ seen[e] = "active"
       IN /\ cool' = IF over /\ marks THEN [seen EXCEPT ![e] = "active"] ELSE seen
          /\ IF over /\ Pinned(r) THEN Answered(r, "error")
             ELSE Continue(r, IF over THEN Moved(r) ELSE Same(r))
  /\ UNCHANGED current

\* ... a compatible endpoint that forgets response.completed is not punished.
FallBackSoftly(r) ==
  /\ Trying(r) /\ req[r].stream /\ Nothing(r)
  /\ IF Pinned(r) THEN Answered(r, "error") ELSE Continue(r, Moved(r))
  /\ UNCHANGED <<current, cool>>

\* The stream breaks after output, or ends early after progress: completed
\* for tolerant clients, else closed with an error.
BreakLate(r) ==
  /\ Trying(r) /\ req[r].wrote # "nothing"
  /\ \E trip, marks \in BOOLEAN :
       cool' = IF marks THEN [cool EXCEPT ![At(r)] = "active"] ELSE Tripped(At(r), trip)
  /\ Answered(r, "error")
  /\ UNCHANGED current

\* All credentials of the pool are rate limited.
Starve(r) ==
  /\ Trying(r) /\ Nothing(r) /\ At(r) \in Pools
  /\ IF Alone(r) THEN Answered(r, IF req[r].stream THEN "error" ELSE "silent")
     ELSE Continue(r, Moved(r))
  /\ UNCHANGED <<current, cool>>

\* 401 on a pool: refreshed, or the credential is marked; same endpoint again.
ChangeCredential(r) ==
  /\ Trying(r) /\ Nothing(r) /\ At(r) \in Pools
  /\ \E trip \in BOOLEAN : cool' = Tripped(At(r), trip)
  /\ Continue(r, Anew(r))
  /\ UNCHANGED current

\* 429, 401 or 403 inside a Codex WebSocket stream: the attempt count stays.
LoseCredential(r) ==
  /\ Trying(r) /\ req[r].stream /\ At(r) \in Pools
  /\ IF req[r].wrote = "semantic" THEN Answered(r, "error") ELSE Continue(r, Same(r))
  /\ UNCHANGED <<current, cool>>

\* The API key is refused.
RefuseKey(r) ==
  /\ Trying(r) /\ Nothing(r) /\ At(r) \notin Pools
  /\ \E cooled \in BOOLEAN : cool' = Tripped(At(r), cooled)
  /\ IF Alone(r) THEN Answered(r, "error") ELSE Continue(r, Moved(r))
  /\ UNCHANGED current

\* Mutant: gives up one endpoint too early.
OthersLeftEarly(plan, rejected) == Len(plan) > Cardinality(rejected) + 1

OthersLeft(plan, rejected) == Len(plan) > Cardinality(rejected)

\* The upstream rejects this request, by status or by an event in the stream;
\* another endpoint may accept it.
RejectRequest(r) ==
  LET rejected == req[r].rejected \cup {At(r)} IN
  /\ Trying(r)
  /\ IF ~Pinned(r) /\ OthersLeft(req[r].plan, rejected)
     THEN Continue(r, [Moved(r) EXCEPT !.rejected = rejected])
     ELSE Answered(r, "rejection")
  /\ UNCHANGED <<current, cool>>

\* The upstream wants another form of the request: same endpoint, afresh.
Adapt(r) ==
  /\ Trying(r) /\ Nothing(r)
  /\ Continue(r, Anew(r))
  /\ UNCHANGED <<current, cool>>

\* A 200 without substance.  Whether the endpoint has had its attempts is
\* decided before the failure is recorded, and a strict agent records none.
SemanticEmpty(r) ==
  /\ Trying(r)
  /\ LET e    == At(r)
         over == req[r].tries >= SlowAttempts \/ cool[e] = "active"
     IN \E strict, cooled \in BOOLEAN :
          /\ cool' = Tripped(e, over /\ ~strict /\ cooled)
          /\ CASE req[r].wrote = "semantic" -> Answered(r, "silent")
               [] req[r].wrote = "data"     -> Answered(r, "error")
               [] OTHER -> Continue(r, IF over THEN Moved(r) ELSE Same(r))
  /\ UNCHANGED current

\* Any other status, a request the upstream calls invalid, a tool chain that
\* cannot be sent: the client gets it as it is.
PassOn(r) ==
  /\ Trying(r) /\ Nothing(r)
  /\ \E trip \in BOOLEAN : cool' = Tripped(At(r), trip)
  /\ Answered(r, "error")
  /\ UNCHANGED current

ClientGone(r) ==
  /\ Trying(r)
  /\ Answered(r, "gone")
  /\ UNCHANGED <<current, cool>>

\* The conditions of switchCurrentEndpointAfterFailure, under Proxy.mu.
Switches(e) == Len(Order) > 1 /\ current = e

\* A stream that fails in any other way ends the request without a word, and
\* switchCurrentEndpointAfterFailure moves the current endpoint off it.
AbandonStream(r) ==
  /\ Trying(r) /\ req[r].stream
  /\ \E marks \in BOOLEAN :
       LET e     == At(r)
           after == Tripped(e, marks)
           cand  == PlanCandidates(Order, after, Policy)
           next  == cand[PlanStart(cand, Order, e, TRUE)]
       IN /\ current' = IF Switches(e) THEN next ELSE current
          /\ cool' = IF Switches(e) THEN CoolAfterPlan(Order, after, Policy) ELSE after
  /\ Answered(r, "silent")

-----------------------------------------------------------------------------
(* Everyone else                                                           *)

\* SetCurrentEndpoint; it also clears the endpoint's cooldown.  That comes
\* after its unlock; what may happen in between is module EndpointHealth's.
SwitchByHand(e) ==
  /\ current' = e
  /\ cool' = [cool EXCEPT ![e] = "none"]
  /\ UNCHANGED <<active, req>>

CooldownEnds(e) ==
  /\ cool[e] = "active"
  /\ cool' = [cool EXCEPT ![e] = "recovered"]
  /\ UNCHANGED <<current, active, req>>

Init ==
  /\ current \in Endpoints
  /\ cool = [e \in Endpoints |-> "none"]
  /\ active = [e \in Endpoints |-> 0]
  /\ req = [r \in Requests |-> Blank]

EndAttempt(r) ==
  \/ Succeed(r) \/ FailFast(r) \/ FailHTTP(r) \/ BreakEarly(r) \/ FallBackSoftly(r)
  \/ BreakLate(r) \/ Starve(r) \/ ChangeCredential(r) \/ LoseCredential(r)
  \/ RefuseKey(r) \/ RejectRequest(r) \/ Adapt(r) \/ SemanticEmpty(r)
  \/ PassOn(r) \/ ClientGone(r) \/ AbandonStream(r)

Advance(r) == Plan(r) \/ Attempt(r) \/ GiveUp(r) \/ EndAttempt(r)

Next == \/ \E r \in Requests : Filter(r) \/ Advance(r) \/ WriteStream(r)
        \/ \E e \in Endpoints : SwitchByHand(e) \/ CooldownEnds(e)

Spec == Init /\ [][Next]_vars

\* A request that has been accepted runs on, and every attempt ends: header
\* timeouts, the client or the upstream end it.
FairSpec == Spec /\ \A r \in Requests : WF_vars(Advance(r))

-----------------------------------------------------------------------------
(* Properties                                                              *)

TypeOK ==
  /\ current \in Endpoints
  /\ cool \in [Endpoints -> CoolStates]
  /\ active \in [Endpoints -> Nat]
  /\ \A r \in Requests :
       /\ req[r].phase \in {"new", "filtered", "ready", "trying", "done"}
       /\ req[r].plan \in Seq(Endpoints)
       /\ req[r].phase \in {"ready", "trying"} => req[r].index \in DOMAIN req[r].plan
       /\ req[r].rejected \subseteq Endpoints
       /\ req[r].answer \in Answers

\* proxy.go: activeRequests "tracks active request count by endpoint name".
\* Whatever way a request leaves an attempt, it gives its place back once: the
\* concurrency limit counts the requests that are really there.
ActiveIsExact ==
  \A e \in Endpoints : active[e] = Cardinality({r \in Requests : Trying(r) /\ At(r) = e})

\* The client is told that its request is invalid only after every endpoint
\* of the plan has said so (TestInvalidRequestAllEndpointsReturnFirstRejectionOnce).
RejectedByAll ==
  [][\A r \in Requests : req'[r].answer = "rejection" /\ Trying(r) /\ ~Pinned(r)
       => req[r].rejected \cup {At(r)} = Members(req[r].plan)]_vars

\* Every accepted request is done: no way round the loop is free of charge.
AllRequestsEnd ==
  \A r \in Requests : req[r].phase = "filtered" ~> req[r].phase = "done"

=============================================================================
