--------------------------- MODULE EndpointHealth ---------------------------
(***************************************************************************)
(* What the proxy remembers of an endpoint's health: the cooldown map      *)
(* (internal/proxy/endpoint_cooldown.go, under cooldownMu) and the circuit *)
(* breaker (endpoint_circuit_breaker.go, under circuitBreakerMu).  The two *)
(* locks are never held together, so a trip of the breaker is two steps    *)
(* with a gap, and so is the report of a success (proxy.go).               *)
(*                                                                         *)
(* Both read the clock BEFORE they take their lock: the stamp they use may *)
(* lag behind the clock of whoever got the lock first.                     *)
(***************************************************************************)
EXTENDS Naturals, Sequences

CONSTANTS
  Endpoints,
  Workers,          \* goroutines that report outcomes
  Durations,        \* cooldowns of the failure reasons
  Consecutive,      \* ConsecutiveFailures, 0 when that test is off
  Window,           \* WindowSec, 0 when the window is off
  MinRequests,      \* MinRequests, 0 when the rate test is off
  RateNum, RateDen, \* FailureRateThreshold = RateNum / RateDen
  BreakerCooldown,  \* CooldownSec
  AutoReturn,       \* RecoveredEndpointPolicy is auto_return
  Skew,             \* bound: how far a stamp can lag
  MaxTime,          \* bound: the clock stops here
  MaxEvents,        \* bound: no more outcomes once this many are in the window
  None

ASSUME HealthAssumption ==
  /\ {Consecutive, Window, MinRequests, RateNum, Skew, MaxTime, MaxEvents} \subseteq Nat
  /\ {RateDen, BreakerCooldown} \subseteq Nat \ {0}
  /\ Durations \subseteq Nat \ {0}
  /\ AutoReturn \in BOOLEAN
  /\ None \notin Endpoints

VARIABLES
  now,          \* the clock
  until,        \* endpointCooldowns: the deadline of e's entry, 0 without entry
  consecutive,  \* ConsecutiveFailures of e's breaker
  events,       \* Events of e's breaker: [at, failure] records
  todo          \* a worker between its two steps: what is left, and where

vars == <<now, until, consecutive, events, todo>>
breaker == <<consecutive, events>>

Idle == [what |-> "nothing", at |-> None]
Todo == [what : {"trip", "succeed"}, at : Endpoints] \cup {Idle}

Stamps == {t \in 0..now : now <= t + Skew}

-----------------------------------------------------------------------------
\* Mutant: the last one wins.
MarkOver(e, t, d) == until' = [until EXCEPT ![e] = t + d]

\* markEndpointCooldown keeps an entry that lasts longer.
Longer(u, v) == IF u > v THEN u ELSE v
Mark(e, t, d) == until' = [until EXCEPT ![e] = Longer(@, t + d)]

\* Mutant: leaves something that is not a deadline.
ClearToNone(e) == until' = [until EXCEPT ![e] = None]

Clear(e) == until' = [until EXCEPT ![e] = 0]

\* pruneEndpointCircuitEvents drops the leading events before the cutoff.
Prune(s, t) ==
  LET kept == {i \in DOMAIN s : s[i].at + Window >= t}
      first == CHOOSE i \in kept : \A j \in kept : i <= j
  IN IF kept = {} THEN <<>> ELSE SubSeq(s, first, Len(s))

\* Mutant: the window is never pruned.
RecordedForever(s, t, failed) == Append(s, [at |-> t, failure |-> failed])

Recorded(s, t, failed) ==
  LET longer == Append(s, [at |-> t, failure |-> failed])
  IN IF Window > 0 THEN Prune(longer, t) ELSE longer

Failures(s) == LET bad(ev) == ev.failure IN Len(SelectSeq(s, bad))

OverRate(s) ==
  /\ Window > 0 /\ MinRequests > 0 /\ RateNum > 0
  /\ Len(s) >= MinRequests
  /\ Failures(s) * RateDen >= RateNum * Len(s)

\* Mutant: off by one.
TripsLate(n, s) == (Consecutive > 0 /\ n > Consecutive) \/ OverRate(s)

Trips(n, s) == (Consecutive > 0 /\ n >= Consecutive) \/ OverRate(s)

-----------------------------------------------------------------------------
\* recordEndpointCircuitFailure, the part under circuitBreakerMu.
RecordFailure(w, e) ==
  /\ todo[w] = Idle
  /\ Len(events[e]) < MaxEvents
  /\ \E t \in Stamps :
       LET n == consecutive[e] + 1
           s == Recorded(events[e], t, TRUE)
       IN \/ /\ Trips(n, s)
             /\ consecutive' = [consecutive EXCEPT ![e] = 0]
             /\ events' = [events EXCEPT ![e] = <<>>]
             /\ todo' = [todo EXCEPT ![w] = [what |-> "trip", at |-> e]]
          \/ /\ ~Trips(n, s)
             /\ consecutive' = [consecutive EXCEPT ![e] = n]
             /\ events' = [events EXCEPT ![e] = s]
             /\ UNCHANGED todo
  /\ UNCHANGED <<now, until>>

\* ... and the cooldown it ends with, under cooldownMu.
Isolate(w) ==
  /\ todo[w].what = "trip"
  /\ \E t \in Stamps : Mark(todo[w].at, t, BreakerCooldown)
  /\ todo' = [todo EXCEPT ![w] = Idle]
  /\ UNCHANGED <<now, breaker>>

\* advanceForFailure: the cooldown of the failure's own reason.
Cool(w, e) ==
  /\ todo[w] = Idle
  /\ \E t \in Stamps, d \in Durations : Mark(e, t, d)
  /\ UNCHANGED <<now, breaker, todo>>

\* A successful attempt drops the cooldown first and tells the breaker later.
Succeed(w, e) ==
  /\ todo[w] = Idle
  /\ Len(events[e]) < MaxEvents
  /\ Clear(e)
  /\ todo' = [todo EXCEPT ![w] = [what |-> "succeed", at |-> e]]
  /\ UNCHANGED <<now, breaker>>

\* Mutant: the cooldown is dropped last.
RecordSuccessAndClear(w) ==
  /\ todo[w].what = "succeed"
  /\ Clear(todo[w].at)
  /\ consecutive' = [consecutive EXCEPT ![todo[w].at] = 0]
  /\ todo' = [todo EXCEPT ![w] = Idle]
  /\ UNCHANGED <<now, events>>

RecordSuccess(w) ==
  LET e == todo[w].at IN
  /\ todo[w].what = "succeed"
  /\ \E t \in Stamps :
       events' = IF Window > 0
                 THEN [events EXCEPT ![e] = Recorded(@, t, FALSE)] ELSE events
  /\ consecutive' = [consecutive EXCEPT ![e] = 0]
  /\ todo' = [todo EXCEPT ![w] = Idle]
  /\ UNCHANGED <<now, until>>

\* SetCurrentEndpoint clears the entry of the endpoint chosen by hand, a
\* configuration change those of the endpoints removed or made different.
ClearedByHand(e) ==
  /\ until[e] > 0
  /\ Clear(e)
  /\ UNCHANGED <<now, breaker, todo>>

\* getRequestPlanEndpoints with auto_return deletes what has run out.
PlanRequest ==
  /\ AutoReturn
  /\ \E t \in Stamps :
       until' = [e \in Endpoints |-> IF until[e] > t THEN until[e] ELSE 0]
  /\ UNCHANGED <<now, breaker, todo>>

Tick ==
  /\ now < MaxTime
  /\ now' = now + 1
  /\ UNCHANGED <<until, breaker, todo>>

Init ==
  /\ now = 0
  /\ until = [e \in Endpoints |-> 0]
  /\ consecutive = [e \in Endpoints |-> 0]
  /\ events = [e \in Endpoints |-> <<>>]
  /\ todo = [w \in Workers |-> Idle]

Finish(w) == Isolate(w) \/ RecordSuccess(w)

Next ==
  \/ \E w \in Workers : Finish(w)
  \/ \E w \in Workers, e \in Endpoints :
       RecordFailure(w, e) \/ Cool(w, e) \/ Succeed(w, e)
  \/ \E e \in Endpoints : ClearedByHand(e)
  \/ PlanRequest
  \/ Tick

Spec == Init /\ [][Next]_vars

-----------------------------------------------------------------------------
TypeOK ==
  /\ now \in Nat
  /\ until \in [Endpoints -> Nat]
  /\ consecutive \in [Endpoints -> Nat]
  /\ events \in [Endpoints -> Seq([at : Nat, failure : BOOLEAN])]
  /\ todo \in [Workers -> Todo]

\* Concurrent marks of one endpoint, in whatever order they get the lock,
\* leave the longest: a short cooldown never replaces the breaker's long one
\* (TestCircuitBreakerConsecutiveFailuresLongCooldownAndFastFallback).
NeverShortened ==
  [][\A e \in Endpoints : until'[e] < until[e] => until'[e] = 0]_vars

\* A running cooldown ends early by a success or by hand only.  What a failure
\* cools between the two halves of a success stays cooled, and so it does when
\* a breaker is isolated late.
EndsEarlyOnlyWhenTold ==
  [][\A e \in Endpoints : until[e] > now /\ until'[e] = 0 =>
       \/ \E w \in Workers : Succeed(w, e)
       \/ ClearedByHand(e)]_vars

\* A cooldown is not cut short, and ends early only when somebody said so
\* (markEndpointCooldown, clearEndpointCooldown).
CooldownsStand == NeverShortened /\ EndsEarlyOnlyWhenTold

\* The breaker is never left armed: whatever the order of outcomes from
\* concurrent requests, a run of failures that reaches the limit has tripped
\* it, and so has a window over the rate that a failure has just closed.
NeverOverdue ==
  \A e \in Endpoints :
    /\ Consecutive > 0 => consecutive[e] < Consecutive
    /\ events[e] # <<>> /\ events[e][Len(events[e])].failure => ~OverRate(events[e])

\* The rate is taken over recent outcomes only, although stamps may be out of
\* order: nothing in the window is older than the window and the lag allow.
WindowIsRecent ==
  \A e \in Endpoints : \A i, j \in DOMAIN events[e] :
    Window > 0 => events[e][j].at <= events[e][i].at + Window + Skew

\* An armed breaker has tripped, and its window holds nothing old
\* (recordEndpointCircuitFailure, pruneEndpointCircuitEvents).
BreakerSound == TypeOK /\ NeverOverdue /\ WindowIsRecent
=============================================================================
