----------------------------- MODULE RequestPlan -----------------------------
(***************************************************************************)
(* The endpoint plan of one proxied request: which enabled endpoints it may *)
(* try and in which order (internal/proxy/endpoint_cooldown.go,            *)
(* request_format_priority.go, request_fallback.go).  Pure operators; the  *)
(* state they are applied to belongs to the modules that use them.         *)
(*                                                                         *)
(* An endpoint is its name.  A list of endpoints is a sequence without     *)
(* repetitions.  cool[e] is "none" when e has no cooldown entry, "active"  *)
(* while the entry's deadline is ahead and "recovered" once it has passed. *)
(***************************************************************************)
EXTENDS Integers, Lists

CoolStates == {"none", "active", "recovered"}
Policies   == {"deprioritize", "auto_return"}
Tiers      == 0..3

\* indexEndpointByName, counted from 1; 0 when the name is not there.
IndexOf(s, e) == IF e \in Members(s) THEN CHOOSE i \in DOMAIN s : s[i] = e ELSE 0

\* Mutant: the recovered endpoints are lost.
PlanHealthyOnly(order, cool, policy) ==
  LET kept == Kept(order, {e \in Members(order) : cool[e] = "none"})
  IN  IF kept = <<>> THEN order ELSE kept

\* getRequestPlanEndpoints: skip what is cooling, keep what has recovered for
\* the end, and fall back on the whole list when nothing is left.
PlanCandidates(order, cool, policy) ==
  LET recovered == {e \in Members(order) : cool[e] = "recovered" /\ policy # "auto_return"}
      healthy   == {e \in Members(order) : cool[e] # "active"} \ recovered
      kept      == Kept(order, healthy) \o Kept(order, recovered)
  IN IF Len(order) <= 1 \/ kept = <<>> THEN order ELSE kept

\* What the same call does to the cooldown entries: auto_return drops those
\* that have run out.
CoolAfterPlan(order, cool, policy) ==
  [e \in DOMAIN cool |->
     IF Len(order) > 1 /\ policy = "auto_return" /\ e \in Members(order)
          /\ cool[e] = "recovered"
     THEN "none" ELSE cool[e]]

\* filterConcurrencyLimitedEndpoints: full is the set of endpoints at limit.
WithRoom(s, full) ==
  LET kept == Kept(s, Members(s) \ full)
  IN  IF Len(s) <= 1 \/ kept = <<>> THEN s ELSE kept

\* prioritizeRequestEndpointsForClientFormat: a stable sort by tier.
Prioritized(s, tier) ==
  LET ofTier(t) == Kept(s, {e \in DOMAIN tier : tier[e] = t})
  IN ofTier(0) \o ofTier(1) \o ofTier(2) \o ofTier(3)

\* The endpoint `offset` places after the i-th of order, around the ring.
Around(order, i, offset) == order[((i - 1 + offset) % Len(order)) + 1]

\* Mutant: looks for the current endpoint only.
PlanStartHere(available, order, current, skip) ==
  LET here == IndexOf(available, current) IN IF here > 0 THEN here ELSE 1

\* newRequestEndpointPlanForCurrentWithSkip: the index to start from.
PlanStart(available, order, current, skip) ==
  LET at   == IndexOf(order, current)
      here == IndexOf(available, current)
      hits == {k \in (IF skip THEN 1 ELSE 0)..Len(order)-1 :
                 IndexOf(available, Around(order, at, k)) > 0}
      near == CHOOSE k \in hits : \A l \in hits : k <= l
  IN IF at = 0
     THEN IF ~skip /\ here > 0 THEN here ELSE 1
     ELSE IF hits # {} THEN IndexOf(available, Around(order, at, near))
     ELSE IF here > 0 THEN here ELSE 1

\* Mutants: Advance stops at the end, or runs past it.
NextIndexStuck(s, i) == IF i < Len(s) THEN i + 1 ELSE i
NextIndexPast(s, i)  == i + 1

\* requestEndpointPlan.Advance
NextIndex(s, i) == (i % Len(s)) + 1
=============================================================================
