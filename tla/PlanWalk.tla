------------------------------ MODULE PlanWalk ------------------------------
(***************************************************************************)
(* Every plan a request can be given on a list of endpoints, and the walk  *)
(* of Advance over it (src/internal/proxy/request_fallback.go).  One state *)
(* per input and position; the properties compare the plan with what the   *)
(* code promises of it.                                                    *)
(***************************************************************************)
EXTENDS RequestPlan, FiniteSets

CONSTANTS Order,      \* the enabled endpoints, in configuration order
          MaxTier     \* bound: preference tiers 0..MaxTier are used

ASSUME PlanAssumption ==
  /\ Order \in Seq(Members(Order)) /\ Order # <<>>
  /\ \A i, j \in DOMAIN Order : Order[i] = Order[j] => i = j
  /\ MaxTier \in Tiers

VARIABLES cool, policy, full, tier, current, skip, plan, index, visited
planVars == <<cool, policy, full, tier, current, skip, plan, index, visited>>

Enabled == Members(Order)

\* Reference definitions, by what holds of the endpoints and not by loops.
Cooling == {e \in Enabled : cool[e] = "active"}
Recovered == IF policy = "deprioritize"
             THEN {e \in Enabled : cool[e] = "recovered"} ELSE {}
Candidates == IF Cooling = Enabled THEN Enabled ELSE Enabled \ Cooling
Chosen == IF Candidates \subseteq full THEN Candidates ELSE Candidates \ full
Distance(e) == (IndexOf(Order, e) - IndexOf(Order, current)) % Len(Order)

-----------------------------------------------------------------------------
PlanInit ==
  /\ cool \in [Enabled -> CoolStates]
  /\ policy \in Policies
  /\ full \in SUBSET Enabled
  /\ tier \in [Enabled -> 0..MaxTier]
  /\ current \in Enabled \cup {"gone"}  \* read from a newer configuration
  /\ skip = (current \in Recovered)
  /\ \E room \in {WithRoom(PlanCandidates(Order, cool, policy), full)} :
       plan = Prioritized(room, tier)
  /\ index = PlanStart(plan, Order, current, skip)
  /\ visited = <<plan[index]>>

\* One of these plans, for runs that look at something else.
PlanQuiet ==
  /\ cool = [e \in Enabled |-> "none"] /\ policy = "auto_return" /\ full = {}
  /\ tier = [e \in Enabled |-> 0] /\ current = Order[1] /\ skip = FALSE
  /\ plan = Order /\ index = 1 /\ visited = <<Order[1]>>

\* A failing request moves on; once around shows everything.
Advance ==
  /\ Len(visited) < Len(plan)
  /\ index' = NextIndex(plan, index)
  /\ visited' = Append(visited, plan[index'])
  /\ UNCHANGED <<cool, policy, full, tier, current, skip, plan>>

PlanSpec == PlanInit /\ [][Advance]_planVars

-----------------------------------------------------------------------------
\* A request tries an endpoint that is cooling, or one at its concurrency
\* limit, only when there is nothing else, and then it may try all of them.
PlanIsReference == Members(plan) = Chosen

\* Going once around the plan tries each candidate exactly once: no endpoint
\* is starved by where the request started.
OnceAround ==
  /\ Cardinality(Members(visited)) = Len(visited)
  /\ Len(visited) = Len(plan) => Members(visited) = Chosen

\* prioritizeRequestEndpointsForClientFormat: "The manually-selected default
\* endpoint always remains the request's starting point".  It starts there
\* unless the plan leaves it out or it has only just recovered, and otherwise
\* with the nearest candidate after it in configuration order.
StartsNearCurrent ==
  current \in Enabled =>
  LET eligible == IF skip /\ Chosen # {current} THEN Chosen \ {current} ELSE Chosen
  IN /\ visited[1] \in eligible
     /\ \A e \in eligible : Distance(visited[1]) <= Distance(e)

\* A plan visits the right endpoints once each, from the right start
\* (buildRequestEndpointPlan, Advance).
PlanSound == PlanIsReference /\ OnceAround /\ StartsNearCurrent
=============================================================================
