----------------------------- MODULE EditsProofs -----------------------------
(***************************************************************************)
(* Proofs about the components that the runs edits and backups check.      *)
(*                                                                         *)
(* Failover, for any number of requests, endpoints and attempts: every way *)
(* out of the loop body gives the place in activeRequests back once,       *)
(* whatever the plans are; and as a plan names each endpoint once, a       *)
(* request is called invalid only when its whole plan has said so.         *)
(*                                                                         *)
(* Backups, for any files, goroutines and number of operations: a restore  *)
(* merges what was asked for or nothing, unless restores overlap over      *)
(* WebDAV, and no request is counted twice.                                *)
(*                                                                         *)
(* EndpointList, for any number of edits, faults and switches: whatever    *)
(* overlaps, an edit that is alone keeps the current endpoint by its name  *)
(* and leaves stored what a restart loads; and edits that come one after   *)
(* the other lose no credentials.                                          *)
(***************************************************************************)
EXTENDS Failover, Backups, EndpointList, ListProofs

-----------------------------------------------------------------------------
(* Failover                                                                *)

Fields == DOMAIN Blank

\* x has the locals of a request, whatever their values.
IsRequest(x) == DOMAIN x = Fields /\ x = [f \in Fields |-> x[f]]

\* A request has no answer before it is done.
Unanswered(x) == x.phase # "done" => x.answer = "none"

Shaped ==
  /\ req = [r \in Requests |-> req[r]] /\ DOMAIN req = Requests
  /\ \A r \in Requests : IsRequest(req[r]) /\ Unanswered(req[r])

CountsTyped == active \in [Endpoints -> Nat]

IInv == Shaped /\ CountsTyped /\ ActiveIsExact

LEMMA FieldNames ==
  Fields = {"phase", "stream", "pin", "chosen", "plan", "index", "left", "tries",
            "rejected", "wrote", "answer"}
BY DEF Fields, Blank

-----------------------------------------------------------------------------
(* Counting                                                                *)

Holders(e) == {r \in Requests : Trying(r) /\ At(r) = e}

LEMMA HoldersFinite ==
  \A e : IsFiniteSet(Holders(e)) /\ Cardinality(Holders(e)) \in Nat
BY FailoverAssumption, FS_Subset, FS_CardinalityType DEF Holders

\* The step is r's alone.
Only(r) == \A o \in Requests \ {r} : req'[o] = req[o]

LEMMA OthersStay ==
  ASSUME NEW r \in Requests, Only(r), NEW e
  PROVE  Holders(e)' \ {r} = Holders(e) \ {r}
BY DEF Only, Holders, Trying, At

\* Nobody arrives and nobody leaves.
LEMMA CountStays ==
  ASSUME IInv, NEW r \in Requests, Only(r), active' = active,
         Trying(r)' <=> Trying(r), Trying(r) => At(r)' = At(r)
  PROVE  CountsTyped' /\ ActiveIsExact'
<1>1. \A e : Holders(e)' = Holders(e)
  BY DEF Only, Holders, Trying, At
<1> QED
  BY <1>1 DEF IInv, CountsTyped, ActiveIsExact, Holders

LEMMA Arrives ==
  ASSUME IInv, NEW r \in Requests, Only(r), ~Trying(r), Trying(r)', At(r)' = At(r),
         active' = [active EXCEPT ![At(r)] = @ + 1]
  PROVE  CountsTyped' /\ ActiveIsExact'
<1>1. CountsTyped'
  <2>1. active \in [Endpoints -> Nat]
    BY DEF IInv, CountsTyped
  <2>2. CASE At(r) \in Endpoints
    BY <2>1, <2>2 DEF CountsTyped
  <2>3. CASE At(r) \notin Endpoints
    <3>1. active' = active
      BY <2>1, <2>3
    <3> QED
      BY <2>1, <3>1 DEF CountsTyped
  <2> QED
    BY <2>2, <2>3
<1>2. ASSUME NEW e \in Endpoints PROVE active'[e] = Cardinality(Holders(e)')
  <2>1. active[e] = Cardinality(Holders(e)) /\ active \in [Endpoints -> Nat]
    BY DEF IInv, CountsTyped, ActiveIsExact, Holders
  <2>2. CASE e = At(r)
    <3>1. Holders(e)' = Holders(e) \cup {r} /\ r \notin Holders(e)
      BY <2>2, OthersStay DEF Holders
    <3>2. Cardinality(Holders(e)') = Cardinality(Holders(e)) + 1
      BY <3>1, HoldersFinite, FS_AddElement
    <3>3. active'[e] = active[e] + 1
      BY <2>1, <2>2
    <3> QED
      BY <2>1, <3>2, <3>3
  <2>3. CASE e # At(r)
    <3>1. Holders(e)' = Holders(e)
      BY <2>3, OthersStay DEF Holders
    <3> QED
      BY <2>1, <2>3, <3>1
  <2> QED
    BY <2>2, <2>3
<1> QED
  BY <1>1, <1>2 DEF ActiveIsExact, Holders

LEMMA Leaves ==
  ASSUME IInv, NEW r \in Requests, Only(r), Trying(r), ~Trying(r)', Leave(r)
  PROVE  CountsTyped' /\ ActiveIsExact'
<1>1. CountsTyped'
  <2>1. active \in [Endpoints -> Nat]
    BY DEF IInv, CountsTyped
  <2>2. CASE At(r) \in Endpoints
    BY <2>1, <2>2 DEF CountsTyped, Leave
  <2>3. CASE At(r) \notin Endpoints
    <3>1. active' = active
      BY <2>1, <2>3 DEF Leave
    <3> QED
      BY <2>1, <3>1 DEF CountsTyped
  <2> QED
    BY <2>2, <2>3
<1>2. ASSUME NEW e \in Endpoints PROVE active'[e] = Cardinality(Holders(e)')
  <2>1. active[e] = Cardinality(Holders(e)) /\ active \in [Endpoints -> Nat]
    BY DEF IInv, CountsTyped, ActiveIsExact, Holders
  <2>2. CASE e = At(r)
    <3>1. Holders(e)' = Holders(e) \ {r} /\ r \in Holders(e)
      BY <2>2, OthersStay DEF Holders
    <3>2. Cardinality(Holders(e)') = Cardinality(Holders(e)) - 1
      BY <3>1, HoldersFinite, FS_RemoveElement
    <3>3. Cardinality(Holders(e)) # 0
      BY <3>1, HoldersFinite, FS_EmptySet
    <3> QED
      BY <2>1, <2>2, <3>2, <3>3, HoldersFinite DEF Leave
  <2>3. CASE e # At(r)
    <3>1. Holders(e)' = Holders(e)
      BY <2>3, OthersStay DEF Holders
    <3> QED
      BY <2>1, <2>3, <3>1 DEF Leave
  <2> QED
    BY <2>2, <2>3
<1> QED
  BY <1>1, <1>2 DEF ActiveIsExact, Holders

-----------------------------------------------------------------------------
(* The ways a request goes on                                              *)

\* x is what a request becomes when it leaves the loop body.
Outside(x) == IsRequest(x) /\ Unanswered(x) /\ x.phase # "trying"

LEMMA DoneIsOutside ==
  ASSUME NEW a PROVE Outside(Done(a)) /\ Done(a).answer = a
BY FieldNames DEF Outside, IsRequest, Unanswered, Done, Blank

LEMMA RetriesAreOutside ==
  ASSUME Shaped, NEW r \in Requests, Trying(r), NEW s
  PROVE  /\ Outside(Same(r)) /\ Outside(Anew(r)) /\ Outside(Moved(r))
         /\ Outside([Moved(r) EXCEPT !.rejected = s])
<1>1. IsRequest(req[r]) /\ req[r].answer = "none"
  BY DEF Shaped, Unanswered, Trying
<1>2. Outside(Same(r)) /\ Same(r).answer = "none"
  BY <1>1, FieldNames DEF Outside, IsRequest, Unanswered, Same
<1>3. Outside(Anew(r)) /\ Anew(r).answer = "none"
  BY <1>2, FieldNames DEF Outside, IsRequest, Unanswered, Anew
<1>4. PICK i : Moved(r) = [Anew(r) EXCEPT !.index = i]
  BY DEF Moved
<1>5. Outside(Moved(r)) /\ Moved(r).answer = "none"
  BY <1>3, <1>4, FieldNames DEF Outside, IsRequest, Unanswered
<1>6. Outside([Moved(r) EXCEPT !.rejected = s])
  BY <1>5, FieldNames DEF Outside, IsRequest, Unanswered
<1> QED
  BY <1>2, <1>3, <1>5, <1>6

Replaced(r, x) == req' = [req EXCEPT ![r] = x]

LEMMA ReplacedKeepsShape ==
  ASSUME Shaped, NEW r \in Requests, NEW x, IsRequest(x), Unanswered(x), Replaced(r, x)
  PROVE  Shaped' /\ Only(r) /\ req'[r] = x
BY DEF Shaped, Replaced, Only

\* Every end of an attempt gives the place back and goes outside.
LEMMA EndsOutside ==
  ASSUME Shaped, NEW r \in Requests, EndAttempt(r)
  PROVE  Trying(r) /\ Leave(r) /\ \E x : Outside(x) /\ Replaced(r, x)
<1>1. Trying(r)
  BY DEF EndAttempt, Succeed, FailFast, FailHTTP, BreakEarly, FallBackSoftly, BreakLate,
     Starve, ChangeCredential, LoseCredential, RefuseKey, RejectRequest, Adapt,
     SemanticEmpty, PassOn, ClientGone, AbandonStream
<1>2. ASSUME NEW a, Answered(r, a)
      PROVE  Leave(r) /\ \E x : Outside(x) /\ Replaced(r, x)
  BY <1>2, DoneIsOutside DEF Answered, Replaced
<1>3. ASSUME NEW x, Outside(x), Continue(r, x)
      PROVE  Leave(r) /\ \E y : Outside(y) /\ Replaced(r, y)
  BY <1>3 DEF Continue, Replaced
<1>4. \/ \E a : Answered(r, a)
      \/ \E x : Outside(x) /\ Continue(r, x)
  <2> USE <1>1, RetriesAreOutside
  <2>1. CASE Succeed(r) \/ BreakLate(r) \/ PassOn(r) \/ ClientGone(r) \/ AbandonStream(r)
    BY <2>1 DEF Succeed, BreakLate, PassOn, ClientGone, AbandonStream
  <2>2. CASE FailFast(r) \/ FailHTTP(r)
    BY <2>2 DEF FailFast, FailHTTP, FailAfter
  <2>3. CASE BreakEarly(r) \/ FallBackSoftly(r)
    BY <2>3 DEF BreakEarly, FallBackSoftly
  <2>4. CASE Starve(r) \/ RefuseKey(r) \/ LoseCredential(r)
    BY <2>4 DEF Starve, RefuseKey, LoseCredential
  <2>5. CASE ChangeCredential(r) \/ Adapt(r)
    BY <2>5 DEF ChangeCredential, Adapt
  <2>6. CASE RejectRequest(r)
    BY <2>6 DEF RejectRequest
  <2>7. CASE SemanticEmpty(r)
    BY <2>7 DEF SemanticEmpty
  <2> QED
    BY <2>1, <2>2, <2>3, <2>4, <2>5, <2>6, <2>7 DEF EndAttempt
<1> QED
  BY <1>1, <1>2, <1>3, <1>4

\* The steps outside an attempt, and what a stream writes within one.
LEMMA OtherStepsKeep ==
  ASSUME Shaped, NEW r \in Requests,
         Filter(r) \/ Plan(r) \/ GiveUp(r) \/ WriteStream(r)
  PROVE  /\ Shaped' /\ Only(r) /\ active' = active
         /\ (Trying(r)' <=> Trying(r)) /\ (Trying(r) => At(r)' = At(r))
<1>1. IsRequest(req[r]) /\ Unanswered(req[r])
  BY DEF Shaped
<1>2. CASE Filter(r)
  <2>1. PICK s, p : Replaced(r, Admitted(r, s, p))
    BY <1>2 DEF Filter, Replaced
  <2>2. LET x == Admitted(r, s, p)
        IN IsRequest(x) /\ Unanswered(x) /\ x.phase = "filtered"
    BY <1>1, <1>2, FieldNames DEF IsRequest, Unanswered, Filter, Admitted
  <2>3. Shaped' /\ Only(r) /\ req'[r] = Admitted(r, s, p)
    BY <2>1, <2>2, ReplacedKeepsShape
  <2> QED
    BY <1>2, <2>2, <2>3 DEF Filter, Trying
<1>3. CASE Plan(r)
  <2>1. PICK tier, room : Replaced(r, Planned(r, room, tier))
    BY <1>3 DEF Plan, Replaced
  <2>2. LET x == Planned(r, room, tier)
        IN IsRequest(x) /\ Unanswered(x) /\ x.phase = "ready"
    BY <1>1, <1>3, FieldNames DEF IsRequest, Unanswered, Plan, Planned
  <2>3. Shaped' /\ Only(r) /\ req'[r] = Planned(r, room, tier)
    BY <2>1, <2>2, ReplacedKeepsShape
  <2> QED
    BY <1>3, <2>2, <2>3 DEF Plan, Trying
<1>4. CASE GiveUp(r)
  <2>1. Shaped' /\ Only(r) /\ req'[r] = Done("all_failed")
    BY <1>4, DoneIsOutside, ReplacedKeepsShape DEF GiveUp, Replaced, Outside
  <2> QED
    BY <1>4, <2>1, DoneIsOutside DEF GiveUp, Trying, Outside
<1>5. CASE WriteStream(r)
  <2>1. PICK d : Replaced(r, [req[r] EXCEPT !.wrote = d])
    BY <1>5 DEF WriteStream, Replaced
  <2> DEFINE x == [req[r] EXCEPT !.wrote = d]
  <2>2. /\ IsRequest(x) /\ Unanswered(x) /\ x.phase = req[r].phase
        /\ x.pin = req[r].pin /\ x.plan = req[r].plan /\ x.index = req[r].index
    BY <1>1, FieldNames DEF IsRequest, Unanswered
  <2> HIDE DEF x
  <2>3. Shaped' /\ Only(r) /\ req'[r] = x
    BY <2>1, <2>2, ReplacedKeepsShape DEF x
  <2> QED
    BY <1>5, <2>2, <2>3 DEF WriteStream, Trying, At
<1> QED
  BY <1>2, <1>3, <1>4, <1>5

LEMMA AttemptArrives ==
  ASSUME Shaped, NEW r \in Requests, Attempt(r)
  PROVE  /\ Shaped' /\ Only(r) /\ ~Trying(r) /\ Trying(r)' /\ At(r)' = At(r)
<1>1. IsRequest(req[r]) /\ Unanswered(req[r]) /\ req[r].phase = "ready"
  BY DEF Shaped, Attempt
<1>2. PICK n, t : Replaced(r, [req[r] EXCEPT !.phase = "trying", !.left = n, !.tries = t])
  BY DEF Attempt, Replaced
<1> DEFINE x == [req[r] EXCEPT !.phase = "trying", !.left = n, !.tries = t]
<1>3. /\ IsRequest(x) /\ Unanswered(x) /\ x.phase = "trying"
      /\ x.pin = req[r].pin /\ x.plan = req[r].plan /\ x.index = req[r].index
  BY <1>1, FieldNames DEF IsRequest, Unanswered
<1> HIDE DEF x
<1>4. Shaped' /\ Only(r) /\ req'[r] = x
  BY <1>2, <1>3, ReplacedKeepsShape DEF x
<1> QED
  BY <1>1, <1>3, <1>4 DEF Trying, At

-----------------------------------------------------------------------------
(* The theorems                                                            *)

LEMMA InitHolds == Init => IInv
<1> SUFFICES ASSUME Init PROVE IInv
  OBVIOUS
<1>1. IsRequest(Blank) /\ Unanswered(Blank) /\ Blank.phase = "new"
  BY FieldNames DEF IsRequest, Unanswered, Blank
<1>2. Shaped
  BY <1>1 DEF Init, Shaped
<1>3. \A e : Holders(e) = {}
  BY <1>1 DEF Init, Holders, Trying
<1> QED
  BY <1>2, <1>3, FS_EmptySet DEF Init, IInv, CountsTyped, ActiveIsExact, Holders

LEMMA NextHolds == IInv /\ [Next]_vars => IInv'
<1> SUFFICES ASSUME IInv, [Next]_vars PROVE IInv'
  OBVIOUS
<1>1. ASSUME NEW r \in Requests, EndAttempt(r) PROVE IInv'
  <2>1. PICK x : Trying(r) /\ Leave(r) /\ Outside(x) /\ Replaced(r, x)
    BY <1>1, EndsOutside DEF IInv
  <2>2. Shaped' /\ Only(r) /\ req'[r] = x
    BY <2>1, ReplacedKeepsShape DEF IInv, Outside
  <2> QED
    BY <2>1, <2>2, Leaves DEF IInv, Trying, Outside
<1>2. ASSUME NEW r \in Requests, Filter(r) \/ Plan(r) \/ GiveUp(r) \/ WriteStream(r)
      PROVE  IInv'
  BY <1>2, OtherStepsKeep, CountStays DEF IInv
<1>3. ASSUME NEW r \in Requests, Attempt(r) PROVE IInv'
  BY <1>3, AttemptArrives, Arrives DEF IInv, Attempt
<1>4. CASE UNCHANGED <<active, req>>
  BY <1>4 DEF IInv, Shaped, CountsTyped, ActiveIsExact, Trying, At
<1> QED
  BY <1>1, <1>2, <1>3, <1>4 DEF Next, Advance, SwitchByHand, CooldownEnds, vars

LEMMA Invariant == Spec => []IInv
BY InitHolds, NextHolds, PTL DEF Spec

\* markRequestInactive is reached once on each of the ways out of the loop body:
\* the concurrency limit always counts the requests that are there.
THEOREM ActiveStaysExact == Spec => []ActiveIsExact
BY Invariant, PTL DEF IInv

-----------------------------------------------------------------------------
(* The plan of a request                                                   *)

\* p may be walked: it is not empty and names each of its endpoints once.
Walkable(p) == p # <<>> /\ ListOf(Endpoints, p, Members(p))

LEMMA OrderWalkable == Walkable(Order)
<1>1. Order \in Seq(Endpoints) /\ Order # <<>> /\ DOMAIN Order = 1..Len(Order)
  BY FailoverAssumption
<1> QED
  BY <1>1, FailoverAssumption DEF Walkable, ListOf, Distinct

LEMMA ListIsWalkable ==
  ASSUME NEW p, NEW A, ListOf(Endpoints, p, A), p # <<>>
  PROVE  Walkable(p)
BY DEF Walkable, ListOf

LEMMA CandidatesWalkable ==
  ASSUME NEW c, NEW policy
  PROVE  Walkable(PlanCandidates(Order, c, policy))
<1> DEFINE recovered == {e \in Members(Order) : c[e] = "recovered" /\ policy # "auto_return"}
           healthy == {e \in Members(Order) : c[e] # "active"} \ recovered
           kept == Kept(Order, healthy) \o Kept(Order, recovered)
<1>1. ListOf(Endpoints, Order, Endpoints)
  BY OrderWalkable DEF Walkable, Endpoints
<1>2. PlanCandidates(Order, c, policy) = IF Len(Order) <= 1 \/ kept = <<>> THEN Order ELSE kept
  BY DEF PlanCandidates
<1>3. healthy \cap recovered = {}
  OBVIOUS
<1> HIDE DEF recovered, healthy
<1>4. /\ ListOf(Endpoints, Kept(Order, healthy), Endpoints \cap healthy)
      /\ ListOf(Endpoints, Kept(Order, recovered), Endpoints \cap recovered)
  BY <1>1, KeptLists
<1>5. ListOf(Endpoints, kept, (Endpoints \cap healthy) \cup (Endpoints \cap recovered))
  <2>1. (Endpoints \cap healthy) \cap (Endpoints \cap recovered) = {}
    BY <1>3
  <2> QED
    BY <1>4, <2>1, JoinedLists
<1> HIDE DEF kept
<1> QED
  BY <1>2, <1>5, OrderWalkable, ListIsWalkable

LEMMA RoomWalkable ==
  ASSUME NEW p, Walkable(p), NEW full
  PROVE  Walkable(WithRoom(p, full))
<1> DEFINE kept == Kept(p, Members(p) \ full)
<1>1. ListOf(Endpoints, kept, Members(p) \cap (Members(p) \ full))
  BY KeptLists DEF Walkable
<1>2. WithRoom(p, full) = IF Len(p) <= 1 \/ kept = <<>> THEN p ELSE kept
  BY DEF WithRoom
<1> HIDE DEF kept
<1> QED
  BY <1>1, <1>2, ListIsWalkable

LEMMA PrioritizedWalkable ==
  ASSUME NEW p, Walkable(p), NEW tier \in [Endpoints -> 0..1]
  PROVE  Walkable(Prioritized(p, tier))
<1> DEFINE T(t) == {e \in DOMAIN tier : tier[e] = t}
           A == Members(p)
<1>1. Prioritized(p, tier) = Kept(p, T(0)) \o Kept(p, T(1)) \o Kept(p, T(2)) \o Kept(p, T(3))
  BY DEF Prioritized
<1>2. ListOf(Endpoints, p, A) /\ A \subseteq Endpoints
  BY MembersAre DEF Walkable, ListOf
<1>3. T(0) \cap T(1) = {} /\ T(2) = {} /\ T(3) = {}
  OBVIOUS
<1>4. A \subseteq T(0) \cup T(1)
  BY <1>2
<1> HIDE DEF T, A
<1>5. /\ ListOf(Endpoints, Kept(p, T(0)), A \cap T(0)) /\ ListOf(Endpoints, Kept(p, T(1)), A \cap T(1))
      /\ ListOf(Endpoints, Kept(p, T(2)), {}) /\ ListOf(Endpoints, Kept(p, T(3)), {})
  <2>1. A \cap T(2) = {} /\ A \cap T(3) = {}
    BY <1>3
  <2> QED
    BY <1>2, <2>1, KeptLists
<1>6. ListOf(Endpoints, Kept(p, T(0)) \o Kept(p, T(1)), A)
  <2>1. (A \cap T(0)) \cap (A \cap T(1)) = {} /\ (A \cap T(0)) \cup (A \cap T(1)) = A
    BY <1>3, <1>4
  <2> QED
    BY <1>5, <2>1, JoinedLists
<1>7. A \cap {} = {} /\ A \cup {} = A
  OBVIOUS
<1>8. ListOf(Endpoints, Kept(p, T(0)) \o Kept(p, T(1)) \o Kept(p, T(2)), A)
  BY <1>5, <1>6, <1>7, JoinedLists
<1>9. ListOf(Endpoints, Kept(p, T(0)) \o Kept(p, T(1)) \o Kept(p, T(2)) \o Kept(p, T(3)), A)
  BY <1>5, <1>7, <1>8, JoinedLists
<1>10. A # {}
  BY <1>2, EmptyList DEF Walkable
<1>11. Prioritized(p, tier) # <<>>
  BY <1>1, <1>9, <1>10, EmptyList
<1> QED
  BY <1>1, <1>9, <1>11, ListIsWalkable

LEMMA IndexInList ==
  ASSUME NEW p, Walkable(p), NEW e
  PROVE  IndexOf(p, e) \in 0..Len(p)
<1>1. p \in Seq(Endpoints) /\ DOMAIN p = 1..Len(p) /\ Len(p) \in Nat
  BY DEF Walkable, ListOf
<1>2. CASE e \in Members(p)
  <2>1. \E i \in DOMAIN p : p[i] = e
    BY <1>2 DEF Members
  <2>2. IndexOf(p, e) \in DOMAIN p
    BY <1>2, <2>1 DEF IndexOf
  <2> QED
    BY <1>1, <2>2
<1>3. CASE e \notin Members(p)
  BY <1>1, <1>3 DEF IndexOf
<1> QED
  BY <1>2, <1>3

LEMMA StartInPlan ==
  ASSUME NEW p, Walkable(p), NEW e, NEW skip \in BOOLEAN
  PROVE  PlanStart(p, Order, e, skip) \in 1..Len(p)
<1> DEFINE from == IndexOf(Order, e)
           here == IndexOf(p, e)
           hits == {k \in (IF skip THEN 1 ELSE 0)..Len(Order)-1 :
                      IndexOf(p, Around(Order, from, k)) > 0}
           near == CHOOSE k \in hits : \A l \in hits : k <= l
           start == PlanStart(p, Order, e, skip)
<1>1. start = IF from = 0 THEN IF ~skip /\ here > 0 THEN here ELSE 1
              ELSE IF hits # {} THEN IndexOf(p, Around(Order, from, near))
              ELSE IF here > 0 THEN here ELSE 1
  BY DEF PlanStart
<1>2. PICK n \in Nat : n = Len(p) /\ n >= 1
  BY EmptyList, MembersAre DEF Walkable, ListOf
<1>3. here \in 0..n /\ \A k : IndexOf(p, Around(Order, from, k)) \in 0..n
  BY <1>2, IndexInList
<1>4. hits # {} => near \in hits
  <2>1. hits \subseteq Nat
    BY OrderWalkable DEF Walkable, ListOf
  <2> HIDE DEF hits
  <2> SUFFICES ASSUME hits # {} PROVE near \in hits
    OBVIOUS
  <2>2. \E k \in hits : \A l \in hits : k <= l
    BY <2>1, LeastMember
  <2> QED
    BY <2>2
<1>5. hits # {} => IndexOf(p, Around(Order, from, near)) \in 1..n
  <2> HIDE DEF near
  <2> QED
    BY <1>3, <1>4
<1>6. 1 \in 1..n /\ (here > 0 => here \in 1..n)
  BY <1>2, <1>3
<1> HIDE DEF start, hits, near, here, from
<1>7. start \in 1..n
  BY <1>1, <1>5, <1>6
<1> QED
  BY <1>2, <1>7 DEF start

LEMMA NextInPlan ==
  ASSUME NEW p, Walkable(p), NEW i \in 1..Len(p)
  PROVE  NextIndex(p, i) \in 1..Len(p)
<1>1. PICK n \in Nat : n = Len(p) /\ n >= 1
  BY EmptyList, MembersAre DEF Walkable, ListOf
<1>2. PICK k \in 1..n : k = i
  BY <1>1
<1>3. k % n \in 0..(n - 1)
  BY <1>1
<1> QED
  BY <1>1, <1>2, <1>3 DEF NextIndex

\* What a request holds of its plan: nothing is rejected before it is made, and
\* afterwards only endpoints of the plan are.
PlanHeld(x) ==
  /\ x.phase \in {"new", "filtered"} => x.rejected = {}
  /\ x.phase \in {"filtered", "ready", "trying"} => Walkable(x.plan)
  /\ x.phase \in {"ready", "trying"} =>
       x.index \in 1..Len(x.plan) /\ x.rejected \subseteq Members(x.plan)

PlansHeld == \A r \in Requests : PlanHeld(req[r])

LEMMA DoneHolds ==
  ASSUME NEW a PROVE PlanHeld(Done(a)) /\ PlanHeld(Blank)
<1>1. Done(a).phase = "done" /\ Blank.phase = "new" /\ Blank.rejected = {}
  BY DEF Done, Blank
<1> QED
  BY <1>1 DEF PlanHeld

LEMMA RetriesHold ==
  ASSUME Shaped, PlansHeld, NEW r \in Requests, Trying(r)
  PROVE  /\ PlanHeld(Same(r)) /\ PlanHeld(Anew(r)) /\ PlanHeld(Moved(r))
         /\ ~Pinned(r) =>
              /\ req[r].rejected \cup {At(r)} \subseteq Members(req[r].plan)
              /\ PlanHeld([Moved(r) EXCEPT !.rejected = req[r].rejected \cup {At(r)}])
<1>1. /\ IsRequest(req[r]) /\ Walkable(req[r].plan)
      /\ req[r].index \in 1..Len(req[r].plan) /\ req[r].rejected \subseteq Members(req[r].plan)
  BY DEF Shaped, PlansHeld, PlanHeld, Trying
<1>2. /\ IsRequest(Same(r)) /\ Same(r).phase = "ready" /\ Same(r).plan = req[r].plan
      /\ Same(r).index = req[r].index /\ Same(r).rejected = req[r].rejected
  BY <1>1, FieldNames DEF Same, IsRequest
<1>3. /\ IsRequest(Anew(r)) /\ Anew(r).phase = "ready" /\ Anew(r).plan = req[r].plan
      /\ Anew(r).index = req[r].index /\ Anew(r).rejected = req[r].rejected
  BY <1>2, FieldNames DEF Anew, IsRequest
<1>4. /\ IsRequest(Moved(r)) /\ Moved(r).phase = "ready" /\ Moved(r).plan = req[r].plan
      /\ Moved(r).index \in 1..Len(req[r].plan) /\ Moved(r).rejected = req[r].rejected
  <2>1. PICK i \in 1..Len(req[r].plan) : Moved(r) = [Anew(r) EXCEPT !.index = i]
    <3>1. NextIndex(req[r].plan, Anew(r).index) \in 1..Len(req[r].plan)
      BY <1>1, <1>3, NextInPlan
    <3> QED
      BY <1>1, <1>3, <3>1, FieldNames DEF Moved, IsRequest
  <2> QED
    BY <1>3, <2>1, FieldNames DEF IsRequest
<1>5. PlanHeld(Same(r)) /\ PlanHeld(Anew(r)) /\ PlanHeld(Moved(r))
  BY <1>1, <1>2, <1>3, <1>4 DEF PlanHeld
<1>6. ASSUME ~Pinned(r)
      PROVE  /\ req[r].rejected \cup {At(r)} \subseteq Members(req[r].plan)
             /\ PlanHeld([Moved(r) EXCEPT !.rejected = req[r].rejected \cup {At(r)}])
  <2>1. At(r) = req[r].plan[req[r].index]
    BY <1>6 DEF At, Pinned
  <2>2. At(r) \in Members(req[r].plan)
    BY <1>1, <2>1, MembersAre DEF Walkable, ListOf
  <2> DEFINE s == req[r].rejected \cup {At(r)}
             x == [Moved(r) EXCEPT !.rejected = s]
  <2>3. s \subseteq Members(req[r].plan)
    BY <1>1, <2>2
  <2> HIDE DEF s
  <2>4. x.phase = "ready" /\ x.plan = req[r].plan /\ x.index = Moved(r).index /\ x.rejected = s
    BY <1>4, FieldNames DEF IsRequest
  <2> HIDE DEF x
  <2>5. PlanHeld(x)
    BY <1>1, <1>4, <2>3, <2>4 DEF PlanHeld
  <2> QED
    BY <2>3, <2>5 DEF s, x
<1> QED
  BY <1>5, <1>6

\* Every end of an attempt goes on with the same plan or is the last; and only
\* RejectRequest answers with a rejection.
LEMMA EndsHold ==
  ASSUME Shaped, PlansHeld, NEW r \in Requests, EndAttempt(r)
  PROVE  /\ \E x : PlanHeld(x) /\ Replaced(r, x)
         /\ req'[r].answer = "rejection" => RejectRequest(r)
<1>1. Trying(r)
  BY EndsOutside
<1>2. PlanHeld(Same(r)) /\ PlanHeld(Anew(r)) /\ PlanHeld(Moved(r))
  BY <1>1, RetriesHold
<1>3. \E x : PlanHeld(x) /\ Replaced(r, x)
  <2>1. ASSUME NEW a, Answered(r, a) PROVE \E x : PlanHeld(x) /\ Replaced(r, x)
    BY <2>1, DoneHolds DEF Answered, Replaced
  <2>2. ASSUME NEW x, PlanHeld(x), Continue(r, x) PROVE \E y : PlanHeld(y) /\ Replaced(r, y)
    BY <2>2 DEF Continue, Replaced
  <2>3. (\E a : Answered(r, a)) \/ (\E x : PlanHeld(x) /\ Continue(r, x))
    <3> USE <1>1, <1>2
    <3>1. CASE Succeed(r) \/ BreakLate(r) \/ PassOn(r) \/ ClientGone(r) \/ AbandonStream(r)
      BY <3>1 DEF Succeed, BreakLate, PassOn, ClientGone, AbandonStream
    <3>2. CASE FailFast(r) \/ FailHTTP(r)
      BY <3>2 DEF FailFast, FailHTTP, FailAfter
    <3>3. CASE BreakEarly(r) \/ FallBackSoftly(r)
      BY <3>3 DEF BreakEarly, FallBackSoftly
    <3>4. CASE Starve(r) \/ RefuseKey(r) \/ LoseCredential(r)
      BY <3>4 DEF Starve, RefuseKey, LoseCredential
    <3>5. CASE ChangeCredential(r) \/ Adapt(r)
      BY <3>5 DEF ChangeCredential, Adapt
    <3>6. CASE RejectRequest(r)
      BY <3>6, RetriesHold DEF RejectRequest
    <3>7. CASE SemanticEmpty(r)
      BY <3>7 DEF SemanticEmpty
    <3> QED
      BY <3>1, <3>2, <3>3, <3>4, <3>5, <3>6, <3>7 DEF EndAttempt
  <2> QED
    BY <2>1, <2>2, <2>3
<1>4. ASSUME ~RejectRequest(r) PROVE req'[r].answer # "rejection"
  <2> DEFINE Other(x) == x.answer # "rejection"
  <2>1. Other(Same(r)) /\ Other(Anew(r)) /\ Other(Moved(r))
    <3>1. IsRequest(req[r]) /\ req[r].answer = "none"
      BY <1>1 DEF Shaped, Unanswered, Trying
    <3>2. IsRequest(Same(r)) /\ Same(r).answer = "none"
      BY <3>1, FieldNames DEF IsRequest, Same
    <3>3. IsRequest(Anew(r)) /\ Anew(r).answer = "none"
      BY <3>2, FieldNames DEF IsRequest, Anew
    <3>4. PICK i : Moved(r) = [Anew(r) EXCEPT !.index = i]
      BY DEF Moved
    <3>5. Moved(r).answer = "none"
      BY <3>3, <3>4, FieldNames DEF IsRequest
    <3> QED
      BY <3>2, <3>3, <3>5
  <2>2. ASSUME NEW x, req' = [req EXCEPT ![r] = x] PROVE req'[r] = x
    BY <2>2 DEF Shaped
  <2>3. ASSUME NEW a, a # "rejection", Answered(r, a) PROVE Other(req'[r])
    BY <2>2, <2>3, DoneIsOutside DEF Answered
  <2>4. ASSUME NEW x, Other(x), Continue(r, x) PROVE Other(req'[r])
    BY <2>2, <2>4 DEF Continue
  <2> HIDE DEF Other
  <2>5. \/ \E a : a # "rejection" /\ Answered(r, a)
        \/ \E x : Other(x) /\ Continue(r, x)
    <3> USE <2>1
    <3>1. CASE Succeed(r) \/ BreakLate(r) \/ PassOn(r) \/ ClientGone(r) \/ AbandonStream(r)
      BY <3>1 DEF Succeed, BreakLate, PassOn, ClientGone, AbandonStream
    <3>2. CASE FailFast(r) \/ FailHTTP(r)
      BY <3>2 DEF FailFast, FailHTTP, FailAfter
    <3>3. CASE BreakEarly(r) \/ FallBackSoftly(r)
      BY <3>3 DEF BreakEarly, FallBackSoftly
    <3>4. CASE Starve(r) \/ RefuseKey(r) \/ LoseCredential(r)
      BY <3>4 DEF Starve, RefuseKey, LoseCredential
    <3>5. CASE ChangeCredential(r) \/ Adapt(r)
      BY <3>5 DEF ChangeCredential, Adapt
    <3>6. CASE SemanticEmpty(r)
      BY <3>6 DEF SemanticEmpty
    <3> QED
      BY <1>4, <3>1, <3>2, <3>3, <3>4, <3>5, <3>6 DEF EndAttempt
  <2>6. Other(req'[r])
    BY <2>3, <2>4, <2>5
  <2> QED
    BY <2>6 DEF Other
<1> QED
  BY <1>3, <1>4

\* The steps outside an attempt hold a plan as well.
LEMMA OthersHold ==
  ASSUME Shaped, PlansHeld, NEW r \in Requests,
         Filter(r) \/ Plan(r) \/ Attempt(r) \/ GiveUp(r) \/ WriteStream(r)
  PROVE  \E x : PlanHeld(x) /\ Replaced(r, x)
<1>1. IsRequest(req[r]) /\ PlanHeld(req[r])
  BY DEF Shaped, PlansHeld
<1>2. CASE Filter(r)
  <2>1. PICK s, p : Replaced(r, Admitted(r, s, p))
    BY <1>2 DEF Filter, Replaced
  <2> DEFINE x == Admitted(r, s, p)
  <2>2. req[r].rejected = {}
    BY <1>1, <1>2 DEF Filter, PlanHeld
  <2>3. /\ x.phase = "filtered" /\ x.rejected = {}
        /\ x.plan = IF p = NoEndpoint THEN PlanCandidates(Order, cool, Policy) ELSE Order
    BY <1>1, <2>2, FieldNames DEF IsRequest, Admitted
  <2> HIDE DEF x
  <2>4. Walkable(x.plan)
    BY <2>3, OrderWalkable, CandidatesWalkable
  <2>5. PlanHeld(x)
    BY <2>3, <2>4 DEF PlanHeld
  <2> QED
    BY <2>1, <2>5 DEF x
<1>3. CASE Plan(r)
  <2>1. PICK tier \in [Endpoints -> 0..1] :
          Replaced(r, Planned(r, WithRoom(req[r].plan, Full), tier))
    BY <1>3 DEF Plan, Replaced
  <2> DEFINE x == Planned(r, WithRoom(req[r].plan, Full), tier)
             plan == IF Pinned(r) THEN req[r].plan
                     ELSE Prioritized(WithRoom(req[r].plan, Full), tier)
             skip == ~Pinned(r) /\ (Policy = "deprioritize" /\ cool[req[r].chosen] = "recovered")
  <2>2. req[r].rejected = {} /\ Walkable(req[r].plan)
    BY <1>1, <1>3 DEF Plan, PlanHeld
  <2>3. /\ x.phase = "ready" /\ x.rejected = {} /\ x.plan = plan
        /\ x.index = PlanStart(plan, Order, req[r].chosen, skip)
    BY <1>1, <2>2, FieldNames DEF IsRequest, Planned
  <2>4. Walkable(plan)
    BY <2>2, RoomWalkable, PrioritizedWalkable
  <2>5. skip \in BOOLEAN
    OBVIOUS
  <2> HIDE DEF x, plan, skip
  <2>6. x.index \in 1..Len(plan)
    BY <2>3, <2>4, <2>5, StartInPlan
  <2>7. PlanHeld(x)
    BY <2>3, <2>4, <2>6 DEF PlanHeld
  <2> QED
    BY <2>1, <2>7 DEF x
<1>4. CASE Attempt(r)
  <2>1. PICK n, t : Replaced(r, [req[r] EXCEPT !.phase = "trying", !.left = n, !.tries = t])
    BY <1>4 DEF Attempt, Replaced
  <2> DEFINE x == [req[r] EXCEPT !.phase = "trying", !.left = n, !.tries = t]
  <2>2. /\ x.phase = "trying" /\ x.plan = req[r].plan
        /\ x.index = req[r].index /\ x.rejected = req[r].rejected
    BY <1>1, FieldNames DEF IsRequest
  <2>3. req[r].phase = "ready"
    BY <1>4 DEF Attempt
  <2> HIDE DEF x
  <2>4. PlanHeld(x)
    BY <1>1, <2>2, <2>3 DEF PlanHeld
  <2> QED
    BY <2>1, <2>4 DEF x
<1>5. CASE GiveUp(r)
  BY <1>5, DoneHolds DEF GiveUp, Replaced
<1>6. CASE WriteStream(r)
  <2>1. PICK d : Replaced(r, [req[r] EXCEPT !.wrote = d])
    BY <1>6 DEF WriteStream, Replaced
  <2> DEFINE x == [req[r] EXCEPT !.wrote = d]
  <2>2. /\ x.phase = req[r].phase /\ x.plan = req[r].plan
        /\ x.index = req[r].index /\ x.rejected = req[r].rejected
    BY <1>1, FieldNames DEF IsRequest
  <2> HIDE DEF x
  <2>3. PlanHeld(x)
    BY <1>1, <2>2 DEF PlanHeld
  <2> QED
    BY <2>1, <2>3 DEF x
<1> QED
  BY <1>2, <1>3, <1>4, <1>5, <1>6

LEMMA PlansStayHeld == Spec => []PlansHeld
<1>1. Init => PlansHeld
  BY DoneHolds DEF Init, PlansHeld
<1>2. IInv /\ PlansHeld /\ [Next]_vars => PlansHeld'
  <2> SUFFICES ASSUME IInv, PlansHeld, [Next]_vars PROVE PlansHeld'
    OBVIOUS
  <2>1. ASSUME NEW r \in Requests, NEW x, PlanHeld(x), Replaced(r, x) PROVE PlansHeld'
    BY <2>1 DEF IInv, Shaped, PlansHeld, Replaced, PlanHeld
  <2>2. ASSUME UNCHANGED req PROVE PlansHeld'
    BY <2>2 DEF PlansHeld, PlanHeld
  <2>3. ASSUME NEW r \in Requests, Filter(r) \/ Advance(r) \/ WriteStream(r) PROVE PlansHeld'
    <3>1. \E x : PlanHeld(x) /\ Replaced(r, x)
      BY <2>3, EndsHold, OthersHold DEF IInv, Advance
    <3> QED
      BY <2>1, <3>1
  <2> QED
    BY <2>2, <2>3 DEF Next, SwitchByHand, CooldownEnds, vars
<1> QED
  BY <1>1, <1>2, Invariant, PTL DEF Spec

\* OthersLeft compares two numbers.  They say the same as the two sets, for the
\* plan names each endpoint once and only endpoints of the plan are rejected.
THEOREM RejectionIsUnanimous == Spec => RejectedByAll
<1>1. ASSUME IInv, PlansHeld, Next, NEW r \in Requests,
             req'[r].answer = "rejection", Trying(r), ~Pinned(r)
      PROVE  req[r].rejected \cup {At(r)} = Members(req[r].plan)
  <2>1. req[r].answer = "none" /\ DOMAIN req = Requests /\ IsRequest(req[r])
    BY <1>1 DEF IInv, Shaped, Unanswered, Trying
  <2>2. ASSUME NEW q \in Requests, NEW x, Replaced(q, x) PROVE q = r
    BY <1>1, <2>1, <2>2 DEF Replaced
  <2>3. RejectRequest(r)
    <3>1. PICK q \in Requests : Filter(q) \/ Advance(q) \/ WriteStream(q)
      BY <1>1, <2>1 DEF Next, SwitchByHand, CooldownEnds
    <3>2. q = r
      BY <1>1, <2>2, <3>1, EndsHold, OthersHold DEF IInv, Advance
    <3>3. ~WriteStream(r)
      <4> SUFFICES ASSUME WriteStream(r) PROVE FALSE
        OBVIOUS
      <4>1. PICK d : req' = [req EXCEPT ![r].wrote = d]
        BY DEF WriteStream
      <4>2. req'[r] = [req[r] EXCEPT !.wrote = d]
        BY <2>1, <4>1
      <4>3. req'[r].answer = "none"
        BY <2>1, <4>2, FieldNames DEF IsRequest
      <4> QED
        BY <1>1, <4>3
    <3>4. EndAttempt(r)
      BY <1>1, <3>1, <3>2, <3>3 DEF Advance, Filter, Plan, Attempt, GiveUp, Trying
    <3> QED
      BY <1>1, <3>4, EndsHold DEF IInv
  <2> DEFINE p == req[r].plan
             s == req[r].rejected \cup {At(r)}
  <2>4. ~OthersLeft(p, s)
    <3> SUFFICES ASSUME OthersLeft(p, s) PROVE FALSE
      OBVIOUS
    <3>1. Continue(r, [Moved(r) EXCEPT !.rejected = s])
      BY <1>1, <2>3 DEF RejectRequest
    <3>2. req'[r] = [Moved(r) EXCEPT !.rejected = s]
      BY <2>1, <3>1 DEF Continue
    <3>3. Outside([Moved(r) EXCEPT !.rejected = s])
      BY <1>1, RetriesAreOutside DEF IInv
    <3>4. [Moved(r) EXCEPT !.rejected = s].phase = "ready"
      <4>1. IsRequest(Same(r)) /\ Same(r).phase = "ready"
        BY <2>1, FieldNames DEF Same, IsRequest
      <4>2. IsRequest(Anew(r)) /\ Anew(r).phase = "ready"
        BY <4>1, FieldNames DEF Anew, IsRequest
      <4>3. PICK i : Moved(r) = [Anew(r) EXCEPT !.index = i]
        BY DEF Moved
      <4> QED
        BY <4>2, <4>3, FieldNames DEF IsRequest
    <3>5. req'[r].answer = "none"
      BY <3>2, <3>3, <3>4 DEF Outside, Unanswered
    <3> QED
      BY <1>1, <3>5
  <2>5. s \subseteq Members(p) /\ Walkable(p)
    BY <1>1, RetriesHold DEF IInv, PlansHeld, PlanHeld, Trying
  <2>6. IsFiniteSet(Members(p)) /\ Cardinality(Members(p)) = Len(p)
    BY <2>5, DistinctCounted DEF Walkable, ListOf
  <2> HIDE DEF p, s
  <2>7. /\ Cardinality(s) <= Len(p) /\ (Len(p) = Cardinality(s) => s = Members(p))
        /\ Cardinality(s) \in Nat
    <3>1. IsFiniteSet(s) /\ s \in SUBSET Members(p)
      BY <2>5, <2>6, FS_Subset
    <3> QED
      BY <2>6, <3>1, FS_Subset, FS_CardinalityType
  <2>8. Len(p) \in Nat /\ ~(Len(p) > Cardinality(s))
    BY <2>4, <2>5 DEF OthersLeft, Walkable, ListOf
  <2> QED
    BY <2>7, <2>8 DEF p, s
<1>2. IInv /\ PlansHeld /\ [Next]_vars =>
        [\A r \in Requests : req'[r].answer = "rejection" /\ Trying(r) /\ ~Pinned(r)
           => req[r].rejected \cup {At(r)} = Members(req[r].plan)]_vars
  BY <1>1
<1> QED
  BY <1>2, Invariant, PlansStayHeld, PTL DEF Spec, RejectedByAll

-----------------------------------------------------------------------------
(* Backups                                                                 *)

Temps == Paths \cup Files \cup Goers

\* While a request stands under no foreign id, a database, wherever it is kept,
\* counts no more than was made here.
Sane(b) == ~foreign => b.stats.default = 0 /\ b.stats.own <= made

CopiesAreSane ==
  /\ Sane(base)
  /\ \A s \in Providers, f \in Files : Sane(shelf[s][f])
  /\ \A p \in Temps : Sane(temp[p])

\* What a restore from S3 has downloaded is what it asked for, or gone; what the
\* shared file holds is what some restore asked for that will yet remove it.
ReadsItsOwn ==
  /\ \A r \in Restorers :
       task[r].via = "s3" /\ task[r].pc = "merge" => temp[r] \in {task[r].want, NoBase}
  /\ temp["restore_temp.db"] # NoBase =>
       \E q \in Downloaded : temp["restore_temp.db"] = task[q].want

RestoreInv == BackupsTypeOK /\ CopiesAreSane /\ ReadsItsOwn

Task == [pc : {"rest", "copy", "upload", "download", "compare", "merge", "load", "replace"},
         via : Providers, file : Files, choice : {"local", "remote"},
         want : Base, loaded : [EndpointNames -> Values]]

LEMMA EmptyIsSane ==
  /\ NoBase \in Base /\ NoBase.eps \in [EndpointNames -> Values]
  /\ made \in Nat => Sane(NoBase)
BY DEF NoBase, Base, NoStats, EndpointNames, Values, Unset, Sane

LEMMA BareIsTask == Bare \in Task /\ Bare.want = NoBase /\ Bare.pc = "rest"
<1>1. (CHOOSE f \in Files : TRUE) \in Files
  BY BackupsAssumption
<1> QED
  BY <1>1, EmptyIsSane DEF Bare, Task, Providers

\* No name stands for two temporary files.
LEMMA FilesApart ==
  /\ "restore_temp.db" \in Paths \ (Files \cup Goers)
  /\ Paths \subseteq Temps /\ Files \subseteq Temps /\ Goers \subseteq Temps
  /\ Restorers \subseteq Goers /\ Restorers \cap Workers = {}
  /\ Goers \cap (Paths \cup Files) = {}
BY BackupsAssumption DEF Paths, Temps, Goers

LEMMA TaskTyped ==
  ASSUME BackupsTypeOK, NEW o \in Goers
  PROVE  /\ task[o] \in Task /\ task[o].via \in Providers /\ task[o].file \in Files
         /\ task[o].want \in Base /\ task[o].loaded \in [EndpointNames -> Values]
<1>1. task[o] \in Task
  BY DEF BackupsTypeOK, Task
<1> QED
  BY <1>1 DEF Task

LEMMA TempTyped ==
  ASSUME BackupsTypeOK
  PROVE  temp \in [Temps -> Base] /\ DOMAIN temp = Temps
BY DEF BackupsTypeOK, Temps

LEMMA NeededTyped ==
  ASSUME NEW o \in Goers, NEW via \in Providers
  PROVE  /\ Needed(o, via) \subseteq {"shared"} \cup Goers
         /\ Needed(o, "webdav") = {"shared"}
BY DEF Needed, Providers

\* A step that moves one goroutine, and may change temporary files, the shelf or
\* the database to what is sane.
LEMMA OneGoes ==
  ASSUME RestoreInv, NEW o \in Goers, NEW rec \in Task, Set(o, rec),
         temp' \in [Temps -> Base], \A p \in Temps : Sane(temp'[p]),
         dirs' \subseteq {"shared"} \cup Goers,
         shelf' \in [Providers -> [Files -> Base]],
         \A s \in Providers, f \in Files : Sane(shelf'[s][f]),
         base' \in Base, Sane(base'), held' \in [EndpointNames -> Values],
         UNCHANGED <<made, foreign>>, ops' \in 0..MaxBackupOps, ReadsItsOwn'
  PROVE  RestoreInv'
<1> USE DEF RestoreInv
<1>1. task' \in [Goers -> Task]
  BY DEF Set, BackupsTypeOK, Task
<1>2. BackupsTypeOK'
  BY <1>1 DEF BackupsTypeOK, Task, Temps
<1>3. CopiesAreSane'
  BY DEF CopiesAreSane, Sane
<1> QED
  BY <1>2, <1>3

\* Nobody but the restores of the other goroutines, and of this one as far as it
\* goes on, reads what they downloaded.
LEMMA NobodyDisturbed ==
  ASSUME RestoreInv, NEW o \in Goers, NEW rec \in Task, Set(o, rec),
         \A r \in Restorers \ {o} : temp'[r] \in {temp[r], NoBase},
         temp'["restore_temp.db"] \in {temp["restore_temp.db"], NoBase},
         o \in Restorers /\ rec.via = "s3" /\ rec.pc = "merge" => temp'[o] \in {rec.want, NoBase},
         o \in Downloaded /\ temp'["restore_temp.db"] # NoBase =>
           rec.via = "webdav" /\ rec.pc \in {"merge", "load", "replace"} /\ rec.want = task[o].want
  PROVE  ReadsItsOwn'
<1>1. task'[o] = rec /\ \A q \in Goers \ {o} : task'[q] = task[q]
  BY DEF Set, RestoreInv, BackupsTypeOK
<1>2. ASSUME NEW r \in Restorers, task'[r].via = "s3", task'[r].pc = "merge"
      PROVE  temp'[r] \in {task'[r].want, NoBase}
  BY <1>1, <1>2, FilesApart DEF RestoreInv, ReadsItsOwn
<1>3. ASSUME temp'["restore_temp.db"] # NoBase
      PROVE  \E q \in Downloaded' : temp'["restore_temp.db"] = task'[q].want
  <2>1. PICK q \in Downloaded : temp["restore_temp.db"] = task[q].want
    BY <1>3 DEF RestoreInv, ReadsItsOwn
  <2>2. task'[q].want = task[q].want /\ q \in Downloaded'
    <3>1. q \in Goers
      BY <2>1, FilesApart DEF Downloaded
    <3>2. CASE q = o
      BY <1>1, <1>3, <2>1, <3>2 DEF Downloaded
    <3>3. CASE q # o
      BY <1>1, <2>1, <3>1, <3>3 DEF Downloaded
    <3> QED
      BY <3>2, <3>3
  <2> QED
    BY <1>3, <2>1, <2>2
<1> QED
  BY <1>2, <1>3 DEF ReadsItsOwn

LEMMA BaseStep ==
  ASSUME NEW b \in Base
  PROVE  /\ b.eps \in [EndpointNames -> Values] /\ b.stats \in [own : Nat, default : Nat]
         /\ \A h \in [EndpointNames -> Values] :
              [b EXCEPT !.eps = h] \in Base /\ [b EXCEPT !.eps = h].stats = b.stats
         /\ \A s \in [own : Nat, default : Nat] :
              [b EXCEPT !.stats = s] \in Base /\ [b EXCEPT !.stats = s].stats = s
BY DEF Base

LEMMA OneMore ==
  ASSUME NEW s \in [own : Nat, default : Nat]
  PROVE  /\ \A d \in {"own", "default"} : [s EXCEPT ![d] = s[d] + 1] \in [own : Nat, default : Nat]
         /\ [s EXCEPT !["own"] = s["own"] + 1].own = s.own + 1
         /\ [s EXCEPT !["own"] = s["own"] + 1].default = s.default
OBVIOUS

\* The deferred clean-up: over WebDAV it takes the files of the restores along.
LEMMA CleanedIsSane ==
  ASSUME RestoreInv, NEW o \in Goers
  PROVE  /\ Cleaned(o) \in [Temps -> Base] /\ \A p \in Temps : Cleaned(o)[p] \in {temp[p], NoBase}
         /\ task[o].via = "webdav" => Cleaned(o)["restore_temp.db"] = NoBase
         /\ DirsLeft(o) \subseteq {"shared"} \cup Goers
<1>1. /\ task[o].via \in {"webdav", "s3", "local"} /\ temp \in [Temps -> Base] /\ DOMAIN temp = Temps
      /\ NoBase \in Base /\ "restore_temp.db" \in Temps \ Files /\ dirs \subseteq {"shared"} \cup Goers
  BY TaskTyped, TempTyped, EmptyIsSane, FilesApart DEF RestoreInv, Providers, BackupsTypeOK
<1>2. CASE task[o].via = "webdav"
  <2>1. Cleaned(o) = [p \in Temps |-> IF p \in Files THEN temp[p] ELSE NoBase]
    BY <1>1, <1>2 DEF Cleaned
  <2>2. DirsLeft(o) = {}
    BY <1>2 DEF DirsLeft
  <2> QED
    BY <1>1, <2>1, <2>2
<1>3. CASE task[o].via = "s3"
  <2>1. Cleaned(o) = [temp EXCEPT ![o] = NoBase]
    BY <1>3 DEF Cleaned
  <2>2. DirsLeft(o) = dirs \ {o}
    BY <1>3 DEF DirsLeft
  <2> QED
    BY <1>1, <1>3, <2>1, <2>2
<1>4. CASE task[o].via = "local"
  <2>1. Cleaned(o) = temp /\ DirsLeft(o) = dirs
    BY <1>4 DEF Cleaned, DirsLeft
  <2> QED
    BY <1>1, <1>4, <2>1
<1> QED
  BY <1>1, <1>2, <1>3, <1>4

\* A goroutine is done; nothing but temporary files of its own is removed beside.
LEMMA GoneKeeps ==
  ASSUME RestoreInv, NEW o \in Goers, Set(o, Bare), dirs' = DirsLeft(o),
         temp' \in [Temps -> Base], \A p \in Temps : temp'[p] \in {Cleaned(o)[p], NoBase},
         shelf' \in [Providers -> [Files -> Base]],
         \A s \in Providers, f \in Files : Sane(shelf'[s][f]),
         base' \in Base, Sane(base'), held' \in [EndpointNames -> Values],
         UNCHANGED <<made, foreign, ops>>
  PROVE  RestoreInv'
<1>1. /\ \A p \in Temps : temp'[p] \in {temp[p], NoBase}
      /\ task[o].via = "webdav" => temp'["restore_temp.db"] = NoBase
      /\ dirs' \subseteq {"shared"} \cup Goers
  BY CleanedIsSane, FilesApart
<1>2. \A p \in Temps : Sane(temp'[p])
  BY <1>1, EmptyIsSane DEF RestoreInv, CopiesAreSane, BackupsTypeOK
<1>3. ReadsItsOwn'
  <2>1. \A r \in Restorers \ {o} : temp'[r] \in {temp[r], NoBase}
    BY <1>1, FilesApart
  <2>2. temp'["restore_temp.db"] \in {temp["restore_temp.db"], NoBase}
    BY <1>1, FilesApart
  <2>3. ~(o \in Downloaded /\ temp'["restore_temp.db"] # NoBase)
    BY <1>1 DEF Downloaded
  <2> QED
    BY <2>1, <2>2, <2>3, BareIsTask, NobodyDisturbed
<1> QED
  BY <1>1, <1>2, <1>3, BareIsTask, OneGoes DEF RestoreInv, BackupsTypeOK

LEMMA ReturnKeeps ==
  ASSUME RestoreInv, NEW o \in Goers, Returns(o),
         shelf' \in [Providers -> [Files -> Base]],
         \A s \in Providers, f \in Files : Sane(shelf'[s][f]),
         base' \in Base, Sane(base'), held' \in [EndpointNames -> Values],
         UNCHANGED <<made, foreign, ops>>
  PROVE  RestoreInv'
BY CleanedIsSane, GoneKeeps DEF Returns

\* Counting and editing leave every copy as it is.
LEMMA MeanwhileKeeps ==
  ASSUME RestoreInv, UNCHANGED task,
         \/ \E dev \in {"own", "default"} : RecordDailyStat(dev)
         \/ DeleteStats
         \/ \E e \in EndpointNames : EditEndpoint(e)
         \/ \E s \in Providers, f \in Files : DeleteBackup(s, f)
  PROVE  RestoreInv'
<1> USE BackupsAssumption DEF RestoreInv
<1>1. UNCHANGED <<temp, dirs>> /\ ReadsItsOwn'
  BY DEF RecordDailyStat, DeleteStats, EditEndpoint, DeleteBackup, ReadsItsOwn, Downloaded
<1>2. ASSUME NEW dev \in {"own", "default"}, RecordDailyStat(dev) PROVE RestoreInv'
  <2> DEFINE s == [base.stats EXCEPT ![dev] = base.stats[dev] + 1]
  <2>1. /\ made \in Nat /\ made' = made + 1 /\ made' \in 0..MaxRequests
        /\ base' = [base EXCEPT !.stats = s]
        /\ foreign' = (foreign \/ dev = "default") /\ UNCHANGED <<held, shelf, temp, task, ops>>
    BY <1>2 DEF RecordDailyStat, BackupsTypeOK
  <2>2. base \in Base /\ base.stats \in [own : Nat, default : Nat]
    BY BaseStep DEF BackupsTypeOK
  <2>3. s \in [own : Nat, default : Nat]
    BY <2>2, OneMore
  <2>4. dev = "own" => s.own = base.stats.own + 1 /\ s.default = base.stats.default
    BY <2>2, OneMore
  <2>5. base' \in Base /\ base'.stats = s
    BY <2>1, <2>2, <2>3, BaseStep
  <2>6. BackupsTypeOK'
    BY <1>1, <2>1, <2>5 DEF BackupsTypeOK
  <2>7. Sane(base)'
    <3>1. SUFFICES ASSUME ~foreign' PROVE base'.stats.default = 0 /\ base'.stats.own <= made'
      BY DEF Sane
    <3>2. ~foreign /\ dev = "own"
      BY <2>1, <3>1
    <3>3. base.stats.default = 0 /\ base.stats.own <= made /\ base.stats.own \in Nat
      BY <2>2, <3>2 DEF CopiesAreSane, Sane
    <3> HIDE DEF s
    <3> QED
      BY <2>1, <2>4, <2>5, <3>2, <3>3
  <2>8. ASSUME NEW b \in Base, Sane(b) PROVE ~foreign' => b.stats.default = 0 /\ b.stats.own <= made'
    <3>1. b.stats.own \in Nat
      BY BaseStep
    <3>2. SUFFICES ASSUME ~foreign' PROVE b.stats.default = 0 /\ b.stats.own <= made'
      OBVIOUS
    <3>3. b.stats.default = 0 /\ b.stats.own <= made
      BY <2>1, <2>8, <3>2 DEF Sane
    <3> QED
      BY <2>1, <3>1, <3>3
  <2>9. CopiesAreSane'
    <3>1. \A p \in Providers, f \in Files : shelf[p][f] \in Base /\ Sane(shelf[p][f])
      BY DEF CopiesAreSane, BackupsTypeOK
    <3>2. \A q \in Temps : temp[q] \in Base /\ Sane(temp[q])
      BY TempTyped DEF CopiesAreSane
    <3> QED
      BY <2>1, <2>7, <2>8, <3>1, <3>2 DEF CopiesAreSane, Sane
  <2> QED
    BY <1>1, <2>6, <2>9
<1>3. CASE DeleteStats
  <2>1. base' \in Base /\ base'.stats = NoStats
    BY <1>3, BaseStep DEF DeleteStats, BackupsTypeOK, NoStats
  <2>2. ops' \in 0..MaxBackupOps /\ UNCHANGED <<held, shelf, temp, made, foreign>>
    BY <1>3 DEF DeleteStats, Counted, BackupsTypeOK
  <2>3. Sane(base)'
    BY <2>1, <2>2 DEF BackupsTypeOK, Sane, NoStats
  <2> QED
    BY <1>1, <2>1, <2>2, <2>3 DEF BackupsTypeOK, CopiesAreSane, Sane
<1>4. ASSUME NEW e \in EndpointNames, EditEndpoint(e) PROVE RestoreInv'
  <2>1. held' \in [EndpointNames -> Values] /\ base' = [base EXCEPT !.eps = held']
    BY <1>4 DEF EditEndpoint, BackupsTypeOK
  <2>2. base' \in Base /\ base'.stats = base.stats
    BY <2>1, BaseStep DEF BackupsTypeOK
  <2>3. ops' \in 0..MaxBackupOps /\ UNCHANGED <<shelf, temp, made, foreign>>
    BY <1>4 DEF EditEndpoint, Counted, BackupsTypeOK
  <2> QED
    BY <1>1, <2>1, <2>2, <2>3 DEF BackupsTypeOK, CopiesAreSane, Sane
<1>5. ASSUME NEW p \in Providers, NEW f \in Files, DeleteBackup(p, f) PROVE RestoreInv'
  <2>1. /\ shelf' \in [Providers -> [Files -> Base]]
        /\ \A q \in Providers, g \in Files : shelf'[q][g] \in {shelf[q][g], NoBase}
    BY <1>5, EmptyIsSane DEF DeleteBackup, BackupsTypeOK
  <2>2. ops' \in 0..MaxBackupOps /\ UNCHANGED <<base, held, temp, made, foreign>>
    BY <1>5 DEF DeleteBackup, Counted, BackupsTypeOK
  <2>3. \A q \in Providers, g \in Files : Sane(shelf'[q][g])
    BY <2>1, EmptyIsSane DEF BackupsTypeOK, CopiesAreSane
  <2> QED
    BY <1>1, <2>1, <2>2, <2>3 DEF BackupsTypeOK, CopiesAreSane, Sane
<1> QED
  BY <1>2, <1>3, <1>4, <1>5

-----------------------------------------------------------------------------
(* Backing up and looking for conflicts: nothing a restore reads is        *)
(* written.                                                                *)

\* A goroutine that goes on with what it has.
LEMMA TaskStep ==
  ASSUME NEW t \in Task, NEW step \in {"rest", "copy", "upload", "download", "compare",
                                       "merge", "load", "replace"}
  PROVE  /\ [t EXCEPT !.pc = step] \in Task
         /\ [t EXCEPT !.pc = step].want = t.want
         /\ [t EXCEPT !.pc = step].pc = step /\ [t EXCEPT !.pc = step].via = t.via
BY DEF Task

LEMMA CopyPathTyped ==
  ASSUME NEW o \in Goers, NEW via \in Providers, NEW f \in Files
  PROVE  /\ CopyPath(o, via, f) \in Temps \ {"restore_temp.db"}
         /\ \A r \in Restorers \ {o} : CopyPath(o, via, f) # r
<1>1. CopyPath(o, via, f) \in {"backup_temp.db", o, f}
  BY DEF CopyPath, Providers
<1>2. "backup_temp.db" \in Paths
  BY DEF Paths
<1> QED
  BY <1>1, <1>2, FilesApart

LEMMA BackupStarts ==
  ASSUME RestoreInv, NEW o \in Goers, NEW f \in Files, NEW via \in Providers,
         StartBackup(o, f, via)
  PROVE  RestoreInv'
<1> USE DEF RestoreInv
<1> DEFINE rec == [Bare EXCEPT !.pc = "copy", !.via = via, !.file = f]
           path == CopyPath(o, via, f)
<1>1. rec \in Task /\ rec.pc = "copy"
  BY BareIsTask DEF Task
<1>2. /\ Set(o, rec) /\ o \notin Restorers /\ temp' = [temp EXCEPT ![path] = NoBase]
      /\ dirs' = dirs \cup Needed(o, via) /\ UNCHANGED <<base, held, shelf, made, foreign>>
  BY FilesApart DEF StartBackup
<1>3. path \in Temps \ {"restore_temp.db"} /\ \A r \in Restorers : path # r
  BY <1>2, CopyPathTyped
<1> HIDE DEF rec, path
<1>4. temp' \in [Temps -> Base] /\ \A p \in Temps : temp'[p] \in {temp[p], NoBase}
  BY <1>2, <1>3, TempTyped, EmptyIsSane
<1>5. ops' \in 0..MaxBackupOps
  BY BackupsAssumption DEF StartBackup, Counted, BackupsTypeOK
<1>6. ReadsItsOwn'
  <2>1. "restore_temp.db" \in Temps /\ Restorers \subseteq Temps /\ o \notin Downloaded
    BY <1>2, FilesApart DEF Downloaded
  <2> QED
    BY <1>1, <1>2, <1>4, <2>1, NobodyDisturbed
<1>7. \A p \in Temps : Sane(temp'[p])
  BY <1>4, EmptyIsSane DEF CopiesAreSane, BackupsTypeOK
<1>8. dirs' \subseteq {"shared"} \cup Goers
  BY <1>2, NeededTyped DEF BackupsTypeOK
<1>9. /\ base' \in Base /\ Sane(base') /\ held' \in [EndpointNames -> Values]
      /\ shelf' \in [Providers -> [Files -> Base]]
      /\ \A s \in Providers, g \in Files : Sane(shelf'[s][g])
  BY <1>2 DEF BackupsTypeOK, CopiesAreSane
<1>10. UNCHANGED <<made, foreign>>
  BY <1>2
<1> QED
  BY <1>1, <1>2, <1>4, <1>5, <1>6, <1>7, <1>8, <1>9, <1>10, OneGoes

\* One backup is replaced.
LEMMA ShelfStep ==
  ASSUME NEW h \in [Providers -> [Files -> Base]], NEW s \in Providers, NEW f \in Files,
         NEW b \in Base
  PROVE  LET k == [h EXCEPT ![s] = [h[s] EXCEPT ![f] = b]]
         IN  /\ k \in [Providers -> [Files -> Base]]
             /\ \A q \in Providers, g \in Files : k[q][g] \in {h[q][g], b}
<1>1. h[s] \in [Files -> Base] /\ [h[s] EXCEPT ![f] = b] \in [Files -> Base]
  OBVIOUS
<1>2. \A g \in Files : [h[s] EXCEPT ![f] = b][g] \in {h[s][g], b}
  BY <1>1
<1> DEFINE row == [h[s] EXCEPT ![f] = b]
<1> HIDE DEF row
<1>3. \A q \in Providers : [h EXCEPT ![s] = row][q] = IF q = s THEN row ELSE h[q]
  OBVIOUS
<1> QED
  BY <1>1, <1>2, <1>3 DEF row

LEMMA CopyKeeps ==
  ASSUME RestoreInv, NEW o \in Goers, CreateBackupCopy(o)
  PROVE  RestoreInv'
<1> USE DEF RestoreInv
<1> DEFINE path == CopyPath(o, task[o].via, task[o].file)
           rec  == [task[o] EXCEPT !.pc = "upload"]
<1>1. /\ task[o] \in Task /\ task[o].pc = "copy" /\ base \in Base /\ Sane(base)
      /\ UNCHANGED <<base, held, shelf, made, foreign, ops>>
  BY TaskTyped DEF CreateBackupCopy, CopiesAreSane, BackupsTypeOK
<1>2. CASE Returns(o)
  BY <1>1, <1>2, ReturnKeeps DEF BackupsTypeOK, CopiesAreSane
<1>3. CASE ~Returns(o)
  <2>1. Set(o, rec) /\ temp' = [temp EXCEPT ![path] = base] /\ UNCHANGED dirs
    BY <1>3 DEF CreateBackupCopy, GoTo
  <2>2. rec \in Task /\ rec.pc = "upload"
    BY <1>1, TaskStep
  <2>3. path \in Temps \ {"restore_temp.db"} /\ \A r \in Restorers \ {o} : path # r
    BY TaskTyped, CopyPathTyped
  <2> HIDE DEF rec, path
  <2>4. temp' \in [Temps -> Base] /\ \A p \in Temps : temp'[p] = IF p = path THEN base ELSE temp[p]
    BY <1>1, <2>1, <2>3, TempTyped
  <2>5. ReadsItsOwn'
    <3>1. "restore_temp.db" \in Temps /\ Restorers \subseteq Temps /\ o \notin Downloaded
      BY <1>1, FilesApart DEF Downloaded
    <3> QED
      BY <2>1, <2>2, <2>3, <2>4, <3>1, NobodyDisturbed
  <2>6. \A p \in Temps : Sane(temp'[p])
    BY <1>1, <2>4 DEF CopiesAreSane
  <2> QED
    BY <1>1, <2>1, <2>2, <2>4, <2>5, <2>6, OneGoes DEF BackupsTypeOK, CopiesAreSane, Sane
<1> QED
  BY <1>2, <1>3

LEMMA UploadKeeps ==
  ASSUME RestoreInv, NEW o \in Goers, Upload(o)
  PROVE  RestoreInv'
<1> USE DEF RestoreInv
<1> DEFINE path == CopyPath(o, task[o].via, task[o].file)
<1>1. /\ task[o].via \in Providers /\ task[o].file \in Files /\ path \in Temps
      /\ temp[path] \in Base /\ Sane(temp[path])
  BY TaskTyped, TempTyped, CopyPathTyped DEF CopiesAreSane
<1>2. /\ Set(o, Bare) /\ temp' = [Cleaned(o) EXCEPT ![path] = NoBase] /\ dirs' = DirsLeft(o)
      /\ \/ shelf' = [shelf EXCEPT ![task[o].via][task[o].file] = temp[path]]
         \/ shelf' = shelf
      /\ UNCHANGED <<base, held, made, foreign, ops>>
  BY DEF Upload
<1> HIDE DEF path
<1>3. /\ shelf' \in [Providers -> [Files -> Base]]
      /\ \A s \in Providers, f \in Files : shelf'[s][f] \in {shelf[s][f], temp[path]}
  <2>1. shelf \in [Providers -> [Files -> Base]]
    BY DEF BackupsTypeOK
  <2> QED
    <3> DEFINE via == task[o].via
               name == task[o].file
               data == temp[path]
    <3>1. via \in Providers /\ name \in Files /\ data \in Base
      BY <1>1
    <3>2. shelf' = [shelf EXCEPT ![via] = [shelf[via] EXCEPT ![name] = data]] \/ shelf' = shelf
      BY <1>2
    <3> HIDE DEF via, name, data
    <3>3. /\ shelf' \in [Providers -> [Files -> Base]]
          /\ \A s \in Providers, f \in Files : shelf'[s][f] \in {shelf[s][f], data}
      <4>1. CASE shelf' = shelf
        BY <2>1, <4>1
      <4>2. CASE shelf' = [shelf EXCEPT ![via] = [shelf[via] EXCEPT ![name] = data]]
        <5> DEFINE k == [shelf EXCEPT ![via] = [shelf[via] EXCEPT ![name] = data]]
        <5>1. /\ k \in [Providers -> [Files -> Base]]
              /\ \A s \in Providers, f \in Files : k[s][f] \in {shelf[s][f], data}
          BY <2>1, <3>1, ShelfStep, Zenon
        <5>2. shelf' = k
          BY <4>2
        <5> HIDE DEF k
        <5> QED
          BY <5>1, <5>2
      <4> QED
        BY <3>2, <4>1, <4>2
    <3> QED
      BY <3>3 DEF data
<1>4. \A s \in Providers, f \in Files : Sane(shelf'[s][f])
  BY <1>1, <1>3 DEF CopiesAreSane
<1>5. temp' \in [Temps -> Base] /\ \A p \in Temps : temp'[p] \in {Cleaned(o)[p], NoBase}
  BY <1>1, <1>2, CleanedIsSane, EmptyIsSane
<1> QED
  BY <1>2, <1>3, <1>4, <1>5, GoneKeeps DEF BackupsTypeOK, CopiesAreSane

LEMMA CompareKeeps ==
  ASSUME RestoreInv, NEW o \in Goers, Compare(o)
  PROVE  RestoreInv'
BY ReturnKeeps DEF Compare, RestoreInv, BackupsTypeOK, CopiesAreSane

-----------------------------------------------------------------------------
(* Restoring.                                                              *)

LEMMA ReadStarts ==
  ASSUME RestoreInv, NEW o \in Goers, NEW f \in Files, NEW via \in Providers,
         NEW choice \in {"local", "remote"}, StartRead(o, f, via, choice)
  PROVE  RestoreInv'
<1> USE DEF RestoreInv
<1> DEFINE rec == [Bare EXCEPT !.pc = "download", !.via = via, !.file = f, !.choice = choice]
<1>1. rec \in Task /\ rec.pc = "download"
  BY BareIsTask DEF Task
<1>2. /\ Set(o, rec) /\ UNCHANGED <<base, held, shelf, temp, made, foreign>>
      /\ dirs' = dirs \cup Needed(o, via) /\ o \notin Downloaded
  BY DEF StartRead, Downloaded
<1>3. ops' \in 0..MaxBackupOps
  BY BackupsAssumption DEF StartRead, Counted, BackupsTypeOK
<1>4. dirs' \subseteq {"shared"} \cup Goers
  BY <1>2, NeededTyped DEF BackupsTypeOK
<1> HIDE DEF rec
<1>5. ReadsItsOwn'
  BY <1>1, <1>2, NobodyDisturbed
<1> QED
  BY <1>1, <1>2, <1>3, <1>4, <1>5, TempTyped, OneGoes DEF BackupsTypeOK, CopiesAreSane, Sane

\* What has been downloaded is what lay on the shelf.  A restore writes the
\* shared file or its own, a comparison neither.
LEMMA DownloadKeeps ==
  ASSUME RestoreInv, NEW o \in Goers, Download(o)
  PROVE  RestoreInv'
<1> USE DEF RestoreInv
<1> DEFINE data == shelf[task[o].via][task[o].file]
           step == IF o \in Restorers THEN "merge" ELSE "compare"
           rec  == [task[o] EXCEPT !.want = data, !.pc = step]
           path == ReadPath(o)
<1>1. /\ task[o] \in Task /\ task[o].file \in Files /\ task[o].via \in Providers
      /\ o \notin Downloaded /\ UNCHANGED <<base, held, shelf, made, foreign, ops>>
  BY TaskTyped DEF Download, Downloaded
<1>2. data \in Base /\ Sane(data)
  BY <1>1 DEF BackupsTypeOK, CopiesAreSane
<1>3. CASE Returns(o)
  BY <1>1, <1>3, ReturnKeeps DEF BackupsTypeOK, CopiesAreSane
<1>4. CASE ~Returns(o)
  <2>1. /\ Set(o, rec) /\ dirs' = dirs \cup Needed(o, task[o].via)
        /\ temp' = IF task[o].via = "local" THEN temp ELSE [temp EXCEPT ![path] = data]
    BY <1>4 DEF Download
  <2>2. /\ rec \in Task /\ rec.want = data /\ rec.via = task[o].via
        /\ rec.pc = step
    BY <1>1, <1>2 DEF Task
  <2>3. /\ path \in Temps /\ \A r \in Restorers \ {o} : path # r
        /\ path = "restore_temp.db" => o \in Restorers /\ task[o].via = "webdav"
        /\ task[o].via = "s3" => path = o
    <3>1. \/ task[o].via # "webdav" /\ path = o
          \/ o \in Restorers /\ task[o].via = "webdav" /\ path = "restore_temp.db"
          \/ task[o].via = "webdav" /\ path = "conflict_check_temp.db"
      BY DEF ReadPath, DownloadPath
    <3>2. "conflict_check_temp.db" \in Paths /\ "conflict_check_temp.db" # "restore_temp.db"
      BY DEF Paths
    <3> QED
      BY <3>1, <3>2, FilesApart
  <2>4. dirs' \subseteq {"shared"} \cup Goers
    BY <1>1, <2>1, NeededTyped DEF BackupsTypeOK
  <2> HIDE DEF rec, data, path
  <2>5. /\ temp' \in [Temps -> Base]
        /\ \A p \in Temps : temp'[p] = IF p = path /\ task[o].via # "local" THEN data ELSE temp[p]
    BY <1>2, <2>1, <2>3, TempTyped
  <2>6. \A p \in Temps : Sane(temp'[p])
    BY <1>2, <2>5 DEF CopiesAreSane
  <2>7. "restore_temp.db" \in Temps /\ Restorers \subseteq Temps
    BY FilesApart
  <2>8. ReadsItsOwn'
    <3>1. CASE task[o].via = "webdav" /\ path = "restore_temp.db"
      <4>1. task'[o] = rec /\ \A q \in Goers \ {o} : task'[q] = task[q]
        BY <2>1 DEF Set, BackupsTypeOK
      <4>2. ASSUME NEW r \in Restorers, task'[r].via = "s3", task'[r].pc = "merge"
            PROVE  temp'[r] \in {task'[r].want, NoBase}
        <5>1. r # o /\ r \in Goers
          BY <2>2, <3>1, <4>1, <4>2, FilesApart
        <5>2. temp'[r] = temp[r] /\ task'[r] = task[r]
          BY <2>3, <2>5, <2>7, <4>1, <5>1
        <5> QED
          BY <4>2, <5>2 DEF ReadsItsOwn
      <4>3. temp'["restore_temp.db"] = data
        BY <2>5, <2>7, <3>1
      <4>4. o \in Downloaded' /\ task'[o].want = data
        BY <2>2, <2>3, <3>1, <4>1 DEF Downloaded
      <4> QED
        BY <4>2, <4>3, <4>4 DEF ReadsItsOwn
    <3>2. CASE ~(task[o].via = "webdav" /\ path = "restore_temp.db")
      <4>1. temp'["restore_temp.db"] = temp["restore_temp.db"]
        BY <2>3, <2>5, <2>7, <3>2
      <4>2. \A r \in Restorers \ {o} : temp'[r] = temp[r]
        BY <2>3, <2>5, <2>7
      <4>3. o \in Restorers /\ rec.via = "s3" => temp'[o] = rec.want
        BY <2>2, <2>3, <2>5, <2>7
      <4> QED
        BY <1>1, <2>1, <2>2, <4>1, <4>2, <4>3, NobodyDisturbed
    <3> QED
      BY <3>1, <3>2
  <2> QED
    BY <1>1, <2>1, <2>2, <2>4, <2>5, <2>6, <2>8, OneGoes DEF BackupsTypeOK, CopiesAreSane, Sane
<1> QED
  BY <1>3, <1>4

LEMMA MergedIsSane ==
  ASSUME RestoreInv, NEW d \in Base, Sane(d), NEW choice
  PROVE  LET b == [eps |-> MergedEndpoints(d.eps, choice),
                   stats |-> MergedStats(d.stats, choice)]
         IN  b \in Base /\ Sane(b)
<1> USE DEF RestoreInv
<1> DEFINE s == MergedStats(d.stats, choice)
           h == MergedEndpoints(d.eps, choice)
<1>1. /\ d.eps \in [EndpointNames -> Values] /\ base.eps \in [EndpointNames -> Values]
      /\ d.stats.own \in Nat /\ d.stats.default \in Nat
      /\ base.stats \in [own : Nat, default : Nat]
      /\ base.stats.own \in Nat /\ base.stats.default \in Nat /\ made \in Nat /\ Sane(base)
  BY BaseStep DEF BackupsTypeOK, CopiesAreSane
<1>2. h \in [EndpointNames -> Values]
  BY <1>1 DEF MergedEndpoints
<1>3. Total(d.stats) \in Nat /\ Total(d.stats) = d.stats.own + d.stats.default
  BY <1>1 DEF Total
<1>4. s \in [own : Nat, default : Nat]
  BY <1>1, <1>3 DEF MergedStats
<1>5. ~foreign => s.default = 0 /\ s.own <= made
  BY <1>1, <1>3 DEF MergedStats, Sane
<1> HIDE DEF s, h
<1>6. [eps |-> h, stats |-> s] \in Base
  BY <1>2, <1>4 DEF Base
<1> QED
  BY <1>5, <1>6 DEF Sane, s, h

\* One transaction, from a file that is sane whoever wrote it.
LEMMA MergeKeeps ==
  ASSUME RestoreInv, NEW o \in Goers, Merge(o)
  PROVE  RestoreInv'
<1> USE DEF RestoreInv
<1> DEFINE data == Read(o)
           rec  == [task[o] EXCEPT !.pc = "load"]
<1>1. /\ task[o] \in Task /\ task[o].file \in Files /\ task[o].pc = "merge"
      /\ UNCHANGED <<held, shelf, made, foreign, ops>>
  BY TaskTyped DEF Merge
<1>2. data \in Base /\ Sane(data)
  <2>1. "local" \in Providers
    BY DEF Providers
  <2>2. ReadPath(o) \in Temps
    BY FilesApart DEF ReadPath, DownloadPath, Paths
  <2> QED
    BY <1>1, <2>1, <2>2, TempTyped DEF Read, BackupsTypeOK, CopiesAreSane
<1>3. CASE Returns(o) /\ UNCHANGED base
  BY <1>1, <1>3, ReturnKeeps DEF BackupsTypeOK, CopiesAreSane, Sane
<1>4. CASE ~(Returns(o) /\ UNCHANGED base)
  <2>1. /\ Set(o, rec) /\ UNCHANGED <<temp, dirs>>
        /\ base' = [eps |-> MergedEndpoints(data.eps, task[o].choice),
                    stats |-> MergedStats(data.stats, task[o].choice)]
    BY <1>4 DEF Merge, GoTo
  <2>2. base' \in Base /\ Sane(base')
    <3> HIDE DEF data
    <3> QED
      BY <1>2, <2>1, MergedIsSane
  <2>3. rec \in Task /\ rec.want = task[o].want /\ rec.via = task[o].via /\ rec.pc = "load"
    BY <1>1, TaskStep
  <2> HIDE DEF rec, data
  <2>4. ReadsItsOwn'
    BY <2>1, <2>3, NobodyDisturbed DEF Downloaded
  <2> QED
    BY <1>1, <2>1, <2>2, <2>3, <2>4, TempTyped, OneGoes DEF BackupsTypeOK, CopiesAreSane, Sane
<1> QED
  BY <1>3, <1>4

LEMMA LoadKeeps ==
  ASSUME RestoreInv, NEW o \in Goers, Load(o)
  PROVE  RestoreInv'
<1> USE DEF RestoreInv
<1> DEFINE rec == [task[o] EXCEPT !.pc = "replace", !.loaded = base.eps]
<1>1. task[o] \in Task /\ base.eps \in [EndpointNames -> Values]
  BY TaskTyped, BaseStep DEF BackupsTypeOK
<1>2. UNCHANGED <<base, held, shelf, made, foreign, ops>>
  BY DEF Load
<1>3. CASE Returns(o)
  BY <1>2, <1>3, ReturnKeeps DEF BackupsTypeOK, CopiesAreSane
<1>4. CASE ~Returns(o)
  <2>1. Set(o, rec) /\ UNCHANGED <<temp, dirs>>
    BY <1>4 DEF Load
  <2>2. rec \in Task /\ rec.want = task[o].want /\ rec.via = task[o].via /\ rec.pc = "replace"
    BY <1>1 DEF Task
  <2> HIDE DEF rec
  <2>3. ReadsItsOwn'
    BY <2>1, <2>2, NobodyDisturbed DEF Downloaded
  <2> QED
    BY <1>2, <2>1, <2>2, <2>3, TempTyped, OneGoes DEF BackupsTypeOK, CopiesAreSane, Sane
<1> QED
  BY <1>3, <1>4

LEMMA ReplaceConfigKeeps ==
  ASSUME RestoreInv, NEW o \in Goers, ReplaceConfig(o)
  PROVE  RestoreInv'
BY TaskTyped, ReturnKeeps DEF ReplaceConfig, RestoreInv, BackupsTypeOK, CopiesAreSane

-----------------------------------------------------------------------------

LEMMA InitRestore == BackupsInit => RestoreInv
<1> SUFFICES ASSUME BackupsInit PROVE RestoreInv
  OBVIOUS
<1>1. base = [eps |-> [a |-> "old"], stats |-> NoStats] /\ held = base.eps
  BY DEF BackupsInit
<1>2. [a |-> "old"] \in [EndpointNames -> Values]
  BY DEF EndpointNames, Values
<1>3. base \in Base /\ base.stats = NoStats /\ held \in [EndpointNames -> Values]
  BY <1>1, <1>2 DEF Base, NoStats
<1>4. Earlier \in Base /\ Earlier.stats = NoStats
  BY DEF Earlier, Base, NoStats, EndpointNames, Values
<1>5. /\ shelf = [s \in Providers |-> [f \in Files |-> Earlier]]
      /\ temp = [p \in Temps |-> NoBase] /\ dirs = {} /\ task = [o \in Goers |-> Bare]
      /\ foreign = FALSE /\ made = 0 /\ ops = 0
  BY DEF BackupsInit, Temps
<1>6. BackupsTypeOK
  <2>1. task \in [Goers -> Task]
    BY <1>5, BareIsTask
  <2>2. shelf \in [Providers -> [Files -> Base]] /\ temp \in [Temps -> Base]
    BY <1>4, <1>5, EmptyIsSane
  <2>3. made \in 0..MaxRequests /\ ops \in 0..MaxBackupOps
    BY <1>5, BackupsAssumption
  <2> QED
    BY <1>3, <1>5, <2>1, <2>2, <2>3 DEF BackupsTypeOK, Task, Temps
<1>7. CopiesAreSane
  BY <1>3, <1>4, <1>5, EmptyIsSane DEF CopiesAreSane, Sane, NoStats
<1>8. ReadsItsOwn
  <2>1. temp["restore_temp.db"] = NoBase
    BY <1>5, FilesApart
  <2>2. \A r \in Restorers : task[r].pc = "rest"
    BY <1>5, BareIsTask, FilesApart
  <2> QED
    BY <2>1, <2>2 DEF ReadsItsOwn
<1> QED
  BY <1>6, <1>7, <1>8 DEF RestoreInv

LEMMA NextRestore == RestoreInv /\ [BackupsNext]_backupVars => RestoreInv'
<1> SUFFICES ASSUME RestoreInv, [BackupsNext]_backupVars PROVE RestoreInv'
  OBVIOUS
<1>1. CASE UNCHANGED backupVars
  BY <1>1 DEF backupVars, RestoreInv, BackupsTypeOK, CopiesAreSane, Sane, ReadsItsOwn,
     Downloaded
<1>2. CASE BackupsNext /\ UNCHANGED task
  BY <1>2, MeanwhileKeeps, BackupStarts, CopyKeeps, UploadKeeps, CompareKeeps, ReadStarts,
     DownloadKeeps, MergeKeeps, LoadKeeps, ReplaceConfigKeeps DEF BackupsNext
<1>3. CASE BackupsNext /\ ~UNCHANGED task
  BY <1>3, BackupStarts, CopyKeeps, UploadKeeps, CompareKeeps, ReadStarts, DownloadKeeps,
     MergeKeeps, LoadKeeps, ReplaceConfigKeeps
     DEF BackupsNext, RecordDailyStat, DeleteStats, EditEndpoint, DeleteBackup
<1> QED
  BY <1>1, <1>2, <1>3

\* A restore merges the backup that was asked for or none, whatever removes the
\* directories for temporary files meanwhile; only restores over WebDAV that
\* overlap may read each other's.  And however often and in whatever order
\* backups are made and restored no request is counted twice, as long as none was
\* recorded under a foreign device id (RestoreFromWebDAV, mergeDailyStats).
THEOREM RestoresStayExact == BackupsSpec => []RestoresAreExact
<1>1. RestoreInv => RestoresAreExact
  <2> SUFFICES ASSUME RestoreInv PROVE RestoresAreExact
    OBVIOUS
  <2>1. base.stats.own \in Nat /\ Sane(base)
    BY BaseStep DEF RestoreInv, BackupsTypeOK, CopiesAreSane
  <2>2. ~foreign => Total(base.stats) <= made
    BY <2>1 DEF Sane, Total
  <2>3. ASSUME NEW r \in Restorers, task[r].pc = "merge", task[r].via # "local"
        PROVE  \/ Read(r) \in {task[r].want, NoBase}
               \/ r \in Downloaded /\ \E q \in Downloaded \ {r} : Read(r) = task[q].want
    <3>1. task[r].via \in {"webdav", "s3"}
      BY <2>3, FilesApart, TaskTyped DEF RestoreInv, Providers
    <3>2. CASE task[r].via = "s3"
      BY <2>3, <3>2 DEF RestoreInv, ReadsItsOwn, Read, ReadPath
    <3>3. CASE task[r].via = "webdav"
      <4>1. Read(r) = temp["restore_temp.db"] /\ r \in Downloaded
        BY <2>3, <3>3 DEF Read, ReadPath, DownloadPath, Downloaded
      <4> QED
        BY <4>1 DEF RestoreInv, ReadsItsOwn
    <3> QED
      BY <3>1, <3>2, <3>3
  <2> QED
    BY <2>2, <2>3 DEF RestoreInv, RestoresAreExact
<1> QED
  BY <1>1, InitRestore, NextRestore, PTL DEF BackupsSpec

-----------------------------------------------------------------------------
(* Edits of the endpoint list: types                                       *)

\* No two endpoints of a list, and no two rows, have one name.
Unique(s) == \A i, j \in DOMAIN s : s[i].name = s[j].name => i = j
RowsOK(rs) ==
  /\ rs \subseteq [name : Names, on : BOOLEAN, ok : BOOLEAN, pos : Nat \ {0}]
  /\ \A r, o \in rs : r.name = o.name => r = o

Places == {"rest", "publish", "apply", "save", "store", "clone", "replace", "write", "load"}
IsEdit(x) ==
  /\ x \in [pc : Places,
            op : {"none", "add", "remove", "toggle", "reorder", "update"},
            old : Names \cup {"none"}, new : Names \cup {"none"},
            keep : Names \cup {"none"}, list : Seq(Endpoint)]
  /\ Unique(x.list)

ListsTyped ==
  /\ conf \in [list : Seq(Endpoint), version : Nat] /\ Unique(conf.list)
  /\ shown \in [list : Seq(Endpoint), version : Nat] /\ Unique(shown.list)
  /\ at \in Nat
StoreTyped == RowsOK(rows) /\ pool \in [{"a", "b"} -> Names \cup {"gone"}]
EditsTyped == DOMAIN ed = Editors /\ \A e \in Editors : IsEdit(ed[e])
NotesTyped ==
  /\ told \in [want : Names \cup {"none"}, alone : BOOLEAN]
  /\ web \in BOOLEAN /\ left \in [edits : Nat, faults : Nat]
  /\ DOMAIN slow = Readers
  /\ \A r \in Readers : slow[r] # <<>> => slow[r][1] \in Seq(Endpoint) /\ Unique(slow[r][1])
ListTypes == ListsTyped /\ StoreTyped /\ EditsTyped /\ NotesTyped

-----------------------------------------------------------------------------
(* Edits of the endpoint list: the current endpoint                        *)

\* The name of the current endpoint, for a list and an index.
NameAt(s, i) == IF Enabled(s) = <<>> THEN "none" ELSE Enabled(s)[(i % Len(Enabled(s))) + 1].name

\* The snapshot filed under the present version is the present list.
Fresh == shown.version <= conf.version /\ (shown.version = conf.version => shown = conf)

FewOn(s) == Len(Enabled(s)) <= 1

\* The index points at n, or n is not there and it points at the first.
Settles(s, i, n) ==
  IF n \in NamesIn(Enabled(s)) THEN NameAt(s, i) = n
  ELSE Enabled(s) # <<>> => i % Len(Enabled(s)) = 0

\* An index is kept over a list without enabled endpoints only until the new
\* list is applied.
Reset == web /\ Enabled(conf.list) = <<>> /\ (\A e \in Editors : ed[e].pc # "apply") => at = 0

\* The names of an edit are names, and its list is about them until it is
\* loaded anew.
Described(x) ==
  /\ x.op = "update" => x.old \in Names /\ x.new \in Names
  /\ x.pc = "write" /\ x.op = "add" => x.list # <<>> /\ x.list[Len(x.list)].name = x.new
  /\ x.pc = "write" /\ x.op = "toggle" => x.old \in NamesIn(x.list)
  /\ x.pc \in {"write", "store"} /\ x.op = "update" => x.new \in NamesIn(x.list)

\* Where an edit may be.
Flow == \A e \in Editors :
  /\ ed[e].pc \in {"store", "clone"} => ~web /\ ed[e].op = "update"
  /\ ed[e].pc \in {"publish", "save"} => ~web /\ ed[e].op # "update"
  /\ ed[e].pc \in {"write", "load"} => web
  /\ ed[e].pc = "replace" => web \/ ed[e].op = "update"
  /\ ed[e].pc # "rest" => Described(ed[e])

BaseInv == ListTypes /\ Flow

\* What an edit x that nothing else gets in the way of finds at each of its
\* steps: c is the list in use, rs the rows and i the index; w: from the web.
OnItsWay(w, x, c, rs, i, want) ==
  /\ x.pc \in {"publish", "store", "clone", "load", "replace", "apply"} => x.keep = want
  /\ x.pc = "write" => IF x.op = "update" THEN x.keep = want ELSE NameAt(c, i) = want
  /\ x.pc \in {"publish", "store", "clone", "replace"} /\ want = "none" => FewOn(x.list) \/ i = 0
  /\ x.pc \in {"write", "load"} /\ want = "none" => i = 0
  /\ x.pc = "apply" /\ want = "none" => FewOn(c) \/ i = 0
  /\ x.pc = "replace" => x.list \in Loadings(rs)
  /\ x.pc = "apply" /\ (w \/ x.op = "update") => c \in Loadings(rs)
  /\ x.pc = "save" => Settles(c, i, want)

Settled == conf.list \in Loadings(rows) /\ Settles(conf.list, at, told.want)

AloneHolds ==
  told.alone =>
    /\ \A e, f \in Editors : ed[e].pc # "rest" /\ ed[f].pc # "rest" => e = f
    /\ \A e \in Editors : OnItsWay(web, ed[e], conf.list, rows, at, told.want)
    /\ Resting => Settled

ListInv == BaseInv /\ Fresh /\ Reset /\ AloneHolds

-----------------------------------------------------------------------------
(* Edits of the endpoint list: the credentials                             *)

RowNames(rs) == {r.name : r \in rs}
Origins == {"a", "b"}

\* p: the endpoint of the credentials added under a name; r, t: the removed
\* ones and whether a rename is torn.  All live at one of the names ns ...
Live(p, r, t, ns) ==
  \A o \in Origins : IF p[o] = "gone" THEN o \in r \/ t ELSE p[o] \in ns

\* ... or those that are still to lose do.
Held(p, r, t, ns) == \A o \in Origins : o \in r \/ t \/ p[o] = "gone" \/ p[o] \in ns

\* No rename is stored that the configuration does not know.
Known(x) == x.pc # "replace" /\ (x.pc = "clone" => x.old = x.new)

\* What the only edit x finds at each of its steps: ns are the names in the
\* configuration; w: from the web.
PoolsOnTheWay(w, x, p, r, t, ns) ==
  /\ ~w =>
       /\ Known(x) => Held(p, r, t, ns)
       /\ x.pc \in {"publish", "clone", "replace"} => Held(p, r, t, NamesIn(x.list))
       /\ x.pc = "store" => x.new \in NamesIn(x.list) /\ ns \ {x.old} \subseteq NamesIn(x.list)
  /\ x.pc = "write" /\ x.op = "remove" => \A o \in Origins : p[o] = x.old => o \in r

PoolsInv ==
  /\ BaseInv
  /\ Live(pool, removed, torn, RowNames(rows))
  /\ \A e \in Editors : PoolsOnTheWay(web, ed[e], pool, removed, torn, NamesIn(conf.list))
-----------------------------------------------------------------------------
(* Which endpoints are enabled                                             *)

\* f holds the enabled ones among each of the first n members of s.
OnUpto(s, n, f) ==
  f = [m \in 0..n |-> IF m = 0 THEN <<>>
                      ELSE IF s[m].on THEN Append(f[m - 1], s[m]) ELSE f[m - 1]]
OneOn(s, m, q) == IF s[m].on THEN Append(q, s[m]) ELSE q
OnFrom(s, n, f) == f[0] = <<>> /\ \A m \in 1..n : f[m] = OneOn(s, m, f[m - 1])

LEMMA OnSteps ==
  ASSUME NEW s, NEW n \in Nat, NEW f
  PROVE  OnUpto(s, n, f) <=> f = [m \in 0..n |-> f[m]] /\ OnFrom(s, n, f)
<1> DEFINE step(m) == IF m = 0 THEN <<>>
                      ELSE IF s[m].on THEN Append(f[m - 1], s[m]) ELSE f[m - 1]
<1>1. OnUpto(s, n, f) <=> f = [m \in 0..n |-> step(m)]
  BY DEF OnUpto
<1>2. step(0) = <<>> /\ 0 \in 0..n
  OBVIOUS
<1>3. \A m \in 1..n : m \in 0..n /\ step(m) = OneOn(s, m, f[m - 1])
  BY DEF OneOn
<1>4. \A m \in 0..n : m = 0 \/ m \in 1..n
  OBVIOUS
<1> HIDE DEF step
<1>5. f = [m \in 0..n |-> step(m)] <=> f = [m \in 0..n |-> f[m]] /\ \A m \in 0..n : f[m] = step(m)
  OBVIOUS
<1> QED
  BY <1>1, <1>2, <1>3, <1>4, <1>5 DEF OnFrom

LEMMA OnExists ==
  ASSUME NEW s, NEW len \in Nat
  PROVE  \E f : OnUpto(s, len, f)
<1> DEFINE G == {n \in Nat : \E f : OnUpto(s, n, f)}
<1>1. 0 \in G
  <2>1. OnUpto(s, 0, [m \in 0..0 |-> <<>>])
    BY DEF OnUpto
  <2> QED
    BY <2>1
<1>2. ASSUME NEW n \in 1..len, n - 1 \in G PROVE n \in G
  <2>1. PICK k \in Nat : k = n - 1
    OBVIOUS
  <2>2. PICK g : OnUpto(s, k, g)
    BY <1>2, <2>1
  <2>3. OnFrom(s, k, g)
    BY <2>2, OnSteps
  <2> DEFINE f == [m \in 0..n |-> IF m < n THEN g[m] ELSE OneOn(s, n, g[n - 1])]
  <2>4. f[0] = <<>>
    BY <2>3 DEF OnFrom
  <2>5. \A m \in 1..n : f[m] = OneOn(s, m, f[m - 1])
    BY <2>1, <2>3 DEF OnFrom
  <2>6. f = [m \in 0..n |-> f[m]] /\ n \in Nat
    OBVIOUS
  <2> HIDE DEF f
  <2>7. OnUpto(s, n, f)
    BY <2>4, <2>5, <2>6, OnSteps DEF OnFrom
  <2> QED
    BY <2>6, <2>7
<1> HIDE DEF G
<1>3. len \in G
  BY <1>1, <1>2, Induction
<1> QED
  BY <1>3 DEF G

LEMMA EnabledIs ==
  ASSUME NEW s \in Seq(Endpoint)
  PROVE  \E f : OnFrom(s, Len(s), f) /\ Enabled(s) = f[Len(s)]
<1> DEFINE f == CHOOSE f : OnUpto(s, Len(s), f)
<1>1. OnUpto(s, Len(s), f)
  BY OnExists
<1>2. Enabled(s) = f[Len(s)]
  BY DEF Enabled, OnUpto
<1>3. Len(s) \in Nat
  OBVIOUS
<1> HIDE DEF f
<1>4. OnFrom(s, Len(s), f)
  BY <1>1, <1>3, OnSteps
<1> QED
  BY <1>2, <1>4

\* There are none if none is on, and one at most if one at most is on.
LEMMA EnabledTyped ==
  ASSUME NEW s \in Seq(Endpoint)
  PROVE  /\ Enabled(s) \in Seq(Endpoint)
         /\ Enabled(s) = <<>> => \A i \in DOMAIN s : ~s[i].on
         /\ (\A i, j \in DOMAIN s : s[i].on /\ s[j].on => i = j) => Len(Enabled(s)) <= 1
<1>1. PICK f : OnFrom(s, Len(s), f) /\ Enabled(s) = f[Len(s)]
  BY EnabledIs
<1> DEFINE few == \A i, j \in 1..Len(s) : s[i].on /\ s[j].on => i = j
           G == {m \in 0..Len(s) :
                   /\ f[m] \in Seq(Endpoint)
                   /\ f[m] = <<>> <=> \A i \in 1..m : ~s[i].on
                   /\ few => Len(f[m]) <= 1}
<1>2. Len(s) \in Nat /\ DOMAIN s = 1..Len(s) /\ \A m \in 1..Len(s) : s[m] \in Endpoint
  OBVIOUS
<1>3. <<>> \in Seq(Endpoint) /\ Len(<<>>) = 0
  OBVIOUS
<1>4. \A q \in Seq(Endpoint), x \in Endpoint :
        Append(q, x) \in Seq(Endpoint) /\ Append(q, x) # <<>> /\ Len(Append(q, x)) = Len(q) + 1
  OBVIOUS
<1>5. 0 \in G
  <2>1. f[0] = <<>> /\ 0 \in 0..Len(s) /\ 1..0 = {} /\ 0 <= 1
    BY <1>1, <1>2 DEF OnFrom
  <2> QED
    BY <2>1, <1>3
<1>6. ASSUME NEW m \in 1..Len(s), m - 1 \in G PROVE m \in G
  <2>1. PICK q \in Seq(Endpoint) : q = f[m - 1]
    BY <1>6
  <2>2. /\ q = <<>> <=> \A i \in 1..m - 1 : ~s[i].on
        /\ few => Len(q) <= 1
    BY <1>6, <2>1
  <2>3. f[m] = OneOn(s, m, q) /\ m \in 0..Len(s) /\ s[m] \in Endpoint
    BY <1>1, <1>2, <2>1 DEF OnFrom
  <2>4. \A i \in 1..m : i = m \/ i \in 1..m - 1
    BY <1>2
  <2>5. m \in 1..m /\ \A i \in 1..m - 1 : i \in 1..m /\ i \in 1..Len(s) /\ i # m
    BY <1>2
  <2>6. CASE s[m].on
    <3>1. f[m] = Append(q, s[m])
      BY <2>3, <2>6 DEF OneOn
    <3>2. few => q = <<>>
      BY <2>2, <2>5, <2>6
    <3> HIDE DEF few
    <3>3. few => Len(f[m]) <= 1
      <4> SUFFICES ASSUME few PROVE Len(f[m]) <= 1
        OBVIOUS
      <4>1. f[m] = Append(<<>>, s[m])
        BY <3>1, <3>2
      <4>2. Len(f[m]) = 0 + 1
        BY <4>1, <1>3, <1>4, <2>3
      <4> QED
        BY <4>2
    <3> QED
      BY <3>1, <3>3, <2>3, <2>5, <2>6, <1>4
  <2>7. CASE ~s[m].on
    BY <2>1, <2>2, <2>3, <2>4, <2>5, <2>7 DEF OneOn
  <2> QED
    BY <2>6, <2>7
<1> HIDE DEF G
<1>7. Len(s) \in G
  <2>1. Len(s) \in Nat /\ Len(s) \in 0..Len(s)
    BY <1>2
  <2>2. \A m \in 0..Len(s) : m \in G
    BY <2>1, <1>5, <1>6, Induction
  <2> QED
    BY <2>1, <2>2
<1>8. /\ f[Len(s)] \in Seq(Endpoint)
      /\ f[Len(s)] = <<>> <=> \A i \in 1..Len(s) : ~s[i].on
      /\ few => Len(f[Len(s)]) <= 1
  BY <1>7 DEF G
<1> QED
  BY <1>1, <1>2, <1>8

\* Enabled endpoints have different names if all have.
LEMMA EnabledUnique ==
  ASSUME NEW s \in Seq(Endpoint), Unique(s)
  PROVE  Unique(Enabled(s))
<1>1. PICK f : OnFrom(s, Len(s), f) /\ Enabled(s) = f[Len(s)]
  BY EnabledIs
<1> DEFINE From(q, m) == \A j \in 1..Len(q) : \E i \in 1..m : q[j] = s[i]
           G == {m \in 0..Len(s) : f[m] \in Seq(Endpoint) /\ From(f[m], m) /\ Unique(f[m])}
<1>2. Len(s) \in Nat /\ DOMAIN s = 1..Len(s) /\ \A m \in 1..Len(s) : s[m] \in Endpoint
  OBVIOUS
<1>3. <<>> \in Seq(Endpoint) /\ From(<<>>, 0) /\ Unique(<<>>)
  BY DEF Unique
<1>4. \A q \in Seq(Endpoint), x \in Endpoint :
        /\ Append(q, x) \in Seq(Endpoint) /\ Len(Append(q, x)) = Len(q) + 1 /\ Len(q) \in Nat
        /\ Append(q, x)[Len(q) + 1] = x /\ \A j \in 1..Len(q) : Append(q, x)[j] = q[j]
  OBVIOUS
<1>5. 0 \in G
  <2>1. f[0] = <<>> /\ 0 \in 0..Len(s)
    BY <1>1, <1>2 DEF OnFrom
  <2> HIDE DEF From
  <2> QED
    BY <2>1, <1>3
<1>6. ASSUME NEW m \in 1..Len(s), m - 1 \in G PROVE m \in G
  <2>1. PICK q \in Seq(Endpoint) : q = f[m - 1] /\ From(q, m - 1) /\ Unique(q)
    BY <1>6
  <2>2. f[m] = OneOn(s, m, q) /\ m \in 0..Len(s) /\ s[m] \in Endpoint
    BY <1>1, <1>2, <2>1 DEF OnFrom
  <2>3. \A i \in 1..m - 1 : i \in 1..m /\ i \in 1..Len(s) /\ i # m
    BY <1>2
  <2>4. CASE ~s[m].on
    <3>1. f[m] = q /\ From(q, m)
      BY <2>1, <2>2, <2>3, <2>4 DEF OneOn
    <3> HIDE DEF From
    <3> QED
      BY <2>1, <2>2, <3>1
  <2>5. CASE s[m].on
    <3>1. f[m] = Append(q, s[m])
      BY <2>2, <2>5 DEF OneOn
    <3> DEFINE t == f[m]
    <3>2. /\ t \in Seq(Endpoint) /\ Len(t) = Len(q) + 1 /\ Len(q) \in Nat /\ DOMAIN t = 1..Len(q) + 1
          /\ t[Len(q) + 1] = s[m] /\ \A j \in 1..Len(q) : t[j] = q[j]
      <4>1. s[m] \in Endpoint
        BY <2>2
      <4>2. /\ t \in Seq(Endpoint) /\ Len(t) = Len(q) + 1 /\ Len(q) \in Nat
            /\ t[Len(q) + 1] = s[m] /\ \A j \in 1..Len(q) : t[j] = q[j]
        BY <3>1, <1>4, <4>1
      <4> HIDE DEF t
      <4>3. DOMAIN t = 1..Len(q) + 1
        BY <4>2
      <4> QED
        BY <4>2, <4>3
    <3> HIDE DEF t
    <3>3. \A j \in 1..Len(q) + 1 : j = Len(q) + 1 \/ j \in 1..Len(q)
      BY <3>2
    <3>4. m \in 1..m
      BY <1>2
    <3>5. \A j \in 1..Len(q) : t[j].name # s[m].name
      <4> TAKE j \in 1..Len(q)
      <4>1. PICK i \in 1..m - 1 : q[j] = s[i]
        BY <2>1
      <4>2. i \in DOMAIN s /\ m \in DOMAIN s /\ i # m
        BY <1>2, <2>3
      <4> QED
        BY <3>2, <4>1, <4>2 DEF Unique
    <3>6. From(t, m)
      BY <2>1, <2>3, <3>2, <3>3, <3>4
    <3>7. Unique(t)
      <4>1. DOMAIN q = 1..Len(q)
        BY <2>1
      <4> SUFFICES ASSUME NEW i \in 1..Len(q) + 1, NEW j \in 1..Len(q) + 1, t[i].name = t[j].name
                   PROVE  i = j
        BY <3>2 DEF Unique
      <4>2. CASE i \in 1..Len(q) /\ j \in 1..Len(q)
        BY <2>1, <3>2, <4>1, <4>2 DEF Unique
      <4>3. CASE i = Len(q) + 1 /\ j \in 1..Len(q)
        BY <3>2, <3>5, <4>3
      <4>4. CASE i \in 1..Len(q) /\ j = Len(q) + 1
        BY <3>2, <3>5, <4>4
      <4> QED
        BY <3>3, <4>2, <4>3, <4>4
    <3> HIDE DEF From
    <3>8. f[m] \in Seq(Endpoint) /\ From(f[m], m) /\ Unique(f[m])
      BY <3>2, <3>6, <3>7 DEF t
    <3> QED
      BY <2>2, <3>8
  <2> QED
    BY <2>4, <2>5
<1> HIDE DEF G
<1>7. \A m \in 0..Len(s) : m \in G
  BY <1>2, <1>5, <1>6, Induction
<1>8. Len(s) \in 0..Len(s)
  BY <1>2
<1> QED
  BY <1>1, <1>7, <1>8 DEF G

-----------------------------------------------------------------------------
(* What is loaded and what is saved                                        *)


LEMMA RowsFinite ==
  ASSUME NEW rs, RowsOK(rs)
  PROVE  IsFiniteSet(rs)
<1> DEFINE f == [r \in rs |-> r.name]
<1>1. f \in [rs -> Names] /\ \A r, o \in rs : f[r] = f[o] => r = o
  BY DEF RowsOK
<1>2. f \in Injection(rs, Names)
  BY <1>1 DEF Injection, IsInjective
<1>3. IsFiniteSet({"a"} \cup {"b"} \cup {Spare})
  BY FS_Singleton, FS_Union
<1>4. Names = {"a"} \cup {"b"} \cup {Spare}
  BY DEF Names
<1> QED
  BY <1>2, <1>3, <1>4, FS_Injection

\* A list that is loaded has each row once, and nothing else.
LEMMA LoadingIs ==
  ASSUME NEW rs, RowsOK(rs), NEW s \in Loadings(rs)
  PROVE  s \in Seq(Endpoint) /\ Unique(s) /\ NamesIn(s) = RowNames(rs)
<1> DEFINE n == Cardinality(rs)
<1>1. IsFiniteSet(rs) /\ n \in Nat
  BY RowsFinite, FS_CardinalityType
<1>2. PICK f \in [1..n -> rs] :
        /\ \A i, j \in 1..n : i # j => f[i] # f[j]
        /\ s = [i \in DOMAIN f |-> [name |-> f[i].name, on |-> f[i].on, ok |-> f[i].ok]]
  BY Zenon DEF Loadings, SetToSeqs
<1>3. IsFiniteSet(1..n) /\ Cardinality(1..n) = n
  BY <1>1, FS_Interval
<1>4. f \in Injection(1..n, rs)
  BY <1>2 DEF Injection, IsInjective
<1>5. f \in Surjection(1..n, rs)
  BY <1>1, <1>3, <1>4, FS_Injection
<1>6. \A r \in rs : \E i \in 1..n : f[i] = r
  BY <1>5 DEF Surjection
<1> HIDE DEF n
<1>7. DOMAIN s = 1..n /\ \A i \in 1..n : s[i] = [name |-> f[i].name, on |-> f[i].on, ok |-> f[i].ok]
  BY <1>2
<1>8. \A i \in 1..n : f[i] \in rs
  BY <1>2
<1>9. \A r \in rs : r.name \in Names /\ r.on \in BOOLEAN /\ r.ok \in BOOLEAN
  BY DEF RowsOK
<1>10. \A i \in 1..n : s[i] \in Endpoint /\ s[i].name = f[i].name
  BY <1>7, <1>8, <1>9 DEF Endpoint
<1>11. s \in Seq(Endpoint)
  <2>1. s = [i \in 1..n |-> s[i]]
    BY <1>2, <1>7
  <2> QED
    BY <1>1, <1>10, <2>1
<1>12. Unique(s)
  BY <1>2, <1>7, <1>8, <1>10 DEF Unique, RowsOK
<1>13. NamesIn(s) = RowNames(rs)
  <2>1. NamesIn(s) = {f[i].name : i \in 1..n}
    BY <1>7, <1>10 DEF NamesIn
  <2> QED
    BY <2>1, <1>6, <1>8 DEF RowNames
<1> QED
  BY <1>11, <1>12, <1>13

\* What is saved whole is loaded again.
SavedRows(s, k) == {RowOf(s, i) : i \in 1..k}

LEMMA SavedLoads ==
  ASSUME NEW s \in Seq(Endpoint), Unique(s)
  PROVE  s \in Loadings(SavedRows(s, Len(s)))
<1> DEFINE n == Len(s)
           g == [i \in 1..n |-> RowOf(s, i)]
           R == SavedRows(s, n)
<1>1. n \in Nat /\ DOMAIN s = 1..n /\ s = [i \in 1..n |-> s[i]] /\ \A i \in 1..n : s[i] \in Endpoint
  OBVIOUS
<1>2. \A i \in 1..n : g[i] = RowOf(s, i) /\ g[i].pos = i /\ g[i].name = s[i].name
                      /\ g[i].on = s[i].on /\ g[i].ok = s[i].ok
  BY DEF RowOf
<1>3. g \in [1..n -> R] /\ \A i, j \in 1..n : g[i] = g[j] => i = j
  BY <1>2 DEF SavedRows
<1>4. g \in Injection(1..n, R) /\ g \in Surjection(1..n, R)
  <2>1. \A r \in R : \E i \in 1..n : g[i] = r
    BY <1>2 DEF SavedRows
  <2> QED
    BY <1>3, <2>1 DEF Injection, IsInjective, Surjection
<1>5. ExistsBijection(1..n, R)
  BY <1>4 DEF ExistsBijection, Bijection
<1>6. IsFiniteSet(1..n) /\ Cardinality(1..n) = n
  BY <1>1, FS_Interval
<1>7. Cardinality(R) = n
  BY <1>5, <1>6, FS_Bijection
<1>8. g \in SetToSeqs(R)
  BY <1>3, <1>7 DEF SetToSeqs
<1>9. \A i, j \in DOMAIN g : i < j => g[i].pos <= g[j].pos
  BY <1>2
<1>10. s = [i \in DOMAIN g |-> [name |-> g[i].name, on |-> g[i].on, ok |-> g[i].ok]]
  <2>1. \A i \in 1..n : s[i] = [name |-> s[i].name, on |-> s[i].on, ok |-> s[i].ok]
    BY <1>1 DEF Endpoint
  <2>2. DOMAIN g = 1..n
    OBVIOUS
  <2> HIDE DEF g, n
  <2> QED
    BY <1>1, <1>2, <2>1, <2>2
<1> HIDE DEF g, n, R
<1>11. s \in Loadings(R)
  BY <1>8, <1>9, <1>10, Zenon DEF Loadings
<1> QED
  BY <1>11 DEF R, n

-----------------------------------------------------------------------------
(* Names and places                                                        *)

LEMMA IndexTyped ==
  ASSUME NEW s \in Seq(Endpoint), NEW n
  PROVE  /\ IndexIn(s, n) \in Nat
         /\ n \in NamesIn(s) => IndexIn(s, n) < Len(s) /\ s[IndexIn(s, n) + 1].name = n
         /\ n \notin NamesIn(s) => IndexIn(s, n) = 0
<1>1. CASE n \in NamesIn(s)
  <2> DEFINE i == CHOOSE i \in DOMAIN s : s[i].name = n
  <2>1. \E j \in DOMAIN s : s[j].name = n
    BY <1>1 DEF NamesIn
  <2>2. i \in DOMAIN s /\ s[i].name = n
    BY <2>1
  <2>3. IndexIn(s, n) = i - 1
    BY <1>1 DEF IndexIn
  <2> HIDE DEF i
  <2>4. i \in 1..Len(s) /\ Len(s) \in Nat
    BY <2>2
  <2>5. (i - 1) + 1 = i /\ i - 1 \in Nat /\ i - 1 < Len(s)
    BY <2>4
  <2> QED
    BY <1>1, <2>2, <2>3, <2>5
<1>2. CASE n \notin NamesIn(s)
  BY <1>2 DEF IndexIn
<1> QED
  BY <1>1, <1>2

LEMMA RestOf ==
  ASSUME NEW i \in Nat, NEW n \in Nat \ {0}
  PROVE  i % n \in 0..n - 1 /\ (i < n => i % n = i)
OBVIOUS

LEMMA PlaceIn ==
  ASSUME NEW q \in Seq(Endpoint), q # <<>>, NEW i \in Nat
  PROVE  (i % Len(q)) + 1 \in 1..Len(q) /\ q[(i % Len(q)) + 1] \in Endpoint
         /\ (i < Len(q) => i % Len(q) = i) /\ i % Len(q) \in Nat
<1>1. Len(q) \in Nat \ {0}
  OBVIOUS
<1>2. PICK m \in 0..Len(q) - 1 : m = i % Len(q)
  BY <1>1, RestOf
<1>3. m + 1 \in 1..Len(q)
  BY <1>1, <1>2
<1>4. q[m + 1] \in Endpoint
  BY <1>3
<1>5. i < Len(q) => i % Len(q) = i
  BY <1>1, RestOf
<1> QED
  BY <1>2, <1>3, <1>4, <1>5

LEMMA NameAtTyped ==
  ASSUME NEW s \in Seq(Endpoint), NEW i \in Nat
  PROVE  /\ NameAt(s, i) \in Names \cup {"none"}
         /\ NameAt(s, i) = "none" <=> Enabled(s) = <<>>
         /\ NameAt(s, i) # "none" => NameAt(s, i) \in NamesIn(Enabled(s))
<1>1. Enabled(s) \in Seq(Endpoint) /\ "none" \notin Names
  BY EnabledTyped, ListAssumption DEF Names
<1>2. CASE Enabled(s) = <<>>
  BY <1>2 DEF NameAt
<1>3. CASE Enabled(s) # <<>>
  <2>1. PICK m \in 1..Len(Enabled(s)) : m = (i % Len(Enabled(s))) + 1 /\ Enabled(s)[m] \in Endpoint
    BY <1>1, <1>3, PlaceIn
  <2>2. NameAt(s, i) = Enabled(s)[m].name
    BY <1>3, <2>1 DEF NameAt
  <2>3. Enabled(s)[m].name \in Names
    BY <2>1 DEF Endpoint
  <2>4. m \in DOMAIN Enabled(s)
    BY <1>1, <2>1
  <2>5. Enabled(s)[m].name \in NamesIn(Enabled(s))
    BY <2>4 DEF NamesIn
  <2> QED
    BY <1>1, <1>3, <2>2, <2>3, <2>5
<1> QED
  BY <1>2, <1>3

\* An index taken of a name points at it, or at the first endpoint.
LEMMA IndexSettles ==
  ASSUME NEW s \in Seq(Endpoint), NEW n
  PROVE  Settles(s, IndexIn(Enabled(s), n), n)
<1> DEFINE q == Enabled(s)
           i == IndexIn(q, n)
<1>1. q \in Seq(Endpoint)
  BY EnabledTyped
<1>2. /\ i \in Nat
      /\ n \in NamesIn(q) => i < Len(q) /\ q[i + 1].name = n
      /\ n \notin NamesIn(q) => i = 0
  BY <1>1, IndexTyped
<1>3. q = <<>> => n \notin NamesIn(q)
  BY DEF NamesIn
<1>4. q # <<>> => 0 < Len(q)
  BY <1>1
<1>5. q # <<>> /\ i < Len(q) => i % Len(q) = i
  BY <1>1, <1>2, PlaceIn
<1> HIDE DEF i, q
<1>6. /\ n \in NamesIn(q) => q[(i % Len(q)) + 1].name = n
      /\ n \notin NamesIn(q) /\ q # <<>> => i % Len(q) = 0
  BY <1>2, <1>3, <1>4, <1>5
<1> QED
  BY <1>3, <1>6 DEF Settles, NameAt, i, q

-----------------------------------------------------------------------------
(* What an edit makes of its copy                                          *)

\* t is s with some members moved, renamed or switched: at[j] is where the
\* j-th of t comes from.
AllOff(s) == \A i \in DOMAIN s : ~s[i].on
FewAreOn(s) == \A i, j \in DOMAIN s : s[i].on /\ s[j].on => i = j

LEMMA FewAreFew ==
  ASSUME NEW s \in Seq(Endpoint), FewAreOn(s)
  PROVE  FewOn(s)
BY EnabledTyped DEF FewAreOn, FewOn

\* What is known of a change c of the list s.
GoodChange(c, s) ==
  /\ c.op \in {"add", "remove", "toggle", "reorder", "update"}
  /\ c.old \in Names \cup {"none"} /\ c.new \in Names \cup {"none"}
  /\ c.list \in Seq(Endpoint) /\ Unique(c.list)
  /\ AllOff(s) => FewAreOn(c.list)
  /\ c.op = "update" => c.old \in Names /\ c.new \in NamesIn(c.list) /\ c.new \in Names
  /\ c.op = "add" => c.list # <<>> /\ c.list[Len(c.list)].name = c.new
  /\ c.op = "toggle" => c.old \in NamesIn(c.list)
  /\ c.op \notin {"update", "remove"} => NamesIn(s) \subseteq NamesIn(c.list)
  /\ c.op \in {"update", "remove"} => NamesIn(s) \ {c.old} \subseteq NamesIn(c.list)

LEMMA AddIsChange ==
  ASSUME NEW s \in Seq(Endpoint), Unique(s), NEW c \in Adds(s)
  PROVE  GoodChange(c, s)
<1>1. PICK p \in Endpoint : p.name \notin NamesIn(s) /\ c = Change("add", "none", p.name, Append(s, p))
  BY DEF Adds
<1> DEFINE n == p.name
           t == Append(s, p)
<1>2. p \in Endpoint /\ p.name = n /\ n \in Names
  BY DEF Endpoint
<1>3. c.op = "add" /\ c.old = "none" /\ c.new = n /\ c.list = t
  BY <1>1 DEF Change
<1>4. /\ t \in Seq(Endpoint) /\ Len(t) = Len(s) + 1 /\ t[Len(s) + 1] = p
      /\ \A i \in 1..Len(s) : t[i] = s[i]
      /\ Len(s) \in Nat /\ DOMAIN s = 1..Len(s) /\ DOMAIN t = 1..Len(s) + 1
  BY <1>2
<1> HIDE DEF t
<1>5. \A i \in DOMAIN t : i = Len(s) + 1 \/ i \in DOMAIN s
  BY <1>4
<1>6. \A i \in DOMAIN s : i \in DOMAIN t /\ s[i].name # n /\ t[i] = s[i]
  BY <1>1, <1>4 DEF NamesIn
<1>7. Unique(t)
  BY <1>2, <1>4, <1>5, <1>6 DEF Unique
<1>8. AllOff(s) => FewAreOn(t)
  BY <1>5, <1>6 DEF AllOff, FewAreOn
<1>9. NamesIn(s) \subseteq NamesIn(t)
  BY <1>6 DEF NamesIn
<1>10. t # <<>> /\ t[Len(t)].name = n
  BY <1>2, <1>4
<1> HIDE DEF n
<1> QED
  BY <1>2, <1>3, <1>4, <1>7, <1>8, <1>9, <1>10 DEF GoodChange

LEMMA RemovedAt ==
  ASSUME NEW s \in Seq(Endpoint), NEW i \in 1..Len(s)
  PROVE  /\ RemoveAt(s, i) \in Seq(Endpoint)
         /\ Len(RemoveAt(s, i)) = Len(s) - 1
         /\ \A j \in 1..Len(s) - 1 : RemoveAt(s, i)[j] = s[IF j < i THEN j ELSE j + 1]
<1> DEFINE p == SubSeq(s, 1, i - 1)
           q == SubSeq(s, i + 1, Len(s))
<1>1. p \in Seq(Endpoint) /\ Len(p) = i - 1 /\ \A j \in 1..i - 1 : p[j] = s[j]
  OBVIOUS
<1>2. q \in Seq(Endpoint) /\ Len(q) = Len(s) - i /\ \A j \in 1..Len(s) - i : q[j] = s[i + j]
  OBVIOUS
<1>3. RemoveAt(s, i) = p \o q /\ Len(s) \in Nat
  BY DEF RemoveAt
<1> HIDE DEF p, q
<1>4. p \o q \in Seq(Endpoint) /\ Len(p \o q) = Len(p) + Len(q)
      /\ \A j \in 1..Len(p) + Len(q) : (p \o q)[j] = IF j <= Len(p) THEN p[j] ELSE q[j - Len(p)]
  BY <1>1, <1>2, ConcatProperties
<1>5. ASSUME NEW j \in 1..Len(s) - 1
      PROVE  (p \o q)[j] = s[IF j < i THEN j ELSE j + 1]
  <2>1. CASE j < i
    <3>1. j \in 1..Len(p) + Len(q) /\ j <= Len(p) /\ j \in 1..i - 1
      BY <1>1, <1>2, <1>3, <2>1
    <3> QED
      BY <1>1, <1>4, <2>1, <3>1
  <2>2. CASE ~(j < i)
    <3>1. PICK k \in 1..Len(s) - i : k = j - Len(p) /\ i + k = j + 1
      BY <1>1, <1>3, <2>2
    <3>2. j \in 1..Len(p) + Len(q) /\ ~(j <= Len(p))
      BY <1>1, <1>2, <1>3, <2>2
    <3>3. (p \o q)[j] = q[k]
      BY <1>4, <3>1, <3>2
    <3> QED
      BY <1>2, <2>2, <3>1, <3>3
  <2> QED
    BY <2>1, <2>2
<1> QED
  BY <1>1, <1>2, <1>3, <1>4, <1>5

LEMMA RemoveIsChange ==
  ASSUME NEW s \in Seq(Endpoint), Unique(s), NEW c \in Removes(s)
  PROVE  GoodChange(c, s)
<1>1. PICK i \in DOMAIN s : c = Change("remove", s[i].name, "none", RemoveAt(s, i))
  BY DEF Removes
<1> DEFINE t == RemoveAt(s, i)
<1>2. c.op = "remove" /\ c.old = s[i].name /\ c.new = "none" /\ c.list = t
  BY <1>1 DEF Change
<1>3. Len(s) \in Nat /\ DOMAIN s = 1..Len(s) /\ s[i] \in Endpoint
  OBVIOUS
<1>4. /\ t \in Seq(Endpoint) /\ Len(t) = Len(s) - 1
      /\ \A j \in 1..Len(s) - 1 : t[j] = s[IF j < i THEN j ELSE j + 1]
  BY <1>3, RemovedAt
<1> HIDE DEF t
<1>5. DOMAIN t = 1..Len(s) - 1
  BY <1>4
<1> DEFINE from(j) == IF j < i THEN j ELSE j + 1
<1>6. \A j \in DOMAIN t : t[j] = s[from(j)] /\ from(j) \in DOMAIN s
  BY <1>3, <1>4, <1>5
<1>7. \A j, k \in DOMAIN t : from(j) = from(k) => j = k
  BY <1>3, <1>5
<1>8. \A k \in DOMAIN s : k = i \/ \E j \in DOMAIN t : from(j) = k
  <2> TAKE k \in DOMAIN s
  <2>1. CASE k < i
    <3>1. k \in DOMAIN t /\ from(k) = k
      BY <1>3, <1>5, <2>1
    <3> QED
      BY <3>1
  <2>2. CASE k > i
    <3>1. k - 1 \in DOMAIN t /\ from(k - 1) = k
      BY <1>3, <1>5, <2>2
    <3> QED
      BY <3>1
  <2> QED
    BY <1>3, <2>1, <2>2
<1> HIDE DEF from
<1>9. Unique(t)
  BY <1>6, <1>7 DEF Unique
<1>10. AllOff(s) => FewAreOn(t)
  BY <1>6 DEF AllOff, FewAreOn
<1>11. NamesIn(s) \ {s[i].name} \subseteq NamesIn(t)
  BY <1>6, <1>8 DEF NamesIn
<1>12. s[i].name \in Names
  BY <1>3 DEF Endpoint
<1> QED
  BY <1>2, <1>4, <1>9, <1>10, <1>11, <1>12 DEF GoodChange

LEMMA ToggleIsChange ==
  ASSUME NEW s \in Seq(Endpoint), Unique(s), NEW c \in Toggles(s)
  PROVE  GoodChange(c, s)
<1>1. PICK i \in DOMAIN s : \E b \in BOOLEAN :
        c = Change("toggle", s[i].name, "none", [s EXCEPT ![i].on = b])
  BY DEF Toggles
<1> PICK b \in BOOLEAN : c = Change("toggle", s[i].name, "none", [s EXCEPT ![i].on = b])
  BY <1>1
<1> DEFINE p == [s[i] EXCEPT !.on = b]
           t == [s EXCEPT ![i].on = b]
<1>2. c.op = "toggle" /\ c.old = s[i].name /\ c.new = "none" /\ c.list = t
  BY <1>1 DEF Change
<1>3. Len(s) \in Nat /\ DOMAIN s = 1..Len(s) /\ \A j \in 1..Len(s) : s[j] \in Endpoint
  OBVIOUS
<1>4. p \in Endpoint /\ p.name = s[i].name /\ s[i].name \in Names
  BY <1>3 DEF Endpoint
<1>5. t = [j \in 1..Len(s) |-> IF j = i THEN p ELSE s[j]]
  BY <1>3
<1> HIDE DEF p, t
<1>6. DOMAIN t = DOMAIN s /\ \A j \in DOMAIN s : t[j] = IF j = i THEN p ELSE s[j]
  BY <1>3, <1>5
<1>7. t \in Seq(Endpoint)
  BY <1>3, <1>4, <1>5
<1>8. \A j \in DOMAIN s : t[j].name = s[j].name
  BY <1>4, <1>6
<1>9. Unique(t) /\ NamesIn(t) = NamesIn(s)
  BY <1>6, <1>8 DEF Unique, NamesIn
<1>10. AllOff(s) => FewAreOn(t)
  BY <1>6 DEF AllOff, FewAreOn
<1>11. s[i].name \in NamesIn(t)
  BY <1>9 DEF NamesIn
<1> QED
  BY <1>2, <1>4, <1>7, <1>9, <1>10, <1>11 DEF GoodChange

LEMMA ReorderIsChange ==
  ASSUME NEW s \in Seq(Endpoint), Unique(s), NEW c \in Reorders(s)
  PROVE  GoodChange(c, s)
<1> DEFINE t == Reverse(s)
           from(j) == (Len(s) - j) + 1
<1>1. c.op = "reorder" /\ c.old = "none" /\ c.new = "none" /\ c.list = t
  BY DEF Reorders, Change
<1>2. Len(s) \in Nat /\ DOMAIN s = 1..Len(s) /\ \A j \in 1..Len(s) : s[j] \in Endpoint
  OBVIOUS
<1>3. t = [j \in 1..Len(s) |-> s[from(j)]]
  BY DEF Reverse
<1>4. \A j \in 1..Len(s) : from(j) \in 1..Len(s) /\ from(from(j)) = j
  BY <1>2
<1> HIDE DEF t, from
<1>5. DOMAIN t = 1..Len(s) /\ \A j \in 1..Len(s) : t[j] = s[from(j)]
  BY <1>3
<1>6. t \in Seq(Endpoint)
  BY <1>2, <1>3, <1>4
<1>7. Unique(t)
  BY <1>2, <1>4, <1>5 DEF Unique
<1>8. AllOff(s) => FewAreOn(t)
  BY <1>2, <1>4, <1>5 DEF AllOff, FewAreOn
<1>9. NamesIn(s) \subseteq NamesIn(t)
  <2>1. \A j \in 1..Len(s) : t[from(j)] = s[j] /\ from(j) \in DOMAIN t
    BY <1>4, <1>5
  <2> QED
    BY <1>2, <2>1 DEF NamesIn
<1> QED
  BY <1>1, <1>6, <1>7, <1>8, <1>9 DEF GoodChange

LEMMA UpdateIsChange ==
  ASSUME NEW s \in Seq(Endpoint), Unique(s), NEW c \in Updates(s),
         c.new = c.old \/ c.new \notin NamesIn(s)
  PROVE  GoodChange(c, s)
<1>1. PICK i \in DOMAIN s : \E p \in UpdatesOf(s, i) :
        c = Change("update", s[i].name, p.name, [s EXCEPT ![i] = p])
  BY DEF Updates
<1> PICK p \in UpdatesOf(s, i) : c = Change("update", s[i].name, p.name, [s EXCEPT ![i] = p])
  BY <1>1
<1> DEFINE n == p.name
           t == [s EXCEPT ![i] = p]
<1>2. c.op = "update" /\ c.old = s[i].name /\ c.new = n /\ c.list = t /\ n \in Names
  BY DEF Change, UpdatesOf, Names
<1>3. Len(s) \in Nat /\ DOMAIN s = 1..Len(s) /\ \A j \in 1..Len(s) : s[j] \in Endpoint
  OBVIOUS
<1>4. p \in Endpoint /\ p.name = n /\ s[i].name \in Names
  BY <1>3 DEF UpdatesOf, Endpoint
<1>5. t = [j \in 1..Len(s) |-> IF j = i THEN p ELSE s[j]]
  BY <1>3
<1> HIDE DEF t
<1>6. DOMAIN t = DOMAIN s /\ \A j \in DOMAIN s : t[j] = IF j = i THEN p ELSE s[j]
  BY <1>3, <1>5
<1>7. t \in Seq(Endpoint)
  BY <1>3, <1>4, <1>5
<1>8. \A j \in DOMAIN s : j # i => s[j].name # n
  BY <1>2 DEF Unique, NamesIn
<1>9. Unique(t)
  BY <1>4, <1>6, <1>8 DEF Unique
<1>10. NamesIn(s) \ {s[i].name} \subseteq NamesIn(t) /\ n \in NamesIn(t)
  BY <1>4, <1>6 DEF NamesIn
<1>11. AllOff(s) => FewAreOn(t)
  BY <1>4, <1>6 DEF AllOff, FewAreOn
<1> QED
  BY <1>2, <1>4, <1>7, <1>9, <1>10, <1>11 DEF GoodChange

LEMMA ChangeIs ==
  ASSUME NEW s \in Seq(Endpoint), Unique(s),
         NEW c \in Adds(s) \cup Removes(s) \cup Toggles(s) \cup Reorders(s) \cup Updates(s),
         Sensible(c, s)
  PROVE  GoodChange(c, s)
<1>1. ASSUME c \in Updates(s) PROVE c.new = c.old \/ c.new \notin NamesIn(s)
  <2>1. c.op = "update"
    BY <1>1 DEF Updates, Change
  <2> QED
    BY <2>1 DEF Sensible
<1> QED
  BY <1>1, AddIsChange, RemoveIsChange, ToggleIsChange, ReorderIsChange, UpdateIsChange

-----------------------------------------------------------------------------
(* The rows                                                                *)

SavedInto(rs, s, k, d) ==
  SavedRows(s, k) \cup {r \in rs : r.name \notin {s[i].name : i \in 1..k} \cup d}

LEMMA SavedTyped ==
  ASSUME NEW rs, RowsOK(rs), NEW s \in Seq(Endpoint), Unique(s), NEW k \in 0..Len(s), NEW d
  PROVE  RowsOK(SavedInto(rs, s, k, d)) /\ RowNames(rs) \ d \subseteq RowNames(SavedInto(rs, s, k, d))
<1> DEFINE first == {s[i].name : i \in 1..k}
           kept == {r \in rs : r.name \notin first \cup d}
           A == SavedRows(s, k)
           AllRows == [name : Names, on : BOOLEAN, ok : BOOLEAN, pos : Nat \ {0}]
<1>1. \A i \in 1..k : i \in DOMAIN s /\ s[i] \in Endpoint /\ i \in Nat \ {0}
  OBVIOUS
<1>2. \A r \in A : \E i \in 1..k : r = RowOf(s, i)
  BY DEF SavedRows
<1>3. \A i \in 1..k : RowOf(s, i) \in AllRows /\ RowOf(s, i).name = s[i].name
  BY <1>1 DEF RowOf, Endpoint
<1>4. A \subseteq AllRows /\ \A r \in A : r.name \in first
  BY <1>2, <1>3
<1>5. \A r, o \in A : r.name = o.name => r = o
  <2> SUFFICES ASSUME NEW r \in A, NEW o \in A, r.name = o.name PROVE r = o
    OBVIOUS
  <2>1. PICK i \in 1..k : r = RowOf(s, i)
    BY <1>2
  <2>2. PICK j \in 1..k : o = RowOf(s, j)
    BY <1>2
  <2>3. i = j
    BY <1>1, <1>3, <2>1, <2>2 DEF Unique
  <2> QED
    BY <2>1, <2>2, <2>3
<1>6. kept \subseteq AllRows /\ \A r, o \in kept : r.name = o.name => r = o
  BY DEF RowsOK
<1>7. \A r \in kept : r.name \notin first
  OBVIOUS
<1>8. RowsOK(A \cup kept)
  BY <1>4, <1>5, <1>6, <1>7 DEF RowsOK
<1>9. ASSUME NEW r \in rs, r.name \notin d
      PROVE  r.name \in RowNames(A \cup kept)
  <2>1. CASE r.name \in first
    <3>1. PICK i \in 1..k : r.name = s[i].name
      BY <2>1
    <3>2. RowOf(s, i) \in A
      BY DEF SavedRows
    <3> QED
      BY <1>3, <3>1, <3>2 DEF RowNames
  <2>2. CASE r.name \notin first
    <3>1. r \in kept
      BY <1>9, <2>2
    <3> QED
      BY <3>1 DEF RowNames
  <2> QED
    BY <2>1, <2>2
<1>10. SavedInto(rs, s, k, d) = A \cup kept
  BY DEF SavedInto
<1> HIDE DEF A, kept
<1> QED
  BY <1>8, <1>9, <1>10 DEF RowNames

LEMMA SavedWhole ==
  ASSUME NEW rs, NEW s \in Seq(Endpoint)
  PROVE  SavedInto(rs, s, Len(s), RowNames(rs) \ NamesIn(s)) = SavedRows(s, Len(s))
<1>1. DOMAIN s = 1..Len(s)
  OBVIOUS
<1>2. {s[i].name : i \in 1..Len(s)} = NamesIn(s)
  BY <1>1 DEF NamesIn
<1>3. \A r \in rs : r.name \in NamesIn(s) \cup (RowNames(rs) \ NamesIn(s))
  BY DEF RowNames
<1> QED
  BY <1>2, <1>3 DEF SavedInto

WrittenInto(rs, x, n) ==
  {IF r.name = x.old THEN [RowOf(x.list, InList(x, n)) EXCEPT !.pos = r.pos] ELSE r : r \in rs}

LEMMA WrittenTyped ==
  ASSUME NEW rs, RowsOK(rs), NEW x, x.list \in Seq(Endpoint), NEW n \in NamesIn(x.list),
         n = x.old \/ \A r \in rs : r.name # n
  PROVE  /\ RowsOK(WrittenInto(rs, x, n))
         /\ RowNames(rs) \ {x.old} \subseteq RowNames(WrittenInto(rs, x, n))
         /\ x.old \in RowNames(rs) => n \in RowNames(WrittenInto(rs, x, n))
<1> DEFINE AllRows == [name : Names, on : BOOLEAN, ok : BOOLEAN, pos : Nat \ {0}]
           row == RowOf(x.list, InList(x, n))
           now(r) == IF r.name = x.old THEN [row EXCEPT !.pos = r.pos] ELSE r
<1>1. \A r \in rs : r \in AllRows
  BY DEF RowsOK
<1>2. row \in AllRows /\ row.name = n
  <2>1. \E i \in DOMAIN x.list : x.list[i].name = n
    BY DEF NamesIn
  <2>2. InList(x, n) \in DOMAIN x.list /\ x.list[InList(x, n)].name = n
    BY <2>1 DEF InList
  <2>3. PICK i \in 1..Len(x.list) : i = InList(x, n) /\ x.list[i] \in Endpoint
    BY <2>2
  <2> QED
    BY <2>2, <2>3 DEF RowOf, Endpoint
<1> HIDE DEF row
<1>3. \A r \in rs : /\ now(r) \in AllRows
                    /\ now(r).name = IF r.name = x.old THEN n ELSE r.name
  BY <1>1, <1>2
<1>4. WrittenInto(rs, x, n) = {now(r) : r \in rs}
  BY DEF WrittenInto, row
<1>5. \A r, o \in rs : now(r).name = now(o).name => r.name = o.name
  BY <1>3
<1>6. \A r, o \in rs : now(r).name = now(o).name => now(r) = now(o)
  BY <1>5 DEF RowsOK
<1> HIDE DEF now
<1> QED
  BY <1>3, <1>4, <1>6 DEF RowsOK, RowNames

ReorderedRows(rs, x) ==
  {IF r.name \in NamesIn(x.list) THEN RowOf(x.list, InList(x, r.name)) ELSE r : r \in rs}

LEMMA ReorderedTyped ==
  ASSUME NEW rs, RowsOK(rs), NEW x, x.list \in Seq(Endpoint)
  PROVE  RowsOK(ReorderedRows(rs, x)) /\ RowNames(ReorderedRows(rs, x)) = RowNames(rs)
<1> DEFINE AllRows == [name : Names, on : BOOLEAN, ok : BOOLEAN, pos : Nat \ {0}]
           now(r) == IF r.name \in NamesIn(x.list) THEN RowOf(x.list, InList(x, r.name)) ELSE r
<1>1. \A r \in rs : r \in AllRows
  BY DEF RowsOK
<1>2. ASSUME NEW n \in NamesIn(x.list)
      PROVE  RowOf(x.list, InList(x, n)) \in AllRows /\ RowOf(x.list, InList(x, n)).name = n
  <2>1. \E i \in DOMAIN x.list : x.list[i].name = n
    BY DEF NamesIn
  <2>2. InList(x, n) \in DOMAIN x.list /\ x.list[InList(x, n)].name = n
    BY <2>1 DEF InList
  <2>3. PICK i \in 1..Len(x.list) : i = InList(x, n) /\ x.list[i] \in Endpoint
    BY <2>2
  <2> QED
    BY <2>2, <2>3 DEF RowOf, Endpoint
<1>3. \A r \in rs : now(r) \in AllRows /\ now(r).name = r.name
  BY <1>1, <1>2
<1>4. ReorderedRows(rs, x) = {now(r) : r \in rs}
  BY DEF ReorderedRows
<1> HIDE DEF now
<1> QED
  BY <1>3, <1>4 DEF RowsOK, RowNames

LEMMA AddedTyped ==
  ASSUME NEW rs, RowsOK(rs), NEW s \in Seq(Endpoint), s # <<>>,
         \A r \in rs : r.name # s[Len(s)].name
  PROVE  RowsOK(rs \cup {RowOf(s, Len(s))})
<1>1. Len(s) \in Nat \ {0} /\ s[Len(s)] \in Endpoint
  OBVIOUS
<1>2. /\ RowOf(s, Len(s)) \in [name : Names, on : BOOLEAN, ok : BOOLEAN, pos : Nat \ {0}]
      /\ RowOf(s, Len(s)).name = s[Len(s)].name
  BY <1>1 DEF RowOf, Endpoint
<1> QED
  BY <1>2 DEF RowsOK

-----------------------------------------------------------------------------
(* Steps of an edit                                                        *)

To(x, pc) == [x EXCEPT !.pc = pc]

LEMMA ToIs ==
  ASSUME NEW x, IsEdit(x), NEW pc \in Places
  PROVE  /\ IsEdit(To(x, pc)) /\ To(x, pc).pc = pc /\ To(x, pc).op = x.op /\ To(x, pc).old = x.old
         /\ To(x, pc).new = x.new /\ To(x, pc).keep = x.keep /\ To(x, pc).list = x.list
BY DEF IsEdit, To

LEMMA RestIs == IsEdit(Rest) /\ Rest.pc = "rest" /\ Rest.op = "none" /\ "rest" \in Places
BY DEF IsEdit, Rest, Places, Unique

\* e takes a step and is now x.
Takes(e, x) == ed' = [ed EXCEPT ![e] = x]

LEMMA TakesIs ==
  ASSUME EditsTyped, NEW e \in Editors, NEW x, IsEdit(x), Takes(e, x)
  PROVE  EditsTyped' /\ ed'[e] = x /\ \A f \in Editors : f # e => ed'[f] = ed[f]
BY DEF EditsTyped, Takes

LEMMA GoesIs ==
  ASSUME EditsTyped, NEW e \in Editors, NEW pc, Goes(e, pc)
  PROVE  Takes(e, To(ed[e], pc))
BY DEF Goes, Takes, To, EditsTyped

LEMMA EndsIs ==
  ASSUME NEW e, Ends(e)
  PROVE  Takes(e, Rest)
BY DEF Ends, Becomes, Takes

LEMMA FailsIs ==
  ASSUME NEW e, Fails(e), NotesTyped
  PROVE  Takes(e, Rest) /\ left' \in [edits : Nat, faults : Nat]
         /\ told' = [told EXCEPT !.alone = FALSE] /\ told' \in [want : Names \cup {"none"}, alone : BOOLEAN]
         /\ ~told'.alone /\ told'.want = told.want
<1>1. Takes(e, Rest) /\ told' = [told EXCEPT !.alone = FALSE]
  BY DEF Fails, Ends, Becomes, Takes
<1>2. left' \in [edits : Nat, faults : Nat]
  BY DEF Fails, NotesTyped
<1>3. PICK w \in Names \cup {"none"}, b \in BOOLEAN : told = [want |-> w, alone |-> b]
  BY DEF NotesTyped
<1>4. told' = [want |-> w, alone |-> FALSE] /\ told.want = w
  BY <1>1, <1>3
<1>5. told' \in [want : Names \cup {"none"}, alone : BOOLEAN] /\ ~told'.alone /\ told'.want = w
  BY <1>4
<1> QED
  BY <1>1, <1>2, <1>4, <1>5

\* What Flow says of one edit.
FlowOf(x) ==
  /\ x.pc \in {"store", "clone"} => ~web /\ x.op = "update"
  /\ x.pc \in {"publish", "save"} => ~web /\ x.op # "update"
  /\ x.pc \in {"write", "load"} => web
  /\ x.pc = "replace" => web \/ x.op = "update"
  /\ x.pc # "rest" => Described(x)

LEMMA FlowIs == Flow <=> \A e \in Editors : FlowOf(ed[e])
BY DEF Flow, FlowOf

\* A step of one edit that stays where edits may be.
LEMMA BaseKept ==
  ASSUME BaseInv, NEW e \in Editors, NEW x, IsEdit(x), Takes(e, x), web' = web, slow' = slow,
         ListsTyped', StoreTyped', FlowOf(x),
         told' \in [want : Names \cup {"none"}, alone : BOOLEAN],
         left' \in [edits : Nat, faults : Nat]
  PROVE  BaseInv'
<1>1. EditsTyped' /\ ed'[e] = x /\ \A f \in Editors : f # e => ed'[f] = ed[f]
  BY TakesIs DEF BaseInv, ListTypes
<1>2. \A f \in Editors : FlowOf(ed[f])
  BY FlowIs DEF BaseInv
<1>3. \A f \in Editors : FlowOf(ed'[f])
  BY <1>1, <1>2
<1>4. Flow'
  BY <1>3 DEF Flow, FlowOf
<1>5. NotesTyped'
  BY DEF BaseInv, ListTypes, NotesTyped
<1> QED
  BY <1>1, <1>4, <1>5 DEF BaseInv, ListTypes

LEMMA PoolTyped ==
  ASSUME NEW p \in [{"a", "b"} -> Names \cup {"gone"}], NEW d
  PROVE  [o \in DOMAIN p |-> IF p[o] \in d THEN "gone" ELSE p[o]] \in [{"a", "b"} -> Names \cup {"gone"}]
OBVIOUS

LEMMA SavedStore ==
  ASSUME StoreTyped, NEW s \in Seq(Endpoint), Unique(s), NEW k \in 0..Len(s), NEW d, SavedUpTo(s, k, d)
  PROVE  StoreTyped' /\ rows' = SavedInto(rows, s, k, d) /\ pool' = PoolWithout(d)
<1>1. rows' = SavedInto(rows, s, k, d) /\ pool' = PoolWithout(d)
  BY DEF SavedUpTo, SavedInto, SavedRows
<1>2. RowsOK(SavedInto(rows, s, k, d))
  BY SavedTyped DEF StoreTyped
<1>3. pool' \in [{"a", "b"} -> Names \cup {"gone"}]
  BY <1>1, PoolTyped DEF StoreTyped, PoolWithout
<1> QED
  BY <1>1, <1>2, <1>3 DEF StoreTyped

LEMMA PartlyIs ==
  ASSUME NEW s \in Seq(Endpoint), SavedPartly(s)
  PROVE  \E k \in 0..Len(s), d \in SUBSET Stale(s) : SavedUpTo(s, k, d)
<1>1. CASE \E k \in 0..Len(s) : SavedUpTo(s, k, {})
  BY <1>1
<1>2. CASE \E d \in SUBSET Stale(s) : SavedUpTo(s, Len(s), d)
  <2>1. Len(s) \in 0..Len(s)
    OBVIOUS
  <2> QED
    BY <1>2, <2>1
<1> QED
  BY <1>1, <1>2 DEF SavedPartly

LEMMA PartlyTyped ==
  ASSUME StoreTyped, NEW s \in Seq(Endpoint), Unique(s), SavedPartly(s)
  PROVE  StoreTyped'
<1>1. PICK k \in 0..Len(s), d \in SUBSET Stale(s) : SavedUpTo(s, k, d)
  BY PartlyIs
<1> QED
  BY <1>1, SavedStore

LEMMA WholeTyped ==
  ASSUME StoreTyped, NEW s \in Seq(Endpoint), Unique(s), SavedUpTo(s, Len(s), Stale(s))
  PROVE  StoreTyped' /\ rows' = SavedRows(s, Len(s)) /\ pool' = PoolWithout(Stale(s))
<1>1. Len(s) \in 0..Len(s)
  OBVIOUS
<1>2. Stale(s) = RowNames(rows) \ NamesIn(s)
  BY DEF Stale, RowNames
<1> QED
  BY <1>1, <1>2, SavedStore, SavedWhole

LEMMA RenamedStore ==
  ASSUME StoreTyped, NEW x, x.list \in Seq(Endpoint), x.new \in NamesIn(x.list), x.new \in Names,
         CanRename(x.old, x.new), Renamed(x)
  PROVE  /\ StoreTyped' /\ rows' = WrittenInto(rows, x, x.new)
         /\ pool' = [o \in DOMAIN pool |-> IF pool[o] = x.old THEN x.new ELSE pool[o]]
<1>1. /\ rows' = WrittenInto(rows, x, x.new)
      /\ pool' = [o \in DOMAIN pool |-> IF pool[o] = x.old THEN x.new ELSE pool[o]]
  BY DEF Renamed, Written, WrittenInto
<1>2. RowsOK(WrittenInto(rows, x, x.new))
  BY WrittenTyped DEF StoreTyped, CanRename
<1>3. pool' \in [{"a", "b"} -> Names \cup {"gone"}]
  BY <1>1 DEF StoreTyped
<1> QED
  BY <1>1, <1>2, <1>3 DEF StoreTyped

LEMMA ViewTyped ==
  ASSUME ListsTyped
  PROVE  View.list \in Seq(Endpoint) /\ Unique(View.list) /\ Current = NameAt(View.list, at)
         /\ Current \in Names \cup {"none"}
         /\ View \in [list : Seq(Endpoint), version : Nat]
<1>1. View.list \in Seq(Endpoint) /\ Unique(View.list) /\ View \in [list : Seq(Endpoint), version : Nat]
  BY DEF View, ListsTyped
<1>2. Current = NameAt(View.list, at)
  BY DEF Current, NameAt
<1> QED
  BY <1>1, <1>2, NameAtTyped DEF ListsTyped

-----------------------------------------------------------------------------
(* Every step keeps the types                                              *)

Wanted(c) == IF c.op = "update" /\ c.old = Current THEN c.new ELSE Current
Begun(c) == [pc |-> FirstStep(c), op |-> c.op, old |-> c.old, new |-> c.new,
             keep |-> Wanted(c), list |-> c.list]

\* s is what an edit copies.
Copied(s) == s \in Seq(Endpoint) /\ Unique(s) /\ IF web THEN s \in Loadings(rows) ELSE s = conf.list

LEMMA BeginIs ==
  ASSUME BaseInv, NEW e \in Editors, Begin(e)
  PROVE  \E s, c : /\ Copied(s) /\ GoodChange(c, s) /\ Takes(e, Begun(c))
                   /\ told' = [want |-> Wanted(c), alone |-> \A o \in Editors : ed[o].pc = "rest"]
                   /\ removed' = IF c.op = "remove"
                                 THEN removed \cup {o \in DOMAIN pool : pool[o] = c.old} ELSE removed
<1>1. PICK s \in (IF web THEN Loadings(rows) ELSE {conf.list}) : \E c \in
         Adds(s) \cup Removes(s) \cup Toggles(s) \cup Reorders(s) \cup Updates(s) :
       /\ Sensible(c, s)
       /\ Becomes(e, [pc |-> FirstStep(c), op |-> c.op, old |-> c.old, new |-> c.new,
                      keep |-> IF c.op = "update" /\ c.old = Current THEN c.new ELSE Current,
                      list |-> c.list])
       /\ told' = [want |-> IF c.op = "update" /\ c.old = Current THEN c.new ELSE Current,
                   alone |-> \A o \in Editors : ed[o].pc = "rest"]
       /\ removed' = IF c.op = "remove"
                     THEN removed \cup {o \in DOMAIN pool : pool[o] = c.old} ELSE removed
  BY Zenon DEF Begin
<1>2. Copied(s)
  <2>1. CASE web
    <3>1. s \in Loadings(rows) /\ RowsOK(rows)
      BY <1>1, <2>1 DEF BaseInv, ListTypes, StoreTyped
    <3> QED
      BY <2>1, <3>1, LoadingIs DEF Copied
  <2>2. CASE ~web
    BY <2>2 DEF Copied, BaseInv, ListTypes, ListsTyped
  <2> QED
    BY <2>1, <2>2
<1>3. PICK c \in Adds(s) \cup Removes(s) \cup Toggles(s) \cup Reorders(s) \cup Updates(s) :
       /\ Sensible(c, s)
       /\ Takes(e, Begun(c))
       /\ told' = [want |-> Wanted(c), alone |-> \A o \in Editors : ed[o].pc = "rest"]
       /\ removed' = IF c.op = "remove"
                     THEN removed \cup {o \in DOMAIN pool : pool[o] = c.old} ELSE removed
  BY <1>1, Zenon DEF Becomes, Takes, Begun, Wanted
<1>4. GoodChange(c, s)
  BY <1>2, <1>3, ChangeIs DEF Copied
<1> QED
  BY <1>2, <1>3, <1>4

LEMMA BegunIs ==
  ASSUME ListsTyped, NEW s, NEW c, GoodChange(c, s)
  PROVE  /\ IsEdit(Begun(c)) /\ FlowOf(Begun(c)) /\ Wanted(c) \in Names \cup {"none"}
         /\ Begun(c).pc = IF web THEN "write" ELSE IF c.op = "update" THEN "store" ELSE "publish"
         /\ Begun(c).op = c.op /\ Begun(c).old = c.old /\ Begun(c).new = c.new
         /\ Begun(c).keep = Wanted(c) /\ Begun(c).list = c.list
<1>1. FirstStep(c) = IF web THEN "write" ELSE IF c.op = "update" THEN "store" ELSE "publish"
  BY DEF FirstStep
<1>2. Wanted(c) \in Names \cup {"none"}
  BY ViewTyped DEF Wanted, GoodChange
<1>3. /\ Begun(c).pc = IF web THEN "write" ELSE IF c.op = "update" THEN "store" ELSE "publish"
      /\ Begun(c).op = c.op /\ Begun(c).old = c.old /\ Begun(c).new = c.new
      /\ Begun(c).keep = Wanted(c) /\ Begun(c).list = c.list
  BY <1>1 DEF Begun
<1>4. IsEdit(Begun(c))
  <2>1. FirstStep(c) \in Places
    BY <1>1 DEF Places
  <2> QED
    BY <1>2, <2>1 DEF Begun, IsEdit, GoodChange
<1>5. FlowOf(Begun(c))
  <2>1. Described(Begun(c))
    BY <1>3 DEF Described, GoodChange
  <2> QED
    BY <1>3, <2>1 DEF FlowOf
<1> QED
  BY <1>2, <1>3, <1>4, <1>5

LEMMA BeginTyped ==
  ASSUME BaseInv, NEW e \in Editors, Begin(e)
  PROVE  BaseInv'
<1>1. PICK s, c : /\ Copied(s) /\ GoodChange(c, s) /\ Takes(e, Begun(c))
                  /\ told' = [want |-> Wanted(c), alone |-> \A o \in Editors : ed[o].pc = "rest"]
  BY BeginIs
<1>2. IsEdit(Begun(c)) /\ FlowOf(Begun(c)) /\ Wanted(c) \in Names \cup {"none"}
  BY <1>1, BegunIs DEF BaseInv, ListTypes
<1>3. ListsTyped' /\ StoreTyped' /\ web' = web /\ slow' = slow
  BY DEF Begin, BaseInv, ListTypes, ListsTyped, StoreTyped
<1>4. (\A o \in Editors : ed[o].pc = "rest") \in BOOLEAN
  OBVIOUS
<1>5. told' \in [want : Names \cup {"none"}, alone : BOOLEAN]
  <2> DEFINE b == \A o \in Editors : ed[o].pc = "rest"
  <2>1. told' = [want |-> Wanted(c), alone |-> b] /\ b \in BOOLEAN
    BY <1>1
  <2> HIDE DEF b
  <2> QED
    BY <2>1, <1>2
<1>6. left' \in [edits : Nat, faults : Nat]
  BY DEF Begin, BaseInv, ListTypes, NotesTyped
<1> QED
  BY <1>1, <1>2, <1>3, <1>5, <1>6, BaseKept

\* What an edit holds, as far as the types go.
LEMMA EditTyped ==
  ASSUME BaseInv, NEW e \in Editors
  PROVE  /\ IsEdit(ed[e]) /\ FlowOf(ed[e]) /\ EditsTyped /\ NotesTyped /\ ListsTyped /\ StoreTyped
         /\ ed[e].list \in Seq(Endpoint) /\ Unique(ed[e].list)
         /\ conf.list \in Seq(Endpoint) /\ Unique(conf.list)
         /\ told \in [want : Names \cup {"none"}, alone : BOOLEAN]
         /\ left \in [edits : Nat, faults : Nat]
<1>1. FlowOf(ed[e])
  BY FlowIs DEF BaseInv
<1>2. IsEdit(ed[e])
  BY DEF BaseInv, ListTypes, EditsTyped
<1> QED
  BY <1>1, <1>2 DEF BaseInv, ListTypes, ListsTyped, NotesTyped, IsEdit

LEMMA RestFlows == FlowOf(Rest)
BY DEF FlowOf, Rest

LEMMA Quieted ==
  ASSUME told \in [want : Names \cup {"none"}, alone : BOOLEAN], told' = [told EXCEPT !.alone = FALSE]
  PROVE  told' \in [want : Names \cup {"none"}, alone : BOOLEAN] /\ ~told'.alone /\ told'.want = told.want
<1>1. PICK w \in Names \cup {"none"}, b \in BOOLEAN : told = [want |-> w, alone |-> b]
  OBVIOUS
<1>2. told' = [want |-> w, alone |-> FALSE] /\ told.want = w
  BY <1>1
<1> QED
  BY <1>2

LEMMA VersionTyped ==
  ASSUME ListsTyped, NEW s \in Seq(Endpoint), Unique(s), conf' = Version(s), UNCHANGED <<shown, at>>
  PROVE  ListsTyped' /\ conf'.list = s /\ conf'.version = conf.version + 1
<1>1. conf' = [list |-> s, version |-> conf.version + 1] /\ conf.version + 1 \in Nat
  BY DEF Version, ListsTyped
<1>2. conf' \in [list : Seq(Endpoint), version : Nat] /\ conf'.list = s
  BY <1>1
<1> QED
  BY <1>1, <1>2 DEF ListsTyped

LEMMA PublishTyped ==
  ASSUME BaseInv, NEW e \in Editors, Publish(e)
  PROVE  BaseInv'
<1>1. ListsTyped'
  BY EditTyped, VersionTyped DEF Publish
<1>2. StoreTyped' /\ web' = web /\ slow' = slow /\ left' \in [edits : Nat, faults : Nat]
  BY EditTyped DEF Publish, StoreTyped
<1>3. CASE Goes(e, "apply") /\ UNCHANGED told
  <2>1. "apply" \in Places
    BY DEF Places
  <2>2. Takes(e, To(ed[e], "apply")) /\ IsEdit(To(ed[e], "apply"))
    BY <1>3, <2>1, GoesIs, ToIs, EditTyped
  <2>3. FlowOf(To(ed[e], "apply"))
    BY <2>1, ToIs, EditTyped DEF FlowOf, Described, Publish
  <2>4. told' \in [want : Names \cup {"none"}, alone : BOOLEAN]
    BY <1>3, EditTyped
  <2> QED
    BY <1>1, <1>2, <2>2, <2>3, <2>4, BaseKept
<1>4. CASE Ends(e) /\ told' = [told EXCEPT !.alone = FALSE]
  BY <1>1, <1>2, <1>4, EndsIs, RestIs, RestFlows, Quieted, EditTyped, BaseKept
<1> QED
  BY <1>3, <1>4 DEF Publish

LEMMA ApplyTyped ==
  ASSUME BaseInv, NEW e \in Editors, Apply(e)
  PROVE  BaseInv'
<1>1. ListsTyped'
  <2>1. at' \in Nat
    BY EditTyped, EnabledTyped, IndexTyped DEF Apply, Applied
  <2> QED
    BY <2>1, EditTyped DEF Apply, Applied, ListsTyped
<1>2. StoreTyped' /\ web' = web /\ slow' = slow /\ left' \in [edits : Nat, faults : Nat]
      /\ told' \in [want : Names \cup {"none"}, alone : BOOLEAN]
  BY EditTyped DEF Apply, StoreTyped
<1>3. CASE web \/ ed[e].op = "update"
  BY <1>1, <1>2, <1>3, EndsIs, RestIs, RestFlows, EditTyped, BaseKept DEF Apply
<1>4. CASE ~(web \/ ed[e].op = "update")
  <2>1. "save" \in Places
    BY DEF Places
  <2>2. Takes(e, To(ed[e], "save")) /\ IsEdit(To(ed[e], "save"))
    BY <1>4, <2>1, GoesIs, ToIs, EditTyped DEF Apply
  <2>3. FlowOf(To(ed[e], "save"))
    BY <1>4, <2>1, ToIs, EditTyped DEF FlowOf, Described, Apply
  <2> QED
    BY <1>1, <1>2, <2>2, <2>3, BaseKept
<1> QED
  BY <1>3, <1>4

LEMMA SaveTyped ==
  ASSUME BaseInv, NEW e \in Editors, Save(e)
  PROVE  BaseInv'
<1>1. ListsTyped' /\ web' = web /\ slow' = slow
  BY EditTyped DEF Save, ListsTyped
<1>2. CASE SavedUpTo(conf.list, Len(conf.list), Stale(conf.list)) /\ Ends(e) /\ UNCHANGED <<told, left>>
  <2>1. StoreTyped'
    BY <1>2, WholeTyped, EditTyped
  <2> QED
    BY <1>1, <1>2, <2>1, EndsIs, RestIs, RestFlows, EditTyped, BaseKept
<1>3. CASE SavedPartly(conf.list) /\ Fails(e)
  <2>1. StoreTyped'
    BY <1>3, PartlyTyped, EditTyped
  <2> QED
    BY <1>1, <1>3, <2>1, FailsIs, RestIs, RestFlows, EditTyped, BaseKept
<1> QED
  BY <1>2, <1>3 DEF Save

LEMMA StoreNameTyped ==
  ASSUME BaseInv, NEW e \in Editors, StoreName(e)
  PROVE  BaseInv'
<1>1. ListsTyped' /\ web' = web /\ slow' = slow
  BY EditTyped DEF StoreName, ListsTyped
<1>2. ed[e].pc = "store" /\ ~web /\ ed[e].op = "update" /\ ed[e].new \in Names
      /\ ed[e].old \in Names /\ ed[e].new \in NamesIn(ed[e].list)
  BY EditTyped DEF StoreName, FlowOf, Described
<1>3. ASSUME Goes(e, "clone"), UNCHANGED <<told, left>>, StoreTyped' PROVE BaseInv'
  <2>1. "clone" \in Places
    BY DEF Places
  <2>2. Takes(e, To(ed[e], "clone")) /\ IsEdit(To(ed[e], "clone"))
    BY <1>3, <2>1, GoesIs, ToIs, EditTyped
  <2>3. FlowOf(To(ed[e], "clone"))
    BY <1>2, <2>1, ToIs, EditTyped DEF FlowOf, Described
  <2> QED
    BY <1>1, <1>3, <2>2, <2>3, EditTyped, BaseKept
<1>4. CASE CanRename(ed[e].old, ed[e].new) /\ Renamed(ed[e])
           /\ Goes(e, "clone") /\ UNCHANGED <<told, left>>
  <2>1. StoreTyped'
    BY <1>2, <1>4, RenamedStore, EditTyped
  <2> QED
    BY <1>3, <1>4, <2>1
<1>5. CASE Goes(e, "clone") /\ UNCHANGED <<rows, pool, told, left>>
  <2>1. StoreTyped'
    BY <1>5, EditTyped DEF StoreTyped
  <2> QED
    BY <1>3, <1>5, <2>1
<1>6. CASE Ends(e) /\ told' = [told EXCEPT !.alone = FALSE] /\ UNCHANGED <<rows, pool, left>>
  <2>1. StoreTyped'
    BY <1>6, EditTyped DEF StoreTyped
  <2> QED
    BY <1>1, <1>6, <2>1, EndsIs, RestIs, RestFlows, Quieted, EditTyped, BaseKept
<1>7. CASE Fails(e) /\ UNCHANGED <<rows, pool>>
  <2>1. StoreTyped'
    BY <1>7, EditTyped DEF StoreTyped
  <2> QED
    BY <1>1, <1>7, <2>1, FailsIs, RestIs, RestFlows, EditTyped, BaseKept
<1> QED
  BY <1>4, <1>5, <1>6, <1>7 DEF StoreName

LEMMA StoreCloneTyped ==
  ASSUME BaseInv, NEW e \in Editors, StoreClone(e)
  PROVE  BaseInv'
<1>1. ListsTyped' /\ web' = web /\ slow' = slow
  BY EditTyped DEF StoreClone, ListsTyped
<1>2. CASE SavedUpTo(ed[e].list, Len(ed[e].list), Stale(ed[e].list))
           /\ Goes(e, "replace") /\ UNCHANGED <<told, torn, left>>
  <2>1. StoreTyped'
    BY <1>2, WholeTyped, EditTyped
  <2>2. "replace" \in Places
    BY DEF Places
  <2>3. Takes(e, To(ed[e], "replace")) /\ IsEdit(To(ed[e], "replace"))
    BY <1>2, <2>2, GoesIs, ToIs, EditTyped
  <2>4. FlowOf(To(ed[e], "replace"))
    BY <2>2, ToIs, EditTyped DEF FlowOf, Described, StoreClone
  <2> QED
    BY <1>1, <1>2, <2>1, <2>3, <2>4, EditTyped, BaseKept
<1>3. CASE SavedPartly(ed[e].list) /\ Fails(e)
  <2>1. StoreTyped'
    BY <1>3, PartlyTyped, EditTyped
  <2> QED
    BY <1>1, <1>3, <2>1, FailsIs, RestIs, RestFlows, EditTyped, BaseKept
<1> QED
  BY <1>2, <1>3 DEF StoreClone

LEMMA ReplaceTyped ==
  ASSUME BaseInv, NEW e \in Editors, Replace(e)
  PROVE  BaseInv'
<1>1. ListsTyped'
  BY EditTyped, VersionTyped DEF Replace
<1>2. StoreTyped' /\ web' = web /\ slow' = slow /\ left' \in [edits : Nat, faults : Nat]
      /\ told' \in [want : Names \cup {"none"}, alone : BOOLEAN]
  BY EditTyped DEF Replace, StoreTyped
<1>3. "apply" \in Places
  BY DEF Places
<1>4. Takes(e, To(ed[e], "apply")) /\ IsEdit(To(ed[e], "apply"))
  BY <1>3, GoesIs, ToIs, EditTyped DEF Replace
<1>5. FlowOf(To(ed[e], "apply"))
  BY <1>3, ToIs, EditTyped DEF FlowOf, Described, Replace
<1> QED
  BY <1>1, <1>2, <1>4, <1>5, BaseKept

\* The web API's changes of the storage.
WebStores(x) ==
  \/ x.op = "add" /\ WebAdds(x)
  \/ x.op = "remove" /\ WebDeletes(x)
  \/ x.op = "update" /\ WebUpdates(x)
  \/ x.op = "toggle" /\ WebToggles(x)
  \/ x.op = "reorder" /\ WebReorders(x)

LEMMA WebStoresTyped ==
  ASSUME StoreTyped, NEW x, IsEdit(x), x.pc = "write", Described(x), WebStores(x)
  PROVE  StoreTyped'
<1>1. x.list \in Seq(Endpoint) /\ RowsOK(rows)
  BY DEF IsEdit, StoreTyped
<1>2. CASE x.op = "add" /\ WebAdds(x)
  <2>1. rows' = rows \cup {RowOf(x.list, Len(x.list))} /\ pool' = pool /\ \A r \in rows : r.name # x.new
    BY <1>2 DEF WebAdds
  <2>2. x.list # <<>> /\ x.list[Len(x.list)].name = x.new
    BY <1>2 DEF Described
  <2>3. RowsOK(rows')
    BY <1>1, <2>1, <2>2, AddedTyped
  <2> QED
    BY <2>1, <2>3 DEF StoreTyped
<1>3. CASE x.op = "remove" /\ WebDeletes(x)
  <2>1. RowsOK(rows')
    BY <1>1, <1>3 DEF WebDeletes, RowsOK
  <2>2. pool' \in [{"a", "b"} -> Names \cup {"gone"}]
    BY <1>3, PoolTyped DEF StoreTyped, WebDeletes, PoolWithout
  <2> QED
    BY <2>1, <2>2 DEF StoreTyped
<1>4. CASE x.op = "update" /\ WebUpdates(x)
  <2> x.new \in NamesIn(x.list) /\ x.new \in Names
    BY <1>4 DEF Described
  <2>1. CASE x.old = x.new
    <3>1. rows' = WrittenInto(rows, x, x.new) /\ pool' = pool
      BY <1>4, <2>1 DEF WebUpdates, Written, WrittenInto
    <3>2. RowsOK(rows')
      BY <1>1, <2>1, <3>1, WrittenTyped
    <3> QED
      BY <3>1, <3>2 DEF StoreTyped
  <2>2. CASE x.old # x.new
    BY <1>1, <1>4, <2>2, RenamedStore DEF WebUpdates
  <2> QED
    BY <2>1, <2>2
<1>5. CASE x.op = "toggle" /\ WebToggles(x)
  <2>1. rows' = WrittenInto(rows, x, x.old) /\ pool' = pool
    BY <1>5 DEF WebToggles, Written, WrittenInto
  <2>2. RowsOK(rows')
    BY <1>1, <1>5, <2>1, WrittenTyped DEF Described
  <2> QED
    BY <2>1, <2>2 DEF StoreTyped
<1>6. CASE x.op = "reorder" /\ WebReorders(x)
  <2>1. rows' = ReorderedRows(rows, x) /\ pool' = pool
    BY <1>6 DEF WebReorders, ReorderedRows
  <2>2. RowsOK(rows')
    BY <1>1, <2>1, ReorderedTyped
  <2> QED
    BY <2>1, <2>2 DEF StoreTyped
<1> QED
  BY <1>2, <1>3, <1>4, <1>5, <1>6 DEF WebStores

\* What the web API holds after it has stored: it asks for the current
\* endpoint anew, unless it renames.
Asked(x, n) ==
  [x EXCEPT !.pc = "load", !.keep = IF x.op = "update" THEN @ ELSE n]

LEMMA AskedIs ==
  ASSUME NEW x, IsEdit(x), NEW n \in Names \cup {"none"}
  PROVE  /\ IsEdit(Asked(x, n)) /\ Asked(x, n).pc = "load" /\ Asked(x, n).op = x.op
         /\ Asked(x, n).old = x.old /\ Asked(x, n).new = x.new /\ Asked(x, n).list = x.list
         /\ Asked(x, n).keep = IF x.op = "update" THEN x.keep ELSE n
BY DEF Asked, IsEdit, Places

LEMMA WebWriteIs ==
  ASSUME NEW e, WebWrite(e)
  PROVE  \/ WebStores(ed[e]) /\ Takes(e, Asked(ed[e], Current)) /\ UNCHANGED <<told, left>>
         \/ Fails(e) /\ UNCHANGED <<rows, pool>>
BY Zenon DEF WebWrite, WebStores, Becomes, Takes, Asked

LEMMA WebWriteTyped ==
  ASSUME BaseInv, NEW e \in Editors, WebWrite(e)
  PROVE  BaseInv'
<1>1. ListsTyped' /\ web' = web /\ slow' = slow
  BY EditTyped DEF WebWrite, ListsTyped
<1>2. ed[e].pc = "write" /\ web /\ Described(ed[e])
  BY EditTyped DEF WebWrite, FlowOf
<1>3. CASE WebStores(ed[e]) /\ Takes(e, Asked(ed[e], Current)) /\ UNCHANGED <<told, left>>
  <2>1. StoreTyped'
    BY <1>2, <1>3, WebStoresTyped, EditTyped
  <2>2. Current \in Names \cup {"none"}
    BY ViewTyped, EditTyped
  <2>3. IsEdit(Asked(ed[e], Current)) /\ FlowOf(Asked(ed[e], Current))
    <3>1. PICK n \in Names \cup {"none"} : n = Current
      BY <2>2
    <3>2. IsEdit(ed[e])
      BY EditTyped
    <3>3. IsEdit(Asked(ed[e], n)) /\ Asked(ed[e], n).pc = "load" /\ Asked(ed[e], n).op = ed[e].op
          /\ Asked(ed[e], n).old = ed[e].old /\ Asked(ed[e], n).new = ed[e].new
      BY <3>2, AskedIs
    <3>4. FlowOf(Asked(ed[e], n))
      BY <1>2, <3>3 DEF FlowOf, Described
    <3> QED
      BY <3>1, <3>3, <3>4
  <2> QED
    BY <1>1, <1>3, <2>1, <2>3, EditTyped, BaseKept
<1>4. CASE Fails(e) /\ UNCHANGED <<rows, pool>>
  <2>1. StoreTyped'
    BY <1>4, EditTyped DEF StoreTyped
  <2> QED
    BY <1>1, <1>4, <2>1, FailsIs, RestIs, RestFlows, EditTyped, BaseKept
<1> QED
  BY <1>3, <1>4, WebWriteIs

Reloaded(x, s) == [x EXCEPT !.pc = "replace", !.list = s]

LEMMA ReloadedIs ==
  ASSUME NEW x, IsEdit(x), NEW s \in Seq(Endpoint), Unique(s)
  PROVE  /\ IsEdit(Reloaded(x, s)) /\ Reloaded(x, s).pc = "replace" /\ Reloaded(x, s).op = x.op
         /\ Reloaded(x, s).old = x.old /\ Reloaded(x, s).new = x.new /\ Reloaded(x, s).list = s
         /\ Reloaded(x, s).keep = x.keep
BY DEF Reloaded, IsEdit, Places

LEMMA WebLoadIs ==
  ASSUME BaseInv, NEW e \in Editors, WebLoad(e)
  PROVE  \/ \E s \in Loadings(rows) : s \in Seq(Endpoint) /\ Unique(s) /\ Takes(e, Reloaded(ed[e], s))
                                      /\ UNCHANGED <<told, left>>
         \/ Fails(e)
<1>1. CASE \E s \in Loadings(rows) :
             Becomes(e, [ed[e] EXCEPT !.pc = "replace", !.list = s]) /\ UNCHANGED <<told, left>>
  <2>1. PICK s \in Loadings(rows) : Takes(e, Reloaded(ed[e], s)) /\ UNCHANGED <<told, left>>
    BY <1>1, Zenon DEF Becomes, Takes, Reloaded
  <2>2. s \in Seq(Endpoint) /\ Unique(s)
    BY LoadingIs, EditTyped DEF StoreTyped
  <2> QED
    BY <2>1, <2>2
<1>2. CASE Fails(e)
  BY <1>2
<1> QED
  BY <1>1, <1>2 DEF WebLoad

LEMMA WebLoadTyped ==
  ASSUME BaseInv, NEW e \in Editors, WebLoad(e)
  PROVE  BaseInv'
<1>1. ListsTyped' /\ web' = web /\ slow' = slow /\ StoreTyped'
  BY EditTyped DEF WebLoad, ListsTyped, StoreTyped
<1>2. ed[e].pc = "load" /\ web
  BY EditTyped DEF WebLoad, FlowOf
<1>3. CASE \E s \in Loadings(rows) : s \in Seq(Endpoint) /\ Unique(s) /\ Takes(e, Reloaded(ed[e], s))
                                     /\ UNCHANGED <<told, left>>
  <2>1. PICK s \in Seq(Endpoint) : Unique(s) /\ Takes(e, Reloaded(ed[e], s))
    BY <1>3
  <2>2. IsEdit(Reloaded(ed[e], s)) /\ FlowOf(Reloaded(ed[e], s))
    BY <1>2, <2>1, ReloadedIs, EditTyped DEF FlowOf, Described
  <2> QED
    BY <1>1, <1>3, <2>1, <2>2, EditTyped, BaseKept
<1>4. CASE Fails(e)
  BY <1>1, <1>4, FailsIs, RestIs, RestFlows, EditTyped, BaseKept
<1> QED
  BY <1>3, <1>4, WebLoadIs

LEMMA SwitchTyped ==
  ASSUME BaseInv, Switch
  PROVE  BaseInv'
<1>1. /\ \E i \in DOMAIN Enabled(View.list) : at' = i - 1
      /\ shown' = View /\ told' = [told EXCEPT !.alone = FALSE]
      /\ UNCHANGED <<web, conf, rows, pool, ed, slow, removed, torn, left>>
  BY DEF Switch
<1>2. at' \in Nat
  <2>1. Enabled(View.list) \in Seq(Endpoint)
    BY ViewTyped, EnabledTyped DEF BaseInv, ListTypes
  <2>2. \A i \in 1..Len(Enabled(View.list)) : i - 1 \in Nat
    OBVIOUS
  <2> QED
    BY <1>1, <2>1, <2>2
<1>3. ListsTyped'
  BY <1>1, <1>2, ViewTyped DEF BaseInv, ListTypes, ListsTyped
<1>4. told' \in [want : Names \cup {"none"}, alone : BOOLEAN]
  BY <1>1, Quieted DEF BaseInv, ListTypes, NotesTyped
<1>5. StoreTyped' /\ EditsTyped' /\ NotesTyped' /\ Flow'
  BY <1>1, <1>4 DEF BaseInv, ListTypes, StoreTyped, EditsTyped, NotesTyped, Flow
<1> QED
  BY <1>3, <1>5 DEF BaseInv, ListTypes

LEMMA RestartIs ==
  ASSUME BaseInv, Restart
  PROVE  /\ \E s \in Loadings(rows) : /\ s \in Seq(Endpoint) /\ Unique(s) /\ NamesIn(s) = RowNames(rows)
                                      /\ conf' = [list |-> s, version |-> 0]
         /\ shown' = conf' /\ at' = 0 /\ ~told'.alone
         /\ DOMAIN ed' = Editors /\ \A e \in Editors : ed'[e] = Rest
<1>1. PICK s \in Loadings(rows) : conf' = [list |-> s, version |-> 0] /\ shown' = conf'
  BY Zenon DEF Restart
<1>2. s \in Seq(Endpoint) /\ Unique(s) /\ NamesIn(s) = RowNames(rows)
  BY LoadingIs DEF BaseInv, ListTypes, StoreTyped
<1>3. at' = 0 /\ ed' = [e \in Editors |-> Rest] /\ told' = [told EXCEPT !.alone = FALSE]
  BY DEF Restart
<1>4. ~told'.alone
  BY <1>3, Quieted DEF BaseInv, ListTypes, NotesTyped
<1> QED
  BY <1>1, <1>2, <1>3, <1>4

LEMMA RestartTyped ==
  ASSUME BaseInv, Restart
  PROVE  BaseInv'
<1>1. PICK s \in Loadings(rows) : s \in Seq(Endpoint) /\ Unique(s) /\ conf' = [list |-> s, version |-> 0]
  BY RestartIs
<1>2. ListsTyped'
  BY <1>1, RestartIs DEF ListsTyped
<1>3. EditsTyped' /\ Flow'
  BY RestartIs, RestIs, RestFlows DEF EditsTyped, Flow, FlowOf
<1>4. told' \in [want : Names \cup {"none"}, alone : BOOLEAN]
  BY Quieted DEF BaseInv, ListTypes, NotesTyped, Restart
<1>5. left' \in [edits : Nat, faults : Nat]
  BY DEF BaseInv, ListTypes, NotesTyped, Restart
<1>6. NotesTyped' /\ StoreTyped'
  BY <1>4, <1>5 DEF BaseInv, ListTypes, NotesTyped, StoreTyped, Restart
<1> QED
  BY <1>2, <1>3, <1>6 DEF BaseInv, ListTypes

LEMMA ReadersTyped ==
  ASSUME BaseInv, NEW r \in Readers, ReadSlowly(r) \/ FileSlowly(r)
  PROVE  BaseInv'
<1>1. StoreTyped' /\ EditsTyped' /\ Flow'
  BY DEF BaseInv, ListTypes, StoreTyped, EditsTyped, Flow, ReadSlowly, FileSlowly
<1>2. CASE ReadSlowly(r)
  <2>1. ListsTyped'
    BY <1>2 DEF BaseInv, ListTypes, ListsTyped, ReadSlowly
  <2>2. DOMAIN slow' = Readers /\ slow'[r] = <<conf.list>>
        /\ \A q \in Readers : q # r => slow'[q] = slow[q]
    BY <1>2 DEF BaseInv, ListTypes, NotesTyped, ReadSlowly
  <2>3. slow'[r][1] = conf.list
    BY <2>2
  <2>4. NotesTyped'
    BY <1>2, <2>2, <2>3 DEF BaseInv, ListTypes, ListsTyped, NotesTyped, ReadSlowly
  <2> QED
    BY <1>1, <2>1, <2>4 DEF BaseInv, ListTypes
<1>3. CASE FileSlowly(r)
  <2>1. shown' = [list |-> slow[r][1], version |-> conf.version] /\ slow[r] # <<>>
    BY <1>3 DEF FileSlowly
  <2>2. slow[r][1] \in Seq(Endpoint) /\ Unique(slow[r][1])
    BY <2>1 DEF BaseInv, ListTypes, NotesTyped
  <2>3. ListsTyped'
    BY <1>3, <2>1, <2>2 DEF BaseInv, ListTypes, ListsTyped, FileSlowly
  <2>4. DOMAIN slow' = Readers /\ slow'[r] = <<>> /\ \A q \in Readers : q # r => slow'[q] = slow[q]
    BY <1>3 DEF BaseInv, ListTypes, NotesTyped, FileSlowly
  <2>5. NotesTyped'
    BY <1>3, <2>4 DEF BaseInv, ListTypes, NotesTyped, FileSlowly
  <2> QED
    BY <1>1, <2>3, <2>5 DEF BaseInv, ListTypes
<1> QED
  BY <1>2, <1>3

LEMMA TypesInitially == ListInit => BaseInv
<1> SUFFICES ASSUME ListInit PROVE BaseInv
  OBVIOUS
<1> DEFINE s == <<Plain("a"), Plain("b")>>
<1>1. "a" \in Names /\ "b" \in Names /\ Plain("a") \in Endpoint /\ Plain("b") \in Endpoint
      /\ Plain("a").name = "a" /\ Plain("b").name = "b"
  BY DEF Names, Plain, Endpoint
<1>2. s \in Seq(Endpoint) /\ DOMAIN s = {1, 2} /\ s[1] = Plain("a") /\ s[2] = Plain("b")
  BY <1>1
<1> HIDE DEF s
<1>3. Unique(s)
  BY <1>1, <1>2 DEF Unique
<1>4. conf = [list |-> s, version |-> 0] /\ shown = conf /\ at \in {0, 1}
  BY DEF ListInit, s
<1>5. ListsTyped
  BY <1>2, <1>3, <1>4 DEF ListsTyped
<1>6. StoreTyped
  <2>1. rows = {[name |-> "a", on |-> TRUE, ok |-> TRUE, pos |-> 1],
                [name |-> "b", on |-> TRUE, ok |-> TRUE, pos |-> 2]}
    BY DEF ListInit
  <2>2. RowsOK(rows)
    BY <1>1, <2>1 DEF RowsOK
  <2>3. pool \in [{"a", "b"} -> Names \cup {"gone"}]
    BY <1>1 DEF ListInit
  <2> QED
    BY <2>2, <2>3 DEF StoreTyped
<1>7. EditsTyped /\ Flow
  BY RestIs, RestFlows DEF ListInit, EditsTyped, Flow, FlowOf
<1>8. NotesTyped
  <2>1. Current \in Names \cup {"none"}
    BY <1>5, ViewTyped
  <2>2. PICK n \in Names \cup {"none"} : n = Current
    BY <2>1
  <2>3. told = [want |-> n, alone |-> FALSE]
    BY <2>2 DEF ListInit
  <2>4. told \in [want : Names \cup {"none"}, alone : BOOLEAN]
    BY <2>3
  <2>5. left \in [edits : Nat, faults : Nat]
    BY ListAssumption DEF ListInit
  <2>6. web \in BOOLEAN /\ DOMAIN slow = Readers /\ \A r \in Readers : slow[r] = <<>>
    BY DEF ListInit
  <2> QED
    BY <2>4, <2>5, <2>6 DEF NotesTyped
<1> QED
  BY <1>5, <1>6, <1>7, <1>8 DEF BaseInv, ListTypes

LEMMA TypesStep == BaseInv /\ [ListNext]_listVars => BaseInv'
<1> SUFFICES ASSUME BaseInv, [ListNext]_listVars PROVE BaseInv'
  OBVIOUS
<1>1. CASE UNCHANGED listVars
  BY <1>1 DEF listVars, BaseInv, ListTypes, ListsTyped, StoreTyped, EditsTyped, NotesTyped, Flow
<1>2. ASSUME NEW e \in Editors,
             Begin(e) \/ Publish(e) \/ Apply(e) \/ Save(e) \/ StoreName(e) \/ StoreClone(e)
             \/ Replace(e) \/ WebWrite(e) \/ WebLoad(e)
      PROVE  BaseInv'
  BY <1>2, BeginTyped, PublishTyped, ApplyTyped, SaveTyped, StoreNameTyped, StoreCloneTyped,
     ReplaceTyped, WebWriteTyped, WebLoadTyped
<1>3. ASSUME NEW r \in Readers, ReadSlowly(r) \/ FileSlowly(r) PROVE BaseInv'
  BY <1>3, ReadersTyped
<1>4. CASE Switch \/ Restart
  BY <1>4, SwitchTyped, RestartTyped
<1> QED
  BY <1>1, <1>2, <1>3, <1>4 DEF ListNext

THEOREM ListStaysTyped == ListSpec => []ListTypeOK
<1>1. BaseInv => ListTypeOK
  BY DEF BaseInv, ListTypes, ListsTyped, StoreTyped, ListTypeOK, RowsOK
<1> QED
  BY <1>1, TypesInitially, TypesStep, PTL DEF ListSpec

-----------------------------------------------------------------------------
(* The current endpoint                                                    *)

LEMMA CurrentIs ==
  ASSUME ListsTyped, Fresh
  PROVE  View.list = conf.list /\ Current = NameAt(conf.list, at) /\ View = conf
<1>1. View = conf
  BY DEF View, Fresh
<1> QED
  BY <1>1, ViewTyped

\* Who rests finds nothing.
LEMMA RestsFine ==
  ASSUME NEW x, x.pc = "rest", NEW w, NEW c, NEW rs, NEW i, NEW want
  PROVE  OnItsWay(w, x, c, rs, i, want)
BY DEF OnItsWay

\* An edit that is alone takes a step, and is still alone.
LEMMA AloneKept ==
  ASSUME ListInv, NEW e \in Editors, ed[e].pc # "rest", NEW x, IsEdit(x), Takes(e, x),
         told'.alone => /\ told.alone
                        /\ OnItsWay(web', x, conf'.list, rows', at', told'.want)
                        /\ x.pc = "rest" => Settled'
  PROVE  AloneHolds'
<1> SUFFICES ASSUME told'.alone PROVE AloneHolds'
  BY DEF AloneHolds
<1>1. ed'[e] = x /\ \A f \in Editors : f # e => ed'[f] = ed[f]
  BY TakesIs DEF ListInv, BaseInv, ListTypes
<1>2. \A f \in Editors : f # e => ed[f].pc = "rest"
  BY DEF ListInv, AloneHolds
<1>3. \A f \in Editors : f # e => ed'[f].pc = "rest"
  BY <1>1, <1>2
<1>4. \A f \in Editors : OnItsWay(web', ed'[f], conf'.list, rows', at', told'.want)
  BY <1>1, <1>3, RestsFine
<1>5. Resting' => Settled'
  BY <1>1 DEF Resting
<1> QED
  BY <1>3, <1>4, <1>5 DEF AloneHolds

LEMMA NotAlone ==
  ASSUME ~told'.alone
  PROVE  AloneHolds'
BY DEF AloneHolds

\* What an edit that is alone has found so far.
LEMMA AloneFinds ==
  ASSUME ListInv, told.alone, NEW e \in Editors
  PROVE  OnItsWay(web, ed[e], conf.list, rows, at, told.want)
BY DEF ListInv, AloneHolds

LEMMA ListTyped ==
  ASSUME ListInv
  PROVE  BaseInv /\ ListTypes /\ ListsTyped /\ StoreTyped /\ NotesTyped /\ Fresh /\ Reset
BY DEF ListInv, BaseInv, ListTypes

\* Nothing of the list in use changes.
LEMMA FreshStays ==
  ASSUME Fresh, UNCHANGED <<conf, shown>>
  PROVE  Fresh'
BY DEF Fresh

LEMMA FreshMoves ==
  ASSUME ListsTyped, Fresh, conf'.version = conf.version + 1, shown' = shown
  PROVE  Fresh'
BY DEF Fresh, ListsTyped

\* A step of an edit that is not about to apply its list.
LEMMA ResetStays ==
  ASSUME ListInv, NEW e \in Editors, ed[e].pc # "apply", NEW x, IsEdit(x), Takes(e, x),
         UNCHANGED <<web, conf, at>>
  PROVE  Reset'
<1>1. \A f \in Editors : f # e => ed'[f] = ed[f]
  BY TakesIs DEF ListInv, BaseInv, ListTypes
<1>2. (\A f \in Editors : ed'[f].pc # "apply") => \A f \in Editors : ed[f].pc # "apply"
  BY <1>1
<1> QED
  BY <1>2 DEF ListInv, Reset

LEMMA BeginHolds ==
  ASSUME ListInv, NEW e \in Editors, Begin(e)
  PROVE  Fresh' /\ Reset' /\ AloneHolds'
<1>1. PICK s, c : /\ Copied(s) /\ GoodChange(c, s) /\ Takes(e, Begun(c))
                  /\ told' = [want |-> Wanted(c), alone |-> \A o \in Editors : ed[o].pc = "rest"]
  BY BeginIs, ListTyped
<1> DEFINE x == Begun(c)
           want == Wanted(c)
<1>2. /\ IsEdit(x) /\ want \in Names \cup {"none"}
      /\ x.pc = IF web THEN "write" ELSE IF c.op = "update" THEN "store" ELSE "publish"
      /\ x.op = c.op /\ x.keep = want /\ x.list = c.list
  BY <1>1, BegunIs, ListTyped
<1>3. UNCHANGED <<web, conf, shown, at, rows>> /\ ed[e].pc = "rest"
  BY DEF Begin
<1>4. Current = NameAt(conf.list, at) /\ conf.list \in Seq(Endpoint) /\ at \in Nat /\ web \in BOOLEAN
  BY CurrentIs, ListTyped DEF ListsTyped, NotesTyped
<1>5. want = IF c.op = "update" /\ c.old = Current THEN c.new ELSE Current
  BY DEF Wanted
<1>6. want = "none" => Enabled(conf.list) = <<>>
  <2>1. c.op = "update" => c.new # "none"
    BY <1>1, ListAssumption DEF GoodChange, Names
  <2> QED
    BY <1>4, <1>5, <2>1, NameAtTyped
<1>7. want = "none" /\ ~web => FewOn(c.list)
  <2> SUFFICES ASSUME want = "none", ~web PROVE FewOn(c.list)
    OBVIOUS
  <2>1. AllOff(conf.list)
    BY <1>4, <1>6, EnabledTyped DEF AllOff
  <2>2. c.list \in Seq(Endpoint) /\ FewAreOn(c.list)
    BY <1>1, <2>1 DEF Copied, GoodChange
  <2> QED
    BY <2>2, FewAreFew
<1> HIDE DEF x, want
<1>8. Fresh'
  BY <1>3, FreshStays, ListTyped
<1>9. Reset'
  BY <1>1, <1>2, <1>3, ResetStays DEF x
<1>10. AloneHolds'
  <2> SUFFICES ASSUME told'.alone PROVE AloneHolds'
    BY NotAlone
  <2>1. told'.want = want /\ \A o \in Editors : ed[o].pc = "rest"
    BY <1>1 DEF want
  <2>2. ed'[e] = x /\ \A f \in Editors : f # e => ed'[f] = ed[f]
    BY <1>1, <1>2, TakesIs DEF ListInv, BaseInv, ListTypes, x
  <2>3. want = "none" /\ web => at = 0
    BY <1>6, <2>1, ListTyped DEF Reset
  <2>4. OnItsWay(web, x, conf.list, rows, at, want)
    BY <1>2, <1>4, <1>5, <1>7, <2>3 DEF OnItsWay
  <2>5. \A f \in Editors : f # e => ed'[f].pc = "rest"
    BY <2>1, <2>2
  <2>6. \A f \in Editors : OnItsWay(web', ed'[f], conf'.list, rows', at', told'.want)
    BY <1>3, <2>1, <2>2, <2>4, <2>5, RestsFine
  <2>7. ed'[e].pc # "rest"
    BY <1>2, <2>2
  <2> QED
    BY <2>5, <2>6, <2>7 DEF AloneHolds, Resting
<1> QED
  BY <1>8, <1>9, <1>10

LEMMA PublishHolds ==
  ASSUME ListInv, NEW e \in Editors, Publish(e)
  PROVE  Fresh' /\ Reset' /\ AloneHolds'
<1>1. conf'.list = ed[e].list /\ conf'.version = conf.version + 1
  BY VersionTyped, ListTyped, EditTyped DEF Publish
<1>2. ed[e].pc = "publish" /\ ~web /\ ed[e].op # "update"
      /\ UNCHANGED <<web, shown, at, rows>>
  BY EditTyped, ListTyped DEF Publish, FlowOf
<1>3. Fresh'
  BY <1>1, <1>2, FreshMoves, ListTyped
<1>4. Reset'
  BY <1>2 DEF Reset
<1>5. CASE Goes(e, "apply") /\ UNCHANGED told
  <2> DEFINE x == To(ed[e], "apply")
  <2>1. "apply" \in Places
    BY DEF Places
  <2>2. Takes(e, x) /\ IsEdit(x) /\ x.pc = "apply" /\ x.op = ed[e].op /\ x.keep = ed[e].keep
    BY <1>5, <2>1, GoesIs, ToIs, EditTyped, ListTyped
  <2> HIDE DEF x
  <2>3. told.alone => OnItsWay(web', x, conf'.list, rows', at', told'.want)
    BY <1>1, <1>2, <1>5, <2>2, AloneFinds DEF OnItsWay
  <2> QED
    BY <1>2, <1>3, <1>4, <1>5, <2>2, <2>3, AloneKept
<1>6. CASE Ends(e) /\ told' = [told EXCEPT !.alone = FALSE]
  BY <1>3, <1>4, <1>6, Quieted, EditTyped, ListTyped, NotAlone
<1> QED
  BY <1>5, <1>6 DEF Publish

\* The list in use is applied: the index follows the name, ...
LEMMA AppliedSettles ==
  ASSUME ListInv, NEW keep, NEW want \in Names \cup {"none"}, keep = want, Applied(keep),
         want = "none" => FewOn(conf.list) \/ at = 0
  PROVE  Settles(conf.list, at', want)
<1> DEFINE s == conf.list
           q == Enabled(s)
           n == IF keep = "none" THEN Current ELSE keep
<1>1. s \in Seq(Endpoint) /\ Unique(s) /\ at \in Nat /\ Current = NameAt(s, at)
  BY ListTyped, CurrentIs DEF ListsTyped
<1>2. q \in Seq(Endpoint) /\ Unique(q)
  BY <1>1, EnabledTyped, EnabledUnique
<1>3. at' = IndexIn(q, n)
  BY DEF Applied
<1>4. CASE want # "none"
  <2>1. n = want
    BY <1>4
  <2> HIDE DEF n, q, s
  <2>2. Settles(s, IndexIn(q, want), want)
    BY <1>1, IndexSettles DEF q
  <2> QED
    BY <1>3, <2>1, <2>2 DEF s
<1>5. CASE want = "none"
  <2>1. n = NameAt(s, at)
    BY <1>1, <1>5
  <2> HIDE DEF n
  <2>2. want \notin NamesIn(q)
    <3>1. \A i \in DOMAIN q : q[i].name \in Names
      <4>1. \A i \in 1..Len(q) : q[i] \in Endpoint
        BY <1>2
      <4> QED
        BY <1>2, <4>1 DEF Endpoint
    <3> QED
      BY <1>5, <3>1, ListAssumption DEF NamesIn, Names
  <2> HIDE DEF q, s
  <2>3. q # <<>> => at' % Len(q) = 0
    <3> SUFFICES ASSUME q # <<>> PROVE at' % Len(q) = 0
      OBVIOUS
    <3>1. at' \in Nat /\ Len(q) \in Nat \ {0}
      BY <1>2, <1>3, IndexTyped
    <3>2. CASE FewOn(s)
      <4>1. Len(q) <= 1
        BY <3>2 DEF FewOn, q
      <4>2. Len(q) = 1
        <5>1. PICK n1 \in Nat \ {0} : n1 = Len(q)
          BY <3>1
        <5> QED
          BY <4>1, <5>1
      <4>3. PICK i \in Nat : i = at'
        BY <3>1
      <4>4. i % 1 = 0
        OBVIOUS
      <4> QED
        BY <4>2, <4>3, <4>4
    <3>3. CASE at = 0
      <4>1. at % Len(q) = 0 /\ 1 \in DOMAIN q
        <5>1. PICK m \in Nat \ {0} : m = Len(q)
          BY <3>1
        <5>2. 0 % m = 0 /\ 1 \in 1..m
          BY RestOf
        <5>3. DOMAIN q = 1..m
          BY <1>2, <5>1
        <5> QED
          BY <3>3, <5>1, <5>2, <5>3
      <4>2. n = q[1].name
        BY <2>1, <4>1 DEF NameAt, q
      <4>3. n \in NamesIn(q)
        BY <4>1, <4>2 DEF NamesIn
      <4>4. IndexIn(q, n) \in Nat /\ IndexIn(q, n) < Len(q) /\ q[IndexIn(q, n) + 1].name = n
        BY <1>2, <4>3, IndexTyped
      <4>5. IndexIn(q, n) + 1 \in DOMAIN q
        BY <1>2, <4>4
      <4>6. IndexIn(q, n) + 1 = 1
        BY <1>2, <4>1, <4>2, <4>4, <4>5 DEF Unique
      <4>7. at' = 0
        BY <1>3, <4>4, <4>6
      <4> QED
        BY <3>1, <4>7, RestOf
    <3> QED
      BY <1>5, <3>2, <3>3 DEF s
  <2> QED
    BY <2>2, <2>3 DEF Settles, q, s
<1> QED
  BY <1>4, <1>5

LEMMA ApplyHolds ==
  ASSUME ListInv, NEW e \in Editors, Apply(e)
  PROVE  Fresh' /\ Reset' /\ AloneHolds'
<1>1. ed[e].pc = "apply" /\ Applied(ed[e].keep) /\ shown' = conf
      /\ UNCHANGED <<web, conf, rows, told>>
  BY DEF Apply, Applied
<1>2. Fresh'
  BY <1>1, ListTyped DEF Fresh, ListsTyped
<1>3. Reset'
  <2>1. NamesIn(<<>>) = {} /\ <<>> \in Seq(Endpoint)
    BY DEF NamesIn
  <2>2. \A n : IndexIn(<<>>, n) = 0
    BY <2>1, IndexTyped
  <2> QED
    BY <1>1, <2>2 DEF Reset, Applied
<1>4. told.alone => Settles(conf.list, at', told.want)
  <2> SUFFICES ASSUME told.alone PROVE Settles(conf.list, at', told.want)
    OBVIOUS
  <2>1. ed[e].keep = told.want /\ (told.want = "none" => FewOn(conf.list) \/ at = 0)
    BY <1>1, AloneFinds DEF OnItsWay
  <2>2. told.want \in Names \cup {"none"}
    BY ListTyped DEF NotesTyped
  <2> QED
    BY <1>1, <2>1, <2>2, AppliedSettles
<1>5. CASE web \/ ed[e].op = "update"
  <2>1. Takes(e, Rest)
    BY <1>5, EndsIs DEF Apply
  <2>2. told.alone => conf.list \in Loadings(rows)
    BY <1>1, <1>5, AloneFinds DEF OnItsWay
  <2>3. told'.alone => told.alone /\ Settled'
    BY <1>1, <1>4, <2>2 DEF Settled
  <2>4. AloneHolds'
    BY <1>1, <2>1, <2>3, RestIs, RestsFine, AloneKept
  <2> QED
    BY <1>2, <1>3, <2>4
<1>6. CASE ~(web \/ ed[e].op = "update")
  <2> DEFINE x == To(ed[e], "save")
  <2>1. "save" \in Places
    BY DEF Places
  <2>2. Takes(e, x) /\ IsEdit(x) /\ x.pc = "save" /\ x.op = ed[e].op
    BY <1>6, <2>1, GoesIs, ToIs, EditTyped, ListTyped DEF Apply
  <2> HIDE DEF x
  <2>3. told'.alone => OnItsWay(web', x, conf'.list, rows', at', told'.want)
    BY <1>1, <1>4, <2>2 DEF OnItsWay
  <2>4. AloneHolds'
    BY <1>1, <2>2, <2>3, AloneKept
  <2> QED
    BY <1>2, <1>3, <2>4
<1> QED
  BY <1>5, <1>6

LEMMA SaveHolds ==
  ASSUME ListInv, NEW e \in Editors, Save(e)
  PROVE  Fresh' /\ Reset' /\ AloneHolds'
<1>1. ed[e].pc = "save" /\ UNCHANGED <<web, conf, shown, at>>
  BY DEF Save
<1>2. Fresh'
  BY <1>1, FreshStays, ListTyped
<1>3. Takes(e, Rest)
  BY EndsIs, FailsIs, ListTyped DEF Save
<1>4. Reset'
  BY <1>1, <1>3, RestIs, ResetStays
<1>5. CASE SavedUpTo(conf.list, Len(conf.list), Stale(conf.list)) /\ Ends(e) /\ UNCHANGED <<told, left>>
  <2>1. conf.list \in Loadings(rows')
    BY <1>5, WholeTyped, SavedLoads, EditTyped, ListTyped
  <2>2. told.alone => Settles(conf.list, at, told.want)
    BY <1>1, AloneFinds DEF OnItsWay
  <2>3. told'.alone => told.alone /\ Settled'
    BY <1>1, <1>5, <2>1, <2>2 DEF Settled
  <2>4. AloneHolds'
    BY <1>1, <1>3, <2>3, RestIs, RestsFine, AloneKept
  <2> QED
    BY <1>2, <1>4, <2>4
<1>6. CASE SavedPartly(conf.list) /\ Fails(e)
  BY <1>2, <1>4, <1>6, FailsIs, ListTyped, NotAlone
<1> QED
  BY <1>5, <1>6 DEF Save

LEMMA StoreNameHolds ==
  ASSUME ListInv, NEW e \in Editors, StoreName(e)
  PROVE  Fresh' /\ Reset' /\ AloneHolds'
<1>1. ed[e].pc = "store" /\ UNCHANGED <<web, conf, shown, at>>
  BY DEF StoreName
<1>2. Fresh'
  BY <1>1, FreshStays, ListTyped
<1>3. CASE Goes(e, "clone") /\ UNCHANGED told
  <2> DEFINE x == To(ed[e], "clone")
  <2>1. "clone" \in Places
    BY DEF Places
  <2>2. Takes(e, x) /\ IsEdit(x) /\ x.pc = "clone" /\ x.keep = ed[e].keep /\ x.list = ed[e].list
    BY <1>3, <2>1, GoesIs, ToIs, EditTyped, ListTyped
  <2> HIDE DEF x
  <2>3. told.alone => OnItsWay(web', x, conf'.list, rows', at', told'.want)
    BY <1>1, <1>3, <2>2, AloneFinds DEF OnItsWay
  <2>4. Reset'
    BY <1>1, <2>2, ResetStays
  <2> QED
    BY <1>1, <1>2, <1>3, <2>2, <2>3, <2>4, AloneKept
<1>4. CASE Ends(e) /\ told' = [told EXCEPT !.alone = FALSE]
  BY <1>1, <1>2, <1>4, EndsIs, RestIs, ResetStays, Quieted, EditTyped, ListTyped, NotAlone
<1>5. CASE Fails(e)
  BY <1>1, <1>2, <1>5, FailsIs, RestIs, ResetStays, ListTyped, NotAlone
<1> QED
  BY <1>3, <1>4, <1>5 DEF StoreName

LEMMA StoreCloneHolds ==
  ASSUME ListInv, NEW e \in Editors, StoreClone(e)
  PROVE  Fresh' /\ Reset' /\ AloneHolds'
<1>1. ed[e].pc = "clone" /\ UNCHANGED <<web, conf, shown, at>>
  BY DEF StoreClone
<1>2. Fresh'
  BY <1>1, FreshStays, ListTyped
<1>3. CASE SavedUpTo(ed[e].list, Len(ed[e].list), Stale(ed[e].list)) /\ Goes(e, "replace")
           /\ UNCHANGED <<told, torn, left>>
  <2> DEFINE x == To(ed[e], "replace")
  <2>1. "replace" \in Places
    BY DEF Places
  <2>2. Takes(e, x) /\ IsEdit(x) /\ x.pc = "replace" /\ x.keep = ed[e].keep /\ x.list = ed[e].list
    BY <1>3, <2>1, GoesIs, ToIs, EditTyped, ListTyped
  <2>3. ed[e].list \in Loadings(rows')
    BY <1>3, WholeTyped, SavedLoads, EditTyped, ListTyped
  <2> HIDE DEF x
  <2>4. told.alone => OnItsWay(web', x, conf'.list, rows', at', told'.want)
    BY <1>1, <1>3, <2>2, <2>3, AloneFinds DEF OnItsWay
  <2>5. Reset'
    BY <1>1, <2>2, ResetStays
  <2> QED
    BY <1>1, <1>2, <1>3, <2>2, <2>4, <2>5, AloneKept
<1>4. CASE Fails(e)
  BY <1>1, <1>2, <1>4, FailsIs, RestIs, ResetStays, ListTyped, NotAlone
<1> QED
  BY <1>3, <1>4 DEF StoreClone

LEMMA ReplaceHolds ==
  ASSUME ListInv, NEW e \in Editors, Replace(e)
  PROVE  Fresh' /\ Reset' /\ AloneHolds'
<1>1. conf'.list = ed[e].list /\ conf'.version = conf.version + 1
  BY VersionTyped, ListTyped, EditTyped DEF Replace
<1>2. ed[e].pc = "replace" /\ UNCHANGED <<web, shown, at, rows, told>>
  BY DEF Replace
<1>3. Fresh'
  BY <1>1, <1>2, FreshMoves, ListTyped
<1> DEFINE x == To(ed[e], "apply")
<1>4. "apply" \in Places
  BY DEF Places
<1>5. Takes(e, x) /\ IsEdit(x) /\ x.pc = "apply" /\ x.keep = ed[e].keep
  BY <1>4, GoesIs, ToIs, EditTyped, ListTyped DEF Replace
<1> HIDE DEF x
<1>6. ed'[e] = x
  BY <1>5, TakesIs, EditTyped, ListTyped
<1>7. Reset'
  BY <1>5, <1>6 DEF Reset
<1>8. told.alone => OnItsWay(web', x, conf'.list, rows', at', told'.want)
  BY <1>1, <1>2, <1>5, AloneFinds DEF OnItsWay
<1>9. AloneHolds'
  BY <1>2, <1>5, <1>8, AloneKept
<1> QED
  BY <1>3, <1>7, <1>9

LEMMA WebWriteHolds ==
  ASSUME ListInv, NEW e \in Editors, WebWrite(e)
  PROVE  Fresh' /\ Reset' /\ AloneHolds'
<1>1. ed[e].pc = "write" /\ UNCHANGED <<web, conf, shown, at>>
  BY DEF WebWrite
<1>2. Fresh'
  BY <1>1, FreshStays, ListTyped
<1>3. CASE Takes(e, Asked(ed[e], Current)) /\ UNCHANGED <<told, left>>
  <2>1. PICK n \in Names \cup {"none"} : n = Current
    BY ViewTyped, ListTyped
  <2> DEFINE x == Asked(ed[e], n)
  <2>2. /\ Takes(e, x) /\ IsEdit(x) /\ x.pc = "load"
        /\ x.keep = IF ed[e].op = "update" THEN ed[e].keep ELSE n
    BY <1>3, <2>1, AskedIs, EditTyped, ListTyped
  <2> HIDE DEF x
  <2>3. n = NameAt(conf.list, at)
    BY <2>1, CurrentIs, ListTyped
  <2>4. told.alone => OnItsWay(web', x, conf'.list, rows', at', told'.want)
    BY <1>1, <1>3, <2>2, <2>3, AloneFinds DEF OnItsWay
  <2>5. Reset'
    BY <1>1, <2>2, ResetStays
  <2> QED
    BY <1>1, <1>2, <1>3, <2>2, <2>4, <2>5, AloneKept
<1>4. CASE Fails(e)
  BY <1>1, <1>2, <1>4, FailsIs, RestIs, ResetStays, ListTyped, NotAlone
<1> QED
  BY <1>3, <1>4, WebWriteIs

LEMMA WebLoadHolds ==
  ASSUME ListInv, NEW e \in Editors, WebLoad(e)
  PROVE  Fresh' /\ Reset' /\ AloneHolds'
<1>1. ed[e].pc = "load" /\ UNCHANGED <<web, conf, shown, at, rows>>
  BY DEF WebLoad
<1>2. Fresh'
  BY <1>1, FreshStays, ListTyped
<1>3. CASE \E s \in Loadings(rows) : s \in Seq(Endpoint) /\ Unique(s) /\ Takes(e, Reloaded(ed[e], s))
                                     /\ UNCHANGED <<told, left>>
  <2>1. PICK s \in Loadings(rows) : s \in Seq(Endpoint) /\ Unique(s) /\ Takes(e, Reloaded(ed[e], s))
                                    /\ UNCHANGED <<told, left>>
    BY <1>3
  <2> DEFINE x == Reloaded(ed[e], s)
  <2>2. /\ Takes(e, x) /\ IsEdit(x) /\ x.pc = "replace" /\ x.keep = ed[e].keep /\ x.list = s
    BY <2>1, ReloadedIs, EditTyped, ListTyped
  <2> HIDE DEF x
  <2>3. told.alone => OnItsWay(web', x, conf'.list, rows', at', told'.want)
    BY <1>1, <2>1, <2>2, AloneFinds DEF OnItsWay
  <2>4. Reset'
    BY <1>1, <2>2, ResetStays
  <2> QED
    BY <1>1, <1>2, <2>1, <2>2, <2>3, <2>4, AloneKept
<1>4. CASE Fails(e)
  BY <1>1, <1>2, <1>4, FailsIs, RestIs, ResetStays, ListTyped, NotAlone
<1> QED
  BY <1>3, <1>4, WebLoadIs, ListTyped

LEMMA SwitchHolds ==
  ASSUME ListInv, Switch
  PROVE  Fresh' /\ Reset' /\ AloneHolds'
<1>1. /\ \E i \in DOMAIN Enabled(View.list) : at' = i - 1
      /\ shown' = View /\ told' = [told EXCEPT !.alone = FALSE]
      /\ UNCHANGED <<web, conf, ed>>
  BY DEF Switch
<1>2. View = conf /\ View.list = conf.list
  BY CurrentIs, ListTyped
<1>3. Fresh'
  BY <1>1, <1>2, ListTyped DEF Fresh, ListsTyped
<1>4. Enabled(conf.list) # <<>>
  BY <1>1, <1>2
<1>5. Reset'
  BY <1>1, <1>4 DEF Reset
<1> QED
  BY <1>1, <1>3, <1>5, Quieted, ListTyped, NotAlone DEF NotesTyped

LEMMA RestartHolds ==
  ASSUME ListInv, Restart
  PROVE  Fresh' /\ Reset' /\ AloneHolds'
<1>1. (\E s : conf' = [list |-> s, version |-> 0]) /\ shown' = conf' /\ at' = 0 /\ ~told'.alone
  BY RestartIs, ListTyped
<1> QED
  BY <1>1, NotAlone DEF Fresh, Reset

LEMMA ListInitially == ListInit => ListInv
<1> SUFFICES ASSUME ListInit PROVE ListInv
  OBVIOUS
<1>1. Fresh /\ ~told.alone
  BY DEF ListInit, Fresh
<1>2. Reset
  <2> DEFINE s == <<Plain("a"), Plain("b")>>
  <2>1. s \in Seq(Endpoint) /\ 1 \in DOMAIN s /\ s[1].on
    BY DEF Plain, Endpoint, Names
  <2>2. Enabled(s) # <<>>
    BY <2>1, EnabledTyped
  <2> QED
    BY <2>2 DEF ListInit, Reset
<1> QED
  BY <1>1, <1>2, TypesInitially DEF ListInv, AloneHolds

LEMMA ListStep ==
  ASSUME Readers = {}
  PROVE  ListInv /\ [ListNext]_listVars => ListInv'
<1> SUFFICES ASSUME ListInv, [ListNext]_listVars PROVE ListInv'
  OBVIOUS
<1>1. BaseInv'
  BY TypesStep DEF ListInv
<1>2. CASE UNCHANGED listVars
  BY <1>1, <1>2 DEF listVars, ListInv, Fresh, Reset, AloneHolds, Resting, Settled
<1>3. ASSUME NEW e \in Editors,
             Begin(e) \/ Publish(e) \/ Apply(e) \/ Save(e) \/ StoreName(e) \/ StoreClone(e)
             \/ Replace(e) \/ WebWrite(e) \/ WebLoad(e)
      PROVE  Fresh' /\ Reset' /\ AloneHolds'
  BY <1>3, BeginHolds, PublishHolds, ApplyHolds, SaveHolds, StoreNameHolds, StoreCloneHolds,
     ReplaceHolds, WebWriteHolds, WebLoadHolds
<1>4. CASE Switch \/ Restart
  BY <1>1, <1>4, SwitchHolds, RestartHolds DEF ListInv
<1> QED
  BY <1>1, <1>2, <1>3, <1>4 DEF ListNext, ListInv

LEMMA EditsHeld == ListInv => EditsHold
<1> SUFFICES ASSUME ListInv, Resting, told.alone
             PROVE  /\ conf.list \in Loadings(rows)
                    /\ IF told.want \in NamesIn(Enabled(conf.list)) THEN Current = told.want
                       ELSE Enabled(conf.list) # <<>> => Current = Enabled(conf.list)[1].name
  BY DEF EditsHold
<1>1. conf.list \in Loadings(rows) /\ Settles(conf.list, at, told.want)
  BY DEF ListInv, AloneHolds, Settled
<1>2. Current = NameAt(conf.list, at)
  BY CurrentIs, ListTyped
<1> QED
  BY <1>1, <1>2 DEF Settles, NameAt

-----------------------------------------------------------------------------
(* The credentials                                                         *)

LEMMA PoolsTyped ==
  ASSUME PoolsInv
  PROVE  /\ BaseInv /\ NotesTyped /\ ListsTyped /\ StoreTyped /\ RowsOK(rows)
         /\ DOMAIN pool = Origins /\ \A o \in Origins : pool[o] \in Names \cup {"gone"}
         /\ Live(pool, removed, torn, RowNames(rows))
         /\ \A e \in Editors :
              PoolsOnTheWay(web, ed[e], pool, removed, torn, NamesIn(conf.list))
BY DEF PoolsInv, BaseInv, ListTypes, StoreTyped, Origins

\* The only edit takes a step.
LEMMA PoolsKept ==
  ASSUME PoolsInv, \A e, f \in Editors : e = f, BaseInv', NEW e \in Editors, NEW x, IsEdit(x), Takes(e, x),
         Live(pool', removed', torn', RowNames(rows')),
         PoolsOnTheWay(web', x, pool', removed', torn', NamesIn(conf'.list))
  PROVE  PoolsInv'
<1>1. \A f \in Editors : ed'[f] = x
  BY PoolsTyped, TakesIs, EditTyped
<1> QED
  BY <1>1 DEF PoolsInv

\* Credentials go with the names d: what lives at other names stays.
LEMMA Pruned ==
  ASSUME PoolsInv, NEW d, pool' = PoolWithout(d), NEW r, NEW t, removed \subseteq r, torn => t,
         NEW ns, RowNames(rows) \ d \subseteq ns,
         \A o \in Origins : pool[o] \in d /\ pool[o] # "gone" => o \in r \/ t
  PROVE  /\ Live(pool', r, t, ns)
         /\ \A ms : Held(pool, r, t, ms) => Held(pool', r, t, ms)
<1>1. \A o \in Origins : pool'[o] = IF pool[o] \in d THEN "gone" ELSE pool[o]
  BY PoolsTyped DEF PoolWithout
<1>2. Live(pool', r, t, ns)
  BY <1>1, PoolsTyped DEF Live
<1>3. ASSUME NEW ms, Held(pool, r, t, ms) PROVE Held(pool', r, t, ms)
  BY <1>1, <1>3 DEF Held
<1> QED
  BY <1>2, <1>3

\* Nothing of the storage changes.
LEMMA LiveStays ==
  ASSUME PoolsInv, UNCHANGED <<rows, pool>>, removed \subseteq removed', torn => torn'
  PROVE  /\ Live(pool', removed', torn', RowNames(rows'))
         /\ \A ms : Held(pool, removed, torn, ms) => Held(pool', removed', torn', ms)
BY PoolsTyped DEF Live, Held

\* The saves of a list that keeps all there is to lose.
LEMMA SavesKeep ==
  ASSUME PoolsInv, NEW s \in Seq(Endpoint), Unique(s), Held(pool, removed, torn, NamesIn(s)),
         SavedUpTo(s, Len(s), Stale(s)) \/ SavedPartly(s), removed' = removed, torn => torn'
  PROVE  /\ Live(pool', removed', torn', RowNames(rows'))
         /\ \A ms : Held(pool, removed', torn', ms) => Held(pool', removed', torn', ms)
<1>1. PICK k \in 0..Len(s), d \in SUBSET Stale(s) : SavedUpTo(s, k, d)
  <2>1. Len(s) \in 0..Len(s)
    OBVIOUS
  <2> QED
    BY <2>1, PartlyIs
<1>2. rows' = SavedInto(rows, s, k, d) /\ pool' = PoolWithout(d)
  BY <1>1, SavedStore, PoolsTyped
<1>3. RowNames(rows) \ d \subseteq RowNames(rows')
  BY <1>2, SavedTyped, PoolsTyped
<1>4. \A n \in d : n \notin NamesIn(s)
  BY <1>1 DEF Stale
<1>5. \A o \in Origins : pool[o] \in d /\ pool[o] # "gone" => o \in removed' \/ torn'
  BY <1>4 DEF Held
<1> QED
  BY <1>2, <1>3, <1>5, Pruned

\* A rename in the storage.
LEMMA RenameKeeps ==
  ASSUME PoolsInv, NEW x, x.list \in Seq(Endpoint), x.old \in Names, x.new \in Names,
         x.new \in NamesIn(x.list), CanRename(x.old, x.new), Renamed(x), UNCHANGED <<removed, torn>>
  PROVE  /\ Live(pool', removed', torn', RowNames(rows'))
         /\ \A ms, ns : /\ Held(pool, removed, torn, ms) /\ x.new \in ns /\ ms \ {x.old} \subseteq ns
                        => Held(pool', removed', torn', ns)
<1> DEFINE old == x.old
           new == x.new
<1>1. /\ rows' = WrittenInto(rows, x, new)
      /\ \A o \in Origins : pool'[o] = IF pool[o] = old THEN new ELSE pool[o]
  BY RenamedStore, PoolsTyped
<1>2. RowNames(rows) \ {old} \subseteq RowNames(rows') /\ new \in RowNames(rows')
  BY <1>1, WrittenTyped, PoolsTyped DEF CanRename, RowNames
<1>3. old # "gone" /\ new # "gone"
  BY ListAssumption DEF Names
<1>4. Live(pool', removed', torn', RowNames(rows'))
  BY <1>1, <1>2, <1>3, PoolsTyped DEF Live
<1>5. ASSUME NEW ms, NEW ns, Held(pool, removed, torn, ms), new \in ns, ms \ {old} \subseteq ns
      PROVE  Held(pool', removed', torn', ns)
  BY <1>1, <1>5 DEF Held
<1> QED
  BY <1>4, <1>5

\* Nobody edits; what is in use has not changed.
LEMMA RestsSafe ==
  ASSUME NEW x, x.pc \in {"rest", "apply", "save", "load"}, NEW w, NEW p, NEW r, NEW t, NEW ns,
         ~w => Held(p, r, t, ns)
  PROVE  PoolsOnTheWay(w, x, p, r, t, ns)
BY DEF PoolsOnTheWay

LEMMA BeginKeeps ==
  ASSUME PoolsInv, \A e, f \in Editors : e = f, NEW e \in Editors, Begin(e)
  PROVE  PoolsInv'
<1>1. PICK s, c : /\ Copied(s) /\ GoodChange(c, s) /\ Takes(e, Begun(c))
                  /\ removed' = IF c.op = "remove"
                                THEN removed \cup {o \in DOMAIN pool : pool[o] = c.old} ELSE removed
  BY BeginIs, PoolsTyped
<1> DEFINE x == Begun(c)
<1>2. /\ IsEdit(x) /\ x.pc = IF web THEN "write" ELSE IF c.op = "update" THEN "store" ELSE "publish"
      /\ x.op = c.op /\ x.old = c.old /\ x.new = c.new /\ x.list = c.list
  BY <1>1, BegunIs, PoolsTyped
<1>3. ed[e].pc = "rest" /\ UNCHANGED <<web, conf, rows, pool, torn>>
  BY DEF Begin
<1> HIDE DEF x
<1>4. removed \subseteq removed' /\ \A o \in Origins : c.op = "remove" /\ pool[o] = c.old => o \in removed'
  BY <1>1, PoolsTyped
<1>5. Live(pool', removed', torn', RowNames(rows'))
  BY <1>3, <1>4, LiveStays
<1>6. ~web => Held(pool', removed', torn', NamesIn(conf'.list)) /\ s = conf.list
  <2>1. ~web => Held(pool, removed, torn, NamesIn(conf.list))
    BY <1>3, PoolsTyped DEF PoolsOnTheWay, Known
  <2> QED
    BY <1>1, <1>3, <1>4, <2>1 DEF Held, Copied
<1>7. x.pc = "publish" => Held(pool', removed', torn', NamesIn(x.list))
  <2> SUFFICES ASSUME x.pc = "publish" PROVE Held(pool', removed', torn', NamesIn(x.list))
    OBVIOUS
  <2>1. ~web /\ c.op # "update" /\ s = conf.list
    BY <1>2, <1>6
  <2>2. \A n \in NamesIn(conf.list) : n \in NamesIn(c.list) \/ (c.op = "remove" /\ n = c.old)
    BY <1>1, <2>1 DEF GoodChange
  <2> QED
    BY <1>2, <1>3, <1>4, <1>6, <2>1, <2>2 DEF Held
<1>8. x.pc = "store" => x.new \in NamesIn(x.list) /\ NamesIn(conf'.list) \ {x.old} \subseteq NamesIn(x.list)
  BY <1>1, <1>2, <1>3, <1>6 DEF GoodChange
<1>9. x.pc = "write" /\ x.op = "remove" => \A o \in Origins : pool'[o] = x.old => o \in removed'
  BY <1>2, <1>3, <1>4
<1>10. PoolsOnTheWay(web', x, pool', removed', torn', NamesIn(conf'.list))
  BY <1>2, <1>3, <1>6, <1>7, <1>8, <1>9 DEF PoolsOnTheWay
<1> QED
  BY <1>1, <1>2, <1>5, <1>10, BeginTyped, PoolsTyped, PoolsKept DEF x

LEMMA PublishKeeps ==
  ASSUME PoolsInv, \A e, f \in Editors : e = f, NEW e \in Editors, Publish(e)
  PROVE  PoolsInv'
<1>1. conf'.list = ed[e].list
  BY VersionTyped, PoolsTyped, EditTyped DEF Publish
<1>2. ed[e].pc = "publish" /\ ~web /\ UNCHANGED <<web, rows, pool, removed, torn>>
  BY PoolsTyped, EditTyped DEF Publish, FlowOf
<1>3. Held(pool, removed, torn, NamesIn(conf'.list))
  BY <1>1, <1>2, PoolsTyped DEF PoolsOnTheWay
<1>4. Live(pool', removed', torn', RowNames(rows')) /\ Held(pool', removed', torn', NamesIn(conf'.list))
  BY <1>2, <1>3, LiveStays
<1>5. PICK x : IsEdit(x) /\ Takes(e, x) /\ x.pc \in {"rest", "apply"}
  <2>1. "apply" \in Places
    BY DEF Places
  <2>2. Goes(e, "apply") => Takes(e, To(ed[e], "apply")) /\ IsEdit(To(ed[e], "apply"))
                            /\ To(ed[e], "apply").pc = "apply"
    BY <2>1, GoesIs, ToIs, PoolsTyped, EditTyped
  <2>3. Ends(e) => Takes(e, Rest) /\ IsEdit(Rest) /\ Rest.pc = "rest"
    BY EndsIs, RestIs
  <2> QED
    BY <2>2, <2>3 DEF Publish
<1>6. PoolsOnTheWay(web', x, pool', removed', torn', NamesIn(conf'.list))
  BY <1>4, <1>5, RestsSafe
<1> QED
  BY <1>4, <1>5, <1>6, PublishTyped, PoolsTyped, PoolsKept

LEMMA ApplyKeeps ==
  ASSUME PoolsInv, \A e, f \in Editors : e = f, NEW e \in Editors, Apply(e)
  PROVE  PoolsInv'
<1>1. ed[e].pc = "apply" /\ UNCHANGED <<web, conf, rows, pool, removed, torn>>
  BY DEF Apply
<1>2. ~web => Held(pool, removed, torn, NamesIn(conf.list))
  BY <1>1, PoolsTyped DEF PoolsOnTheWay, Known
<1>3. /\ Live(pool', removed', torn', RowNames(rows'))
      /\ ~web' => Held(pool', removed', torn', NamesIn(conf'.list))
  BY <1>1, <1>2, LiveStays
<1>4. PICK x : IsEdit(x) /\ Takes(e, x) /\ x.pc \in {"rest", "save"}
  <2>1. "save" \in Places
    BY DEF Places
  <2>2. Goes(e, "save") => Takes(e, To(ed[e], "save")) /\ IsEdit(To(ed[e], "save"))
                           /\ To(ed[e], "save").pc = "save"
    BY <2>1, GoesIs, ToIs, PoolsTyped, EditTyped
  <2>3. Ends(e) => Takes(e, Rest) /\ IsEdit(Rest) /\ Rest.pc = "rest"
    BY EndsIs, RestIs
  <2> QED
    BY <2>2, <2>3 DEF Apply
<1>5. PoolsOnTheWay(web', x, pool', removed', torn', NamesIn(conf'.list))
  BY <1>3, <1>4, RestsSafe
<1> QED
  BY <1>3, <1>4, <1>5, ApplyTyped, PoolsTyped, PoolsKept

LEMMA SaveKeeps ==
  ASSUME PoolsInv, \A e, f \in Editors : e = f, NEW e \in Editors, Save(e)
  PROVE  PoolsInv'
<1>1. ed[e].pc = "save" /\ ~web /\ UNCHANGED <<web, conf, removed, torn>>
  BY PoolsTyped, EditTyped DEF Save, FlowOf
<1>2. Held(pool, removed, torn, NamesIn(conf.list))
  BY <1>1, PoolsTyped DEF PoolsOnTheWay, Known
<1>3. Takes(e, Rest)
  BY EndsIs, FailsIs, PoolsTyped DEF Save
<1>4. conf.list \in Seq(Endpoint) /\ Unique(conf.list)
  BY PoolsTyped DEF ListsTyped
<1>5. SavedUpTo(conf.list, Len(conf.list), Stale(conf.list)) \/ SavedPartly(conf.list)
  BY DEF Save
<1>6. /\ Live(pool', removed', torn', RowNames(rows'))
      /\ Held(pool', removed', torn', NamesIn(conf'.list))
  <2>1. /\ Live(pool', removed', torn', RowNames(rows'))
        /\ \A ms : Held(pool, removed', torn', ms) => Held(pool', removed', torn', ms)
    BY <1>1, <1>2, <1>4, <1>5, SavesKeep
  <2> QED
    BY <1>1, <1>2, <2>1
<1>7. PoolsOnTheWay(web', Rest, pool', removed', torn', NamesIn(conf'.list))
  BY <1>6, RestIs, RestsSafe
<1> QED
  BY <1>3, <1>6, <1>7, RestIs, SaveTyped, PoolsTyped, PoolsKept

LEMMA StoreNameKeeps ==
  ASSUME PoolsInv, \A e, f \in Editors : e = f, NEW e \in Editors, StoreName(e)
  PROVE  PoolsInv'
<1> DEFINE old == ed[e].old
           new == ed[e].new
           ns == NamesIn(ed[e].list)
<1>1. /\ ed[e].pc = "store" /\ ~web /\ UNCHANGED <<web, conf, removed, torn>>
      /\ old \in Names /\ new \in Names /\ ed[e].list \in Seq(Endpoint)
  BY PoolsTyped, EditTyped DEF StoreName, FlowOf, Described
<1>2. /\ Held(pool, removed, torn, NamesIn(conf.list))
      /\ new \in ns /\ NamesIn(conf.list) \ {old} \subseteq ns
  BY <1>1, PoolsTyped DEF PoolsOnTheWay, Known
<1> DEFINE x == To(ed[e], "clone")
<1>3. "clone" \in Places
  BY DEF Places
<1>4. Goes(e, "clone") => Takes(e, x)
  BY GoesIs, PoolsTyped, EditTyped
<1>5. IsEdit(x) /\ x.pc = "clone" /\ x.old = old /\ x.new = new /\ x.list = ed[e].list
  BY <1>3, ToIs, PoolsTyped, EditTyped
<1> HIDE DEF x
<1>6. CASE CanRename(old, new) /\ Renamed(ed[e]) /\ Goes(e, "clone") /\ old # new
  <2>1. Live(pool', removed', torn', RowNames(rows')) /\ Held(pool', removed', torn', ns)
    <3>1. /\ Live(pool', removed', torn', RowNames(rows'))
          /\ \A ms, ks : /\ Held(pool, removed, torn, ms) /\ new \in ks /\ ms \ {old} \subseteq ks
                         => Held(pool', removed', torn', ks)
      BY <1>1, <1>2, <1>6, RenameKeeps
    <3> QED
      BY <1>2, <3>1
  <2>2. PoolsOnTheWay(web', x, pool', removed', torn', NamesIn(conf'.list))
    BY <1>5, <1>6, <2>1 DEF PoolsOnTheWay, Known
  <2> QED
    BY <1>4, <1>5, <1>6, <2>1, <2>2, StoreNameTyped, PoolsTyped, PoolsKept
<1>7. CASE old = new /\ Goes(e, "clone") /\ UNCHANGED <<rows, pool>>
  <2>1. Held(pool, removed, torn, ns)
    BY <1>2, <1>7 DEF Held
  <2>2. /\ Live(pool', removed', torn', RowNames(rows')) /\ Held(pool', removed', torn', ns)
        /\ Held(pool', removed', torn', NamesIn(conf'.list))
    BY <1>1, <1>2, <1>7, <2>1, LiveStays
  <2>3. PoolsOnTheWay(web', x, pool', removed', torn', NamesIn(conf'.list))
    BY <1>5, <2>2 DEF PoolsOnTheWay
  <2> QED
    BY <1>4, <1>5, <1>7, <2>2, <2>3, StoreNameTyped, PoolsTyped, PoolsKept
<1>8. CASE Takes(e, Rest) /\ UNCHANGED <<rows, pool>>
  <2>1. /\ Live(pool', removed', torn', RowNames(rows'))
        /\ Held(pool', removed', torn', NamesIn(conf'.list))
    BY <1>1, <1>2, <1>8, LiveStays
  <2>2. PoolsOnTheWay(web', Rest, pool', removed', torn', NamesIn(conf'.list))
    BY <2>1, RestIs, RestsSafe
  <2> QED
    BY <1>8, <2>1, <2>2, RestIs, StoreNameTyped, PoolsTyped, PoolsKept
<1>9. \/ CanRename(old, new) /\ Renamed(ed[e]) /\ Goes(e, "clone") /\ old # new
      \/ old = new /\ Goes(e, "clone") /\ UNCHANGED <<rows, pool>>
      \/ (Ends(e) \/ Fails(e)) /\ UNCHANGED <<rows, pool>>
  BY Zenon DEF StoreName
<1> QED
  BY <1>6, <1>7, <1>8, <1>9, EndsIs, FailsIs, PoolsTyped

LEMMA StoreCloneKeeps ==
  ASSUME PoolsInv, \A e, f \in Editors : e = f, NEW e \in Editors, StoreClone(e)
  PROVE  PoolsInv'
<1> DEFINE s == ed[e].list
<1>1. /\ ed[e].pc = "clone" /\ ~web /\ UNCHANGED <<web, conf, removed>>
      /\ s \in Seq(Endpoint) /\ Unique(s)
  BY PoolsTyped, EditTyped DEF StoreClone, FlowOf
<1>2. /\ Held(pool, removed, torn, NamesIn(s))
      /\ ed[e].old = ed[e].new => Held(pool, removed, torn, NamesIn(conf.list))
  BY <1>1, PoolsTyped DEF PoolsOnTheWay, Known
<1>3. (SavedUpTo(s, Len(s), Stale(s)) \/ SavedPartly(s)) /\ (torn => torn')
  <2>1. SavedUpTo(s, Len(s), Stale(s)) \/ SavedPartly(s)
    BY DEF StoreClone
  <2>2. torn' = torn \/ torn' = (torn \/ ed[e].old # ed[e].new)
    BY Zenon DEF StoreClone
  <2>3. torn => torn'
    BY <2>2, Zenon
  <2> QED
    BY <2>1, <2>3
<1>4. /\ Live(pool', removed', torn', RowNames(rows'))
      /\ \A ms : Held(pool, removed', torn', ms) => Held(pool', removed', torn', ms)
  <2> HIDE DEF s
  <2> QED
    BY <1>1, <1>2, <1>3, SavesKeep
<1>5. CASE Goes(e, "replace") /\ UNCHANGED <<told, torn, left>>
  <2> DEFINE x == To(ed[e], "replace")
  <2>1. "replace" \in Places
    BY DEF Places
  <2>2. Takes(e, x) /\ IsEdit(x) /\ x.pc = "replace" /\ x.list = s
    BY <1>5, <2>1, GoesIs, ToIs, PoolsTyped, EditTyped
  <2> HIDE DEF x, s
  <2>3. Held(pool', removed', torn', NamesIn(x.list))
    BY <1>1, <1>2, <1>4, <1>5, <2>2
  <2>4. PoolsOnTheWay(web', x, pool', removed', torn', NamesIn(conf'.list))
    BY <2>2, <2>3 DEF PoolsOnTheWay, Known
  <2> QED
    BY <1>4, <2>2, <2>4, StoreCloneTyped, PoolsTyped, PoolsKept
<1>6. CASE Fails(e) /\ torn' = (torn \/ ed[e].old # ed[e].new)
  <2>1. Takes(e, Rest)
    BY <1>6, FailsIs, PoolsTyped
  <2>2. Held(pool, removed', torn', NamesIn(conf.list))
    BY <1>1, <1>2, <1>6 DEF Held
  <2>3. Held(pool', removed', torn', NamesIn(conf'.list))
    BY <1>1, <1>4, <2>2
  <2>4. PoolsOnTheWay(web', Rest, pool', removed', torn', NamesIn(conf'.list))
    BY <2>3, RestIs, RestsSafe
  <2> QED
    BY <1>4, <2>1, <2>4, RestIs, StoreCloneTyped, PoolsTyped, PoolsKept
<1> QED
  BY <1>5, <1>6 DEF StoreClone

LEMMA ReplaceKeeps ==
  ASSUME PoolsInv, \A e, f \in Editors : e = f, NEW e \in Editors, Replace(e)
  PROVE  PoolsInv'
<1>1. conf'.list = ed[e].list
  BY VersionTyped, PoolsTyped, EditTyped DEF Replace
<1>2. ed[e].pc = "replace" /\ UNCHANGED <<web, rows, pool, removed, torn>>
  BY DEF Replace
<1>3. ~web => Held(pool, removed, torn, NamesIn(conf'.list))
  BY <1>1, <1>2, PoolsTyped DEF PoolsOnTheWay
<1>4. /\ Live(pool', removed', torn', RowNames(rows'))
      /\ ~web' => Held(pool', removed', torn', NamesIn(conf'.list))
  BY <1>2, <1>3, LiveStays
<1> DEFINE x == To(ed[e], "apply")
<1>5. "apply" \in Places
  BY DEF Places
<1>6. Takes(e, x) /\ IsEdit(x) /\ x.pc = "apply"
  BY <1>5, GoesIs, ToIs, PoolsTyped, EditTyped DEF Replace
<1> HIDE DEF x
<1>7. PoolsOnTheWay(web', x, pool', removed', torn', NamesIn(conf'.list))
  BY <1>4, <1>6, RestsSafe
<1> QED
  BY <1>4, <1>6, <1>7, ReplaceTyped, PoolsTyped, PoolsKept

\* The web API changes the storage: only what it removes goes.
LEMMA WebStoresKeep ==
  ASSUME PoolsInv, NEW e \in Editors, ed[e].pc = "write", WebStores(ed[e]), UNCHANGED <<removed, torn>>
  PROVE  Live(pool', removed', torn', RowNames(rows'))
<1> DEFINE x == ed[e]
<1>1. /\ x.list \in Seq(Endpoint) /\ RowsOK(rows) /\ Described(x)
      /\ x.op = "remove" => \A o \in Origins : pool[o] = x.old => o \in removed
      /\ Live(pool, removed, torn, RowNames(rows))
  BY PoolsTyped, EditTyped DEF FlowOf, PoolsOnTheWay
<1>2. CASE UNCHANGED pool /\ RowNames(rows) \subseteq RowNames(rows')
  BY <1>1, <1>2, PoolsTyped DEF Live
<1>3. CASE x.op = "add" /\ WebAdds(x)
  BY <1>2, <1>3 DEF WebAdds, RowNames
<1>4. CASE x.op = "remove" /\ WebDeletes(x)
  <2>1. pool' = PoolWithout({x.old}) /\ RowNames(rows) \ {x.old} \subseteq RowNames(rows')
    BY <1>4 DEF WebDeletes, RowNames
  <2>2. \A o \in Origins : pool[o] \in {x.old} /\ pool[o] # "gone" => o \in removed' \/ torn'
    BY <1>1, <1>4
  <2> QED
    BY <2>1, <2>2, Pruned
<1>5. CASE x.op = "update" /\ WebUpdates(x)
  <2>1. x.old \in Names /\ x.new \in Names /\ x.new \in NamesIn(x.list)
    BY <1>1, <1>5 DEF Described
  <2>2. CASE x.old = x.new
    <3>1. rows' = WrittenInto(rows, x, x.old) /\ pool' = pool
      BY <1>5, <2>2 DEF WebUpdates, Written, WrittenInto
    <3>2. RowNames(rows) \subseteq RowNames(rows')
      BY <1>1, <2>1, <2>2, <3>1, WrittenTyped
    <3> QED
      BY <1>2, <3>1, <3>2
  <2>3. CASE x.old # x.new
    <3>1. CanRename(x.old, x.new) /\ Renamed(x)
      BY <1>5, <2>3 DEF WebUpdates
    <3> QED
      BY <1>1, <2>1, <3>1, RenameKeeps
  <2> QED
    BY <2>2, <2>3
<1>6. CASE x.op = "toggle" /\ WebToggles(x)
  <2>1. rows' = WrittenInto(rows, x, x.old) /\ pool' = pool
    BY <1>6 DEF WebToggles, Written, WrittenInto
  <2>2. RowNames(rows) \subseteq RowNames(rows')
    BY <1>1, <1>6, <2>1, WrittenTyped DEF Described
  <2> QED
    BY <1>1, <1>2, <2>1, <2>2
<1>7. CASE x.op = "reorder" /\ WebReorders(x)
  <2>1. rows' = ReorderedRows(rows, x) /\ pool' = pool
    BY <1>7 DEF WebReorders, ReorderedRows
  <2>2. RowNames(rows') = RowNames(rows)
    BY <1>1, <2>1, ReorderedTyped
  <2> QED
    BY <1>2, <2>1, <2>2
<1> QED
  BY <1>3, <1>4, <1>5, <1>6, <1>7 DEF WebStores

LEMMA WebWriteKeeps ==
  ASSUME PoolsInv, \A e, f \in Editors : e = f, NEW e \in Editors, WebWrite(e)
  PROVE  PoolsInv'
<1>1. ed[e].pc = "write" /\ web /\ UNCHANGED <<web, conf, removed, torn>>
  BY PoolsTyped, EditTyped DEF WebWrite, FlowOf
<1> DEFINE safe == Held(pool', removed', torn', NamesIn(conf'.list))
<1>2. ~web' => safe
  BY <1>1, Zenon
<1>3. CASE WebStores(ed[e]) /\ Takes(e, Asked(ed[e], Current))
  <2>1. PICK n \in Names \cup {"none"} : n = Current
    BY ViewTyped, PoolsTyped
  <2> DEFINE x == Asked(ed[e], n)
  <2>2. Takes(e, x) /\ IsEdit(x) /\ x.pc = "load"
    BY <1>3, <2>1, AskedIs, PoolsTyped, EditTyped
  <2> HIDE DEF x
  <2>3. Live(pool', removed', torn', RowNames(rows'))
    BY <1>1, <1>3, WebStoresKeep
  <2>4. PoolsOnTheWay(web', x, pool', removed', torn', NamesIn(conf'.list))
    BY <1>2, <2>2, RestsSafe
  <2> QED
    BY <2>2, <2>3, <2>4, WebWriteTyped, PoolsTyped, PoolsKept
<1>4. CASE Fails(e) /\ UNCHANGED <<rows, pool>>
  <2>1. Takes(e, Rest)
    BY <1>4, FailsIs, PoolsTyped
  <2>2. Live(pool', removed', torn', RowNames(rows'))
    BY <1>1, <1>4, LiveStays
  <2>3. PoolsOnTheWay(web', Rest, pool', removed', torn', NamesIn(conf'.list))
    BY <1>2, RestIs, RestsSafe
  <2> QED
    BY <2>1, <2>2, <2>3, RestIs, WebWriteTyped, PoolsTyped, PoolsKept
<1> QED
  BY <1>3, <1>4, WebWriteIs

LEMMA WebLoadKeeps ==
  ASSUME PoolsInv, \A e, f \in Editors : e = f, NEW e \in Editors, WebLoad(e)
  PROVE  PoolsInv'
<1>1. web /\ UNCHANGED <<web, conf, rows, pool, removed, torn>>
  BY PoolsTyped, EditTyped DEF WebLoad, FlowOf
<1>2. Live(pool', removed', torn', RowNames(rows'))
  BY <1>1, LiveStays
<1>3. PICK x : IsEdit(x) /\ Takes(e, x) /\ x.pc \in {"rest", "replace"}
  <2>1. CASE \E s \in Loadings(rows) : s \in Seq(Endpoint) /\ Unique(s) /\ Takes(e, Reloaded(ed[e], s))
    <3>1. PICK s \in Seq(Endpoint) : Unique(s) /\ Takes(e, Reloaded(ed[e], s))
      BY <2>1
    <3> QED
      BY <3>1, ReloadedIs, PoolsTyped, EditTyped
  <2>2. CASE Fails(e)
    BY <2>2, FailsIs, RestIs, PoolsTyped
  <2> QED
    BY <2>1, <2>2, WebLoadIs, PoolsTyped
<1>4. PoolsOnTheWay(web', x, pool', removed', torn', NamesIn(conf'.list))
  BY <1>1, <1>3 DEF PoolsOnTheWay
<1> QED
  BY <1>2, <1>3, <1>4, WebLoadTyped, PoolsTyped, PoolsKept

LEMMA OthersKeep ==
  ASSUME PoolsInv, Switch \/ \E r \in Readers : ReadSlowly(r) \/ FileSlowly(r)
  PROVE  PoolsInv'
<1>1. UNCHANGED <<web, conf, rows, pool, ed, removed, torn>>
  BY DEF Switch, ReadSlowly, FileSlowly
<1>2. BaseInv'
  BY SwitchTyped, ReadersTyped, PoolsTyped
<1> QED
  BY <1>1, <1>2 DEF PoolsInv

LEMMA RestartKeeps ==
  ASSUME PoolsInv, Restart
  PROVE  PoolsInv'
<1>1. UNCHANGED <<web, rows, pool, removed, torn>>
  BY DEF Restart
<1>2. (\A e \in Editors : ed'[e] = Rest) /\ NamesIn(conf'.list) = RowNames(rows)
  BY RestartIs, PoolsTyped
<1>3. /\ Live(pool', removed', torn', RowNames(rows'))
      /\ Held(pool', removed', torn', NamesIn(conf'.list))
  BY <1>1, <1>2, PoolsTyped DEF Live, Held
<1>4. \A e \in Editors : PoolsOnTheWay(web', ed'[e], pool', removed', torn', NamesIn(conf'.list))
  BY <1>2, <1>3, RestIs, RestsSafe
<1> QED
  BY <1>3, <1>4, RestartTyped, PoolsTyped DEF PoolsInv

LEMMA PoolsInitially == ListInit => PoolsInv
<1> SUFFICES ASSUME ListInit PROVE PoolsInv
  OBVIOUS
<1>1. pool = [o \in {"a", "b"} |-> o] /\ RowNames(rows) = {"a", "b"} /\ removed = {}
  BY DEF ListInit, RowNames
<1>2. conf.list = <<Plain("a"), Plain("b")>>
  BY DEF ListInit
<1>3. "a" \in NamesIn(conf.list) /\ "b" \in NamesIn(conf.list)
  <2>1. conf.list[1] = Plain("a") /\ conf.list[2] = Plain("b") /\ {1, 2} \subseteq DOMAIN conf.list
    BY <1>2
  <2> QED
    BY <2>1 DEF NamesIn, Plain
<1>4. "gone" \notin {"a", "b"}
  OBVIOUS
<1>5. Live(pool, removed, torn, RowNames(rows)) /\ Held(pool, removed, torn, NamesIn(conf.list))
  BY <1>1, <1>3, <1>4 DEF Live, Held, Origins
<1>6. \A e \in Editors : ed[e].pc = "rest"
  BY DEF ListInit, Rest
<1>7. \A e \in Editors : PoolsOnTheWay(web, ed[e], pool, removed, torn, NamesIn(conf.list))
  BY <1>5, <1>6, RestsSafe
<1> QED
  BY <1>5, <1>7, TypesInitially DEF PoolsInv

LEMMA PoolsStep ==
  ASSUME \A e, f \in Editors : e = f
  PROVE  PoolsInv /\ [ListNext]_listVars => PoolsInv'
<1> SUFFICES ASSUME PoolsInv, [ListNext]_listVars PROVE PoolsInv'
  OBVIOUS
<1>1. CASE UNCHANGED listVars
  <2>1. BaseInv'
    BY TypesStep, PoolsTyped
  <2> QED
    BY <1>1, <2>1 DEF listVars, PoolsInv
<1>2. ASSUME NEW e \in Editors,
             Begin(e) \/ Publish(e) \/ Apply(e) \/ Save(e) \/ StoreName(e) \/ StoreClone(e)
             \/ Replace(e) \/ WebWrite(e) \/ WebLoad(e)
      PROVE  PoolsInv'
  BY <1>2, BeginKeeps, PublishKeeps, ApplyKeeps, SaveKeeps, StoreNameKeeps, StoreCloneKeeps,
     ReplaceKeeps, WebWriteKeeps, WebLoadKeeps
<1> QED
  BY <1>1, <1>2, OthersKeep, RestartKeeps DEF ListNext

LEMMA PoolsHeld == PoolsInv => PoolsSurvive
BY PoolsTyped DEF PoolsSurvive, Live, RowNames

-----------------------------------------------------------------------------
(* The theorems                                                            *)

\* However edits overlap and requests switch the endpoint in between: while no
\* request files a stale snapshot, an edit that nothing else gets in the way of
\* leaves the proxy at the endpoint it was at, under the endpoint's new name,
\* and leaves stored what a restart loads (UpdateConfigPreservingCurrentName).
THEOREM EditsStayHeld == Readers = {} => (ListSpec => []EditsHold)
<1> SUFFICES ASSUME Readers = {} PROVE ListSpec => []EditsHold
  OBVIOUS
<1>1. ListInv /\ [ListNext]_listVars => ListInv'
  BY ListStep
<1> QED
  BY <1>1, ListInitially, EditsHeld, PTL DEF ListSpec

\* While edits come one after the other, no rename, failing save or restart
\* loses credentials of an endpoint that stays (RenameEndpoint).
THEOREM PoolsAlwaysSurvive == (\A e, f \in Editors : e = f) => (ListSpec => []PoolsSurvive)
<1> SUFFICES ASSUME \A e, f \in Editors : e = f PROVE ListSpec => []PoolsSurvive
  OBVIOUS
<1>1. PoolsInv /\ [ListNext]_listVars => PoolsInv'
  BY PoolsStep
<1> QED
  BY <1>1, PoolsInitially, PoolsHeld, PTL DEF ListSpec

\* What the run of one editor checks, for every number of edits and faults.
THEOREM ListStaysSound ==
  Readers = {} /\ (\A e, f \in Editors : e = f) => (ListSpec => []ListSound)
<1> SUFFICES ASSUME Readers = {}, \A e, f \in Editors : e = f PROVE ListSpec => []ListSound
  OBVIOUS
<1>1. ListTypeOK /\ EditsHold /\ PoolsSurvive => ListSound
  BY DEF ListSound
<1>2. (ListSpec => []EditsHold) /\ (ListSpec => []PoolsSurvive)
  BY EditsStayHeld, PoolsAlwaysSurvive
<1> QED
  BY <1>1, <1>2, ListStaysTyped, PTL
==============================================================================
