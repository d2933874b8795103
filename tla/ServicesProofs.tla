--------------------------- MODULE ServicesProofs ---------------------------
(***************************************************************************)
(* Endpoint health: what the breaker's window holds, when it is armed, and *)
(* when a cooldown ends.  Stamps are read before the lock is taken, so     *)
(* they may be out of order; what is proved rests on how far they may lag. *)
(* And the listener: what calls that overlap at every step leave of the    *)
(* address that is served, of the sockets, and of the stored settings.     *)
(* And the plan of a request: what it visits, and from where.              *)
(***************************************************************************)
EXTENDS EndpointHealth, Listener, PlanWalk, ListProofs

Event == [at : Nat, failure : BOOLEAN]

\* The window holds outcomes in the order they got the lock, so a stamp may be
\* later than one after it, but by no more than a stamp may lag; and none lies
\* in the future.
Ordered(s) == \A i, j \in DOMAIN s : i <= j => s[i].at <= s[j].at + Skew
Past(s) == \A i \in DOMAIN s : s[i].at <= now

\* What WindowIsRecent says of one endpoint.
Recent(s) == \A i, j \in DOMAIN s : Window > 0 => s[j].at <= s[i].at + Window + Skew

HealthInv ==
  /\ TypeOK /\ NeverOverdue
  /\ \A e \in Endpoints : Ordered(events[e]) /\ Past(events[e]) /\ Recent(events[e])

-----------------------------------------------------------------------------
(* The window                                                              *)

LEMMA Numbers ==
  /\ Window \in Nat /\ Skew \in Nat /\ Consecutive \in Nat
  /\ BreakerCooldown \in Nat /\ BreakerCooldown > 0
BY HealthAssumption

LEMMA StampTyped ==
  ASSUME TypeOK, NEW t \in Stamps
  PROVE  t \in Nat /\ t <= now /\ now <= t + Skew /\ now \in Nat
BY DEF Stamps, TypeOK

LEMMA Chain ==
  ASSUME NEW x \in Nat, NEW y \in Nat, NEW z \in Nat, NEW m \in Nat, NEW n \in Nat,
         y <= x + m, x <= z + n
  PROVE  y <= z + m + n
OBVIOUS

LEMMA EventTyped ==
  ASSUME NEW s \in Seq(Event), NEW i \in 1..Len(s)
  PROVE  s[i] \in Event /\ s[i].at \in Nat
<1>1. s[i] \in Event
  OBVIOUS
<1> QED
  BY <1>1 DEF Event

\* Pruning drops leading events only, and stops at one that is recent enough
\* (pruneEndpointCircuitEvents).
LEMMA PruneIsSuffix ==
  ASSUME NEW s \in Seq(Event), NEW t \in Nat, s # <<>>, s[Len(s)].at + Window >= t
  PROVE  \E k \in 1..Len(s) : s[k].at + Window >= t /\ Prune(s, t) = SubSeq(s, k, Len(s))
<1> DEFINE kept == {i \in DOMAIN s : s[i].at + Window >= t}
           k == CHOOSE i \in kept : \A j \in kept : i <= j
<1>1. kept \subseteq Nat /\ Len(s) \in kept
  OBVIOUS
<1>2. \E i \in kept : \A j \in kept : i <= j
  <2> HIDE DEF kept
  <2> QED
    BY <1>1, LeastMember
<1>3. k \in kept
  <2> HIDE DEF kept
  <2> QED
    BY <1>2
<1>4. Prune(s, t) = SubSeq(s, k, Len(s))
  BY <1>1 DEF Prune
<1>5. k \in 1..Len(s) /\ s[k].at + Window >= t
  BY <1>3
<1> HIDE DEF k
<1> QED
  BY <1>4, <1>5

\* A window that ends later than another is in order with it, for the clock
\* does not go back: an outcome is added at the end.
LEMMA OneMoreOutcome ==
  ASSUME TypeOK, NEW s \in Seq(Event), Ordered(s), Past(s),
         NEW new \in Event, new.at \in Stamps
  PROVE  LET longer == Append(s, new) IN
         /\ longer \in Seq(Event) /\ Len(longer) = Len(s) + 1
         /\ longer[Len(longer)] = new /\ \A i \in 1..Len(s) : longer[i] = s[i]
         /\ Ordered(longer) /\ Past(longer)
<1> DEFINE longer == Append(s, new)
           t == new.at
<1>1. t \in Nat /\ t <= now /\ now <= t + Skew /\ now \in Nat /\ Skew \in Nat
  BY StampTyped, Numbers
<1>2. /\ longer \in Seq(Event) /\ Len(longer) = Len(s) + 1 /\ longer[Len(longer)] = new
      /\ \A i \in 1..Len(s) : longer[i] = s[i]
      /\ Len(s) \in Nat
  BY AppendProperties
<1> HIDE DEF longer
<1>3. \A i \in 1..Len(longer) : i \in 1..Len(s) \/ i = Len(longer)
  BY <1>2
<1>4. \A i \in 1..Len(s) : /\ s[i].at <= now /\ s[i].at \in Nat
                          /\ \A j \in 1..Len(s) : i <= j => s[i].at <= s[j].at + Skew
  BY EventTyped DEF Ordered, Past
<1>5. DOMAIN longer = 1..Len(longer)
  BY <1>2
<1>6. Ordered(longer)
  <2> SUFFICES ASSUME NEW i \in 1..Len(longer), NEW j \in 1..Len(longer), i <= j
               PROVE  longer[i].at <= longer[j].at + Skew
    BY <1>5 DEF Ordered
  <2>1. CASE j \in 1..Len(s)
    <3>1. i \in 1..Len(s)
      BY <1>2, <2>1
    <3> QED
      BY <1>2, <1>4, <2>1, <3>1
  <2>2. CASE j = Len(longer) /\ i \in 1..Len(s)
    <3>1. longer[i] = s[i] /\ longer[j].at = t
      BY <1>2, <2>2
    <3>2. s[i].at <= now /\ s[i].at \in Nat
      BY <1>4, <2>2
    <3> QED
      BY <1>1, <3>1, <3>2
  <2>3. CASE j = Len(longer) /\ i = Len(longer)
    <3>1. longer[i].at = t /\ longer[j].at = t
      BY <1>2, <2>3
    <3> QED
      BY <1>1, <3>1
  <2> QED
    BY <1>3, <2>1, <2>2, <2>3
<1>7. Past(longer)
  <2> SUFFICES ASSUME NEW i \in 1..Len(longer) PROVE longer[i].at <= now
    BY <1>5 DEF Past
  <2> QED
    BY <1>1, <1>2, <1>3, <1>4
<1> QED
  BY <1>2, <1>6, <1>7 DEF longer

\* Dropping leading outcomes leaves the rest in order and in the past.
LEMMA SuffixInOrder ==
  ASSUME NEW s \in Seq(Event), Ordered(s), Past(s), NEW k \in 1..Len(s),
         NEW w, w = SubSeq(s, k, Len(s))
  PROVE  /\ w \in Seq(Event) /\ w # <<>> /\ w[Len(w)] = s[Len(s)]
         /\ DOMAIN w = 1..Len(w)
         /\ \A i \in 1..Len(w) : k + i - 1 \in k..Len(s) /\ w[i] = s[k + i - 1]
         /\ Ordered(w) /\ Past(w)
<1>1. Len(s) \in Nat /\ k \in Int /\ k <= Len(s) /\ DOMAIN s = 1..Len(s)
  OBVIOUS
<1>2. \A i \in k..Len(s) : s[i] \in Event
  BY <1>1
<1>3. /\ w \in Seq(Event) /\ Len(w) = Len(s) - k + 1
      /\ \A i \in 1..Len(s) - k + 1 : w[i] = s[k + i - 1]
  BY <1>1, <1>2, SubSeqProperties
<1>4. DOMAIN w = 1..Len(w) /\ w # <<>>
  BY <1>1, <1>3
<1>5. \A i \in 1..Len(w) : k + i - 1 \in k..Len(s) /\ w[i] = s[k + i - 1]
  BY <1>1, <1>3
<1>6. w[Len(w)] = s[Len(s)]
  <2>1. k + Len(w) - 1 = Len(s) /\ Len(w) \in 1..Len(w)
    BY <1>1, <1>3
  <2> QED
    BY <1>5, <2>1
<1>7. Ordered(w)
  <2> SUFFICES ASSUME NEW i \in 1..Len(w), NEW j \in 1..Len(w), i <= j
               PROVE  w[i].at <= w[j].at + Skew
    BY <1>4 DEF Ordered
  <2>1. /\ k + i - 1 \in DOMAIN s /\ k + j - 1 \in DOMAIN s
        /\ k + i - 1 <= k + j - 1
    BY <1>1, <1>5
  <2>2. s[k + i - 1].at <= s[k + j - 1].at + Skew
    BY <2>1 DEF Ordered
  <2> QED
    BY <1>5, <2>2
<1>8. Past(w)
  <2> SUFFICES ASSUME NEW i \in 1..Len(w) PROVE w[i].at <= now
    BY <1>4 DEF Past
  <2>1. k + i - 1 \in DOMAIN s
    BY <1>1, <1>5
  <2> QED
    BY <1>5, <2>1 DEF Past
<1> QED
  BY <1>3, <1>4, <1>5, <1>6, <1>7, <1>8

\* A window whose first outcome is recent enough for the last one, and which
\* was recent without the last one, is recent.
LEMMA FirstRecentEnough ==
  ASSUME NEW s \in Seq(Event), NEW longer \in Seq(Event), Recent(s), Ordered(longer),
         Len(longer) = Len(s) + 1, \A i \in 1..Len(s) : longer[i] = s[i],
         NEW k \in 1..Len(longer), longer[k].at + Window >= longer[Len(longer)].at,
         Window > 0
  PROVE  \A a, b \in k..Len(longer) : longer[b].at <= longer[a].at + Window + Skew
<1> SUFFICES ASSUME NEW a \in k..Len(longer), NEW b \in k..Len(longer)
             PROVE  longer[b].at <= longer[a].at + Window + Skew
  OBVIOUS
<1>0. /\ Len(s) \in Nat /\ k \in Nat /\ 1 <= k
      /\ DOMAIN s = 1..Len(s) /\ DOMAIN longer = 1..Len(longer)
  OBVIOUS
<1>1. a \in 1..Len(longer) /\ b \in 1..Len(longer) /\ k <= a
  BY <1>0
<1>2. \A i \in 1..Len(longer) : longer[i].at \in Nat
  BY EventTyped
<1>3. CASE b = Len(longer)
  <2>1. longer[k].at <= longer[a].at + Skew
    BY <1>0, <1>1 DEF Ordered
  <2>2. longer[k].at \in Nat /\ longer[a].at \in Nat /\ longer[b].at \in Nat
    BY <1>1, <1>2
  <2>3. longer[b].at <= longer[k].at + Window
    BY <1>3, <2>2, Numbers
  <2> QED
    BY <2>1, <2>2, <2>3, Numbers, Chain
<1>4. CASE b # Len(longer) /\ a # Len(longer)
  <2>1. a \in 1..Len(s) /\ b \in 1..Len(s)
    BY <1>0, <1>1, <1>4
  <2>2. s[b].at <= s[a].at + Window + Skew
    BY <1>0, <2>1 DEF Recent
  <2> QED
    BY <2>1, <2>2
<1>5. CASE b # Len(longer) /\ a = Len(longer)
  <2>1. longer[b].at <= longer[a].at + Skew
    BY <1>0, <1>1, <1>5 DEF Ordered
  <2>2. longer[a].at \in Nat /\ longer[b].at \in Nat
    BY <1>1, <1>2
  <2> QED
    BY <2>1, <2>2, Numbers
<1> QED
  BY <1>3, <1>4, <1>5

\* An outcome that gets the lock leaves a window in order, in the past, with
\* nothing old in it, and with the outcome at its end
\* (recordEndpointCircuitFailure, recordEndpointCircuitSuccess).
LEMMA RecordedIsRecent ==
  ASSUME TypeOK, NEW s \in Seq(Event), Ordered(s), Past(s), Recent(s),
         NEW t \in Stamps, NEW failed \in BOOLEAN,
         NEW w, w = Recorded(s, t, failed)
  PROVE  /\ w \in Seq(Event) /\ Ordered(w) /\ Past(w) /\ Recent(w)
         /\ w # <<>> /\ w[Len(w)].failure = failed
<1>0. [at |-> t, failure |-> failed] \in Event
  BY StampTyped DEF Event
<1>1. PICK new \in Event : new = [at |-> t, failure |-> failed]
  BY <1>0
<1>2. new.at = t /\ new.failure = failed
  BY <1>1
<1>3. PICK longer : longer = Append(s, new)
  OBVIOUS
<1>4. /\ longer \in Seq(Event) /\ Len(longer) = Len(s) + 1
      /\ longer[Len(longer)] = new /\ \A i \in 1..Len(s) : longer[i] = s[i]
      /\ Ordered(longer) /\ Past(longer)
  BY <1>2, <1>3, OneMoreOutcome
<1>5. CASE ~(Window > 0)
  <2>1. w = longer
    BY <1>1, <1>3, <1>5 DEF Recorded
  <2>2. longer # <<>>
    BY <1>4
  <2> QED
    BY <1>2, <1>4, <1>5, <2>1, <2>2 DEF Recent
<1>6. CASE Window > 0
  <2>1. w = Prune(longer, t)
    BY <1>1, <1>3, <1>6 DEF Recorded
  <2>2. longer # <<>> /\ longer[Len(longer)].at + Window >= t /\ t \in Nat
    BY <1>2, <1>4, StampTyped, Numbers
  <2>3. PICK k \in 1..Len(longer) :
          longer[k].at + Window >= t /\ w = SubSeq(longer, k, Len(longer))
    BY <1>4, <2>1, <2>2, PruneIsSuffix
  <2>4. /\ w \in Seq(Event) /\ w # <<>> /\ w[Len(w)] = longer[Len(longer)]
        /\ DOMAIN w = 1..Len(w)
        /\ \A i \in 1..Len(w) : k + i - 1 \in k..Len(longer) /\ w[i] = longer[k + i - 1]
        /\ Ordered(w) /\ Past(w)
    BY <1>4, <2>3, SuffixInOrder
  <2>5. \A a, b \in k..Len(longer) : longer[b].at <= longer[a].at + Window + Skew
    BY <1>2, <1>4, <1>6, <2>3, FirstRecentEnough
  <2>6. Recent(w)
    BY <2>4, <2>5 DEF Recent
  <2> QED
    BY <1>2, <1>4, <2>4, <2>6
<1> QED
  BY <1>5, <1>6

-----------------------------------------------------------------------------
(* The breaker                                                             *)

\* What the invariant says of an endpoint whose breaker has counted n failures
\* in a row and holds the window s.
Armed(n, s) == /\ Consecutive > 0 => n < Consecutive
               /\ s # <<>> /\ s[Len(s)].failure => ~OverRate(s)
InOrder(s) == Ordered(s) /\ Past(s) /\ Recent(s)

LEMMA InvParts ==
  HealthInv <=> /\ TypeOK
                /\ \A e \in Endpoints : /\ Armed(consecutive[e], events[e])
                                        /\ InOrder(events[e])
BY DEF HealthInv, NeverOverdue, Armed, InOrder

\* A step that changes the breaker of one endpoint.
LEMMA OneBreaker ==
  ASSUME HealthInv, NEW e \in Endpoints, NEW n \in Nat, NEW s \in Seq(Event),
         consecutive' = [consecutive EXCEPT ![e] = n],
         events' = [events EXCEPT ![e] = s],
         now' = now, until' = until, todo' \in [Workers -> Todo],
         Armed(n, s), InOrder(s)
  PROVE  HealthInv'
<1>1. TypeOK'
  BY DEF HealthInv, TypeOK, Event
<1>2. \A d \in Endpoints : /\ consecutive'[d] = IF d = e THEN n ELSE consecutive[d]
                           /\ events'[d] = IF d = e THEN s ELSE events[d]
  BY DEF HealthInv, TypeOK
<1>3. \A d \in Endpoints : Armed(consecutive'[d], events'[d]) /\ InOrder(events'[d])
  BY <1>2, InvParts
<1>4. \A d \in Endpoints : InOrder(events[d])'
  BY <1>3 DEF InOrder, Ordered, Past, Recent
<1>5. \A d \in Endpoints : Armed(consecutive[d], events[d])'
  BY <1>3 DEF Armed
<1> QED
  BY <1>1, <1>4, <1>5 DEF HealthInv, NeverOverdue, Armed, InOrder

LEMMA EmptyWindow == Ordered(<<>>) /\ Past(<<>>) /\ Recent(<<>>)
BY DEF Ordered, Past, Recent

LEMMA FailureKeepsInv ==
  ASSUME HealthInv, NEW w \in Workers, NEW e \in Endpoints, RecordFailure(w, e)
  PROVE  HealthInv'
<1>1. PICK t \in Stamps :
        LET n == consecutive[e] + 1
            s == Recorded(events[e], t, TRUE)
        IN \/ /\ Trips(n, s)
              /\ consecutive' = [consecutive EXCEPT ![e] = 0]
              /\ events' = [events EXCEPT ![e] = <<>>]
              /\ todo' = [todo EXCEPT ![w] = [what |-> "trip", at |-> e]]
           \/ /\ ~Trips(n, s)
              /\ consecutive' = [consecutive EXCEPT ![e] = n]
              /\ events' = [events EXCEPT ![e] = s]
              /\ UNCHANGED todo
  BY DEF RecordFailure
<1>2. PICK n \in Nat : n = consecutive[e] + 1
  BY DEF HealthInv, TypeOK
<1>3. PICK s : s = Recorded(events[e], t, TRUE)
  OBVIOUS
<1>4. s \in Seq(Event) /\ Ordered(s) /\ Past(s) /\ Recent(s)
  <2>1. TypeOK /\ events[e] \in Seq(Event)
    BY DEF HealthInv, TypeOK, Event
  <2>2. Ordered(events[e]) /\ Past(events[e]) /\ Recent(events[e])
    BY DEF HealthInv
  <2> QED
    BY <1>3, <2>1, <2>2, RecordedIsRecent
<1>t. [what |-> "trip", at |-> e] \in Todo /\ todo \in [Workers -> Todo]
  BY DEF Todo, HealthInv, TypeOK
<1>5. todo' \in [Workers -> Todo] /\ now' = now /\ until' = until
  <2>1. todo' = todo \/ todo' = [todo EXCEPT ![w] = [what |-> "trip", at |-> e]]
    BY <1>1
  <2> QED
    BY <1>t, <2>1 DEF RecordFailure
<1>6. CASE /\ consecutive' = [consecutive EXCEPT ![e] = 0]
           /\ events' = [events EXCEPT ![e] = <<>>]
  <2>1. Armed(0, <<>>) /\ InOrder(<<>>)
    BY Numbers, EmptyWindow DEF Armed, InOrder
  <2>2. <<>> \in Seq(Event) /\ 0 \in Nat
    OBVIOUS
  <2> QED
    BY <1>5, <1>6, <2>1, <2>2, OneBreaker
<1>7. CASE /\ ~Trips(n, s)
           /\ consecutive' = [consecutive EXCEPT ![e] = n]
           /\ events' = [events EXCEPT ![e] = s]
  <2>1. Armed(n, s)
    BY <1>7, Numbers DEF Armed, Trips
  <2>2. InOrder(s)
    BY <1>4 DEF InOrder
  <2> QED
    BY <1>4, <1>5, <1>7, <2>1, <2>2, OneBreaker
<1> QED
  BY <1>1, <1>2, <1>3, <1>6, <1>7

LEMMA SuccessKeepsInv ==
  ASSUME HealthInv, NEW w \in Workers, RecordSuccess(w)
  PROVE  HealthInv'
<1>0. todo[w].what = "succeed" /\ todo[w] \in Todo
  BY DEF RecordSuccess, HealthInv, TypeOK
<1>1. PICK e \in Endpoints : e = todo[w].at
  BY <1>0 DEF Todo, Idle
<1>2. PICK t \in Stamps :
        events' = IF Window > 0
                  THEN [events EXCEPT ![e] = Recorded(events[e], t, FALSE)] ELSE events
  BY <1>1 DEF RecordSuccess
<1>3. TypeOK /\ events[e] \in Seq(Event) /\ InOrder(events[e])
      /\ Armed(consecutive[e], events[e])
  BY InvParts DEF HealthInv, TypeOK, Event
<1>4. PICK s : s = IF Window > 0 THEN Recorded(events[e], t, FALSE) ELSE events[e]
  OBVIOUS
<1>5. s \in Seq(Event) /\ InOrder(s) /\ Armed(0, s)
  <2>1. CASE Window > 0
    <3>1. /\ s \in Seq(Event) /\ Ordered(s) /\ Past(s) /\ Recent(s)
          /\ s[Len(s)].failure = FALSE
      BY <1>3, <1>4, <2>1, RecordedIsRecent DEF InOrder
    <3> QED
      BY <3>1, Numbers DEF InOrder, Armed
  <2>2. CASE ~(Window > 0)
    <3>1. s = events[e]
      BY <1>4, <2>2
    <3>2. ~OverRate(s)
      BY <2>2 DEF OverRate
    <3> QED
      BY <1>3, <3>1, <3>2, Numbers DEF Armed
  <2> QED
    BY <2>1, <2>2
<1>6. events' = [events EXCEPT ![e] = s]
  BY <1>2, <1>3, <1>4 DEF TypeOK
<1>7. consecutive' = [consecutive EXCEPT ![e] = 0]
  BY <1>1 DEF RecordSuccess
<1>8. todo' \in [Workers -> Todo] /\ now' = now /\ until' = until
  BY <1>3 DEF RecordSuccess, TypeOK, Todo
<1> QED
  BY <1>5, <1>6, <1>7, <1>8, OneBreaker

\* A step that leaves the breakers alone, and the clock or its going on.
LEMMA BreakerUntouched ==
  ASSUME HealthInv, UNCHANGED breaker, now' \in Nat, now' >= now,
         until' \in [Endpoints -> Nat], todo' \in [Workers -> Todo]
  PROVE  HealthInv'
<1>1. TypeOK'
  BY DEF HealthInv, TypeOK, breaker
<1>2. NeverOverdue'
  BY DEF HealthInv, NeverOverdue, breaker
<1>3. ASSUME NEW e \in Endpoints
      PROVE  Ordered(events[e])' /\ Past(events[e])' /\ Recent(events[e])'
  <2>1. events' = events /\ events[e] \in Seq(Event) /\ now \in Nat
    BY DEF breaker, HealthInv, TypeOK, Event
  <2>2. Ordered(events[e])' /\ Recent(events[e])'
    BY <2>1 DEF HealthInv, Ordered, Recent
  <2>3. \A i \in DOMAIN events[e] : events[e][i].at <= now /\ events[e][i].at \in Nat
    BY <2>1, EventTyped DEF HealthInv, Past
  <2>4. Past(events[e])'
    BY <2>1, <2>3 DEF Past
  <2> QED
    BY <2>2, <2>4
<1> QED
  BY <1>1, <1>2, <1>3 DEF HealthInv

-----------------------------------------------------------------------------
(* The cooldowns                                                           *)

\* A mark leaves the longer of two deadlines (markEndpointCooldown).
LEMMA MarkTyped ==
  ASSUME TypeOK, NEW e \in Endpoints, NEW t \in Stamps, NEW d \in Nat, Mark(e, t, d)
  PROVE  /\ until' \in [Endpoints -> Nat]
         /\ \A o \in Endpoints : until'[o] >= until[o]
<1>1. until[e] \in Nat /\ t + d \in Nat
  BY StampTyped DEF TypeOK
<1>2. Longer(until[e], t + d) \in Nat /\ Longer(until[e], t + d) >= until[e]
  BY <1>1 DEF Longer
<1>3. until' = [until EXCEPT ![e] = Longer(until[e], t + d)]
  BY DEF Mark
<1> HIDE DEF Longer
<1> QED
  BY <1>2, <1>3 DEF TypeOK

\* What a step may do to the deadlines: it makes them later, or clears one, or
\* drops those that have run out.
LEMMA DeadlineSteps ==
  ASSUME TypeOK, Next
  PROVE  /\ until' \in [Endpoints -> Nat]
         /\ \/ \A e \in Endpoints : until'[e] >= until[e]
            \/ \E e \in Endpoints :
                 /\ until' = [until EXCEPT ![e] = 0]
                 /\ ClearedByHand(e) \/ \E w \in Workers : Succeed(w, e)
            \/ \E t \in Stamps :
                 until' = [e \in Endpoints |-> IF until[e] > t THEN until[e] ELSE 0]
<1>0. until \in [Endpoints -> Nat]
  BY DEF TypeOK
<1>1. ASSUME NEW w \in Workers, Isolate(w)
      PROVE  /\ until' \in [Endpoints -> Nat]
             /\ \A e \in Endpoints : until'[e] >= until[e]
  <2>1. todo[w].at \in Endpoints
    BY <1>1 DEF Isolate, TypeOK, Todo, Idle
  <2> QED
    BY <1>1, <2>1, MarkTyped, Numbers DEF Isolate
<1>2. ASSUME NEW w \in Workers, NEW e \in Endpoints, Cool(w, e)
      PROVE  /\ until' \in [Endpoints -> Nat]
             /\ \A o \in Endpoints : until'[o] >= until[o]
  <2>1. Durations \subseteq Nat
    BY HealthAssumption
  <2> QED
    BY <1>2, <2>1, MarkTyped DEF Cool
<1>3. ASSUME NEW e \in Endpoints, NEW w \in Workers, Succeed(w, e) \/ ClearedByHand(e)
      PROVE  until' \in [Endpoints -> Nat] /\ until' = [until EXCEPT ![e] = 0]
  BY <1>0, <1>3 DEF Succeed, ClearedByHand, Clear
<1>4. ASSUME NEW e \in Endpoints, ClearedByHand(e)
      PROVE  until' \in [Endpoints -> Nat] /\ until' = [until EXCEPT ![e] = 0]
  BY <1>0, <1>4 DEF ClearedByHand, Clear
<1>5. CASE PlanRequest
  <2>1. PICK t \in Stamps :
          until' = [e \in Endpoints |-> IF until[e] > t THEN until[e] ELSE 0]
    BY <1>5 DEF PlanRequest
  <2> QED
    BY <1>0, <2>1
<1>6. CASE until' = until
  BY <1>0, <1>6
<1>7. \A w \in Workers : RecordSuccess(w) => until' = until
  BY DEF RecordSuccess
<1>8. \A w \in Workers, e \in Endpoints : RecordFailure(w, e) => until' = until
  BY DEF RecordFailure
<1>9. Tick => until' = until
  BY DEF Tick
<1> QED
  BY <1>1, <1>2, <1>3, <1>4, <1>5, <1>6, <1>7, <1>8, <1>9 DEF Next, Finish

\* Every step keeps the invariant.
LEMMA HealthStep == HealthInv /\ [Next]_vars => HealthInv'
<1> SUFFICES ASSUME HealthInv, [Next]_vars PROVE HealthInv'
  OBVIOUS
<1>0. TypeOK /\ now \in Nat /\ until \in [Endpoints -> Nat] /\ todo \in [Workers -> Todo]
  BY DEF HealthInv, TypeOK
<1>1. Next => until' \in [Endpoints -> Nat]
  BY <1>0, DeadlineSteps
<1>2. Idle \in Todo /\ \A e \in Endpoints : [what |-> "succeed", at |-> e] \in Todo
  BY DEF Todo
<1>3. ASSUME UNCHANGED <<now, breaker>>, Next, todo' \in [Workers -> Todo] PROVE HealthInv'
  BY <1>0, <1>1, <1>3, BreakerUntouched
<1>4. ASSUME NEW w \in Workers, Isolate(w) PROVE HealthInv'
  <2>1. todo' \in [Workers -> Todo]
    BY <1>0, <1>2, <1>4 DEF Isolate
  <2> QED
    BY <1>3, <1>4, <2>1 DEF Isolate, Next, Finish
<1>5. ASSUME NEW w \in Workers, NEW e \in Endpoints, Cool(w, e) \/ Succeed(w, e)
      PROVE  HealthInv'
  <2>1. todo' \in [Workers -> Todo]
    BY <1>0, <1>2, <1>5 DEF Cool, Succeed
  <2> QED
    BY <1>3, <1>5, <2>1 DEF Cool, Succeed, Next
<1>6. ASSUME NEW e \in Endpoints, ClearedByHand(e) PROVE HealthInv'
  BY <1>0, <1>3, <1>6 DEF ClearedByHand, Next
<1>7. CASE PlanRequest
  BY <1>0, <1>3, <1>7 DEF PlanRequest, Next
<1>8. CASE Tick
  <2>1. now' \in Nat /\ now' >= now
    BY <1>0, <1>8 DEF Tick
  <2>2. UNCHANGED breaker /\ until' = until /\ todo' = todo
    BY <1>8 DEF Tick
  <2> QED
    BY <1>0, <2>1, <2>2, BreakerUntouched
<1>9. CASE UNCHANGED vars
  <2>1. UNCHANGED breaker /\ now' = now /\ until' = until /\ todo' = todo
    BY <1>9 DEF vars, breaker
  <2> QED
    BY <1>0, <2>1, BreakerUntouched
<1> QED
  BY <1>4, <1>5, <1>6, <1>7, <1>8, <1>9, FailureKeepsInv, SuccessKeepsInv
     DEF Next, Finish

LEMMA HealthInit == Init => HealthInv
<1> SUFFICES ASSUME Init PROVE HealthInv
  OBVIOUS
<1>1. Idle \in Todo /\ <<>> \in Seq([at : Nat, failure : BOOLEAN]) /\ 0 \in Nat
  BY DEF Todo
<1>2. TypeOK
  BY <1>1 DEF Init, TypeOK
<1>3. \A e \in Endpoints : events[e] = <<>> /\ consecutive[e] = 0
  BY DEF Init
<1>4. Armed(0, <<>>) /\ InOrder(<<>>)
  BY Numbers, EmptyWindow DEF Armed, InOrder
<1> QED
  BY <1>2, <1>3, <1>4, InvParts

LEMMA HealthHolds == Spec => []HealthInv
BY HealthInit, HealthStep, PTL DEF Spec

\* Whatever the order in which concurrent requests report their outcomes, a run
\* of failures that reaches the limit has tripped the breaker, a window over
\* the rate never ends with a failure, and nothing in the window is older than
\* the window and the lag of the stamps allow (recordEndpointCircuitFailure,
\* pruneEndpointCircuitEvents).
THEOREM BreakerStaysSound == Spec => []BreakerSound
<1>1. HealthInv => BreakerSound
  BY DEF HealthInv, BreakerSound, WindowIsRecent, Recent
<1> QED
  BY <1>1, HealthHolds, PTL

\* A cooldown is never cut short, and one that is running ends early only by a
\* success or by hand: not by a late plan, a late isolation or another failure
\* (markEndpointCooldown, clearEndpointCooldown).
THEOREM CooldownsAlwaysStand == Spec => CooldownsStand
<1>1. HealthInv /\ [Next]_vars =>
        [\A e \in Endpoints : until'[e] < until[e] => until'[e] = 0]_vars
  <2> SUFFICES ASSUME HealthInv, Next, NEW e \in Endpoints, until'[e] < until[e]
               PROVE  until'[e] = 0
    OBVIOUS
  <2>1. TypeOK /\ until \in [Endpoints -> Nat]
    BY DEF HealthInv, TypeOK
  <2> QED
    BY <2>1, DeadlineSteps
<1>2. HealthInv /\ [Next]_vars =>
        [\A e \in Endpoints : until[e] > now /\ until'[e] = 0 =>
           \/ \E w \in Workers : Succeed(w, e)
           \/ ClearedByHand(e)]_vars
  <2> SUFFICES ASSUME HealthInv, Next, NEW e \in Endpoints, until[e] > now, until'[e] = 0
               PROVE  (\E w \in Workers : Succeed(w, e)) \/ ClearedByHand(e)
    OBVIOUS
  <2>1. TypeOK /\ until \in [Endpoints -> Nat] /\ now \in Nat
    BY DEF HealthInv, TypeOK
  <2>2. CASE \A o \in Endpoints : until'[o] >= until[o]
    BY <2>1, <2>2
  <2>3. ASSUME NEW t \in Stamps,
               until' = [o \in Endpoints |-> IF until[o] > t THEN until[o] ELSE 0]
        PROVE  FALSE
    BY <2>1, <2>3, StampTyped
  <2>4. ASSUME NEW o \in Endpoints, until' = [until EXCEPT ![o] = 0] PROVE o = e
    BY <2>1, <2>4
  <2> QED
    BY <2>1, <2>2, <2>3, <2>4, DeadlineSteps
<1> QED
  BY <1>1, <1>2, HealthHolds, PTL DEF Spec, CooldownsStand, NeverShortened, EndsEarlyOnlyWhenTold

-----------------------------------------------------------------------------
(* The listener and the settings.  What is in memory, what is listened at  *)
(* and what is stored are changed under different locks; the invariant     *)
(* says how far each may be from the others at every step of a call.       *)

Texts == {"", Absent, "light", "dark", "u", "w", "d", "e", "b"}
FullBackups == [provider : {"", "local", "s3", "webdav"}, optin : BOOLEAN, local : Texts, s3 : Texts]
Backups == FullBackups \cup {NilBackup}
Configs == [port : Ports, mode : Modes, pref : Texts, proxy : Texts, webdav : Texts,
            backup : Backups, locked : BOOLEAN]
Rows == [port : Ports \cup {0}, mode : Modes \cup {""}, pref : Texts, proxy : Texts, webdav : Texts,
         provider : {"", "local", "s3", "webdav"}, optin : BOOLEAN, local : Texts, s3 : Texts]
Steps == Ended \cup {"read", "bind", "undo", "again", "save", "back", "backagain", "store", "replace"}
Listening == (Modes \X Ports) \cup {AnyAddr}

\* A call is at a step its kind has, with an argument of its kind.
CallTyped(r) ==
  /\ r.pc \in Steps /\ r.kind \in CallKinds /\ r.want \in Wants(r.kind)
  /\ r.old \in Configs /\ r.before \in Rows /\ r.alone \in BOOLEAN
  /\ r.pc \in {"store", "replace"} => r.kind = "whole"
  /\ r.pc \in {"read", "bind", "save"} => r.kind # "whole"
  /\ r = [pc |-> r.pc, kind |-> r.kind, want |-> r.want, old |-> r.old,
          before |-> r.before, alone |-> r.alone]

ListenerTypes ==
  /\ cfg \in Configs /\ settings \in Rows
  /\ change = [c \in Changers |-> change[c]] /\ \A c \in Changers : CallTyped(change[c])
  /\ server \in [state : {"none", "up", "stopped"}, ln : Listening \cup {NoAddr},
                 addr : Listening \cup {NoAddr}, late : BOOLEAN]
  /\ sockets \subseteq [at : Listening, on : BOOLEAN]
  /\ taken \subseteq Ports
  /\ desk \in [started : BOOLEAN, starting : Nat]
  /\ clean \in BOOLEAN /\ gap \in {"none", "failed", "dead"}

\* The address listened at follows the configured one: it differs only while a
\* call is about to rebind, and the listener is there unless it has failed.
Rebinding == \E c \in Changers : change[c].pc \in {"bind", "again", "backagain"}
Served ==
  Serving =>
    /\ gap = "none" => Rebinding \/ server.addr = Address(cfg)
    /\ server.addr # NoAddr =>
         /\ server.ln = server.addr
         /\ gap = "dead" \/ \E s \in sockets : s.at = server.ln

\* Without a server no accept loop runs; with one, every socket is its own.
OwnSockets ==
  /\ ~Serving => \A s \in sockets : ~s.on
  /\ Serving /\ ~server.late => \A s \in sockets : s.at = server.ln

\* What a call that runs alone finds at each of its steps.
Finds(r, c, rows) ==
  /\ r.pc = "read" => c = r.old /\ (r.kind = "net" /\ c.locked => r.want[2] = c.port)
  /\ r.pc \in {"read", "bind", "undo", "again", "unbound"} => rows = r.before
  /\ r.pc \in {"bind", "undo", "save", "ok"} /\ r.kind = "net" => Address(c) = r.want
  /\ r.pc \in {"bind", "undo"} /\ c.locked => c.port = r.old.port
  /\ r.pc \in {"again", "unbound"} => Address(c) = Address(r.old)
  /\ r.pc = "ok" /\ r.kind = "net" => Address(Loaded(rows)) = r.want
Alone ==
  \A c \in Changers : change[c].alone =>
    /\ \A d \in Changers : d # c => ~InFlight(d)
    /\ Finds(change[c], cfg, settings)

Stored(c, rows) == \A key \in Saves(c) : rows[key] = ValueOf(c, key)
CleanStored == clean => Stored(cfg, settings)

ListenerInv == ListenerTypes /\ Served /\ OwnSockets /\ Alone /\ CleanStored

\* What is loaded is a configuration; rows are loaded from any database.
LEMMA LoadedTyped ==
  ASSUME NEW r \in Rows
  PROVE  Loaded(r) \in Configs /\ ~Loaded(r).locked
<1>1. LoadedBackup(r) \in Backups
  <2>1. CASE r.provider = ""
    BY <2>1 DEF LoadedBackup, Backups
  <2>2. CASE r.provider # ""
    BY <2>2 DEF Rows, LoadedBackup, Backups, FullBackups, Texts
  <2> QED
    BY <2>1, <2>2
<1>2. /\ (IF r.port = 0 THEN 1 ELSE r.port) \in Ports /\ (IF r.mode = "" THEN "local" ELSE r.mode) \in Modes
      /\ (IF r.pref = "" THEN "light" ELSE r.pref) \in Texts /\ r.proxy \in Texts
      /\ (IF r.webdav = "" THEN Absent ELSE r.webdav) \in Texts
  BY DEF Rows, Ports, Modes, Texts
<1> QED
  BY <1>1, <1>2 DEF Loaded, Configs

LEMMA NothingLoaded == NoRowsYet \in Rows /\ Loaded(NoRowsYet) \in Configs /\ CallTyped(NoCall)
<1>1. NoRowsYet \in Rows
  BY DEF NoRowsYet, Rows, Texts
<1>2. Loaded(NoRowsYet) \in Configs
  BY <1>1, LoadedTyped
<1>3. "dark" \in Wants("pref")
  BY DEF Wants
<1> QED
  BY <1>1, <1>2, <1>3 DEF NoCall, CallTyped, Steps, Ended, CallKinds

\* A save writes the rows of what is saved and leaves the others, wherever it
\* ends; one that gets to the end has written all of them.
LEMMA SavedTyped ==
  ASSUME settings \in Rows, NEW c \in Configs, NEW k
  PROVE  Saved(c, k) \in Rows
<1>1. DOMAIN settings = {"port", "mode", "pref", "proxy", "webdav", "provider", "optin", "local", "s3"}
  BY DEF Rows
<1>2. ASSUME NEW key \in Saves(c)
      PROVE  /\ key \in {"port", "mode", "pref", "proxy", "webdav", "provider", "optin", "local", "s3"}
             /\ key = "port" => ValueOf(c, key) \in Ports
             /\ key = "mode" => ValueOf(c, key) \in Modes
             /\ key \in {"pref", "proxy", "webdav", "local", "s3"} => ValueOf(c, key) \in Texts
             /\ key = "provider" => ValueOf(c, key) \in {"", "local", "s3", "webdav"}
             /\ key = "optin" => ValueOf(c, key) \in BOOLEAN
  <2>1. DOMAIN NoBackup = {"provider", "optin", "local", "s3"}
    BY DEF NoBackup
  <2>2. CASE key \in {"port", "mode", "pref", "proxy", "webdav"}
    BY <2>1, <2>2 DEF ValueOf, Configs
  <2>3. CASE key \notin {"port", "mode", "pref", "proxy", "webdav"}
    <3>1. c.backup \in FullBackups /\ key \in {"provider", "optin", "local", "s3"}
      BY <2>3 DEF Saves, Configs, Backups
    <3>2. ValueOf(c, key) = c.backup[key]
      BY <2>1, <3>1 DEF ValueOf
    <3> QED
      BY <2>1, <3>1, <3>2 DEF FullBackups
  <2> QED
    BY <2>2, <2>3
<1>3. \A key \in DOMAIN settings : Saved(c, k)[key] \in {settings[key], ValueOf(c, key)}
                                   /\ (key \notin Saves(c) => Saved(c, k)[key] = settings[key])
  BY DEF Saved
<1>4. Saved(c, k) = [key \in DOMAIN settings |-> Saved(c, k)[key]]
  BY DEF Saved
<1>5. DOMAIN Saved(c, k) = DOMAIN settings
  BY DEF Saved
<1> DEFINE s == Saved(c, k)
           may(key) == {settings[key]} \cup (IF key \in Saves(c) THEN {ValueOf(c, key)} ELSE {})
<1>6. ASSUME NEW key \in DOMAIN settings PROVE s[key] \in may(key)
  BY <1>3
<1>7. /\ may("port") \subseteq Ports \cup {0} /\ may("mode") \subseteq Modes \cup {""}
      /\ may("provider") \subseteq {"", "local", "s3", "webdav"} /\ may("optin") \subseteq BOOLEAN
      /\ \A key \in {"pref", "proxy", "webdav", "local", "s3"} : may(key) \subseteq Texts
  <2>1. may("port") \subseteq Ports \cup {0}
    <3>1. settings["port"] \in Ports \cup {0}
      BY DEF Rows
    <3>2. "port" \in Saves(c) => ValueOf(c, "port") \in Ports \cup {0}
      BY <1>2
    <3> QED
      BY <3>1, <3>2
  <2>5. may("mode") \subseteq Modes \cup {""}
    <3>1. settings["mode"] \in Modes \cup {""}
      BY DEF Rows
    <3>2. "mode" \in Saves(c) => ValueOf(c, "mode") \in Modes \cup {""}
      BY <1>2
    <3> QED
      BY <3>1, <3>2
  <2>2. may("provider") \subseteq {"", "local", "s3", "webdav"}
    BY <1>2 DEF Rows
  <2>3. may("optin") \subseteq BOOLEAN
    BY <1>2 DEF Rows
  <2>4. ASSUME NEW key \in {"pref", "proxy", "webdav", "local", "s3"} PROVE may(key) \subseteq Texts
    <3>1. settings[key] \in Texts
      BY DEF Rows
    <3>2. key \in Saves(c) => ValueOf(c, key) \in Texts
      BY <1>2
    <3> QED
      BY <3>1, <3>2
  <2> QED
    BY <2>1, <2>2, <2>3, <2>4, <2>5
<1> HIDE DEF s, may
<1>8. /\ s["port"] \in Ports \cup {0} /\ s["mode"] \in Modes \cup {""}
      /\ s["provider"] \in {"", "local", "s3", "webdav"} /\ s["optin"] \in BOOLEAN
      /\ \A key \in {"pref", "proxy", "webdav", "local", "s3"} : s[key] \in Texts
  BY <1>1, <1>6, <1>7
<1> QED
  BY <1>1, <1>4, <1>5, <1>8 DEF Rows, s

LEMMA SavedStored ==
  ASSUME settings \in Rows, NEW c \in Configs
  PROVE  Stored(c, Saved(c, Len(Keys)))
<1> SUFFICES ASSUME NEW key \in Saves(c) PROVE Saved(c, Len(Keys))[key] = ValueOf(c, key)
  BY DEF Stored
<1>1. key \in {"port", "mode", "pref", "proxy", "webdav", "provider", "optin", "local", "s3"}
  BY DEF Saves
<1>2. key \in DOMAIN settings
  BY <1>1 DEF Rows
<1>3. \E i \in 1..Len(Keys) : Keys[i] = key
  BY <1>1 DEF Keys
<1> QED
  BY <1>2, <1>3 DEF Saved

\* An address that is stored is the one the next start listens at.
LEMMA StoredAddress ==
  ASSUME NEW c \in Configs, NEW rows \in Rows, Stored(c, rows)
  PROVE  Address(Loaded(rows)) = Address(c)
<1>1. rows["port"] = ValueOf(c, "port") /\ rows["mode"] = ValueOf(c, "mode")
  BY DEF Stored, Saves
<1>2. ValueOf(c, "port") = c.port /\ ValueOf(c, "mode") = c.mode
  BY DEF ValueOf, NoBackup
<1>3. c.port \in Ports /\ c.mode \in Modes
  BY DEF Configs
<1>4. rows.port = c.port /\ rows.mode = c.mode /\ c.port # 0 /\ c.mode # ""
  <2>1. rows.port = c.port /\ rows.mode = c.mode
    BY <1>1, <1>2
  <2>2. c.port # 0
    BY <1>3 DEF Ports
  <2>3. c.mode # ""
    BY <1>3 DEF Modes
  <2> QED
    BY <2>1, <2>2, <2>3
<1>5. Loaded(rows).port = c.port /\ Loaded(rows).mode = c.mode
  BY <1>4 DEF Loaded
<1> QED
  BY <1>5 DEF Address

\* A call that readdresses sets the address asked for, a locked port aside; any
\* other call leaves the address.
LEMMA UpdatedTyped ==
  ASSUME cfg \in Configs, NEW old \in Configs, NEW kind \in CallKinds, kind # "whole",
         NEW want \in Wants(kind)
  PROVE  LET new == Updated(kind, want, old) IN
         /\ new \in Configs /\ new.locked = cfg.locked
         /\ ~Readdresses(kind) => Address(new) = Address(cfg)
         /\ cfg.locked => new.port = cfg.port
         /\ kind = "net" /\ (cfg.locked => want[2] = cfg.port) => Address(new) = want
<1>1. CASE kind = "net"
  <2>1. want \in Modes \X Ports
    BY <1>1, ListenerAssumption DEF Wants
  <2>2. Updated(kind, want, old) = [cfg EXCEPT !.mode = want[1], !.port = IF cfg.locked THEN cfg.port ELSE want[2]]
    <3>1. Readdressed(kind, want) =
            [cfg EXCEPT !.mode = want[1], !.port = IF cfg.locked THEN cfg.port ELSE want[2], !.pref = cfg.pref]
      BY <1>1 DEF Readdressed
    <3>2. Updated(kind, want, old) = Readdressed(kind, want)
      BY <1>1 DEF Updated
    <3> QED
      BY <3>1, <3>2 DEF Configs
  <2>3. want = <<want[1], want[2]>>
    BY <2>1
  <2> QED
    BY <1>1, <2>1, <2>2, <2>3 DEF Configs, Address, Readdresses
<1>2. CASE kind = "web"
  <2>1. want \in Ports
    BY <1>2, ListenerAssumption DEF Wants
  <2>2. Updated(kind, want, old) = [cfg EXCEPT !.mode = cfg.mode, !.port = IF cfg.locked THEN cfg.port ELSE want, !.pref = "dark"]
    <3>1. Readdressed(kind, want) =
            [cfg EXCEPT !.mode = cfg.mode, !.port = IF cfg.locked THEN cfg.port ELSE want, !.pref = "dark"]
      BY <1>2 DEF Readdressed
    <3>2. Updated(kind, want, old) = Readdressed(kind, want)
      BY <1>2 DEF Updated
    <3> QED
      BY <3>1, <3>2
  <2> QED
    BY <1>2, <2>1, <2>2 DEF Configs, Address, Readdresses, Texts
<1>3. CASE kind \in {"pref", "proxy", "webdav"}
  <2>1. want \in Texts
    BY <1>3 DEF Wants, Texts
  <2>2. Updated(kind, want, old) = [cfg EXCEPT ![kind] = want]
    BY <1>3 DEF Updated
  <2> QED
    BY <1>3, <2>1, <2>2 DEF Configs, Address, Readdresses
<1>4. CASE kind \in {"provider", "local", "s3", "optin"}
  <2>1. BackupOf(old) \in FullBackups
    BY DEF BackupOf, Configs, Backups, FullBackups, NoBackup, Texts
  <2> DEFINE b == BackupOf(old)
  <2>2. PICK new \in FullBackups : Updated(kind, want, old) = [cfg EXCEPT !.backup = new]
    <3>1. Updated(kind, want, old) = WithBackup(kind, want, old)
      BY <1>4 DEF Updated
    <3> HIDE DEF b
    <3>2. CASE kind = "provider"
      <4>1. WithBackup(kind, want, old) = [cfg EXCEPT !.backup = [b EXCEPT !.provider = want]]
        BY <3>2 DEF WithBackup, b
      <4>2. [b EXCEPT !.provider = want] \in FullBackups
        BY <3>2, <2>1 DEF b, FullBackups, Wants
      <4> QED
        BY <3>1, <4>1, <4>2
    <3>3. CASE kind = "optin"
      <4>1. WithBackup(kind, want, old) = [cfg EXCEPT !.backup = [b EXCEPT !.optin = want]]
        BY <3>3 DEF WithBackup, b
      <4>2. [b EXCEPT !.optin = want] \in FullBackups
        BY <3>3, <2>1 DEF b, FullBackups, Wants
      <4> QED
        BY <3>1, <4>1, <4>2
    <3>4. CASE kind \in {"local", "s3"}
      <4>1. WithBackup(kind, want, old) = [cfg EXCEPT !.backup = [b EXCEPT !.provider = kind, ![kind] = want]]
        BY <3>4 DEF WithBackup, b
      <4>2. want \in Texts /\ b \in FullBackups
        BY <3>4, <2>1 DEF b, Wants, Texts
      <4>3. ASSUME kind = "local" PROVE [b EXCEPT !.provider = kind, ![kind] = want] \in FullBackups
        BY <4>2, <4>3 DEF FullBackups
      <4>4. ASSUME kind = "s3" PROVE [b EXCEPT !.provider = kind, ![kind] = want] \in FullBackups
        BY <4>2, <4>4 DEF FullBackups
      <4> QED
        BY <3>1, <3>4, <4>1, <4>3, <4>4
    <3> QED
      BY <1>4, <3>2, <3>3, <3>4
  <2> QED
    BY <1>4, <2>2 DEF Configs, Backups, Address, Readdresses
<1> QED
  BY <1>1, <1>2, <1>3, <1>4 DEF CallKinds

LEMMA AddressTyped ==
  ASSUME NEW c \in Configs
  PROVE  /\ Address(c) \in Modes \X Ports /\ Address(c) \in Listening
         /\ Address(c) # NoAddr /\ AnyAddr # NoAddr
<1>1. c.mode \in Modes /\ c.port \in Ports
  BY DEF Configs
<1>2. Address(c) = <<c.mode, c.port>>
  BY DEF Address
<1>3. \A m \in Modes, p \in Ports : <<m, p>> # NoAddr
  BY DEF Modes, NoAddr
<1>4. AnyAddr # NoAddr
  BY DEF NoAddr, AnyAddr
<1> QED
  BY <1>1, <1>2, <1>3, <1>4 DEF Listening

\* A call that goes on to another step leaves the other calls where they are.
LEMMA StepTaken ==
  ASSUME ListenerTypes, NEW c \in Changers, NEW pc \in Steps,
         pc \in {"store", "replace"} => change[c].kind = "whole",
         pc \in {"read", "bind", "save"} => change[c].kind # "whole",
         change' = [change EXCEPT ![c].pc = pc]
  PROVE  /\ change' = [d \in Changers |-> change'[d]] /\ \A d \in Changers : CallTyped(change'[d])
         /\ \A d \in Changers : d # c => change'[d] = change[d]
         /\ change'[c] = [change[c] EXCEPT !.pc = pc]
<1> DEFINE next == [change[c] EXCEPT !.pc = pc]
<1>1. change = [d \in Changers |-> change[d]] /\ CallTyped(change[c])
  BY DEF ListenerTypes
<1>2. change' = [change EXCEPT ![c] = next]
  BY Zenon
<1>3. next = [pc |-> pc, kind |-> change[c].kind, want |-> change[c].want, old |-> change[c].old,
              before |-> change[c].before, alone |-> change[c].alone]
  BY <1>1 DEF CallTyped
<1>4. CallTyped(next)
  <2> HIDE DEF next
  <2> QED
    BY <1>1, <1>3 DEF CallTyped
<1> HIDE DEF next
<1>5. change'[c] = next /\ \A d \in Changers : d # c => change'[d] = change[d]
  BY <1>1, <1>2
<1>6. change' = [d \in Changers |-> change'[d]]
  BY <1>1, <1>2
<1>7. \A d \in Changers : CallTyped(change'[d])
  BY <1>4, <1>5 DEF ListenerTypes
<1> QED
  BY <1>5, <1>6, <1>7 DEF next

\* While a call goes on nobody else is alone; so what has to be shown of it is
\* only what it finds itself.
LEMMA AloneGoesOn ==
  ASSUME ListenerInv, NEW c \in Changers, InFlight(c),
         \A d \in Changers : d # c => change'[d] = change[d],
         change'[c].alone = change[c].alone,
         change[c].alone => Finds(change'[c], cfg', settings')
  PROVE  Alone'
<1> SUFFICES ASSUME NEW d \in Changers, change'[d].alone
             PROVE  /\ \A e \in Changers : e # d => ~InFlight(e)'
                    /\ Finds(change'[d], cfg', settings')
  BY DEF Alone
<1>1. d = c
  <2> SUFFICES ASSUME d # c PROVE FALSE
    OBVIOUS
  <2>1. change[d].alone
    OBVIOUS
  <2> QED
    BY <2>1 DEF ListenerInv, Alone
<1>2. \A e \in Changers : e # c => ~InFlight(e)
  BY <1>1 DEF ListenerInv, Alone
<1>3. \A e \in Changers : e # c => ~InFlight(e)'
  BY <1>2 DEF InFlight
<1> QED
  BY <1>1, <1>3

\* What an action that touches no call has to show.
LEMMA NoCallMoves ==
  ASSUME ListenerInv, UNCHANGED <<cfg, settings, change, clean>>
  PROVE  /\ cfg' \in Configs /\ settings' \in Rows /\ clean' \in BOOLEAN
         /\ change' = [d \in Changers |-> change'[d]] /\ \A d \in Changers : CallTyped(change'[d])
         /\ Alone' /\ CleanStored' /\ (Rebinding' <=> Rebinding) /\ Address(cfg)' = Address(cfg)
BY DEF ListenerInv, ListenerTypes, Alone, InFlight, CleanStored, Rebinding

\* RebindListener: success means the configured address; whatever it returns,
\* the server's listener is there or there is none.
LEMMA ReboundIs ==
  ASSUME ListenerInv, NEW busy
  PROVE  LET r == Rebound(sockets, busy) IN
         /\ r.ok \in BOOLEAN /\ r.socks \subseteq [at : Listening, on : BOOLEAN]
         /\ r.ln \in Listening \cup {NoAddr} /\ r.addr \in Listening \cup {NoAddr}
         /\ ~Serving => ~r.ok /\ r.socks = sockets /\ r.ln = server.ln /\ r.addr = server.addr
         /\ Serving => /\ r.ok => r.addr = Address(cfg)
                       /\ ~server.late => \A s \in r.socks : s.at = r.ln
         /\ Serving /\ r.addr # NoAddr =>
              /\ r.ln = r.addr
              /\ \/ /\ server.addr = Address(cfg) /\ r.ok
                    /\ r.socks = sockets /\ r.ln = server.ln /\ r.addr = server.addr
                 \/ server.addr # Address(cfg) /\ \E s \in r.socks : s.at = r.ln
<1> DEFINE new  == Address(cfg)
           back == IF server.addr = NoAddr THEN AnyAddr ELSE server.addr
           rest == {s \in sockets : s.at # server.ln}
           r    == Rebound(sockets, busy)
<1>1. /\ new \in Listening /\ new # NoAddr /\ AnyAddr \in Listening
      /\ server.ln \in Listening \cup {NoAddr} /\ server.addr \in Listening \cup {NoAddr}
      /\ back \in Listening /\ back # NoAddr
      /\ sockets \subseteq [at : Listening, on : BOOLEAN] /\ rest \subseteq [at : Listening, on : BOOLEAN]
  BY AddressTyped DEF ListenerInv, ListenerTypes, Listening
<1>2. Serving /\ ~server.late => rest = {}
  BY DEF ListenerInv, OwnSockets
<1>3. Serving /\ server.addr # NoAddr => server.ln = server.addr
  BY DEF ListenerInv, Served
<1> HIDE DEF new, rest
<1>4. CASE ~Serving
  <2>1. r = [ok |-> FALSE, socks |-> sockets, ln |-> server.ln, addr |-> server.addr]
    BY <1>4 DEF Rebound
  <2> HIDE DEF r
  <2> QED
    BY <1>1, <1>4, <2>1 DEF r
<1>5. CASE Serving /\ server.addr = new
  <2>1. r = [ok |-> TRUE, socks |-> sockets, ln |-> server.ln, addr |-> server.addr]
    BY <1>5 DEF Rebound, new
  <2>2. ~server.late => \A s \in sockets : s.at = server.ln
    BY <1>5 DEF ListenerInv, OwnSockets
  <2> HIDE DEF r
  <2> QED
    BY <1>1, <1>3, <1>5, <2>1, <2>2 DEF r, new
<1>6. CASE Serving /\ server.addr # new /\ Free(rest, busy, new)
  <2>1. r = [ok |-> TRUE, socks |-> rest \cup {[at |-> new, on |-> FALSE]}, ln |-> new, addr |-> new]
    BY <1>6 DEF Rebound, new, rest
  <2>2. [at |-> new, on |-> FALSE] \in [at : Listening, on : BOOLEAN]
    BY <1>1
  <2> DEFINE own == [at |-> new, on |-> FALSE]
  <2> HIDE DEF r
  <2>3. own.at = new /\ r.socks = rest \cup {own} /\ r.ln = new
    BY <2>1
  <2> HIDE DEF own
  <2>8. (\E s \in r.socks : s.at = r.ln) /\ (rest = {} => \A s \in r.socks : s.at = r.ln)
    BY <2>3
  <2>9. r.socks \subseteq [at : Listening, on : BOOLEAN]
    BY <1>1, <2>2, <2>3 DEF own
  <2> QED
    BY <1>1, <1>2, <1>6, <2>1, <2>2, <2>8, <2>9 DEF r, new
<1>7. CASE Serving /\ server.addr # new /\ ~Free(rest, busy, new) /\ Free(rest, busy, back)
  <2>1. r = [ok |-> FALSE, socks |-> rest \cup {[at |-> back, on |-> FALSE]}, ln |-> back, addr |-> server.addr]
    BY <1>7 DEF Rebound, new, rest
  <2>2. [at |-> back, on |-> FALSE] \in [at : Listening, on : BOOLEAN]
    BY <1>1
  <2>3. server.addr # NoAddr => back = server.addr
    OBVIOUS
  <2> DEFINE own == [at |-> back, on |-> FALSE]
  <2> HIDE DEF r, back
  <2>4. own.at = back /\ r.socks = rest \cup {own} /\ r.ln = back
    BY <2>1
  <2> HIDE DEF own
  <2>8. (\E s \in r.socks : s.at = r.ln) /\ (rest = {} => \A s \in r.socks : s.at = r.ln)
    BY <2>4
  <2>9. r.socks \subseteq [at : Listening, on : BOOLEAN]
    BY <1>1, <2>2, <2>4 DEF own
  <2> QED
    BY <1>1, <1>2, <1>7, <2>1, <2>2, <2>3, <2>8, <2>9 DEF r, new
<1>8. CASE Serving /\ server.addr # new /\ ~Free(rest, busy, new) /\ ~Free(rest, busy, back)
  <2>1. r = [ok |-> FALSE, socks |-> rest, ln |-> NoAddr, addr |-> NoAddr]
    BY <1>8 DEF Rebound, new, rest
  <2> HIDE DEF r, back
  <2> QED
    BY <1>1, <1>2, <1>8, <2>1 DEF r, new
<1> QED
  BY <1>4, <1>5, <1>6, <1>7, <1>8

LEMMA RebindsKeeps ==
  ASSUME ListenerInv, NEW c \in Changers, NEW pcs \in [BOOLEAN -> Steps \ {"store", "replace", "read", "bind"}],
         InFlight(c), Rebinds(c, pcs),
         \A ok \in BOOLEAN : /\ pcs[ok] = "save" => change[c].kind # "whole"
                             /\ change[c].alone => Finds([change[c] EXCEPT !.pc = pcs[ok]], cfg, settings)
  PROVE  ListenerInv'
<1>1. PICK grab \in SUBSET ({server.addr[2]} \ {0}) :
        LET r == Rebound(sockets, taken \cup grab)
            moves == Serving /\ server.addr # Address(cfg)
        IN  /\ grab # {} => moves
            /\ Mishap(IF grab = {} THEN 0 ELSE 1)
            /\ taken' = taken \cup grab
            /\ sockets' = r.socks
            /\ server' = [server EXCEPT !.ln = r.ln, !.addr = r.addr]
            /\ gap' = IF ~r.ok THEN "failed" ELSE IF gap = "dead" /\ ~moves THEN "dead" ELSE "none"
            /\ change' = [change EXCEPT ![c].pc = pcs[r.ok]]
            /\ UNCHANGED <<cfg, settings, desk, clean>>
  BY Zenon DEF Rebinds
<1> DEFINE r == Rebound(sockets, taken \cup grab)
           moves == Serving /\ server.addr # Address(cfg)
<1>2. /\ r.ok \in BOOLEAN /\ r.socks \subseteq [at : Listening, on : BOOLEAN]
      /\ r.ln \in Listening \cup {NoAddr} /\ r.addr \in Listening \cup {NoAddr}
      /\ ~Serving => ~r.ok /\ r.socks = sockets /\ r.ln = server.ln /\ r.addr = server.addr
      /\ Serving => /\ r.ok => r.addr = Address(cfg)
                    /\ ~server.late => \A s \in r.socks : s.at = r.ln
      /\ Serving /\ r.addr # NoAddr =>
           /\ r.ln = r.addr
           /\ \/ /\ server.addr = Address(cfg) /\ r.ok
                 /\ r.socks = sockets /\ r.ln = server.ln /\ r.addr = server.addr
              \/ server.addr # Address(cfg) /\ \E s \in r.socks : s.at = r.ln
  BY ReboundIs, Zenon
<1>3. PICK ok \in BOOLEAN : ok = r.ok
  BY <1>2, Zenon
<1>4. /\ grab # {} => moves
      /\ taken' = taken \cup grab /\ sockets' = r.socks
      /\ server' = [server EXCEPT !.ln = r.ln, !.addr = r.addr]
      /\ gap' = IF ~r.ok THEN "failed" ELSE IF gap = "dead" /\ ~moves THEN "dead" ELSE "none"
      /\ UNCHANGED <<cfg, settings, desk, clean>>
  BY <1>1, Zenon
<1>5. change' = [change EXCEPT ![c].pc = pcs[ok]]
  BY <1>1, <1>3, Zenon
<1> HIDE DEF r
<1>6. ListenerTypes
  BY DEF ListenerInv
<1>7. /\ change' = [d \in Changers |-> change'[d]] /\ \A d \in Changers : CallTyped(change'[d])
      /\ \A d \in Changers : d # c => change'[d] = change[d]
      /\ change'[c] = [change[c] EXCEPT !.pc = pcs[ok]]
  <2>1. /\ pcs[ok] \in Steps /\ pcs[ok] \notin {"store", "replace", "read", "bind"}
        /\ pcs[ok] = "save" => change[c].kind # "whole"
    BY Zenon
  <2>2. /\ pcs[ok] \in {"store", "replace"} => change[c].kind = "whole"
        /\ pcs[ok] \in {"read", "bind", "save"} => change[c].kind # "whole"
    BY <2>1
  <2> QED
    BY <1>5, <1>6, <2>1, <2>2, StepTaken, Zenon
<1>8. Alone'
  <2>1. change'[c].alone = change[c].alone
    BY <1>6, <1>7 DEF ListenerTypes, CallTyped
  <2>2. change[c].alone => Finds(change'[c], cfg', settings')
    <3>1. change[c].alone => Finds([change[c] EXCEPT !.pc = pcs[ok]], cfg, settings)
      BY Zenon
    <3>2. cfg' = cfg /\ settings' = settings
      BY <1>4
    <3> QED
      BY <1>7, <3>1, <3>2, Zenon
  <2> QED
    BY <1>7, <2>1, <2>2, AloneGoesOn, Zenon
<1>9. /\ server'.state = server.state /\ server'.ln = r.ln /\ server'.addr = r.addr /\ server'.late = server.late
      /\ server' \in [state : {"none", "up", "stopped"}, ln : Listening \cup {NoAddr},
                      addr : Listening \cup {NoAddr}, late : BOOLEAN]
  BY <1>2, <1>4, <1>6 DEF ListenerTypes
<1>10. taken' \subseteq Ports
  <2>1. CASE grab = {}
    BY <1>4, <1>6, <2>1 DEF ListenerTypes
  <2>2. CASE grab # {}
    <3>1. server.addr \in Listening \cup {NoAddr} /\ server.addr[2] # 0
      BY <1>6, <2>2 DEF ListenerTypes
    <3>2. server.addr[2] \in Ports
      BY <3>1 DEF Listening, NoAddr, AnyAddr
    <3> QED
      BY <1>4, <1>6, <3>2 DEF ListenerTypes
  <2> QED
    BY <2>1, <2>2
<1>11. gap' \in {"none", "failed", "dead"}
  BY <1>4
<1>12. ListenerTypes'
  BY <1>2, <1>4, <1>6, <1>7, <1>9, <1>10, <1>11 DEF ListenerTypes
<1>13. Served'
  <2> SUFFICES ASSUME Serving'
               PROVE  /\ gap' = "none" => server'.addr = Address(cfg')
                      /\ server'.addr # NoAddr => /\ server'.ln = server'.addr
                                                  /\ gap' = "dead" \/ \E s \in sockets' : s.at = server'.ln
    BY DEF Served
  <2>1. Serving
    BY <1>9 DEF Serving
  <2>2. gap' = "none" => server'.addr = Address(cfg')
    BY <1>2, <1>4, <1>9, <2>1
  <2>3. server'.addr # NoAddr => server'.ln = server'.addr
    BY <1>2, <1>9, <2>1
  <2>4. ASSUME server'.addr # NoAddr PROVE gap' = "dead" \/ \E s \in sockets' : s.at = server'.ln
    <3>1. CASE server.addr = Address(cfg) /\ r.ok
               /\ r.socks = sockets /\ r.ln = server.ln /\ r.addr = server.addr
      <4>1. gap = "dead" \/ \E s \in sockets : s.at = server.ln
        BY <1>9, <2>1, <2>4, <3>1 DEF ListenerInv, Served
      <4>2. gap = "dead" => gap' = "dead"
        BY <1>4, <3>1
      <4> QED
        BY <1>4, <1>9, <3>1, <4>1, <4>2
    <3>2. CASE \E s \in r.socks : s.at = r.ln
      BY <1>4, <1>9, <3>2
    <3> QED
      BY <1>2, <1>9, <2>1, <2>4, <3>1, <3>2
  <2> QED
    BY <2>2, <2>3, <2>4
<1>14. OwnSockets'
  <2>1. Serving' <=> Serving
    BY <1>9 DEF Serving
  <2> QED
    BY <1>2, <1>4, <1>9, <2>1 DEF OwnSockets, ListenerInv
<1>15. CleanStored'
  BY <1>4 DEF ListenerInv, CleanStored
<1> QED
  BY <1>8, <1>12, <1>13, <1>14, <1>15 DEF ListenerInv

LEMMA FieldsSet ==
  ASSUME NEW r, CallTyped(r), NEW a, NEW b
  PROVE  [r EXCEPT !.alone = a, !.before = b] =
           [pc |-> r.pc, kind |-> r.kind, want |-> r.want, old |-> r.old, before |-> b, alone |-> a]
<1> DEFINE once == [r EXCEPT !.alone = a]
<1>1. once = [pc |-> r.pc, kind |-> r.kind, want |-> r.want, old |-> r.old, before |-> r.before, alone |-> a]
  BY DEF CallTyped
<1>2. [r EXCEPT !.alone = a, !.before = b] = [once EXCEPT !.before = b]
  BY Zenon
<1> HIDE DEF once
<1>3. [once EXCEPT !.before = b] =
        [pc |-> r.pc, kind |-> r.kind, want |-> r.want, old |-> r.old, before |-> b, alone |-> a]
  BY <1>1
<1> QED
  BY <1>2, <1>3, Zenon

\* A call begins: it is alone when no other is in flight, and the others are
\* not any more.
LEMMA CallKeeps ==
  ASSUME ListenerInv, NEW c \in Changers, Call(c)
  PROVE  ListenerInv'
<1>1. PICK kind \in Serves[c] : \E want \in Wants(kind) :
       /\ kind = "net" /\ cfg.locked => want[2] = cfg.port
       /\ LET alone == \A d \in Changers : d # c => ~InFlight(d)
          IN  change' = [d \in Changers |->
                IF d = c
                THEN [pc |-> IF kind = "whole" THEN "store" ELSE "read", kind |-> kind,
                      want |-> want, old |-> cfg, alone |-> alone,
                      before |-> IF alone THEN settings ELSE NoRowsYet]
                ELSE IF InFlight(d) THEN [change[d] EXCEPT !.alone = FALSE, !.before = NoRowsYet]
                ELSE NoCall]
  BY Zenon DEF Call
<1>2. PICK want \in Wants(kind) :
       /\ kind = "net" /\ cfg.locked => want[2] = cfg.port
       /\ LET alone == \A d \in Changers : d # c => ~InFlight(d)
          IN  change' = [d \in Changers |->
                IF d = c
                THEN [pc |-> IF kind = "whole" THEN "store" ELSE "read", kind |-> kind,
                      want |-> want, old |-> cfg, alone |-> alone,
                      before |-> IF alone THEN settings ELSE NoRowsYet]
                ELSE IF InFlight(d) THEN [change[d] EXCEPT !.alone = FALSE, !.before = NoRowsYet]
                ELSE NoCall]
  BY <1>1, Zenon
<1>3. UNCHANGED <<cfg, settings, server, sockets, taken, desk, clean, gap>> /\ ~InFlight(c)
  BY Zenon DEF Call
<1> DEFINE alone == \A d \in Changers : d # c => ~InFlight(d)
           mine == [pc |-> IF kind = "whole" THEN "store" ELSE "read", kind |-> kind,
                    want |-> want, old |-> cfg, alone |-> alone,
                    before |-> IF alone THEN settings ELSE NoRowsYet]
           other(d) == [change[d] EXCEPT !.alone = FALSE, !.before = NoRowsYet]
<1>4. /\ change' = [d \in Changers |-> change'[d]] /\ change'[c] = mine
      /\ \A d \in Changers : d # c => change'[d] = IF InFlight(d) THEN other(d) ELSE NoCall
  BY <1>2, Zenon
<1>5. kind \in CallKinds
  BY ListenerAssumption
<1>6. cfg \in Configs /\ settings \in Rows /\ NoRowsYet \in Rows /\ CallTyped(NoCall)
  BY NothingLoaded DEF ListenerInv, ListenerTypes
<1>7. CallTyped(mine)
  <2>1. alone \in BOOLEAN /\ (IF alone THEN settings ELSE NoRowsYet) \in Rows
    BY <1>6, Zenon
  <2>2. (IF kind = "whole" THEN "store" ELSE "read") \in Steps
    BY DEF Steps
  <2>3. /\ mine.pc = (IF kind = "whole" THEN "store" ELSE "read") /\ mine.kind = kind /\ mine.want = want
        /\ mine.old = cfg /\ mine.before = (IF alone THEN settings ELSE NoRowsYet)
    BY Zenon
  <2>4. mine.alone = alone /\ mine = [pc |-> mine.pc, kind |-> mine.kind, want |-> mine.want, old |-> mine.old,
                before |-> mine.before, alone |-> mine.alone]
    BY Zenon
  <2> HIDE DEF mine, alone
  <2> QED
    BY <1>5, <1>6, <2>1, <2>2, <2>3, <2>4 DEF CallTyped
<1>8. ASSUME NEW d \in Changers PROVE CallTyped(other(d)) /\ other(d).pc = change[d].pc /\ ~other(d).alone
  <2>1. CallTyped(change[d])
    BY DEF ListenerInv, ListenerTypes
  <2>2. other(d) = [pc |-> change[d].pc, kind |-> change[d].kind, want |-> change[d].want, old |-> change[d].old,
                    before |-> NoRowsYet, alone |-> FALSE]
    BY <2>1, FieldsSet, Zenon
  <2> HIDE DEF other
  <2> QED
    BY <1>6, <2>1, <2>2 DEF CallTyped
<1>9. NoCall.pc = "idle" /\ ~NoCall.alone
  BY DEF NoCall
<1>10. mine.pc \in {"store", "read"} /\ (mine.alone <=> alone)
  BY Zenon
<1>11. Finds(mine, cfg, settings) \/ ~alone
  <2> SUFFICES ASSUME alone PROVE Finds(mine, cfg, settings)
    OBVIOUS
  <2>1. /\ mine.before = settings /\ mine.old = cfg /\ mine.kind = kind /\ mine.want = want
    BY Zenon
  <2>2. mine.kind = "net" /\ cfg.locked => mine.want[2] = cfg.port
    BY <1>2, <2>1, Zenon
  <2> HIDE DEF mine
  <2> QED
    BY <1>10, <2>1, <2>2 DEF Finds
<1> HIDE DEF mine, other
<1>12. ASSUME NEW d \in Changers PROVE CallTyped(change'[d])
  BY <1>4, <1>6, <1>7, <1>8
<1>13. ListenerTypes'
  BY <1>3, <1>4, <1>12 DEF ListenerInv, ListenerTypes
<1>14. Alone'
  <2> SUFFICES ASSUME NEW d \in Changers, change'[d].alone
               PROVE  /\ \A e \in Changers : e # d => ~InFlight(e)'
                      /\ Finds(change'[d], cfg', settings')
    BY DEF Alone
  <2>1. d = c /\ alone
    BY <1>4, <1>8, <1>9, <1>10
  <2>2. \A e \in Changers : e # c => change'[e].pc = "idle"
    BY <1>4, <1>9, <2>1
  <2>3. \A e \in Changers : e # c => ~InFlight(e)'
    BY <2>2 DEF InFlight, Ended
  <2> QED
    BY <1>3, <1>4, <1>11, <2>1, <2>3
<1>15. Rebinding => Rebinding'
  <2> SUFFICES ASSUME NEW d \in Changers, change[d].pc \in {"bind", "again", "backagain"} PROVE Rebinding'
    BY DEF Rebinding
  <2>1. InFlight(d) /\ d # c
    BY <1>3 DEF InFlight, Ended
  <2>2. change'[d].pc = change[d].pc
    BY <1>4, <1>8, <2>1
  <2> QED
    BY <2>2 DEF Rebinding
<1>16. Served'
  BY <1>3, <1>15 DEF ListenerInv, Served, Serving
<1>17. (OwnSockets /\ CleanStored)'
  BY <1>3 DEF ListenerInv, OwnSockets, Serving, CleanStored
<1> QED
  BY <1>13, <1>14, <1>16, <1>17 DEF ListenerInv

\* A step of a call that leaves the listener alone: what is left to show is
\* that the address is still going to be followed.
LEMMA CallGoesOn ==
  ASSUME ListenerInv, NEW c \in Changers, NEW pc \in Steps, InFlight(c),
         pc \in {"store", "replace"} => change[c].kind = "whole",
         pc \in {"read", "bind", "save"} => change[c].kind # "whole",
         change' = [change EXCEPT ![c].pc = pc],
         UNCHANGED <<server, sockets, taken, desk>>,
         cfg' \in Configs, settings' \in Rows, clean' \in BOOLEAN, CleanStored',
         change[c].alone => Finds([change[c] EXCEPT !.pc = pc], cfg', settings'),
         \/ gap' = gap /\ (pc \in {"bind", "again", "backagain"}
                           \/ (Address(cfg') = Address(cfg) /\ change[c].pc \notin {"bind", "again", "backagain"}))
         \/ gap # "none" /\ gap' = gap
         \/ gap = "none" /\ gap' = "failed"
  PROVE  ListenerInv'
<1>1. ListenerTypes
  BY DEF ListenerInv
<1>2. /\ change' = [d \in Changers |-> change'[d]] /\ \A d \in Changers : CallTyped(change'[d])
      /\ \A d \in Changers : d # c => change'[d] = change[d]
      /\ change'[c] = [change[c] EXCEPT !.pc = pc]
  BY <1>1, StepTaken, Zenon
<1>3. change'[c].pc = pc /\ change'[c].alone = change[c].alone
  BY <1>1, <1>2 DEF ListenerTypes, CallTyped
<1>4. Alone'
  <2>1. change[c].alone => Finds(change'[c], cfg', settings')
    BY <1>2, Zenon
  <2> QED
    BY <1>2, <1>3, <2>1, AloneGoesOn, Zenon
<1>5. ListenerTypes'
  BY <1>1, <1>2 DEF ListenerTypes
<1>6. ASSUME gap' = "none"
      PROVE  gap = "none" /\ (Rebinding' \/ (Address(cfg') = Address(cfg) /\ (Rebinding => Rebinding')))
  <2>1. gap = "none" /\ gap' = gap
    BY <1>6
  <2>2. CASE pc \in {"bind", "again", "backagain"}
    BY <1>3, <2>1, <2>2 DEF Rebinding
  <2>3. CASE Address(cfg') = Address(cfg) /\ change[c].pc \notin {"bind", "again", "backagain"}
    BY <1>2, <2>1, <2>3 DEF Rebinding
  <2> QED
    BY <2>1, <2>2, <2>3
<1>7. Served'
  <2>1. gap = "dead" => gap' = "dead"
    OBVIOUS
  <2> QED
    BY <1>6, <2>1 DEF ListenerInv, Served, Serving
<1>8. OwnSockets'
  BY DEF ListenerInv, OwnSockets, Serving
<1> QED
  BY <1>4, <1>5, <1>7, <1>8 DEF ListenerInv

\* The fields of a call at its next step.
LEMMA NextStep ==
  ASSUME ListenerTypes, NEW c \in Changers, NEW pc
  PROVE  LET next == [change[c] EXCEPT !.pc = pc] IN
         /\ next.pc = pc /\ next.kind = change[c].kind /\ next.want = change[c].want
         /\ next.old = change[c].old /\ next.before = change[c].before
BY DEF ListenerTypes, CallTyped

LEMMA SetKeeps ==
  ASSUME ListenerInv, NEW c \in Changers, Set(c)
  PROVE  ListenerInv'
<1> DEFINE r == change[c]
           pc == IF Readdresses(r.kind) THEN "bind" ELSE "save"
           next == [change[c] EXCEPT !.pc = pc]
<1>1. /\ r.pc = "read" /\ cfg' = Updated(r.kind, r.want, r.old)
      /\ change' = [change EXCEPT ![c].pc = pc] /\ clean' = FALSE
      /\ UNCHANGED <<settings, server, sockets, taken, desk, gap>>
  BY Zenon DEF Set
<1>2. ListenerTypes /\ CallTyped(r) /\ cfg \in Configs /\ settings \in Rows
  BY DEF ListenerInv, ListenerTypes
<1>3. r.kind \in CallKinds /\ r.kind # "whole" /\ r.want \in Wants(r.kind) /\ r.old \in Configs
  BY <1>1, <1>2 DEF CallTyped
<1>4. /\ cfg' \in Configs /\ cfg'.locked = cfg.locked
      /\ ~Readdresses(r.kind) => Address(cfg') = Address(cfg)
      /\ cfg.locked => cfg'.port = cfg.port
      /\ r.kind = "net" /\ (cfg.locked => r.want[2] = cfg.port) => Address(cfg') = r.want
  BY <1>1, <1>2, <1>3, UpdatedTyped, Zenon
<1>5. pc \in Steps /\ pc \in {"bind", "save"} /\ InFlight(c)
  BY <1>1 DEF Steps, InFlight, Ended
<1>6. /\ next.pc = pc /\ next.kind = r.kind /\ next.want = r.want
      /\ next.old = r.old /\ next.before = r.before
  <2>1. ListenerTypes
    BY <1>2
  <2> HIDE DEF pc
  <2> QED
    BY <2>1, NextStep, Zenon
<1>7. ASSUME r.alone PROVE Finds(next, cfg', settings')
  <2>1. Finds(r, cfg, settings)
    BY <1>7 DEF ListenerInv, Alone
  <2>2. /\ cfg = r.old /\ settings = r.before
        /\ r.kind = "net" => (cfg.locked => r.want[2] = cfg.port)
    BY <1>1, <2>1 DEF Finds
  <2>3. r.kind = "net" => Address(cfg') = r.want
    BY <1>4, <2>2
  <2>4. cfg'.locked => cfg'.port = r.old.port
    BY <1>4, <2>2
  <2> HIDE DEF next, r, pc
  <2> QED
    BY <1>1, <1>5, <1>6, <2>2, <2>3, <2>4 DEF Finds
<1>8. CleanStored' /\ clean' \in BOOLEAN
  BY <1>1 DEF CleanStored
<1>9. \/ pc \in {"bind", "again", "backagain"}
      \/ Address(cfg') = Address(cfg) /\ r.pc \notin {"bind", "again", "backagain"}
  BY <1>1, <1>4
<1>10. settings' \in Rows /\ gap' = gap
  BY <1>1, <1>2
<1>11. /\ pc \in {"store", "replace"} => r.kind = "whole"
       /\ pc \in {"read", "bind", "save"} => r.kind # "whole"
  BY <1>3
<1> QED
  BY <1>1, <1>4, <1>5, <1>7, <1>8, <1>9, <1>10, <1>11, CallGoesOn, Zenon

LEMMA BindKeeps ==
  ASSUME ListenerInv, NEW c \in Changers, Bind(c)
  PROVE  ListenerInv'
<1> DEFINE pcs == [ok \in BOOLEAN |-> IF ok THEN "save" ELSE "undo"]
<1>1. change[c].pc = "bind" /\ Rebinds(c, pcs)
  BY Zenon DEF Bind
<1>2. ListenerTypes /\ CallTyped(change[c])
  BY DEF ListenerInv, ListenerTypes
<1>3. change[c].kind # "whole" /\ InFlight(c)
  BY <1>1, <1>2 DEF CallTyped, InFlight, Ended
<1>4. pcs \in [BOOLEAN -> Steps \ {"store", "replace", "read", "bind"}]
  BY DEF Steps
<1>5. ASSUME NEW ok \in BOOLEAN, change[c].alone
      PROVE  Finds([change[c] EXCEPT !.pc = pcs[ok]], cfg, settings)
  <2> DEFINE next == [change[c] EXCEPT !.pc = pcs[ok]]
  <2>1. /\ next.pc = pcs[ok] /\ next.kind = change[c].kind /\ next.want = change[c].want
        /\ next.old = change[c].old /\ next.before = change[c].before
    BY <1>2, NextStep, Zenon
  <2>2. Finds(change[c], cfg, settings)
    BY <1>5 DEF ListenerInv, Alone
  <2>3. pcs[ok] \in {"save", "undo"}
    BY Zenon
  <2> HIDE DEF next, pcs
  <2> QED
    BY <1>1, <2>1, <2>2, <2>3 DEF Finds
<1> HIDE DEF pcs
<1> QED
  BY <1>1, <1>3, <1>4, <1>5, RebindsKeeps, Zenon

LEMMA AgainKeeps ==
  ASSUME ListenerInv, NEW c \in Changers, Again(c)
  PROVE  ListenerInv'
<1>1. ListenerTypes /\ CallTyped(change[c])
  BY DEF ListenerInv, ListenerTypes
<1>2. ASSUME NEW from \in {"again", "backagain"}, NEW to \in {"unbound", "unsaved"},
             to = "unbound" => from = "again",
             change[c].pc = from, Rebinds(c, [ok \in BOOLEAN |-> to])
      PROVE  ListenerInv'
  <2> DEFINE pcs == [ok \in BOOLEAN |-> to]
  <2>1. pcs \in [BOOLEAN -> Steps \ {"store", "replace", "read", "bind"}]
    BY DEF Steps, Ended
  <2>2. \A ok \in BOOLEAN : pcs[ok] = to /\ to # "save"
    BY Zenon
  <2>3. InFlight(c)
    BY <1>2 DEF InFlight, Ended
  <2>4. ASSUME NEW ok \in BOOLEAN, change[c].alone
        PROVE  Finds([change[c] EXCEPT !.pc = pcs[ok]], cfg, settings)
    <3> DEFINE next == [change[c] EXCEPT !.pc = pcs[ok]]
    <3>1. /\ next.pc = pcs[ok] /\ next.kind = change[c].kind /\ next.want = change[c].want
          /\ next.old = change[c].old /\ next.before = change[c].before
      BY <1>1, NextStep, Zenon
    <3>2. Finds(change[c], cfg, settings)
      BY <2>4 DEF ListenerInv, Alone
    <3>3. next.pc = to
      BY <2>2, <3>1, Zenon
    <3> HIDE DEF next, pcs
    <3> QED
      BY <1>2, <3>1, <3>2, <3>3 DEF Finds
  <2>5. Rebinds(c, pcs)
    BY <1>2, Zenon
  <2> HIDE DEF pcs
  <2> QED
    BY <2>1, <2>2, <2>3, <2>4, <2>5, RebindsKeeps, Zenon
<1>3. \/ change[c].pc = "again" /\ Rebinds(c, [ok \in BOOLEAN |-> "unbound"])
      \/ change[c].pc = "backagain" /\ Rebinds(c, [ok \in BOOLEAN |-> "unsaved"])
  BY Zenon DEF Again
<1>4. CASE change[c].pc = "again" /\ Rebinds(c, [ok \in BOOLEAN |-> "unbound"])
  BY <1>2, <1>4, Zenon
<1>5. CASE change[c].pc = "backagain" /\ Rebinds(c, [ok \in BOOLEAN |-> "unsaved"])
  <2>1. "unsaved" # "unbound"
    OBVIOUS
  <2> QED
    BY <1>2, <1>5, <2>1, Zenon
<1> QED
  BY <1>3, <1>4, <1>5, Zenon

LEMMA UndoKeeps ==
  ASSUME ListenerInv, NEW c \in Changers, Undo(c)
  PROVE  ListenerInv'
<1> DEFINE r == change[c]
           pc == IF change[c].pc = "undo" THEN "again" ELSE "backagain"
           next == [change[c] EXCEPT !.pc = pc]
           port == IF cfg.locked THEN cfg.port ELSE r.old.port
           pref == IF r.kind = "web" THEN r.old.pref ELSE cfg.pref
<1>1. /\ r.pc \in {"undo", "back"}
      /\ cfg' = [cfg EXCEPT !.mode = r.old.mode, !.port = port, !.pref = pref]
      /\ change' = [change EXCEPT ![c].pc = pc] /\ clean' = FALSE
      /\ UNCHANGED <<settings, server, sockets, taken, desk, gap>>
  BY Zenon DEF Undo
<1>2. ListenerTypes /\ CallTyped(r) /\ cfg \in Configs /\ settings \in Rows
  BY DEF ListenerInv, ListenerTypes
<1>3. r.old \in Configs
  BY <1>2 DEF CallTyped
<1>4. port \in Ports /\ pref \in Texts /\ r.old.mode \in Modes
  BY <1>2, <1>3 DEF Configs
<1>5. cfg' \in Configs /\ cfg'.mode = r.old.mode /\ cfg'.port = port
  <2> HIDE DEF port, pref
  <2> QED
    BY <1>1, <1>2, <1>4 DEF Configs
<1>6. pc \in Steps /\ pc \in {"again", "backagain"} /\ (pc = "again" => r.pc = "undo") /\ InFlight(c)
  BY <1>1 DEF Steps, InFlight, Ended
<1>7. /\ next.pc = pc /\ next.kind = r.kind /\ next.want = r.want
      /\ next.old = r.old /\ next.before = r.before
  <2>1. ListenerTypes
    BY <1>2
  <2> HIDE DEF pc
  <2> QED
    BY <2>1, NextStep, Zenon
<1>8. ASSUME r.alone PROVE Finds(next, cfg', settings')
  <2>1. Finds(r, cfg, settings)
    BY <1>8 DEF ListenerInv, Alone
  <2>2. pc = "again" => settings = r.before /\ (cfg.locked => cfg.port = r.old.port)
    BY <1>6, <2>1 DEF Finds
  <2>3. pc = "again" => Address(cfg') = Address(r.old)
    BY <1>5, <2>2 DEF Address
  <2> HIDE DEF next, r, pc
  <2> QED
    BY <1>1, <1>6, <1>7, <2>2, <2>3 DEF Finds
<1>9. CleanStored' /\ clean' \in BOOLEAN /\ settings' \in Rows /\ gap' = gap
  BY <1>1, <1>2 DEF CleanStored
<1>10. /\ pc \in {"store", "replace"} => r.kind = "whole"
       /\ pc \in {"read", "bind", "save"} => r.kind # "whole"
       /\ pc \in {"bind", "again", "backagain"}
  BY <1>6
<1> QED
  BY <1>1, <1>5, <1>6, <1>8, <1>9, <1>10, CallGoesOn, Zenon

LEMMA SaveKeeps ==
  ASSUME ListenerInv, NEW c \in Changers, Save(c)
  PROVE  ListenerInv'
<1>1. PICK k \in 0 .. Len(Keys) :
       LET all == k = Len(Keys)
       IN  /\ Mishap(IF all THEN 0 ELSE 1)
           /\ settings' = Saved(cfg, k)
           /\ clean' = all
           /\ change' = [change EXCEPT ![c].pc =
                IF all THEN "ok" ELSE IF change[c].kind = "net" THEN "back" ELSE "unsaved"]
  BY Zenon DEF Save
<1> DEFINE all == k = Len(Keys)
           r == change[c]
           pc == IF all THEN "ok" ELSE IF change[c].kind = "net" THEN "back" ELSE "unsaved"
           next == [change[c] EXCEPT !.pc = pc]
<1>2. /\ r.pc = "save" /\ settings' = Saved(cfg, k) /\ clean' = all
      /\ change' = [change EXCEPT ![c].pc = pc]
      /\ UNCHANGED <<cfg, server, sockets, taken, desk, gap>>
  BY <1>1, Zenon DEF Save
<1>3. ListenerTypes /\ cfg \in Configs /\ settings \in Rows
  BY DEF ListenerInv, ListenerTypes
<1>4. settings' \in Rows /\ cfg' \in Configs
  BY <1>2, <1>3, SavedTyped
<1>5. pc \in Steps /\ pc \in {"ok", "back", "unsaved"} /\ (pc = "ok" => all) /\ InFlight(c)
  BY <1>2 DEF Steps, InFlight, Ended
<1>6. all => Stored(cfg, settings')
  BY <1>2, <1>3, SavedStored
<1>7. CleanStored' /\ clean' \in BOOLEAN
  BY <1>2, <1>6 DEF CleanStored
<1>8. /\ next.pc = pc /\ next.kind = r.kind /\ next.want = r.want
      /\ next.old = r.old /\ next.before = r.before
  <2>1. ListenerTypes
    BY <1>3
  <2> HIDE DEF pc
  <2> QED
    BY <2>1, NextStep, Zenon
<1>9. ASSUME r.alone PROVE Finds(next, cfg', settings')
  <2>1. Finds(r, cfg, settings)
    BY <1>9 DEF ListenerInv, Alone
  <2>2. r.kind = "net" => Address(cfg) = r.want
    BY <1>2, <2>1 DEF Finds
  <2>3. all => Address(Loaded(settings')) = Address(cfg)
    BY <1>3, <1>4, <1>6, StoredAddress
  <2> HIDE DEF next, r, pc, all
  <2> QED
    BY <1>2, <1>5, <1>8, <2>2, <2>3 DEF Finds
<1>10. /\ pc \in {"store", "replace"} => r.kind = "whole"
       /\ pc \in {"read", "bind", "save"} => r.kind # "whole"
       /\ gap' = gap /\ Address(cfg') = Address(cfg) /\ r.pc \notin {"bind", "again", "backagain"}
  BY <1>2, <1>5
<1> QED
  BY <1>2, <1>4, <1>5, <1>7, <1>9, <1>10, CallGoesOn, Zenon

\* UpdateConfig's own configuration is one.
LEMMA WholeTyped ==
  ASSUME NEW want \in Wants("whole")
  PROVE  want \in Configs
<1>1. PICK p \in Ports : want = [Loaded(NoRowsYet) EXCEPT !.port = p, !.pref = ""]
  BY DEF Wants
<1>2. Loaded(NoRowsYet) \in Configs /\ "" \in Texts
  BY NothingLoaded DEF Texts
<1> QED
  BY <1>1, <1>2 DEF Configs

LEMMA StoreKeeps ==
  ASSUME ListenerInv, NEW c \in Changers, Store(c)
  PROVE  ListenerInv'
<1>1. PICK k \in 0 .. Len(Keys) :
       /\ Mishap(IF k = Len(Keys) THEN 0 ELSE 1)
       /\ settings' = Saved(change[c].want, k)
       /\ change' = [change EXCEPT ![c].pc = IF k = Len(Keys) THEN "replace" ELSE "unsaved"]
  BY Zenon DEF Store
<1> DEFINE pc == IF k = Len(Keys) THEN "replace" ELSE "unsaved"
           next == [change[c] EXCEPT !.pc = pc]
<1>2. /\ change[c].pc = "store" /\ settings' = Saved(change[c].want, k) /\ clean' = FALSE
      /\ change' = [change EXCEPT ![c].pc = pc]
      /\ UNCHANGED <<cfg, server, sockets, taken, desk, gap>>
  BY <1>1, Zenon DEF Store
<1>3. ListenerTypes /\ cfg \in Configs /\ settings \in Rows /\ CallTyped(change[c])
  BY DEF ListenerInv, ListenerTypes
<1>4. change[c].kind = "whole" /\ change[c].want \in Configs
  BY <1>2, <1>3, WholeTyped DEF CallTyped
<1>5. settings' \in Rows /\ cfg' \in Configs
  BY <1>2, <1>3, <1>4, SavedTyped
<1>6. pc \in Steps /\ pc \in {"replace", "unsaved"} /\ InFlight(c)
  BY <1>2 DEF Steps, InFlight, Ended
<1>7. CleanStored' /\ clean' \in BOOLEAN
  BY <1>2 DEF CleanStored
<1>8. next.pc = pc
  <2>1. ListenerTypes
    BY <1>3
  <2> HIDE DEF pc
  <2> QED
    BY <2>1, NextStep, Zenon
<1>9. Finds(next, cfg', settings')
  <2> HIDE DEF next, pc
  <2> QED
    BY <1>6, <1>8 DEF Finds
<1>10. /\ pc \in {"store", "replace"} => change[c].kind = "whole"
       /\ pc \in {"read", "bind", "save"} => change[c].kind # "whole"
       /\ gap' = gap /\ Address(cfg') = Address(cfg) /\ change[c].pc \notin {"bind", "again", "backagain"}
  BY <1>2, <1>4, <1>6
<1> QED
  BY <1>2, <1>5, <1>6, <1>7, <1>9, <1>10, CallGoesOn, Zenon

LEMMA ReplaceKeeps ==
  ASSUME ListenerInv, NEW c \in Changers, Replace(c)
  PROVE  ListenerInv'
<1> DEFINE next == [change[c] EXCEPT !.pc = "ok"]
<1>1. /\ change[c].pc = "replace" /\ cfg' = change[c].want
      /\ gap' = IF gap = "none" /\ Address(cfg') # Address(cfg) THEN "failed" ELSE gap
      /\ clean' = (settings = Saved(cfg', Len(Keys)))
      /\ change' = [change EXCEPT ![c].pc = "ok"]
      /\ UNCHANGED <<settings, server, sockets, taken, desk>>
  BY Zenon DEF Replace
<1>2. ListenerTypes /\ cfg \in Configs /\ settings \in Rows /\ CallTyped(change[c])
  BY DEF ListenerInv, ListenerTypes
<1>3. change[c].kind = "whole" /\ change[c].want \in Configs
  BY <1>1, <1>2, WholeTyped DEF CallTyped
<1>4. cfg' \in Configs /\ settings' \in Rows /\ clean' \in BOOLEAN
  BY <1>1, <1>2, <1>3
<1>5. CleanStored'
  <2>1. Stored(cfg', Saved(cfg', Len(Keys)))
    BY <1>2, <1>4, SavedStored
  <2> QED
    BY <1>1, <2>1 DEF CleanStored
<1>6. InFlight(c) /\ "ok" \in Steps
  BY <1>1 DEF InFlight, Ended, Steps
<1>7. next.pc = "ok" /\ next.kind = "whole"
  BY <1>2, <1>3, NextStep
<1>8. Finds(next, cfg', settings')
  <2> HIDE DEF next
  <2> QED
    BY <1>7 DEF Finds
<1>9. \/ gap' = gap /\ ("ok" \in {"bind", "again", "backagain"}
                        \/ (Address(cfg') = Address(cfg) /\ change[c].pc \notin {"bind", "again", "backagain"}))
      \/ gap # "none" /\ gap' = gap
      \/ gap = "none" /\ gap' = "failed"
  BY <1>1
<1>10. "ok" \notin {"store", "replace"} /\ "ok" \notin {"read", "bind", "save"}
  OBVIOUS
<1> QED
  BY <1>1, <1>4, <1>5, <1>6, <1>8, <1>9, <1>10, CallGoesOn, Zenon

-----------------------------------------------------------------------------
(* What goes on besides the calls.                                         *)

LEMMA BeginKeeps ==
  ASSUME ListenerInv, Begin
  PROVE  ListenerInv'
<1>1. UNCHANGED <<cfg, settings, change, clean>> /\ UNCHANGED <<server, sockets, taken, gap>>
  BY DEF Begin
<1>2. desk' \in [started : BOOLEAN, starting : Nat]
  BY DEF Begin, ListenerInv, ListenerTypes
<1> QED
  BY <1>1, <1>2, NoCallMoves DEF ListenerInv, ListenerTypes, Served, OwnSockets, Serving

\* StartWithMux listens at the configured address; what a predecessor has not
\* served yet is still there.
LEMMA StartRunsKeeps ==
  ASSUME ListenerInv, StartRuns
  PROVE  ListenerInv'
<1>1. UNCHANGED <<cfg, settings, change, clean>> /\ UNCHANGED taken
  BY DEF StartRuns
<1>2. desk \in [started : BOOLEAN, starting : Nat] /\ desk.starting > 0
  BY DEF StartRuns, ListenerInv, ListenerTypes
<1>3. desk.starting - 1 \in Nat
  BY <1>2
<1>4. CASE ~Serving /\ Free(sockets, taken, Address(cfg))
  <2> DEFINE own == [at |-> Address(cfg), on |-> FALSE]
             late == server.late \/ \E s \in sockets : ~s.on
  <2>1. /\ server' = [state |-> "up", ln |-> Address(cfg), addr |-> Address(cfg), late |-> late]
        /\ sockets' = sockets \cup {own} /\ gap' = "none"
        /\ desk' = [desk EXCEPT !.starting = desk.starting - 1]
    BY <1>4 DEF StartRuns
  <2>2. Address(cfg) \in Listening
    BY AddressTyped DEF ListenerInv, ListenerTypes
  <2>3. late \in BOOLEAN
    BY DEF ListenerInv, ListenerTypes
  <2>4. /\ server'.state = "up" /\ server'.ln = Address(cfg) /\ server'.addr = Address(cfg)
        /\ (server'.late <=> late)
        /\ server' \in [state : {"none", "up", "stopped"}, ln : Listening \cup {NoAddr},
                        addr : Listening \cup {NoAddr}, late : BOOLEAN]
    <3> HIDE DEF late
    <3> QED
      BY <2>1, <2>2, <2>3
  <2>5. own \in sockets' /\ own.at = Address(cfg) /\ sockets' \subseteq [at : Listening, on : BOOLEAN]
    <3>1. own.at = Address(cfg)
      BY Zenon
    <3>2. own \in [at : Listening, on : BOOLEAN]
      BY <2>2
    <3>3. own \in sockets'
      BY <2>1
    <3> HIDE DEF own
    <3>4. sockets' \subseteq [at : Listening, on : BOOLEAN]
      BY <2>1, <3>2 DEF ListenerInv, ListenerTypes
    <3> QED
      BY <3>1, <3>3, <3>4
  <2>6. desk' \in [started : BOOLEAN, starting : Nat]
    BY <1>2, <1>3, <2>1
  <2>7. ListenerTypes'
    BY <1>1, <2>1, <2>4, <2>5, <2>6, NoCallMoves DEF ListenerTypes, ListenerInv
  <2>8. Served'
    BY <1>1, <2>4, <2>5 DEF Served
  <2>9. OwnSockets'
    <3>1. ~late => sockets = {}
      BY <1>4 DEF ListenerInv, OwnSockets
    <3>2. ~server'.late => \A s \in sockets' : s.at = server'.ln
      BY <2>1, <2>4, <2>5, <3>1
    <3> QED
      BY <2>4, <3>2 DEF OwnSockets, Serving
  <2> QED
    BY <1>1, <2>7, <2>8, <2>9, NoCallMoves DEF ListenerInv
<1>5. CASE ~(~Serving /\ Free(sockets, taken, Address(cfg)))
  <2>1. desk' = [started |-> FALSE, starting |-> desk.starting - 1] /\ UNCHANGED <<server, sockets, gap>>
    BY <1>5 DEF StartRuns
  <2>2. desk' \in [started : BOOLEAN, starting : Nat]
    BY <1>3, <2>1
  <2> QED
    BY <1>1, <2>1, <2>2, NoCallMoves DEF ListenerInv, ListenerTypes, Served, OwnSockets, Serving
<1> QED
  BY <1>4, <1>5

LEMMA StopKeeps ==
  ASSUME ListenerInv, Stop
  PROVE  ListenerInv'
<1>1. UNCHANGED <<cfg, settings, change, clean>> /\ UNCHANGED <<taken, gap>>
  BY DEF Stop
<1>2. desk' \in [started : BOOLEAN, starting : Nat]
  <2>1. desk' = [desk EXCEPT !.started = FALSE] /\ desk \in [started : BOOLEAN, starting : Nat]
    BY DEF Stop, ListenerInv, ListenerTypes
  <2> QED
    BY <2>1
<1>3. CASE Serving
  <2>1. /\ server' = [server EXCEPT !.state = "stopped", !.ln = NoAddr, !.addr = NoAddr]
        /\ sockets' = {s \in sockets : ~s.on}
    BY <1>3 DEF Stop
  <2>2. /\ server'.state = "stopped"
        /\ server' \in [state : {"none", "up", "stopped"}, ln : Listening \cup {NoAddr},
                        addr : Listening \cup {NoAddr}, late : BOOLEAN]
    BY <2>1 DEF ListenerInv, ListenerTypes
  <2>3. ListenerTypes'
    BY <1>1, <1>2, <2>1, <2>2, NoCallMoves DEF ListenerTypes, ListenerInv
  <2>4. (Served /\ OwnSockets)'
    BY <2>1, <2>2 DEF Served, OwnSockets, Serving
  <2> QED
    BY <1>1, <2>3, <2>4, NoCallMoves DEF ListenerInv
<1>4. CASE ~Serving
  <2>1. UNCHANGED <<server, sockets>>
    BY <1>4 DEF Stop
  <2> QED
    BY <1>1, <1>2, <2>1, NoCallMoves DEF ListenerInv, ListenerTypes, Served, OwnSockets, Serving
<1> QED
  BY <1>3, <1>4

LEMMA ServeKeeps ==
  ASSUME ListenerInv, Serve
  PROVE  ListenerInv'
<1>1. UNCHANGED <<cfg, settings, change, clean>> /\ UNCHANGED <<server, taken, desk, gap>>
  BY DEF Serve
<1>2. PICK s \in sockets :
        ~s.on /\ sockets' = (sockets \ {s}) \cup (IF Serving THEN {[s EXCEPT !.on = TRUE]} ELSE {})
  BY DEF Serve
<1> DEFINE on == [s EXCEPT !.on = TRUE]
<1>3. s \in [at : Listening, on : BOOLEAN] /\ sockets \subseteq [at : Listening, on : BOOLEAN]
  BY DEF ListenerInv, ListenerTypes
<1>4. on \in [at : Listening, on : BOOLEAN] /\ on.at = s.at
  BY <1>3
<1> HIDE DEF on
<1>5. sockets' = (sockets \ {s}) \cup (IF Serving THEN {on} ELSE {})
  BY <1>2 DEF on
<1>6. sockets' \subseteq [at : Listening, on : BOOLEAN]
  BY <1>3, <1>4, <1>5
<1>7. ListenerTypes'
  BY <1>1, <1>6, NoCallMoves DEF ListenerTypes, ListenerInv
<1>8. Served'
  <2>1. Serving => \A x \in sockets : \E y \in sockets' : y.at = x.at
    BY <1>4, <1>5
  <2> QED
    BY <1>1, <2>1, NoCallMoves DEF ListenerInv, Served, Serving
<1>9. OwnSockets'
  <2>1. ~Serving => sockets' \subseteq sockets
    BY <1>5
  <2>2. \A y \in sockets' : \E x \in sockets : y.at = x.at
    BY <1>4, <1>5
  <2> QED
    BY <1>1, <2>1, <2>2 DEF ListenerInv, OwnSockets, Serving
<1> QED
  BY <1>1, <1>7, <1>8, <1>9, NoCallMoves DEF ListenerInv

LEMMA AcceptFailsKeeps ==
  ASSUME ListenerInv, AcceptFails
  PROVE  ListenerInv'
<1>1. UNCHANGED <<cfg, settings, change, clean>> /\ UNCHANGED <<server, taken>>
  BY DEF AcceptFails
<1>2. PICK s \in sockets :
        /\ s.on /\ sockets' = sockets \ {s}
        /\ IF Serving /\ server.ln = s.at
           THEN desk' = [desk EXCEPT !.started = FALSE] /\ gap' = "dead"
           ELSE UNCHANGED <<desk, gap>>
  BY DEF AcceptFails
<1>3. desk' \in [started : BOOLEAN, starting : Nat] /\ gap' \in {"none", "failed", "dead"}
  BY <1>2 DEF ListenerInv, ListenerTypes
<1>4. ListenerTypes'
  BY <1>1, <1>2, <1>3, NoCallMoves DEF ListenerTypes, ListenerInv
<1>5. Served'
  <2>1. CASE Serving /\ server.ln = s.at
    BY <1>1, <1>2, <2>1 DEF ListenerInv, Served, Serving
  <2>2. CASE ~(Serving /\ server.ln = s.at)
    <3>1. Serving => \A x \in sockets : x.at = server.ln => x \in sockets'
      BY <1>2, <2>2
    <3> QED
      BY <1>1, <1>2, <2>2, <3>1, NoCallMoves DEF ListenerInv, Served, Serving
  <2> QED
    BY <2>1, <2>2
<1>6. OwnSockets'
  BY <1>1, <1>2 DEF ListenerInv, OwnSockets, Serving
<1> QED
  BY <1>1, <1>4, <1>5, <1>6, NoCallMoves DEF ListenerInv

LEMMA OthersKeeps ==
  ASSUME ListenerInv, Others
  PROVE  ListenerInv'
<1>1. UNCHANGED <<cfg, settings, change, clean>> /\ UNCHANGED <<server, sockets, desk, gap>>
  BY DEF Others
<1>2. taken' \subseteq Ports
  BY DEF Others, ListenerInv, ListenerTypes
<1> QED
  BY <1>1, <1>2, NoCallMoves DEF ListenerInv, ListenerTypes, Served, OwnSockets, Serving

\* Nothing is in flight, listened at or stored twice after a start.
LEMMA Fresh ==
  ASSUME cfg \in Configs, settings \in Rows, change = [c \in Changers |-> NoCall], server = NoServer,
         sockets = {}, taken \subseteq Ports, desk = [started |-> FALSE, starting |-> 0],
         clean = FALSE, gap = "none"
  PROVE  ListenerInv
<1>1. \A c \in Changers : change[c] = NoCall /\ ~NoCall.alone /\ CallTyped(NoCall)
  BY NothingLoaded DEF NoCall
<1>2. /\ server.state = "none"
      /\ server \in [state : {"none", "up", "stopped"}, ln : Listening \cup {NoAddr},
                     addr : Listening \cup {NoAddr}, late : BOOLEAN]
  BY DEF NoServer
<1>3. change = [c \in Changers |-> change[c]]
  OBVIOUS
<1>4. ListenerTypes
  BY <1>1, <1>2, <1>3 DEF ListenerTypes
<1>5. Served /\ OwnSockets
  BY <1>2 DEF Served, OwnSockets, Serving
<1>6. Alone /\ CleanStored
  BY <1>1 DEF Alone, CleanStored
<1> QED
  BY <1>4, <1>5, <1>6 DEF ListenerInv

LEMMA FreshNext ==
  ASSUME cfg' \in Configs, settings' \in Rows, change' = [c \in Changers |-> NoCall], server' = NoServer,
         sockets' = {}, taken' \subseteq Ports, desk' = [started |-> FALSE, starting |-> 0],
         clean' = FALSE, gap' = "none"
  PROVE  ListenerInv'
<1>1. \A c \in Changers : change'[c] = NoCall /\ ~NoCall.alone /\ CallTyped(NoCall)
  BY NothingLoaded DEF NoCall
<1>2. /\ server'.state = "none"
      /\ server' \in [state : {"none", "up", "stopped"}, ln : Listening \cup {NoAddr},
                      addr : Listening \cup {NoAddr}, late : BOOLEAN]
  BY DEF NoServer
<1>3. change' = [c \in Changers |-> change'[c]]
  OBVIOUS
<1>4. ListenerTypes'
  BY <1>1, <1>2, <1>3 DEF ListenerTypes
<1>5. (Served /\ OwnSockets)'
  BY <1>2 DEF Served, OwnSockets, Serving
<1>6. (Alone /\ CleanStored)'
  BY <1>1 DEF Alone, CleanStored
<1> QED
  BY <1>4, <1>5, <1>6 DEF ListenerInv

LEMMA RestartKeeps ==
  ASSUME ListenerInv, Restart
  PROVE  ListenerInv'
<1>1. settings' \in Rows
  <2>1. CASE settings' = settings
    BY <2>1 DEF ListenerInv, ListenerTypes
  <2>2. ASSUME NEW c \in Changers, NEW k \in 0 .. Len(Keys), change[c].pc \in {"save", "store"},
               settings' = Saved(IF change[c].pc = "save" THEN cfg ELSE change[c].want, k)
        PROVE  settings' \in Rows
    <3>1. change[c].pc = "store" => change[c].want \in Configs
      BY WholeTyped DEF ListenerInv, ListenerTypes, CallTyped
    <3>2. (IF change[c].pc = "save" THEN cfg ELSE change[c].want) \in Configs
      BY <2>2, <3>1 DEF ListenerInv, ListenerTypes
    <3> QED
      BY <2>2, <3>2, SavedTyped DEF ListenerInv, ListenerTypes
  <2> QED
    BY <2>1, <2>2 DEF Restart
<1>2. cfg' \in Configs
  BY <1>1, LoadedTyped DEF Restart
<1>3. /\ change' = [c \in Changers |-> NoCall] /\ server' = NoServer /\ sockets' = {}
      /\ desk' = [started |-> FALSE, starting |-> 0] /\ clean' = FALSE /\ gap' = "none"
      /\ taken' \subseteq Ports
  BY DEF Restart, ListenerInv, ListenerTypes
<1> QED
  BY <1>1, <1>2, <1>3, FreshNext

THEOREM ListenerInitially == ListenerInit => ListenerInv
<1> SUFFICES ASSUME ListenerInit PROVE ListenerInv
  OBVIOUS
<1>1. settings \in Rows /\ Loaded(NoRowsYet) \in Configs
  BY NothingLoaded DEF ListenerInit
<1>2. cfg \in Configs
  <2>1. PICK locked \in BOOLEAN :
          cfg = [Loaded(NoRowsYet) EXCEPT !.locked = locked, !.port = IF locked THEN 2 ELSE Loaded(NoRowsYet).port]
    BY DEF ListenerInit
  <2>2. (IF locked THEN 2 ELSE Loaded(NoRowsYet).port) \in Ports
    BY <1>1 DEF Configs, Ports
  <2> QED
    BY <1>1, <2>1, <2>2 DEF Configs
<1> QED
  BY <1>1, <1>2, Fresh DEF ListenerInit, Ports

LEMMA ListenerStep == ListenerInv /\ [ListenerNext]_listenerVars => ListenerInv'
<1> SUFFICES ASSUME ListenerInv, [ListenerNext]_listenerVars PROVE ListenerInv'
  OBVIOUS
<1>1. ASSUME NEW c \in Changers, Changes(c) PROVE ListenerInv'
  BY <1>1, CallKeeps, SetKeeps, BindKeeps, UndoKeeps, AgainKeeps, SaveKeeps, StoreKeeps, ReplaceKeeps DEF Changes
<1>2. CASE Runs
  BY <1>2, BeginKeeps, StartRunsKeeps, StopKeeps, ServeKeeps DEF Runs
<1>3. CASE AcceptFails \/ Others \/ Restart
  BY <1>3, AcceptFailsKeeps, OthersKeeps, RestartKeeps
<1>4. CASE UNCHANGED listenerVars
  <2>1. UNCHANGED <<cfg, settings, change, clean>> /\ UNCHANGED <<server, sockets, taken, desk, gap>>
    BY <1>4 DEF listenerVars
  <2> QED
    BY <2>1, NoCallMoves DEF ListenerInv, ListenerTypes, Served, OwnSockets, Serving
<1> QED
  BY <1>1, <1>2, <1>3, <1>4 DEF ListenerNext

\* What was saved is what the next start loads.
LEMMA SettingsAreKept ==
  ASSUME cfg \in Configs, settings \in Rows, Stored(cfg, settings)
  PROVE  LET after == Loaded(settings)
         IN  /\ Address(after) = Address(cfg) /\ after.proxy = cfg.proxy
             /\ cfg.pref # "" => after.pref = cfg.pref
             /\ cfg.webdav \notin {"", Absent} => after.webdav = cfg.webdav
             /\ cfg.backup # NilBackup /\ cfg.backup.provider # "" =>
                  /\ after.backup # NilBackup
                  /\ after.backup.provider = cfg.backup.provider
                  /\ after.backup.optin = cfg.backup.optin
                  /\ \A d \in {"local", "s3"} \cap {cfg.backup.provider} :
                       cfg.backup[d] # Absent => after.backup[d] = cfg.backup[d]
<1> DEFINE after == Loaded(settings)
<1>1. DOMAIN NoBackup = {"provider", "optin", "local", "s3"}
  BY DEF NoBackup
<1>2. Address(after) = Address(cfg)
  BY StoredAddress
<1>3. settings["pref"] = cfg.pref /\ settings["proxy"] = cfg.proxy
  BY <1>1 DEF Stored, Saves, ValueOf
<1>4. after.proxy = cfg.proxy /\ (cfg.pref # "" => after.pref = cfg.pref)
  BY <1>3 DEF Loaded
<1>5. ASSUME cfg.webdav \notin {"", Absent} PROVE after.webdav = cfg.webdav
  <2>1. "webdav" \in Saves(cfg)
    BY <1>5 DEF Saves
  <2>2. settings["webdav"] = cfg.webdav
    BY <1>1, <2>1 DEF Stored, ValueOf
  <2> QED
    BY <1>5, <2>2 DEF Loaded
<1>6. ASSUME cfg.backup # NilBackup, cfg.backup.provider # ""
      PROVE  /\ after.backup # NilBackup
             /\ after.backup.provider = cfg.backup.provider
             /\ after.backup.optin = cfg.backup.optin
             /\ \A d \in {"local", "s3"} \cap {cfg.backup.provider} :
                  cfg.backup[d] # Absent => after.backup[d] = cfg.backup[d]
  <2>1. {"provider", "optin"} \subseteq Saves(cfg)
        /\ \A d \in {"local", "s3"} : cfg.backup[d] # Absent => d \in Saves(cfg)
    BY <1>6 DEF Saves
  <2>2. /\ settings["provider"] = cfg.backup.provider /\ settings["optin"] = cfg.backup.optin
        /\ \A d \in {"local", "s3"} : cfg.backup[d] # Absent => settings[d] = cfg.backup[d]
    BY <1>1, <2>1 DEF Stored, ValueOf
  <2>3. after.backup = [provider |-> settings.provider, optin |-> settings.optin,
                        local |-> IF settings.provider = "local" THEN settings.local ELSE Absent,
                        s3    |-> IF settings.provider = "s3" THEN settings.s3 ELSE Absent]
    BY <1>6, <2>2 DEF Loaded, LoadedBackup
  <2>4. after.backup.provider = cfg.backup.provider /\ after.backup.optin = cfg.backup.optin
    BY <2>2, <2>3
  <2>5. after.backup # NilBackup
    <3>1. NilBackup.provider = Absent
      BY DEF NilBackup, NoBackup
    <3>2. cfg.backup.provider \in {"", "local", "s3", "webdav"}
      BY <1>6 DEF Configs, Backups, FullBackups
    <3> QED
      BY <2>4, <3>1, <3>2 DEF Absent
  <2>6. ASSUME NEW d \in {"local", "s3"} \cap {cfg.backup.provider}, cfg.backup[d] # Absent
        PROVE  after.backup[d] = cfg.backup[d]
    <3>1. CASE d = "local"
      BY <2>2, <2>3, <2>6, <3>1
    <3>2. CASE d = "s3"
      BY <2>2, <2>3, <2>6, <3>2
    <3> QED
      BY <3>1, <3>2
  <2> QED
    BY <2>4, <2>5, <2>6
<1> QED
  BY <1>2, <1>4, <1>5, <1>6

\* However calls of several users of the interface overlap, fail and are taken
\* back, the proxy is served where it is configured to be, leaves no listener
\* behind, and what was saved is what the next start loads (ListenerSound).
THEOREM ListenerStaysSound == ListenerSpec => []ListenerSound
<1>1. ListenerInit => ListenerInv
  BY ListenerInitially
<1>2. ListenerInv /\ [ListenerNext]_listenerVars => ListenerInv'
  BY ListenerStep
<1>3. ListenerInv => ListenerSound
  <2> SUFFICES ASSUME ListenerInv PROVE ListenerSound
    OBVIOUS
  <2>1. ListenerTypeOK
    <3>1. cfg.mode \in Modes /\ cfg.port \in Ports
      BY DEF ListenerInv, ListenerTypes, Configs
    <3>2. /\ server.state \in {"none", "up", "stopped"}
          /\ {server.ln, server.addr} \subseteq (Modes \X Ports) \cup {NoAddr, AnyAddr}
      BY DEF ListenerInv, ListenerTypes, Listening
    <3>3. \A s \in sockets : s.at \in (Modes \X Ports) \cup {AnyAddr}
      BY DEF ListenerInv, ListenerTypes, Listening
    <3>4. taken \subseteq Ports /\ desk.starting \in Nat
      BY DEF ListenerInv, ListenerTypes
    <3>5. \A c \in Changers : change[c].pc \in Steps
      BY DEF ListenerInv, ListenerTypes, CallTyped
    <3> QED
      BY <3>1, <3>2, <3>3, <3>4, <3>5 DEF ListenerTypeOK, Steps
  <2>2. ServedAsConfigured
    <3> SUFFICES ASSUME AllEnded, Serving, gap = "none"
                 PROVE  \E s \in sockets : s.at = Address(cfg) /\ s.at = server.ln
      BY DEF ServedAsConfigured
    <3>1. ~Rebinding
      BY DEF AllEnded, Rebinding, InFlight, Ended
    <3>2. server.addr = Address(cfg) /\ server.addr # NoAddr
      BY <3>1, AddressTyped DEF ListenerInv, ListenerTypes, Served
    <3> QED
      BY <3>2 DEF ListenerInv, Served
  <2>3. NoneLeftBehind
    BY DEF NoneLeftBehind, ListenerInv, OwnSockets
  <2>4. AnsweredTruly
    <3> SUFFICES ASSUME NEW c \in Changers, change[c].alone
                 PROVE  /\ change[c].pc = "ok" /\ change[c].kind = "net" =>
                             /\ Address(cfg) = change[c].want
                             /\ Address(Loaded(settings)) = change[c].want
                        /\ change[c].pc = "unbound" => /\ Address(cfg) = Address(change[c].old)
                                                       /\ settings = change[c].before
      BY DEF AnsweredTruly
    <3>1. Finds(change[c], cfg, settings)
      BY DEF ListenerInv, Alone
    <3> QED
      BY <3>1 DEF Finds
  <2>5. SettingsSurvive
    <3>1. clean => Stored(cfg, settings)
      BY DEF ListenerInv, CleanStored
    <3>2. cfg \in Configs /\ settings \in Rows
      BY DEF ListenerInv, ListenerTypes
    <3> QED
      BY <3>1, <3>2, SettingsAreKept DEF SettingsSurvive
  <2> QED
    BY <2>1, <2>2, <2>3, <2>4, <2>5 DEF ListenerSound
<1> QED
  BY <1>1, <1>2, <1>3, PTL DEF ListenerSpec
-----------------------------------------------------------------------------
(* What a plan lists                                                       *)

LEMMA OrderLists == ListOf(Enabled, Order, Enabled) /\ Len(Order) \in Nat \ {0} /\ Enabled # {}
<1>1. Order \in Seq(Enabled) /\ Order # <<>>
  BY PlanAssumption DEF Enabled
<1>2. DOMAIN Order = 1..Len(Order) /\ Len(Order) \in Nat \ {0}
  BY <1>1
<1>3. 1 \in DOMAIN Order
  BY <1>2
<1> QED
  BY <1>1, <1>2, <1>3, PlanAssumption DEF ListOf, Distinct, Enabled, Members

\* What is given to a plan, in one formula.
InputsOK ==
  /\ cool \in [Enabled -> CoolStates] /\ policy \in Policies
  /\ full \subseteq Enabled /\ tier \in [Enabled -> Tiers]
  /\ skip = (current \in Recovered)

LEMMA CandidatesListed ==
  ASSUME InputsOK
  PROVE  ListOf(Enabled, PlanCandidates(Order, cool, policy), Candidates)
<1> DEFINE recovered == {e \in Members(Order) : cool[e] = "recovered" /\ policy # "auto_return"}
           healthy == {e \in Members(Order) : cool[e] # "active"} \ recovered
           kept == Kept(Order, healthy) \o Kept(Order, recovered)
<1>1. ListOf(Enabled, Order, Enabled) /\ Enabled # {}
  BY OrderLists
<1>2. Members(Order) = Enabled
  BY DEF Enabled
<1>3. healthy \cup recovered = Enabled \ Cooling /\ healthy \cap recovered = {}
      /\ healthy \subseteq Enabled /\ recovered \subseteq Enabled /\ Cooling \subseteq Enabled
  BY <1>2 DEF InputsOK, CoolStates, Cooling
<1>4. PlanCandidates(Order, cool, policy) = IF Len(Order) <= 1 \/ kept = <<>> THEN Order ELSE kept
  BY DEF PlanCandidates
<1> HIDE DEF recovered, healthy
<1>5. ListOf(Enabled, Kept(Order, healthy), healthy) /\ ListOf(Enabled, Kept(Order, recovered), recovered)
  <2>1. Enabled \cap healthy = healthy /\ Enabled \cap recovered = recovered
    BY <1>3
  <2> QED
    BY <1>1, <2>1, KeptLists
<1>6. ListOf(Enabled, kept, Enabled \ Cooling)
  BY <1>3, <1>5, JoinedLists
<1> HIDE DEF kept
<1>7. kept = <<>> <=> Enabled \ Cooling = {}
  BY <1>6, EmptyList
<1>8. CASE Len(Order) <= 1
  <2>1. PICK e \in Enabled : Enabled = {e}
    BY <1>1, <1>8, ListOfOne
  <2>2. Candidates = Enabled
    BY <1>3, <2>1 DEF Candidates
  <2> QED
    BY <1>1, <1>4, <1>8, <2>2
<1>9. CASE kept = <<>>
  BY <1>1, <1>3, <1>4, <1>7, <1>9 DEF Candidates
<1>10. CASE ~(Len(Order) <= 1) /\ kept # <<>>
  <2>1. Candidates = Enabled \ Cooling
    BY <1>3, <1>7, <1>10 DEF Candidates
  <2> QED
    BY <1>4, <1>6, <1>10, <2>1
<1> QED
  BY <1>8, <1>9, <1>10

LEMMA RoomListed ==
  ASSUME NEW s, NEW A, ListOf(Enabled, s, A)
  PROVE  ListOf(Enabled, WithRoom(s, full), IF A \subseteq full THEN A ELSE A \ full)
<1> DEFINE kept == Kept(s, Members(s) \ full)
<1>1. Members(s) = A
  BY DEF ListOf
<1>2. A \cap (A \ full) = A \ full
  OBVIOUS
<1>3. ListOf(Enabled, kept, A \ full)
  BY <1>1, <1>2, KeptLists
<1>4. WithRoom(s, full) = IF Len(s) <= 1 \/ kept = <<>> THEN s ELSE kept
  BY DEF WithRoom
<1> HIDE DEF kept
<1>5. kept = <<>> <=> A \subseteq full
  <2>1. A \ full = {} <=> A \subseteq full
    OBVIOUS
  <2> QED
    BY <1>3, <2>1, EmptyList
<1>6. CASE Len(s) <= 1 /\ ~(A \subseteq full)
  <2>1. PICK e \in A : e \notin full
    BY <1>6
  <2>2. A = {e}
    BY <1>6, <2>1, ListOfOne
  <2>3. A \ full = A
    BY <2>1, <2>2
  <2> QED
    BY <1>4, <1>6, <2>3
<1>7. CASE A \subseteq full
  BY <1>4, <1>5, <1>7
<1>8. CASE ~(Len(s) <= 1) /\ ~(A \subseteq full)
  BY <1>3, <1>4, <1>5, <1>8
<1> QED
  BY <1>6, <1>7, <1>8

LEMMA PrioritizedListed ==
  ASSUME InputsOK, NEW s, NEW A, ListOf(Enabled, s, A)
  PROVE  ListOf(Enabled, Prioritized(s, tier), A)
<1> DEFINE T(t) == {e \in DOMAIN tier : tier[e] = t}
<1>1. Prioritized(s, tier) = Kept(s, T(0)) \o Kept(s, T(1)) \o Kept(s, T(2)) \o Kept(s, T(3))
  BY DEF Prioritized
<1>2. A \subseteq Enabled
  BY MembersAre DEF ListOf
<1>3. A = (((A \cap T(0)) \cup (A \cap T(1))) \cup (A \cap T(2))) \cup (A \cap T(3))
  <2>1. \A e \in A : e \in DOMAIN tier /\ (tier[e] = 0 \/ tier[e] = 1 \/ tier[e] = 2 \/ tier[e] = 3)
    BY <1>2 DEF InputsOK, Tiers
  <2> QED
    BY <2>1
<1>4. /\ (A \cap T(0)) \cap (A \cap T(1)) = {}
      /\ ((A \cap T(0)) \cup (A \cap T(1))) \cap (A \cap T(2)) = {}
      /\ (((A \cap T(0)) \cup (A \cap T(1))) \cup (A \cap T(2))) \cap (A \cap T(3)) = {}
  OBVIOUS
<1> HIDE DEF T
<1>5. \A t : ListOf(Enabled, Kept(s, T(t)), A \cap T(t))
  BY KeptLists
<1>6. ListOf(Enabled, Kept(s, T(0)) \o Kept(s, T(1)), (A \cap T(0)) \cup (A \cap T(1)))
  BY <1>4, <1>5, JoinedLists
<1>7. ListOf(Enabled, Kept(s, T(0)) \o Kept(s, T(1)) \o Kept(s, T(2)),
            ((A \cap T(0)) \cup (A \cap T(1))) \cup (A \cap T(2)))
  BY <1>4, <1>5, <1>6, JoinedLists
<1>8. ListOf(Enabled, Kept(s, T(0)) \o Kept(s, T(1)) \o Kept(s, T(2)) \o Kept(s, T(3)),
            (((A \cap T(0)) \cup (A \cap T(1))) \cup (A \cap T(2))) \cup (A \cap T(3)))
  BY <1>4, <1>5, <1>7, JoinedLists
<1> QED
  BY <1>1, <1>3, <1>8

LEMMA PlanListed ==
  ASSUME InputsOK
  PROVE  /\ ListOf(Enabled, Prioritized(WithRoom(PlanCandidates(Order, cool, policy), full), tier), Chosen)
         /\ Chosen # {}
<1>1. ListOf(Enabled, WithRoom(PlanCandidates(Order, cool, policy), full), Chosen)
  BY CandidatesListed, RoomListed DEF Chosen
<1>2. Candidates # {}
  BY OrderLists DEF Candidates, Cooling
<1>3. Chosen # {}
  BY <1>2 DEF Chosen
<1> QED
  BY <1>1, <1>3, PrioritizedListed

-----------------------------------------------------------------------------
(* Where a plan starts                                                     *)

LEMMA Remainder ==
  ASSUME NEW n \in Nat, n > 0, NEW x \in 0..(2 * n - 1)
  PROVE  x % n = IF x < n THEN x ELSE x - n
OBVIOUS

LEMMA RemainderBelow ==
  ASSUME NEW n \in Nat, n > 0, NEW x \in Int, 0 - n < x, x < n
  PROVE  x % n = IF x < 0 THEN x + n ELSE x
OBVIOUS

LEMMA PlaceInList ==
  ASSUME NEW s, NEW A, ListOf(Enabled, s, A)
  PROVE  /\ \A e \in A : IndexOf(s, e) \in 1..Len(s) /\ s[IndexOf(s, e)] = e
         /\ \A e : e \notin A => IndexOf(s, e) = 0
         /\ \A i \in 1..Len(s) : s[i] \in A /\ IndexOf(s, s[i]) = i
<1>1. /\ s \in Seq(Enabled) /\ Distinct(s) /\ Members(s) = A /\ DOMAIN s = 1..Len(s)
      /\ A = {s[i] : i \in 1..Len(s)}
  BY MembersAre DEF ListOf
<1>2. ASSUME NEW e \in A PROVE IndexOf(s, e) \in 1..Len(s) /\ s[IndexOf(s, e)] = e
  <2>1. \E i \in DOMAIN s : s[i] = e
    BY <1>1
  <2>2. IndexOf(s, e) = CHOOSE i \in DOMAIN s : s[i] = e
    BY <1>1 DEF IndexOf
  <2> QED
    BY <1>1, <2>1, <2>2
<1>3. \A e : e \notin A => IndexOf(s, e) = 0
  BY <1>1 DEF IndexOf
<1>4. ASSUME NEW i \in 1..Len(s) PROVE s[i] \in A /\ IndexOf(s, s[i]) = i
  <2>1. s[i] \in A
    BY <1>1
  <2>2. IndexOf(s, s[i]) \in 1..Len(s) /\ s[IndexOf(s, s[i])] = s[i]
    BY <1>2, <2>1
  <2> QED
    BY <1>1, <2>1, <2>2 DEF Distinct
<1> QED
  BY <1>2, <1>3, <1>4

\* An endpoint is as far from the current one as the step around the ring that
\* leads to it.
LEMMA Ring ==
  ASSUME current \in Enabled
  PROVE  LET at == IndexOf(Order, current) IN
         /\ at \in 1..Len(Order)
         /\ \A e \in Enabled : /\ Distance(e) \in 0..(Len(Order) - 1)
                               /\ Around(Order, at, Distance(e)) = e
         /\ \A k \in 0..(Len(Order) - 1) : /\ Around(Order, at, k) \in Enabled
                                           /\ Distance(Around(Order, at, k)) = k
         /\ Distance(current) = 0
<1>1. PICK n \in Nat : n = Len(Order) /\ n > 0
  BY OrderLists
<1>2. PICK at \in 1..n : at = IndexOf(Order, current)
  BY <1>1, OrderLists, PlaceInList
<1>3. /\ \A e \in Enabled : IndexOf(Order, e) \in 1..n /\ Order[IndexOf(Order, e)] = e
      /\ \A i \in 1..n : Order[i] \in Enabled /\ IndexOf(Order, Order[i]) = i
  BY <1>1, OrderLists, PlaceInList
<1>4. \A i \in 1..n : (i - at) % n = IF i < at THEN i - at + n ELSE i - at
  <2> TAKE i \in 1..n
  <2>1. PICK x \in Int : x = i - at
    OBVIOUS
  <2>2. 0 - n < x /\ x < n
    BY <2>1
  <2>3. x % n = IF x < 0 THEN x + n ELSE x
    BY <1>1, <2>2, RemainderBelow
  <2> QED
    BY <2>1, <2>3
<1>5. \A k \in 0..(n - 1) : (at - 1 + k) % n = IF at - 1 + k < n THEN at - 1 + k ELSE at - 1 + k - n
  <2> TAKE k \in 0..(n - 1)
  <2>1. PICK x \in Int : x = at - 1 + k
    OBVIOUS
  <2>2. x \in 0..(2 * n - 1)
    BY <2>1
  <2>3. x % n = IF x < n THEN x ELSE x - n
    BY <1>1, <2>2, Remainder
  <2> QED
    BY <2>1, <2>3
<1>6. \A e : Distance(e) = (IndexOf(Order, e) - at) % n
  BY <1>1, <1>2 DEF Distance
<1>7. \A k : Around(Order, at, k) = Order[((at - 1 + k) % n) + 1]
  BY <1>1 DEF Around
<1>8. ASSUME NEW e \in Enabled
      PROVE  Distance(e) \in 0..(n - 1) /\ Around(Order, at, Distance(e)) = e
  <2>1. PICK i \in 1..n : i = IndexOf(Order, e) /\ Order[i] = e
    BY <1>3
  <2>2. PICK d \in Int : d = Distance(e) /\ d = IF i < at THEN i - at + n ELSE i - at
    BY <1>4, <1>6, <2>1
  <2>3. d \in 0..(n - 1)
    BY <2>2
  <2>4. (at - 1 + d) % n = i - 1
    BY <1>5, <2>2, <2>3
  <2>5. Around(Order, at, d) = Order[i]
    <3>1. i - 1 + 1 = i
      OBVIOUS
    <3> QED
      BY <1>7, <2>4, <3>1
  <2> QED
    BY <2>1, <2>2, <2>3, <2>5
<1>9. ASSUME NEW k \in 0..(n - 1)
      PROVE  Around(Order, at, k) \in Enabled /\ Distance(Around(Order, at, k)) = k
  <2>1. PICK i \in 1..n : i = ((at - 1 + k) % n) + 1
    BY <1>5
  <2>2. i = IF at - 1 + k < n THEN at + k ELSE at + k - n
    BY <1>5, <2>1
  <2>3. Around(Order, at, k) = Order[i] /\ Order[i] \in Enabled /\ IndexOf(Order, Order[i]) = i
    BY <1>3, <1>7, <2>1
  <2>4. Distance(Order[i]) = (i - at) % n
    BY <1>6, <2>3
  <2>5. (i - at) % n = k
    BY <1>4, <2>2
  <2> QED
    BY <2>3, <2>4, <2>5
<1>10. Distance(current) = 0
  <2>1. at - at = 0 /\ ~(at < at)
    OBVIOUS
  <2> QED
    BY <1>2, <1>4, <1>6, <2>1
<1> QED
  BY <1>1, <1>2, <1>8, <1>9, <1>10

\* e is where StartsNearCurrent wants a request to start.
NearCurrent(e) ==
  current \in Enabled =>
  LET eligible == IF skip /\ Chosen # {current} THEN Chosen \ {current} ELSE Chosen
  IN /\ e \in eligible
     /\ \A o \in eligible : Distance(e) <= Distance(o)

LEMMA StartListed ==
  ASSUME InputsOK, NEW p, ListOf(Enabled, p, Chosen), Chosen # {}
  PROVE  LET k == PlanStart(p, Order, current, skip)
         IN  k \in 1..Len(p) /\ NearCurrent(p[k])
<1> DEFINE at == IndexOf(Order, current)
           here == IndexOf(p, current)
           hits == {k \in (IF skip THEN 1 ELSE 0)..Len(Order)-1 :
                      IndexOf(p, Around(Order, at, k)) > 0}
           near == CHOOSE k \in hits : \A l \in hits : k <= l
           start == PlanStart(p, Order, current, skip)
<1>1. PICK n \in Nat : n = Len(Order) /\ n > 0
  BY OrderLists
<1>2. PICK m \in Nat : m = Len(p) /\ m >= 1
  BY EmptyList, MembersAre DEF ListOf
<1>3. /\ \A e \in Chosen : IndexOf(p, e) \in 1..m /\ p[IndexOf(p, e)] = e
      /\ \A e : e \notin Chosen => IndexOf(p, e) = 0
  BY <1>2, PlaceInList
<1>4. \A e : IndexOf(p, e) > 0 => e \in Chosen
  BY <1>3
<1>5. start = IF at = 0 THEN IF ~skip /\ here > 0 THEN here ELSE 1
              ELSE IF hits # {} THEN IndexOf(p, Around(Order, at, near))
              ELSE IF here > 0 THEN here ELSE 1
  BY DEF PlanStart
<1>6. Chosen \subseteq Enabled /\ skip \in BOOLEAN
  BY MembersAre DEF ListOf, InputsOK
<1> HIDE DEF start
<1>7. CASE current \notin Enabled
  <2>1. at = 0
    BY <1>7, OrderLists, PlaceInList
  <2>2. start \in 1..m
    BY <1>2, <1>3, <1>4, <1>5, <2>1
  <2> QED
    BY <1>2, <1>7, <2>2 DEF NearCurrent, start
<1>8. CASE current \in Enabled
  <2>1. /\ at \in 1..n /\ at # 0
        /\ \A e \in Enabled : Distance(e) \in 0..(n - 1) /\ Around(Order, at, Distance(e)) = e
        /\ \A k \in 0..(n - 1) : Around(Order, at, k) \in Enabled /\ Distance(Around(Order, at, k)) = k
        /\ Distance(current) = 0
    BY <1>1, <1>8, Ring
  <2> HIDE DEF at, here
  <2>2. \A k \in hits : /\ k \in 0..(n - 1) /\ Around(Order, at, k) \in Chosen
                        /\ skip => k >= 1
    BY <1>1, <1>4
  <2>3. \A e \in Chosen : ~(skip /\ e = current) => Distance(e) \in hits
    <3> TAKE e \in Chosen
    <3> HAVE ~(skip /\ e = current)
    <3>1. Distance(e) \in 0..(n - 1) /\ Around(Order, at, Distance(e)) = e
      BY <1>6, <2>1
    <3>2. Distance(e) = 0 => e = Around(Order, at, 0) /\ current = Around(Order, at, 0)
      BY <1>8, <2>1, <3>1
    <3>3. skip => Distance(e) >= 1
      BY <3>1, <3>2
    <3>4. IndexOf(p, Around(Order, at, Distance(e))) > 0
      BY <1>3, <3>1
    <3> QED
      BY <1>1, <1>6, <3>1, <3>3, <3>4
  <2>4. hits \subseteq Nat
    BY <2>2
  <2> HIDE DEF hits
  <2>5. CASE hits # {}
    <3>1. \E k \in hits : \A l \in hits : k <= l
      BY <2>4, <2>5, LeastMember
    <3>2. near \in hits /\ \A l \in hits : near <= l
      BY <3>1
    <3> HIDE DEF near
    <3>3. PICK e \in Chosen : e = Around(Order, at, near)
      BY <2>2, <3>2
    <3>4. Distance(e) = near /\ near \in 0..(n - 1)
      BY <2>1, <2>2, <3>2, <3>3
    <3>5. start = IndexOf(p, e)
      BY <1>5, <2>1, <2>5, <3>3
    <3>6. start \in 1..m /\ p[start] = e
      BY <1>3, <3>5
    <3>7. skip => e # current
      <4> SUFFICES ASSUME skip, e = current PROVE FALSE
        OBVIOUS
      <4>1. near >= 1
        BY <2>2, <3>2
      <4> QED
        BY <2>1, <3>4, <4>1
    <3>8. ASSUME NEW o \in Chosen, skip => o # current PROVE Distance(e) <= Distance(o)
      BY <2>3, <3>2, <3>4, <3>8
    <3>9. skip => Chosen # {current}
      BY <3>7
    <3>10. NearCurrent(e)
      BY <3>7, <3>8, <3>9 DEF NearCurrent
    <3> QED
      BY <1>2, <3>6, <3>10 DEF start
  <2>6. CASE hits = {}
    <3>1. skip /\ Chosen = {current}
      BY <1>6, <2>3, <2>6
    <3>2. here \in 1..m /\ p[here] = current
      BY <1>3, <3>1 DEF here
    <3>3. start = here
      BY <1>5, <2>1, <2>6, <3>2
    <3>4. NearCurrent(current)
      <4>1. Distance(current) <= Distance(current)
        BY <2>1
      <4> QED
        BY <3>1, <4>1 DEF NearCurrent
    <3> QED
      BY <1>2, <3>2, <3>3, <3>4 DEF start
  <2> QED
    BY <2>5, <2>6
<1> QED
  BY <1>7, <1>8

-----------------------------------------------------------------------------
(* The walk                                                                *)

\* Where the k-th step stands that began at start, around n places.
Place(start, k, n) == IF start + k - 1 <= n THEN start + k - 1 ELSE start + k - 1 - n

LEMMA PlacesDiffer ==
  ASSUME NEW n \in Nat, NEW start \in 1..n
  PROVE  /\ \A k \in 1..n : Place(start, k, n) \in 1..n
         /\ \A k, l \in 1..n : Place(start, k, n) = Place(start, l, n) => k = l
         /\ \A i \in 1..n : \E k \in 1..n : Place(start, k, n) = i
         /\ Place(start, 1, n) = start
<1>1. ASSUME NEW i \in 1..n PROVE \E k \in 1..n : Place(start, k, n) = i
  <2>1. CASE i >= start
    <3>1. i - start + 1 \in 1..n /\ Place(start, i - start + 1, n) = i
      BY <2>1 DEF Place
    <3> QED
      BY <3>1
  <2>2. CASE i < start
    <3>1. i - start + 1 + n \in 1..n /\ Place(start, i - start + 1 + n, n) = i
      BY <2>2 DEF Place
    <3> QED
      BY <3>1
  <2> QED
    BY <2>1, <2>2
<1> QED
  BY <1>1 DEF Place

\* What was visited is the plan from its start, once around.
WalkedFrom(start) ==
  /\ NearCurrent(plan[start])
  /\ index = Place(start, Len(visited), Len(plan))
  /\ \A k \in 1..Len(visited) : visited[k] = plan[Place(start, k, Len(plan))]

WalkInv ==
  /\ ListOf(Enabled, plan, Chosen) /\ Chosen # {}
  /\ visited \in Seq(Enabled) /\ Len(visited) \in 1..Len(plan)
  /\ \E start \in 1..Len(plan) : WalkedFrom(start)

LEMMA WalkStarts == PlanInit => WalkInv
<1> SUFFICES ASSUME PlanInit PROVE WalkInv
  OBVIOUS
<1>1. InputsOK
  <2>1. 0..MaxTier \subseteq Tiers
    BY PlanAssumption DEF Tiers
  <2>2. tier \in [Enabled -> Tiers]
    BY <2>1 DEF PlanInit
  <2> QED
    BY <2>2 DEF PlanInit, InputsOK
<1>2. plan = Prioritized(WithRoom(PlanCandidates(Order, cool, policy), full), tier)
  BY DEF PlanInit
<1>3. ListOf(Enabled, plan, Chosen) /\ Chosen # {}
  BY <1>1, <1>2, PlanListed
<1>4. PICK n \in Nat : n = Len(plan)
  BY <1>3, MembersAre DEF ListOf
<1>5. index = PlanStart(plan, Order, current, skip) /\ visited = <<plan[index]>>
  BY DEF PlanInit
<1>6. index \in 1..n /\ NearCurrent(plan[index])
  BY <1>1, <1>3, <1>4, <1>5, StartListed
<1>7. plan[index] \in Enabled
  BY <1>3, <1>4, <1>6 DEF ListOf
<1>8. /\ visited \in Seq(Enabled) /\ Len(visited) = 1
      /\ visited[1] = plan[index]
  BY <1>5, <1>7
<1>9. Place(index, 1, n) = index
  BY <1>4, <1>6, PlacesDiffer
<1>10. \A k \in 1..Len(visited) : k = 1
  BY <1>8
<1>11. WalkedFrom(index)
  BY <1>4, <1>6, <1>8, <1>9, <1>10 DEF WalkedFrom
<1>12. 1 \in 1..n
  BY <1>4, <1>6
<1> QED
  BY <1>3, <1>4, <1>6, <1>8, <1>11, <1>12 DEF WalkInv

LEMMA WalkGoesOn == WalkInv /\ [Advance]_planVars => WalkInv'
<1> SUFFICES ASSUME WalkInv, [Advance]_planVars PROVE WalkInv'
  OBVIOUS
<1>1. PICK n \in Nat : n = Len(plan)
  BY MembersAre DEF WalkInv, ListOf
<1>2. PICK start \in 1..n : WalkedFrom(start)
  BY <1>1 DEF WalkInv
<1>3. PICK m \in 1..n : m = Len(visited)
  BY <1>1 DEF WalkInv
<1>4. ListOf(Enabled, plan, Chosen) /\ Chosen # {} /\ visited \in Seq(Enabled)
  BY DEF WalkInv
<1>5. UNCHANGED <<cool, policy, full, tier, current, skip, plan>>
  BY DEF Advance, planVars
<1>6. Chosen' = Chosen /\ plan' = plan
  BY <1>5 DEF Chosen, Candidates, Cooling, Enabled
<1>7. NearCurrent(plan[start]) => NearCurrent(plan[start])'
  BY <1>5, <1>6 DEF NearCurrent, Distance, Enabled
<1>8. ListOf(Enabled, plan, Chosen)' /\ (Chosen # {})'
  BY <1>4, <1>6 DEF ListOf, Enabled
<1>9. CASE UNCHANGED planVars
  <2>1. index' = index /\ visited' = visited
    BY <1>9 DEF planVars
  <2>2. WalkedFrom(start)'
    BY <1>2, <1>6, <1>7, <2>1 DEF WalkedFrom
  <2>3. (visited \in Seq(Enabled))' /\ Len(visited') \in 1..Len(plan')
    BY <1>1, <1>3, <1>4, <1>6, <2>1
  <2> QED
    BY <1>1, <1>2, <1>6, <1>8, <2>2, <2>3 DEF WalkInv
<1>10. CASE Advance
  <2>1. m < n /\ index' = NextIndex(plan, index) /\ visited' = Append(visited, plan[index'])
    BY <1>1, <1>3, <1>10 DEF Advance
  <2>2. index = Place(start, m, n) /\ index \in 1..n /\ m + 1 \in 1..n
    BY <1>1, <1>2, <1>3, <2>1, PlacesDiffer DEF WalkedFrom
  <2>3. index' = Place(start, m + 1, n) /\ index' \in 1..n
    <3>1. PICK i \in 1..n : i = index
      BY <2>2
    <3>2. i % n = IF i < n THEN i ELSE i - n
      <4>1. i \in 0..(2 * n - 1) /\ n > 0
        OBVIOUS
      <4> QED
        BY <4>1, Remainder
    <3>3. index' = (i % n) + 1
      BY <1>1, <2>1, <3>1 DEF NextIndex
    <3>4. i = IF start + m - 1 <= n THEN start + m - 1 ELSE start + m - 1 - n
      BY <2>2, <3>1 DEF Place
    <3>5. Place(start, m + 1, n) = IF start + m <= n THEN start + m ELSE start + m - n
      BY DEF Place
    <3> QED
      BY <2>1, <3>2, <3>3, <3>4, <3>5
  <2>4. plan[index'] \in Enabled
    BY <1>1, <1>4, <2>3 DEF ListOf
  <2>5. /\ visited' \in Seq(Enabled) /\ Len(visited') = m + 1
        /\ visited'[m + 1] = plan[index'] /\ \A k \in 1..m : visited'[k] = visited[k]
    BY <1>3, <1>4, <2>1, <2>4
  <2>6. \A k \in 1..m + 1 : k = m + 1 \/ k \in 1..m
    OBVIOUS
  <2>7. \A k \in 1..m + 1 : visited'[k] = plan[Place(start, k, n)]
    BY <1>1, <1>2, <1>3, <2>3, <2>5, <2>6 DEF WalkedFrom
  <2>8. WalkedFrom(start)'
    BY <1>1, <1>2, <1>6, <1>7, <2>3, <2>5, <2>7 DEF WalkedFrom
  <2>9. (visited \in Seq(Enabled))'
    BY <2>5 DEF Enabled
  <2>10. Len(visited') \in 1..Len(plan')
    BY <1>1, <1>6, <2>2, <2>5
  <2> QED
    BY <1>1, <1>2, <1>6, <1>8, <2>8, <2>9, <2>10 DEF WalkInv
<1> QED
  BY <1>9, <1>10

LEMMA WalkIsSound == WalkInv => PlanSound
<1> SUFFICES ASSUME WalkInv PROVE PlanSound
  OBVIOUS
<1>1. PICK n \in Nat : n = Len(plan)
  BY MembersAre DEF WalkInv, ListOf
<1>2. PICK start \in 1..n : WalkedFrom(start)
  BY <1>1 DEF WalkInv
<1>3. PICK m \in 1..n : m = Len(visited)
  BY <1>1 DEF WalkInv
<1>4. ListOf(Enabled, plan, Chosen) /\ visited \in Seq(Enabled)
  BY DEF WalkInv
<1>5. /\ NearCurrent(plan[start])
      /\ \A k \in 1..m : visited[k] = plan[Place(start, k, n)]
  BY <1>1, <1>2, <1>3 DEF WalkedFrom
<1>6. PlanIsReference
  BY <1>4 DEF PlanIsReference, ListOf
<1>7. Distinct(visited)
  <2> SUFFICES ASSUME NEW k \in 1..m, NEW l \in 1..m, visited[k] = visited[l] PROVE k = l
    BY <1>3 DEF Distinct
  <2>1. k \in 1..n /\ l \in 1..n
    OBVIOUS
  <2>2. Place(start, k, n) \in 1..n /\ Place(start, l, n) \in 1..n
    BY <2>1, PlacesDiffer
  <2>3. Place(start, k, n) = Place(start, l, n)
    BY <1>1, <1>4, <1>5, <2>2 DEF ListOf, Distinct
  <2> QED
    BY <2>1, <2>3, PlacesDiffer
<1>8. Len(visited) = Len(plan) => Members(visited) = Chosen
  <2> SUFFICES ASSUME m = n PROVE Members(visited) = Members(plan)
    BY <1>1, <1>3, <1>4 DEF ListOf
  <2>1. Members(visited) = {visited[k] : k \in 1..n} /\ Members(plan) = {plan[i] : i \in 1..n}
    BY <1>1, <1>3, <1>4, MembersAre DEF ListOf
  <2>2. \A k \in 1..n : Place(start, k, n) \in 1..n /\ visited[k] = plan[Place(start, k, n)]
    BY <1>5, PlacesDiffer
  <2>3. \A i \in 1..n : \E k \in 1..n : visited[k] = plan[i]
    <3> TAKE i \in 1..n
    <3>1. PICK k \in 1..n : Place(start, k, n) = i
      BY PlacesDiffer
    <3> QED
      BY <2>2, <3>1
  <2> QED
    BY <2>1, <2>2, <2>3
<1>9. OnceAround
  BY <1>4, <1>7, <1>8, DistinctCounted DEF OnceAround
<1>10. StartsNearCurrent
  <2>1. 1 \in 1..m /\ Place(start, 1, n) = start
    BY PlacesDiffer
  <2>2. visited[1] = plan[start]
    BY <1>5, <2>1
  <2> QED
    BY <1>5, <2>2 DEF StartsNearCurrent, NearCurrent
<1> QED
  BY <1>6, <1>9, <1>10 DEF PlanSound

\* Whatever endpoints are enabled, whichever of them cool, are full or suit the
\* client's format less, and wherever the current one is: a plan visits all the
\* right endpoints, each once, from the nearest one (buildRequestEndpointPlan,
\* Advance).
THEOREM PlanStaysSound == PlanSpec => []PlanSound
BY WalkStarts, WalkGoesOn, WalkIsSound, PTL DEF PlanSpec
=============================================================================
