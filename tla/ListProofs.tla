----------------------------- MODULE ListProofs -----------------------------
(***************************************************************************)
(* Facts about numbers and lists that the proofs of several components     *)
(* rest on: least members, what Kept keeps of a list, and lists without    *)
(* repetitions.                                                            *)
(***************************************************************************)
EXTENDS Lists, FiniteSetTheorems, WellFoundedInduction, SequenceTheorems, TLAPS

\* A set of numbers that is not empty has a least member.  There is no
\* induction here: the intervals below the members are finite sets, which the
\* library orders by inclusion.
LEMMA LeastMember ==
  ASSUME NEW S, S \subseteq Nat, S # {}
  PROVE  \E x \in S : \A y \in S : x <= y
<1> DEFINE Below == {0..x : x \in S}
<1>1. \A x \in S : 0..x \in FiniteSubsetsOf(Nat)
  BY FS_Interval DEF FiniteSubsetsOf
<1>2. Below \subseteq FiniteSubsetsOf(Nat) /\ Below # {}
  BY <1>1
<1>3. PICK T \in Below : \A U \in Below : <<U, T>> \notin StrictSubsetOrdering(Nat)
  <2> HIDE DEF Below
  <2> QED
    BY <1>2, FS_StrictSubsetOrderingWellFounded, WFMin
<1>4. PICK x \in S : T = 0..x
  OBVIOUS
<1>5. ASSUME NEW y \in S PROVE x <= y
  <2> SUFFICES ASSUME y < x PROVE FALSE
    OBVIOUS
  <2>1. 0..y \subseteq 0..x /\ 0..y # 0..x /\ 0..y \in Below
    OBVIOUS
  <2>2. 0..y \in SUBSET Nat /\ 0..x \in SUBSET Nat
    OBVIOUS
  <2> QED
    BY <1>3, <1>4, <2>1, <2>2 DEF StrictSubsetOrdering
<1> QED
  BY <1>5

\* What holds of 0, and of each number if of the one before, holds of all.
LEMMA Induction ==
  ASSUME NEW G, NEW n \in Nat, 0 \in G, \A m \in 1..n : m - 1 \in G => m \in G
  PROVE  \A m \in 0..n : m \in G
<1> DEFINE bad == {m \in 0..n : m \notin G}
<1>1. SUFFICES ASSUME bad # {} PROVE FALSE
  OBVIOUS
<1>2. PICK k \in bad : \A m \in bad : k <= m
  <2>1. bad \subseteq Nat
    OBVIOUS
  <2> HIDE DEF bad
  <2> QED
    BY <1>1, <2>1, LeastMember
<1>3. k \in 1..n /\ k \notin G
  OBVIOUS
<1>4. k - 1 \in 0..n /\ k - 1 \notin bad
  BY <1>2, <1>3
<1> QED
  BY <1>3, <1>4

-----------------------------------------------------------------------------
(* What is kept of a list                                                  *)

\* What is kept of m members, if q is kept of those before.
OneKept(s, K, m, q) == IF s[m] \in K THEN Append(q, s[m]) ELSE q

\* f holds what is kept of each of the first n members of s.
KeptUpto(s, K, n, f) ==
  f = [m \in 0..n |-> IF m = 0 THEN <<>>
                      ELSE IF s[m] \in K THEN Append(f[m - 1], s[m]) ELSE f[m - 1]]

KeptFrom(s, K, n, f) == f[0] = <<>> /\ \A m \in 1..n : f[m] = OneKept(s, K, m, f[m - 1])

LEMMA KeptSteps ==
  ASSUME NEW s, NEW K, NEW n \in Nat, NEW f
  PROVE  KeptUpto(s, K, n, f) <=> f = [m \in 0..n |-> f[m]] /\ KeptFrom(s, K, n, f)
<1> DEFINE step(m) == IF m = 0 THEN <<>>
                      ELSE IF s[m] \in K THEN Append(f[m - 1], s[m]) ELSE f[m - 1]
<1>1. KeptUpto(s, K, n, f) <=> f = [m \in 0..n |-> step(m)]
  BY DEF KeptUpto
<1>2. step(0) = <<>> /\ 0 \in 0..n
  OBVIOUS
<1>3. \A m \in 1..n : m \in 0..n /\ step(m) = OneKept(s, K, m, f[m - 1])
  BY DEF OneKept
<1>4. \A m \in 0..n : m = 0 \/ m \in 1..n
  OBVIOUS
<1> HIDE DEF step
<1>5. f = [m \in 0..n |-> step(m)] <=> f = [m \in 0..n |-> f[m]] /\ \A m \in 0..n : f[m] = step(m)
  OBVIOUS
<1> QED
  BY <1>1, <1>2, <1>3, <1>4, <1>5 DEF KeptFrom

LEMMA KeptExists ==
  ASSUME NEW s, NEW K, NEW len \in Nat
  PROVE  \E f : KeptUpto(s, K, len, f)
<1> DEFINE G == {n \in Nat : \E f : KeptUpto(s, K, n, f)}
<1>1. 0 \in G
  <2>1. KeptUpto(s, K, 0, [m \in 0..0 |-> <<>>])
    BY DEF KeptUpto
  <2> QED
    BY <2>1
<1>2. ASSUME NEW n \in 1..len, n - 1 \in G PROVE n \in G
  <2>1. PICK k \in Nat : k = n - 1
    OBVIOUS
  <2>2. PICK g : KeptUpto(s, K, k, g)
    BY <1>2, <2>1
  <2>3. KeptFrom(s, K, k, g)
    BY <2>2, KeptSteps
  <2> DEFINE f == [m \in 0..n |-> IF m < n THEN g[m] ELSE OneKept(s, K, n, g[n - 1])]
  <2>4. f[0] = <<>>
    BY <2>3 DEF KeptFrom
  <2>5. \A m \in 1..n : f[m] = OneKept(s, K, m, f[m - 1])
    BY <2>1, <2>3 DEF KeptFrom
  <2>6. f = [m \in 0..n |-> f[m]] /\ n \in Nat
    OBVIOUS
  <2> HIDE DEF f
  <2>7. KeptUpto(s, K, n, f)
    BY <2>4, <2>5, <2>6, KeptSteps DEF KeptFrom
  <2> QED
    BY <2>6, <2>7
<1> HIDE DEF G
<1>3. len \in G
  BY <1>1, <1>2, Induction
<1> QED
  BY <1>3 DEF G

LEMMA KeptIs ==
  ASSUME NEW S, NEW s \in Seq(S), NEW K
  PROVE  \E f : KeptFrom(s, K, Len(s), f) /\ Kept(s, K) = f[Len(s)]
<1> DEFINE f == CHOOSE f : KeptUpto(s, K, Len(s), f)
<1>1. KeptUpto(s, K, Len(s), f)
  BY KeptExists
<1>2. Kept(s, K) = f[Len(s)]
  BY DEF Kept, KeptUpto
<1> HIDE DEF f
<1> QED
  BY <1>1, <1>2, KeptSteps

\* What is kept is in K and was there, ...
LEMMA KeptTyped ==
  ASSUME NEW S, NEW s \in Seq(S), NEW K
  PROVE  Kept(s, K) \in Seq(S \cap K)
<1> DEFINE T == S \cap K
<1>1. PICK f : KeptFrom(s, K, Len(s), f) /\ Kept(s, K) = f[Len(s)]
  BY KeptIs
<1>2. Len(s) \in Nat /\ \A m \in 1..Len(s) : s[m] \in S
  OBVIOUS
<1>3. \A m \in 1..Len(s) : s[m] \in K => s[m] \in T
  BY <1>2
<1> HIDE DEF T
<1>4. <<>> \in Seq(T) /\ \A q \in Seq(T), x \in T : Append(q, x) \in Seq(T)
  OBVIOUS
<1> DEFINE G == {m \in 0..Len(s) : f[m] \in Seq(T)}
<1>5. 0 \in G
  <2>1. f[0] \in Seq(T) /\ 0 \in 0..Len(s)
    BY <1>1, <1>2, <1>4 DEF KeptFrom
  <2> QED
    BY <2>1
<1>6. ASSUME NEW m \in 1..Len(s), m - 1 \in G PROVE m \in G
  <2>1. f[m - 1] \in Seq(T) /\ m \in 0..Len(s)
    BY <1>2, <1>6
  <2>2. f[m] \in Seq(T)
    BY <1>1, <1>3, <1>4, <2>1 DEF KeptFrom, OneKept
  <2> QED
    BY <2>1, <2>2
<1> HIDE DEF G
<1>7. \A m \in 0..Len(s) : m \in G
  BY <1>2, <1>5, <1>6, Induction
<1> QED
  BY <1>1, <1>2, <1>7 DEF G, T

\* ... and all that was there and is in K is kept.
LEMMA KeptKeeps ==
  ASSUME NEW S, NEW s \in Seq(S), NEW K, NEW i \in 1..Len(s), s[i] \in K
  PROVE  \E j \in 1..Len(Kept(s, K)) : Kept(s, K)[j] = s[i]
<1>1. PICK f : KeptFrom(s, K, Len(s), f) /\ Kept(s, K) = f[Len(s)]
  BY KeptIs
<1> DEFINE Here(q) == \E j \in 1..Len(q) : q[j] = s[i]
           G == {m \in 0..Len(s) : f[m] \in Seq(S) /\ (i <= m => Here(f[m]))}
<1>2. Len(s) \in Nat /\ i \in 1..Len(s) /\ \A m \in 1..Len(s) : s[m] \in S
  OBVIOUS
<1>3. <<>> \in Seq(S) /\ \A q \in Seq(S), x \in S : Append(q, x) \in Seq(S)
  OBVIOUS
<1>4. \A q \in Seq(S), x \in S : Here(q) \/ x = s[i] => Here(Append(q, x))
  OBVIOUS
<1> HIDE DEF Here
<1>5. 0 \in G
  <2>1. f[0] \in Seq(S) /\ 0 \in 0..Len(s) /\ ~(i <= 0)
    BY <1>1, <1>2, <1>3 DEF KeptFrom
  <2> QED
    BY <2>1
<1>6. ASSUME NEW m \in 1..Len(s), m - 1 \in G PROVE m \in G
  <2>1. f[m - 1] \in Seq(S) /\ m \in 0..Len(s) /\ (i <= m - 1 => Here(f[m - 1]))
    BY <1>2, <1>6
  <2>2. f[m] \in Seq(S)
    BY <1>1, <1>2, <1>3, <2>1 DEF KeptFrom, OneKept
  <2>3. CASE i = m
    BY <1>1, <1>2, <1>4, <2>1, <2>2, <2>3 DEF KeptFrom, OneKept
  <2>4. CASE i # m
    <3>1. i <= m => i <= m - 1
      BY <1>2, <2>4
    <3>2. Here(f[m - 1]) => Here(f[m])
      BY <1>1, <1>2, <1>4, <2>1 DEF KeptFrom, OneKept
    <3> QED
      BY <2>1, <2>2, <3>1, <3>2
  <2> QED
    BY <2>3, <2>4
<1> HIDE DEF G
<1>7. \A m \in 0..Len(s) : m \in G
  BY <1>2, <1>5, <1>6, Induction
<1> QED
  BY <1>1, <1>2, <1>7 DEF G, Here

-----------------------------------------------------------------------------
(* Lists without repetitions                                               *)

Distinct(s) == \A i, j \in 1..Len(s) : s[i] = s[j] => i = j

\* s lists the members of A, which are in T, each once.
ListOf(T, s, A) == s \in Seq(T) /\ Distinct(s) /\ Members(s) = A

LEMMA MembersAre ==
  ASSUME NEW T, NEW s \in Seq(T)
  PROVE  /\ Members(s) = {s[i] : i \in 1..Len(s)} /\ Len(s) \in Nat
         /\ \A e : e \in Members(s) <=> \E i \in 1..Len(s) : s[i] = e
         /\ Members(s) \subseteq T
<1>1. DOMAIN s = 1..Len(s) /\ Len(s) \in Nat /\ \A i \in 1..Len(s) : s[i] \in T
  OBVIOUS
<1> QED
  BY <1>1 DEF Members

LEMMA NoneListed ==
  ASSUME NEW T
  PROVE  ListOf(T, <<>>, {})
<1>1. <<>> \in Seq(T) /\ Len(<<>>) = 0 /\ 1..0 = {}
  OBVIOUS
<1> QED
  BY <1>1, MembersAre DEF ListOf, Distinct

LEMMA EmptyList ==
  ASSUME NEW T, NEW s, NEW A, ListOf(T, s, A)
  PROVE  (s = <<>> <=> A = {}) /\ (A # {} => Len(s) >= 1)
<1>1. s \in Seq(T) /\ A = {s[i] : i \in 1..Len(s)} /\ Len(s) \in Nat
  BY MembersAre DEF ListOf
<1>2. s = <<>> <=> Len(s) = 0
  BY <1>1
<1>3. Len(s) = 0 => 1..Len(s) = {}
  OBVIOUS
<1>4. Len(s) # 0 => 1 \in 1..Len(s) /\ Len(s) >= 1
  BY <1>1
<1> QED
  BY <1>1, <1>2, <1>3, <1>4

LEMMA ListOfOne ==
  ASSUME NEW T, NEW s, NEW A, ListOf(T, s, A), Len(s) <= 1, NEW e \in A
  PROVE  A = {e}
<1>1. s \in Seq(T) /\ A = {s[i] : i \in 1..Len(s)} /\ Len(s) \in Nat
  BY MembersAre DEF ListOf
<1>2. \A i, j \in 1..Len(s) : i = j
  BY <1>1
<1> QED
  BY <1>1, <1>2

LEMMA OneMoreListed ==
  ASSUME NEW T, NEW s, NEW A, ListOf(T, s, A), NEW e \in T, e \notin A
  PROVE  ListOf(T, Append(s, e), A \cup {e})
<1> DEFINE t == Append(s, e)
<1>1. s \in Seq(T) /\ Distinct(s) /\ A = {s[i] : i \in 1..Len(s)} /\ Len(s) \in Nat
  BY MembersAre DEF ListOf
<1>2. /\ t \in Seq(T) /\ Len(t) = Len(s) + 1 /\ t[Len(s) + 1] = e
      /\ \A i \in 1..Len(s) : t[i] = s[i]
  BY <1>1
<1>3. Members(t) = {t[i] : i \in 1..Len(t)}
  BY <1>2, MembersAre
<1> HIDE DEF t
<1>4. \A i \in 1..Len(t) : i = Len(s) + 1 \/ i \in 1..Len(s)
  BY <1>1, <1>2
<1>5. Len(s) + 1 \in 1..Len(t) /\ \A i \in 1..Len(s) : i \in 1..Len(t) /\ s[i] # e
  BY <1>1, <1>2
<1>6. Members(t) = A \cup {e}
  BY <1>1, <1>2, <1>3, <1>4, <1>5
<1>7. Distinct(t)
  <2> SUFFICES ASSUME NEW i \in 1..Len(t), NEW j \in 1..Len(t), t[i] = t[j] PROVE i = j
    BY DEF Distinct
  <2>1. CASE i \in 1..Len(s) /\ j \in 1..Len(s)
    BY <1>1, <1>2, <2>1 DEF Distinct
  <2>2. CASE i = Len(s) + 1 \/ j = Len(s) + 1
    BY <1>2, <1>4, <1>5, <2>2
  <2> QED
    BY <1>4, <2>1, <2>2
<1> QED
  BY <1>2, <1>6, <1>7 DEF ListOf, t

LEMMA JoinedLists ==
  ASSUME NEW T, NEW s, NEW A, ListOf(T, s, A), NEW t, NEW B, ListOf(T, t, B), A \cap B = {}
  PROVE  ListOf(T, s \o t, A \cup B)
<1> DEFINE u == s \o t
<1>1. s \in Seq(T) /\ Distinct(s) /\ A = {s[i] : i \in 1..Len(s)}
  BY MembersAre DEF ListOf
<1>2. t \in Seq(T) /\ Distinct(t) /\ B = {t[i] : i \in 1..Len(t)}
  BY MembersAre DEF ListOf
<1>3. PICK m \in Nat : m = Len(s)
  BY <1>1
<1>4. PICK n \in Nat : n = Len(t)
  BY <1>2
<1>5. /\ u \in Seq(T) /\ Len(u) = m + n
      /\ \A i \in 1..m + n : u[i] = IF i <= m THEN s[i] ELSE t[i - m]
  BY <1>1, <1>2, <1>3, <1>4, ConcatProperties
<1>6. Members(u) = {u[i] : i \in 1..m + n}
  BY <1>5, MembersAre
<1> HIDE DEF u
<1>7. \A i \in 1..m : i \in 1..m + n /\ u[i] = s[i] /\ u[i] \in A
  BY <1>1, <1>3, <1>5
<1>8. \A i \in 1..n : m + i \in 1..m + n /\ u[m + i] = t[i] /\ u[m + i] \in B
  <2> TAKE i \in 1..n
  <2>1. m + i \in 1..m + n /\ ~(m + i <= m) /\ m + i - m = i
    OBVIOUS
  <2> QED
    BY <1>2, <1>4, <1>5, <2>1
<1>9. \A i \in 1..m + n : i \in 1..m \/ \E k \in 1..n : i = m + k
  <2> TAKE i \in 1..m + n
  <2>1. CASE i > m
    <3>1. i - m \in 1..n /\ i = m + (i - m)
      BY <2>1
    <3> QED
      BY <3>1
  <2> QED
    BY <2>1
<1>10. Members(u) = A \cup B
  <2>1. \A e \in Members(u) : e \in A \cup B
    BY <1>6, <1>7, <1>8, <1>9
  <2>2. \A e \in A : e \in Members(u)
    BY <1>1, <1>3, <1>6, <1>7
  <2>3. \A e \in B : e \in Members(u)
    BY <1>2, <1>4, <1>6, <1>8
  <2> QED
    BY <2>1, <2>2, <2>3
<1>11. Distinct(u)
  <2> SUFFICES ASSUME NEW i \in 1..m + n, NEW j \in 1..m + n, u[i] = u[j] PROVE i = j
    BY <1>5 DEF Distinct
  <2>1. CASE i \in 1..m /\ j \in 1..m
    BY <1>1, <1>3, <1>7, <2>1 DEF Distinct
  <2>2. ASSUME NEW k \in 1..n, NEW l \in 1..n, i = m + k, j = m + l PROVE i = j
    BY <1>2, <1>4, <1>8, <2>2 DEF Distinct
  <2>3. ASSUME NEW k \in 1..n, i = m + k, j \in 1..m PROVE FALSE
    BY <1>7, <1>8, <2>3
  <2>4. ASSUME NEW l \in 1..n, j = m + l, i \in 1..m PROVE FALSE
    BY <1>7, <1>8, <2>4
  <2> QED
    BY <1>9, <2>1, <2>2, <2>3, <2>4
<1> QED
  BY <1>5, <1>10, <1>11 DEF ListOf, u

\* Kept lists what is in both, each once.
LEMMA KeptLists ==
  ASSUME NEW T, NEW s, NEW A, ListOf(T, s, A), NEW K
  PROVE  ListOf(T, Kept(s, K), A \cap K)
<1>1. s \in Seq(T) /\ Distinct(s) /\ A = {s[i] : i \in 1..Len(s)}
  BY MembersAre DEF ListOf
<1>2. PICK len \in Nat : len = Len(s)
  BY <1>1
<1>3. PICK f : KeptFrom(s, K, len, f) /\ Kept(s, K) = f[len]
  BY <1>1, <1>2, KeptIs
<1> DEFINE upto(m) == {s[i] : i \in 1..m} \cap K
           G == {m \in 0..len : ListOf(T, f[m], upto(m))}
<1>4. \A m \in 1..len : s[m] \in T
  BY <1>1, <1>2
<1>5. 0 \in G
  <2>1. f[0] = <<>> /\ 0 \in 0..len /\ upto(0) = {}
    BY <1>3 DEF KeptFrom
  <2> QED
    BY <2>1, NoneListed
<1>6. ASSUME NEW m \in 1..len, m - 1 \in G PROVE m \in G
  <2>1. ListOf(T, f[m - 1], upto(m - 1)) /\ m \in 0..len /\ s[m] \in T
    BY <1>4, <1>6
  <2>2. f[m] = OneKept(s, K, m, f[m - 1])
    BY <1>3 DEF KeptFrom
  <2>3. \A i \in 1..m : i = m \/ i \in 1..m - 1
    OBVIOUS
  <2>4. m \in 1..m /\ \A i \in 1..m - 1 : i \in 1..m
    OBVIOUS
  <2>5. {s[i] : i \in 1..m} = {s[i] : i \in 1..m - 1} \cup {s[m]}
    BY <2>3, <2>4
  <2>6. CASE s[m] \in K
    <3>1. upto(m) = upto(m - 1) \cup {s[m]}
      BY <2>5, <2>6
    <3>2. s[m] \notin upto(m - 1)
      <4>1. \A i \in 1..m - 1 : i \in 1..Len(s) /\ m \in 1..Len(s) /\ i # m
        BY <1>2
      <4> QED
        BY <1>1, <4>1 DEF Distinct
    <3>3. f[m] = Append(f[m - 1], s[m])
      BY <2>2, <2>6 DEF OneKept
    <3> HIDE DEF upto
    <3>4. ListOf(T, f[m], upto(m))
      BY <2>1, <3>1, <3>2, <3>3, OneMoreListed
    <3> QED
      BY <2>1, <3>4
  <2>7. CASE s[m] \notin K
    <3>1. upto(m) = upto(m - 1)
      BY <2>5, <2>7
    <3>2. f[m] = f[m - 1]
      BY <2>2, <2>7 DEF OneKept
    <3> HIDE DEF upto
    <3> QED
      BY <2>1, <3>1, <3>2
  <2> QED
    BY <2>6, <2>7
<1> HIDE DEF G
<1>7. len \in G
  <2>1. \A m \in 0..len : m \in G
    BY <1>5, <1>6, Induction
  <2>2. len \in 0..len
    OBVIOUS
  <2> QED
    BY <2>1, <2>2
<1>8. ListOf(T, f[len], upto(len))
  BY <1>7 DEF G
<1>9. upto(len) = A \cap K
  BY <1>1, <1>2
<1> HIDE DEF upto
<1> QED
  BY <1>3, <1>8, <1>9

\* A list without repetitions has as many members as entries.
LEMMA DistinctCounted ==
  ASSUME NEW T, NEW s \in Seq(T), Distinct(s)
  PROVE  IsFiniteSet(Members(s)) /\ Cardinality(Members(s)) = Len(s)
<1> DEFINE n == Len(s)
           f == [i \in 1..n |-> s[i]]
<1>1. n \in Nat /\ Members(s) = {s[i] : i \in 1..n}
  BY MembersAre
<1>2. f \in Bijection(1..n, Members(s))
  BY <1>1 DEF Distinct, Bijection, Injection, IsInjective, Surjection
<1>3. ExistsBijection(1..n, Members(s))
  BY <1>2 DEF ExistsBijection
<1> HIDE DEF n, f
<1>4. IsFiniteSet(1..n)
  BY <1>1, FS_Interval
<1> QED
  BY <1>1, <1>3, <1>4, FS_CountingElements, FS_Bijection DEF n
=============================================================================
