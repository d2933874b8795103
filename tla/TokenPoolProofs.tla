--------------------------- MODULE TokenPoolProofs ---------------------------
(***************************************************************************)
(* Proofs about TokenPool, for every set of credentials, workers and       *)
(* editors and for every bound.  SingleFlight is not inductive as it        *)
(* stands: a worker must also hold a credential while it is on its way,    *)
(* and a refresh token while it redeems one.                               *)
(***************************************************************************)
EXTENDS TokenPool, TLAPS

\* A worker between Select and the end of its attempt has a credential.
Bound(w) == pc[w] \notin {"idle", "retry"} => cred[w] \in Creds

\* Only a worker with a refresh token starts an exchange.
Armed(w) == pc[w] = "redeem" => copy[w].refresh \in Nat

Placed == \A w \in Workers : Bound(w) /\ Armed(w)

IInv == TypeOK /\ SingleFlight /\ Placed

InFlight == {"redeem", "persist", "publish"}

-----------------------------------------------------------------------------
(* Rows stay rows under the storage operations.                            *)

LEMMA Constants == MaxFailures \in Nat /\ MaxFailures # 0 /\ NoToken \notin Nat
                   /\ None \notin Creds /\ None \notin Workers /\ None \notin Names
BY ConstantsOK DEF ConstantsOK

LEMMA MarksKeepRows ==
  ASSUME NEW r \in Row
  PROVE  /\ MarkSuccess(r) \in Row
         /\ MarkAuthFailure(r) \in Row
         /\ MarkRateLimit(r) \in Row
         /\ MarkOtherFailure(r) \in Row
         /\ MarkCooldown(r, "rate") \in Row
         /\ MarkCooldown(r, "other") \in Row
<1>1. Bump(r) \in 0..MaxFailures
  BY Constants DEF Bump, Row
<1>2. \A t \in CoolTags : Relabel(r, t) \in CoolTags
  BY DEF Relabel, CoolTags
<1>3. {"none", "rate", "other"} = CoolTags /\ 0 \in 0..MaxFailures
  BY Constants DEF CoolTags
<1> QED
  BY <1>1, <1>2, <1>3 DEF MarkSuccess, MarkAuthFailure, MarkRateLimit,
     MarkOtherFailure, MarkCooldown, Row

LEMMA BlankIsRow == BlankRow \in Row
BY Constants DEF BlankRow, Row, CoolTags, LifeStages, Tokens

LEMMA RefreshedIsRow ==
  ASSUME NEW h \in Held
  PROVE  RefreshedRow(h) \in Row
<1>1. 0 \in 0..MaxFailures /\ "none" \in CoolTags
  BY Constants DEF CoolTags
<1> QED
  BY <1>1 DEF RefreshedRow, Row, Held

LEMMA HoldIsHeld ==
  ASSUME NEW r \in Row
  PROVE  Hold(r) \in Held
BY DEF Hold, Row, Held

LEMMA LoadedIsRow ==
  ASSUME NEW r \in Row
  PROVE  Loaded(r) \in Row
BY DEF Loaded, Row

LEMMA EditsAreRows ==
  ASSUME NEW r \in Row, NEW e \in Edits(r)
  PROVE  e \in Row
<1>1. 0 \in 0..MaxFailures /\ "none" \in CoolTags
  BY Constants DEF CoolTags
<1>2. CASE e = [r EXCEPT !.enabled = FALSE] \/ e = [r EXCEPT !.enabled = TRUE]
  BY <1>2 DEF Row
<1>3. CASE e = [r EXCEPT !.invalid = FALSE, !.fails = 0, !.cool = "none"]
  BY <1>1, <1>3 DEF Row
<1> QED
  BY <1>2, <1>3 DEF Edits

LEMMA TokenRowIsRow ==
  ASSUME NEW r \in Row, NEW n \in Nat
  PROVE  [MarkSuccess(r) EXCEPT !.access = n, !.life = "long"] \in Row
<1>1. MarkSuccess(r) \in Row /\ "long" \in LifeStages
  BY MarksKeepRows DEF LifeStages
<1> QED
  BY <1>1 DEF Row

\* A write by id, guarded or not, keeps the table a table of rows.
LEMMA WriteKeepsRows ==
  ASSUME row \in [Creds -> Row], NEW c \in Creds, NEW r \in Row, Write(c, r)
  PROVE  row' \in [Creds -> Row]
BY DEF Write

LEMMA WriteIfCurrentKeepsRows ==
  ASSUME row \in [Creds -> Row], NEW w \in Workers, cred[w] \in Creds,
         NEW r \in Row, WriteIfCurrent(w, r)
  PROVE  row' \in [Creds -> Row]
BY DEF WriteIfCurrent

-----------------------------------------------------------------------------
(* Two ways to leave the flights alone.                                    *)

\* A worker outside every flight moves to another place outside.
LEMMA QuietStep ==
  ASSUME TypeOK, SingleFlight, calls' = calls, NEW w \in Workers,
         pc[w] \notin InFlight \cup {"join"}, pc'[w] \notin InFlight \cup {"join"},
         \A v \in Workers \ {w} : pc'[v] = pc[v] /\ cred'[v] = cred[v]
  PROVE  SingleFlight'
<1>1. \A v \in Workers : pc'[v] \in InFlight \cup {"join"} =>
                             pc[v] = pc'[v] /\ cred[v] = cred'[v]
  OBVIOUS
<1>2. \A c \in Creds : calls[c] # None => calls[c] \in Workers \ {w}
  BY Constants DEF TypeOK, SingleFlight, OwnsFlight, InFlight
<1> QED
  BY <1>1, <1>2 DEF SingleFlight, OwnsFlight, InFlight

\* Nobody enters or leaves a flight and nobody joins.
LEMMA FlightStep ==
  ASSUME TypeOK, SingleFlight, calls' = calls, cred' = cred,
         \A v \in Workers : /\ pc[v] \in InFlight <=> pc'[v] \in InFlight
                            /\ pc'[v] = "join" => pc[v] = "join"
  PROVE  SingleFlight'
<1>1. \A c \in Creds : calls[c] # None => calls[c] \in Workers
  BY DEF TypeOK
<1>2. \A v \in Workers : OwnsFlight(v) <=> OwnsFlight(v)'
  BY DEF OwnsFlight, InFlight
<1>3. \A v \in Workers : OwnsFlight(v)' => calls'[cred'[v]] = v
  BY <1>2 DEF SingleFlight
<1>4. \A c \in Creds : calls'[c] # None => OwnsFlight(calls[c])' /\ cred'[calls'[c]] = c
  BY <1>1, <1>2 DEF SingleFlight
<1>5. \A v \in Workers : pc'[v] = "join" => calls'[cred'[v]] # None
  BY DEF SingleFlight
<1> QED
  BY <1>3, <1>4, <1>5 DEF SingleFlight

\* Whoever owns a flight is in it, with this credential; so nobody else is.
LEMMA OwnFlight ==
  ASSUME TypeOK, SingleFlight, NEW w \in Workers, pc[w] \in InFlight,
         cred[w] \in Creds
  PROVE  /\ calls[cred[w]] = w
         /\ \A v \in Workers \ {w} : pc[v] \in InFlight => cred[v] # cred[w]
BY DEF SingleFlight, OwnsFlight, InFlight, TypeOK

-----------------------------------------------------------------------------
(* The invariant holds at the start.                                       *)

LEMMA InitIInv == Init => IInv
<1> SUFFICES ASSUME Init PROVE IInv
  OBVIOUS
<1>1. row \in [Creds -> Row]
  <2>1. PICK t \in [Creds -> {0, NoToken}], n \in Names :
          row = [c \in Creds |-> [BlankRow EXCEPT !.present = TRUE, !.enabled = TRUE,
                                                  !.refresh = t[c], !.name = n]]
    BY DEF Init
  <2>2. \A c \in Creds : t[c] \in Tokens
    BY DEF Tokens
  <2>3. \A x \in Tokens : [BlankRow EXCEPT !.present = TRUE, !.enabled = TRUE,
                                           !.refresh = x, !.name = n] \in Row
    BY BlankIsRow DEF Row
  <2> QED
    BY <2>1, <2>2, <2>3
<1>2. NothingHeld \in Held
  BY DEF NothingHeld, Held, LifeStages, Tokens
<1>3. TypeOK
  BY <1>1, <1>2, BlankIsRow DEF Init, TypeOK, PCs, Causes, RefreshResults
<1>4. SingleFlight /\ Placed
  BY Constants DEF Init, SingleFlight, OwnsFlight, Placed, Bound, Armed
<1> QED
  BY <1>3, <1>4 DEF IInv

-----------------------------------------------------------------------------
(* Steps that many actions end in.                                         *)

\* An attempt ends: the worker drops its locals, whatever was written.
LEMMA AttemptEnds ==
  ASSUME IInv, NEW w \in Workers, pc[w] \notin InFlight \cup {"join"},
         Finish(w) \/ TryAgain(w),
         row' \in [Creds -> Row], saturated' \in [Creds -> BOOLEAN],
         UNCHANGED <<authVars, calls, updated, admVars>>
  PROVE  IInv'
<1> USE DEF IInv
<1>1. TypeOK'
  <2>1. NothingHeld \in Held
    BY DEF NothingHeld, Held, LifeStages, Tokens
  <2>2. Release(w)
    BY DEF Finish, TryAgain
  <2>3. copy' \in [Workers -> Held]
    BY <2>1, <2>2 DEF TypeOK, Release
  <2>4. /\ cred' \in [Workers -> Creds \cup {None}] /\ cause' \in [Workers -> Causes]
        /\ out' \in [Workers -> RefreshResults \cup {"none"}]
    BY <2>2 DEF TypeOK, Release, Causes
  <2>5. pc' \in [Workers -> PCs] /\ tried' \in [Workers -> SUBSET Creds]
    BY DEF TypeOK, Finish, TryAgain, Goto, PCs
  <2> QED
    BY <2>3, <2>4, <2>5 DEF TypeOK, authVars, admVars
<1>2. pc'[w] \in {"idle", "retry"}
      /\ \A v \in Workers \ {w} : pc'[v] = pc[v] /\ cred'[v] = cred[v] /\ copy'[v] = copy[v]
  BY DEF TypeOK, Finish, TryAgain, Release, Goto
<1>3. SingleFlight'
  BY <1>2, QuietStep DEF InFlight
<1>4. Placed'
  BY <1>2 DEF Placed, Bound, Armed
<1> QED
  BY <1>1, <1>3, <1>4

\* The request goes out with the credential it holds.
LEMMA RequestSent ==
  ASSUME IInv, NEW w \in Workers, pc[w] \notin InFlight \cup {"join"}, Send(w),
         cred' \in [Workers -> Creds \cup {None}], cred'[w] \in Creds,
         copy' \in [Workers -> Held],
         \A v \in Workers \ {w} : cred'[v] = cred[v] /\ copy'[v] = copy[v],
         tried' \in [Workers -> SUBSET Creds], row' \in [Creds -> Row],
         UNCHANGED <<saturated, authVars, calls, updated, admVars>>
  PROVE  IInv'
<1> USE DEF IInv
<1>1. TypeOK'
  <2>1. /\ pc' \in [Workers -> PCs] /\ cause' \in [Workers -> Causes]
        /\ out' \in [Workers -> RefreshResults \cup {"none"}]
    BY DEF TypeOK, Send, Goto, PCs, Causes
  <2> QED
    BY <2>1 DEF TypeOK, authVars, admVars
<1>2. pc'[w] = "send" /\ \A v \in Workers \ {w} : pc'[v] = pc[v]
  BY DEF TypeOK, Send, Goto
<1>3. SingleFlight'
  BY <1>2, QuietStep DEF InFlight
<1>4. Placed'
  BY <1>2 DEF Placed, Bound, Armed
<1> QED
  BY <1>1, <1>3, <1>4

\* Steps that touch no worker and no flight.
LEMMA WorkersRest ==
  ASSUME IInv, UNCHANGED <<calls, workerVars>>, row' \in [Creds -> Row],
         saturated' \in [Creds -> BOOLEAN], minted' \in [Creds -> Nat],
         UNCHANGED <<used, lost>>, admCred' \in [Admins -> Creds \cup {None}],
         admCopy' \in [Admins -> Row]
  PROVE  IInv'
<1> USE DEF IInv, workerVars
<1>1. TypeOK'
  BY DEF TypeOK
<1>2. SingleFlight'
  BY FlightStep
<1>3. Placed'
  BY DEF Placed, Bound, Armed
<1> QED
  BY <1>1, <1>2, <1>3

-----------------------------------------------------------------------------
(* The requests.                                                           *)

LEMMA RequestStepKeeps ==
  ASSUME IInv, NEW w \in Workers, Select(w) \/ GiveUp(w) \/ ManualRefresh(w)
  PROVE  IInv'
<1> USE DEF IInv
<1>1. CASE Select(w)
  <2>1. PICK c \in Creds :
          /\ cred' = [cred EXCEPT ![w] = c]
          /\ copy' = [copy EXCEPT ![w] = Hold(row[c])]
          /\ \/ /\ cause' = [cause EXCEPT ![w] = "preflight"]
                /\ Goto(w, "refresh")
                /\ UNCHANGED out
             \/ Send(w)
    BY <1>1 DEF Select, Selectable, LeastFailures, Usable, RefreshableExpired
  <2>2. Hold(row[c]) \in Held
    BY HoldIsHeld DEF TypeOK
  <2>3. /\ pc[w] \in {"idle", "retry"}
        /\ UNCHANGED <<row, saturated, authVars, calls, tried, updated, admVars>>
    BY <1>1 DEF Select
  <2>4. /\ cred' \in [Workers -> Creds \cup {None}] /\ cred'[w] = c
        /\ copy' \in [Workers -> Held]
        /\ \A v \in Workers \ {w} : cred'[v] = cred[v] /\ copy'[v] = copy[v]
    BY <2>1, <2>2 DEF TypeOK
  <2>5. CASE Send(w)
    BY <2>3, <2>4, <2>5, RequestSent DEF TypeOK, InFlight
  <2>6. CASE cause' = [cause EXCEPT ![w] = "preflight"] /\ Goto(w, "refresh") /\ UNCHANGED out
    <3>1. TypeOK'
      <4>1. pc' \in [Workers -> PCs] /\ cause' \in [Workers -> Causes]
        BY <2>6 DEF TypeOK, Goto, PCs, Causes
      <4> QED
        BY <2>3, <2>4, <2>6, <4>1 DEF TypeOK, authVars, admVars
    <3>2. pc'[w] = "refresh" /\ \A v \in Workers \ {w} : pc'[v] = pc[v]
      BY <2>6 DEF TypeOK, Goto
    <3>3. SingleFlight'
      BY <2>3, <2>4, <3>2, QuietStep DEF InFlight
    <3>4. Placed'
      BY <2>4, <3>2 DEF Placed, Bound, Armed
    <3> QED
      BY <3>1, <3>3, <3>4
  <2> QED
    BY <2>1, <2>5, <2>6
<1>2. CASE GiveUp(w)
  BY <1>2, AttemptEnds DEF GiveUp, InFlight, TypeOK
<1>3. CASE ManualRefresh(w)
  <2>1. PICK c \in Creds :
          /\ cred'  = [cred EXCEPT ![w] = c]
          /\ copy'  = [copy EXCEPT ![w] = Hold(row[c])]
          /\ cause' = [cause EXCEPT ![w] = "manual"]
          /\ UNCHANGED <<tried, out>>
          /\ Goto(w, "refresh")
    BY <1>3 DEF ManualRefresh
  <2>2. Hold(row[c]) \in Held
    BY HoldIsHeld DEF TypeOK
  <2>3. pc[w] = "idle" /\ UNCHANGED <<row, saturated, authVars, calls, updated, admVars>>
    BY <1>3 DEF ManualRefresh
  <2>4. TypeOK'
    <3>1. /\ pc' \in [Workers -> PCs] /\ cause' \in [Workers -> Causes]
          /\ cred' \in [Workers -> Creds \cup {None}] /\ copy' \in [Workers -> Held]
      BY <2>1, <2>2 DEF TypeOK, Goto, PCs, Causes
    <3> QED
      BY <2>1, <2>3, <3>1 DEF TypeOK, authVars, admVars
  <2>5. /\ pc'[w] = "refresh" /\ cred'[w] = c
        /\ \A v \in Workers \ {w} :
             pc'[v] = pc[v] /\ cred'[v] = cred[v] /\ copy'[v] = copy[v]
    BY <2>1 DEF TypeOK, Goto
  <2>6. SingleFlight'
    BY <2>3, <2>5, QuietStep DEF InFlight
  <2>7. Placed'
    BY <2>5 DEF Placed, Bound, Armed
  <2> QED
    BY <2>4, <2>6, <2>7
<1> QED
  BY <1>1, <1>2, <1>3

-----------------------------------------------------------------------------
(* The flight.                                                             *)

\* The three ways of startCredentialRefresh.
LEMMA StartKeeps ==
  ASSUME IInv, NEW w \in Workers, StartRefresh(w)
  PROVE  IInv'
<1> USE DEF IInv
<1>1. /\ pc[w] = "refresh" /\ cred[w] \in Creds /\ copy[w].refresh \in Tokens
      /\ UNCHANGED <<row, saturated, authVars, cred, copy, tried, cause, updated, admVars>>
  BY DEF StartRefresh, Placed, Bound, TypeOK, Held
<1>2. PICK p \in {"returned", "redeem", "join"} : Goto(w, p)
  BY DEF StartRefresh
<1>3. /\ pc' \in [Workers -> PCs] /\ pc'[w] = p
      /\ \A v \in Workers \ {w} : pc'[v] = pc[v]
  BY <1>2 DEF Goto, TypeOK, PCs
<1>4. TypeOK'
  <2>1. calls' \in [Creds -> Workers \cup {None}]
    BY <1>1 DEF StartRefresh, TypeOK
  <2>2. out' \in [Workers -> RefreshResults \cup {"none"}]
    BY DEF StartRefresh, TypeOK, RefreshResults
  <2> QED
    BY <1>1, <1>3, <2>1, <2>2 DEF TypeOK, authVars, admVars
<1>5. Placed'
  <2>1. p = "redeem" => copy[w].refresh \in Nat
    BY <1>1, <1>2, <1>3 DEF StartRefresh, Tokens, Goto, TypeOK
  <2> QED
    BY <1>1, <1>3, <2>1 DEF Placed, Bound, Armed
<1>6. SingleFlight'
  <2>1. CASE p = "returned"
    <3>1. calls' = calls
      BY <1>3, <2>1 DEF StartRefresh, Goto, TypeOK
    <3> QED
      BY <1>1, <1>3, <2>1, <3>1, QuietStep DEF InFlight
  <2>2. CASE p = "redeem"
    <3>1. calls[cred[w]] = None /\ calls' = [calls EXCEPT ![cred[w]] = w]
      BY <1>3, <2>2 DEF StartRefresh, Goto, Flying, TypeOK
    <3>2. \A v \in Workers : OwnsFlight(v)' => calls'[cred'[v]] = v
      BY <1>1, <1>3, <2>2, <3>1, Constants
         DEF SingleFlight, OwnsFlight, TypeOK, Placed, Bound
    <3>3. ASSUME NEW c \in Creds, calls'[c] # None
          PROVE  OwnsFlight(calls[c])' /\ cred'[calls'[c]] = c
      <4>1. CASE c = cred[w]
        BY <1>1, <1>3, <2>2, <3>1, <4>1 DEF OwnsFlight, TypeOK
      <4>2. CASE c # cred[w]
        <5>1. calls'[c] = calls[c] /\ calls[c] \in Workers \ {w}
          BY <1>1, <3>1, <3>3, <4>2 DEF SingleFlight, OwnsFlight, TypeOK
        <5> QED
          BY <1>1, <1>3, <3>3, <5>1 DEF SingleFlight, OwnsFlight
      <4> QED
        BY <4>1, <4>2
    <3>4. \A v \in Workers : pc'[v] = "join" => calls'[cred'[v]] # None
      BY <1>1, <1>3, <2>2, <3>1, Constants DEF SingleFlight, TypeOK, Placed, Bound
    <3> QED
      BY <3>2, <3>3, <3>4 DEF SingleFlight
  <2>3. CASE p = "join"
    <3>1. calls[cred[w]] # None /\ calls' = calls
      BY <1>3, <2>3 DEF StartRefresh, Goto, Flying, TypeOK
    <3>2. \A v \in Workers : OwnsFlight(v)' <=> OwnsFlight(v)
      BY <1>1, <1>3, <2>3 DEF OwnsFlight
    <3>3. \A c \in Creds : calls[c] # None => calls[c] \in Workers
      BY DEF TypeOK
    <3>4. \A c \in Creds : calls'[c] # None => OwnsFlight(calls[c])' /\ cred'[calls'[c]] = c
      BY <1>1, <3>1, <3>2, <3>3 DEF SingleFlight
    <3> QED
      BY <1>1, <1>3, <2>3, <3>1, <3>2, <3>4 DEF SingleFlight
  <2> QED
    BY <2>1, <2>2, <2>3
<1> QED
  BY <1>4, <1>5, <1>6

\* The three outcomes of the exchange.  Armed makes the exchanged token one
\* that the authority has issued.
LEMMA RedeemKeeps ==
  ASSUME IInv, NEW w \in Workers, Redeem(w)
  PROVE  IInv'
<1> USE DEF IInv
<1>1. /\ pc[w] = "redeem" /\ cred[w] \in Creds /\ copy[w].refresh \in Nat
      /\ copy[w] \in Held /\ minted[cred[w]] \in Nat
      /\ UNCHANGED <<row, saturated, calls, cred, copy, tried, cause, admVars>>
  BY DEF Redeem, RedeemGranted, RedeemRefused, RedeemFailed, Placed, Bound, Armed,
         TypeOK, authVars
<1>2. PICK p \in {"persist", "publish"} : Goto(w, p)
  BY DEF Redeem, RedeemGranted, RedeemRefused, RedeemFailed
<1>3. /\ pc' \in [Workers -> PCs] /\ pc'[w] = p
      /\ \A v \in Workers \ {w} : pc'[v] = pc[v]
  BY <1>2 DEF Goto, TypeOK, PCs
<1>4. updated' \in [Workers -> Held]
  <2>1. CASE RedeemGranted(w)
    <3>1. PICK rotates \in BOOLEAN, life \in {"long", copy[w].life} :
            updated' = [updated EXCEPT ![w] =
              [copy[w] EXCEPT !.access = minted[cred[w]] + 1, !.life = life,
                              !.refresh = IF rotates THEN minted[cred[w]] + 1 ELSE @]]
      BY <2>1 DEF RedeemGranted
    <3>2. life \in LifeStages
      BY <1>1 DEF LifeStages, Held
    <3>3. /\ minted[cred[w]] + 1 \in Nat
          /\ (IF rotates THEN minted[cred[w]] + 1 ELSE copy[w].refresh) \in Tokens
      BY <1>1 DEF Tokens
    <3>4. \A n \in Nat, t \in Tokens :
            [copy[w] EXCEPT !.access = n, !.life = life, !.refresh = t] \in Held
      BY <1>1, <3>2 DEF Held
    <3> QED
      BY <3>1, <3>3, <3>4 DEF TypeOK
  <2>2. CASE RedeemRefused(w) \/ RedeemFailed(w)
    BY <2>2 DEF RedeemRefused, RedeemFailed, TypeOK
  <2> QED
    BY <2>1, <2>2 DEF Redeem
<1>5. /\ minted' \in [Creds -> Nat] /\ used' \in [Creds -> SUBSET Nat]
      /\ lost' \in [Creds -> SUBSET Nat]
      /\ out' \in [Workers -> RefreshResults \cup {"none"}]
  <2>1. minted' = minted \/ minted' = [minted EXCEPT ![cred[w]] = @ + 1]
    BY DEF Redeem, RedeemGranted, RedeemRefused, RedeemFailed, authVars
  <2>2. used' = used \/ used' = [used EXCEPT ![cred[w]] = @ \cup {copy[w].refresh}]
    BY DEF Redeem, RedeemGranted, RedeemRefused, RedeemFailed, authVars
  <2>3. lost' = lost \/ lost' = [lost EXCEPT ![cred[w]] = @ \cup {copy[w].refresh}]
    BY DEF Redeem, RedeemGranted, RedeemRefused, RedeemFailed, authVars
  <2>4. out' = out \/ \E o \in RefreshResults : out' = [out EXCEPT ![w] = o]
    BY DEF Redeem, RedeemGranted, RedeemRefused, RedeemFailed, RefreshResults
  <2>5. minted' \in [Creds -> Nat]
    BY <1>1, <2>1 DEF TypeOK
  <2>6. used' \in [Creds -> SUBSET Nat] /\ lost' \in [Creds -> SUBSET Nat]
    BY <1>1, <2>2, <2>3 DEF TypeOK
  <2>7. out' \in [Workers -> RefreshResults \cup {"none"}]
    BY <2>4 DEF TypeOK
  <2> QED
    BY <2>5, <2>6, <2>7
<1>6. TypeOK'
  BY <1>1, <1>3, <1>4, <1>5 DEF TypeOK, admVars
<1>7. SingleFlight'
  BY <1>1, <1>3, FlightStep DEF InFlight
<1>8. Placed'
  BY <1>1, <1>3 DEF Placed, Bound, Armed
<1> QED
  BY <1>6, <1>7, <1>8

LEMMA PersistKeeps ==
  ASSUME IInv, NEW w \in Workers, Persist(w)
  PROVE  IInv'
<1> USE DEF IInv
<1>1. /\ pc[w] = "persist" /\ cred[w] \in Creds /\ updated[w] \in Held
      /\ UNCHANGED <<saturated, minted, used, calls, cred, tried, cause, admVars>>
      /\ Persisted(w) \/ NotPersisted(w)
      /\ updated' = [updated EXCEPT ![w] = NothingHeld] /\ Goto(w, "publish")
  BY DEF Persist, Placed, Bound, TypeOK
<1>2. /\ row' \in [Creds -> Row] /\ copy' \in [Workers -> Held]
      /\ updated' \in [Workers -> Held] /\ lost' \in [Creds -> SUBSET Nat]
      /\ \A v \in Workers \ {w} : copy'[v] = copy[v]
  <2>1. NothingHeld \in Held
    BY DEF NothingHeld, Held, LifeStages, Tokens
  <2>2. CASE Persisted(w)
    BY <1>1, <2>1, <2>2, RefreshedIsRow DEF Persisted, TypeOK
  <2>3. CASE NotPersisted(w)
    BY <1>1, <2>1, <2>3 DEF NotPersisted, TypeOK
  <2> QED
    BY <1>1, <2>2, <2>3
<1>3. /\ pc' \in [Workers -> PCs] /\ pc'[w] = "publish"
      /\ \A v \in Workers \ {w} : pc'[v] = pc[v]
  BY <1>1 DEF Goto, TypeOK, PCs
<1>4. out' \in [Workers -> RefreshResults \cup {"none"}]
  BY <1>1 DEF Persisted, NotPersisted, TypeOK, RefreshResults
<1>5. TypeOK'
  BY <1>1, <1>2, <1>3, <1>4 DEF TypeOK, admVars
<1>6. SingleFlight'
  BY <1>1, <1>3, FlightStep DEF InFlight
<1>7. Placed'
  BY <1>1, <1>2, <1>3 DEF Placed, Bound, Armed
<1> QED
  BY <1>5, <1>6, <1>7

\* finishCredentialRefresh: the flight and all who joined it end together.
LEMMA PublishKeeps ==
  ASSUME IInv, NEW w \in Workers, Publish(w)
  PROVE  IInv'
<1> USE DEF IInv
<1> DEFINE released == Joiners(cred[w]) \cup {w}
<1>1. /\ pc[w] = "publish" /\ cred[w] \in Creds
      /\ UNCHANGED <<row, saturated, authVars, cred, tried, cause, updated, admVars>>
      /\ calls' = [calls EXCEPT ![cred[w]] = None]
      /\ pc' = [v \in Workers |-> IF v \in released THEN "returned" ELSE pc[v]]
      /\ out' = [v \in Workers |-> IF v \in released THEN out[w] ELSE out[v]]
      /\ copy' = [v \in Workers |-> IF v \in released /\ out[w] = "refreshed"
                                    THEN copy[w] ELSE copy[v]]
  BY DEF Publish, Placed, Bound
<1>2. \A v \in released : v \in Workers /\ cred[v] = cred[w]
  BY DEF Joiners
<1>3. TypeOK'
  <2>1. /\ pc' \in [Workers -> PCs] /\ calls' \in [Creds -> Workers \cup {None}]
        /\ out' \in [Workers -> RefreshResults \cup {"none"}]
        /\ copy' \in [Workers -> Held]
    BY <1>1 DEF TypeOK, PCs
  <2> QED
    BY <1>1, <2>1 DEF TypeOK, authVars, admVars
<1>4. Placed'
  BY <1>1, <1>2 DEF Placed, Bound, Armed
<1>5. \A v \in Workers : OwnsFlight(v)' => OwnsFlight(v) /\ cred[v] # cred[w]
  <2>1. \A v \in Workers : OwnsFlight(v)' => OwnsFlight(v) /\ v # w
    BY <1>1 DEF OwnsFlight
  <2> QED
    BY <1>1, <2>1 DEF SingleFlight, OwnsFlight
<1>6. \A v \in Workers : OwnsFlight(v)' => calls'[cred'[v]] = v
  BY <1>1, <1>5 DEF SingleFlight, TypeOK
<1>7. ASSUME NEW c \in Creds, calls'[c] # None
      PROVE  OwnsFlight(calls[c])' /\ cred'[calls'[c]] = c
  <2>1. c # cred[w] /\ calls'[c] = calls[c] /\ calls[c] \in Workers
    BY <1>1, <1>7 DEF TypeOK
  <2>2. OwnsFlight(calls[c]) /\ cred[calls[c]] = c
    BY <1>7, <2>1 DEF SingleFlight
  <2>3. calls[c] \notin released
    BY <1>2, <2>1, <2>2
  <2> QED
    BY <1>1, <2>1, <2>2, <2>3 DEF OwnsFlight
<1>8. ASSUME NEW v \in Workers, pc'[v] = "join"
      PROVE  calls'[cred'[v]] # None
  <2>1. pc[v] = "join" /\ v \notin released
    BY <1>1, <1>8
  <2>2. cred[v] # cred[w] /\ cred[v] \in Creds
    BY <2>1 DEF Joiners, Placed, Bound
  <2> QED
    BY <1>1, <2>1, <2>2 DEF SingleFlight, TypeOK
<1>9. SingleFlight'
  BY <1>6, <1>7, <1>8 DEF SingleFlight
<1> QED
  BY <1>3, <1>4, <1>9

-----------------------------------------------------------------------------
(* What comes after a refresh, and the answers of the upstream.            *)

LEMMA ReturnKeeps ==
  ASSUME IInv, NEW w \in Workers, Return(w)
  PROVE  IInv'
<1> USE DEF IInv
<1>1. /\ pc[w] = "returned" /\ cred[w] \in Creds /\ row[cred[w]] \in Row
      /\ UNCHANGED <<saturated, authVars, calls, updated, admVars>>
      /\ pc[w] \notin InFlight \cup {"join"}
  BY DEF Return, ReturnOK, ReturnReused, ReturnError, Placed, Bound, TypeOK, InFlight
<1>2. row' \in [Creds -> Row]
  <2>1. CASE ReturnOK(w)
    BY <2>1 DEF ReturnOK, TypeOK
  <2>2. CASE ReturnReused(w)
    <3>1. MarkAuthFailure(row[cred[w]]) \in Row
          /\ MarkAuthFailure(MarkAuthFailure(row[cred[w]])) \in Row
      BY <1>1, MarksKeepRows
    <3>2. PICK r \in Row : Write(cred[w], r)
      BY <2>2, <3>1 DEF ReturnReused
    <3> QED
      BY <1>1, <3>2, WriteKeepsRows DEF TypeOK
  <2>3. CASE ReturnError(w)
    <3>1. /\ MarkAuthFailure(row[cred[w]]) \in Row
          /\ MarkOtherFailure(row[cred[w]]) \in Row
          /\ MarkOtherFailure(MarkOtherFailure(row[cred[w]])) \in Row
      BY <1>1, MarksKeepRows
    <3>2. \/ UNCHANGED row
          \/ WriteIfCurrent(w, MarkAuthFailure(row[cred[w]]))
          \/ Write(cred[w], MarkOtherFailure(row[cred[w]]))
          \/ Write(cred[w], MarkOtherFailure(MarkOtherFailure(row[cred[w]])))
      BY <2>3 DEF ReturnError
    <3> QED
      BY <1>1, <3>1, <3>2, WriteKeepsRows, WriteIfCurrentKeepsRows DEF TypeOK
  <2> QED
    BY <2>1, <2>2, <2>3 DEF Return
<1>3. CASE Finish(w) \/ TryAgain(w)
  BY <1>1, <1>2, <1>3, AttemptEnds DEF TypeOK
<1>4. CASE ~(Finish(w) \/ TryAgain(w))
  <2>1. Send(w) /\ UNCHANGED <<cred, copy>>
    BY <1>4 DEF Return, ReturnOK, ReturnReused, ReturnError
  <2>2. tried' \in [Workers -> SUBSET Creds]
    BY <1>1, <1>4 DEF Return, ReturnOK, ReturnReused, ReturnError, TypeOK
  <2> QED
    BY <1>1, <1>2, <2>1, <2>2, RequestSent DEF TypeOK
<1> QED
  BY <1>3, <1>4

\* Every answer but one ends the attempt; a 401 may start a refresh instead.
LEMMA ReportKeeps ==
  ASSUME IInv, NEW w \in Workers, Report(w)
  PROVE  IInv'
<1> USE DEF IInv
<1>1. /\ pc[w] = "send" /\ cred[w] \in Creds /\ row[cred[w]] \in Row
      /\ UNCHANGED <<authVars, calls, updated, admVars>>
      /\ pc[w] \notin InFlight \cup {"join"}
  BY DEF Report, Succeed, RefreshAfter401, Reject, RateLimit, RateLimitUntilReset,
         SemanticEmpty, OtherFailure, NoPenalty, Placed, Bound, TypeOK, InFlight
<1>2. /\ MarkSuccess(row[cred[w]]) \in Row /\ MarkAuthFailure(row[cred[w]]) \in Row
      /\ MarkRateLimit(row[cred[w]]) \in Row /\ MarkOtherFailure(row[cred[w]]) \in Row
      /\ MarkCooldown(row[cred[w]], "rate") \in Row
      /\ MarkCooldown(row[cred[w]], "other") \in Row
  BY <1>1, MarksKeepRows
<1>3. CASE Succeed(w)
  <2>1. row' \in [Creds -> Row] /\ saturated' \in [Creds -> BOOLEAN] /\ Finish(w)
    BY <1>2, <1>3 DEF Succeed, TypeOK
  <2> QED
    BY <1>1, <2>1, AttemptEnds
<1>4. CASE RefreshAfter401(w)
  <2>1. /\ pc' \in [Workers -> PCs] /\ pc'[w] = "refresh"
        /\ \A v \in Workers \ {w} : pc'[v] = pc[v]
    BY <1>4 DEF RefreshAfter401, Goto, TypeOK, PCs
  <2>2. tried' \in [Workers -> SUBSET Creds] /\ cause' \in [Workers -> Causes]
    BY <1>1, <1>4 DEF RefreshAfter401, TypeOK, Causes
  <2>3. UNCHANGED <<row, saturated, authVars, calls, cred, copy, out, updated, admVars>>
    BY <1>4 DEF RefreshAfter401
  <2>4. TypeOK'
    BY <2>1, <2>2, <2>3 DEF TypeOK, authVars, admVars
  <2>5. SingleFlight'
    BY <1>1, <2>1, <2>3, QuietStep DEF InFlight
  <2>6. Placed'
    BY <1>1, <2>1, <2>3 DEF Placed, Bound, Armed
  <2> QED
    BY <2>4, <2>5, <2>6
<1>5. CASE Reject(w) \/ RateLimit(w) \/ OtherFailure(w)
  <2>1. PICK r \in Row : WriteIfCurrent(w, r)
    BY <1>2, <1>5 DEF Reject, RateLimit, OtherFailure
  <2>2. row' \in [Creds -> Row]
    BY <1>1, <2>1, WriteIfCurrentKeepsRows DEF TypeOK
  <2>3. TryAgain(w) /\ UNCHANGED saturated
    BY <1>5 DEF Reject, RateLimit, OtherFailure
  <2> QED
    BY <1>1, <2>2, <2>3, AttemptEnds DEF TypeOK
<1>6. CASE RateLimitUntilReset(w) \/ SemanticEmpty(w)
  <2>1. PICK r \in Row : Write(cred[w], r)
    BY <1>2, <1>6 DEF RateLimitUntilReset, SemanticEmpty
  <2>2. row' \in [Creds -> Row]
    BY <1>1, <2>1, WriteKeepsRows DEF TypeOK
  <2>3. TryAgain(w) /\ saturated' \in [Creds -> BOOLEAN]
    BY <1>6 DEF RateLimitUntilReset, SemanticEmpty, TypeOK
  <2> QED
    BY <1>1, <2>2, <2>3, AttemptEnds
<1>7. CASE NoPenalty(w)
  BY <1>1, <1>7, AttemptEnds DEF NoPenalty, TypeOK
<1> QED
  BY <1>3, <1>4, <1>5, <1>6, <1>7 DEF Report

-----------------------------------------------------------------------------
(* Editors and time.                                                       *)

LEMMA AdminStepKeeps ==
  ASSUME IInv, NEW a \in Admins, AdminStep(a)
  PROVE  IInv'
<1> USE DEF IInv
<1>1. /\ UNCHANGED <<saturated, used, lost, calls, workerVars>>
      /\ admCopy[a] \in Row
  BY DEF AdminStep, AdminLoad, AdminStore, AdminToken, authVars, TypeOK
<1>2. CASE AdminLoad(a)
  <2>1. PICK c \in Creds : /\ admCred' = [admCred EXCEPT ![a] = c]
                           /\ admCopy' = [admCopy EXCEPT ![a] = Loaded(row[c])]
    BY <1>2 DEF AdminLoad
  <2>2. Loaded(row[c]) \in Row
    BY LoadedIsRow DEF TypeOK
  <2>3. admCred' \in [Admins -> Creds \cup {None}] /\ admCopy' \in [Admins -> Row]
    BY <2>1, <2>2 DEF TypeOK
  <2>4. UNCHANGED <<row, minted>>
    BY <1>2 DEF AdminLoad, authVars
  <2> QED
    BY <1>1, <2>3, <2>4, WorkersRest DEF TypeOK
<1>3. CASE AdminStore(a) \/ AdminToken(a)
  <2>1. admCred[a] \in Creds /\ minted[admCred[a]] + 1 \in Nat
    BY <1>3 DEF AdminStore, AdminToken, TypeOK
  <2>2. admCred' \in [Admins -> Creds \cup {None}] /\ admCopy' \in [Admins -> Row]
    BY <1>3, BlankIsRow DEF AdminStore, AdminToken, TypeOK
  <2>3. minted' \in [Creds -> Nat]
    BY <1>3, <2>1 DEF AdminStore, AdminToken, TypeOK, authVars
  <2>4. PICK r \in Row : AdminWrites(a, r)
    <3>1. CASE AdminStore(a)
      BY <1>1, <3>1, EditsAreRows DEF AdminStore
    <3>2. CASE AdminToken(a)
      BY <1>1, <2>1, <3>2, TokenRowIsRow DEF AdminToken
    <3> QED
      BY <1>3, <3>1, <3>2
  <2>5. row' \in [Creds -> Row]
    BY <2>1, <2>4 DEF AdminWrites, TypeOK
  <2> QED
    BY <1>1, <2>2, <2>3, <2>5, WorkersRest DEF TypeOK
<1> QED
  BY <1>2, <1>3 DEF AdminStep

LEMMA RowStepKeeps ==
  ASSUME IInv, NEW c \in Creds, RowStep(c)
  PROVE  IInv'
<1> USE DEF IInv
<1>1. UNCHANGED <<authVars, calls, workerVars, admVars>>
  BY DEF RowStep, Delete, TokenAges, CooldownEnds, QuotaResets
<1>2. row' \in [Creds -> Row]
  <2>1. CASE Delete(c)
    BY <2>1, BlankIsRow DEF Delete, TypeOK
  <2>2. CASE TokenAges(c)
    <3>1. PICK l \in LifeStages : row' = [row EXCEPT ![c] = [row[c] EXCEPT !.life = l]]
      BY <2>2 DEF TokenAges, LifeStages, TypeOK
    <3>2. \A r \in Row : [r EXCEPT !.life = l] \in Row
      BY DEF Row
    <3> QED
      BY <3>1, <3>2 DEF TypeOK
  <2>3. CASE CooldownEnds(c)
    <3>1. row' = [row EXCEPT ![c] = [row[c] EXCEPT !.cool = "none"]]
      BY <2>3 DEF CooldownEnds, TypeOK
    <3>2. \A r \in Row : [r EXCEPT !.cool = "none"] \in Row
      BY DEF Row, CoolTags
    <3> QED
      BY <3>1, <3>2 DEF TypeOK
  <2>4. CASE QuotaResets(c)
    BY <2>4 DEF QuotaResets, TypeOK
  <2> QED
    BY <2>1, <2>2, <2>3, <2>4 DEF RowStep
<1>3. saturated' \in [Creds -> BOOLEAN]
  BY DEF RowStep, Delete, TokenAges, CooldownEnds, QuotaResets, TypeOK
<1> QED
  BY <1>1, <1>2, <1>3, WorkersRest DEF TypeOK, authVars, admVars

LEMMA RenameKeeps ==
  ASSUME IInv, NEW n \in Names, RenameEndpoint(n)
  PROVE  IInv'
<1> USE DEF IInv
<1>1. \A r \in Row : [r EXCEPT !.name = n] \in Row
  BY DEF Row
<1>2. row' \in [Creds -> Row]
  BY <1>1 DEF RenameEndpoint, TypeOK
<1> QED
  BY <1>2, WorkersRest DEF RenameEndpoint, TypeOK, authVars, admVars

-----------------------------------------------------------------------------
(* Theorems.                                                               *)

LEMMA NextKeeps == IInv /\ [Next]_vars => IInv'
<1> SUFFICES ASSUME IInv, [Next]_vars PROVE IInv'
  OBVIOUS
<1>1. ASSUME NEW w \in Workers, RefreshStep(w) PROVE IInv'
  BY <1>1, StartKeeps, RedeemKeeps, PersistKeeps, PublishKeeps, ReturnKeeps
     DEF RefreshStep
<1>2. ASSUME NEW w \in Workers, RequestStep(w) PROVE IInv'
  BY <1>2, RequestStepKeeps, ReportKeeps DEF RequestStep
<1>3. ASSUME NEW a \in Admins, AdminStep(a) PROVE IInv'
  BY <1>3, AdminStepKeeps
<1>4. ASSUME NEW c \in Creds, RowStep(c) PROVE IInv'
  BY <1>4, RowStepKeeps
<1>5. ASSUME NEW n \in Names, RenameEndpoint(n) PROVE IInv'
  BY <1>5, RenameKeeps
<1>6. CASE UNCHANGED vars
  BY <1>6, WorkersRest DEF vars, IInv, TypeOK, authVars, admVars
<1> QED
  BY <1>1, <1>2, <1>3, <1>4, <1>5, <1>6 DEF Next

LEMMA InductiveInvariant == Spec => []IInv
BY InitIInv, NextKeeps, PTL DEF Spec

\* Every reachable state is well typed: the rows the storage operations write
\* are rows, and the counters stay within maxConsecutiveFailures.
THEOREM TypeCorrect == Spec => []TypeOK
<1>1. IInv => TypeOK
  BY DEF IInv
<1> QED
  BY <1>1, InductiveInvariant, PTL

\* refreshCredentialOnce: at most one exchange of a credential is under way, the
\* registered call belongs to a worker that is in it, and whoever waits on a
\* call waits on a registered one.  For any number of requests and editors.
THEOREM SingleFlightHolds == Spec => []SingleFlight
<1>1. IInv => SingleFlight
  BY DEF IInv
<1> QED
  BY <1>1, InductiveInvariant, PTL

-----------------------------------------------------------------------------
(* Deletion.                                                               *)

Gone(c) == ~row[c].present

\* UPDATE ... WHERE id=? finds no deleted row, guarded by the token or not.
LEMMA WritesSpareGone ==
  ASSUME TypeOK
  PROVE  /\ \A c \in Creds, r \in Row :
              Write(c, r) => \A d \in Creds : Gone(d) => Gone(d)'
         /\ \A w \in Workers : cred[w] \in Creds => \A r \in Row :
              WriteIfCurrent(w, r) => \A d \in Creds : Gone(d) => Gone(d)'
BY DEF Write, WriteIfCurrent, Current, Gone, TypeOK

LEMMA GoneStep == IInv /\ [Next]_vars => \A d \in Creds : Gone(d) => Gone(d)'
<1> SUFFICES ASSUME IInv, [Next]_vars, ~UNCHANGED row
             PROVE  \A d \in Creds : Gone(d) => Gone(d)'
  BY DEF Gone
<1> USE DEF IInv
<1>1. ASSUME NEW w \in Workers, RefreshStep(w) PROVE \A d \in Creds : Gone(d) => Gone(d)'
  <2>1. cred[w] \in Creds /\ row[cred[w]] \in Row
    BY <1>1 DEF RefreshStep, StartRefresh, Redeem, RedeemGranted, RedeemRefused,
       RedeemFailed, Persist, Publish, Return, ReturnOK, ReturnReused, ReturnError,
       Placed, Bound, TypeOK
  <2>2. /\ MarkAuthFailure(row[cred[w]]) \in Row
        /\ MarkAuthFailure(MarkAuthFailure(row[cred[w]])) \in Row
        /\ MarkOtherFailure(row[cred[w]]) \in Row
        /\ MarkOtherFailure(MarkOtherFailure(row[cred[w]])) \in Row
    BY <2>1, MarksKeepRows
  <2>3. CASE Persist(w)
    BY <2>1, <2>3 DEF Persist, Persisted, NotPersisted, Matches, Gone, TypeOK
  <2>4. CASE ~Persist(w)
    <3>1. \/ \E r \in Row : Write(cred[w], r)
          \/ \E r \in Row : WriteIfCurrent(w, r)
      BY <1>1, <2>2, <2>4 DEF RefreshStep, StartRefresh, Redeem, RedeemGranted,
         RedeemRefused, RedeemFailed, Publish, Return, ReturnOK, ReturnReused, ReturnError
    <3> QED
      BY <2>1, <3>1, WritesSpareGone
  <2> QED
    BY <2>3, <2>4
<1>2. ASSUME NEW w \in Workers, RequestStep(w) PROVE \A d \in Creds : Gone(d) => Gone(d)'
  <2>1. Report(w) /\ cred[w] \in Creds /\ row[cred[w]] \in Row
    BY <1>2 DEF RequestStep, Select, GiveUp, ManualRefresh, Report, Succeed, RefreshAfter401,
       Reject, RateLimit, RateLimitUntilReset, SemanticEmpty, OtherFailure, NoPenalty,
       Placed, Bound, TypeOK
  <2>2. /\ MarkAuthFailure(row[cred[w]]) \in Row
        /\ MarkRateLimit(row[cred[w]]) \in Row /\ MarkOtherFailure(row[cred[w]]) \in Row
        /\ MarkCooldown(row[cred[w]], "rate") \in Row
        /\ MarkCooldown(row[cred[w]], "other") \in Row
    BY <2>1, MarksKeepRows
  <2>3. CASE Succeed(w)
    BY <2>1, <2>3 DEF Succeed, Clears, Current, Gone, TypeOK
  <2>4. CASE ~Succeed(w)
    <3>1. \/ \E r \in Row : Write(cred[w], r)
          \/ \E r \in Row : WriteIfCurrent(w, r)
      BY <2>1, <2>2, <2>4 DEF Report, RefreshAfter401, Reject, RateLimit,
         RateLimitUntilReset, SemanticEmpty, OtherFailure, NoPenalty
    <3> QED
      BY <2>1, <3>1, WritesSpareGone
  <2> QED
    BY <2>3, <2>4
<1>3. ASSUME NEW a \in Admins, AdminStep(a) PROVE \A d \in Creds : Gone(d) => Gone(d)'
  <2>1. admCred[a] \in Creds
    BY <1>3 DEF AdminStep, AdminLoad, AdminStore, AdminToken, TypeOK
  <2>2. \E r : AdminWrites(a, r)
    BY <1>3 DEF AdminStep, AdminLoad, AdminStore, AdminToken
  <2> QED
    BY <2>1, <2>2 DEF AdminWrites, Matches, Gone, TypeOK
<1>4. ASSUME NEW c \in Creds, RowStep(c) PROVE \A d \in Creds : Gone(d) => Gone(d)'
  <2>1. CASE Delete(c)
    BY <2>1 DEF Delete, Gone, BlankRow, TypeOK
  <2>2. CASE TokenAges(c)
    BY <2>2 DEF TokenAges, Gone, TypeOK
  <2>3. CASE CooldownEnds(c)
    BY <2>3 DEF CooldownEnds, Gone, TypeOK, Row
  <2> QED
    BY <1>4, <2>1, <2>2, <2>3 DEF RowStep, QuotaResets
<1>5. ASSUME NEW n \in Names, RenameEndpoint(n) PROVE \A d \in Creds : Gone(d) => Gone(d)'
  BY <1>5 DEF RenameEndpoint, Gone
<1> QED
  BY <1>1, <1>2, <1>3, <1>4, <1>5 DEF Next, vars

\* No refresh, outcome or edit that still holds a copy of a deleted credential
\* brings it back, for any number of them.
THEOREM DeletionIsFinal == Spec => DeletedStaysDeleted
<1>1. IInv /\ [Next]_vars =>
        [\A c \in Creds : ~row[c].present => ~row'[c].present]_vars
  BY GoneStep DEF Gone
<1> QED
  BY <1>1, InductiveInvariant, PTL DEF Spec, DeletedStaysDeleted

-----------------------------------------------------------------------------
(* What the pool promises about tokens, as long as no editor writes whole  *)
(* rows and for any number of requests that hold stale copies.             *)
(*                                                                         *)
(* A refresh never leaves a dead refresh token behind, never takes a row   *)
(* back to an older access token, and a rejected token does not come back  *)
(* clean.  The argument is the single flight together with the order in    *)
(* which the authority issues tokens: whoever persists holds the newest    *)
(* generation, because nobody else can have exchanged a token since.       *)
(*                                                                         *)
(* From this the pool implements the ledger of its tokens (TokenLedger).   *)
(* What that needs besides is that old copies are no danger: a refresh     *)
(* token that is still alive, in whatever copy, is the one that is stored. *)

Resting == {"idle", "retry"}

\* Every token anybody knows was issued by the authority.
IssuedRow(c) == /\ row[c].access <= minted[c]
                /\ row[c].refresh \in Nat => row[c].refresh <= minted[c]

IssuedUsed(c) == \A n \in used[c] : n <= minted[c]

IssuedCopy(w) ==
  pc[w] \notin Resting => /\ copy[w].access <= minted[cred[w]]
                          /\ copy[w].refresh \in Nat => copy[w].refresh <= minted[cred[w]]

\* What is about to be stored is the newest generation, newer than the row's,
\* with a live token: the one the row has, or the one that replaces it.
Newest(w) == pc[w] = "persist" =>
  /\ updated[w].access = minted[cred[w]]
  /\ row[cred[w]].access < updated[w].access
  /\ updated[w].refresh \notin used[cred[w]]
  /\ updated[w].refresh \in Nat => updated[w].refresh <= minted[cred[w]]
  /\ updated[w].refresh = copy[w].refresh \/ copy[w].refresh \in used[cred[w]]
  /\ row[cred[w]].present => row[cred[w]].refresh = copy[w].refresh

\* A live token in a copy is the stored one.
LiveIsStored(v) ==
  pc[v] \notin Resting /\ row[cred[v]].present /\ copy[v].refresh \notin used[cred[v]] =>
    copy[v].refresh = row[cred[v]].refresh

FreshInv == /\ \A c \in Creds : IssuedRow(c) /\ IssuedUsed(c)
            /\ \A w \in Workers : IssuedCopy(w) /\ Newest(w)
            /\ RefreshTokenFresh

LiveInv == \A v \in Workers : LiveIsStored(v)

\* The tokens of the row stay.
Same(c) == /\ row'[c].present = row[c].present
           /\ row'[c].access = row[c].access
           /\ row'[c].refresh = row[c].refresh

\* They stay, or the row goes.
Keeps(c) == row'[c] = BlankRow \/ Same(c)

-----------------------------------------------------------------------------
(* Outcomes do not touch tokens.                                           *)

LEMMA MarksKeepTokens ==
  ASSUME NEW r \in Row
  PROVE  \A m \in {MarkSuccess(r), MarkAuthFailure(r), MarkRateLimit(r), MarkOtherFailure(r),
                   MarkAuthFailure(MarkAuthFailure(r)), MarkOtherFailure(MarkOtherFailure(r)),
                   MarkCooldown(r, "rate"), MarkCooldown(r, "other")} :
           m.present = r.present /\ m.access = r.access /\ m.refresh = r.refresh
<1>1. MarkAuthFailure(r) \in Row /\ MarkOtherFailure(r) \in Row
  BY MarksKeepRows
<1>2. \A s \in Row :
        /\ MarkAuthFailure(s).present = s.present /\ MarkAuthFailure(s).access = s.access
        /\ MarkAuthFailure(s).refresh = s.refresh
        /\ MarkOtherFailure(s).present = s.present /\ MarkOtherFailure(s).access = s.access
        /\ MarkOtherFailure(s).refresh = s.refresh
  BY DEF MarkAuthFailure, MarkOtherFailure, Row
<1>3. \A t \in {"rate", "other"} :
        /\ MarkCooldown(r, t).present = r.present /\ MarkCooldown(r, t).access = r.access
        /\ MarkCooldown(r, t).refresh = r.refresh
  BY DEF MarkCooldown, Row
<1>4. \A m \in {MarkSuccess(r), MarkRateLimit(r)} :
        m.present = r.present /\ m.access = r.access /\ m.refresh = r.refresh
  BY DEF MarkSuccess, MarkRateLimit, Row
<1> QED
  BY <1>1, <1>2, <1>3, <1>4

\* So does every write whose new row has the tokens of the old one.
LEMMA WriteKeepsTokens ==
  ASSUME TypeOK, NEW c \in Creds, NEW r,
         r.present = row[c].present, r.access = row[c].access,
         r.refresh = row[c].refresh,
         Write(c, r) \/ \E w \in Workers : cred[w] = c /\ WriteIfCurrent(w, r)
  PROVE  \A d \in Creds : Same(d)
BY DEF Write, WriteIfCurrent, Same, TypeOK

\* Only Persist and Delete change tokens, when there are no editors.
LEMMA TokensStay ==
  ASSUME Admins = {}, IInv, Next, ~(\E w \in Workers : Persist(w)),
         ~(\E c \in Creds : Delete(c))
  PROVE  \A d \in Creds : Same(d)
<1> USE DEF IInv
<1>1. CASE UNCHANGED row
  BY <1>1 DEF Same
<1>2. ASSUME NEW w \in Workers, Return(w) \/ Report(w), ~UNCHANGED row
      PROVE  \A d \in Creds : Same(d)
  <2>1. cred[w] \in Creds /\ row[cred[w]] \in Row
    BY <1>2 DEF Return, ReturnOK, ReturnReused, ReturnError, Report, Succeed,
       RefreshAfter401, Reject, RateLimit, RateLimitUntilReset, SemanticEmpty,
       OtherFailure, NoPenalty, Placed, Bound, TypeOK
  <2> DEFINE r == row[cred[w]]
  <2>2. PICK m \in {MarkSuccess(r), MarkAuthFailure(r), MarkRateLimit(r), MarkOtherFailure(r),
                    MarkAuthFailure(MarkAuthFailure(r)), MarkOtherFailure(MarkOtherFailure(r)),
                    MarkCooldown(r, "rate"), MarkCooldown(r, "other")} :
          Write(cred[w], m) \/ WriteIfCurrent(w, m)
    <3>1. CASE Return(w)
      BY <1>2, <3>1 DEF Return, ReturnOK, ReturnReused, ReturnError
    <3>2. CASE Succeed(w)
      BY <1>2, <2>1, <3>2 DEF Succeed, Clears, WriteIfCurrent, TypeOK
    <3>3. CASE Report(w) /\ ~Succeed(w)
      BY <1>2, <3>3 DEF Report, RefreshAfter401, Reject, RateLimit, RateLimitUntilReset,
         SemanticEmpty, OtherFailure, NoPenalty
    <3> QED
      BY <1>2, <3>1, <3>2, <3>3
  <2>3. m.present = r.present /\ m.access = r.access /\ m.refresh = r.refresh
    BY <2>1, <2>2, MarksKeepTokens
  <2> QED
    BY <2>1, <2>2, <2>3, WriteKeepsTokens
<1>3. ASSUME NEW c \in Creds, RowStep(c) PROVE \A d \in Creds : Same(d)
  <2>1. CASE TokenAges(c)
    BY <2>1 DEF TokenAges, Same, TypeOK, Row
  <2>2. CASE CooldownEnds(c)
    BY <2>2 DEF CooldownEnds, Same, TypeOK, Row
  <2>3. CASE QuotaResets(c)
    BY <2>3, <1>1 DEF QuotaResets
  <2> QED
    BY <1>3, <2>1, <2>2, <2>3 DEF RowStep
<1>4. ASSUME NEW w \in Workers, StartRefresh(w) \/ Redeem(w) \/ Publish(w)
                                \/ Select(w) \/ GiveUp(w) \/ ManualRefresh(w)
      PROVE  UNCHANGED row
  BY <1>4 DEF StartRefresh, Redeem, RedeemGranted, RedeemRefused, RedeemFailed, Publish,
     Select, GiveUp, ManualRefresh
<1>5. ASSUME NEW n \in Names, RenameEndpoint(n) PROVE \A d \in Creds : Same(d)
  BY <1>5 DEF RenameEndpoint, Same, TypeOK, Row
<1> QED
  BY <1>1, <1>2, <1>3, <1>4, <1>5 DEF Next, RefreshStep, RequestStep

LEMMA TokensKept ==
  ASSUME Admins = {}, IInv, Next, ~(\E w \in Workers : Persist(w))
  PROVE  \A d \in Creds : Keeps(d)
<1>1. ASSUME NEW c \in Creds, Delete(c) PROVE \A d \in Creds : Keeps(d)
  BY <1>1 DEF Delete, Keeps, Same, IInv, TypeOK
<1> QED
  BY <1>1, TokensStay DEF Keeps

-----------------------------------------------------------------------------
(* Steps that exchange and persist nothing.                                *)

Landing(c) == calls[c] # None /\ pc[calls[c]] = "persist"

LEMMA QuietFresh ==
  ASSUME IInv, FreshInv, UNCHANGED authVars,
         \A c \in Creds : Keeps(c) /\ (Landing(c) => Landing(c)'),
         \A w \in Workers : /\ IssuedCopy(w)'
                            /\ pc'[w] = "persist" => /\ pc[w] = "persist"
                                                     /\ copy'[w] = copy[w]
                                                     /\ updated'[w] = updated[w]
                                                     /\ cred'[w] = cred[w]
  PROVE  FreshInv'
<1> USE DEF IInv, authVars
<1>1. \A c \in Creds : IssuedUsed(c)'
  BY DEF FreshInv, IssuedUsed
<1>2. \A c \in Creds : IssuedRow(c)'
  BY Constants DEF FreshInv, IssuedRow, Keeps, Same, BlankRow, TypeOK
<1>3. ASSUME NEW w \in Workers, pc'[w] = "persist" PROVE Newest(w)'
  <2>1. /\ pc[w] = "persist" /\ copy'[w] = copy[w] /\ updated'[w] = updated[w]
        /\ cred'[w] = cred[w] /\ cred[w] \in Creds
    BY <1>3 DEF Placed, Bound
  <2>2. /\ row[cred[w]].access \in Nat /\ updated[w].access \in Nat
        /\ row'[cred[w]].access \in {0, row[cred[w]].access}
    <3>1. row'[cred[w]].access \in {0, row[cred[w]].access}
      BY <2>1 DEF Keeps, Same, BlankRow
    <3> QED
      BY <2>1, <3>1 DEF TypeOK, Row, Held
  <2>3. row'[cred[w]].present => /\ row[cred[w]].present
                                 /\ row'[cred[w]].refresh = row[cred[w]].refresh
    BY <2>1 DEF Keeps, Same, BlankRow
  <2>4. Newest(w)
    BY DEF FreshInv
  <2> QED
    BY <1>3, <2>1, <2>2, <2>3, <2>4 DEF Newest
<1>4. RefreshTokenFresh'
  <2>1. SUFFICES ASSUME NEW c \in Creds, row'[c].present, row'[c].refresh \in used[c]
                 PROVE  row'[c].refresh \in lost[c] \/ Landing(c)'
    BY DEF RefreshTokenFresh, Landing
  <2>2. row[c].present /\ row'[c].refresh = row[c].refresh
    BY <2>1 DEF Keeps, Same, BlankRow
  <2> QED
    BY <2>1, <2>2 DEF FreshInv, RefreshTokenFresh, Landing
<1> QED
  BY <1>1, <1>2, <1>3, <1>4 DEF FreshInv, Newest

\* A worker whose locals are unchanged still holds an issued copy.
LEMMA CopyRests ==
  ASSUME IInv, FreshInv, UNCHANGED authVars, NEW v \in Workers,
         \/ pc'[v] \in Resting
         \/ /\ pc[v] \notin Resting
            /\ copy'[v] = copy[v] /\ cred'[v] = cred[v]
         \/ pc'[v] = pc[v] /\ copy'[v] = copy[v] /\ cred'[v] = cred[v]
  PROVE  IssuedCopy(v)'
BY DEF FreshInv, IssuedCopy, authVars

\* A worker that takes a credential takes what the row knows.
LEMMA CopyTaken ==
  ASSUME IInv, FreshInv, UNCHANGED authVars, NEW v \in Workers, NEW c \in Creds,
         cred' = [cred EXCEPT ![v] = c], copy' = [copy EXCEPT ![v] = Hold(row[c])]
  PROVE  IssuedCopy(v)'
BY DEF FreshInv, IssuedCopy, IssuedRow, authVars, IInv, TypeOK, Hold

\* One worker moves, and not into or out of "persist".
LEMMA OneMoves ==
  ASSUME IInv, FreshInv, UNCHANGED <<authVars, calls, updated>>, NEW w \in Workers,
         \A c \in Creds : Keeps(c),
         pc[w] # "persist", pc'[w] # "persist", IssuedCopy(w)',
         \A v \in Workers \ {w} : /\ pc'[v] = pc[v] /\ copy'[v] = copy[v]
                                  /\ cred'[v] = cred[v]
  PROVE  FreshInv'
<1>1. \A c \in Creds : Landing(c) => Landing(c)'
  BY DEF Landing, IInv, TypeOK
<1>2. \A v \in Workers : IssuedCopy(v)'
  BY CopyRests
<1> QED
  BY <1>1, <1>2, QuietFresh

LEMMA RequestFresh ==
  ASSUME IInv, FreshInv, NEW w \in Workers, Select(w) \/ GiveUp(w) \/ ManualRefresh(w),
         \A c \in Creds : Keeps(c)
  PROVE  FreshInv'
<1> USE DEF IInv
<1>1. pc[w] \in Resting /\ UNCHANGED <<authVars, calls, updated>>
  BY DEF Select, GiveUp, ManualRefresh, Resting
<1>2. PICK p \in {"refresh", "send", "idle"} : Goto(w, p)
  BY DEF Select, GiveUp, ManualRefresh, Finish, Send
<1>3. CASE GiveUp(w)
  <2>1. /\ pc'[w] \in Resting
        /\ \A v \in Workers \ {w} : /\ pc'[v] = pc[v] /\ copy'[v] = copy[v]
                                    /\ cred'[v] = cred[v]
    BY <1>3 DEF GiveUp, Finish, Release, Goto, Resting, TypeOK
  <2> QED
    BY <1>1, <2>1, CopyRests, OneMoves DEF Resting
<1>4. CASE Select(w) \/ ManualRefresh(w)
  <2>1. PICK c \in Creds : /\ cred' = [cred EXCEPT ![w] = c]
                           /\ copy' = [copy EXCEPT ![w] = Hold(row[c])]
    BY <1>4 DEF Select, ManualRefresh, Selectable, LeastFailures, Usable,
       RefreshableExpired
  <2>2. /\ pc'[w] = p
        /\ \A v \in Workers \ {w} : /\ pc'[v] = pc[v] /\ copy'[v] = copy[v]
                                    /\ cred'[v] = cred[v]
    BY <1>2, <2>1 DEF Goto, TypeOK
  <2> QED
    BY <1>1, <2>1, <2>2, CopyTaken, OneMoves DEF Resting
<1> QED
  BY <1>3, <1>4

LEMMA ReactionFresh ==
  ASSUME IInv, FreshInv, NEW w \in Workers, Return(w) \/ Report(w),
         \A c \in Creds : Keeps(c)
  PROVE  FreshInv'
<1> USE DEF IInv
<1>1. pc[w] \in {"returned", "send"} /\ UNCHANGED <<authVars, calls, updated>>
  BY DEF Return, ReturnOK, ReturnReused, ReturnError, Report, Succeed, RefreshAfter401,
     Reject, RateLimit, RateLimitUntilReset, SemanticEmpty, OtherFailure, NoPenalty
<1>2. \/ Finish(w) \/ TryAgain(w)
      \/ Send(w) /\ UNCHANGED <<cred, copy>>
      \/ Goto(w, "refresh") /\ UNCHANGED <<cred, copy>>
  BY DEF Return, ReturnOK, ReturnReused, ReturnError, Report, Succeed, RefreshAfter401,
     Reject, RateLimit, RateLimitUntilReset, SemanticEmpty, OtherFailure, NoPenalty
<1>3. /\ \/ pc'[w] \in Resting
         \/ /\ pc'[w] \in {"send", "refresh"}
            /\ copy'[w] = copy[w] /\ cred'[w] = cred[w]
      /\ \A v \in Workers \ {w} : /\ pc'[v] = pc[v] /\ copy'[v] = copy[v]
                                  /\ cred'[v] = cred[v]
  BY <1>2 DEF Finish, TryAgain, Release, Send, Goto, Resting, TypeOK
<1>4. pc[w] \notin Resting /\ pc[w] # "persist" /\ pc'[w] # "persist"
  BY <1>1, <1>3 DEF Resting
<1>5. IssuedCopy(w)'
  BY <1>1, <1>3, <1>4, CopyRests
<1> QED
  BY <1>1, <1>3, <1>4, <1>5, OneMoves

LEMMA StartFresh ==
  ASSUME IInv, FreshInv, NEW w \in Workers, StartRefresh(w), \A c \in Creds : Keeps(c)
  PROVE  FreshInv'
<1> USE DEF IInv
<1>1. /\ pc[w] = "refresh" /\ UNCHANGED <<authVars, cred, copy, updated>>
  BY DEF StartRefresh
<1>2. PICK p \in {"returned", "redeem", "join"} : Goto(w, p)
  BY DEF StartRefresh
<1>3. pc'[w] = p /\ \A v \in Workers \ {w} : pc'[v] = pc[v]
  BY <1>2 DEF Goto, TypeOK
<1>4. \A v \in Workers : /\ IssuedCopy(v)'
                         /\ pc'[v] = "persist" => pc[v] = "persist"
  BY <1>1, <1>3, CopyRests DEF Resting
<1>5. \A c \in Creds : calls[c] # None => calls'[c] = calls[c]
  BY DEF StartRefresh, Flying, TypeOK
<1>6. \A c \in Creds : Landing(c) => Landing(c)'
  BY <1>1, <1>3, <1>5 DEF Landing, TypeOK
<1> QED
  BY <1>1, <1>4, <1>6, QuietFresh

LEMMA PublishFresh ==
  ASSUME IInv, FreshInv, NEW w \in Workers, Publish(w), \A c \in Creds : Keeps(c)
  PROVE  FreshInv'
<1> USE DEF IInv
<1> DEFINE released == Joiners(cred[w]) \cup {w}
<1>1. /\ pc[w] = "publish" /\ cred[w] \in Creds /\ UNCHANGED <<authVars, cred, updated>>
      /\ calls' = [calls EXCEPT ![cred[w]] = None]
      /\ pc' = [v \in Workers |-> IF v \in released THEN "returned" ELSE pc[v]]
      /\ copy' = [v \in Workers |-> IF v \in released /\ out[w] = "refreshed"
                                    THEN copy[w] ELSE copy[v]]
  BY DEF Publish, Placed, Bound
<1>2. \A v \in released : v \in Workers /\ cred[v] = cred[w] /\ pc[v] \in {"join", "publish"}
  BY <1>1 DEF Joiners
<1>3. \A v \in Workers : IssuedCopy(v)'
  BY <1>1, <1>2 DEF FreshInv, IssuedCopy, Resting, authVars
<1>4. \A v \in Workers : pc'[v] = "persist" => /\ pc[v] = "persist" /\ copy'[v] = copy[v]
                                              /\ cred'[v] = cred[v]
                                              /\ updated'[v] = updated[v]
  BY <1>1, <1>2
<1>5. ASSUME NEW c \in Creds, Landing(c) PROVE Landing(c)'
  <2>1. calls[c] \in Workers /\ pc[calls[c]] = "persist" /\ cred[calls[c]] = c
    BY <1>5 DEF Landing, SingleFlight, TypeOK
  <2>2. c # cred[w] /\ calls[c] \notin released
    BY <1>1, <1>2, <2>1, OwnFlight DEF InFlight
  <2> QED
    BY <1>1, <1>5, <2>1, <2>2 DEF Landing, TypeOK
<1> QED
  BY <1>1, <1>3, <1>4, <1>5, QuietFresh

-----------------------------------------------------------------------------
(* The exchange.                                                           *)

\* The authority may issue the next generation and may rotate the exchanged
\* token; what it has issued before stays issued.
LEMMA RedeemFresh ==
  ASSUME IInv, FreshInv, LiveInv, NEW w \in Workers, Redeem(w)
  PROVE  FreshInv'
<1> USE DEF IInv
<1> DEFINE c == cred[w]
           n == minted[c] + 1
           t == copy[w].refresh
<1>1. /\ pc[w] = "redeem" /\ c \in Creds /\ t \in Nat /\ minted[c] \in Nat
      /\ calls[c] = w /\ UNCHANGED <<row, calls, cred, copy>> /\ t <= minted[c]
      /\ row[c].present /\ t \notin used[c] => t = row[c].refresh
      /\ \A v \in Workers \ {w} : pc[v] \in InFlight => cred[v] # c
  <2>1. pc[w] = "redeem" /\ UNCHANGED <<row, calls, cred, copy>>
    BY DEF Redeem, RedeemGranted, RedeemRefused, RedeemFailed
  <2>2. c \in Creds /\ t \in Nat /\ minted[c] \in Nat
    BY <2>1 DEF Placed, Bound, Armed, TypeOK
  <2> QED
    BY <2>1, <2>2, OwnFlight
       DEF InFlight, FreshInv, IssuedCopy, Resting, LiveInv, LiveIsStored
<1>2. \A v \in Workers \ {w} : pc'[v] = pc[v] /\ updated'[v] = updated[v]
  BY DEF Redeem, RedeemGranted, RedeemRefused, RedeemFailed, Goto, TypeOK
<1>3. /\ minted' \in [Creds -> Nat] /\ \A d \in Creds : minted[d] <= minted'[d]
      /\ \A d \in Creds \ {c} : minted'[d] = minted[d] /\ used'[d] = used[d]
      /\ \A d \in Creds : used'[d] \subseteq used[d] \cup {t} /\ lost[d] \subseteq lost'[d]
  <2>1. \/ minted' = minted
        \/ minted' = [minted EXCEPT ![c] = n]
    BY DEF Redeem, RedeemGranted, RedeemRefused, RedeemFailed, authVars
  <2>2. \/ used' = used
        \/ used' = [used EXCEPT ![c] = @ \cup {t}]
    BY DEF Redeem, RedeemGranted, RedeemRefused, RedeemFailed, authVars
  <2>3. \/ lost' = lost
        \/ lost' = [lost EXCEPT ![c] = @ \cup {t}]
    BY DEF Redeem, RedeemGranted, RedeemRefused, RedeemFailed, authVars
  <2>4. minted' \in [Creds -> Nat] /\ \A d \in Creds : minted[d] <= minted'[d]
    BY <1>1, <2>1 DEF TypeOK
  <2>5. \A d \in Creds \ {c} : minted'[d] = minted[d] /\ used'[d] = used[d]
    BY <2>1, <2>2 DEF TypeOK
  <2>6. \A d \in Creds : used'[d] \subseteq used[d] \cup {t} /\ lost[d] \subseteq lost'[d]
    BY <2>2, <2>3 DEF TypeOK
  <2> QED
    BY <2>4, <2>5, <2>6
<1>4. \A d \in Creds : IssuedRow(d)'
  BY <1>1, <1>3 DEF FreshInv, IssuedRow, TypeOK, Row
<1>5. ASSUME NEW d \in Creds PROVE IssuedUsed(d)'
  <2>1. \A x \in used[d] : x \in Nat /\ x <= minted[d] /\ minted[d] \in Nat
    BY DEF FreshInv, IssuedUsed, TypeOK
  <2>2. CASE d = c
    BY <1>1, <1>3, <2>1, <2>2 DEF IssuedUsed
  <2>3. CASE d # c
    BY <1>3, <2>1, <2>3 DEF IssuedUsed
  <2> QED
    BY <2>2, <2>3
<1>6. ASSUME NEW v \in Workers \ {w} PROVE IssuedCopy(v)' /\ Newest(v)'
  <2>1. IssuedCopy(v)'
    <3>1. CASE pc[v] \in Resting
      BY <1>2, <3>1 DEF IssuedCopy
    <3>2. CASE pc[v] \notin Resting
      <4>1. /\ cred[v] \in Creds /\ copy[v].access \in Nat
            /\ minted[cred[v]] \in Nat /\ minted'[cred[v]] \in Nat
            /\ minted[cred[v]] <= minted'[cred[v]]
        BY <1>3, <3>2 DEF Placed, Bound, TypeOK, Held, Resting
      <4> QED
        BY <1>1, <1>2, <3>2, <4>1 DEF FreshInv, IssuedCopy
    <3> QED
      BY <3>1, <3>2
  <2>2. Newest(v)'
    <3>1. SUFFICES ASSUME pc[v] = "persist" PROVE Newest(v)'
      BY <1>2 DEF Newest
    <3>2. cred[v] \in Creds \ {c}
      BY <1>1, <3>1 DEF InFlight, Placed, Bound
    <3> QED
      BY <1>1, <1>2, <1>3, <3>1, <3>2 DEF FreshInv, Newest
  <2> QED
    BY <2>1, <2>2
<1>7. CASE RedeemGranted(w)
  <2>1. PICK rotates \in BOOLEAN, life \in {"long", copy[w].life} :
          /\ used' = IF rotates THEN [used EXCEPT ![c] = @ \cup {t}] ELSE used
          /\ updated' = [updated EXCEPT ![w] =
               [copy[w] EXCEPT !.access = n, !.life = life,
                               !.refresh = IF rotates THEN n ELSE @]]
    BY <1>7 DEF RedeemGranted
  <2>2. /\ pc'[w] = "persist" /\ minted'[c] = n /\ t \notin used[c]
        /\ updated'[w].access = n /\ updated'[w].refresh = IF rotates THEN n ELSE t
    BY <1>1, <1>7, <2>1 DEF RedeemGranted, Goto, TypeOK, Held
  <2>3. n \notin used[c] \cup {t}
    BY <1>1 DEF FreshInv, IssuedUsed, TypeOK
  <2>4. /\ updated'[w].refresh \notin used'[c]
        /\ updated'[w].refresh = t \/ t \in used'[c]
    BY <1>1, <2>1, <2>2, <2>3 DEF TypeOK
  <2>5. row[c].access < n
    BY <1>1 DEF FreshInv, IssuedRow, TypeOK, Row
  <2>6. IssuedCopy(w)' /\ Newest(w)'
    <3>1. copy[w].access \in Nat /\ copy[w].access <= minted[c]
      BY <1>1 DEF FreshInv, IssuedCopy, Resting, TypeOK, Held
    <3>2. copy[w].access <= n /\ t <= n
      BY <1>1, <3>1
    <3>3. IssuedCopy(w)'
      BY <1>1, <2>2, <3>2 DEF IssuedCopy
    <3>4. Newest(w)'
      BY <1>1, <2>2, <2>4, <2>5, <3>2 DEF Newest
    <3> QED
      BY <3>3, <3>4
  <2>7. RefreshTokenFresh'
    <3>1. ASSUME NEW d \in Creds \ {c}, row[d].present, row[d].refresh \in used[d]
          PROVE  row[d].refresh \in lost[d] \/ (calls[d] # None /\ pc'[calls[d]] = "persist")
      <4>1. row[d].refresh \in lost[d] \/ Landing(d)
        BY <3>1 DEF FreshInv, RefreshTokenFresh, Landing
      <4>2. Landing(d) => calls[d] \in Workers \ {w}
        BY <1>1 DEF Landing, TypeOK
      <4> QED
        BY <1>2, <4>1, <4>2 DEF Landing
    <3>2. calls[c] # None /\ pc'[calls[c]] = "persist"
      BY <1>1, <2>2, Constants
    <3> QED
      BY <1>1, <1>3, <3>1, <3>2 DEF RefreshTokenFresh
  <2> QED
    BY <1>4, <1>5, <1>6, <2>6, <2>7 DEF FreshInv
<1>8. CASE RedeemRefused(w) \/ RedeemFailed(w)
  <2>1. /\ pc'[w] = "publish"
        /\ \/ used' = used
           \/ used' = [used EXCEPT ![c] = @ \cup {t}] /\ lost' = [lost EXCEPT ![c] = @ \cup {t}]
    BY <1>8 DEF RedeemRefused, RedeemFailed, Goto, TypeOK, authVars
  <2>2. IssuedCopy(w)' /\ Newest(w)'
    <3>1. copy[w].access \in Nat /\ copy[w].access <= minted[c] /\ minted'[c] \in Nat
      BY <1>1, <1>3 DEF FreshInv, IssuedCopy, Resting, TypeOK, Held
    <3>2. copy[w].access <= minted'[c] /\ t <= minted'[c]
      BY <1>1, <1>3, <3>1
    <3> QED
      BY <1>1, <2>1, <3>2 DEF IssuedCopy, Newest
  <2>3. ASSUME NEW d \in Creds, row[d].present, row[d].refresh \in used'[d]
        PROVE  row[d].refresh \in lost'[d] \/ (calls[d] # None /\ pc'[calls[d]] = "persist")
    <3>1. row[d].refresh \in used[d] \/ row[d].refresh \in lost'[d]
      BY <1>1, <2>1, <2>3 DEF TypeOK
    <3>2. CASE row[d].refresh \in used[d]
      <4>1. row[d].refresh \in lost[d] \/ Landing(d)
        BY <2>3, <3>2 DEF FreshInv, RefreshTokenFresh, Landing
      <4>2. Landing(d) => calls[d] \in Workers \ {w}
        BY <1>1 DEF Landing, TypeOK
      <4> QED
        BY <1>2, <1>3, <4>1, <4>2 DEF Landing
    <3> QED
      BY <3>1, <3>2
  <2>4. RefreshTokenFresh'
    BY <1>1, <2>3 DEF RefreshTokenFresh
  <2> QED
    BY <1>4, <1>5, <1>6, <2>2, <2>4 DEF FreshInv
<1> QED
  BY <1>7, <1>8 DEF Redeem

\* The newest generation replaces the row, or is dropped and counted as lost.
LEMMA PersistFresh ==
  ASSUME IInv, FreshInv, NEW w \in Workers, Persist(w)
  PROVE  /\ FreshInv'
         /\ \A d \in Creds : row'[d].access >= row[d].access
<1> USE DEF IInv
<1> DEFINE c == cred[w]
<1>1. /\ pc[w] = "persist" /\ c \in Creds /\ calls[c] = w
      /\ UNCHANGED <<minted, used, calls, cred>> /\ Newest(w) /\ IssuedCopy(w)
      /\ updated[w] \in Held
  BY OwnFlight DEF Persist, Placed, Bound, InFlight, FreshInv, TypeOK
<1>2. /\ pc'[w] = "publish" /\ \A v \in Workers \ {w} : pc'[v] = pc[v]
      /\ \A v \in Workers \ {w} : copy'[v] = copy[v] /\ updated'[v] = updated[v]
      /\ \A d \in Creds \ {c} : row'[d] = row[d] /\ lost'[d] = lost[d]
  BY <1>1 DEF Persist, Persisted, NotPersisted, Goto, TypeOK
<1>3. \/ /\ row'[c].access = updated[w].access /\ row'[c].refresh = updated[w].refresh
         /\ copy'[w] = updated[w]
      \/ /\ row'[c] = row[c] /\ copy'[w] = copy[w]
         /\ lost'[c] = lost[c] \cup ({copy[w].refresh} \cap used[c])
  BY <1>1 DEF Persist, Persisted, NotPersisted, RefreshedRow, TypeOK
<1>4. minted[c] \in Nat /\ \A d \in Creds : IssuedRow(d) /\ row[d].access \in Nat
  BY <1>1 DEF FreshInv, TypeOK, Row
<1>5. \A d \in Creds : IssuedRow(d)' /\ row'[d].access >= row[d].access
  <2>1. IssuedRow(c)' /\ row'[c].access >= row[c].access
    BY <1>1, <1>3, <1>4 DEF IssuedRow, Newest, Held
  <2> QED
    BY <1>1, <1>2, <1>4, <2>1 DEF IssuedRow
<1>6. \A d \in Creds : IssuedUsed(d)'
  BY <1>1 DEF FreshInv, IssuedUsed
<1>7. ASSUME NEW v \in Workers PROVE IssuedCopy(v)' /\ Newest(v)'
  <2>1. CASE v = w
    <3>1. copy'[w].access <= minted[c]
          /\ (copy'[w].refresh \in Nat => copy'[w].refresh <= minted[c])
      BY <1>1, <1>3, <1>4 DEF Newest, IssuedCopy, Resting
    <3> QED
      BY <1>1, <1>2, <2>1, <3>1 DEF IssuedCopy, Newest
  <2>2. CASE v # w
    <3>1. IssuedCopy(v)'
      BY <1>1, <1>2, <2>2 DEF FreshInv, IssuedCopy
    <3>2. ASSUME pc'[v] = "persist" PROVE pc[v] = "persist" /\ cred[v] \in Creds \ {c}
      BY <1>1, <1>2, <2>2, <3>2 DEF SingleFlight, OwnsFlight, Placed, Bound
    <3> QED
      BY <1>1, <1>2, <2>2, <3>1, <3>2 DEF FreshInv, Newest
  <2> QED
    BY <2>1, <2>2
<1>8. ASSUME NEW d \in Creds, row'[d].present, row'[d].refresh \in used[d]
      PROVE  row'[d].refresh \in lost'[d] \/ (calls[d] # None /\ pc'[calls[d]] = "persist")
  <2>1. CASE d = c
    BY <1>1, <1>3, <1>8, <2>1 DEF Newest
  <2>2. CASE d # c
    <3>1. row[d].refresh \in lost[d] \/ Landing(d)
      BY <1>2, <1>8, <2>2 DEF FreshInv, RefreshTokenFresh, Landing
    <3>2. Landing(d) => calls[d] \in Workers \ {w}
      BY <1>1, <2>2 DEF Landing, SingleFlight, TypeOK
    <3> QED
      BY <1>2, <2>2, <3>1, <3>2 DEF Landing
  <2> QED
    BY <2>1, <2>2
<1>9. RefreshTokenFresh'
  BY <1>1, <1>8 DEF RefreshTokenFresh
<1> QED
  BY <1>5, <1>6, <1>7, <1>9 DEF FreshInv

-----------------------------------------------------------------------------
(* Marks.  Every outcome but a success leaves a mark or a count behind, a  *)
(* success of a marked row does not pass, and what a refresh stores is a   *)
(* newer token.                                                            *)

LEMMA FailuresCount ==
  ASSUME NEW r \in Row
  PROVE  \A m \in {MarkAuthFailure(r), MarkRateLimit(r), MarkOtherFailure(r),
                   MarkAuthFailure(MarkAuthFailure(r)), MarkOtherFailure(MarkOtherFailure(r)),
                   MarkCooldown(r, "rate"), MarkCooldown(r, "other")} : m.fails > 0
<1>1. MarkAuthFailure(r) \in Row /\ MarkOtherFailure(r) \in Row
  BY MarksKeepRows
<1>2. \A s \in Row : Bump(s) > 0
  BY Constants DEF Bump, Row
<1>3. \A s \in Row : /\ MarkAuthFailure(s).fails = Bump(s)
                     /\ MarkOtherFailure(s).fails = Bump(s)
                     /\ MarkRateLimit(s).fails = Bump(s)
  BY DEF MarkAuthFailure, MarkOtherFailure, MarkRateLimit, Row
<1>4. \A t \in {"rate", "other"} : MarkCooldown(r, t).fails = Bump(r)
  BY DEF MarkCooldown, Row
<1> QED
  BY <1>1, <1>2, <1>3, <1>4

\* A row that is left alone, or written with a count, stays marked.
LEMMA WriteStaysMarked ==
  ASSUME TypeOK, NEW c \in Creds, NEW r, r.fails > 0,
         Write(c, r) \/ \E w \in Workers : cred[w] = c /\ WriteIfCurrent(w, r)
  PROVE  \A d \in Creds : StaysMarked(row[d], row'[d])
BY DEF Write, WriteIfCurrent, StaysMarked, TypeOK

LEMMA OutcomeStaysMarked ==
  ASSUME TypeOK, NEW w \in Workers, cred[w] \in Creds, Return(w) \/ Report(w)
  PROVE  \A d \in Creds : StaysMarked(row[d], row'[d])
<1> DEFINE r == row[cred[w]]
<1>1. CASE UNCHANGED row
  BY <1>1 DEF StaysMarked
<1>2. CASE Succeed(w)
  <2>1. \/ row' = row
        \/ ~r.invalid /\ row' = [row EXCEPT ![cred[w]] = MarkSuccess(@)]
    BY <1>2 DEF Succeed, Clears
  <2> QED
    BY <2>1 DEF StaysMarked, TypeOK
<1>3. CASE ~UNCHANGED row /\ ~Succeed(w)
  <2>1. r \in Row
    BY DEF TypeOK
  <2>2. PICK m \in {MarkAuthFailure(r), MarkRateLimit(r), MarkOtherFailure(r),
                    MarkAuthFailure(MarkAuthFailure(r)), MarkOtherFailure(MarkOtherFailure(r)),
                    MarkCooldown(r, "rate"), MarkCooldown(r, "other")} :
          Write(cred[w], m) \/ WriteIfCurrent(w, m)
    <3>1. CASE Return(w)
      BY <1>3, <3>1 DEF Return, ReturnOK, ReturnReused, ReturnError
    <3>2. CASE Report(w)
      BY <1>3, <3>2 DEF Report, RefreshAfter401, Reject, RateLimit, RateLimitUntilReset,
         SemanticEmpty, OtherFailure, NoPenalty
    <3> QED
      BY <3>1, <3>2
  <2>3. m.fails > 0
    BY <2>1, <2>2, FailuresCount
  <2> QED
    BY <2>2, <2>3, WriteStaysMarked
<1> QED
  BY <1>1, <1>2, <1>3

LEMMA PersistStaysMarked ==
  ASSUME IInv, FreshInv, NEW w \in Workers, Persist(w)
  PROVE  \A d \in Creds : StaysMarked(row[d], row'[d])
<1> USE DEF IInv
<1>1. cred[w] \in Creds /\ row[cred[w]].access < updated[w].access
  BY DEF Persist, Placed, Bound, FreshInv, Newest
<1>2. \A d \in Creds : row[d].access \in Nat /\ updated[w].access \in Nat
  BY DEF TypeOK, Row, Held
<1>3. RefreshedRow(updated[w]).access = updated[w].access
  BY DEF RefreshedRow
<1>4. \A d \in Creds :
        row'[d] \in {row[d], IF d = cred[w] THEN RefreshedRow(updated[w]) ELSE row[d]}
  BY <1>1 DEF Persist, Persisted, NotPersisted, TypeOK
<1> QED
  BY <1>1, <1>2, <1>3, <1>4 DEF StaysMarked

LEMMA NextStaysMarked ==
  ASSUME Admins = {}, IInv, FreshInv, [Next]_vars
  PROVE  \A d \in Creds : StaysMarked(row[d], row'[d])
<1> USE DEF IInv
<1>1. CASE UNCHANGED row
  BY <1>1 DEF StaysMarked
<1>2. ASSUME NEW w \in Workers, Return(w) \/ Report(w)
      PROVE  \A d \in Creds : StaysMarked(row[d], row'[d])
  <2>1. cred[w] \in Creds
    BY <1>2 DEF Return, ReturnOK, ReturnReused, ReturnError, Report, Succeed,
       RefreshAfter401, Reject, RateLimit, RateLimitUntilReset, SemanticEmpty,
       OtherFailure, NoPenalty, Placed, Bound
  <2> QED
    BY <1>2, <2>1, OutcomeStaysMarked
<1>3. ASSUME NEW w \in Workers, StartRefresh(w) \/ Redeem(w) \/ Publish(w)
                                \/ Select(w) \/ GiveUp(w) \/ ManualRefresh(w)
      PROVE  UNCHANGED row
  BY <1>3 DEF StartRefresh, Redeem, RedeemGranted, RedeemRefused, RedeemFailed, Publish,
     Select, GiveUp, ManualRefresh
<1>4. ASSUME NEW c \in Creds, RowStep(c)
      PROVE  \A d \in Creds : StaysMarked(row[d], row'[d])
  <2>1. CASE Delete(c)
    BY <2>1 DEF Delete, BlankRow, StaysMarked, TypeOK
  <2>2. CASE TokenAges(c)
    BY <2>2 DEF TokenAges, StaysMarked, TypeOK, Row
  <2>3. CASE CooldownEnds(c)
    BY <2>3 DEF CooldownEnds, StaysMarked, TypeOK, Row
  <2>4. CASE QuotaResets(c)
    BY <2>4, <1>1 DEF QuotaResets
  <2> QED
    BY <1>4, <2>1, <2>2, <2>3, <2>4 DEF RowStep
<1>5. ASSUME NEW n \in Names, RenameEndpoint(n)
      PROVE  \A d \in Creds : StaysMarked(row[d], row'[d])
  BY <1>5 DEF RenameEndpoint, StaysMarked, TypeOK, Row
<1> QED
  BY <1>1, <1>2, <1>3, <1>4, <1>5, PersistStaysMarked
     DEF Next, RefreshStep, RequestStep, vars

-----------------------------------------------------------------------------
(* Live copies: a refresh token that is still alive, in whatever copy, is  *)
(* the stored one, so a late refresh from a stale copy does no harm.       *)

\* Worker v goes on with the copy it has, or is done with it.
Carries(v) == \/ pc'[v] \in Resting
              \/ pc[v] \notin Resting /\ copy'[v] = copy[v] /\ cred'[v] = cred[v]

LEMMA LiveCarried ==
  ASSUME IInv, LiveInv, UNCHANGED used, \A c \in Creds : Keeps(c),
         NEW v \in Workers, Carries(v)
  PROVE  LiveIsStored(v)'
<1>1. CASE pc'[v] \in Resting
  BY <1>1 DEF LiveIsStored
<1>2. CASE pc'[v] \notin Resting
  <2>1. cred[v] \in Creds
    BY <1>2 DEF Carries, IInv, Placed, Bound, Resting
  <2> QED
    BY <1>2, <2>1 DEF Carries, LiveInv, LiveIsStored, Keeps, Same, BlankRow
<1> QED
  BY <1>1, <1>2

\* Most steps of a request carry its copy on.
LEMMA MostCarry ==
  ASSUME IInv, NEW w \in Workers,
         GiveUp(w) \/ StartRefresh(w) \/ Return(w) \/ Report(w)
  PROVE  /\ \A v \in Workers : Carries(v)
         /\ UNCHANGED authVars
<1> USE DEF IInv
<1>1. /\ pc[w] \in {"retry", "refresh", "returned", "send"} /\ UNCHANGED authVars
      /\ pc[w] = "retry" => GiveUp(w)
  BY DEF GiveUp, StartRefresh, Return, ReturnOK, ReturnReused, ReturnError, Report, Succeed,
     RefreshAfter401, Reject, RateLimit, RateLimitUntilReset, SemanticEmpty, OtherFailure,
     NoPenalty
<1>2. \/ Finish(w) \/ TryAgain(w)
      \/ Send(w) /\ UNCHANGED <<cred, copy>>
      \/ \E p \in {"refresh", "returned", "redeem", "join"} :
            Goto(w, p) /\ UNCHANGED <<cred, copy>>
  BY DEF GiveUp, StartRefresh, Return, ReturnOK, ReturnReused, ReturnError, Report, Succeed,
     RefreshAfter401, Reject, RateLimit, RateLimitUntilReset, SemanticEmpty, OtherFailure,
     NoPenalty
<1>3. GiveUp(w) => Finish(w)
  BY DEF GiveUp
<1>4. /\ pc'[w] \in Resting \/ (copy'[w] = copy[w] /\ cred'[w] = cred[w])
      /\ \A v \in Workers \ {w} : /\ pc'[v] = pc[v] /\ copy'[v] = copy[v]
                                  /\ cred'[v] = cred[v]
  BY <1>2 DEF Finish, TryAgain, Release, Send, Goto, Resting, TypeOK
<1>5. pc[w] \notin Resting \/ pc'[w] \in Resting
  BY <1>1, <1>3 DEF Finish, Goto, Resting, TypeOK
<1> QED
  BY <1>1, <1>4, <1>5 DEF Carries, Resting

LEMMA TakenIsLive ==
  ASSUME IInv, LiveInv, NEW w \in Workers, Select(w) \/ ManualRefresh(w)
  PROVE  LiveInv'
<1> USE DEF IInv
<1>1. PICK c \in Creds : /\ cred' = [cred EXCEPT ![w] = c]
                         /\ copy' = [copy EXCEPT ![w] = Hold(row[c])]
  BY DEF Select, ManualRefresh, Selectable, LeastFailures, Usable, RefreshableExpired
<1>2. UNCHANGED <<row, authVars>> /\ \E p \in {"refresh", "send"} : Goto(w, p)
  BY DEF Select, ManualRefresh, Send
<1>3. \A v \in Workers \ {w} : pc'[v] = pc[v] /\ copy'[v] = copy[v] /\ cred'[v] = cred[v]
  BY <1>1, <1>2 DEF Goto, TypeOK
<1>4. \A v \in Workers \ {w} : LiveIsStored(v)'
  BY <1>2, <1>3 DEF LiveInv, LiveIsStored, authVars
<1>5. LiveIsStored(w)'
  BY <1>1, <1>2 DEF LiveIsStored, Hold, TypeOK, authVars
<1> QED
  BY <1>4, <1>5 DEF LiveInv

LEMMA PublishIsLive ==
  ASSUME IInv, LiveInv, NEW w \in Workers, Publish(w)
  PROVE  LiveInv'
<1> USE DEF IInv
<1> DEFINE released == Joiners(cred[w]) \cup {w}
<1>1. /\ pc[w] = "publish" /\ UNCHANGED <<row, authVars, cred>>
      /\ pc' = [v \in Workers |-> IF v \in released THEN "returned" ELSE pc[v]]
      /\ copy' = [v \in Workers |-> IF v \in released /\ out[w] = "refreshed"
                                    THEN copy[w] ELSE copy[v]]
  BY DEF Publish
<1>2. \A v \in released : v \in Workers /\ cred[v] = cred[w] /\ pc[v] \in {"join", "publish"}
  BY <1>1 DEF Joiners
<1>3. \A v \in Workers \ released : LiveIsStored(v)'
  BY <1>1 DEF LiveInv, LiveIsStored, authVars
<1>4. ASSUME NEW v \in released PROVE LiveIsStored(v)'
  <2>1. copy'[v] \in {copy[v], copy[w]}
    BY <1>1, <1>2
  <2>2. /\ row[cred[v]].present /\ copy[v].refresh \notin used[cred[v]]
             => copy[v].refresh = row[cred[v]].refresh
        /\ row[cred[w]].present /\ copy[w].refresh \notin used[cred[w]]
             => copy[w].refresh = row[cred[w]].refresh
    BY <1>1, <1>2 DEF LiveInv, LiveIsStored, Resting
  <2> QED
    BY <1>1, <1>2, <2>1, <2>2 DEF LiveIsStored, authVars
<1> QED
  BY <1>3, <1>4 DEF LiveInv

\* An exchange kills the token it rotates in every copy, and touches no row.
LEMMA RedeemIsLive ==
  ASSUME IInv, LiveInv, NEW w \in Workers, Redeem(w)
  PROVE  LiveInv'
<1> USE DEF IInv
<1> DEFINE c == cred[w]
           t == copy[w].refresh
<1>1. pc[w] = "redeem" /\ c \in Creds /\ UNCHANGED <<row, cred, copy>>
  BY DEF Redeem, RedeemGranted, RedeemRefused, RedeemFailed, Placed, Bound
<1>2. \A v \in Workers \ {w} : pc'[v] = pc[v]
  BY DEF Redeem, RedeemGranted, RedeemRefused, RedeemFailed, Goto, TypeOK
<1>3. used' = used \/ used' = [used EXCEPT ![c] = @ \cup {t}]
  BY DEF Redeem, RedeemGranted, RedeemRefused, RedeemFailed, authVars
<1>4. \A d \in Creds : used[d] \subseteq used'[d]
  BY <1>1, <1>3 DEF TypeOK
<1>5. ASSUME NEW v \in Workers, pc'[v] \notin Resting PROVE LiveIsStored(v)'
  <2>1. pc[v] \notin Resting
    BY <1>1, <1>2, <1>5 DEF Resting
  <2>2. cred[v] \in Creds
    BY <2>1 DEF Placed, Bound, Resting
  <2> QED
    BY <1>1, <1>4, <2>1, <2>2 DEF LiveInv, LiveIsStored
<1> QED
  BY <1>5 DEF LiveInv, LiveIsStored

LEMMA PersistIsLive ==
  ASSUME IInv, FreshInv, LiveInv, NEW w \in Workers, Persist(w)
  PROVE  LiveInv'
<1> USE DEF IInv
<1> DEFINE c == cred[w]
<1>1. /\ pc[w] = "persist" /\ c \in Creds /\ Newest(w)
      /\ UNCHANGED <<used, cred>>
      /\ Persisted(w) \/ NotPersisted(w)
  BY DEF Persist, Placed, Bound, FreshInv
<1>2. /\ pc'[w] = "publish"
      /\ \A v \in Workers \ {w} : pc'[v] = pc[v] /\ copy'[v] = copy[v]
      /\ \A d \in Creds \ {c} : row'[d] = row[d]
  BY <1>1 DEF Persist, Persisted, NotPersisted, Goto, TypeOK
<1>3. \/ /\ row[c].present /\ row'[c].refresh = updated[w].refresh
         /\ copy'[w] = updated[w]
      \/ row'[c] = row[c] /\ copy'[w] = copy[w]
  BY <1>1 DEF Persisted, NotPersisted, Matches, RefreshedRow, TypeOK
<1>4. ASSUME NEW v \in Workers, pc'[v] \notin Resting PROVE LiveIsStored(v)'
  <2>1. pc[v] \notin Resting /\ cred[v] \in Creds /\ LiveIsStored(v)
    BY <1>1, <1>2, <1>4 DEF Resting, Placed, Bound, LiveInv
  <2>2. CASE cred[v] # c
    BY <1>1, <1>2, <2>1, <2>2 DEF LiveIsStored
  <2>3. CASE cred[v] = c /\ v # w
    BY <1>1, <1>2, <1>3, <2>1, <2>3 DEF LiveIsStored, Newest
  <2>4. CASE v = w
    BY <1>1, <1>2, <1>3, <2>1, <2>4 DEF LiveIsStored
  <2> QED
    BY <2>2, <2>3, <2>4
<1> QED
  BY <1>4 DEF LiveInv, LiveIsStored

LEMMA NextLive ==
  ASSUME Admins = {}, IInv, FreshInv, LiveInv, [Next]_vars
  PROVE  LiveInv'
<1>1. CASE UNCHANGED vars
  BY <1>1 DEF vars, workerVars, authVars, LiveInv, LiveIsStored
<1>2. CASE Next /\ \E w \in Workers : Persist(w)
  BY <1>2, PersistIsLive
<1>3. CASE Next /\ ~\E w \in Workers : Persist(w)
  <2>1. \A c \in Creds : Keeps(c)
    BY <1>3, TokensKept
  <2>2. ASSUME NEW w \in Workers, GiveUp(w) \/ StartRefresh(w) \/ Return(w) \/ Report(w)
        PROVE  LiveInv'
    BY <2>1, <2>2, MostCarry, LiveCarried DEF authVars, LiveInv
  <2>3. ASSUME NEW w \in Workers, RefreshStep(w) \/ RequestStep(w) PROVE LiveInv'
    BY <1>3, <2>2, <2>3, TakenIsLive, RedeemIsLive, PublishIsLive
       DEF RefreshStep, RequestStep
  <2>4. ASSUME NEW c \in Creds, RowStep(c) PROVE LiveInv'
    <3>1. UNCHANGED <<authVars, workerVars>>
      BY <2>4 DEF RowStep, Delete, TokenAges, CooldownEnds, QuotaResets
    <3>2. \A v \in Workers : Carries(v)
      BY <3>1 DEF workerVars, Carries
    <3> QED
      BY <2>1, <3>1, <3>2, LiveCarried DEF authVars, LiveInv
  <2>5. ASSUME NEW n \in Names, RenameEndpoint(n) PROVE LiveInv'
    <3>1. UNCHANGED <<authVars, workerVars>>
      BY <2>5 DEF RenameEndpoint
    <3>2. \A v \in Workers : Carries(v)
      BY <3>1 DEF workerVars, Carries
    <3> QED
      BY <2>1, <3>1, <3>2, LiveCarried DEF authVars, LiveInv
  <2> QED
    BY <1>3, <2>3, <2>4, <2>5 DEF Next
<1> QED
  BY <1>1, <1>2, <1>3

-----------------------------------------------------------------------------
(* Theorems.                                                               *)

LEMMA InitFresh == Init => FreshInv /\ LiveInv
<1> SUFFICES ASSUME Init PROVE FreshInv /\ LiveInv
  OBVIOUS
<1>1. PICK t \in [Creds -> {0, NoToken}], n \in Names :
        row = [c \in Creds |-> [BlankRow EXCEPT !.present = TRUE, !.enabled = TRUE,
                                                !.refresh = t[c], !.name = n]]
  BY DEF Init
<1>2. \A c \in Creds : row[c].access = 0 /\ row[c].refresh \in {0, NoToken}
  BY <1>1 DEF BlankRow
<1>3. \A c \in Creds : minted[c] = 0 /\ used[c] = {}
  BY DEF Init
<1>4. \A w \in Workers : pc[w] = "idle"
  BY DEF Init
<1> QED
  BY <1>2, <1>3, <1>4, Constants
     DEF FreshInv, IssuedRow, IssuedUsed, IssuedCopy, Newest, Resting, RefreshTokenFresh,
         LiveInv, LiveIsStored

LEMMA NextFresh ==
  ASSUME Admins = {}, IInv, FreshInv, LiveInv, [Next]_vars
  PROVE  /\ FreshInv'
         /\ \A c \in Creds : row'[c].present => row'[c].access >= row[c].access
<1>1. CASE UNCHANGED vars
  <2>1. \A c \in Creds : Keeps(c)
    BY <1>1 DEF vars, Keeps, Same
  <2>2. \A w \in Workers : IssuedCopy(w)'
    BY <1>1, CopyRests DEF vars, workerVars
  <2>3. FreshInv'
    BY <1>1, <2>1, <2>2, QuietFresh DEF vars, workerVars, Landing
  <2>4. \A c \in Creds : row'[c].access >= row[c].access
    BY <1>1 DEF vars, IInv, TypeOK, Row
  <2> QED
    BY <2>3, <2>4
<1>2. CASE \E w \in Workers : Persist(w)
  BY <1>2, PersistFresh
<1>3. CASE Next /\ ~\E w \in Workers : Persist(w)
  <2>1. \A c \in Creds : Keeps(c)
    BY <1>3, TokensKept
  <2>2. \A c \in Creds : row'[c].present => row'[c].access >= row[c].access
    <3>1. \A c \in Creds : row[c].access \in Nat
      BY DEF IInv, TypeOK, Row
    <3>2. ~BlankRow.present
      BY DEF BlankRow
    <3>3. \A c \in Creds : row'[c].present => row'[c].access = row[c].access
      BY <2>1, <3>2 DEF Keeps, Same
    <3>4. \A x \in Nat : x >= x
      OBVIOUS
    <3> QED
      BY <3>1, <3>3, <3>4
  <2>3. ASSUME NEW w \in Workers, RefreshStep(w) \/ RequestStep(w) PROVE FreshInv'
    BY <1>3, <2>1, <2>3, StartFresh, RedeemFresh, PublishFresh, ReactionFresh, RequestFresh
       DEF RefreshStep, RequestStep
  <2>4. ASSUME NEW c \in Creds, RowStep(c) PROVE FreshInv'
    <3>1. UNCHANGED <<authVars, calls, workerVars>>
      BY <2>4 DEF RowStep, Delete, TokenAges, CooldownEnds, QuotaResets
    <3>2. \A w \in Workers : IssuedCopy(w)'
      BY <3>1, CopyRests DEF workerVars
    <3> QED
      BY <2>1, <3>1, <3>2, QuietFresh DEF workerVars, Landing
  <2>5. ASSUME NEW n \in Names, RenameEndpoint(n) PROVE FreshInv'
    <3>1. UNCHANGED <<authVars, calls, workerVars>>
      BY <2>5 DEF RenameEndpoint
    <3>2. \A w \in Workers : IssuedCopy(w)'
      BY <3>1, CopyRests DEF workerVars
    <3> QED
      BY <2>1, <3>1, <3>2, QuietFresh DEF workerVars, Landing
  <2> QED
    BY <1>3, <2>2, <2>3, <2>4, <2>5 DEF Next
<1> QED
  BY <1>1, <1>2, <1>3

LEMMA FreshInvariant ==
  ASSUME Admins = {}
  PROVE  Spec => [](FreshInv /\ LiveInv)
<1>1. IInv /\ FreshInv /\ LiveInv /\ [Next]_vars => FreshInv' /\ LiveInv'
  BY NextFresh, NextLive
<1> QED
  BY <1>1, InitFresh, InductiveInvariant, PTL DEF Spec

\* refreshCredentialRequest works from a copy loaded before a network call, and
\* requests with older copies refresh later: no dead refresh token is ever left
\* in a row, unless its successor was lost with the authority's answer or could
\* not be stored (the endpoint was renamed meanwhile, or the storage failed).
THEOREM RefreshTokenStaysFresh ==
  ASSUME Admins = {}
  PROVE  Spec => []RefreshTokenFresh
<1>1. FreshInv => RefreshTokenFresh
  BY DEF FreshInv
<1> QED
  BY <1>1, FreshInvariant, PTL

\* The whole-row write of a refresh never takes a row back to an older token.
THEOREM GenerationsNeverGoBack ==
  ASSUME Admins = {}
  PROVE  Spec => GenerationsMonotone
<1>1. IInv /\ FreshInv /\ LiveInv /\ [Next]_vars =>
        [\A c \in Creds : row'[c].present => row'[c].access >= row[c].access]_vars
  BY NextFresh
<1> QED
  BY <1>1, FreshInvariant, InductiveInvariant, PTL DEF Spec, GenerationsMonotone

\* A request that is out when its credential is rejected cannot clear the mark by
\* its success: the same token comes back with a failure counted, or not at all
\* (MarkCredentialSuccessIfCurrent, and every write that goes by the id alone).
THEOREM RejectedStaysMarked ==
  ASSUME Admins = {}
  PROVE  Spec => NoCleanRevival
<1>1. IInv /\ FreshInv /\ [Next]_vars =>
        [\A c \in Creds : StaysMarked(row[c], row'[c])]_vars
  BY NextStaysMarked
<1> QED
  BY <1>1, FreshInvariant, InductiveInvariant, PTL DEF Spec, NoCleanRevival

-----------------------------------------------------------------------------
(* Every step of the pool is a step of the ledger, or none.                *)

Inv == IInv /\ FreshInv /\ LiveInv

\* Nothing of what the ledger sees changes.
Unseen == /\ UNCHANGED authVars
          /\ \A c \in Creds : /\ StoredTokens(c)' = StoredTokens(c)
                              /\ TokensInHand(c)' = TokensInHand(c)

LEMMA UnseenStutters == Unseen => UNCHANGED Ledger!ledgerVars
BY DEF Unseen, Ledger!ledgerVars, authVars

LEMMA SameIsUnseen ==
  ASSUME NEW c \in Creds, Same(c)
  PROVE  StoredTokens(c)' = StoredTokens(c)
BY DEF Same, StoredTokens

\* Flights that have nothing in hand before or after, or the same.
LEMMA HandRests ==
  ASSUME NEW c \in Creds, Landing(c)' => Landing(c),
         Landing(c) => /\ Landing(c)' /\ calls'[c] = calls[c]
                       /\ copy'[calls[c]] = copy[calls[c]]
                       /\ updated'[calls[c]] = updated[calls[c]]
  PROVE  TokensInHand(c)' = TokensInHand(c)
<1>1. CASE Landing(c)
  BY <1>1 DEF Landing, TokensInHand
<1>2. CASE ~Landing(c)
  <2>1. ~Landing(c)'
    BY <1>2
  <2>2. TokensInHand(c) = {}
    BY <1>2 DEF Landing, TokensInHand
  <2>3. TokensInHand(c)' = {}
    BY <2>1 DEF Landing, TokensInHand
  <2> QED
    BY <2>2, <2>3
<1> QED
  BY <1>1, <1>2

\* A worker that neither exchanges nor persists leaves the hands alone.
LEMMA QuietHands ==
  ASSUME IInv, NEW w \in Workers, pc[w] # "persist", pc'[w] # "persist",
         \A v \in Workers \ {w} :
            pc'[v] = pc[v] \/ (pc[v] # "persist" /\ pc'[v] # "persist"),
         \A v \in Workers : pc[v] = "persist" => copy'[v] = copy[v], updated' = updated,
         \A c \in Creds : \/ calls'[c] = calls[c]
                          \/ ~Landing(c) /\ calls'[c] \in {w, None}
  PROVE  \A c \in Creds : TokensInHand(c)' = TokensInHand(c)
<1> USE DEF IInv
<1>1. ASSUME NEW c \in Creds PROVE TokensInHand(c)' = TokensInHand(c)
  <2>1. calls[c] \in Workers \cup {None}
    BY DEF TypeOK
  <2>2. Landing(c) => /\ Landing(c)' /\ calls'[c] = calls[c]
                      /\ copy'[calls[c]] = copy[calls[c]]
                      /\ updated'[calls[c]] = updated[calls[c]]
    BY <2>1 DEF Landing
  <2>3. Landing(c)' => Landing(c)
    BY <2>1 DEF Landing
  <2> QED
    BY <2>2, <2>3, HandRests
<1> QED
  BY <1>1

LEMMA StartHands ==
  ASSUME IInv, NEW w \in Workers, StartRefresh(w)
  PROVE  \A c \in Creds : TokensInHand(c)' = TokensInHand(c)
<1> USE DEF IInv
<1>1. /\ pc[w] = "refresh" /\ UNCHANGED <<copy, updated>>
      /\ \E p \in {"returned", "redeem", "join"} : Goto(w, p)
  BY DEF StartRefresh
<1>2. /\ pc'[w] # "persist" /\ \A v \in Workers \ {w} : pc'[v] = pc[v]
  BY <1>1 DEF Goto, TypeOK
<1>3. \A c \in Creds : calls'[c] = calls[c] \/ (~Landing(c) /\ calls'[c] = w)
  BY DEF StartRefresh, Flying, Landing, TypeOK
<1> QED
  BY <1>1, <1>2, <1>3, QuietHands

LEMMA OtherHands ==
  ASSUME IInv, NEW w \in Workers,
         GiveUp(w) \/ Select(w) \/ ManualRefresh(w) \/ Return(w) \/ Report(w)
  PROVE  (\A c \in Creds : TokensInHand(c)' = TokensInHand(c)) /\ UNCHANGED authVars
<1> USE DEF IInv
<1>1. /\ pc[w] \in {"idle", "retry", "returned", "send"}
      /\ UNCHANGED <<authVars, calls, updated>>
      /\ \E p \in {"idle", "retry", "refresh", "send"} : Goto(w, p)
      /\ \A v \in Workers \ {w} : copy'[v] = copy[v]
  BY DEF GiveUp, Select, ManualRefresh, Return, ReturnOK, ReturnReused, ReturnError, Report,
     Succeed, RefreshAfter401, Reject, RateLimit, RateLimitUntilReset, SemanticEmpty,
     OtherFailure, NoPenalty, Finish, TryAgain, Send, Release, TypeOK
<1>2. /\ pc'[w] # "persist" /\ \A v \in Workers \ {w} : pc'[v] = pc[v]
  BY <1>1 DEF Goto, TypeOK
<1> QED
  BY <1>1, <1>2, QuietHands

LEMMA PublishHands ==
  ASSUME IInv, NEW w \in Workers, Publish(w)
  PROVE  \A c \in Creds : TokensInHand(c)' = TokensInHand(c)
<1> USE DEF IInv
<1> DEFINE released == Joiners(cred[w]) \cup {w}
<1>1. /\ pc[w] = "publish" /\ cred[w] \in Creds /\ updated' = updated
      /\ calls' = [calls EXCEPT ![cred[w]] = None]
      /\ pc' = [v \in Workers |-> IF v \in released THEN "returned" ELSE pc[v]]
      /\ copy' = [v \in Workers |-> IF v \in released /\ out[w] = "refreshed"
                                    THEN copy[w] ELSE copy[v]]
  BY DEF Publish, Placed, Bound
<1>2. \A v \in released : v \in Workers /\ pc[v] \in {"join", "publish"}
  BY <1>1 DEF Joiners
<1>3. calls[cred[w]] = w
  BY <1>1 DEF SingleFlight, OwnsFlight
<1>4. \A c \in Creds : calls'[c] = calls[c] \/ (~Landing(c) /\ calls'[c] = None)
  BY <1>1, <1>3 DEF Landing, TypeOK
<1>5. /\ pc'[w] # "persist"
      /\ \A v \in Workers \ {w} :
            pc'[v] = pc[v] \/ (pc[v] # "persist" /\ pc'[v] # "persist")
      /\ \A v \in Workers : pc[v] = "persist" => copy'[v] = copy[v]
  BY <1>1, <1>2
<1> QED
  BY <1>1, <1>4, <1>5, QuietHands

\* An exchange of the pool is one of the ledger: nothing is in hand, and the
\* token is the stored one.
LEMMA RedeemIsExchange ==
  ASSUME Inv, NEW w \in Workers, Redeem(w)
  PROVE  \/ UNCHANGED Ledger!ledgerVars
         \/ Ledger!Exchange(cred[w]) \/ Ledger!Lose(cred[w])
<1> USE DEF Inv, IInv
<1> DEFINE c == cred[w]
           t == copy[w].refresh
<1>1. /\ pc[w] = "redeem" /\ c \in Creds /\ t \in Nat /\ minted[c] \in Nat
      /\ calls[c] = w /\ UNCHANGED <<row, calls, cred, copy>> /\ t <= minted[c]
  <2>1. pc[w] = "redeem" /\ UNCHANGED <<row, calls, cred, copy>>
    BY DEF Redeem, RedeemGranted, RedeemRefused, RedeemFailed
  <2>2. c \in Creds /\ t \in Nat /\ minted[c] \in Nat
    BY <2>1 DEF Placed, Bound, Armed, TypeOK
  <2> QED
    BY <2>1, <2>2, OwnFlight DEF InFlight, FreshInv, IssuedCopy, Resting
<1>2. \A v \in Workers \ {w} : pc'[v] = pc[v] /\ updated'[v] = updated[v]
  BY DEF Redeem, RedeemGranted, RedeemRefused, RedeemFailed, Goto, TypeOK
<1>3. \A d \in Creds : StoredTokens(d)' = StoredTokens(d)
  BY <1>1 DEF StoredTokens
<1>4. ASSUME NEW d \in Creds \ {c} PROVE TokensInHand(d)' = TokensInHand(d)
  <2>1. calls[d] # None => calls[d] \in Workers \ {w}
    BY <1>1, <1>4 DEF SingleFlight, TypeOK
  <2> QED
    BY <1>1, <1>2, <1>4, <2>1, HandRests DEF Landing
<1>5. TokensInHand(c) = {} /\ calls[c] # None
  BY <1>1, Constants DEF TokensInHand
<1>6. t \notin used[c] => t \in Ledger!Exchangeable(c)
  <2>1. SUFFICES ASSUME t \notin used[c]
                 PROVE  /\ t \in 0 .. minted[c]
                        /\ \A s \in StoredTokens(c) : t = s.refresh
    BY <1>1, <2>1 DEF Ledger!Exchangeable
  <2>2. row[c].present => t = row[c].refresh
    BY <1>1, <2>1 DEF LiveInv, LiveIsStored, Resting
  <2> QED
    BY <1>1, <2>2 DEF StoredTokens
<1>7. CASE RedeemGranted(w)
  <2>1. PICK rotates \in BOOLEAN, life \in {"long", copy[w].life} :
          /\ used' = IF rotates THEN [used EXCEPT ![c] = @ \cup {t}] ELSE used
          /\ updated' = [updated EXCEPT ![w] =
               [copy[w] EXCEPT !.access = minted[c] + 1, !.life = life,
                               !.refresh = IF rotates THEN minted[c] + 1 ELSE @]]
    BY <1>7 DEF RedeemGranted
  <2>2. /\ pc'[w] = "persist" /\ t \notin used[c] /\ lost' = lost
        /\ minted' = [minted EXCEPT ![c] = minted[c] + 1]
    BY <1>7 DEF RedeemGranted, Goto, TypeOK
  <2>3. updated'[w].access = minted[c] + 1
        /\ updated'[w].refresh = IF rotates THEN minted[c] + 1 ELSE t
    BY <2>1 DEF TypeOK, Held
  <2>4. TokensInHand(c)' = {[access |-> minted[c] + 1, of |-> t,
                             refresh |-> IF rotates THEN minted[c] + 1 ELSE t]}
    BY <1>1, <1>5, <2>2, <2>3 DEF TokensInHand
  <2> DEFINE kept(d) == StoredTokens(d)
             held(d) == TokensInHand(d)
             issued == {[access |-> minted[c] + 1, of |-> t,
                         refresh |-> IF rotates THEN minted[c] + 1 ELSE t]}
  <2>5. [d \in Creds |-> kept(d)]' = [d \in Creds |-> kept(d)]
    BY <1>3
  <2>6. [d \in Creds |-> held(d)]' = [[d \in Creds |-> held(d)] EXCEPT ![c] = issued]
    BY <1>1, <1>4, <2>4
  <2>7. t \in Ledger!Exchangeable(c)
    BY <1>6, <2>2
  <2>8. [d \in Creds |-> held(d)][c] = {}
    BY <1>1, <1>5
  <2>9. Ledger!Exchange(c)
    BY <2>1, <2>2, <2>5, <2>6, <2>7, <2>8 DEF Ledger!Exchange
  <2> QED
    BY <2>9
<1>8. CASE RedeemRefused(w) \/ RedeemFailed(w)
  <2>1. pc'[w] = "publish"
    BY <1>8 DEF RedeemRefused, RedeemFailed, Goto, TypeOK
  <2>2. TokensInHand(c)' = TokensInHand(c)
    BY <1>1, <1>5, <2>1 DEF TokensInHand
  <2>3. CASE UNCHANGED authVars
    <3>1. \A d \in Creds : TokensInHand(d)' = TokensInHand(d)
      BY <1>1, <1>4, <2>2 DEF TokensInHand
    <3>2. Unseen
      BY <1>3, <2>3, <3>1 DEF Unseen
    <3> QED
      BY <3>2, UnseenStutters
  <2>4. CASE ~UNCHANGED authVars
    <3>1. /\ t \notin used[c]
          /\ minted' = [minted EXCEPT ![c] = @ + 1]
          /\ used' = [used EXCEPT ![c] = @ \cup {t}]
          /\ lost' = [lost EXCEPT ![c] = @ \cup {t}]
      BY <1>8, <2>4 DEF RedeemRefused, RedeemFailed
    <3>2. Ledger!Lose(c)
      BY <1>1, <1>3, <1>4, <1>5, <1>6, <2>2, <3>1 DEF Ledger!Lose
    <3> QED
      BY <3>2
  <2> QED
    BY <2>3, <2>4
<1> QED
  BY <1>7, <1>8 DEF Redeem

\* What was exchanged is stored in place of the token it was issued for, or
\* dropped, and that token then counts as orphaned.
LEMMA PersistIsStore ==
  ASSUME Inv, NEW w \in Workers, Persist(w)
  PROVE  Ledger!Store(cred[w]) \/ Ledger!Drop(cred[w])
<1> USE DEF Inv, IInv
<1> DEFINE c == cred[w]
           h == [access |-> updated[w].access, refresh |-> updated[w].refresh,
                 of |-> copy[w].refresh]
<1>1. /\ pc[w] = "persist" /\ c \in Creds /\ calls[c] = w /\ Newest(w)
      /\ UNCHANGED <<minted, used, calls, cred>>
      /\ Persisted(w) \/ NotPersisted(w)
  BY OwnFlight DEF Persist, Placed, Bound, InFlight, FreshInv
<1>2. /\ pc'[w] = "publish"
      /\ \A v \in Workers \ {w} : /\ pc'[v] = pc[v] /\ copy'[v] = copy[v]
                                  /\ updated'[v] = updated[v]
      /\ \A d \in Creds \ {c} : row'[d] = row[d]
  BY <1>1 DEF Persist, Persisted, NotPersisted, Goto, TypeOK
<1>3. \A d \in Creds \ {c} : StoredTokens(d)' = StoredTokens(d)
  BY <1>2 DEF StoredTokens
<1>4. ASSUME NEW d \in Creds \ {c} PROVE TokensInHand(d)' = TokensInHand(d)
  <2>1. calls[d] # None => calls[d] \in Workers \ {w}
    BY <1>1, <1>4 DEF SingleFlight, TypeOK
  <2> QED
    BY <1>1, <1>2, <1>4, <2>1, HandRests DEF Landing
<1>5. TokensInHand(c) = {h} /\ TokensInHand(c)' = {}
  BY <1>1, <1>2, Constants DEF TokensInHand
<1> DEFINE kept(d) == StoredTokens(d)
           held(d) == TokensInHand(d)
<1>6. [d \in Creds |-> held(d)]' = [[d \in Creds |-> held(d)] EXCEPT ![c] = {}]
  BY <1>1, <1>4, <1>5
<1>7. [d \in Creds |-> held(d)][c] = {h}
  BY <1>1, <1>5
<1>8. CASE Persisted(w)
  <2> DEFINE s == [access |-> h.access, refresh |-> h.refresh]
             r == [access |-> row[c].access, refresh |-> row[c].refresh]
  <2>1. row[c].present /\ row' = [row EXCEPT ![c] = RefreshedRow(updated[w])] /\ lost' = lost
    BY <1>8 DEF Persisted, Matches
  <2>2. StoredTokens(c) = {r} /\ r.refresh = h.of
    BY <1>1, <2>1 DEF Newest, StoredTokens
  <2>3. StoredTokens(c)' = {s}
    BY <1>1, <2>1 DEF StoredTokens, RefreshedRow, TypeOK
  <2>4. [d \in Creds |-> kept(d)]' = [[d \in Creds |-> kept(d)] EXCEPT ![c] = {s}]
    BY <1>1, <1>3, <2>3
  <2>5. /\ [d \in Creds |-> kept(d)][c] # {}
        /\ \A x \in [d \in Creds |-> kept(d)][c] : x.refresh = h.of
    <3>1. [d \in Creds |-> kept(d)][c] = {r}
      BY <1>1, <2>2
    <3> HIDE DEF r
    <3>2. r.refresh = h.of
      BY <2>2
    <3> QED
      BY <3>1, <3>2
  <2>6. \E x \in [d \in Creds |-> held(d)][c] :
          /\ \A y \in [d \in Creds |-> kept(d)][c] : y.refresh = x.of
          /\ [d \in Creds |-> kept(d)]' =
               [[d \in Creds |-> kept(d)] EXCEPT
                  ![c] = {[access |-> x.access, refresh |-> x.refresh]}]
    BY <1>7, <2>4, <2>5
  <2>7. [d \in Creds |-> held(d)][c] # {}
    BY <1>7
  <2> HIDE DEF kept, held
  <2>8. Ledger!Store(c)
    BY <1>1, <1>6, <2>1, <2>5, <2>6, <2>7 DEF Ledger!Store, kept, held
  <2> QED
    BY <2>8
<1>9. CASE NotPersisted(w)
  <2>1. row' = row /\ lost' = [lost EXCEPT ![c] = lost[c] \cup ({h.of} \cap used[c])]
    BY <1>9 DEF NotPersisted
  <2>2. [d \in Creds |-> kept(d)]' = [d \in Creds |-> kept(d)]
    BY <2>1 DEF StoredTokens
  <2>3. Ledger!Drop(c)
    BY <1>1, <1>6, <1>7, <2>1, <2>2 DEF Ledger!Drop
  <2> QED
    BY <2>3
<1> QED
  BY <1>1, <1>8, <1>9

LEMMA DeleteIsRemove ==
  ASSUME Inv, NEW c \in Creds, Delete(c)
  PROVE  Ledger!Remove(c)
<1> USE DEF Inv, IInv
<1>1. /\ row[c].present /\ row' = [row EXCEPT ![c] = BlankRow]
      /\ UNCHANGED <<authVars, calls, workerVars>>
  BY DEF Delete
<1>2. \A d \in Creds : TokensInHand(d)' = TokensInHand(d)
  BY <1>1 DEF TokensInHand, workerVars
<1>3. \A d \in Creds \ {c} : StoredTokens(d)' = StoredTokens(d)
  BY <1>1 DEF StoredTokens, TypeOK
<1>4. StoredTokens(c) # {} /\ StoredTokens(c)' = {}
  BY <1>1 DEF StoredTokens, BlankRow, TypeOK
<1> QED
  BY <1>1, <1>2, <1>3, <1>4 DEF Ledger!Remove, authVars

LEMMA StepIsLedgerStep ==
  ASSUME Admins = {}, Inv, [Next]_vars
  PROVE  [Ledger!LedgerNext]_(Ledger!ledgerVars)
<1> USE DEF Inv
<1>1. CASE UNCHANGED vars
  <2>1. Unseen
    BY <1>1 DEF Unseen, vars, workerVars, StoredTokens, TokensInHand
  <2> QED
    BY <2>1, UnseenStutters
<1>2. CASE \E w \in Workers : Redeem(w) \/ Persist(w)
  <2>1. PICK w \in Workers : Redeem(w) \/ Persist(w)
    BY <1>2
  <2>2. cred[w] \in Creds
    BY <2>1 DEF Redeem, RedeemGranted, RedeemRefused, RedeemFailed, Persist, IInv, Placed, Bound
  <2> QED
    BY <2>1, <2>2, RedeemIsExchange, PersistIsStore DEF Ledger!LedgerNext
<1>3. CASE \E c \in Creds : Delete(c)
  BY <1>3, DeleteIsRemove DEF Ledger!LedgerNext
<1>4. CASE Next /\ (~\E w \in Workers : Redeem(w) \/ Persist(w)) /\ ~\E c \in Creds : Delete(c)
  <2>1. \A c \in Creds : StoredTokens(c)' = StoredTokens(c)
    BY <1>4, TokensStay, SameIsUnseen
  <2>2. ASSUME NEW w \in Workers, RefreshStep(w) \/ RequestStep(w)
        PROVE  Unseen
    <3>1. CASE StartRefresh(w)
      BY <2>1, <3>1, StartHands, MostCarry DEF Unseen
    <3>2. CASE Publish(w)
      BY <2>1, <3>2, PublishHands DEF Unseen, Publish
    <3>3. CASE GiveUp(w) \/ Select(w) \/ ManualRefresh(w) \/ Return(w) \/ Report(w)
      BY <2>1, <3>3, OtherHands DEF Unseen
    <3> QED
      BY <1>4, <2>2, <3>1, <3>2, <3>3 DEF RefreshStep, RequestStep
  <2>3. ASSUME NEW c \in Creds, RowStep(c) PROVE Unseen
    <3>1. UNCHANGED <<authVars, calls, workerVars>>
      BY <2>3 DEF RowStep, Delete, TokenAges, CooldownEnds, QuotaResets
    <3> QED
      BY <2>1, <3>1 DEF Unseen, TokensInHand, workerVars
  <2>4. ASSUME NEW n \in Names, RenameEndpoint(n) PROVE Unseen
    <3>1. UNCHANGED <<authVars, calls, workerVars>>
      BY <2>4 DEF RenameEndpoint
    <3> QED
      BY <2>1, <3>1 DEF Unseen, TokensInHand, workerVars
  <2> QED
    BY <1>4, <2>2, <2>3, <2>4, UnseenStutters DEF Next
<1> QED
  BY <1>1, <1>2, <1>3, <1>4

LEMMA InitIsLedgerInit == Init => Ledger!LedgerInit
<1> SUFFICES ASSUME Init PROVE Ledger!LedgerInit
  OBVIOUS
<1>1. PICK t \in [Creds -> {0, NoToken}], n \in Names :
        row = [c \in Creds |-> [BlankRow EXCEPT !.present = TRUE, !.enabled = TRUE,
                                                !.refresh = t[c], !.name = n]]
  BY DEF Init
<1>2. \A c \in Creds : StoredTokens(c) = {[access |-> 0, refresh |-> t[c]]}
  BY <1>1 DEF StoredTokens, BlankRow
<1>3. \A c \in Creds : TokensInHand(c) = {}
  BY DEF Init, TokensInHand
<1> QED
  BY <1>2, <1>3 DEF Ledger!LedgerInit, Init

\* refreshCredential with its single flight implements the ledger: an exchange
\* uses the stored refresh token, one at a time, and its result replaces that
\* token next, is lost with the answer, or is dropped because it could not be
\* stored; then the token it was issued for counts as orphaned.
THEOREM PoolKeepsLedger ==
  ASSUME Admins = {}
  PROVE  Spec => KeepsLedger
<1>1. IInv /\ FreshInv /\ LiveInv /\ [Next]_vars => [Ledger!LedgerNext]_(Ledger!ledgerVars)
  BY StepIsLedgerStep DEF Inv
<1> QED
  BY <1>1, InitIsLedgerInit, FreshInvariant, InductiveInvariant, PTL
     DEF Spec, KeepsLedger, Ledger!LedgerSpec
=============================================================================
