--------------------------- MODULE LicenceProofs ---------------------------
(***************************************************************************)
(* Proofs about module Licence: a card's slots are respected and a device  *)
(* the administrator has put off a card stays off, for any number of       *)
(* cards, devices, programs and edits.                                     *)
(***************************************************************************)
EXTENDS Licence, FiniteSetTheorems, TLAPS

\* A refresh that has been asked for names a card: RefreshSend starts from a
\* stored ticket, and what GetActivation looks up is that ticket's card.
AsksForCard == \A d \in Apps : ref[d].pc = "asked" => ref[d].old \in Cards

\* Typing alone is not inductive: an answer about no card would have no status.
Typed == TypeOK /\ AsksForCard

Slots ==
  \A c \in Cards : Cardinality(ActiveOn(c)) <= IF card[c] = "active" THEN MaxDevices ELSE 0

IInv == Typed /\ Slots

-----------------------------------------------------------------------------
(* The helpers of the store                                                *)

\* What ActivateCard writes is a row, and an active one.
LEMMA ActivatedIsActive ==
  ASSUME TypeOK, NEW c \in Cards, NEW d \in Devices
  PROVE  Activated(c, d) \in Row /\ Activated(c, d).st = "active"
<1> USE LicenceAssumption
<1>1. act[c][d] \in Row /\ now \in Int
  BY DEF TypeOK
<1>2. ExtendFrom(d) \in Int
  <2>1. CASE \E k \in Latest(d) : act[k][d].exp > now
    <3>1. (CHOOSE k \in Latest(d) : TRUE) \in Latest(d)
      BY <2>1
    <3>2. (CHOOSE k \in Latest(d) : TRUE) \in Cards
      BY <3>1 DEF Latest, ActiveOf
    <3> QED
      BY <2>1, <3>2 DEF ExtendFrom, TypeOK, Row
  <2>2. CASE ~\E k \in Latest(d) : act[k][d].exp > now
    BY <2>2, <1>1 DEF ExtendFrom
  <2> QED
    BY <2>1, <2>2
<1> QED
  BY <1>1, <1>2 DEF Activated, Row

\* ... and a row that is put off is one, and not active.
LEMMA DisabledIsOff ==
  ASSUME TypeOK, NEW r \in Row
  PROVE  Disabled(r) \in Row /\ Disabled(r).st = "disabled"
BY DEF Disabled, CapAt, Row, TypeOK

LEMMA SignedIsTicket ==
  ASSUME TypeOK, NEW c \in Cards \cup {None}, NEW e \in Int
  PROVE  Sign(c, e) \in Ticket
BY LicenceAssumption DEF Sign, Ticket, TypeOK

LEMMA LatestAreCards == \A d : Latest(d) \subseteq ActiveOf(d) /\ ActiveOf(d) \subseteq Cards
BY DEF Latest, ActiveOf

\* A whole refresh, and a whole activation.
Refresh(d) == RefreshRound(d) \/ RefreshApply(d)
Redeem(d) == RedeemSave(d) \/ RedeemStart(d)

LEMMA NextParts ==
  Next <=> \/ \E d \in Apps : \/ Refresh(d) \/ Redeem(d) \/ RefreshLost(d) \/ Restart(d)
                              \/ \E c \in Cards : RedeemServe(d, c)
           \/ \E c \in Cards : DisableCard(c) \/ DeleteCard(c)
           \/ \E c \in Cards, d \in Devices :
                ActivateElsewhere(c, d) \/ DisableActivation(c, d)
           \/ \E d \in Devices, e \in 0..MaxNow : SetDeviceExpiry(d, e)
           \/ Tick
BY Zenon DEF Next, Licenses, Refresh, Redeem

-----------------------------------------------------------------------------
(* What each step does to the activations                                  *)

Rows == [Cards -> [Devices -> Row]]

\* No activation comes to life.
OnlyEnds ==
  \A c \in Cards, d \in Devices : act'[c][d].st = "active" => act[c][d].st = "active"

\* One activation does, and its card takes it.
Grants(c, d) ==
  /\ Accepts(c, d)
  /\ act' = [act EXCEPT ![c][d] = Activated(c, d)]

\* What an administrator disables or deletes does not come to life.
LEMMA CardEditsEnd ==
  ASSUME TypeOK, NEW c \in Cards, DisableCard(c) \/ DeleteCard(c)
  PROVE  act' \in Rows /\ OnlyEnds
<1>0. act \in Rows
  BY DEF TypeOK, Rows
<1>1. CASE DisableCard(c)
  <2>1. ASSUME NEW d \in Devices
        PROVE  act'[c][d] \in Row /\ act'[c][d].st # "active"
    BY <1>0, <1>1, DisabledIsOff DEF DisableCard, Rows
  <2> QED
    BY <1>0, <1>1, <2>1 DEF DisableCard, Rows, OnlyEnds
<1>2. CASE DeleteCard(c)
  BY <1>0, <1>2 DEF DeleteCard, NoRow, Row, Rows, OnlyEnds
<1> QED
  BY <1>1, <1>2

LEMMA ActivationEditEnds ==
  ASSUME TypeOK, NEW c \in Cards, NEW d \in Devices, DisableActivation(c, d)
  PROVE  act' \in Rows /\ OnlyEnds
BY DisabledIsOff DEF DisableActivation, TypeOK, Rows, OnlyEnds

\* A new end of a device's licence moves its rows or puts them off.
LEMMA ExpiryEditEnds ==
  ASSUME TypeOK, NEW v \in Devices, NEW e \in 0..MaxNow, SetDeviceExpiry(v, e)
  PROVE  act' \in Rows /\ OnlyEnds
<1> DEFINE moved(r) == [r EXCEPT !.exp = e]
           new(k, l) == IF act[k][v].st # "active" THEN act[k][v]
                        ELSE IF e <= now THEN [st |-> "disabled", exp |-> e]
                        ELSE IF act[k][v].exp > e \/ k = l THEN moved(act[k][v])
                        ELSE act[k][v]
<1>1. act \in Rows /\ e \in Int
  BY LicenceAssumption DEF TypeOK, Rows
<1>2. PICK l \in Latest(v) : act' = [k \in Cards |-> [act[k] EXCEPT ![v] = new(k, l)]]
  BY DEF SetDeviceExpiry
<1>3. ASSUME NEW c \in Cards
      PROVE  new(c, l) \in Row /\ (new(c, l).st = "active" => act[c][v].st = "active")
  <2>1. act[c][v] \in Row
    BY <1>1 DEF Rows
  <2>2. moved(act[c][v]) \in Row /\ moved(act[c][v]).st = act[c][v].st
    BY <1>1, <2>1 DEF Row
  <2>3. [st |-> "disabled", exp |-> e] \in Row
    BY <1>1 DEF Row
  <2> HIDE DEF moved
  <2> QED
    BY <2>1, <2>2, <2>3
<1> HIDE DEF new
<1>4. ASSUME NEW c \in Cards
      PROVE  /\ act'[c] \in [Devices -> Row]
             /\ \A d \in Devices : act'[c][d] = IF d = v THEN new(c, l) ELSE act[c][d]
  BY <1>1, <1>2, <1>3 DEF Rows
<1>5. act' \in Rows
  BY <1>2, <1>4 DEF Rows
<1> QED
  BY <1>3, <1>4, <1>5 DEF OnlyEnds

\* Every step leaves the rows typed, and brings to life at most one of them.
LEMMA StepOfTheStore ==
  ASSUME TypeOK, Next
  PROVE  /\ act' \in Rows
         /\ \/ OnlyEnds /\ \A c \in Cards : card'[c] = card[c] \/ ActiveOn(c)' = {}
            \/ card' = card /\ \E c \in Cards, d \in Devices : Grants(c, d)
<1> USE DEF TypeOK, Rows
<1>1. ASSUME NEW d \in Apps, Refresh(d) \/ Redeem(d) \/ RefreshLost(d) \/ Restart(d)
      PROVE  act' = act /\ card' = card
  BY <1>1 DEF Refresh, RefreshRound, Redeem, RefreshLost, Restart, RefreshSend, RefreshLookup,
     RefreshChoose, RefreshSign, RefreshSave, RefreshStatus, RefreshApply, RedeemSave,
     RedeemStart, serverVars
<1>2. ASSUME NEW d \in Apps, NEW c \in Cards, RedeemServe(d, c)
      PROVE  card' = card /\ Grants(c, d) /\ d \in Devices
  BY <1>2, LicenceAssumption DEF RedeemServe, Grants
<1>3. ASSUME NEW c \in Cards, NEW d \in Devices, ActivateElsewhere(c, d)
      PROVE  card' = card /\ Grants(c, d)
  BY <1>3 DEF ActivateElsewhere, Grants
<1>4. ASSUME NEW c \in Cards, NEW d \in Devices, Grants(c, d)
      PROVE  act' \in Rows
  BY <1>4, ActivatedIsActive DEF Grants
<1>5. ASSUME NEW c \in Cards, DisableCard(c) \/ DeleteCard(c)
      PROVE  \A k \in Cards : card'[k] = card[k] \/ ActiveOn(k)' = {}
  <2>1. \A k \in Cards : k = c \/ card'[k] = card[k]
    BY <1>5 DEF DisableCard, DeleteCard
  <2>2. \A d \in Devices : act'[c][d].st # "active"
    BY <1>5, DisabledIsOff DEF DisableCard, DeleteCard, NoRow
  <2> QED
    BY <2>1, <2>2 DEF ActiveOn
<1>6. ASSUME NEW c \in Cards, NEW d \in Devices, DisableActivation(c, d)
      PROVE  card' = card
  BY <1>6 DEF DisableActivation
<1>7. ASSUME NEW d \in Devices, NEW e \in 0..MaxNow, SetDeviceExpiry(d, e)
      PROVE  card' = card
  BY <1>7 DEF SetDeviceExpiry
<1>8. Tick => act' = act /\ card' = card
  BY DEF Tick, serverVars
<1>9. act' = act => act' \in Rows /\ OnlyEnds
  BY DEF OnlyEnds
<1> QED
  BY <1>1, <1>2, <1>3, <1>4, <1>5, <1>6, <1>7, <1>8, <1>9, CardEditsEnd, ActivationEditEnds,
     ExpiryEditEnds, NextParts

-----------------------------------------------------------------------------
(* Slots                                                                   *)

LEMMA SlotsStay ==
  ASSUME TypeOK, TypeOK', Slots, Next
  PROVE  Slots'
<1>0. \A c \in Cards : ActiveOn(c) \subseteq Devices /\ IsFiniteSet(ActiveOn(c))
                       /\ Cardinality(ActiveOn(c)) \in Nat
  BY LicenceAssumption, FS_Subset, FS_CardinalityType DEF ActiveOn
<1>1. CASE OnlyEnds /\ \A c \in Cards : card'[c] = card[c] \/ ActiveOn(c)' = {}
  <2> SUFFICES ASSUME NEW c \in Cards
               PROVE  Cardinality(ActiveOn(c)') <= IF card'[c] = "active" THEN MaxDevices ELSE 0
    BY DEF Slots
  <2>1. ActiveOn(c)' \in SUBSET ActiveOn(c)
    BY <1>1 DEF OnlyEnds, ActiveOn
  <2>2. Cardinality(ActiveOn(c)') <= Cardinality(ActiveOn(c))
        /\ Cardinality(ActiveOn(c)') \in Nat
    BY <1>0, <2>1, FS_Subset, FS_CardinalityType
  <2>3. ActiveOn(c)' = {} => Cardinality(ActiveOn(c)') = 0
    BY FS_EmptySet
  <2> QED
    BY <1>0, <1>1, <2>2, <2>3, LicenceAssumption DEF Slots
<1>2. ASSUME NEW k \in Cards, NEW d \in Devices, Grants(k, d), card' = card
      PROVE  Slots'
  <2> SUFFICES ASSUME NEW c \in Cards
               PROVE  Cardinality(ActiveOn(c)') <= IF card[c] = "active" THEN MaxDevices ELSE 0
    BY <1>2 DEF Slots
  <2>1. act'[k][d].st = "active"
        /\ \A b \in Cards, v \in Devices : <<b, v>> # <<k, d>> => act'[b][v] = act[b][v]
    BY <1>2, ActivatedIsActive DEF Grants, TypeOK
  <2>2. CASE c # k \/ d \in ActiveOn(c)
    <3>1. ActiveOn(c)' = ActiveOn(c)
      BY <2>1, <2>2 DEF ActiveOn
    <3> QED
      BY <3>1 DEF Slots
  <2>3. CASE c = k /\ d \notin ActiveOn(c)
    <3>1. ActiveOn(c)' = ActiveOn(c) \cup {d}
      BY <2>1, <2>3 DEF ActiveOn
    <3>2. Cardinality(ActiveOn(c)') = Cardinality(ActiveOn(c)) + 1
      BY <1>0, <2>3, <3>1, FS_AddElement
    <3>3. card[c] = "active" /\ Cardinality(ActiveOn(c)) < MaxDevices
      BY <1>2, <2>3 DEF Grants, Accepts, ActiveOn
    <3> QED
      BY <1>0, <3>2, <3>3, LicenceAssumption
  <2> QED
    BY <2>2, <2>3
<1> QED
  BY <1>1, <1>2, StepOfTheStore

-----------------------------------------------------------------------------
(* Types                                                                   *)

ClientTyped ==
  /\ state \in [Apps -> [ticket : Ticket, off : BOOLEAN]]
  /\ ref \in [Apps -> [pc : {"idle", "asked", "looked", "chosen", "answered",
                             "saved", "apply"},
                       old : Cards \cup {None}, row : Ticket,
                       st : {"none", "active", "disabled"},
                       answer : Answers, seen : BOOLEAN]]
  /\ redeem \in [Apps -> [pc : {"idle", "answered", "saved"}, ticket : Ticket]]

ServerTyped ==
  /\ now \in 0..MaxNow /\ faults \in 0..MaxFaults /\ edits \in 0..MaxEdits
  /\ card \in [Cards -> {"active", "disabled", "deleted"}]

LEMMA TypeParts == TypeOK <=> act \in Rows /\ ClientTyped /\ ServerTyped
BY DEF TypeOK, Rows, ClientTyped, ServerTyped

Rounds == [pc : {"idle", "asked", "looked", "chosen", "answered", "saved", "apply"},
           old : Cards \cup {None}, row : Ticket, st : {"none", "active", "disabled"},
           answer : Answers, seen : BOOLEAN]

LEMMA ReadIsTicket == \A c \in Cards \cup {None}, e \in Int : Read(c, e) \in Ticket
BY DEF Read, Ticket

LEMMA BlankTicket == NoTicket \in Ticket
BY ReadIsTicket DEF NoTicket

LEMMA FreshRounds ==
  ASSUME NEW pc \in {"idle", "asked", "looked", "chosen", "answered", "saved", "apply"},
         NEW c \in Cards \cup {None}
  PROVE  Round(pc, c) \in Rounds /\ Round(pc, c).pc = pc /\ Round(pc, c).old = c
BY BlankTicket DEF Round, Rounds, Answers

LEMMA LicensedIsTruth ==
  ASSUME NEW d PROVE Licensed(d) \in BOOLEAN
BY DEF Licensed, LicensedBy

\* Whoever replaces one round by another keeps the rounds typed.
LEMMA RoundReplaced ==
  ASSUME Typed, NEW d \in Apps, NEW r \in Rounds, ref' = [ref EXCEPT ![d] = r],
         r.pc = "asked" => r.old \in Cards
  PROVE  ref' \in [Apps -> Rounds] /\ AsksForCard'
BY DEF Typed, TypeOK, Rounds, AsksForCard

LEMMA RefreshTyped ==
  ASSUME Typed, NEW d \in Apps, Refresh(d)
  PROVE  ref' \in [Apps -> Rounds] /\ AsksForCard'
<1> DEFINE me == ref[d]
           AskedNot == {r \in Rounds : r.pc # "asked"}
<1>0. /\ d \in Devices /\ Apps \subseteq Devices /\ me \in Rounds
      /\ act \in Rows /\ me.row \in Ticket /\ state[d].ticket \in Ticket
  BY LicenceAssumption DEF Typed, TypeOK, Rounds, Rows
<1>1. CASE RefreshSend(d)
  <2>1. state[d].ticket.card \in Cards
    BY <1>0, <1>1 DEF RefreshSend, Ticket
  <2>2. Round("asked", state[d].ticket.card) \in Rounds
        /\ Round("asked", state[d].ticket.card).old \in Cards
    BY <2>1, FreshRounds
  <2> QED
    BY <1>1, <2>2, RoundReplaced DEF RefreshSend
<1>2. CASE RefreshLookup(d)
  <2>1. me.old \in Cards
    BY <1>2 DEF RefreshLookup, Typed, AsksForCard
  <2>2. act[me.old][d] \in Row
    BY <1>0, <2>1 DEF Rows
  <2>3. Read(me.old, act[me.old][d].exp) \in Ticket
    BY <2>1, <2>2, ReadIsTicket DEF Row
  <2>4. PICK r \in AskedNot : ref' = [ref EXCEPT ![d] = r]
    <3>1. [me EXCEPT !.pc = "answered", !.answer = "error"] \in AskedNot
      BY <1>0 DEF Rounds, Answers
    <3>2. [me EXCEPT !.pc = "looked", !.st = act[me.old][d].st,
                     !.row = Read(me.old, act[me.old][d].exp)] \in AskedNot
      BY <1>0, <2>2, <2>3 DEF Rounds, Row
    <3> QED
      BY <1>2, <3>1, <3>2 DEF RefreshLookup, Answer
  <2> QED
    BY <2>4, RoundReplaced
<1>3. CASE RefreshChoose(d)
  <2>1. ASSUME NEW f \in Latest(d)
        PROVE  Read(f, act[f][d].exp) \in Ticket
    BY <1>0, <2>1, LatestAreCards, ReadIsTicket DEF Row, Rows
  <2>2. PICK r \in AskedNot : ref' = [ref EXCEPT ![d] = r]
    <3>1. [me EXCEPT !.pc = "answered", !.answer = "blocked"] \in AskedNot
      BY <1>0 DEF Rounds, Answers
    <3>2. [me EXCEPT !.pc = "chosen"] \in AskedNot
      BY <1>0 DEF Rounds
    <3>3. ASSUME NEW f \in Latest(d)
          PROVE  [me EXCEPT !.pc = "chosen", !.row = Read(f, act[f][d].exp)] \in AskedNot
      BY <1>0, <2>1, <3>3 DEF Rounds
    <3> QED
      BY <1>3, <3>1, <3>2, <3>3 DEF RefreshChoose, Answer
  <2> QED
    BY <2>2, RoundReplaced
<1>4. CASE RefreshSign(d)
  <2>1. Sign(me.row.card, me.row.exp) \in Ticket
    BY <1>0, SignedIsTicket DEF Ticket, Typed
  <2>2. PICK r \in AskedNot : ref' = [ref EXCEPT ![d] = r]
    <3>1. [me EXCEPT !.pc = "answered", !.answer = "error"] \in AskedNot
      BY <1>0 DEF Rounds, Answers
    <3>2. [me EXCEPT !.pc = "answered", !.answer = "ticket",
                     !.row = Sign(me.row.card, me.row.exp)] \in AskedNot
      BY <1>0, <2>1 DEF Rounds, Answers
    <3> QED
      BY <1>4, <3>1, <3>2 DEF RefreshSign, Answer
  <2> QED
    BY <2>2, RoundReplaced
<1>5. CASE RefreshSave(d)
  BY <1>5, FreshRounds, RoundReplaced DEF RefreshSave, Idle
<1>6. CASE RefreshStatus(d)
  <2>1. [me EXCEPT !.pc = "apply", !.seen = Licensed(d)] \in Rounds
    BY <1>0, LicensedIsTruth DEF Rounds
  <2>2. [me EXCEPT !.pc = "apply", !.seen = Licensed(d)].pc # "asked"
    BY <1>0 DEF Rounds
  <2> QED
    BY <1>6, <2>1, <2>2, RoundReplaced DEF RefreshStatus
<1>7. CASE RefreshApply(d)
  BY <1>7, FreshRounds, RoundReplaced DEF RefreshApply, Idle
<1> QED
  BY <1>1, <1>2, <1>3, <1>4, <1>5, <1>6, <1>7 DEF Refresh, RefreshRound

Stored  == [ticket : Ticket, off : BOOLEAN]
Redeems == [pc : {"idle", "answered", "saved"}, ticket : Ticket]

LEMMA StateStaysTyped ==
  ASSUME Typed, NEW d \in Apps,
         Refresh(d) \/ Redeem(d) \/ RefreshLost(d) \/ Restart(d)
           \/ \E c \in Cards : RedeemServe(d, c)
  PROVE  /\ state' \in [Apps -> Stored]
         /\ redeem' \in [Apps -> Redeems]
<1>1. /\ state \in [Apps -> Stored] 
      /\ redeem \in [Apps -> Redeems] /\ ref[d].row \in Ticket
  BY DEF Typed, TypeOK, Stored, Redeems
<1>2. redeem[d].ticket \in Ticket
  BY <1>1 DEF Redeems
<1>3. /\ \A t \in Ticket : [ticket |-> t, off |-> FALSE] \in Stored
      /\ [state[d] EXCEPT !.off = TRUE] \in Stored
  BY <1>1 DEF Stored
<1>4. /\ NoRedeem \in Redeems /\ [pc |-> "saved", ticket |-> NoTicket] \in Redeems
      /\ \A t \in Ticket : [pc |-> "answered", ticket |-> t] \in Redeems
  BY BlankTicket DEF NoRedeem, Redeems
<1>5. CASE RefreshSave(d)
  <2>1. state' \in [Apps -> Stored]
    <3>1. [ticket |-> ref[d].row, off |-> FALSE] \in Stored
      BY <1>1, <1>3
    <3>2. \/ state' = [state EXCEPT ![d] = [ticket |-> ref[d].row, off |-> FALSE]]
          \/ state' = [state EXCEPT ![d] = [state[d] EXCEPT !.off = TRUE]]
          \/ state' = state
      BY <1>5 DEF RefreshSave
    <3> QED
      BY <1>1, <1>3, <3>1, <3>2
  <2> QED
    BY <1>1, <1>5, <2>1 DEF RefreshSave
<1>6. CASE RedeemSave(d)
  BY <1>1, <1>2, <1>3, <1>4, <1>6 DEF RedeemSave
<1>7. CASE RefreshApply(d) \/ RedeemStart(d)
  BY <1>1, <1>4, <1>7 DEF RefreshApply, RedeemStart
<1>8. CASE Restart(d)
  BY <1>1, <1>4, <1>8 DEF Restart
<1>9. CASE UNCHANGED <<state, redeem>>
  BY <1>1, <1>9
<1>10. ASSUME NEW c \in Cards, RedeemServe(d, c)
       PROVE  UNCHANGED state /\ redeem' \in [Apps -> Redeems]
  <2>1. act'[c][d] \in Row
    BY <1>10, ActivatedIsActive, LicenceAssumption DEF RedeemServe, Typed, TypeOK
  <2>2. Sign(c, act'[c][d].exp) \in Ticket
    BY <2>1, SignedIsTicket DEF Row, Typed
  <2> QED
    BY <1>1, <1>4, <1>10, <2>2 DEF RedeemServe
<1> QED
  BY <1>1, <1>5, <1>6, <1>7, <1>8, <1>9, <1>10 DEF Refresh, RefreshRound, Redeem, RefreshSend,
     RefreshLookup, RefreshChoose, RefreshSign, RefreshStatus, RefreshLost

LEMMA RoundsStayTyped ==
  ASSUME Typed, NEW d \in Apps,
         Redeem(d) \/ RefreshLost(d) \/ Restart(d) \/ \E c \in Cards : RedeemServe(d, c)
  PROVE  ref' \in [Apps -> Rounds] /\ AsksForCard'
<1>1. CASE RefreshLost(d) \/ Restart(d)
  BY <1>1, FreshRounds, RoundReplaced DEF RefreshLost, Restart, Idle
<1>2. CASE UNCHANGED ref
  BY <1>2 DEF Typed, TypeOK, AsksForCard, Rounds
<1> QED
  BY <1>1, <1>2 DEF Redeem, RedeemSave, RedeemStart, RedeemServe

LEMMA ClientStepsTyped ==
  ASSUME Typed, NEW d \in Apps,
         Refresh(d) \/ Redeem(d) \/ RefreshLost(d) \/ Restart(d)
           \/ \E c \in Cards : RedeemServe(d, c)
  PROVE  ClientTyped' /\ AsksForCard'
BY StateStaysTyped, RefreshTyped, RoundsStayTyped DEF ClientTyped, Rounds, Stored, Redeems

LEMMA ServerStaysTyped ==
  ASSUME TypeOK, Next
  PROVE  ServerTyped'
<1> USE LicenceAssumption DEF TypeOK, ServerTyped, serverVars, clientVars, Edit
<1>1. ASSUME NEW d \in Apps, Refresh(d) \/ Redeem(d) \/ RefreshLost(d) \/ Restart(d)
      PROVE  ServerTyped'
  <2>1. UNCHANGED <<now, card, edits>> /\ (faults' = faults \/ (faults < MaxFaults
                                                              /\ faults' = faults + 1))
    BY <1>1 DEF Refresh, RefreshRound, Redeem, RefreshLost, Restart, RefreshSend, RefreshLookup,
       RefreshChoose, RefreshSign, RefreshSave, RefreshStatus, RefreshApply, RedeemSave,
       RedeemStart
  <2> QED
    BY <2>1
<1>2. ASSUME NEW c \in Cards, NEW d \in Apps, RedeemServe(d, c) PROVE ServerTyped'
  BY <1>2 DEF RedeemServe
<1>3. ASSUME NEW c \in Cards, DisableCard(c) \/ DeleteCard(c) PROVE ServerTyped'
  BY <1>3 DEF DisableCard, DeleteCard
<1>4. ASSUME NEW c \in Cards, NEW d \in Devices,
             ActivateElsewhere(c, d) \/ DisableActivation(c, d)
      PROVE  ServerTyped'
  BY <1>4 DEF ActivateElsewhere, DisableActivation
<1>5. ASSUME NEW d \in Devices, NEW e \in 0..MaxNow, SetDeviceExpiry(d, e)
      PROVE  ServerTyped'
  BY <1>5 DEF SetDeviceExpiry
<1>6. Tick => ServerTyped'
  BY DEF Tick
<1> QED
  BY <1>1, <1>2, <1>3, <1>4, <1>5, <1>6, NextParts

LEMMA NextTyped ==
  ASSUME Typed, Next
  PROVE  Typed'
<1> USE DEF Typed
<1>1. ASSUME NEW d \in Apps,
             Refresh(d) \/ Redeem(d) \/ RefreshLost(d) \/ Restart(d)
               \/ \E c \in Cards : RedeemServe(d, c)
      PROVE  ClientTyped' /\ AsksForCard'
  BY <1>1, ClientStepsTyped
<1>2. UNCHANGED clientVars => ClientTyped' /\ AsksForCard'
  BY TypeParts DEF clientVars, ClientTyped, AsksForCard
<1>3. ASSUME NEW c \in Cards, DisableCard(c) \/ DeleteCard(c)
      PROVE  UNCHANGED clientVars
  BY <1>3 DEF DisableCard, DeleteCard
<1>4. ASSUME NEW c \in Cards, NEW d \in Devices,
             ActivateElsewhere(c, d) \/ DisableActivation(c, d)
      PROVE  UNCHANGED clientVars
  BY <1>4 DEF ActivateElsewhere, DisableActivation
<1>5. ASSUME NEW d \in Devices, NEW e \in 0..MaxNow, SetDeviceExpiry(d, e)
      PROVE  UNCHANGED clientVars
  BY <1>5 DEF SetDeviceExpiry
<1>6. Tick => UNCHANGED clientVars
  BY DEF Tick
<1>7. ClientTyped' /\ AsksForCard'
  BY <1>1, <1>2, <1>3, <1>4, <1>5, <1>6, NextParts
<1>8. TypeOK'
  BY <1>7, StepOfTheStore, ServerStaysTyped DEF TypeOK, Rows, ClientTyped, ServerTyped
<1> QED
  BY <1>7, <1>8

-----------------------------------------------------------------------------
(* The theorems                                                            *)

LEMMA InitHolds == Init => IInv
<1> SUFFICES ASSUME Init PROVE IInv
  OBVIOUS
<1> USE LicenceAssumption DEF Init
<1>1. TypeOK
  <2>1. Idle \in Rounds
    BY FreshRounds DEF Idle
  <2> QED
    BY <2>1, BlankTicket DEF TypeOK, Rounds, NoRow, Row, NoState, NoRedeem
<1>2. AsksForCard
  BY FreshRounds DEF AsksForCard, Idle
<1>3. ASSUME NEW c \in Cards PROVE Cardinality(ActiveOn(c)) = 0
  BY FS_EmptySet DEF ActiveOn, NoRow
<1> QED
  BY <1>1, <1>2, <1>3 DEF IInv, Typed, Slots

LEMMA NextHolds == IInv /\ [Next]_vars => IInv'
<1> SUFFICES ASSUME IInv, [Next]_vars PROVE IInv'
  OBVIOUS
<1>1. CASE Next
  BY <1>1, NextTyped, SlotsStay DEF IInv, Typed
<1>2. CASE UNCHANGED vars
  BY <1>2 DEF IInv, Typed, TypeOK, AsksForCard, Slots, ActiveOn, vars, serverVars, clientVars
<1> QED
  BY <1>1, <1>2

LEMMA Invariant == Spec => []IInv
BY InitHolds, NextHolds, PTL DEF Spec

\* ActivateCard counts a card's active activations in the transaction that adds
\* one, and whatever ends a card ends all of them: whoever redeems it when, a
\* card never serves more devices than it has slots, and none once it is off.
THEOREM SlotsAlwaysRespected == Spec => []SlotsRespected
<1>1. IInv => SlotsRespected
  BY DEF IInv, Typed, SlotsRespected, Slots
<1> QED
  BY <1>1, Invariant, PTL

\* ActivateCard refuses a device whose row on the card is disabled, and nobody
\* else makes a row active.
THEOREM OnceBlockedStaysBlocked == Spec => BlockedForGood
<1>1. ASSUME IInv, Next, NEW c \in Cards, NEW d \in Devices, act[c][d].st = "disabled"
      PROVE  act'[c][d].st # "active"
  <2>1. CASE OnlyEnds
    BY <1>1, <2>1 DEF OnlyEnds
  <2>2. ASSUME NEW k \in Cards, NEW v \in Devices, Grants(k, v)
        PROVE  act'[c][d].st # "active"
    <3>1. act[k][v].st # "disabled"
      BY <2>2 DEF Grants, Accepts
    <3> QED
      BY <1>1, <2>2, <3>1 DEF Grants, IInv, Typed, TypeOK
  <2> QED
    BY <1>1, <2>1, <2>2, StepOfTheStore DEF IInv, Typed
<1>2. IInv /\ [Next]_vars =>
        [\A c \in Cards, d \in Devices :
           act[c][d].st = "disabled" => act'[c][d].st # "active"]_vars
  BY <1>1
<1> QED
  BY <1>2, Invariant, PTL DEF Spec, BlockedForGood

=============================================================================
