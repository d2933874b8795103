------------------------------- MODULE Licence -------------------------------
(***************************************************************************)
(* The online licence: the cards and activations of the licence server     *)
(* (internal/onlinelicense/store.go, service.go) and the desktop           *)
(* application that activates a card, keeps the signed ticket and          *)
(* refreshes it in the background (client_license.go, cmd/desktop/app.go). *)
(* Module LicensedProxy adds the proxy that is started and stopped by it.  *)
(*                                                                         *)
(* A server transaction is one step.  A refresh is not one transaction:    *)
(* the handler reads the activation, then the card and a fallback, then    *)
(* signs what it read first.  The application has two goroutines per       *)
(* device: refreshLicenseFromServer, serialised by licenseRefreshMu, and   *)
(* ActivateLicense, which does not take that mutex.                        *)
(*                                                                         *)
(* Time is a clock in arbitrary units, the same for server and client.     *)
(***************************************************************************)
EXTENDS Integers, FiniteSets

CONSTANTS
  Cards,       \* card ids
  Devices,     \* device ids
  Apps,        \* the devices whose application is modelled
  MaxDevices,  \* license_cards.max_devices, the same for every card
  Days,        \* license_cards.days, the same for every card
  Grace,       \* offlineGracePeriod
  MaxNow,      \* bound: the clock stops here
  MaxFaults,   \* bound: lost answers and restarts of the application
  MaxEdits,    \* bound: changes an administrator makes
  None         \* no card

ASSUME LicenceAssumption ==
  /\ IsFiniteSet(Devices) /\ Apps \subseteq Devices
  /\ MaxDevices \in Nat \ {0}
  /\ Days \in Nat \ {0} /\ Grace \in Nat
  /\ MaxNow \in Nat /\ MaxFaults \in Nat /\ MaxEdits \in Nat
  /\ None \notin Cards

VARIABLES
  now,     \* the clock
  card,    \* card[c]: status column, or "deleted"
  act,     \* act[c][d]: the activation row of (card_id, device_id)
  state,   \* state[d]: the ClientState the application keeps
  ref,     \* ref[d]: the refresh in progress
  redeem,  \* redeem[d]: the activation in progress
  faults,  \* how many faults happened
  edits    \* how many administrative changes were made

serverVars == <<card, act>>
clientVars == <<state, ref, redeem>>
vars == <<now, serverVars, clientVars, faults, edits>>

NoRow   == [st |-> "none", exp |-> 0]
Row     == [st : {"none", "active", "disabled"}, exp : Int]
Ticket  == [card : Cards \cup {None}, exp : Int, grace : Int]
\* What a refresh has read of an activation, not signed yet.
Read(c, e) == [card |-> c, exp |-> e, grace |-> 0]
NoTicket == Read(None, 0)

\* The stored ticket, and whether the stored status is "disabled".
NoState == [ticket |-> NoTicket, off |-> FALSE]

Answers == {"none", "ticket", "blocked", "error"}
Round(pc, c) == [pc |-> pc, old |-> c, row |-> NoTicket, st |-> "none",
                 answer |-> "none", seen |-> FALSE]
Idle     == Round("idle", None)
NoRedeem == [pc |-> "idle", ticket |-> NoTicket]

-----------------------------------------------------------------------------
(* The store                                                               *)

ActiveOn(c) == {d \in Devices : act[c][d].st = "active"}
ActiveOf(d) == {c \in Cards : act[c][d].st = "active"}

\* LatestActivationForDevice: ORDER BY expires_at DESC LIMIT 1.
Latest(d) == {c \in ActiveOf(d) :
                \A o \in ActiveOf(d) : act[o][d].exp <= act[c][d].exp}

\* Mutant: the device limit is off by one.
AcceptsOneMore(c, d) ==
  /\ card[c] = "active"
  /\ \/ act[c][d].st = "active"
     \/ act[c][d].st = "none" /\ Cardinality(ActiveOn(c)) <= MaxDevices

\* Mutant: a disabled activation is activated again.
AcceptsDisabled(c, d) ==
  /\ card[c] = "active"
  /\ \/ act[c][d].st = "active"
     \/ act[c][d].st # "active" /\ Cardinality(ActiveOn(c)) < MaxDevices

\* ActivateCard takes the card: not ErrCardDisabled, ErrActivationBlocked or
\* ErrDeviceLimit.
Accepts(c, d) ==
  /\ card[c] = "active"
  /\ \/ act[c][d].st = "active"
     \/ act[c][d].st = "none" /\ Cardinality(ActiveOn(c)) < MaxDevices

\* A running licence is extended from its end, an expired one from now.
ExtendFrom(d) ==
  IF \E c \in Latest(d) : act[c][d].exp > now
  THEN act[CHOOSE c \in Latest(d) : TRUE][d].exp
  ELSE now

\* A card the device already holds is only touched.
Activated(c, d) ==
  IF act[c][d].st = "active" THEN act[c][d]
  ELSE [st |-> "active", exp |-> ExtendFrom(d) + Days]

CapAt(e) == IF e > now THEN now ELSE e
Disabled(r) == [st |-> "disabled", exp |-> CapAt(r.exp)]

\* signTicket
Sign(c, e) == [card |-> c, exp |-> e, grace |-> now + Grace]

-----------------------------------------------------------------------------
(* The application's view                                                  *)

\* Status: the stored status first, then the ticket against the clock.
LicensedBy(s) == /\ ~s.off /\ s.ticket.card # None
                 /\ now <= s.ticket.grace /\ now <= s.ticket.exp
Licensed(d) == LicensedBy(state[d])

-----------------------------------------------------------------------------
Init ==
  /\ now = 0
  /\ card = [c \in Cards |-> "active"]
  /\ act = [c \in Cards |-> [d \in Devices |-> NoRow]]
  /\ state = [d \in Apps |-> NoState]
  /\ ref = [d \in Apps |-> Idle]
  /\ redeem = [d \in Apps |-> NoRedeem]
  /\ faults = 0 /\ edits = 0

(* Activation *)

\* Activate, up to the server's answer: the transaction and the signature of
\* Service.Activate.  The answer may be lost although the transaction has been
\* committed; a refusal changes nothing.
RedeemServe(d, c) ==
  /\ redeem[d].pc = "idle"
  /\ Accepts(c, d)
  /\ act' = [act EXCEPT ![c][d] = Activated(c, d)]
  /\ \/ /\ redeem' = [redeem EXCEPT ![d] =
                         [pc |-> "answered", ticket |-> Sign(c, act'[c][d].exp)]]
        /\ UNCHANGED faults
     \/ /\ faults < MaxFaults /\ faults' = faults + 1
        /\ UNCHANGED redeem
  /\ UNCHANGED <<now, card, state, ref, edits>>

RedeemSave(d) ==
  /\ redeem[d].pc = "answered"
  /\ state' = [state EXCEPT ![d] = [ticket |-> redeem[d].ticket, off |-> FALSE]]
  /\ redeem' = [redeem EXCEPT ![d] = [pc |-> "saved", ticket |-> NoTicket]]
  /\ UNCHANGED <<now, serverVars, ref, faults, edits>>

\* ActivateLicense goes on to startProxyIfLicensed.
RedeemStart(d) ==
  /\ redeem[d].pc = "saved"
  /\ redeem' = [redeem EXCEPT ![d] = NoRedeem]
  /\ UNCHANGED <<now, serverVars, state, ref, faults, edits>>

\* Another installation activates the card.
ActivateElsewhere(c, d) ==
  /\ d \notin Apps
  /\ Accepts(c, d)
  /\ act' = [act EXCEPT ![c][d] = Activated(c, d)]
  /\ UNCHANGED <<now, card, clientVars, faults, edits>>

(* Refresh *)

RefreshSend(d) ==
  /\ ref[d].pc = "idle"
  /\ state[d].ticket.card # None
  /\ ref' = [ref EXCEPT ![d] = Round("asked", state[d].ticket.card)]
  /\ UNCHANGED <<now, serverVars, state, redeem, faults, edits>>

Answer(d, a) == ref' = [ref EXCEPT ![d] = [@ EXCEPT !.pc = "answered", !.answer = a]]

\* GetActivation
RefreshLookup(d) ==
  LET c == ref[d].old IN
  /\ ref[d].pc = "asked"
  /\ IF act[c][d].st = "none"
     THEN Answer(d, "error")
     ELSE ref' = [ref EXCEPT ![d] = [@ EXCEPT !.pc = "looked", !.st = act[c][d].st,
                                              !.row = Read(c, act[c][d].exp)]]
  /\ UNCHANGED <<now, serverVars, state, redeem, faults, edits>>

\* Mutant: the handler goes on with whatever activation the ticket names.
ChooseAny(d) ==
  /\ ref[d].pc = "looked"
  /\ ref' = [ref EXCEPT ![d].pc = "chosen"]
  /\ UNCHANGED <<now, serverVars, state, redeem, faults, edits>>

\* Mutant: no fallback to another activation of the device.
ChooseOwn(d) ==
  /\ ref[d].pc = "looked"
  /\ IF ref[d].st = "active" /\ card[ref[d].row.card] = "active"
     THEN ref' = [ref EXCEPT ![d].pc = "chosen"]
     ELSE Answer(d, "blocked")
  /\ UNCHANGED <<now, serverVars, state, redeem, faults, edits>>

\* GetCard, and LatestActivationForDevice with its card when the activation or
\* the card is no longer active.
RefreshChoose(d) ==
  /\ ref[d].pc = "looked"
  /\ \/ /\ ref[d].st = "active" /\ card[ref[d].row.card] = "active"
        /\ ref' = [ref EXCEPT ![d].pc = "chosen"]
     \/ /\ ~(ref[d].st = "active" /\ card[ref[d].row.card] = "active")
        /\ \/ \E f \in Latest(d) :
                IF card[f] = "active"
                THEN ref' = [ref EXCEPT ![d] = [@ EXCEPT !.pc = "chosen",
                                                         !.row = Read(f, act[f][d].exp)]]
                ELSE Answer(d, "blocked")
           \/ Latest(d) = {} /\ Answer(d, "blocked")
  /\ UNCHANGED <<now, serverVars, state, redeem, faults, edits>>

\* TouchActivation and resultFor: the ticket says what was read before.
RefreshSign(d) ==
  /\ ref[d].pc = "chosen"
  /\ IF card[ref[d].row.card] = "deleted"
     THEN Answer(d, "error")
     ELSE ref' = [ref EXCEPT ![d] = [@ EXCEPT !.pc = "answered", !.answer = "ticket",
                                              !.row = Sign(ref[d].row.card, ref[d].row.exp)]]
  /\ UNCHANGED <<now, serverVars, state, redeem, faults, edits>>

\* No answer within the client's timeout: an error like any other.
RefreshLost(d) ==
  /\ ref[d].pc \in {"asked", "looked", "chosen", "answered"}
  /\ faults < MaxFaults /\ faults' = faults + 1
  /\ ref' = [ref EXCEPT ![d] = Idle]
  /\ UNCHANGED <<now, serverVars, state, redeem, edits>>

\* Mutant: a refused refresh leaves the stored state alone.
SaveTicketOnly(d) ==
  /\ ref[d].pc = "answered"
  /\ IF ref[d].answer = "ticket"
     THEN /\ state' = [state EXCEPT ![d] = [ticket |-> ref[d].row, off |-> FALSE]]
          /\ ref' = [ref EXCEPT ![d] = Round("saved", None)]
     ELSE ref' = [ref EXCEPT ![d] = Idle] /\ UNCHANGED state
  /\ UNCHANGED <<now, serverVars, redeem, faults, edits>>

\* Refresh, after postJSON: a new ticket is stored; ErrActivationBlocked and
\* ErrCardDisabled are stored as a disabled status beside the stored ticket;
\* any other error ends the round before applyLicenseStatus.
RefreshSave(d) ==
  /\ ref[d].pc = "answered"
  /\ \/ /\ ref[d].answer = "ticket"
        /\ state' = [state EXCEPT ![d] = [ticket |-> ref[d].row, off |-> FALSE]]
        /\ ref' = [ref EXCEPT ![d] = Round("saved", None)]
     \/ /\ ref[d].answer = "blocked"
        /\ state' = [state EXCEPT ![d].off = TRUE]
        /\ ref' = [ref EXCEPT ![d] = Round("saved", None)]
     \/ /\ ref[d].answer = "error"
        /\ ref' = [ref EXCEPT ![d] = Idle] /\ UNCHANGED state
  /\ UNCHANGED <<now, serverVars, redeem, faults, edits>>

RefreshStatus(d) ==
  /\ ref[d].pc = "saved"
  /\ ref' = [ref EXCEPT ![d] = [@ EXCEPT !.pc = "apply", !.seen = Licensed(d)]]
  /\ UNCHANGED <<now, serverVars, state, redeem, faults, edits>>

\* applyLicenseStatus acts on the proxy by the status just seen.
RefreshApply(d) ==
  /\ ref[d].pc = "apply"
  /\ ref' = [ref EXCEPT ![d] = Idle]
  /\ UNCHANGED <<now, serverVars, state, redeem, faults, edits>>

\* The application crashes or is closed, and starts again (startup).
Restart(d) ==
  /\ faults < MaxFaults /\ faults' = faults + 1
  /\ ref' = [ref EXCEPT ![d] = Idle]
  /\ redeem' = [redeem EXCEPT ![d] = NoRedeem]
  /\ UNCHANGED <<now, serverVars, state, edits>>

(* Administration *)

Edit == edits < MaxEdits /\ edits' = edits + 1

\* Mutant: the activations of a disabled card are left as they are.
DisableCardOnly(c) ==
  /\ Edit /\ card[c] # "deleted"
  /\ card' = [card EXCEPT ![c] = "disabled"]
  /\ UNCHANGED <<now, act, clientVars, faults>>

DisableCard(c) ==
  /\ Edit /\ card[c] # "deleted"
  /\ card' = [card EXCEPT ![c] = "disabled"]
  /\ act' = [act EXCEPT ![c] = [d \in Devices |->
               IF @[d].st = "active" THEN Disabled(@[d]) ELSE @[d]]]
  /\ UNCHANGED <<now, clientVars, faults>>

DeleteCard(c) ==
  /\ Edit /\ card[c] # "deleted"
  /\ card' = [card EXCEPT ![c] = "deleted"]
  /\ act' = [act EXCEPT ![c] = [d \in Devices |-> NoRow]]
  /\ UNCHANGED <<now, clientVars, faults>>

DisableActivation(c, d) ==
  /\ Edit /\ act[c][d].st # "none"
  /\ act' = [act EXCEPT ![c][d] = Disabled(@)]
  /\ UNCHANGED <<now, card, clientVars, faults>>

\* SetDeviceExpiry: at or before now it disables every active activation;
\* later, it caps those that run longer and raises the one that runs longest.
SetDeviceExpiry(d, e) ==
  /\ Edit
  /\ \E last \in Latest(d) :
       act' = [c \in Cards |-> [act[c] EXCEPT ![d] =
         IF @.st # "active" THEN @
         ELSE IF e <= now THEN [st |-> "disabled", exp |-> e]
         ELSE IF @.exp > e \/ c = last THEN [@ EXCEPT !.exp = e] ELSE @]]
  /\ UNCHANGED <<now, card, clientVars, faults>>

Tick == /\ now < MaxNow /\ now' = now + 1
        /\ UNCHANGED <<serverVars, clientVars, faults, edits>>

RefreshRound(d) ==
  \/ RefreshSend(d) \/ RefreshLookup(d) \/ RefreshChoose(d) \/ RefreshSign(d)
  \/ RefreshSave(d) \/ RefreshStatus(d)

\* The steps that do not concern the proxy.
Licenses ==
  \/ \E d \in Apps : \/ RefreshRound(d) \/ RefreshLost(d) \/ RedeemSave(d)
                     \/ \E c \in Cards : RedeemServe(d, c)
  \/ \E c \in Cards : DisableCard(c) \/ DeleteCard(c)
  \/ \E c \in Cards, d \in Devices : ActivateElsewhere(c, d) \/ DisableActivation(c, d)
  \/ \E d \in Devices, e \in 0..MaxNow : SetDeviceExpiry(d, e)
  \/ Tick

Next == Licenses \/ \E d \in Apps : RefreshApply(d) \/ RedeemStart(d) \/ Restart(d)

\* runLicenseRefreshLoop starts a refresh every five minutes for as long as the
\* application runs, and a goroutine that can go on does.
Fairness == \A d \in Apps : /\ WF_vars(RefreshRound(d) \/ RefreshApply(d))
                            /\ WF_vars(RedeemSave(d) \/ RedeemStart(d))

Spec == Init /\ [][Next]_vars /\ Fairness

-----------------------------------------------------------------------------
(* Properties                                                              *)

TypeOK ==
  /\ now \in 0..MaxNow /\ faults \in 0..MaxFaults /\ edits \in 0..MaxEdits
  /\ card \in [Cards -> {"active", "disabled", "deleted"}]
  /\ act \in [Cards -> [Devices -> Row]]
  /\ state \in [Apps -> [ticket : Ticket, off : BOOLEAN]]
  /\ ref \in [Apps -> [pc : {"idle", "asked", "looked", "chosen", "answered",
                             "saved", "apply"},
                       old : Cards \cup {None}, row : Ticket,
                       st : {"none", "active", "disabled"},
                       answer : Answers, seen : BOOLEAN]]
  /\ redeem \in [Apps -> [pc : {"idle", "answered", "saved"}, ticket : Ticket]]

\* A card never has more active activations than max_devices, whatever
\* installations redeem it at the same time (ActivateCard), and none once it is
\* disabled or deleted (DisableCard, DeleteCard).
SlotsRespected ==
  /\ TypeOK
  /\ \A c \in Cards :
       Cardinality(ActiveOn(c)) <= IF card[c] = "active" THEN MaxDevices ELSE 0

\* A device the administrator has disabled on a card does not get that card
\* back by redeeming it again (ActivateCard, ErrActivationBlocked).
BlockedForGood ==
  [][\A c \in Cards, d \in Devices :
       act[c][d].st = "disabled" => act'[c][d].st # "active"]_vars

RowKnown(d) == LET c == state[d].ticket.card IN c # None /\ act[c][d].st # "none"

Runs(d) == \E c \in ActiveOf(d) : act[c][d].exp >= now

\* A device all of whose activations are disabled does not stay licensed: the
\* next refreshes store the refusal (disabledResultFromState).  And one whose
\* ticket names a disabled activation does not stay unlicensed while another
\* of its activations still runs (the fallback of Service.Refresh).
RevocationArrives ==
  \A d \in Apps :
    /\ []<>(RowKnown(d) /\ ActiveOf(d) = {} => ~Licensed(d))
    /\ []<>(/\ RowKnown(d) /\ act[state[d].ticket.card][d].st = "disabled"
            /\ Runs(d)
            => Licensed(d))
=============================================================================
