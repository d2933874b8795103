---------------------------- MODULE TokenLedger ----------------------------
(***************************************************************************)
(* What a token pool promises about the tokens of each credential, whoever *)
(* selects, refreshes, marks or deletes it: a refresh token is exchanged   *)
(* only while it is the stored one, one exchange at a time, and what the   *)
(* authority issues for it is stored next, lost with its answer, or        *)
(* dropped because it could not be stored.  Module TokenPool implements    *)
(* this as long as no editor writes whole rows.                            *)
(***************************************************************************)
EXTENDS Naturals

CONSTANTS
  Creds,
  NoToken  \* a credential without a refresh token

VARIABLES
  stored,   \* stored[c]: the access and the refresh token of the row, a
            \* set of one; empty when the credential is gone
  inHand,   \* inHand[c]: tokens issued and not stored yet, likewise, with the
            \* refresh token they were issued for
  newest,   \* newest[c]: the last generation the authority issued
  spent,    \* spent[c]: refresh tokens that were rotated
  orphaned  \* orphaned[c]: those of them whose successor was lost or dropped

ledgerVars == <<stored, inHand, newest, spent, orphaned>>

LedgerInit ==
  /\ \E t \in [Creds -> {0, NoToken}] :
       stored = [c \in Creds |-> {[access |-> 0, refresh |-> t[c]]}]
  /\ inHand = [c \in Creds |-> {}]
  /\ newest = [c \in Creds |-> 0]
  /\ spent = [c \in Creds |-> {}]
  /\ orphaned = [c \in Creds |-> {}]

\* The refresh tokens that may be exchanged: the stored one while it lives.  A
\* request may still hold a live one of a credential that is gone.
Exchangeable(c) ==
  {t \in (0 .. newest[c]) \ spent[c] : \A s \in stored[c] : t = s.refresh}

\* The authority issues the next generation, and rotates the refresh token or
\* lets the caller keep it.
Exchange(c) ==
  /\ inHand[c] = {}
  /\ newest' = [newest EXCEPT ![c] = @ + 1]
  /\ \E t \in Exchangeable(c), rotates \in BOOLEAN :
       /\ inHand' = [inHand EXCEPT ![c] =
            {[access |-> newest[c] + 1, of |-> t,
              refresh |-> IF rotates THEN newest[c] + 1 ELSE t]}]
       /\ spent' = IF rotates THEN [spent EXCEPT ![c] = @ \cup {t}] ELSE spent
  /\ UNCHANGED <<stored, orphaned>>

\* The same, and the answer is lost.
Lose(c) ==
  /\ inHand[c] = {}
  /\ newest' = [newest EXCEPT ![c] = @ + 1]
  /\ \E t \in Exchangeable(c) :
       /\ spent' = [spent EXCEPT ![c] = @ \cup {t}]
       /\ orphaned' = [orphaned EXCEPT ![c] = @ \cup {t}]
  /\ UNCHANGED <<stored, inHand>>

\* What is stored replaces the tokens it was issued for; a credential that is
\* gone stays gone.
Store(c) ==
  /\ inHand[c] # {} /\ stored[c] # {}
  /\ inHand' = [inHand EXCEPT ![c] = {}]
  /\ \E h \in inHand[c] :
       /\ \A s \in stored[c] : s.refresh = h.of
       /\ stored' = [stored EXCEPT ![c] = {[access |-> h.access, refresh |-> h.refresh]}]
  /\ UNCHANGED <<newest, spent, orphaned>>

\* The tokens could not be stored.
Drop(c) ==
  /\ inHand[c] # {}
  /\ inHand' = [inHand EXCEPT ![c] = {}]
  /\ \E h \in inHand[c] :
       orphaned' = [orphaned EXCEPT ![c] = @ \cup ({h.of} \cap spent[c])]
  /\ UNCHANGED <<stored, newest, spent>>

Remove(c) ==
  /\ stored[c] # {}
  /\ stored' = [stored EXCEPT ![c] = {}]
  /\ UNCHANGED <<inHand, newest, spent, orphaned>>

LedgerNext ==
  \E c \in Creds : Exchange(c) \/ Lose(c) \/ Store(c) \/ Drop(c) \/ Remove(c)

LedgerSpec == LedgerInit /\ [][LedgerNext]_ledgerVars
=============================================================================
