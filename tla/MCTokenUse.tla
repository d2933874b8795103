----------------------------- MODULE MCTokenUse -----------------------------
(***************************************************************************)
(* TokenPool in two more settings, chosen at the start: one request beside *)
(* an editor, and two requests that refresh one credential under fairness. *)
(***************************************************************************)
EXTENDS TokenPool

CONSTANTS Pair  \* the requests of the second setting

VARIABLE setting
mcVars == <<vars, setting>>

P == INSTANCE TokenPool WITH Workers <- Pair, Admins <- {}, MaxMint <- 1

Paired == setting = "pair"

MCInit == \/ setting = "editor" /\ Init
          \/ setting = "pair" /\ P!Init

\* The pair's requests come as far as their refreshes; their ends are looked at
\* in the other setting.
MCNext == /\ UNCHANGED setting
          /\ \/ ~Paired /\ Next
             \/ Paired /\ \E w \in Pair : \/ P!RefreshStep(w) \/ P!Select(w)
                                        \/ P!ManualRefresh(w) \/ P!RefreshAfter401(w)
             \/ Paired /\ \E c \in Creds : P!Delete(c) \/ P!TokenAges(c)

MCFairness == \A w \in Pair : WF_mcVars(Paired /\ P!RefreshStep(w) /\ UNCHANGED setting)

MCSpec == MCInit /\ [][MCNext]_mcVars /\ MCFairness

\* Whoever joins a refresh gets its result, also when the exchange fails or the
\* credential is deleted meanwhile: <-call.done does not block forever
\* (refreshCredentialOnce).
PairReleased ==
  \A w \in Pair : (Paired /\ pc[w] = "join") ~> (Paired /\ pc[w] = "returned")
=============================================================================
