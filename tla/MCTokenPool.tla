---------------------------- MODULE MCTokenPool ----------------------------
(***************************************************************************)
(* TokenPool in two settings, chosen at the start: the endpoint keeps its  *)
(* name and everything else may happen, or it is renamed at any time while *)
(* requests refresh their credential; those come as far as their refreshes *)
(* and the authority issues one generation.                                *)
(***************************************************************************)
EXTENDS TokenPool, TLC

VARIABLE renamed
mcVars == <<vars, renamed>>

One == INSTANCE TokenPool WITH MaxMint <- 1

MCInit == renamed \in BOOLEAN /\ Init

MCNext == /\ UNCHANGED renamed
          /\ \/ /\ ~renamed
                /\ \/ \E w \in Workers : RefreshStep(w) \/ RequestStep(w)
                   \/ \E a \in Admins : AdminStep(a)
                   \/ \E c \in Creds : RowStep(c)
             \/ /\ renamed
                /\ \/ \E w \in Workers : \/ One!RefreshStep(w) \/ One!Select(w)
                                         \/ One!ManualRefresh(w) \/ One!RefreshAfter401(w)
                   \/ \E c \in Creds : One!Delete(c) \/ One!TokenAges(c)
                   \/ \E n \in Names : One!RenameEndpoint(n)

MCSpec == MCInit /\ [][MCNext]_mcVars

WorkerSymmetry == Permutations(Workers) \cup Permutations(Names)
=============================================================================
