----------------------------- MODULE MCLicence ------------------------------
(***************************************************************************)
(* The licence, checked by one run in two scenes, each with the instance   *)
(* it needs: several cards and installations, with a proxy nobody speaks   *)
(* to; and the proxy, with one card and one installation.  A behaviour     *)
(* picks a scene and stays in it.                                          *)
(***************************************************************************)
EXTENDS LicensedProxy

CONSTANT OneCard  \* the card of the second scene

VARIABLE scene

mcVars == <<scene, proxyVars>>

MCInit ==
  /\ scene \in {"cards", "proxy"}
  /\ Init
  /\ proxy = [d \in Apps |-> IF scene = "proxy" THEN NoProxy
                             ELSE [NoProxy EXCEPT !.booting = FALSE, !.server = "dead"]]

\* Only the card and the installations of the scene.
Alone ==
  scene = "proxy" =>
    /\ \A c \in Cards \ {OneCard} : card'[c] = card[c] /\ act'[c] = act[c]
    /\ \A d \in Devices \ Apps : act'[OneCard][d] = act[OneCard][d]

MCNext ==
  /\ UNCHANGED scene
  /\ IF scene = "proxy" THEN LicensedNext /\ Alone ELSE Next /\ UNCHANGED proxy

MCRefresh(d) == IF scene = "proxy" THEN RefreshGoesOn(d)
                ELSE (RefreshRound(d) \/ RefreshApply(d)) /\ UNCHANGED proxy
MCRedeem(d) == IF scene = "proxy" THEN RedeemGoesOn(d)
               ELSE (RedeemSave(d) \/ RedeemStart(d)) /\ UNCHANGED proxy

MCSpec ==
  /\ MCInit /\ [][MCNext]_mcVars
  /\ \A d \in Apps : /\ WF_mcVars(UNCHANGED scene /\ MCRefresh(d))
                     /\ WF_mcVars(UNCHANGED scene /\ MCRedeem(d))
                     /\ WF_mcVars(UNCHANGED scene /\ Startup(d))
                     /\ WF_mcVars(UNCHANGED scene /\ Begin(d))
                     /\ WF_mcVars(UNCHANGED scene /\ StartRuns(d))
=============================================================================
