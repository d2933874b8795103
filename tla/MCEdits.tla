------------------------------ MODULE MCEdits ------------------------------
(***************************************************************************)
(* Two requests that share the current endpoint; edits of the endpoint     *)
(* list; backups and restores: checked by one run.  A behaviour picks a    *)
(* scene and stays in it.                                                  *)
(***************************************************************************)
EXTENDS MCFailover, EndpointList, Backups

VARIABLE scene

mcVars == <<scene, vars, listVars, backupVars>>

\* The other components start in the simplest of their initial states.
MCInit ==
  /\ scene \in {"requests", "list", "backup"}
  /\ scene # "list" => web = TRUE /\ at = 0
  /\ Init /\ ListInit /\ BackupsInit

MCNext ==
  /\ UNCHANGED scene
  /\ IF scene = "requests" THEN Next        ELSE UNCHANGED vars
  /\ IF scene = "list"     THEN ListNext    ELSE UNCHANGED listVars
  /\ IF scene = "backup"   THEN BackupsNext ELSE UNCHANGED backupVars

MCSpec == MCInit /\ [][MCNext]_mcVars
=============================================================================
