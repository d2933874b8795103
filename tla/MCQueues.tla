------------------------------ MODULE MCQueues ------------------------------
(***************************************************************************)
(* Components that go on by themselves, checked by one run under their     *)
(* fairness: uploads of error counts, device logins, analysis jobs; and    *)
(* the quotas, of which nothing has to happen.  A behaviour picks a scene  *)
(* and stays in it; the other components keep their initial values, in     *)
(* which none of their fair actions is enabled.  The properties are the    *)
(* components' own.                                                        *)
(***************************************************************************)
EXTENDS ErrorTelemetry, DeviceLogin, AIJobs, CodexQuota

VARIABLE scene

mcVars == <<scene, vars, loginVars, aiVars, quotaVars>>

TwoLengths == [primary |-> 1, secondary |-> 2]

MCInit == /\ scene \in {"telemetry", "login", "ai", "quota"}
          /\ scene # "quota" => known = WithoutRows
          /\ Init /\ LoginInit /\ JobsInit /\ QuotaInit

MCNext ==
  /\ UNCHANGED scene
  /\ IF scene = "telemetry" THEN Next      ELSE UNCHANGED vars
  /\ IF scene = "login"     THEN LoginNext ELSE UNCHANGED loginVars
  /\ IF scene = "ai"        THEN JobsNext  ELSE UNCHANGED aiVars
  /\ IF scene = "quota"     THEN QuotaNext ELSE UNCHANGED quotaVars

MCSpec == /\ MCInit /\ [][MCNext]_mcVars
          /\ Fairness /\ LoginFairness /\ JobsFairness
=============================================================================
