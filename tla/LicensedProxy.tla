---------------------------- MODULE LicensedProxy ----------------------------
(***************************************************************************)
(* The proxy of a desktop application, which runs by the licence of module *)
(* Licence (cmd/desktop/app.go).  Three goroutines call                    *)
(* startProxyIfLicensed - startup, ActivateLicense and the refresh that    *)
(* holds licenseRefreshMu - and no lock holds from its checks to the flag  *)
(* it sets, nor from there to the goroutine that calls proxy.Start.        *)
(***************************************************************************)
EXTENDS Licence

CONSTANT MaxStarting  \* bound: goroutines started that have not run yet

ASSUME ProxyAssumption == MaxStarting \in Nat \ {0}

VARIABLE proxy
  \* proxy[d]: [flag, booting, passed, starting, server]: App.proxyStarted;
  \* whether startup has not called startProxyIfLicensed yet; the callers past
  \* the checks of it; its goroutines that have not called proxy.Start yet; the
  \* server of package proxy

proxyVars == <<vars, proxy>>

Callers == {"startup", "refresh", "redeem"}
NoProxy == [flag |-> FALSE, booting |-> TRUE, passed |-> {}, starting |-> 0,
            server |-> "down"]

LicensedInit == Init /\ proxy = [d \in Apps |-> NoProxy]

-----------------------------------------------------------------------------
(* Starting                                                                *)

\* The checks of startProxyIfLicensed.
Checked(d, caller) ==
  [proxy EXCEPT ![d].passed = IF ~proxy[d].flag /\ Licensed(d)
                              THEN @ \cup {caller} ELSE @]

Startup(d) ==
  /\ proxy[d].booting
  /\ proxy' = [Checked(d, "startup") EXCEPT ![d].booting = FALSE]
  /\ UNCHANGED vars

\* The rest of it.
Begin(d) ==
  /\ proxy[d].starting < MaxStarting
  /\ \E caller \in proxy[d].passed :
       proxy' = [proxy EXCEPT ![d] = [@ EXCEPT !.flag = TRUE, !.passed = @ \ {caller},
                                               !.starting = @ + 1]]
  /\ UNCHANGED vars

Fault == /\ faults < MaxFaults /\ faults' = faults + 1
         /\ UNCHANGED <<now, serverVars, clientVars, edits>>

\* The goroutine calls proxy.Start.  It fails when there is a server nobody has
\* stopped, or when the address is taken: the flag is reset.
StartRuns(d) ==
  /\ proxy[d].starting > 0
  /\ \/ /\ proxy[d].server = "down" /\ UNCHANGED vars
        /\ proxy' = [proxy EXCEPT ![d].starting = @ - 1, ![d].server = "up"]
     \/ /\ \/ proxy[d].server # "down" /\ UNCHANGED vars
           \/ proxy[d].server = "down" /\ Fault
        /\ proxy' = [proxy EXCEPT ![d].starting = @ - 1, ![d].flag = FALSE]

\* Accepting connections fails for good: Start returns the error, and the
\* server, which serves no more, still counts as started.
ServerFails(d) ==
  /\ proxy[d].server = "up" /\ Fault
  /\ proxy' = [proxy EXCEPT ![d].flag = FALSE, ![d].server = "dead"]

-----------------------------------------------------------------------------
(* What the licence does to the proxy                                      *)

\* applyLicenseStatus without a licence: Stop closes a server that is there,
\* and says nothing of one that is not there yet.
Stopped(d) == IF proxy[d].flag
              THEN [proxy EXCEPT ![d].flag = FALSE, ![d].server = "down"]
              ELSE proxy

\* Mutant: an unlicensed proxy is left running.
StartOnly(d) ==
  /\ RefreshApply(d)
  /\ proxy' = IF ref[d].seen THEN Checked(d, "refresh") ELSE proxy

\* applyLicenseStatus
ApplyStatus(d) ==
  /\ RefreshApply(d)
  /\ proxy' = IF ref[d].seen THEN Checked(d, "refresh") ELSE Stopped(d)

\* ActivateLicense
StartRedeemed(d) == RedeemStart(d) /\ proxy' = Checked(d, "redeem")

\* The process ends, and startup begins anew.
Reboot(d) == Restart(d) /\ proxy' = [proxy EXCEPT ![d] = NoProxy]

\* A goroutine that is past the checks goes on with nothing else.
Busy(d, caller) == caller \in proxy[d].passed

LicenceGoesOn ==
  /\ Licenses /\ UNCHANGED proxy
  /\ \A d \in Apps : /\ Busy(d, "refresh") => ref'[d] = ref[d]
                     /\ Busy(d, "redeem") => redeem'[d] = redeem[d]

LicensedNext ==
  \/ LicenceGoesOn
  \/ \E d \in Apps : \/ Startup(d) \/ Begin(d) \/ StartRuns(d) \/ ServerFails(d)
                     \/ ApplyStatus(d) \/ StartRedeemed(d) \/ Reboot(d)

\* A refresh every five minutes, and a goroutine that can go on does.
RefreshGoesOn(d) ==
  \/ RefreshRound(d) /\ ~Busy(d, "refresh") /\ UNCHANGED proxy
  \/ ApplyStatus(d)
RedeemGoesOn(d) ==
  \/ RedeemSave(d) /\ UNCHANGED proxy
  \/ StartRedeemed(d)

LicensedSpec ==
  /\ LicensedInit /\ [][LicensedNext]_proxyVars
  /\ \A d \in Apps : /\ WF_proxyVars(RefreshGoesOn(d)) /\ WF_proxyVars(RedeemGoesOn(d))
                     /\ WF_proxyVars(Startup(d)) /\ WF_proxyVars(Begin(d))
                     /\ WF_proxyVars(StartRuns(d))

-----------------------------------------------------------------------------
(* Properties                                                              *)

Serves(d) == proxy[d].server = "up"

\* A server the flag denies: bound after a stop, started twice, or failed.
\* Stop is not called for it, and Start refuses another.
Astray(d) == proxy[d].server # "down" /\ ~proxy[d].flag

\* The proxy follows the licence: it does not serve on without one, nor stay
\* down with one, while the server knows the ticket's activation, whatever
\* starts and stops overlap or fail; unless they have left a server astray
\* (applyLicenseStatus, startProxyIfLicensed and its goroutine).
ProxyFollows ==
  \A d \in Apps : []<>(RowKnown(d) /\ ~Astray(d) => (Serves(d) = Licensed(d)))

\* What the documentation says of a client that can no longer be verified:
\* once the grace period is over it must be verified online again.  A round of
\* refreshLicenseFromServer that ends after the grace period without a new
\* ticket leaves no proxy running.
OfflineGraceEnds ==
  [][\A d \in Apps :
       /\ ref[d].pc # "idle" /\ ref'[d].pc = "idle"
       /\ now > state'[d].ticket.grace
       => ~Serves(d)']_proxyVars
=============================================================================
