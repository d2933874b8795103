------------------------------ MODULE Listener ------------------------------
(***************************************************************************)
(* The settings, and the address the proxy is served at.  A call changes    *)
(* the configuration in memory, rebinds the listener where the address is  *)
(* concerned, and saves the whole configuration key by key; each of these  *)
(* takes a lock of its own, so calls overlap between them.                 *)
(*                                                                         *)
(*   src/internal/proxy/proxy.go              StartWithMux, RebindListener *)
(*   src/internal/service/settings.go, backup.go, webdav.go, terminal.go   *)
(*   src/cmd/server/webui/api/network.go, config.go                        *)
(*   src/internal/config/config.go            LoadFromStorage, SaveToStorage *)
(*   src/cmd/desktop/app.go                   startProxyIfLicensed         *)
(***************************************************************************)
EXTENDS Naturals, Sequences, FiniteSets

CONSTANTS
  Changers,    \* goroutines that serve calls of the user interface
  Serves,      \* the kinds of call each serves
  Targets,     \* addresses the calls ask for
  MaxChanges,  \* bound: calls
  MaxStarts,   \* bound: starts of the proxy
  MaxMishaps   \* bound: failed saves, ports taken by others, restarts ...

Modes == {"local", "lan"}
Ports == {1, 2}
\* UpdateNetworkSettings, handleConfig, UpdateThemeMode and so on; whole:
\* UpdateConfig of the desktop.
CallKinds == {"net", "web", "pref", "proxy", "webdav", "provider", "local", "s3", "optin", "whole"}

ASSUME ListenerAssumption ==
  Serves \in [Changers -> SUBSET CallKinds] /\ Targets \subseteq Modes \X Ports

VARIABLES
  cfg,      \* config.Config
  settings, \* table app_config
  change,   \* what a changer is at: [pc, kind, want, old, before, alone]
  server,   \* p.server, p.listener and p.listenerAddr: [state, ln, addr, late],
            \* late: it was started before a listener of its predecessor was served
  sockets,  \* listening sockets: [at, on], on once its accept loop runs
  taken,    \* ports held by other programs
  desk,     \* desktop: [started, starting], proxyStarted and goroutines of it
  clean,    \* the last save stored everything and nothing was changed since
  gap,      \* failed: the last attempt to listen failed, or none followed a
            \* change; dead: the listener has failed; else none
  spent     \* bounds: [changes, starts, mishaps]

listenerVars == <<cfg, settings, change, server, sockets, taken, desk, clean, gap, spent>>

Absent == "absent"
NoAddr == <<"none", 0>>
\* net.Listen with the empty address: every interface, a port the system picks.
AnyAddr == <<"lan", 0>>
NoServer == [state |-> "none", ln |-> NoAddr, addr |-> NoAddr, late |-> FALSE]

Address(c) == <<c.mode, c.port>>
NoBackup == [provider |-> "", optin |-> FALSE, local |-> Absent, s3 |-> Absent]
NilBackup == [NoBackup EXCEPT !.provider = Absent]

-----------------------------------------------------------------------------
(* Loading and saving.                                                     *)

\* A fresh database has no settings.
NoRowsYet == [port |-> 0, mode |-> "", pref |-> "", proxy |-> "", webdav |-> "",
              provider |-> "", optin |-> FALSE, local |-> "", s3 |-> ""]

\* Rows that are missing or empty give defaults; a backup is loaded by its
\* provider only.
LoadedBackup(r) ==
  IF r.provider = "" THEN NilBackup
  ELSE [provider |-> r.provider, optin |-> r.optin,
        local |-> IF r.provider = "local" THEN r.local ELSE Absent,
        s3    |-> IF r.provider = "s3" THEN r.s3 ELSE Absent]

Loaded(r) == [port   |-> IF r.port = 0 THEN 1 ELSE r.port,
              mode   |-> IF r.mode = "" THEN "local" ELSE r.mode,
              pref   |-> IF r.pref = "" THEN "light" ELSE r.pref,
              proxy  |-> r.proxy,
              webdav |-> IF r.webdav = "" THEN Absent ELSE r.webdav,
              backup |-> LoadedBackup(r),
              locked |-> FALSE]

\* The rows in the order they are written; nothing is written of a group that
\* is nil.
Keys == <<"port", "mode", "pref", "webdav", "provider", "optin", "local", "s3", "proxy">>

Saves(c) ==
  {"port", "mode", "pref", "proxy"}
    \cup (IF c.webdav # Absent THEN {"webdav"} ELSE {})
    \cup (IF c.backup = NilBackup THEN {}
          ELSE {"provider", "optin"}
                 \cup {d \in {"local", "s3"} : c.backup[d] # Absent})

ValueOf(c, key) ==
  IF key \in DOMAIN NoBackup THEN c.backup[key] ELSE c[key]

\* What a save of c that gets as far as the k-th row leaves.
Saved(c, k) ==
  [key \in DOMAIN settings |->
     IF key \in Saves(c) /\ \E i \in 1 .. k : Keys[i] = key THEN ValueOf(c, key) ELSE settings[key]]

-----------------------------------------------------------------------------
(* The listener.                                                           *)

Free(socks, busy, at) ==
  at = AnyAddr \/ (at[2] \notin busy /\ \A s \in socks : s.at[2] # at[2])

Serving == server.state = "up"

\* RebindListener under listenerMu: the old socket is closed before the new one
\* is opened.  grab: what others take in that moment.
Rebound(socks, busy) ==
  LET new  == Address(cfg)
      back == IF server.addr = NoAddr THEN AnyAddr ELSE server.addr
      rest == {s \in socks : s.at # server.ln}
  IN  IF ~Serving THEN [ok |-> FALSE, socks |-> socks, ln |-> server.ln, addr |-> server.addr]
      ELSE IF server.addr = new
      THEN [ok |-> TRUE, socks |-> socks, ln |-> server.ln, addr |-> server.addr]
      ELSE IF Free(rest, busy, new)
      THEN [ok |-> TRUE, socks |-> rest \cup {[at |-> new, on |-> FALSE]}, ln |-> new, addr |-> new]
      ELSE IF Free(rest, busy, back)
      THEN [ok |-> FALSE, socks |-> rest \cup {[at |-> back, on |-> FALSE]},
            ln |-> back, addr |-> server.addr]
      ELSE [ok |-> FALSE, socks |-> rest, ln |-> NoAddr, addr |-> NoAddr]

Mishap(n) == /\ spent.mishaps + n <= MaxMishaps
             /\ spent' = [spent EXCEPT !.mishaps = @ + n]

\* p.RebindListener by changer c, who goes on at pcs[ok].
Rebinds(c, pcs) ==
  \E grab \in SUBSET ({server.addr[2]} \ {0}) :
    LET r == Rebound(sockets, taken \cup grab)
        moves == Serving /\ server.addr # Address(cfg)
    IN  /\ grab # {} => moves
        /\ Mishap(IF grab = {} THEN 0 ELSE 1)
        /\ taken' = taken \cup grab
        /\ sockets' = r.socks
        /\ server' = [server EXCEPT !.ln = r.ln, !.addr = r.addr]
        /\ gap' = IF ~r.ok THEN "failed" ELSE IF gap = "dead" /\ ~moves THEN "dead" ELSE "none"
        /\ change' = [change EXCEPT ![c].pc = pcs[r.ok]]
        /\ UNCHANGED <<cfg, settings, desk, clean>>

-----------------------------------------------------------------------------
(* The calls that change settings.                                         *)

Wants(kind) ==
  CASE kind = "net"      -> Targets
    [] kind = "web"      -> {at[2] : at \in Targets}
    [] kind = "pref"     -> {"dark"}
    [] kind = "proxy"    -> {"", "u"}
    [] kind = "webdav"   -> {"", "w"}
    [] kind = "provider" -> {"local", "s3", "webdav"}
    [] kind = "local"    -> {"d", "e"}
    [] kind = "s3"       -> {"b"}
    [] kind = "optin"    -> BOOLEAN
    [] kind = "whole"    -> {[Loaded(NoRowsYet) EXCEPT !.port = p, !.pref = ""] : p \in Ports}

BackupOf(c) == IF c.backup = NilBackup THEN NoBackup ELSE c.backup

\* What the Update functions of the configuration make of it; a locked port
\* stays.  old is what the call read before.
Readdressed(kind, want) ==
  LET port == IF kind = "net" THEN want[2] ELSE want
  IN  [cfg EXCEPT !.mode = IF kind = "net" THEN want[1] ELSE @,
                  !.port = IF cfg.locked THEN @ ELSE port,
                  !.pref = IF kind = "web" THEN "dark" ELSE @]

WithBackup(kind, want, old) ==
  LET backup == BackupOf(old)
  IN  [cfg EXCEPT !.backup =
         CASE kind = "provider" -> [backup EXCEPT !.provider = want]
           [] kind = "optin"    -> [backup EXCEPT !.optin = want]
           [] OTHER             -> [backup EXCEPT !.provider = kind, ![kind] = want]]

Updated(kind, want, old) ==
  IF kind \in {"net", "web"} THEN Readdressed(kind, want)
  ELSE IF kind \in {"pref", "proxy", "webdav"} THEN [cfg EXCEPT ![kind] = want]
  ELSE WithBackup(kind, want, old)

NoCall == [pc |-> "idle", kind |-> "pref", want |-> "dark", old |-> Loaded(NoRowsYet),
           before |-> NoRowsYet, alone |-> FALSE]
Ended == {"idle", "ok", "unbound", "unsaved"}
InFlight(c) == change[c].pc \notin Ended

\* A changer begins: it checks its arguments and reads what it needs.
Call(c) ==
  /\ ~InFlight(c) /\ spent.changes < MaxChanges
  /\ \E kind \in Serves[c] : \E want \in Wants(kind) :
       /\ kind = "net" /\ cfg.locked => want[2] = cfg.port
       /\ LET alone == \A d \in Changers : d # c => ~InFlight(d)
          IN  change' = [d \in Changers |->
                IF d = c
                THEN [pc |-> IF kind = "whole" THEN "store" ELSE "read", kind |-> kind,
                      want |-> want, old |-> cfg, alone |-> alone,
                      before |-> IF alone THEN settings ELSE NoRowsYet]
                ELSE IF InFlight(d) THEN [change[d] EXCEPT !.alone = FALSE, !.before = NoRowsYet]
                ELSE NoCall]
  /\ spent' = [spent EXCEPT !.changes = @ + 1]
  /\ UNCHANGED <<cfg, settings, server, sockets, taken, desk, clean, gap>>

Readdresses(kind) == kind \in {"net", "web"}

Set(c) ==
  /\ change[c].pc = "read"
  /\ cfg' = Updated(change[c].kind, change[c].want, change[c].old)
  /\ change' = [change EXCEPT ![c].pc = IF Readdresses(change[c].kind) THEN "bind" ELSE "save"]
  /\ clean' = FALSE
  /\ UNCHANGED <<settings, server, sockets, taken, desk, gap, spent>>

\* The first RebindListener of a call, and the one after its settings were
\* taken back.
Bind(c) == /\ change[c].pc = "bind"
           /\ Rebinds(c, [ok \in BOOLEAN |-> IF ok THEN "save" ELSE "undo"])
Again(c) ==
  \/ /\ change[c].pc = "again"
     /\ Rebinds(c, [ok \in BOOLEAN |-> "unbound"])
  \/ /\ change[c].pc = "backagain"
     /\ Rebinds(c, [ok \in BOOLEAN |-> "unsaved"])

\* The address is taken back; handleConfig takes its other settings back, too.
Undo(c) ==
  /\ change[c].pc \in {"undo", "back"}
  /\ LET old == change[c].old
     IN  cfg' = [cfg EXCEPT !.mode = old.mode,
                            !.port = IF cfg.locked THEN @ ELSE old.port,
                            !.pref = IF change[c].kind = "web" THEN old.pref ELSE @]
  /\ change' = [change EXCEPT ![c].pc = IF @ = "undo" THEN "again" ELSE "backagain"]
  /\ clean' = FALSE
  /\ UNCHANGED <<settings, server, sockets, taken, desk, gap, spent>>

\* SaveToStorage, which may fail at any row; only a new address is taken back.
Save(c) ==
  /\ change[c].pc = "save"
  /\ \E k \in 0 .. Len(Keys) :
       LET all == k = Len(Keys)
       IN  /\ Mishap(IF all THEN 0 ELSE 1)
           /\ settings' = Saved(cfg, k)
           /\ clean' = all
           /\ change' = [change EXCEPT ![c].pc =
                IF all THEN "ok" ELSE IF change[c].kind = "net" THEN "back" ELSE "unsaved"]
  /\ UNCHANGED <<cfg, server, sockets, taken, desk, gap>>

\* UpdateConfig saves a configuration of its own and then replaces the one in
\* memory by it.
Store(c) ==
  /\ change[c].pc = "store"
  /\ \E k \in 0 .. Len(Keys) :
       /\ Mishap(IF k = Len(Keys) THEN 0 ELSE 1)
       /\ settings' = Saved(change[c].want, k)
       /\ change' = [change EXCEPT ![c].pc = IF k = Len(Keys) THEN "replace" ELSE "unsaved"]
  /\ clean' = FALSE
  /\ UNCHANGED <<cfg, server, sockets, taken, desk, gap>>
Replace(c) ==
  /\ change[c].pc = "replace"
  /\ cfg' = change[c].want
  /\ gap' = IF gap = "none" /\ Address(cfg') # Address(cfg) THEN "failed" ELSE gap
  /\ clean' = (settings = Saved(cfg', Len(Keys)))
  /\ change' = [change EXCEPT ![c].pc = "ok"]
  /\ UNCHANGED <<settings, server, sockets, taken, desk, spent>>

-----------------------------------------------------------------------------
(* Starting, stopping and accepting.                                       *)

\* startProxyIfLicensed, and the goroutine it starts.
Begin ==
  /\ ~desk.started /\ spent.starts < MaxStarts
  /\ desk' = [started |-> TRUE, starting |-> desk.starting + 1]
  /\ spent' = [spent EXCEPT !.starts = @ + 1]
  /\ UNCHANGED <<cfg, settings, change, server, sockets, taken, clean, gap>>

\* StartWithMux: it fails while a server is there, or when the address is taken.
StartRuns ==
  /\ desk.starting > 0
  /\ IF ~Serving /\ Free(sockets, taken, Address(cfg))
     THEN /\ server' = [state |-> "up", ln |-> Address(cfg), addr |-> Address(cfg),
                        late |-> server.late \/ \E s \in sockets : ~s.on]
          /\ sockets' = sockets \cup {[at |-> Address(cfg), on |-> FALSE]}
          /\ gap' = "none"
          /\ desk' = [desk EXCEPT !.starting = @ - 1]
     ELSE /\ desk' = [started |-> FALSE, starting |-> desk.starting - 1]
          /\ UNCHANGED <<server, sockets, gap>>
  /\ UNCHANGED <<cfg, settings, change, taken, clean, spent>>

\* applyLicenseStatus without a licence, or Quit: Stop closes what the server
\* serves.
\* Mutant: the listener is forgotten, not closed.
StopForgets ==
  /\ desk.started
  /\ desk' = [desk EXCEPT !.started = FALSE]
  /\ IF Serving THEN server' = [server EXCEPT !.state = "stopped", !.ln = NoAddr, !.addr = NoAddr]
     ELSE UNCHANGED server
  /\ UNCHANGED <<cfg, settings, change, sockets, taken, clean, gap, spent>>
Stop ==
  /\ desk.started
  /\ desk' = [desk EXCEPT !.started = FALSE]
  /\ IF Serving
     THEN /\ server' = [server EXCEPT !.state = "stopped", !.ln = NoAddr, !.addr = NoAddr]
          /\ sockets' = {s \in sockets : ~s.on}
     ELSE UNCHANGED <<server, sockets>>
  /\ UNCHANGED <<cfg, settings, change, taken, clean, gap, spent>>

\* serveListener's goroutine gets to p.server.Serve: a server that was stopped
\* closes the socket at once.
Serve ==
  /\ \E s \in sockets :
       /\ ~s.on
       /\ sockets' = (sockets \ {s}) \cup (IF Serving THEN {[s EXCEPT !.on = TRUE]} ELSE {})
  /\ UNCHANGED <<cfg, settings, change, server, taken, desk, clean, gap, spent>>

\* Accept fails for good: Start returns, and the server counts as started.
AcceptFails ==
  /\ Mishap(1)
  /\ \E s \in sockets :
       /\ s.on
       /\ sockets' = sockets \ {s}
       /\ IF Serving /\ server.ln = s.at
          THEN desk' = [desk EXCEPT !.started = FALSE] /\ gap' = "dead"
          ELSE UNCHANGED <<desk, gap>>
  /\ UNCHANGED <<cfg, settings, change, server, taken, clean>>

\* Another program listens at a port, or leaves it.
Others ==
  \/ /\ Mishap(1)
     /\ \E p \in Ports : Free(sockets, taken, <<"lan", p>>) /\ taken' = taken \cup {p}
     /\ UNCHANGED <<cfg, settings, change, server, sockets, desk, clean, gap>>
  \/ /\ \E p \in taken : taken' = taken \ {p}
     /\ UNCHANGED <<cfg, settings, change, server, sockets, desk, clean, gap, spent>>

\* The program ends, maybe within a save, and loads its settings again.
Restart ==
  /\ Mishap(1)
  /\ \/ settings' = settings
     \/ \E c \in Changers, k \in 0 .. Len(Keys) :
          change[c].pc \in {"save", "store"}
          /\ settings' = Saved(IF change[c].pc = "save" THEN cfg ELSE change[c].want, k)
  /\ cfg' = Loaded(settings')
  /\ change' = [c \in Changers |-> NoCall]
  /\ server' = NoServer
  /\ sockets' = {} /\ desk' = [started |-> FALSE, starting |-> 0]
  /\ clean' = FALSE /\ gap' = "none"
  /\ UNCHANGED taken

-----------------------------------------------------------------------------
\* A first start, maybe with a port given on the command line.
ListenerInit ==
  /\ settings = NoRowsYet
  /\ \E locked \in BOOLEAN :
       cfg = [Loaded(NoRowsYet) EXCEPT !.locked = locked, !.port = IF locked THEN 2 ELSE @]
  /\ change = [c \in Changers |-> NoCall]
  /\ server = NoServer
  /\ sockets = {} /\ taken \in {{}, {2}}
  /\ desk = [started |-> FALSE, starting |-> 0]
  /\ clean = FALSE /\ gap = "none"
  /\ spent = [changes |-> 0, starts |-> 0, mishaps |-> 0]

Changes(c) == Call(c) \/ Set(c) \/ Bind(c) \/ Undo(c) \/ Again(c) \/ Save(c)
                \/ Store(c) \/ Replace(c)
Runs == Begin \/ StartRuns \/ Stop \/ Serve

ListenerNext == \/ \E c \in Changers : Changes(c)
                \/ Runs \/ AcceptFails \/ Others \/ Restart
ListenerSpec == ListenerInit /\ [][ListenerNext]_listenerVars

-----------------------------------------------------------------------------
(* Properties.                                                             *)

ListenerTypeOK ==
  /\ cfg.mode \in Modes /\ cfg.port \in Ports
  /\ server.state \in {"none", "up", "stopped"}
  /\ {server.ln, server.addr} \subseteq (Modes \X Ports) \cup {NoAddr, AnyAddr}
  /\ \A s \in sockets : s.at \in (Modes \X Ports) \cup {AnyAddr}
  /\ taken \subseteq Ports /\ desk.starting \in Nat
  /\ \A c \in Changers : change[c].pc \in Ended \cup
       {"read", "bind", "undo", "again", "save", "back", "backagain", "store", "replace"}

AllEnded == \A c \in Changers : ~InFlight(c)

\* Whatever calls overlap and fail, the proxy is served at the configured
\* address once they have ended, unless the last attempt to listen failed
\* (RebindListener after every Update of an address).
ServedAsConfigured ==
  AllEnded /\ Serving /\ gap = "none" => \E s \in sockets : s.at = Address(cfg) /\ s.at = server.ln

\* No listener is left behind: once each has been handed to the server, the
\* only one open is the one RebindListener and Stop would close; unless a stop
\* and a start overtook the goroutine that hands it over.
NoneLeftBehind ==
  ~server.late /\ (\A s \in sockets : s.on) => \A s \in sockets : Serving /\ s.at = server.ln

\* A call nobody interferes with is answered truly: after success the settings
\* are in force and outlive a restart; an address that could not be listened at
\* is taken back and not stored.
AnsweredTruly ==
  \A c \in Changers : change[c].alone =>
    /\ change[c].pc = "ok" /\ change[c].kind = "net" =>
         /\ Address(cfg) = change[c].want
         /\ Address(Loaded(settings)) = change[c].want
    /\ change[c].pc = "unbound" => /\ Address(cfg) = Address(change[c].old)
                                   /\ settings = change[c].before

\* What a save that succeeded has stored is what the next start loads, but for
\* a group that is not there and the details of a provider that is not chosen.
SettingsSurvive ==
  clean =>
    LET after == Loaded(settings)
    IN  /\ Address(after) = Address(cfg) /\ after.proxy = cfg.proxy
        /\ cfg.pref # "" => after.pref = cfg.pref
        /\ cfg.webdav \notin {"", Absent} => after.webdav = cfg.webdav
        /\ cfg.backup # NilBackup /\ cfg.backup.provider # "" =>
             /\ after.backup # NilBackup
             /\ after.backup.provider = cfg.backup.provider
             /\ after.backup.optin = cfg.backup.optin
             /\ \A d \in {"local", "s3"} \cap {cfg.backup.provider} :
                  cfg.backup[d] # Absent => after.backup[d] = cfg.backup[d]

ListenerSound == /\ ListenerTypeOK /\ ServedAsConfigured /\ NoneLeftBehind
                 /\ AnsweredTruly /\ SettingsSurvive
=============================================================================
