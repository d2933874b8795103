---------------------------- MODULE EndpointList ----------------------------
(***************************************************************************)
(* Edits of the endpoint list while the proxy runs.  The desktop's service *)
(* (src/internal/service/endpoint.go, also behind remote commands) changes *)
(* the configuration, tells the proxy and saves; a rename is stored before *)
(* it is shown.  The web API (src/cmd/server/webui/api/endpoints.go)       *)
(* changes the storage and reloads the configuration from it.  No lock     *)
(* covers an edit; the proxy's current endpoint is an index into the       *)
(* enabled endpoints (src/internal/proxy/handler.go, proxy.go).            *)
(*                                                                         *)
(* An endpoint is its name, whether it is enabled and whether Validate     *)
(* accepts it.  The save of one configuration is one step that may stop    *)
(* anywhere; the storage's own lock is held per statement.                 *)
(***************************************************************************)
EXTENDS Naturals, SequencesExt

CONSTANTS
  Spare,      \* a name for new endpoints, beside "a" and "b"
  Editors,    \* goroutines that edit
  Readers,    \* requests that rebuild the runtime snapshot slowly
  MaxEdits,   \* bound: edits
  MaxFaults   \* bound: failing statements and restarts

ASSUME ListAssumption ==
  /\ Spare \notin {"a", "b", "none", "gone"}   \* markers are no names
  /\ {MaxEdits, MaxFaults} \subseteq Nat

VARIABLES
  web,      \* edits come from the web API, otherwise from the desktop
  conf,     \* config.Config: endpoints, and the version every change counts
  shown,    \* Proxy.runtime: the snapshot and the version it is filed under
  at,       \* Proxy.currentIndex, from 0
  rows,     \* table endpoints; pos is sort_order
  pool,     \* pool[o]: endpoint_name of the credentials added under name o
  ed,       \* ed[e]: the edit of e
  slow,     \* slow[r]: what a reader has copied
  told,     \* what the last edit found as current, and whether it was alone
  removed,  \* credentials whose endpoint somebody has removed
  torn,     \* a rename was stored and then not taken over
  left      \* edits and faults that may still happen

listVars == <<web, conf, shown, at, rows, pool, ed, slow, told, removed, torn, left>>

Names == {"a", "b", Spare}
Endpoint == [name : Names, on : BOOLEAN, ok : BOOLEAN]
Plain(n) == [name |-> n, on |-> TRUE, ok |-> TRUE]
Rest == [pc |-> "rest", op |-> "none", old |-> "none", new |-> "none",
         keep |-> "none", list |-> <<>>]

NamesIn(s) == {s[i].name : i \in DOMAIN s}
Enabled(s) ==
  LET on[n \in 0..Len(s)] ==
        IF n = 0 THEN <<>> ELSE IF s[n].on THEN Append(on[n - 1], s[n]) ELSE on[n - 1]
  IN  on[Len(s)]

\* Config.Validate, as far as it depends on the endpoints.
Valid(s) == s # <<>> /\ \A i \in DOMAIN s : s[i].ok

\* runtimeSnapshot builds a new one when the version has moved on.
View == IF shown.version = conf.version THEN shown ELSE conf

\* getCurrentEndpointLocked
Current == LET s == Enabled(View.list)
           IN IF s = <<>> THEN "none" ELSE s[(at % Len(s)) + 1].name

ListInit ==
  /\ web \in BOOLEAN
  /\ conf = [list |-> <<Plain("a"), Plain("b")>>, version |-> 0]
  /\ shown = conf /\ at \in {0, 1}
  /\ rows = {[name |-> "a", on |-> TRUE, ok |-> TRUE, pos |-> 1],
             [name |-> "b", on |-> TRUE, ok |-> TRUE, pos |-> 2]}
  /\ pool = [o \in {"a", "b"} |-> o]
  /\ ed = [e \in Editors |-> Rest]
  /\ slow = [r \in Readers |-> <<>>]
  /\ told = [want |-> Current, alone |-> FALSE]
  /\ removed = {} /\ torn = FALSE
  /\ left = [edits |-> MaxEdits, faults |-> MaxFaults]

-----------------------------------------------------------------------------
(* The storage                                                             *)

\* DeleteEndpoint takes the credentials along.
PoolWithout(ns) == [o \in DOMAIN pool |-> IF pool[o] \in ns THEN "gone" ELSE pool[o]]

RowOf(s, i) == [name |-> s[i].name, on |-> s[i].on, ok |-> s[i].ok, pos |-> i]

InList(x, n) == CHOOSE i \in DOMAIN x.list : x.list[i].name = n

\* The row of x.old is written whole, from what the copy of edit x holds
\* under the name n; its position stays.
Written(x, n) ==
  {IF r.name = x.old THEN [RowOf(x.list, InList(x, n)) EXCEPT !.pos = r.pos] ELSE r :
     r \in rows}

\* RenameEndpoint
Renamed(x) ==
  /\ rows' = Written(x, x.new)
  /\ pool' = [o \in DOMAIN pool |-> IF pool[o] = x.old THEN x.new ELSE pool[o]]

CanRename(old, new) ==
  /\ \E r \in rows : r.name = old
  /\ ~\E r \in rows : r.name = new

\* SaveToStorage of s, as far as its first k updates and inserts and, after
\* all of them, the deletion of the names in dropped.
SavedUpTo(s, k, dropped) ==
  LET first == {s[i].name : i \in 1..k}
  IN /\ rows' = {RowOf(s, i) : i \in 1..k}
                \cup {r \in rows : r.name \notin first \cup dropped}
     /\ pool' = PoolWithout(dropped)

Stale(s) == {r.name : r \in rows} \ NamesIn(s)

SavedPartly(s) == \/ \E k \in 0..Len(s) : SavedUpTo(s, k, {})
                  \/ \E d \in SUBSET Stale(s) : SavedUpTo(s, Len(s), d)

\* LoadFromStorage: the rows by sort_order; equal ones in any order.
Loadings(rs) ==
  LET plain(f) == [i \in DOMAIN f |-> [name |-> f[i].name, on |-> f[i].on, ok |-> f[i].ok]]
  IN {plain(f) : f \in {g \in SetToSeqs(rs) :
                          \A i, j \in DOMAIN g : i < j => g[i].pos <= g[j].pos}}

-----------------------------------------------------------------------------
(* The proxy                                                               *)

IndexIn(s, n) == IF n \in NamesIn(s) THEN (CHOOSE i \in DOMAIN s : s[i].name = n) - 1 ELSE 0

\* Mutant: the index is kept instead of the name.
AppliedByIndex(keep) ==
  /\ at' = (IF Enabled(conf.list) = <<>> THEN 0 ELSE at % Len(Enabled(conf.list)))
  /\ shown' = conf

\* UpdateConfigPreservingCurrentName; without a name it asks for the current one.
Applied(keep) ==
  /\ at' = IndexIn(Enabled(conf.list), IF keep = "none" THEN Current ELSE keep)
  /\ shown' = conf

\* SetCurrentEndpoint by hand, switchCurrentEndpointAfterFailure: both move
\* the index to another endpoint that is enabled.
Switch ==
  /\ \E i \in DOMAIN Enabled(View.list) : at' = i - 1
  /\ at' # at
  /\ shown' = View
  /\ told' = [told EXCEPT !.alone = FALSE]
  /\ UNCHANGED <<web, conf, rows, pool, ed, slow, removed, torn, left>>

\* newProxyRuntimeSnapshot copies the configuration and asks for the version
\* afterwards; the snapshot is then filed under that version.
ReadSlowly(r) ==
  /\ slow[r] = <<>> /\ shown.version # conf.version
  /\ slow' = [slow EXCEPT ![r] = <<conf.list>>]
  /\ UNCHANGED <<web, conf, shown, at, rows, pool, ed, told, removed, torn, left>>

FileSlowly(r) ==
  /\ slow[r] # <<>>
  /\ shown' = [list |-> slow[r][1], version |-> conf.version]
  /\ slow' = [slow EXCEPT ![r] = <<>>]
  /\ UNCHANGED <<web, conf, at, rows, pool, ed, told, removed, torn, left>>

-----------------------------------------------------------------------------
(* Edits                                                                   *)

Becomes(e, edit) == ed' = [ed EXCEPT ![e] = edit]
Goes(e, pc) == ed' = [ed EXCEPT ![e].pc = pc]
Ends(e) == Becomes(e, Rest)
Version(s) == [list |-> s, version |-> conf.version + 1]

\* An edit that fails leaves the rest of its work undone.
Fails(e) ==
  /\ left.faults > 0 /\ left' = [left EXCEPT !.faults = @ - 1]
  /\ told' = [told EXCEPT !.alone = FALSE]
  /\ Ends(e)

Change(op, old, new, s) == [op |-> op, old |-> old, new |-> new, list |-> s]

\* What may be done to a copy of the list.  (The update of a proxy URL is a
\* toggle that changes nothing.)  The web API takes "enabled" from the
\* request when it adds and updates; the desktop adds what is enabled and
\* leaves it alone when it updates.
Adds(s) == {Change("add", "none", p.name, Append(s, p)) :
              p \in {q \in Endpoint : q.name \notin NamesIn(s) /\ (web \/ q.on)}}
Removes(s) == {Change("remove", s[i].name, "none", RemoveAt(s, i)) : i \in DOMAIN s}
Toggles(s) == UNION {{Change("toggle", s[i].name, "none", [s EXCEPT ![i].on = b]) :
                        b \in BOOLEAN} : i \in DOMAIN s}
Reorders(s) == {Change("reorder", "none", "none", Reverse(s))}
UpdatesOf(s, i) == {q \in Endpoint : q.name \in {Spare, "b"} /\ (web \/ q.on = s[i].on)}
Updates(s) == UNION {{Change("update", s[i].name, p.name, [s EXCEPT ![i] = p]) :
                        p \in UpdatesOf(s, i)} : i \in DOMAIN s}

\* UpdateEndpoint and the web API check the list before anything is changed.
Sensible(c, s) ==
  /\ c.op = "update" => c.new = c.old \/ c.new \notin NamesIn(s)
  /\ c.op = "update" \/ (web /\ c.op = "add") => Valid(c.list)

FirstStep(c) == CASE web -> "write"
                  [] ~web /\ c.op = "update" -> "store"
                  [] OTHER -> "publish"

\* The copy is taken and the name of the current endpoint is read.
Begin(e) ==
  /\ ed[e].pc = "rest" /\ left.edits > 0
  /\ \E s \in IF web THEN Loadings(rows) ELSE {conf.list} : \E c \in
         Adds(s) \cup Removes(s) \cup Toggles(s) \cup Reorders(s) \cup Updates(s) :
       /\ Sensible(c, s)
       /\ Becomes(e, [pc |-> FirstStep(c), op |-> c.op, old |-> c.old, new |-> c.new,
                      keep |-> IF c.op = "update" /\ c.old = Current THEN c.new ELSE Current,
                      list |-> c.list])
       /\ told' = [want |-> IF c.op = "update" /\ c.old = Current THEN c.new ELSE Current,
                   alone |-> \A o \in Editors : ed[o].pc = "rest"]
       /\ removed' = IF c.op = "remove"
                     THEN removed \cup {o \in DOMAIN pool : pool[o] = c.old} ELSE removed
  /\ left' = [left EXCEPT !.edits = @ - 1]
  /\ UNCHANGED <<web, conf, shown, at, rows, pool, slow, torn>>

\* UpdateEndpoints and Validate: an error leaves what has been published.
Publish(e) ==
  /\ ed[e].pc = "publish"
  /\ conf' = Version(ed[e].list)
  /\ IF \/ Valid(ed[e].list) \/ ed[e].op = "toggle"
        \/ ed[e].op = "remove" /\ ed[e].list = <<>>
     THEN Goes(e, "apply") /\ UNCHANGED told
     ELSE Ends(e) /\ told' = [told EXCEPT !.alone = FALSE]
  /\ UNCHANGED <<web, shown, at, rows, pool, slow, removed, torn, left>>

Apply(e) ==
  /\ ed[e].pc = "apply"
  /\ Applied(ed[e].keep)
  /\ IF web \/ ed[e].op = "update" THEN Ends(e) ELSE Goes(e, "save")
  /\ UNCHANGED <<web, conf, rows, pool, slow, told, removed, torn, left>>

\* SaveToStorage saves what the configuration holds now.
Save(e) ==
  /\ ed[e].pc = "save"
  /\ \/ SavedUpTo(conf.list, Len(conf.list), Stale(conf.list))
        /\ Ends(e) /\ UNCHANGED <<told, left>>
     \/ SavedPartly(conf.list) /\ Fails(e)
  /\ UNCHANGED <<web, conf, shown, at, slow, removed, torn>>

\* UpdateEndpoint stores first: the new name, ...
StoreName(e) ==
  /\ ed[e].pc = "store"
  /\ \/ /\ ed[e].old # ed[e].new /\ CanRename(ed[e].old, ed[e].new)
        /\ Renamed(ed[e])
        /\ Goes(e, "clone") /\ UNCHANGED <<told, left>>
     \/ /\ ed[e].old = ed[e].new
        /\ Goes(e, "clone") /\ UNCHANGED <<rows, pool, told, left>>
     \/ /\ ed[e].old # ed[e].new /\ ~CanRename(ed[e].old, ed[e].new)
        /\ Ends(e) /\ told' = [told EXCEPT !.alone = FALSE]
        /\ UNCHANGED <<rows, pool, left>>
     \/ Fails(e) /\ UNCHANGED <<rows, pool>>
  /\ UNCHANGED <<web, conf, shown, at, slow, removed, torn>>

\* ... then a configuration of its own ...
StoreClone(e) ==
  /\ ed[e].pc = "clone"
  /\ \/ SavedUpTo(ed[e].list, Len(ed[e].list), Stale(ed[e].list))
        /\ Goes(e, "replace") /\ UNCHANGED <<told, torn, left>>
     \/ /\ SavedPartly(ed[e].list) /\ Fails(e)
        /\ torn' = (torn \/ ed[e].old # ed[e].new)
  /\ UNCHANGED <<web, conf, shown, at, slow, removed>>

\* ... which ReplaceWith copies into the live one.
Replace(e) ==
  /\ ed[e].pc = "replace"
  /\ conf' = Version(ed[e].list)
  /\ Goes(e, "apply")
  /\ UNCHANGED <<web, shown, at, rows, pool, slow, told, removed, torn, left>>

\* createEndpoint, deleteEndpoint, updateEndpoint, toggleEndpoint: one row.
WebAdds(x) ==
  /\ ~\E r \in rows : r.name = x.new
  /\ rows' = rows \cup {RowOf(x.list, Len(x.list))} /\ UNCHANGED pool

WebDeletes(x) ==
  rows' = {r \in rows : r.name # x.old} /\ pool' = PoolWithout({x.old})

WebUpdates(x) ==
  IF x.old = x.new THEN rows' = Written(x, x.new) /\ UNCHANGED pool
  ELSE CanRename(x.old, x.new) /\ Renamed(x)

WebToggles(x) == rows' = Written(x, x.old) /\ UNCHANGED pool

\* handleReorderEndpoints stores every row with its new position.
WebReorders(x) ==
  /\ rows' = {IF r.name \in NamesIn(x.list) THEN RowOf(x.list, InList(x, r.name)) ELSE r :
                r \in rows}
  /\ UNCHANGED pool

\* All but updateEndpoint ask for the current endpoint after they have stored.
WebWrite(e) ==
  /\ ed[e].pc = "write"
  /\ \/ /\ \/ ed[e].op = "add" /\ WebAdds(ed[e])
           \/ ed[e].op = "remove" /\ WebDeletes(ed[e])
           \/ ed[e].op = "update" /\ WebUpdates(ed[e])
           \/ ed[e].op = "toggle" /\ WebToggles(ed[e])
           \/ ed[e].op = "reorder" /\ WebReorders(ed[e])
        /\ Becomes(e, [ed[e] EXCEPT !.pc = "load",
                         !.keep = IF ed[e].op = "update" THEN @ ELSE Current])
        /\ UNCHANGED <<told, left>>
     \/ Fails(e) /\ UNCHANGED <<rows, pool>>
  /\ UNCHANGED <<web, conf, shown, at, slow, removed, torn>>

\* reloadConfigPreservingCurrentName
WebLoad(e) ==
  /\ ed[e].pc = "load"
  /\ \/ \E s \in Loadings(rows) :
          Becomes(e, [ed[e] EXCEPT !.pc = "replace", !.list = s]) /\ UNCHANGED <<told, left>>
     \/ Fails(e)
  /\ UNCHANGED <<web, conf, shown, at, rows, pool, slow, removed, torn>>

\* The program ends at any moment and starts again.
Restart ==
  /\ left.faults > 0 /\ left' = [left EXCEPT !.faults = @ - 1]
  /\ \E s \in Loadings(rows) : conf' = [list |-> s, version |-> 0] /\ shown' = conf'
  /\ at' = 0
  /\ ed' = [e \in Editors |-> Rest] /\ slow' = [r \in Readers |-> <<>>]
  /\ told' = [told EXCEPT !.alone = FALSE]
  /\ UNCHANGED <<web, rows, pool, removed, torn>>

ListNext ==
  \/ \E e \in Editors :
       \/ Begin(e) \/ Publish(e) \/ Apply(e) \/ Save(e)
       \/ StoreName(e) \/ StoreClone(e) \/ Replace(e) \/ WebWrite(e) \/ WebLoad(e)
  \/ \E r \in Readers : ReadSlowly(r) \/ FileSlowly(r)
  \/ Switch \/ Restart

ListSpec == ListInit /\ [][ListNext]_listVars

-----------------------------------------------------------------------------
(* Properties                                                              *)

ListTypeOK ==
  /\ conf.list \in Seq(Endpoint) /\ conf.version \in Nat
  /\ shown.list \in Seq(Endpoint) /\ at \in Nat
  /\ \A r \in rows : r.name \in Names /\ r.pos \in Nat \ {0}
  /\ \A r, o \in rows : r.name = o.name => r = o
  /\ pool \in [{"a", "b"} -> Names \cup {"gone"}]

Resting == \A e \in Editors : ed[e].pc = "rest"

\* An edit that nothing else gets in the way of leaves the proxy at the
\* endpoint it found as the current one, under its new name if need be and
\* wherever it stands in the list now, or else at the first that is enabled;
\* and what is stored is what a restart will load (UpdateEndpoint,
\* RemoveEndpoint, ReorderEndpoints, updateEndpoint,
\* UpdateConfigPreservingCurrentName).
EditsHold ==
  Resting /\ told.alone =>
    /\ conf.list \in Loadings(rows)
    /\ IF told.want \in NamesIn(Enabled(conf.list)) THEN Current = told.want
       ELSE Enabled(conf.list) # <<>> => Current = Enabled(conf.list)[1].name

\* The credentials of an endpoint live as long as the endpoint and stay with
\* it: renaming it, saves that stop halfway and restarts do not lose them
\* (RenameEndpoint, TestUpdateEndpointRenamePreservesTokenPool).  The exception
\* is a rename that was stored and not taken over: the next save deletes the
\* row under the new name with everything that hangs on it.
PoolsSurvive ==
  \A o \in DOMAIN pool :
    IF pool[o] = "gone" THEN o \in removed \/ torn
    ELSE \E r \in rows : r.name = pool[o]

ListSound == ListTypeOK /\ EditsHold /\ PoolsSurvive
=============================================================================
