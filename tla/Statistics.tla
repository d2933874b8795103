----------------------------- MODULE Statistics -----------------------------
(***************************************************************************)
(* Statistics of the endpoints (src/internal/proxy/stats.go,               *)
(* storage/stats_adapter.go, storage/sqlite.go, service/stats.go,          *)
(* service/archive.go).  A request that ends adds to the row of its        *)
(* endpoint, day and client, the endpoint's name being the one the request *)
(* began with.  The desktop is then shown sums over several periods, each  *)
(* read by a query of its own.  Endpoints are renamed and deleted, months  *)
(* are deleted, and an older program has left a table without clients.     *)
(*                                                                         *)
(* There is one endpoint and one device (devices are in Backups).           *)
(***************************************************************************)
EXTENDS Naturals, Sequences, FiniteSetsExt, Folds, Functions, TLC

CONSTANTS
  Names,       \* names the endpoint may get
  Clients,     \* addresses of clients
  Recorders,   \* requests
  Watched,     \* those whose sums are followed; reading them changes nothing
  MonthOf,     \* the months of the days; all days are in one week
  Periods,     \* the periods shown, in the order in which they are read
  MaxServed,   \* bound: requests that are served
  MaxAdmin,    \* bound: renamings, deletions and creations
  MaxMishaps,  \* bound: statements that fail, and ends of the program
  MaxDone      \* bound: all of these together

VARIABLES
  today,
  table,     \* daily_stats: from <<name, day, client>> to counts
  oldTable,  \* daily_stats_old
  schema,    \* how far migrateDailyStatsClientIP has come
  boot,      \* down, migrating or up
  named,     \* name of the endpoint, Gone
  rec,       \* what a request is recording: [pc, name, day, seen, moved, cut]
  done,      \* [served, admin, mishaps, late]: late, there may be rows of a name
             \* that is not the endpoint's
  truth      \* what has been written, per day and client

statsVars == <<today, table, oldTable, schema, boot, named, rec, done, truth>>

Gone == "gone"
Unknown == "unknown"
Days == DOMAIN MonthOf
From == Clients \cup {Unknown}
Fields == {"req", "err", "tok"}
NoCount == [f \in Fields |-> 0]
Plus(a, b) == [f \in Fields |-> a[f] + b[f]]
Sum(S, value(_)) == FoldSet(LAMBDA x, total : Plus(value(x), total), NoCount, S)
NoRows == <<>>
\* The sum of the rows that pass the test.
SumOf(rows, test(_)) == Sum({k \in DOMAIN rows : test(k)}, LAMBDA k : rows[k])
Resting == [pc |-> "rest", name |-> Gone, day |-> 0, seen |-> <<>>, moved |-> FALSE, cut |-> FALSE]

\* A database of this program with the history of an endpoint that has been
\* deleted, or one of an older program.
StatsInit ==
  /\ today = 1 /\ boot = "down" /\ named = (CHOOSE n \in Names : TRUE)
  /\ schema \in {"legacy", "current"} /\ oldTable = NoRows
  /\ LET row == IF schema = "legacy" THEN <<named, 1, Unknown>>
               ELSE <<CHOOSE n \in Names \ {named} : TRUE, 1, CHOOSE c \in Clients : TRUE>>
     IN  table = (row :> [NoCount EXCEPT !.req = 1])
  /\ rec = [r \in Recorders |-> Resting]
  /\ done = [served |-> 0, admin |-> 0, mishaps |-> 0, late |-> schema = "current"]
  /\ truth = [k \in Days \X From |-> SumOf(table, LAMBDA t : t[2] = k[1] /\ t[3] = k[2])]

-----------------------------------------------------------------------------
(* Views                                                                   *)

\* A filter is a set of names and a set of clients (buildStatsWhereClause).
Everything == [names |-> Names, clients |-> From]
Of(filter, name) == [filter EXCEPT !.names = @ \cap {name}]
Matches(filter, days, k) == k[1] \in filter.names /\ k[2] \in days /\ k[3] \in filter.clients
SumOver(filter, days) == SumOf(table, LAMBDA k : Matches(filter, days, k))

ShownPeriods == {"daily", "yesterday", "weekly", "monthly"}

\* getPeriodDates, statsPeriodDateRange
PeriodDays(p, day) ==
  CASE p = "daily"     -> {day}
    [] p = "yesterday" -> {day - 1} \cap Days
    [] p = "weekly"    -> 1..day
    [] p = "monthly"   -> {d \in 1..day : MonthOf[d] = MonthOf[day]}

\* GetTotalStatsFiltered: the names that have rows, whether or not they are the
\* endpoint's now.
Known(filter) == {k[1] : k \in {q \in DOMAIN table : Matches(filter, Days, q)}}

\* GetPeriodStatsAggregatedFiltered and sumAllEndpoints
PeriodView(filter, days) == Sum(Known(filter), LAMBDA n : SumOver(Of(filter, n), days))

\* Mutant: the rows of a day are not summed over the clients.
OneRow(filter, n, d) ==
  LET rows == {k \in DOMAIN table : Matches(Of(filter, n), {d}, k)}
  IN  IF rows = {} THEN NoCount ELSE table[CHOOSE k \in rows : TRUE]

\* GetDailyStatsFiltered of the storage: one record for the name and day.
DayRecord(filter, n, d) == SumOver(Of(filter, n), {d})

\* GetDailyStatsFiltered of Stats: a query for each endpoint that has any rows.
DayView(filter, d) == Sum(Known(filter), LAMBDA n : DayRecord(filter, n, d))

\* StatsService.getPeriodStatsFiltered, sumStatsFiltered: a single day is read
\* record by record, several days are summed by the database.
PeriodStats(filter, days) ==
  IF Cardinality(days) = 1 THEN DayView(filter, CHOOSE d \in days : TRUE)
  ELSE PeriodView(filter, days)

\* GetStatsTrendByPeriodFiltered: the days that a period is compared with.
DaysBefore(p, day) ==
  CASE p = "daily"     -> {day - 1} \cap Days
    [] p = "yesterday" -> {day - 2} \cap Days
    [] p = "weekly"    -> {}
    [] p = "monthly"   -> {d \in Days : MonthOf[d] + 1 = MonthOf[day]}

\* GetArchiveMonths and GetMonthlyArchiveData: one record for a name and day.
ArchiveMonths == {MonthOf[k[2]] : k \in DOMAIN table}
Archive(m) == {[name |-> k[1], day |-> k[2], sum |-> SumOver(Of(Everything, k[1]), {k[2]})] :
                  k \in {q \in DOMAIN table : MonthOf[q[2]] = m}}
\* GetArchiveData, GetArchiveTrend
ArchiveSum(m) == Sum(Archive(m), LAMBDA r : r.sum)

-----------------------------------------------------------------------------
(* Recording                                                               *)

Goes(r, to) == rec' = [rec EXCEPT ![r] = to]
To(r, pc) == Goes(r, [rec[r] EXCEPT !.pc = pc])
Few == done.served + done.admin + done.mishaps < MaxDone
Mishap == Few /\ done.mishaps < MaxMishaps /\ done' = [done EXCEPT !.mishaps = @ + 1]
ServedBy(r) == [Resting EXCEPT !.name = named, !.pc = "request"]

\* A request ends well or badly.
Serve(r) ==
  /\ boot = "up" /\ named # Gone /\ rec[r].pc = "rest"
  /\ Few /\ done.served < MaxServed
  /\ done' = [done EXCEPT !.served = @ + 1]
  /\ \E pc \in {"request", "error"} : Goes(r, [ServedBy(r) EXCEPT !.pc = pc])
  /\ UNCHANGED <<today, table, oldTable, schema, boot, named, truth>>

\* Mutant: the row is replaced.
Overwritten(row, more) == more

\* ON CONFLICT DO UPDATE SET requests = requests + excluded.requests ...
Added(row, more) == Plus(row, more)

\* RecordDailyStat
Writes(r, client, field) ==
  LET key == <<rec[r].name, today, client>>
      one == [NoCount EXCEPT ![field] = 1]
  IN  /\ table' = IF key \in DOMAIN table THEN [table EXCEPT ![key] = Added(@, one)]
                  ELSE table @@ (key :> one)
      /\ truth' = [truth EXCEPT ![<<today, client>>] = Plus(@, one)]
      /\ done' = [done EXCEPT !.late = @ \/ rec[r].name # named]

\* RecordRequestForClient, RecordTokensForClient, RecordErrorForClient: an error
\* of the storage is logged, and no sums are shown then.
Record(r) ==
  /\ boot = "up" /\ rec[r].pc \in {"request", "tokens", "error"}
  /\ \/ /\ \E c \in Clients :
             Writes(r, c, CASE rec[r].pc = "request" -> "req"
                            [] rec[r].pc = "tokens"  -> "tok"
                            [] rec[r].pc = "error"   -> "err")
        /\ IF rec[r].pc = "request" THEN To(r, "tokens")
           ELSE Goes(r, IF r \in Watched THEN [rec[r] EXCEPT !.pc = "read", !.day = today]
                        ELSE Resting)
     \/ /\ Mishap /\ UNCHANGED <<table, truth>>
        /\ IF rec[r].pc = "request" THEN To(r, "tokens") ELSE Goes(r, Resting)
  /\ UNCHANGED <<today, oldTable, schema, boot, named>>

\* emitStatsUpdate: a query for every period, of the endpoint and then of all.
Read(r) ==
  LET k == Len(rec[r].seen) + 1
      own == k <= Len(Periods)
      days == PeriodDays(Periods[IF own THEN k ELSE k - Len(Periods)], rec[r].day)
      sum == IF own THEN SumOver(Of(Everything, rec[r].name), days)
             ELSE PeriodView(Everything, days)
  IN  /\ boot = "up" /\ rec[r].pc = "read"
      /\ Goes(r, [rec[r] EXCEPT !.seen = Append(@, sum),
                                !.pc = IF k = 2 * Len(Periods) THEN "shown" ELSE "read"])
      /\ UNCHANGED <<today, table, oldTable, schema, boot, named, done, truth>>

\* onStatsUpdated has been called.
Rest(r) == /\ rec[r].pc = "shown" /\ Goes(r, Resting)
           /\ UNCHANGED <<today, table, oldTable, schema, boot, named, done, truth>>

-----------------------------------------------------------------------------
(* Endpoints, months and days                                              *)

Administers(leaves) ==
  /\ boot = "up" /\ Few /\ done.admin < MaxAdmin
  /\ done' = [done EXCEPT !.admin = @ + 1, !.late = @ \/ leaves]
  /\ UNCHANGED <<today, oldTable, schema, boot>>

\* RenameEndpoint moves the rows and adds them to those the new name has.
RenameEndpoint(new) ==
  /\ Administers(FALSE) /\ named # Gone /\ new # named /\ named' = new
  /\ LET old(k) == <<named, k[2], k[3]>>
         has(k) == k \in DOMAIN table
         moved == {<<new, k[2], k[3]>> : k \in {q \in DOMAIN table : q[1] = named}}
     IN  table' = [k \in {q \in DOMAIN table : q[1] # named} \cup moved |->
                     CASE k[1] = new /\ has(k) /\ has(old(k)) -> Added(table[k], table[old(k)])
                       [] has(k) /\ (k[1] # new \/ ~has(old(k))) -> table[k]
                       [] ~has(k)                            -> table[old(k)]]
  /\ rec' = [r \in Recorders |-> [rec[r] EXCEPT !.moved = @ \/ rec[r].pc = "read"]]
  /\ UNCHANGED truth

\* DeleteEndpoint keeps the statistics; the name may be used again.
DeleteEndpoint == /\ Administers(TRUE) /\ named # Gone /\ named' = Gone
                  /\ UNCHANGED <<table, rec, truth>>
SaveEndpoint(name) == /\ Administers(FALSE) /\ named = Gone /\ named' = name
                      /\ UNCHANGED <<table, rec, truth>>

\* DeleteMonthlyStats, of a month that GetArchiveMonths lists
DeleteMonth(m) ==
  LET kept(d) == MonthOf[d] # m
  IN  /\ Administers(FALSE) /\ m \in ArchiveMonths
      /\ table' = Restrict(table, {k \in DOMAIN table : kept(k[2])})
      /\ truth' = [k \in DOMAIN truth |->
                     IF kept(k[1]) THEN truth[k]
                     ELSE LET gone == SumOf(table, LAMBDA t : t[2] = k[1] /\ t[3] = k[2])
                          IN  [f \in Fields |-> truth[k][f] - gone[f]]]
      /\ rec' = [r \in Recorders |-> [rec[r] EXCEPT !.cut = @ \/ rec[r].pc = "read"]]
      /\ UNCHANGED named

Midnight == /\ today + 1 \in Days /\ today' = today + 1
            /\ UNCHANGED <<table, oldTable, schema, boot, named, rec, done, truth>>

-----------------------------------------------------------------------------
(* The program starts                                                      *)

StartsOnly == UNCHANGED <<today, named, rec, done, truth>>

\* initSchema creates the table if it is not there, and asks whether it has
\* the column; what an interrupted migration left behind is not looked at.
Start ==
  /\ boot = "down"
  /\ IF schema = "legacy" THEN boot' = "migrating" /\ UNCHANGED schema
     ELSE boot' = "up" /\ schema' = IF schema = "moved" THEN "fresh" ELSE schema
  /\ UNCHANGED <<table, oldTable>> /\ StartsOnly

\* migrateDailyStatsClientIP, statement by statement
Migrate ==
  /\ boot = "migrating" /\ StartsOnly
  /\ CASE schema = "legacy" -> /\ schema' = "moved" /\ oldTable' = table
                               /\ table' = NoRows /\ UNCHANGED boot
       [] schema = "moved"  -> schema' = "fresh" /\ UNCHANGED <<table, oldTable, boot>>
       [] schema = "fresh"  -> /\ schema' = "copied" /\ table' = oldTable
                               /\ UNCHANGED <<oldTable, boot>>
       [] schema = "copied" -> /\ schema' = "current" /\ oldTable' = NoRows /\ boot' = "up"
                               /\ UNCHANGED table

\* The program ends, or a statement of the migration fails and it ends for that.
Crash == /\ boot # "down" /\ Mishap /\ boot' = "down"
         /\ rec' = [r \in Recorders |-> Resting]
         /\ UNCHANGED <<today, table, oldTable, schema, named, truth>>

StatsNext ==
  \/ \E r \in Recorders : Serve(r) \/ Record(r) \/ Read(r) \/ Rest(r)
  \/ \E n \in Names : RenameEndpoint(n) \/ SaveEndpoint(n)
  \/ DeleteEndpoint \/ Midnight \/ Start \/ Migrate \/ Crash
  \/ \E d \in Days : DeleteMonth(MonthOf[d])
StatsSpec == StatsInit /\ [][StatsNext]_statsVars

-----------------------------------------------------------------------------
(* Properties                                                              *)

\* Rows of the old table that no query sees: the program ended between the
\* statements of the migration.
Stranded == schema \in {"moved", "fresh"}

\* What was recorded for a day and client is in the tables, whatever the
\* endpoint was called then and is called now, and whether it is still there
\* (RecordDailyStat, RenameEndpoint, DeleteEndpoint, migrateDailyStatsClientIP).
\* A name the endpoint does not have holds nothing, unless an endpoint of that
\* name was deleted or a request that had begun under it was recorded late.
HistoryKept ==
  /\ \A k \in Days \X From :
       LET sum(rows) == SumOf(rows, LAMBDA t : t[2] = k[1] /\ t[3] = k[2])
       IN  truth[k] = IF Stranded THEN Plus(sum(table), sum(oldTable)) ELSE sum(table)
  /\ named # Gone /\ ~done.late =>
       Known(Everything) \subseteq {named}

\* However a period is summed up, the sums agree, for every filter and for the
\* period it is compared with; an archived month is its days
\* (GetDailyStatsFiltered, getPeriodStatsFiltered, GetArchiveData).
ViewsAgree ==
  LET filters == {Everything} \cup {Of(Everything, n) : n \in Names}
                 \cup {[Everything EXCEPT !.clients = {c}] : c \in From}
      dayOf == [f \in filters |-> [d \in Days |-> DayView(f, d)]]
      byDay(f, days) == Sum(days, LAMBDA d : dayOf[f][d])
      compared == {PeriodDays(p, today) : p \in ShownPeriods}
                  \cup {DaysBefore(p, today) : p \in ShownPeriods}
  IN  /\ \A f \in filters, days \in compared :
           LET sum == byDay(f, days)
           IN  PeriodStats(f, days) = sum /\ PeriodView(f, days) = sum
      /\ \A m \in ArchiveMonths :
           ArchiveSum(m) = byDay(Everything, {d \in Days : MonthOf[d] = m})

\* What is shown adds up although it was read by several queries: an endpoint
\* has no more than all of them, and a day no more than its week, unless the
\* endpoint was renamed or a month deleted between the queries
\* (emitStatsUpdate, aggregateDailyStats, sumAllEndpoints).
ShownAddsUp ==
  \A r \in Recorders :
    LET n == Len(Periods)
        s == rec[r].seen
        atMost(a, b) == \A f \in Fields : a[f] <= b[f]
    IN  rec[r].pc = "shown" /\ ~rec[r].cut =>
          \A i \in 1..n :
            /\ atMost(s[i], s[n + i])
            /\ Periods[i] = "daily" =>
                 \A j \in i..n : Periods[j] = "weekly" =>
                   atMost(s[n + i], s[n + j]) /\ (rec[r].moved \/ atMost(s[i], s[j]))

StatisticsSound == HistoryKept /\ ViewsAgree /\ ShownAddsUp
=============================================================================
