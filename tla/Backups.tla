------------------------------ MODULE Backups ------------------------------
(***************************************************************************)
(* Backups: made, compared and restored by goroutines of the desktop       *)
(* program (src/internal/service/backup*.go, webdav.go,                    *)
(* src/internal/webdav/sync.go), and the merge they end in                 *)
(* (src/internal/storage/sqlite.go).  The WebDAV operations share one      *)
(* directory, and fixed names in it, for temporary files; each removes all *)
(* of it when it returns.  The operations of S3 have a directory each, but *)
(* inside the shared one, so a WebDAV operation takes them along.  Local   *)
(* backups are renamed into place and read where they lie.                 *)
(*                                                                         *)
(* A database is the value of each endpoint and the number of requests in  *)
(* the daily_stats rows of one endpoint and day, by device.  No lock keeps *)
(* any two operations apart.  A file is written, or read, in one step.     *)
(***************************************************************************)
EXTENDS Naturals

CONSTANTS
  Files,        \* names of backups
  Workers,      \* goroutines that back up or look for conflicts
  Restorers,    \* goroutines that restore
  MaxRequests,  \* bound: requests counted
  MaxBackupOps  \* bound: operations and edits

Goers == Workers \cup Restorers
Paths == {"backup_temp.db", "restore_temp.db", "conflict_check_temp.db"}

ASSUME BackupsAssumption ==
  /\ Files # {} /\ Workers \cap Restorers = {} /\ Files \cap Goers = {}
  /\ Paths \cap (Files \cup Goers) = {}
  /\ MaxRequests \in Nat /\ MaxBackupOps \in Nat

VARIABLES
  base,     \* the database: eps and stats
  held,     \* config.Config's endpoints
  shelf,    \* what each provider stores under a name
  temp,     \* the temporary files: the shared ones, S3's by operation, local ones by name
  dirs,     \* the temporary directories there are: "shared", and S3's in it
  task,     \* what a goroutine does
  made,     \* requests made on this device
  foreign,  \* a row stands under another device id than this one's
  ops       \* operations so far

backupVars == <<base, held, shelf, temp, dirs, task, made, foreign, ops>>

Providers == {"webdav", "s3", "local"}
EndpointNames == {"a"}
Unset == "nothing"
Values == {Unset, "old", "new"}
NoStats == [own |-> 0, default |-> 0]  \* 0: no row
NoBase == [eps |-> [e \in EndpointNames |-> Unset], stats |-> NoStats]  \* no file, or an empty one
Earlier == [eps |-> [e \in EndpointNames |-> "new"], stats |-> NoStats]
Base == [eps : [EndpointNames -> Values], stats : [own : Nat, default : Nat]]
Bare == [pc |-> "rest", via |-> "local", file |-> CHOOSE f \in Files : TRUE,
         choice |-> "local", want |-> NoBase, loaded |-> NoBase.eps]
Total(stats) == stats.own + stats.default

\* Every provider holds a backup that was made before any request was counted.
BackupsInit ==
  /\ base = [eps |-> [a |-> "old"], stats |-> NoStats]
  /\ held = base.eps
  /\ shelf = [s \in Providers |-> [f \in Files |-> Earlier]]
  /\ temp = [p \in Paths \cup Files \cup Goers |-> NoBase] /\ dirs = {}
  /\ task = [o \in Goers |-> Bare]
  /\ made = 0 /\ foreign = FALSE /\ ops = 0

Counted == ops < MaxBackupOps /\ ops' = ops + 1
Set(o, rec) == task' = [task EXCEPT ![o] = rec]
GoTo(o, step) == Set(o, [task[o] EXCEPT !.pc = step])

\* tempDir, tempDirUnique
Needed(o, via) == CASE via = "webdav" -> {"shared"}
                    [] via = "s3"     -> {"shared", o}
                    [] via = "local"  -> {}

\* The temporary file of a backup, or of a download.
CopyPath(o, via, f) == CASE via = "webdav" -> "backup_temp.db"
                         [] via = "s3"     -> o
                         [] via = "local"  -> f

\* Mutant: both download to the same file.
OnePath(o) == "restore_temp.db"

DownloadPath(o) == IF o \in Restorers THEN "restore_temp.db" ELSE "conflict_check_temp.db"
ReadPath(o) == IF task[o].via = "webdav" THEN DownloadPath(o) ELSE o

\* The deferred os.RemoveAll: of the shared directory and all that is in it, or
\* of an own one.
Cleaned(o) ==
  CASE task[o].via = "webdav" -> [p \in DOMAIN temp |-> IF p \in Files THEN temp[p] ELSE NoBase]
    [] task[o].via = "s3"     -> [temp EXCEPT ![o] = NoBase]
    [] task[o].via = "local"  -> temp
DirsLeft(o) == CASE task[o].via = "webdav" -> {}
                 [] task[o].via = "s3"     -> dirs \ {o}
                 [] task[o].via = "local"  -> dirs
Returns(o) == Set(o, Bare) /\ temp' = Cleaned(o) /\ dirs' = DirsLeft(o)

-----------------------------------------------------------------------------
(* Meanwhile                                                               *)

\* RecordDailyStat; the device id is "default" after a start at which it could
\* not be read.
RecordDailyStat(dev) ==
  /\ made < MaxRequests /\ made' = made + 1
  /\ base' = [base EXCEPT !.stats[dev] = @ + 1]
  /\ foreign' = (foreign \/ dev = "default")
  /\ UNCHANGED <<held, shelf, temp, dirs, task, ops>>

\* DeleteMonthlyStats
DeleteStats ==
  /\ Counted /\ base.stats # NoStats /\ base' = [base EXCEPT !.stats = NoStats]
  /\ UNCHANGED <<held, shelf, temp, dirs, task, made, foreign>>

\* An edit, saved: SaveToStorage writes all of the configuration.
EditEndpoint(e) ==
  /\ Counted /\ \E v \in Values : held' = [held EXCEPT ![e] = v]
  /\ base' = [base EXCEPT !.eps = held']
  /\ UNCHANGED <<shelf, temp, dirs, task, made, foreign>>

-----------------------------------------------------------------------------
(* Backing up                                                              *)

\* BackupToProvider: the directory is made, a file left in its place removed.
StartBackup(o, f, via) ==
  /\ task[o].pc = "rest" /\ o \in Workers /\ Counted
  /\ Set(o, [Bare EXCEPT !.pc = "copy", !.via = via, !.file = f])
  /\ dirs' = dirs \cup Needed(o, via)
  /\ temp' = [temp EXCEPT ![CopyPath(o, via, f)] = NoBase]
  /\ UNCHANGED <<base, held, shelf, made, foreign>>

\* CreateBackupCopy: VACUUM INTO needs the directory and refuses a file that exists.
CreateBackupCopy(o) ==
  LET path == CopyPath(o, task[o].via, task[o].file)
  IN  /\ task[o].pc = "copy"
      /\ \/ /\ Needed(o, task[o].via) \subseteq dirs /\ temp[path] = NoBase
            /\ temp' = [temp EXCEPT ![path] = base] /\ GoTo(o, "upload") /\ UNCHANGED dirs
         \/ Returns(o)
      /\ UNCHANGED <<base, held, shelf, made, foreign, ops>>

\* BackupDatabase reads the file and uploads it; FPutObject; os.Rename, after
\* which the file is gone either way.
Upload(o) ==
  LET path == CopyPath(o, task[o].via, task[o].file)
  IN  /\ task[o].pc = "upload"
      /\ \/ temp[path] # NoBase /\ shelf' = [shelf EXCEPT ![task[o].via][task[o].file] = temp[path]]
         \/ UNCHANGED shelf
      /\ Set(o, Bare) /\ temp' = [Cleaned(o) EXCEPT ![path] = NoBase] /\ dirs' = DirsLeft(o)
      /\ UNCHANGED <<base, held, made, foreign, ops>>

-----------------------------------------------------------------------------
(* Conflicts and restoring                                                 *)

\* RestoreFromProvider with the user's choice, DetectBackupConflict.
StartRead(o, f, via, choice) ==
  /\ task[o].pc = "rest" /\ Counted
  /\ Set(o, [Bare EXCEPT !.pc = "download", !.via = via, !.file = f, !.choice = choice])
  /\ dirs' = dirs \cup Needed(o, via)
  /\ UNCHANGED <<base, held, shelf, temp, made, foreign>>

\* RestoreDatabase, which needs the directory; FGetObject, which makes it again;
\* os.Stat of a local backup.
Download(o) ==
  LET t == task[o]
      data == shelf[t.via][t.file]
  IN  /\ t.pc = "download"
      /\ \/ /\ data # NoBase /\ (t.via = "webdav" => "shared" \in dirs)
            /\ Set(o, [t EXCEPT !.want = data,
                         !.pc = IF o \in Restorers THEN "merge" ELSE "compare"])
            /\ temp' = IF t.via = "local" THEN temp ELSE [temp EXCEPT ![ReadPath(o)] = data]
            /\ dirs' = dirs \cup Needed(o, t.via)
         \/ Returns(o)
      /\ UNCHANGED <<base, held, shelf, made, foreign, ops>>

\* A local backup is read in place.
Read(o) == IF task[o].via = "local" THEN shelf["local"][task[o].file] ELSE temp[ReadPath(o)]

\* DetectEndpointConflicts only reads.
Compare(o) == /\ task[o].pc = "compare" /\ Returns(o)
              /\ UNCHANGED <<base, held, shelf, made, foreign, ops>>

\* mergeEndpoints
MergedEndpoints(eps, choice) ==
  [e \in EndpointNames |->
     IF eps[e] # Unset /\ (choice = "remote" \/ base.eps[e] = Unset) THEN eps[e]
     ELSE base.eps[e]]

\* Mutant: the backup's rows are added to the ones that are there.
AddedStats(stats, choice) == [base.stats EXCEPT !.own = @ + Total(stats)]

\* mergeDailyStats: the backup's rows become one of this device.
MergedStats(stats, choice) ==
  IF stats = NoStats \/ (choice = "local" /\ base.stats.own > 0) THEN base.stats
  ELSE [own |-> Total(stats), default |-> IF choice = "remote" THEN 0 ELSE base.stats.default]

\* MergeFromBackup: one transaction.  An attached file that is gone cannot be
\* opened, or is created empty and has no tables.
Merge(o) ==
  LET data == Read(o)
  IN  /\ task[o].pc = "merge"
      /\ \/ /\ data # NoBase
            /\ base' = [eps |-> MergedEndpoints(data.eps, task[o].choice),
                        stats |-> MergedStats(data.stats, task[o].choice)]
            /\ GoTo(o, "load") /\ UNCHANGED <<temp, dirs>>
         \/ Returns(o) /\ UNCHANGED base
      /\ UNCHANGED <<held, shelf, made, foreign, ops>>

\* LoadFromStorage and ReplaceWith; an edit may come between them.
Load(o) ==
  /\ task[o].pc = "load"
  /\ \/ Set(o, [task[o] EXCEPT !.pc = "replace", !.loaded = base.eps]) /\ UNCHANGED <<temp, dirs>>
     \/ Returns(o)
  /\ UNCHANGED <<base, held, shelf, made, foreign, ops>>

ReplaceConfig(o) ==
  /\ task[o].pc = "replace" /\ held' = task[o].loaded /\ Returns(o)
  /\ UNCHANGED <<base, shelf, made, foreign, ops>>

\* DeleteBackups
DeleteBackup(s, f) ==
  /\ Counted /\ shelf[s][f] # NoBase /\ shelf' = [shelf EXCEPT ![s][f] = NoBase]
  /\ UNCHANGED <<base, held, temp, dirs, task, made, foreign>>

BackupsNext ==
  \/ \E dev \in {"own", "default"} : RecordDailyStat(dev)
  \/ DeleteStats \/ \E e \in EndpointNames : EditEndpoint(e)
  \/ \E s \in Providers, f \in Files : DeleteBackup(s, f)
  \/ \E o \in Goers :
       \/ \E f \in Files, via \in Providers :
            StartBackup(o, f, via) \/ \E c \in {"local", "remote"} : StartRead(o, f, via, c)
       \/ CreateBackupCopy(o) \/ Upload(o)
       \/ Download(o) \/ Compare(o) \/ Merge(o) \/ Load(o) \/ ReplaceConfig(o)

BackupsSpec == BackupsInit /\ [][BackupsNext]_backupVars

-----------------------------------------------------------------------------
(* Properties                                                              *)

BackupsTypeOK ==
  /\ base \in Base /\ held \in [EndpointNames -> Values]
  /\ shelf \in [Providers -> [Files -> Base]] /\ temp \in [Paths \cup Files \cup Goers -> Base]
  /\ dirs \subseteq {"shared"} \cup Goers
  /\ task \in [Goers -> [pc : {"rest", "copy", "upload", "download", "compare", "merge",
                               "load", "replace"},
                         via : Providers, file : Files, choice : {"local", "remote"},
                         want : Base, loaded : [EndpointNames -> Values]]]
  /\ made \in 0..MaxRequests /\ foreign \in BOOLEAN /\ ops \in 0..MaxBackupOps

\* The restores over WebDAV that have written restore_temp.db and not returned.
Downloaded == {r \in Restorers : /\ task[r].via = "webdav"
                                 /\ task[r].pc \in {"merge", "load", "replace"}}

\* A restore that is about to merge what it downloaded reads what it asked for,
\* or finds it gone, although backups and comparisons, of every provider, use
\* and remove the same directory; only restores over WebDAV that overlap may
\* read each other's (RestoreFromWebDAV, tempDirUnique).  And no request is
\* counted twice, however often what is restored, overlapping or not, unless
\* some of the rows stand under the id "default" (mergeDailyStats: the backup's
\* device id is replaced "to avoid duplicate records").
RestoresAreExact ==
  /\ BackupsTypeOK
  /\ \A r \in Restorers : task[r].pc = "merge" /\ task[r].via # "local" =>
       \/ Read(r) \in {task[r].want, NoBase}
       \/ r \in Downloaded /\ \E q \in Downloaded \ {r} : Read(r) = task[q].want
  /\ ~foreign => Total(base.stats) <= made
=============================================================================
