------------------------------- MODULE AIJobs -------------------------------
(***************************************************************************)
(* Analysis jobs of the licence server                                     *)
(* (src/internal/onlinelicense/ai_service.go, ai_store.go, ai_scheduler.go, *)
(* ai_http.go).  A request queues a job and runs it in a goroutine of its  *)
(* own; the scheduler does the same once a minute for the diagnosis of the *)
(* day and the report of the month.  Whoever claims the row runs the job;  *)
(* there is no lease, and a program that ends leaves its rows as they are. *)
(*                                                                         *)
(* A job is its type, owner and period, which are unique; all of them have *)
(* one owner here, because the capacity is counted per owner.  The yearly  *)
(* clean-up is left out.                                                   *)
(***************************************************************************)
EXTENDS Naturals, FiniteSets

CONSTANTS
  Daily, Monthly,  \* the jobs the scheduler looks after today
  Manual,          \* other jobs; an administrator may ask for any
  Requests,        \* goroutines of the HTTP handler
  MaxAttempts,     \* maxAIJobAttempts
  Capacity,        \* active jobs an owner may have: 2 in CreateAIJob
  MaxAIFaults      \* bound: statements that fail, and ends of the program

ASSUME JobsAssumption == Daily \cup Monthly \cup Manual # {} /\ {MaxAttempts, MaxAIFaults} \subseteq Nat

VARIABLES
  jobs,      \* table license_ai_jobs
  findings,  \* the attempt whose findings are stored, 0: none
  report,    \* the attempt that wrote the report of the month, 0: none
  runner,    \* what a goroutine is doing
  serving,   \* the program runs
  aiFaults   \* faults so far

aiVars == <<jobs, findings, report, runner, serving, aiFaults>>

Jobs == Daily \cup Monthly \cup Manual
Scheduler == "scheduler"
Runners == Requests \cup {Scheduler}
Active == {"queued", "running"}
Done == {"completed", "skipped"}
Unasked == [st |-> "none", tries |-> 0]
Free == [pc |-> "rest", job |-> CHOOSE j \in Jobs : TRUE, st |-> "none"]

JobsInit ==
  /\ jobs = [j \in Jobs |-> Unasked]
  /\ findings = [j \in Jobs |-> 0] /\ report = [j \in Jobs |-> 0]
  /\ runner = [r \in Runners |-> Free]
  /\ serving = FALSE /\ aiFaults = 0

Goes(r, rec) == runner' = [runner EXCEPT ![r] = rec]
To(r, step) == Goes(r, [runner[r] EXCEPT !.pc = step])
Fault == aiFaults < MaxAIFaults /\ aiFaults' = aiFaults + 1
Fine == UNCHANGED aiFaults
OnlyRunner == UNCHANGED <<jobs, findings, report, serving>>

-----------------------------------------------------------------------------
\* handleAIJobs, and the tick of RunAIScheduler, which does its jobs in turn.
Ask(r, j) ==
  /\ serving /\ runner[r].pc = "rest"
  /\ r = Scheduler => j \in Daily \cup Monthly
  /\ Goes(r, [pc |-> "find", job |-> j, st |-> "none"])
  /\ Fine /\ OnlyRunner

\* Mutant: a job that failed is not tried again.
OnlyQueued(job) == job.st = "queued"

\* shouldRunAIJob
ShouldRun(job) == \/ job.st = "queued"
                  \/ job.st = "failed" /\ job.tries < MaxAttempts

\* The job is there: a request runs it whatever its status says.
Take(r) ==
  IF r = Scheduler /\ ~ShouldRun(jobs[runner[r].job]) THEN Goes(r, Free) ELSE To(r, "claim")

\* queueAIJob looks for the job
Find(r) ==
  /\ runner[r].pc = "find"
  /\ \/ Fine /\ IF jobs[runner[r].job].st = "none" THEN To(r, "create") ELSE Take(r)
     \/ Fault /\ Goes(r, Free)
  /\ OnlyRunner

\* CreateAIJob: an owner has few active jobs; another goroutine may have
\* inserted the row by now.
Create(r) ==
  LET j == runner[r].job
      active == {k \in Jobs : jobs[k].st \in Active}
  IN  /\ runner[r].pc = "create"
      /\ \/ /\ Cardinality(active) >= Capacity \* ErrAIJobCapacity
            /\ Goes(r, Free) /\ Fine /\ UNCHANGED jobs
         \/ /\ Cardinality(active) < Capacity /\ jobs[j].st # "none" \* isUniqueConstraint
            /\ Take(r) /\ Fine /\ UNCHANGED jobs
         \/ /\ Cardinality(active) < Capacity /\ jobs[j].st = "none"
            /\ jobs' = [jobs EXCEPT ![j].st = "queued"]
            /\ To(r, "claim") /\ Fine
         \/ Fault /\ Goes(r, Free) /\ UNCHANGED jobs
      /\ UNCHANGED <<findings, report, serving>>

\* Mutant: attempts are not limited.
ClaimableForever(job) == job.st \in {"queued", "failed"}
\* Mutant: a job that is running may be claimed.
ClaimableAnyway(job) == job.st \in {"queued", "failed", "running"} /\ job.tries < MaxAttempts

Claimable(job) == job.st \in {"queued", "failed"} /\ job.tries < MaxAttempts

\* ClaimAIJob: one UPDATE; reading the row back may fail after it.
Claim(r) ==
  LET j == runner[r].job
  IN  /\ runner[r].pc = "claim"
      /\ \/ ~Claimable(jobs[j]) /\ Goes(r, Free) /\ Fine /\ UNCHANGED jobs
         \/ /\ Claimable(jobs[j])
            /\ jobs' = [jobs EXCEPT ![j] = [st |-> "running", tries |-> @.tries + 1]]
            /\ \/ To(r, "analyse") /\ Fine
               \/ Goes(r, Free) /\ Fault
         \/ Fault /\ Goes(r, Free) /\ UNCHANGED jobs
      /\ UNCHANGED <<findings, report, serving>>

\* An error on the way: the row is told, if that works.
GivesUp(r) == Goes(r, [runner[r] EXCEPT !.pc = "store", !.st = "failed"])

\* analyzeWindow reads.
Analyse(r) ==
  /\ runner[r].pc = "analyse"
  /\ \/ To(r, "findings") /\ Fine
     \/ GivesUp(r) /\ Fault
  /\ OnlyRunner

\* ReplaceAIFindings
Replace(r) ==
  LET j == runner[r].job
  IN  /\ runner[r].pc = "findings"
      /\ \/ findings' = [findings EXCEPT ![j] = jobs[j].tries] /\ To(r, "model") /\ Fine
         \/ GivesUp(r) /\ Fault /\ UNCHANGED findings
      /\ UNCHANGED <<jobs, report, serving>>

\* The model is asked, for a minute at most, or it is not set up.  An error of
\* its own does not keep the report from being written.
AskModel(r) ==
  /\ runner[r].pc = "model"
  /\ \E st \in Done \cup {"failed"} :
       Goes(r, [runner[r] EXCEPT
                  !.pc = IF runner[r].job \in Monthly THEN "report" ELSE "store",
                  !.st = st])
  /\ Fine /\ OnlyRunner

\* SaveAIReport
Save(r) ==
  LET j == runner[r].job
  IN  /\ runner[r].pc = "report"
      /\ \/ report' = [report EXCEPT ![j] = jobs[j].tries] /\ To(r, "store") /\ Fine
         \/ GivesUp(r) /\ Fault /\ UNCHANGED report
      /\ UNCHANGED <<jobs, findings, serving>>

\* UpdateAIJob stores the goroutine's copy of the row.
Finish(r) ==
  /\ runner[r].pc = "store"
  /\ \/ jobs' = [jobs EXCEPT ![runner[r].job].st = runner[r].st] /\ Fine
     \/ Fault /\ UNCHANGED jobs
  /\ Goes(r, Free)
  /\ UNCHANGED <<findings, report, serving>>

\* The program starts; it ends at any moment.
Boot == /\ ~serving /\ serving' = TRUE
        /\ UNCHANGED <<jobs, findings, report, runner, aiFaults>>
Crash == /\ serving /\ serving' = FALSE /\ Fault
         /\ runner' = [r \in Runners |-> Free]
         /\ UNCHANGED <<jobs, findings, report>>

RunAIJob(r) == Claim(r) \/ Analyse(r) \/ Replace(r) \/ AskModel(r) \/ Save(r) \/ Finish(r)
Step(r) == Find(r) \/ Create(r) \/ RunAIJob(r)
JobsNext == \/ \E r \in Runners : Step(r) \/ \E j \in Jobs : Ask(r, j)
            \/ Boot \/ Crash

\* Goroutines run, and every tick of the scheduler looks at its jobs.
JobsFairness ==
  /\ \A r \in Runners : WF_aiVars(Step(r))
  /\ \A j \in Daily \cup Monthly : SF_aiVars(Ask(Scheduler, j))

JobsSpec == JobsInit /\ [][JobsNext]_aiVars /\ JobsFairness

-----------------------------------------------------------------------------
(* Properties                                                              *)

Job == [st : {"none", "failed"} \cup Active \cup Done, tries : 0..MaxAttempts]
AtWork == {"analyse", "findings", "model", "report", "store"}
Runner == [pc : {"rest", "find", "create", "claim"} \cup AtWork,
           job : Jobs, st : {"none", "failed"} \cup Done]

JobsTypeOK ==
  /\ jobs \in [Jobs -> Job]
  /\ findings \in [Jobs -> 0..MaxAttempts] /\ report \in [Jobs -> 0..MaxAttempts]
  /\ runner \in [Runners -> Runner]
  /\ serving \in BOOLEAN /\ aiFaults \in 0..MaxAIFaults

Works(r, j) == runner[r].pc \in AtWork /\ runner[r].job = j

\* One goroutine works on a job, whoever asks for it how often and whatever
\* fails; and a job that has ended holds the findings and the report of the
\* attempt that ended it (ClaimAIJob, RunAIJob).
ResultsBelong ==
  /\ JobsTypeOK
  /\ \A j \in Jobs :
       /\ \A r, q \in Runners : Works(r, j) /\ Works(q, j) => r = q
       /\ jobs[j].st \in Done => /\ findings[j] = jobs[j].tries
                                 /\ j \in Monthly => report[j] = jobs[j].tries

\* No goroutine has the row: nobody may claim it any more, or only a request
\* for the same job will.
Left(j) == /\ jobs[j].st \in IF j \in Manual THEN Active ELSE {"running"}
           /\ \A r \in Runners : ~Works(r, j) /\ (runner[r].job = j => runner[r].pc # "claim")

\* What the scheduler looks after comes to an end: it is done, or has failed
\* as often as it may, or a fault has left it running or has used up its
\* owner's capacity for good (runScheduledAIJobs, shouldRunAIJob).
ScheduledJobsEnd ==
  \A j \in Daily \cup Monthly :
    serving ~> \/ ~serving
               \/ jobs[j].st \in Done \/ jobs[j].tries = MaxAttempts
               \/ Left(j) \/ Cardinality({k \in Jobs : Left(k)}) >= Capacity
=============================================================================
