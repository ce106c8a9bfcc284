----------------------------- MODULE JobScheduler -----------------------------
(***************************************************************************)
(* The cron jobs and one-time tasks of                                     *)
(* src/services/scheduler/jobScheduler.ts.                                 *)
(*                                                                         *)
(* node-cron is external: a started instance ticks, a stopped one does not. *)
(* A tick does not wait for the previous run of the job.                   *)
(***************************************************************************)
EXTENDS Integers, FiniteSets

CONSTANTS
  CronJobs,    \* jobs that may be scheduled, each once
  OnceTasks,   \* one-time tasks, each scheduled once
  FarTasks,    \* those so far ahead that the delay overflows setTimeout
  MaxOverlap   \* bound on runs of one job at a time

ASSUME SchedulerAssumption ==
  FarTasks \subseteq OnceTasks /\ MaxOverlap \in Nat \ {0}

VARIABLES
  jobs,           \* jobs in the map
  jobEnabled,     \* job.enabled
  cronInstances,  \* jobs with an entry in cronInstances
  ticking,        \* jobs whose node-cron task is started
  jobRuns,        \* runs of each job that await its handler
  taskStatus,     \* task.status; "none" before it is scheduled
  timers,         \* tasks whose setImmediate or setTimeout has not fired
  reached,        \* tasks whose runAt has come
  early           \* history: tasks that ran before their runAt

schedulerVars == <<jobs, jobEnabled, cronInstances, ticking, jobRuns,
                   taskStatus, timers, reached, early>>
cronVars == <<jobs, jobEnabled, cronInstances, ticking, jobRuns>>
onceVars == <<taskStatus, timers, reached, early>>

SchedulerInit ==
  /\ jobs = {} /\ jobEnabled = {} /\ cronInstances = {} /\ ticking = {}
  /\ jobRuns = [j \in CronJobs |-> 0]
  /\ taskStatus = [t \in OnceTasks |-> "none"]
  /\ timers = {} /\ reached = {} /\ early = {}

-----------------------------------------------------------------------------
\* Only a job created enabled gets a node-cron task.
ScheduleCronJob(j, enabled) ==
  LET started == IF enabled THEN {j} ELSE {}
  IN  /\ j \notin jobs
      /\ jobs' = jobs \union {j}
      /\ jobEnabled' = jobEnabled \union started
      /\ cronInstances' = cronInstances \union started
      /\ ticking' = ticking \union started
      /\ UNCHANGED <<jobRuns, onceVars>>

\* runJob up to its await; a tick of a disabled job returns at once.
RunJob(j) ==
  /\ j \in ticking \cap jobEnabled
  /\ jobRuns[j] < MaxOverlap
  /\ jobRuns' = [jobRuns EXCEPT ![j] = @ + 1]
  /\ UNCHANGED <<jobs, jobEnabled, cronInstances, ticking, onceVars>>

\* The handler resolves, or rejects and is counted.
JobSettles(j) ==
  /\ jobRuns[j] > 0
  /\ jobRuns' = [jobRuns EXCEPT ![j] = @ - 1]
  /\ UNCHANGED <<jobs, jobEnabled, cronInstances, ticking, onceVars>>

PauseJob(j) ==
  /\ j \in jobs
  /\ jobEnabled' = jobEnabled \ {j}
  /\ ticking' = ticking \ (cronInstances \cap {j})
  /\ UNCHANGED <<jobs, cronInstances, jobRuns, onceVars>>

\* Mutant: resuming creates the missing instance but does not keep it.
ResumeJobAfresh(j) ==
  /\ j \in jobs
  /\ jobEnabled' = jobEnabled \union {j}
  /\ ticking' = ticking \union {j}
  /\ UNCHANGED <<jobs, cronInstances, jobRuns, onceVars>>

\* Without an instance in the map the job is enabled, but never ticks.
ResumeJob(j) ==
  /\ j \in jobs
  /\ jobEnabled' = jobEnabled \union {j}
  /\ ticking' = ticking \union (cronInstances \cap {j})
  /\ UNCHANGED <<jobs, cronInstances, jobRuns, onceVars>>

StopAll ==
  /\ ticking' = ticking \ cronInstances
  /\ cronInstances' = {}
  /\ UNCHANGED <<jobs, jobEnabled, jobRuns, onceVars>>

-----------------------------------------------------------------------------
ScheduleOneTimeTask(t) ==
  /\ taskStatus[t] = "none"
  /\ taskStatus' = [taskStatus EXCEPT ![t] = "pending"]
  /\ timers' = timers \union {t}
  /\ UNCHANGED <<cronVars, reached, early>>

RunAtComes(t) ==
  /\ t \notin reached
  /\ reached' = reached \union {t}
  /\ UNCHANGED <<cronVars, taskStatus, timers, early>>

\* runOneTimeTask up to its await.  A delay above 2^31 - 1 becomes 1 ms.
RunOneTimeTask(t) ==
  /\ t \in timers
  /\ t \in reached \union FarTasks
  /\ taskStatus[t] = "pending"
  /\ timers' = timers \ {t}
  /\ taskStatus' = [taskStatus EXCEPT ![t] = "running"]
  /\ early' = IF t \in reached THEN early ELSE early \union {t}
  /\ UNCHANGED <<cronVars, reached>>

OneTimeTaskSettles(t) ==
  /\ taskStatus[t] = "running"
  /\ \E outcome \in {"completed", "failed"} :
       taskStatus' = [taskStatus EXCEPT ![t] = outcome]
  /\ UNCHANGED <<cronVars, timers, reached, early>>

-----------------------------------------------------------------------------
CronStep ==
  \/ \E j \in CronJobs :
       \/ \E enabled \in BOOLEAN : ScheduleCronJob(j, enabled)
       \/ RunJob(j) \/ PauseJob(j) \/ ResumeJob(j)
  \/ StopAll

OnceStep ==
  \E t \in OnceTasks :
    ScheduleOneTimeTask(t) \/ RunAtComes(t) \/ RunOneTimeTask(t) \/ OneTimeTaskSettles(t)

SchedulerNext == CronStep \/ OnceStep \/ \E j \in CronJobs : JobSettles(j)

SchedulerSpec == SchedulerInit /\ [][SchedulerNext]_schedulerVars

SchedulerTypeOK ==
  /\ cronInstances \subseteq jobs /\ jobs \subseteq CronJobs
  /\ jobEnabled \subseteq jobs /\ ticking \subseteq jobs
  /\ jobRuns \in [CronJobs -> 0 .. MaxOverlap]
  /\ taskStatus \in [OnceTasks -> {"none", "pending", "running", "completed", "failed"}]
  /\ timers \subseteq OnceTasks /\ reached \subseteq OnceTasks /\ early \subseteq OnceTasks

\* The jobs that tick are the enabled ones with an instance in the map: no
\* sequence of pause, resume and stopAll leaves a job ticking that pauseJob or
\* stopAll can no longer stop.
CronTimersMatch == ticking = jobEnabled \cap cronInstances

\* A pending one-time task has exactly its one timer, and it never runs before
\* its time unless the delay overflows.
OnceTimersMatch ==
  /\ timers = {t \in OnceTasks : taskStatus[t] = "pending"}
  /\ early \subseteq FarTasks
=============================================================================
