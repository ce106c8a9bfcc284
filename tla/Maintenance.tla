------------------------------ MODULE Maintenance ------------------------------
(***************************************************************************)
(* The system cron tasks of src/services/scheduler/cronTasks.ts: the job   *)
(* scheduler driving the dead letter queue.  The handler of the purge task *)
(* awaits an import and then purges; those of the others only log.         *)
(***************************************************************************)
EXTENDS JobScheduler, DeadLetterQueue

CONSTANT PurgeTask  \* the job "dlq-purge"

ASSUME MaintenanceAssumption == PurgeTask \in CronJobs

maintenanceVars == <<schedulerVars, dlqVars>>

MaintenanceInit == SchedulerInit /\ DlqInit

\* The task may be paused between its tick and the purge; it purges nevertheless.
PurgeRuns == JobSettles(PurgeTask) /\ PurgeAcknowledged

OtherTaskEnds(j) == j # PurgeTask /\ JobSettles(j) /\ UNCHANGED dlqVars

RegisterTask(j) == ScheduleCronJob(j, TRUE) /\ UNCHANGED dlqVars

\* registerAllCronTasks and the other users of cron jobs and of the queue.
\* One-time tasks share no variable with either.
MaintenanceNext ==
  \/ CronStep /\ UNCHANGED dlqVars
  \/ DlqNext /\ UNCHANGED schedulerVars
  \/ PurgeRuns
  \/ \E j \in CronJobs : RegisterTask(j) \/ OtherTaskEnds(j)

MaintenanceSpec == MaintenanceInit /\ [][MaintenanceNext]_maintenanceVars

\* A started cron task ticks, handlers settle, time passes.
MaintenanceFairness ==
  /\ WF_maintenanceVars(RunJob(PurgeTask) /\ UNCHANGED dlqVars)
  /\ WF_maintenanceVars(PurgeRuns)
  /\ WF_maintenanceVars(GrowsOld /\ UNCHANGED schedulerVars)

\* An acknowledged message is purged in the end, unless the purge task is
\* paused or stopped, from which only a resume with a live instance recovers it.
AcknowledgedArePurged ==
  \A m \in Messages :
    (PurgeTask \in ticking /\ m \in acknowledged)
      ~> (PurgeTask \notin ticking \/ m \notin messages)
=============================================================================
