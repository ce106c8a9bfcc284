---------------------------- MODULE RecurringTasks ----------------------------
(***************************************************************************)
(* The interval tasks of src/services/scheduler/recurringTasks.ts.         *)
(***************************************************************************)
EXTENDS Integers

CONSTANTS
  RecTasks,      \* tasks that may be created, each once
  MaxIntervals,  \* bound on intervals of one task
  MaxRuns        \* bound on runs of one task at a time

ASSUME RecurringAssumption == MaxIntervals \in Nat \ {0} /\ MaxRuns \in Nat \ {0}

VARIABLES
  recCreated,  \* tasks ever created
  recTasks,    \* the tasks map
  recEnabled,  \* task.enabled, kept by a removed task's object
  intervals,   \* tasks with an entry in the intervals map
  alive,       \* intervals of each task that have not been cleared
  running,     \* runs of each task that await its handler
  doubled      \* history: tasks resumed while they had an interval

recurringVars == <<recCreated, recTasks, recEnabled, intervals, alive, running, doubled>>

RecurringInit ==
  /\ recCreated = {} /\ recTasks = {} /\ recEnabled = {} /\ intervals = {}
  /\ alive = [t \in RecTasks |-> 0]
  /\ running = [t \in RecTasks |-> 0]
  /\ doubled = {}

\* startTask: the new handle replaces the old one in the map.
StartTask(t) ==
  /\ alive[t] < MaxIntervals
  /\ alive' = [alive EXCEPT ![t] = @ + 1]
  /\ intervals' = intervals \union {t}

CreateRecurringTask(t, enabled, immediately) ==
  /\ t \notin recCreated
  /\ recCreated' = recCreated \union {t}
  /\ recTasks' = recTasks \union {t}
  /\ IF enabled
     THEN /\ recEnabled' = recEnabled \union {t}
          /\ StartTask(t)
          /\ running' = [running EXCEPT ![t] = IF immediately THEN @ + 1 ELSE @]
     ELSE UNCHANGED <<recEnabled, alive, intervals, running>>
  /\ UNCHANGED doubled

\* An interval fires: runTask up to its await, whatever runs are under way.
RunTask(t) ==
  /\ alive[t] > 0
  /\ t \in recTasks \cap recEnabled
  /\ running[t] < MaxRuns
  /\ running' = [running EXCEPT ![t] = @ + 1]
  /\ UNCHANGED <<recCreated, recTasks, recEnabled, intervals, alive, doubled>>

RunSettles(t) ==
  /\ running[t] > 0
  /\ running' = [running EXCEPT ![t] = @ - 1]
  /\ UNCHANGED <<recCreated, recTasks, recEnabled, intervals, alive, doubled>>

\* Mutant: the handle is cleared, but its entry stays.
StopTaskKeepingEntry(t) ==
  /\ recEnabled' = recEnabled \ {t}
  /\ alive' = [alive EXCEPT ![t] = IF t \in intervals THEN @ - 1 ELSE @]
  /\ UNCHANGED intervals

\* pauseTask clears the interval that is in the map.
StopTask(t) ==
  /\ recEnabled' = recEnabled \ {t}
  /\ alive' = [alive EXCEPT ![t] = IF t \in intervals THEN @ - 1 ELSE @]
  /\ intervals' = intervals \ {t}

PauseTask(t) ==
  /\ t \in recTasks
  /\ StopTask(t)
  /\ UNCHANGED <<recCreated, recTasks, running, doubled>>

ResumeTask(t) ==
  /\ t \in recTasks
  /\ recEnabled' = recEnabled \union {t}
  /\ StartTask(t)
  /\ doubled' = IF t \in intervals THEN doubled \union {t} ELSE doubled
  /\ UNCHANGED <<recCreated, recTasks, running>>

RemoveTask(t) ==
  /\ t \in recTasks
  /\ StopTask(t)
  /\ recTasks' = recTasks \ {t}
  /\ UNCHANGED <<recCreated, running, doubled>>

RecurringNext ==
  \E t \in RecTasks :
    \/ \E enabled, immediately \in BOOLEAN : CreateRecurringTask(t, enabled, immediately)
    \/ RunTask(t) \/ RunSettles(t)
    \/ PauseTask(t) \/ ResumeTask(t) \/ RemoveTask(t)

RecurringSpec == RecurringInit /\ [][RecurringNext]_recurringVars

RecurringTypeOK ==
  /\ recTasks \subseteq recCreated /\ recCreated \subseteq RecTasks
  /\ intervals \subseteq recTasks /\ doubled \subseteq recCreated
  /\ recEnabled \subseteq recTasks
  /\ alive \in [RecTasks -> 0 .. MaxIntervals]
  /\ running \in [RecTasks -> 0 .. MaxRuns]

\* The map holds an interval for exactly the enabled tasks, and a task that was
\* never resumed twice in a row has no other: none once it is paused or
\* removed.  Each second resume leaks an interval that nothing can clear.
IntervalsMatch ==
  /\ intervals = recEnabled
  /\ \A t \in RecTasks :
       IF t \in doubled THEN alive[t] >= (IF t \in recEnabled THEN 2 ELSE 1)
                        ELSE alive[t] = (IF t \in recEnabled THEN 1 ELSE 0)
=============================================================================
