-------------------------- MODULE DependencyScheduler --------------------------
(***************************************************************************)
(* topologicalSort and executeDependencyPipeline of                        *)
(* src/services/scheduler/dependencyScheduler.ts: Kahn's algorithm, one    *)
(* round of its loop at a time, and the loop that runs the sorted tasks    *)
(* one after the other.                                                    *)
(*                                                                         *)
(* An attempt races the task's handler against a timer that rejects or,    *)
(* for a task without a timeout, against a promise that is already         *)
(* resolved with undefined.  Losing the race does not stop a handler:      *)
(* `live` counts, for each task, the handler calls that have not settled.  *)
(***************************************************************************)
EXTENDS Integers, Sequences, FiniteSets, SequencesExt

CONSTANTS
  TaskOrder,   \* the ids of the task map in insertion order
  DepLists,    \* the dependency lists a task may be given
  Retries,     \* task.retries of each task
  HasTimeout   \* tasks with a (nonzero) timeout

Tasks == ToSet(TaskOrder)

ASSUME TasksAssumption ==
  /\ TaskOrder \in Seq(Tasks) /\ IsInjective(TaskOrder)
  /\ \A list \in DepLists : list \in Seq(ToSet(list))
  /\ Retries \in [Tasks -> Nat]
  /\ HasTimeout \subseteq Tasks

VARIABLES
  deps,      \* task.dependencies of each task (input, never changed)
  phase,     \* "linking" and "sorting" in topologicalSort; "running", "ended" or "threw"
  inDegree,  \* in topologicalSort: edges into each task that are not consumed
  queue,     \* its queue
  order,     \* its array sorted, and what it returned
  position,  \* index in order of the task the loop is at
  attempt,   \* attempts made at that task
  racing,    \* the loop is suspended at Promise.race
  live,      \* handler calls of each task that have not settled
  started,   \* tasks whose handler has been called
  status,    \* status pushed to results for each task
  output,    \* what context[taskId] holds: "none", "result" or "undefined"
  failed     \* the failed set

sortVars == <<deps, inDegree, queue, order>>
vars == <<sortVars, phase, position, attempt, racing, live, started, status, output, failed>>

-----------------------------------------------------------------------------
Init ==
  /\ deps \in [Tasks -> DepLists]
  /\ phase = "linking"
  /\ inDegree = [t \in Tasks |-> 0]
  /\ queue = <<>>
  /\ order = <<>>
  /\ position = 1
  /\ attempt = 0
  /\ racing = FALSE
  /\ live = [t \in Tasks |-> 0]
  /\ started = {}
  /\ status = [t \in Tasks |-> "none"]
  /\ output = [t \in Tasks |-> "none"]
  /\ failed = {}

-----------------------------------------------------------------------------
(* topologicalSort *)

\* Mutant: a dependency listed twice lowers the in-degree once.
OccursOnce(x, list) == IF x \in ToSet(list) THEN 1 ELSE 0

Occurrences(x, list) == Cardinality({i \in 1 .. Len(list) : list[i] = x})

\* The loop over the dependencies throws on an id that is not in the map.
KnownDependencies == \A t \in Tasks : ToSet(deps[t]) \subseteq Tasks

\* The tasks of S as a loop over the map, or over a list of dependents built by
\* one, comes to them.
Visits(S) ==
  {s \in [1 .. Cardinality(S) -> S] :
     /\ ToSet(s) = S
     /\ \A i, k \in 1 .. Len(s) : i < k =>
          \E a, b \in 1 .. Len(TaskOrder) : a < b /\ TaskOrder[a] = s[i] /\ TaskOrder[b] = s[k]}

\* The graph is built, and the tasks without dependencies are queued.
Link ==
  /\ phase = "linking"
  /\ IF KnownDependencies
     THEN /\ phase' = "sorting"
          /\ inDegree' = [t \in Tasks |-> Len(deps[t])]
          /\ queue' \in Visits({t \in Tasks : inDegree'[t] = 0})
     ELSE phase' = "threw" /\ UNCHANGED <<inDegree, queue>>
  /\ UNCHANGED <<deps, order, position, attempt, racing, live, started, status, output, failed>>

\* A round of the while loop: shift a task, lower the in-degree of its dependents
\* once per listed edge, and push those that reach zero.
Round ==
  /\ phase = "sorting" /\ queue # <<>>
  /\ LET id == Head(queue)
     IN  /\ order' = Append(order, id)
         /\ inDegree' = [t \in Tasks |-> inDegree[t] - Occurrences(id, deps[t])]
         /\ \E freed \in Visits({t \in Tasks : inDegree[t] > 0 /\ inDegree'[t] = 0}) :
              queue' = Tail(queue) \o freed
  /\ UNCHANGED <<deps, phase, position, attempt, racing, live, started, status, output, failed>>

\* The loop has ended; a task that was never queued is on a cycle or behind one.
SortEnds ==
  /\ phase = "sorting" /\ queue = <<>>
  /\ phase' = IF Len(order) = Len(TaskOrder) THEN "running" ELSE "threw"
  /\ UNCHANGED <<sortVars, position, attempt, racing, live, started, status, output, failed>>

-----------------------------------------------------------------------------
(* executeDependencyPipeline *)

Current == order[position]
InLoop == phase = "running" /\ position <= Len(order) /\ ~ racing

\* Mutant: every instead of some.
ShouldSkipIfAllFailed(t) == deps[t] # <<>> /\ ToSet(deps[t]) \subseteq failed

ShouldSkip(t) == ToSet(deps[t]) \cap failed # {}

NextTask == position' = position + 1 /\ attempt' = 0

\* Mutant: a skipped task is not added to the failed set.
SkipOnlyRecorded ==
  /\ InLoop
  /\ ShouldSkip(Current)
  /\ status' = [status EXCEPT ![Current] = "skipped"]
  /\ NextTask
  /\ UNCHANGED <<sortVars, phase, racing, live, started, output, failed>>

Skip ==
  /\ InLoop
  /\ ShouldSkip(Current)
  /\ status' = [status EXCEPT ![Current] = "skipped"]
  /\ failed' = failed \union {Current}
  /\ NextTask
  /\ UNCHANGED <<sortVars, phase, racing, live, started, output>>

\* The race was won by a value: what the handler gave, or undefined.
Record(value) ==
  /\ status' = [status EXCEPT ![Current] = "completed"]
  /\ output' = [output EXCEPT ![Current] = value]
  /\ NextTask
  /\ UNCHANGED failed

\* Mutant: one retry too many.
CatchErrorOffByOne(tries) ==
  /\ IF tries > Retries[Current] + 1
     THEN /\ status' = [status EXCEPT ![Current] = "failed"]
          /\ failed' = failed \union {Current}
          /\ NextTask
     ELSE /\ attempt' = tries
          /\ UNCHANGED <<status, failed, position>>
  /\ UNCHANGED output

\* The race was lost: the while loop tries again or gives the task up.
CatchError(tries) ==
  /\ IF tries >= Retries[Current] + 1
     THEN /\ status' = [status EXCEPT ![Current] = "failed"]
          /\ failed' = failed \union {Current}
          /\ NextTask
     ELSE /\ attempt' = tries
          /\ UNCHANGED <<status, failed, position>>
  /\ UNCHANGED output

\* The handler's promise is already settled when the race starts: it comes first
\* in the array, so its outcome counts with or without a timeout.
SettlesAtOnce ==
  /\ InLoop
  /\ ~ ShouldSkip(Current)
  /\ started' = started \union {Current}
  /\ Record("result") \/ CatchError(attempt + 1)
  /\ UNCHANGED <<sortVars, phase, racing, live>>

\* No timeout and a handler that is still pending: Promise.resolve(undefined)
\* wins and the task counts as completed while its handler runs on.
UndefinedWins ==
  /\ InLoop
  /\ ~ ShouldSkip(Current)
  /\ Current \notin HasTimeout
  /\ started' = started \union {Current}
  /\ live' = [live EXCEPT ![Current] = @ + 1]
  /\ Record("undefined")
  /\ UNCHANGED <<sortVars, phase, racing>>

StartRace ==
  /\ InLoop
  /\ ~ ShouldSkip(Current)
  /\ Current \in HasTimeout
  /\ started' = started \union {Current}
  /\ live' = [live EXCEPT ![Current] = @ + 1]
  /\ attempt' = attempt + 1
  /\ racing' = TRUE
  /\ UNCHANGED <<sortVars, phase, position, status, output, failed>>

HandlerWins ==
  /\ racing
  /\ racing' = FALSE
  /\ live' = [live EXCEPT ![Current] = @ - 1]
  /\ Record("result") \/ CatchError(attempt)
  /\ UNCHANGED <<sortVars, phase, started>>

\* Mutant: the timer is created once, outside the retry loop.
TimeoutWinsOnce ==
  /\ racing
  /\ attempt = 1
  /\ racing' = FALSE
  /\ CatchError(attempt)
  /\ UNCHANGED <<sortVars, phase, live, started>>

\* The timer rejects first; the handler is not cancelled.
TimeoutWins ==
  /\ racing
  /\ racing' = FALSE
  /\ CatchError(attempt)
  /\ UNCHANGED <<sortVars, phase, live, started>>

\* A handler that lost its race settles, to no effect.
LateSettle(t) ==
  /\ live[t] > (IF racing /\ Current = t THEN 1 ELSE 0)
  /\ live' = [live EXCEPT ![t] = @ - 1]
  /\ UNCHANGED <<sortVars, phase, position, attempt, racing, started, status, output, failed>>

Return ==
  /\ phase = "running"
  /\ position > Len(order)
  /\ phase' = "ended"
  /\ UNCHANGED <<sortVars, position, attempt, racing, live, started, status, output, failed>>

Sort == Link \/ Round \/ SortEnds
Step == Skip \/ SettlesAtOnce \/ UndefinedWins \/ StartRace \/ Return
RaceEnds == HandlerWins \/ TimeoutWins

Next == Sort \/ Step \/ RaceEnds \/ \E t \in Tasks : LateSettle(t)

Spec == Init /\ [][Next]_vars

\* The loop runs on and timers fire.  Nothing is assumed of the handlers, which
\* may never settle: whether one settles at once is a choice within Step.
FairSpec == Spec /\ WF_vars(Sort) /\ WF_vars(Step) /\ WF_vars(TimeoutWins)

-----------------------------------------------------------------------------
TypeOK ==
  /\ deps \in [Tasks -> DepLists]
  /\ phase \in {"linking", "sorting", "running", "ended", "threw"}
  /\ inDegree \in [Tasks -> Nat]
  /\ queue \in Seq(Tasks) /\ order \in Seq(Tasks)
  /\ position \in 1 .. Len(TaskOrder) + 1
  /\ racing => position <= Len(order) /\ live[Current] > 0
  /\ position <= Len(order) => attempt \in 0 .. Retries[Current] + 1
  /\ \A t \in Tasks : live[t] \in 0 .. Retries[t] + 1
  /\ started \subseteq Tasks
  /\ status \in [Tasks -> {"none", "completed", "failed", "skipped"}]
  /\ output \in [Tasks -> {"none", "result", "undefined"}]
  /\ failed = {t \in Tasks : status[t] \in {"failed", "skipped"}}

\* A cycle is a set of tasks each of which depends on another one of the set.
Acyclic ==
  ~ \E S \in SUBSET Tasks : S # {} /\ \A t \in S : ToSet(deps[t]) \cap S # {}

\* topologicalSort throws exactly on an unknown dependency or a cycle, and
\* otherwise returns every task once, after all of its dependencies, also when a
\* dependency is listed twice.
SortIsTopological ==
  /\ phase = "threw" => ~ (KnownDependencies /\ Acyclic)
  /\ phase \in {"running", "ended"} =>
       /\ KnownDependencies /\ Acyclic
       /\ ToSet(order) = Tasks /\ IsInjective(order)
       /\ \A i, k \in 1 .. Len(order) :
            order[i] \in ToSet(deps[order[k]]) => i < k

\* A handler is only called when every dependency is recorded as completed, and
\* the output of each dependency that has a timeout is in the context by then:
\* retries and timeouts of earlier tasks never let a dependent start early.
DependentsWait ==
  \A t \in started : \A d \in ToSet(deps[t]) :
    /\ status[d] = "completed"
    /\ d \in HasTimeout => output[d] = "result"

\* When the pipeline ends, a task was skipped exactly if one of its direct or
\* indirect dependencies failed, and never ran in that case.
FailurePropagates ==
  phase = "ended" =>
    \A t \in Tasks :
      LET blocked == \E d \in ToSet(deps[t]) : status[d] \in {"failed", "skipped"}
      IN  /\ status[t] = "skipped" <=> blocked
          /\ t \in started <=> ~ blocked
          /\ output[t] # "none" <=> status[t] = "completed"

\* The pipeline always ends, even when handlers hang: a pending handler is
\* either overtaken by its timer or not waited for at all.
EveryRunEnds == <>(phase \in {"ended", "threw"})

\* Step A must complete and provide its output before Step B can begin.
OutputBeforeDependents ==
  \A t \in started : \A d \in ToSet(deps[t]) : output[d] = "result"
================================================================================
