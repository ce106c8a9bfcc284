------------------------------ MODULE TaskQueue ------------------------------
(***************************************************************************)
(* The in-memory task queue of src/services/queue/taskQueue.ts.            *)
(*                                                                         *)
(* Node runs one callback at a time, so every stretch of code between two  *)
(* awaits is one action.  processNext is entered only from setImmediate    *)
(* callbacks: `ticks` counts the callbacks that are scheduled and have not *)
(* run.  It suspends at `await handler(job)`: `executing` is the set of    *)
(* jobs whose invocation is suspended there, and it resumes, in any order  *)
(* among the jobs, when the handler's promise settles.                     *)
(***************************************************************************)
EXTENDS Integers, Sequences, FiniteSets, SequencesExt

CONSTANTS
  Jobs,             \* the jobs callers may enqueue; each is enqueued once
  Types,            \* job types
  JobType,          \* type given to each job
  Priority,         \* priority given to each job; larger is more urgent
  MaxAttempts,      \* maxAttempts given to each job
  Concurrency,      \* options.concurrency
  InitialHandlers,  \* types whose handler is registered at start-up
  ListenerFaults    \* events with a listener that may throw

ASSUME JobsAssumption ==
  /\ IsFiniteSet(Jobs)
  /\ JobType \in [Jobs -> Types]
  /\ Priority \in [Jobs -> Int]
  /\ MaxAttempts \in [Jobs -> Int]
ASSUME OptionsAssumption ==
  /\ Concurrency \in Nat
  /\ InitialHandlers \subseteq Types
  /\ ListenerFaults \subseteq {"job:enqueued", "job:started", "job:completed"}

VARIABLES
  status,     \* status of each job; "absent" before enqueue puts it in the map
  attempts,   \* job.attempts
  queue,      \* this.queue: ids of the waiting jobs, next one first
  handlers,   \* keys of this.handlers
  running,    \* this.running
  executing,  \* jobs whose handler has been called and has not settled
  ticks,      \* setImmediate(processNext) callbacks that have not run yet
  finished    \* jobs whose handler has returned, which sets job.result

vars == <<status, attempts, queue, handlers, running, executing, ticks, finished>>

Statuses == {"absent", "pending", "running", "completed", "failed"}

Init ==
  /\ status = [j \in Jobs |-> "absent"]
  /\ attempts = [j \in Jobs |-> 0]
  /\ queue = <<>>
  /\ handlers = InitialHandlers
  /\ running = 0
  /\ executing = {}
  /\ ticks = 0
  /\ finished = {}

-----------------------------------------------------------------------------
\* Registering again only replaces the function, which changes nothing here.
RegisterHandler(t) ==
  /\ t \notin handlers
  /\ handlers' = handlers \union {t}
  /\ UNCHANGED <<status, attempts, queue, running, executing, ticks, finished>>

\* Mutant: the comparison is turned round.
InsertByPriorityReversed(q, j) ==
  LET higher == {i \in 1 .. Len(q) : Priority[q[i]] > Priority[j]}
  IN  IF higher = {} THEN Append(q, j) ELSE InsertAt(q, Min(higher), j)

\* The job goes before the first waiting job of strictly lower priority, so
\* that equal priorities stay in the order they were enqueued.
InsertByPriority(q, j) ==
  LET lower == {i \in 1 .. Len(q) : Priority[q[i]] < Priority[j]}
  IN  IF lower = {} THEN Append(q, j) ELSE InsertAt(q, Min(lower), j)

\* Mutant: a job is only announced to an idle queue.
EnqueueQuietly(j) ==
  /\ status[j] = "absent"
  /\ status' = [status EXCEPT ![j] = "pending"]
  /\ queue' = InsertByPriority(queue, j)
  /\ ticks' = IF running = 0 THEN ticks + 1 ELSE ticks
  /\ UNCHANGED <<attempts, handlers, running, executing, finished>>

\* A throwing "job:enqueued" listener aborts enqueue after the job is in the
\* queue and before setImmediate: the job waits and no callback is scheduled.
Enqueue(j) ==
  /\ status[j] = "absent"
  /\ status' = [status EXCEPT ![j] = "pending"]
  /\ queue' = InsertByPriority(queue, j)
  /\ \/ ticks' = ticks + 1
     \/ "job:enqueued" \in ListenerFaults /\ ticks' = ticks
  /\ UNCHANGED <<attempts, handlers, running, executing, finished>>

-----------------------------------------------------------------------------
(* processNext, up to its await: one setImmediate callback runs.           *)

NothingToDo ==
  /\ ticks > 0
  /\ running >= Concurrency \/ queue = <<>>
  /\ ticks' = ticks - 1
  /\ UNCHANGED <<status, attempts, queue, handlers, running, executing, finished>>

\* The early return of an unhandled job schedules no further callback.
RejectNext ==
  /\ ticks > 0
  /\ running < Concurrency
  /\ queue # <<>>
  /\ JobType[Head(queue)] \notin handlers
  /\ ticks' = ticks - 1
  /\ queue' = Tail(queue)
  /\ status' = [status EXCEPT ![Head(queue)] = "failed"]
  /\ UNCHANGED <<attempts, handlers, running, executing, finished>>

\* Mutant: one job too many is started.
StartNextOffByOne ==
  /\ ticks > 0
  /\ running <= Concurrency
  /\ queue # <<>>
  /\ JobType[Head(queue)] \in handlers
  /\ ticks' = ticks - 1
  /\ queue' = Tail(queue)
  /\ running' = running + 1
  /\ status' = [status EXCEPT ![Head(queue)] = "running"]
  /\ attempts' = [attempts EXCEPT ![Head(queue)] = @ + 1]
  /\ executing' = executing \union {Head(queue)}
  /\ UNCHANGED <<handlers, finished>>

\* "job:started" is emitted outside the try block: when a listener throws, the
\* handler is not called and the finally block never gives the slot back.
StartNext ==
  /\ ticks > 0
  /\ running < Concurrency
  /\ queue # <<>>
  /\ JobType[Head(queue)] \in handlers
  /\ ticks' = ticks - 1
  /\ queue' = Tail(queue)
  /\ running' = running + 1
  /\ status' = [status EXCEPT ![Head(queue)] = "running"]
  /\ attempts' = [attempts EXCEPT ![Head(queue)] = @ + 1]
  /\ \/ executing' = executing \union {Head(queue)}
     \/ "job:started" \in ListenerFaults /\ executing' = executing
  /\ UNCHANGED <<handlers, finished>>

ProcessNext == NothingToDo \/ RejectNext \/ StartNext

-----------------------------------------------------------------------------
(* The rest of processNext, when the handler's promise settles.  The event *)
(* "job:completed" is emitted inside the try, before the catch block.      *)

\* Mutants: the slot is given back in the catch block and again in the finally
\* block; the finally block does not go on to the next job.
ReleaseSlotTwice(j) ==
  /\ executing' = executing \ {j}
  /\ running' = running - 2
  /\ ticks' = ticks + 1
ReleaseSlotAndRest(j) ==
  /\ executing' = executing \ {j}
  /\ running' = running - 1
  /\ UNCHANGED ticks

\* The finally block.
ReleaseSlot(j) ==
  /\ executing' = executing \ {j}
  /\ running' = running - 1
  /\ ticks' = ticks + 1

Complete(j) ==
  /\ j \in executing
  /\ status' = [status EXCEPT ![j] = "completed"]
  /\ finished' = finished \union {j}
  /\ ReleaseSlot(j)
  /\ UNCHANGED <<attempts, queue, handlers>>

\* The handler rejected, or it returned and a "job:completed" listener threw.
CatchEntered(j) ==
  /\ j \in executing
  /\ \/ finished' = finished
     \/ "job:completed" \in ListenerFaults /\ finished' = finished \union {j}

\* Mutants of the retry: one attempt too many, the status not reset, the
\* attempts counted anew.
RetryOnceMore(j) ==
  /\ CatchEntered(j)
  /\ attempts[j] <= MaxAttempts[j]
  /\ status' = [status EXCEPT ![j] = "pending"]
  /\ queue' = Append(queue, j)
  /\ ReleaseSlot(j)
  /\ UNCHANGED <<attempts, handlers>>
RetryStillRunning(j) ==
  /\ CatchEntered(j)
  /\ attempts[j] < MaxAttempts[j]
  /\ queue' = Append(queue, j)
  /\ ReleaseSlot(j)
  /\ UNCHANGED <<status, attempts, handlers>>
RetryAfresh(j) ==
  /\ CatchEntered(j)
  /\ attempts[j] < MaxAttempts[j]
  /\ status' = [status EXCEPT ![j] = "pending"]
  /\ queue' = Append(queue, j)
  /\ attempts' = [attempts EXCEPT ![j] = 0]
  /\ ReleaseSlot(j)
  /\ UNCHANGED handlers

\* A retry goes to the tail of the queue, whatever its priority.
RetryLater(j) ==
  /\ CatchEntered(j)
  /\ attempts[j] < MaxAttempts[j]
  /\ status' = [status EXCEPT ![j] = "pending"]
  /\ queue' = Append(queue, j)
  /\ ReleaseSlot(j)
  /\ UNCHANGED <<attempts, handlers>>

FailForGood(j) ==
  /\ CatchEntered(j)
  /\ attempts[j] >= MaxAttempts[j]
  /\ status' = [status EXCEPT ![j] = "failed"]
  /\ ReleaseSlot(j)
  /\ UNCHANGED <<attempts, queue, handlers>>

Settle(j) == Complete(j) \/ RetryLater(j) \/ FailForGood(j)

Next ==
  \/ \E t \in Types : RegisterHandler(t)
  \/ \E j \in Jobs : Enqueue(j)
  \/ ProcessNext
  \/ \E j \in Jobs : Settle(j)

Spec == Init /\ [][Next]_vars

\* Node always runs a setImmediate callback; a handler is assumed to settle.
Fairness ==
  /\ WF_vars(ProcessNext)
  /\ \A j \in Jobs : WF_vars(Settle(j))

FairSpec == Spec /\ Fairness

-----------------------------------------------------------------------------
TypeOK ==
  /\ status \in [Jobs -> Statuses]
  /\ attempts \in [Jobs -> Nat]
  /\ queue \in Seq(Jobs)
  /\ handlers \subseteq Types
  /\ running \in Nat
  /\ executing \subseteq Jobs
  /\ ticks \in Nat
  /\ finished \subseteq Jobs

Running == {j \in Jobs : status[j] = "running"}

\* The array of ids and the statuses in the map never disagree: the queue holds
\* exactly the pending jobs, each one once.
QueueIsPending ==
  /\ \A j \in Jobs : status[j] = "pending" <=> \E i \in 1 .. Len(queue) : queue[i] = j
  /\ \A i, k \in 1 .. Len(queue) : queue[i] = queue[k] => i = k

\* this.running counts the running jobs, never exceeds the concurrency, and a
\* slot without a live handler exists only if a "job:started" listener threw.
SlotAccounting ==
  /\ running = Cardinality(Running)
  /\ running <= Concurrency
  /\ executing \subseteq Running
  /\ "job:started" \notin ListenerFaults => executing = Running

WithinBudget ==
  \A j \in Jobs :
    /\ attempts[j] > 1 => attempts[j] <= MaxAttempts[j]
    /\ status[j] = "pending" /\ attempts[j] > 0 => attempts[j] < MaxAttempts[j]
    /\ status[j] = "failed" /\ JobType[j] \in InitialHandlers => attempts[j] >= MaxAttempts[j]

FinishedIsFinal ==
  "job:completed" \notin ListenerFaults => \A j \in finished : status[j] = "completed"

\* A job is attempted at most maxAttempts times (once if that is not positive),
\* and is given up for good only with its budget spent or without a handler; no
\* attempt is spent on a job whose handler has returned, as long as no listener
\* of "job:completed" throws.
AttemptBudget == WithinBudget /\ FinishedIsFinal

\* A job that has not been tried yet never waits behind a job of lower
\* priority, even though retried jobs are put back without regard to it.
FreshJobsByPriority ==
  \A i, k \in 1 .. Len(queue) :
    i < k /\ attempts[queue[k]] = 0 => Priority[queue[i]] >= Priority[queue[k]]

\* No wake-up is lost: whenever jobs wait and slots are free, enough callbacks
\* are scheduled to fill the slots or to empty the queue.
WorkConserving ==
  ticks >= Len(queue) \/ ticks >= Concurrency - running

\* A waiting job that has a handler is dispatched or settled.
HandledJobsAreDispatched ==
  \A j \in Jobs :
    (status[j] = "pending" /\ JobType[j] \in handlers) ~> (status[j] # "pending")

-----------------------------------------------------------------------------
Pool == INSTANCE JobPool WITH Workers <- Concurrency

\* The queue, the callbacks and the counter together implement a plain pool of
\* workers: no listener fault, late handler or retry makes a step it forbids.
ImplementsJobPool == Pool!Spec

\* With handlers registered first, it is a pool that serves every job: each one
\* that is accepted ends completed or failed.
ImplementsFairJobPool == Pool!FairSpec
=============================================================================
