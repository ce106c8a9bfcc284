------------------------------- MODULE JobPool -------------------------------
(***************************************************************************)
(* What a queue of this system promises the code that submits jobs,        *)
(* without saying how: a job waits, is dispatched to one of a bounded      *)
(* number of workers, and ends completed or failed after at most its       *)
(* budget of attempts.  There is no queue, no priority and no event loop   *)
(* here.  TaskQueue implements this specification with its slots as the    *)
(* workers, EmailQueue with the one pass that may be under way.            *)
(***************************************************************************)
EXTENDS Integers, FiniteSets

CONSTANTS
  Jobs,         \* every job that can ever be submitted
  MaxAttempts,  \* attempt budget of each job
  Workers       \* number of jobs that may run at the same time

VARIABLES
  status,       \* life-cycle state of each job
  attempts      \* number of times each job has been dispatched

vars == <<status, attempts>>

Running == {j \in Jobs : status[j] = "running"}

Init ==
  /\ status = [j \in Jobs |-> "absent"]
  /\ attempts = [j \in Jobs |-> 0]

Submit(j) ==
  /\ status[j] = "absent"
  /\ status' = [status EXCEPT ![j] = "pending"]
  /\ UNCHANGED attempts

\* A job nobody knows how to run fails without being attempted again.
Reject(j) ==
  /\ status[j] = "pending"
  /\ status' = [status EXCEPT ![j] = "failed"]
  /\ UNCHANGED attempts

Dispatch(j) ==
  /\ status[j] = "pending"
  /\ Cardinality(Running) < Workers
  /\ status' = [status EXCEPT ![j] = "running"]
  /\ attempts' = [attempts EXCEPT ![j] = @ + 1]

Succeed(j) ==
  /\ status[j] = "running"
  /\ status' = [status EXCEPT ![j] = "completed"]
  /\ UNCHANGED attempts

\* A failed attempt is tried again exactly while the budget allows it.
Retry(j) ==
  /\ status[j] = "running"
  /\ attempts[j] < MaxAttempts[j]
  /\ status' = [status EXCEPT ![j] = "pending"]
  /\ UNCHANGED attempts

GiveUp(j) ==
  /\ status[j] = "running"
  /\ attempts[j] >= MaxAttempts[j]
  /\ status' = [status EXCEPT ![j] = "failed"]
  /\ UNCHANGED attempts

Settle(j) == Succeed(j) \/ Retry(j) \/ GiveUp(j)

Next == \E j \in Jobs : Submit(j) \/ Reject(j) \/ Dispatch(j) \/ Settle(j)

Spec == Init /\ [][Next]_vars

-----------------------------------------------------------------------------
\* A worker is never idle for ever while a job waits, and every attempt ends.
Fairness ==
  /\ WF_vars(\E j \in Jobs : Reject(j) \/ Dispatch(j))
  /\ \A j \in Jobs : WF_vars(Settle(j))

FairSpec == Spec /\ Fairness
=============================================================================
