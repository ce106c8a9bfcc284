---------------------------- MODULE RetryPromise -----------------------------
(***************************************************************************)
(* What the retry queue promises its callers, without saying how: an item  *)
(* is kept from the call that schedules it until it is withdrawn or one of *)
(* its attempts settles it, and a failed attempt settles it unless the     *)
(* budget allows another.  Attempts of one item may overlap.  There are no *)
(* passes, timers, due times or handlers here.                             *)
(***************************************************************************)
EXTENDS Integers

CONSTANTS
  Items,        \* every item that can ever be scheduled
  MaxAttempts   \* attempt budget of each item

VARIABLES
  accepted,     \* items that were ever scheduled
  kept,         \* items that are in the queue
  attempts,     \* number of attempts of each item that have started
  underWay      \* number of attempts of each item that have not settled

vars == <<accepted, kept, attempts, underWay>>

Init ==
  /\ accepted = {}
  /\ kept = {}
  /\ attempts = [i \in Items |-> 0]
  /\ underWay = [i \in Items |-> 0]

Accept(i) ==
  /\ i \notin accepted
  /\ accepted' = accepted \union {i}
  /\ kept' = kept \union {i}
  /\ UNCHANGED <<attempts, underWay>>

\* The caller cancels the item, or nobody knows how to attempt it.
Withdraw(i) ==
  /\ i \in kept
  /\ kept' = kept \ {i}
  /\ UNCHANGED <<accepted, attempts, underWay>>

\* Only an item that is in the queue is attempted.
Begin(i) ==
  /\ i \in kept
  /\ attempts' = [attempts EXCEPT ![i] = @ + 1]
  /\ underWay' = [underWay EXCEPT ![i] = @ + 1]
  /\ UNCHANGED <<accepted, kept>>

\* An attempt settles the item: it succeeded, or failed with the budget used up.
Conclude(i) ==
  /\ underWay[i] > 0
  /\ underWay' = [underWay EXCEPT ![i] = @ - 1]
  /\ kept' = kept \ {i}
  /\ UNCHANGED <<accepted, attempts>>

\* A failed attempt leaves the item where it is only below the budget.
Fail(i) ==
  /\ underWay[i] > 0
  /\ attempts[i] < MaxAttempts[i]
  /\ underWay' = [underWay EXCEPT ![i] = @ - 1]
  /\ UNCHANGED <<accepted, kept, attempts>>

Next == \E i \in Items : Accept(i) \/ Withdraw(i) \/ Begin(i) \/ Conclude(i) \/ Fail(i)

Spec == Init /\ [][Next]_vars
=============================================================================
