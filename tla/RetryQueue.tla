------------------------------ MODULE RetryQueue ------------------------------
(***************************************************************************)
(* The retry queue of src/services/queue/retryQueue.ts.                    *)
(*                                                                         *)
(* An interval timer starts a pass (processDue) every second, whether or   *)
(* not earlier passes have ended.  A pass walks the live items map in      *)
(* insertion order and awaits the handler of each item that was due when   *)
(* the pass started, so several passes can be suspended at once.           *)
(*                                                                         *)
(* Time is abstract.  An item ripens when its nextRetryAt passes, and the  *)
(* comparison `item.nextRetryAt <= now` with the pass's own `now` is kept  *)
(* as the set `due` of the pass: what was ripe when it started, less what  *)
(* has been rescheduled since.  Delays are taken to be positive, as they   *)
(* are by default, so a new nextRetryAt is later than the `now` of every   *)
(* pass under way.  Actions that are macrotasks wait until no pass is      *)
(* between two items, since Node drains promise callbacks first.           *)
(***************************************************************************)
EXTENDS Integers, Sequences, FiniteSets, SequencesExt

CONSTANTS
  Items,            \* the items callers may schedule; each gets a fresh id
  Operations,       \* operation names
  Operation,        \* operation of each item
  MaxAttempts,      \* maxAttempts of each item
  InitialHandlers,  \* operations with a handler from the start
  Passes            \* passes that may be suspended at the same time (bound)

ASSUME RetryAssumption ==
  /\ IsFiniteSet(Items) /\ IsFiniteSet(Passes)
  /\ {"free", "looking"} \cap Items = {}
  /\ Operation \in [Items -> Operations]
  /\ MaxAttempts \in [Items -> Int]
  /\ InitialHandlers \subseteq Operations

VARIABLES
  items,      \* keys of this.items, in insertion order
  scheduled,  \* every item that was ever put in the map
  attempts,   \* item.attempts
  ripe,       \* items of the map whose nextRetryAt has passed
  handlers,   \* keys of this.handlers
  timer,      \* this.timer # null
  pass,       \* what each pass is doing: "free", "looking" or the item awaited
  due         \* what each pass still has to visit

vars == <<items, scheduled, attempts, ripe, handlers, timer, pass, due>>

Looking == {p \in Passes : pass[p] = "looking"}
Awaiting(i) == {p \in Passes : pass[p] = i}

Init ==
  /\ items = <<>>
  /\ scheduled = {}
  /\ attempts = [i \in Items |-> 0]
  /\ ripe = {}
  /\ handlers = InitialHandlers
  /\ timer = FALSE
  /\ pass = [p \in Passes |-> "free"]
  /\ due = [p \in Passes |-> {}]

-----------------------------------------------------------------------------
RegisterHandler(op) ==
  /\ op \notin handlers
  /\ handlers' = handlers \union {op}
  /\ UNCHANGED <<items, scheduled, attempts, ripe, timer, pass, due>>

\* schedule ends with startTimer, which only acts when no timer is running.
Schedule(i) ==
  /\ i \notin scheduled
  /\ scheduled' = scheduled \union {i}
  /\ items' = Append(items, i)
  /\ timer' = TRUE
  /\ UNCHANGED <<attempts, ripe, handlers, pass, due>>

\* items.delete(id): no walk over the map visits the item any more.
Forget(i) ==
  /\ items' = RemoveFirst(items, i)
  /\ ripe' = ripe \ {i}

\* Mutant: a pass walks over a copy of the map, and so still visits the item.
CancelBehindPass(i) ==
  /\ i \in ToSet(items)
  /\ Forget(i)
  /\ UNCHANGED <<scheduled, attempts, handlers, timer, pass, due>>

\* cancel does not reach a handler that is already running.
Cancel(i) ==
  /\ i \in ToSet(items)
  /\ Forget(i)
  /\ due' = [p \in Passes |-> due[p] \ {i}]
  /\ UNCHANGED <<scheduled, attempts, handlers, timer, pass>>

\* stop clears the interval; passes under way go on.
Stop ==
  /\ timer
  /\ timer' = FALSE
  /\ UNCHANGED <<items, scheduled, attempts, ripe, handlers, pass, due>>

\* Time passes: the item's nextRetryAt is reached.
Ripen(i) ==
  /\ i \in ToSet(items) \ ripe
  /\ Looking = {}
  /\ ripe' = ripe \union {i}
  /\ UNCHANGED <<items, scheduled, attempts, handlers, timer, pass, due>>

-----------------------------------------------------------------------------
\* The interval fires; nothing checks whether an earlier pass is still running.
TimerFires(p) ==
  /\ timer
  /\ pass[p] = "free"
  /\ Looking = {}
  /\ ripe # {}
  /\ pass' = [pass EXCEPT ![p] = "looking"]
  /\ due' = [due EXCEPT ![p] = ripe]
  /\ UNCHANGED <<items, scheduled, attempts, ripe, handlers, timer>>

\* The next due item in insertion order.
NextDue(p) == items[Min({k \in 1 .. Len(items) : items[k] \in due[p]})]

EndPass(p) ==
  /\ pass[p] = "looking"
  /\ due[p] = {}
  /\ pass' = [pass EXCEPT ![p] = "free"]
  /\ UNCHANGED <<items, scheduled, attempts, ripe, handlers, timer, due>>

\* Mutant: an item without a handler is passed over and stays.
PassOverUnhandled(p) ==
  /\ pass[p] = "looking"
  /\ due[p] # {}
  /\ Operation[NextDue(p)] \notin handlers
  /\ due' = [due EXCEPT ![p] = @ \ {NextDue(p)}]
  /\ UNCHANGED <<items, scheduled, attempts, ripe, handlers, timer, pass>>

\* An item whose operation has no handler is dropped from the map.
DropUnhandled(p) ==
  /\ pass[p] = "looking"
  /\ due[p] # {}
  /\ Operation[NextDue(p)] \notin handlers
  /\ Forget(NextDue(p))
  /\ due' = [q \in Passes |-> due[q] \ {NextDue(p)}]
  /\ UNCHANGED <<scheduled, attempts, handlers, timer, pass>>

Attempt(p) ==
  /\ pass[p] = "looking"
  /\ due[p] # {}
  /\ Operation[NextDue(p)] \in handlers
  /\ attempts' = [attempts EXCEPT ![NextDue(p)] = @ + 1]
  /\ pass' = [pass EXCEPT ![p] = NextDue(p)]
  /\ due' = [due EXCEPT ![p] = @ \ {NextDue(p)}]
  /\ UNCHANGED <<items, scheduled, ripe, handlers, timer>>

\* The handler resolves, or rejects with the budget used up: the item goes, and
\* nothing else is told (the dead letter queue is never called).
Leave(p) ==
  LET i == pass[p]
  IN  /\ i \in Items
      /\ pass' = [pass EXCEPT ![p] = "looking"]
      /\ Forget(i)
      /\ due' = [q \in Passes |-> due[q] \ {i}]
      /\ UNCHANGED <<scheduled, attempts, handlers, timer>>

\* Mutants: one attempt too many is allowed; the item is put in the map again.
RescheduleOnceMore(p) ==
  LET i == pass[p]
  IN  /\ i \in Items
      /\ attempts[i] <= MaxAttempts[i]
      /\ pass' = [pass EXCEPT ![p] = "looking"]
      /\ ripe' = ripe \ {i}
      /\ due' = [q \in Passes |-> due[q] \ {i}]
      /\ UNCHANGED <<items, scheduled, attempts, handlers, timer>>
RescheduleBySetting(p) ==
  LET i == pass[p]
  IN  /\ i \in Items
      /\ attempts[i] < MaxAttempts[i]
      /\ pass' = [pass EXCEPT ![p] = "looking"]
      /\ items' = IF i \in ToSet(items) THEN items ELSE Append(items, i)
      /\ ripe' = ripe \ {i}
      /\ due' = [q \in Passes |-> due[q] \ {i}]
      /\ UNCHANGED <<scheduled, attempts, handlers, timer>>

\* The handler rejects with attempts left: only nextRetryAt is moved, on an item
\* object that may have left the map meanwhile.
Reschedule(p) ==
  LET i == pass[p]
  IN  /\ i \in Items
      /\ attempts[i] < MaxAttempts[i]
      /\ pass' = [pass EXCEPT ![p] = "looking"]
      /\ ripe' = ripe \ {i}
      /\ due' = [q \in Passes |-> due[q] \ {i}]
      /\ UNCHANGED <<items, scheduled, attempts, handlers, timer>>

Settle(p) == Leave(p) \/ Reschedule(p)
Advance(p) == EndPass(p) \/ DropUnhandled(p) \/ Attempt(p)

Next ==
  \/ \E op \in Operations : RegisterHandler(op)
  \/ \E i \in Items : Schedule(i) \/ Cancel(i) \/ Ripen(i)
  \/ Stop
  \/ \E p \in Passes : TimerFires(p) \/ Advance(p) \/ Settle(p)

Spec == Init /\ [][Next]_vars

\* Time passes, the interval keeps firing, and handlers are assumed to settle.
Fairness ==
  /\ \A i \in Items : WF_vars(Ripen(i))
  /\ WF_vars(\E p \in Passes : TimerFires(p))
  /\ \A p \in Passes : WF_vars(Advance(p)) /\ WF_vars(Settle(p))

FairSpec == Spec /\ Fairness

-----------------------------------------------------------------------------
TypeOK ==
  /\ items \in Seq(Items) /\ IsInjective(items)
  /\ scheduled \in SUBSET Items /\ ToSet(items) \subseteq scheduled
  /\ attempts \in [Items -> Nat]
  /\ ripe \subseteq ToSet(items)
  /\ handlers \subseteq Operations
  /\ timer \in BOOLEAN
  /\ pass \in [Passes -> {"free", "looking"} \union Items]
  /\ due \in [Passes -> SUBSET ripe]

\* However many passes overlap, an item that is still queued has had fewer
\* settled attempts than its budget: it is only over budget by the attempts that
\* are under way at the same time.
SettledBelowBudget ==
  \A i \in ToSet(items) :
    LET settled == attempts[i] - Cardinality(Awaiting(i))
    IN  settled > 0 => settled < MaxAttempts[i]

\* Callers see which items the queue holds and the attempts under way, not the
\* passes that make them.
UnderWay == [i \in Items |-> Cardinality(Awaiting(i))]

Promise == INSTANCE RetryPromise
  WITH accepted <- scheduled, kept <- ToSet(items), underWay <- UnderWay

\* However many passes overlap and whatever is cancelled during their awaits, the
\* queue does what it promises: only items in the queue are attempted, one that
\* left it never comes back, and a failure keeps an item only below its budget.
ImplementsRetryPromise == Promise!Spec

\* An item that left the queue (cancelled, succeeded, exhausted, unhandled) is
\* never attempted again and never comes back, although attempts of it that were
\* under way may still fail.
GoneForGood ==
  [][\A i \in scheduled \ ToSet(items) :
       attempts'[i] = attempts[i] /\ i \notin ToSet(items')]_vars

\* Unless the queue is stopped, every item eventually leaves it.
EveryItemLeaves ==
  \A i \in Items : i \in ToSet(items) ~> (i \notin ToSet(items) \/ ~timer)

\* An item awaits its next attempt only after the previous one has failed and
\* its delay has passed, so no two attempts of it run at the same time.
OneAttemptAtATime ==
  \A i \in Items : Cardinality(Awaiting(i)) <= 1
=============================================================================
