--------------------------- MODULE RetryQueueProofs ---------------------------
(***************************************************************************)
(* Theorems about RetryQueue, for any finite set of items, any budgets and *)
(* any number of overlapping passes.                                       *)
(*                                                                         *)
(* A pass never attempts an item that is not in the map: its `due` set is  *)
(* kept within the ripe items, and those within the map.  What the budget  *)
(* needs besides is that an item that was never scheduled has no attempts, *)
(* so that scheduling it starts it below its budget.                       *)
(***************************************************************************)
EXTENDS RetryQueue, SharedLemmas

UnscheduledUntried == \A i \in Items \ scheduled : attempts[i] = 0

IInv == TypeOK /\ UnscheduledUntried /\ SettledBelowBudget

\* The inductive invariant holds at the start.
LEMMA InitEstablishesIInv == Init => IInv
<1> SUFFICES ASSUME Init PROVE IInv
  OBVIOUS
<1>1. items = <<>> /\ items \in Seq(Items) /\ IsInjective(items) /\ ToSet(items) = {}
  BY DEF Init, IsInjective, ToSet
<1>2. TypeOK
  BY <1>1, RetryAssumption DEF Init, TypeOK
<1>3. SettledBelowBudget
  BY <1>1 DEF SettledBelowBudget
<1>4. UnscheduledUntried
  BY DEF Init, UnscheduledUntried
<1>. QED  BY <1>2, <1>3, <1>4 DEF IInv

\* What a pass attempts next is in the map, and was due.
LEMMA NextDueIsQueued ==
  ASSUME TypeOK, NEW p \in Passes, due[p] # {}
  PROVE  NextDue(p) \in ToSet(items) \cap due[p] /\ NextDue(p) \in Items
<1>1. items \in Seq(Items) /\ ToSet(items) \cap due[p] # {}
  BY DEF TypeOK
<1>2. NextDue(p) \in ToSet(items) \cap due[p]
  BY <1>1, FirstMatch DEF NextDue
<1>. QED  BY <1>2 DEF TypeOK

\* Forgetting an item takes just that item out of the map.
LEMMA ForgetTakesOne ==
  ASSUME TypeOK, NEW i, Forget(i)
  PROVE  /\ items' \in Seq(Items) /\ IsInjective(items')
         /\ ToSet(items') = ToSet(items) \ {i}
         /\ ripe' = ripe \ {i}
BY RemoveFirstForgets DEF TypeOK, Forget

\* Every step keeps the types.
LEMMA StepKeepsTypes == IInv /\ [Next]_vars => TypeOK'
<1> SUFFICES ASSUME IInv, [Next]_vars PROVE TypeOK'
  OBVIOUS
<1>0. TypeOK
  BY DEF IInv
<1>1. ASSUME NEW op \in Operations, RegisterHandler(op) PROVE TypeOK'
  BY <1>0, <1>1 DEF RegisterHandler, TypeOK
<1>2. ASSUME NEW i \in Items, Schedule(i) PROVE TypeOK'
  <2>1. items' \in Seq(Items) /\ IsInjective(items') /\ ToSet(items') = ToSet(items) \union {i}
    BY <1>0, <1>2, AppendAdds DEF Schedule, TypeOK
  <2>. QED  BY <1>0, <1>2, <2>1 DEF Schedule, TypeOK
<1>3. ASSUME NEW i \in Items, Cancel(i) PROVE TypeOK'
  BY <1>0, <1>3, ForgetTakesOne DEF Cancel, TypeOK
<1>4. ASSUME NEW i \in Items, Ripen(i) PROVE TypeOK'
  BY <1>0, <1>4 DEF Ripen, TypeOK
<1>5. CASE Stop
  BY <1>0, <1>5 DEF Stop, TypeOK
<1>6. ASSUME NEW p \in Passes, TimerFires(p) PROVE TypeOK'
  BY <1>0, <1>6 DEF TimerFires, TypeOK
<1>7. ASSUME NEW p \in Passes, Advance(p) PROVE TypeOK'
  <2>1. CASE EndPass(p)
    BY <1>0, <2>1 DEF EndPass, TypeOK
  <2>2. CASE DropUnhandled(p)
    BY <1>0, <2>2, ForgetTakesOne DEF DropUnhandled, TypeOK
  <2>3. CASE Attempt(p)
    <3>1. NextDue(p) \in Items
      BY <1>0, <2>3, NextDueIsQueued DEF Attempt
    <3> HIDE DEF NextDue
    <3>. QED  BY <1>0, <2>3, <3>1 DEF Attempt, TypeOK
  <2>. QED  BY <1>7, <2>1, <2>2, <2>3 DEF Advance
<1>8. ASSUME NEW p \in Passes, Settle(p) PROVE TypeOK'
  <2>1. CASE Leave(p)
    BY <1>0, <2>1, ForgetTakesOne DEF Leave, TypeOK
  <2>2. CASE Reschedule(p)
    BY <1>0, <2>2 DEF Reschedule, TypeOK
  <2>. QED  BY <1>8, <2>1, <2>2 DEF Settle
<1>9. CASE UNCHANGED vars
  BY <1>0, <1>9 DEF vars, TypeOK
<1>. QED  BY <1>1, <1>2, <1>3, <1>4, <1>5, <1>6, <1>7, <1>8, <1>9 DEF Next

\* Only attempts change the counters, and only of items in the map; only Schedule
\* adds to the map.
LEMMA StepOfOneItem ==
  ASSUME IInv, [Next]_vars, NEW i \in Items
  PROVE  /\ attempts'[i] # attempts[i] => i \in ToSet(items)
         /\ i \in ToSet(items') \ ToSet(items) => i \notin scheduled
         /\ scheduled \subseteq scheduled'
<1>0. TypeOK
  BY DEF IInv
<1>1. ASSUME NEW j \in Items, Schedule(j)
      PROVE  /\ attempts' = attempts /\ j \notin scheduled
             /\ ToSet(items') = ToSet(items) \union {j} /\ scheduled \subseteq scheduled'
  BY <1>0, <1>1, AppendAdds DEF Schedule, TypeOK
<1>2. ASSUME NEW j \in Items, Cancel(j)
      PROVE  attempts' = attempts /\ ToSet(items') \subseteq ToSet(items) /\ scheduled' = scheduled
  BY <1>0, <1>2, ForgetTakesOne DEF Cancel
<1>3. ASSUME NEW p \in Passes, Leave(p) \/ DropUnhandled(p)
      PROVE  attempts' = attempts /\ ToSet(items') \subseteq ToSet(items) /\ scheduled' = scheduled
  BY <1>0, <1>3, ForgetTakesOne DEF Leave, DropUnhandled
<1>4. ASSUME NEW p \in Passes, Attempt(p)
      PROVE  /\ attempts'[i] # attempts[i] => i \in ToSet(items)
             /\ items' = items /\ scheduled' = scheduled
  <2>1. NextDue(p) \in ToSet(items) /\ NextDue(p) \in Items
    BY <1>0, <1>4, NextDueIsQueued DEF Attempt
  <2> HIDE DEF NextDue
  <2>. QED  BY <1>0, <1>4, <2>1 DEF Attempt, TypeOK
<1>5. ASSUME \/ \E op \in Operations : RegisterHandler(op)
             \/ \E j \in Items : Ripen(j)
             \/ Stop
             \/ \E p \in Passes : TimerFires(p) \/ EndPass(p) \/ Reschedule(p)
             \/ UNCHANGED vars
      PROVE  attempts' = attempts /\ items' = items /\ scheduled' = scheduled
  BY <1>5 DEF RegisterHandler, Ripen, Stop, TimerFires, EndPass, Reschedule, vars
<1>. QED  BY <1>1, <1>2, <1>3, <1>4, <1>5 DEF Next, Advance, Settle

\* An item that was never scheduled is never attempted.
LEMMA StepKeepsUntried == IInv /\ [Next]_vars => UnscheduledUntried'
<1> SUFFICES ASSUME IInv, [Next]_vars, NEW i \in Items, i \notin scheduled'
             PROVE  attempts'[i] = 0
  BY DEF UnscheduledUntried
<1>1. i \notin scheduled /\ i \notin ToSet(items)
  BY StepOfOneItem DEF IInv, TypeOK
<1>. QED  BY <1>1, StepOfOneItem DEF IInv, UnscheduledUntried

-----------------------------------------------------------------------------
Settled(i) == attempts[i] - Cardinality(Awaiting(i))

\* The passes awaiting an item are finitely many.
LEMMA AwaitingIsFinite ==
  ASSUME NEW i
  PROVE  IsFiniteSet(Awaiting(i)) /\ Cardinality(Awaiting(i)) \in Nat
BY RetryAssumption, FS_Subset, FS_CardinalityType DEF Awaiting

\* An attempt that starts adds one to the attempts and to the awaiting passes.
LEMMA AttemptSettlesNothing ==
  ASSUME IInv, NEW p \in Passes, Attempt(p), NEW i \in Items
  PROVE  Settled(i)' = Settled(i)
<1> DEFINE n == NextDue(p)
<1>0. TypeOK /\ n \in Items /\ "looking" \notin Items
  BY NextDueIsQueued, RetryAssumption DEF IInv, Attempt
<1>1. /\ attempts' = [attempts EXCEPT ![n] = @ + 1] /\ pass' = [pass EXCEPT ![p] = n]
      /\ pass[p] = "looking"
  BY DEF Attempt
<1> HIDE DEF n
<1>2. CASE i = n
  <2>1. Awaiting(i)' = Awaiting(i) \union {p} /\ p \notin Awaiting(i)
    BY <1>0, <1>1, <1>2 DEF Awaiting, TypeOK
  <2>2. Cardinality(Awaiting(i)') = Cardinality(Awaiting(i)) + 1
    BY <2>1, AwaitingIsFinite, FS_AddElement
  <2>3. attempts'[i] = attempts[i] + 1 /\ attempts[i] \in Nat
    BY <1>0, <1>1, <1>2 DEF TypeOK
  <2>. QED  BY <2>2, <2>3, AwaitingIsFinite DEF Settled
<1>3. CASE i # n
  <2>1. Awaiting(i)' = Awaiting(i)
    BY <1>0, <1>1, <1>3 DEF Awaiting, TypeOK
  <2>2. attempts'[i] = attempts[i]
    BY <1>0, <1>1, <1>3 DEF TypeOK
  <2>. QED  BY <2>1, <2>2 DEF Settled
<1>. QED  BY <1>2, <1>3

\* Steps that neither start nor end an attempt of an item settle nothing of it.
LEMMA OthersSettleNothing ==
  ASSUME TypeOK, NEW i \in Items, attempts' = attempts,
         \A p \in Passes : pass'[p] = i <=> pass[p] = i
  PROVE  Settled(i)' = Settled(i)
<1>1. Awaiting(i)' = Awaiting(i)
  BY DEF Awaiting
<1>. QED  BY <1>1 DEF Settled

BelowBudget(i) == Settled(i) > 0 => Settled(i) < MaxAttempts[i]

\* Every step keeps every queued item below its budget.
LEMMA StepKeepsBudget == IInv /\ [Next]_vars => SettledBelowBudget'
<1> SUFFICES ASSUME IInv, [Next]_vars, NEW i \in ToSet(items')
             PROVE  BelowBudget(i)'
  BY DEF SettledBelowBudget, BelowBudget, Settled
<1>0. TypeOK /\ TypeOK' /\ i \in Items /\ {"free", "looking"} \cap Items = {}
  BY StepKeepsTypes, RetryAssumption DEF IInv, TypeOK
<1>1. i \in ToSet(items) => BelowBudget(i)
  BY DEF IInv, SettledBelowBudget, BelowBudget, Settled
<1>2. i \in ToSet(items) \/ i \notin scheduled
  BY <1>0, StepOfOneItem
<1>3. CASE i \notin ToSet(items)
  <2>1. attempts'[i] = 0
    BY <1>0, <1>2, <1>3, StepOfOneItem DEF IInv, UnscheduledUntried
  <2>2. Cardinality(Awaiting(i)') \in Nat
    <3>1. IsFiniteSet(Awaiting(i)')
      BY RetryAssumption, FS_Subset DEF Awaiting
    <3>. QED  BY <3>1, FS_CardinalityType
  <2>. QED  BY <2>1, <2>2 DEF BelowBudget, Settled
<1>4. CASE i \in ToSet(items) /\ Settled(i)' = Settled(i)
  BY <1>1, <1>4 DEF BelowBudget
<1>5. ASSUME NEW p \in Passes, Reschedule(p), i = pass[p] PROVE BelowBudget(i)'
  <2>1. attempts'[i] < MaxAttempts[i] /\ attempts'[i] \in Nat /\ MaxAttempts[i] \in Int
    BY <1>0, <1>5, RetryAssumption DEF Reschedule, TypeOK
  <2>2. Cardinality(Awaiting(i)') \in Nat
    <3>1. IsFiniteSet(Awaiting(i)')
      BY RetryAssumption, FS_Subset DEF Awaiting
    <3>. QED  BY <3>1, FS_CardinalityType
  <2>. QED  BY <2>1, <2>2 DEF BelowBudget, Settled
<1>6. ASSUME NEW p \in Passes, Reschedule(p) \/ Leave(p), i # pass[p]
      PROVE  Settled(i)' = Settled(i)
  <2>1. attempts' = attempts /\ pass' = [pass EXCEPT ![p] = "looking"]
    BY <1>6 DEF Reschedule, Leave
  <2>2. \A q \in Passes : pass'[q] = i <=> pass[q] = i
    BY <1>0, <1>6, <2>1 DEF TypeOK
  <2>. QED  BY <1>0, <2>1, <2>2, OthersSettleNothing
<1>7. ASSUME NEW p \in Passes, Leave(p) PROVE i # pass[p]
  BY <1>0, <1>7, ForgetTakesOne DEF Leave
<1>8. ASSUME NEW p \in Passes, TimerFires(p) \/ EndPass(p) PROVE Settled(i)' = Settled(i)
  <2>1. attempts' = attempts /\ \A q \in Passes : pass'[q] = i <=> pass[q] = i
    BY <1>0, <1>8 DEF TimerFires, EndPass, TypeOK
  <2>. QED  BY <1>0, <2>1, OthersSettleNothing
<1>9. ASSUME \/ \E op \in Operations : RegisterHandler(op)
             \/ \E j \in Items : Schedule(j) \/ Cancel(j) \/ Ripen(j)
             \/ Stop
             \/ \E p \in Passes : DropUnhandled(p)
             \/ UNCHANGED vars
      PROVE  Settled(i)' = Settled(i)
  <2>1. attempts' = attempts /\ pass' = pass
    BY <1>9 DEF RegisterHandler, Schedule, Cancel, Ripen, Stop, DropUnhandled, vars
  <2>. QED  BY <1>0, <2>1, OthersSettleNothing
<1>10. ASSUME NEW p \in Passes, Attempt(p) PROVE Settled(i)' = Settled(i)
  BY <1>0, <1>10, AttemptSettlesNothing
<1>. QED
  BY <1>3, <1>4, <1>5, <1>6, <1>7, <1>8, <1>9, <1>10 DEF Next, Advance, Settle

\* Every step preserves the inductive invariant.
LEMMA IInvIsInductive == IInv /\ [Next]_vars => IInv'
BY StepKeepsTypes, StepKeepsUntried, StepKeepsBudget DEF IInv

\* So the inductive invariant holds in every reachable state.
LEMMA Invariance == Spec => []IInv
BY InitEstablishesIInv, IInvIsInductive, PTL DEF Spec

-----------------------------------------------------------------------------
\* Types: the map holds each item once, ripe items are in it, and a suspended
\* pass only has ripe items left to visit.
THEOREM TypeCorrect == Spec => []TypeOK
BY Invariance, PTL DEF IInv

\* However many passes overlap, the settled attempts of an item that is still
\* queued stay below its maxAttempts.
THEOREM BudgetRespected == Spec => []SettledBelowBudget
BY Invariance, PTL DEF IInv

\* An item that has left the queue is not attempted again and does not come back,
\* whatever attempts of it are still under way.
THEOREM LeavingIsFinal == Spec => GoneForGood
<1> DEFINE Final == \A i \in scheduled \ ToSet(items) :
                      attempts'[i] = attempts[i] /\ i \notin ToSet(items')
<1>1. ASSUME IInv, [Next]_vars PROVE Final
  <2> SUFFICES ASSUME NEW i \in scheduled \ ToSet(items)
               PROVE  attempts'[i] = attempts[i] /\ i \notin ToSet(items')
    OBVIOUS
  <2>1. i \in Items
    BY <1>1 DEF IInv, TypeOK
  <2>. QED  BY <1>1, <2>1, StepOfOneItem
<1>2. IInv /\ [Next]_vars => [Final]_vars
  BY <1>1
<1>. QED  BY <1>2, Invariance, PTL DEF Spec, GoneForGood
-----------------------------------------------------------------------------
\* A pass that takes an item up adds one attempt under way, of that item.
LEMMA OneMoreUnderWay ==
  ASSUME TypeOK, NEW p \in Passes, NEW i \in Items, pass[p] \notin Items,
         pass' = [pass EXCEPT ![p] = i]
  PROVE  UnderWay' = [UnderWay EXCEPT ![i] = @ + 1]
<1>1. ASSUME NEW j \in Items, j # i PROVE Cardinality(Awaiting(j)') = Cardinality(Awaiting(j))
  <2>1. Awaiting(j)' = Awaiting(j)
    BY <1>1 DEF Awaiting, TypeOK
  <2>. QED  BY <2>1
<1>2. Cardinality(Awaiting(i)') = Cardinality(Awaiting(i)) + 1
  <2>1. Awaiting(i)' = Awaiting(i) \union {p} /\ p \notin Awaiting(i)
    BY DEF Awaiting, TypeOK
  <2>. QED  BY <2>1, AwaitingIsFinite, FS_AddElement
<1> DEFINE count(j) == Cardinality(Awaiting(j))
<1>3. UnderWay = [j \in Items |-> count(j)] /\ UnderWay' = [j \in Items |-> count(j)']
  BY DEF UnderWay
<1>4. count(i)' = count(i) + 1 /\ \A j \in Items : j # i => count(j)' = count(j)
  BY <1>1, <1>2
<1> HIDE DEF count
<1>. QED  BY <1>3, <1>4

\* A pass whose handler has settled leaves one attempt less under way.
LEMMA OneLessUnderWay ==
  ASSUME TypeOK, NEW p \in Passes, NEW i \in Items, pass[p] = i,
         pass' = [pass EXCEPT ![p] = "looking"]
  PROVE  UnderWay' = [UnderWay EXCEPT ![i] = @ - 1] /\ UnderWay[i] > 0
<1>0. "looking" \notin Items
  BY RetryAssumption
<1>1. ASSUME NEW j \in Items, j # i PROVE Cardinality(Awaiting(j)') = Cardinality(Awaiting(j))
  <2>1. Awaiting(j)' = Awaiting(j)
    BY <1>0, <1>1 DEF Awaiting, TypeOK
  <2>. QED  BY <2>1
<1>2. Cardinality(Awaiting(i)') = Cardinality(Awaiting(i)) - 1 /\ Cardinality(Awaiting(i)) > 0
  <2>1. Awaiting(i)' = Awaiting(i) \ {p} /\ p \in Awaiting(i)
    BY <1>0 DEF Awaiting, TypeOK
  <2>2. Cardinality(Awaiting(i)') = Cardinality(Awaiting(i)) - 1
    BY <2>1, AwaitingIsFinite, FS_RemoveElement
  <2>3. IsFiniteSet(Awaiting(i)) /\ Awaiting(i) # {}
    BY <2>1, AwaitingIsFinite
  <2>4. Cardinality(Awaiting(i)) # 0
    BY <2>3, FS_EmptySet
  <2>. QED  BY <2>2, <2>4, AwaitingIsFinite
<1> DEFINE count(j) == Cardinality(Awaiting(j))
<1>3. UnderWay = [j \in Items |-> count(j)] /\ UnderWay' = [j \in Items |-> count(j)']
  BY DEF UnderWay
<1>4. count(i)' = count(i) - 1 /\ count(i) > 0 /\ \A j \in Items : j # i => count(j)' = count(j)
  BY <1>1, <1>2
<1> HIDE DEF count
<1>. QED  BY <1>3, <1>4

\* A step that starts and ends no attempt leaves the same ones under way.
LEMMA SameUnderWay ==
  ASSUME \A p \in Passes, i \in Items : pass'[p] = i <=> pass[p] = i
  PROVE  UnderWay' = UnderWay
<1>1. \A i \in Items : Awaiting(i)' = Awaiting(i)
  BY DEF Awaiting
<1>. QED  BY <1>1 DEF UnderWay

\* The retry queue implements what it promises: with the passes hidden, every
\* step is a step of RetryPromise or changes nothing.
THEOREM Refinement == Spec => ImplementsRetryPromise
<1>1. Init => Promise!Init
  <2> SUFFICES ASSUME Init PROVE Promise!Init
    OBVIOUS
  <2>1. ToSet(items) = {} /\ \A i \in Items : Awaiting(i) = {}
    BY RetryAssumption DEF Init, ToSet, Awaiting
  <2>2. UnderWay = [i \in Items |-> 0]
    BY <2>1, FS_EmptySet DEF UnderWay
  <2>. QED  BY <2>1, <2>2 DEF Init, Promise!Init
<1>2. IInv /\ [Next]_vars => [Promise!Next]_(Promise!vars)
  <2> SUFFICES ASSUME IInv, [Next]_vars PROVE [Promise!Next]_(Promise!vars)
    OBVIOUS
  <2>0. TypeOK
    BY DEF IInv
  <2>1. ASSUME NEW i \in Items, Schedule(i) PROVE Promise!Next
    <3>1. ToSet(items') = ToSet(items) \union {i}
      BY <2>0, <2>1, AppendAdds DEF Schedule, TypeOK
    <3>2. UnderWay' = UnderWay
      BY <2>1, SameUnderWay DEF Schedule
    <3>. QED  BY <2>1, <3>1, <3>2 DEF Schedule, Promise!Accept, Promise!Next
  <2>2. ASSUME NEW i \in Items, i \in ToSet(items), Forget(i), UNCHANGED <<scheduled, attempts, pass>>
        PROVE  Promise!Next
    <3>1. ToSet(items') = ToSet(items) \ {i}
      BY <2>0, <2>2, ForgetTakesOne
    <3>2. UnderWay' = UnderWay
      BY <2>2, SameUnderWay
    <3>. QED  BY <2>2, <3>1, <3>2 DEF Promise!Withdraw, Promise!Next
  <2>3. ASSUME NEW p \in Passes, DropUnhandled(p) PROVE Promise!Next
    <3>1. NextDue(p) \in ToSet(items) /\ NextDue(p) \in Items
      BY <2>0, <2>3, NextDueIsQueued DEF DropUnhandled
    <3>. QED  BY <2>2, <2>3, <3>1 DEF DropUnhandled
  <2>4. ASSUME NEW p \in Passes, Attempt(p) PROVE Promise!Next
    <3> DEFINE i == NextDue(p)
    <3>1. i \in ToSet(items) /\ i \in Items
      BY <2>0, <2>4, NextDueIsQueued DEF Attempt
    <3>2. /\ attempts' = [attempts EXCEPT ![i] = @ + 1] /\ pass' = [pass EXCEPT ![p] = i]
          /\ items' = items /\ scheduled' = scheduled /\ pass[p] \notin Items
      BY <2>4, RetryAssumption DEF Attempt
    <3> HIDE DEF i
    <3>3. UnderWay' = [UnderWay EXCEPT ![i] = @ + 1]
      BY <2>0, <3>1, <3>2, OneMoreUnderWay
    <3>. QED  BY <3>1, <3>2, <3>3 DEF Promise!Begin, Promise!Next
  <2>5. ASSUME NEW p \in Passes, Leave(p) PROVE Promise!Next
    <3>1. ToSet(items') = ToSet(items) \ {pass[p]}
      BY <2>0, <2>5, ForgetTakesOne DEF Leave
    <3>2. UnderWay' = [UnderWay EXCEPT ![pass[p]] = @ - 1] /\ UnderWay[pass[p]] > 0
      BY <2>0, <2>5, OneLessUnderWay DEF Leave
    <3>. QED  BY <2>5, <3>1, <3>2 DEF Leave, Promise!Conclude, Promise!Next
  <2>6. ASSUME NEW p \in Passes, Reschedule(p) PROVE Promise!Next
    <3>1. UnderWay' = [UnderWay EXCEPT ![pass[p]] = @ - 1] /\ UnderWay[pass[p]] > 0
      BY <2>0, <2>6, OneLessUnderWay DEF Reschedule
    <3>. QED  BY <2>6, <3>1 DEF Reschedule, Promise!Fail, Promise!Next
  <2>7. ASSUME NEW p \in Passes, TimerFires(p) \/ EndPass(p) PROVE UNCHANGED Promise!vars
    <3>1. items' = items /\ scheduled' = scheduled /\ attempts' = attempts
      BY <2>7 DEF TimerFires, EndPass
    <3>2. \A q \in Passes, i \in Items : pass'[q] = i <=> pass[q] = i
      BY <2>0, <2>7, RetryAssumption DEF TimerFires, EndPass, TypeOK
    <3>. QED  BY <3>1, <3>2, SameUnderWay DEF Promise!vars
  <2>8. ASSUME \/ \E op \in Operations : RegisterHandler(op)
               \/ \E i \in Items : Ripen(i)
               \/ Stop
               \/ UNCHANGED vars
        PROVE  UNCHANGED Promise!vars
    <3>1. items' = items /\ scheduled' = scheduled /\ attempts' = attempts /\ pass' = pass
      BY <2>8 DEF RegisterHandler, Ripen, Stop, vars
    <3>. QED  BY <3>1, SameUnderWay DEF Promise!vars
  <2>9. ASSUME NEW i \in Items, Cancel(i) PROVE Promise!Next
    BY <2>2, <2>9 DEF Cancel
  <2>. QED
    BY <2>1, <2>3, <2>4, <2>5, <2>6, <2>7, <2>8, <2>9 DEF Next, Advance, Settle
<1>. QED  BY <1>1, <1>2, Invariance, PTL DEF Spec, ImplementsRetryPromise, Promise!Spec
=============================================================================
