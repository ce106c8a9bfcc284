----------------------- MODULE DependencySchedulerProofs -----------------------
(***************************************************************************)
(* Theorems about DependencyScheduler, for any task map, any dependency    *)
(* lists and any retries and timeouts.                                     *)
(*                                                                         *)
(* The sort: an in-degree counts the listed dependencies that are not yet  *)
(* sorted, the tasks sorted or queued are those for which it is zero, and  *)
(* so every dependency is sorted before its dependents.  The run: tasks    *)
(* before `position` have been judged by what their dependencies came to,  *)
(* those behind it are untouched.                                          *)
(***************************************************************************)
EXTENDS DependencyScheduler, SharedLemmas

\* What a sequence over the task map visits, in which order.
LEMMA VisitsAll ==
  ASSUME NEW S \in SUBSET Tasks, NEW s \in Visits(S)
  PROVE  s \in Seq(Tasks) /\ ToSet(s) = S /\ IsInjective(s)
<1>1. TaskOrder \in Seq(Tasks) /\ IsInjective(TaskOrder)
  BY TasksAssumption
<1>2. IsFiniteSet(S) /\ Cardinality(S) \in Nat
  BY <1>1, InjectiveLength, FS_Subset, FS_CardinalityType DEF Tasks
<1>3. s \in [1 .. Cardinality(S) -> S] /\ ToSet(s) = S
  BY DEF Visits
<1>4. s \in Seq(S) /\ Len(s) = Cardinality(S)
  BY <1>2, <1>3
<1>5. ASSUME NEW i \in 1 .. Len(s), NEW k \in 1 .. Len(s), i < k PROVE s[i] # s[k]
  <2>1. PICK a, b \in 1 .. Len(TaskOrder) : a < b /\ TaskOrder[a] = s[i] /\ TaskOrder[b] = s[k]
    BY <1>5 DEF Visits
  <2>. QED  BY <1>1, <2>1 DEF IsInjective
<1>6. IsInjective(s)
  <2> SUFFICES ASSUME NEW i \in 1 .. Len(s), NEW k \in 1 .. Len(s), s[i] = s[k] PROVE i = k
    BY <1>4 DEF IsInjective
  <2>. QED  BY <1>4, <1>5
<1>7. s \in Seq(Tasks)
  BY <1>3, <1>4
<1>. QED  BY <1>3, <1>6, <1>7

-----------------------------------------------------------------------------
(* topologicalSort *)

\* The listed dependencies of a task that are not sorted yet.
Unmet(t) == {j \in 1 .. Len(deps[t]) : deps[t][j] \notin ToSet(order)}

Free == {t \in Tasks : inDegree[t] = 0}

DependenciesFirst ==
  \A k \in 1 .. Len(order) : \A d \in ToSet(deps[order[k]]) : \E i \in 1 .. k - 1 : order[i] = d

\* Sorted and queued tasks are the free ones, each once.
QueueOfFree ==
  /\ IsInjective(order) /\ IsInjective(queue)
  /\ ToSet(order) \cap ToSet(queue) = {}
  /\ ToSet(order) \union ToSet(queue) = Free

SortTypes ==
  /\ deps \in [Tasks -> DepLists]
  /\ phase \in {"linking", "sorting", "running", "ended", "threw"}
  /\ inDegree \in [Tasks -> Nat]
  /\ queue \in Seq(Tasks) /\ order \in Seq(Tasks)

Counted == \A t \in Tasks : inDegree[t] = Cardinality(Unmet(t))

SortInv ==
  /\ SortTypes
  /\ phase = "linking" => order = <<>> /\ queue = <<>>
  /\ phase \in {"sorting", "running", "ended"} =>
       KnownDependencies /\ QueueOfFree /\ Counted /\ DependenciesFirst
  /\ phase \in {"running", "ended"} =>
       ToSet(order) = Tasks /\ Len(order) = Len(TaskOrder)
  /\ phase = "threw" => ~ (KnownDependencies /\ Acyclic)

\* The task map is finite.
LEMMA TasksAreFinite == IsFiniteSet(Tasks) /\ Cardinality(Tasks) = Len(TaskOrder)
BY TasksAssumption, InjectiveLength DEF Tasks

\* The dependencies of a task are a sequence.
LEMMA DepsAreSequences ==
  ASSUME SortTypes, NEW t \in Tasks
  PROVE  /\ deps[t] \in Seq(ToSet(deps[t])) /\ Len(deps[t]) \in Nat
         /\ DOMAIN deps[t] = 1 .. Len(deps[t])
         /\ IsFiniteSet(Unmet(t)) /\ Cardinality(Unmet(t)) \in Nat
<1>1. deps[t] \in DepLists
  BY DEF SortTypes
<1>2. deps[t] \in Seq(ToSet(deps[t]))
  BY <1>1, TasksAssumption
<1> DEFINE q == deps[t]
<1>3. q \in Seq(ToSet(q))
  BY <1>2
<1> HIDE DEF q
<1>4. Len(q) \in Nat /\ DOMAIN q = 1 .. Len(q) /\ IsFiniteSet(1 .. Len(q))
  BY <1>3, FS_Interval
<1>5. IsFiniteSet(Unmet(t)) /\ Cardinality(Unmet(t)) \in Nat
  BY <1>4, FS_Subset, FS_CardinalityType DEF Unmet, q
<1>. QED  BY <1>2, <1>4, <1>5 DEF q

\* A task has no unmet dependency exactly if all are sorted.
LEMMA NoneUnmet ==
  ASSUME SortTypes, NEW t \in Tasks
  PROVE  Cardinality(Unmet(t)) = 0 <=> ToSet(deps[t]) \subseteq ToSet(order)
<1>1. Cardinality(Unmet(t)) = 0 <=> Unmet(t) = {}
  BY DepsAreSequences, FS_EmptySet
<1>2. DOMAIN deps[t] = 1 .. Len(deps[t])
  BY DepsAreSequences
<1>. QED  BY <1>1, <1>2 DEF Unmet, ToSet

\* Dependencies that all come earlier leave no cycle.
LEMMA SortedIsAcyclic ==
  ASSUME SortTypes, DependenciesFirst, ToSet(order) = Tasks
  PROVE  Acyclic
<1> SUFFICES ASSUME NEW S \in SUBSET Tasks, S # {}, \A t \in S : ToSet(deps[t]) \cap S # {}
             PROVE  FALSE
  BY DEF Acyclic
<1> DEFINE I == {k \in 1 .. Len(order) : order[k] \in S}
<1>0. order \in Seq(Tasks) /\ DOMAIN order = 1 .. Len(order) /\ Len(order) \in Nat
  BY DEF SortTypes
<1>1. I \in SUBSET Nat /\ I # {}
  BY <1>0 DEF ToSet
<1> HIDE DEF I
<1>2. PICK k \in I : \A i \in I : k <= i
  BY <1>1, MinIsLeast
<1>3. k \in 1 .. Len(order) /\ order[k] \in S
  BY <1>2 DEF I
<1>4. PICK d \in ToSet(deps[order[k]]) : d \in S
  BY <1>3
<1>5. PICK i \in 1 .. k - 1 : order[i] = d
  BY <1>3, <1>4 DEF DependenciesFirst
<1>6. i \in I /\ i < k
  BY <1>0, <1>3, <1>4, <1>5 DEF I
<1>. QED  BY <1>0, <1>2, <1>3, <1>6

\* If not every task is sorted when the queue is empty, the others are a cycle.
LEMMA UnsortedIsCyclic ==
  ASSUME SortInv, phase = "sorting", queue = <<>>, ToSet(order) # Tasks
  PROVE  ~ Acyclic
<1> DEFINE S == Tasks \ ToSet(order)
<1>1. /\ SortTypes /\ Counted /\ ToSet(order) = Free /\ KnownDependencies
  <2>1. ToSet(queue) = {}
    BY DEF ToSet
  <2>. QED  BY <2>1 DEF SortInv, QueueOfFree
<1>2. S # {} /\ S \in SUBSET Tasks
  BY <1>1 DEF Free
<1>3. ASSUME NEW t \in S PROVE ToSet(deps[t]) \cap S # {}
  <2>1. inDegree[t] # 0
    BY <1>1, <1>3 DEF Free
  <2>2. ~ (ToSet(deps[t]) \subseteq ToSet(order))
    BY <1>1, <1>3, <2>1, NoneUnmet DEF Counted
  <2>. QED  BY <1>1, <1>3, <2>2 DEF KnownDependencies
<1>. QED  BY <1>2, <1>3 DEF Acyclic

\* A round meets the listed dependencies on the task it takes, and only those.
LEMMA RoundCounts ==
  ASSUME SortInv, Round, NEW t \in Tasks
  PROVE  /\ inDegree'[t] = Cardinality(Unmet(t)') /\ inDegree'[t] \in Nat
         /\ inDegree'[t] <= inDegree[t]
<1> DEFINE id == Head(queue)
           E == {i \in 1 .. Len(deps[t]) : deps[t][i] = id}
<1>0. /\ SortTypes /\ Counted /\ QueueOfFree /\ queue # <<>> /\ queue \in Seq(Tasks)
      /\ order \in Seq(Tasks)
  BY DEF SortInv, SortTypes, Round
<1>1. /\ id \in ToSet(queue) /\ id \in Tasks /\ id \notin ToSet(order)
  BY <1>0, TailForgetsHead DEF QueueOfFree, ToSet
<1>2. /\ order' = Append(order, id) /\ deps' = deps
      /\ inDegree'[t] = inDegree[t] - Cardinality(E)
  BY DEF Round, Occurrences
<1>3. ToSet(order') = ToSet(order) \union {id}
  BY <1>0, <1>1, <1>2, AppendAdds
<1>4. Unmet(t)' = Unmet(t) \ E /\ E \subseteq Unmet(t)
  BY <1>1, <1>2, <1>3 DEF Unmet
<1>5. IsFiniteSet(Unmet(t)) /\ Cardinality(Unmet(t)) \in Nat
  BY <1>0, DepsAreSequences
<1>6. inDegree[t] = Cardinality(Unmet(t))
  BY <1>0 DEF Counted
<1> HIDE DEF E
<1>7. /\ Cardinality(Unmet(t) \ E) = Cardinality(Unmet(t)) - Cardinality(E)
      /\ Cardinality(Unmet(t) \ E) \in Nat
      /\ Cardinality(E) \in Nat
  <2>1. Unmet(t) \cap E = E
    BY <1>4
  <2>2. IsFiniteSet(E) /\ IsFiniteSet(Unmet(t) \ E)
    BY <1>4, <1>5, FS_Subset, FS_Difference
  <2>. QED  BY <1>5, <2>1, <2>2, FS_Difference, FS_CardinalityType
<1>. QED  BY <1>2, <1>4, <1>5, <1>6, <1>7

\* A round keeps the sort's invariant.
LEMMA RoundKeepsSort == SortInv /\ Round => SortInv'
<1> SUFFICES ASSUME SortInv, Round PROVE SortInv'
  OBVIOUS
<1> DEFINE id == Head(queue)
           F == {t \in Tasks : inDegree[t] > 0 /\ inDegree'[t] = 0}
<1>0. /\ SortTypes /\ Counted /\ QueueOfFree /\ DependenciesFirst /\ KnownDependencies
      /\ queue # <<>> /\ queue \in Seq(Tasks) /\ order \in Seq(Tasks) /\ phase = "sorting"
      /\ inDegree \in [Tasks -> Nat]
  BY DEF SortInv, SortTypes, Round
<1>1. /\ order' = Append(order, id) /\ deps' = deps /\ phase' = "sorting"
      /\ \E freed \in Visits(F) : queue' = Tail(queue) \o freed
      /\ inDegree' = [t \in Tasks |-> inDegree[t] - Occurrences(id, deps[t])]
  BY <1>0 DEF Round
<1>2. PICK freed \in Visits(F) : queue' = Tail(queue) \o freed
  BY <1>1
<1>3. /\ id \in ToSet(queue) /\ id \in Tasks /\ id \notin ToSet(order)
      /\ Tail(queue) \in Seq(Tasks) /\ IsInjective(Tail(queue))
      /\ ToSet(Tail(queue)) = ToSet(queue) \ {id}
  <2>1. id \in Tasks /\ Tail(queue) \in Seq(Tasks)
    BY <1>0
  <2>2. IsInjective(queue) /\ ToSet(order) \cap ToSet(queue) = {}
    BY <1>0 DEF QueueOfFree
  <2>. QED  BY <1>0, <2>1, <2>2, TailForgetsHead
<1>4. /\ order' \in Seq(Tasks) /\ ToSet(order') = ToSet(order) \union {id} /\ IsInjective(order')
  BY <1>0, <1>1, <1>3, AppendAdds DEF QueueOfFree
<1>5. F \in SUBSET Tasks /\ freed \in Seq(Tasks) /\ ToSet(freed) = F /\ IsInjective(freed)
  BY VisitsAll
<1>6. \A t \in Tasks : inDegree'[t] \in Nat /\ inDegree'[t] <= inDegree[t]
  BY RoundCounts
<1>7. Free' = Free \union F /\ Free \cap F = {}
  BY <1>0, <1>6 DEF Free
<1> HIDE DEF F, id
<1>8. QueueOfFree'
  <2>1. ToSet(Tail(queue)) \cap ToSet(freed) = {}
    BY <1>0, <1>3, <1>5, <1>7 DEF QueueOfFree
  <2>2. /\ queue' \in Seq(Tasks) /\ IsInjective(queue')
        /\ ToSet(queue') = (ToSet(queue) \ {id}) \union F
    <3> DEFINE tail == Tail(queue)
    <3>1. tail \in Seq(Tasks) /\ IsInjective(tail) /\ ToSet(tail) = ToSet(queue) \ {id}
      BY <1>3
    <3>2. ToSet(tail) \cap ToSet(freed) = {} /\ queue' = tail \o freed
      BY <1>2, <2>1
    <3> HIDE DEF tail
    <3>. QED  BY <1>5, <3>1, <3>2, ConcatAdds
  <2>. QED  BY <1>0, <1>3, <1>4, <1>7, <2>2 DEF QueueOfFree
<1>9. SortTypes'
  <2>1. queue' \in Seq(Tasks)
    BY <1>2, <1>3, <1>5, ConcatAdds
  <2>2. inDegree' \in [Tasks -> Nat]
    BY <1>1, <1>6
  <2>. QED  BY <1>0, <1>1, <1>4, <2>1, <2>2 DEF SortTypes
<1>10. Counted'
  BY RoundCounts DEF Counted
<1>11. DependenciesFirst'
  <2> SUFFICES ASSUME NEW k \in 1 .. Len(order'), NEW d \in ToSet(deps[order'[k]])
               PROVE  \E i \in 1 .. k - 1 : order'[i] = d
    BY <1>1 DEF DependenciesFirst
  <2>1. /\ Len(order') = Len(order) + 1 /\ Len(order) \in Nat /\ order'[Len(order) + 1] = id
        /\ \A i \in 1 .. Len(order) : order'[i] = order[i]
        /\ DOMAIN order = 1 .. Len(order)
    BY <1>0, <1>1, <1>3
  <2>2. CASE k = Len(order) + 1
    <3>1. Cardinality(Unmet(id)) = 0
      BY <1>0, <1>3 DEF Counted, QueueOfFree, Free
    <3>2. d \in ToSet(order)
      BY <1>0, <1>3, <2>1, <2>2, <3>1, NoneUnmet
    <3>3. PICK i \in 1 .. Len(order) : order[i] = d
      BY <2>1, <3>2 DEF ToSet
    <3>4. i \in 1 .. k - 1
      BY <2>1, <2>2, <3>3
    <3>. QED  BY <2>1, <3>3, <3>4
  <2>3. CASE k \in 1 .. Len(order)
    <3>1. PICK i \in 1 .. k - 1 : order[i] = d
      BY <1>0, <2>1, <2>3 DEF DependenciesFirst
    <3>2. i \in 1 .. Len(order)
      BY <2>1, <2>3
    <3>. QED  BY <2>1, <3>1, <3>2
  <2>. QED  BY <2>1, <2>2, <2>3
<1>12. KnownDependencies'
  BY <1>0, <1>1 DEF KnownDependencies
<1>. QED  BY <1>1, <1>8, <1>9, <1>10, <1>11, <1>12 DEF SortInv

\* Building the graph establishes it.
LEMMA LinkKeepsSort == SortInv /\ Link => SortInv'
<1> SUFFICES ASSUME SortInv, Link PROVE SortInv'
  OBVIOUS
<1>0. /\ SortTypes /\ order = <<>> /\ queue = <<>> /\ deps' = deps /\ order' = order
      /\ deps \in [Tasks -> DepLists]
  BY DEF SortInv, SortTypes, Link
<1>1. CASE ~ KnownDependencies
  <2>1. phase' = "threw" /\ UNCHANGED <<inDegree, queue>>
    BY <1>1 DEF Link
  <2>2. ~ KnownDependencies'
    BY <1>0, <1>1 DEF KnownDependencies
  <2>. QED  BY <1>0, <2>1, <2>2 DEF SortInv, SortTypes
<1>2. CASE KnownDependencies
  <2>1. /\ phase' = "sorting" /\ inDegree' = [t \in Tasks |-> Len(deps[t])]
        /\ queue' \in Visits(Free')
    BY <1>2 DEF Link, Free
  <2>2. Free' \in SUBSET Tasks
    BY DEF Free
  <2>3. queue' \in Seq(Tasks) /\ ToSet(queue') = Free' /\ IsInjective(queue')
    BY <2>1, <2>2, VisitsAll
  <2>4. ToSet(order') = {} /\ IsInjective(order') /\ Len(order') = 0
    BY <1>0 DEF ToSet, IsInjective
  <2>5. \A t \in Tasks : inDegree'[t] = Cardinality(Unmet(t)') /\ inDegree'[t] \in Nat
    <3> SUFFICES ASSUME NEW t \in Tasks
                 PROVE  inDegree'[t] = Cardinality(Unmet(t)') /\ inDegree'[t] \in Nat
      OBVIOUS
    <3>1. Unmet(t)' = 1 .. Len(deps[t])
      BY <1>0, <2>4 DEF Unmet
    <3>2. Len(deps[t]) \in Nat /\ inDegree'[t] = Len(deps[t])
      BY <1>0, <2>1, DepsAreSequences
    <3>3. Cardinality(1 .. Len(deps[t])) = Len(deps[t])
      BY <3>2, FS_Interval
    <3>. QED  BY <3>1, <3>2, <3>3
  <2>6. QueueOfFree' /\ Counted' /\ DependenciesFirst'
    BY <2>3, <2>4, <2>5 DEF QueueOfFree, Counted, DependenciesFirst
  <2>7. SortTypes'
    BY <1>0, <2>1, <2>3, <2>5 DEF SortTypes
  <2>8. KnownDependencies'
    BY <1>0, <1>2 DEF KnownDependencies
  <2>. QED  BY <2>1, <2>6, <2>7, <2>8 DEF SortInv
<1>. QED  BY <1>1, <1>2

\* The parts of the invariant depend on the sort's variables only.
LEMMA SortVarsDecide ==
  ASSUME UNCHANGED sortVars
  PROVE  /\ QueueOfFree' <=> QueueOfFree
         /\ Counted' <=> Counted
         /\ DependenciesFirst' <=> DependenciesFirst
         /\ KnownDependencies' <=> KnownDependencies
         /\ Acyclic' <=> Acyclic
BY DEF sortVars, QueueOfFree, Free, Counted, Unmet, DependenciesFirst, KnownDependencies, Acyclic

\* The sort returns everything, or throws for a reason.
LEMMA EndKeepsSort == SortInv /\ SortEnds => SortInv'
<1> SUFFICES ASSUME SortInv, SortEnds PROVE SortInv'
  OBVIOUS
<1>0. /\ SortTypes /\ order \in Seq(Tasks) /\ IsInjective(order) /\ UNCHANGED sortVars
      /\ phase = "sorting" /\ queue = <<>>
      /\ QueueOfFree /\ Counted /\ DependenciesFirst /\ KnownDependencies
  BY DEF SortInv, SortTypes, QueueOfFree, SortEnds
<1>1. ToSet(order) \in SUBSET Tasks
  BY <1>0 DEF QueueOfFree, Free
<1>2. Cardinality(ToSet(order)) = Len(order)
  BY <1>0, InjectiveLength
<1>3. ToSet(order) = Tasks <=> Len(order) = Len(TaskOrder)
  BY <1>1, <1>2, TasksAreFinite, FS_Subset
<1>4. /\ QueueOfFree' /\ Counted' /\ DependenciesFirst' /\ KnownDependencies'
      /\ order' = order /\ (Acyclic' <=> Acyclic)
  BY <1>0, SortVarsDecide DEF sortVars
<1>5. CASE Len(order) = Len(TaskOrder)
  <2>1. phase' = "running"
    BY <1>5 DEF SortEnds
  <2>. QED  BY <1>0, <1>3, <1>4, <1>5, <2>1 DEF SortInv, SortTypes, sortVars
<1>6. CASE Len(order) # Len(TaskOrder)
  <2>1. phase' = "threw" /\ ~ Acyclic
    BY <1>0, <1>3, <1>6, UnsortedIsCyclic DEF SortEnds
  <2>. QED  BY <1>0, <1>4, <2>1 DEF SortInv, SortTypes, sortVars
<1>. QED  BY <1>5, <1>6

\* Nothing else touches what the sort has left.
LEMMA StepKeepsSort == SortInv /\ [Next]_vars => SortInv'
<1>1. SortInv /\ UNCHANGED sortVars /\ (phase' = phase \/ (phase = "running" /\ phase' = "ended"))
        => SortInv'
  <2> SUFFICES ASSUME SortInv, UNCHANGED sortVars,
                      phase' = phase \/ (phase = "running" /\ phase' = "ended")
               PROVE  SortInv'
    OBVIOUS
  <2>. QED  BY SortVarsDecide DEF SortInv, SortTypes, sortVars
<1>2. [Step \/ RaceEnds \/ \E t \in Tasks : LateSettle(t)]_vars
        => UNCHANGED sortVars /\ (phase' = phase \/ (phase = "running" /\ phase' = "ended"))
  BY DEF Step, RaceEnds, LateSettle, Skip, SettlesAtOnce, UndefinedWins, StartRace, Return,
         HandlerWins, TimeoutWins, vars
<1>. QED  BY <1>1, <1>2, LinkKeepsSort, RoundKeepsSort, EndKeepsSort DEF Next, Sort

-----------------------------------------------------------------------------
(* executeDependencyPipeline *)

Blocked(t) == \E d \in ToSet(deps[t]) : status[d] \in {"failed", "skipped"}

\* A task the loop is done with: what was made of it, and why.
Judged(t) ==
  /\ status[t] # "none"
  /\ status[t] = "skipped" <=> Blocked(t)
  /\ t \in started <=> ~ Blocked(t)
  /\ output[t] # "none" <=> status[t] = "completed"
  /\ status[t] = "completed" /\ t \in HasTimeout => output[t] = "result"

\* A task the loop has not come to.
Untouched(t) == t \notin started /\ live[t] = 0

RunTypes ==
  /\ position \in 1 .. Len(TaskOrder) + 1
  /\ attempt \in Nat /\ racing \in BOOLEAN
  /\ live \in [Tasks -> Nat]
  /\ \A t \in Tasks : live[t] <= Retries[t] + 1
  /\ started \subseteq Tasks
  /\ status \in [Tasks -> {"none", "completed", "failed", "skipped"}]
  /\ output \in [Tasks -> {"none", "result", "undefined"}]
  /\ failed = {t \in Tasks : status[t] \in {"failed", "skipped"}}

\* Where the loop is.
AtCurrent ==
  /\ attempt <= Retries[Current] + (IF racing THEN 1 ELSE 0)
  /\ Current \in started <=> attempt > 0
  /\ attempt > 0 => ~ ShouldSkip(Current)
  /\ live[Current] <= attempt
  /\ racing => live[Current] > 0

RunInv ==
  /\ RunTypes
  /\ phase \notin {"running", "ended"} =>
       /\ position = 1 /\ attempt = 0 /\ ~ racing /\ started = {}
       /\ \A t \in Tasks : live[t] = 0 /\ status[t] = "none" /\ output[t] = "none"
  /\ racing => phase = "running" /\ position <= Len(order)
  /\ phase = "ended" => position > Len(order)
  /\ phase \in {"running", "ended"} =>
       /\ \A i \in 1 .. Len(order) :
            /\ i < position => Judged(order[i])
            /\ i >= position => status[order[i]] = "none" /\ output[order[i]] = "none"
            /\ i > position => Untouched(order[i])
       /\ position <= Len(order) => AtCurrent

IInv == SortInv /\ RunInv

\* What is known when the loop is at a task.
LEMMA AtWork ==
  ASSUME IInv, phase = "running", position <= Len(order)
  PROVE  /\ position \in 1 .. Len(order) /\ Len(order) \in Nat /\ Len(order) = Len(TaskOrder)
         /\ Current \in Tasks /\ Retries[Current] \in Nat
         /\ \A i \in 1 .. Len(order) : order[i] \in Tasks
         /\ \A i, k \in 1 .. Len(order) : order[i] = order[k] => i = k
         /\ ShouldSkip(Current) <=> Blocked(Current)
         /\ \A i \in 1 .. Len(order) : i <= position => Current \notin ToSet(deps[order[i]])
<1>1. /\ order \in Seq(Tasks) /\ IsInjective(order) /\ DependenciesFirst /\ KnownDependencies
      /\ Len(order) = Len(TaskOrder) /\ RunTypes
  BY DEF IInv, SortInv, SortTypes, QueueOfFree, RunInv
<1>2. /\ Len(order) \in Nat /\ DOMAIN order = 1 .. Len(order) /\ position \in 1 .. Len(order)
      /\ \A i \in 1 .. Len(order) : order[i] \in Tasks
  BY <1>1 DEF RunTypes
<1>3. \A i, k \in 1 .. Len(order) : order[i] = order[k] => i = k
  BY <1>1, <1>2 DEF IsInjective
<1>4. Current \in Tasks /\ Retries[Current] \in Nat
  BY <1>2, TasksAssumption DEF Current
<1>5. ShouldSkip(Current) <=> Blocked(Current)
  BY <1>1, <1>4 DEF ShouldSkip, Blocked, RunTypes, KnownDependencies
<1>6. ASSUME NEW i \in 1 .. Len(order), i <= position
      PROVE  Current \notin ToSet(deps[order[i]])
  <2> SUFFICES ASSUME Current \in ToSet(deps[order[i]]) PROVE FALSE
    OBVIOUS
  <2>1. PICK j \in 1 .. i - 1 : order[j] = Current
    BY <1>1 DEF DependenciesFirst
  <2>2. j \in 1 .. Len(order) /\ j # position
    BY <1>2, <1>6
  <2>. QED  BY <1>2, <1>3, <2>1, <2>2 DEF Current
<1>. QED  BY <1>1, <1>2, <1>3, <1>4, <1>5, <1>6

\* The loop is done with a task and goes on to the next.
LEMMA SettlingKeepsRun ==
  ASSUME IInv, phase = "running", position <= Len(order), UNCHANGED <<sortVars, phase>>,
         NEW v \in {"completed", "failed", "skipped"}, NEW o \in {"none", "result", "undefined"},
         status' = [status EXCEPT ![Current] = v], output' = [output EXCEPT ![Current] = o],
         position' = position + 1, attempt' = 0, racing' = FALSE,
         failed' = IF v = "completed" THEN failed ELSE failed \union {Current},
         v = "skipped" <=> ShouldSkip(Current),
         v = "skipped" => started' = started,
         v # "skipped" => started' = started \union {Current},
         o # "none" <=> v = "completed",
         v = "completed" /\ Current \in HasTimeout => o = "result",
         live' \in [Tasks -> Nat], \A t \in Tasks \ {Current} : live'[t] = live[t],
         live'[Current] <= Retries[Current] + 1
  PROVE  RunInv'
<1> DEFINE c == Current
<1>0. /\ position \in 1 .. Len(order) /\ Len(order) \in Nat /\ Len(order) = Len(TaskOrder)
      /\ c \in Tasks /\ c = order[position]
      /\ \A i \in 1 .. Len(order) : order[i] \in Tasks
      /\ \A i, k \in 1 .. Len(order) : order[i] = order[k] => i = k
      /\ ShouldSkip(c) <=> Blocked(c)
      /\ \A i \in 1 .. Len(order) : i <= position => c \notin ToSet(deps[order[i]])
  BY AtWork DEF Current
<1>1. /\ RunTypes /\ AtCurrent
      /\ \A i \in 1 .. Len(order) :
            /\ i < position => Judged(order[i])
            /\ i >= position => status[order[i]] = "none" /\ output[order[i]] = "none"
            /\ i > position => Untouched(order[i])
  BY DEF IInv, RunInv
<1>2. /\ order' = order /\ deps' = deps /\ phase' = "running"
  BY DEF sortVars
<1>3. /\ status'[c] = v /\ output'[c] = o
      /\ \A t \in Tasks \ {c} : status'[t] = status[t] /\ output'[t] = output[t]
      /\ \A t \in Tasks \ {c} : t \in started' <=> t \in started
      /\ status' \in [Tasks -> {"none", "completed", "failed", "skipped"}]
      /\ output' \in [Tasks -> {"none", "result", "undefined"}]
      /\ started' \subseteq Tasks
      /\ c \in started' <=> v # "skipped"
  <2>1. v = "skipped" => c \notin started
    BY <1>1 DEF AtCurrent
  <2>. QED  BY <1>0, <1>1, <2>1 DEF RunTypes
<1>4. RunTypes'
  <2>1. failed' = {t \in Tasks : status'[t] \in {"failed", "skipped"}}
    <3>1. status[c] = "none" /\ failed = {t \in Tasks : status[t] \in {"failed", "skipped"}}
      BY <1>0, <1>1 DEF RunTypes
    <3>. QED  BY <1>0, <1>3, <3>1
  <2>2. \A t \in Tasks : live'[t] <= Retries[t] + 1
    BY <1>1 DEF RunTypes
  <2>3. position' \in 1 .. Len(TaskOrder) + 1 /\ attempt' \in Nat /\ racing' \in BOOLEAN
    <3>1. position + 1 \in 1 .. Len(TaskOrder) + 1
      BY <1>0
    <3>. QED  BY <3>1
  <2>. QED  BY <1>3, <2>1, <2>2, <2>3 DEF RunTypes
<1> HIDE DEF c
<1>5. ASSUME NEW i \in 1 .. Len(order), i <= position
      PROVE  Blocked(order[i])' <=> Blocked(order[i])
  <2>1. \A d \in ToSet(deps[order[i]]) : d \in Tasks \ {c}
    BY <1>0, <1>5 DEF IInv, SortInv, KnownDependencies
  <2>2. \A d \in ToSet(deps[order[i]]) : status'[d] = status[d]
    BY <1>3, <2>1
  <2>. QED  BY <1>2, <2>2 DEF Blocked
<1>6. ASSUME NEW i \in 1 .. Len(order)
      PROVE  /\ i < position' => Judged(order[i])'
             /\ i >= position' => status'[order[i]] = "none" /\ output'[order[i]] = "none"
             /\ i > position => Untouched(order[i])'
  <2>1. CASE i = position
    <3>1. order[i] = c /\ order'[i] = c /\ ~ (i >= position') /\ ~ (i > position)
      BY <1>0, <1>2, <2>1
    <3>2. Blocked(order[i])' <=> v = "skipped"
      BY <1>0, <1>5, <2>1, <3>1 DEF c
    <3>3. /\ status'[order'[i]] = v /\ output'[order'[i]] = o
          /\ order'[i] \in started' <=> v # "skipped"
      BY <1>3, <3>1
    <3>4. Judged(order[i])'
      BY <3>1, <3>2, <3>3 DEF Judged, c
    <3>. QED  BY <3>1, <3>4
  <2>2. CASE i < position
    <3>1. order[i] \in Tasks \ {c}
      BY <1>0, <2>2
    <3>2. Judged(order[i]) /\ (Blocked(order[i])' <=> Blocked(order[i]))
      BY <1>0, <1>1, <1>5, <2>2
    <3>3. Judged(order[i])'
      BY <1>2, <1>3, <3>1, <3>2 DEF Judged
    <3>. QED  BY <1>0, <2>2, <3>3
  <2>3. CASE i > position
    <3>1. order[i] \in Tasks \ {c}
      BY <1>0, <2>3
    <3>2. /\ status[order[i]] = "none" /\ output[order[i]] = "none" /\ Untouched(order[i])
      BY <1>0, <1>1, <2>3
    <3>3. Untouched(order[i])'
      BY <1>2, <1>3, <3>1, <3>2 DEF Untouched, c
    <3>. QED  BY <1>0, <1>3, <2>3, <3>1, <3>2, <3>3
  <2>. QED  BY <1>0, <2>1, <2>2, <2>3
<1>7. ASSUME position' <= Len(order) PROVE AtCurrent'
  <2>1. PICK k \in 1 .. Len(order) : k = position + 1
    BY <1>0, <1>7
  <2>2. Untouched(order[k])' /\ order[k] \in Tasks
    BY <1>0, <1>6, <2>1
  <2>3. Current' = order[k] /\ order'[k] = order[k]
    BY <1>2, <2>1 DEF Current
  <2>4. Current' \notin started' /\ live'[Current'] = 0 /\ Retries[Current'] \in Nat
    BY <2>2, <2>3, TasksAssumption DEF Untouched
  <2>. QED  BY <2>4 DEF AtCurrent
<1>8. \A i \in 1 .. Len(order) : i > position' => Untouched(order[i])'
  BY <1>0, <1>6
<1>. QED  BY <1>2, <1>4, <1>6, <1>7, <1>8 DEF RunInv

\* The loop stays at a task: it waits for a race, or tries again.
LEMMA StayingKeepsRun ==
  ASSUME IInv, phase = "running", position <= Len(order), ~ ShouldSkip(Current),
         UNCHANGED <<sortVars, phase, position, status, output, failed>>,
         started' = started \union {Current},
         attempt' \in Nat, attempt' > 0, racing' \in BOOLEAN,
         attempt' <= Retries[Current] + (IF racing' THEN 1 ELSE 0),
         live' \in [Tasks -> Nat], \A t \in Tasks \ {Current} : live'[t] = live[t],
         live'[Current] <= attempt', racing' => live'[Current] > 0
  PROVE  RunInv'
<1> DEFINE c == Current
<1>0. /\ position \in 1 .. Len(order) /\ Len(order) \in Nat
      /\ c \in Tasks /\ c = order[position] /\ Retries[c] \in Nat
      /\ \A i \in 1 .. Len(order) : order[i] \in Tasks
      /\ \A i, k \in 1 .. Len(order) : order[i] = order[k] => i = k
      /\ ShouldSkip(c) <=> Blocked(c)
  BY AtWork DEF Current
<1>1. /\ RunTypes
      /\ \A i \in 1 .. Len(order) :
            /\ i < position => Judged(order[i])
            /\ i >= position => status[order[i]] = "none" /\ output[order[i]] = "none"
            /\ i > position => Untouched(order[i])
  BY DEF IInv, RunInv
<1>2. /\ order' = order /\ deps' = deps /\ phase' = "running" /\ Current' = c
      /\ ~ ShouldSkip(Current)'
  BY DEF sortVars, Current, ShouldSkip
<1>3. /\ \A t \in Tasks \ {c} : t \in started' <=> t \in started
      /\ started' \subseteq Tasks /\ c \in started'
      /\ \A t \in Tasks : live'[t] <= Retries[t] + 1
  <2>1. attempt' <= Retries[c] + 1
    BY <1>0
  <2>2. live'[c] \in Nat
    BY <1>0
  <2>3. live'[c] <= Retries[c] + 1
    BY <1>0, <2>1, <2>2
  <2>4. \A t \in Tasks \ {c} : live'[t] <= Retries[t] + 1
    BY <1>1 DEF RunTypes
  <2>5. started \subseteq Tasks
    BY <1>1 DEF RunTypes
  <2>. QED  BY <1>0, <2>3, <2>4, <2>5
<1>4. RunTypes'
  BY <1>1, <1>3 DEF RunTypes
<1>5. AtCurrent'
  BY <1>2, <1>3 DEF AtCurrent
<1> HIDE DEF c
<1>6. ASSUME NEW i \in 1 .. Len(order)
      PROVE  /\ i < position => Judged(order[i])'
             /\ i > position => Untouched(order[i])'
  <2> SUFFICES ASSUME i # position
               PROVE  /\ i < position => Judged(order[i])'
                      /\ i > position => Untouched(order[i])'
    BY <1>0
  <2>1. order[i] \in Tasks \ {c} /\ order'[i] = order[i]
    BY <1>0, <1>2
  <2>2. /\ order[i] \in started' <=> order[i] \in started
        /\ live'[order[i]] = live[order[i]]
    BY <1>3, <2>1 DEF c
  <2>3. Blocked(order[i])' <=> Blocked(order[i])
    BY <1>2 DEF Blocked
  <2>4. i < position => Judged(order[i])'
    BY <1>1, <2>1, <2>2, <2>3 DEF Judged
  <2>5. i > position => Untouched(order[i])'
    BY <1>1, <2>1, <2>2 DEF Untouched
  <2>. QED  BY <2>4, <2>5
<1>. QED  BY <1>1, <1>2, <1>4, <1>5, <1>6 DEF RunInv

\* The invariant's view of an attempt that is made.
LEMMA AtAttempt ==
  ASSUME IInv, phase = "running", position <= Len(order)
  PROVE  /\ RunTypes /\ AtCurrent /\ Current \in Tasks /\ Retries[Current] \in Nat
         /\ attempt \in Nat /\ live \in [Tasks -> Nat] /\ live[Current] \in Nat
         /\ live[Current] <= attempt /\ live[Current] <= Retries[Current] + 1
         /\ attempt <= Retries[Current] + (IF racing THEN 1 ELSE 0)
         /\ output[Current] = "none" /\ output = [output EXCEPT ![Current] = "none"]
<1>1. RunTypes /\ AtCurrent /\ position \in 1 .. Len(order) /\ Current \in Tasks
      /\ Retries[Current] \in Nat
  BY AtWork DEF IInv, RunInv
<1>2. output[Current] = "none"
  BY <1>1 DEF IInv, RunInv, Current
<1>. QED  BY <1>1, <1>2 DEF RunTypes, AtCurrent

\* A failed attempt ends with the task given up or tried again.
LEMMA CatchKeepsRun ==
  ASSUME IInv, phase = "running", position <= Len(order), ~ ShouldSkip(Current),
         NEW tries \in Nat, CatchError(tries), tries > 0, tries <= Retries[Current] + 1,
         UNCHANGED <<sortVars, phase>>, racing' = FALSE,
         started' = started \union {Current},
         live' \in [Tasks -> Nat], \A t \in Tasks \ {Current} : live'[t] = live[t],
         live'[Current] <= tries
  PROVE  RunInv'
<1>0. Retries[Current] \in Nat /\ output = [output EXCEPT ![Current] = "none"]
      /\ live'[Current] \in Nat
  BY AtAttempt
<1>1. CASE tries >= Retries[Current] + 1
  <2>1. /\ status' = [status EXCEPT ![Current] = "failed"]
        /\ failed' = failed \union {Current}
        /\ position' = position + 1 /\ attempt' = 0 /\ output' = output
    BY <1>1 DEF CatchError, NextTask
  <2>2. live'[Current] <= Retries[Current] + 1
    BY <1>0
  <2>. QED  BY <1>0, <2>1, <2>2, SettlingKeepsRun
<1>2. CASE ~ (tries >= Retries[Current] + 1)
  <2>1. attempt' = tries /\ UNCHANGED <<status, failed, position, output>>
    BY <1>2 DEF CatchError
  <2>2. attempt' <= Retries[Current] + (IF racing' THEN 1 ELSE 0)
    BY <1>0, <1>2, <2>1
  <2>. QED  BY <2>1, <2>2, StayingKeepsRun
<1>. QED  BY <1>1, <1>2

\* A won race completes the task.
LEMMA RecordKeepsRun ==
  ASSUME IInv, phase = "running", position <= Len(order), ~ ShouldSkip(Current),
         NEW o \in {"result", "undefined"}, Record(o),
         Current \in HasTimeout => o = "result",
         UNCHANGED <<sortVars, phase>>, racing' = FALSE,
         started' = started \union {Current},
         live' \in [Tasks -> Nat], \A t \in Tasks \ {Current} : live'[t] = live[t],
         live'[Current] <= Retries[Current] + 1
  PROVE  RunInv'
<1>1. /\ status' = [status EXCEPT ![Current] = "completed"]
      /\ output' = [output EXCEPT ![Current] = o]
      /\ failed' = failed /\ position' = position + 1 /\ attempt' = 0
  BY DEF Record, NextTask
<1>. QED  BY <1>1, SettlingKeepsRun

\* Every step keeps the run's invariant.
LEMMA StepKeepsRun == IInv /\ [Next]_vars => RunInv'
<1> SUFFICES ASSUME IInv, [Next]_vars PROVE RunInv'
  OBVIOUS
<1>1. CASE Sort
  <2>1. /\ phase \notin {"running", "ended"} /\ deps' = deps
        /\ UNCHANGED <<position, attempt, racing, live, started, status, output, failed>>
    BY <1>1 DEF Sort, Link, Round, SortEnds, sortVars
  <2>2. phase' # "ended"
    BY <1>1, <2>1 DEF Sort, Link, Round, SortEnds
  <2>3. /\ RunTypes /\ position = 1 /\ attempt = 0 /\ ~ racing /\ started = {}
        /\ \A t \in Tasks : live[t] = 0 /\ status[t] = "none" /\ output[t] = "none"
    BY <2>1 DEF IInv, RunInv
  <2>4. RunTypes'
    BY <2>1, <2>3 DEF RunTypes
  <2>5. order' \in Seq(Tasks)
    BY StepKeepsSort DEF IInv, SortInv, SortTypes
  <2>6. \A i \in 1 .. Len(order') : order'[i] \in Tasks /\ i >= position' /\ ~ (i < position')
    BY <2>1, <2>3, <2>5
  <2>7. position' <= Len(order') => AtCurrent'
    <3> SUFFICES ASSUME position' <= Len(order') PROVE AtCurrent'
      OBVIOUS
    <3>1. Current' \in Tasks
      BY <2>1, <2>3, <2>5 DEF Current
    <3>2. live'[Current'] = 0 /\ started' = {} /\ attempt' = 0 /\ racing' = FALSE
      BY <2>1, <2>3, <3>1 DEF RunTypes
    <3>3. Retries[Current'] \in Nat
      BY <3>1, TasksAssumption
    <3>. QED  BY <3>2, <3>3 DEF AtCurrent
  <2>8. \A i \in 1 .. Len(order') :
          status'[order'[i]] = "none" /\ output'[order'[i]] = "none" /\ Untouched(order[i])'
    BY <2>1, <2>3, <2>6 DEF Untouched
  <2>9. ~ racing'
    BY <2>1, <2>3
  <2>. QED  BY <2>1, <2>2, <2>3, <2>4, <2>6, <2>7, <2>8, <2>9 DEF RunInv
<1>2. CASE Skip
  <2>1. /\ phase = "running" /\ position <= Len(order) /\ racing = FALSE
        /\ UNCHANGED <<sortVars, phase, racing, live, started, output>> /\ ShouldSkip(Current)
        /\ status' = [status EXCEPT ![Current] = "skipped"]
        /\ failed' = failed \union {Current} /\ position' = position + 1 /\ attempt' = 0
    BY <1>2 DEF Skip, InLoop, NextTask, IInv, RunInv, RunTypes
  <2>2. /\ output = [output EXCEPT ![Current] = "none"]
        /\ live \in [Tasks -> Nat] /\ live[Current] <= Retries[Current] + 1
    BY <2>1, AtAttempt
  <2>. QED  BY <2>1, <2>2, SettlingKeepsRun
<1>3. CASE SettlesAtOnce
  <2>1. /\ phase = "running" /\ position <= Len(order) /\ racing = FALSE /\ racing' = FALSE
        /\ UNCHANGED <<sortVars, phase, live>> /\ ~ ShouldSkip(Current)
        /\ started' = started \union {Current}
        /\ Record("result") \/ CatchError(attempt + 1)
    BY <1>3 DEF SettlesAtOnce, InLoop, IInv, RunInv, RunTypes
  <2>2. /\ live \in [Tasks -> Nat] /\ live[Current] <= Retries[Current] + 1
        /\ attempt + 1 \in Nat /\ attempt + 1 > 0 /\ attempt + 1 <= Retries[Current] + 1
        /\ live[Current] <= attempt + 1
    BY <2>1, AtAttempt
  <2>. QED  BY <2>1, <2>2, RecordKeepsRun, CatchKeepsRun
<1>4. CASE UndefinedWins
  <2>1. /\ phase = "running" /\ position <= Len(order) /\ racing = FALSE /\ racing' = FALSE
        /\ UNCHANGED <<sortVars, phase>> /\ ~ ShouldSkip(Current)
        /\ started' = started \union {Current} /\ Current \notin HasTimeout
        /\ live' = [live EXCEPT ![Current] = @ + 1] /\ Record("undefined")
    BY <1>4 DEF UndefinedWins, InLoop, IInv, RunInv, RunTypes
  <2>2. /\ live \in [Tasks -> Nat] /\ Current \in Tasks /\ live[Current] + 1 <= Retries[Current] + 1
    BY <2>1, AtAttempt
  <2>3. /\ live' \in [Tasks -> Nat] /\ \A t \in Tasks \ {Current} : live'[t] = live[t]
        /\ live'[Current] <= Retries[Current] + 1
    BY <2>1, <2>2
  <2>. QED  BY <2>1, <2>3, RecordKeepsRun
<1>5. CASE StartRace
  <2>1. /\ phase = "running" /\ position <= Len(order) /\ racing = FALSE /\ racing' = TRUE
        /\ UNCHANGED <<sortVars, phase, position, status, output, failed>>
        /\ ~ ShouldSkip(Current)
        /\ started' = started \union {Current} /\ attempt' = attempt + 1
        /\ live' = [live EXCEPT ![Current] = @ + 1]
    BY <1>5 DEF StartRace, InLoop, IInv, RunInv, RunTypes
  <2>2. /\ live \in [Tasks -> Nat] /\ Current \in Tasks /\ live[Current] \in Nat
        /\ live[Current] <= attempt /\ attempt \in Nat
        /\ attempt + 1 <= Retries[Current] + 1
    BY <2>1, AtAttempt
  <2>3. /\ live' \in [Tasks -> Nat] /\ \A t \in Tasks \ {Current} : live'[t] = live[t]
        /\ live'[Current] = live[Current] + 1
    BY <2>1, <2>2
  <2>4. live'[Current] <= attempt' /\ live'[Current] > 0 /\ attempt' \in Nat /\ attempt' > 0
    BY <2>1, <2>2, <2>3
  <2>5. attempt' <= Retries[Current] + (IF racing' THEN 1 ELSE 0)
    BY <2>1, <2>2
  <2>. QED  BY <2>1, <2>3, <2>4, <2>5, StayingKeepsRun
<1>6. CASE HandlerWins \/ TimeoutWins
  <2>1. racing /\ phase = "running" /\ position <= Len(order)
    BY <1>6 DEF HandlerWins, TimeoutWins, IInv, RunInv
  <2>2. /\ live \in [Tasks -> Nat] /\ Current \in Tasks /\ live[Current] \in Nat
        /\ live[Current] <= attempt /\ live[Current] > 0 /\ attempt \in Nat /\ attempt > 0
        /\ attempt <= Retries[Current] + 1 /\ live[Current] <= Retries[Current] + 1
        /\ Retries[Current] \in Nat
    BY <2>1, AtAttempt DEF AtCurrent
  <2>3. ~ ShouldSkip(Current) /\ started = started \union {Current}
    BY <2>1, <2>2, AtAttempt DEF AtCurrent
  <2>4. /\ UNCHANGED <<sortVars, phase, started>> /\ racing' = FALSE
        /\ \/ live' = [live EXCEPT ![Current] = @ - 1]
           \/ live' = live
        /\ Record("result") \/ CatchError(attempt)
    BY <1>6 DEF HandlerWins, TimeoutWins
  <2>5. /\ live' \in [Tasks -> Nat] /\ \A t \in Tasks \ {Current} : live'[t] = live[t]
        /\ live'[Current] <= live[Current] /\ live'[Current] \in Nat
    BY <2>2, <2>4
  <2>6. live'[Current] <= attempt /\ live'[Current] <= Retries[Current] + 1
    BY <2>2, <2>5
  <2>. QED  BY <2>1, <2>2, <2>3, <2>4, <2>5, <2>6, RecordKeepsRun, CatchKeepsRun
<1>7. ASSUME NEW t \in Tasks, LateSettle(t) PROVE RunInv'
  <2>1. /\ live[t] > (IF racing /\ Current = t THEN 1 ELSE 0)
        /\ live' = [live EXCEPT ![t] = @ - 1]
        /\ order' = order /\ deps' = deps
        /\ UNCHANGED <<phase, position, attempt, racing, started, status, output, failed>>
    BY <1>7 DEF LateSettle, sortVars
  <2>2. /\ RunTypes /\ live \in [Tasks -> Nat]
        /\ \A u \in Tasks : live'[u] \in Nat /\ live'[u] <= live[u] /\ (u # t => live'[u] = live[u])
        /\ live'[t] = live[t] - 1 /\ live[t] # 0
    BY <2>1 DEF IInv, RunInv, RunTypes
  <2>3. RunTypes'
    <3>1. \A u \in Tasks : live'[u] <= Retries[u] + 1
      <4> SUFFICES ASSUME NEW u \in Tasks PROVE live'[u] <= Retries[u] + 1
        OBVIOUS
      <4>1. live[u] \in Nat /\ live'[u] \in Nat /\ Retries[u] \in Nat /\ live[u] <= Retries[u] + 1
        BY <2>2, TasksAssumption DEF RunTypes
      <4>. QED  BY <2>2, <4>1
    <3>2. live' \in [Tasks -> Nat]
      BY <2>1, <2>2
    <3>. QED  BY <2>1, <2>2, <3>1, <3>2 DEF RunTypes
  <2>4. \A u : Judged(u)' <=> Judged(u)
    BY <2>1 DEF Judged, Blocked
  <2>5. \A u \in Tasks : Untouched(u) => Untouched(u)'
    BY <2>1, <2>2 DEF Untouched
  <2>6. \A i \in 1 .. Len(order) : order[i] \in Tasks
    BY DEF IInv, SortInv, SortTypes
  <2>7. ASSUME phase \in {"running", "ended"}, position <= Len(order) PROVE AtCurrent'
    <3>1. AtCurrent /\ position \in 1 .. Len(order)
      BY <2>2, <2>7 DEF IInv, RunInv, RunTypes
    <3>2. Current' = Current /\ Current \in Tasks /\ (ShouldSkip(Current)' <=> ShouldSkip(Current))
      BY <2>1, <2>6, <3>1 DEF Current, ShouldSkip
    <3>3. live[Current] \in Nat /\ live'[Current] \in Nat /\ attempt \in Nat
      BY <2>2, <3>2 DEF RunTypes
    <3>4. live'[Current] <= attempt
      BY <2>2, <3>1, <3>2, <3>3 DEF AtCurrent
    <3>5. racing => live'[Current] > 0
      BY <2>1, <2>2, <3>1, <3>2, <3>3 DEF AtCurrent
    <3>. QED  BY <2>1, <3>1, <3>2, <3>4, <3>5 DEF AtCurrent
  <2>8. phase \notin {"running", "ended"} => FALSE
    BY <2>2 DEF IInv, RunInv
  <2>9. \A i \in 1 .. Len(order) : (Judged(order[i]) => Judged(order[i])')
                                   /\ (Untouched(order[i]) => Untouched(order[i])')
    BY <2>1, <2>4, <2>5, <2>6
  <2>. QED  BY <2>1, <2>3, <2>7, <2>8, <2>9 DEF IInv, RunInv
<1>8. CASE Return \/ UNCHANGED vars
  <2>1. /\ order' = order /\ deps' = deps
        /\ UNCHANGED <<position, attempt, racing, live, started, status, output, failed>>
        /\ \/ phase' = phase
           \/ phase = "running" /\ phase' = "ended" /\ position > Len(order)
    BY <1>8 DEF Return, vars, sortVars
  <2>2. /\ RunTypes' <=> RunTypes
        /\ AtCurrent' <=> AtCurrent
    BY <2>1 DEF RunTypes, AtCurrent, Current, ShouldSkip
  <2>3. \A i \in 1 .. Len(order) : (Judged(order[i])' <=> Judged(order[i]))
                                   /\ (Untouched(order[i])' <=> Untouched(order[i]))
    BY <2>1 DEF Judged, Blocked, Untouched
  <2>4. phase' = "ended" => ~ racing
    BY <2>1 DEF IInv, RunInv, RunTypes, SortInv, SortTypes
  <2>. QED  BY <2>1, <2>2, <2>3, <2>4 DEF IInv, RunInv
<1>. QED  BY <1>1, <1>2, <1>3, <1>4, <1>5, <1>6, <1>7, <1>8 DEF Next, Step, RaceEnds

-----------------------------------------------------------------------------
\* The invariant holds at the start and is kept by every step.
LEMMA Inductive == (Init => IInv) /\ (IInv /\ [Next]_vars => IInv')
<1>1. Init => IInv
  <2> SUFFICES ASSUME Init PROVE IInv
    OBVIOUS
  <2>1. SortInv
    <3>1. <<>> \in Seq(Tasks)
      OBVIOUS
    <3>. QED  BY <3>1 DEF Init, SortInv, SortTypes
  <2>2. Len(TaskOrder) \in Nat /\ Retries \in [Tasks -> Nat]
    BY TasksAssumption
  <2>3. RunTypes
    <3>1. \A t \in Tasks : live[t] <= Retries[t] + 1
      BY <2>2 DEF Init
    <3>2. position \in 1 .. Len(TaskOrder) + 1
      BY <2>2 DEF Init
    <3>. QED  BY <3>1, <3>2 DEF Init, RunTypes
  <2>. QED  BY <2>1, <2>3 DEF Init, IInv, RunInv
<1>2. IInv /\ [Next]_vars => IInv'
  BY StepKeepsSort, StepKeepsRun DEF IInv
<1>. QED  BY <1>1, <1>2

\* So it holds in every reachable state.
LEMMA Invariance == Spec => []IInv
BY Inductive, PTL DEF Spec

\* THEOREM.  The sort and the run stay well-typed: a race is only waited for at a
\* task whose handler is running, attempts and running handlers of a task stay
\* within its retries, and the failed set is the tasks recorded as failed or
\* skipped.
THEOREM TypeCorrect == Spec => []TypeOK
<1>1. IInv => TypeOK
  <2> SUFFICES ASSUME IInv PROVE TypeOK
    OBVIOUS
  <2>1. /\ SortTypes /\ RunTypes /\ Len(order) \in Nat
        /\ \A i \in 1 .. Len(order) : order[i] \in Tasks
    BY DEF IInv, SortInv, SortTypes, RunInv
  <2>2. \A t \in Tasks : live[t] \in 0 .. Retries[t] + 1
    BY <2>1, TasksAssumption DEF RunTypes
  <2>3. racing => position <= Len(order) /\ live[Current] > 0
    BY DEF IInv, RunInv, AtCurrent
  <2>4. ASSUME position <= Len(order) PROVE attempt \in 0 .. Retries[Current] + 1
    <3>1. Retries[Current] \in Nat /\ attempt \in Nat
      BY <2>1, <2>4, TasksAssumption DEF RunTypes, Current
    <3>2. CASE phase \in {"running", "ended"}
      BY <2>1, <2>4, <3>1, <3>2 DEF IInv, RunInv, AtCurrent, RunTypes
    <3>3. CASE phase \notin {"running", "ended"}
      BY <3>1, <3>3 DEF IInv, RunInv
    <3>. QED  BY <3>2, <3>3
  <2>. QED  BY <2>1, <2>2, <2>3, <2>4 DEF TypeOK, SortTypes, RunTypes
<1>. QED  BY <1>1, Invariance, PTL

\* THEOREM.  topologicalSort is right for every task map: it throws only on an
\* unknown dependency or a cycle, and otherwise there is none and every task is
\* returned once, after all of its dependencies.
THEOREM SortCorrect == Spec => []SortIsTopological
<1>1. IInv => SortIsTopological
  <2> SUFFICES ASSUME SortInv PROVE SortIsTopological
    BY DEF IInv
  <2>1. ASSUME phase \in {"running", "ended"}
        PROVE  /\ KnownDependencies /\ Acyclic
               /\ ToSet(order) = Tasks /\ IsInjective(order)
               /\ \A i, k \in 1 .. Len(order) : order[i] \in ToSet(deps[order[k]]) => i < k
    <3>1. /\ SortTypes /\ KnownDependencies /\ DependenciesFirst /\ ToSet(order) = Tasks
          /\ IsInjective(order) /\ order \in Seq(Tasks)
      BY <2>1 DEF SortInv, SortTypes, QueueOfFree
    <3>2. Acyclic
      BY <3>1, SortedIsAcyclic
    <3>3. ASSUME NEW i \in 1 .. Len(order), NEW k \in 1 .. Len(order),
                 order[i] \in ToSet(deps[order[k]])
          PROVE  i < k
      <4>1. PICK j \in 1 .. k - 1 : order[j] = order[i]
        BY <3>1, <3>3 DEF DependenciesFirst
      <4>2. Len(order) \in Nat /\ DOMAIN order = 1 .. Len(order)
        BY <3>1
      <4>3. j \in 1 .. Len(order) /\ j < k
        BY <4>1, <4>2
      <4>. QED  BY <3>1, <4>1, <4>2, <4>3 DEF IsInjective
    <3>. QED  BY <3>1, <3>2, <3>3
  <2>. QED  BY <2>1 DEF SortInv, SortIsTopological
<1>. QED  BY <1>1, Invariance, PTL

\* A task that is judged has dependencies that are judged.
LEMMA DependenciesJudged ==
  ASSUME IInv, phase \in {"running", "ended"}, NEW i \in 1 .. Len(order), i <= position,
         NEW d \in ToSet(deps[order[i]])
  PROVE  d \in Tasks /\ Judged(d)
<1>1. /\ order \in Seq(Tasks) /\ DependenciesFirst /\ position \in Nat
  BY DEF IInv, SortInv, SortTypes, RunInv, RunTypes
<1>2. PICK j \in 1 .. i - 1 : order[j] = d
  BY <1>1 DEF DependenciesFirst
<1>3. j \in 1 .. Len(order) /\ j < position
  BY <1>1, <1>2
<1>. QED  BY <1>1, <1>2, <1>3 DEF IInv, RunInv

\* THEOREM.  No handler is called before every dependency of its task is recorded
\* as completed, with its output in the context if the dependency has a timeout.
THEOREM DependentsAlwaysWait == Spec => []DependentsWait
<1>1. IInv => DependentsWait
  <2> SUFFICES ASSUME IInv, NEW t \in started, NEW d \in ToSet(deps[t])
               PROVE  status[d] = "completed" /\ (d \in HasTimeout => output[d] = "result")
    BY DEF DependentsWait
  <2>1. phase \in {"running", "ended"} /\ t \in Tasks
    BY DEF IInv, RunInv, RunTypes
  <2>2. /\ ToSet(order) = Tasks /\ order \in Seq(Tasks) /\ DOMAIN order = 1 .. Len(order)
        /\ KnownDependencies /\ RunTypes
    BY <2>1 DEF IInv, SortInv, SortTypes, RunInv
  <2>3. PICK i \in 1 .. Len(order) : order[i] = t
    BY <2>1, <2>2 DEF ToSet
  <2>4. i <= position
    <3>1. ~ (i > position)
      BY <2>1, <2>3 DEF IInv, RunInv, Untouched
    <3>. QED  BY <2>2, <3>1 DEF RunTypes
  <2>5. d \in Tasks /\ Judged(d)
    BY <2>1, <2>3, <2>4, DependenciesJudged
  <2>6. ~ Blocked(t)
    <3>1. CASE i < position
      BY <2>1, <2>3, <3>1 DEF IInv, RunInv, Judged
    <3>2. CASE i = position
      <4>1. AtCurrent /\ Current = t
        BY <2>1, <2>2, <2>3, <3>2 DEF IInv, RunInv, Current
      <4>2. ~ ShouldSkip(t)
        BY <4>1 DEF AtCurrent
      <4>. QED  BY <2>1, <2>2, <4>2 DEF ShouldSkip, Blocked, RunTypes, KnownDependencies
    <3>. QED  BY <2>2, <2>4, <3>1, <3>2 DEF RunTypes
  <2>7. status[d] \notin {"failed", "skipped"}
    BY <2>6 DEF Blocked
  <2>8. status[d] = "completed"
    BY <2>2, <2>5, <2>7 DEF Judged, RunTypes
  <2>. QED  BY <2>5, <2>8 DEF Judged
<1>. QED  BY <1>1, Invariance, PTL

\* THEOREM.  At the end of the pipeline a task was skipped exactly if a dependency
\* failed or was skipped, ran exactly otherwise, and has an output exactly if it
\* completed.
THEOREM FailuresPropagate == Spec => []FailurePropagates
<1>1. IInv => FailurePropagates
  <2> SUFFICES ASSUME IInv, phase = "ended", NEW t \in Tasks PROVE Judged(t)
    BY DEF FailurePropagates, Judged, Blocked
  <2>1. ToSet(order) = Tasks /\ order \in Seq(Tasks) /\ position > Len(order) /\ position \in Nat
    BY DEF IInv, SortInv, SortTypes, RunInv, RunTypes
  <2>2. PICK i \in 1 .. Len(order) : order[i] = t
    BY <2>1 DEF ToSet
  <2>3. i < position
    BY <2>1
  <2>. QED  BY <2>2, <2>3 DEF IInv, RunInv
<1>. QED  BY <1>1, Invariance, PTL
\* THEOREM.  The documented guarantee, that a step's output is there before a
\* dependent begins, does hold when every task of the map has a timeout: the tasks
\* without one are all that breaks it.
THEOREM TimeoutsSecureOutputs ==
  ASSUME Tasks \subseteq HasTimeout
  PROVE  Spec => []OutputBeforeDependents
<1>1. IInv /\ DependentsWait => OutputBeforeDependents
  <2> SUFFICES ASSUME IInv, DependentsWait, NEW t \in started, NEW d \in ToSet(deps[t])
               PROVE  output[d] = "result"
    BY DEF OutputBeforeDependents
  <2>1. phase \in {"running", "ended"} /\ t \in Tasks
    BY DEF IInv, RunInv, RunTypes
  <2>2. d \in Tasks
    BY <2>1 DEF IInv, SortInv, RunInv, KnownDependencies
  <2>. QED  BY <2>2 DEF DependentsWait
<1>. QED  BY <1>1, Invariance, DependentsAlwaysWait, PTL
=============================================================================
