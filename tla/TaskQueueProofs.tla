--------------------------- MODULE TaskQueueProofs ---------------------------
(***************************************************************************)
(* Theorems about TaskQueue, for any finite set of jobs, any priorities,   *)
(* budgets and concurrency, and any of the modelled listener faults.       *)
(***************************************************************************)
EXTENDS TaskQueue, SharedLemmas

\* Splicing one element into a sequence shifts what was at or after its place.
LEMMA SpliceShifts ==
  ASSUME NEW S, NEW q \in Seq(S), NEW x \in S, NEW k \in 1 .. Len(q)
  PROVE  LET r == SubSeq(q, 1, k - 1) \o <<x>> \o SubSeq(q, k, Len(q))
         IN  /\ r \in Seq(S)
             /\ Len(r) = Len(q) + 1
             /\ r[k] = x
             /\ \A i \in 1 .. k - 1 : r[i] = q[i]
             /\ \A i \in k + 1 .. Len(q) + 1 : r[i] = q[i - 1]
<1> DEFINE A == SubSeq(q, 1, k - 1)
           B == SubSeq(q, k, Len(q))
<1>1. A \in Seq(S) /\ Len(A) = k - 1 /\ \A i \in 1 .. k - 1 : A[i] = q[i]
  OBVIOUS
<1>2. B \in Seq(S) /\ Len(B) = Len(q) - k + 1 /\ \A i \in 1 .. Len(B) : B[i] = q[k + i - 1]
  OBVIOUS
<1> HIDE DEF A, B
<1>3. /\ A \o <<x>> \in Seq(S)
      /\ Len(A \o <<x>>) = k
      /\ (A \o <<x>>)[k] = x
      /\ \A i \in 1 .. k - 1 : (A \o <<x>>)[i] = q[i]
  BY <1>1
<1> DEFINE C == A \o <<x>>
<1> HIDE DEF C
<1>4. C \in Seq(S) /\ Len(C) = k /\ C[k] = x /\ \A i \in 1 .. k - 1 : C[i] = q[i]
  BY <1>3 DEF C
<1>5. /\ C \o B \in Seq(S)
      /\ Len(C \o B) = Len(q) + 1
      /\ \A i \in 1 .. k : (C \o B)[i] = C[i]
      /\ \A i \in k + 1 .. Len(q) + 1 : (C \o B)[i] = B[i - k]
  <2>1. /\ C \o B \in Seq(S)
        /\ Len(C \o B) = Len(C) + Len(B)
        /\ \A i \in 1 .. Len(C) + Len(B) :
             (C \o B)[i] = IF i <= Len(C) THEN C[i] ELSE B[i - Len(C)]
    BY <1>2, <1>4, ConcatProperties
  <2>. QED  BY <1>2, <1>4, <2>1
<1>6. \A i \in k + 1 .. Len(q) + 1 : B[i - k] = q[i - 1]
  BY <1>2
<1>7. (C \o B)[k] = x /\ \A i \in 1 .. k - 1 : (C \o B)[i] = q[i]
  BY <1>4, <1>5
<1>8. C \o B = SubSeq(q, 1, k - 1) \o <<x>> \o SubSeq(q, k, Len(q))
  BY DEF A, B, C
<1>. QED  BY <1>5, <1>6, <1>7, <1>8

\* InsertByPriority opens one gap in the queue, puts the job there, and moves
\* nothing else: before the gap are jobs at least as urgent, just after it one
\* that is less urgent.
LEMMA InsertOpensOneGap ==
  ASSUME NEW q \in Seq(Jobs), NEW j \in Jobs
  PROVE  LET r == InsertByPriority(q, j)
         IN  /\ r \in Seq(Jobs)
             /\ Len(r) = Len(q) + 1
             /\ \E k \in 1 .. Len(q) + 1 :
                  /\ r[k] = j
                  /\ \A i \in 1 .. k - 1 : r[i] = q[i] /\ Priority[q[i]] >= Priority[j]
                  /\ \A i \in k + 1 .. Len(q) + 1 : r[i] = q[i - 1]
                  /\ k <= Len(q) => Priority[q[k]] < Priority[j]
<1> DEFINE lower == {i \in 1 .. Len(q) : Priority[q[i]] < Priority[j]}
           r == InsertByPriority(q, j)
<1>0. \A i \in Jobs : Priority[i] \in Int
  BY JobsAssumption
<1>1. CASE lower = {}
  <2>1. r = Append(q, j)
    BY <1>1 DEF InsertByPriority
  <2>2. \A i \in 1 .. Len(q) : Priority[q[i]] >= Priority[j]
    BY <1>0, <1>1
  <2>3. /\ r \in Seq(Jobs)
        /\ Len(r) = Len(q) + 1
        /\ r[Len(q) + 1] = j
        /\ \A i \in 1 .. Len(q) : r[i] = q[i]
    BY <2>1
  <2>. QED  BY <2>2, <2>3
<1>2. CASE lower # {}
  <2> DEFINE k == Min(lower)
  <2>1. k \in lower /\ \A i \in lower : k <= i
    <3>1. lower \in SUBSET Nat
      OBVIOUS
    <3> HIDE DEF lower
    <3>. QED  BY <1>2, <3>1, MinIsLeast
  <2>2. r = SubSeq(q, 1, k - 1) \o <<j>> \o SubSeq(q, k, Len(q))
    BY <1>2 DEF InsertByPriority, InsertAt
  <2>3. k \in 1 .. Len(q) /\ Priority[q[k]] < Priority[j]
    BY <2>1
  <2>4. \A i \in 1 .. k - 1 : Priority[q[i]] >= Priority[j]
    BY <1>0, <2>1, <2>3
  <2> HIDE DEF k
  <2>5. /\ r \in Seq(Jobs)
        /\ Len(r) = Len(q) + 1
        /\ r[k] = j
        /\ \A i \in 1 .. k - 1 : r[i] = q[i]
        /\ \A i \in k + 1 .. Len(q) + 1 : r[i] = q[i - 1]
    <3> HIDE DEF r, lower
    <3>. QED  BY <2>2, <2>3, SpliceShifts
  <2>6. \E g \in 1 .. Len(q) + 1 :
          /\ r[g] = j
          /\ \A i \in 1 .. g - 1 : r[i] = q[i] /\ Priority[q[i]] >= Priority[j]
          /\ \A i \in g + 1 .. Len(q) + 1 : r[i] = q[i - 1]
          /\ g <= Len(q) => Priority[q[g]] < Priority[j]
    <3> HIDE DEF r, lower
    <3>1. k \in 1 .. Len(q) + 1
      BY <2>3
    <3>. WITNESS k \in 1 .. Len(q) + 1
    <3>. QED  BY <2>3, <2>4, <2>5
  <2>. QED  BY <2>5, <2>6
<1>. QED  BY <1>1, <1>2

-----------------------------------------------------------------------------
(* The inductive invariant.  QueueIsPending is what makes SlotAccounting    *)
(* inductive (a dispatched job was not running before), and SlotAccounting  *)
(* is what keeps `running` a natural number when a slot is released.  That   *)
(* handlers are never removed and that attempts agree with the status are   *)
(* what AttemptBudget and FreshJobsByPriority need.                         *)

HandlersStay == InitialHandlers \subseteq handlers

AttemptsMatchStatus ==
  \A j \in Jobs :
    /\ status[j] = "absent" => attempts[j] = 0
    /\ status[j] = "running" => attempts[j] > 0

IInv ==
  /\ TypeOK
  /\ HandlersStay
  /\ AttemptsMatchStatus
  /\ QueueIsPending
  /\ SlotAccounting
  /\ AttemptBudget
  /\ FreshJobsByPriority

\* What is at the head of a nonempty queue, and where the rest of it goes.
LEMMA HeadAndTail ==
  ASSUME NEW q \in Seq(Jobs), q # <<>>
  PROVE  /\ Len(q) >= 1
         /\ Head(q) = q[1]
         /\ Head(q) \in Jobs
         /\ Tail(q) \in Seq(Jobs)
         /\ Len(Tail(q)) = Len(q) - 1
         /\ \A i \in 1 .. Len(q) - 1 : Tail(q)[i] = q[i + 1]
  OBVIOUS

\* The job that processNext shifts is pending, so it is not running.
LEMMA HeadIsPending ==
  ASSUME TypeOK, QueueIsPending, queue # <<>>
  PROVE  status[Head(queue)] = "pending" /\ Head(queue) \in Jobs
<1>1. Len(queue) >= 1 /\ Head(queue) = queue[1] /\ Head(queue) \in Jobs
  BY HeadAndTail DEF TypeOK
<1>2. 1 \in 1 .. Len(queue)
  BY <1>1 DEF TypeOK
<1>. QED  BY <1>1, <1>2 DEF QueueIsPending

\* Taking a slot and giving it back change the number of running jobs by one.
LEMMA RunningChanges ==
  ASSUME TypeOK, NEW j \in Jobs
  PROVE  /\ Cardinality(Running) \in Nat
         /\ j \notin Running => Cardinality(Running \union {j}) = Cardinality(Running) + 1
         /\ j \in Running => Cardinality(Running \ {j}) = Cardinality(Running) - 1
<1>1. IsFiniteSet(Running)
  BY JobsAssumption, FS_Subset DEF Running
<1>. QED  BY <1>1, FS_CardinalityType, FS_AddElement, FS_RemoveElement

\* The constructor's state satisfies the inductive invariant.
LEMMA InitEstablishesIInv == Init => IInv
<1> SUFFICES ASSUME Init PROVE IInv
  OBVIOUS
<1>1. TypeOK
  BY OptionsAssumption DEF Init, TypeOK, Statuses
<1>2. HandlersStay /\ AttemptsMatchStatus
  BY DEF Init, HandlersStay, AttemptsMatchStatus
<1>3. QueueIsPending
  BY DEF Init, QueueIsPending
<1>4. Running = {}
  BY DEF Init, Running
<1>5. SlotAccounting
  BY <1>4, FS_EmptySet, OptionsAssumption DEF Init, SlotAccounting
<1>6. AttemptBudget /\ FreshJobsByPriority
  BY DEF Init, AttemptBudget, WithinBudget, FinishedIsFinal, FreshJobsByPriority
<1>. QED  BY <1>1, <1>2, <1>3, <1>5, <1>6 DEF IInv

\* Every step keeps the variables well typed; a slot is only released by a job
\* that holds one.
LEMMA StepKeepsTypes == IInv /\ [Next]_vars => TypeOK'
<1> SUFFICES ASSUME IInv, [Next]_vars PROVE TypeOK'
  OBVIOUS
<1> USE DEF TypeOK, Statuses
<1>0. TypeOK /\ QueueIsPending /\ SlotAccounting
  BY DEF IInv
<1>1. ASSUME NEW t \in Types, RegisterHandler(t) PROVE TypeOK'
  BY <1>0, <1>1 DEF RegisterHandler
<1>2. ASSUME NEW j \in Jobs, Enqueue(j) PROVE TypeOK'
  <2>1. queue' \in Seq(Jobs)
    BY <1>0, <1>2, InsertOpensOneGap DEF Enqueue
  <2>. QED  BY <1>0, <1>2, <2>1 DEF Enqueue
<1>3. CASE NothingToDo
  BY <1>0, <1>3 DEF NothingToDo
<1>4. CASE RejectNext
  BY <1>0, <1>4, HeadAndTail DEF RejectNext
<1>5. CASE StartNext
  BY <1>0, <1>5, HeadAndTail DEF StartNext
<1>6. ASSUME NEW j \in Jobs, Settle(j) PROVE TypeOK'
  <2>1. j \in Running
    BY <1>0, <1>6 DEF Settle, Complete, CatchEntered, RetryLater, FailForGood, SlotAccounting
  <2>2. running - 1 \in Nat
    <3>1. Running # {} /\ IsFiniteSet(Running)
      BY <2>1, JobsAssumption, FS_Subset DEF Running
    <3>2. Cardinality(Running) # 0 /\ Cardinality(Running) \in Nat
      BY <3>1, FS_EmptySet, FS_CardinalityType
    <3>. QED  BY <1>0, <3>2 DEF SlotAccounting
  <2>3. CASE Complete(j)
    BY <1>0, <2>2, <2>3 DEF Complete, ReleaseSlot
  <2>4. CASE RetryLater(j)
    BY <1>0, <2>2, <2>4 DEF RetryLater, CatchEntered, ReleaseSlot
  <2>5. CASE FailForGood(j)
    BY <1>0, <2>2, <2>5 DEF FailForGood, CatchEntered, ReleaseSlot
  <2>. QED  BY <1>6, <2>3, <2>4, <2>5 DEF Settle
<1>7. CASE UNCHANGED vars
  BY <1>0, <1>7 DEF vars
<1>. QED  BY <1>1, <1>2, <1>3, <1>4, <1>5, <1>6, <1>7 DEF Next, ProcessNext

\* Whether an id is in a queue, and that none is there twice.
Holds(q, x) == \E i \in 1 .. Len(q) : q[i] = x
NoRepeats(q) == \A i, k \in 1 .. Len(q) : q[i] = q[k] => i = k

\* Inserting an id that is not in the queue adds that id and no other.
LEMMA InsertAddsOne ==
  ASSUME NEW q \in Seq(Jobs), NEW j \in Jobs, ~ Holds(q, j), NoRepeats(q)
  PROVE  /\ NoRepeats(InsertByPriority(q, j))
         /\ \A x : Holds(InsertByPriority(q, j), x) <=> x = j \/ Holds(q, x)
<1> DEFINE r == InsertByPriority(q, j)
<1>1. Len(q) \in Nat /\ Len(r) = Len(q) + 1
  BY InsertOpensOneGap
<1>2. PICK k \in 1 .. Len(q) + 1 :
        /\ r[k] = j
        /\ \A i \in 1 .. k - 1 : r[i] = q[i]
        /\ \A i \in k + 1 .. Len(q) + 1 : r[i] = q[i - 1]
  <2> HIDE DEF r
  <2>1. \E m \in 1 .. Len(q) + 1 :
          /\ r[m] = j
          /\ \A i \in 1 .. m - 1 : r[i] = q[i] /\ Priority[q[i]] >= Priority[j]
          /\ \A i \in m + 1 .. Len(q) + 1 : r[i] = q[i - 1]
          /\ m <= Len(q) => Priority[q[m]] < Priority[j]
    BY InsertOpensOneGap DEF r
  <2>. QED  BY <2>1
<1> HIDE DEF r
<1>3. \A i \in 1 .. Len(r) : \/ i < k /\ i \in 1 .. Len(q) /\ r[i] = q[i]
                             \/ i = k /\ r[i] = j
                             \/ i > k /\ i - 1 \in 1 .. Len(q) /\ r[i] = q[i - 1]
  BY <1>1, <1>2
<1>4. NoRepeats(r)
  <2> SUFFICES ASSUME NEW i \in 1 .. Len(r), NEW m \in 1 .. Len(r), r[i] = r[m]
               PROVE  i = m
    BY DEF NoRepeats
  <2>1. \A n \in 1 .. Len(q) : q[n] # j
    BY DEF Holds
  <2>2. \A n, o \in 1 .. Len(q) : q[n] = q[o] => n = o
    BY DEF NoRepeats
  <2>3. \A n \in 1 .. Len(q) : n \in Int /\ (n - 1 \in 1 .. Len(q) => n - 1 \in Int)
    BY <1>1
  <2>4. i \in Int /\ m \in Int /\ k \in Int
    BY <1>1, <1>2
  <2>5. CASE i = k \/ m = k
    BY <1>3, <2>1, <2>4, <2>5, SMTT(30)
  <2>6. CASE i # k /\ m # k
    BY <1>3, <2>2, <2>4, <2>6
  <2>. QED  BY <2>5, <2>6
<1>5. ASSUME NEW x, Holds(r, x) PROVE x = j \/ Holds(q, x)
  BY <1>3, <1>5 DEF Holds
<1>6. Holds(r, j)
  BY <1>1, <1>2 DEF Holds
<1>7. ASSUME NEW x, NEW i \in 1 .. Len(q), q[i] = x PROVE Holds(r, x)
  <2>1. CASE i < k
    <3>1. i \in 1 .. k - 1 /\ i \in 1 .. Len(r)
      BY <1>1, <2>1
    <3>. QED  BY <1>2, <1>7, <3>1 DEF Holds
  <2>2. CASE i >= k
    <3>1. i + 1 \in k + 1 .. Len(q) + 1 /\ i + 1 \in 1 .. Len(r) /\ (i + 1) - 1 = i
      BY <1>1, <2>2
    <3>2. r[i + 1] = q[(i + 1) - 1]
      BY <1>2, <3>1
    <3>. QED  BY <1>7, <3>1, <3>2 DEF Holds
  <2>. QED  BY <1>1, <2>1, <2>2
<1>8. \A x : Holds(r, x) <=> x = j \/ Holds(q, x)
  BY <1>5, <1>6, <1>7 DEF Holds
<1>. QED  BY <1>4, <1>8 DEF r

\* So does putting an id at the tail.
LEMMA AppendAddsOne ==
  ASSUME NEW q \in Seq(Jobs), NEW j \in Jobs, ~ Holds(q, j), NoRepeats(q)
  PROVE  /\ NoRepeats(Append(q, j))
         /\ \A x : Holds(Append(q, j), x) <=> x = j \/ Holds(q, x)
<1> DEFINE r == Append(q, j)
<1>1. /\ Len(q) \in Nat
      /\ Len(r) = Len(q) + 1
      /\ r[Len(q) + 1] = j
      /\ \A i \in 1 .. Len(q) : r[i] = q[i]
  OBVIOUS
<1> HIDE DEF r
<1>2. NoRepeats(r)
  BY <1>1 DEF Holds, NoRepeats
<1>3. ASSUME NEW x PROVE Holds(r, x) <=> x = j \/ Holds(q, x)
  BY <1>1 DEF Holds
<1>. QED  BY <1>2, <1>3 DEF r

\* Shifting takes out the head and nothing else.
LEMMA TailTakesOne ==
  ASSUME NEW q \in Seq(Jobs), q # <<>>, NoRepeats(q)
  PROVE  /\ NoRepeats(Tail(q))
         /\ \A x : Holds(Tail(q), x) <=> x # Head(q) /\ Holds(q, x)
<1> DEFINE r == Tail(q)
           h == Head(q)
<1>1. /\ Len(q) \in Nat /\ Len(q) >= 1
      /\ Len(r) = Len(q) - 1
      /\ h = q[1]
      /\ \A i \in 1 .. Len(q) - 1 : r[i] = q[i + 1]
  BY HeadAndTail
<1> HIDE DEF r, h
<1>2. NoRepeats(r)
  <2> SUFFICES ASSUME NEW i \in 1 .. Len(r), NEW m \in 1 .. Len(r), r[i] = r[m]
               PROVE  i = m
    BY DEF NoRepeats
  <2>1. i + 1 \in 1 .. Len(q) /\ m + 1 \in 1 .. Len(q) /\ q[i + 1] = q[m + 1]
    BY <1>1
  <2>2. i + 1 = m + 1
    BY <2>1 DEF NoRepeats
  <2>. QED  BY <2>2
<1>3. ASSUME NEW x, NEW i \in 1 .. Len(r), r[i] = x PROVE x # h /\ Holds(q, x)
  <2>1. i + 1 \in 1 .. Len(q) /\ 1 \in 1 .. Len(q) /\ q[i + 1] = x
    BY <1>1, <1>3
  <2>2. q[i + 1] # q[1]
    BY <2>1 DEF NoRepeats
  <2>. QED  BY <1>1, <2>1, <2>2 DEF Holds
<1>4. ASSUME NEW x, x # h, NEW i \in 1 .. Len(q), q[i] = x PROVE Holds(r, x)
  <2>1. i - 1 \in 1 .. Len(r) /\ (i - 1) + 1 = i
    BY <1>1, <1>4
  <2>2. r[i - 1] = q[(i - 1) + 1]
    BY <1>1, <2>1
  <2>. QED  BY <1>4, <2>1, <2>2 DEF Holds
<1>5. \A x : Holds(r, x) <=> x # h /\ Holds(q, x)
  BY <1>3, <1>4 DEF Holds
<1>. QED  BY <1>2, <1>5 DEF r, h

-----------------------------------------------------------------------------
\* Each step that changes the queue changes the status of the same job.
LEMMA StepKeepsQueue == IInv /\ [Next]_vars => QueueIsPending'
<1> SUFFICES ASSUME IInv, [Next]_vars PROVE QueueIsPending'
  OBVIOUS
<1>0. TypeOK /\ QueueIsPending /\ SlotAccounting
  BY DEF IInv
<1>a. QueueIsPending <=> NoRepeats(queue) /\ \A j \in Jobs : status[j] = "pending" <=> Holds(queue, j)
  BY DEF QueueIsPending, NoRepeats, Holds
<1>b. ASSUME NoRepeats(queue'), \A j \in Jobs : status'[j] = "pending" <=> Holds(queue', j)
      PROVE  QueueIsPending'
  BY <1>b DEF QueueIsPending, NoRepeats, Holds
<1>1. ASSUME NEW t \in Types, RegisterHandler(t) PROVE QueueIsPending'
  BY <1>0, <1>1 DEF RegisterHandler, QueueIsPending
<1>2. ASSUME NEW j \in Jobs, Enqueue(j) PROVE QueueIsPending'
  <2>1. queue \in Seq(Jobs) /\ ~ Holds(queue, j) /\ NoRepeats(queue)
    BY <1>0, <1>2, <1>a DEF Enqueue, TypeOK
  <2>2. NoRepeats(queue') /\ \A x : Holds(queue', x) <=> x = j \/ Holds(queue, x)
    BY <1>2, <2>1, InsertAddsOne DEF Enqueue
  <2>3. \A x \in Jobs : status'[x] = "pending" <=> Holds(queue', x)
    BY <1>0, <1>2, <1>a, <2>2 DEF Enqueue, TypeOK
  <2>. QED  BY <2>2, <2>3, <1>b
<1>3. CASE NothingToDo
  BY <1>0, <1>3 DEF NothingToDo, QueueIsPending
<1>4. ASSUME queue # <<>>, queue' = Tail(queue), NEW st \in Statuses, st # "pending",
             status' = [status EXCEPT ![Head(queue)] = st]
      PROVE  QueueIsPending'
  <2>1. queue \in Seq(Jobs) /\ NoRepeats(queue)
    BY <1>0, <1>a DEF TypeOK
  <2>2. NoRepeats(queue') /\ \A x : Holds(queue', x) <=> x # Head(queue) /\ Holds(queue, x)
    BY <1>4, <2>1, TailTakesOne
  <2>3. \A x \in Jobs : status'[x] = "pending" <=> Holds(queue', x)
    BY <1>0, <1>4, <1>a, <2>2 DEF TypeOK
  <2>. QED  BY <2>2, <2>3, <1>b
<1>5. CASE RejectNext
  BY <1>4, <1>5 DEF RejectNext, Statuses
<1>6. CASE StartNext
  BY <1>4, <1>6 DEF StartNext, Statuses
<1>7. ASSUME NEW j \in Jobs, Settle(j) PROVE QueueIsPending'
  <2>1. status[j] = "running" /\ ~ Holds(queue, j)
    BY <1>0, <1>7, <1>a DEF Settle, Complete, CatchEntered, RetryLater, FailForGood, SlotAccounting, Running
  <2>2. CASE Complete(j)
    BY <1>0, <2>1, <2>2 DEF Complete, TypeOK, QueueIsPending
  <2>3. CASE FailForGood(j)
    BY <1>0, <2>1, <2>3 DEF FailForGood, TypeOK, QueueIsPending
  <2>4. CASE RetryLater(j)
    <3>1. NoRepeats(queue') /\ \A x : Holds(queue', x) <=> x = j \/ Holds(queue, x)
      BY <1>0, <1>a, <2>1, <2>4, AppendAddsOne DEF RetryLater, TypeOK
    <3>2. \A x \in Jobs : status'[x] = "pending" <=> Holds(queue', x)
      BY <1>0, <1>a, <2>4, <3>1 DEF RetryLater, TypeOK
    <3>. QED  BY <3>1, <3>2, <1>b
  <2>. QED  BY <1>7, <2>2, <2>3, <2>4 DEF Settle
<1>8. CASE UNCHANGED vars
  BY <1>0, <1>8 DEF vars, QueueIsPending
<1>. QED  BY <1>1, <1>2, <1>3, <1>5, <1>6, <1>7, <1>8 DEF Next, ProcessNext

\* A slot is taken only below the limit, by a job that was not running, and is
\* given back by the job that stops running.
LEMMA StepKeepsSlots == IInv /\ [Next]_vars => SlotAccounting'
<1> SUFFICES ASSUME IInv, [Next]_vars PROVE SlotAccounting'
  OBVIOUS
<1>0. TypeOK /\ QueueIsPending /\ SlotAccounting
  BY DEF IInv
<1>a. ASSUME Running' = Running, UNCHANGED <<running, executing>> PROVE SlotAccounting'
  BY <1>0, <1>a DEF SlotAccounting
<1>1. ASSUME NEW t \in Types, RegisterHandler(t) PROVE SlotAccounting'
  BY <1>a, <1>1 DEF RegisterHandler, Running
<1>2. ASSUME NEW j \in Jobs, Enqueue(j) PROVE SlotAccounting'
  BY <1>0, <1>a, <1>2 DEF Enqueue, Running, TypeOK
<1>3. CASE NothingToDo
  BY <1>a, <1>3 DEF NothingToDo, Running
<1>4. CASE RejectNext
  <2>1. status[Head(queue)] = "pending" /\ Head(queue) \in Jobs
    BY <1>0, <1>4, HeadIsPending DEF RejectNext
  <2>. QED  BY <1>0, <1>a, <1>4, <2>1 DEF RejectNext, Running, TypeOK
<1>5. CASE StartNext
  <2>1. status[Head(queue)] = "pending" /\ Head(queue) \in Jobs
    BY <1>0, <1>5, HeadIsPending DEF StartNext
  <2>2. Head(queue) \notin Running /\ Running' = Running \union {Head(queue)}
    BY <1>0, <1>5, <2>1 DEF StartNext, Running, TypeOK
  <2>3. Cardinality(Running') = Cardinality(Running) + 1
    BY <1>0, <2>1, <2>2, RunningChanges
  <2>4. running' = Cardinality(Running') /\ running' <= Concurrency
    BY <1>0, <1>5, <2>3, OptionsAssumption DEF StartNext, SlotAccounting, TypeOK
  <2>5. /\ executing' \subseteq Running'
        /\ "job:started" \notin ListenerFaults => executing' = Running'
    BY <1>0, <1>5, <2>2 DEF StartNext, SlotAccounting
  <2>. QED  BY <2>4, <2>5 DEF SlotAccounting
<1>6. ASSUME NEW j \in Jobs, Settle(j) PROVE SlotAccounting'
  <2>1. /\ j \in executing
        /\ executing' = executing \ {j}
        /\ running' = running - 1
        /\ \E st \in Statuses \ {"running"} : status' = [status EXCEPT ![j] = st]
    BY <1>6 DEF Settle, Complete, CatchEntered, RetryLater, FailForGood, ReleaseSlot, Statuses
  <2>2. j \in Running /\ Running' = Running \ {j}
    BY <1>0, <2>1 DEF SlotAccounting, Running, TypeOK
  <2>3. Cardinality(Running') = Cardinality(Running) - 1
    BY <1>0, <2>2, RunningChanges
  <2>4. running' = Cardinality(Running') /\ running' <= Concurrency
    BY <1>0, <2>1, <2>3, OptionsAssumption DEF SlotAccounting, TypeOK
  <2>5. /\ executing' \subseteq Running'
        /\ "job:started" \notin ListenerFaults => executing' = Running'
    BY <1>0, <2>1, <2>2 DEF SlotAccounting
  <2>. QED  BY <2>4, <2>5 DEF SlotAccounting
<1>7. CASE UNCHANGED vars
  BY <1>a, <1>7 DEF vars, Running
<1>. QED  BY <1>1, <1>2, <1>3, <1>4, <1>5, <1>6, <1>7 DEF Next, ProcessNext

\* No step forgets a handler.
LEMMA StepKeepsHandlers == IInv /\ [Next]_vars => HandlersStay'
<1> SUFFICES ASSUME HandlersStay, [Next]_vars PROVE HandlersStay'
  BY DEF IInv
<1>. QED  BY DEF HandlersStay, Next, RegisterHandler, Enqueue, ProcessNext, NothingToDo,
                  RejectNext, StartNext, Settle, Complete, CatchEntered, RetryLater, FailForGood, vars

\* What one step does to the status and the attempts of one job.
LEMMA StepOfOneJob ==
  ASSUME IInv, [Next]_vars, NEW x \in Jobs
  PROVE  \/ status'[x] = status[x] /\ attempts'[x] = attempts[x]
         \/ status[x] = "absent" /\ status'[x] = "pending" /\ attempts'[x] = attempts[x]
         \/ /\ status[x] = "pending" /\ status'[x] = "failed" /\ attempts'[x] = attempts[x]
            /\ JobType[x] \notin handlers
         \/ status[x] = "pending" /\ status'[x] = "running" /\ attempts'[x] = attempts[x] + 1
         \/ /\ status[x] = "running" /\ attempts'[x] = attempts[x]
            /\ \/ status'[x] = "completed"
               \/ status'[x] = "pending" /\ attempts[x] < MaxAttempts[x]
               \/ status'[x] = "failed" /\ attempts[x] >= MaxAttempts[x]
<1>0. TypeOK /\ QueueIsPending /\ SlotAccounting
  BY DEF IInv
<1>1. ASSUME NEW t \in Types, RegisterHandler(t) PROVE UNCHANGED <<status, attempts>>
  BY <1>1 DEF RegisterHandler
<1>2. ASSUME NEW j \in Jobs, Enqueue(j)
      PROVE  \/ status'[x] = status[x] /\ attempts'[x] = attempts[x]
             \/ status[x] = "absent" /\ status'[x] = "pending" /\ attempts'[x] = attempts[x]
  BY <1>0, <1>2 DEF Enqueue, TypeOK
<1>3. CASE NothingToDo
  BY <1>3 DEF NothingToDo
<1>4. CASE RejectNext
  <2>1. status[Head(queue)] = "pending" /\ Head(queue) \in Jobs
    BY <1>0, <1>4, HeadIsPending DEF RejectNext
  <2>. QED  BY <1>0, <1>4, <2>1 DEF RejectNext, TypeOK
<1>5. CASE StartNext
  <2>1. status[Head(queue)] = "pending" /\ Head(queue) \in Jobs
    BY <1>0, <1>5, HeadIsPending DEF StartNext
  <2>. QED  BY <1>0, <1>5, <2>1 DEF StartNext, TypeOK
<1>6. ASSUME NEW j \in Jobs, Settle(j)
      PROVE  \/ status'[x] = status[x] /\ attempts'[x] = attempts[x]
             \/ /\ status[x] = "running" /\ attempts'[x] = attempts[x]
                /\ \/ status'[x] = "completed"
                   \/ status'[x] = "pending" /\ attempts[x] < MaxAttempts[x]
                   \/ status'[x] = "failed" /\ attempts[x] >= MaxAttempts[x]
  <2>1. status[j] = "running"
    BY <1>0, <1>6 DEF Settle, Complete, CatchEntered, RetryLater, FailForGood, SlotAccounting, Running
  <2>. QED  BY <1>0, <1>6, <2>1 DEF Settle, Complete, CatchEntered, RetryLater, FailForGood, TypeOK
<1>7. CASE UNCHANGED vars
  BY <1>7 DEF vars
<1>. QED  BY <1>1, <1>2, <1>3, <1>4, <1>5, <1>6, <1>7 DEF Next, ProcessNext

\* An attempt is only added to a waiting job, whose budget is not used up.
LEMMA StepKeepsBudget == IInv /\ [Next]_vars => WithinBudget' /\ AttemptsMatchStatus'
<1> SUFFICES ASSUME IInv, [Next]_vars, NEW x \in Jobs
             PROVE  /\ attempts'[x] > 1 => attempts'[x] <= MaxAttempts[x]
                    /\ status'[x] = "pending" /\ attempts'[x] > 0 => attempts'[x] < MaxAttempts[x]
                    /\ status'[x] = "failed" /\ JobType[x] \in InitialHandlers
                         => attempts'[x] >= MaxAttempts[x]
                    /\ status'[x] = "absent" => attempts'[x] = 0
                    /\ status'[x] = "running" => attempts'[x] > 0
  BY DEF WithinBudget, AttemptsMatchStatus
<1>1. /\ attempts[x] > 1 => attempts[x] <= MaxAttempts[x]
      /\ status[x] = "pending" /\ attempts[x] > 0 => attempts[x] < MaxAttempts[x]
      /\ status[x] = "failed" /\ JobType[x] \in InitialHandlers => attempts[x] >= MaxAttempts[x]
      /\ status[x] = "absent" => attempts[x] = 0
      /\ status[x] = "running" => attempts[x] > 0
      /\ attempts[x] \in Nat /\ MaxAttempts[x] \in Int
  BY JobsAssumption DEF IInv, AttemptBudget, WithinBudget, AttemptsMatchStatus, TypeOK
<1>2. JobType[x] \in InitialHandlers => JobType[x] \in handlers
  BY DEF IInv, HandlersStay
<1>. QED  BY <1>1, <1>2, StepOfOneJob

\* Unless a "job:completed" listener throws, a handler's return is recorded only by
\* the step that completes its job, and a completed job stays so.
LEMMA StepKeepsFinished == IInv /\ [Next]_vars => FinishedIsFinal'
<1> SUFFICES ASSUME IInv, [Next]_vars, "job:completed" \notin ListenerFaults, NEW x \in finished'
             PROVE  status'[x] = "completed"
  BY DEF FinishedIsFinal
<1>1. TypeOK /\ \A j \in finished : status[j] = "completed"
  BY DEF IInv, AttemptBudget, FinishedIsFinal
<1>2. CASE x \in finished
  <2>1. x \in Jobs /\ status[x] = "completed"
    BY <1>1, <1>2 DEF TypeOK
  <2>. QED  BY <2>1, StepOfOneJob
<1>3. CASE x \notin finished
  <2>1. PICK j \in Jobs : Complete(j)
    BY <1>3 DEF Next, RegisterHandler, Enqueue, ProcessNext, NothingToDo, RejectNext,
                StartNext, Settle, CatchEntered, RetryLater, FailForGood, vars
  <2>2. x = j
    BY <1>3, <2>1 DEF Complete
  <2>. QED  BY <1>1, <2>1, <2>2 DEF Complete, TypeOK
<1>. QED  BY <1>2, <1>3

\* The queue keeps untried jobs behind nothing less urgent: a new job goes
\* behind every more urgent one, and what is put at the tail was tried.
LEMMA StepKeepsPriorities == IInv /\ [Next]_vars => FreshJobsByPriority'
<1> SUFFICES ASSUME IInv, [Next]_vars PROVE FreshJobsByPriority'
  OBVIOUS
<1>0. /\ TypeOK /\ QueueIsPending /\ SlotAccounting /\ FreshJobsByPriority /\ AttemptsMatchStatus
      /\ \A x \in Jobs : Priority[x] \in Int
      /\ Len(queue) \in Nat
      /\ \A i \in 1 .. Len(queue) : queue[i] \in Jobs
  BY JobsAssumption DEF IInv, TypeOK
<1>a. ASSUME UNCHANGED <<queue, attempts>> PROVE FreshJobsByPriority'
  BY <1>0, <1>a DEF FreshJobsByPriority
<1>b. ASSUME queue # <<>>, queue' = Tail(queue),
             \A x \in Jobs : x # Head(queue) => attempts'[x] = attempts[x]
      PROVE  FreshJobsByPriority'
  <2>1. /\ Len(queue') = Len(queue) - 1
        /\ Head(queue) = queue[1]
        /\ Len(queue) >= 1
        /\ \A i \in 1 .. Len(queue) - 1 : queue'[i] = queue[i + 1]
    BY <1>0, <1>b, HeadAndTail DEF TypeOK
  <2> SUFFICES ASSUME NEW i \in 1 .. Len(queue'), NEW k \in 1 .. Len(queue'), i < k,
                      attempts'[queue'[k]] = 0
               PROVE  Priority[queue'[i]] >= Priority[queue'[k]]
    BY DEF FreshJobsByPriority
  <2>2. /\ i + 1 \in 1 .. Len(queue) /\ k + 1 \in 1 .. Len(queue) /\ 1 \in 1 .. Len(queue)
        /\ i + 1 < k + 1 /\ k + 1 # 1
        /\ queue'[i] = queue[i + 1] /\ queue'[k] = queue[k + 1]
    BY <1>0, <2>1
  <2>3. queue[k + 1] # Head(queue)
    BY <1>0, <2>1, <2>2 DEF QueueIsPending
  <2>4. attempts[queue[k + 1]] = 0
    BY <1>0, <1>b, <2>2, <2>3
  <2>. QED  BY <1>0, <2>2, <2>4 DEF FreshJobsByPriority
<1>1. ASSUME NEW t \in Types, RegisterHandler(t) PROVE FreshJobsByPriority'
  BY <1>a, <1>1 DEF RegisterHandler
<1>2. ASSUME NEW j \in Jobs, Enqueue(j) PROVE FreshJobsByPriority'
  <2> DEFINE q == queue
             r == InsertByPriority(q, j)
  <2>1. queue' = r /\ attempts' = attempts
    BY <1>2 DEF Enqueue
  <2>2. q \in Seq(Jobs)
    BY <1>0 DEF TypeOK
  <2>3. Len(r) = Len(q) + 1
    BY <2>2, InsertOpensOneGap
  <2>4. PICK g \in 1 .. Len(q) + 1 :
          /\ r[g] = j
          /\ \A i \in 1 .. g - 1 : r[i] = q[i] /\ Priority[q[i]] >= Priority[j]
          /\ \A i \in g + 1 .. Len(q) + 1 : r[i] = q[i - 1]
          /\ g <= Len(q) => Priority[q[g]] < Priority[j]
    <3> HIDE DEF q
    <3>. QED  BY <2>2, InsertOpensOneGap
  <2>5. \A i, k \in 1 .. Len(q) :
          i < k /\ attempts[q[k]] = 0 => Priority[q[i]] >= Priority[q[k]]
    BY <1>0 DEF FreshJobsByPriority
  <2>6. Len(q) \in Nat /\ \A i \in 1 .. Len(q) : Priority[q[i]] \in Int
    BY <1>0
  <2>7. Priority[j] \in Int
    BY <1>0
  <2> HIDE DEF q, r
  <2>8. ASSUME NEW i \in 1 .. Len(r), NEW k \in 1 .. Len(r), i < k, attempts[r[k]] = 0
        PROVE  Priority[r[i]] >= Priority[r[k]]
    <3>1. CASE k < g
      BY <2>3, <2>4, <2>5, <2>6, <2>8, <3>1
    <3>2. CASE k = g
      BY <2>3, <2>4, <2>6, <2>8, <3>2
    <3>3. CASE k > g
      <4>1. r[k] = q[k - 1] /\ k - 1 \in 1 .. Len(q) /\ g \in 1 .. Len(q)
        BY <2>3, <2>4, <2>6, <3>3
      <4>2. attempts[q[k - 1]] = 0
        BY <2>8, <4>1
      <4>3. CASE i < g
        <5>1. i \in 1 .. g - 1 /\ i \in 1 .. Len(q) /\ i < k - 1
          BY <2>3, <2>6, <3>3, <4>1, <4>3
        <5>2. r[i] = q[i]
          BY <2>4, <5>1
        <5>. QED  BY <2>5, <4>1, <4>2, <5>1, <5>2
      <4>4. CASE i = g
        <5>1. Priority[q[g]] >= Priority[q[k - 1]]
          BY <2>5, <2>6, <3>3, <4>1, <4>2
        <5>. QED  BY <2>4, <2>6, <2>7, <4>1, <4>4, <5>1
      <4>5. CASE i > g
        <5>1. i \in g + 1 .. Len(q) + 1 /\ i - 1 \in 1 .. Len(q) /\ i - 1 < k - 1
          BY <2>3, <2>6, <2>8, <4>1, <4>5
        <5>2. r[i] = q[i - 1]
          BY <2>4, <5>1
        <5>. QED  BY <2>5, <4>1, <4>2, <5>1, <5>2
      <4>. QED  BY <4>3, <4>4, <4>5
    <3>. QED  BY <2>3, <2>6, <3>1, <3>2, <3>3
  <2>. QED  BY <2>1, <2>8 DEF FreshJobsByPriority
<1>3. CASE NothingToDo
  BY <1>a, <1>3 DEF NothingToDo
<1>4. CASE RejectNext
  BY <1>b, <1>4 DEF RejectNext
<1>5. CASE StartNext
  BY <1>0, <1>b, <1>5 DEF StartNext, TypeOK
<1>6. ASSUME NEW j \in Jobs, Settle(j) PROVE FreshJobsByPriority'
  <2>1. CASE Complete(j) \/ FailForGood(j)
    BY <1>a, <2>1 DEF Complete, FailForGood
  <2>2. CASE RetryLater(j)
    <3>1. attempts[j] # 0 /\ attempts' = attempts
      BY <1>0, <2>2 DEF RetryLater, CatchEntered, SlotAccounting, Running, AttemptsMatchStatus, TypeOK
    <3>2. /\ Len(queue') = Len(queue) + 1
          /\ queue'[Len(queue) + 1] = j
          /\ \A i \in 1 .. Len(queue) : queue'[i] = queue[i]
      BY <1>0, <2>2 DEF RetryLater, TypeOK
    <3>3. Len(queue) \in Nat
      BY <1>0 DEF TypeOK
    <3>4. ASSUME NEW i \in 1 .. Len(queue'), NEW k \in 1 .. Len(queue'), i < k,
                 attempts'[queue'[k]] = 0
          PROVE  Priority[queue'[i]] >= Priority[queue'[k]]
      <4>1. k # Len(queue) + 1
        BY <3>1, <3>2, <3>4
      <4>2. i \in 1 .. Len(queue) /\ k \in 1 .. Len(queue)
        BY <3>2, <3>3, <3>4, <4>1
      <4>3. queue'[i] = queue[i] /\ queue'[k] = queue[k] /\ attempts[queue[k]] = 0
        BY <3>1, <3>2, <3>4, <4>2
      <4>. QED  BY <1>0, <3>4, <4>2, <4>3 DEF FreshJobsByPriority
    <3>. QED  BY <3>4 DEF FreshJobsByPriority
  <2>. QED  BY <1>6, <2>1, <2>2 DEF Settle
<1>7. CASE UNCHANGED vars
  BY <1>a, <1>7 DEF vars
<1>. QED  BY <1>1, <1>2, <1>3, <1>4, <1>5, <1>6, <1>7 DEF Next, ProcessNext

\* Every step of the queue preserves the inductive invariant.
LEMMA IInvIsInductive == IInv /\ [Next]_vars => IInv'
BY StepKeepsTypes, StepKeepsHandlers, StepKeepsQueue, StepKeepsSlots, StepKeepsBudget,
   StepKeepsFinished, StepKeepsPriorities DEF IInv, AttemptBudget

\* So the inductive invariant holds in every reachable state.
LEMMA Invariance == Spec => []IInv
BY InitEstablishesIInv, IInvIsInductive, PTL DEF Spec

-----------------------------------------------------------------------------
\* Types: every variable of the task queue stays in its type, whatever the
\* interleaving of enqueues, callbacks and settling handlers.
THEOREM TypeCorrect == Spec => []TypeOK
BY Invariance, PTL DEF IInv

\* The array of waiting ids and the statuses in the jobs map agree: what
\* processNext shifts is a pending job, and no pending job is missing from the
\* queue or in it twice.
THEOREM QueueMatchesStatus == Spec => []QueueIsPending
BY Invariance, PTL DEF IInv

\* this.running is the number of running jobs and never exceeds the concurrency.
THEOREM SlotsAccounted == Spec => []SlotAccounting
BY Invariance, PTL DEF IInv

\* No job is attempted more often than its maxAttempts allows, and none that has
\* a handler is given up before; a job whose handler has returned is not retried
\* unless a "job:completed" listener throws.
THEOREM BudgetRespected == Spec => []AttemptBudget
BY Invariance, PTL DEF IInv

\* insertByPriority keeps its promise to untried jobs, whatever retries do.
THEOREM FreshFirst == Spec => []FreshJobsByPriority
BY Invariance, PTL DEF IInv

\* When every type has its handler before the first job and no "job:enqueued"
\* listener throws, the scheduled callbacks always suffice to use the free slots.
THEOREM NoLostWakeup ==
  ASSUME InitialHandlers = Types, "job:enqueued" \notin ListenerFaults
  PROVE  Spec => []WorkConserving
<1>1. Init => WorkConserving
  BY OptionsAssumption DEF Init, WorkConserving
<1>2. IInv /\ WorkConserving /\ [Next]_vars => WorkConserving'
  <2> SUFFICES ASSUME IInv, WorkConserving, [Next]_vars PROVE WorkConserving'
    OBVIOUS
  <2> USE DEF WorkConserving
  <2>0. /\ TypeOK /\ SlotAccounting /\ QueueIsPending
        /\ Len(queue) \in Nat /\ ticks \in Nat /\ running \in Nat /\ Concurrency \in Nat
        /\ ticks >= Len(queue) \/ ticks >= Concurrency - running
    BY OptionsAssumption DEF IInv, TypeOK
  <2>1. ASSUME NEW t \in Types, RegisterHandler(t) PROVE WorkConserving'
    BY <2>0, <2>1 DEF RegisterHandler
  <2>2. ASSUME NEW j \in Jobs, Enqueue(j) PROVE WorkConserving'
    <3>1. Len(queue') = Len(queue) + 1
      BY <2>0, <2>2, InsertOpensOneGap DEF Enqueue, TypeOK
    <3>2. ticks' = ticks + 1 /\ running' = running
      BY <2>2 DEF Enqueue
    <3>. QED  BY <2>0, <3>1, <3>2
  <2>3. CASE NothingToDo
    <3>1. ticks' = ticks - 1 /\ running' = running /\ queue' = queue /\ ticks > 0
      BY <2>3 DEF NothingToDo
    <3>2. running >= Concurrency \/ Len(queue) = 0
      BY <2>0, <2>3 DEF NothingToDo, TypeOK
    <3>. QED  BY <2>0, <3>1, <3>2
  <2>4. CASE RejectNext
    <3>1. Head(queue) \in Jobs
      BY <2>0, <2>4, HeadIsPending DEF RejectNext
    <3>2. JobType[Head(queue)] \in handlers
      BY <3>1, JobsAssumption DEF IInv, HandlersStay
    <3>. QED  BY <2>4, <3>2 DEF RejectNext
  <2>5. CASE StartNext
    <3>1. Len(queue') = Len(queue) - 1
      BY <2>0, <2>5, HeadAndTail DEF StartNext, TypeOK
    <3>2. ticks' = ticks - 1 /\ running' = running + 1
      BY <2>5 DEF StartNext
    <3>. QED  BY <2>0, <3>1, <3>2
  <2>6. ASSUME NEW j \in Jobs, Settle(j) PROVE WorkConserving'
    <3>1. ticks' = ticks + 1 /\ running' = running - 1
      BY <2>6 DEF Settle, Complete, CatchEntered, RetryLater, FailForGood, ReleaseSlot
    <3>2. Len(queue') = Len(queue) \/ Len(queue') = Len(queue) + 1
      BY <2>0, <2>6 DEF Settle, Complete, CatchEntered, RetryLater, FailForGood, TypeOK
    <3>. QED  BY <2>0, <3>1, <3>2
  <2>7. CASE UNCHANGED vars
    BY <2>0, <2>7 DEF vars
  <2>. QED  BY <2>1, <2>2, <2>3, <2>4, <2>5, <2>6, <2>7 DEF Next, ProcessNext
<1>. QED  BY <1>1, <1>2, Invariance, PTL DEF Spec

\* The task queue implements a plain pool of Concurrency workers: with the
\* internal state hidden, every step is a step of JobPool or changes nothing.
THEOREM Refinement == Spec => ImplementsJobPool
<1>1. Init => Pool!Init
  BY DEF Init, Pool!Init
<1>2. IInv /\ [Next]_vars => [Pool!Next]_(Pool!vars)
  <2> SUFFICES ASSUME IInv, [Next]_vars PROVE [Pool!Next]_(Pool!vars)
    OBVIOUS
  <2> USE DEF Pool!vars
  <2>0. TypeOK /\ SlotAccounting /\ QueueIsPending
    BY DEF IInv
  <2>1. ASSUME NEW t \in Types, RegisterHandler(t) PROVE [Pool!Next]_(Pool!vars)
    BY <2>1 DEF RegisterHandler
  <2>2. ASSUME NEW j \in Jobs, Enqueue(j) PROVE [Pool!Next]_(Pool!vars)
    BY <2>2 DEF Enqueue, Pool!Next, Pool!Submit
  <2>3. CASE NothingToDo
    BY <2>3 DEF NothingToDo
  <2>4. CASE RejectNext
    <3>1. status[Head(queue)] = "pending" /\ Head(queue) \in Jobs
      BY <2>0, <2>4, HeadIsPending DEF RejectNext
    <3>2. Pool!Reject(Head(queue))
      BY <2>4, <3>1 DEF RejectNext, Pool!Reject
    <3>. QED  BY <3>1, <3>2 DEF Pool!Next
  <2>5. CASE StartNext
    <3>1. status[Head(queue)] = "pending" /\ Head(queue) \in Jobs
      BY <2>0, <2>5, HeadIsPending DEF StartNext
    <3>2. Pool!Cardinality(Pool!Running) < Concurrency
      <4>1. Pool!Running = Running
        BY DEF Running, Pool!Running
      <4>2. Pool!Cardinality(Running) = Cardinality(Running)
        BY Zenon DEF Pool!Cardinality, Cardinality
      <4>. QED  BY <2>0, <2>5, <4>1, <4>2 DEF StartNext, SlotAccounting
    <3>3. Pool!Dispatch(Head(queue))
      BY <2>5, <3>1, <3>2 DEF StartNext, Pool!Dispatch
    <3>. QED  BY <3>1, <3>3 DEF Pool!Next
  <2>6. ASSUME NEW j \in Jobs, Settle(j) PROVE [Pool!Next]_(Pool!vars)
    <3>1. status[j] = "running"
      BY <2>0, <2>6 DEF Settle, Complete, CatchEntered, RetryLater, FailForGood, SlotAccounting, Running
    <3>2. Pool!Settle(j)
      BY <2>6, <3>1 DEF Settle, Complete, CatchEntered, RetryLater, FailForGood,
                        Pool!Settle, Pool!Succeed, Pool!Retry, Pool!GiveUp
    <3>. QED  BY <3>2 DEF Pool!Next
  <2>7. CASE UNCHANGED vars
    BY <2>7 DEF vars
  <2>. QED  BY <2>1, <2>2, <2>3, <2>4, <2>5, <2>6, <2>7 DEF Next, ProcessNext
<1>. QED  BY <1>1, <1>2, Invariance, PTL DEF Spec, ImplementsJobPool, Pool!Spec
=============================================================================
