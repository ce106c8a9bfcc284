--------------------------- MODULE EventQueueProofs ---------------------------
(***************************************************************************)
(* Theorems about EventQueue, for any finite sets of messages and          *)
(* subscriptions, any topics and any budgets.                              *)
(*                                                                         *)
(* The order of first deliveries rests on one fact about every queue: the  *)
(* messages in it that were never delivered lie in the order in which they *)
(* were enqueued, each once, and none that was not cleared is missing.     *)
(* The bound on redeliveries counts what may still be put back: while a    *)
(* delivery lasts, one copy for each subscriber that it has still to await *)
(* or that may still join it.                                              *)
(***************************************************************************)
EXTENDS EventQueue, SharedLemmas

-----------------------------------------------------------------------------
(* The state of the topics, as four values: the queues, the messages sent, *)
(* their attempts and those cleared.                                       *)

Once(q, m) ==
  \E a \in 1 .. Len(q) : q[a] = m /\ \A b \in 1 .. Len(q) : q[b] = m => b = a

SentToTopic(qs, st) ==
  \A t \in Topics : \A a \in 1 .. Len(qs[t]) :
    qs[t][a] \in ToSet(st) /\ Topic[qs[t][a]] = t

UndeliveredInOrder(qs, st, at) ==
  \A t \in Topics : \A a, b \in 1 .. Len(qs[t]) : \A i, k \in 1 .. Len(st) :
    a < b /\ st[i] = qs[t][a] /\ st[k] = qs[t][b] /\ at[st[i]] = 0 /\ at[st[k]] = 0
      => i < k

UndeliveredOnce(qs, st, at, cl) ==
  \A m \in ToSet(st) \ cl : at[m] = 0 => Once(qs[Topic[m]], m)

DeliveredInOrder(st, at, cl) ==
  \A i, k \in 1 .. Len(st) :
    i < k /\ Topic[st[i]] = Topic[st[k]] /\ at[st[k]] > 0 => at[st[i]] > 0 \/ st[i] \in cl

WellTyped(qs, st, at) ==
  qs \in [Topics -> Seq(Messages)] /\ st \in Seq(Messages) /\ at \in [Messages -> Nat]

TopicsInOrder(qs, st, at, cl) ==
  /\ WellTyped(qs, st, at)
  /\ IsInjective(st) /\ \A m \in Messages \ ToSet(st) : at[m] = 0
  /\ SentToTopic(qs, st)
  /\ UndeliveredInOrder(qs, st, at)
  /\ UndeliveredOnce(qs, st, at, cl)
  /\ DeliveredInOrder(st, at, cl)

\* A message that is enqueued goes behind all that were sent before it.
LEMMA PushKeepsOrder ==
  ASSUME NEW qs, NEW st, NEW at, NEW cl, TopicsInOrder(qs, st, at, cl),
         NEW m \in Messages \ ToSet(st)
  PROVE  TopicsInOrder([qs EXCEPT ![Topic[m]] = Append(@, m)], Append(st, m), at, cl)
<1> DEFINE T == Topic[m]
           q == qs[T]
           qs2 == [qs EXCEPT ![T] = Append(@, m)]
           st2 == Append(st, m)
<1>0. /\ T \in Topics /\ WellTyped(qs, st, at) /\ q \in Seq(Messages) /\ st \in Seq(Messages)
      /\ Topic \in [Messages -> Topics]
  BY EventAssumption DEF TopicsInOrder, WellTyped
<1>1. /\ st2 \in Seq(Messages) /\ Len(st2) = Len(st) + 1 /\ st2[Len(st) + 1] = m
      /\ \A i \in 1 .. Len(st) : st2[i] = st[i]
      /\ Len(st) \in Nat
  BY <1>0
<1>2. ToSet(st2) = ToSet(st) \union {m} /\ IsInjective(st2)
  BY <1>0, AppendAdds DEF TopicsInOrder
<1>3. /\ qs2 \in [Topics -> Seq(Messages)]
      /\ \A t \in Topics \ {T} : qs2[t] = qs[t]
      /\ Len(qs2[T]) = Len(q) + 1 /\ qs2[T][Len(q) + 1] = m
      /\ \A a \in 1 .. Len(q) : qs2[T][a] = q[a]
      /\ Len(q) \in Nat
  BY <1>0 DEF WellTyped
<1>4. \A t \in Topics : \A a \in 1 .. Len(qs[t]) : qs[t][a] # m
  BY DEF TopicsInOrder, SentToTopic
<1>5. at[m] = 0
  BY DEF TopicsInOrder
<1> HIDE DEF qs2, st2, q, T
<1>6. \A t \in Topics : \A a \in 1 .. Len(qs2[t]) :
        \/ a \in 1 .. Len(qs[t]) /\ qs2[t][a] = qs[t][a]
        \/ t = T /\ a = Len(q) + 1 /\ qs2[t][a] = m
  <2> SUFFICES ASSUME NEW t \in Topics, NEW a \in 1 .. Len(qs2[t])
               PROVE  \/ a \in 1 .. Len(qs[t]) /\ qs2[t][a] = qs[t][a]
                      \/ t = T /\ a = Len(q) + 1 /\ qs2[t][a] = m
    OBVIOUS
  <2>1. CASE t # T
    BY <1>3, <2>1
  <2>2. CASE t = T
    <3>1. a \in 1 .. Len(q) \/ a = Len(q) + 1
      BY <1>3, <2>2
    <3>. QED  BY <1>3, <2>2, <3>1 DEF q
  <2>. QED  BY <2>1, <2>2
<1>7. \A i \in 1 .. Len(st2) :
        \/ i \in 1 .. Len(st) /\ st2[i] = st[i]
        \/ i = Len(st) + 1 /\ st2[i] = m
  <2> SUFFICES ASSUME NEW i \in 1 .. Len(st2)
               PROVE  \/ i \in 1 .. Len(st) /\ st2[i] = st[i]
                      \/ i = Len(st) + 1 /\ st2[i] = m
    OBVIOUS
  <2>1. i \in 1 .. Len(st) \/ i = Len(st) + 1
    BY <1>1
  <2>. QED  BY <1>1, <2>1
<1>8. SentToTopic(qs2, st2)
  BY <1>2, <1>6 DEF TopicsInOrder, SentToTopic, T
<1>9. UndeliveredInOrder(qs2, st2, at)
  <2> SUFFICES ASSUME NEW t \in Topics, NEW a \in 1 .. Len(qs2[t]), NEW b \in 1 .. Len(qs2[t]),
                      NEW i \in 1 .. Len(st2), NEW k \in 1 .. Len(st2),
                      a < b, st2[i] = qs2[t][a], st2[k] = qs2[t][b],
                      at[st2[i]] = 0, at[st2[k]] = 0
               PROVE  i < k
    BY DEF UndeliveredInOrder
  <2>1. ~ (t = T /\ a = Len(q) + 1)
    <3>1. t = T => Len(qs2[t]) = Len(q) + 1 /\ Len(q) \in Nat
      BY <1>3
    <3>. QED  BY <3>1
  <2>2. a \in 1 .. Len(qs[t]) /\ qs2[t][a] = qs[t][a]
    BY <1>6, <2>1
  <2>3. i \in 1 .. Len(st) /\ st2[i] = st[i]
    BY <1>4, <1>7, <2>2
  <2>4. CASE k = Len(st) + 1
    BY <1>1, <2>3, <2>4
  <2>5. CASE k \in 1 .. Len(st) /\ st2[k] = st[k]
    <3>1. st[k] # m
      BY <2>5, <1>0 DEF ToSet
    <3>2. b \in 1 .. Len(qs[t]) /\ qs2[t][b] = qs[t][b]
      BY <1>6, <2>5, <3>1
    <3>3. UndeliveredInOrder(qs, st, at)
      BY DEF TopicsInOrder
    <3>4. /\ st[i] = qs[t][a] /\ st[k] = qs[t][b] /\ at[st[i]] = 0 /\ at[st[k]] = 0
          /\ a \in 1 .. Len(qs[t]) /\ b \in 1 .. Len(qs[t])
          /\ i \in 1 .. Len(st) /\ k \in 1 .. Len(st)
      BY <2>2, <2>3, <2>5, <3>2
    <3>. QED  BY <3>3, <3>4 DEF UndeliveredInOrder
  <2>. QED  BY <1>7, <2>4, <2>5
<1>10. UndeliveredOnce(qs2, st2, at, cl)
  <2> SUFFICES ASSUME NEW x \in ToSet(st2) \ cl, at[x] = 0 PROVE Once(qs2[Topic[x]], x)
    BY DEF UndeliveredOnce
  <2>1. CASE x = m
    <3>1. Len(q) + 1 \in 1 .. Len(qs2[T]) /\ qs2[T][Len(q) + 1] = m
      BY <1>3
    <3>2. \A b \in 1 .. Len(qs2[T]) : qs2[T][b] = m => b = Len(q) + 1
      BY <1>0, <1>4, <1>6
    <3>. QED  BY <2>1, <3>1, <3>2 DEF Once, T
  <2>2. CASE x # m
    <3>1. x \in ToSet(st) \ cl /\ Topic[x] \in Topics
      <4>1. x \in ToSet(st) \ cl
        BY <1>2, <2>2
      <4>2. x \in Messages
        BY <1>0, <4>1 DEF ToSet
      <4>. QED  BY <1>0, <4>1, <4>2
    <3>2. PICK a \in 1 .. Len(qs[Topic[x]]) :
            qs[Topic[x]][a] = x /\ \A b \in 1 .. Len(qs[Topic[x]]) : qs[Topic[x]][b] = x => b = a
      BY <3>1 DEF TopicsInOrder, UndeliveredOnce, Once
    <3>3. a \in 1 .. Len(qs2[Topic[x]]) /\ qs2[Topic[x]][a] = x
      BY <1>3, <3>1, <3>2 DEF q
    <3>4. \A b \in 1 .. Len(qs2[Topic[x]]) : qs2[Topic[x]][b] = x => b = a
      BY <1>6, <2>2, <3>1, <3>2
    <3>. QED  BY <3>3, <3>4 DEF Once
  <2>. QED  BY <2>1, <2>2
<1>11. DeliveredInOrder(st2, at, cl)
  <2> SUFFICES ASSUME NEW i \in 1 .. Len(st2), NEW k \in 1 .. Len(st2), i < k,
                      Topic[st2[i]] = Topic[st2[k]], at[st2[k]] > 0
               PROVE  at[st2[i]] > 0 \/ st2[i] \in cl
    BY DEF DeliveredInOrder
  <2>1. k # Len(st) + 1
    BY <1>1, <1>5
  <2>2. k \in 1 .. Len(st) /\ i \in 1 .. Len(st)
    BY <1>1, <2>1
  <2>3. st2[k] = st[k] /\ st2[i] = st[i]
    BY <1>1, <2>2
  <2>. QED  BY <2>2, <2>3 DEF TopicsInOrder, DeliveredInOrder
<1>12. WellTyped(qs2, st2, at)
  BY <1>0, <1>1, <1>3 DEF WellTyped
<1>13. \A x \in Messages \ ToSet(st2) : at[x] = 0
  BY <1>2 DEF TopicsInOrder
<1>14. TopicsInOrder(qs2, st2, at, cl)
  BY <1>2, <1>8, <1>9, <1>10, <1>11, <1>12, <1>13 DEF TopicsInOrder
<1>. QED  BY <1>14 DEF qs2, st2, T

\* Taking the first message of a topic for delivery: if it was never delivered,
\* nothing that was sent to the topic before it is waiting undelivered.
LEMMA TakeKeepsOrder ==
  ASSUME NEW qs, NEW st, NEW at, NEW cl, TopicsInOrder(qs, st, at, cl),
         NEW T \in Topics, qs[T] # <<>>
  PROVE  /\ Head(qs[T]) \in ToSet(st) /\ Head(qs[T]) \in Messages
         /\ TopicsInOrder([qs EXCEPT ![T] = Tail(@)], st, [at EXCEPT ![Head(qs[T])] = @ + 1], cl)
<1> DEFINE q == qs[T]
           h == Head(q)
           qs2 == [qs EXCEPT ![T] = Tail(@)]
           at2 == [at EXCEPT ![h] = @ + 1]
<1>0. /\ WellTyped(qs, st, at) /\ q \in Seq(Messages) /\ st \in Seq(Messages)
      /\ Topic \in [Messages -> Topics] /\ q # <<>>
  BY EventAssumption DEF TopicsInOrder, WellTyped
<1>1. /\ Tail(q) \in Seq(Messages) /\ Len(Tail(q)) = Len(q) - 1 /\ Len(q) \in Nat /\ Len(q) > 0
      /\ h = q[1] /\ h \in Messages
      /\ \A a \in 1 .. Len(q) - 1 : Tail(q)[a] = q[a + 1]
  BY <1>0, HeadTailProperties
<1>2. h \in ToSet(st) /\ Topic[h] = T
  BY <1>1 DEF TopicsInOrder, SentToTopic
<1>3. /\ qs2 \in [Topics -> Seq(Messages)] /\ qs2[T] = Tail(q)
      /\ \A t \in Topics \ {T} : qs2[t] = qs[t]
  BY <1>0, <1>1 DEF WellTyped
<1>4. /\ at2 \in [Messages -> Nat] /\ at2[h] > 0
      /\ \A x \in Messages \ {h} : at2[x] = at[x]
      /\ \A x \in Messages : at2[x] = 0 => at[x] = 0
      /\ \A x \in Messages : at[x] > 0 => at2[x] > 0
  BY <1>0, <1>1 DEF WellTyped
<1> HIDE DEF qs2, at2, q, h
<1>5. \A t \in Topics : \A a \in 1 .. Len(qs2[t]) :
        \/ t # T /\ a \in 1 .. Len(qs[t]) /\ qs2[t][a] = qs[t][a]
        \/ t = T /\ a + 1 \in 1 .. Len(q) /\ qs2[t][a] = q[a + 1]
  <2> SUFFICES ASSUME NEW t \in Topics, NEW a \in 1 .. Len(qs2[t])
               PROVE  \/ t # T /\ a \in 1 .. Len(qs[t]) /\ qs2[t][a] = qs[t][a]
                      \/ t = T /\ a + 1 \in 1 .. Len(q) /\ qs2[t][a] = q[a + 1]
    OBVIOUS
  <2>1. CASE t = T
    BY <1>1, <1>3, <2>1
  <2>2. CASE t # T
    BY <1>3, <2>2
  <2>. QED  BY <2>1, <2>2
<1>6. SentToTopic(qs2, st)
  <2>1. SentToTopic(qs, st)
    BY DEF TopicsInOrder
  <2>2. \A a \in 1 .. Len(q) : q[a] \in ToSet(st) /\ Topic[q[a]] = T
    BY <2>1 DEF SentToTopic, q
  <2> SUFFICES ASSUME NEW t \in Topics, NEW a \in 1 .. Len(qs2[t])
               PROVE  qs2[t][a] \in ToSet(st) /\ Topic[qs2[t][a]] = t
    BY DEF SentToTopic
  <2>3. CASE t = T
    BY <1>5, <2>2, <2>3
  <2>4. CASE t # T
    BY <1>5, <2>1, <2>4 DEF SentToTopic
  <2>. QED  BY <2>3, <2>4
<1>7. \A i \in 1 .. Len(st) : st[i] \in Messages
  BY <1>0
<1>8. UndeliveredInOrder(qs2, st, at2)
  <2> SUFFICES ASSUME NEW t \in Topics, NEW a \in 1 .. Len(qs2[t]), NEW b \in 1 .. Len(qs2[t]),
                      NEW i \in 1 .. Len(st), NEW k \in 1 .. Len(st),
                      a < b, st[i] = qs2[t][a], st[k] = qs2[t][b], at2[st[i]] = 0, at2[st[k]] = 0
               PROVE  i < k
    BY DEF UndeliveredInOrder
  <2>1. at[st[i]] = 0 /\ at[st[k]] = 0
    BY <1>4, <1>7
  <2>2. UndeliveredInOrder(qs, st, at)
    BY DEF TopicsInOrder
  <2>3. CASE t = T
    <3>1. /\ a + 1 \in 1 .. Len(q) /\ qs2[t][a] = q[a + 1]
          /\ b + 1 \in 1 .. Len(q) /\ qs2[t][b] = q[b + 1] /\ a + 1 < b + 1
      BY <1>3, <1>5, <2>3
    <3>2. \A c, d \in 1 .. Len(q) :
            c < d /\ st[i] = q[c] /\ st[k] = q[d] => i < k
      BY <2>1, <2>2 DEF UndeliveredInOrder, q
    <3>. QED  BY <3>1, <3>2
  <2>4. CASE t # T
    <3>1. /\ a \in 1 .. Len(qs[t]) /\ qs2[t][a] = qs[t][a]
          /\ b \in 1 .. Len(qs[t]) /\ qs2[t][b] = qs[t][b]
      BY <1>5, <2>4
    <3>. QED  BY <2>1, <2>2, <3>1 DEF UndeliveredInOrder
  <2>. QED  BY <2>3, <2>4
<1>9. UndeliveredOnce(qs2, st, at2, cl)
  <2> SUFFICES ASSUME NEW x \in ToSet(st) \ cl, at2[x] = 0 PROVE Once(qs2[Topic[x]], x)
    BY DEF UndeliveredOnce
  <2>1. x \in Messages /\ x # h /\ at[x] = 0 /\ Topic[x] \in Topics
    BY <1>0, <1>4 DEF ToSet
  <2>2. PICK a \in 1 .. Len(qs[Topic[x]]) :
          qs[Topic[x]][a] = x /\ \A b \in 1 .. Len(qs[Topic[x]]) : qs[Topic[x]][b] = x => b = a
    BY <2>1 DEF TopicsInOrder, UndeliveredOnce, Once
  <2>3. CASE Topic[x] # T
    BY <1>3, <2>1, <2>2, <2>3 DEF Once
  <2>4. CASE Topic[x] = T
    <3>1. a # 1 /\ a \in 1 .. Len(q) /\ q[a] = x
      BY <1>1, <2>1, <2>2, <2>4 DEF q
    <3>2. a - 1 \in 1 .. Len(qs2[T]) /\ qs2[T][a - 1] = x
      <4>1. a - 1 \in 1 .. Len(q) - 1 /\ a - 1 + 1 = a
        BY <1>1, <3>1
      <4>2. Tail(q)[a - 1] = q[a - 1 + 1]
        BY <1>1, <4>1
      <4>. QED  BY <1>1, <1>3, <3>1, <4>1, <4>2
    <3>3. \A b \in 1 .. Len(qs2[T]) : qs2[T][b] = x => b = a - 1
      <4>1. \A b \in 1 .. Len(q) : q[b] = x => b = a
        BY <2>2, <2>4 DEF q
      <4>2. \A b \in 1 .. Len(qs2[T]) : b + 1 \in 1 .. Len(q) /\ qs2[T][b] = q[b + 1]
        BY <1>5 DEF q
      <4>3. \A b \in Nat : b + 1 = a => b = a - 1
        BY <3>1
      <4>4. \A b \in 1 .. Len(qs2[T]) : b \in Nat
        OBVIOUS
      <4>. QED  BY <4>1, <4>2, <4>3, <4>4
    <3>. QED  BY <2>4, <3>2, <3>3 DEF Once
  <2>. QED  BY <2>3, <2>4
<1>10. DeliveredInOrder(st, at2, cl)
  <2> SUFFICES ASSUME NEW i \in 1 .. Len(st), NEW k \in 1 .. Len(st), i < k,
                      Topic[st[i]] = Topic[st[k]], at2[st[k]] > 0, st[i] \notin cl,
                      ~ (at2[st[i]] > 0)
               PROVE  FALSE
    BY DEF DeliveredInOrder
  <2>1. st[i] \in Messages /\ st[k] \in Messages /\ st[i] \in ToSet(st)
    BY <1>0, <1>7 DEF ToSet
  <2>2. at2[st[i]] = 0 /\ at[st[i]] = 0 /\ at[st[k]] \in Nat
    <3>1. at2[st[i]] \in Nat /\ at[st[k]] \in Nat
      BY <1>0, <1>4, <2>1 DEF WellTyped
    <3>2. at2[st[i]] = 0
      BY <3>1
    <3>. QED  BY <1>4, <2>1, <3>1, <3>2
  <2>3. at[st[k]] = 0
    BY <2>2 DEF TopicsInOrder, DeliveredInOrder
  <2>4. st[k] = h
    BY <1>4, <2>1, <2>3
  <2>5. Topic[st[i]] = T
    BY <1>2, <2>4
  <2>6. Once(q, st[i])
    BY <2>1, <2>2, <2>5 DEF TopicsInOrder, UndeliveredOnce, q
  <2>7. PICK a \in 1 .. Len(q) : q[a] = st[i]
    BY <2>6 DEF Once
  <2>8. a # 1
    BY <1>1, <2>4, <2>7 DEF TopicsInOrder, IsInjective
  <2>9. 1 < a /\ 1 \in 1 .. Len(q)
    BY <1>1, <2>8
  <2>10. k < i
    BY <1>1, <2>2, <2>3, <2>4, <2>7, <2>9 DEF TopicsInOrder, UndeliveredInOrder, q
  <2>. QED  BY <2>10
<1>11. TopicsInOrder(qs2, st, at2, cl)
  <2>1. \A x \in Messages \ ToSet(st) : at2[x] = 0
    BY <1>2, <1>4 DEF TopicsInOrder
  <2>2. WellTyped(qs2, st, at2)
    BY <1>0, <1>3, <1>4 DEF WellTyped
  <2>. QED  BY <1>6, <1>8, <1>9, <1>10, <2>1, <2>2 DEF TopicsInOrder
<1>. QED  BY <1>1, <1>2, <1>11 DEF qs2, at2, q, h

\* Putting a copy of a delivered message back does not concern the others.
LEMMA RequeueKeepsOrder ==
  ASSUME NEW qs, NEW st, NEW at, NEW cl, TopicsInOrder(qs, st, at, cl),
         NEW m \in ToSet(st), at[m] > 0
  PROVE  TopicsInOrder([qs EXCEPT ![Topic[m]] = Append(@, m)], st, at, cl)
<1> DEFINE T == Topic[m]
           q == qs[T]
           qs2 == [qs EXCEPT ![T] = Append(@, m)]
<1>0. /\ m \in Messages /\ T \in Topics /\ WellTyped(qs, st, at) /\ q \in Seq(Messages)
      /\ st \in Seq(Messages) /\ Topic \in [Messages -> Topics]
  BY EventAssumption DEF TopicsInOrder, WellTyped, ToSet
<1>1. /\ qs2 \in [Topics -> Seq(Messages)]
      /\ \A t \in Topics \ {T} : qs2[t] = qs[t]
      /\ Len(qs2[T]) = Len(q) + 1 /\ qs2[T][Len(q) + 1] = m
      /\ \A a \in 1 .. Len(q) : qs2[T][a] = q[a]
      /\ Len(q) \in Nat
  BY <1>0 DEF WellTyped
<1> HIDE DEF qs2, q, T
<1>2. \A t \in Topics : \A a \in 1 .. Len(qs2[t]) :
        \/ a \in 1 .. Len(qs[t]) /\ qs2[t][a] = qs[t][a]
        \/ t = T /\ qs2[t][a] = m
  <2> SUFFICES ASSUME NEW t \in Topics, NEW a \in 1 .. Len(qs2[t])
               PROVE  \/ a \in 1 .. Len(qs[t]) /\ qs2[t][a] = qs[t][a]
                      \/ t = T /\ qs2[t][a] = m
    OBVIOUS
  <2>1. CASE t # T
    BY <1>1, <2>1
  <2>2. CASE t = T
    <3>1. a \in 1 .. Len(q) \/ a = Len(q) + 1
      BY <1>1, <2>2
    <3>. QED  BY <1>1, <2>2, <3>1 DEF q
  <2>. QED  BY <2>1, <2>2
<1>3. SentToTopic(qs2, st)
  BY <1>2 DEF TopicsInOrder, SentToTopic, T
<1>4. UndeliveredInOrder(qs2, st, at)
  <2> SUFFICES ASSUME NEW t \in Topics, NEW a \in 1 .. Len(qs2[t]), NEW b \in 1 .. Len(qs2[t]),
                      NEW i \in 1 .. Len(st), NEW k \in 1 .. Len(st),
                      a < b, st[i] = qs2[t][a], st[k] = qs2[t][b], at[st[i]] = 0, at[st[k]] = 0
               PROVE  i < k
    BY DEF UndeliveredInOrder
  <2>1. qs2[t][a] # m /\ qs2[t][b] # m
    OBVIOUS
  <2>2. /\ a \in 1 .. Len(qs[t]) /\ qs2[t][a] = qs[t][a]
        /\ b \in 1 .. Len(qs[t]) /\ qs2[t][b] = qs[t][b]
    BY <1>2, <2>1
  <2>. QED  BY <2>2 DEF TopicsInOrder, UndeliveredInOrder
<1>5. UndeliveredOnce(qs2, st, at, cl)
  <2> SUFFICES ASSUME NEW x \in ToSet(st) \ cl, at[x] = 0 PROVE Once(qs2[Topic[x]], x)
    BY DEF UndeliveredOnce
  <2>1. x # m /\ Topic[x] \in Topics
    BY <1>0 DEF ToSet
  <2>2. PICK a \in 1 .. Len(qs[Topic[x]]) :
          qs[Topic[x]][a] = x /\ \A b \in 1 .. Len(qs[Topic[x]]) : qs[Topic[x]][b] = x => b = a
    BY DEF TopicsInOrder, UndeliveredOnce, Once
  <2>3. a \in 1 .. Len(qs2[Topic[x]]) /\ qs2[Topic[x]][a] = x
    BY <1>1, <2>1, <2>2 DEF q
  <2>4. \A b \in 1 .. Len(qs2[Topic[x]]) : qs2[Topic[x]][b] = x => b = a
    BY <1>2, <2>1, <2>2
  <2>. QED  BY <2>3, <2>4 DEF Once
<1>6. TopicsInOrder(qs2, st, at, cl)
  BY <1>0, <1>1, <1>3, <1>4, <1>5 DEF TopicsInOrder, WellTyped
<1>. QED  BY <1>6 DEF qs2, T

\* Clearing a topic marks what was waiting on it as cleared.
LEMMA ClearKeepsOrder ==
  ASSUME NEW qs, NEW st, NEW at, NEW cl, TopicsInOrder(qs, st, at, cl), NEW T \in Topics
  PROVE  TopicsInOrder([qs EXCEPT ![T] = <<>>], st, at, cl \union ToSet(qs[T]))
<1> DEFINE qs2 == [qs EXCEPT ![T] = <<>>]
           cl2 == cl \union ToSet(qs[T])
<1>0. WellTyped(qs, st, at) /\ st \in Seq(Messages) /\ Topic \in [Messages -> Topics]
  BY EventAssumption DEF TopicsInOrder, WellTyped
<1>1. /\ qs2 \in [Topics -> Seq(Messages)] /\ qs2[T] = <<>>
      /\ \A t \in Topics \ {T} : qs2[t] = qs[t]
  BY <1>0 DEF WellTyped
<1>2. \A t \in Topics : \A a \in 1 .. Len(qs2[t]) : t # T /\ qs2[t] = qs[t]
  BY <1>1
<1>3. cl \subseteq cl2 /\ DOMAIN qs[T] = 1 .. Len(qs[T])
  BY <1>0 DEF WellTyped
<1> HIDE DEF qs2
<1>4. SentToTopic(qs2, st) /\ UndeliveredInOrder(qs2, st, at)
  BY <1>2 DEF TopicsInOrder, SentToTopic, UndeliveredInOrder
<1>5. UndeliveredOnce(qs2, st, at, cl2)
  <2> SUFFICES ASSUME NEW x \in ToSet(st) \ cl2, at[x] = 0 PROVE Once(qs2[Topic[x]], x)
    BY DEF UndeliveredOnce
  <2>1. Once(qs[Topic[x]], x) /\ Topic[x] \in Topics
    BY <1>0, <1>3 DEF TopicsInOrder, UndeliveredOnce, ToSet
  <2>2. Topic[x] # T
    BY <1>3, <2>1 DEF Once, ToSet
  <2>. QED  BY <1>1, <2>1, <2>2
<1> HIDE DEF cl2
<1>6. DeliveredInOrder(st, at, cl2)
  BY <1>3 DEF TopicsInOrder, DeliveredInOrder
<1>7. TopicsInOrder(qs2, st, at, cl2)
  BY <1>0, <1>1, <1>4, <1>5, <1>6 DEF TopicsInOrder, WellTyped
<1>. QED  BY <1>7 DEF qs2, cl2

-----------------------------------------------------------------------------
(* The subscribers: those of a topic, and those a delivery has to await.   *)

Listeners(t) == {s \in Subs : SubTopic[s] = t}

Subscribed ==
  /\ \A t \in Topics : IsInjective(subs[t]) /\ ToSet(subs[t]) \subseteq made \cap Listeners(t)
  /\ processing =>
       /\ IsInjective(waiting) /\ ToSet(waiting) \subseteq made \cap Listeners(Topic[current])
       /\ current \in ToSet(sent) /\ attempts[current] > 0

Order == TopicsInOrder(queues, sent, attempts, cleared)

\* The part of the invariant that does not count copies.
OrderInv == TypeOK /\ Order /\ Subscribed

\* It holds at the start.
LEMMA InitEstablishesOrder == Init => OrderInv
<1> SUFFICES ASSUME Init PROVE OrderInv
  OBVIOUS
<1>1. TypeOK
  <2>1. queues \in [Topics -> Seq(Messages)] /\ subs \in [Topics -> Seq(Subs)]
    BY DEF Init
  <2>2. waiting \in Seq(Subs) /\ waiting = <<>> /\ sent \in Seq(Messages)
    BY DEF Init
  <2>. QED  BY <2>1, <2>2 DEF Init, TypeOK
<1>2. ToSet(sent) = {} /\ IsInjective(sent)
  BY DEF Init, ToSet, IsInjective
<1>3. SentToTopic(queues, sent) /\ UndeliveredInOrder(queues, sent, attempts)
  BY DEF Init, SentToTopic, UndeliveredInOrder
<1>4. UndeliveredOnce(queues, sent, attempts, cleared)
  BY <1>2 DEF UndeliveredOnce
<1>5. DeliveredInOrder(sent, attempts, cleared)
  BY DEF Init, DeliveredInOrder
<1>6. WellTyped(queues, sent, attempts) /\ \A m \in Messages \ ToSet(sent) : attempts[m] = 0
  BY <1>1 DEF Init, WellTyped, TypeOK
<1>7. Subscribed
  <2>1. \A t \in Topics : subs[t] = <<>>
    BY DEF Init
  <2>2. IsInjective(<<>>) /\ ToSet(<<>>) = {}
    BY DEF IsInjective, ToSet
  <2>. QED  BY <2>1, <2>2 DEF Init, Subscribed
<1>. QED  BY <1>1, <1>2, <1>3, <1>4, <1>5, <1>6, <1>7 DEF OrderInv, Order, TopicsInOrder

\* Pushing and then taking the first message is what a delivery does to a queue.
LEMMA DeliveryPushesAndTakes ==
  ASSUME OrderInv, NEW m \in Messages, EnqueueAndDeliver(m)
  PROVE  LET h == Head(Pushed(m))
             pushed == [queues EXCEPT ![Topic[m]] = Pushed(m)]
         IN  /\ h \in ToSet(sent') /\ h \in Messages /\ Topic[h] = Topic[m]
             /\ TopicsInOrder(pushed, sent', attempts, cleared)
             /\ queues' = [pushed EXCEPT ![Topic[m]] = Tail(@)]
             /\ attempts' = [attempts EXCEPT ![h] = @ + 1]
             /\ TopicsInOrder(queues', sent', attempts', cleared')
<1> DEFINE h == Head(Pushed(m))
           T == Topic[m]
           pushed == [queues EXCEPT ![T] = Pushed(m)]
<1>0. /\ TypeOK /\ T \in Topics /\ m \in Messages \ ToSet(sent) /\ queues[T] \in Seq(Messages)
      /\ sent' = Append(sent, m) /\ cleared' = cleared
      /\ queues' = [queues EXCEPT ![T] = Tail(Pushed(m))]
      /\ attempts' = [attempts EXCEPT ![h] = @ + 1]
  BY EventAssumption DEF OrderInv, TypeOK, EnqueueAndDeliver
<1>1. TopicsInOrder(pushed, sent', attempts, cleared)
  BY <1>0, PushKeepsOrder DEF OrderInv, Order, Pushed
<1>2. pushed[T] = Pushed(m) /\ Pushed(m) # <<>> /\ queues' = [pushed EXCEPT ![T] = Tail(@)]
  <2>1. /\ Pushed(m) \in Seq(Messages) /\ Pushed(m) # <<>>
        /\ queues \in [Topics -> Seq(Messages)]
    <3>1. Pushed(m) = Append(queues[T], m)
      BY DEF Pushed
    <3>2. queues \in [Topics -> Seq(Messages)]
      BY <1>0 DEF TypeOK
    <3> HIDE DEF T
    <3>. QED  BY <1>0, <3>1, <3>2
  <2> HIDE DEF T
  <2>2. pushed \in [Topics -> Seq(Messages)] /\ pushed[T] = Pushed(m)
    BY <1>0, <2>1
  <2>3. queues' = [t \in Topics |-> IF t = T THEN Tail(Pushed(m)) ELSE queues[t]]
    BY <1>0, <2>1
  <2>4. [pushed EXCEPT ![T] = Tail(@)]
          = [t \in Topics |-> IF t = T THEN Tail(Pushed(m)) ELSE queues[t]]
    BY <1>0, <2>1, <2>2
  <2>. QED  BY <2>1, <2>2, <2>3, <2>4
<1>3. /\ h \in ToSet(sent') /\ h \in Messages
      /\ TopicsInOrder(queues', sent', attempts', cleared')
  <2> HIDE DEF pushed, T
  <2>1. /\ Head(pushed[T]) \in ToSet(sent') /\ Head(pushed[T]) \in Messages
        /\ TopicsInOrder([pushed EXCEPT ![T] = Tail(@)], sent',
                         [attempts EXCEPT ![Head(pushed[T])] = @ + 1], cleared)
    BY <1>0, <1>1, <1>2, TakeKeepsOrder
  <2>2. Head(pushed[T]) = h
    BY <1>2
  <2>. QED  BY <1>0, <1>2, <2>1, <2>2
<1>4. Topic[h] = T
  <2>1. 1 \in 1 .. Len(Pushed(m)) /\ h = Pushed(m)[1]
    BY <1>0 DEF Pushed
  <2>2. SentToTopic(pushed, sent')
    BY <1>1 DEF TopicsInOrder
  <2>. QED  BY <1>0, <1>2, <2>1, <2>2 DEF SentToTopic
<1>. QED  BY <1>0, <1>1, <1>2, <1>3, <1>4

\* What the loop over the subscribers leaves behind.
LEMMA NextSubscriberDropsOne ==
  ASSUME OrderInv, processing, NextSubscriber
  PROVE  /\ waiting # <<>> /\ waiting \in Seq(Subs)
         /\ waiting' = Tail(waiting) /\ waiting' \in Seq(Subs)
         /\ ToSet(waiting') = ToSet(waiting) \ {Head(waiting)} /\ Head(waiting) \in ToSet(waiting)
         /\ IsInjective(waiting')
         /\ \/ waiting' # <<>> /\ UNCHANGED <<processing, current, subsHeld, queueHeld>>
            \/ waiting' = <<>> /\ ~ processing' /\ current' = NoMessage
               /\ ~ subsHeld' /\ ~ queueHeld'
<1>1. waiting \in Seq(Subs) /\ waiting # <<>> /\ IsInjective(waiting)
  BY DEF OrderInv, TypeOK, Subscribed
<1>2. waiting' = Tail(waiting)
  BY DEF NextSubscriber
<1>3. /\ waiting' \in Seq(Subs) /\ Len(waiting') = Len(waiting) - 1 /\ Len(waiting) \in Nat
      /\ Head(waiting) = waiting[1] /\ Len(waiting) > 0
      /\ \A i \in 1 .. Len(waiting) - 1 : waiting'[i] = waiting[i + 1]
  BY <1>1, <1>2, HeadTailProperties
<1>4. ToSet(waiting') = ToSet(waiting) \ {Head(waiting)} /\ Head(waiting) \in ToSet(waiting)
      /\ IsInjective(waiting')
  BY <1>1, <1>2, TailForgetsHead
<1>5. Len(waiting) > 1 <=> waiting' # <<>>
  BY <1>3
<1>. QED  BY <1>1, <1>2, <1>3, <1>4, <1>5 DEF NextSubscriber

\* Every step keeps the types.
LEMMA StepKeepsTypes == OrderInv /\ [Next]_vars => TypeOK'
<1> SUFFICES ASSUME OrderInv, [Next]_vars PROVE TypeOK'
  OBVIOUS
<1>0. TypeOK /\ EventAssumption
  BY EventAssumption DEF OrderInv
<1>1. ASSUME NEW s \in Subs, Subscribe(s) PROVE TypeOK'
  <2>1. subs' \in [Topics -> Seq(Subs)]
    BY <1>0, <1>1 DEF Subscribe, TypeOK, EventAssumption
  <2>2. waiting' \in Seq(Subs) /\ (waiting' # <<>> <=> waiting # <<>>)
    <3>1. waiting \in Seq(Subs) /\ (processing <=> waiting # <<>>)
      BY <1>0 DEF TypeOK
    <3>2. waiting' = waiting \/ (processing /\ waiting' = Append(waiting, s))
      BY <1>1 DEF Subscribe
    <3>. QED  BY <3>1, <3>2
  <2>. QED  BY <1>0, <1>1, <2>1, <2>2 DEF Subscribe, TypeOK
<1>2. ASSUME NEW s \in Subs, Unsubscribe(s) PROVE TypeOK'
  <2>1. \A t \in Topics : RemoveFirst(subs[t], s) \in Seq(Subs)
    BY <1>0, RemoveFirstForgets DEF OrderInv, TypeOK, Subscribed
  <2>. QED  BY <1>0, <1>2, <2>1 DEF Unsubscribe, TypeOK
<1>3. ASSUME NEW t \in Topics, ClearTopic(t) PROVE TypeOK'
  <2>1. queues' \in [Topics -> Seq(Messages)] /\ ToSet(queues[t]) \subseteq Messages
    <3>1. ToSet(queues[t]) \subseteq Messages
      BY <1>0 DEF TypeOK, ToSet
    <3>2. queues' = [queues EXCEPT ![t] = <<>>] /\ <<>> \in Seq(Messages)
      BY <1>3 DEF ClearTopic
    <3>. QED  BY <1>0, <3>1, <3>2 DEF TypeOK
  <2>. QED  BY <1>0, <1>3, <2>1 DEF ClearTopic, TypeOK
<1>4. ASSUME NEW m \in Messages, Mature(m) PROVE TypeOK'
  BY <1>0, <1>4 DEF Mature, TypeOK
<1>5. ASSUME NEW m \in Messages, EnqueueOnly(m) PROVE TypeOK'
  <2>1. queues' \in [Topics -> Seq(Messages)] /\ sent' \in Seq(Messages)
    BY <1>0, <1>5 DEF EnqueueOnly, Pushed, TypeOK, EventAssumption
  <2>. QED  BY <1>0, <1>5, <2>1 DEF EnqueueOnly, TypeOK
<1>6. ASSUME NEW m \in Messages, EnqueueAndDeliver(m) PROVE TypeOK'
  <2>1. WellTyped(queues', sent', attempts') /\ Head(Pushed(m)) \in Messages
    BY <1>6, DeliveryPushesAndTakes DEF TopicsInOrder
  <2>2. waiting' \in Seq(Subs) /\ waiting' # <<>>
    BY <1>0, <1>6 DEF EnqueueAndDeliver, CanDeliver, TypeOK, EventAssumption
  <2>. QED  BY <1>0, <1>6, <2>1, <2>2 DEF EnqueueAndDeliver, WellTyped, TypeOK, EventAssumption
<1>7. CASE HandlerSettles
  <2>1. processing /\ NextSubscriber
        /\ UNCHANGED <<subs, attempts, mature, made, sent, cleared>>
    BY <1>7 DEF HandlerSettles, HandlerResolves, HandlerRejects
  <2>2. queues' \in [Topics -> Seq(Messages)]
    <3>1. queues' = queues \/ queues' = [queues EXCEPT ![Topic[current]] = Append(@, current)]
      BY <1>7 DEF HandlerSettles, HandlerResolves, HandlerRejects
    <3>2. current \in Messages /\ Topic[current] \in Topics
      BY <1>0, <2>1 DEF TypeOK, EventAssumption
    <3>3. queues \in [Topics -> Seq(Messages)]
      BY <1>0 DEF TypeOK
    <3>4. Append(queues[Topic[current]], current) \in Seq(Messages)
      BY <3>2, <3>3
    <3>. QED  BY <3>1, <3>2, <3>3, <3>4
  <2>3. waiting' \in Seq(Subs)
    BY <2>1, NextSubscriberDropsOne
  <2>4. CASE waiting' # <<>> /\ UNCHANGED <<processing, current, subsHeld, queueHeld>>
    BY <1>0, <2>1, <2>2, <2>3, <2>4 DEF TypeOK
  <2>5. CASE waiting' = <<>> /\ ~ processing' /\ current' = NoMessage /\ ~ subsHeld' /\ ~ queueHeld'
    <3>1. processing' = FALSE /\ subsHeld' = FALSE /\ queueHeld' = FALSE
      BY <1>0, <2>1, <2>5 DEF NextSubscriber, TypeOK
    <3>. QED  BY <1>0, <2>1, <2>2, <2>3, <2>5, <3>1 DEF TypeOK
  <2>. QED  BY <2>1, <2>4, <2>5, NextSubscriberDropsOne
<1>8. CASE UNCHANGED vars
  BY <1>0, <1>8 DEF vars, TypeOK
<1>. QED  BY <1>1, <1>2, <1>3, <1>4, <1>5, <1>6, <1>7, <1>8 DEF Next

\* Every step keeps the topics in order.
LEMMA StepKeepsOrder == OrderInv /\ [Next]_vars => Order'
<1> SUFFICES ASSUME OrderInv, [Next]_vars PROVE TopicsInOrder(queues', sent', attempts', cleared')
  BY DEF Order
<1>0. TypeOK /\ TopicsInOrder(queues, sent, attempts, cleared)
  BY DEF OrderInv, Order
<1>1. CASE UNCHANGED <<queues, sent, attempts, cleared>>
  BY <1>0, <1>1
<1>2. ASSUME NEW t \in Topics, ClearTopic(t)
      PROVE  TopicsInOrder(queues', sent', attempts', cleared')
  BY <1>0, <1>2, ClearKeepsOrder DEF ClearTopic
<1>3. ASSUME NEW m \in Messages, EnqueueOnly(m)
      PROVE  TopicsInOrder(queues', sent', attempts', cleared')
  <2>1. queues' = [queues EXCEPT ![Topic[m]] = Append(@, m)]
    BY <1>0, <1>3, EventAssumption DEF EnqueueOnly, Pushed, TypeOK
  <2>2. /\ m \in Messages \ ToSet(sent) /\ sent' = Append(sent, m)
        /\ attempts' = attempts /\ cleared' = cleared
    BY <1>3 DEF EnqueueOnly
  <2>3. TopicsInOrder([queues EXCEPT ![Topic[m]] = Append(@, m)], Append(sent, m),
                      attempts, cleared)
    BY <1>0, <2>2, PushKeepsOrder
  <2>. QED  BY <2>1, <2>2, <2>3
<1>4. ASSUME NEW m \in Messages, EnqueueAndDeliver(m)
      PROVE  TopicsInOrder(queues', sent', attempts', cleared')
  BY <1>4, DeliveryPushesAndTakes
<1>5. CASE HandlerRejects
  <2>1. current \in ToSet(sent) /\ attempts[current] > 0
    BY <1>5 DEF HandlerRejects, OrderInv, Subscribed
  <2>2. UNCHANGED <<sent, attempts, cleared>>
    BY <1>5 DEF HandlerRejects
  <2>3. queues' = queues \/ queues' = [queues EXCEPT ![Topic[current]] = Append(@, current)]
    BY <1>5 DEF HandlerRejects
  <2>. QED  BY <1>0, <2>1, <2>2, <2>3, RequeueKeepsOrder
<1>6. CASE \/ \E s \in Subs : Subscribe(s) \/ Unsubscribe(s)
           \/ \E m \in Messages : Mature(m)
           \/ HandlerResolves \/ UNCHANGED vars
  BY <1>1, <1>6 DEF Subscribe, Unsubscribe, Mature, HandlerResolves, vars
<1>. QED  BY <1>2, <1>3, <1>4, <1>5, <1>6 DEF Next, HandlerSettles

\* Every step keeps the subscribers of topics and deliveries apart.
LEMMA StepKeepsSubscribed == OrderInv /\ [Next]_vars => Subscribed'
<1> SUFFICES ASSUME OrderInv, [Next]_vars PROVE Subscribed'
  OBVIOUS
<1>0. TypeOK /\ Subscribed /\ EventAssumption
  BY EventAssumption DEF OrderInv
<1>1. ASSUME NEW s \in Subs, Subscribe(s) PROVE Subscribed'
  <2>1. ASSUME NEW t \in Topics
        PROVE  IsInjective(subs'[t]) /\ ToSet(subs'[t]) \subseteq made' \cap Listeners(t)
    <3>1. CASE t = SubTopic[s]
      <4>1. subs[t] \in Seq(Subs) /\ s \notin ToSet(subs[t]) /\ IsInjective(subs[t])
        BY <1>0, <1>1 DEF Subscribe, TypeOK, Subscribed
      <4>2. subs'[t] = Append(subs[t], s)
        BY <1>0, <1>1, <3>1 DEF Subscribe, TypeOK
      <4>3. ToSet(subs'[t]) = ToSet(subs[t]) \union {s} /\ IsInjective(subs'[t])
        BY <4>1, <4>2, AppendAdds
      <4>. QED  BY <1>0, <1>1, <3>1, <4>3 DEF Subscribe, Subscribed, Listeners
    <3>2. CASE t # SubTopic[s]
      BY <1>0, <1>1, <3>2 DEF Subscribe, TypeOK, Subscribed
    <3>. QED  BY <3>1, <3>2
  <2>2. ASSUME processing
        PROVE  IsInjective(waiting') /\ ToSet(waiting') \subseteq made' \cap Listeners(Topic[current])
    <3>1. /\ waiting \in Seq(Subs) /\ s \notin ToSet(waiting) /\ IsInjective(waiting)
          /\ ToSet(waiting) \subseteq made \cap Listeners(Topic[current])
      BY <1>0, <1>1, <2>2 DEF Subscribe, TypeOK, Subscribed
    <3>2. CASE waiting' = waiting
      BY <1>1, <3>1, <3>2 DEF Subscribe
    <3>3. CASE waiting' = Append(waiting, s) /\ Topic[current] = SubTopic[s]
      <4>1. ToSet(waiting') = ToSet(waiting) \union {s} /\ IsInjective(waiting')
        BY <3>1, <3>3, AppendAdds
      <4>. QED  BY <1>1, <3>1, <3>3, <4>1 DEF Subscribe, Listeners
    <3>. QED  BY <1>1, <3>2, <3>3 DEF Subscribe
  <2>. QED  BY <1>0, <1>1, <2>1, <2>2 DEF Subscribe, Subscribed
<1>2. ASSUME NEW s \in Subs, Unsubscribe(s) PROVE Subscribed'
  <2>1. ASSUME NEW t \in Topics
        PROVE  IsInjective(subs'[t]) /\ ToSet(subs'[t]) \subseteq made \cap Listeners(t)
    <3>1. subs'[t] = RemoveFirst(subs[t], s) /\ subs[t] \in Seq(Subs) /\ IsInjective(subs[t])
      BY <1>0, <1>2 DEF Unsubscribe, TypeOK, Subscribed
    <3>2. IsInjective(subs'[t]) /\ ToSet(subs'[t]) \subseteq ToSet(subs[t])
      BY <3>1, RemoveFirstForgets
    <3>. QED  BY <1>0, <3>2 DEF Subscribed
  <2>. QED  BY <1>0, <1>2, <2>1 DEF Unsubscribe, Subscribed
<1>3. CASE \/ \E t \in Topics : ClearTopic(t)
           \/ \E m \in Messages : Mature(m)
           \/ UNCHANGED vars
  BY <1>0, <1>3 DEF ClearTopic, Mature, vars, Subscribed
<1>4. ASSUME NEW m \in Messages, EnqueueOnly(m) PROVE Subscribed'
  <2>1. ToSet(sent) \subseteq ToSet(sent')
    BY <1>0, <1>4, AppendAdds DEF EnqueueOnly, TypeOK
  <2>. QED  BY <1>0, <1>4, <2>1 DEF EnqueueOnly, Subscribed
<1>5. ASSUME NEW m \in Messages, EnqueueAndDeliver(m) PROVE Subscribed'
  <2> DEFINE h == Head(Pushed(m))
  <2>1. /\ h \in ToSet(sent') /\ h \in Messages /\ Topic[h] = Topic[m]
        /\ attempts' = [attempts EXCEPT ![h] = @ + 1]
    BY <1>5, DeliveryPushesAndTakes
  <2>2. current' = h /\ waiting' = subs[Topic[m]] /\ subs' = subs /\ made' = made
    BY <1>5 DEF EnqueueAndDeliver
  <2> HIDE DEF h
  <2>3. attempts'[h] > 0 /\ Topic[m] \in Topics
    BY <1>0, <2>1 DEF TypeOK, EventAssumption
  <2>. QED  BY <1>0, <2>1, <2>2, <2>3 DEF Subscribed
<1>6. CASE HandlerSettles
  <2>1. processing /\ NextSubscriber /\ UNCHANGED <<subs, attempts, made, sent>>
    BY <1>6 DEF HandlerSettles, HandlerResolves, HandlerRejects
  <2>2. /\ IsInjective(waiting') /\ ToSet(waiting') \subseteq ToSet(waiting)
        /\ processing' => current' = current
    BY <2>1, NextSubscriberDropsOne
  <2>. QED  BY <1>0, <2>1, <2>2 DEF Subscribed
<1>. QED  BY <1>1, <1>2, <1>3, <1>4, <1>5, <1>6 DEF Next

\* Every step preserves the order and what it rests on.
LEMMA OrderIsInductive == OrderInv /\ [Next]_vars => OrderInv'
BY StepKeepsTypes, StepKeepsOrder, StepKeepsSubscribed DEF OrderInv

-----------------------------------------------------------------------------
(* Counting copies: those made, those queued, and those that may still be  *)
(* put back by the delivery in progress.                                   *)

Retries(m) == Max({0, MaxAttempts[m] - 1})
Spent(n, m) == IF n < Retries(m) THEN n ELSE Retries(m)
Share(m) == Cardinality(Listeners(Topic[m]))

\* Subscribers the delivery has to await, and those that may still join it.
StillAwaited == ToSet(waiting) \union (Listeners(Topic[current]) \ made)

MayReturn(m) ==
  IF processing /\ current = m /\ attempts[m] < MaxAttempts[m]
  THEN Cardinality(StillAwaited) ELSE 0

WithinBound(m) ==
  attempts[m] + Copies(queues[Topic[m]], m) + MayReturn(m) <= 1 + Spent(attempts[m], m) * Share(m)

AllWithinBound == \A m \in Messages : WithinBound(m)

IInv == OrderInv /\ AllWithinBound

\* The quantities that are added up are natural numbers.
LEMMA CountsAreNaturals ==
  ASSUME NEW m \in Messages, NEW n \in Nat, NEW q \in Seq(Messages)
  PROVE  /\ Copies(q, m) \in Nat /\ Retries(m) \in Nat /\ Spent(n, m) \in Nat /\ Share(m) \in Nat
         /\ Retries(m) = IF MaxAttempts[m] > 1 THEN MaxAttempts[m] - 1 ELSE 0
         /\ Spent(n, m) * Share(m) \in Nat
         /\ Spent(n, m) <= Retries(m)
<1>1. Copies(q, m) \in Nat
  BY CopiesAreFinite
<1>2. MaxAttempts[m] \in Int
  BY EventAssumption
<1>3. Retries(m) = IF MaxAttempts[m] - 1 > 0 THEN MaxAttempts[m] - 1 ELSE 0
  BY <1>2, MaxWithZero DEF Retries
<1>4. Share(m) \in Nat
  <2>1. IsFiniteSet(Listeners(Topic[m]))
    BY EventAssumption, FS_Subset DEF Listeners
  <2>. QED  BY <2>1, FS_CardinalityType DEF Share
<1>5. Retries(m) \in Nat /\ Spent(n, m) \in Nat /\ Spent(n, m) <= Retries(m)
  BY <1>2, <1>3 DEF Spent
<1>6. Spent(n, m) * Share(m) \in Nat
  BY <1>4, <1>5, ProductGrows
<1>. QED  BY <1>1, <1>2, <1>3, <1>4, <1>5, <1>6

\* A subset of a topic's listeners is not larger than they are.
LEMMA FewerListeners ==
  ASSUME NEW t \in Topics, NEW L \in SUBSET Listeners(t), NEW K \in SUBSET L
  PROVE  /\ IsFiniteSet(L) /\ Cardinality(K) \in Nat /\ Cardinality(L) \in Nat
         /\ Cardinality(K) <= Cardinality(L)
         /\ Cardinality(L) <= Cardinality(Listeners(t))
<1>1. IsFiniteSet(Listeners(t))
  BY EventAssumption, FS_Subset DEF Listeners
<1>2. IsFiniteSet(L) /\ Cardinality(L) <= Cardinality(Listeners(t))
  BY <1>1, FS_Subset
<1>3. IsFiniteSet(K) /\ Cardinality(K) <= Cardinality(L)
  BY <1>2, FS_Subset
<1>. QED  BY <1>2, <1>3, FS_CardinalityType

\* The subscribers still awaited all listen to the topic of the delivery.
LEMMA AwaitedAreListeners ==
  OrderInv /\ processing =>
    StillAwaited \in SUBSET Listeners(Topic[current]) /\ Topic[current] \in Topics
BY EventAssumption DEF OrderInv, TypeOK, Subscribed, StillAwaited

\* The same of the next state.
LEMMA AwaitedStayListeners ==
  OrderInv' /\ processing' => StillAwaited' \in SUBSET Listeners(Topic[current'])
<1>1. (OrderInv /\ processing =>
         StillAwaited \in SUBSET Listeners(Topic[current]) /\ Topic[current] \in Topics)'
  BY AwaitedAreListeners, PTL
<1>. QED  BY <1>1 DEF Listeners

\* A message that was not sent has no copies and is not being delivered.
LEMMA UnsentHasNoCopies ==
  ASSUME OrderInv, NEW m \in Messages \ ToSet(sent)
  PROVE  /\ attempts[m] = 0 /\ Copies(queues[Topic[m]], m) = 0 /\ MayReturn(m) = 0
         /\ queues[Topic[m]] \in Seq(Messages) /\ Topic[m] \in Topics
<1>1. Topic[m] \in Topics /\ queues[Topic[m]] \in Seq(Messages)
  BY EventAssumption DEF OrderInv, TypeOK
<1>2. {i \in 1 .. Len(queues[Topic[m]]) : queues[Topic[m]][i] = m} = {}
  BY <1>1 DEF OrderInv, Order, TopicsInOrder, SentToTopic
<1>3. Copies(queues[Topic[m]], m) = 0
  BY <1>2, FS_EmptySet DEF Copies
<1>4. ~ (processing /\ current = m)
  BY DEF OrderInv, Subscribed
<1>. QED  BY <1>1, <1>3, <1>4 DEF OrderInv, Order, TopicsInOrder, MayReturn

\* A step that adds no copy of a message, no attempt and no awaited subscriber
\* keeps its bound.
LEMMA NothingAddedStaysWithin ==
  ASSUME IInv, OrderInv', NEW m \in Messages, attempts'[m] = attempts[m],
         Copies(queues'[Topic[m]], m) <= Copies(queues[Topic[m]], m),
         MayReturn(m)' <= MayReturn(m), MayReturn(m)' \in Nat, MayReturn(m) \in Nat
  PROVE  WithinBound(m)'
<1>0. /\ queues[Topic[m]] \in Seq(Messages) /\ queues'[Topic[m]] \in Seq(Messages)
      /\ attempts[m] \in Nat
  BY EventAssumption DEF IInv, OrderInv, TypeOK
<1>1. /\ Copies(queues[Topic[m]], m) \in Nat /\ Copies(queues'[Topic[m]], m) \in Nat
      /\ Spent(attempts[m], m) * Share(m) \in Nat
  BY <1>0, CountsAreNaturals
<1>2. attempts[m] + Copies(queues[Topic[m]], m) + MayReturn(m) <= 1 + Spent(attempts[m], m) * Share(m)
  BY DEF IInv, AllWithinBound, WithinBound
<1>3. attempts'[m] + Copies(queues'[Topic[m]], m) + MayReturn(m)'
        <= 1 + Spent(attempts'[m], m) * Share(m)
  BY <1>0, <1>1, <1>2
<1>. QED  BY <1>3 DEF WithinBound, Share, Spent, Retries, Copies, Listeners

\* What may return is a natural number.
LEMMA MayReturnIsNatural == OrderInv => \A m \in Messages : MayReturn(m) \in Nat
<1> SUFFICES ASSUME OrderInv, NEW m \in Messages PROVE MayReturn(m) \in Nat
  OBVIOUS
<1>1. CASE processing
  BY <1>1, AwaitedAreListeners, FewerListeners DEF MayReturn
<1>2. CASE ~ processing
  BY <1>2 DEF MayReturn
<1>. QED  BY <1>1, <1>2

\* The same of the next state.
LEMMA MayReturnStaysNatural == OrderInv' => \A m \in Messages : MayReturn(m)' \in Nat
<1>1. (OrderInv => \A m \in Messages : MayReturn(m) \in Nat)'
  BY MayReturnIsNatural, PTL
<1>. QED  BY <1>1

\* Nor does a step after which the delivery, if it lasts, awaits no one new.
LEMMA NoOneNewStaysWithin ==
  ASSUME IInv, OrderInv', NEW m \in Messages, UNCHANGED attempts,
         Copies(queues'[Topic[m]], m) <= Copies(queues[Topic[m]], m),
         processing' => /\ processing /\ current' = current
                        /\ StillAwaited' \subseteq StillAwaited
  PROVE  WithinBound(m)'
<1>1. MayReturn(m) \in Nat /\ MayReturn(m)' \in Nat
  <2>1. OrderInv
    BY DEF IInv
  <2>. QED  BY <2>1, MayReturnIsNatural, MayReturnStaysNatural
<1>2. MayReturn(m)' <= MayReturn(m)
  <2>1. CASE processing' /\ current' = m /\ attempts'[m] < MaxAttempts[m]
    <3>1. /\ MayReturn(m)' = Cardinality(StillAwaited')
          /\ MayReturn(m) = Cardinality(StillAwaited)
          /\ processing /\ OrderInv /\ StillAwaited' \subseteq StillAwaited
      BY <2>1 DEF MayReturn, IInv
    <3>2. Cardinality(StillAwaited') <= Cardinality(StillAwaited)
      BY <3>1, AwaitedAreListeners, FewerListeners
    <3>. QED  BY <3>1, <3>2
  <2>2. CASE ~ (processing' /\ current' = m /\ attempts'[m] < MaxAttempts[m])
    <3>1. MayReturn(m)' = 0
      BY <2>2 DEF MayReturn
    <3>. QED  BY <1>1, <3>1
  <2>. QED  BY <2>1, <2>2
<1>. QED  BY <1>1, <1>2, NothingAddedStaysWithin

\* Enqueueing adds the one copy that the bound starts with.
LEMMA PushStaysWithin ==
  ASSUME IInv, NEW p \in Messages \ ToSet(sent), NEW m \in Messages
  PROVE  LET pushed == [queues EXCEPT ![Topic[p]] = Pushed(p)]
         IN  attempts[m] + Copies(pushed[Topic[m]], m) + MayReturn(m)
               <= 1 + Spent(attempts[m], m) * Share(m)
<1> DEFINE pushed == [queues EXCEPT ![Topic[p]] = Pushed(p)]
<1>0. /\ OrderInv /\ Topic[p] \in Topics /\ Topic[m] \in Topics
      /\ queues \in [Topics -> Seq(Messages)] /\ attempts[m] \in Nat
  BY EventAssumption DEF IInv, OrderInv, TypeOK
<1>1. Copies(Pushed(p), m) = Copies(queues[Topic[p]], m) + (IF p = m THEN 1 ELSE 0)
  <2>1. queues[Topic[p]] \in Seq(Messages)
    BY <1>0
  <2>. QED  BY <2>1, AppendAddsCopy DEF Pushed
<1>2. /\ MayReturn(m) \in Nat /\ Copies(queues[Topic[m]], m) \in Nat
      /\ Spent(attempts[m], m) * Share(m) \in Nat
  BY <1>0, MayReturnIsNatural, CountsAreNaturals
<1>3. pushed[Topic[m]] = IF Topic[m] = Topic[p] THEN Pushed(p) ELSE queues[Topic[m]]
  BY <1>0
<1> HIDE DEF pushed
<1>4. CASE p = m
  <2>1. attempts[m] = 0 /\ Copies(queues[Topic[m]], m) = 0 /\ MayReturn(m) = 0
    BY <1>0, <1>4, UnsentHasNoCopies
  <2>2. Copies(pushed[Topic[m]], m) = 1
    BY <1>1, <1>3, <1>4, <2>1
  <2>. QED  BY <1>2, <2>1, <2>2 DEF pushed
<1>5. CASE p # m
  <2>1. Copies(pushed[Topic[m]], m) = Copies(queues[Topic[m]], m)
    BY <1>1, <1>2, <1>3, <1>5
  <2>2. attempts[m] + Copies(queues[Topic[m]], m) + MayReturn(m)
          <= 1 + Spent(attempts[m], m) * Share(m)
    BY DEF IInv, AllWithinBound, WithinBound
  <2>. QED  BY <2>1, <2>2 DEF pushed
<1>. QED  BY <1>4, <1>5

\* A delivery trades a copy for an attempt, and adds an allowed retry's worth of
\* subscribers to await only if the new attempt leaves one.
LEMMA DeliveryStaysWithin ==
  ASSUME IInv, OrderInv', NEW p \in Messages, EnqueueAndDeliver(p), NEW m \in Messages
  PROVE  WithinBound(m)'
<1> DEFINE h == Head(Pushed(p))
           T == Topic[p]
           pushed == [queues EXCEPT ![T] = Pushed(p)]
           a == attempts[m]
           c == Copies(pushed[Topic[m]], m)
           c2 == Copies(queues'[Topic[m]], m)
           n == Share(m)
<1>0. /\ OrderInv /\ T \in Topics /\ Topic[m] \in Topics /\ p \in Messages \ ToSet(sent)
      /\ queues \in [Topics -> Seq(Messages)] /\ attempts \in [Messages -> Nat]
      /\ queues' \in [Topics -> Seq(Messages)]
      /\ ~ processing /\ processing' = TRUE /\ current' = h
  BY EventAssumption DEF IInv, OrderInv, TypeOK, EnqueueAndDeliver, CanDeliver
<1>1. /\ h \in Messages /\ Topic[h] = T
      /\ queues' = [pushed EXCEPT ![T] = Tail(@)]
      /\ attempts' = [attempts EXCEPT ![h] = @ + 1]
  BY <1>0, DeliveryPushesAndTakes
<1>2. pushed \in [Topics -> Seq(Messages)] /\ pushed[T] = Pushed(p) /\ Pushed(p) # <<>>
  <2>1. Pushed(p) = Append(queues[T], p)
    BY DEF Pushed
  <2> HIDE DEF T
  <2>2. Pushed(p) \in Seq(Messages) /\ Pushed(p) # <<>>
    BY <1>0, <2>1
  <2>. QED  BY <1>0, <2>2
<1>3. a + c <= 1 + Spent(a, m) * n
  <2>1. a + c + MayReturn(m) <= 1 + Spent(a, m) * n
    BY <1>0, PushStaysWithin
  <2>2. MayReturn(m) = 0
    BY <1>0 DEF MayReturn
  <2>3. a \in Nat /\ c \in Nat /\ Spent(a, m) * n \in Nat
    BY <1>0, <1>2, CountsAreNaturals
  <2>. QED  BY <2>1, <2>2, <2>3
<1> HIDE DEF pushed, h
<1>4. c = c2 + (IF h = m THEN 1 ELSE 0)
  <2>1. CASE Topic[m] = T
    <3>1. queues'[Topic[m]] = Tail(pushed[T])
      BY <1>0, <1>1, <1>2, <2>1
    <3>2. Head(pushed[T]) = h
      BY <1>2 DEF h
    <3>. QED  BY <1>0, <1>2, <2>1, <3>1, <3>2, TailTakesCopy
  <2>2. CASE Topic[m] # T
    <3>1. queues'[Topic[m]] = pushed[Topic[m]] /\ h # m
      BY <1>0, <1>1, <1>2, <2>2
    <3>2. c2 \in Nat
      BY <1>0, CountsAreNaturals
    <3>. QED  BY <3>1, <3>2
  <2>. QED  BY <2>1, <2>2
<1>5. /\ a \in Nat /\ c2 \in Nat /\ n \in Nat /\ Retries(m) \in Nat
      /\ Spent(a, m) \in Nat /\ Spent(a, m) * n \in Nat
      /\ Spent(a + 1, m) \in Nat /\ Spent(a + 1, m) * n \in Nat
      /\ Retries(m) = IF MaxAttempts[m] > 1 THEN MaxAttempts[m] - 1 ELSE 0
  <2>1. a \in Nat /\ a + 1 \in Nat
    BY <1>0
  <2> HIDE DEF a
  <2>. QED  BY <1>0, <2>1, CountsAreNaturals
<1>6. Spent(attempts[m], m)' = Spent(attempts'[m], m) /\ Share(m)' = n
  BY DEF Spent, Retries, Share, Listeners
<1>7. CASE h # m
  <2>1. attempts'[m] = a /\ MayReturn(m)' = 0
    BY <1>0, <1>1, <1>7 DEF MayReturn
  <2>2. a + c2 + 0 <= 1 + Spent(a, m) * n
    BY <1>3, <1>4, <1>5, <1>7
  <2>. QED  BY <1>6, <2>1, <2>2 DEF WithinBound, Copies
<1>8. CASE h = m
  <2>1. attempts'[m] = a + 1
    BY <1>0, <1>1, <1>8
  <2>2. MayReturn(m)' \in Nat /\ MayReturn(m)' <= n
    <3>1. MayReturn(m)' \in Nat
      BY MayReturnStaysNatural
    <3>2. MayReturn(m)' = Cardinality(StillAwaited') \/ MayReturn(m)' = 0
      BY DEF MayReturn
    <3>3. StillAwaited' \in SUBSET Listeners(Topic[m])
      BY <1>0, <1>8, AwaitedStayListeners
    <3>4. Cardinality(StillAwaited') <= n
      BY <1>0, <3>3, FewerListeners DEF Share
    <3>. QED  BY <1>5, <3>1, <3>2, <3>4
  <2>3. attempts'[m] + c2 + MayReturn(m)' <= 1 + Spent(attempts'[m], m) * n
    <3>1. CASE attempts'[m] < MaxAttempts[m]
      <4>1. Spent(a, m) = a /\ Spent(a + 1, m) = a + 1
        BY <1>5, <2>1, <3>1, EventAssumption DEF Spent
      <4>2. (a + 1) * n = a * n + n
        BY <1>5, ProductGrows
      <4> DEFINE before == a * n
                 after == (a + 1) * n
                 may == MayReturn(m)'
      <4>3. a + c2 + 1 <= 1 + before /\ after = before + n /\ before \in Nat
        BY <1>3, <1>4, <1>5, <1>8, <4>1, <4>2
      <4>4. attempts'[m] = a + 1 /\ may \in Nat /\ may <= n
        BY <2>1, <2>2
      <4>5. Spent(attempts'[m], m) * n = after
        BY <2>1, <4>1
      <4> HIDE DEF before, after, a, c2, n, may
      <4>6. a \in Nat /\ c2 \in Nat /\ n \in Nat
        BY <1>5 DEF a, c2, n
      <4>7. attempts'[m] + c2 + may <= 1 + after
        BY <4>3, <4>4, <4>6
      <4>. QED  BY <4>5, <4>7 DEF may
    <3>2. CASE ~ (attempts'[m] < MaxAttempts[m])
      <4>1. MayReturn(m)' = 0
        BY <3>2 DEF MayReturn
      <4>2. Spent(a, m) <= Spent(a + 1, m)
        BY <1>5 DEF Spent
      <4>3. Spent(a, m) * n <= Spent(a + 1, m) * n
        BY <1>5, <4>2, ProductGrows
      <4> DEFINE before == Spent(a, m) * n
                 after == Spent(a + 1, m) * n
      <4>4. a + c2 + 1 <= 1 + before /\ before <= after
        BY <1>3, <1>4, <1>5, <1>8, <4>3
      <4>5. before \in Nat /\ after \in Nat /\ a \in Nat /\ c2 \in Nat
        BY <1>5
      <4>6. Spent(attempts'[m], m) * n = after
        BY <2>1
      <4> HIDE DEF before, after, a, c2
      <4>7. a + 1 + c2 + 0 <= 1 + after
        BY <4>4, <4>5
      <4>. QED  BY <2>1, <4>1, <4>6, <4>7 DEF a
    <3>. QED  BY <3>1, <3>2
  <2>. QED  BY <1>6, <2>3 DEF WithinBound, Copies
<1>. QED  BY <1>7, <1>8

\* A subscriber that settles was awaited once: a copy put back takes its share.
LEMMA SettlingStaysWithin ==
  ASSUME IInv, OrderInv', HandlerSettles, NEW m \in Messages
  PROVE  WithinBound(m)'
<1>0. /\ OrderInv /\ processing /\ NextSubscriber /\ UNCHANGED <<subs, attempts, made>>
      /\ current \in Messages /\ Topic[current] \in Topics /\ Topic[m] \in Topics
      /\ queues \in [Topics -> Seq(Messages)] /\ attempts \in [Messages -> Nat]
  BY EventAssumption
     DEF IInv, OrderInv, TypeOK, HandlerSettles, HandlerResolves, HandlerRejects
<1>1. /\ ToSet(waiting') = ToSet(waiting) \ {Head(waiting)} /\ Head(waiting) \in ToSet(waiting)
      /\ processing' => current' = current
  BY <1>0, NextSubscriberDropsOne
<1>2. ToSet(waiting) \subseteq made
  BY <1>0 DEF OrderInv, Subscribed
<1>3. processing' => StillAwaited' = StillAwaited \ {Head(waiting)}
  BY <1>0, <1>1, <1>2 DEF StillAwaited, Listeners
<1>4. Head(waiting) \in StillAwaited
  BY <1>1 DEF StillAwaited
<1>5. Copies(queues[Topic[m]], m) \in Nat
  BY <1>0, CountsAreNaturals
<1>6. CASE queues'[Topic[m]] = queues[Topic[m]]
  BY <1>0, <1>1, <1>3, <1>5, <1>6, NoOneNewStaysWithin
<1>7. CASE queues'[Topic[m]] # queues[Topic[m]]
  <2>1. /\ attempts[current] < MaxAttempts[current]
        /\ queues' = [queues EXCEPT ![Topic[current]] = Append(@, current)]
    BY <1>7 DEF HandlerSettles, HandlerResolves, HandlerRejects
  <2>2. Topic[m] = Topic[current] /\ queues'[Topic[m]] = Append(queues[Topic[m]], current)
    BY <1>0, <1>7, <2>1
  <2>3. Copies(queues'[Topic[m]], m)
          = Copies(queues[Topic[m]], m) + (IF current = m THEN 1 ELSE 0)
    BY <1>0, <2>2, AppendAddsCopy
  <2>4. CASE current # m
    BY <1>0, <1>1, <1>3, <1>5, <2>3, <2>4, NoOneNewStaysWithin
  <2>5. CASE current = m
    <3>1. MayReturn(m) = Cardinality(StillAwaited)
      BY <1>0, <2>1, <2>5 DEF MayReturn
    <3>2. IsFiniteSet(StillAwaited) /\ Cardinality(StillAwaited) \in Nat
      BY <1>0, AwaitedAreListeners, FewerListeners
    <3>3. /\ Cardinality(StillAwaited \ {Head(waiting)}) = Cardinality(StillAwaited) - 1
          /\ Cardinality(StillAwaited \ {Head(waiting)}) \in Nat
      BY <1>4, <3>2, FS_RemoveElement, FS_CardinalityType
    <3>4. MayReturn(m)' \in Nat /\ MayReturn(m)' <= MayReturn(m) - 1
      <4>1. MayReturn(m)' \in Nat
        BY MayReturnStaysNatural
      <4>2. CASE processing'
        <5>1. StillAwaited' = StillAwaited \ {Head(waiting)}
          BY <1>3, <4>2
        <5>2. MayReturn(m)' = Cardinality(StillAwaited')
          BY <1>0, <1>1, <2>1, <2>5, <4>2 DEF MayReturn
        <5>. QED  BY <3>1, <3>2, <3>3, <4>1, <5>1, <5>2
      <4>3. CASE ~ processing'
        <5>1. MayReturn(m)' = 0
          BY <4>3 DEF MayReturn
        <5>. QED  BY <3>1, <3>2, <3>3, <5>1
      <4>. QED  BY <4>2, <4>3
    <3>5. attempts[m] + Copies(queues[Topic[m]], m) + MayReturn(m)
            <= 1 + Spent(attempts[m], m) * Share(m)
      BY DEF IInv, AllWithinBound, WithinBound
    <3>6. attempts[m] \in Nat /\ Spent(attempts[m], m) * Share(m) \in Nat /\ MayReturn(m) \in Nat
      BY <1>0, <3>1, <3>2, CountsAreNaturals
    <3>7. attempts[m] + Copies(queues'[Topic[m]], m) + MayReturn(m)'
            <= 1 + Spent(attempts[m], m) * Share(m)
      BY <1>5, <2>3, <2>5, <3>4, <3>5, <3>6
    <3>. QED  BY <1>0, <3>7 DEF WithinBound, Spent, Retries, Share, Listeners
  <2>. QED  BY <2>4, <2>5
<1>. QED  BY <1>6, <1>7

\* Every step keeps every message within its bound.
LEMMA StepKeepsBound == IInv /\ OrderInv' /\ [Next]_vars => AllWithinBound'
<1> SUFFICES ASSUME IInv, OrderInv', [Next]_vars, NEW m \in Messages
             PROVE  WithinBound(m)'
  BY DEF AllWithinBound
<1>0. /\ OrderInv /\ Topic[m] \in Topics /\ queues \in [Topics -> Seq(Messages)]
      /\ Copies(queues[Topic[m]], m) \in Nat /\ attempts \in [Messages -> Nat]
  <2>1. OrderInv /\ Topic[m] \in Topics /\ queues \in [Topics -> Seq(Messages)]
        /\ attempts \in [Messages -> Nat]
    BY EventAssumption DEF IInv, OrderInv, TypeOK
  <2>. QED  BY <2>1, CountsAreNaturals
<1>1. ASSUME NEW s \in Subs, Subscribe(s) PROVE WithinBound(m)'
  <2>1. UNCHANGED <<queues, attempts, processing, current>>
    BY <1>1 DEF Subscribe
  <2>2. processing => StillAwaited' \subseteq StillAwaited
    <3> SUFFICES ASSUME processing, NEW x \in StillAwaited' PROVE x \in StillAwaited
      OBVIOUS
    <3>1. /\ s \notin made /\ made' = made \union {s}
          /\ \/ waiting' = waiting
             \/ waiting' = Append(waiting, s) /\ Topic[current] = SubTopic[s]
      BY <1>1 DEF Subscribe
    <3>2. /\ waiting \in Seq(Subs)
          /\ ToSet(Append(waiting, s)) = ToSet(waiting) \union {s}
      BY <1>0, AppendAdds DEF OrderInv, TypeOK
    <3>3. x \in ToSet(waiting') \/ x \in Listeners(Topic[current]) \ made'
      BY <2>1 DEF StillAwaited, Listeners
    <3>4. x \in ToSet(waiting) \/ x \in Listeners(Topic[current]) \ made
      BY <1>1, <3>1, <3>2, <3>3 DEF Listeners
    <3>. QED  BY <3>4 DEF StillAwaited
  <2>. QED  BY <1>0, <2>1, <2>2, NoOneNewStaysWithin
<1>2. CASE \/ \E s \in Subs : Unsubscribe(s)
           \/ \E p \in Messages : Mature(p)
           \/ UNCHANGED vars
  <2>1. UNCHANGED <<queues, attempts, processing, current, waiting, made>>
    BY <1>2 DEF Unsubscribe, Mature, vars
  <2>2. StillAwaited' = StillAwaited
    BY <2>1 DEF StillAwaited, Listeners
  <2>. QED  BY <1>0, <2>1, <2>2, NoOneNewStaysWithin
<1>3. ASSUME NEW t \in Topics, ClearTopic(t) PROVE WithinBound(m)'
  <2>1. UNCHANGED <<attempts, processing, current, waiting, made>>
    BY <1>3 DEF ClearTopic
  <2>2. StillAwaited' = StillAwaited
    BY <2>1 DEF StillAwaited, Listeners
  <2>3. queues'[Topic[m]] = queues[Topic[m]] \/ queues'[Topic[m]] = <<>>
    BY <1>0, <1>3 DEF ClearTopic
  <2>4. Copies(<<>>, m) = 0
    <3>1. {i \in 1 .. Len(<<>>) : <<>>[i] = m} = {}
      OBVIOUS
    <3>. QED  BY <3>1, FS_EmptySet DEF Copies
  <2>5. Copies(queues'[Topic[m]], m) <= Copies(queues[Topic[m]], m)
    BY <1>0, <2>3, <2>4
  <2>. QED  BY <2>1, <2>2, <2>5, NoOneNewStaysWithin
<1>4. ASSUME NEW p \in Messages, EnqueueOnly(p) PROVE WithinBound(m)'
  <2>1. /\ p \in Messages \ ToSet(sent) /\ queues' = [queues EXCEPT ![Topic[p]] = Pushed(p)]
        /\ UNCHANGED <<attempts, processing, current, waiting, made>>
    BY <1>4 DEF EnqueueOnly
  <2>2. attempts[m] + Copies(queues'[Topic[m]], m) + MayReturn(m)
          <= 1 + Spent(attempts[m], m) * Share(m)
    BY <2>1, PushStaysWithin
  <2>3. MayReturn(m)' = MayReturn(m)
    BY <2>1 DEF MayReturn, StillAwaited, Listeners
  <2>. QED  BY <2>1, <2>2, <2>3 DEF WithinBound, Spent, Retries, Share, Listeners
<1>. QED  BY <1>1, <1>2, <1>3, <1>4, DeliveryStaysWithin, SettlingStaysWithin DEF Next

-----------------------------------------------------------------------------
\* The invariant holds at the start and is kept by every step.
LEMMA Inductive == (Init => IInv) /\ (IInv /\ [Next]_vars => IInv')
<1>1. Init => IInv
  <2> SUFFICES ASSUME Init, NEW m \in Messages PROVE WithinBound(m)
    BY InitEstablishesOrder DEF IInv, AllWithinBound
  <2>1. OrderInv /\ m \in Messages \ ToSet(sent)
    BY InitEstablishesOrder DEF Init, ToSet
  <2>2. attempts[m] = 0 /\ Copies(queues[Topic[m]], m) = 0 /\ MayReturn(m) = 0
    BY <2>1, UnsentHasNoCopies
  <2>3. Spent(0, m) * Share(m) \in Nat
    BY CountsAreNaturals, UnsentHasNoCopies, <2>1
  <2>. QED  BY <2>2, <2>3 DEF WithinBound
<1>2. IInv /\ [Next]_vars => IInv'
  BY OrderIsInductive, StepKeepsBound DEF IInv
<1>. QED  BY <1>1, <1>2

\* So it holds in every reachable state.
LEMMA Invariance == Spec => []IInv
BY Inductive, PTL DEF Spec

\* THEOREM.  The queue, the subscriptions and the delivery stay well-typed, and
\* the processing flag is set exactly while a message is being delivered.
THEOREM TypeCorrect == Spec => []TypeOK
<1>1. IInv => TypeOK
  BY DEF IInv, OrderInv
<1>. QED  BY <1>1, Invariance, PTL

\* THEOREM.  No message of a topic is delivered for the first time before an
\* earlier one of that topic, unless clearTopic removed the earlier one.
THEOREM FirstDeliveries == Spec => []FirstDeliveryInOrder
<1>1. IInv => FirstDeliveryInOrder
  BY DEF IInv, OrderInv, Order, TopicsInOrder, DeliveredInOrder, FirstDeliveryInOrder
<1>. QED  BY <1>1, Invariance, PTL

\* THEOREM.  A message that was neither delivered nor cleared is in its queue,
\* exactly once.
THEOREM UndeliveredKept == Spec => []UndeliveredStayQueued
<1>1. IInv => UndeliveredStayQueued
  <2> SUFFICES ASSUME IInv, NEW m \in ToSet(sent) \ cleared, attempts[m] = 0
               PROVE  Cardinality({i \in 1 .. Len(queues[Topic[m]]) : queues[Topic[m]][i] = m}) = 1
    BY DEF UndeliveredStayQueued
  <2> DEFINE q == queues[Topic[m]]
  <2>1. Once(q, m)
    BY DEF IInv, OrderInv, Order, TopicsInOrder, UndeliveredOnce
  <2>2. PICK a \in 1 .. Len(q) : q[a] = m /\ \A b \in 1 .. Len(q) : q[b] = m => b = a
    BY <2>1 DEF Once
  <2>3. {i \in 1 .. Len(q) : q[i] = m} = {a}
    BY <2>2
  <2>. QED  BY <2>3, FS_Singleton
<1>. QED  BY <1>1, Invariance, PTL

\* THEOREM.  Deliveries made and copies waiting stay within one for each
\* subscriber and allowed retry, plus the first, however many subscribers reject
\* and whenever they come, go and are awaited.
THEOREM BoundedRedelivery == Spec => []RedeliveryBound
<1>1. IInv => RedeliveryBound
  <2> SUFFICES ASSUME IInv, NEW m \in Messages
               PROVE  attempts[m] + Copies(queues[Topic[m]], m) <= 1 + Retries(m) * Share(m)
    BY DEF RedeliveryBound, Copies, Retries, Share, Listeners
  <2>1. /\ OrderInv /\ attempts[m] \in Nat /\ queues[Topic[m]] \in Seq(Messages)
    BY EventAssumption DEF IInv, OrderInv, TypeOK
  <2>2. /\ Copies(queues[Topic[m]], m) \in Nat /\ Retries(m) \in Nat /\ Share(m) \in Nat
        /\ Spent(attempts[m], m) \in Nat /\ Spent(attempts[m], m) <= Retries(m)
    BY <2>1, CountsAreNaturals
  <2>3. MayReturn(m) \in Nat
    BY <2>1, MayReturnIsNatural
  <2> DEFINE spent == Spent(attempts[m], m) * Share(m)
             most == Retries(m) * Share(m)
  <2>4. spent <= most /\ spent \in Nat /\ most \in Nat
    BY <2>2, ProductGrows
  <2>5. attempts[m] + Copies(queues[Topic[m]], m) + MayReturn(m) <= 1 + spent
    BY DEF IInv, AllWithinBound, WithinBound
  <2> HIDE DEF spent, most
  <2>6. attempts[m] + Copies(queues[Topic[m]], m) <= 1 + most
    BY <2>1, <2>2, <2>3, <2>4, <2>5
  <2>. QED  BY <2>6 DEF most
<1>. QED  BY <1>1, Invariance, PTL
-----------------------------------------------------------------------------
(* Every topic is a log.                                                   *)

\* The messages that a state of the topics shows as unseen.
UnseenOf(qs, at) == {m \in Messages : at[m] = 0 /\ m \in ToSet(qs[Topic[m]])}

\* What was published are the messages sent.
LEMMA SentIsPublished ==
  ASSUME TypeOK
  PROVE  Log!Published = ToSet(sent)
<1>1. DOMAIN sent = 1 .. Len(sent)
  BY DEF TypeOK
<1>. QED  BY <1>1 DEF Log!Published, ToSet

\* Pushing a message that was not sent before makes it unseen.
LEMMA PushedIsUnseen ==
  ASSUME OrderInv, NEW m \in Messages \ ToSet(sent)
  PROVE  /\ UnseenOf([queues EXCEPT ![Topic[m]] = Pushed(m)], attempts) = Unseen \union {m}
         /\ ToSet(Pushed(m)) = ToSet(queues[Topic[m]]) \union {m}
<1>1. /\ Topic[m] \in Topics /\ queues \in [Topics -> Seq(Messages)]
      /\ Topic \in [Messages -> Topics]
  BY EventAssumption DEF OrderInv, TypeOK
<1>2. ToSet(Pushed(m)) = ToSet(queues[Topic[m]]) \union {m}
  <2>1. queues[Topic[m]] \in Seq(Messages)
    BY <1>1
  <2>. QED  BY <2>1, AppendAdds DEF Pushed
<1>3. attempts[m] = 0
  BY DEF OrderInv, Order, TopicsInOrder
<1>. QED  BY <1>1, <1>2, <1>3 DEF UnseenOf, Unseen

\* Of the unseen messages of a topic, the first in the queue was sent first.
LEMMA HeadIsForemost ==
  ASSUME NEW qs, NEW st, NEW at, NEW cl, TopicsInOrder(qs, st, at, cl),
         NEW T \in Topics, qs[T] # <<>>, at[Head(qs[T])] = 0
  PROVE  Log!Foremost(Head(qs[T]), st, UnseenOf(qs, at)) /\ Topic[Head(qs[T])] = T
<1> DEFINE q == qs[T]
           h == Head(q)
<1>1. /\ q \in Seq(Messages) /\ st \in Seq(Messages) /\ Topic \in [Messages -> Topics]
  BY EventAssumption DEF TopicsInOrder, WellTyped
<1>2. Len(q) \in Nat /\ 1 \in 1 .. Len(q) /\ h = q[1] /\ h \in Messages
  BY <1>1
<1>3. Topic[h] = T
  BY <1>2 DEF TopicsInOrder, SentToTopic
<1>4. h \in ToSet(q)
  BY <1>1, <1>2 DEF ToSet
<1>5. h \in UnseenOf(qs, at)
  BY <1>2, <1>3, <1>4 DEF UnseenOf
<1>6. ASSUME NEW x \in UnseenOf(qs, at), Topic[x] = Topic[h],
             NEW i \in 1 .. Len(st), NEW k \in 1 .. Len(st), st[i] = h, st[k] = x
      PROVE  i <= k
  <2>1. x \in ToSet(q) /\ at[x] = 0
    BY <1>3, <1>6 DEF UnseenOf
  <2>2. PICK b \in 1 .. Len(q) : q[b] = x
    BY <1>1, <2>1 DEF ToSet
  <2>3. CASE b = 1
    <3>1. st[i] = st[k] /\ DOMAIN st = 1 .. Len(st)
      BY <1>1, <1>2, <1>6, <2>2, <2>3
    <3>2. i = k
      BY <3>1 DEF TopicsInOrder, IsInjective
    <3>. QED  BY <3>2
  <2>4. CASE b # 1
    <3>1. 1 < b
      BY <1>2, <2>2, <2>4
    <3>2. i < k
      BY <1>2, <1>6, <2>1, <2>2, <3>1 DEF TopicsInOrder, UndeliveredInOrder
    <3>. QED  BY <3>2
  <2>. QED  BY <2>3, <2>4
<1>. QED  BY <1>3, <1>5, <1>6 DEF Log!Foremost

\* Enqueueing that delivers is a publication, which takes the head of the topic if
\* that is unseen.
LEMMA DeliveryIsFirstInFirstOut ==
  ASSUME OrderInv, NEW m \in Messages, EnqueueAndDeliver(m)
  PROVE  Log!Next
<1> DEFINE h == Head(Pushed(m))
           T == Topic[m]
           pushed == [queues EXCEPT ![T] = Pushed(m)]
<1>0. /\ TypeOK /\ T \in Topics /\ m \in Messages \ ToSet(sent) /\ queues[T] \in Seq(Messages)
      /\ sent' = Append(sent, m) /\ Topic \in [Messages -> Topics]
      /\ queues \in [Topics -> Seq(Messages)] /\ attempts \in [Messages -> Nat]
  BY EventAssumption DEF OrderInv, TypeOK, EnqueueAndDeliver
<1>1. /\ h \in Messages /\ Topic[h] = T
      /\ TopicsInOrder(pushed, sent', attempts, cleared)
      /\ queues' = [pushed EXCEPT ![T] = Tail(@)]
      /\ attempts' = [attempts EXCEPT ![h] = @ + 1]
  BY DeliveryPushesAndTakes
<1>2. m \notin Log!Published
  BY <1>0, SentIsPublished
<1>3. /\ pushed \in [Topics -> Seq(Messages)] /\ pushed[T] = Pushed(m)
      /\ Pushed(m) \in Seq(Messages) /\ Pushed(m) # <<>>
  <2> HIDE DEF T, h, pushed
  <2>1. Pushed(m) \in Seq(Messages) /\ Pushed(m) # <<>>
    <3>1. Pushed(m) = Append(queues[T], m)
      BY DEF Pushed, T
    <3>. QED  BY <1>0, <3>1
  <2> USE DEF pushed
  <2>. QED  BY <1>0, <2>1
<1>4. UnseenOf(pushed, attempts) = Unseen \union {m}
  BY <1>0, PushedIsUnseen
<1>5. ToSet(Pushed(m)) = ToSet(Tail(Pushed(m))) \union {h}
  <2> DEFINE q == Pushed(m)
             r == Tail(q)
  <2>1. /\ Len(q) \in Nat /\ Len(q) > 0 /\ Len(r) = Len(q) - 1 /\ h = q[1]
        /\ \A a \in 1 .. Len(q) - 1 : r[a] = q[a + 1]
        /\ DOMAIN q = 1 .. Len(q) /\ DOMAIN r = 1 .. Len(r)
    BY <1>3, HeadTailProperties
  <2> HIDE DEF q, r, h
  <2>2. ASSUME NEW x PROVE x \in ToSet(q) => x \in ToSet(r) \union {h}
    <3> SUFFICES ASSUME NEW a \in 1 .. Len(q), q[a] = x, a # 1 PROVE x \in ToSet(r)
      BY <2>1 DEF ToSet
    <3>1. a - 1 \in 1 .. Len(r) /\ r[a - 1] = x
      BY <2>1
    <3>. QED  BY <2>1, <3>1 DEF ToSet
  <2>3. ASSUME NEW x PROVE x \in ToSet(r) \union {h} => x \in ToSet(q)
    <3>1. h \in ToSet(q)
      BY <2>1 DEF ToSet
    <3>2. ASSUME NEW a \in 1 .. Len(r), r[a] = x PROVE x \in ToSet(q)
      <4>1. a + 1 \in 1 .. Len(q) /\ q[a + 1] = x
        BY <2>1, <3>2
      <4>. QED  BY <2>1, <4>1 DEF ToSet
    <3>. QED  BY <2>1, <3>1, <3>2 DEF ToSet
  <2>4. ToSet(q) = ToSet(r) \union {h}
    BY <2>2, <2>3
  <2>. QED  BY <2>4 DEF q, r
<1>6. Unseen' = UnseenOf(pushed, attempts) \ {h}
  <2>1. queues'[T] = Tail(Pushed(m)) /\ \A t \in Topics \ {T} : queues'[t] = pushed[t]
    <3> HIDE DEF T, pushed
    <3>. QED  BY <1>0, <1>1, <1>3
  <2>2. attempts'[h] # 0 /\ \A x \in Messages \ {h} : attempts'[x] = attempts[x]
    <3> HIDE DEF h
    <3>. QED  BY <1>0, <1>1
  <2>3. ASSUME NEW x \in Messages, x # h
        PROVE  x \in ToSet(queues'[Topic[x]]) <=> x \in ToSet(pushed[Topic[x]])
    <3> HIDE DEF h, T, pushed
    <3>1. CASE Topic[x] = T
      BY <1>3, <1>5, <2>1, <2>3, <3>1
    <3>2. CASE Topic[x] # T
      BY <1>0, <2>1, <3>2
    <3>. QED  BY <3>1, <3>2
  <2> HIDE DEF h, T, pushed
  <2>. QED  BY <2>2, <2>3 DEF Unseen, UnseenOf
<1>7. CASE attempts[h] = 0
  <2>1. Log!Foremost(h, sent', Unseen \union {m})
    <3> HIDE DEF pushed, T
    <3>1. Head(pushed[T]) = h
      BY <1>3
    <3>2. attempts[Head(pushed[T])] = 0 /\ pushed[T] # <<>>
      BY <1>3, <1>7, <3>1
    <3>3. Log!Foremost(Head(pushed[T]), sent', UnseenOf(pushed, attempts))
      BY <1>0, <1>1, <3>2, HeadIsForemost
    <3>. QED  BY <1>4, <3>1, <3>3
  <2>2. Log!PublishAndDeliver(m, h)
    <3> HIDE DEF h
    <3>. QED  BY <1>0, <1>1, <1>2, <1>4, <1>6, <2>1 DEF Log!PublishAndDeliver
  <2>. QED  BY <1>1, <2>2 DEF Log!Next
<1>8. CASE attempts[h] # 0
  <2>1. h \notin UnseenOf(pushed, attempts)
    BY <1>8 DEF UnseenOf
  <2>2. Unseen' = Unseen \union {m}
    BY <1>4, <1>6, <2>1
  <2>3. Log!Publish(m)
    BY <1>0, <1>2, <2>2 DEF Log!Publish
  <2>. QED  BY <2>3 DEF Log!Next
<1>. QED  BY <1>7, <1>8

\* THEOREM.  The event queue implements a first-in first-out log for each topic:
\* with subscribers, redeliveries and due times hidden, every step is a step of
\* TopicLog or changes nothing.
THEOREM Refinement == Spec => ImplementsTopicLog
<1>1. Init => Log!Init
  <2> SUFFICES ASSUME Init PROVE Log!Init
    OBVIOUS
  <2>1. \A t \in Topics : queues[t] = <<>>
    BY DEF Init
  <2>2. ToSet(<<>>) = {}
    BY DEF ToSet
  <2>3. \A m \in Messages : Topic[m] \in Topics
    BY EventAssumption
  <2>. QED  BY <2>1, <2>2, <2>3 DEF Init, Unseen, Log!Init
<1>2. OrderInv /\ [Next]_vars => [Log!Next]_(Log!vars)
  <2> SUFFICES ASSUME OrderInv, [Next]_vars PROVE [Log!Next]_(Log!vars)
    OBVIOUS
  <2>0. /\ TypeOK /\ queues \in [Topics -> Seq(Messages)] /\ Topic \in [Messages -> Topics]
    BY EventAssumption DEF OrderInv, TypeOK
  <2>1. ASSUME NEW m \in Messages, EnqueueOnly(m) PROVE Log!Next
    <3>1. /\ m \in Messages \ ToSet(sent) /\ sent' = Append(sent, m) /\ attempts' = attempts
          /\ queues' = [queues EXCEPT ![Topic[m]] = Pushed(m)]
      BY <2>1 DEF EnqueueOnly
    <3>2. Unseen' = Unseen \union {m}
      <4>1. Unseen' = UnseenOf([queues EXCEPT ![Topic[m]] = Pushed(m)], attempts)
        BY <3>1 DEF Unseen, UnseenOf
      <4>. QED  BY <3>1, <4>1, PushedIsUnseen
    <3>3. m \notin Log!Published
      BY <2>0, <3>1, SentIsPublished
    <3>. QED  BY <3>1, <3>2, <3>3 DEF Log!Publish, Log!Next
  <2>2. ASSUME NEW m \in Messages, EnqueueAndDeliver(m) PROVE Log!Next
    BY <2>2, DeliveryIsFirstInFirstOut
  <2>3. ASSUME NEW t \in Topics, ClearTopic(t) PROVE Log!Next
    <3>1. queues' = [queues EXCEPT ![t] = <<>>] /\ attempts' = attempts /\ sent' = sent
      BY <2>3 DEF ClearTopic
    <3>2. ToSet(<<>>) = {}
      BY DEF ToSet
    <3>3. Unseen' = {m \in Unseen : Topic[m] # t}
      BY <2>0, <3>1, <3>2 DEF Unseen
    <3>. QED  BY <3>1, <3>3 DEF Log!Clear, Log!Next
  <2>4. CASE HandlerRejects
    <3>1. /\ sent' = sent /\ attempts' = attempts
          /\ queues' = queues \/ queues' = [queues EXCEPT ![Topic[current]] = Append(@, current)]
          /\ current \in Messages /\ attempts[current] # 0
      BY <2>4 DEF HandlerRejects, OrderInv, Subscribed, TypeOK
    <3>2. ASSUME NEW m \in Messages, attempts[m] = 0
          PROVE  m \in ToSet(queues'[Topic[m]]) <=> m \in ToSet(queues[Topic[m]])
      <4> DEFINE T == Topic[current]
                 q == queues[T]
      <4>1. q \in Seq(Messages) /\ T \in Topics
        BY <2>0, <3>1
      <4>2. ToSet(Append(q, current)) = ToSet(q) \union {current}
        BY <3>1, <4>1, AppendAdds
      <4>3. m # current
        BY <3>1, <3>2
      <4>4. CASE queues' = [queues EXCEPT ![T] = Append(q, current)]
        <5> HIDE DEF T, q
        <5>1. queues'[T] = Append(q, current) /\ \A t \in Topics \ {T} : queues'[t] = queues[t]
          BY <2>0, <4>1, <4>4
        <5>2. q = queues[T]
          BY DEF q
        <5>3. CASE Topic[m] = T
          <6>1. ToSet(queues'[T]) = ToSet(queues[T]) \union {current}
            BY <4>2, <5>1, <5>2
          <6>. QED  BY <4>3, <5>3, <6>1
        <5>4. CASE Topic[m] # T
          <6>1. Topic[m] \in Topics \ {T}
            BY <2>0, <3>2, <5>4
          <6>. QED  BY <5>1, <6>1
        <5>. QED  BY <5>3, <5>4
      <4>. QED  BY <3>1, <4>4
    <3>3. Unseen' = Unseen
      BY <3>1, <3>2 DEF Unseen
    <3>. QED  BY <3>1, <3>3 DEF Log!vars
  <2>5. CASE \/ \E s \in Subs : Subscribe(s) \/ Unsubscribe(s)
             \/ \E m \in Messages : Mature(m)
             \/ HandlerResolves \/ UNCHANGED vars
    <3>1. sent' = sent /\ attempts' = attempts /\ queues' = queues
      BY <2>5 DEF Subscribe, Unsubscribe, Mature, HandlerResolves, vars
    <3>. QED  BY <3>1 DEF Unseen, Log!vars
  <2>. QED  BY <2>1, <2>2, <2>3, <2>4, <2>5 DEF Next, HandlerSettles
<1>3. IInv => OrderInv
  BY DEF IInv
<1>. QED  BY <1>1, <1>2, <1>3, Invariance, PTL DEF Spec, ImplementsTopicLog, Log!Spec
=============================================================================
