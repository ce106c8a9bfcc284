----------------------------- MODULE SharedLemmas -----------------------------
(***************************************************************************)
(* Facts about the community modules' operators on sequences and functions *)
(* and a few about naturals, that the proofs about the components share.   *)
(***************************************************************************)
EXTENDS Integers, Sequences, FiniteSets, SequencesExt, TLAPS,
        WellFoundedInduction, FiniteSetTheorems, FunctionTheorems, SequenceTheorems

\* A nonempty set of positions of a sequence has a least element.
LEMMA MinIsLeast ==
  ASSUME NEW S \in SUBSET Nat, S # {}
  PROVE  Min(S) \in S /\ \A i \in S : Min(S) <= i
<1> DEFINE less == OpToRel(<, Nat)
<1>1. IsWellFoundedOn(less, Nat)
  BY NatLessThanWellFounded
<1>2. \A m, n \in Nat : m < n => <<m, n>> \in less
  BY DEF OpToRel
<1> HIDE DEF less
<1>3. PICK n \in S : \A m \in S : <<m, n>> \notin less
  BY <1>1, WFMin
<1>4. \E x \in S : \A y \in S : x =< y
  <2>1. ASSUME NEW m \in S PROVE n =< m
    <3>1. m \in Nat /\ n \in Nat
      OBVIOUS
    <3>2. ~ (m < n)
      BY <1>2, <1>3, <3>1, Zenon
    <3>. QED  BY <3>1, <3>2
  <2>. QED  BY <2>1
<1>. QED  BY <1>4 DEF Min

\* A nonempty finite set of naturals has a greatest element.
LEMMA MaxExists ==
  ASSUME NEW S \in SUBSET Nat, IsFiniteSet(S), S # {}
  PROVE  \E v \in S : \A w \in S : w <= v
<1> DEFINE Up(v) == {w \in S : v <= w}
           Sizes == {Cardinality(Up(v)) : v \in S}
<1>1. \A v \in S : IsFiniteSet(Up(v)) /\ Cardinality(Up(v)) \in Nat
  BY FS_Subset, FS_CardinalityType
<1>2. Sizes # {} /\ Sizes \in SUBSET Nat
  BY <1>1
<1>3. PICK v \in S : Cardinality(Up(v)) = Min(Sizes)
  <2>1. Min(Sizes) \in Sizes
    BY <1>2, MinIsLeast
  <2>. QED  BY <2>1
<1>4. ASSUME NEW w \in S PROVE Cardinality(Up(v)) <= Cardinality(Up(w))
  <2>1. Cardinality(Up(w)) \in Sizes
    OBVIOUS
  <2> HIDE DEF Sizes
  <2>2. \A i \in Sizes : Min(Sizes) <= i
    BY <1>2, MinIsLeast
  <2>. QED  BY <1>3, <2>1, <2>2
<1>5. ASSUME NEW w \in S PROVE w <= v
  <2> SUFFICES ASSUME v < w PROVE FALSE
    <3>1. v \in Nat /\ w \in Nat
      OBVIOUS
    <3>. QED  BY <3>1
  <2>1. Up(w) \subseteq Up(v) /\ v \in Up(v) /\ v \notin Up(w)
    <3>1. S \subseteq Int /\ v \in S /\ w \in S /\ v < w
      OBVIOUS
    <3>2. (\A u \in S : w <= u => v <= u) /\ v <= v /\ ~ (w <= v)
      BY <3>1
    <3>. QED  BY <3>1, <3>2
  <2> HIDE DEF Up
  <2>2. Cardinality(Up(w)) <= Cardinality(Up(v)) /\ Cardinality(Up(w)) # Cardinality(Up(v))
    BY <1>1, <2>1, FS_Subset
  <2>. QED  BY <1>1, <1>4, <2>2
<1>. QED  BY <1>5

\* The first element of a sequence that lies in D does lie in D.
LEMMA FirstMatch ==
  ASSUME NEW S, NEW q \in Seq(S), NEW D, ToSet(q) \cap D # {}
  PROVE  q[Min({i \in 1 .. Len(q) : q[i] \in D})] \in ToSet(q) \cap D
<1> DEFINE I == {i \in 1 .. Len(q) : q[i] \in D}
<1>1. I # {} /\ I \in SUBSET Nat
  BY DEF ToSet
<1> HIDE DEF I
<1>2. Min(I) \in I
  BY <1>1, MinIsLeast
<1>3. q[Min(I)] \in D /\ Min(I) \in 1 .. Len(q)
  BY <1>2 DEF I
<1>4. q[Min(I)] \in ToSet(q) \cap D
  BY <1>3 DEF ToSet
<1>. QED  BY <1>4 DEF I

\* Removing an element from a sequence closes the gap it leaves.
LEMMA RemoveAtCloses ==
  ASSUME NEW S, NEW q \in Seq(S), NEW k \in 1 .. Len(q)
  PROVE  /\ RemoveAt(q, k) \in Seq(S)
         /\ Len(RemoveAt(q, k)) = Len(q) - 1
         /\ \A i \in 1 .. k - 1 : RemoveAt(q, k)[i] = q[i]
         /\ \A i \in k .. Len(q) - 1 : RemoveAt(q, k)[i] = q[i + 1]
<1> DEFINE A == SubSeq(q, 1, k - 1)
           B == SubSeq(q, k + 1, Len(q))
<1>1. A \in Seq(S) /\ Len(A) = k - 1 /\ \A i \in 1 .. k - 1 : A[i] = q[i]
  OBVIOUS
<1>2. B \in Seq(S) /\ Len(B) = Len(q) - k /\ \A i \in 1 .. Len(B) : B[i] = q[k + i]
  OBVIOUS
<1> HIDE DEF A, B
<1>3. /\ A \o B \in Seq(S)
      /\ Len(A \o B) = Len(A) + Len(B)
      /\ \A i \in 1 .. Len(A) + Len(B) :
           (A \o B)[i] = IF i <= Len(A) THEN A[i] ELSE B[i - Len(A)]
  BY <1>1, <1>2, ConcatProperties
<1>4. RemoveAt(q, k) = A \o B
  BY DEF RemoveAt, A, B
<1>5. Len(A) + Len(B) = Len(q) - 1 /\ Len(q) \in Nat
  BY <1>1, <1>2
<1>6. ASSUME NEW i \in 1 .. k - 1 PROVE (A \o B)[i] = q[i]
  BY <1>1, <1>3, <1>5
<1>7. ASSUME NEW i \in k .. Len(q) - 1 PROVE (A \o B)[i] = q[i + 1]
  <2>1. (A \o B)[i] = B[i - (k - 1)]
    BY <1>1, <1>3, <1>5
  <2>2. i - (k - 1) \in 1 .. Len(B) /\ k + (i - (k - 1)) = i + 1
    BY <1>2, <1>5
  <2>. QED  BY <1>2, <2>1, <2>2
<1>. QED  BY <1>3, <1>4, <1>5, <1>6, <1>7

\* Removing an element from a sequence without repetitions removes just that
\* element, whether or not it was there, and repeats nothing.
LEMMA RemoveFirstForgets ==
  ASSUME NEW S, NEW q \in Seq(S), IsInjective(q), NEW e
  PROVE  /\ RemoveFirst(q, e) \in Seq(S)
         /\ IsInjective(RemoveFirst(q, e))
         /\ ToSet(RemoveFirst(q, e)) = ToSet(q) \ {e}
<1>1. CASE \A i \in 1 .. Len(q) : q[i] # e
  <2>1. RemoveFirst(q, e) = q
    BY <1>1, Zenon DEF RemoveFirst
  <2>2. e \notin ToSet(q)
    BY <1>1 DEF ToSet
  <2>. QED  BY <2>1, <2>2
<1>2. CASE \E i \in 1 .. Len(q) : q[i] = e
  <2> DEFINE k == SelectInSeq(q, LAMBDA v : v = e)
             r == RemoveAt(q, k)
             I == {i \in 1 .. Len(q) : q[i] = e}
  <2>1. k \in 1 .. Len(q) /\ q[k] = e
    <3>1. I # {} /\ I \in SUBSET Nat
      BY <1>2
    <3>2. Min(I) \in I
      BY <3>1, MinIsLeast
    <3>3. k = Min(I)
      BY <3>1 DEF SelectInSeq
    <3>. QED  BY <3>2, <3>3
  <2>2. RemoveFirst(q, e) = r
    BY <1>2 DEF RemoveFirst
  <2> HIDE DEF k, I
  <2>3. /\ r \in Seq(S)
        /\ Len(r) = Len(q) - 1
        /\ \A i \in 1 .. k - 1 : r[i] = q[i]
        /\ \A i \in k .. Len(q) - 1 : r[i] = q[i + 1]
    BY <2>1, RemoveAtCloses
  <2> HIDE DEF r
  <2>4. \A i, j \in 1 .. Len(q) : q[i] = q[j] => i = j
    BY DEF IsInjective
  <2>5. IsInjective(r)
    BY <2>1, <2>3, <2>4 DEF IsInjective
  <2>6. ASSUME NEW x \in ToSet(r) PROVE x \in ToSet(q) \ {e}
    <3>1. PICK i \in 1 .. Len(r) : r[i] = x
      BY <2>3 DEF ToSet
    <3>2. \E j \in 1 .. Len(q) : j # k /\ q[j] = x
      BY <2>1, <2>3, <3>1
    <3>. QED  BY <2>1, <2>4, <3>2 DEF ToSet
  <2>7. ASSUME NEW x \in ToSet(q), x # e PROVE x \in ToSet(r)
    <3>1. PICK i \in 1 .. Len(q) : q[i] = x
      BY DEF ToSet
    <3>2. i # k
      BY <2>1, <2>7, <3>1
    <3>3. CASE i < k
      BY <2>1, <2>3, <3>1, <3>3 DEF ToSet
    <3>4. CASE i > k
      <4>1. i - 1 \in k .. Len(q) - 1 /\ r[i - 1] = x /\ i - 1 \in 1 .. Len(r)
        BY <2>1, <2>3, <3>1, <3>4
      <4>. QED  BY <2>3, <4>1 DEF ToSet
    <3>. QED  BY <2>1, <3>1, <3>2, <3>3, <3>4
  <2>. QED  BY <2>2, <2>3, <2>5, <2>6, <2>7
<1>. QED  BY <1>1, <1>2

\* Appending adds the element to a sequence's elements.
LEMMA AppendAdds ==
  ASSUME NEW S, NEW q \in Seq(S), NEW e \in S
  PROVE  /\ Append(q, e) \in Seq(S)
         /\ ToSet(Append(q, e)) = ToSet(q) \union {e}
         /\ IsInjective(q) /\ e \notin ToSet(q) => IsInjective(Append(q, e))
<1> DEFINE r == Append(q, e)
<1>1. /\ r \in Seq(S) /\ Len(r) = Len(q) + 1 /\ r[Len(q) + 1] = e
      /\ \A i \in 1 .. Len(q) : r[i] = q[i]
  OBVIOUS
<1> HIDE DEF r
<1>2. ToSet(r) = ToSet(q) \union {e}
  <2>1. \A i \in 1 .. Len(r) : i \in 1 .. Len(q) \/ i = Len(q) + 1
    BY <1>1
  <2>2. DOMAIN r = 1 .. Len(r) /\ DOMAIN q = 1 .. Len(q) /\ Len(q) + 1 \in 1 .. Len(r)
        /\ 1 .. Len(q) \subseteq 1 .. Len(r)
    BY <1>1
  <2>. QED  BY <1>1, <2>1, <2>2 DEF ToSet
<1>3. IsInjective(q) /\ e \notin ToSet(q) => IsInjective(r)
  BY <1>1 DEF IsInjective, ToSet
<1>. QED  BY <1>1, <1>2, <1>3 DEF r

\* The greater one of zero and an integer.
LEMMA MaxWithZero ==
  ASSUME NEW m \in Int
  PROVE  Max({0, m}) = (IF m > 0 THEN m ELSE 0)
<1> DEFINE b == IF m > 0 THEN m ELSE 0
<1>1. b \in {0, m} /\ \A y \in {0, m} : b >= y
  OBVIOUS
<1>2. \A x \in {0, m} : (\A y \in {0, m} : x >= y) => x = b
  OBVIOUS
<1>. QED  BY <1>1, <1>2 DEF Max

\* The number of times x occurs in q.
Copies(q, x) == Cardinality({i \in 1 .. Len(q) : q[i] = x})

\* The positions of a sequence that hold x are finitely many.
LEMMA CopiesAreFinite ==
  ASSUME NEW S, NEW q \in Seq(S), NEW x
  PROVE  LET P == {i \in 1 .. Len(q) : q[i] = x}
         IN  IsFiniteSet(P) /\ Cardinality(P) \in Nat /\ Copies(q, x) \in Nat
<1>1. IsFiniteSet(1 .. Len(q))
  BY FS_Interval
<1>. QED  BY <1>1, FS_Subset, FS_CardinalityType DEF Copies

\* Appending adds a copy of the element appended, and of no other one.
LEMMA AppendAddsCopy ==
  ASSUME NEW S, NEW q \in Seq(S), NEW e \in S, NEW x
  PROVE  Copies(Append(q, e), x) = Copies(q, x) + (IF e = x THEN 1 ELSE 0)
<1> DEFINE r == Append(q, e)
           P == {i \in 1 .. Len(q) : q[i] = x}
           R == {i \in 1 .. Len(r) : r[i] = x}
<1>1. /\ Len(r) = Len(q) + 1 /\ r[Len(q) + 1] = e /\ Len(q) \in Nat
      /\ \A i \in 1 .. Len(q) : r[i] = q[i]
  OBVIOUS
<1>2. IsFiniteSet(P) /\ Cardinality(P) \in Nat
  BY CopiesAreFinite
<1> HIDE DEF r
<1>3. CASE e = x
  <2>1. R = P \union {Len(q) + 1} /\ Len(q) + 1 \notin P
    BY <1>1, <1>3
  <2> HIDE DEF P, R
  <2>2. Cardinality(R) = Cardinality(P) + 1
    BY <1>2, <2>1, FS_AddElement
  <2>. QED  BY <1>3, <2>2 DEF P, R, r, Copies
<1>4. CASE e # x
  <2>1. R = P
    BY <1>1, <1>4
  <2> HIDE DEF P, R
  <2>2. Cardinality(R) = Cardinality(P) + 0
    BY <1>2, <2>1
  <2>. QED  BY <1>4, <2>2 DEF P, R, r, Copies
<1>. QED  BY <1>3, <1>4

\* Taking the first element off takes one copy of it, and of no other one.
LEMMA TailTakesCopy ==
  ASSUME NEW S, NEW q \in Seq(S), q # <<>>, NEW x
  PROVE  Copies(q, x) = Copies(Tail(q), x) + (IF Head(q) = x THEN 1 ELSE 0)
<1> DEFINE r == Tail(q)
           P == {i \in 1 .. Len(q) : q[i] = x}
           R == {i \in 1 .. Len(r) : r[i] = x}
           T == P \ {1}
<1>1. /\ r \in Seq(S) /\ Len(r) = Len(q) - 1 /\ Len(r) \in Nat /\ Head(q) = q[1]
      /\ \A i \in 1 .. Len(r) : r[i] = q[i + 1]
  BY HeadTailProperties
<1>2. IsFiniteSet(P) /\ IsFiniteSet(R) /\ Cardinality(R) \in Nat
  <2> HIDE DEF r
  <2>. QED  BY <1>1, CopiesAreFinite
<1> HIDE DEF r
<1>3. Cardinality(T) = Cardinality(R)
  <2> DEFINE shift == [i \in R |-> i + 1]
  <2>1. shift \in Bijection(R, T)
    <3>1. \A i \in R : i \in Int /\ shift[i] = i + 1 /\ i + 1 \in T
      BY <1>1
    <3>2. \A k \in T : k - 1 \in R /\ shift[k - 1] = k
      BY <1>1
    <3> HIDE DEF R, T, shift
    <3>3. shift \in [R -> T]
      BY <3>1 DEF shift
    <3>4. \A i, k \in R : shift[i] = shift[k] => i = k
      BY <3>1
    <3>5. \A k \in T : \E i \in R : shift[i] = k
      BY <3>2
    <3>. QED  BY <3>3, <3>4, <3>5, Fun_IsBij
  <2>2. ExistsBijection(R, T)
    BY <2>1 DEF ExistsBijection
  <2> HIDE DEF R, T
  <2>. QED  BY <1>2, <2>2, FS_Bijection
<1>4. CASE Head(q) = x
  <2>1. P = T \union {1} /\ 1 \notin T
    BY <1>1, <1>4
  <2>2. IsFiniteSet(T)
    BY <1>2, FS_Subset
  <2> HIDE DEF P, R, T
  <2>3. Cardinality(P) = Cardinality(T) + 1
    BY <2>1, <2>2, FS_AddElement
  <2>4. Cardinality(P) = Cardinality(R) + 1
    BY <1>3, <2>3
  <2>. QED  BY <1>4, <2>4 DEF P, R, r, Copies
<1>5. CASE Head(q) # x
  <2>1. P = T
    BY <1>1, <1>5
  <2> HIDE DEF P, R, T
  <2>2. Cardinality(P) = Cardinality(R) + 0
    BY <1>2, <1>3, <2>1
  <2>. QED  BY <1>5, <2>2 DEF P, R, r, Copies
<1>. QED  BY <1>4, <1>5

\* Taking the first element off a sequence without repetitions removes just it.
LEMMA TailForgetsHead ==
  ASSUME NEW S, NEW q \in Seq(S), q # <<>>, IsInjective(q)
  PROVE  /\ IsInjective(Tail(q)) /\ Head(q) \in ToSet(q)
         /\ ToSet(Tail(q)) = ToSet(q) \ {Head(q)}
<1> DEFINE r == Tail(q)
<1>1. /\ r \in Seq(S) /\ Len(r) = Len(q) - 1 /\ Len(q) \in Nat /\ Len(q) > 0
      /\ \A i \in 1 .. Len(r) : r[i] = q[i + 1]
      /\ Head(q) = q[1]
  BY HeadTailProperties
<1>2. \A i, k \in 1 .. Len(q) : q[i] = q[k] => i = k
  BY DEF IsInjective
<1>3. DOMAIN q = 1 .. Len(q) /\ DOMAIN r = 1 .. Len(r)
  BY <1>1
<1> HIDE DEF r
<1>4. IsInjective(r)
  BY <1>1, <1>2, <1>3 DEF IsInjective
<1>5. 1 \in 1 .. Len(q) /\ Head(q) \in ToSet(q)
  BY <1>1, <1>3 DEF ToSet
<1>6. ASSUME NEW x \in ToSet(r) PROVE x \in ToSet(q) \ {Head(q)}
  <2>1. PICK i \in 1 .. Len(r) : r[i] = x
    BY <1>3 DEF ToSet
  <2>2. i + 1 \in 1 .. Len(q) /\ i + 1 # 1 /\ q[i + 1] = x
    BY <1>1, <2>1
  <2>. QED  BY <1>1, <1>2, <1>3, <1>5, <2>2 DEF ToSet
<1>7. ASSUME NEW x \in ToSet(q) \ {Head(q)} PROVE x \in ToSet(r)
  <2>1. PICK i \in 1 .. Len(q) : q[i] = x
    BY <1>3 DEF ToSet
  <2>2. i # 1
    BY <1>1, <1>7, <2>1
  <2>3. i - 1 \in 1 .. Len(r) /\ r[i - 1] = q[i - 1 + 1] /\ i - 1 + 1 = i
    BY <1>1, <2>2
  <2>. QED  BY <1>3, <2>1, <2>3 DEF ToSet
<1>. QED  BY <1>4, <1>5, <1>6, <1>7 DEF r

\* Products of naturals: one factor more, and monotonicity.
LEMMA ProductGrows ==
  ASSUME NEW a \in Nat, NEW b \in Nat, NEW n \in Nat
  PROVE  /\ a * n \in Nat /\ (a + 1) * n = a * n + n
         /\ a <= b => a * n <= b * n
<1>1. a * n \in Nat /\ (a + 1) * n = a * n + n
  OBVIOUS
<1>2. ASSUME a <= b PROVE a * n <= b * n
  <2>1. b - a \in Nat /\ (b - a) * n \in Nat
    BY <1>2
  <2>2. b * n = a * n + (b - a) * n
    OBVIOUS
  <2>. QED  BY <1>1, <2>1, <2>2
<1>. QED  BY <1>1, <1>2

\* Concatenation keeps all elements, and no repetition comes in when the two
\* sequences have none in common.
LEMMA ConcatAdds ==
  ASSUME NEW S, NEW p \in Seq(S), NEW q \in Seq(S)
  PROVE  /\ p \o q \in Seq(S)
         /\ ToSet(p \o q) = ToSet(p) \union ToSet(q)
         /\ IsInjective(p) /\ IsInjective(q) /\ ToSet(p) \cap ToSet(q) = {}
              => IsInjective(p \o q)
<1> DEFINE r == p \o q
<1>1. /\ r \in Seq(S) /\ Len(r) = Len(p) + Len(q) /\ Len(p) \in Nat /\ Len(q) \in Nat
      /\ \A i \in 1 .. Len(p) + Len(q) : r[i] = IF i <= Len(p) THEN p[i] ELSE q[i - Len(p)]
  BY ConcatProperties
<1>2. /\ DOMAIN r = 1 .. Len(r) /\ DOMAIN p = 1 .. Len(p) /\ DOMAIN q = 1 .. Len(q)
  BY <1>1
<1> HIDE DEF r
<1>3. \A i \in 1 .. Len(r) :
        \/ i \in 1 .. Len(p) /\ r[i] = p[i]
        \/ i - Len(p) \in 1 .. Len(q) /\ i \notin 1 .. Len(p) /\ r[i] = q[i - Len(p)]
  BY <1>1
<1>4. /\ \A i \in 1 .. Len(p) : i \in 1 .. Len(r) /\ r[i] = p[i]
      /\ \A i \in 1 .. Len(q) : i + Len(p) \in 1 .. Len(r) /\ r[i + Len(p)] = q[i]
  <2>1. \A i \in 1 .. Len(q) : i + Len(p) - Len(p) = i /\ ~ (i + Len(p) <= Len(p))
    BY <1>1
  <2>. QED  BY <1>1, <2>1
<1>5. ToSet(r) = ToSet(p) \union ToSet(q)
  <2>1. ToSet(r) \subseteq ToSet(p) \union ToSet(q)
    BY <1>2, <1>3 DEF ToSet
  <2>2. ToSet(p) \union ToSet(q) \subseteq ToSet(r)
    BY <1>2, <1>4 DEF ToSet
  <2>. QED  BY <2>1, <2>2
<1>6. ASSUME IsInjective(p), IsInjective(q), ToSet(p) \cap ToSet(q) = {}
      PROVE  IsInjective(r)
  <2> SUFFICES ASSUME NEW i \in 1 .. Len(r), NEW k \in 1 .. Len(r), r[i] = r[k]
               PROVE  i = k
    BY <1>2 DEF IsInjective
  <2>1. \A x \in 1 .. Len(p), y \in 1 .. Len(q) : p[x] # q[y]
    BY <1>2, <1>6 DEF ToSet
  <2>2. /\ \A x, y \in 1 .. Len(p) : p[x] = p[y] => x = y
        /\ \A x, y \in 1 .. Len(q) : q[x] = q[y] => x = y
    BY <1>2, <1>6 DEF IsInjective
  <2>3. \/ i \in 1 .. Len(p) /\ k \in 1 .. Len(p) /\ p[i] = p[k]
        \/ /\ i - Len(p) \in 1 .. Len(q) /\ k - Len(p) \in 1 .. Len(q)
           /\ q[i - Len(p)] = q[k - Len(p)]
    BY <1>3, <2>1
  <2>4. i \in Int /\ k \in Int /\ Len(p) \in Int
    BY <1>1
  <2>5. i - Len(p) = k - Len(p) => i = k
    BY <2>4
  <2>. QED  BY <2>2, <2>3, <2>5
<1>. QED  BY <1>1, <1>5, <1>6 DEF r

\* A sequence without repetitions is as long as it has elements.
LEMMA InjectiveLength ==
  ASSUME NEW S, NEW q \in Seq(S), IsInjective(q)
  PROVE  IsFiniteSet(ToSet(q)) /\ Cardinality(ToSet(q)) = Len(q)
<1>1. DOMAIN q = 1 .. Len(q) /\ Len(q) \in Nat
  OBVIOUS
<1>2. q \in Bijection(1 .. Len(q), ToSet(q))
  <2>1. q \in [1 .. Len(q) -> ToSet(q)]
    BY <1>1 DEF ToSet
  <2>2. \A i, k \in 1 .. Len(q) : q[i] = q[k] => i = k
    BY <1>1 DEF IsInjective
  <2>3. \A e \in ToSet(q) : \E i \in 1 .. Len(q) : q[i] = e
    BY <1>1 DEF ToSet
  <2>. QED  BY <2>1, <2>2, <2>3, Fun_IsBij
<1>3. ExistsBijection(1 .. Len(q), ToSet(q))
  BY <1>2 DEF ExistsBijection
<1>4. IsFiniteSet(1 .. Len(q)) /\ Cardinality(1 .. Len(q)) = Len(q)
  <2>1. Len(q) \in Nat /\ Len(q) - 1 + 1 = Len(q) /\ (1 > Len(q) => Len(q) = 0)
    BY <1>1
  <2>. QED  BY <2>1, FS_Interval
<1>. QED  BY <1>3, <1>4, FS_Bijection

-----------------------------------------------------------------------------
(* Sums: SumFunctionOnSet of the community modules.                        *)

\* A nonempty set of subsets of a finite set has a smallest one.
LEMMA SmallestSet ==
  ASSUME NEW S, IsFiniteSet(S), NEW B \in SUBSET SUBSET S, B # {}
  PROVE  \E s \in B : \A t \in SUBSET s : t # s => t \notin B
<1> DEFINE Sizes == {Cardinality(s) : s \in B}
<1>1. \A s \in SUBSET S : IsFiniteSet(s) /\ Cardinality(s) \in Nat
  BY FS_Subset, FS_CardinalityType
<1>2. Sizes \in SUBSET Nat /\ Sizes # {}
  BY <1>1
<1> HIDE DEF Sizes
<1>3. Min(Sizes) \in Sizes /\ \A i \in Sizes : Min(Sizes) <= i
  BY <1>2, MinIsLeast
<1>4. PICK s \in B : Min(Sizes) = Cardinality(s)
  BY <1>3 DEF Sizes
<1>5. ASSUME NEW t \in SUBSET s, t # s PROVE t \notin B
  <2>1. IsFiniteSet(s) /\ Cardinality(s) \in Nat /\ t \in SUBSET S
    BY <1>1
  <2>2. Cardinality(t) \in Nat /\ Cardinality(t) < Cardinality(s)
    BY <1>1, <1>5, <2>1, FS_Subset
  <2>3. ASSUME t \in B PROVE FALSE
    <3>1. Cardinality(s) <= Cardinality(t)
      BY <1>3, <1>4, <2>3 DEF Sizes
    <3>. QED  BY <2>1, <2>2, <3>1
  <2>. QED  BY <2>3
<1>. QED  BY <1>5

\* The recursion of MapThenFoldSet for sums, where p chooses from each subset the
\* element to add, and the sum.
Chooses(p, S) == \A s \in SUBSET S : s # {} => p[s] \in s
IsSum(g, f, p, S) ==
  g = [s \in SUBSET S |-> IF s = {} THEN 0 ELSE f[p[s]] + g[s \ {p[s]}]]
AnyOf(S) == [s \in SUBSET S |-> CHOOSE x \in s : TRUE]
Summation(g, f, p, S) ==
  IsFiniteSet(S) /\ (\A x \in S : f[x] \in Int) /\ Chooses(p, S) /\ IsSum(g, f, p, S)

\* What is chosen of a set is in it.
LEMMA AnyIsIn == ASSUME NEW S PROVE Chooses(AnyOf(S), S)
<1>1. \A s : s # {} => (CHOOSE x \in s : TRUE) \in s
  BY Zenon
<1>. QED  BY <1>1 DEF Chooses, AnyOf

\* The recursive function is defined.
LEMMA SumExists ==
  ASSUME NEW S, IsFiniteSet(S), NEW f, \A x \in S : f[x] \in Int,
         NEW p, Chooses(p, S)
  PROVE  \E g : IsSum(g, f, p, S)
<1> DEFINE Upto(n, g) ==
             \A s \in SUBSET S : Cardinality(s) <= n =>
               g[s] = IF s = {} THEN 0 ELSE f[p[s]] + g[s \ {p[s]}]
           Bad == {n \in Nat : ~ \E g \in [SUBSET S -> Int] : Upto(n, g)}
<1>1. \A s \in SUBSET S : IsFiniteSet(s) /\ Cardinality(s) \in Nat
                          /\ Cardinality(s) <= Cardinality(S)
  BY FS_Subset, FS_CardinalityType
<1>2. \A s \in SUBSET S : s # {} => p[s] \in s /\ s \ {p[s]} \in SUBSET S
  BY DEF Chooses
<1>3. Bad = {}
  <2> SUFFICES ASSUME Bad # {} PROVE FALSE
    OBVIOUS
  <2> DEFINE n == Min(Bad)
  <2>1. n \in Bad /\ n \in Nat /\ \A i \in Bad : n <= i
    BY MinIsLeast
  <2>2. CASE n = 0
    <3> DEFINE g == [s \in SUBSET S |-> 0]
    <3>1. g \in [SUBSET S -> Int]
      OBVIOUS
    <3>2. \A s \in SUBSET S : Cardinality(s) <= 0 => s = {}
      BY <1>1, FS_EmptySet
    <3>3. Upto(n, g)
      BY <2>2, <3>2
    <3>. QED  BY <2>1, <3>1, <3>3
  <2>3. CASE n # 0
    <3>1. n - 1 \in Nat /\ n - 1 \notin Bad
      <4> HIDE DEF n, Bad
      <4>. QED  BY <2>1, <2>3
    <3>2. PICK g \in [SUBSET S -> Int] : Upto(n - 1, g)
      BY <3>1
    <3> DEFINE h == [s \in SUBSET S |-> IF s = {} THEN 0 ELSE f[p[s]] + g[s \ {p[s]}]]
    <3>3. h \in [SUBSET S -> Int]
      BY <1>2
    <3>4. ASSUME NEW s \in SUBSET S, Cardinality(s) <= n, s # {}
          PROVE  h[s \ {p[s]}] = g[s \ {p[s]}]
      <4> DEFINE t == s \ {p[s]}
      <4>1. t \in SUBSET S /\ Cardinality(t) = Cardinality(s) - 1
        BY <1>1, <1>2, <3>4, FS_RemoveElement
      <4>2. Cardinality(t) <= n - 1
        BY <1>1, <2>1, <3>4, <4>1
      <4> HIDE DEF t
      <4>3. g[t] = IF t = {} THEN 0 ELSE f[p[t]] + g[t \ {p[t]}]
        BY <3>2, <4>1, <4>2
      <4>4. h[t] = g[t]
        BY <4>1, <4>3
      <4>. QED  BY <4>4 DEF t
    <3>5. Upto(n, h)
      BY <1>2, <3>4
    <3>. QED  BY <2>1, <3>3, <3>5
  <2>. QED  BY <2>2, <2>3
<1>4. Cardinality(S) \in Nat
  BY FS_CardinalityType
<1>5. PICK g \in [SUBSET S -> Int] : Upto(Cardinality(S), g)
  BY <1>3, <1>4
<1>6. g = [s \in SUBSET S |-> IF s = {} THEN 0 ELSE f[p[s]] + g[s \ {p[s]}]]
  BY <1>1, <1>5
<1>. QED  BY <1>6 DEF IsSum

\* It adds up, whatever the order.
LEMMA SumAdds ==
  ASSUME NEW S, NEW f, NEW p, NEW g, Summation(g, f, p, S)
  PROVE  /\ g[{}] = 0
         /\ \A s \in SUBSET S : g[s] \in Int
         /\ \A s \in SUBSET S : \A x \in S \ s : g[s \union {x}] = g[s] + f[x]
<1>0. IsFiniteSet(S) /\ Chooses(p, S) /\ IsSum(g, f, p, S) /\ \A x \in S : f[x] \in Int
  BY DEF Summation
<1>1. \A s \in SUBSET S : g[s] = IF s = {} THEN 0 ELSE f[p[s]] + g[s \ {p[s]}]
  BY <1>0 DEF IsSum
<1>2. \A s \in SUBSET S : s # {} => p[s] \in s /\ s \ {p[s]} \in SUBSET S
  BY <1>0 DEF Chooses
<1>3. \A s \in SUBSET S : g[s] \in Int
  <2> DEFINE B == {s \in SUBSET S : g[s] \notin Int}
  <2> SUFFICES ASSUME B # {} PROVE FALSE
    OBVIOUS
  <2>1. PICK s \in B : \A t \in SUBSET s : t # s => t \notin B
    <3>1. B \in SUBSET SUBSET S
      OBVIOUS
    <3> HIDE DEF B
    <3>. QED  BY <1>0, <3>1, SmallestSet
  <2>2. s \in SUBSET S /\ g[s] \notin Int
    OBVIOUS
  <2>3. g[s] = IF s = {} THEN 0 ELSE f[p[s]] + g[s \ {p[s]}]
    BY <1>1, <2>2
  <2>4. s # {}
    BY <2>2, <2>3
  <2>5. p[s] \in S /\ g[s \ {p[s]}] \in Int
    BY <1>2, <2>1, <2>2, <2>4
  <2>. QED  BY <1>0, <2>2, <2>3, <2>4, <2>5
<1>4. \A s \in SUBSET S : \A x \in S \ s : g[s \union {x}] = g[s] + f[x]
  <2> DEFINE B == {s \in SUBSET S : \E x \in S \ s : g[s \union {x}] # g[s] + f[x]}
  <2> SUFFICES ASSUME B # {} PROVE FALSE
    OBVIOUS
  <2>1. PICK s \in B : \A t \in SUBSET s : t # s => t \notin B
    <3>1. B \in SUBSET SUBSET S
      OBVIOUS
    <3> HIDE DEF B
    <3>. QED  BY <1>0, <3>1, SmallestSet
  <2>2. PICK x \in S \ s : g[s \union {x}] # g[s] + f[x]
    OBVIOUS
  <2> DEFINE u == s \union {x}
             y == p[u]
             r == s \ {y}
  <2>3. u \in SUBSET S /\ u # {} /\ y \in u /\ g[u] = f[y] + g[u \ {y}]
    BY <1>1, <1>2
  <2>4. CASE y = x
    <3>1. u \ {y} = s
      BY <2>4
    <3>2. g[u] = f[x] + g[s]
      BY <2>3, <2>4, <3>1
    <3>. QED  BY <1>0, <1>3, <2>2, <3>2
  <2>5. CASE y # x
    <3> HIDE DEF y
    <3>1. /\ y \in s /\ u \ {y} = r \union {x} /\ s = r \union {y} /\ r \in SUBSET s /\ r # s
          /\ x \in S \ r /\ y \in S \ r
      BY <2>3, <2>5
    <3>2. r \in SUBSET S /\ r \notin B
      BY <2>1, <3>1
    <3>3. g[r \union {x}] = g[r] + f[x] /\ g[r \union {y}] = g[r] + f[y]
      BY <3>1, <3>2
    <3> HIDE DEF r, u
    <3>4. g[u] = f[y] + (g[r] + f[x]) /\ g[s] = g[r] + f[y]
      BY <2>3, <3>1, <3>3
    <3>5. f[y] \in Int /\ f[x] \in Int /\ g[r] \in Int
      BY <1>0, <1>3, <3>1, <3>2
    <3>6. g[u] = g[s] + f[x]
      BY <3>4, <3>5
    <3>. QED  BY <2>2, <3>6 DEF u
  <2>. QED  BY <2>4, <2>5
<1>. QED  BY <1>1, <1>3, <1>4

\* The sum over a set does not depend on the recursion it is computed with.
LEMMA SumIsUnique ==
  ASSUME NEW S, NEW f, NEW p, NEW g, Summation(g, f, p, S),
         NEW T, NEW e, NEW q, NEW h, Summation(h, e, q, T),
         NEW U \in SUBSET (S \cap T), \A x \in U : f[x] = e[x]
  PROVE  g[U] = h[U]
<1> DEFINE B == {s \in SUBSET U : g[s] # h[s]}
<1> SUFFICES ASSUME B # {} PROVE FALSE
  OBVIOUS
<1>1. PICK s \in B : \A t \in SUBSET s : t # s => t \notin B
  <2>1. B \in SUBSET SUBSET U /\ IsFiniteSet(U)
    BY FS_Subset DEF Summation
  <2> HIDE DEF B
  <2>. QED  BY <2>1, SmallestSet
<1>2. s \in SUBSET U /\ g[s] # h[s]
  OBVIOUS
<1>3. g[{}] = 0 /\ h[{}] = 0
  BY SumAdds
<1>4. PICK x : x \in s
  BY <1>2, <1>3
<1> DEFINE r == s \ {x}
<1>5. r \in SUBSET s /\ r # s /\ r \in SUBSET S /\ r \in SUBSET T /\ x \in S \ r /\ x \in T \ r
      /\ x \in U /\ s = r \union {x}
  BY <1>2, <1>4
<1>6. g[r] = h[r] /\ f[x] = e[x]
  BY <1>1, <1>5
<1> HIDE DEF r
<1> HIDE DEF B
<1>7. g[r \union {x}] = g[r] + f[x]
  BY <1>5, SumAdds
<1>8. h[r \union {x}] = h[r] + e[x]
  BY <1>5, SumAdds
<1>. QED  BY <1>2, <1>5, <1>6, <1>7, <1>8

\* Any function defined as that recursion gives the sum that the community module
\* defines.
LEMMA SumIs ==
  ASSUME NEW S, NEW f, NEW p, NEW g, Summation(g, f, p, S)
  PROVE  g[S] = SumFunctionOnSet(f, S)
<1> DEFINE a == AnyOf(S)
           step(k) == [s \in SUBSET S |-> IF s = {} THEN 0
                                         ELSE f[CHOOSE x \in s : TRUE]
                                                + k[s \ {CHOOSE x \in s : TRUE}]]
           h == CHOOSE k : k = step(k)
<1>1. SumFunctionOnSet(f, S) = h[S]
  BY Zenon DEF SumFunctionOnSet, FoldFunctionOnSet, MapThenFoldSet
<1>2. \A k : IsSum(k, f, a, S) <=> k = step(k)
  <2>1. \A s \in SUBSET S : a[s] = CHOOSE x \in s : TRUE
    BY DEF AnyOf
  <2> HIDE DEF a
  <2>2. ASSUME NEW k
        PROVE  IsSum(k, f, a, S) <=> k = step(k)
    <3>1. [s \in SUBSET S |-> IF s = {} THEN 0 ELSE f[a[s]] + k[s \ {a[s]}]] = step(k)
      BY <2>1
    <3>. QED  BY <3>1 DEF IsSum
  <2>. QED  BY <2>2
<1>3. Chooses(a, S)
  BY AnyIsIn
<1> HIDE DEF a, step
<1>4. \E k : IsSum(k, f, a, S)
  BY <1>3, SumExists DEF Summation
<1>5. IsSum(h, f, a, S)
  <2>1. \E k : k = step(k)
    BY <1>2, <1>4
  <2>2. h = step(h)
    BY <2>1, Zenon
  <2>. QED  BY <1>2, <2>2
<1> HIDE DEF h
<1>6. Summation(h, f, a, S)
  BY <1>3, <1>5 DEF Summation
<1>7. g[S] = h[S]
  BY <1>6, SumIsUnique
<1>. QED  BY <1>1, <1>7

\* There is such a function.
LEMMA SumRecursionExists ==
  ASSUME NEW S, IsFiniteSet(S), NEW f, \A x \in S : f[x] \in Int
  PROVE  \E p, g : Summation(g, f, p, S)
<1>1. Chooses(AnyOf(S), S)
  BY AnyIsIn
<1>2. \E g : IsSum(g, f, AnyOf(S), S)
  BY <1>1, SumExists
<1>. QED  BY <1>1, <1>2 DEF Summation

\* The sum over the empty set, and over one element more.
LEMMA SumRules ==
  ASSUME NEW S, IsFiniteSet(S), NEW f, \A x \in S : f[x] \in Int
  PROVE  /\ SumFunctionOnSet(f, {}) = 0 /\ SumFunctionOnSet(f, S) \in Int
         /\ \A x : x \notin S /\ f[x] \in Int =>
               SumFunctionOnSet(f, S \union {x}) = SumFunctionOnSet(f, S) + f[x]
<1>1. SumFunctionOnSet(f, {}) = 0
  <2>1. PICK p, g : Summation(g, f, p, {})
    BY SumRecursionExists, FS_EmptySet
  <2>2. g[{}] = 0
    BY <2>1, SumAdds
  <2>3. g[{}] = SumFunctionOnSet(f, {})
    BY <2>1, SumIs, FS_EmptySet
  <2>. QED  BY <2>2, <2>3
<1>2. SumFunctionOnSet(f, S) \in Int
  <2>1. PICK p, g : Summation(g, f, p, S)
    BY SumRecursionExists
  <2>. QED  BY <2>1, SumIs, SumAdds
<1>3. ASSUME NEW x, x \notin S, f[x] \in Int
      PROVE  SumFunctionOnSet(f, S \union {x}) = SumFunctionOnSet(f, S) + f[x]
  <2> DEFINE T == S \union {x}
  <2>1. IsFiniteSet(T) /\ \A y \in T : f[y] \in Int
    BY <1>3, FS_AddElement
  <2>2. PICK p, g : Summation(g, f, p, T)
    BY <2>1, SumRecursionExists
  <2>3. PICK q, h : Summation(h, f, q, S)
    BY SumRecursionExists
  <2>4. S \in SUBSET T /\ S \in SUBSET (S \cap T) /\ x \in T \ S
    BY <1>3
  <2>5. g[S] = h[S]
    <3>1. S \in SUBSET (T \cap S)
      OBVIOUS
    <3> HIDE DEF T
    <3>. QED  BY <2>1, <2>2, <2>3, <3>1, SumIsUnique
  <2> HIDE DEF T
  <2>6. g[S \union {x}] = g[S] + f[x]
    BY <2>1, <2>2, <2>4, SumAdds
  <2>7. g[T] = SumFunctionOnSet(f, T) /\ h[S] = SumFunctionOnSet(f, S)
    BY <2>1, <2>2, <2>3, SumIs
  <2>. QED  BY <2>5, <2>6, <2>7 DEF T
<1>. QED  BY <1>1, <1>2, <1>3

\* A sum over disjoint sets.
LEMMA SumUnion ==
  ASSUME NEW A, IsFiniteSet(A), NEW B, IsFiniteSet(B), A \cap B = {},
         NEW f, \A x \in A \union B : f[x] \in Int
  PROVE  SumFunctionOnSet(f, A \union B) = SumFunctionOnSet(f, A) + SumFunctionOnSet(f, B)
<1> DEFINE Bad == {s \in SUBSET B : SumFunctionOnSet(f, A \union s)
                                       # SumFunctionOnSet(f, A) + SumFunctionOnSet(f, s)}
<1>1. Bad = {}
  <2> SUFFICES ASSUME Bad # {} PROVE FALSE
    OBVIOUS
  <2>1. PICK s \in Bad : \A t \in SUBSET s : t # s => t \notin Bad
    <3>1. Bad \in SUBSET SUBSET B
      OBVIOUS
    <3> HIDE DEF Bad
    <3>. QED  BY <3>1, SmallestSet
  <2>2. /\ s \in SUBSET B
        /\ SumFunctionOnSet(f, A \union s) # SumFunctionOnSet(f, A) + SumFunctionOnSet(f, s)
    OBVIOUS
  <2>3. SumFunctionOnSet(f, A) \in Int /\ SumFunctionOnSet(f, {}) = 0
    BY SumRules
  <2>4. CASE s = {}
    <3>1. A \union s = A
      BY <2>4
    <3>. QED  BY <2>2, <2>3, <2>4, <3>1
  <2>5. CASE s # {}
    <3>1. PICK x : x \in s
      BY <2>5
    <3> DEFINE t == s \ {x}
               u == A \union t
    <3>2. t \in SUBSET s /\ t # s /\ t \in SUBSET B /\ x \notin u /\ x \notin t /\ x \in B
          /\ s = t \union {x} /\ A \union s = u \union {x}
      BY <2>2, <3>1
    <3>3. SumFunctionOnSet(f, u) = SumFunctionOnSet(f, A) + SumFunctionOnSet(f, t)
      BY <2>1, <3>2
    <3>4. IsFiniteSet(t) /\ IsFiniteSet(u)
      BY <3>2, FS_Subset, FS_Union
    <3>5. (\A y \in t : f[y] \in Int) /\ (\A y \in u : f[y] \in Int) /\ f[x] \in Int
      BY <3>2
    <3> HIDE DEF t, u
    <3>6. /\ SumFunctionOnSet(f, t) \in Int
          /\ SumFunctionOnSet(f, t \union {x}) = SumFunctionOnSet(f, t) + f[x]
          /\ SumFunctionOnSet(f, u \union {x}) = SumFunctionOnSet(f, u) + f[x]
      BY <3>2, <3>4, <3>5, SumRules
    <3>7. /\ SumFunctionOnSet(f, A \union s)
               = (SumFunctionOnSet(f, A) + SumFunctionOnSet(f, t)) + f[x]
          /\ SumFunctionOnSet(f, s) = SumFunctionOnSet(f, t) + f[x]
      BY <3>2, <3>3, <3>6
    <3>8. SumFunctionOnSet(f, A \union s) = SumFunctionOnSet(f, A) + SumFunctionOnSet(f, s)
      BY <2>3, <3>5, <3>6, <3>7
    <3>. QED  BY <2>2, <3>8
  <2>. QED  BY <2>4, <2>5
<1>. QED  BY <1>1

\* Sums over one set are added by the summand, and a sum of zeros is zero.
LEMMA SumPlus ==
  ASSUME NEW S, IsFiniteSet(S), NEW f, \A x \in S : f[x] \in Int,
         NEW e, \A x \in S : e[x] \in Int, NEW c, \A x \in S : c[x] = f[x] + e[x]
  PROVE  SumFunctionOnSet(c, S) = SumFunctionOnSet(f, S) + SumFunctionOnSet(e, S)
<1> DEFINE Bad == {s \in SUBSET S : SumFunctionOnSet(c, s)
                                       # SumFunctionOnSet(f, s) + SumFunctionOnSet(e, s)}
<1>0. \A x \in S : c[x] \in Int
  OBVIOUS
<1>1. Bad = {}
  <2> SUFFICES ASSUME Bad # {} PROVE FALSE
    OBVIOUS
  <2>1. PICK s \in Bad : \A t \in SUBSET s : t # s => t \notin Bad
    <3>1. Bad \in SUBSET SUBSET S
      OBVIOUS
    <3> HIDE DEF Bad
    <3>. QED  BY <3>1, SmallestSet
  <2>2. s \in SUBSET S /\ SumFunctionOnSet(c, s) # SumFunctionOnSet(f, s) + SumFunctionOnSet(e, s)
    OBVIOUS
  <2>3. SumFunctionOnSet(f, {}) = 0 /\ SumFunctionOnSet(e, {}) = 0 /\ SumFunctionOnSet(c, {}) = 0
    BY <1>0, SumRules
  <2>4. s # {}
    <3>1. SumFunctionOnSet(c, {}) = SumFunctionOnSet(f, {}) + SumFunctionOnSet(e, {})
      BY <2>3
    <3>. QED  BY <2>2, <3>1
  <2>5. PICK x : x \in s
    BY <2>4
  <2> DEFINE t == s \ {x}
  <2>6. t \in SUBSET s /\ t # s /\ t \in SUBSET S /\ x \notin t /\ x \in S /\ s = t \union {x}
    BY <2>2, <2>5
  <2>7. SumFunctionOnSet(c, t) = SumFunctionOnSet(f, t) + SumFunctionOnSet(e, t)
    BY <2>1, <2>6
  <2>8. IsFiniteSet(t) /\ (\A y \in t : f[y] \in Int /\ e[y] \in Int /\ c[y] \in Int)
        /\ f[x] \in Int /\ e[x] \in Int /\ c[x] \in Int /\ c[x] = f[x] + e[x]
    BY <1>0, <2>6, FS_Subset
  <2> HIDE DEF t
  <2>9. /\ SumFunctionOnSet(f, t) \in Int /\ SumFunctionOnSet(e, t) \in Int
        /\ SumFunctionOnSet(c, s) = SumFunctionOnSet(c, t) + c[x]
        /\ SumFunctionOnSet(f, s) = SumFunctionOnSet(f, t) + f[x]
        /\ SumFunctionOnSet(e, s) = SumFunctionOnSet(e, t) + e[x]
    BY <2>6, <2>8, SumRules
  <2>. QED  BY <2>2, <2>7, <2>8, <2>9
<1>. QED  BY <1>1

\* The rows and the columns of a table have the same sum.
LEMMA SumSwap ==
  ASSUME NEW C, IsFiniteSet(C), NEW T, IsFiniteSet(T),
         NEW m, \A c \in C : \A t \in T : m[c][t] \in Int
  PROVE  SumFunctionOnSet([c \in C |-> SumFunctionOnSet(m[c], T)], C)
           = SumFunctionOnSet([t \in T |-> SumFunctionOnSet([c \in C |-> m[c][t]], C)], T)
<1> DEFINE row == [c \in C |-> SumFunctionOnSet(m[c], T)]
           col(t) == [c \in C |-> m[c][t]]
           cols(D) == [t \in T |-> SumFunctionOnSet(col(t), D)]
           Bad == {D \in SUBSET C : SumFunctionOnSet(row, D) # SumFunctionOnSet(cols(D), T)}
<1>1. \A t \in T : \A c \in C : col(t)[c] = m[c][t] /\ col(t)[c] \in Int
  OBVIOUS
<1>2. \A c \in C : row[c] = SumFunctionOnSet(m[c], T) /\ row[c] \in Int
  BY SumRules
<1> HIDE DEF row, col
<1>3. ASSUME NEW D \in SUBSET C
      PROVE  /\ IsFiniteSet(D)
             /\ \A t \in T : cols(D)[t] = SumFunctionOnSet(col(t), D) /\ cols(D)[t] \in Int
  <2>1. IsFiniteSet(D)
    BY FS_Subset
  <2>2. ASSUME NEW t \in T PROVE SumFunctionOnSet(col(t), D) \in Int
    <3>1. \A c \in D : col(t)[c] \in Int
      BY <1>1
    <3>. QED  BY <2>1, <3>1, SumRules
  <2>. QED  BY <2>1, <2>2
<1> HIDE DEF cols
<1>4. Bad = {}
  <2> SUFFICES ASSUME Bad # {} PROVE FALSE
    OBVIOUS
  <2>1. PICK D \in Bad : \A E \in SUBSET D : E # D => E \notin Bad
    <3>1. Bad \in SUBSET SUBSET C
      OBVIOUS
    <3> HIDE DEF Bad
    <3>. QED  BY <3>1, SmallestSet
  <2>2. D \in SUBSET C /\ SumFunctionOnSet(row, D) # SumFunctionOnSet(cols(D), T)
    OBVIOUS
  <2>3. CASE D = {}
    <3>1. \A t \in T : cols({})[t] = 0
      <4>1. \A t \in T : SumFunctionOnSet(col(t), {}) = 0
        BY SumRules, FS_EmptySet
      <4>. QED  BY <1>3, <4>1
    <3>2. \A t \in T : cols({})[t] \in Int /\ cols({})[t] = cols({})[t] + cols({})[t]
      BY <3>1
    <3>3. SumFunctionOnSet(cols({}), T)
            = SumFunctionOnSet(cols({}), T) + SumFunctionOnSet(cols({}), T)
      BY <3>2, SumPlus
    <3>4. SumFunctionOnSet(cols({}), T) \in Int /\ SumFunctionOnSet(row, {}) = 0
      BY <3>2, SumRules, FS_EmptySet
    <3>5. SumFunctionOnSet(row, {}) = SumFunctionOnSet(cols({}), T)
      <4>1. \A y \in Int : y = y + y => y = 0
        OBVIOUS
      <4>. QED  BY <3>3, <3>4, <4>1, Zenon
    <3>. QED  BY <2>2, <2>3, <3>5
  <2>4. CASE D # {}
    <3>1. PICK x : x \in D
      BY <2>4
    <3> DEFINE E == D \ {x}
    <3>2. E \in SUBSET D /\ E # D /\ E \in SUBSET C /\ x \notin E /\ x \in C /\ D = E \union {x}
      BY <2>2, <3>1
    <3>3. SumFunctionOnSet(row, E) = SumFunctionOnSet(cols(E), T)
      BY <2>1, <3>2
    <3> HIDE DEF E
    <3>4. \A t \in T : cols(D)[t] = cols(E)[t] + m[x][t]
      <4>1. ASSUME NEW t \in T
            PROVE  SumFunctionOnSet(col(t), D) = SumFunctionOnSet(col(t), E) + m[x][t]
        <5>1. (\A c \in E : col(t)[c] \in Int) /\ col(t)[x] \in Int /\ col(t)[x] = m[x][t]
          BY <1>1, <3>2
        <5>2. IsFiniteSet(E)
          BY <1>3, <3>2
        <5> DEFINE k == col(t)
        <5> HIDE DEF k
        <5>3. SumFunctionOnSet(k, E \union {x}) = SumFunctionOnSet(k, E) + k[x]
          BY <3>2, <5>1, <5>2, SumRules DEF k
        <5>. QED  BY <3>2, <5>1, <5>3 DEF k
      <4>. QED  BY <1>3, <2>2, <3>2, <4>1
    <3>5. SumFunctionOnSet(cols(D), T) = SumFunctionOnSet(cols(E), T) + SumFunctionOnSet(m[x], T)
      <4>1. \A t \in T : cols(E)[t] \in Int /\ m[x][t] \in Int
        BY <1>3, <3>2
      <4>. QED  BY <3>4, <4>1, SumPlus
    <3>6. SumFunctionOnSet(row, D) = SumFunctionOnSet(row, E) + row[x]
      <4>1. IsFiniteSet(E) /\ (\A c \in E : row[c] \in Int) /\ row[x] \in Int
        BY <1>2, <1>3, <3>2
      <4>. QED  BY <3>2, <4>1, SumRules
    <3>. QED  BY <1>2, <2>2, <3>2, <3>3, <3>5, <3>6
  <2>. QED  BY <2>3, <2>4
<1>5. SumFunctionOnSet(row, C) = SumFunctionOnSet(cols(C), T)
  BY <1>4
<1>. QED  BY <1>5 DEF row, cols, col

\* A sum may be taken by keys: the sums over the elements of each key add up to it.
LEMMA SumByKey ==
  ASSUME NEW S, IsFiniteSet(S), NEW f, \A x \in S : f[x] \in Int, NEW key
  PROVE  SumFunctionOnSet(f, S)
           = SumFunctionOnSet([k \in {key[x] : x \in S} |->
                                 SumFunctionOnSet(f, {x \in S : key[x] = k})],
                              {key[x] : x \in S})
<1> DEFINE K == {key[x] : x \in S}
           Of(k) == {x \in S : key[x] = k}
           In(D) == {x \in S : key[x] \in D}
           g == [k \in K |-> SumFunctionOnSet(f, Of(k))]
           Bad == {D \in SUBSET K : SumFunctionOnSet(f, In(D)) # SumFunctionOnSet(g, D)}
<1>1. IsFiniteSet(K)
  <2>1. [x \in S |-> key[x]] \in Surjection(S, K)
    BY DEF Surjection
  <2> HIDE DEF K
  <2>. QED  BY <2>1, FS_Surjection
<1>2. \A k \in K : IsFiniteSet(Of(k)) /\ Of(k) \in SUBSET S
  BY FS_Subset
<1>3. \A D \in SUBSET K : IsFiniteSet(In(D)) /\ In(D) \in SUBSET S
  BY FS_Subset
<1>4. \A k \in K : g[k] = SumFunctionOnSet(f, Of(k)) /\ g[k] \in Int
  <2>1. ASSUME NEW k \in K PROVE SumFunctionOnSet(f, Of(k)) \in Int
    <3>1. IsFiniteSet(Of(k)) /\ \A x \in Of(k) : f[x] \in Int
      BY <1>2
    <3> HIDE DEF Of
    <3>. QED  BY <3>1, SumRules
  <2>. QED  BY <2>1
<1>5. Bad = {}
  <2> SUFFICES ASSUME Bad # {} PROVE FALSE
    OBVIOUS
  <2>1. PICK D \in Bad : \A E \in SUBSET D : E # D => E \notin Bad
    <3>1. Bad \in SUBSET SUBSET K
      OBVIOUS
    <3> HIDE DEF Bad, K
    <3>. QED  BY <1>1, <3>1, SmallestSet
  <2>2. D \in SUBSET K /\ SumFunctionOnSet(f, In(D)) # SumFunctionOnSet(g, D)
    OBVIOUS
  <2>3. D # {}
    <3>1. SumFunctionOnSet(f, {}) = 0 /\ SumFunctionOnSet(g, {}) = 0
      BY SumRules, FS_EmptySet
    <3>2. In({}) = {}
      OBVIOUS
    <3>. QED  BY <2>2, <3>1, <3>2
  <2>4. PICK k : k \in D
    BY <2>3
  <2> DEFINE E == D \ {k}
  <2>5. E \in SUBSET D /\ E # D /\ E \in SUBSET K /\ k \notin E /\ k \in K /\ D = E \union {k}
    BY <2>2, <2>4
  <2>6. SumFunctionOnSet(f, In(E)) = SumFunctionOnSet(g, E)
    BY <2>1, <2>5
  <2> HIDE DEF E, K, g, Bad
  <2>7. In(D) = In(E) \union Of(k) /\ In(E) \cap Of(k) = {}
    BY <2>5
  <2>8. (\A x \in In(E) \union Of(k) : f[x] \in Int) /\ IsFiniteSet(In(E)) /\ IsFiniteSet(Of(k))
    BY <1>2, <1>3, <2>5
  <2> HIDE DEF In, Of
  <2>9. SumFunctionOnSet(f, In(D)) = SumFunctionOnSet(f, In(E)) + SumFunctionOnSet(f, Of(k))
    BY <2>7, <2>8, SumUnion
  <2>10. IsFiniteSet(E) /\ (\A x \in E : g[x] \in Int) /\ g[k] \in Int
    BY <1>1, <1>4, <2>5, FS_Subset
  <2>11. SumFunctionOnSet(g, D) = SumFunctionOnSet(g, E) + g[k]
    BY <2>5, <2>10, SumRules
  <2>. QED  BY <1>4, <2>2, <2>5, <2>6, <2>9, <2>11
<1>6. SumFunctionOnSet(f, In(K)) = SumFunctionOnSet(g, K)
  BY <1>5
<1>7. In(K) = S
  OBVIOUS
<1>. QED  BY <1>6, <1>7

-----------------------------------------------------------------------------
(* Induction without an operator parameter: by the least counterexample.    *)

\* A set with 0 and with the successor of each of its naturals has all of them.
LEMMA CountingUp ==
  ASSUME NEW S, 0 \in S, \A n \in Nat : n \in S => n + 1 \in S
  PROVE  Nat \subseteq S
<1> DEFINE Bad == Nat \ S
<1> SUFFICES ASSUME Bad # {} PROVE FALSE
  OBVIOUS
<1>1. Min(Bad) \in Bad /\ \A i \in Bad : Min(Bad) <= i
  BY MinIsLeast
<1> DEFINE n == Min(Bad)
<1>2. n \in Nat /\ n \notin S /\ \A i \in Nat \ S : n <= i
  BY <1>1
<1> HIDE DEF n, Bad
<1>. QED  BY <1>2

\* A recursive function that counts up to N and stays in V exists.
Iterable(base, next, N, V) == base \in V /\ N \in Nat /\ next \in [V \X (1 .. N) -> V]
Iterates(f, base, next, N, V) ==
  /\ f \in [0 .. N -> V]
  /\ \A n \in 0 .. N : f[n] = IF n = 0 THEN base ELSE next[<<f[n - 1], n>>]

LEMMA IteratesExist ==
  ASSUME NEW V, NEW base, NEW next, NEW N, Iterable(base, next, N, V)
  PROVE  \E f : Iterates(f, base, next, N, V)
<1>0. base \in V /\ N \in Nat /\ next \in [V \X (1 .. N) -> V]
  BY DEF Iterable
<1> DEFINE Right(f, n) == f[n] = IF n = 0 THEN base ELSE next[<<f[n - 1], n>>]
           Built(m) == {f \in [0 .. N -> V] : \A n \in 0 .. N : n <= m => Right(f, n)}
           Good == {m \in Nat : Built(m) # {}}
<1>1. 0 \in Good
  <2> DEFINE f == [n \in 0 .. N |-> base]
  <2>1. f \in [0 .. N -> V] /\ \A n \in 0 .. N : n <= 0 => Right(f, n)
    BY <1>0
  <2>. QED  BY <2>1
<1>2. ASSUME NEW m \in Nat, m \in Good PROVE m + 1 \in Good
  <2>1. PICK f \in [0 .. N -> V] : \A n \in 0 .. N : n <= m => Right(f, n)
    BY <1>2
  <2> DEFINE last == next[<<f[m], m + 1>>]
             h == [n \in 0 .. N |-> IF n = m + 1 THEN last ELSE f[n]]
  <2>2. m + 1 \in 0 .. N => last \in V
    BY <1>0
  <2>3. h \in [0 .. N -> V]
    <3> HIDE DEF last
    <3>. QED  BY <2>2
  <2>4. ASSUME NEW n \in 0 .. N, n <= m + 1 PROVE Right(h, n)
    <3>1. CASE n <= m
      <4>1. h[n] = f[n] /\ (n # 0 => h[n - 1] = f[n - 1])
        <5> HIDE DEF last
        <5>. QED  BY <1>0, <3>1
      <4>2. Right(f, n)
        BY <2>1, <3>1
      <4> HIDE DEF h
      <4>. QED  BY <4>1, <4>2
    <3>2. CASE n = m + 1
      <4>1. h[n] = last /\ h[n - 1] = f[n - 1] /\ n - 1 = m /\ n # 0
        <5> HIDE DEF last
        <5>. QED  BY <1>0, <3>2
      <4> HIDE DEF h
      <4>. QED  BY <3>2, <4>1
    <3>. QED  BY <1>0, <2>4, <3>1, <3>2
  <2> HIDE DEF h, Right
  <2>5. \A n \in 0 .. N : n <= m + 1 => Right(h, n)
    BY <2>4
  <2>6. Built(m + 1) # {}
    BY <2>3, <2>5
  <2> HIDE DEF Built
  <2>. QED  BY <2>6
<1> HIDE DEF Good
<1>3. Nat \subseteq Good
  BY <1>1, <1>2, CountingUp
<1>4. N \in Good
  BY <1>0, <1>3
<1>. QED  BY <1>0, <1>4 DEF Good, Iterates

-----------------------------------------------------------------------------
(* FlattenSeq of the community modules, prefix by prefix: g[i] is what the *)
(* first i of the sequences of t flatten to.                               *)

Flattening(g, t, S) ==
  /\ t \in Seq(Seq(S)) /\ g[0] = <<>>
  /\ \A i \in 1 .. Len(t) : g[i] = g[i - 1] \o t[i]
  /\ \A i \in 0 .. Len(t) : g[i] \in Seq(S)

\* The prefixes of what a sequence of sequences flattens to.
LEMMA FlattensStepwise ==
  ASSUME NEW S, NEW t \in Seq(Seq(S))
  PROVE  \E g : Flattening(g, t, S) /\ g[Len(t)] = FlattenSeq(t)
<1> DEFINE Built(n) ==
             {g \in [1 .. Len(t) -> Seq(S)] :
                \A i \in 1 .. Len(t) : i <= n => g[i] = IF i = 1 THEN t[i] ELSE g[i - 1] \o t[i]}
           Good == {n \in Nat : Built(n) # {}}
<1>0. Len(t) \in Nat /\ \A i \in 1 .. Len(t) : t[i] \in Seq(S)
  OBVIOUS
<1>1. Nat \subseteq Good
  <2>1. 0 \in Good
    <3>1. t \in Built(0)
      BY <1>0
    <3>. QED  BY <3>1
  <2>2. ASSUME NEW n \in Nat, n \in Good PROVE n + 1 \in Good
    <3>1. PICK g \in [1 .. Len(t) -> Seq(S)] :
                 \A i \in 1 .. Len(t) : i <= n => g[i] = IF i = 1 THEN t[i] ELSE g[i - 1] \o t[i]
      BY <2>2
    <3> DEFINE last == IF n = 0 THEN t[n + 1] ELSE g[n] \o t[n + 1]
               h == [i \in 1 .. Len(t) |-> IF i = n + 1 THEN last ELSE g[i]]
    <3>2. n + 1 \in 1 .. Len(t) => last \in Seq(S)
      <4> SUFFICES ASSUME n + 1 \in 1 .. Len(t) PROVE last \in Seq(S)
        OBVIOUS
      <4>1. t[n + 1] \in Seq(S)
        BY <1>0
      <4>2. CASE n = 0
        BY <4>1, <4>2
      <4>3. CASE n # 0
        <5>1. n \in 1 .. Len(t)
          BY <4>3
        <5>2. g[n] \in Seq(S)
          BY <5>1
        <5>. QED  BY <4>1, <4>3, <5>2
      <4>. QED  BY <4>2, <4>3
    <3>3. h \in [1 .. Len(t) -> Seq(S)]
      <4> HIDE DEF last
      <4>. QED  BY <3>2
    <3>4. ASSUME NEW i \in 1 .. Len(t), i <= n + 1
          PROVE  h[i] = IF i = 1 THEN t[i] ELSE h[i - 1] \o t[i]
      <4>1. CASE i <= n
        <5>1. h[i] = g[i] /\ (i # 1 => h[i - 1] = g[i - 1])
          <6> HIDE DEF last
          <6>. QED  BY <1>0, <4>1
        <5>2. g[i] = IF i = 1 THEN t[i] ELSE g[i - 1] \o t[i]
          BY <3>1, <4>1
        <5> HIDE DEF h
        <5>. QED  BY <5>1, <5>2
      <4>2. CASE i = n + 1
        <5>1. h[i] = last /\ (i # 1 => h[i - 1] = g[i - 1])
          <6> HIDE DEF last
          <6>. QED  BY <1>0, <4>2
        <5>2. i - 1 = n /\ (i = 1 <=> n = 0)
          BY <4>2
        <5> HIDE DEF h
        <5>. QED  BY <4>2, <5>1, <5>2
      <4>3. i <= n \/ i = n + 1
        BY <1>0, <3>4
      <4>. QED  BY <4>1, <4>2, <4>3
    <3> HIDE DEF h
    <3>5. \A i \in 1 .. Len(t) :
            i <= n + 1 => h[i] = IF i = 1 THEN t[i] ELSE h[i - 1] \o t[i]
      BY <3>4
    <3>6. Built(n + 1) # {}
      BY <3>3, <3>5
    <3> HIDE DEF Built
    <3>. QED  BY <3>6
  <2> HIDE DEF Good
  <2>. QED  BY <2>1, <2>2, CountingUp
<1>2. PICK f \in [1 .. Len(t) -> Seq(S)] :
             \A i \in 1 .. Len(t) : f[i] = IF i = 1 THEN t[i] ELSE f[i - 1] \o t[i]
  <2>1. Len(t) \in Good
    BY <1>0, <1>1
  <2>. QED  BY <1>0, <2>1
<1> DEFINE step(k) == [i \in 1 .. Len(t) |-> IF i = 1 THEN t[i] ELSE k[i - 1] \o t[i]]
           flat == CHOOSE k : k = step(k)
<1>3. f = step(f)
  BY <1>2
<1>4. flat = step(flat)
  <2> HIDE DEF step
  <2>. QED  BY <1>3, Zenon
<1>5. Len(t) # 0 => FlattenSeq(t) = flat[Len(t)]
  BY DEF FlattenSeq
<1> DEFINE g == [i \in 0 .. Len(t) |-> IF i = 0 THEN <<>> ELSE flat[i]]
<1>6. \A i \in 1 .. Len(t) : flat[i] = IF i = 1 THEN t[i] ELSE flat[i - 1] \o t[i]
  <2> HIDE DEF flat
  <2>. QED  BY <1>4
<1> HIDE DEF flat
<1>7. \A i \in 1 .. Len(t) : g[i] = g[i - 1] \o t[i]
  <2> SUFFICES ASSUME NEW i \in 1 .. Len(t) PROVE g[i] = g[i - 1] \o t[i]
    OBVIOUS
  <2>1. CASE i = 1
    <3>1. <<>> \o t[1] = t[1]
      BY <1>0, <2>1, ConcatEmptySeq
    <3>. QED  BY <1>0, <1>6, <2>1, <3>1
  <2>2. CASE i # 1
    <3>1. i - 1 \in 1 .. Len(t)
      BY <1>0, <2>2
    <3>2. g[i - 1] = flat[i - 1] /\ g[i] = flat[i]
      BY <1>0, <3>1
    <3> HIDE DEF g
    <3>. QED  BY <1>6, <2>2, <3>2
  <2>. QED  BY <2>1, <2>2
<1>8. \A i \in 0 .. Len(t) : g[i] \in Seq(S)
  <2> DEFINE Typed == {n \in Nat : n <= Len(t) => g[n] \in Seq(S)}
  <2>1. 0 \in Typed
    <3>1. g[0] = <<>>
      BY <1>0
    <3>. QED  BY <3>1
  <2>2. ASSUME NEW n \in Nat, n \in Typed PROVE n + 1 \in Typed
    <3> SUFFICES ASSUME n + 1 <= Len(t) PROVE g[n + 1] \in Seq(S)
      OBVIOUS
    <3>1. n + 1 \in 1 .. Len(t) /\ n <= Len(t) /\ (n + 1) - 1 = n
      BY <1>0
    <3>2. g[n] \in Seq(S) /\ t[n + 1] \in Seq(S)
      BY <1>0, <2>2, <3>1
    <3> HIDE DEF g
    <3>3. g[n + 1] = g[n] \o t[n + 1]
      BY <1>7, <3>1
    <3>. QED  BY <3>2, <3>3
  <2> HIDE DEF Typed
  <2>3. Nat \subseteq Typed
    BY <2>1, <2>2, CountingUp
  <2> SUFFICES ASSUME NEW i \in 0 .. Len(t) PROVE g[i] \in Seq(S)
    OBVIOUS
  <2>4. i \in Typed /\ i <= Len(t)
    BY <1>0, <2>3
  <2> HIDE DEF g
  <2>. QED  BY <2>4 DEF Typed
<1>9. g[Len(t)] = FlattenSeq(t)
  <2>1. CASE Len(t) = 0
    BY <2>1 DEF FlattenSeq
  <2>2. CASE Len(t) # 0
    BY <1>0, <1>5, <2>2
  <2>. QED  BY <2>1, <2>2
<1>10. g[0] = <<>>
  BY <1>0
<1>. QED  BY <1>7, <1>8, <1>9, <1>10 DEF Flattening

\* Two sequences with a common prefix flatten alike that far.
LEMMA FlatteningsAgree ==
  ASSUME NEW S, NEW t, NEW u, NEW g, NEW h, Flattening(g, t, S), Flattening(h, u, S),
         NEW n \in Nat, n <= Len(t), n <= Len(u), \A i \in 1 .. n : t[i] = u[i]
  PROVE  g[n] = h[n]
<1> DEFINE Same == {k \in Nat : k <= n => g[k] = h[k]}
<1>1. Len(t) \in Nat /\ Len(u) \in Nat
  BY DEF Flattening
<1>2. 0 \in Same
  BY DEF Flattening
<1>3. ASSUME NEW k \in Nat, k \in Same PROVE k + 1 \in Same
  <2> SUFFICES ASSUME k + 1 <= n PROVE g[k + 1] = h[k + 1]
    OBVIOUS
  <2>1. /\ k + 1 \in 1 .. Len(t) /\ k + 1 \in 1 .. Len(u) /\ k + 1 \in 1 .. n
        /\ (k + 1) - 1 = k /\ k <= n
    BY <1>1
  <2>2. g[k + 1] = g[k] \o t[k + 1] /\ h[k + 1] = h[k] \o u[k + 1]
    BY <2>1 DEF Flattening
  <2>. QED  BY <1>3, <2>1, <2>2
<1> HIDE DEF Same
<1>4. Nat \subseteq Same
  BY <1>2, <1>3, CountingUp
<1>5. n \in Same
  BY <1>4
<1>. QED  BY <1>5 DEF Same

\* Flattening is a homomorphism.
LEMMA FlattenConcat ==
  ASSUME NEW S, NEW t \in Seq(Seq(S)), NEW u \in Seq(Seq(S))
  PROVE  /\ FlattenSeq(t) \in Seq(S)
         /\ FlattenSeq(t \o u) = FlattenSeq(t) \o FlattenSeq(u)
<1> DEFINE w == t \o u
<1>1. /\ w \in Seq(Seq(S)) /\ Len(w) = Len(t) + Len(u) /\ Len(t) \in Nat /\ Len(u) \in Nat
      /\ \A i \in 1 .. Len(t) : w[i] = t[i]
      /\ \A i \in 1 .. Len(u) : w[Len(t) + i] = u[i]
  OBVIOUS
<1> HIDE DEF w
<1>2. PICK g : Flattening(g, t, S) /\ g[Len(t)] = FlattenSeq(t)
  BY FlattensStepwise
<1>3. PICK h : Flattening(h, u, S) /\ h[Len(u)] = FlattenSeq(u)
  BY FlattensStepwise
<1>4. PICK f : Flattening(f, w, S) /\ f[Len(w)] = FlattenSeq(w)
  BY <1>1, FlattensStepwise
<1>5. FlattenSeq(t) \in Seq(S) /\ FlattenSeq(u) \in Seq(S)
  BY <1>1, <1>2, <1>3 DEF Flattening
<1> DEFINE at == [k \in Nat |-> f[Len(t) + k]]
           both == [k \in Nat |-> g[Len(t)] \o h[k]]
           Split == {k \in Nat : k <= Len(u) => at[k] = both[k]}
<1>6. 0 \in Split
  <2>1. g[Len(t)] = f[Len(t)]
    <3> DEFINE n == Len(t)
    <3>1. n \in Nat /\ n <= Len(t) /\ n <= Len(w)
      BY <1>1
    <3>2. \A i \in 1 .. n : t[i] = w[i]
      BY <1>1
    <3> HIDE DEF n
    <3>3. g[n] = f[n]
      BY <1>2, <1>4, <3>1, <3>2, FlatteningsAgree
    <3>. QED  BY <3>3 DEF n
  <2>2. h[0] = <<>> /\ g[Len(t)] \o <<>> = g[Len(t)]
    BY <1>2, <1>3, <1>5, ConcatEmptySeq DEF Flattening
  <2>3. at[0] = f[Len(t)]
    BY <1>1
  <2>4. both[0] = g[Len(t)] \o h[0]
    OBVIOUS
  <2> HIDE DEF at, both
  <2>. QED  BY <2>1, <2>2, <2>3, <2>4
<1>7. ASSUME NEW k \in Nat, k \in Split PROVE k + 1 \in Split
  <2> HIDE DEF at, both
  <2> SUFFICES ASSUME k + 1 <= Len(u) PROVE at[k + 1] = both[k + 1]
    OBVIOUS
  <2>1. /\ k + 1 \in 1 .. Len(u) /\ Len(t) + (k + 1) \in 1 .. Len(w) /\ k <= Len(u)
        /\ (k + 1) - 1 = k /\ (Len(t) + (k + 1)) - 1 = Len(t) + k /\ k \in 0 .. Len(u)
    BY <1>1
  <2>2. h[k + 1] = h[k] \o u[k + 1] /\ h[k] \in Seq(S)
    BY <1>3, <2>1 DEF Flattening
  <2>3. at[k + 1] = at[k] \o w[Len(t) + (k + 1)]
    <3>1. f[Len(t) + (k + 1)] = f[(Len(t) + (k + 1)) - 1] \o w[Len(t) + (k + 1)]
      BY <1>4, <2>1 DEF Flattening
    <3>2. at[k + 1] = f[Len(t) + (k + 1)] /\ at[k] = f[Len(t) + k]
      BY DEF at
    <3>. QED  BY <2>1, <3>1, <3>2
  <2>4. w[Len(t) + (k + 1)] = u[k + 1] /\ u[k + 1] \in Seq(S)
    BY <1>1, <2>1
  <2>5. at[k] = g[Len(t)] \o h[k]
    BY <1>7, <2>1 DEF both
  <2>7. g[Len(t)] \in Seq(S)
    BY <1>2, <1>5
  <2>6. (g[Len(t)] \o h[k]) \o u[k + 1] = g[Len(t)] \o (h[k] \o u[k + 1])
    <3>1. \A a, b, c \in Seq(S) : (a \o b) \o c = a \o (b \o c)
      BY SMTT(60)
    <3>. QED  BY <2>2, <2>4, <2>7, <3>1, Zenon
  <2>8. both[k + 1] = g[Len(t)] \o h[k + 1]
    <3>1. \A n \in Nat : both[n] = g[Len(t)] \o h[n]
      BY DEF both
    <3>2. k + 1 \in Nat
      OBVIOUS
    <3>. QED  BY <3>1, <3>2, Zenon
  <2>. QED  BY <2>2, <2>3, <2>4, <2>5, <2>6, <2>8
<1> HIDE DEF Split, at, both
<1>8. Nat \subseteq Split
  BY <1>6, <1>7, CountingUp
<1>9. Len(u) \in Split
  BY <1>1, <1>8
<1>10. at[Len(u)] = g[Len(t)] \o h[Len(u)]
  <2>1. Len(u) <= Len(u) /\ Len(u) \in Nat
    BY <1>1
  <2>2. at[Len(u)] = both[Len(u)]
    BY <1>9, <2>1 DEF Split
  <2>. QED  BY <2>1, <2>2 DEF both
<1>. QED  BY <1>1, <1>2, <1>3, <1>4, <1>5, <1>10 DEF w, at

\* The elements of a flattened sequence are those of its parts.
LEMMA FlattenElements ==
  ASSUME NEW S, NEW t \in Seq(Seq(S))
  PROVE  ToSet(FlattenSeq(t)) = UNION {ToSet(t[i]) : i \in 1 .. Len(t)}
<1>1. PICK g : Flattening(g, t, S) /\ g[Len(t)] = FlattenSeq(t)
  BY FlattensStepwise
<1> DEFINE Parts(n) == UNION {ToSet(t[i]) : i \in 1 .. n}
           Good == {n \in Nat : n <= Len(t) => ToSet(g[n]) = Parts(n)}
<1>2. Len(t) \in Nat
  OBVIOUS
<1>3. 0 \in Good
  <2>1. g[0] = <<>>
    BY <1>1 DEF Flattening
  <2>2. ToSet(<<>>) = {} /\ Parts(0) = {}
    BY DEF ToSet
  <2>. QED  BY <2>1, <2>2
<1>4. ASSUME NEW n \in Nat, n \in Good PROVE n + 1 \in Good
  <2> SUFFICES ASSUME n + 1 <= Len(t) PROVE ToSet(g[n + 1]) = Parts(n + 1)
    OBVIOUS
  <2>1. n + 1 \in 1 .. Len(t) /\ (n + 1) - 1 = n /\ n <= Len(t) /\ n \in 0 .. Len(t)
    BY <1>2
  <2>2. g[n + 1] = g[n] \o t[n + 1] /\ g[n] \in Seq(S)
    BY <1>1, <2>1 DEF Flattening
  <2>7. t[n + 1] \in Seq(S)
    BY <2>1
  <2>3. ToSet(g[n + 1]) = ToSet(g[n]) \union ToSet(t[n + 1])
    BY <2>2, <2>7, ConcatAdds
  <2>4. 1 .. n + 1 = (1 .. n) \union {n + 1}
    OBVIOUS
  <2>5. Parts(n + 1) = Parts(n) \union ToSet(t[n + 1])
    BY <2>4, Zenon
  <2>6. ToSet(g[n]) = Parts(n)
    BY <1>4, <2>1
  <2> HIDE DEF Parts
  <2>. QED  BY <2>3, <2>5, <2>6
<1> HIDE DEF Good, Parts
<1>5. Nat \subseteq Good
  BY <1>3, <1>4, CountingUp
<1>6. Len(t) \in Good
  BY <1>2, <1>5
<1>. QED  BY <1>1, <1>6 DEF Good, Parts

\* A sequence is what its elements taken one by one flatten to.
LEMMA FlattenSingletons ==
  ASSUME NEW S, NEW q \in Seq(S)
  PROVE  FlattenSeq([i \in 1 .. Len(q) |-> <<q[i]>>]) = q
<1> DEFINE t == [i \in 1 .. Len(q) |-> <<q[i]>>]
<1>1. Len(q) \in Nat /\ \A i \in 1 .. Len(q) : q[i] \in S
  OBVIOUS
<1>2. t \in Seq(Seq(S)) /\ Len(t) = Len(q) /\ \A i \in 1 .. Len(q) : t[i] = <<q[i]>>
  <2>1. \A i \in 1 .. Len(q) : <<q[i]>> \in Seq(S)
    BY <1>1
  <2>. QED  BY <1>1, <2>1
<1> HIDE DEF t
<1>3. PICK g : Flattening(g, t, S) /\ g[Len(t)] = FlattenSeq(t)
  BY <1>2, FlattensStepwise
<1> DEFINE Good == {n \in Nat : n <= Len(q) => /\ Len(g[n]) = n
                                               /\ \A i \in 1 .. n : g[n][i] = q[i]}
<1>4. 0 \in Good
  <2>1. g[0] = <<>>
    BY <1>3 DEF Flattening
  <2>. QED  BY <2>1
<1>5. ASSUME NEW n \in Nat, n \in Good PROVE n + 1 \in Good
  <2> SUFFICES ASSUME n + 1 <= Len(q)
               PROVE  Len(g[n + 1]) = n + 1 /\ \A i \in 1 .. n + 1 : g[n + 1][i] = q[i]
    OBVIOUS
  <2>1. n + 1 \in 1 .. Len(t) /\ (n + 1) - 1 = n /\ n <= Len(q) /\ n \in 0 .. Len(t)
    BY <1>1, <1>2
  <2>2. g[n + 1] = g[n] \o t[n + 1] /\ g[n] \in Seq(S)
    BY <1>3, <2>1 DEF Flattening
  <2>3. Len(g[n]) = n /\ \A i \in 1 .. n : g[n][i] = q[i]
    BY <1>5, <2>1
  <2>4. t[n + 1] = <<q[n + 1]>> /\ q[n + 1] \in S
    BY <1>1, <1>2, <2>1
  <2>5. g[n + 1] = Append(g[n], q[n + 1])
    <3> DEFINE a == g[n]
               x == q[n + 1]
    <3>1. a \in Seq(S) /\ x \in S /\ g[n + 1] = a \o <<x>>
      BY <2>2, <2>4
    <3> HIDE DEF a, x
    <3>2. a \o <<x>> = Append(a, x)
      BY <3>1
    <3>. QED  BY <3>1, <3>2 DEF a, x
  <2> HIDE DEF Good
  <2>6. /\ Len(g[n + 1]) = n + 1 /\ g[n + 1][n + 1] = q[n + 1]
        /\ \A i \in 1 .. n : g[n + 1][i] = g[n][i]
    <3> DEFINE a == g[n]
               x == q[n + 1]
    <3>1. a \in Seq(S) /\ x \in S /\ Len(a) = n /\ g[n + 1] = Append(a, x)
      BY <2>2, <2>3, <2>4, <2>5
    <3> HIDE DEF a, x
    <3>2. /\ Len(Append(a, x)) = n + 1 /\ Append(a, x)[n + 1] = x
          /\ \A i \in 1 .. n : Append(a, x)[i] = a[i]
      BY <3>1
    <3>. QED  BY <3>1, <3>2 DEF a, x
  <2>. QED  BY <2>3, <2>6
<1> HIDE DEF Good
<1>6. Nat \subseteq Good
  BY <1>4, <1>5, CountingUp
<1>7. Len(q) \in Good
  BY <1>1, <1>6
<1>8. g[Len(q)] \in Seq(S)
  BY <1>1, <1>2, <1>3 DEF Flattening
<1>9. Len(g[Len(q)]) = Len(q) /\ \A i \in 1 .. Len(q) : g[Len(q)][i] = q[i]
  BY <1>1, <1>7 DEF Good
<1>10. g[Len(q)] = q
  BY <1>8, <1>9
<1>. QED  BY <1>2, <1>3, <1>10 DEF t

\* The elements of q replaced by what g makes of each of them.
Spread(q, g) == FlattenSeq([i \in 1 .. Len(q) |-> g[q[i]]])

\* What a sequence is spread to, and which elements it then has.
LEMMA SpreadElements ==
  ASSUME NEW S, NEW q \in Seq(S), NEW g \in [S -> Seq(S)]
  PROVE  /\ [i \in 1 .. Len(q) |-> g[q[i]]] \in Seq(Seq(S))
         /\ Spread(q, g) \in Seq(S)
         /\ \A y : y \in ToSet(Spread(q, g)) <=> \E x \in ToSet(q) : y \in ToSet(g[x])
<1> DEFINE t == [i \in 1 .. Len(q) |-> g[q[i]]]
<1>1. Len(q) \in Nat /\ DOMAIN q = 1 .. Len(q) /\ \A i \in 1 .. Len(q) : g[q[i]] \in Seq(S)
  OBVIOUS
<1>2. t \in Seq(Seq(S)) /\ Len(t) = Len(q) /\ \A i \in 1 .. Len(q) : t[i] = g[q[i]]
  BY <1>1
<1> HIDE DEF t
<1>3. FlattenSeq(t) \in Seq(S) /\ ToSet(FlattenSeq(t)) = UNION {ToSet(t[i]) : i \in 1 .. Len(t)}
  BY <1>2, FlattenConcat, FlattenElements
<1>4. Spread(q, g) = FlattenSeq(t)
  BY DEF Spread, t
<1>5. ASSUME NEW y
      PROVE  y \in ToSet(Spread(q, g)) <=> \E x \in ToSet(q) : y \in ToSet(g[x])
  <2>1. ASSUME y \in ToSet(Spread(q, g)) PROVE \E x \in ToSet(q) : y \in ToSet(g[x])
    <3>1. PICK i \in 1 .. Len(t) : y \in ToSet(t[i])
      BY <1>3, <1>4, <2>1
    <3>2. i \in 1 .. Len(q) /\ y \in ToSet(g[q[i]])
      BY <1>2, <3>1
    <3>3. q[i] \in ToSet(q)
      BY <1>1, <3>2 DEF ToSet
    <3>. QED  BY <3>2, <3>3
  <2>2. ASSUME NEW x \in ToSet(q), y \in ToSet(g[x]) PROVE y \in ToSet(Spread(q, g))
    <3>1. PICK i \in 1 .. Len(q) : x = q[i]
      BY <1>1 DEF ToSet
    <3>2. i \in 1 .. Len(t) /\ y \in ToSet(t[i])
      BY <1>2, <2>2, <3>1
    <3>. QED  BY <1>3, <1>4, <3>2
  <2>. QED  BY <2>1, <2>2
<1>. QED  BY <1>2, <1>3, <1>4, <1>5 DEF t

\* Spreading is a homomorphism.
LEMMA SpreadConcat ==
  ASSUME NEW S, NEW p \in Seq(S), NEW q \in Seq(S), NEW g \in [S -> Seq(S)]
  PROVE  Spread(p \o q, g) = Spread(p, g) \o Spread(q, g)
<1> DEFINE t == [i \in 1 .. Len(p) |-> g[p[i]]]
           u == [i \in 1 .. Len(q) |-> g[q[i]]]
           w == [i \in 1 .. Len(p \o q) |-> g[(p \o q)[i]]]
<1>1. t \in Seq(Seq(S)) /\ u \in Seq(Seq(S))
  BY SpreadElements
<1>2. w = t \o u
  <2> DEFINE r == p \o q
             z == t \o u
  <2>1. /\ Len(r) = Len(p) + Len(q) /\ Len(p) \in Nat /\ Len(q) \in Nat /\ r \in Seq(S)
        /\ \A i \in 1 .. Len(r) : r[i] = IF i <= Len(p) THEN p[i] ELSE q[i - Len(p)]
    OBVIOUS
  <2>2. Len(t) = Len(p) /\ Len(u) = Len(q)
    BY <2>1
  <2>5. /\ \A i \in 1 .. Len(p) : t[i] = g[p[i]]
        /\ \A i \in 1 .. Len(q) : u[i] = g[q[i]]
    OBVIOUS
  <2> HIDE DEF t, u, r
  <2>3. /\ Len(z) = Len(t) + Len(u) /\ z \in Seq(Seq(S))
        /\ \A i \in 1 .. Len(z) : z[i] = IF i <= Len(t) THEN t[i] ELSE u[i - Len(t)]
    BY <1>1
  <2> HIDE DEF z
  <2>4. ASSUME NEW i \in 1 .. Len(r) PROVE g[r[i]] = z[i]
    <3>3. i \in 1 .. Len(z)
      BY <2>1, <2>2, <2>3
    <3>1. CASE i <= Len(p)
      <4>1. i \in 1 .. Len(p) /\ r[i] = p[i]
        BY <2>1, <3>1
      <4>2. z[i] = t[i]
        BY <2>2, <2>3, <3>1, <3>3
      <4>. QED  BY <2>5, <4>1, <4>2
    <3>2. CASE ~ (i <= Len(p))
      <4>1. i - Len(p) \in 1 .. Len(q)
        BY <2>1, <3>2
      <4>2. r[i] = q[i - Len(p)]
        BY <2>1, <3>2
      <4>3. z[i] = u[i - Len(p)]
        BY <2>2, <2>3, <3>2, <3>3
      <4>. QED  BY <2>5, <4>1, <4>2, <4>3
    <3>. QED  BY <3>1, <3>2
  <2>6. z = [i \in 1 .. Len(z) |-> z[i]] /\ Len(z) = Len(r)
    BY <2>1, <2>2, <2>3
  <2>7. [i \in 1 .. Len(r) |-> g[r[i]]] = z
    BY <2>4, <2>6
  <2>. QED  BY <2>7 DEF r, z
<1>3. FlattenSeq(t \o u) = FlattenSeq(t) \o FlattenSeq(u)
  <2> HIDE DEF t, u
  <2>. QED  BY <1>1, FlattenConcat
<1>. QED  BY <1>2, <1>3, Zenon DEF Spread

\* One element is spread to what stands for it, and none to none.
LEMMA SpreadOne ==
  ASSUME NEW S, NEW x \in S, NEW g \in [S -> Seq(S)]
  PROVE  Spread(<<x>>, g) = g[x] /\ Spread(<<>>, g) = <<>>
<1> DEFINE t == [i \in 1 .. Len(<<x>>) |-> g[<<x>>[i]]]
           none == [i \in 1 .. Len(<<>>) |-> g[<<>>[i]]]
<1>1. Len(<<x>>) = 1 /\ <<x>>[1] = x /\ g[x] \in Seq(S)
  OBVIOUS
<1>2. Len(t) = 1 /\ t[1] = g[x]
  BY <1>1
<1>3. t \in Seq(Seq(S))
  BY SpreadElements
<1> HIDE DEF t
<1>4. PICK f : Flattening(f, t, S) /\ f[Len(t)] = FlattenSeq(t)
  BY <1>3, FlattensStepwise
<1>5. f[1] = f[0] \o g[x] /\ f[0] = <<>>
  <2>1. 1 \in 1 .. Len(t) /\ 1 - 1 = 0
    BY <1>2
  <2>. QED  BY <1>2, <1>4, <2>1 DEF Flattening
<1>6. FlattenSeq(t) = g[x]
  BY <1>1, <1>2, <1>4, <1>5
<1>7. FlattenSeq(none) = <<>>
  <2>1. none = <<>>
    OBVIOUS
  <2>2. FlattenSeq(<<>>) = <<>>
    BY DEF FlattenSeq
  <2>. QED  BY <2>1, <2>2
<1>. QED  BY <1>6, <1>7, Zenon DEF Spread, t

\* Spreading depends on what stands for the elements there are.
LEMMA SpreadAgrees ==
  ASSUME NEW S, NEW q \in Seq(S), NEW f, NEW g, \A x \in ToSet(q) : f[x] = g[x]
  PROVE  Spread(q, f) = Spread(q, g)
<1>1. \A i \in 1 .. Len(q) : q[i] \in ToSet(q)
  BY DEF ToSet
<1>2. [i \in 1 .. Len(q) |-> f[q[i]]] = [i \in 1 .. Len(q) |-> g[q[i]]]
  BY <1>1, Zenon
<1>. QED  BY <1>2, Zenon DEF Spread

\* A sequence each of whose elements stands for itself stays what it is.
LEMMA SpreadKeeps ==
  ASSUME NEW S, NEW q \in Seq(S), NEW g, \A x \in ToSet(q) : g[x] = <<x>>
  PROVE  Spread(q, g) = q
<1>1. \A i \in 1 .. Len(q) : q[i] \in ToSet(q)
  BY DEF ToSet
<1>2. [i \in 1 .. Len(q) |-> g[q[i]]] = [i \in 1 .. Len(q) |-> <<q[i]>>]
  BY <1>1, Zenon
<1>. QED  BY <1>2, FlattenSingletons DEF Spread

\* Two passes over a sequence are one whose replacements are replaced in turn.
Replaces(g, S) == g \in [S -> Seq(S)]

LEMMA SpreadFuses ==
  ASSUME NEW S, NEW q \in Seq(S), NEW f, Replaces(f, S), NEW g, Replaces(g, S),
         NEW h, \A x \in ToSet(q) : h[x] = Spread(f[x], g)
  PROVE  Spread(Spread(q, f), g) = Spread(q, h)
<1> DEFINE both == [x \in S |-> Spread(f[x], g)]
           t == [i \in 1 .. Len(q) |-> f[q[i]]]
           u == [i \in 1 .. Len(q) |-> both[q[i]]]
<1>14. f \in [S -> Seq(S)] /\ g \in [S -> Seq(S)]
  BY DEF Replaces
<1>0. \A c, d \in Seq(S) : Spread(c \o d, g) = Spread(c, g) \o Spread(d, g)
  <2> SUFFICES ASSUME NEW c \in Seq(S), NEW d \in Seq(S)
               PROVE  Spread(c \o d, g) = Spread(c, g) \o Spread(d, g)
    OBVIOUS
  <2>. QED  BY <1>14, SpreadConcat
<1>1. both \in [S -> Seq(S)]
  BY <1>14, SpreadElements
<1>2. t \in Seq(Seq(S))
  BY <1>14, SpreadElements
<1>3. u \in Seq(Seq(S))
  <2> HIDE DEF both
  <2>. QED  BY <1>1, SpreadElements
<1>4. /\ Len(q) \in Nat /\ Len(t) = Len(q) /\ Len(u) = Len(q)
      /\ \A i \in 1 .. Len(q) : t[i] \in Seq(S) /\ u[i] = Spread(t[i], g)
  BY <1>14
<1>5. Spread(q, f) = FlattenSeq(t) /\ Spread(q, both) = FlattenSeq(u)
  BY DEF Spread
<1> HIDE DEF both, t, u
<1>6. PICK a : Flattening(a, t, S) /\ a[Len(t)] = FlattenSeq(t)
  BY <1>2, FlattensStepwise
<1>7. PICK b : Flattening(b, u, S) /\ b[Len(u)] = FlattenSeq(u)
  BY <1>3, FlattensStepwise
<1> DEFINE Same == {n \in Nat : n <= Len(q) => Spread(a[n], g) = b[n]}
<1>8. 0 \in Same
  <2>1. a[0] = <<>>
    BY <1>6, SMTT(60) DEF Flattening
  <2>3. b[0] = <<>>
    BY <1>7, SMTT(60) DEF Flattening
  <2>2. Spread(<<>>, g) = <<>>
    BY DEF Spread, FlattenSeq
  <2>. QED  BY <2>1, <2>2, <2>3
<1>9. ASSUME NEW n \in Nat, n \in Same PROVE n + 1 \in Same
  <2> SUFFICES ASSUME n + 1 <= Len(q) PROVE Spread(a[n + 1], g) = b[n + 1]
    OBVIOUS
  <2>1. n + 1 \in 1 .. Len(q) /\ (n + 1) - 1 = n /\ n <= Len(q) /\ n \in 0 .. Len(q)
    BY <1>4
  <2>2. a[n + 1] = a[n] \o t[n + 1] /\ b[n + 1] = b[n] \o u[n + 1] /\ a[n] \in Seq(S)
    BY <1>4, <1>6, <1>7, <2>1 DEF Flattening
  <2>3. t[n + 1] \in Seq(S) /\ u[n + 1] = Spread(t[n + 1], g)
    BY <1>4, <2>1
  <2>4. Spread(a[n] \o t[n + 1], g) = Spread(a[n], g) \o Spread(t[n + 1], g)
    BY <1>0, <2>2, <2>3
  <2>5. Spread(a[n], g) = b[n]
    BY <1>9, <2>1
  <2>. QED  BY <2>2, <2>3, <2>4, <2>5
<1> HIDE DEF Same
<1>10. Nat \subseteq Same
  BY <1>8, <1>9, CountingUp
<1>11. Len(q) \in Same
  BY <1>4, <1>10
<1>12. Spread(a[Len(q)], g) = b[Len(q)]
  BY <1>4, <1>11 DEF Same
<1>13. Spread(q, h) = Spread(q, both)
  <2>1. ToSet(q) \subseteq S
    BY DEF ToSet
  <2>2. \A x \in ToSet(q) : h[x] = both[x]
    BY <2>1 DEF both
  <2>. QED  BY <2>2, SpreadAgrees
<1>. QED  BY <1>4, <1>5, <1>6, <1>7, <1>12, <1>13

\* h lists, in their order, the positions of q up to n that hold an element of D,
\* and r the elements they hold.
Selects(h, r, q, D, n) ==
  /\ Len(r) \in Nat /\ h \in [1 .. Len(r) -> 1 .. n]
  /\ \A k \in 1 .. Len(r) : q[h[k]] \in D /\ r[k] = q[h[k]]
  /\ \A k, j \in 1 .. Len(r) : k < j => h[k] < h[j]
  /\ \A i \in 1 .. n : q[i] \in D => \E k \in 1 .. Len(r) : h[k] = i

\* Keeping the elements in D keeps them in their order.
LEMMA SpreadSelects ==
  ASSUME NEW S, NEW q \in Seq(S), NEW D, NEW g \in [S -> Seq(S)],
         \A x \in S : g[x] = IF x \in D THEN <<x>> ELSE <<>>
  PROVE  Spread(q, g) \in Seq(S) /\ \E h : Selects(h, Spread(q, g), q, D, Len(q))
<1> DEFINE t == [i \in 1 .. Len(q) |-> g[q[i]]]
<1>1. t \in Seq(Seq(S)) /\ Spread(q, g) \in Seq(S)
  BY SpreadElements
<1>2. /\ Len(q) \in Nat /\ Len(t) = Len(q) /\ Spread(q, g) = FlattenSeq(t)
      /\ \A i \in 1 .. Len(q) : q[i] \in S /\ t[i] = IF q[i] \in D THEN <<q[i]>> ELSE <<>>
  BY DEF Spread
<1> HIDE DEF t
<1>3. PICK a : Flattening(a, t, S) /\ a[Len(t)] = FlattenSeq(t)
  BY <1>1, FlattensStepwise
<1> DEFINE Good == {n \in Nat : n <= Len(q) => \E h : Selects(h, a[n], q, D, n)}
<1>4. 0 \in Good
  <2>1. a[0] = <<>>
    BY <1>3 DEF Flattening
  <2>2. Selects(<<>>, <<>>, q, D, 0)
    BY DEF Selects
  <2> HIDE DEF Selects
  <2>. QED  BY <2>1, <2>2
<1>5. ASSUME NEW n \in Nat, n \in Good PROVE n + 1 \in Good
  <2> SUFFICES ASSUME n + 1 <= Len(q) PROVE \E h : Selects(h, a[n + 1], q, D, n + 1)
    OBVIOUS
  <2>1. n + 1 \in 1 .. Len(q) /\ (n + 1) - 1 = n /\ n <= Len(q) /\ n \in 0 .. Len(q)
    BY <1>2
  <2>2. a[n + 1] = a[n] \o t[n + 1] /\ a[n] \in Seq(S)
    BY <1>2, <1>3, <2>1 DEF Flattening
  <2>3. PICK h : Selects(h, a[n], q, D, n)
    BY <1>5, <2>1
  <2> DEFINE r == a[n]
             m == Len(r)
             x == q[n + 1]
  <2>4. r \in Seq(S) /\ m \in Nat /\ x \in S
    BY <1>2, <2>1, <2>2
  <2>5. CASE x \notin D
    <3>1. t[n + 1] = <<>>
      BY <1>2, <2>1, <2>5
    <3>2. a[n + 1] = r
      BY <2>2, <3>1
    <3>3. Selects(h, r, q, D, n + 1)
      <4>1. 1 .. n + 1 = (1 .. n) \union {n + 1}
        OBVIOUS
      <4> HIDE DEF r
      <4>. QED  BY <2>3, <2>5, <4>1 DEF Selects, r
    <3>. QED  BY <3>2, <3>3
  <2>6. CASE x \in D
    <3> DEFINE h2 == [k \in 1 .. m + 1 |-> IF k = m + 1 THEN n + 1 ELSE h[k]]
               r2 == Append(r, x)
    <3>1. a[n + 1] = r2
      <4>1. t[n + 1] = <<x>>
        BY <1>2, <2>1, <2>6
      <4> HIDE DEF r, x
      <4>2. r \o <<x>> = Append(r, x)
        BY <2>4
      <4>. QED  BY <2>2, <4>1, <4>2 DEF r
    <3>2. /\ Len(r2) = m + 1 /\ r2[m + 1] = x
          /\ \A k \in 1 .. m : r2[k] = r[k]
      <4> HIDE DEF r, x
      <4>. QED  BY <2>4
    <3>3. /\ h \in [1 .. m -> 1 .. n]
          /\ \A k \in 1 .. m : q[h[k]] \in D /\ r[k] = q[h[k]]
          /\ \A k, j \in 1 .. m : k < j => h[k] < h[j]
          /\ \A i \in 1 .. n : q[i] \in D => \E k \in 1 .. m : h[k] = i
      BY <2>3 DEF Selects
    <3> HIDE DEF r, m
    <3>4. /\ h2[m + 1] = n + 1 /\ \A k \in 1 .. m : h2[k] = h[k]
          /\ \A k \in 1 .. m + 1 : k \in 1 .. m \/ k = m + 1
          /\ \A i \in 1 .. n + 1 : i \in 1 .. n \/ i = n + 1
          /\ m + 1 \in 1 .. m + 1 /\ \A k \in 1 .. m : k \in 1 .. m + 1
      BY <2>4
    <3>5. h2 \in [1 .. m + 1 -> 1 .. n + 1]
      <4>1. ASSUME NEW k \in 1 .. m + 1
            PROVE  (IF k = m + 1 THEN n + 1 ELSE h[k]) \in 1 .. n + 1
        <5>1. CASE k = m + 1
          BY <5>1
        <5>2. CASE k # m + 1
          <6>1. k \in 1 .. m
            BY <2>4, <5>2
          <6>2. h[k] \in 1 .. n
            BY <3>3, <6>1
          <6>. QED  BY <5>2, <6>2
        <5>. QED  BY <5>1, <5>2
      <4>. QED  BY <4>1
    <3> HIDE DEF h2, r2
    <3>6. ASSUME NEW k \in 1 .. m + 1 PROVE q[h2[k]] \in D /\ r2[k] = q[h2[k]]
      BY <2>6, <3>2, <3>3, <3>4 DEF x
    <3>7. ASSUME NEW k \in 1 .. m + 1, NEW j \in 1 .. m + 1, k < j PROVE h2[k] < h2[j]
      <4>1. k \in 1 .. m
        BY <2>4, <3>7
      <4>2. CASE j \in 1 .. m
        BY <3>3, <3>4, <3>7, <4>1, <4>2
      <4>3. CASE j = m + 1
        <5>1. h[k] \in 1 .. n
          BY <3>3, <4>1
        <5>. QED  BY <3>4, <4>1, <4>3, <5>1
      <4>. QED  BY <3>4, <4>2, <4>3
    <3>8. ASSUME NEW i \in 1 .. n + 1, q[i] \in D PROVE \E k \in 1 .. m + 1 : h2[k] = i
      <4>1. CASE i \in 1 .. n
        <5>1. PICK k \in 1 .. m : h[k] = i
          BY <3>3, <3>8, <4>1
        <5>. QED  BY <3>4, <5>1
      <4>2. CASE i = n + 1
        BY <3>4, <4>2
      <4>. QED  BY <3>4, <4>1, <4>2
    <3>9. Selects(h2, r2, q, D, n + 1)
      <4>1. Len(r2) = m + 1 /\ Len(r2) \in Nat
        BY <2>4, <3>2
      <4>. QED  BY <3>5, <3>6, <3>7, <3>8, <4>1 DEF Selects
    <3>. QED  BY <3>1, <3>9
  <2>. QED  BY <2>5, <2>6
<1> HIDE DEF Good
<1>6. Nat \subseteq Good
  BY <1>4, <1>5, CountingUp
<1>7. Len(q) \in Good
  BY <1>2, <1>6
<1>. QED  BY <1>1, <1>2, <1>3, <1>7 DEF Good
=============================================================================
