--------------------------- MODULE DatabaseProofs ---------------------------
(***************************************************************************)
(* Proofs about the database services: the invariants of the migrations    *)
(* runner, of the connection pool and of the vector store, each by its own *)
(* induction, and their conjunction for the services side by side.         *)
(***************************************************************************)
EXTENDS Database, SharedLemmas

-----------------------------------------------------------------------------
(* The migrations runner.                                                  *)

Working(c) == step[c] \in {"change", "record", "commit"}

\* Where the versions a caller still has to handle lie among the recorded ones:
\* all others are recorded already, or lie below them and stay.
WorkLeft(c) ==
  Working(c) =>
    /\ op[c] \in {"run", "rollback"}
    /\ op[c] = "run" => Versions \ work[c] \subseteq recorded
    /\ op[c] = "rollback" => \A v \in recorded \ work[c] : \A w \in work[c] : v < w

\* What has to be published for schema and record to change together is in the
\* transaction, or is already the case.
TxComplete(c) ==
  /\ step[c] \in {"record", "commit"} =>
       "table" \in tx[c] \/ (Current(c) \in tables <=> op[c] = "run")
  /\ step[c] = "commit" =>
       "row" \in tx[c] \/ (op[c] = "rollback" /\ Current(c) \notin recorded)

\* What RecordMatchesSchema says of record and schema.
Agreement ==
  /\ recorded = tables
  /\ \A v \in recorded : \A w \in Versions : w < v => w \in recorded

Consistent ==
  /\ Agreement
  /\ \A c, d \in Callers : Active(c) /\ Active(d) => ~ (op[c] = "run" /\ op[d] = "rollback")
  /\ \A c \in Callers : WorkLeft(c) /\ TxComplete(c)

\* The inductive invariant.
MigrationsInv == MigrationsTypeOK /\ (~ overlapped => Consistent)

-----------------------------------------------------------------------------
(* The connection pool.                                                    *)

\* A request that is under way has a pool that was created; one that closes it
\* has it for itself.
RequestsHavePools ==
  /\ \A r \in Requests : at[r] # "idle" => mine[r] \in Pools /\ poolState[mine[r]] # "none"
  /\ \A r \in Requests : at[r] = "ending" => poolState[mine[r]] = "ending"
  /\ \A r, s \in Requests : at[r] = "ending" /\ at[s] = "ending" /\ mine[r] = mine[s] => r = s

\* The inductive invariant.
PoolInv == PoolTypeOK /\ PoolsAccounted /\ RequestsHavePools

-----------------------------------------------------------------------------
(* The vector store.                                                       *)

Stored(b) == {k \in Ids : rows[k] = b}

\* Every row of a batch has an id of that batch, and an undisturbed batch is
\* stored, and seen by a clearNamespace in progress, as a whole or not at all.
StoredWhole ==
  /\ \A b \in Batches : Stored(b) \subseteq ToSet(Records[b])
  /\ \A b \in Batches : phase[b] # "done" => Stored(b) = {}
  /\ \A b \in Batches \ disturbed :
       /\ Stored(b) \in {{}, ToSet(Records[b])}
       /\ Stored(b) \subseteq clearing \/ Stored(b) \cap clearing = {}

\* The inductive invariant.
VectorInv == VectorTypeOK /\ StoredWhole

-----------------------------------------------------------------------------
IInv == MigrationsInv /\ PoolInv /\ VectorInv
-----------------------------------------------------------------------------
(* Induction of the vector store.                                          *)

\* The records of a batch are a sequence of ids.
LEMMA RecordsAreSequences ==
  ASSUME NEW b \in Batches
  PROVE  /\ Records[b] \in Seq(Ids) /\ Len(Records[b]) \in Nat
         /\ ToSet(Records[b]) \subseteq Ids
<1>1. Records[b] \in Seq(Ids)
  BY VectorAssumption
<1>. QED  BY <1>1 DEF ToSet

\* Storing a whole batch keeps every undisturbed batch whole.
LEMMA StoringKeepsWhole ==
  ASSUME VectorInv, NEW b \in Batches, Store(b, ToSet(Records[b])), clearing' = clearing
  PROVE  StoredWhole'
<1> DEFINE ids == ToSet(Records[b])
<1>1. /\ rows \in [Ids -> Batches \union {NoVector}] /\ NoVector \notin Batches
      /\ ids \subseteq Ids /\ disturbed \subseteq Batches
  BY VectorAssumption, RecordsAreSequences DEF VectorInv, VectorTypeOK
<1>2. rows' = [k \in Ids |-> IF k \in ids THEN b ELSE rows[k]]
  BY DEF Store
<1>3. \A c \in Batches : Stored(c)' = IF c = b THEN Stored(c) \union ids ELSE Stored(c) \ ids
  <2> HIDE DEF ids
  <2>. QED  BY <1>1, <1>2 DEF Stored
<1>4. /\ clearing # {} => b \in disturbed'
      /\ \A c \in Batches \ disturbed' :
           /\ c \notin disturbed
           /\ \/ Stored(c) = {}
              \/ ToSet(Records[c]) \subseteq ids
              \/ ToSet(Records[c]) \cap ids = {}
  <2> HIDE DEF ids
  <2>1. disturbed' = disturbed
          \union {c \in Batches : /\ phase[c] = "done"
                                  /\ ToSet(Records[c]) \cap ids # {}
                                  /\ ~ ToSet(Records[c]) \subseteq ids}
          \union (IF clearing = {} THEN {} ELSE {b})
    BY DEF Store, ids
  <2>2. \A c \in Batches : phase[c] # "done" => Stored(c) = {}
    BY DEF VectorInv, StoredWhole
  <2>. QED  BY <2>1, <2>2
<1>5. /\ \A c \in Batches : Stored(c) \subseteq ToSet(Records[c])
      /\ \A c \in Batches \ disturbed :
           /\ Stored(c) \in {{}, ToSet(Records[c])}
           /\ Stored(c) \subseteq clearing \/ Stored(c) \cap clearing = {}
  BY DEF VectorInv, StoredWhole
<1> HIDE DEF ids
<1>6. ASSUME NEW c \in Batches PROVE Stored(c)' \subseteq ToSet(Records[c])
  BY <1>3, <1>5 DEF ids
<1>7. ASSUME NEW c \in Batches \ disturbed'
      PROVE  /\ Stored(c)' \in {{}, ToSet(Records[c])}
             /\ Stored(c)' \subseteq clearing' \/ Stored(c)' \cap clearing' = {}
  <2>1. CASE c = b
    <3>1. Stored(c)' = ToSet(Records[c]) /\ clearing = {}
      BY <1>3, <1>4, <1>5, <1>7, <2>1 DEF ids
    <3>. QED  BY <3>1
  <2>2. CASE c # b
    <3>1. Stored(c)' = {} \/ Stored(c)' = Stored(c)
      BY <1>3, <1>4, <1>5, <1>7, <2>2
    <3>. QED  BY <1>4, <1>5, <1>7, <3>1
  <2>. QED  BY <2>1, <2>2
<1>8. \A c \in Batches : phase'[c] # "done" => Stored(c)' = {}
  <2>1. phase' = [phase EXCEPT ![b] = "done"] /\ DOMAIN phase = Batches
    BY DEF Store, VectorInv, VectorTypeOK
  <2>2. \A c \in Batches : phase'[c] # "done" => c # b /\ phase[c] # "done"
    BY <2>1
  <2>3. \A c \in Batches : phase[c] # "done" => Stored(c) = {}
    BY DEF VectorInv, StoredWhole
  <2>. QED  BY <1>3, <2>2, <2>3
<1>. QED  BY <1>6, <1>7, <1>8 DEF StoredWhole

\* Removing rows keeps every undisturbed batch whole if it loses all rows or none.
LEMMA RemovingKeepsWhole ==
  ASSUME VectorInv, NEW S, rows' = [k \in Ids |-> IF k \in S THEN NoVector ELSE rows[k]],
         disturbed \subseteq disturbed', clearing' \in {{}, clearing}, phase' = phase,
         \A c \in Batches \ disturbed' : Stored(c) \subseteq S \/ Stored(c) \cap S = {}
  PROVE  StoredWhole'
<1>1. rows \in [Ids -> Batches \union {NoVector}] /\ NoVector \notin Batches
  BY VectorAssumption DEF VectorInv, VectorTypeOK
<1>2. \A c \in Batches : Stored(c)' = Stored(c) \ S
  BY <1>1 DEF Stored
<1>3. /\ \A c \in Batches : Stored(c) \subseteq ToSet(Records[c])
      /\ \A c \in Batches \ disturbed :
           /\ Stored(c) \in {{}, ToSet(Records[c])}
           /\ Stored(c) \subseteq clearing \/ Stored(c) \cap clearing = {}
  BY DEF VectorInv, StoredWhole
<1>4. ASSUME NEW c \in Batches \ disturbed'
      PROVE  /\ Stored(c)' \in {{}, ToSet(Records[c])}
             /\ Stored(c)' \subseteq clearing' \/ Stored(c)' \cap clearing' = {}
  <2>1. Stored(c)' = {} \/ Stored(c)' = Stored(c)
    BY <1>2, <1>4
  <2>. QED  BY <1>3, <1>4, <2>1
<1>5. \A c \in Batches : phase'[c] # "done" => Stored(c)' = {}
  <2>1. \A c \in Batches : phase[c] # "done" => Stored(c) = {}
    BY DEF VectorInv, StoredWhole
  <2>. QED  BY <1>2, <2>1
<1>. QED  BY <1>2, <1>3, <1>4, <1>5 DEF StoredWhole

\* The invariant of the vector store is inductive.
LEMMA VectorInduction ==
  /\ VectorInit => VectorInv
  /\ VectorInv /\ [VectorNext]_vectorVars => VectorInv'
<1>1. VectorInit => VectorInv
  <2> SUFFICES ASSUME VectorInit PROVE VectorInv
    OBVIOUS
  <2>1. VectorTypeOK
    <3>1. \A b \in Batches : position[b] \in 0 .. Len(Records[b])
      BY RecordsAreSequences DEF VectorInit
    <3>2. MaxDeletes \in Nat
      BY VectorAssumption
    <3>3. /\ ready \in BOOLEAN /\ clearing \subseteq Ids /\ deletes \in 0 .. MaxDeletes
          /\ disturbed \subseteq Batches
      <4>1. ready \in BOOLEAN
        BY Zenon DEF VectorInit
      <4>2. deletes \in 0 .. MaxDeletes
        BY <3>2 DEF VectorInit
      <4>. QED  BY <4>1, <4>2 DEF VectorInit
    <3>4. /\ rows \in [Ids -> Batches \union {NoVector}]
          /\ phase \in [Batches -> {"new", "open", "done", "failed"}]
      BY <3>2 DEF VectorInit
    <3>. QED  BY <3>1, <3>3, <3>4 DEF VectorTypeOK
  <2>2. \A b \in Batches : Stored(b) = {}
    BY VectorAssumption DEF VectorInit, Stored
  <2>. QED  BY <2>1, <2>2 DEF VectorInv, StoredWhole
<1>2. VectorInv /\ [VectorNext]_vectorVars => VectorInv'
  <2> SUFFICES ASSUME VectorInv, [VectorNext]_vectorVars PROVE VectorInv'
    OBVIOUS
  <2> USE DEF VectorInv
  <2>0. \A b \in Batches : Len(Records[b]) \in Nat /\ ToSet(Records[b]) \subseteq Ids
    BY RecordsAreSequences
  <2>w. /\ UNCHANGED <<rows, clearing, disturbed>>
        /\ \A b \in Batches : phase[b] = "done" => phase'[b] = "done"
        => StoredWhole'
    BY DEF StoredWhole, Stored
  <2>1. CASE InitializeVectorStore
    BY <2>1, <2>w DEF InitializeVectorStore, VectorTypeOK
  <2>2. ASSUME NEW b \in Batches, BatchUpsertVectors(b) PROVE VectorInv'
    <3>1. StoredWhole'
      <4>1. \A c \in Batches : phase[c] = "done" => phase'[c] = "done"
        BY <2>2 DEF BatchUpsertVectors, VectorTypeOK
      <4>. QED  BY <2>2, <2>w, <4>1 DEF BatchUpsertVectors
    <3>. QED  BY <2>2, <3>1 DEF BatchUpsertVectors, VectorTypeOK
  <2>3. ASSUME NEW b \in Batches, Upsert(b) PROVE VectorInv'
    <3>1. StoredWhole'
      BY <2>3, <2>w DEF Upsert
    <3>2. \A c \in Batches : position'[c] \in 0 .. Len(Records[c])
      BY <2>0, <2>3 DEF Upsert, VectorTypeOK
    <3>. QED  BY <2>3, <3>1, <3>2 DEF Upsert, VectorTypeOK
  <2>4. ASSUME NEW b \in Batches, CommitBatch(b) PROVE VectorInv'
    <3>1. Written(b) = ToSet(Records[b])
      <4>1. SubSeq(Records[b], 1, Len(Records[b])) = Records[b]
        BY RecordsAreSequences, SubSeqFull
      <4>. QED  BY <2>4, <4>1 DEF CommitBatch, Written
    <3>2. Store(b, ToSet(Records[b])) /\ clearing' = clearing
      BY <2>4, <3>1 DEF CommitBatch
    <3>3. StoredWhole'
      BY <3>2, StoringKeepsWhole
    <3>4. VectorTypeOK'
      BY <2>0, <2>4, <3>2 DEF CommitBatch, Store, VectorTypeOK
    <3>. QED  BY <3>3, <3>4
  <2>5. ASSUME NEW b \in Batches, AbortBatch(b) PROVE VectorInv'
    <3>1. StoredWhole'
      <4>1. \A c \in Batches : phase[c] = "done" => phase'[c] = "done"
        BY <2>5 DEF AbortBatch, VectorTypeOK
      <4>. QED  BY <2>5, <2>w, <4>1 DEF AbortBatch
    <3>. QED  BY <2>0, <2>5, <3>1 DEF AbortBatch, VectorTypeOK
  <2>6. ASSUME NEW b \in Batches, UpsertVector(b) PROVE VectorInv'
    <3>1. StoredWhole'
      BY <2>6, StoringKeepsWhole DEF UpsertVector
    <3>2. VectorTypeOK'
      BY <2>0, <2>6 DEF UpsertVector, Store, VectorTypeOK
    <3>. QED  BY <3>1, <3>2
  <2>7. ASSUME NEW k \in Ids, DeleteVector(k) PROVE VectorInv'
    <3>1. VectorTypeOK'
      BY <2>7, VectorAssumption DEF DeleteVector, VectorTypeOK
    <3>2. rows' = [j \in Ids |-> IF j \in {k} THEN NoVector ELSE rows[j]]
      BY <2>7 DEF DeleteVector, VectorTypeOK
    <3>3. /\ disturbed \subseteq disturbed' /\ clearing' = clearing
          /\ \A c \in Batches \ disturbed' : rows[k] # c
      BY <2>7 DEF DeleteVector
    <3>6. phase' = phase
      BY <2>7 DEF DeleteVector
    <3>4. \A c \in Batches \ disturbed' : Stored(c) \cap {k} = {}
      BY <3>3 DEF Stored
    <3>5. StoredWhole'
      BY <3>2, <3>3, <3>4, <3>6, RemovingKeepsWhole
    <3>. QED  BY <3>1, <3>5
  <2>8. CASE ClearNamespace
    <3>1. VectorTypeOK'
      BY <2>8, VectorAssumption DEF ClearNamespace, VectorTypeOK
    <3>2. \A c \in Batches : Stored(c)' = Stored(c) /\ Stored(c) \subseteq clearing'
      BY <2>8, VectorAssumption DEF ClearNamespace, Stored
    <3>3. disturbed' = disturbed /\ phase' = phase
      BY <2>8 DEF ClearNamespace
    <3>. QED  BY <3>1, <3>2, <3>3 DEF StoredWhole
  <2>9. CASE ClearEnds
    <3>1. VectorTypeOK'
      BY <2>9 DEF ClearEnds, VectorTypeOK
    <3>2. /\ rows' = [j \in Ids |-> IF j \in clearing THEN NoVector ELSE rows[j]]
          /\ disturbed' = disturbed /\ clearing' = {} /\ phase' = phase
      BY <2>9 DEF ClearEnds
    <3>3. StoredWhole'
      BY <3>2, RemovingKeepsWhole DEF StoredWhole
    <3>. QED  BY <3>1, <3>3
  <2>10. CASE UNCHANGED vectorVars
    BY <2>10, <2>w DEF vectorVars, VectorTypeOK
  <2>. QED  BY <2>1, <2>2, <2>3, <2>4, <2>5, <2>6, <2>7, <2>8, <2>9, <2>10 DEF VectorNext
<1>. QED  BY <1>1, <1>2
-----------------------------------------------------------------------------
(* Induction of the connection pool.                                       *)

\* The requests are finitely many, and so are the users of a pool.
LEMMA UsersAreFinite ==
  ASSUME NEW p
  PROVE  IsFiniteSet(Users(p)) /\ Cardinality(Users(p)) \in Nat
<1>1. Users(p) \subseteq Requests
  BY DEF Users
<1>. QED  BY <1>1, PostgresAssumption, FS_Subset, FS_CardinalityType

\* A call that takes or returns no connection leaves the accounts as they are.
LEMMA AccountsKept ==
  ASSUME PoolInv, \A p \in Pools : Users(p)' = Users(p),
         UNCHANGED <<checkedOut, leaks>>,
         \A p \in Pools : poolState'[p] = "ended" => checkedOut[p] = 0
  PROVE  ConnectionsReturned'
BY DEF PoolInv, PoolsAccounted, ConnectionsReturned

\* A call that begins uses no connection yet.
LEMMA SuspendingUsesNothing ==
  ASSUME PoolInv, NEW r \in Requests, NEW c, NEW where \in {"waiting", "ending"}, NEW p \in Pools,
         Suspend(r, c, where, p)
  PROVE  \A q \in Pools : Users(q)' = Users(q)
BY DEF PoolInv, PoolTypeOK, Suspend, Users

\* A call that gives its connection back is no longer one of the pool's users,
\* who had it checked out.
LEMMA LeavingUsers ==
  ASSUME PoolInv, NEW r \in Requests, at[r] \in {"working", "undoing"},
         at' = [at EXCEPT ![r] = "idle"], mine' = mine
  PROVE  /\ mine[r] \in Pools
         /\ Cardinality(Users(mine[r])') = Cardinality(Users(mine[r])) - 1
         /\ Cardinality(Users(mine[r])') \in Nat
         /\ \A p \in Pools : p # mine[r] => Users(p)' = Users(p)
         /\ checkedOut[mine[r]] > 0 /\ poolState[mine[r]] # "ended"
<1> DEFINE p == mine[r]
<1>1. p \in Pools /\ at \in [Requests -> {"idle", "waiting", "working", "undoing", "ending"}]
  BY DEF PoolInv, PoolTypeOK, RequestsHavePools
<1>2. r \in Users(p) /\ Users(p)' = Users(p) \ {r}
  BY <1>1 DEF Users
<1>3. IsFiniteSet(Users(p)) /\ IsFiniteSet(Users(p)')
  <2>1. IsFiniteSet(Users(p))
    BY UsersAreFinite
  <2>. QED  BY <1>2, <2>1, FS_Subset
<1>4. \A q \in Pools : q # p => Users(q)' = Users(q)
  BY <1>1 DEF Users
<1>5. /\ checkedOut[p] = Cardinality(Users(p)) + leaks[p] /\ leaks[p] \in Nat
      /\ poolState[p] = "ended" => checkedOut[p] = 0
  BY <1>1 DEF PoolInv, PoolsAccounted, ConnectionsReturned, PoolTypeOK
<1> HIDE DEF p
<1>6. /\ Cardinality(Users(p)') = Cardinality(Users(p)) - 1
      /\ Cardinality(Users(p)) \in Nat /\ Cardinality(Users(p)') \in Nat
  BY <1>2, <1>3, FS_RemoveElement, FS_CardinalityType
<1>7. checkedOut[p] > 0 /\ poolState[p] # "ended"
  BY <1>5, <1>6
<1>. QED  BY <1>1, <1>4, <1>6, <1>7 DEF p

\* Returning a connection keeps the accounts.
LEMMA ReleaseInduction ==
  ASSUME PoolInv, NEW r \in Requests, at[r] \in {"working", "undoing"}, Release(r)
  PROVE  PoolInv'
<1> USE DEF Release
<1>1. PICK p \in Pools : p = mine[r]
  BY LeavingUsers
<1>2. /\ Cardinality(Users(p)') = Cardinality(Users(p)) - 1
      /\ Cardinality(Users(p)') \in Nat
      /\ \A q \in Pools : q # p => Users(q)' = Users(q)
      /\ checkedOut[p] > 0
  BY <1>1, LeavingUsers
<1>3. /\ checkedOut \in [Pools -> Nat] /\ leaks \in [Pools -> Nat]
      /\ checkedOut' = [checkedOut EXCEPT ![p] = checkedOut[p] - 1]
      /\ UNCHANGED <<poolState, leaks>>
  BY <1>1 DEF PoolInv, PoolTypeOK
<1>4. PoolTypeOK'
  <2>1. checkedOut' \in [Pools -> Nat]
    BY <1>2, <1>3
  <2>. QED  BY <2>1 DEF PoolInv, PoolTypeOK
<1>5. ASSUME NEW q \in Pools
      PROVE  /\ checkedOut'[q] = Cardinality(Users(q)') + leaks'[q]
             /\ checkedOut'[q] <= MaxConnections
             /\ poolState'[q] = "ended" => checkedOut'[q] = 0
  <2>1. /\ checkedOut[q] = Cardinality(Users(q)) + leaks[q] /\ checkedOut[q] <= MaxConnections
        /\ poolState[q] = "ended" => checkedOut[q] = 0
        /\ MaxConnections \in Nat /\ Cardinality(Users(q)) \in Nat
    BY PostgresAssumption, UsersAreFinite DEF PoolInv, PoolsAccounted, ConnectionsReturned
  <2>2. CASE q = p
    BY <1>2, <1>3, <2>1, <2>2
  <2>3. CASE q # p
    BY <1>2, <1>3, <2>1, <2>3
  <2>. QED  BY <2>2, <2>3
<1>6. ConnectionsReturned'
  BY <1>5 DEF ConnectionsReturned
<1>7. NoOrphanPool' /\ RequestsHavePools'
  BY DEF PoolInv, PoolTypeOK, PoolsAccounted, NoOrphanPool, RequestsHavePools
<1>. QED  BY <1>4, <1>6, <1>7 DEF PoolInv, PoolsAccounted

\* The invariant of the connection pool is inductive.
LEMMA PoolInduction ==
  /\ PoolInit => PoolInv
  /\ PoolInv /\ [PoolNext]_poolVars => PoolInv'
<1>1. PoolInit => PoolInv
  <2> SUFFICES ASSUME PoolInit PROVE PoolInv
    OBVIOUS
  <2>1. clashed \in BOOLEAN
    BY Zenon DEF PoolInit
  <2>2. MaxPools \in Nat /\ MaxConnections \in Nat
    BY PostgresAssumption
  <2>3. \A p : Users(p) = {}
    BY DEF PoolInit, Users
  <2>4. \A p \in Pools : Cardinality(Users(p)) = 0
    BY <2>3, FS_EmptySet
  <2>5. PoolTypeOK
    BY <2>1, <2>2 DEF PoolInit, PoolTypeOK
  <2>6. ConnectionsReturned
    BY <2>2, <2>4 DEF PoolInit, ConnectionsReturned
  <2>7. NoOrphanPool /\ RequestsHavePools
    BY <2>2 DEF PoolInit, NoOrphanPool, RequestsHavePools
  <2>. QED  BY <2>5, <2>6, <2>7 DEF PoolInv, PoolsAccounted
<1>2. PoolInv /\ [PoolNext]_poolVars => PoolInv'
  <2> SUFFICES ASSUME PoolInv, [PoolNext]_poolVars PROVE PoolInv'
    OBVIOUS
  <2>0. /\ PoolTypeOK /\ ConnectionsReturned /\ NoOrphanPool /\ RequestsHavePools
        /\ MaxPools \in Nat /\ MaxConnections \in Nat /\ 0 \notin Pools
        /\ Pools \subseteq 0 .. MaxPools
    BY PostgresAssumption DEF PoolInv, PoolsAccounted, Pools
  <2>s. SUFFICES PoolTypeOK' /\ ConnectionsReturned' /\ NoOrphanPool' /\ RequestsHavePools'
    BY DEF PoolInv, PoolsAccounted
  <2>k. pool # 0 => pool \in Pools
    BY <2>0 DEF PoolTypeOK, Pools
  <2>1. ASSUME NEW r \in Requests, InitializePool(r)
        PROVE  PoolTypeOK' /\ ConnectionsReturned' /\ NoOrphanPool' /\ RequestsHavePools'
    <3>1. PICK p \in Pools :
            /\ \A q \in Pools : poolState[q] = "none" <=> q >= p
            /\ pool' = p
            /\ poolState' = [poolState EXCEPT ![p] = "open"]
            /\ clashed' = (clashed \/ pool # 0)
            /\ Suspend(r, "initialize", "waiting", p)
            /\ UNCHANGED <<checkedOut, leaks>>
      BY <2>1 DEF InitializePool
    <3>2. poolState[p] = "none"
      <4>1. p >= p
        BY DEF Pools
      <4>. QED  BY <3>1, <4>1
    <3>3. PoolTypeOK'
      <4>1. clashed' \in BOOLEAN
        BY <3>1, Zenon
      <4>. QED  BY <2>0, <3>1, <4>1 DEF PoolTypeOK, Suspend
    <3>4. ConnectionsReturned'
      <4>1. \A q \in Pools : Users(q)' = Users(q)
        BY <3>1, SuspendingUsesNothing
      <4>. QED  BY <2>0, <3>1, <4>1, AccountsKept DEF ConnectionsReturned, PoolTypeOK
    <3>5. NoOrphanPool'
      BY <2>0, <2>k, <3>1 DEF NoOrphanPool, PoolTypeOK
    <3>6. RequestsHavePools'
      BY <2>0, <3>1, <3>2 DEF RequestsHavePools, Suspend, PoolTypeOK
    <3>. QED  BY <3>3, <3>4, <3>5, <3>6
  <2>2. ASSUME NEW r \in Requests, NEW c \in {"query", "transaction"}, UsePool(r, c)
        PROVE  PoolTypeOK' /\ ConnectionsReturned' /\ NoOrphanPool' /\ RequestsHavePools'
    <3>1. Suspend(r, c, "waiting", pool) /\ pool \in Pools /\ poolState[pool] = "open"
          /\ UNCHANGED <<pool, poolState, checkedOut, leaks, clashed>>
      BY <2>2, <2>k DEF UsePool
    <3>2. PoolTypeOK'
      BY <2>0, <3>1 DEF PoolTypeOK, Suspend
    <3>3. ConnectionsReturned'
      <4>1. \A q \in Pools : Users(q)' = Users(q)
        BY <3>1, SuspendingUsesNothing
      <4>. QED  BY <2>0, <3>1, <4>1, AccountsKept DEF ConnectionsReturned, PoolTypeOK
    <3>4. NoOrphanPool' /\ RequestsHavePools'
      BY <2>0, <3>1 DEF NoOrphanPool, RequestsHavePools, Suspend, PoolTypeOK
    <3>. QED  BY <3>2, <3>3, <3>4
  <2>3. ASSUME NEW r \in Requests, ClosePool(r)
        PROVE  PoolTypeOK' /\ ConnectionsReturned' /\ NoOrphanPool' /\ RequestsHavePools'
    <3>1. /\ Suspend(r, "close", "ending", pool) /\ pool \in Pools /\ poolState[pool] = "open"
          /\ poolState' = [poolState EXCEPT ![pool] = "ending"]
          /\ UNCHANGED <<pool, checkedOut, leaks, clashed>>
      BY <2>3, <2>k DEF ClosePool
    <3>2. PoolTypeOK'
      BY <2>0, <3>1 DEF PoolTypeOK, Suspend
    <3>3. ConnectionsReturned'
      <4>1. \A q \in Pools : Users(q)' = Users(q)
        BY <3>1, SuspendingUsesNothing
      <4>. QED  BY <2>0, <3>1, <4>1, AccountsKept DEF ConnectionsReturned, PoolTypeOK
    <3>4. NoOrphanPool'
      BY <2>0, <3>1 DEF NoOrphanPool, PoolTypeOK
    <3>5. RequestsHavePools'
      <4>1. \A s \in Requests : at[s] = "ending" => mine[s] # pool
        BY <2>0, <3>1 DEF RequestsHavePools
      <4>. QED  BY <2>0, <3>1, <4>1 DEF RequestsHavePools, Suspend, PoolTypeOK
    <3>. QED  BY <3>2, <3>3, <3>4, <3>5
  <2>4. ASSUME NEW r \in Requests, Connect(r)
        PROVE  PoolTypeOK' /\ ConnectionsReturned' /\ NoOrphanPool' /\ RequestsHavePools'
    <3>1. PICK p \in Pools : p = mine[r]
      BY <2>0, <2>4 DEF Connect, RequestsHavePools
    <3>2. /\ checkedOut \in [Pools -> Nat] /\ leaks \in [Pools -> Nat]
          /\ checkedOut' = [checkedOut EXCEPT ![p] = checkedOut[p] + 1]
          /\ checkedOut[p] < MaxConnections /\ poolState[p] = "open"
          /\ UNCHANGED <<poolState, leaks>>
      BY <2>0, <2>4, <3>1 DEF Connect, PoolTypeOK
    <3>3. PoolTypeOK' /\ NoOrphanPool' /\ RequestsHavePools'
      <4>1. checkedOut' \in [Pools -> Nat]
        BY <3>2
      <4>. QED  BY <2>0, <2>4, <4>1 DEF Connect, PoolTypeOK, NoOrphanPool, RequestsHavePools
    <3>4. /\ r \notin Users(p) /\ Users(p)' = Users(p) \union {r}
          /\ \A q \in Pools : q # p => Users(q)' = Users(q)
      BY <2>0, <2>4, <3>1 DEF Connect, PoolTypeOK, Users
    <3>5. Cardinality(Users(p)') = Cardinality(Users(p)) + 1
      BY <3>4, UsersAreFinite, FS_AddElement
    <3>6. ASSUME NEW q \in Pools
          PROVE  /\ checkedOut'[q] = Cardinality(Users(q)') + leaks'[q]
                 /\ checkedOut'[q] <= MaxConnections
                 /\ poolState'[q] = "ended" => checkedOut'[q] = 0
      <4>1. /\ checkedOut[q] = Cardinality(Users(q)) + leaks[q] /\ checkedOut[q] <= MaxConnections
            /\ poolState[q] = "ended" => checkedOut[q] = 0
            /\ Cardinality(Users(q)) \in Nat
        BY <2>0, UsersAreFinite DEF ConnectionsReturned
      <4>2. CASE q = p
        BY <2>0, <3>2, <3>5, <4>1, <4>2
      <4>3. CASE q # p
        BY <3>2, <3>4, <4>1, <4>3
      <4>. QED  BY <4>2, <4>3
    <3>7. ConnectionsReturned'
      BY <3>6 DEF ConnectionsReturned
    <3>. QED  BY <3>3, <3>7
  <2>5. ASSUME NEW r \in Requests, ConnectFails(r) \/ TransactionFails(r)
        PROVE  PoolTypeOK' /\ ConnectionsReturned' /\ NoOrphanPool' /\ RequestsHavePools'
    <3>1. PoolTypeOK' /\ NoOrphanPool' /\ RequestsHavePools'
      BY <2>0, <2>5
         DEF ConnectFails, TransactionFails, PoolTypeOK, NoOrphanPool, RequestsHavePools
    <3>2. \A q \in Pools : Users(q)' = Users(q)
      BY <2>0, <2>5 DEF ConnectFails, TransactionFails, PoolTypeOK, Users
    <3>3. UNCHANGED <<poolState, checkedOut, leaks>>
      BY <2>5 DEF ConnectFails, TransactionFails
    <3>4. ConnectionsReturned'
      BY <2>0, <3>2, <3>3, AccountsKept DEF ConnectionsReturned
    <3>. QED  BY <3>1, <3>4
  <2>6. ASSUME NEW r \in Requests, WorkEnds(r) \/ RollbackEnds(r)
        PROVE  PoolTypeOK' /\ ConnectionsReturned' /\ NoOrphanPool' /\ RequestsHavePools'
    <3>1. PoolInv'
      BY <2>6, ReleaseInduction DEF WorkEnds, RollbackEnds
    <3>. QED  BY <3>1 DEF PoolInv, PoolsAccounted
  <2>7. ASSUME NEW r \in Requests, TestFails(r)
        PROVE  PoolTypeOK' /\ ConnectionsReturned' /\ NoOrphanPool' /\ RequestsHavePools'
    <3>1. PICK p \in Pools : p = mine[r]
      BY <2>7, LeavingUsers DEF TestFails
    <3>2. /\ Cardinality(Users(p)') = Cardinality(Users(p)) - 1
          /\ \A q \in Pools : q # p => Users(q)' = Users(q)
      BY <2>7, <3>1, LeavingUsers DEF TestFails
    <3>3. /\ leaks \in [Pools -> Nat] /\ checkedOut \in [Pools -> Nat]
          /\ leaks' = [leaks EXCEPT ![p] = leaks[p] + 1]
          /\ UNCHANGED <<poolState, checkedOut>>
      BY <2>0, <2>7, <3>1 DEF TestFails, PoolTypeOK
    <3>4. PoolTypeOK' /\ NoOrphanPool' /\ RequestsHavePools'
      <4>1. leaks' \in [Pools -> Nat]
        BY <3>3
      <4>. QED  BY <2>0, <2>7, <4>1 DEF TestFails, PoolTypeOK, NoOrphanPool, RequestsHavePools
    <3>5. ASSUME NEW q \in Pools
          PROVE  /\ checkedOut'[q] = Cardinality(Users(q)') + leaks'[q]
                 /\ checkedOut'[q] <= MaxConnections
                 /\ poolState'[q] = "ended" => checkedOut'[q] = 0
      <4>1. /\ checkedOut[q] = Cardinality(Users(q)) + leaks[q] /\ checkedOut[q] <= MaxConnections
            /\ poolState[q] = "ended" => checkedOut[q] = 0
            /\ Cardinality(Users(q)) \in Nat
        BY <2>0, UsersAreFinite DEF ConnectionsReturned
      <4>2. CASE q = p
        BY <3>2, <3>3, <4>1, <4>2
      <4>3. CASE q # p
        BY <3>2, <3>3, <4>1, <4>3
      <4>. QED  BY <4>2, <4>3
    <3>6. ConnectionsReturned'
      BY <3>5 DEF ConnectionsReturned
    <3>. QED  BY <3>4, <3>6
  <2>8. ASSUME NEW r \in Requests, CloseReturns(r)
        PROVE  PoolTypeOK' /\ ConnectionsReturned' /\ NoOrphanPool' /\ RequestsHavePools'
    <3>1. PICK p \in Pools : p = mine[r] /\ poolState[p] = "ending" /\ checkedOut[p] = 0
      BY <2>0, <2>8 DEF CloseReturns, RequestsHavePools
    <3>2. poolState' = [poolState EXCEPT ![p] = "ended"] /\ UNCHANGED <<checkedOut, leaks>>
      BY <2>8, <3>1 DEF CloseReturns
    <3>3. PoolTypeOK'
      <4>1. /\ pool' = 0 /\ at' = [at EXCEPT ![r] = "idle"]
            /\ UNCHANGED <<call, mine, clashed>>
        BY <2>8 DEF CloseReturns
      <4>2. pool' \in 0 .. MaxPools
        BY <2>0, <4>1
      <4>3. /\ poolState' \in [Pools -> {"none", "open", "ending", "ended"}]
            /\ at' \in [Requests -> {"idle", "waiting", "working", "undoing", "ending"}]
        BY <2>0, <3>2, <4>1 DEF PoolTypeOK
      <4>. QED  BY <2>0, <3>2, <4>1, <4>2, <4>3 DEF PoolTypeOK
    <3>4. ConnectionsReturned'
      <4>1. \A q \in Pools : Users(q)' = Users(q)
        BY <2>0, <2>8 DEF CloseReturns, PoolTypeOK, Users
      <4>. QED  BY <2>0, <3>1, <3>2, <4>1, AccountsKept DEF ConnectionsReturned, PoolTypeOK
    <3>5. NoOrphanPool'
      <4>1. ~ clashed => p = pool
        BY <2>0, <3>1 DEF NoOrphanPool
      <4>. QED  BY <2>0, <2>8, <3>2, <4>1 DEF CloseReturns, NoOrphanPool, PoolTypeOK
    <3>6. RequestsHavePools'
      <4>1. \A s \in Requests : at[s] = "ending" /\ s # r => mine[s] # p
        BY <2>0, <2>8, <3>1 DEF CloseReturns, RequestsHavePools
      <4>. QED  BY <2>0, <2>8, <3>1, <3>2, <4>1 DEF CloseReturns, RequestsHavePools, PoolTypeOK
    <3>. QED  BY <3>3, <3>4, <3>5, <3>6
  <2>9. CASE UNCHANGED poolVars
    BY <2>0, <2>9 DEF poolVars, PoolTypeOK, ConnectionsReturned, NoOrphanPool,
                      RequestsHavePools, Users
  <2>. QED  BY <2>1, <2>2, <2>3, <2>4, <2>5, <2>6, <2>7, <2>8, <2>9 DEF PoolNext, PoolProceeds
<1>. QED  BY <1>1, <1>2
-----------------------------------------------------------------------------
(* Induction of the migrations runner.                                     *)

\* The versions a caller has left are finitely many.
LEMMA LeftAreFinite ==
  ASSUME NEW S \in SUBSET Versions
  PROVE  S \in SUBSET Nat /\ IsFiniteSet(S)
BY MigrationsAssumption, FS_Subset

\* A run takes the least of the versions it has left, a rollback the greatest.
LEMMA CurrentIsNext ==
  ASSUME MigrationsTypeOK, NEW c \in Callers, work[c] # {}
  PROVE  /\ Current(c) \in work[c] /\ work[c] \in SUBSET Versions
         /\ op[c] = "run" => \A v \in work[c] : Current(c) <= v
         /\ op[c] # "run" => \A v \in work[c] : v <= Current(c)
<1>1. work[c] \in SUBSET Versions /\ work[c] \in SUBSET Nat /\ IsFiniteSet(work[c])
  BY LeftAreFinite DEF MigrationsTypeOK
<1>2. \E v \in work[c] : \A w \in work[c] : v <= w
  BY <1>1, MinIsLeast
<1>3. \E v \in work[c] : \A w \in work[c] : w <= v
  BY <1>1, MaxExists
<1>. QED  BY <1>1, <1>2, <1>3 DEF Current, Least, Greatest

\* A caller that returns has nothing left and no transaction.
LEMMA ReturnTypes ==
  ASSUME MigrationsTypeOK, NEW c \in Callers, NEW outcome, Return(c, outcome), op' = op,
         tracking' \in BOOLEAN, overlapped' \in BOOLEAN,
         tables' \subseteq Versions, recorded' \subseteq Versions,
         rollbacks' \in 0 .. MaxRollbacks, faults' \in 0 .. MaxFaults
  PROVE  /\ MigrationsTypeOK'
         /\ step'[c] = "idle"
         /\ \A d \in Callers \ {c} : step'[d] = step[d] /\ work'[d] = work[d] /\ tx'[d] = tx[d]
<1>1. /\ step' = [step EXCEPT ![c] = "idle"]
      /\ work' = [work EXCEPT ![c] = {}]
      /\ tx' = [tx EXCEPT ![c] = {}]
      /\ failed' \subseteq Callers
  BY DEF Return, MigrationsTypeOK
<1>. QED  BY <1>1 DEF MigrationsTypeOK

\* A caller's step keeps the callers consistent if it keeps schema and record in
\* agreement, moves the record in its own direction, and leaves its own work and
\* transaction consistent: no caller of the other direction is active.
LEMMA StepKeepsConsistent ==
  ASSUME MigrationsTypeOK, Consistent, NEW c \in Callers, Active(c), op' = op,
         \A d \in Callers \ {c} : step'[d] = step[d] /\ work'[d] = work[d] /\ tx'[d] = tx[d],
         Agreement', WorkLeft(c)', TxComplete(c)',
         \/ recorded' = recorded
         \/ op[c] = "run" /\ recorded \subseteq recorded'
         \/ op[c] = "rollback" /\ recorded' \subseteq recorded
  PROVE  Consistent'
<1>1. \A d \in Callers \ {c} : (Active(d) <=> Active(d)') /\ Current(d)' = Current(d)
  BY DEF Active, Current
<1>2. \A d, e \in Callers : Active(d)' /\ Active(e)' => ~ (op'[d] = "run" /\ op'[e] = "rollback")
  <2>1. \A d \in Callers : Active(d)' => Active(d)
    BY <1>1
  <2>. QED  BY <2>1 DEF Consistent
<1>3. ASSUME NEW d \in Callers \ {c} PROVE WorkLeft(d)' /\ TxComplete(d)'
  <2>1. /\ WorkLeft(d) /\ TxComplete(d)
        /\ step'[d] = step[d] /\ work'[d] = work[d] /\ tx'[d] = tx[d] /\ op'[d] = op[d]
        /\ Current(d)' = Current(d) /\ recorded = tables /\ recorded' = tables'
    BY <1>1, <1>3 DEF Consistent, Agreement
  <2>2. Active(d) => ~ (op[c] = "run" /\ op[d] = "rollback")
                     /\ ~ (op[d] = "run" /\ op[c] = "rollback")
    BY <1>3 DEF Consistent
  <2>3. Working(d) => Active(d) /\ op[d] \in {"run", "rollback"}
    BY <2>1 DEF Working, Active, WorkLeft
  <2>4. Working(d) => \/ recorded' = recorded
                      \/ op[d] = "run" /\ recorded \subseteq recorded'
                      \/ op[d] = "rollback" /\ recorded' \subseteq recorded
    BY <2>2, <2>3
  <2>5. WorkLeft(d)'
    BY <2>1, <2>3, <2>4 DEF WorkLeft, Working
  <2>6. step[d] \in {"record", "commit"} => Working(d)
    BY DEF Working
  <2>7. TxComplete(d)'
    BY <2>1, <2>3, <2>4, <2>6 DEF TxComplete
  <2>. QED  BY <2>5, <2>7
<1>. QED  BY <1>2, <1>3 DEF Consistent

\* Only versions come into the schema and into the record at a COMMIT.
LEMMA PublishTypes ==
  ASSUME MigrationsTypeOK, NEW c \in Callers, step[c] = "commit", Publish(c)
  PROVE  tables' \subseteq Versions /\ recorded' \subseteq Versions
<1>1. Current(c) \in Versions /\ tables \subseteq Versions /\ recorded \subseteq Versions
  BY CurrentIsNext DEF MigrationsTypeOK
<1>. QED  BY <1>1 DEF Publish

\* A COMMIT changes schema and record together, by the one version that may come
\* or go next.
LEMMA PublishAgrees ==
  ASSUME MigrationsTypeOK, Consistent, NEW c \in Callers, step[c] = "commit", Publish(c)
  PROVE  /\ Agreement'
         /\ \/ op[c] = "run" /\ recorded' = recorded \union {Current(c)}
            \/ op[c] = "rollback" /\ recorded' = recorded \ {Current(c)}
<1> DEFINE v == Current(c)
<1>1. /\ work[c] \in SUBSET Versions /\ v \in work[c] /\ Versions \subseteq Nat
      /\ op[c] = "run" => \A w \in work[c] : v <= w
      /\ op[c] # "run" => \A w \in work[c] : w <= v
  BY MigrationsAssumption, CurrentIsNext DEF MigrationsTypeOK
<1>2. /\ op[c] \in {"run", "rollback"}
      /\ op[c] = "run" => Versions \ work[c] \subseteq recorded
      /\ op[c] = "rollback" => \A u \in recorded \ work[c] : \A w \in work[c] : u < w
      /\ "table" \in tx[c] \/ (v \in tables <=> op[c] = "run")
      /\ "row" \in tx[c] \/ (op[c] = "rollback" /\ v \notin recorded)
      /\ recorded = tables /\ recorded \subseteq Versions
      /\ \A u \in recorded : \A w \in Versions : w < u => w \in recorded
  BY DEF Consistent, WorkLeft, TxComplete, Agreement, Working, MigrationsTypeOK
<1>3. /\ tables' = IF "table" \notin tx[c] THEN tables
                   ELSE IF op[c] = "run" THEN tables \union {v} ELSE tables \ {v}
      /\ recorded' = IF "row" \notin tx[c] THEN recorded
                     ELSE IF op[c] = "run" THEN recorded \union {v} ELSE recorded \ {v}
  BY DEF Publish
<1> HIDE DEF v
<1>4. CASE op[c] = "run"
  <2>1. recorded' = recorded \union {v} /\ tables' = recorded'
    BY <1>2, <1>3, <1>4
  <2>2. ASSUME NEW w \in Versions, w < v PROVE w \in recorded
    <3>1. w \in Nat /\ v \in Nat
      BY <1>1, <2>2
    <3>2. ~ (v <= w)
      BY <2>2, <3>1
    <3>. QED  BY <1>1, <1>2, <1>4, <3>2
  <2>3. Agreement'
    BY <1>1, <1>2, <2>1, <2>2 DEF Agreement
  <2>. QED  BY <1>4, <2>1, <2>3 DEF v
<1>5. CASE op[c] = "rollback"
  <2>1. recorded' = recorded \ {v} /\ tables' = recorded'
    BY <1>2, <1>3, <1>5
  <2>2. \A u \in recorded : ~ (v < u)
    <3>1. \A u \in recorded : u \in Nat /\ v \in Nat /\ (u \in work[c] => u <= v)
                              /\ (u \notin work[c] => u < v)
      BY <1>1, <1>2, <1>5
    <3>. QED  BY <3>1
  <2>3. Agreement'
    BY <1>1, <1>2, <2>1, <2>2 DEF Agreement
  <2>. QED  BY <1>5, <2>1, <2>3 DEF v
<1>. QED  BY <1>2, <1>4, <1>5
\* Calling a function of the runner.
LEMMA CallInduction ==
  ASSUME MigrationsInv, NEW c \in Callers, NEW o \in {"run", "rollback", "status"}, Call(c, o)
  PROVE  MigrationsInv'
<1>1. MigrationsTypeOK'
  <2>1. overlapped' \in BOOLEAN
    BY Zenon DEF Call
  <2>2. rollbacks' \in 0 .. MaxRollbacks
    BY MigrationsAssumption DEF MigrationsInv, MigrationsTypeOK, Call
  <2>. QED  BY <2>1, <2>2 DEF MigrationsInv, MigrationsTypeOK, Call, Active
<1>2. ASSUME ~ overlapped' PROVE Consistent'
  <2>1. /\ ~ overlapped
        /\ \A d \in Callers : ~ (Active(d) /\ {op[d], o} = {"run", "rollback"})
    BY <1>2 DEF Call
  <2>2. /\ Consistent /\ step' = [step EXCEPT ![c] = "ensure"] /\ op' = [op EXCEPT ![c] = o]
        /\ UNCHANGED <<tables, recorded, work, tx>> /\ MigrationsTypeOK
    BY <2>1 DEF MigrationsInv, Call
  <2>3. \A d \in Callers : d # c => WorkLeft(d)' /\ TxComplete(d)'
    BY <2>2 DEF MigrationsTypeOK, Consistent, WorkLeft, TxComplete, Working, Current
  <2>4. WorkLeft(c)' /\ TxComplete(c)'
    BY <2>2 DEF MigrationsTypeOK, WorkLeft, TxComplete, Working
  <2>5. \A d, e \in Callers : Active(d)' /\ Active(e)' => ~ (op'[d] = "run" /\ op'[e] = "rollback")
    <3>1. \A d \in Callers : Active(d) => ~ (op[d] = "run" /\ o = "rollback")
                                          /\ ~ (op[d] = "rollback" /\ o = "run")
      BY <2>1
    <3>. QED  BY <2>2, <3>1 DEF MigrationsTypeOK, Consistent, Active
  <2>6. Agreement'
    BY <2>2 DEF Consistent, Agreement
  <2>. QED  BY <2>3, <2>4, <2>5, <2>6 DEF Consistent
<1>. QED  BY <1>1, <1>2 DEF MigrationsInv

\* A call that returns without a COMMIT.
LEMMA ReturnInduction ==
  ASSUME MigrationsInv, NEW c \in Callers, Active(c), NEW outcome, Return(c, outcome),
         UNCHANGED <<tracking, tables, recorded, op, rollbacks, overlapped>>,
         faults' \in 0 .. MaxFaults
  PROVE  MigrationsInv'
<1>1. /\ MigrationsTypeOK'
      /\ step'[c] = "idle"
      /\ \A d \in Callers \ {c} : step'[d] = step[d] /\ work'[d] = work[d] /\ tx'[d] = tx[d]
  <2>1. MigrationsTypeOK
    BY DEF MigrationsInv
  <2>2. /\ tracking' \in BOOLEAN /\ overlapped' \in BOOLEAN
        /\ tables' \subseteq Versions /\ recorded' \subseteq Versions
        /\ rollbacks' \in 0 .. MaxRollbacks
    BY <2>1 DEF MigrationsTypeOK
  <2>. QED  BY <2>1, <2>2, ReturnTypes
<1>2. ASSUME ~ overlapped' PROVE Consistent'
  <2>1. MigrationsTypeOK /\ Consistent
    BY <1>2 DEF MigrationsInv
  <2>2. Agreement' /\ WorkLeft(c)' /\ TxComplete(c)'
    BY <1>1, <2>1 DEF Consistent, Agreement, WorkLeft, TxComplete, Working
  <2>. QED  BY <1>1, <2>1, <2>2, StepKeepsConsistent
<1>. QED  BY <1>1, <1>2 DEF MigrationsInv

\* The versions not applied, and the last applied ones, are where they should be.
LEMMA ReadingInduction ==
  ASSUME MigrationsInv, NEW c \in Callers, GetAppliedMigrations(c)
  PROVE  MigrationsInv'
<1>1. /\ MigrationsTypeOK /\ Active(c) /\ op[c] \in {"run", "rollback"}
      /\ UNCHANGED <<tracking, tables, recorded, op, rollbacks, faults, overlapped>>
      /\ faults' \in 0 .. MaxFaults
  BY DEF MigrationsInv, MigrationsTypeOK, GetAppliedMigrations, Active
<1>2. PICK versions \in SUBSET Versions :
        /\ Begin(c, versions)
        /\ op[c] = "run" => Versions \ versions \subseteq recorded
        /\ op[c] = "rollback" => \A v \in recorded \ versions : \A w \in versions : v < w
  <2>1. CASE op[c] = "run"
    <3>1. Begin(c, Versions \ recorded)
      BY <2>1 DEF GetAppliedMigrations
    <3>. QED  BY <2>1, <3>1
  <2>2. CASE op[c] = "rollback"
    <3>1. PICK n \in 0 .. Cardinality(Versions) : Begin(c, LastApplied(n))
      BY <2>2 DEF GetAppliedMigrations
    <3>2. recorded \subseteq Versions /\ recorded \subseteq Nat /\ IsFiniteSet(recorded)
      BY <1>1, LeftAreFinite DEF MigrationsTypeOK
    <3>3. ASSUME NEW v \in recorded \ LastApplied(n), NEW w \in LastApplied(n), ~ (v < w)
          PROVE  FALSE
      <4> DEFINE From(u) == {x \in recorded : u <= x}
      <4>1. w \in recorded /\ Cardinality(From(w)) <= n /\ ~ (Cardinality(From(v)) <= n)
        BY <3>3 DEF LastApplied
      <4>2. \A x \in recorded : v <= x => w <= x
        BY <3>2, <3>3, <4>1
      <4>3. From(v) \subseteq From(w) /\ From(w) \subseteq recorded /\ From(v) \subseteq recorded
        BY <4>2
      <4> HIDE DEF From
      <4>4. IsFiniteSet(From(v)) /\ IsFiniteSet(From(w))
        BY <3>2, <4>3, FS_Subset
      <4>5. Cardinality(From(v)) <= Cardinality(From(w))
        BY <4>3, <4>4, FS_Subset
      <4>6. Cardinality(From(v)) \in Nat /\ Cardinality(From(w)) \in Nat
        BY <4>4, FS_CardinalityType
      <4>7. n \in Int
        OBVIOUS
      <4>. QED  BY <4>1, <4>5, <4>6, <4>7
    <3>4. LastApplied(n) \in SUBSET Versions
      BY <3>2 DEF LastApplied
    <3>. QED  BY <2>2, <3>1, <3>3, <3>4
  <2>. QED  BY <1>1, <2>1, <2>2
<1>3. CASE versions = {}
  BY <1>1, <1>2, <1>3, ReturnInduction DEF Begin
<1>4. CASE versions # {}
  <2>1. /\ step' = [step EXCEPT ![c] = "change"] /\ work' = [work EXCEPT ![c] = versions]
        /\ UNCHANGED <<tx, failed>>
    BY <1>2, <1>4 DEF Begin
  <2>2. MigrationsTypeOK'
    BY <1>1, <1>4, <2>1 DEF MigrationsTypeOK, GetAppliedMigrations
  <2>3. ASSUME ~ overlapped' PROVE Consistent'
    <3>1. Consistent
      BY <1>1, <2>3 DEF MigrationsInv
    <3>2. \A d \in Callers \ {c} : step'[d] = step[d] /\ work'[d] = work[d] /\ tx'[d] = tx[d]
      BY <1>1, <2>1 DEF MigrationsTypeOK
    <3>3. Agreement' /\ WorkLeft(c)' /\ TxComplete(c)'
      BY <1>1, <1>2, <2>1, <3>1
         DEF MigrationsTypeOK, Consistent, Agreement, WorkLeft, TxComplete, Working
    <3>. QED  BY <1>1, <3>1, <3>2, <3>3, StepKeepsConsistent
  <2>. QED  BY <2>2, <2>3 DEF MigrationsInv
<1>. QED  BY <1>3, <1>4

\* A step within a transaction: schema and record stay, and the caller's
\* transaction stays complete.
LEMMA StatementInduction ==
  ASSUME MigrationsInv, NEW c \in Callers, Working(c),
         NEW next \in {"record", "commit", "undo"}, step' = [step EXCEPT ![c] = next],
         NEW changes \in SUBSET {"table", "row"}, tx' = [tx EXCEPT ![c] = changes],
         UNCHANGED <<tracking, tables, recorded, op, work, failed, rollbacks, overlapped>>,
         faults' \in 0 .. MaxFaults,
         Consistent => TxComplete(c)'
  PROVE  MigrationsInv'
<1>1. MigrationsTypeOK /\ MigrationsTypeOK'
  BY DEF MigrationsInv, MigrationsTypeOK, Working
<1>2. ASSUME ~ overlapped' PROVE Consistent'
  <2>1. Consistent /\ Active(c)
    BY <1>2 DEF MigrationsInv, Working, Active
  <2>2. \A d \in Callers \ {c} : step'[d] = step[d] /\ work'[d] = work[d] /\ tx'[d] = tx[d]
    BY <1>1 DEF MigrationsTypeOK
  <2>3. Agreement' /\ WorkLeft(c)'
    BY <1>1, <2>1 DEF MigrationsTypeOK, Consistent, Agreement, WorkLeft, Working
  <2>. QED  BY <1>1, <2>1, <2>2, <2>3, StepKeepsConsistent
<1>. QED  BY <1>1, <1>2 DEF MigrationsInv

\* A COMMIT that reaches the server, after which the call returns or goes on with
\* the next version.
LEMMA CommitInduction ==
  ASSUME MigrationsInv, NEW c \in Callers, step[c] = "commit", Publish(c),
         UNCHANGED <<tracking, op, rollbacks, overlapped>>, faults' \in 0 .. MaxFaults,
         NEW outcome,
         \/ Return(c, outcome)
         \/ /\ work[c] # {Current(c)}
            /\ work' = [work EXCEPT ![c] = @ \ {Current(c)}]
            /\ tx' = [tx EXCEPT ![c] = {}]
            /\ step' = [step EXCEPT ![c] = "change"]
            /\ UNCHANGED failed
  PROVE  MigrationsInv'
<1> DEFINE Continues == /\ work[c] # {Current(c)}
                        /\ work' = [work EXCEPT ![c] = @ \ {Current(c)}]
                        /\ tx' = [tx EXCEPT ![c] = {}]
                        /\ step' = [step EXCEPT ![c] = "change"]
                        /\ UNCHANGED failed
<1>1. /\ MigrationsTypeOK /\ Active(c) /\ Working(c) /\ work[c] # {}
      /\ tables' \subseteq Versions /\ recorded' \subseteq Versions
      /\ Current(c) \in work[c] /\ work[c] \in SUBSET Versions
  <2>1. MigrationsTypeOK /\ work[c] # {}
    BY DEF MigrationsInv, MigrationsTypeOK
  <2>. QED  BY <2>1, PublishTypes, CurrentIsNext DEF Active, Working
<1>2. /\ MigrationsTypeOK'
      /\ \A d \in Callers \ {c} : step'[d] = step[d] /\ work'[d] = work[d] /\ tx'[d] = tx[d]
  <2>1. CASE Return(c, outcome)
    <3>1. /\ tracking' \in BOOLEAN /\ overlapped' \in BOOLEAN
          /\ rollbacks' \in 0 .. MaxRollbacks
      BY <1>1 DEF MigrationsTypeOK
    <3>. QED  BY <1>1, <2>1, <3>1, ReturnTypes
  <2>2. CASE Continues
    <3>1. work[c] \ {Current(c)} # {}
      BY <1>1, <2>2
    <3>. QED  BY <1>1, <2>2, <3>1 DEF MigrationsTypeOK
  <2>. QED  BY <2>1, <2>2
<1>3. ASSUME ~ overlapped' PROVE Consistent'
  <2>1. Consistent
    BY <1>3 DEF MigrationsInv
  <2>2. /\ Agreement'
        /\ \/ op[c] = "run" /\ recorded' = recorded \union {Current(c)}
           \/ op[c] = "rollback" /\ recorded' = recorded \ {Current(c)}
    BY <1>1, <2>1, PublishAgrees
  <2>3. WorkLeft(c)' /\ TxComplete(c)'
    <3>1. CASE Return(c, outcome)
      <4>1. step'[c] = "idle"
        BY <1>1, <3>1 DEF Return, MigrationsTypeOK
      <4>. QED  BY <4>1 DEF WorkLeft, TxComplete, Working
    <3>2. CASE Continues
      <4> HIDE DEF Continues
      <4>1. step'[c] = "change" /\ work'[c] = work[c] \ {Current(c)} /\ op'[c] = op[c]
        BY <1>1, <3>2 DEF Continues, MigrationsTypeOK
      <4>2. WorkLeft(c)
        BY <2>1 DEF Consistent
      <4>3. WorkLeft(c)'
        BY <1>1, <2>2, <4>1, <4>2 DEF WorkLeft
      <4>. QED  BY <4>1, <4>3 DEF TxComplete
    <3>. QED  BY <3>1, <3>2
  <2>4. \/ op[c] = "run" /\ recorded \subseteq recorded'
        \/ op[c] = "rollback" /\ recorded' \subseteq recorded
    BY <2>2
  <2>. QED  BY <1>1, <1>2, <2>1, <2>2, <2>3, <2>4, StepKeepsConsistent
<1>. QED  BY <1>2, <1>3 DEF MigrationsInv

\* The invariant of the migrations runner is inductive.
LEMMA MigrationsInduction ==
  /\ MigrationsInit => MigrationsInv
  /\ MigrationsInv /\ [MigrationsNext]_migrationsVars => MigrationsInv'
<1>1. MigrationsInit => MigrationsInv
  <2> SUFFICES ASSUME MigrationsInit PROVE MigrationsInv
    OBVIOUS
  <2>1. tracking \in BOOLEAN /\ overlapped \in BOOLEAN
    BY Zenon DEF MigrationsInit
  <2>2. MigrationsTypeOK
    BY <2>1, MigrationsAssumption DEF MigrationsInit, MigrationsTypeOK
  <2>3. Consistent
    BY DEF MigrationsInit, Consistent, Agreement, Active, WorkLeft, TxComplete, Working
  <2>. QED  BY <2>2, <2>3 DEF MigrationsInv
<1>2. MigrationsInv /\ [MigrationsNext]_migrationsVars => MigrationsInv'
  <2> SUFFICES ASSUME MigrationsInv, [MigrationsNext]_migrationsVars PROVE MigrationsInv'
    OBVIOUS
  <2>0. /\ MigrationsTypeOK /\ faults \in 0 .. MaxFaults /\ MaxFaults \in Nat
        /\ \A c \in Callers : tx[c] \in SUBSET {"table", "row"}
        /\ step \in [Callers -> {"idle", "ensure", "read", "change", "record", "commit", "undo"}]
    BY MigrationsAssumption DEF MigrationsInv, MigrationsTypeOK
  <2>1. ASSUME NEW c \in Callers, EnsureMigrationsTable(c) PROVE MigrationsInv'
    <3>1. tracking' \in BOOLEAN
      BY <2>1, Zenon DEF EnsureMigrationsTable
    <3>2. MigrationsTypeOK'
      BY <2>0, <2>1, <3>1 DEF EnsureMigrationsTable, MigrationsTypeOK
    <3>3. ASSUME ~ overlapped' PROVE Consistent'
      <4>1. /\ Consistent /\ Active(c) /\ op' = op /\ recorded' = recorded /\ tables' = tables
            /\ step' = [step EXCEPT ![c] = "read"] /\ work' = work /\ tx' = tx
        BY <2>1, <3>3 DEF MigrationsInv, EnsureMigrationsTable, Active
      <4>2. /\ \A d \in Callers \ {c} : step'[d] = step[d] /\ work'[d] = work[d] /\ tx'[d] = tx[d]
            /\ step'[c] = "read"
        BY <2>0, <4>1
      <4>3. Agreement' /\ WorkLeft(c)' /\ TxComplete(c)'
        BY <4>1, <4>2 DEF Consistent, Agreement, WorkLeft, TxComplete, Working
      <4>. QED  BY <2>0, <4>1, <4>2, <4>3, StepKeepsConsistent
    <3>. QED  BY <3>2, <3>3 DEF MigrationsInv
  <2>2. ASSUME NEW c \in Callers, GetMigrationStatus(c) \/ Rollback(c) PROVE MigrationsInv'
    <3>1. PICK outcome \in {"ok", "error"} : Return(c, outcome)
      BY <2>2 DEF GetMigrationStatus, Rollback
    <3>. QED  BY <2>0, <2>2, <3>1, ReturnInduction DEF GetMigrationStatus, Rollback, Active
  <2>3. ASSUME NEW c \in Callers, ChangeSchema(c) PROVE MigrationsInv'
    <3> DEFINE changes == IF HasEffect(c) THEN tx[c] \union {"table"} ELSE tx[c]
    <3>1. /\ changes \in SUBSET {"table", "row"} /\ tx' = [tx EXCEPT ![c] = changes]
          /\ step' = [step EXCEPT ![c] = "record"] /\ Working(c) /\ faults' \in 0 .. MaxFaults
          /\ UNCHANGED <<tracking, tables, recorded, op, work, failed, rollbacks, overlapped>>
      BY <2>0, <2>3 DEF ChangeSchema, Working, MigrationsTypeOK
    <3>2. ASSUME Consistent PROVE TxComplete(c)'
      <4>1. step'[c] = "record" /\ tx'[c] = changes
        BY <2>0, <3>1 DEF MigrationsTypeOK
      <4>2. Current(c)' = Current(c) /\ tables' = tables /\ op'[c] = op[c]
        BY <3>1 DEF Current
      <4>3. "table" \in tx'[c] \/ (Current(c) \in tables <=> op[c] = "run")
        BY <4>1 DEF HasEffect
      <4>. QED  BY <4>1, <4>2, <4>3 DEF TxComplete
    <3> HIDE DEF changes
    <3>. QED  BY <3>1, <3>2, StatementInduction
  <2>4. ASSUME NEW c \in Callers, RecordVersion(c) PROVE MigrationsInv'
    <3>1. /\ Working(c) /\ step[c] = "record" /\ faults' \in 0 .. MaxFaults
          /\ UNCHANGED <<tracking, tables, recorded, op, work, failed, rollbacks, overlapped>>
      BY <2>0, <2>4 DEF RecordVersion, Working
    <3>2. Current(c)' = Current(c)
      BY <3>1 DEF Current
    <3>3. CASE Current(c) \in recorded /\ op[c] = "run"
      <4>1. step' = [step EXCEPT ![c] = "undo"] /\ tx' = [tx EXCEPT ![c] = tx[c]]
        BY <2>0, <2>4, <3>3 DEF RecordVersion, MigrationsTypeOK
      <4>2. step'[c] = "undo"
        BY <2>0, <4>1
      <4>3. TxComplete(c)'
        BY <4>2 DEF TxComplete
      <4>. QED  BY <2>0, <3>1, <4>1, <4>3, StatementInduction
    <3>4. CASE ~ (Current(c) \in recorded /\ op[c] = "run")
      <4> DEFINE changes == IF Current(c) \notin recorded /\ op[c] = "rollback"
                            THEN tx[c] ELSE tx[c] \union {"row"}
      <4>1. /\ step' = [step EXCEPT ![c] = "commit"] /\ tx' = [tx EXCEPT ![c] = changes]
            /\ changes \in SUBSET {"table", "row"}
        BY <2>0, <2>4, <3>4 DEF RecordVersion, MigrationsTypeOK
      <4>2. ASSUME Consistent PROVE TxComplete(c)'
        <5>1. step'[c] = "commit" /\ tx'[c] = changes
          BY <2>0, <4>1 DEF MigrationsTypeOK
        <5>2. TxComplete(c)
          BY <4>2 DEF Consistent
        <5>3. "table" \in tx'[c] \/ (Current(c) \in tables <=> op[c] = "run")
          BY <3>1, <5>1, <5>2 DEF TxComplete
        <5>4. "row" \in tx'[c] \/ (op[c] = "rollback" /\ Current(c) \notin recorded)
          BY <5>1
        <5> HIDE DEF changes
        <5>. QED  BY <3>1, <3>2, <5>1, <5>3, <5>4 DEF TxComplete
      <4> HIDE DEF changes
      <4>. QED  BY <3>1, <4>1, <4>2, StatementInduction
    <3>. QED  BY <3>3, <3>4
  <2>5. ASSUME NEW c \in Callers, Commit(c) PROVE MigrationsInv'
    <3>1. /\ step[c] = "commit" /\ Publish(c) /\ faults' \in 0 .. MaxFaults
          /\ UNCHANGED <<tracking, op, rollbacks, overlapped>>
          /\ \/ Return(c, "ok")
             \/ /\ work[c] # {Current(c)}
                /\ work' = [work EXCEPT ![c] = @ \ {Current(c)}]
                /\ tx' = [tx EXCEPT ![c] = {}]
                /\ step' = [step EXCEPT ![c] = "change"]
                /\ UNCHANGED failed
      BY <2>0, <2>5 DEF Commit
    <3>. QED  BY <3>1, CommitInduction
  <2>6. ASSUME NEW c \in Callers, StatementFails(c) PROVE MigrationsInv'
    <3>1. /\ faults' \in 0 .. MaxFaults
          /\ UNCHANGED <<tracking, tables, recorded, op, rollbacks, overlapped>>
      BY <2>0, <2>6 DEF StatementFails
    <3>2. CASE Return(c, "error") /\ step[c] \in {"ensure", "read"}
      BY <3>1, <3>2, ReturnInduction DEF Active
    <3>3. CASE /\ step[c] \in {"change", "record", "commit"}
               /\ step' = [step EXCEPT ![c] = "undo"]
               /\ UNCHANGED <<work, tx, failed>>
      <4>1. tx' = [tx EXCEPT ![c] = tx[c]] /\ Working(c)
        BY <2>0, <3>3 DEF Working, MigrationsTypeOK
      <4>2. step'[c] = "undo"
        BY <2>0, <3>3
      <4>3. TxComplete(c)'
        BY <4>2 DEF TxComplete
      <4>. QED  BY <2>0, <3>1, <3>3, <4>1, <4>3, StatementInduction
    <3>. QED  BY <2>6, <3>2, <3>3 DEF StatementFails
  <2>7. ASSUME NEW c \in Callers, ConnectionLost(c) PROVE MigrationsInv'
    <3>1. /\ faults' \in 0 .. MaxFaults /\ Active(c) /\ Return(c, "error")
          /\ UNCHANGED <<tracking, op, rollbacks, overlapped>>
          /\ UNCHANGED <<tables, recorded>> \/ (step[c] = "commit" /\ Publish(c))
      BY <2>0, <2>7 DEF ConnectionLost
    <3>2. CASE UNCHANGED <<tables, recorded>>
      BY <3>1, <3>2, ReturnInduction
    <3>3. CASE step[c] = "commit" /\ Publish(c)
      BY <3>1, <3>3, CommitInduction
    <3>. QED  BY <3>1, <3>2, <3>3
  <2>8. CASE UNCHANGED migrationsVars
    BY <2>0, <2>8 DEF migrationsVars, MigrationsInv, MigrationsTypeOK, Consistent, Agreement,
                      Active, WorkLeft, TxComplete, Working, Current
  <2>. QED  BY <2>1, <2>2, <2>3, <2>4, <2>5, <2>6, <2>7, <2>8, CallInduction, ReadingInduction
            DEF MigrationsNext, Proceed
<1>. QED  BY <1>1, <1>2

-----------------------------------------------------------------------------
(* The services side by side.                                              *)

\* A step of the composition is a step of each service, or leaves it alone.
LEMMA Invariance == Spec => []IInv
<1>1. Init => IInv
  BY MigrationsInduction, PoolInduction, VectorInduction DEF Init, IInv
<1>2. IInv /\ [Next]_vars => IInv'
  <2> SUFFICES ASSUME IInv, [Next]_vars PROVE IInv'
    OBVIOUS
  <2>1. [MigrationsNext]_migrationsVars /\ [PoolNext]_poolVars /\ [VectorNext]_vectorVars
    BY DEF Next, vars
  <2>. QED  BY <2>1, MigrationsInduction, PoolInduction, VectorInduction DEF IInv
<1>. QED  BY <1>1, <1>2, PTL DEF Spec

\* THEOREM.  Every variable of the services keeps its type.
THEOREM TypeCorrect == Spec => []DatabaseTypeOK
<1>1. IInv => DatabaseTypeOK
  BY DEF IInv, MigrationsInv, PoolInv, VectorInv, DatabaseTypeOK
<1>. QED  BY <1>1, Invariance, PTL

\* THEOREM.  Whatever callers overlap and wherever statements, connections or the
\* process fail, the recorded versions are those whose change is in the schema,
\* and have no gap, as long as no run overlaps with a rollback.
THEOREM RecordsAgree == Spec => []RecordMatchesSchema
<1>1. IInv => RecordMatchesSchema
  BY DEF IInv, MigrationsInv, Consistent, Agreement, RecordMatchesSchema
<1>. QED  BY <1>1, Invariance, PTL

\* THEOREM.  Every connection handed out is held by a call in progress or was lost
\* by a failing test query, no ended pool has one out, and no pool stays open
\* that the module has forgotten unless it was initialized twice.
THEOREM NothingLeaks == Spec => []PoolsAccounted
<1>1. IInv => PoolsAccounted
  BY DEF IInv, PoolInv
<1>. QED  BY <1>1, Invariance, PTL

\* THEOREM.  A search sees all of a batch or nothing of it, unless a later call
\* changed a part of it or it was committed during a clearNamespace.
THEOREM BatchesAreAtomic == Spec => []BatchAllOrNothing
<1>1. IInv => BatchAllOrNothing
  <2> SUFFICES ASSUME IInv, NEW b \in Batches \ disturbed
               PROVE  {k \in SearchSimilar : rows[k] = b} \in {{}, ToSet(Records[b])}
    BY DEF BatchAllOrNothing
  <2>1. {k \in SearchSimilar : rows[k] = b} \in {{}, Stored(b)}
    BY VectorAssumption DEF SearchSimilar, Stored
  <2>. QED  BY <2>1 DEF IInv, VectorInv, StoredWhole
<1>. QED  BY <1>1, Invariance, PTL
=============================================================================
