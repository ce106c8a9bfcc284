----------------------------- MODULE VectorStore -----------------------------
(***************************************************************************)
(* The vector store of src/services/database/vectorStore.ts, seen from its *)
(* table: one namespace, to which callers upsert single vectors and        *)
(* batches, and from which they delete.                                    *)
(*                                                                         *)
(* PostgreSQL is external.  An upsert locks its row until its transaction  *)
(* ends, a statement that meets a lock waits, and of transactions waiting  *)
(* for each other one is aborted.  A DELETE over the namespace removes the *)
(* rows it saw when it started, once their locks are gone.                 *)
(***************************************************************************)
EXTENDS Integers, Sequences, FiniteSets, SequencesExt

CONSTANTS
  Ids,       \* ids of vectors in the namespace
  Batches,   \* calls of batchUpsertVectors and upsertVector, each made once
  Records,   \* the ids each of them writes, in order; one id for upsertVector
  MaxDeletes \* bound on calls of deleteVector and clearNamespace

NoVector == "none"

ASSUME VectorAssumption ==
  /\ NoVector \notin Batches
  /\ Records \in [Batches -> Seq(Ids) \ {<<>>}]
  /\ MaxDeletes \in Nat

VARIABLES
  ready,      \* the table exists
  rows,       \* the committed table: the batch whose vector an id has
  phase,      \* state of each batch
  position,   \* records of it that are written, uncommitted
  clearing,   \* rows the DELETEs of clearNamespace in progress have seen
  deletes,
  disturbed   \* history: batches of which a later call has changed a part

vectorVars == <<ready, rows, phase, position, clearing, deletes, disturbed>>

VectorInit ==
  /\ ready = FALSE
  /\ rows = [k \in Ids |-> NoVector]
  /\ phase = [b \in Batches |-> "new"]
  /\ position = [b \in Batches |-> 0]
  /\ clearing = {}
  /\ deletes = 0
  /\ disturbed = {}

Written(b) == ToSet(SubSeq(Records[b], 1, position[b]))
RowLocked(k, b) == \E c \in Batches \ {b} : phase[c] = "open" /\ k \in Written(c)

\* initializeVectorStore swallows its errors: the table may or may not exist
\* afterwards, and until it does every other statement fails.
InitializeVectorStore ==
  /\ ready' \in {ready, TRUE}
  /\ UNCHANGED <<rows, phase, position, clearing, deletes, disturbed>>

\* BEGIN.
BatchUpsertVectors(b) ==
  /\ phase[b] = "new"
  /\ phase' = [phase EXCEPT ![b] = "open"]
  /\ UNCHANGED <<ready, rows, position, clearing, deletes, disturbed>>

\* Mutant: the records are written through the pool, each committed at once.
UpsertByPool(b) ==
  /\ phase[b] = "open"
  /\ position[b] < Len(Records[b])
  /\ rows' = [rows EXCEPT ![Records[b][position[b] + 1]] = b]
  /\ position' = [position EXCEPT ![b] = @ + 1]
  /\ UNCHANGED <<ready, phase, clearing, deletes, disturbed>>

\* INSERT ... ON CONFLICT DO UPDATE of the next record.
Upsert(b) ==
  /\ phase[b] = "open"
  /\ position[b] < Len(Records[b])
  /\ ready /\ ~ RowLocked(Records[b][position[b] + 1], b)
  /\ position' = [position EXCEPT ![b] = @ + 1]
  /\ UNCHANGED <<ready, rows, phase, clearing, deletes, disturbed>>

\* Rows become visible; part of a batch stored earlier changes if the ids overlap.
Store(b, ids) ==
  /\ rows' = [k \in Ids |-> IF k \in ids THEN b ELSE rows[k]]
  /\ phase' = [phase EXCEPT ![b] = "done"]
  /\ disturbed' = disturbed
       \union {c \in Batches : /\ phase[c] = "done"
                               /\ ToSet(Records[c]) \cap ids # {}
                               /\ ~ ToSet(Records[c]) \subseteq ids}
       \union (IF clearing = {} THEN {} ELSE {b})

\* COMMIT.
CommitBatch(b) ==
  /\ phase[b] = "open"
  /\ position[b] = Len(Records[b])
  /\ Store(b, Written(b))
  /\ position' = [position EXCEPT ![b] = 0]
  /\ UNCHANGED <<ready, clearing, deletes>>

\* One statement, committed by itself.
UpsertVector(b) ==
  /\ phase[b] = "new" /\ Len(Records[b]) = 1
  /\ ready /\ ~ RowLocked(Records[b][1], b)
  /\ Store(b, ToSet(Records[b]))
  /\ UNCHANGED <<ready, position, clearing, deletes>>

\* A statement fails, a deadlock is broken or the connection is lost: rolled back.
AbortBatch(b) ==
  /\ phase[b] = "open"
  /\ phase' = [phase EXCEPT ![b] = "failed"]
  /\ position' = [position EXCEPT ![b] = 0]
  /\ UNCHANGED <<ready, rows, clearing, deletes, disturbed>>

DeleteVector(k) ==
  /\ deletes < MaxDeletes /\ deletes' = deletes + 1
  /\ \A b \in Batches : ~ RowLocked(k, b)
  /\ rows' = [rows EXCEPT ![k] = NoVector]
  /\ disturbed' = disturbed \union {b \in Batches : rows[k] = b}
  /\ UNCHANGED <<ready, phase, position, clearing>>

\* clearNamespace takes its snapshot ...
ClearNamespace ==
  /\ deletes < MaxDeletes /\ deletes' = deletes + 1
  /\ clearing = {}
  /\ clearing' = {k \in Ids : rows[k] # NoVector}
  /\ UNCHANGED <<ready, rows, phase, position, disturbed>>

\* ... and deletes what it saw.
ClearEnds ==
  /\ clearing # {}
  /\ \A k \in clearing : \A b \in Batches : ~ RowLocked(k, b)
  /\ rows' = [k \in Ids |-> IF k \in clearing THEN NoVector ELSE rows[k]]
  /\ clearing' = {}
  /\ UNCHANGED <<ready, phase, position, deletes, disturbed>>

\* What searchSimilar returns if topK and the threshold leave nothing out; it
\* returns nothing when the query fails.
SearchSimilar == IF ready THEN {k \in Ids : rows[k] # NoVector} ELSE {}

-----------------------------------------------------------------------------
VectorNext ==
  \/ InitializeVectorStore
  \/ \E b \in Batches :
       \/ BatchUpsertVectors(b) \/ Upsert(b) \/ CommitBatch(b) \/ AbortBatch(b)
       \/ UpsertVector(b)
  \/ \E k \in Ids : DeleteVector(k)
  \/ ClearNamespace
  \/ ClearEnds

VectorSpec == VectorInit /\ [][VectorNext]_vectorVars

-----------------------------------------------------------------------------
VectorTypeOK ==
  /\ ready \in BOOLEAN
  /\ rows \in [Ids -> Batches \union {NoVector}]
  /\ phase \in [Batches -> {"new", "open", "done", "failed"}]
  /\ \A b \in Batches : position[b] \in 0 .. Len(Records[b])
  /\ clearing \subseteq Ids
  /\ deletes \in 0 .. MaxDeletes
  /\ disturbed \subseteq Batches

\* What a search sees of a batch is all of it or nothing, whatever batches over
\* the same ids overlap with it and wherever it fails, unless a later call
\* replaced or deleted a part of it, or it was committed while clearNamespace
\* was under way (which misses the rows the batch inserted).
BatchAllOrNothing ==
  \A b \in Batches \ disturbed :
    {k \in SearchSimilar : rows[k] = b} \in {{}, ToSet(Records[b])}
=============================================================================
