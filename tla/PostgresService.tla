---------------------------- MODULE PostgresService ----------------------------
(***************************************************************************)
(* The connection pool of src/services/database/postgresService.ts in one  *)
(* process, with concurrent calls of its functions.                        *)
(*                                                                         *)
(* The pool of the pg package is external: it hands out at most `max`      *)
(* connections, lets a caller wait until one is returned or a timeout      *)
(* passes, serves nobody once end() has been called, and end() resolves    *)
(* when every connection handed out has come back.  A second end() is      *)
(* refused, and so is a connection from a pool that is ending: such a call  *)
(* throws at once, as does one that finds no pool, and changes nothing.    *)
(***************************************************************************)
EXTENDS Integers, FiniteSets

CONSTANTS
  Requests,        \* concurrent calls
  MaxPools,        \* bound on calls of initializePool
  MaxConnections   \* config.max

ASSUME PostgresAssumption ==
  IsFiniteSet(Requests) /\ MaxPools \in Nat /\ MaxConnections \in Nat \ {0}

VARIABLES
  pool,        \* the module's pool; 0 is null
  poolState,   \* state of each pool created
  checkedOut,  \* connections it has handed out and not got back
  call,        \* the function each request is in, or was in last
  at,          \* where the request is suspended
  mine,        \* the pool it took from `pool`
  leaks,       \* history: connections lost by a failing test query
  clashed      \* history: initializePool was called over a pool in use

poolVars == <<pool, poolState, checkedOut, call, at, mine, leaks, clashed>>

Pools == 1 .. MaxPools

PoolInit ==
  /\ pool = 0
  /\ poolState = [p \in Pools |-> "none"]
  /\ checkedOut = [p \in Pools |-> 0]
  /\ call = [r \in Requests |-> "query"]
  /\ at = [r \in Requests |-> "idle"]
  /\ mine = [r \in Requests |-> 0]
  /\ leaks = [p \in Pools |-> 0]
  /\ clashed = FALSE

Suspend(r, c, where, p) ==
  /\ at[r] = "idle"
  /\ call' = [call EXCEPT ![r] = c]
  /\ at' = [at EXCEPT ![r] = where]
  /\ mine' = [mine EXCEPT ![r] = p]

\* initializePool: a new pool replaces whatever `pool` was.
InitializePool(r) ==
  \E p \in Pools :
    /\ \A q \in Pools : poolState[q] = "none" <=> q >= p
    /\ pool' = p
    /\ poolState' = [poolState EXCEPT ![p] = "open"]
    /\ clashed' = (clashed \/ pool # 0)
    /\ Suspend(r, "initialize", "waiting", p)
    /\ UNCHANGED <<checkedOut, leaks>>

\* query, queryOne, batchInsert and withTransaction go through getPool.
UsePool(r, c) ==
  /\ pool # 0
  /\ poolState[pool] = "open"
  /\ Suspend(r, c, "waiting", pool)
  /\ UNCHANGED <<pool, poolState, checkedOut, leaks, clashed>>

Connect(r) ==
  /\ at[r] = "waiting"
  /\ poolState[mine[r]] = "open"
  /\ checkedOut[mine[r]] < MaxConnections
  /\ checkedOut' = [checkedOut EXCEPT ![mine[r]] = @ + 1]
  /\ at' = [at EXCEPT ![r] = "working"]
  /\ UNCHANGED <<pool, poolState, call, mine, leaks, clashed>>

\* The server refuses, or connectionTimeoutMillis passes.
ConnectFails(r) ==
  /\ at[r] = "waiting"
  /\ at' = [at EXCEPT ![r] = "idle"]
  /\ UNCHANGED <<pool, poolState, checkedOut, call, mine, leaks, clashed>>

Release(r) ==
  /\ checkedOut' = [checkedOut EXCEPT ![mine[r]] = @ - 1]
  /\ at' = [at EXCEPT ![r] = "idle"]
  /\ UNCHANGED <<pool, poolState, call, mine, leaks, clashed>>

\* The query settles, the transaction commits or the test query succeeds.
WorkEnds(r) == at[r] = "working" /\ Release(r)

\* initializePool releases its client only if the test query succeeds.
TestFails(r) ==
  /\ at[r] = "working" /\ call[r] = "initialize"
  /\ at' = [at EXCEPT ![r] = "idle"]
  /\ leaks' = [leaks EXCEPT ![mine[r]] = @ + 1]
  /\ UNCHANGED <<pool, poolState, checkedOut, call, mine, clashed>>

TransactionFails(r) ==
  /\ at[r] = "working" /\ call[r] = "transaction"
  /\ at' = [at EXCEPT ![r] = "undoing"]
  /\ UNCHANGED <<pool, poolState, checkedOut, call, mine, leaks, clashed>>

\* Mutant: a failing ROLLBACK leaves before the connection is released.
RollbackEndsUnreleased(r) ==
  /\ at[r] = "undoing"
  /\ Release(r) \/ (at' = [at EXCEPT ![r] = "idle"]
                    /\ UNCHANGED <<pool, poolState, checkedOut, call, mine, leaks, clashed>>)

\* ROLLBACK, successful or not; the finally block releases the client.
RollbackEnds(r) == at[r] = "undoing" /\ Release(r)

\* closePool calls end() on the pool it finds ...
ClosePool(r) ==
  /\ pool # 0
  /\ poolState[pool] = "open"
  /\ poolState' = [poolState EXCEPT ![pool] = "ending"]
  /\ Suspend(r, "close", "ending", pool)
  /\ UNCHANGED <<pool, checkedOut, leaks, clashed>>

\* ... and then clears `pool`, which may be another one by now.
CloseReturns(r) ==
  /\ at[r] = "ending"
  /\ checkedOut[mine[r]] = 0
  /\ poolState' = [poolState EXCEPT ![mine[r]] = "ended"]
  /\ pool' = 0
  /\ at' = [at EXCEPT ![r] = "idle"]
  /\ UNCHANGED <<checkedOut, call, mine, leaks, clashed>>

-----------------------------------------------------------------------------
PoolProceeds(r) ==
  \/ Connect(r) \/ ConnectFails(r) \/ WorkEnds(r) \/ TestFails(r)
  \/ TransactionFails(r) \/ RollbackEnds(r) \/ CloseReturns(r)

PoolNext ==
  \E r \in Requests :
    \/ InitializePool(r)
    \/ \E c \in {"query", "transaction"} : UsePool(r, c)
    \/ ClosePool(r)
    \/ PoolProceeds(r)

PoolSpec == PoolInit /\ [][PoolNext]_poolVars

\* Connections are granted or time out, queries settle and callbacks of
\* withTransaction return.
PoolFairness == \A r \in Requests : WF_poolVars(PoolProceeds(r))

-----------------------------------------------------------------------------
PoolTypeOK ==
  /\ pool \in 0 .. MaxPools
  /\ poolState \in [Pools -> {"none", "open", "ending", "ended"}]
  /\ checkedOut \in [Pools -> Nat]
  /\ call \in [Requests -> {"initialize", "query", "transaction", "close"}]
  /\ at \in [Requests -> {"idle", "waiting", "working", "undoing", "ending"}]
  /\ mine \in [Requests -> 0 .. MaxPools]
  /\ leaks \in [Pools -> Nat]
  /\ clashed \in BOOLEAN

Users(p) == {r \in Requests : at[r] \in {"working", "undoing"} /\ mine[r] = p}

\* Every connection a pool has handed out is held by a call in progress, or was
\* lost by a failing initializePool; an ended pool has them all back.
ConnectionsReturned ==
  \A p \in Pools :
    /\ checkedOut[p] = Cardinality(Users(p)) + leaks[p]
    /\ checkedOut[p] <= MaxConnections
    /\ poolState[p] = "ended" => checkedOut[p] = 0

\* No pool stays open behind the module's back, and the module never keeps an
\* ended one, unless initializePool is called while there is a pool: that pool
\* is then forgotten, and a closePool under way clears the new one.
NoOrphanPool ==
  ~ clashed =>
    /\ \A p \in Pools : poolState[p] \in {"open", "ending"} => p = pool
    /\ pool # 0 => poolState[pool] # "ended"

\* Connections and pools are accounted for.
PoolsAccounted == ConnectionsReturned /\ NoOrphanPool

\* closePool returns, whatever calls are in progress, unless the test query of
\* initializePool has lost a connection of that pool.
ClosesEnd ==
  \A r \in Requests : \A p \in Pools :
    (at[r] = "ending" /\ mine[r] = p) ~> (at[r] # "ending" \/ leaks[p] > 0)
=============================================================================
