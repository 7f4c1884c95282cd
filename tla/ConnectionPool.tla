---------------------------- MODULE ConnectionPool ----------------------------
(***************************************************************************)
(* SshConnectionPool (openterm-ssh/src/connection_pool.rs) at the          *)
(* granularity of its awaits: one action is what a task does between two   *)
(* of its suspension points.                                               *)
(*                                                                         *)
(*  - The pool mutex and the stats RwLock are RAII guards, so who holds    *)
(*    them follows from where the tasks are: see PoolLockFree and          *)
(*    StatsLockFree.  A guard that is taken and dropped without an await   *)
(*    in between is one atomic action that needs the lock free.            *)
(*  - `capacity` is a counting semaphore; a permit is free, held by a      *)
(*    caller between acquire_owned and the end of the dial, or travels     *)
(*    with an open connection, idle or not.                                *)
(*  - A DataConnection that is dropped spawns a task, here ret[k].         *)
(*  - Aborting a task drops what it holds, at whichever await it is.       *)
(***************************************************************************)
EXTENDS Integers, Sequences, FiniteSets, Functions

CONSTANTS Callers,    \* transfer tasks that borrow connections
          Conns,      \* identities of data connections; one is reused once closed
          Capacity,   \* PoolConfig::max_data_connections
          MaxFaults,  \* bound: how many connections may die under the pool
          NoConn

ASSUME PoolAssumption == /\ Capacity \in Nat \ {0}
                         /\ MaxFaults \in Nat
                         /\ NoConn \notin Conns
                         /\ IsFiniteSet(Callers)
                         /\ IsFiniteSet(Conns)
                         /\ Cardinality(Conns) >= Capacity \* a dial finds an identity

VARIABLES
  pc,        \* where each caller is in acquire_data_connection
  conn,      \* the connection a caller pops, pings, dials or uses
  hasPermit, \* callers that hold a fresh capacity permit
  ret,       \* the task that returns connection k: none, push or stats
  pool,      \* the idle connections, a Vec used as a stack
  permits,   \* free permits of the capacity semaphore
  open,      \* data connections that exist, each with its permit
  answering, \* the open ones whose peer still answers
  idle,      \* PoolStats::idle_connections
  active,    \* PoolStats::active_connections
  hpc,       \* where the health check task is
  cand,      \* the connections it took out of the pool and has not pinged
  kept,      \* the ones that answered
  spc,       \* how far the teardown has come
  faults     \* connections that have died so far, at most MaxFaults

callerVars == <<pc, conn, hasPermit>>
connVars   == <<permits, open, answering>>
statVars   == <<idle, active>>
healthVars == <<hpc, cand, kept>>
vars == <<callerVars, ret, pool, connVars, statVars, healthVars, spc, faults>>

(* The states of a caller; each but "idle" and "using" is an await.
   pop     pool.lock() of take_idle        wait    capacity.acquire_owned()
   ping    is_alive()                      dial    connect_with_route()
   empty, alive, dead, dialed              stats.write() with that outcome
   count   pool.lock() under the stats guard                                *)
PcStates == {"idle", "pop", "ping", "empty", "alive", "dead", "count",
             "wait", "dial", "dialed", "using"}

\* The type invariant.
PoolTypeOK ==
  /\ pc \in [Callers -> PcStates]
  /\ conn \in [Callers -> Conns \cup {NoConn}]
  /\ hasPermit \in SUBSET Callers
  /\ ret \in [Conns -> {"none", "push", "stats"}]
  /\ pool \in Seq(Conns)
  /\ permits \in Nat
  /\ open \in SUBSET Conns
  /\ answering \in SUBSET open
  /\ idle \in Nat /\ active \in Nat
  /\ hpc \in {"sleep", "ping", "stats", "stopped"}
  /\ cand \in Seq(Conns)
  /\ kept \in Seq(Conns)
  /\ spc \in {"open", "lock", "drain", "closed", "freed"}
  /\ faults \in 0 .. MaxFaults

------------------------------------------------------------------------------
(* The two locks.  The only awaits made under a guard are: take_idle waits
   for the pool mutex under the stats guard, a return waits for the stats
   lock under the pool guard, and shutdown disconnects under the pool guard. *)
PoolLockFree  == spc # "drain" /\ \A k \in Conns : ret[k] # "stats"
StatsLockFree == \A c \in Callers : pc[c] # "count"

MoveTo(c, state) == pc' = [pc EXCEPT ![c] = state]
Hold(c, k)       == conn' = [conn EXCEPT ![c] = k]

\* Bug variant: the permit does not travel with the connection.
DropForgetsPermit(k) == open' = open \ {k} /\ answering' = answering \ {k} /\ permits' = permits

\* A PooledConnection is dropped: the session closes and its permit is free.
Drop(k) == /\ open' = open \ {k}
           /\ answering' = answering \ {k}
           /\ permits' = permits + 1

Init ==
  /\ pc = [c \in Callers |-> "idle"]
  /\ conn = [c \in Callers |-> NoConn]
  /\ hasPermit = {}
  /\ ret = [k \in Conns |-> "none"]
  /\ pool = <<>> /\ permits = Capacity
  /\ open = {} /\ answering = {}
  /\ idle = 0 /\ active = 0
  /\ hpc = "sleep" /\ cand = <<>> /\ kept = <<>>
  /\ spc = "open" /\ faults = 0

------------------------------------------------------------------------------
(* acquire_data_connection and the take_idle it calls twice: first without a
   permit, then with one.                                                    *)

Acquire(c) ==
  /\ spc = "open" /\ pc[c] = "idle"
  /\ MoveTo(c, "pop")
  /\ UNCHANGED <<conn, hasPermit, ret, pool, connVars, statVars, healthVars, spc, faults>>

\* Bug variant: the Vec's last entry is shared, not popped.
PopIdlePeeks(c) ==
  /\ pc[c] = "pop" /\ PoolLockFree /\ pool # <<>>
  /\ Hold(c, pool[Len(pool)])
  /\ MoveTo(c, "ping")
  /\ UNCHANGED <<hasPermit, ret, pool, connVars, statVars, healthVars, spc, faults>>

PopIdle(c) ==
  /\ pc[c] = "pop" /\ PoolLockFree /\ pool # <<>>
  /\ pool' = SubSeq(pool, 1, Len(pool) - 1)
  /\ Hold(c, pool[Len(pool)])
  /\ MoveTo(c, "ping")
  /\ UNCHANGED <<hasPermit, ret, connVars, statVars, healthVars, spc, faults>>

PopEmpty(c) ==
  /\ pc[c] = "pop" /\ PoolLockFree /\ pool = <<>>
  /\ MoveTo(c, "empty")
  /\ UNCHANGED <<conn, hasPermit, ret, pool, connVars, statVars, healthVars, spc, faults>>

NoneIdle(c) ==
  /\ pc[c] = "empty" /\ StatsLockFree
  /\ idle' = 0
  /\ MoveTo(c, IF c \in hasPermit THEN "dial" ELSE "wait")
  /\ UNCHANGED <<conn, hasPermit, ret, pool, connVars, active, healthVars, spc, faults>>

Ping(c) ==
  /\ pc[c] = "ping"
  /\ MoveTo(c, IF conn[c] \in answering THEN "alive" ELSE "dead")
  /\ UNCHANGED <<conn, hasPermit, ret, pool, connVars, statVars, healthVars, spc, faults>>

EvictDead(c) ==
  /\ pc[c] = "dead" /\ StatsLockFree
  /\ Drop(conn[c])
  /\ Hold(c, NoConn)
  /\ MoveTo(c, "pop")
  /\ UNCHANGED <<hasPermit, ret, pool, statVars, healthVars, spc, faults>>

\* stats.write() is granted; the guard is kept while pool.lock() is awaited.
LockStats(c) ==
  /\ pc[c] = "alive" /\ StatsLockFree
  /\ MoveTo(c, "count")
  /\ UNCHANGED <<conn, hasPermit, ret, pool, connVars, statVars, healthVars, spc, faults>>

\* A reused connection brings its own permit, so a fresh one is given back.
Reuse(c) ==
  /\ pc[c] = "count" /\ PoolLockFree
  /\ idle' = Len(pool)
  /\ active' = active + 1
  /\ permits' = IF c \in hasPermit THEN permits + 1 ELSE permits
  /\ hasPermit' = hasPermit \ {c}
  /\ MoveTo(c, "using")
  /\ UNCHANGED <<conn, ret, pool, open, answering, healthVars, spc, faults>>

\* Bug variant: the permit is taken without asking whether there is one.
GotPermitUnchecked(c) ==
  /\ pc[c] = "wait"
  /\ permits' = permits - 1
  /\ hasPermit' = hasPermit \cup {c}
  /\ MoveTo(c, "pop")
  /\ UNCHANGED <<conn, ret, pool, open, answering, statVars, healthVars, spc, faults>>

GotPermit(c) ==
  /\ pc[c] = "wait" /\ permits > 0
  /\ permits' = permits - 1
  /\ hasPermit' = hasPermit \cup {c}
  /\ MoveTo(c, "pop")
  /\ UNCHANGED <<conn, ret, pool, open, answering, statVars, healthVars, spc, faults>>

\* Bug variant: acquire_owned is awaited without a timeout.
AcquireTimeoutNever(c) == FALSE

\* "all N data connections are busy": timeout polls the semaphore first.
AcquireTimeout(c) ==
  /\ pc[c] = "wait" /\ permits = 0
  /\ MoveTo(c, "idle")
  /\ UNCHANGED <<conn, hasPermit, ret, pool, connVars, statVars, healthVars, spc, faults>>

DialOk(c) ==
  /\ pc[c] = "dial"
  /\ \E k \in Conns \ open :
       /\ Hold(c, k)
       /\ open' = open \cup {k}
       /\ answering' = answering \cup {k}
  /\ hasPermit' = hasPermit \ {c}
  /\ MoveTo(c, "dialed")
  /\ UNCHANGED <<ret, pool, permits, statVars, healthVars, spc, faults>>

DialFail(c) ==
  /\ pc[c] = "dial"
  /\ permits' = permits + 1
  /\ hasPermit' = hasPermit \ {c}
  /\ MoveTo(c, "idle")
  /\ UNCHANGED <<conn, ret, pool, open, answering, statVars, healthVars, spc, faults>>

CountDialed(c) ==
  /\ pc[c] = "dialed" /\ StatsLockFree
  /\ active' = active + 1
  /\ MoveTo(c, "using")
  /\ UNCHANGED <<conn, hasPermit, ret, pool, connVars, idle, healthVars, spc, faults>>

------------------------------------------------------------------------------
(* DataConnection::drop spawns a task that takes the pool mutex, pushes, and
   keeps the mutex while it waits for the stats lock.                        *)

Release(c) ==
  /\ pc[c] = "using"
  /\ ret' = [ret EXCEPT ![conn[c]] = "push"]
  /\ Hold(c, NoConn)
  /\ MoveTo(c, "idle")
  /\ UNCHANGED <<hasPermit, pool, connVars, statVars, healthVars, spc, faults>>

ReturnPush(k) ==
  /\ ret[k] = "push" /\ PoolLockFree
  /\ pool' = Append(pool, k)
  /\ ret' = [ret EXCEPT ![k] = "stats"]
  /\ UNCHANGED <<callerVars, connVars, statVars, healthVars, spc, faults>>

\* Bug variant: the return of a connection is not counted.
ReturnStatsUncounted(k) ==
  /\ ret[k] = "stats" /\ StatsLockFree
  /\ idle' = Len(pool)
  /\ ret' = [ret EXCEPT ![k] = "none"]
  /\ UNCHANGED <<callerVars, pool, active, connVars, healthVars, spc, faults>>

ReturnStats(k) ==
  /\ ret[k] = "stats" /\ StatsLockFree
  /\ idle' = Len(pool)
  /\ active' = IF active = 0 THEN 0 ELSE active - 1  \* saturating_sub
  /\ ret' = [ret EXCEPT ![k] = "none"]
  /\ UNCHANGED <<callerVars, pool, connVars, healthVars, spc, faults>>

------------------------------------------------------------------------------
(* The health check task: a round takes the whole Vec out of the pool, pings
   without any lock, puts the survivors back and writes the statistics.      *)

HealthTake ==
  /\ hpc = "sleep" /\ spc # "freed" /\ PoolLockFree
  /\ cand' = pool
  /\ pool' = <<>>
  /\ hpc' = "ping"
  /\ UNCHANGED <<callerVars, ret, connVars, statVars, kept, spc, faults>>

\* Bug variant: a connection survives the round whatever its ping said.
HealthKeepAny ==
  /\ hpc = "ping" /\ cand # <<>>
  /\ kept' = Append(kept, Head(cand))
  /\ cand' = Tail(cand)
  /\ UNCHANGED <<callerVars, ret, pool, connVars, statVars, hpc, spc, faults>>

HealthKeep ==
  /\ hpc = "ping" /\ cand # <<>> /\ Head(cand) \in answering
  /\ kept' = Append(kept, Head(cand))
  /\ cand' = Tail(cand)
  /\ UNCHANGED <<callerVars, ret, pool, connVars, statVars, hpc, spc, faults>>

\* Dead, or idle for longer than idle_timeout.
HealthEvict ==
  /\ hpc = "ping" /\ cand # <<>>
  /\ Drop(Head(cand))
  /\ cand' = Tail(cand)
  /\ UNCHANGED <<callerVars, ret, pool, statVars, hpc, kept, spc, faults>>

HealthExtend ==
  /\ hpc = "ping" /\ cand = <<>> /\ PoolLockFree
  /\ pool' = pool \o kept
  /\ hpc' = "stats"
  /\ UNCHANGED <<callerVars, ret, connVars, statVars, cand, kept, spc, faults>>

HealthStats ==
  /\ hpc = "stats" /\ StatsLockFree
  /\ idle' = Len(kept)
  /\ kept' = <<>>
  /\ hpc' = "sleep"
  /\ UNCHANGED <<callerVars, ret, pool, connVars, active, cand, spc, faults>>

\* notify_one leaves its permit until the task selects again.
HealthStop ==
  /\ hpc = "sleep" /\ spc # "open"
  /\ hpc' = "stopped"
  /\ UNCHANGED <<callerVars, ret, pool, connVars, statVars, cand, kept, spc, faults>>

------------------------------------------------------------------------------
(* The worker tears the connection down: it aborts its tasks (without waiting
   for them), calls shutdown, and drops its reference to the pool.           *)

Teardown ==
  /\ spc = "open"
  /\ spc' = "lock"
  /\ UNCHANGED <<callerVars, ret, pool, connVars, statVars, healthVars, faults>>

\* Bug variant: a connection an aborted caller has popped or dialed leaks.
PoppedLeaks(c) == {}

\* An aborted caller drops what it holds at its next await: a connection it
\* popped or dialed (Popped) closes, a fresh permit is free, a lease goes home.
Popped(c) == IF pc[c] # "using" THEN {conn[c]} \ {NoConn} ELSE {}

Abort(c) ==
  /\ spc # "open" /\ pc[c] # "idle"
  /\ MoveTo(c, "idle")
  /\ Hold(c, NoConn)
  /\ hasPermit' = hasPermit \ {c}
  /\ open' = open \ Popped(c)
  /\ answering' = answering \ Popped(c)
  /\ permits' = permits + (IF c \in hasPermit THEN 1 ELSE 0)
                        + (IF Popped(c) = {} THEN 0 ELSE 1)
  /\ ret' = IF pc[c] = "using" THEN [ret EXCEPT ![conn[c]] = "push"] ELSE ret
  /\ UNCHANGED <<pool, statVars, healthVars, spc, faults>>

ShutdownLock ==
  /\ spc = "lock" /\ PoolLockFree
  /\ spc' = "drain"
  /\ UNCHANGED <<callerVars, ret, pool, connVars, statVars, healthVars, faults>>

ShutdownDrain ==
  /\ spc = "drain" /\ pool # <<>>
  /\ Drop(Head(pool))
  /\ pool' = Tail(pool)
  /\ UNCHANGED <<callerVars, ret, statVars, healthVars, spc, faults>>

ShutdownDone ==
  /\ spc = "drain" /\ pool = <<>>
  /\ spc' = "closed"
  /\ UNCHANGED <<callerVars, ret, pool, connVars, statVars, healthVars, faults>>

\* The last reference to the Vec goes: what is left in it is dropped, which
\* closes the sockets without an SSH disconnect.
FreePool ==
  /\ spc = "closed"
  /\ \A c \in Callers : pc[c] = "idle"
  /\ \A k \in Conns : ret[k] = "none"
  /\ hpc \in {"sleep", "stopped"}
  /\ spc' = "freed"
  /\ pool' = <<>>
  /\ open' = open \ Range(pool)
  /\ answering' = answering \ Range(pool)
  /\ permits' = permits + Len(pool)
  /\ UNCHANGED <<callerVars, ret, statVars, healthVars, faults>>

\* Nothing is left to do once the pool is gone.
Finished == spc = "freed" /\ hpc = "stopped" /\ UNCHANGED vars

\* The peer or the network drops a connection, or stops answering pings.
Die(k) ==
  /\ k \in answering /\ faults < MaxFaults
  /\ answering' = answering \ {k}
  /\ faults' = faults + 1
  /\ UNCHANGED <<callerVars, ret, pool, permits, open, statVars, healthVars, spc>>

------------------------------------------------------------------------------
TakeIdle(c) == PopIdle(c) \/ PopEmpty(c) \/ NoneIdle(c) \/ Ping(c)
               \/ EvictDead(c) \/ LockStats(c) \/ Reuse(c)
Dial(c)     == DialOk(c) \/ DialFail(c) \/ CountDialed(c)
Wait(c)     == GotPermit(c) \/ AcquireTimeout(c)
Return(k)   == ReturnPush(k) \/ ReturnStats(k)
Health      == HealthTake \/ HealthKeep \/ HealthEvict \/ HealthExtend \/ HealthStats
Shutdown    == ShutdownLock \/ ShutdownDrain \/ ShutdownDone \/ FreePool

Next ==
  \/ \E c \in Callers : Acquire(c) \/ TakeIdle(c) \/ Wait(c) \/ Dial(c)
                        \/ Release(c) \/ Abort(c)
  \/ \E k \in Conns : Return(k) \/ Die(k)
  \/ Health \/ HealthStop \/ Teardown \/ Shutdown \/ Finished

Spec == Init /\ [][Next]_vars

(* Locks and semaphore are tokio's, which are FIFO: a task that asks again and
   again is served (SF).  Pings and dials are bounded by timeouts, and the health
   timer keeps firing.  Nothing makes a caller ask, a transfer end, a connection
   die or the user disconnect.                                               *)
TaskFairness ==
  /\ \A c \in Callers : SF_vars(TakeIdle(c) \/ GotPermit(c) \/ Dial(c))
  /\ \A k \in Conns : SF_vars(Return(k))
  /\ SF_vars(Health) /\ SF_vars(Shutdown)

\* The acquire timer fires for a caller that goes on waiting, and an aborted
\* task is dropped.
TimerFairness == \A c \in Callers : WF_vars(Wait(c) \/ Abort(c))

UntimedSpec == Spec /\ TaskFairness
FairSpec == UntimedSpec /\ TimerFairness

------------------------------------------------------------------------------
(* Where a connection can be. *)
Held      == {conn[c] : c \in Callers} \ {NoConn}
Returning == {k \in Conns : ret[k] = "push"}
Surviving == IF hpc = "ping" THEN Range(kept) ELSE {}
Using     == {c \in Callers : pc[c] = "using"}
Uncounted == {k \in Conns : ret[k] # "none"}
Exclusive == \A c, d \in Callers : conn[c] = conn[d] /\ conn[c] # NoConn => c = d

\* A capacity permit is free, fresh in the hands of a caller, or with an open
\* connection: none is lost or minted by a return, an eviction, a failed dial,
\* a timeout or an abort (connection_pool.rs:102-106, 218-221, 365-389).
PermitsConserved == permits + Cardinality(open) + Cardinality(hasPermit) = Capacity

\* Every open connection is in exactly one place - idle, in the health check's
\* hands, with one caller, or on its way home - and nothing else is.  A lease is
\* exclusive and no connection leaks, whatever the tasks' order (take_idle,
\* health_check_round and DataConnection::drop all move it).
OneOwner ==
  /\ IsInjective(pool) /\ IsInjective(cand) /\ (hpc = "ping" => IsInjective(kept))
  /\ Exclusive
  /\ Range(pool) \cap Range(cand) = {}
  /\ Range(pool) \cap Surviving = {}
  /\ Range(pool) \cap Held = {}
  /\ Range(pool) \cap Returning = {}
  /\ Range(cand) \cap Surviving = {}
  /\ Range(cand) \cap Held = {}
  /\ Range(cand) \cap Returning = {}
  /\ Surviving \cap Held = {}
  /\ Surviving \cap Returning = {}
  /\ Held \cap Returning = {}
  /\ open = Range(pool) \cup Range(cand) \cup Surviving \cup Held \cup Returning

\* active_connections is exact: one per lease and per lease whose return has not
\* been counted, so the saturating_sub of a return never saturates, whichever
\* locks the updates wait for (connection_pool.rs:225-227, 252-256, 385-387).
ActiveExact == active = Cardinality(Using) + Cardinality(Uncounted)

\* The pool keeps the promise of PoolLease: an exclusive, capped lease.
Leases == [c \in Callers |-> IF pc[c] = "using" THEN conn[c] ELSE NoConn]
Lease  == INSTANCE PoolLease WITH lent <- Leases
ImplementsLease == Lease!Spec

\* An acquire ends, with a connection or an error: "a transfer must fail rather
\* than hang forever behind other transfers" (connection_pool.rs:456-457).
AcquireTerminates == \A c \in Callers : pc[c] # "idle" ~> pc[c] \in {"idle", "using"}

\* A connection that dies while it is idle is found and gives its capacity back
\* (health_check_round, take_idle), or the pool is torn down.
DeadIdleEvicted ==
  \A k \in Conns : (k \in Range(pool) /\ k \notin answering)
                     ~> (k \notin open \/ k \in answering \/ spc # "open")

\* Tearing a connection down closes every data connection in the end, those that
\* were lent, dialing, in the health check's hands or returning included
\* (connection.rs:712-721, connection_pool.rs:323-340).
TeardownClosesAll == (spc # "open") ~> (spc = "freed" /\ open = {} /\ permits = Capacity)

==============================================================================
