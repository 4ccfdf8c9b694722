----------------------------- MODULE TenantPool -----------------------------
(* The tenant pool manager (apps/api/internal/db/tenant_pool.go): at most   *)
(* MaxPools sub-pools, one per workspace role, the least recently used      *)
(* closed to make room, every job of every workspace taking its connection  *)
(* through it.  pgxpool.Pool.Close waits for the connections lent out, and   *)
(* it is called with the manager's mutex held.                              *)
EXTENDS Integers, FiniteSets, SequencesExt

CONSTANTS
  Jobs,        \* goroutines that ask for a connection
  Roles,       \* workspace roles
  Pools,       \* identities of *pgxpool.Pool values
  NoPool,      \* a role without a sub-pool
  Closer,      \* the goroutine that shuts the manager down
  Nobody,      \* the mutex is free
  MaxPools,    \* TenantPoolConfig.MaxPools
  MaxConns     \* TenantPoolConfig.MaxConnsPerPool

ASSUME NamesAssumption ==
  NoPool \notin Pools /\ Closer \notin Jobs /\ Nobody \notin Jobs \cup {Closer}
ASSUME LimitsAssumption == MaxPools \in Nat \ {0} /\ MaxConns \in Nat \ {0}
ASSUME FinitelyMany == IsFiniteSet(Jobs) /\ IsFiniteSet(Roles) /\ IsFiniteSet(Pools)
ASSUME PoolsAssumption == Cardinality(Pools) > MaxPools + Cardinality(Jobs)

VARIABLES
  pools,       \* role -> its sub-pool
  lru,         \* roles, most recently used first
  closed,      \* sub-pools on which Close has been called
  mu,          \* holder of the manager's mutex
  shut,        \* TenantPool.closed
  job          \* what each goroutine is doing: [pc, role, pool]

vars == <<pools, lru, closed, mu, shut, job>>

Idle(r) == [pc |-> "idle", role |-> r, pool |-> NoPool]

Init ==
  /\ pools = [r \in Roles |-> NoPool]
  /\ lru = <<>>
  /\ closed = {}
  /\ mu = Nobody
  /\ shut = FALSE
  /\ job \in [Jobs -> {Idle(r) : r \in Roles}]

Active == {r \in Roles : pools[r] # NoPool}
Lent(p) == {j \in Jobs : job[j].pc = "working" /\ job[j].pool = p}
(* Close returns once every connection lent out has come back.             *)
Drained(p) == Lent(p) = {}

(* Faulty variant: one pool too many.                                     *)
FullPastLimit == Cardinality(Active) > MaxPools
Full == Cardinality(Active) >= MaxPools

(* Faulty variant: getOrCreate forgets that the manager was closed.        *)
RefusingNever == FALSE
Refusing == shut

(* Faulty variant: touch pushes without removing.                         *)
PushedAgain(r) == <<r>> \o lru
lruIdx(r) == CHOOSE i \in DOMAIN lru : lru[i] = r
MovedToFront(r) == <<r>> \o RemoveAt(lru, lruIdx(r))
End(j) == job' = [job EXCEPT ![j].pc = "idle", ![j].pool = NoPool]

(* A job asks for a transaction of some workspace and queues on the mutex. *)
Ask(j, r) ==
  /\ job[j].pc = "idle"
  /\ job' = [job EXCEPT ![j] = [pc |-> "lock", role |-> r, pool |-> NoPool]]
  /\ UNCHANGED <<pools, lru, closed, mu, shut>>

(* getOrCreate after Close: an error.                                      *)
Refuse(j) ==
  /\ job[j].pc = "lock" /\ mu = Nobody
  /\ Refusing
  /\ End(j)
  /\ UNCHANGED <<pools, lru, closed, mu, shut>>

(* getOrCreate, the role has its pool: touch it and let go of the mutex.   *)
Hit(j) ==
  /\ job[j].pc = "lock" /\ mu = Nobody
  /\ ~Refusing
  /\ pools[job[j].role] # NoPool
  /\ lru' = MovedToFront(job[j].role)
  /\ job' = [job EXCEPT ![j].pc = "acquire", ![j].pool = pools[job[j].role]]
  /\ UNCHANGED <<pools, closed, mu, shut>>

(* getOrCreate, no pool yet: the mutex is kept while one is opened, and    *)
(* before that, when the manager is full, while the last of lru is closed. *)
Miss(j) ==
  /\ job[j].pc = "lock" /\ mu = Nobody
  /\ ~Refusing
  /\ pools[job[j].role] = NoPool
  /\ mu' = j
  /\ IF Full
     THEN /\ closed' = closed \cup {pools[Last(lru)]}
          /\ job' = [job EXCEPT ![j].pc = "evict"]
     ELSE /\ closed' = closed
          /\ job' = [job EXCEPT ![j].pc = "open"]
  /\ UNCHANGED <<pools, lru, shut>>

(* evictLRU's Close has returned: forget the pool.                         *)
Evicted(j) ==
  /\ job[j].pc = "evict"
  /\ Drained(pools[Last(lru)])
  /\ pools' = [pools EXCEPT ![Last(lru)] = NoPool]
  /\ lru' = Front(lru)
  /\ job' = [job EXCEPT ![j].pc = "open"]
  /\ UNCHANGED <<closed, mu, shut>>

(* A pool value nothing refers to any more.                                *)
Unused == Pools \ ({pools[r] : r \in Roles} \cup {job[j].pool : j \in Jobs})

Open(j) ==
  /\ job[j].pc = "open"
  /\ LET p == CHOOSE q \in Unused : TRUE
     IN /\ pools' = [pools EXCEPT ![job[j].role] = p]
        /\ closed' = closed \ {p}
        /\ job' = [job EXCEPT ![j].pc = "acquire", ![j].pool = p]
  /\ lru' = <<job[j].role>> \o lru
  /\ mu' = Nobody
  /\ UNCHANGED shut

(* Faulty variant: the error return skips the unlock.                     *)
OpenFailsLocked(j) ==
  /\ job[j].pc = "open"
  /\ End(j)
  /\ UNCHANGED <<pools, lru, closed, mu, shut>>
(* No DSN for the role, or NewWithConfig fails: the victim stays evicted.  *)
OpenFails(j) ==
  /\ job[j].pc = "open"
  /\ End(j)
  /\ mu' = Nobody
  /\ UNCHANGED <<pools, lru, closed, shut>>

(* Faulty variant: a closed pool still lends.                             *)
AcquireAny(j) ==
  /\ job[j].pc = "acquire"
  /\ Cardinality(Lent(job[j].pool)) < MaxConns
  /\ job' = [job EXCEPT ![j].pc = "working"]
  /\ UNCHANGED <<pools, lru, closed, mu, shut>>
(* pool.Acquire, outside the mutex: a connection when one is free.         *)
Acquire(j) ==
  /\ job[j].pc = "acquire"
  /\ job[j].pool \notin closed
  /\ Cardinality(Lent(job[j].pool)) < MaxConns
  /\ job' = [job EXCEPT ![j].pc = "working"]
  /\ UNCHANGED <<pools, lru, closed, mu, shut>>

(* The pool was closed after it was handed out: ErrClosedPool.             *)
AcquireClosed(j) ==
  /\ job[j].pc = "acquire"
  /\ job[j].pool \in closed
  /\ End(j)
  /\ UNCHANGED <<pools, lru, closed, mu, shut>>

(* The context ends while the job waits for a connection.                  *)
GiveUp(j) ==
  /\ job[j].pc = "acquire"
  /\ End(j)
  /\ UNCHANGED <<pools, lru, closed, mu, shut>>

(* The job's commit, error or panic, or a failed search_path check or      *)
(* BEGIN: release() returns the connection on every path.                  *)
Release(j) ==
  /\ job[j].pc = "working"
  /\ End(j)
  /\ UNCHANGED <<pools, lru, closed, mu, shut>>

(* Close: refuse newcomers, then close the pools one after the other.      *)
Shutdown ==
  /\ mu = Nobody /\ ~shut
  /\ mu' = Closer
  /\ shut' = TRUE
  /\ UNCHANGED <<pools, lru, closed, job>>

ShutdownClose(r) ==
  /\ mu = Closer
  /\ r \in Active
  /\ \A s \in Active : pools[s] \notin closed
  /\ closed' = closed \cup {pools[r]}
  /\ UNCHANGED <<pools, lru, mu, shut, job>>

ShutdownClosed(r) ==
  /\ mu = Closer
  /\ r \in Active
  /\ pools[r] \in closed
  /\ Drained(pools[r])
  /\ pools' = [pools EXCEPT ![r] = NoPool]
  /\ UNCHANGED <<lru, closed, mu, shut, job>>

ShutdownDone ==
  /\ mu = Closer
  /\ Active = {}
  /\ lru' = <<>>
  /\ mu' = Nobody
  /\ UNCHANGED <<pools, closed, shut, job>>

Locked(j) == Refuse(j) \/ Hit(j) \/ Miss(j)
Shutting == (\E r \in Roles : ShutdownClose(r) \/ ShutdownClosed(r)) \/ ShutdownDone

Next ==
  \/ \E j \in Jobs :
       \/ \E r \in Roles : Ask(j, r)
       \/ Locked(j) \/ Evicted(j) \/ Open(j) \/ OpenFails(j)
       \/ Acquire(j) \/ AcquireClosed(j) \/ GiveUp(j) \/ Release(j)
  \/ Shutdown \/ Shutting

Spec == Init /\ [][Next]_vars

(* Go's mutex hands over to a starving waiter and pgxpool lends in order,  *)
(* so both are strongly fair; a job's work and the manager's own steps end. *)
FairSpec ==
  /\ Spec
  /\ \A j \in Jobs :
       /\ SF_vars(Locked(j)) /\ SF_vars(Acquire(j))
       /\ WF_vars(Evicted(j)) /\ WF_vars(Open(j) \/ OpenFails(j))
       /\ WF_vars(AcquireClosed(j)) /\ WF_vars(Release(j))
  /\ WF_vars(Shutting)
-----------------------------------------------------------------------------
TypeOK ==
  /\ pools \in [Roles -> Pools \cup {NoPool}]
  /\ lru \in Seq(Roles)
  /\ closed \subseteq Pools
  /\ mu \in Jobs \cup {Closer, Nobody}
  /\ shut \in BOOLEAN
  /\ job \in [Jobs -> [pc : {"idle", "lock", "evict", "open", "acquire", "working"},
                       role : Roles, pool : Pools \cup {NoPool}]]

(* The manager "bounds total Postgres connections to MaxPools x            *)
(* MaxConnsPerPool": over every connection out, those of pools already     *)
(* evicted included, at every moment of an eviction.                       *)
ConnectionsBounded ==
  Cardinality({j \in Jobs : job[j].pc = "working"}) <= MaxPools * MaxConns

(* lru and pools name the same roles, each once, outside the manager's own *)
(* critical section: an eviction always has a victim and it is a live pool. *)
LruListsThePools ==
  mu = Nobody => ToSet(lru) = Active /\ Len(lru) = Cardinality(Active)

(* Whoever works holds a connection of a pool the manager still accounts   *)
(* for under that role: never of one it has evicted and forgotten.         *)
WorkersAreAccountedFor ==
  \A j \in Jobs : job[j].pc = "working" => pools[job[j].role] = job[j].pool

(* Once Close has returned no connection is out and no pool is left.       *)
ShutMeansDrained ==
  shut /\ mu = Nobody => Active = {} /\ \A j \in Jobs : job[j].pc # "working"

(* A job that asks is answered, with a connection or an error: no eviction, *)
(* failed open or shutdown leaves the others waiting on the mutex for ever. *)
AskersAreAnswered ==
  \A j \in Jobs : job[j].pc = "lock" ~> job[j].pc \in {"working", "idle"}
=============================================================================
