-------------------------- MODULE TenantPoolProofs ---------------------------
(***************************************************************************)
(* Proofs about TenantPool for every number of jobs, roles, pools and      *)
(* connections: the pool manager never lends more than its bound, lends    *)
(* from no pool it has forgotten, and has drained what it shut.            *)
(***************************************************************************)
EXTENDS TenantPool, SequenceTheorems, FunctionTheorems, FiniteSetTheorems, TLAPS

-----------------------------------------------------------------------------
(* The inductive invariant *)

(* The mutex is with the job that evicts or opens, if with a job.           *)
MutexInv ==
  /\ \A j \in Jobs : job[j].pc \in {"evict", "open"} <=> mu = j
  /\ mu = Closer => shut
  /\ shut => mu \notin Jobs /\ (mu = Nobody => Active = {})

(* What a job holds or has been handed is its role's pool, unless that has  *)
(* been closed meanwhile; who opens one has found none.                     *)
JobsInv ==
  \A j \in Jobs :
    /\ job[j].pc \in {"acquire", "working"} => job[j].pool \in Pools
    /\ job[j].pc = "working" => pools[job[j].role] = job[j].pool
    /\ job[j].pc = "acquire" => job[j].pool \in closed \/ pools[job[j].role] = job[j].pool
    /\ job[j].pc \in {"evict", "open"} => pools[job[j].role] = NoPool

(* The list names the live pools, each once, but while the manager shuts.   *)
NoTwice(s) == \A a, b \in DOMAIN s : s[a] = s[b] => a = b
LruInv == mu # Closer => NoTwice(lru) /\ ToSet(lru) = Active

(* An eviction has a victim, which is closed before it is forgotten.        *)
VictimInv ==
  \A j \in Jobs : job[j].pc = "evict" => lru # <<>> /\ pools[Last(lru)] \in closed

(* The counts that the bound is the product of.                             *)
CountInv ==
  /\ Cardinality(Active) <= MaxPools
  /\ \A j \in Jobs : job[j].pc = "open" => Cardinality(Active) < MaxPools
  /\ \A p \in Pools : Cardinality(Lent(p)) <= MaxConns

IInv == TypeOK /\ MutexInv /\ JobsInv /\ LruInv /\ VictimInv /\ CountInv

-----------------------------------------------------------------------------
(* Sequences without repetition *)

LEMMA Elements == \A s : ToSet(s) = {s[i] : i \in DOMAIN s}
  BY DEF ToSet

LEMMA PushFront ==
  ASSUME NEW S, NEW s \in Seq(S), NEW r \in S, NoTwice(s), r \notin ToSet(s)
  PROVE  /\ <<r>> \o s \in Seq(S) /\ NoTwice(<<r>> \o s) /\ ToSet(<<r>> \o s) = {r} \cup ToSet(s)
<1> DEFINE t == <<r>> \o s
<1>1. /\ t \in Seq(S) /\ Len(t) = Len(s) + 1 /\ Len(s) \in Nat /\ t[1] = r
      /\ \A i \in 1..Len(s) : t[i + 1] = s[i]
      /\ DOMAIN t = 1..Len(t) /\ DOMAIN s = 1..Len(s)
  OBVIOUS
<1> HIDE DEF t
<1>2. \A i \in DOMAIN t : i = 1 \/ (i - 1 \in DOMAIN s /\ t[i] = s[i - 1])
  BY <1>1
<1>3. \A i \in DOMAIN s : s[i] # r
  BY DEF ToSet
<1>4. NoTwice(t)
  <2> SUFFICES ASSUME NEW a \in DOMAIN t, NEW b \in DOMAIN t, t[a] = t[b] PROVE a = b
    BY DEF NoTwice
  <2>1. CASE a = 1 \/ b = 1
    BY <1>1, <1>2, <1>3, <2>1
  <2>2. CASE a # 1 /\ b # 1
    <3>1. a - 1 \in DOMAIN s /\ b - 1 \in DOMAIN s /\ s[a - 1] = s[b - 1]
      BY <1>2, <2>2
    <3>2. a - 1 = b - 1 /\ a \in Nat /\ b \in Nat
      BY <1>1, <3>1 DEF NoTwice
    <3>3. QED
      BY <3>2
  <2>3. QED
    BY <2>1, <2>2
<1>5. ToSet(t) = {r} \cup ToSet(s)
  <2>1. \A x \in ToSet(t) : x = r \/ x \in ToSet(s)
    BY <1>1, <1>2 DEF ToSet
  <2>2. r \in ToSet(t)
    BY <1>1 DEF ToSet
  <2>3. \A x \in ToSet(s) : x \in ToSet(t)
    <3> SUFFICES ASSUME NEW i \in DOMAIN s PROVE s[i] \in ToSet(t)
      BY DEF ToSet
    <3>1. i + 1 \in DOMAIN t /\ t[i + 1] = s[i]
      BY <1>1
    <3>2. QED
      BY <3>1 DEF ToSet
  <2>4. QED
    BY <2>1, <2>2, <2>3
<1>6. QED
  BY <1>1, <1>4, <1>5 DEF t

LEMMA RemovedAt ==
  ASSUME NEW S, NEW s \in Seq(S), NEW i \in 1..Len(s), NoTwice(s)
  PROVE  /\ RemoveAt(s, i) \in Seq(S) /\ NoTwice(RemoveAt(s, i))
         /\ ToSet(RemoveAt(s, i)) = ToSet(s) \ {s[i]}
<1> DEFINE t == RemoveAt(s, i)
           from(k) == IF k < i THEN k ELSE k + 1
<1>0. Len(s) \in Nat /\ DOMAIN s = 1..Len(s)
  OBVIOUS
<1>1. /\ t \in Seq(S) /\ Len(t) = Len(s) - 1
      /\ \A k \in 1..(Len(s) - 1) : t[k] = s[from(k)]
  <2> DEFINE u == SubSeq(s, 1, i - 1)
             v == SubSeq(s, i + 1, Len(s))
  <2>1. u \in Seq(S) /\ Len(u) = i - 1 /\ \A k \in 1..(i - 1) : u[k] = s[k]
    BY <1>0
  <2>2. v \in Seq(S) /\ Len(v) = Len(s) - i /\ \A k \in 1..(Len(s) - i) : v[k] = s[i + k]
    <3>1. v \in Seq(S) /\ Len(v) = Len(s) - i
      <4>1. i + 1 \in Int /\ Len(s) \in Int /\ \A k \in (i + 1)..Len(s) : s[k] \in S
        BY <1>0
      <4>2. v \in Seq(S) /\ Len(v) = IF i + 1 <= Len(s) THEN Len(s) - (i + 1) + 1 ELSE 0
        BY <4>1, SubSeqProperties
      <4> HIDE DEF v
      <4>3. (IF i + 1 <= Len(s) THEN Len(s) - (i + 1) + 1 ELSE 0) = Len(s) - i
        <5>1. i \in Int /\ Len(s) \in Int /\ i <= Len(s)
          BY <1>0
        <5>2. \A a, b \in Int : a <= b => (IF a + 1 <= b THEN b - (a + 1) + 1 ELSE 0) = b - a
          OBVIOUS
        <5>3. QED
          BY <5>1, <5>2
      <4>4. Len(v) = Len(s) - i
        BY <4>2, <4>3
      <4>5. QED
        BY <4>2, <4>4
    <3>2. ASSUME NEW k \in 1..(Len(s) - i) PROVE v[k] = s[i + k]
      <4>1. v[k] = s[(i + 1) + k - 1] /\ (i + 1) + k - 1 = i + k
        BY <1>0
      <4>2. QED
        BY <4>1
    <3>3. QED
      BY <3>1, <3>2
  <2>3. t = u \o v
    BY DEF RemoveAt
  <2> HIDE DEF t, u, v
  <2>4. t \in Seq(S) /\ Len(t) = Len(s) - 1
    <3>1. u \in Seq(S) /\ v \in Seq(S) /\ Len(u) = i - 1 /\ Len(v) = Len(s) - i
      BY <2>1, <2>2
    <3>2. u \o v \in Seq(S) /\ Len(u \o v) = (i - 1) + (Len(s) - i)
      BY <3>1
    <3>3. QED
      BY <1>0, <2>3, <3>2
  <2>5. ASSUME NEW k \in 1..(Len(s) - 1) PROVE t[k] = s[from(k)]
    <3>1. CASE k < i
      BY <1>0, <2>1, <2>2, <2>3, <3>1
    <3>2. CASE ~(k < i)
      <4>1. t[k] = v[k - (i - 1)]
        BY <1>0, <2>1, <2>2, <2>3, <3>2
      <4>2. v[k - (i - 1)] = s[i + (k - (i - 1))]
        BY <1>0, <2>2, <3>2
      <4>3. i + (k - (i - 1)) = k + 1
        BY <1>0
      <4>4. QED
        BY <3>2, <4>1, <4>2, <4>3
    <3>3. QED
      BY <3>1, <3>2
  <2>6. QED
    BY <2>4, <2>5
<1> HIDE DEF t
<1>2. DOMAIN t = 1..(Len(s) - 1)
  BY <1>0, <1>1
<1>3. \A k \in DOMAIN t : from(k) \in DOMAIN s /\ from(k) # i
  BY <1>0, <1>2
<1>4. \A a, b \in DOMAIN t : from(a) = from(b) => a = b
  BY <1>0, <1>2
<1>5. NoTwice(t)
  <2> SUFFICES ASSUME NEW a \in DOMAIN t, NEW b \in DOMAIN t, t[a] = t[b] PROVE a = b
    BY DEF NoTwice
  <2>1. s[from(a)] = s[from(b)]
    BY <1>1, <1>2
  <2>2. from(a) = from(b)
    BY <1>3, <2>1 DEF NoTwice
  <2>3. QED
    BY <1>4, <2>2
<1>6. ToSet(t) = ToSet(s) \ {s[i]}
  <2>1. ASSUME NEW x \in ToSet(t) PROVE x \in ToSet(s) \ {s[i]}
    <3>1. PICK k \in DOMAIN t : x = t[k]
      BY <2>1 DEF ToSet
    <3>2. x = s[from(k)]
      BY <1>1, <1>2, <3>1
    <3>3. x # s[i]
      BY <1>0, <1>3, <3>2 DEF NoTwice
    <3>4. QED
      BY <1>3, <3>2, <3>3 DEF ToSet
  <2>2. ASSUME NEW x \in ToSet(s) \ {s[i]} PROVE x \in ToSet(t)
    <3>1. PICK k \in DOMAIN s : x = s[k] /\ k # i
      BY <2>2 DEF ToSet
    <3>2. PICK l \in DOMAIN t : from(l) = k
      <4>1. CASE k < i
        <5>1. k \in DOMAIN t /\ from(k) = k
          BY <1>0, <1>2, <4>1
        <5>2. QED
          BY <5>1
      <4>2. CASE ~(k < i)
        <5>1. k - 1 \in DOMAIN t /\ from(k - 1) = k
          BY <1>0, <1>2, <3>1, <4>2
        <5>2. QED
          BY <5>1
      <4>3. QED
        BY <4>1, <4>2
    <3>3. t[l] = x
      BY <1>1, <1>2, <3>1, <3>2
    <3>4. QED
      BY <3>3 DEF ToSet
  <2>3. QED
    BY <2>1, <2>2
<1>7. QED
  BY <1>1, <1>5, <1>6 DEF t

LEMMA FrontKept ==
  ASSUME NEW S, NEW s \in Seq(S), s # <<>>, NoTwice(s)
  PROVE  /\ Front(s) \in Seq(S) /\ NoTwice(Front(s)) /\ Last(s) \in ToSet(s)
         /\ ToSet(Front(s)) = ToSet(s) \ {Last(s)}
<1> DEFINE t == Front(s)
<1>0. Len(s) \in Nat /\ Len(s) > 0 /\ DOMAIN s = 1..Len(s) /\ Last(s) = s[Len(s)]
  BY DEF Last
<1>1. t \in Seq(S) /\ DOMAIN t = 1..(Len(s) - 1) /\ \A k \in 1..(Len(s) - 1) : t[k] = s[k]
  BY <1>0 DEF Front
<1> HIDE DEF t
<1>2. NoTwice(t)
  BY <1>0, <1>1 DEF NoTwice
<1>3. ToSet(t) = ToSet(s) \ {Last(s)}
  <2>1. ASSUME NEW k \in DOMAIN t PROVE t[k] \in ToSet(s) \ {Last(s)}
    BY <1>0, <1>1 DEF NoTwice, ToSet
  <2>2. ASSUME NEW k \in DOMAIN s, s[k] # Last(s) PROVE s[k] \in ToSet(t)
    <3>1. k \in DOMAIN t /\ t[k] = s[k]
      BY <1>0, <1>1, <2>2
    <3>2. QED
      BY <3>1 DEF ToSet
  <2>3. QED
    BY <2>1, <2>2, Elements
<1>4. Last(s) \in ToSet(s)
  BY <1>0 DEF ToSet
<1>5. QED
  BY <1>1, <1>2, <1>3, <1>4 DEF t

LEMMA LengthIsCount ==
  ASSUME NEW S, NEW s \in Seq(S), NoTwice(s)
  PROVE  IsFiniteSet(ToSet(s)) /\ Len(s) = Cardinality(ToSet(s))
<1>1. Len(s) \in Nat /\ DOMAIN s = 1..Len(s)
  OBVIOUS
<1>2. s \in [1..Len(s) -> ToSet(s)]
  BY <1>1 DEF ToSet
<1>3. s \in Bijection(1..Len(s), ToSet(s))
  BY <1>1, <1>2 DEF Bijection, Injection, Surjection, IsInjective, NoTwice, ToSet
<1>4. ExistsBijection(1..Len(s), ToSet(s))
  BY <1>3 DEF ExistsBijection
<1>5. QED
  BY <1>1, <1>4, FS_NatBijection, FS_CountingElements

-----------------------------------------------------------------------------
(* What the steps change *)

PCs == {"idle", "lock", "evict", "open", "acquire", "working"}
JobType == [pc : PCs, role : Roles, pool : Pools \cup {NoPool}]

LEMMA JobFields ==
  ASSUME TypeOK, NEW j \in Jobs
  PROVE  /\ job[j] \in JobType /\ job[j].pc \in PCs /\ job[j].role \in Roles
         /\ job[j].pool \in Pools \cup {NoPool}
  BY DEF TypeOK, JobType, PCs

(* A step of a job changes its own record only.                             *)
Becomes(j, pc, role, pool) ==
  /\ job' \in [Jobs -> JobType]
  /\ job'[j].pc = pc /\ job'[j].role = role /\ job'[j].pool = pool
  /\ \A i \in Jobs : i # j => job'[i] = job[i]

LEMMA Moves ==
  ASSUME TypeOK, NEW j \in Jobs, NEW pc \in PCs, NEW pool \in Pools \cup {NoPool},
         job' = [job EXCEPT ![j].pc = pc, ![j].pool = pool]
  PROVE  Becomes(j, pc, job[j].role, pool)
  BY JobFields DEF TypeOK, JobType, PCs, Becomes

LEMMA MovesPc ==
  ASSUME TypeOK, NEW j \in Jobs, NEW pc \in PCs, job' = [job EXCEPT ![j].pc = pc]
  PROVE  Becomes(j, pc, job[j].role, job[j].pool)
  BY JobFields DEF TypeOK, JobType, PCs, Becomes

LEMMA Ends ==
  ASSUME TypeOK, NEW j \in Jobs, End(j)
  PROVE  Becomes(j, "idle", job[j].role, NoPool)
  BY Moves DEF End, PCs

LEMMA ActiveFinite == IsFiniteSet(Active) /\ Cardinality(Active) \in Nat
<1>1. IsFiniteSet(Active)
  BY FinitelyMany, FS_Subset DEF Active
<1>2. QED
  BY <1>1, FS_CardinalityType

LEMMA LentFinite == ASSUME NEW p PROVE IsFiniteSet(Lent(p)) /\ Cardinality(Lent(p)) \in Nat
<1>1. Lent(p) \in SUBSET Jobs
  BY DEF Lent
<1>2. IsFiniteSet(Lent(p))
  BY <1>1, FinitelyMany, FS_Subset
<1>3. QED
  BY <1>2, FS_CardinalityType

(* Connections of a pool come back, or go to one job.                       *)
LEMMA LentLess ==
  ASSUME NEW p, NEW S, S \subseteq Lent(p), Cardinality(Lent(p)) <= MaxConns
  PROVE  Cardinality(S) <= MaxConns
<1>1. Cardinality(S) <= Cardinality(Lent(p)) /\ IsFiniteSet(S)
  BY LentFinite, FS_Subset
<1>2. Cardinality(S) \in Nat /\ Cardinality(Lent(p)) \in Nat
  BY <1>1, LentFinite, FS_CardinalityType
<1>3. QED
  BY <1>1, <1>2, LimitsAssumption

LEMMA LentMore ==
  ASSUME NEW p, NEW j, Cardinality(Lent(p)) < MaxConns
  PROVE  Cardinality(Lent(p) \cup {j}) <= MaxConns
<1>1. Cardinality(Lent(p) \cup {j}) = IF j \in Lent(p) THEN Cardinality(Lent(p)) ELSE Cardinality(Lent(p)) + 1
  BY LentFinite, FS_AddElement
<1>2. QED
  BY <1>1, LentFinite, LimitsAssumption

LEMMA InitInv == Init => IInv
<1> SUFFICES ASSUME Init PROVE IInv
  OBVIOUS
<1>1. \A j \in Jobs : job[j].pc = "idle" /\ job[j] \in JobType
  BY DEF Init, Idle, JobType, PCs
<1>2. TypeOK
  <2>1. job \in [Jobs -> JobType]
    BY <1>1 DEF Init
  <2>2. lru \in Seq(Roles) /\ pools \in [Roles -> Pools \cup {NoPool}]
    BY DEF Init
  <2>3. closed \subseteq Pools /\ mu \in Jobs \cup {Closer, Nobody} /\ shut \in BOOLEAN
    BY DEF Init
  <2>4. QED
    BY <2>1, <2>2, <2>3 DEF TypeOK, JobType, PCs
<1>3. Active = {} /\ ToSet(lru) = {}
  BY DEF Init, Active, ToSet
<1>4. Cardinality({}) = 0
  BY FS_EmptySet
<1>5. \A p \in Pools : Lent(p) = {}
  BY <1>1 DEF Lent
<1>6. CountInv
  <2>1. Cardinality(Active) = 0 /\ \A p \in Pools : Cardinality(Lent(p)) = 0
    BY <1>3, <1>4, <1>5
  <2>2. QED
    BY <1>1, <2>1, LimitsAssumption DEF CountInv
<1>7. MutexInv
  BY <1>1, NamesAssumption DEF Init, MutexInv
<1>8. LruInv
  BY <1>3 DEF Init, LruInv, NoTwice
<1>9. JobsInv /\ VictimInv
  BY <1>1 DEF JobsInv, VictimInv
<1>10. QED
  BY <1>2, <1>6, <1>7, <1>8, <1>9 DEF IInv

-----------------------------------------------------------------------------
(* The steps keep the invariant *)

LEMMA NewTypeOK ==
  ASSUME job' \in [Jobs -> JobType], pools' \in [Roles -> Pools \cup {NoPool}],
         lru' \in Seq(Roles), closed' \subseteq Pools, mu' \in Jobs \cup {Closer, Nobody},
         shut' \in BOOLEAN
  PROVE  TypeOK'
  BY DEF TypeOK, JobType, PCs

LEMMA LentAfter ==
  ASSUME NEW j \in Jobs, NEW pc, NEW role, NEW pool, Becomes(j, pc, role, pool), NEW p
  PROVE  /\ pc # "working" \/ p # pool => Lent(p)' \subseteq Lent(p)
         /\ Lent(p)' \subseteq Lent(p) \cup {j}
  BY DEF Becomes, Lent

LEMMA SameActive == ASSUME UNCHANGED pools PROVE Active' = Active
  BY DEF Active

(* No pool lends more than it has, if the one that lends now had one left.  *)
LEMMA LentKept ==
  ASSUME CountInv, NEW j \in Jobs, NEW pc, NEW role, NEW pool, Becomes(j, pc, role, pool),
         pc = "working" => Cardinality(Lent(pool)) < MaxConns, NEW p \in Pools
  PROVE  Cardinality(Lent(p)') <= MaxConns
<1>1. Cardinality(Lent(p)) <= MaxConns
  BY DEF CountInv
<1>2. CASE pc # "working" \/ p # pool
  <2>1. Lent(p)' \subseteq Lent(p)
    BY <1>2, LentAfter
  <2>2. QED
    BY <1>1, <2>1, LentLess
<1>3. CASE pc = "working" /\ p = pool
  <2>1. Lent(p)' \subseteq Lent(p) \cup {j}
    BY LentAfter
  <2>2. Cardinality(Lent(p) \cup {j}) <= MaxConns /\ IsFiniteSet(Lent(p) \cup {j})
    BY <1>3, LentMore, LentFinite, FS_AddElement
  <2>3. /\ Cardinality(Lent(p)') <= Cardinality(Lent(p) \cup {j}) /\ IsFiniteSet(Lent(p)')
    BY <2>1, <2>2, FS_Subset
  <2>4. Cardinality(Lent(p)') \in Nat /\ Cardinality(Lent(p) \cup {j}) \in Nat
    BY <2>2, <2>3, FS_CardinalityType
  <2>5. QED
    BY <2>2, <2>3, <2>4, LimitsAssumption
<1>4. QED
  BY <1>2, <1>3

(* A job that neither holds the mutex nor takes it.                         *)
LEMMA JobAlone ==
  ASSUME IInv, UNCHANGED <<pools, lru, closed, mu, shut>>, NEW j \in Jobs,
         NEW pc \in {"idle", "lock", "working"}, NEW role \in Roles, NEW pool,
         Becomes(j, pc, role, pool), job[j].pc \notin {"evict", "open"},
         pc = "working" => pool \in Pools /\ pools[role] = pool
                           /\ Cardinality(Lent(pool)) < MaxConns
  PROVE  IInv'
<1>1. TypeOK'
  BY NewTypeOK DEF IInv, TypeOK, Becomes
<1>2. Active' = Active
  BY SameActive
<1>3. MutexInv'
  BY <1>2 DEF IInv, MutexInv, Becomes
<1>4. JobsInv'
  BY DEF IInv, JobsInv, Becomes
<1>5. LruInv' /\ VictimInv'
  BY <1>2 DEF IInv, LruInv, VictimInv, Becomes
<1>6. CountInv'
  <2>1. \A p \in Pools : Cardinality(Lent(p)') <= MaxConns
    BY LentKept DEF IInv
  <2>2. \A i \in Jobs : job'[i].pc = "open" => job[i].pc = "open"
    BY DEF Becomes
  <2>3. QED
    BY <1>2, <2>1, <2>2 DEF IInv, CountInv
<1>7. QED
  BY <1>1, <1>3, <1>4, <1>5, <1>6 DEF IInv

LEMMA AskInv ==
  ASSUME IInv, NEW j \in Jobs, NEW r \in Roles, Ask(j, r) PROVE IInv'
<1>1. job' = [job EXCEPT ![j] = [pc |-> "lock", role |-> r, pool |-> NoPool]]
  BY DEF Ask
<1>2. [pc |-> "lock", role |-> r, pool |-> NoPool] \in JobType
  BY DEF JobType, PCs
<1>3. Becomes(j, "lock", r, NoPool)
  BY <1>1, <1>2 DEF Becomes, IInv, TypeOK, JobType, PCs
<1>4. QED
  BY <1>3, JobAlone DEF Ask

LEMMA EndingInv ==
  ASSUME IInv, NEW j \in Jobs, Refuse(j) \/ AcquireClosed(j) \/ GiveUp(j) \/ Release(j)
  PROVE  IInv'
<1>1. Becomes(j, "idle", job[j].role, NoPool) /\ job[j].role \in Roles
  BY Ends, JobFields DEF Refuse, AcquireClosed, GiveUp, Release, IInv
<1>2. UNCHANGED <<pools, lru, closed, mu, shut>> /\ job[j].pc \notin {"evict", "open"}
  BY DEF Refuse, AcquireClosed, GiveUp, Release
<1>3. QED
  BY <1>1, <1>2, JobAlone

LEMMA AcquireInv ==
  ASSUME IInv, NEW j \in Jobs, Acquire(j) PROVE IInv'
<1>1. Becomes(j, "working", job[j].role, job[j].pool) /\ job[j].role \in Roles
  BY MovesPc, JobFields DEF Acquire, IInv, PCs
<1>2. /\ UNCHANGED <<pools, lru, closed, mu, shut>> /\ job[j].pc = "acquire"
      /\ job[j].pool \notin closed /\ Cardinality(Lent(job[j].pool)) < MaxConns
  BY DEF Acquire
<1>3. job[j].pool \in Pools /\ pools[job[j].role] = job[j].pool
  BY <1>2 DEF IInv, JobsInv
<1>4. QED
  BY <1>1, <1>2, <1>3, JobAlone

LEMMA HitInv ==
  ASSUME IInv, NEW j \in Jobs, Hit(j) PROVE IInv'
<1> DEFINE r == job[j].role
<1>1. /\ UNCHANGED <<pools, closed, mu, shut>> /\ mu = Nobody /\ pools[r] # NoPool /\ r \in Roles
      /\ job[j].pc = "lock" /\ lru' = MovedToFront(r)
  BY JobFields DEF Hit, IInv
<1>2. pools[r] \in Pools
  BY <1>1 DEF IInv, TypeOK
<1>3. Becomes(j, "acquire", r, pools[r])
  BY <1>2, Moves DEF Hit, IInv, PCs
<1>4. NoTwice(lru) /\ ToSet(lru) = Active /\ lru \in Seq(Roles)
  BY <1>1, NamesAssumption DEF IInv, LruInv, TypeOK
<1>5. r \in Active
  BY <1>1 DEF Active
<1>6. PICK i \in DOMAIN lru : lru[i] = r
  BY <1>4, <1>5 DEF ToSet
<1>7. lruIdx(r) \in DOMAIN lru /\ lru[lruIdx(r)] = r
  BY <1>6 DEF lruIdx
<1>8. lruIdx(r) \in 1..Len(lru)
  BY <1>4, <1>7
<1> DEFINE rest == RemoveAt(lru, lruIdx(r))
<1>9. rest \in Seq(Roles) /\ NoTwice(rest) /\ ToSet(rest) = Active \ {r}
  BY <1>4, <1>7, <1>8, RemovedAt
<1> HIDE DEF rest, r
<1>10. <<r>> \o rest \in Seq(Roles) /\ NoTwice(<<r>> \o rest) /\ ToSet(<<r>> \o rest) = {r} \cup ToSet(rest)
  BY <1>1, <1>9, PushFront
<1>11. lru' = <<r>> \o rest
  BY <1>1 DEF MovedToFront, rest
<1>12. Active' = Active
  BY <1>1, SameActive
<1>13. TypeOK'
  BY <1>1, <1>3, <1>10, <1>11, NewTypeOK DEF IInv, TypeOK, Becomes
<1>14. LruInv'
  BY <1>5, <1>9, <1>10, <1>11, <1>12 DEF LruInv
<1>15. MutexInv'
  BY <1>1, <1>3, <1>12 DEF IInv, MutexInv, Becomes
<1>16. JobsInv'
  BY <1>1, <1>2, <1>3 DEF IInv, JobsInv, Becomes
<1>17. VictimInv'
  <2>1. \A k \in Jobs : job'[k].pc # "evict"
    BY <1>1, <1>3, NamesAssumption DEF IInv, MutexInv, Becomes
  <2>2. QED
    BY <2>1 DEF VictimInv
<1>18. CountInv'
  <2>1. \A p \in Pools : Cardinality(Lent(p)') <= MaxConns
    BY <1>3, LentKept DEF IInv
  <2>2. \A k \in Jobs : job'[k].pc = "open" => job[k].pc = "open"
    BY <1>3 DEF Becomes
  <2>3. QED
    BY <1>12, <2>1, <2>2 DEF IInv, CountInv
<1>19. QED
  BY <1>13, <1>14, <1>15, <1>16, <1>17, <1>18 DEF IInv

(* There is a victim whenever the manager is full.                          *)
LEMMA VictimIsLive ==
  ASSUME IInv, mu # Closer, Active # {}
  PROVE  lru # <<>> /\ Last(lru) \in Active /\ pools[Last(lru)] \in Pools
<1>1. ToSet(lru) = Active /\ NoTwice(lru) /\ lru \in Seq(Roles)
  BY DEF IInv, LruInv, TypeOK
<1>2. lru # <<>>
  BY <1>1 DEF ToSet
<1>3. Last(lru) \in Active
  BY <1>1, <1>2, FrontKept
<1>4. QED
  BY <1>2, <1>3 DEF Active, IInv, TypeOK

LEMMA MissInv ==
  ASSUME IInv, NEW j \in Jobs, Miss(j) PROVE IInv'
<1> DEFINE r == job[j].role
<1>1. /\ UNCHANGED <<pools, lru, shut>> /\ mu = Nobody /\ mu' = j /\ ~shut
      /\ pools[r] = NoPool /\ r \in Roles /\ job[j].pc = "lock"
  BY JobFields DEF Miss, Refusing, IInv
<1>2. Active' = Active
  BY <1>1, SameActive
<1>3. j # Nobody /\ j # Closer /\ mu # Closer
  BY <1>1, NamesAssumption
<1>4. \A i \in Jobs : job[i].pc \notin {"evict", "open"}
  BY <1>1, NamesAssumption DEF IInv, MutexInv
<1>5. \/ /\ Full /\ closed' = closed \cup {pools[Last(lru)]}
         /\ Becomes(j, "evict", r, job[j].pool)
      \/ ~Full /\ closed' = closed /\ Becomes(j, "open", r, job[j].pool)
  BY MovesPc DEF Miss, IInv, PCs
<1> HIDE DEF r
<1>6. Full => Active # {}
  <2>1. Cardinality({}) = 0
    BY FS_EmptySet
  <2>2. QED
    BY <2>1, LimitsAssumption DEF Full
<1>7. Full => lru # <<>> /\ pools[Last(lru)] \in Pools
  BY <1>3, <1>6, VictimIsLive
<1>8. TypeOK'
  BY <1>1, <1>5, <1>7, NewTypeOK DEF IInv, TypeOK, Becomes
<1>9. MutexInv'
  BY <1>1, <1>3, <1>4, <1>5 DEF IInv, MutexInv, Becomes
<1>10. JobsInv'
  BY <1>1, <1>5 DEF IInv, JobsInv, Becomes
<1>11. LruInv'
  BY <1>1, <1>2, <1>3 DEF IInv, LruInv
<1>12. VictimInv'
  BY <1>1, <1>4, <1>5, <1>7 DEF VictimInv, Becomes
<1>13. CountInv'
  <2>1. \A p \in Pools : Cardinality(Lent(p)') <= MaxConns
    BY <1>5, LentKept DEF IInv
  <2>2. \A i \in Jobs : job'[i].pc = "open" => ~Full
    BY <1>4, <1>5 DEF Becomes
  <2>3. ~Full => Cardinality(Active) < MaxPools
    BY ActiveFinite, LimitsAssumption DEF Full
  <2>4. QED
    BY <1>2, <2>1, <2>2, <2>3 DEF IInv, CountInv
<1>14. QED
  BY <1>8, <1>9, <1>10, <1>11, <1>12, <1>13 DEF IInv

LEMMA EvictedInv ==
  ASSUME IInv, NEW j \in Jobs, Evicted(j) PROVE IInv'
<1> DEFINE v == Last(lru)
<1>1. /\ UNCHANGED <<closed, mu, shut>> /\ job[j].pc = "evict" /\ Drained(pools[v])
      /\ pools' = [pools EXCEPT ![v] = NoPool] /\ lru' = Front(lru)
  BY DEF Evicted
<1>2. mu = j /\ mu # Closer
  BY <1>1, NamesAssumption DEF IInv, MutexInv
<1>3. Becomes(j, "open", job[j].role, job[j].pool) /\ job[j].role \in Roles
  BY MovesPc, JobFields DEF Evicted, IInv, PCs
<1>4. /\ lru # <<>> /\ pools[v] \in closed /\ lru \in Seq(Roles)
      /\ NoTwice(lru) /\ ToSet(lru) = Active
  BY <1>1, <1>2 DEF IInv, VictimInv, LruInv, TypeOK
<1>5. /\ Front(lru) \in Seq(Roles) /\ NoTwice(Front(lru)) /\ v \in ToSet(lru)
      /\ ToSet(Front(lru)) = ToSet(lru) \ {v}
  BY <1>4, FrontKept
<1> HIDE DEF v
<1>6. v \in Roles /\ v \in Active
  BY <1>4, <1>5 DEF Active
<1>7. /\ pools' \in [Roles -> Pools \cup {NoPool}] /\ pools'[v] = NoPool
      /\ \A r \in Roles : r # v => pools'[r] = pools[r]
  BY <1>1, <1>6 DEF IInv, TypeOK
<1>8. Active' = Active \ {v}
  BY <1>7 DEF Active
<1>9. \A i \in Jobs : job[i].pc \in {"evict", "open"} => i = j
  BY <1>2 DEF IInv, MutexInv
<1>10. TypeOK'
  BY <1>1, <1>3, <1>5, <1>7, NewTypeOK DEF IInv, TypeOK, Becomes
<1>11. MutexInv'
  BY <1>1, <1>2, <1>3, NamesAssumption DEF IInv, MutexInv, Becomes
<1>12. JobsInv'
  <2> SUFFICES ASSUME NEW i \in Jobs
               PROVE  /\ job'[i].pc \in {"acquire", "working"} => job'[i].pool \in Pools
                      /\ job'[i].pc = "working" => pools'[job'[i].role] = job'[i].pool
                      /\ job'[i].pc = "acquire" => job'[i].pool \in closed \/ pools'[job'[i].role] = job'[i].pool
                      /\ job'[i].pc \in {"evict", "open"} => pools'[job'[i].role] = NoPool
    BY <1>1 DEF JobsInv
  <2>1. CASE i = j
    BY <1>1, <1>3, <1>7, <2>1 DEF IInv, JobsInv, Becomes
  <2>2. CASE i # j
    <3>1. job'[i] = job[i] /\ job[i].role \in Roles /\ job[i].pc \notin {"evict", "open"}
      BY <1>3, <1>9, <2>2, JobFields DEF Becomes, IInv
    <3>2. job[i].pc = "working" => job[i].role # v
      BY <1>1 DEF Drained, Lent, IInv, JobsInv
    <3>3. job[i].pc = "acquire" /\ job[i].role = v => job[i].pool \in closed
      BY <1>4 DEF IInv, JobsInv
    <3>4. QED
      BY <1>7, <3>1, <3>2, <3>3 DEF IInv, JobsInv
  <2>3. QED
    BY <2>1, <2>2
<1>13. LruInv'
  BY <1>1, <1>4, <1>5, <1>8 DEF LruInv
<1>14. VictimInv'
  BY <1>3, <1>9 DEF VictimInv, Becomes
<1>15. CountInv'
  <2>1. \A p \in Pools : Cardinality(Lent(p)') <= MaxConns
    BY <1>3, LentKept DEF IInv
  <2>2. Cardinality(Active \ {v}) = Cardinality(Active) - 1
    BY <1>6, ActiveFinite, FS_RemoveElement
  <2>3. Cardinality(Active \ {v}) < MaxPools /\ Cardinality(Active \ {v}) <= MaxPools
    BY <2>2, ActiveFinite, LimitsAssumption DEF IInv, CountInv
  <2>4. QED
    BY <1>8, <2>1, <2>3 DEF CountInv
<1>16. QED
  BY <1>10, <1>11, <1>12, <1>13, <1>14, <1>15 DEF IInv

(* While a job opens, a pool value is unused: there are more of them than   *)
(* the manager and the jobs can refer to.                                   *)
LEMMA SomeUnused ==
  ASSUME IInv, Cardinality(Active) <= MaxPools
  PROVE  Unused # {}
<1> DEFINE held == {pools[r] : r \in Active}
           asked == {job[j].pool : j \in Jobs}
<1>1. IsFiniteSet(held) /\ Cardinality(held) <= Cardinality(Active)
  <2>1. [r \in Active |-> pools[r]] \in Surjection(Active, held)
    BY DEF Surjection
  <2>2. QED
    BY <2>1, ActiveFinite, FS_Surjection
<1>2. IsFiniteSet(asked) /\ Cardinality(asked) <= Cardinality(Jobs)
  <2>1. [j \in Jobs |-> job[j].pool] \in Surjection(Jobs, asked)
    BY DEF Surjection
  <2>2. QED
    BY <2>1, FinitelyMany, FS_Surjection
<1> HIDE DEF held, asked
<1>3. IsFiniteSet(held \cup asked)
      /\ Cardinality(held \cup asked) = Cardinality(held) + Cardinality(asked) - Cardinality(held \cap asked)
  BY <1>1, <1>2, FS_Union
<1>4. IsFiniteSet(held \cap asked)
  BY <1>1, FS_Intersection
<1>5. /\ Cardinality(held) \in Nat /\ Cardinality(asked) \in Nat /\ Cardinality(held \cap asked) \in Nat
      /\ Cardinality(held \cup asked) \in Nat /\ Cardinality(Jobs) \in Nat /\ Cardinality(Pools) \in Nat
  BY <1>1, <1>2, <1>3, <1>4, FinitelyMany, FS_CardinalityType
<1>6. Cardinality(held \cup asked) < Cardinality(Pools)
  BY <1>1, <1>2, <1>3, <1>5, ActiveFinite, LimitsAssumption, PoolsAssumption
<1>7. ~(Pools \subseteq held \cup asked)
  <2> SUFFICES ASSUME Pools \subseteq held \cup asked PROVE FALSE
    OBVIOUS
  <2>1. Cardinality(Pools) <= Cardinality(held \cup asked)
    BY <1>3, FS_Subset
  <2>2. QED
    BY <1>5, <1>6, <2>1
<1>8. \A r \in Roles : pools[r] \in Pools => pools[r] \in held
  BY NamesAssumption DEF Active, held
<1>9. QED
  BY <1>7, <1>8 DEF Unused, asked

LEMMA OpenInv ==
  ASSUME IInv, NEW j \in Jobs, Open(j) PROVE IInv'
<1> DEFINE r == job[j].role
           p == CHOOSE q \in Unused : TRUE
<1>1. /\ UNCHANGED shut /\ job[j].pc = "open" /\ mu' = Nobody
      /\ pools' = [pools EXCEPT ![r] = p] /\ closed' = closed \ {p} /\ lru' = <<r>> \o lru
  BY DEF Open
<1>2. mu = j /\ mu # Closer /\ ~shut
  BY <1>1, NamesAssumption DEF IInv, MutexInv
<1>3. p \in Unused
  BY <1>1, SomeUnused DEF IInv, CountInv
<1> HIDE DEF p
<1>4. /\ p \in Pools /\ p # NoPool /\ \A s \in Roles : pools[s] # p
      /\ \A i \in Jobs : job[i].pool # p
  BY <1>3, NamesAssumption DEF Unused
<1>5. Becomes(j, "acquire", r, p)
  BY <1>4, Moves DEF Open, IInv, PCs, p
<1>6. pools[r] = NoPool /\ r \in Roles
  BY <1>1, JobFields DEF IInv, JobsInv
<1> HIDE DEF r
<1>7. /\ pools' \in [Roles -> Pools \cup {NoPool}] /\ pools'[r] = p
      /\ \A s \in Roles : s # r => pools'[s] = pools[s]
  BY <1>1, <1>4, <1>6 DEF IInv, TypeOK
<1>8. Active' = Active \cup {r} /\ r \notin Active
  BY <1>4, <1>6, <1>7 DEF Active
<1>9. ToSet(lru) = Active /\ NoTwice(lru) /\ lru \in Seq(Roles)
  BY <1>2 DEF IInv, LruInv, TypeOK
<1>10. lru' \in Seq(Roles) /\ NoTwice(lru') /\ ToSet(lru') = {r} \cup Active
  BY <1>1, <1>6, <1>8, <1>9, PushFront
<1>11. \A i \in Jobs : i # j => job[i].pc \notin {"evict", "open"}
  BY <1>2 DEF IInv, MutexInv
<1>12. TypeOK'
  BY <1>1, <1>5, <1>7, <1>10, NewTypeOK DEF IInv, TypeOK, Becomes
<1>13. MutexInv'
  BY <1>1, <1>2, <1>5, <1>11, NamesAssumption DEF IInv, MutexInv, Becomes
<1>14. JobsInv'
  <2> SUFFICES ASSUME NEW i \in Jobs
               PROVE  /\ job'[i].pc \in {"acquire", "working"} => job'[i].pool \in Pools
                      /\ job'[i].pc = "working" => pools'[job'[i].role] = job'[i].pool
                      /\ job'[i].pc = "acquire" => job'[i].pool \in closed' \/ pools'[job'[i].role] = job'[i].pool
                      /\ job'[i].pc \in {"evict", "open"} => pools'[job'[i].role] = NoPool
    BY DEF JobsInv
  <2>1. CASE i = j
    BY <1>4, <1>5, <1>7, <2>1 DEF Becomes
  <2>2. CASE i # j
    <3>1. job'[i] = job[i] /\ job[i].role \in Roles /\ job[i].pc \notin {"evict", "open"}
      BY <1>5, <1>11, <2>2, JobFields DEF Becomes, IInv
    <3>2. job[i].pc \in {"acquire", "working"} /\ pools[job[i].role] = job[i].pool => job[i].role # r
      BY <1>6, NamesAssumption DEF IInv, JobsInv
    <3>3. job[i].pool # p
      BY <1>4
    <3>4. QED
      BY <1>1, <1>7, <3>1, <3>2, <3>3 DEF IInv, JobsInv
  <2>3. QED
    BY <2>1, <2>2
<1>15. LruInv'
  BY <1>8, <1>10 DEF LruInv
<1>16. VictimInv'
  BY <1>5, <1>11 DEF VictimInv, Becomes
<1>17. CountInv'
  <2>1. \A q \in Pools : Cardinality(Lent(q)') <= MaxConns
    BY <1>5, LentKept DEF IInv
  <2>2. Cardinality(Active \cup {r}) = Cardinality(Active) + 1 /\ Cardinality(Active) < MaxPools
    BY <1>1, <1>8, ActiveFinite, FS_AddElement DEF IInv, CountInv
  <2>3. Cardinality(Active \cup {r}) <= MaxPools
    BY <2>2, ActiveFinite, LimitsAssumption
  <2>4. \A i \in Jobs : job'[i].pc # "open"
    BY <1>5, <1>11 DEF Becomes
  <2>5. QED
    BY <1>8, <2>1, <2>3, <2>4 DEF CountInv
<1>18. QED
  BY <1>12, <1>13, <1>14, <1>15, <1>16, <1>17 DEF IInv

LEMMA OpenFailsInv ==
  ASSUME IInv, NEW j \in Jobs, OpenFails(j) PROVE IInv'
<1>1. UNCHANGED <<pools, lru, closed, shut>> /\ job[j].pc = "open" /\ mu' = Nobody
  BY DEF OpenFails
<1>2. mu = j /\ mu # Closer /\ ~shut
  BY <1>1, NamesAssumption DEF IInv, MutexInv
<1>3. Becomes(j, "idle", job[j].role, NoPool)
  BY Ends DEF OpenFails, IInv
<1>4. Active' = Active
  BY <1>1, SameActive
<1>5. \A i \in Jobs : i # j => job[i].pc \notin {"evict", "open"}
  BY <1>2 DEF IInv, MutexInv
<1>6. TypeOK'
  BY <1>1, <1>3, NewTypeOK DEF IInv, TypeOK, Becomes
<1>7. MutexInv'
  BY <1>1, <1>2, <1>3, <1>5, NamesAssumption DEF IInv, MutexInv, Becomes
<1>8. JobsInv' /\ VictimInv'
  BY <1>1, <1>3, <1>5 DEF IInv, JobsInv, VictimInv, Becomes
<1>9. LruInv'
  BY <1>1, <1>2, <1>4 DEF IInv, LruInv
<1>10. CountInv'
  <2>1. \A q \in Pools : Cardinality(Lent(q)') <= MaxConns
    BY <1>3, LentKept DEF IInv
  <2>2. \A i \in Jobs : job'[i].pc # "open"
    BY <1>3, <1>5 DEF Becomes
  <2>3. QED
    BY <1>4, <2>1, <2>2 DEF IInv, CountInv
<1>11. QED
  BY <1>6, <1>7, <1>8, <1>9, <1>10 DEF IInv

LEMMA ShutdownInv == ASSUME IInv, Shutdown PROVE IInv'
<1>1. UNCHANGED <<pools, lru, closed, job>> /\ mu = Nobody /\ mu' = Closer /\ shut'
  BY DEF Shutdown
<1>2. Active' = Active /\ \A p : Lent(p)' = Lent(p)
  BY <1>1, SameActive DEF Lent
<1>3. TypeOK'
  BY <1>1, NewTypeOK DEF IInv, TypeOK, JobType, PCs, Shutdown
<1>4. MutexInv'
  BY <1>1, NamesAssumption DEF IInv, MutexInv
<1>5. JobsInv' /\ LruInv' /\ VictimInv' /\ CountInv'
  BY <1>1, <1>2 DEF IInv, JobsInv, LruInv, VictimInv, CountInv
<1>6. QED
  BY <1>3, <1>4, <1>5 DEF IInv

LEMMA ClosingInv ==
  ASSUME IInv, NEW r \in Roles, ShutdownClose(r) \/ ShutdownClosed(r) PROVE IInv'
<1>1. UNCHANGED <<lru, mu, shut, job>> /\ mu = Closer /\ r \in Active
  BY DEF ShutdownClose, ShutdownClosed
<1>2. \A j \in Jobs : job[j].pc \notin {"evict", "open"}
  BY <1>1, NamesAssumption DEF IInv, MutexInv
<1>3. \A p : Lent(p)' = Lent(p)
  BY <1>1 DEF Lent
<1>4. job' \in [Jobs -> JobType]
  BY <1>1 DEF IInv, TypeOK, JobType, PCs
<1>5. CASE ShutdownClose(r)
  <2>1. UNCHANGED pools /\ closed' = closed \cup {pools[r]} /\ pools[r] \in Pools
    BY <1>1, <1>5 DEF ShutdownClose, Active, IInv, TypeOK
  <2>2. Active' = Active
    BY <2>1, SameActive
  <2>3. TypeOK'
    BY <1>1, <1>4, <2>1, NewTypeOK DEF IInv, TypeOK
  <2>4. MutexInv' /\ JobsInv' /\ LruInv' /\ VictimInv' /\ CountInv'
    BY <1>1, <1>2, <1>3, <2>1, <2>2 DEF IInv, MutexInv, JobsInv, LruInv, VictimInv, CountInv
  <2>5. QED
    BY <2>3, <2>4 DEF IInv
<1>6. CASE ShutdownClosed(r)
  <2>1. /\ closed' = closed /\ pools[r] \in closed /\ Drained(pools[r])
        /\ pools' = [pools EXCEPT ![r] = NoPool]
    BY <1>6 DEF ShutdownClosed
  <2>2. /\ pools' \in [Roles -> Pools \cup {NoPool}] /\ pools'[r] = NoPool
        /\ \A s \in Roles : s # r => pools'[s] = pools[s]
    BY <2>1 DEF IInv, TypeOK
  <2>3. Active' = Active \ {r}
    BY <2>2 DEF Active
  <2>4. TypeOK'
    BY <1>1, <1>4, <2>1, <2>2, NewTypeOK DEF IInv, TypeOK
  <2>5. MutexInv' /\ LruInv' /\ VictimInv'
    BY <1>1, <1>2, NamesAssumption DEF IInv, MutexInv, LruInv, VictimInv
  <2>6. JobsInv'
    <3> SUFFICES ASSUME NEW i \in Jobs
                 PROVE  /\ job[i].pc \in {"acquire", "working"} => job[i].pool \in Pools
                        /\ job[i].pc = "working" => pools'[job[i].role] = job[i].pool
                        /\ job[i].pc = "acquire" => job[i].pool \in closed \/ pools'[job[i].role] = job[i].pool
      BY <1>1, <1>2, <2>1 DEF JobsInv
    <3>1. job[i].role \in Roles
      BY JobFields DEF IInv
    <3>2. job[i].pc = "working" => job[i].role # r
      BY <2>1 DEF Drained, Lent, IInv, JobsInv
    <3>3. QED
      BY <2>1, <2>2, <3>1, <3>2 DEF IInv, JobsInv
  <2>7. CountInv'
    <3>1. Cardinality(Active \ {r}) = Cardinality(Active) - 1
      BY <1>1, ActiveFinite, FS_RemoveElement
    <3>2. Cardinality(Active \ {r}) <= MaxPools
      BY <3>1, ActiveFinite, LimitsAssumption DEF IInv, CountInv
    <3>3. QED
      BY <1>1, <1>2, <1>3, <2>3, <3>2 DEF IInv, CountInv
  <2>8. QED
    BY <2>4, <2>5, <2>6, <2>7 DEF IInv
<1>7. QED
  BY <1>5, <1>6

LEMMA DoneInv == ASSUME IInv, ShutdownDone PROVE IInv'
<1>1. UNCHANGED <<pools, closed, shut, job>> /\ mu = Closer /\ Active = {} /\ lru' = <<>> /\ mu' = Nobody
  BY DEF ShutdownDone
<1>2. Active' = {} /\ \A p : Lent(p)' = Lent(p)
  BY <1>1, SameActive DEF Lent
<1>3. TypeOK'
  <2>1. lru' \in Seq(Roles) /\ mu' \in Jobs \cup {Closer, Nobody}
    BY <1>1
  <2>2. QED
    BY <1>1, <2>1 DEF IInv, TypeOK
<1>4. \A j \in Jobs : job[j].pc \notin {"evict", "open"}
  BY <1>1, NamesAssumption DEF IInv, MutexInv
<1>5. MutexInv'
  BY <1>1, <1>2, <1>4, NamesAssumption DEF IInv, MutexInv
<1>6. LruInv'
  BY <1>1, <1>2 DEF LruInv, NoTwice, ToSet
<1>7. Active' = Active
  BY <1>1, <1>2
<1>8. JobsInv' /\ VictimInv' /\ CountInv'
  BY <1>1, <1>2, <1>4, <1>7 DEF IInv, JobsInv, VictimInv, CountInv
<1>9. QED
  BY <1>3, <1>5, <1>6, <1>8 DEF IInv

LEMMA NextInv == IInv /\ [Next]_vars => IInv'
<1> SUFFICES ASSUME IInv, [Next]_vars PROVE IInv'
  OBVIOUS
<1>1. CASE UNCHANGED vars
  <2>1. UNCHANGED <<pools, lru, closed, mu, shut, job>>
    BY <1>1 DEF vars
  <2>2. Active' = Active /\ \A p : Lent(p)' = Lent(p)
    BY <2>1, SameActive DEF Lent
  <2>3. QED
    BY <2>1, <2>2 DEF IInv, TypeOK, MutexInv, JobsInv, LruInv, VictimInv, CountInv
<1>2. QED
  BY <1>1, AskInv, EndingInv, AcquireInv, HitInv, MissInv, EvictedInv, OpenInv, OpenFailsInv,
     ShutdownInv, ClosingInv, DoneInv DEF Next, Locked, Shutting

LEMMA Invariant == Spec => []IInv
<1>1. QED
  BY InitInv, NextInv, PTL DEF Spec

-----------------------------------------------------------------------------
(* What it gives                                                            *)

(* The types of a state are types of every reachable state, eviction's      *)
(* victim and a new pool's name among them (tenant_pool.go 256-328).        *)
THEOREM TypeCorrect == Spec => []TypeOK
<1>1. IInv => TypeOK
  BY DEF IInv
<1>2. QED
  BY Invariant, <1>1, PTL

(* WorkersAreAccountedFor: no job works on a connection of a pool that the  *)
(* manager has evicted and forgotten (tenant_pool.go 115-172, 314-328).     *)
THEOREM NoWorkerIsForgotten == Spec => []WorkersAreAccountedFor
<1>1. IInv => WorkersAreAccountedFor
  BY DEF IInv, JobsInv, WorkersAreAccountedFor
<1>2. QED
  BY Invariant, <1>1, PTL

(* ShutMeansDrained: after Close returns no connection is out and no pool   *)
(* is left (tenant_pool.go 233-251).                                        *)
THEOREM CloseDrains == Spec => []ShutMeansDrained
<1>1. IInv => ShutMeansDrained
  <2> SUFFICES ASSUME IInv, shut, mu = Nobody, NEW j \in Jobs, job[j].pc = "working"
               PROVE  FALSE
    BY DEF ShutMeansDrained, IInv, MutexInv
  <2>1. Active = {}
    BY DEF IInv, MutexInv
  <2>2. job[j].pool \in Pools /\ pools[job[j].role] = job[j].pool /\ job[j].role \in Roles
    BY JobFields DEF IInv, JobsInv
  <2>3. job[j].role \in Active
    BY <2>2, NamesAssumption DEF Active
  <2>4. QED
    BY <2>1, <2>3
<1>2. QED
  BY Invariant, <1>1, PTL

(* LruListsThePools: an eviction takes a pool that lives, and none is out   *)
(* of its reach (tenant_pool.go 287-288, 308-328).                          *)
THEOREM TheLruIsThePools == Spec => []LruListsThePools
<1>1. IInv => LruListsThePools
  <2> SUFFICES ASSUME IInv, mu = Nobody PROVE ToSet(lru) = Active /\ Len(lru) = Cardinality(Active)
    BY DEF LruListsThePools
  <2>1. ToSet(lru) = Active /\ NoTwice(lru) /\ lru \in Seq(Roles)
    BY NamesAssumption DEF IInv, LruInv, TypeOK
  <2>2. Len(lru) = Cardinality(ToSet(lru))
    BY <2>1, LengthIsCount
  <2>3. QED
    BY <2>1, <2>2
<1>2. QED
  BY Invariant, <1>1, PTL

(* A number for every connection out of a pool.                             *)
rank(p) == CHOOSE f : f \in Injection(Lent(p), 1..MaxConns)

LEMMA RankIsInjective ==
  ASSUME IInv, NEW p \in Pools
  PROVE  rank(p) \in Injection(Lent(p), 1..MaxConns)
<1> DEFINE n == Cardinality(Lent(p))
<1>1. n \in Nat /\ n <= MaxConns /\ IsFiniteSet(Lent(p))
  BY LentFinite DEF IInv, CountInv
<1>2. ExistsBijection(1..n, Lent(p))
  BY <1>1, FS_CardinalityType
<1>3. ExistsBijection(Lent(p), 1..n)
  BY <1>2, Fun_ExistsBijSymmetric
<1> HIDE DEF n
<1>4. PICK f : f \in Bijection(Lent(p), 1..n)
  BY <1>3 DEF ExistsBijection
<1>5. f \in [Lent(p) -> 1..n] /\ IsInjective(f)
  BY <1>4 DEF Bijection, Injection
<1>6. f \in [Lent(p) -> 1..MaxConns]
  BY <1>1, <1>5, LimitsAssumption
<1>7. f \in Injection(Lent(p), 1..MaxConns)
  BY <1>5, <1>6 DEF Injection
<1>8. QED
  BY <1>7 DEF rank

(* ConnectionsBounded: the connections out are at most MaxPools x           *)
(* MaxConnsPerPool, whatever is being evicted (tenant_pool.go 49-53).       *)
THEOREM TheBoundHolds == Spec => []ConnectionsBounded
<1>1. IInv => ConnectionsBounded
  <2> SUFFICES ASSUME IInv PROVE ConnectionsBounded
    OBVIOUS
  <2> DEFINE working == {j \in Jobs : job[j].pc = "working"}
             slots == Active \X (1..MaxConns)
             slot == [j \in working |-> <<job[j].role, rank(job[j].pool)[j]>>]
  <2>1. ASSUME NEW j \in working
        PROVE  /\ job[j].role \in Active /\ job[j].pool \in Pools /\ pools[job[j].role] = job[j].pool
               /\ j \in Lent(job[j].pool)
    BY <2>1, JobFields, NamesAssumption DEF IInv, JobsInv, Active, Lent
  <2>2. ASSUME NEW p \in Pools
        PROVE  /\ \A j \in Lent(p) : rank(p)[j] \in 1..MaxConns
               /\ \A a, b \in Lent(p) : rank(p)[a] = rank(p)[b] => a = b
    BY RankIsInjective DEF Injection, IsInjective
  <2>3. slot \in [working -> slots]
    BY <2>1, <2>2
  <2>4. ASSUME NEW a \in working, NEW b \in working, slot[a] = slot[b] PROVE a = b
    <3>1. job[a].role = job[b].role /\ rank(job[a].pool)[a] = rank(job[b].pool)[b]
      BY <2>4
    <3>2. job[a].pool = job[b].pool
      BY <2>1, <3>1
    <3>3. QED
      BY <2>1, <2>2, <3>1, <3>2
  <2>5. slot \in Injection(working, slots)
    <3> HIDE DEF slots
    <3>1. DOMAIN slot = working
      OBVIOUS
    <3> HIDE DEF slot, working
    <3>2. QED
      BY <2>3, <2>4, <3>1 DEF Injection, IsInjective
  <2>6. IsFiniteSet(1..MaxConns) /\ Cardinality(1..MaxConns) = MaxConns
    BY FS_Interval, LimitsAssumption
  <2>7. IsFiniteSet(slots) /\ Cardinality(slots) = Cardinality(Active) * MaxConns
    BY <2>6, ActiveFinite, FS_Product
  <2> HIDE DEF slot, slots
  <2>8. Cardinality(working) <= Cardinality(slots)
    BY <2>5, <2>7, FS_Injection
  <2>9. Cardinality(working) \in Nat
    BY FinitelyMany, FS_Subset, FS_CardinalityType
  <2>10. Cardinality(Active) * MaxConns <= MaxPools * MaxConns
    <3>1. Cardinality(Active) \in Nat /\ Cardinality(Active) <= MaxPools
      BY ActiveFinite DEF IInv, CountInv
    <3>2. \A a, b, c \in Nat : a <= b => a * c <= b * c
      OBVIOUS
    <3>3. QED
      BY <3>1, <3>2, LimitsAssumption
  <2>11. Cardinality(Active) * MaxConns \in Nat /\ MaxPools * MaxConns \in Nat
    BY ActiveFinite, LimitsAssumption
  <2>12. QED
    BY <2>7, <2>8, <2>9, <2>10, <2>11 DEF ConnectionsBounded
<1>2. QED
  BY Invariant, <1>1, PTL
=============================================================================
