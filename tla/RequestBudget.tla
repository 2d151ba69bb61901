---------------------------- MODULE RequestBudget ----------------------------
(***************************************************************************)
(* Requests to the sports API: _request and _fetch of                       *)
(* app/sports_api/client.py over the budget, the response cache and the     *)
(* locks of app/repositories/sports_requests.py.  A caller is one call of   *)
(* _request; the callers share the database, those of a process its circuit *)
(* breaker, and all of them here one connection pool.                       *)
(***************************************************************************)
EXTENDS Integers, FiniteSets

CONSTANTS
    Caller, Process,
    ProcessOf,      \* the process a caller runs in
    Key,            \* cache keys
    Limit,          \* MAX_DAILY_API_REQUESTS
    Reserved,       \* API_PRIORITY_RESERVE
    MaxRetries,     \* _MAX_RETRIES
    Threshold,      \* _BREAKER_THRESHOLD
    PoolSize,       \* connections of the pool
    MaxExternal,    \* bound on the requests of other tools
    None

ASSUME BudgetAssumption ==
    /\ ProcessOf \in [Caller -> Process]
    /\ {Limit, Reserved, MaxRetries, Threshold, PoolSize} \subseteq Nat
    /\ MaxExternal \in Nat
    /\ None \notin Caller \cup Key \cup Nat

VARIABLES
    spent,          \* units of kind 'request' in sports_api_requests
    baseline,       \* units of kind 'provider_baseline'
    fresh,          \* keys with a fresh row in sports_api_cache
    cacheLock,      \* key -> holder of its advisory lock, and of a connection
    budgetLock,     \* holder of the budget's advisory lock
    failures, open, \* breaker of a process: failures in a row, cooling down
    job,            \* a caller's own state
    provider,       \* requests the provider has counted
    external,       \* history: requests of other tools
    low             \* history: units reserved with low priority

budget == <<spent, baseline, budgetLock, low>>
cache == <<fresh, cacheLock>>
breaker == <<failures, open>>
others == <<provider, external>>
vars == <<budget, cache, breaker, job, others>>

Idle == [step |-> "idle", high |-> FALSE, key |-> None, attempt |-> 0,
         seen |-> 0, header |-> None, outcome |-> None]

\* _used: the sum of the units of one window of 24 hours; none ages here.
Used == spent + baseline

AtLeastZero(n) == IF n > 0 THEN n ELSE 0

\* The limit of _fetch for a priority.
Allowance(priority) ==
    IF priority = "high" THEN Limit ELSE AtLeastZero(Limit - Reserved)

PriorityOf(c) == IF job[c].high THEN "high" ELSE "low"

\* Inside a transaction of reserve or reconcile.
Transacting == {"waitReserve", "reserving", "waitReconcile", "reconciling"}

\* lock() keeps its connection for the whole fetch; reserve and reconcile take
\* another one for their transaction.
Free == PoolSize - Cardinality({k \in Key : cacheLock[k] # None})
                 - Cardinality({c \in Caller : job[c].step \in Transacting})

Init ==
    /\ spent = 0
    /\ baseline = 0
    /\ fresh = {}
    /\ cacheLock = [k \in Key |-> None]
    /\ budgetLock = None
    /\ failures = [i \in Process |-> 0]
    /\ open = [i \in Process |-> FALSE]
    /\ job = [c \in Caller |-> Idle]
    /\ provider = 0
    /\ external = 0
    /\ low = 0

----------------------------------------------------------------------------
(* _request: the cache, and its lock.                                       *)

At(c, step) == job[c].step = step

Goto(c, step) == job' = [job EXCEPT ![c].step = step]

\* Mutant of Return: the lock of the cache key belongs to the session and stays.
ReturnKeepingLock(c) ==
    /\ job' = [job EXCEPT ![c] = Idle]
    /\ UNCHANGED cacheLock

\* The call returns or raises; its lock transaction ends.
Return(c) ==
    /\ job' = [job EXCEPT ![c] = Idle]
    /\ cacheLock' = [k \in Key |-> IF cacheLock[k] = c THEN None ELSE cacheLock[k]]

\* _fetch does not start while the breaker is open.
Fetch(c) ==
    IF open[ProcessOf[c]]
    THEN Return(c)
    ELSE Goto(c, "reserve") /\ UNCHANGED cacheLock

\* k is None for a request that is not cached.
Call(c, high, k) ==
    /\ At(c, "idle")
    /\ k = None => ~ open[ProcessOf[c]]
    /\ job' = [job EXCEPT ![c].step = IF k = None THEN "reserve" ELSE "lookup",
                          ![c].high = high, ![c].key = k]
    /\ UNCHANGED <<budget, cache, breaker, others>>

Lookup(c) ==
    /\ At(c, "lookup")
    /\ Free > 0
    /\ IF job[c].key \in fresh THEN Return(c) ELSE Goto(c, "lock") /\ UNCHANGED cacheLock
    /\ UNCHANGED <<budget, fresh, breaker, others>>

\* pg_try_advisory_xact_lock: a request under way for the key skips this one.
TryLock(c) ==
    /\ At(c, "lock")
    /\ Free > 0
    /\ IF cacheLock[job[c].key] = None
       THEN /\ cacheLock' = [cacheLock EXCEPT ![job[c].key] = c]
            /\ Goto(c, "recheck")
       ELSE Return(c)
    /\ UNCHANGED <<budget, fresh, breaker, others>>

\* Mutant of Recheck: the cache is not read again under the lock.
RecheckNothing(c) ==
    /\ At(c, "recheck")
    /\ Free > 0
    /\ Fetch(c)
    /\ UNCHANGED <<budget, fresh, breaker, others>>

\* With the lock, the cache is read again.
Recheck(c) ==
    /\ At(c, "recheck")
    /\ Free > 0
    /\ IF job[c].key \in fresh THEN Return(c) ELSE Fetch(c)
    /\ UNCHANGED <<budget, fresh, breaker, others>>

----------------------------------------------------------------------------
(* _fetch: reserve, send, reconcile, and again after a retriable failure.   *)

Connect(c, from, to) ==
    /\ At(c, from)
    /\ Free > 0
    /\ Goto(c, to)
    /\ UNCHANGED <<budget, cache, breaker, others>>

\* Mutant of LockBudget: the units are read without the advisory lock.
LockBudgetUnguarded(c, from, to) ==
    /\ At(c, from)
    /\ budgetLock' = c
    /\ job' = [job EXCEPT ![c].step = to, ![c].seen = Used]
    /\ UNCHANGED <<spent, baseline, low, cache, breaker, others>>

\* The advisory lock is granted and the units in use are read.
LockBudget(c, from, to) ==
    /\ At(c, from)
    /\ budgetLock = None
    /\ budgetLock' = c
    /\ job' = [job EXCEPT ![c].step = to, ![c].seen = Used]
    /\ UNCHANGED <<spent, baseline, low, cache, breaker, others>>

BeginReserve(c) == Connect(c, "reserve", "waitReserve")

LockForReserve(c) == LockBudget(c, "waitReserve", "reserving")

\* A reservation is never refunded.
Reserve(c) ==
    /\ At(c, "reserving")
    /\ job[c].seen < Allowance(PriorityOf(c))
    /\ spent' = spent + 1
    /\ low' = IF job[c].high THEN low ELSE low + 1
    /\ budgetLock' = None
    /\ job' = [job EXCEPT ![c].step = "get", ![c].seen = 0]
    /\ UNCHANGED <<baseline, cache, breaker, others>>

Refuse(c) ==
    /\ At(c, "reserving")
    /\ job[c].seen >= Allowance(PriorityOf(c))
    /\ budgetLock' = None
    /\ job' = [job EXCEPT ![c].step = "report", ![c].seen = 0]
    /\ UNCHANGED <<spent, baseline, low, cache, breaker, others>>

\* The refusal reads the budget for its reason, and raises.
Skip(c) ==
    /\ At(c, "report")
    /\ Free > 0
    /\ Return(c)
    /\ UNCHANGED <<budget, fresh, breaker, others>>

\* A good answer, a 429 or 5xx, or a refusal or timeout.  The provider may have
\* counted a request that failed, and headers tell what it has counted.
Get(c) ==
    /\ At(c, "get")
    /\ \E result \in {"ok", "retry", "rejected"} :
         /\ provider' \in {provider, provider + 1}
         /\ result = "ok" => provider' = provider + 1
         /\ \/ job' = [job EXCEPT ![c].step = "reconcile", ![c].outcome = result,
                                  ![c].header = provider']
            \/ job' = [job EXCEPT ![c].step = "settle", ![c].outcome = result]
    /\ UNCHANGED <<budget, cache, breaker, external>>

BeginReconcile(c) == Connect(c, "reconcile", "waitReconcile")

LockForReconcile(c) == LockBudget(c, "waitReconcile", "reconciling")

\* Mutant of Reconcile: a smaller count of the provider lowers ours.
ReconcileDown(c) ==
    /\ At(c, "reconciling")
    /\ baseline' = baseline + job[c].header - job[c].seen
    /\ budgetLock' = None
    /\ job' = [job EXCEPT ![c].step = "settle", ![c].seen = 0, ![c].header = None]
    /\ UNCHANGED <<spent, low, cache, breaker, others>>

\* Mutant of Reconcile: what was counted before is charged again.
ReconcileWhole(c) ==
    /\ At(c, "reconciling")
    /\ baseline' = baseline + job[c].header
    /\ budgetLock' = None
    /\ job' = [job EXCEPT ![c].step = "settle", ![c].seen = 0, ![c].header = None]
    /\ UNCHANGED <<spent, low, cache, breaker, others>>

\* What the provider has counted beyond our own count is charged as well.
Reconcile(c) ==
    LET debt == AtLeastZero(job[c].header - job[c].seen) IN
    /\ At(c, "reconciling")
    /\ baseline' = baseline + debt
    /\ budgetLock' = None
    /\ job' = [job EXCEPT ![c].step = "settle", ![c].seen = 0, ![c].header = None]
    /\ UNCHANGED <<spent, low, cache, breaker, others>>

Succeed(c) ==
    /\ At(c, "settle")
    /\ job[c].outcome = "ok"
    /\ failures' = [failures EXCEPT ![ProcessOf[c]] = 0]
    /\ IF job[c].key = None THEN Return(c) ELSE Goto(c, "store") /\ UNCHANGED cacheLock
    /\ UNCHANGED <<budget, fresh, open, others>>

TryAgain(c) ==
    /\ At(c, "settle")
    /\ job[c].outcome = "retry"
    /\ job[c].attempt < MaxRetries
    /\ job' = [job EXCEPT ![c].step = "reserve", ![c].attempt = @ + 1, ![c].outcome = None]
    /\ UNCHANGED <<budget, cache, breaker, others>>

\* _register_failure: the count is capped here at the threshold.
Fail(c) ==
    LET before == failures[ProcessOf[c]]
        count == IF before < Threshold THEN before + 1 ELSE Threshold IN
    /\ At(c, "settle")
    /\ job[c].outcome # "ok"
    /\ job[c].outcome = "retry" => job[c].attempt = MaxRetries
    /\ failures' = [failures EXCEPT ![ProcessOf[c]] = count]
    /\ open' = [open EXCEPT ![ProcessOf[c]] = @ \/ count = Threshold]
    /\ Return(c)
    /\ UNCHANGED <<budget, fresh, others>>

Store(c) ==
    /\ At(c, "store")
    /\ Free > 0
    /\ fresh' = fresh \cup {job[c].key}
    /\ Return(c)
    /\ UNCHANGED <<budget, breaker, others>>

----------------------------------------------------------------------------

\* The caller is cancelled (the 2 seconds of a team search are over), a statement
\* takes longer than command_timeout, or the process stops.
Crash(c) ==
    /\ ~ At(c, "idle")
    /\ Return(c)
    /\ budgetLock' = IF budgetLock = c THEN None ELSE budgetLock
    /\ provider' \in IF At(c, "get") THEN {provider, provider + 1} ELSE {provider}
    /\ UNCHANGED <<spent, baseline, low, fresh, breaker, external>>

\* A cached response gets too old.
Expire(k) ==
    /\ k \in fresh
    /\ fresh' = fresh \ {k}
    /\ UNCHANGED <<budget, cacheLock, breaker, job, others>>

\* The cooldown ends; the failures are still counted.
CoolDown(i) ==
    /\ open[i]
    /\ open' = [open EXCEPT ![i] = FALSE]
    /\ UNCHANGED <<budget, cache, failures, job, others>>

\* Somebody else uses the same API key.
External ==
    /\ external < MaxExternal
    /\ external' = external + 1
    /\ provider' = provider + 1
    /\ UNCHANGED <<budget, cache, breaker, job>>

Proceed(c) ==
    \/ Lookup(c) \/ TryLock(c) \/ Recheck(c)
    \/ BeginReserve(c) \/ LockForReserve(c) \/ Reserve(c) \/ Refuse(c) \/ Skip(c)
    \/ Get(c)
    \/ BeginReconcile(c) \/ LockForReconcile(c) \/ Reconcile(c)
    \/ Succeed(c) \/ TryAgain(c) \/ Fail(c) \/ Store(c)

Next ==
    \/ \E c \in Caller : Proceed(c) \/ Crash(c)
    \/ \E c \in Caller, high \in BOOLEAN, k \in Key \cup {None} : Call(c, high, k)
    \/ \E k \in Key : Expire(k)
    \/ \E i \in Process : CoolDown(i)
    \/ External

Spec == Init /\ [][Next]_vars

\* A caller runs on; the pool and PostgreSQL serve those who wait in turn.
Fairness == \A c \in Caller : SF_vars(Proceed(c))

FairSpec == Spec /\ Fairness

----------------------------------------------------------------------------

Fetching == {"reserve", "get", "report", "reconcile", "settle", "store"} \cup Transacting

Job == [step : {"idle", "lookup", "lock", "recheck"} \cup Fetching,
        high : BOOLEAN, key : Key \cup {None}, attempt : 0..MaxRetries, seen : Nat,
        header : Nat \cup {None}, outcome : {"ok", "retry", "rejected", None}]

\* Every variable has its type.
TypeOK ==
    /\ {spent, baseline, low} \subseteq Nat
    /\ fresh \subseteq Key
    /\ cacheLock \in [Key -> Caller \cup {None}]
    /\ budgetLock \in Caller \cup {None}
    /\ failures \in [Process -> 0..Threshold]
    /\ open \in [Process -> BOOLEAN]
    /\ job \in [Caller -> Job]
    /\ {provider, external} \subseteq Nat

\* However many instances reserve at once, a window of 24 hours holds no more
\* reserved attempts, retries and crashed ones included, than the daily limit,
\* and low priorities leave the reserve to the live matches.
WithinBudget ==
    /\ spent <= Limit
    /\ low <= Allowance("low")

\* The requests of other tools are charged once, however many answers that
\* reported them are reconciled at the same time.
NoDoubleCharge == baseline <= external

\* While one caller fetches a key nobody else fetches it, and none fetches what
\* another has just stored.
NoNeedlessFetch ==
    \A c \in Caller : job[c].step \in Fetching => job[c].key \notin fresh

\* All connections are kept by fetches that wait for one more.
Drained ==
    /\ Free = 0
    /\ \A k \in Key : cacheLock[k] # None =>
          job[cacheLock[k]].step \in {"recheck", "reserve", "report", "reconcile", "store"}

\* Every request is answered: it waits forever only if the pool is drained by
\* fetches that each hold one connection and wait for a second one.
AnsweredUnlessDrained ==
    \A c \in Caller : ~ At(c, "idle") ~> At(c, "idle") \/ Drained

\* A connection, or the budget's lock, is what the caller needs next and nobody
\* gives it.
Waits(c) ==
    \/ /\ job[c].step \in {"lookup", "lock", "recheck", "reserve", "report", "reconcile", "store"}
       /\ ~ Free > 0
    \/ job[c].step \in {"waitReserve", "waitReconcile"} /\ budgetLock # None

\* The safety of that: two levels of locks over one pool, with callers that retry,
\* are refused and crash, stop all of them in one way only, the drained pool.
NoOtherStall ==
    ~ Drained /\ (\E c \in Caller : ~ At(c, "idle")) =>
        \E c \in Caller : ~ At(c, "idle") /\ ~ Waits(c)
=============================================================================
