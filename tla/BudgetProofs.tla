---------------------------- MODULE BudgetProofs ----------------------------
(* Theorems about RequestBudget, for any numbers of callers, processes and   *)
(* keys and any limits.                                                      *)
EXTENDS RequestBudget, FiniteSetTheorems, TLAPS

----------------------------------------------------------------------------
(* Types.                                                                   *)

\* A caller that reads, locks or stores a cache key has one, and one that
\* reconciles has been told a number.
Sound(j) ==
    /\ j.step \in {"lookup", "lock", "recheck", "store"} => j.key \in Key
    /\ j.step \in {"reconcile", "waitReconcile", "reconciling"} => j.header \in Nat

KeyInv == \A c \in Caller : Sound(job[c])

Steps == {"idle", "lookup", "lock", "recheck"} \cup Fetching

\* A call that returns is idle, and its cache lock is free.
LEMMA ReturnType ==
    ASSUME TypeOK, KeyInv, NEW c \in Caller, Return(c)
    PROVE  job' \in [Caller -> Job] /\ cacheLock' \in [Key -> Caller \cup {None}] /\ KeyInv'
<1>1. Idle \in Job /\ Sound(Idle)
  BY BudgetAssumption DEF Idle, Job, TypeOK, Sound
<1> QED
  BY <1>1 DEF Return, TypeOK, KeyInv

\* A call that takes its next step keeps the rest of its state.
LEMMA GotoType ==
    ASSUME TypeOK, KeyInv, NEW c \in Caller, NEW s \in Steps, Goto(c, s),
           s \in {"lookup", "lock", "recheck", "store"} => job[c].key \in Key,
           s \in {"reconcile", "waitReconcile", "reconciling"} => job[c].header \in Nat
    PROVE  job' \in [Caller -> Job] /\ KeyInv'
<1> DEFINE j == [job[c] EXCEPT !.step = s]
<1>1. j \in Job /\ j.step = s /\ j.key = job[c].key /\ j.header = job[c].header
  BY DEF TypeOK, Job, Steps
<1>2. job' = [job EXCEPT ![c] = j]
  BY DEF Goto
<1> HIDE DEF j
<1> QED
  BY <1>1, <1>2 DEF TypeOK, KeyInv, Sound

\* Any other change of one caller's state.
LEMMA JobType ==
    ASSUME TypeOK, KeyInv, NEW c \in Caller, NEW j \in Job, job' = [job EXCEPT ![c] = j], Sound(j)
    PROVE  job' \in [Caller -> Job] /\ KeyInv'
  BY DEF TypeOK, KeyInv

\* The numbers are natural numbers.
LEMMA Numbers == TypeOK => {spent, baseline, low, provider, external, Used, MaxRetries} \subseteq Nat
  BY BudgetAssumption DEF TypeOK, Used

\* Callers start idle, with nothing counted.
LEMMA InitType == Init => TypeOK /\ KeyInv
  BY BudgetAssumption DEF Init, TypeOK, KeyInv, Sound, Job, Idle, Fetching, Transacting

\* Every step keeps the types, and a key as long as it is needed.
LEMMA TypeStep == TypeOK /\ KeyInv /\ [Next]_vars => TypeOK' /\ KeyInv'
<1> DEFINE Typed == TypeOK' /\ KeyInv'
<1> SUFFICES ASSUME TypeOK, KeyInv, [Next]_vars PROVE Typed
  OBVIOUS
<1> USE BudgetAssumption DEF At
<1>0. \A c \in Caller : job[c] \in Job
  BY DEF TypeOK
<1>1. ASSUME NEW c \in Caller, NEW high \in BOOLEAN, NEW k \in Key \cup {None}, Call(c, high, k)
      PROVE  Typed
  <2> PICK s \in Steps : s = IF k = None THEN "reserve" ELSE "lookup"
    BY DEF Steps, Fetching
  <2> DEFINE j == [job[c] EXCEPT !.step = s, !.high = high, !.key = k]
  <2>1. j \in Job /\ Sound(j)
    <3>2. /\ j.step = s /\ j.key = k /\ j.high = high /\ j.header = job[c].header
          /\ j \in Job
      BY <1>0 DEF Job, Steps
    <3>3. s = "lookup" => k \in Key
      OBVIOUS
    <3> QED
      BY <3>2, <3>3 DEF Sound
  <2>2. job' = [job EXCEPT ![c] = j]
    BY <1>1 DEF Call
  <2> HIDE DEF j
  <2> QED
    BY <1>1, <2>1, <2>2, JobType DEF Call, TypeOK, budget, cache, breaker, others
<1>2. ASSUME NEW c \in Caller, Lookup(c) PROVE Typed
  <2>1. Return(c) \/ (Goto(c, "lock") /\ UNCHANGED cacheLock)
    BY <1>2 DEF Lookup
  <2>2. job' \in [Caller -> Job] /\ cacheLock' \in [Key -> Caller \cup {None}] /\ KeyInv'
    BY <1>2, <2>1, ReturnType, GotoType DEF Lookup, KeyInv, Sound, Steps, TypeOK, Job
  <2> QED
    BY <1>2, <2>2 DEF Lookup, TypeOK, budget, breaker, others
<1>3. ASSUME NEW c \in Caller, TryLock(c) PROVE Typed
  <2>1. Return(c) \/ (Goto(c, "recheck") /\ cacheLock' = [cacheLock EXCEPT ![job[c].key] = c])
    BY <1>3 DEF TryLock
  <2>2. job' \in [Caller -> Job] /\ cacheLock' \in [Key -> Caller \cup {None}] /\ KeyInv'
    BY <1>3, <2>1, ReturnType, GotoType DEF TryLock, KeyInv, Sound, Steps, TypeOK
  <2> QED
    BY <1>3, <2>2 DEF TryLock, TypeOK, budget, breaker, others
<1>4. ASSUME NEW c \in Caller, Recheck(c) PROVE Typed
  <2>1. Return(c) \/ (Goto(c, "reserve") /\ UNCHANGED cacheLock)
    BY <1>4 DEF Recheck, Fetch
  <2>2. job' \in [Caller -> Job] /\ cacheLock' \in [Key -> Caller \cup {None}] /\ KeyInv'
    BY <1>4, <2>1, ReturnType, GotoType DEF Steps, Fetching, TypeOK
  <2> QED
    BY <1>4, <2>2 DEF Recheck, TypeOK, budget, breaker, others
<1>5. ASSUME NEW c \in Caller, BeginReserve(c) \/ BeginReconcile(c) PROVE Typed
  <2>1. Goto(c, "waitReserve") \/ Goto(c, "waitReconcile")
    BY <1>5 DEF BeginReserve, BeginReconcile, Connect
  <2>2. job' \in [Caller -> Job] /\ KeyInv'
    BY <1>5, <2>1, GotoType
    DEF BeginReserve, BeginReconcile, Connect, KeyInv, Sound, Steps, Fetching, Transacting
  <2> QED
    BY <1>5, <2>2
    DEF BeginReserve, BeginReconcile, Connect, TypeOK, budget, cache, breaker, others
<1>6. ASSUME NEW c \in Caller, NEW from, NEW to,
             LockBudget(c, from, to),
             <<from, to>> \in {<<"waitReserve", "reserving">>, <<"waitReconcile", "reconciling">>}
      PROVE  Typed
  <2> DEFINE j == [job[c] EXCEPT !.step = to, !.seen = Used]
  <2>1. j \in Job /\ j.step = to /\ j.header = job[c].header
    BY <1>0, <1>6, Numbers DEF Job, Fetching, Transacting
  <2>3. Sound(j)
    BY <1>6, <2>1 DEF LockBudget, Sound, KeyInv
  <2>2. job' = [job EXCEPT ![c] = j]
    BY <1>6 DEF LockBudget
  <2> HIDE DEF j
  <2> QED
    BY <1>6, <2>1, <2>2, <2>3, JobType DEF LockBudget, TypeOK, cache, breaker, others
<1>7. ASSUME NEW c \in Caller, Reserve(c) PROVE Typed
  <2> DEFINE j == [job[c] EXCEPT !.step = "get", !.seen = 0]
  <2>1. j \in Job /\ Sound(j)
    BY <1>0 DEF Job, Sound, Fetching
  <2>2. job' = [job EXCEPT ![c] = j]
    BY <1>7 DEF Reserve
  <2> HIDE DEF j
  <2> QED
    <3>1. {spent', baseline', low'} \subseteq Nat
      BY <1>7, Numbers DEF Reserve
    <3>2. job' \in [Caller -> Job] /\ KeyInv'
      BY <2>1, <2>2, JobType
    <3> QED
      BY <1>7, <3>1, <3>2 DEF Reserve, TypeOK, cache, breaker, others
<1>8. ASSUME NEW c \in Caller, Refuse(c) PROVE Typed
  <2> DEFINE j == [job[c] EXCEPT !.step = "report", !.seen = 0]
  <2>1. j \in Job /\ Sound(j)
    BY <1>0 DEF Job, Sound, Fetching
  <2>2. job' = [job EXCEPT ![c] = j]
    BY <1>8 DEF Refuse
  <2> HIDE DEF j
  <2> QED
    BY <1>8, <2>1, <2>2, JobType DEF Refuse, TypeOK, cache, breaker, others
<1>9. ASSUME NEW c \in Caller, Skip(c) PROVE Typed
  BY <1>9, ReturnType DEF Skip, TypeOK, budget, breaker, others
<1>10. ASSUME NEW c \in Caller, Get(c) PROVE Typed
  <2>1. provider' \in Nat
    BY <1>10 DEF Get, TypeOK
  <2>2. PICK result \in {"ok", "retry", "rejected"} :
           \/ job' = [job EXCEPT ![c].step = "reconcile", ![c].outcome = result,
                                 ![c].header = provider']
           \/ job' = [job EXCEPT ![c].step = "settle", ![c].outcome = result]
    BY <1>10 DEF Get
  <2> DEFINE i == [job[c] EXCEPT !.step = "reconcile", !.outcome = result, !.header = provider']
             j == [job[c] EXCEPT !.step = "settle", !.outcome = result]
  <2>3. i \in Job /\ j \in Job /\ Sound(i) /\ Sound(j)
    BY <1>0, <2>1 DEF Job, Sound, Fetching
  <2>4. job' = [job EXCEPT ![c] = i] \/ job' = [job EXCEPT ![c] = j]
    BY <2>2
  <2> HIDE DEF i, j
  <2> QED
    BY <1>10, <2>1, <2>3, <2>4, JobType DEF Get, TypeOK, budget, cache, breaker
<1>11. ASSUME NEW c \in Caller, Reconcile(c) PROVE Typed
  <2> DEFINE j == [job[c] EXCEPT !.step = "settle", !.seen = 0, !.header = None]
  <2>1. j \in Job /\ Sound(j)
    BY <1>0 DEF Job, Sound, Fetching
  <2>2. job' = [job EXCEPT ![c] = j]
    BY <1>11 DEF Reconcile
  <2>3. baseline' \in Nat
    <3>1. job[c].header \in Nat /\ job[c].seen \in Nat /\ baseline \in Nat
      BY <1>11, Numbers DEF Reconcile, KeyInv, Sound, TypeOK, Job
    <3> QED
      BY <1>11, <3>1 DEF Reconcile, AtLeastZero
  <2> HIDE DEF j
  <2> QED
    BY <1>11, <2>1, <2>2, <2>3, JobType DEF Reconcile, TypeOK, cache, breaker, others
<1>12. ASSUME NEW c \in Caller, Succeed(c) PROVE Typed
  <2>1. Return(c) \/ (Goto(c, "store") /\ UNCHANGED cacheLock /\ job[c].key # None)
    BY <1>12 DEF Succeed
  <2>2. job' \in [Caller -> Job] /\ cacheLock' \in [Key -> Caller \cup {None}] /\ KeyInv'
    BY <2>1, ReturnType, GotoType DEF Steps, Fetching, TypeOK, Job
  <2> QED
    BY <1>12, <2>2 DEF Succeed, TypeOK, budget, others
<1>13. ASSUME NEW c \in Caller, TryAgain(c) PROVE Typed
  <2> DEFINE j == [job[c] EXCEPT !.step = "reserve", !.attempt = @ + 1, !.outcome = None]
  <2>1. j \in Job /\ Sound(j)
    BY <1>13 DEF TryAgain, Job, Sound, Fetching, TypeOK
  <2>2. job' = [job EXCEPT ![c] = j]
    BY <1>13 DEF TryAgain
  <2> HIDE DEF j
  <2> QED
    BY <1>13, <2>1, <2>2, JobType DEF TryAgain, TypeOK, budget, cache, breaker, others
<1>14. ASSUME NEW c \in Caller, Fail(c) PROVE Typed
  <2>1. failures' \in [Process -> 0..Threshold] /\ open' \in [Process -> BOOLEAN]
    BY <1>14 DEF Fail, TypeOK
  <2> QED
    BY <1>14, <2>1, ReturnType DEF Fail, TypeOK, budget, others
<1>15. ASSUME NEW c \in Caller, Store(c) PROVE Typed
  <2>1. fresh' \subseteq Key
    BY <1>15 DEF Store, KeyInv, Sound, TypeOK
  <2> QED
    BY <1>15, <2>1, ReturnType DEF Store, TypeOK, budget, breaker, others
<1>16. ASSUME NEW c \in Caller, Crash(c) PROVE Typed
  BY <1>16, ReturnType DEF Crash, TypeOK, breaker
<1>17. ASSUME NEW k \in Key, Expire(k) PROVE Typed
  BY <1>17 DEF Expire, TypeOK, KeyInv, budget, breaker, others
<1>18. ASSUME NEW i \in Process, CoolDown(i) PROVE Typed
  BY <1>18 DEF CoolDown, TypeOK, KeyInv, budget, cache, others
<1>19. CASE External
  BY <1>19 DEF External, TypeOK, KeyInv, budget, cache, breaker
<1>20. CASE UNCHANGED vars
  BY <1>20 DEF TypeOK, KeyInv, vars, budget, cache, breaker, others
<1> QED
  BY <1>1, <1>2, <1>3, <1>4, <1>5, <1>6, <1>7, <1>8, <1>9, <1>10, <1>11, <1>12,
     <1>13, <1>14, <1>15, <1>16, <1>17, <1>18, <1>19, <1>20
  DEF Next, Proceed, LockForReserve, LockForReconcile

\* Every variable keeps its type.
THEOREM BudgetTypeCorrect == Spec => []TypeOK
  BY InitType, TypeStep, PTL DEF Spec

----------------------------------------------------------------------------
(* The budget.                                                              *)

\* What a transaction has read under the budget's lock is still so.
LockInv ==
    \A c \in Caller :
        job[c].step \in {"reserving", "reconciling"} => budgetLock = c /\ job[c].seen = Used

\* A header does not tell more than the provider has counted.
HeaderInv ==
    \A c \in Caller :
        job[c].step \in {"reconcile", "waitReconcile", "reconciling"} => job[c].header <= provider

\* The requests that are under way.
Getting == {c \in Caller : job[c].step = "get"}

\* The provider has counted no more than was reserved and is not under way,
\* besides the requests of others.
CountInv ==
    /\ IsFiniteSet(Getting)
    /\ provider + Cardinality(Getting) <= spent + external

\* WithinBudget and NoDoubleCharge are not inductive: they hold as what was
\* read is not stale, and no request is counted that was not reserved.
IInv ==
    /\ TypeOK
    /\ KeyInv
    /\ LockInv
    /\ HeaderInv
    /\ CountInv
    /\ low <= spent
    /\ WithinBudget
    /\ NoDoubleCharge

\* A step outside the budget's transactions: the callers inside stay inside,
\* with what they have read.
Outside ==
    /\ UNCHANGED <<spent, baseline, budgetLock, low>>
    /\ \A c \in Caller : job'[c].step \in {"reserving", "reconciling"} => job'[c] = job[c]

\* The steps outside.
LEMMA StepOutside ==
    ASSUME TypeOK, NEW c \in Caller,
           \/ \E high \in BOOLEAN, k \in Key \cup {None} : Call(c, high, k)
           \/ Lookup(c) \/ TryLock(c) \/ Recheck(c) \/ BeginReserve(c) \/ Skip(c) \/ Get(c)
           \/ BeginReconcile(c) \/ Succeed(c) \/ TryAgain(c) \/ Fail(c) \/ Store(c)
    PROVE  Outside
<1> DEFINE Elsewhere == \A d \in Caller :
        job'[d].step \in {"reserving", "reconciling"} => job'[d] = job[d]
<1> USE DEF TypeOK
<1>1. ASSUME Return(c) PROVE Elsewhere
  BY <1>1 DEF Return, Idle
<1>2. ASSUME NEW s, Goto(c, s), s \notin {"reserving", "reconciling"} PROVE Elsewhere
  <2>1. \A d \in Caller : d # c => job'[d] = job[d]
    BY <1>2 DEF Goto
  <2>2. job'[c].step = s
    BY <1>2 DEF Goto, Job
  <2> QED
    BY <1>2, <2>1, <2>2
<1>3. ASSUME NEW high \in BOOLEAN, NEW k \in Key \cup {None}, Call(c, high, k) PROVE Outside
  <2>1. \A d \in Caller : d # c => job'[d] = job[d]
    BY <1>3 DEF Call
  <2>2. job'[c].step \in {"reserve", "lookup"}
    BY <1>3 DEF Call, Job
  <2>3. UNCHANGED <<spent, baseline, budgetLock, low>>
    BY <1>3 DEF Call, budget
  <2> QED
    BY <2>1, <2>2, <2>3 DEF Outside
<1>4. CASE Lookup(c) \/ TryLock(c) \/ Recheck(c) \/ Skip(c) \/ Succeed(c) \/ Fail(c) \/ Store(c)
  BY <1>1, <1>2, <1>4
  DEF Lookup, TryLock, Recheck, Fetch, Skip, Succeed, Fail, Store, Outside, budget
<1>5. CASE BeginReserve(c) \/ BeginReconcile(c)
  BY <1>2, <1>5 DEF BeginReserve, BeginReconcile, Connect, Outside, budget
<1>6. CASE Get(c)
  BY <1>6 DEF Get, Outside, Job, budget
<1>7. CASE TryAgain(c)
  BY <1>7 DEF TryAgain, Outside, Job, budget
<1> QED
  BY <1>3, <1>4, <1>5, <1>6, <1>7

\* The lock is held while what was read is used.
LEMMA LockStepInv == TypeOK /\ LockInv /\ [Next]_vars => LockInv'
<1> SUFFICES ASSUME TypeOK, LockInv, [Next]_vars PROVE LockInv'
  OBVIOUS
<1>0. Outside => LockInv'
  BY DEF Outside, LockInv, Used
<1>1. ASSUME NEW c \in Caller,
             \/ \E high \in BOOLEAN, k \in Key \cup {None} : Call(c, high, k)
             \/ Lookup(c) \/ TryLock(c) \/ Recheck(c) \/ BeginReserve(c) \/ Skip(c) \/ Get(c)
             \/ BeginReconcile(c) \/ Succeed(c) \/ TryAgain(c) \/ Fail(c) \/ Store(c)
      PROVE  LockInv'
  BY <1>0, <1>1, StepOutside
<1>2. ASSUME NEW c \in Caller, NEW from, NEW to, LockBudget(c, from, to) PROVE LockInv'
  <2>1. /\ budgetLock = None /\ budgetLock' = c /\ UNCHANGED <<spent, baseline>>
        /\ job'[c].seen = Used
        /\ \A d \in Caller : d # c => job'[d] = job[d]
    BY <1>2 DEF LockBudget, TypeOK, Job
  <2>2. \A d \in Caller : job[d].step \notin {"reserving", "reconciling"}
    BY <2>1, BudgetAssumption DEF LockInv
  <2> QED
    BY <2>1, <2>2 DEF LockInv, Used
<1>3. ASSUME NEW c \in Caller, Reserve(c) \/ Refuse(c) \/ Reconcile(c) PROVE LockInv'
  <2>1. /\ job[c].step \in {"reserving", "reconciling"}
        /\ job'[c].step \notin {"reserving", "reconciling"}
        /\ \A d \in Caller : d # c => job'[d] = job[d]
    BY <1>3 DEF Reserve, Refuse, Reconcile, At, TypeOK, Job
  <2>2. \A d \in Caller : d # c => job[d].step \notin {"reserving", "reconciling"}
    BY <2>1 DEF LockInv
  <2> QED
    BY <2>1, <2>2 DEF LockInv
<1>4. ASSUME NEW c \in Caller, Crash(c) PROVE LockInv'
  BY <1>4 DEF Crash, Return, Idle, LockInv, Used, TypeOK
<1>5. ASSUME NEW k \in Key, Expire(k) PROVE LockInv'
  BY <1>0, <1>5 DEF Expire, Outside, budget
<1>6. ASSUME NEW i \in Process, CoolDown(i) PROVE LockInv'
  BY <1>0, <1>6 DEF CoolDown, Outside, budget
<1>7. CASE External
  BY <1>0, <1>7 DEF External, Outside, budget
<1>8. CASE UNCHANGED vars
  BY <1>0, <1>8 DEF vars, Outside, budget
<1> QED
  BY <1>1, <1>2, <1>3, <1>4, <1>5, <1>6, <1>7, <1>8
  DEF Next, Proceed, LockForReserve, LockForReconcile

\* A caller with a header has it from an answer, and the provider counts up.
LEMMA HeaderStepInv == TypeOK /\ KeyInv /\ HeaderInv /\ [Next]_vars => HeaderInv'
<1> DEFINE Told == {"reconcile", "waitReconcile", "reconciling"}
<1> SUFFICES ASSUME TypeOK, KeyInv, HeaderInv, [Next]_vars PROVE HeaderInv'
  OBVIOUS
<1>0. ASSUME provider' \in {provider, provider + 1},
             \A c \in Caller : job'[c].step \in Told =>
                 job[c].step \in Told /\ job'[c].header = job[c].header
      PROVE  HeaderInv'
  BY <1>0 DEF HeaderInv, KeyInv, Sound, TypeOK
<1>1. ASSUME NEW c \in Caller, Return(c), provider' \in {provider, provider + 1} PROVE HeaderInv'
  BY <1>0, <1>1 DEF Return, Idle, TypeOK
<1>2. ASSUME NEW c \in Caller, NEW s, Goto(c, s), UNCHANGED provider,
             s \in Told => job[c].step \in Told
      PROVE  HeaderInv'
  <2>1. \A d \in Caller : d # c => job'[d] = job[d]
    BY <1>2 DEF Goto, TypeOK
  <2>2. job'[c].step = s /\ job'[c].header = job[c].header
    BY <1>2 DEF Goto, TypeOK, Job
  <2> QED
    BY <1>0, <1>2, <2>1, <2>2
<1> USE DEF At
<1>3. ASSUME NEW c \in Caller, NEW high \in BOOLEAN, NEW k \in Key \cup {None}, Call(c, high, k)
      PROVE  HeaderInv'
  BY <1>0, <1>3 DEF Call, others, TypeOK, Job
<1>4. ASSUME NEW c \in Caller,
             Lookup(c) \/ TryLock(c) \/ Recheck(c) \/ Skip(c) \/ Succeed(c) \/ Fail(c) \/ Store(c)
      PROVE  HeaderInv'
  BY <1>1, <1>2, <1>4 DEF Lookup, TryLock, Recheck, Fetch, Skip, Succeed, Fail, Store, others
<1>5. ASSUME NEW c \in Caller, BeginReserve(c) \/ BeginReconcile(c) PROVE HeaderInv'
  BY <1>2, <1>5 DEF BeginReserve, BeginReconcile, Connect, others
<1>6. ASSUME NEW c \in Caller, NEW from, NEW to, LockBudget(c, from, to),
             <<from, to>> \in {<<"waitReserve", "reserving">>, <<"waitReconcile", "reconciling">>}
      PROVE  HeaderInv'
  BY <1>0, <1>6 DEF LockBudget, others, TypeOK, Job
<1>7. ASSUME NEW c \in Caller, Reserve(c) \/ Refuse(c) \/ Reconcile(c) \/ TryAgain(c)
      PROVE  HeaderInv'
  BY <1>0, <1>7 DEF Reserve, Refuse, Reconcile, TryAgain, others, TypeOK, Job
<1>8. ASSUME NEW c \in Caller, Get(c) PROVE HeaderInv'
  <2>1. provider' \in {provider, provider + 1} /\ provider' \in Nat
    BY <1>8 DEF Get, TypeOK
  <2>2. \A d \in Caller : d # c => job'[d] = job[d]
    BY <1>8 DEF Get, TypeOK
  <2>3. job'[c].step \in Told => job'[c].header = provider'
    BY <1>8 DEF Get, TypeOK, Job
  <2> QED
    BY <2>1, <2>2, <2>3 DEF HeaderInv, KeyInv, Sound, TypeOK
<1>9. ASSUME NEW c \in Caller, Crash(c) PROVE HeaderInv'
  BY <1>1, <1>9 DEF Crash
<1>10. ASSUME NEW k \in Key, Expire(k) PROVE HeaderInv'
  BY <1>0, <1>10 DEF Expire, others
<1>11. ASSUME NEW i \in Process, CoolDown(i) PROVE HeaderInv'
  BY <1>0, <1>11 DEF CoolDown, others
<1>12. CASE External
  BY <1>0, <1>12 DEF External
<1>13. CASE UNCHANGED vars
  BY <1>0, <1>13 DEF vars, others
<1> QED
  BY <1>3, <1>4, <1>5, <1>6, <1>7, <1>8, <1>9, <1>10, <1>11, <1>12, <1>13
  DEF Next, Proceed, LockForReserve, LockForReconcile

\* One request more under way, or one less.
LEMMA GettingMore ==
    ASSUME CountInv, NEW c \in Caller, c \notin Getting, Getting' = Getting \cup {c}
    PROVE  IsFiniteSet(Getting)' /\ Cardinality(Getting)' = Cardinality(Getting) + 1
  BY FS_AddElement DEF CountInv

\* Likewise when its attempt ends.
LEMMA GettingLess ==
    ASSUME CountInv, NEW c \in Getting, Getting' = Getting \ {c}
    PROVE  IsFiniteSet(Getting)' /\ Cardinality(Getting)' = Cardinality(Getting) - 1
  BY FS_RemoveElement DEF CountInv

\* A request is counted after it was reserved, and once.
LEMMA CountStepInv == TypeOK /\ CountInv /\ [Next]_vars => CountInv'
<1> SUFFICES ASSUME TypeOK, CountInv, [Next]_vars PROVE CountInv'
  OBVIOUS
<1> USE Numbers DEF At
<1>a. Cardinality(Getting) \in Nat
  BY FS_CardinalityType DEF CountInv
<1>b. ASSUME Getting' = Getting, provider' - external' <= provider - external, spent' >= spent,
             {provider', external', spent'} \subseteq Nat
      PROVE  CountInv'
  BY <1>a, <1>b DEF CountInv
<1>c. ASSUME NEW c \in Caller, job[c].step # "get", job'[c].step # "get",
             \A d \in Caller : d # c => job'[d] = job[d]
      PROVE  Getting' = Getting
  BY <1>c DEF Getting
<1>1. ASSUME NEW c \in Caller, Return(c), job[c].step # "get" PROVE Getting' = Getting
  BY <1>1 DEF Return, Idle, Getting, TypeOK
<1>2. ASSUME NEW c \in Caller, NEW s, Goto(c, s), job[c].step # "get", s # "get"
      PROVE  Getting' = Getting
  <2>1. /\ job'[c].step = s
        /\ \A d \in Caller : d # c => job'[d] = job[d]
    BY <1>2 DEF Goto, TypeOK, Job
  <2> QED
    BY <1>2, <1>c, <2>1
<1>3. ASSUME NEW c \in Caller, NEW high \in BOOLEAN, NEW k \in Key \cup {None}, Call(c, high, k)
      PROVE  CountInv'
  BY <1>3, <1>b, <1>c DEF Call, budget, others, TypeOK, Job
<1>4. ASSUME NEW c \in Caller,
             Lookup(c) \/ TryLock(c) \/ Recheck(c) \/ Skip(c) \/ Succeed(c) \/ Fail(c) \/ Store(c)
      PROVE  CountInv'
  <2>1. Getting' = Getting
    BY <1>1, <1>2, <1>4 DEF Lookup, TryLock, Recheck, Fetch, Skip, Succeed, Fail, Store
  <2>2. UNCHANGED <<spent, provider, external>>
    BY <1>4 DEF Lookup, TryLock, Recheck, Skip, Succeed, Fail, Store, budget, others
  <2> QED
    BY <1>b, <2>1, <2>2
<1>5. ASSUME NEW c \in Caller, BeginReserve(c) \/ BeginReconcile(c) PROVE CountInv'
  BY <1>2, <1>5, <1>b DEF BeginReserve, BeginReconcile, Connect, budget, others
<1>6. ASSUME NEW c \in Caller, NEW from, NEW to, LockBudget(c, from, to),
             <<from, to>> \in {<<"waitReserve", "reserving">>, <<"waitReconcile", "reconciling">>}
      PROVE  CountInv'
  BY <1>6, <1>b, <1>c DEF LockBudget, others, TypeOK, Job
<1>7. ASSUME NEW c \in Caller, Refuse(c) \/ Reconcile(c) \/ TryAgain(c) PROVE CountInv'
  BY <1>7, <1>b, <1>c DEF Refuse, Reconcile, TryAgain, budget, others, TypeOK, Job
<1>8. ASSUME NEW c \in Caller, Reserve(c) PROVE CountInv'
  <2>1. c \notin Getting /\ Getting' = Getting \cup {c}
    BY <1>8 DEF Reserve, Getting, TypeOK, Job
  <2>2. spent' = spent + 1 /\ UNCHANGED <<provider, external>>
    BY <1>8 DEF Reserve, others
  <2> QED
    BY <1>a, <2>1, <2>2, GettingMore DEF CountInv
<1>9. ASSUME NEW c \in Caller, Get(c) PROVE CountInv'
  <2>1. c \in Getting /\ Getting' = Getting \ {c}
    BY <1>9 DEF Get, Getting, TypeOK, Job
  <2>2. provider' \in {provider, provider + 1} /\ UNCHANGED <<spent, external>>
    BY <1>9 DEF Get, budget
  <2>3. IsFiniteSet(Getting)' /\ Cardinality(Getting)' = Cardinality(Getting) - 1
    BY <2>1, GettingLess
  <2> QED
    BY <1>a, <2>2, <2>3 DEF CountInv
<1>10. ASSUME NEW c \in Caller, Crash(c) PROVE CountInv'
  <2>1. UNCHANGED <<spent, external>>
    BY <1>10 DEF Crash
  <2>2. CASE job[c].step = "get"
    <3>1. c \in Getting /\ Getting' = Getting \ {c}
      BY <1>10, <2>2 DEF Crash, Return, Idle, Getting, TypeOK
    <3>2. provider' \in {provider, provider + 1}
      BY <1>10 DEF Crash
    <3>3. IsFiniteSet(Getting)' /\ Cardinality(Getting)' = Cardinality(Getting) - 1
      BY <3>1, GettingLess
    <3> QED
      BY <1>a, <2>1, <3>2, <3>3 DEF CountInv
  <2>3. CASE job[c].step # "get"
    <3>1. Getting' = Getting /\ provider' = provider
      BY <1>1, <1>10, <2>3 DEF Crash
    <3> QED
      BY <1>b, <2>1, <3>1
  <2> QED
    BY <2>2, <2>3
<1>11. ASSUME NEW k \in Key, Expire(k) PROVE CountInv'
  BY <1>11, <1>b DEF Expire, Getting, budget, others
<1>12. ASSUME NEW i \in Process, CoolDown(i) PROVE CountInv'
  BY <1>12, <1>b DEF CoolDown, Getting, budget, others
<1>13. CASE External
  BY <1>13, <1>b DEF External, Getting, budget
<1>14. CASE UNCHANGED vars
  BY <1>14, <1>b DEF vars, Getting, budget, others
<1> QED
  BY <1>3, <1>4, <1>5, <1>6, <1>7, <1>8, <1>9, <1>10, <1>11, <1>12, <1>13, <1>14
  DEF Next, Proceed, LockForReserve, LockForReconcile

\* Only Reserve spends, with what it has read still true, and only Reconcile
\* charges, up to what the provider has counted.
LEMMA SpendStepInv == IInv /\ [Next]_vars => (low <= spent /\ WithinBudget /\ NoDoubleCharge)'
<1> DEFINE Bounded == low <= spent /\ WithinBudget /\ NoDoubleCharge
<1> SUFFICES ASSUME IInv, TypeOK, [Next]_vars PROVE Bounded'
  BY DEF IInv
<1> USE Numbers, BudgetAssumption DEF At
<1>0. ASSUME UNCHANGED <<spent, baseline, low>>, external' \in {external, external + 1}
      PROVE  Bounded'
  BY <1>0 DEF IInv, WithinBudget, NoDoubleCharge, Allowance
<1>1. ASSUME NEW c \in Caller,
             \/ \E high \in BOOLEAN, k \in Key \cup {None} : Call(c, high, k)
             \/ Lookup(c) \/ TryLock(c) \/ Recheck(c) \/ BeginReserve(c) \/ Skip(c) \/ Get(c)
             \/ BeginReconcile(c) \/ Succeed(c) \/ TryAgain(c) \/ Fail(c) \/ Store(c)
      PROVE  Bounded'
  <2>1. UNCHANGED <<spent, baseline, low>>
    BY <1>1, StepOutside DEF Outside
  <2>2. UNCHANGED external
    BY <1>1 DEF Call, Lookup, TryLock, Recheck, BeginReserve, Skip, Get, BeginReconcile,
                Succeed, TryAgain, Fail, Store, Connect, others
  <2> QED
    BY <1>0, <2>1, <2>2
<1>2. ASSUME NEW c \in Caller, NEW from, NEW to, LockBudget(c, from, to) PROVE Bounded'
  BY <1>0, <1>2 DEF LockBudget, others
<1>3. ASSUME NEW c \in Caller, Reserve(c) PROVE Bounded'
  <2>1. job[c].seen = spent + baseline
    BY <1>3 DEF Reserve, IInv, LockInv, Used
  <2>2. UNCHANGED <<baseline, external>> /\ spent' = spent + 1
    BY <1>3 DEF Reserve, others
  <2>3. {Limit, Reserved} \subseteq Nat /\ low <= spent /\ low <= Allowance("low")
    BY DEF IInv, WithinBudget
  <2>4. CASE job[c].high
    <3>1. spent + baseline < Limit /\ low' = low
      BY <1>3, <2>1, <2>4 DEF Reserve, PriorityOf, Allowance
    <3> QED
      BY <2>2, <2>3, <3>1 DEF IInv, WithinBudget, NoDoubleCharge, Allowance
  <2>5. CASE ~ job[c].high
    <3>1. spent + baseline < Allowance("low") /\ low' = low + 1
      BY <1>3, <2>1, <2>5 DEF Reserve, PriorityOf
    <3>2. Allowance("low") \in Nat /\ (spent < Allowance("low") => spent < Limit)
      BY <2>3 DEF Allowance, AtLeastZero
    <3>3. spent' <= Limit /\ low' <= Allowance("low") /\ low' <= spent'
      BY <2>2, <2>3, <3>1, <3>2
    <3> QED
      BY <2>2, <3>3 DEF IInv, WithinBudget, NoDoubleCharge, Allowance
  <2> QED
    BY <2>4, <2>5
<1>4. ASSUME NEW c \in Caller, Refuse(c) PROVE Bounded'
  BY <1>0, <1>4 DEF Refuse, others
<1>5. ASSUME NEW c \in Caller, Reconcile(c) PROVE Bounded'
  <2>1. /\ job[c].seen = spent + baseline
        /\ job[c].header \in Nat /\ job[c].header <= provider
    BY <1>5 DEF Reconcile, IInv, LockInv, HeaderInv, KeyInv, Sound, Used
  <2>2. provider <= spent + external
    BY FS_CardinalityType DEF IInv, CountInv
  <2>3. baseline' = baseline + AtLeastZero(job[c].header - job[c].seen)
    BY <1>5 DEF Reconcile
  <2>4. baseline' <= external
    BY <2>1, <2>2, <2>3 DEF IInv, NoDoubleCharge, AtLeastZero
  <2>5. UNCHANGED <<spent, low, external>>
    BY <1>5 DEF Reconcile, others
  <2> QED
    BY <2>4, <2>5 DEF IInv, WithinBudget, NoDoubleCharge, Allowance
<1>6. ASSUME NEW c \in Caller, Crash(c) PROVE Bounded'
  BY <1>0, <1>6 DEF Crash
<1>7. ASSUME NEW k \in Key, Expire(k) PROVE Bounded'
  BY <1>0, <1>7 DEF Expire, budget, others
<1>8. ASSUME NEW i \in Process, CoolDown(i) PROVE Bounded'
  BY <1>0, <1>8 DEF CoolDown, budget, others
<1>9. CASE External
  BY <1>0, <1>9 DEF External, budget
<1>10. CASE UNCHANGED vars
  BY <1>0, <1>10 DEF vars, budget, others
<1> QED
  BY <1>1, <1>2, <1>3, <1>4, <1>5, <1>6, <1>7, <1>8, <1>9, <1>10
  DEF Next, Proceed, LockForReserve, LockForReconcile

\* At the start nothing is spent and nobody is under way.
LEMMA InitInv == Init => IInv
<1> SUFFICES ASSUME Init PROVE IInv
  OBVIOUS
<1>1. Getting = {}
  BY DEF Init, Getting, Idle
<1>2. CountInv
  BY <1>1, FS_EmptySet DEF Init, CountInv
<1>3. LockInv /\ HeaderInv
  BY DEF Init, LockInv, HeaderInv, Idle
<1>4. low <= spent /\ WithinBudget /\ NoDoubleCharge
  BY BudgetAssumption DEF Init, WithinBudget, NoDoubleCharge, Allowance, AtLeastZero
<1> QED
  BY InitType, <1>2, <1>3, <1>4 DEF IInv

\* Every reachable state satisfies the inductive invariant.
LEMMA InvHolds == Spec => []IInv
<1>1. IInv /\ [Next]_vars => IInv'
  BY TypeStep, LockStepInv, HeaderStepInv, CountStepInv, SpendStepInv DEF IInv
<1> QED
  BY InitInv, <1>1, PTL DEF Spec

\* Whatever callers reserve at once, crash or try again, no more requests are
\* reserved than the limit, and low priorities leave the reserve.
THEOREM BudgetKept == Spec => []WithinBudget
<1>1. IInv => WithinBudget
  BY DEF IInv
<1> QED
  BY InvHolds, <1>1, PTL

\* A request of another tool is charged once, by whoever is told of it.
THEOREM ChargedOnce == Spec => []NoDoubleCharge
<1>1. IInv => NoDoubleCharge
  BY DEF IInv
<1> QED
  BY InvHolds, <1>1, PTL

----------------------------------------------------------------------------
(* The cache.                                                               *)

\* From the check under the lock to the end, the lock of the key is held.
HoldInv ==
    \A c \in Caller :
        job[c].step \in {"recheck"} \cup Fetching /\ job[c].key # None =>
            cacheLock[job[c].key] = c

CacheInv == TypeOK /\ KeyInv /\ HoldInv /\ NoNeedlessFetch

\* Every step keeps the locks with their fetches, and only the holder stores.
LEMMA CacheStepInv == CacheInv /\ [Next]_vars => HoldInv' /\ NoNeedlessFetch'
<1> DEFINE Held == HoldInv' /\ NoNeedlessFetch'
<1> SUFFICES ASSUME CacheInv, TypeOK, [Next]_vars PROVE Held
  BY DEF CacheInv
<1> USE BudgetAssumption DEF At
<1>0. ASSUME NEW c \in Caller, Return(c), fresh' \subseteq fresh PROVE Held
  <2>1. /\ \A d \in Caller : d # c => job'[d] = job[d]
        /\ job'[c].step = "idle"
    BY <1>0 DEF Return, Idle, TypeOK
  <2>2. \A k \in Key : cacheLock[k] # c => cacheLock'[k] = cacheLock[k]
    BY <1>0 DEF Return
  <2>3. \A d \in Caller : job[d].key \in Key \cup {None}
    BY DEF TypeOK, Job
  <2>4. HoldInv'
    <3> SUFFICES ASSUME NEW d \in Caller,
                        job'[d].step \in {"recheck"} \cup Fetching, job'[d].key # None
                 PROVE  cacheLock'[job'[d].key] = d
      BY DEF HoldInv
    <3>1. d # c /\ job'[d] = job[d]
      BY <2>1 DEF Fetching, Transacting
    <3>2. cacheLock[job[d].key] = d /\ job[d].key \in Key
      BY <2>3, <3>1 DEF CacheInv, HoldInv
    <3> QED
      BY <2>2, <3>1, <3>2
  <2>5. NoNeedlessFetch'
    BY <1>0, <2>1 DEF CacheInv, NoNeedlessFetch, Fetching, Transacting
  <2> QED
    BY <2>4, <2>5
<1>1. ASSUME NEW c \in Caller, NEW s \in Fetching, UNCHANGED cache,
             \A d \in Caller : d # c => job'[d] = job[d],
             job'[c].step = s, job'[c].key = job[c].key,
             \/ job[c].step \in Fetching
             \/ job[c].step = "recheck" /\ job[c].key \notin fresh
      PROVE  Held
  BY <1>1 DEF cache, CacheInv, HoldInv, NoNeedlessFetch
<1>2. ASSUME NEW c \in Caller, NEW s \in Fetching, Goto(c, s), UNCHANGED cache,
             \/ job[c].step \in Fetching
             \/ job[c].step = "recheck" /\ job[c].key \notin fresh
      PROVE  Held
  <2>1. /\ \A d \in Caller : d # c => job'[d] = job[d]
        /\ job'[c].step = s /\ job'[c].key = job[c].key
    BY <1>2 DEF Goto, TypeOK, Job
  <2> QED
    BY <1>1, <1>2, <2>1
<1>3. ASSUME NEW c \in Caller, NEW high \in BOOLEAN, NEW k \in Key \cup {None}, Call(c, high, k)
      PROVE  Held
  <2>1. /\ \A d \in Caller : d # c => job'[d] = job[d]
        /\ job'[c].step = (IF k = None THEN "reserve" ELSE "lookup") /\ job'[c].key = k
    BY <1>3 DEF Call, TypeOK, Job
  <2>2. UNCHANGED cache /\ None \notin fresh
    BY <1>3 DEF Call, TypeOK
  <2> QED
    BY <2>1, <2>2
    DEF cache, CacheInv, HoldInv, NoNeedlessFetch, Fetching, Transacting
<1>4. ASSUME NEW c \in Caller, Lookup(c) PROVE Held
  <2>1. CASE Return(c)
    BY <1>0, <1>4, <2>1 DEF Lookup
  <2>2. CASE Goto(c, "lock") /\ UNCHANGED cacheLock
    <3>1. /\ \A d \in Caller : d # c => job'[d] = job[d]
          /\ job'[c].step = "lock"
      BY <2>2 DEF Goto, TypeOK, Job
    <3> QED
      BY <1>4, <2>2, <3>1
      DEF Lookup, CacheInv, HoldInv, NoNeedlessFetch, Fetching, Transacting
  <2> QED
    BY <1>4, <2>1, <2>2 DEF Lookup
<1>5. ASSUME NEW c \in Caller, TryLock(c) PROVE Held
  <2>1. CASE Return(c)
    BY <1>0, <1>5, <2>1 DEF TryLock
  <2>2. CASE ~ Return(c)
    <3>1. /\ \A d \in Caller : d # c => job'[d] = job[d]
          /\ job'[c].step = "recheck" /\ job'[c].key = job[c].key
      BY <1>5, <2>2 DEF TryLock, Goto, TypeOK, Job
    <3>2. /\ job[c].key \in Key /\ cacheLock[job[c].key] = None
          /\ cacheLock' = [cacheLock EXCEPT ![job[c].key] = c] /\ fresh' = fresh
      BY <1>5, <2>2 DEF TryLock, CacheInv, KeyInv, Sound
    <3> QED
      BY <3>1, <3>2
      DEF TypeOK, CacheInv, HoldInv, NoNeedlessFetch, Fetching, Transacting
  <2> QED
    BY <2>1, <2>2
<1>6. ASSUME NEW c \in Caller, Recheck(c) PROVE Held
  <2>1. CASE Return(c)
    BY <1>0, <1>6, <2>1 DEF Recheck
  <2>2. CASE ~ Return(c)
    BY <1>2, <1>6, <2>2 DEF Recheck, Fetch, Fetching, cache
  <2> QED
    BY <2>1, <2>2
<1>7. ASSUME NEW c \in Caller, BeginReserve(c) \/ BeginReconcile(c) PROVE Held
  BY <1>2, <1>7 DEF BeginReserve, BeginReconcile, Connect, Fetching, Transacting
<1>8. ASSUME NEW c \in Caller, NEW from, NEW to, LockBudget(c, from, to),
             <<from, to>> \in {<<"waitReserve", "reserving">>, <<"waitReconcile", "reconciling">>}
      PROVE  Held
  <2>1. /\ \A d \in Caller : d # c => job'[d] = job[d]
        /\ job'[c].step = to /\ job'[c].key = job[c].key
    BY <1>8 DEF LockBudget, TypeOK, Job
  <2> QED
    BY <1>1, <1>8, <2>1 DEF LockBudget, Fetching, Transacting
<1>9. ASSUME NEW c \in Caller, Reserve(c) \/ Refuse(c) \/ Get(c) \/ Reconcile(c) \/ TryAgain(c)
      PROVE  Held
  <2>1. /\ UNCHANGED cache
        /\ \A d \in Caller : d # c => job'[d] = job[d]
        /\ job'[c].step \in Fetching /\ job[c].step \in Fetching
        /\ job'[c].key = job[c].key
    BY <1>9
    DEF Reserve, Refuse, Get, Reconcile, TryAgain, TypeOK, Job, Fetching, Transacting
  <2> QED
    BY <1>1, <2>1
<1>10. ASSUME NEW c \in Caller, Skip(c) \/ Fail(c) \/ Crash(c) PROVE Held
  BY <1>0, <1>10 DEF Skip, Fail, Crash
<1>11. ASSUME NEW c \in Caller, Succeed(c) PROVE Held
  <2>1. CASE Return(c)
    BY <1>0, <1>11, <2>1 DEF Succeed
  <2>2. CASE ~ Return(c)
    BY <1>2, <1>11, <2>2 DEF Succeed, Fetching, cache
  <2> QED
    BY <2>1, <2>2
<1>12. ASSUME NEW c \in Caller, Store(c) PROVE Held
  <2>1. job[c].key \in Key /\ cacheLock[job[c].key] = c
    BY <1>12 DEF Store, CacheInv, KeyInv, Sound, HoldInv, Fetching
  <2>2. \A d \in Caller : d # c /\ job[d].step \in Fetching => job[d].key # job[c].key
    BY <2>1 DEF CacheInv, HoldInv
  <2>3. /\ \A d \in Caller : d # c => job'[d] = job[d]
        /\ job'[c].step = "idle" /\ fresh' = fresh \cup {job[c].key}
        /\ cacheLock' = [k \in Key |-> IF cacheLock[k] = c THEN None ELSE cacheLock[k]]
    BY <1>12 DEF Store, Return, Idle, TypeOK
  <2>4. NoNeedlessFetch'
    BY <2>2, <2>3 DEF CacheInv, NoNeedlessFetch, Fetching, Transacting
  <2>5. HoldInv'
    BY <2>3 DEF CacheInv, HoldInv, Fetching, Transacting, TypeOK, Job
  <2> QED
    BY <2>4, <2>5
<1>13. ASSUME NEW k \in Key, Expire(k) PROVE Held
  BY <1>13 DEF Expire, CacheInv, HoldInv, NoNeedlessFetch
<1>14. ASSUME NEW i \in Process, CoolDown(i) PROVE Held
  BY <1>14 DEF CoolDown, CacheInv, HoldInv, NoNeedlessFetch, cache
<1>15. CASE External
  BY <1>15 DEF External, CacheInv, HoldInv, NoNeedlessFetch, cache
<1>16. CASE UNCHANGED vars
  BY <1>16 DEF vars, CacheInv, HoldInv, NoNeedlessFetch, cache
<1> QED
  BY <1>3, <1>4, <1>5, <1>6, <1>7, <1>8, <1>9, <1>10, <1>11, <1>12, <1>13, <1>14, <1>15, <1>16
  DEF Next, Proceed, LockForReserve, LockForReconcile

\* A key is fetched by one caller at a time, and by none while it is fresh.
THEOREM NoneFetchesFresh == Spec => []NoNeedlessFetch
<1>1. Init => CacheInv
  BY InitType DEF Init, CacheInv, HoldInv, NoNeedlessFetch, Idle, Fetching, Transacting
<1>2. CacheInv /\ [Next]_vars => CacheInv'
  BY TypeStep, CacheStepInv DEF CacheInv
<1>3. CacheInv => NoNeedlessFetch
  BY DEF CacheInv
<1> QED
  BY <1>1, <1>2, <1>3, PTL DEF Spec

----------------------------------------------------------------------------
(* The locks and the pool.                                                  *)

\* Who holds a lock is at work under it.
AtWorkInv ==
    /\ \A k \in Key : cacheLock[k] # None => job[cacheLock[k]].step \in {"recheck"} \cup Fetching
    /\ budgetLock # None => job[budgetLock].step \in {"reserving", "reconciling"}

LockedKeys == {k \in Key : cacheLock[k] # None}
Transactions == {c \in Caller : job[c].step \in Transacting}

\* The pool gives no more connections than it has.
PoolInv ==
    /\ IsFiniteSet(LockedKeys) /\ IsFiniteSet(Transactions)
    /\ Cardinality(LockedKeys) + Cardinality(Transactions) <= PoolSize

\* Who uses no more connections than before does not exceed the pool.
LEMMA PoolLess ==
    ASSUME PoolInv, LockedKeys' \subseteq LockedKeys, Transactions' \subseteq Transactions
    PROVE  PoolInv'
<1>1. /\ IsFiniteSet(LockedKeys') /\ Cardinality(LockedKeys') <= Cardinality(LockedKeys)
      /\ IsFiniteSet(Transactions') /\ Cardinality(Transactions') <= Cardinality(Transactions)
  BY FS_Subset DEF PoolInv
<1>2. {Cardinality(LockedKeys), Cardinality(LockedKeys'), Cardinality(Transactions),
       Cardinality(Transactions'), PoolSize} \subseteq Nat
  BY <1>1, FS_CardinalityType, BudgetAssumption DEF PoolInv
<1> QED
  BY <1>1, <1>2 DEF PoolInv

\* A connection that is free may be taken, for a lock or for a transaction.
LEMMA PoolMore ==
    ASSUME PoolInv, Free > 0,
           \/ \E k : LockedKeys' = LockedKeys \cup {k} /\ Transactions' \subseteq Transactions
           \/ \E c : Transactions' = Transactions \cup {c} /\ LockedKeys' \subseteq LockedKeys
    PROVE  PoolInv'
<1>1. IsFiniteSet(LockedKeys) /\ IsFiniteSet(Transactions)
  BY DEF PoolInv
<1>2. \A S, x : IsFiniteSet(S) => /\ IsFiniteSet(S \cup {x})
                                  /\ Cardinality(S \cup {x}) \in {Cardinality(S), Cardinality(S) + 1}
  BY FS_AddElement
<1>3. /\ IsFiniteSet(LockedKeys') /\ IsFiniteSet(Transactions')
      /\ \/ /\ Cardinality(LockedKeys') \in {Cardinality(LockedKeys), Cardinality(LockedKeys) + 1}
            /\ Cardinality(Transactions') <= Cardinality(Transactions)
         \/ /\ Cardinality(Transactions') \in {Cardinality(Transactions), Cardinality(Transactions) + 1}
            /\ Cardinality(LockedKeys') <= Cardinality(LockedKeys)
  BY <1>1, <1>2, FS_Subset
<1>4. {Cardinality(LockedKeys), Cardinality(LockedKeys'), Cardinality(Transactions),
       Cardinality(Transactions'), PoolSize} \subseteq Nat
  BY <1>1, <1>3, FS_CardinalityType, BudgetAssumption
<1>5. Cardinality(LockedKeys) + Cardinality(Transactions) < PoolSize
  BY <1>4 DEF Free, LockedKeys, Transactions
<1> QED
  BY <1>3, <1>4, <1>5 DEF PoolInv

\* Locks go with their calls, and a connection is taken only when one is free.
LEMMA PoolStep == TypeOK /\ KeyInv /\ AtWorkInv /\ PoolInv /\ [Next]_vars => AtWorkInv' /\ PoolInv'
<1> DEFINE Kept == AtWorkInv' /\ PoolInv'
<1> SUFFICES ASSUME TypeOK, KeyInv, AtWorkInv, PoolInv, [Next]_vars PROVE Kept
  OBVIOUS
<1> USE BudgetAssumption DEF At
<1>0. \A c \in Caller : job[c] \in Job
  BY DEF TypeOK
<1>r. ASSUME NEW c \in Caller, Return(c), budgetLock' \in {budgetLock, None},
             job[c].step \in {"reserving", "reconciling"} => budgetLock' # c
      PROVE  Kept
  <2>1. /\ \A d \in Caller : d # c => job'[d] = job[d]
        /\ job'[c].step = "idle"
        /\ cacheLock' = [k \in Key |-> IF cacheLock[k] = c THEN None ELSE cacheLock[k]]
    BY <1>r DEF Return, Idle, TypeOK
  <2>2. AtWorkInv'
    BY <1>r, <2>1 DEF AtWorkInv, TypeOK, Fetching, Transacting
  <2>3. LockedKeys' \subseteq LockedKeys /\ Transactions' \subseteq Transactions
    BY <2>1 DEF LockedKeys, Transactions, Transacting
  <2> QED
    BY <2>2, <2>3, PoolLess
<1>s. ASSUME NEW c \in Caller, UNCHANGED cacheLock, budgetLock' \in {budgetLock, None},
             \A d \in Caller : d # c => job'[d] = job[d],
             job[c].step \in {"recheck"} \cup Fetching => job'[c].step \in Fetching,
             job[c].step \in {"reserving", "reconciling"} => budgetLock' # c,
             job'[c].step \in Transacting => job[c].step \in Transacting \/ Free > 0
      PROVE  Kept
  <2>1. AtWorkInv'
    BY <1>s DEF AtWorkInv, TypeOK
  <2>2. LockedKeys' = LockedKeys
    BY <1>s DEF LockedKeys
  <2>3. CASE Transactions' \subseteq Transactions
    BY <2>1, <2>2, <2>3, PoolLess
  <2>4. CASE ~ Transactions' \subseteq Transactions
    <3>1. Transactions' = Transactions \cup {c} /\ Free > 0
      BY <1>s, <2>4 DEF Transactions
    <3> QED
      BY <2>1, <2>2, <3>1, PoolMore
  <2> QED
    BY <2>1, <2>3, <2>4
<1>g. ASSUME NEW c \in Caller, NEW s \in Fetching, Goto(c, s), UNCHANGED <<cacheLock, budgetLock>>,
             job[c].step \notin {"reserving", "reconciling"},
             s \in Transacting => job[c].step \in Transacting \/ Free > 0
      PROVE  Kept
  <2>1. /\ \A d \in Caller : d # c => job'[d] = job[d]
        /\ job'[c].step = s
    BY <1>g DEF Goto, TypeOK, Job
  <2>2. budgetLock # c
    BY <1>g DEF AtWorkInv
  <2> QED
    BY <1>g, <1>s, <2>1, <2>2
<1>1. ASSUME NEW c \in Caller, NEW high \in BOOLEAN, NEW k \in Key \cup {None}, Call(c, high, k)
      PROVE  Kept
  <2>1. /\ \A d \in Caller : d # c => job'[d] = job[d]
        /\ job'[c].step \in {"reserve", "lookup"} /\ job[c].step = "idle"
        /\ UNCHANGED <<cacheLock, budgetLock>>
    BY <1>1 DEF Call, TypeOK, Job, cache, budget
  <2> QED
    BY <1>s, <2>1 DEF Fetching, Transacting
<1>2. ASSUME NEW c \in Caller, Lookup(c) PROVE Kept
  <2>1. CASE Return(c)
    BY <1>2, <1>r, <2>1 DEF Lookup, budget
  <2>2. CASE Goto(c, "lock") /\ UNCHANGED cacheLock
    <3>1. /\ \A d \in Caller : d # c => job'[d] = job[d]
          /\ job'[c].step = "lock" /\ job[c].step = "lookup" /\ UNCHANGED budgetLock
      BY <1>2, <2>2 DEF Lookup, Goto, TypeOK, Job, budget
    <3> QED
      BY <1>s, <2>2, <3>1 DEF Fetching, Transacting
  <2> QED
    BY <1>2, <2>1, <2>2 DEF Lookup
<1>3. ASSUME NEW c \in Caller, TryLock(c) PROVE Kept
  <2>1. CASE Return(c)
    BY <1>3, <1>r, <2>1 DEF TryLock, budget
  <2>2. CASE ~ Return(c)
    <3>1. /\ \A d \in Caller : d # c => job'[d] = job[d]
          /\ job'[c].step = "recheck" /\ job[c].step = "lock"
      BY <1>3, <2>2 DEF TryLock, Goto, TypeOK, Job
    <3>2. /\ job[c].key \in Key /\ cacheLock[job[c].key] = None /\ Free > 0
          /\ cacheLock' = [cacheLock EXCEPT ![job[c].key] = c] /\ UNCHANGED budgetLock
      BY <1>3, <2>2 DEF TryLock, KeyInv, Sound, budget
    <3>3. AtWorkInv'
      BY <3>1, <3>2 DEF AtWorkInv, TypeOK, Fetching, Transacting
    <3>4. LockedKeys' = LockedKeys \cup {job[c].key}
      BY <3>2 DEF LockedKeys, TypeOK
    <3>5. Transactions' \subseteq Transactions
      BY <3>1 DEF Transactions, Transacting
    <3> QED
      BY <3>2, <3>3, <3>4, <3>5, PoolMore
  <2> QED
    BY <2>1, <2>2
<1>4. ASSUME NEW c \in Caller, Recheck(c) PROVE Kept
  <2>1. CASE Return(c)
    BY <1>4, <1>r, <2>1 DEF Recheck, budget
  <2>2. CASE ~ Return(c)
    BY <1>4, <1>g, <2>2 DEF Recheck, Fetch, Fetching, Transacting, budget
  <2> QED
    BY <2>1, <2>2
<1>5. ASSUME NEW c \in Caller, BeginReserve(c) \/ BeginReconcile(c) PROVE Kept
  BY <1>5, <1>g DEF BeginReserve, BeginReconcile, Connect, Fetching, Transacting, budget, cache
<1>6. ASSUME NEW c \in Caller, NEW from, NEW to, LockBudget(c, from, to),
             <<from, to>> \in {<<"waitReserve", "reserving">>, <<"waitReconcile", "reconciling">>}
      PROVE  Kept
  <2>1. /\ \A d \in Caller : d # c => job'[d] = job[d]
        /\ job'[c].step = to /\ job[c].step = from /\ budgetLock' = c /\ UNCHANGED cacheLock
    BY <1>6 DEF LockBudget, TypeOK, Job, cache
  <2>2. AtWorkInv'
    BY <1>6, <2>1 DEF AtWorkInv, TypeOK, Fetching, Transacting
  <2>3. LockedKeys' \subseteq LockedKeys /\ Transactions' \subseteq Transactions
    BY <1>6, <2>1 DEF LockedKeys, Transactions, Transacting
  <2> QED
    BY <2>2, <2>3, PoolLess
<1>7. ASSUME NEW c \in Caller, Reserve(c) \/ Refuse(c) \/ Reconcile(c) PROVE Kept
  <2>1. /\ UNCHANGED cacheLock /\ budgetLock' = None
        /\ \A d \in Caller : d # c => job'[d] = job[d]
        /\ job'[c].step \in Fetching \ Transacting
    BY <1>7 DEF Reserve, Refuse, Reconcile, TypeOK, Job, Fetching, Transacting, cache
  <2> QED
    BY <1>s, <2>1
<1>8. ASSUME NEW c \in Caller, Get(c) \/ TryAgain(c) PROVE Kept
  <2>1. /\ UNCHANGED <<cacheLock, budgetLock>>
        /\ \A d \in Caller : d # c => job'[d] = job[d]
        /\ job'[c].step \in Fetching \ Transacting /\ job[c].step \in {"get", "settle"}
    BY <1>8 DEF Get, TryAgain, TypeOK, Job, Fetching, Transacting, cache, budget
  <2> QED
    BY <1>s, <2>1
<1>9. ASSUME NEW c \in Caller, Skip(c) \/ Fail(c) \/ Store(c) PROVE Kept
  BY <1>9, <1>r DEF Skip, Fail, Store, budget
<1>10. ASSUME NEW c \in Caller, Crash(c) PROVE Kept
  BY <1>10, <1>r DEF Crash
<1>11. ASSUME NEW c \in Caller, Succeed(c) PROVE Kept
  <2>1. CASE Return(c)
    BY <1>11, <1>r, <2>1 DEF Succeed, budget
  <2>2. CASE ~ Return(c)
    BY <1>11, <1>g, <2>2 DEF Succeed, Fetching, Transacting, budget
  <2> QED
    BY <2>1, <2>2
<1>12. ASSUME UNCHANGED <<cacheLock, budgetLock, job>> PROVE Kept
  BY <1>12, PoolLess DEF AtWorkInv, LockedKeys, Transactions
<1>13. ASSUME NEW k \in Key, Expire(k) PROVE Kept
  BY <1>12, <1>13 DEF Expire, budget
<1>14. ASSUME NEW i \in Process, CoolDown(i) PROVE Kept
  BY <1>12, <1>14 DEF CoolDown, budget, cache
<1>15. CASE External
  BY <1>12, <1>15 DEF External, budget, cache
<1>16. CASE UNCHANGED vars
  BY <1>12, <1>16 DEF vars, budget, cache
<1> QED
  BY <1>1, <1>2, <1>3, <1>4, <1>5, <1>6, <1>7, <1>8, <1>9, <1>10, <1>11, <1>13, <1>14, <1>15, <1>16
  DEF Next, Proceed, LockForReserve, LockForReconcile

\* Whenever callers are at work, one of them can go on, unless the pool is drained
\* by fetches that each hold a connection and wait for another.
THEOREM OnlyThePoolStalls == Spec => []NoOtherStall
<1>1. Init => AtWorkInv /\ PoolInv
  <2> SUFFICES ASSUME Init PROVE AtWorkInv /\ PoolInv
    OBVIOUS
  <2>1. LockedKeys = {} /\ Transactions = {}
    BY DEF Init, LockedKeys, Transactions, Idle, Transacting
  <2>2. PoolInv
    BY <2>1, FS_EmptySet, BudgetAssumption DEF PoolInv
  <2> QED
    BY <2>2 DEF Init, AtWorkInv
<1>2. /\ Init => TypeOK /\ KeyInv
      /\ TypeOK /\ KeyInv /\ [Next]_vars => TypeOK' /\ KeyInv'
  BY InitType, TypeStep
<1>3. TypeOK /\ AtWorkInv /\ PoolInv => NoOtherStall
  <2> SUFFICES ASSUME TypeOK, AtWorkInv, PoolInv, NEW c \in Caller, ~ At(c, "idle"),
                      \A d \in Caller : ~ At(d, "idle") => Waits(d)
               PROVE  Drained
    BY DEF NoOtherStall
  <2>1. budgetLock = None
    <3> SUFFICES ASSUME budgetLock # None PROVE FALSE
      OBVIOUS
    <3>1. budgetLock \in Caller /\ job[budgetLock].step \in {"reserving", "reconciling"}
      BY DEF TypeOK, AtWorkInv
    <3> QED
      BY <3>1 DEF At, Waits
  <2>2. Free = 0
    <3>1. {Cardinality(LockedKeys), Cardinality(Transactions), PoolSize} \subseteq Nat
      BY FS_CardinalityType, BudgetAssumption DEF PoolInv
    <3>2. Free = PoolSize - Cardinality(LockedKeys) - Cardinality(Transactions)
      BY DEF Free, LockedKeys, Transactions
    <3>3. ~ Free > 0
      BY <2>1 DEF Waits
    <3> QED
      BY <3>1, <3>2, <3>3 DEF PoolInv
  <2>3. ASSUME NEW k \in Key, cacheLock[k] # None
        PROVE  job[cacheLock[k]].step \in {"recheck", "reserve", "report", "reconcile", "store"}
    <3>1. cacheLock[k] \in Caller /\ job[cacheLock[k]].step \in {"recheck"} \cup Fetching
      BY <2>3 DEF TypeOK, AtWorkInv
    <3>2. Waits(cacheLock[k])
      BY <3>1 DEF At, Fetching, Transacting
    <3> QED
      BY <2>1, <3>1, <3>2 DEF Waits, Fetching, Transacting
  <2> QED
    BY <2>2, <2>3 DEF Drained
<1>4. TypeOK /\ KeyInv /\ AtWorkInv /\ PoolInv /\ [Next]_vars => AtWorkInv' /\ PoolInv'
  BY PoolStep
<1> QED
  BY <1>1, <1>2, <1>3, <1>4, PTL DEF Spec
=============================================================================
