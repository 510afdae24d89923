------------------------------ MODULE WarmPool ------------------------------
(***************************************************************************)
(* WarmPoolManager (app/services/container/warm_pool.py), the producer     *)
(* side: replenish() counts the pool and starts that many tasks of         *)
(* _create_and_add_with_retry(); each creates a container, waits for its   *)
(* agent, writes its info and pushes its id.  Tasks of every backend       *)
(* process share the pool.  acquire(), the consumer side, is inlined in    *)
(* the requests of Orchestrator.                                           *)
(***************************************************************************)
EXTENDS ContainerStore

CONSTANTS
    Maker,        \* tasks running _create_and_add_with_retry()
    MinSize,      \* warm_pool_min_size
    MaxSize,      \* warm_pool_max_size
    MaxAttempts,  \* _REPLENISH_MAX_RETRIES
    MaxRefill     \* bound: replenish() tasks waiting to run in one process

ASSUME PoolAssumption ==
    /\ MinSize \in Nat /\ MaxSize \in Nat \ {0}
    /\ MaxAttempts \in Nat \ {0}
    /\ MaxRefill \in Nat

VARIABLES
    maker,    \* maker[m]: a creating task
    refill,   \* refill[i]: replenish() tasks scheduled in process i
    doomed    \* doomed[i]: ids with a _cleanup_unhealthy() task in process i

poolVars == <<maker, refill, doomed>>

MakerRest == [pc |-> "idle", inst |-> None, id |-> None, attempt |-> 0]

\* Positions of a task: rest, the size check, wait_for_agent_ready(), RPUSH.
MakerPC == {"idle", "check", "wait", "push"}

IdleMaker == {m \in Maker : maker[m].pc = "idle"}

\* preheat() fills the pool when a process starts.
PoolInit ==
    /\ maker = [m \in Maker |-> MakerRest]
    /\ refill = [i \in Inst |-> IF MaxRefill = 0 THEN 0 ELSE 1]
    /\ doomed = [i \in Inst |-> {}]

Task == [pc : MakerPC, inst : Inst \cup {None}, id : Id \cup {None},
         attempt : 0..MaxAttempts]

PoolTypeOK ==
    /\ maker \in [Maker -> Task]
    /\ refill \in [Inst -> 0..MaxRefill]
    /\ doomed \in [Inst -> SUBSET Id]

Proceed(m, task) == maker' = [maker EXCEPT ![m] = task]

\* _schedule_task(self.replenish()); at the bound the task is dropped.
ScheduleRefill(i) ==
    refill' = [refill EXCEPT ![i] = IF @ < MaxRefill THEN @ + 1 ELSE @]

-----------------------------------------------------------------------------
\* replenish() and preheat(): LLEN, which may raise, then one task per missing
\* container, as long as there are makers at rest.
Replenish(i) ==
    /\ refill[i] > 0
    /\ refill' = [refill EXCEPT ![i] = @ - 1]
    /\ \E S \in SUBSET IdleMaker :
          /\ \/ Cardinality(S) + Len(pool) = MinSize
             \/ Cardinality(S) + Len(pool) < MinSize /\ S = IdleMaker
             \/ Len(pool) >= MinSize /\ S = {}
             \/ "redis" \in Faults /\ S = {}
          /\ maker' = [m \in Maker |->
                IF m \in S THEN [MakerRest EXCEPT !.pc = "check", !.inst = i]
                           ELSE maker[m]]
    /\ UNCHANGED <<storeVars, doomed>>

\* The pool is full: the task returns False.
MakerStops(m) ==
    /\ maker[m].pc = "check"
    /\ Len(pool) >= MaxSize
    /\ Proceed(m, MakerRest)
    /\ UNCHANGED <<storeVars, refill, doomed>>

\* Mutant: no size check.
MakerCreatesAlways(m) ==
    /\ maker[m].pc = "check"
    /\ \E id \in Id :
          Create(id) /\ Proceed(m, [maker[m] EXCEPT !.pc = "wait", !.id = id])
    /\ UNCHANGED <<redisVars, proxies, given, refill, doomed>>

\* LLEN is below the maximum and create_container() succeeds.
MakerCreates(m) ==
    /\ maker[m].pc = "check"
    /\ Len(pool) < MaxSize
    /\ \E id \in Id :
          /\ Create(id)
          /\ Proceed(m, [maker[m] EXCEPT !.pc = "wait", !.id = id])
    /\ UNCHANGED <<redisVars, proxies, given, refill, doomed>>

\* The agent answers: the info is written.
MakerSavesInfo(m) ==
    /\ maker[m].pc = "wait"
    /\ AgentUp(maker[m].id)
    /\ poolInfo' = poolInfo \cup {maker[m].id}
    /\ Proceed(m, [maker[m] EXCEPT !.pc = "push"])
    /\ UNCHANGED <<cstate, pool, entry, reverse, proxies, given, refill, doomed>>

\* RPUSH; sent twice when its first reply was lost.
MakerPushes(m) ==
    /\ maker[m].pc = "push"
    /\ \/ pool' = Append(pool, maker[m].id)
       \/ "resend" \in Faults /\ pool' = pool \o <<maker[m].id, maker[m].id>>
    /\ Proceed(m, MakerRest)
    /\ UNCHANGED <<cstate, poolInfo, entry, reverse, proxies, given, refill, doomed>>

\* The next round of the retry loop, if there is one.
Retried(task) ==
    IF task.attempt + 1 < MaxAttempts
    THEN [task EXCEPT !.pc = "check", !.id = None, !.attempt = @ + 1]
    ELSE MakerRest

\* The agent did not answer in time: the container is destroyed.
MakerGivesUp(m) ==
    /\ maker[m].pc = "wait"
    /\ Destroy(maker[m].id)
    /\ Proceed(m, Retried(maker[m]))
    /\ UNCHANGED <<redisVars, proxies, given, refill, doomed>>

\* create_container() raises.
MakerCreateFails(m) ==
    /\ maker[m].pc = "check"
    /\ Len(pool) < MaxSize
    /\ CreateFails
    /\ Proceed(m, Retried(maker[m]))
    /\ UNCHANGED <<redisVars, proxies, given, refill, doomed>>

\* Redis fails in LLEN, HSET or RPUSH, or Docker in destroying a container
\* whose agent did not answer: the container is left behind as it is.
MakerRaises(m) ==
    /\ \/ "redis" \in Faults /\ maker[m].pc \in {"check", "wait", "push"}
       \/ "docker" \in Faults /\ maker[m].pc = "wait"
    /\ Proceed(m, Retried(maker[m]))
    /\ UNCHANGED <<storeVars, refill, doomed>>

\* _cleanup_unhealthy(), scheduled by acquire(); an error of Docker is swallowed.
Sweep(i) ==
    /\ \E id \in doomed[i] :
          /\ Destroy(id) \/ DestroyFails
          /\ doomed' = [doomed EXCEPT ![i] = @ \ {id}]
    /\ UNCHANGED <<redisVars, proxies, given, maker, refill>>

\* The key of a pool container lives for 30 minutes from its HSET.
PoolInfoExpires(id) ==
    /\ "expiry" \in Faults
    /\ id \in poolInfo
    /\ \A m \in Maker : maker[m].id # id
    /\ poolInfo' = poolInfo \ {id}
    /\ UNCHANGED <<cstate, pool, entry, reverse, proxies, given, poolVars>>

MakerStep(m) ==
    \/ MakerStops(m) \/ MakerCreates(m) \/ MakerCreateFails(m)
    \/ MakerSavesInfo(m) \/ MakerGivesUp(m)
    \/ MakerPushes(m) \/ MakerRaises(m)

PoolNext ==
    \/ \E i \in Inst : Replenish(i) \/ Sweep(i)
    \/ \E m \in Maker : MakerStep(m)
    \/ \E id \in Id : PoolInfoExpires(id)
=============================================================================
