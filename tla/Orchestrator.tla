---------------------------- MODULE Orchestrator ----------------------------
(***************************************************************************)
(* ContainerOrchestrator (app/services/container/orchestrator.py) with the *)
(* consumer side of the pool, WarmPoolManager.acquire().                   *)
(*                                                                         *)
(* The conversation lock admits one request per conversation, so a         *)
(* conversation stands for its request.  The request calls get_or_create() *)
(* (stage "first"), execute(), which on a failure calls get_or_create()    *)
(* again (stage "recovery"), and get_or_create() once more to fetch the    *)
(* files (stage "after", app/services/execute_service.py:325).  One await  *)
(* of a Redis, Docker or proxy operation is one step; the two EXPIREs that *)
(* follow an HSET and the two DELs that end a cleanup go with the step     *)
(* before them.                                                            *)
(***************************************************************************)
EXTENDS WarmPool

VARIABLE req   \* req[c]: the request of conversation c

ReqRest == [pc |-> "idle", stage |-> "first", inst |-> None, info |-> None,
            cand |-> None, seen |-> "live"]

ReqPC == {"idle",
          "lookup", "health", "touch", "purge",        \* get_or_create()
          "pop", "probe", "claim",                     \* warm_pool.acquire()
          "proxy", "save", "link",                     \* get_or_create()
          "start", "exec", "evict", "finish"}          \* execute()

Stage == {"first", "recovery", "after"}

OrchestratorInit == req = [c \in Conv |-> ReqRest]

Request == [pc : ReqPC, stage : Stage, inst : Inst \cup {None},
            info : Id \cup {None}, cand : Id \cup {None}, seen : Status]

OrchestratorTypeOK == req \in [Conv -> Request]

At(c, pc) == req[c].pc = pc

Become(c, r) == req' = [req EXCEPT ![c] = r]

GoTo(c, pc) == Become(c, [req[c] EXCEPT !.pc = pc])

\* get_or_create() returns container id, and what its caller does then:
\* execute() goes on, a recovery is over (the finally block is skipped), the
\* file transfer ends the turn.
Got(r, id) ==
    CASE r.stage = "first"    -> [r EXCEPT !.pc = "start", !.info = id, !.cand = None]
      [] r.stage = "recovery" -> [r EXCEPT !.pc = "lookup", !.stage = "after",
                                           !.info = None, !.cand = None]
      [] r.stage = "after"    -> ReqRest

\* get_or_create() raises: the turn fails, except in a recovery, where the
\* exception is logged and the finally block runs with the old info.
Raised(r) ==
    IF r.stage = "recovery" THEN [r EXCEPT !.pc = "finish", !.cand = None, !.seen = "live"]
    ELSE ReqRest

\* _cleanup_container(info) up to its DELs; an error of Docker is swallowed.
StopAndDestroy(i, id) ==
    /\ Destroy(id) \/ DestroyFails
    /\ proxies' = [proxies EXCEPT ![i] = @ \ {id}]

-----------------------------------------------------------------------------
(* get_or_create() with a container on record *)

\* Mutant: the container that could not be recorded goes back into the pool.
AssignRaisesReturns(c) ==
    /\ "redis" \in Faults
    /\ req[c].pc \in {"proxy", "save", "link"}
    /\ pool' = Append(pool, req[c].cand)
    /\ Become(c, Raised(req[c]))
    /\ UNCHANGED <<cstate, poolInfo, entry, reverse, proxies, given, poolVars>>

\* A command to Redis raises inside get_or_create(), or _start_proxy() does: a
\* container that was popped or created for the request is left behind.
AssignRaises(c) ==
    /\ "redis" \in Faults
    /\ req[c].pc \in {"lookup", "touch", "pop", "probe", "claim", "proxy", "save", "link"}
    /\ Become(c, Raised(req[c]))
    /\ UNCHANGED <<storeVars, poolVars>>

\* A turn starts in some process.
Begin(c, i) ==
    /\ At(c, "idle")
    /\ Become(c, [ReqRest EXCEPT !.pc = "lookup", !.inst = i])
    /\ UNCHANGED <<storeVars, poolVars>>

\* _get_container_from_redis(): HGETALL.  A broken hash raises KeyError.
Lookup(c) ==
    /\ At(c, "lookup")
    /\ \/ entry[c] = None /\ GoTo(c, "pop")
       \/ Broken(c) /\ Become(c, Raised(req[c]))
       \/ /\ entry[c] # None /\ ~Broken(c)
          /\ Become(c, [req[c] EXCEPT !.pc = "health", !.cand = entry[c].id,
                                      !.seen = entry[c].status])
    /\ UNCHANGED <<storeVars, poolVars>>

\* is_healthy(existing.id): the container runs or does not; an error of Docker
\* counts as "does not".
CheckHealth(c) ==
    /\ At(c, "health")
    /\ \/ Running(req[c].cand) /\ GoTo(c, "touch")
       \/ ~Running(req[c].cand) /\ GoTo(c, "purge")
       \/ "docker" \in Faults /\ GoTo(c, "purge")
    /\ UNCHANGED <<storeVars, poolVars>>

\* _update_redis(existing), with the status that was read: reuse.
Reuse(c) ==
    /\ At(c, "touch")
    /\ RefreshEntry(c, req[c].seen)
    /\ Become(c, Got([req[c] EXCEPT !.seen = "live"], req[c].cand))
    /\ UNCHANGED <<cstate, pool, poolInfo, reverse, proxies, given, poolVars>>

\* _cleanup_container(existing); its DELs may raise.
Purge(c) ==
    /\ At(c, "purge")
    /\ StopAndDestroy(req[c].inst, req[c].cand)
    /\ \/ /\ DeleteKeys(c, req[c].cand)
          /\ Become(c, [req[c] EXCEPT !.pc = "pop", !.cand = None, !.seen = "live"])
       \/ /\ KeysStay
          /\ Become(c, Raised(req[c]))
    /\ UNCHANGED <<pool, poolInfo, given, poolVars>>

-----------------------------------------------------------------------------
(* warm_pool.acquire() *)

\* Mutant: LINDEX, with the LREM left to a later step that never comes.
PopPeeks(c) ==
    /\ At(c, "pop") /\ pool # <<>>
    /\ Become(c, [req[c] EXCEPT !.pc = "probe", !.cand = Head(pool)])
    /\ UNCHANGED <<storeVars, poolVars>>

\* LPOP; sent twice when its first reply was lost, it takes two containers off
\* the pool and answers with the second one, or with nothing.
Pop(c) ==
    /\ At(c, "pop")
    /\ pool # <<>>
    /\ \/ /\ pool' = Tail(pool)
          /\ Become(c, [req[c] EXCEPT !.pc = "probe", !.cand = Head(pool)])
       \/ /\ "resend" \in Faults
          /\ IF Tail(pool) = <<>>
             THEN pool' = <<>> /\ GoTo(c, "pop")
             ELSE /\ pool' = Tail(Tail(pool))
                  /\ Become(c, [req[c] EXCEPT !.pc = "probe", !.cand = Head(Tail(pool))])
    /\ UNCHANGED <<cstate, poolInfo, entry, reverse, proxies, given, poolVars>>

\* The info is there and the agent answers.
ProbeGood(c) ==
    /\ At(c, "probe")
    /\ req[c].cand \in poolInfo /\ AgentUp(req[c].cand)
    /\ GoTo(c, "claim")
    /\ UNCHANGED <<storeVars, poolVars>>

\* Mutant: a container that does not answer goes back into the pool.
ProbeBadReturns(c) ==
    /\ At(c, "probe")
    /\ ~(req[c].cand \in poolInfo /\ AgentUp(req[c].cand))
    /\ pool' = Append(pool, req[c].cand)
    /\ Become(c, [req[c] EXCEPT !.pc = "pop", !.cand = None])
    /\ UNCHANGED <<cstate, poolInfo, entry, reverse, proxies, given, poolVars>>

\* Otherwise, or if Docker fails, the info is deleted and the container left to
\* a cleanup task.
ProbeBad(c) ==
    /\ At(c, "probe")
    /\ req[c].cand \in poolInfo /\ AgentUp(req[c].cand) => "docker" \in Faults
    /\ poolInfo' = poolInfo \ {req[c].cand}
    /\ doomed' = [doomed EXCEPT ![req[c].inst] = @ \cup {req[c].cand}]
    /\ Become(c, [req[c] EXCEPT !.pc = "pop", !.cand = None])
    /\ UNCHANGED <<cstate, pool, entry, reverse, proxies, given, maker, refill>>

\* The info is deleted, a refill scheduled, the container returned.
Claim(c) ==
    /\ At(c, "claim")
    /\ poolInfo' = poolInfo \ {req[c].cand}
    /\ given' = [given EXCEPT ![req[c].cand] = c]
    /\ ScheduleRefill(req[c].inst)
    /\ GoTo(c, "proxy")
    /\ UNCHANGED <<cstate, pool, entry, reverse, proxies, maker, doomed>>

\* The pool is empty: a refill is scheduled and a container created.  Before
\* the next step wait_for_agent_ready() returns, with the agent up or not: a
\* timeout is logged and the container returned all the same.
PopEmpty(c) ==
    /\ At(c, "pop")
    /\ pool = <<>>
    /\ ScheduleRefill(req[c].inst)
    /\ \E id \in Id :
          /\ Create(id)
          /\ given' = [given EXCEPT ![id] = c]
          /\ Become(c, [req[c] EXCEPT !.pc = "proxy", !.cand = id])
    /\ UNCHANGED <<redisVars, proxies, maker, doomed>>

\* acquire() raises: Docker cannot create or start a container.
AcquireRaises(c) ==
    /\ At(c, "pop")
    /\ pool = <<>>
    /\ ScheduleRefill(req[c].inst)
    /\ CreateFails
    /\ Become(c, Raised(req[c]))
    /\ UNCHANGED <<redisVars, proxies, given, maker, doomed>>

-----------------------------------------------------------------------------
(* get_or_create() with a new container *)

StartProxy(c) ==
    /\ At(c, "proxy")
    /\ proxies' = [proxies EXCEPT ![req[c].inst] = @ \cup {req[c].cand}]
    /\ GoTo(c, "save")
    /\ UNCHANGED <<cstate, redisVars, given, poolVars>>

\* _save_to_redis(): HSET and EXPIRE of the hash ...
Save(c) ==
    /\ At(c, "save")
    /\ SaveEntry(c, req[c].cand)
    /\ GoTo(c, "link")
    /\ UNCHANGED <<cstate, pool, poolInfo, reverse, proxies, given, poolVars>>

\* ... then SET of the reverse key.
Link(c) ==
    /\ At(c, "link")
    /\ reverse' = [reverse EXCEPT ![req[c].cand] = c]
    /\ Become(c, Got(req[c], req[c].cand))
    /\ UNCHANGED <<cstate, pool, poolInfo, entry, proxies, given, poolVars>>

-----------------------------------------------------------------------------
(* execute() *)

\* The files or the session of the conversation cannot be restored into the
\* container, or the status cannot be written: the turn ends
\* (app/services/execute_service.py:394).
PrepareFails(c) ==
    /\ At(c, "start")
    /\ Become(c, ReqRest)
    /\ UNCHANGED <<storeVars, poolVars>>

\* Status running.
Start(c) ==
    /\ At(c, "start")
    /\ RefreshEntry(c, "live")
    /\ GoTo(c, "exec")
    /\ UNCHANGED <<cstate, pool, poolInfo, reverse, proxies, given, poolVars>>

\* The stream of the agent ends.
ExecEnds(c) ==
    /\ At(c, "exec")
    /\ AgentUp(req[c].info)
    /\ GoTo(c, "finish")
    /\ UNCHANGED <<storeVars, poolVars>>

\* TimeoutException, or any other error of the HTTP client.
ExecFails(c) ==
    /\ At(c, "exec")
    /\ GoTo(c, "evict")
    /\ UNCHANGED <<storeVars, poolVars>>

\* ConnectionError: the proxy is stopped and started again.
ExecRestartsProxy(c) ==
    /\ At(c, "exec")
    /\ proxies' = [proxies EXCEPT ![req[c].inst] = @ \cup {req[c].info}]
    /\ GoTo(c, "finish")
    /\ UNCHANGED <<cstate, redisVars, given, poolVars>>

\* _cleanup_container(info), then get_or_create() for the recovery; when the
\* DELs raise the recovery is given up.
Evict(c) ==
    /\ At(c, "evict")
    /\ StopAndDestroy(req[c].inst, req[c].info)
    /\ \/ /\ DeleteKeys(c, req[c].info)
          /\ Become(c, [req[c] EXCEPT !.pc = "lookup", !.stage = "recovery"])
       \/ /\ KeysStay
          /\ GoTo(c, "finish")
    /\ UNCHANGED <<pool, poolInfo, given, poolVars>>

\* The finally block without a recovery: status idle.  If that raises the turn
\* fails.
Finish(c) ==
    /\ At(c, "finish")
    /\ \/ /\ RefreshEntry(c, "live")
          /\ Become(c, [req[c] EXCEPT !.pc = "lookup", !.stage = "after", !.info = None])
       \/ /\ "redis" \in Faults /\ entry' = entry
          /\ Become(c, ReqRest)
    /\ UNCHANGED <<cstate, pool, poolInfo, reverse, proxies, given, poolVars>>

\* The turn has sent no event for event_timeout and is cancelled
\* (app/api/conversations/streaming.py:160); the finally block of execute()
\* still writes the status.
Cancel(c) ==
    /\ "cancel" \in Faults
    /\ ~At(c, "idle")
    /\ IF req[c].pc \in {"exec", "evict"} \/ (req[c].stage = "recovery" /\ ~At(c, "finish"))
       THEN RefreshEntry(c, "live")
       ELSE entry' = entry
    /\ Become(c, ReqRest)
    /\ UNCHANGED <<cstate, pool, poolInfo, reverse, proxies, given, poolVars>>

-----------------------------------------------------------------------------
GetOrCreate(c) ==
    \/ Lookup(c) \/ CheckHealth(c) \/ Reuse(c) \/ Purge(c)
    \/ Pop(c) \/ PopEmpty(c) \/ ProbeGood(c) \/ ProbeBad(c) \/ Claim(c)
    \/ AcquireRaises(c)
    \/ StartProxy(c) \/ AssignRaises(c) \/ Save(c) \/ Link(c)

Execute(c) ==
    \/ PrepareFails(c) \/ Start(c) \/ ExecEnds(c) \/ ExecFails(c) \/ ExecRestartsProxy(c)
    \/ Evict(c) \/ Finish(c)

RequestStep(c) == GetOrCreate(c) \/ Execute(c)

RequestNext ==
    \E c \in Conv : RequestStep(c) \/ Cancel(c) \/ \E i \in Inst : Begin(c, i)
=============================================================================
