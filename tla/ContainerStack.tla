--------------------------- MODULE ContainerStack ---------------------------
(***************************************************************************)
(* The container stack as app/core/lifespan.py puts it together: in every  *)
(* backend process an orchestrator with a warm pool, and a collector; all  *)
(* of them work on one Docker daemon and one Redis.  Processes are killed  *)
(* and started again, keys expire, containers die.                         *)
(***************************************************************************)
EXTENDS Orchestrator, ContainerGC

CONSTANT Collecting   \* backend processes whose collector runs

ASSUME StackAssumption == Collecting \subseteq Inst

vars == <<storeVars, poolVars, req, gcVars>>

Init ==
    /\ StoreInit
    /\ PoolInit
    /\ OrchestratorInit
    /\ GCInit

-----------------------------------------------------------------------------
(* The environment *)

\* The hash expires an hour after its last write: no request of its
\* conversation is running, or one has just begun or has been streaming for
\* that long.
EntryExpires(c) ==
    /\ "expiry" \in Faults
    /\ entry[c] # None
    /\ entry[c].ttl
    /\ req[c].pc \in {"idle", "lookup", "exec"}
    /\ entry' = [entry EXCEPT ![c] = None]
    /\ UNCHANGED <<cstate, pool, poolInfo, reverse, proxies, given, poolVars, req, gcVars>>

\* The reverse key was written after the hash and is refreshed after it: it
\* expires when the hash has expired or no longer names the container.
ReverseExpires(id) ==
    /\ "expiry" \in Faults
    /\ reverse[id] # None
    /\ ~Names(reverse[id], id)
    /\ reverse' = [reverse EXCEPT ![id] = None]
    /\ UNCHANGED <<cstate, pool, poolInfo, entry, proxies, given, poolVars, req, gcVars>>

\* Process i is killed and started again: its requests, its tasks, its
\* proxies and its collector are gone, and preheat() refills the pool.
Restart(i) ==
    /\ "restart" \in Faults
    /\ req' = [c \in Conv |-> IF req[c].inst = i THEN ReqRest ELSE req[c]]
    /\ maker' = [m \in Maker |-> IF maker[m].inst = i THEN MakerRest ELSE maker[m]]
    /\ refill' = [refill EXCEPT ![i] = IF MaxRefill = 0 THEN 0 ELSE 1]
    /\ doomed' = [doomed EXCEPT ![i] = {}]
    /\ proxies' = [proxies EXCEPT ![i] = {}]
    /\ gc' = [gc EXCEPT ![i] = GCRest]
    /\ UNCHANGED <<cstate, redisVars, given, aged>>

Environment ==
    \/ ContainerChanges /\ UNCHANGED <<poolVars, req, gcVars>>
    \/ \E c \in Conv : EntryExpires(c)
    \/ \E id \in Id : ReverseExpires(id)
    \/ (\E id \in Id : Ages(id)) /\ UNCHANGED <<poolVars, req>>
    \/ \E i \in Inst : Restart(i)

Next ==
    \/ PoolNext /\ UNCHANGED <<req, gcVars>>
    \/ RequestNext /\ UNCHANGED gcVars
    \/ (\E i \in Collecting : GCStep(i)) /\ UNCHANGED <<poolVars, req>>
    \/ Environment

Spec == Init /\ [][Next]_vars

\* The event loop runs every task that can go on, every HTTP call ends (the
\* client's timeout), collectors keep cycling and Redis keeps time.  Turns
\* need not begin, containers need not fail.
Fairness ==
    /\ \A c \in Conv : WF_vars(RequestStep(c) /\ UNCHANGED gcVars)
                     /\ WF_vars(EntryExpires(c))
    /\ \A m \in Maker : WF_vars(MakerStep(m) /\ UNCHANGED <<req, gcVars>>)
    /\ \A i \in Inst : WF_vars((Replenish(i) \/ Sweep(i)) /\ UNCHANGED <<req, gcVars>>)
    /\ \A i \in Collecting : WF_vars(GCStep(i) /\ UNCHANGED <<poolVars, req>>)
    /\ \A id \in Id : WF_vars(ReverseExpires(id))

FairSpec == Spec /\ Fairness

-----------------------------------------------------------------------------
(* Properties *)

TypeOK ==
    /\ StoreTypeOK
    /\ PoolTypeOK
    /\ OrchestratorTypeOK
    /\ GCTypeOK

\* Containers that conversation c works on, or is on record to work on.
Uses(c) ==
    ({req[c].info, req[c].cand} \cup (IF entry[c] = None THEN {} ELSE {entry[c].id})
       \cup {id \in Id : reverse[id] = c}) \ {None}

\* Two conversations never have a container in common, nor does the pool
\* still offer a container that a conversation has: LPOP hands out each
\* container once, whatever the collector, the cleanups and the restarts do.
NoSharedContainer ==
    \A c \in Conv :
        /\ Uses(c) \cap Elements(pool) = {}
        /\ \A d \in Conv \ {c} : Uses(c) \cap Uses(d) = {}

\* A container that worked for a conversation never passes to another one,
\* not even after its metadata was deleted or has expired: its files and its
\* session stay with the conversation.
GivenOnce == [][\A id \in Id : given[id] # None => given'[id] = given[id]]_vars

\* The phase of each container in the abstract assignment of containers.
Assignment == INSTANCE ContainerAssignment WITH
    phase <- [id \in Id |->
        IF cstate[id] = "unborn" THEN "unborn"
        ELSE IF cstate[id] = "gone" THEN "gone"
        ELSE IF given[id] # None THEN given[id] ELSE "spare"]

\* The stack implements the abstract assignment: whatever fails, a container
\* goes from spare to one conversation at most and is gone after that.
ImplementsAssignment == Assignment!Spec

\* The size check of the creating tasks is not atomic with their RPUSH, so
\* the pool can exceed its maximum, but only by the tasks in flight.
PoolOvershoot ==
    Len(pool) + Cardinality({m \in Maker : maker[m].pc \in {"wait", "push"}})
        <= MaxSize - 1 + Cardinality(Maker)

\* A turn always comes to an end: popping unhealthy containers, the recovery
\* of a failed execution and the file transfer cannot keep it busy for ever.
TurnEnds == \A c \in Conv : ~At(c, "idle") ~> At(c, "idle")

\* Nobody knows the container: no pool info, no creating task, no cleanup
\* task, no conversation.
Forgotten(id) ==
    /\ id \in Listed \ poolInfo
    /\ \A m \in Maker : maker[m].id # id
    /\ \A i \in Inst : id \notin doomed[i]
    /\ \A c \in Conv : id \notin Uses(c)

\* Whatever step fails between the creation of a container and its
\* assignment, a container that nobody knows any more is destroyed.
ForgottenCollected == \A id \in Id : Forgotten(id) ~> ~Forgotten(id)

\* A conversation whose metadata hash was left broken, so that every turn
\* fails, becomes usable again.
BrokenHeals == \A c \in Conv : Broken(c) ~> ~Broken(c)
=============================================================================
