--------------------------- MODULE ContainerStore ---------------------------
(***************************************************************************)
(* The state that the components of the container stack share: the         *)
(* containers of the Docker daemon (app/services/container/lifecycle.py),  *)
(* the keys the stack keeps in Redis (app/services/container/config.py)    *)
(* and the credential proxies each backend process runs.                   *)
(*                                                                         *)
(* Of the metadata hash of a conversation the model keeps what decides     *)
(* anything: the container it names, whether its status is "draining"      *)
(* (ready, running and idle are never told apart) and whether the key has  *)
(* a TTL.  A hash that HSET made out of nothing names no container.        *)
(***************************************************************************)
EXTENDS Naturals, Sequences, FiniteSets

CONSTANTS
    Id,      \* container ids ("ws-<12 hex digits>"), each used once
    Conv,    \* conversations
    Inst,    \* backend processes
    Faults,  \* what goes wrong in the instance, a subset of FaultKind
    MaxSick, \* bound: containers that have hung or exited and are not deleted
    None     \* no container, no conversation, no process, no metadata

\* An operation of Docker fails; Redis or the start of a proxy fails; Redis
\* executes a command twice (the client resends it, redis.py:45); a process is
\* killed; a turn is cancelled; a key expires; a container reaches its absolute
\* TTL.
FaultKind == {"docker", "redis", "resend", "restart", "cancel", "expiry", "age"}

ASSUME StoreAssumption ==
    /\ Faults \subseteq FaultKind
    /\ None \notin Id /\ None \notin Conv /\ None \notin Inst
    /\ {"unborn", "spare", "gone"} \cap Conv = {}
    /\ MaxSick \in Nat

VARIABLES
    cstate,    \* cstate[id]: what Docker and the agent in the container are doing
    pool,      \* the list workspace:warm_pool
    poolInfo,  \* ids with a key workspace:warm_pool_info:<id>
    entry,     \* entry[c]: the hash workspace:container:<c>, or None
    reverse,   \* reverse[id]: the key workspace:container_reverse:<id>, or None
    proxies,   \* proxies[i]: ids in ContainerOrchestrator._proxies of process i
    given      \* history: the conversation a container was acquired for, or None

dockerVars == <<cstate>>
redisVars == <<pool, poolInfo, entry, reverse>>
storeVars == <<cstate, pool, poolInfo, entry, reverse, proxies, given>>

Status == {"live", "draining"}
Metadata == [id : Id \cup {None}, status : Status, ttl : BOOLEAN]

Elements(s) == {s[n] : n \in 1..Len(s)}

StoreInit ==
    /\ cstate = [id \in Id |-> "unborn"]
    /\ pool = <<>>
    /\ poolInfo = {}
    /\ entry = [c \in Conv |-> None]
    /\ reverse = [id \in Id |-> None]
    /\ proxies = [i \in Inst |-> {}]
    /\ given = [id \in Id |-> None]

StoreTypeOK ==
    /\ cstate \in [Id -> {"unborn", "starting", "ready", "hung", "exited", "gone"}]
    /\ pool \in Seq(Id)
    /\ poolInfo \in SUBSET Id
    /\ entry \in [Conv -> Metadata \cup {None}]
    /\ reverse \in [Id -> Conv \cup {None}]
    /\ proxies \in [Inst -> SUBSET Id]
    /\ given \in [Id -> Conv \cup {None}]

-----------------------------------------------------------------------------
(* Docker *)

\* is_healthy(id): Docker says that the container runs.
Running(id) == cstate[id] \in {"starting", "ready", "hung"}

\* is_healthy(id, check_agent=True): and its agent answers on agent.sock.
AgentUp(id) == cstate[id] = "ready"

\* list_workspace_containers(): every container, the stopped ones included.
Listed == {id \in Id : cstate[id] \notin {"unborn", "gone"}}

\* create_container(): a container runs; its agent does not listen yet.
\* Mutant: the id of a deleted container is used again.
CreateReuses(id) ==
    /\ cstate[id] \in {"unborn", "gone"}
    /\ cstate' = [cstate EXCEPT ![id] = "starting"]

Create(id) ==
    /\ cstate[id] = "unborn"
    /\ cstate' = [cstate EXCEPT ![id] = "starting"]

\* create_container() raises: with nothing done (always so when the ids of the
\* instance, which stand for the room Docker has, are used up), or with a
\* container that Docker created and did not start.
CreateFails ==
    \/ /\ "docker" \in Faults \/ \A id \in Id : cstate[id] # "unborn"
       /\ cstate' = cstate
    \/ /\ "docker" \in Faults
       /\ \E id \in Id : /\ cstate[id] = "unborn"
                         /\ cstate' = [cstate EXCEPT ![id] = "exited"]

\* destroy_container(): stop and delete; one that is gone already is no error.
Destroy(id) == cstate' = [cstate EXCEPT ![id] = "gone"]

\* destroy_container() raises.
DestroyFails == "docker" \in Faults /\ cstate' = cstate

-----------------------------------------------------------------------------
(* Metadata of a conversation *)

Names(c, id) == entry[c] # None /\ entry[c].id = id

\* from_redis_hash() raises KeyError on it.
Broken(c) == Names(c, None)

\* Mutant: HSET of the status alone.
RefreshEntryNoExpire(c, status) ==
    entry' = [entry EXCEPT ![c] =
        [id |-> IF @ = None THEN None ELSE @.id, status |-> status,
         ttl |-> @ # None /\ @.ttl]]

\* HSET of the status followed by EXPIRE.  HSET creates a key that is missing.
RefreshEntry(c, status) ==
    entry' = [entry EXCEPT ![c] =
        [id |-> IF @ = None THEN None ELSE @.id, status |-> status, ttl |-> TRUE]]

\* HSET of the whole hash followed by EXPIRE.
SaveEntry(c, id) ==
    entry' = [entry EXCEPT ![c] = [id |-> id, status |-> "live", ttl |-> TRUE]]

\* DEL of the hash and of the reverse key of the container that was destroyed.
DeleteKeys(c, id) ==
    /\ entry' = [entry EXCEPT ![c] = None]
    /\ reverse' = [reverse EXCEPT ![id] = None]

\* The DELs raise.
KeysStay == "redis" \in Faults /\ UNCHANGED <<entry, reverse>>

-----------------------------------------------------------------------------
(* What happens to a container by itself *)

Sick == {id \in Id : cstate[id] \in {"hung", "exited"}}

\* The agent starts listening.
AgentStarts(id) ==
    /\ cstate[id] = "starting"
    /\ cstate' = [cstate EXCEPT ![id] = "ready"]

\* The agent process dies or hangs while the container runs on.
AgentHangs(id) ==
    /\ cstate[id] = "ready"
    /\ cstate' = [cstate EXCEPT ![id] = "hung"]

\* The container stops (crash, OOM kill).
ContainerExits(id) ==
    /\ Running(id)
    /\ cstate' = [cstate EXCEPT ![id] = "exited"]

ContainerChanges ==
    /\ \E id \in Id :
          \/ AgentStarts(id)
          \/ Cardinality(Sick) < MaxSick /\ (AgentHangs(id) \/ ContainerExits(id))
    /\ UNCHANGED <<redisVars, proxies, given>>
=============================================================================
