----------------------------- MODULE ContainerGC -----------------------------
(***************************************************************************)
(* ContainerGarbageCollector (app/services/container/gc.py).  Every        *)
(* backend process runs one.  A cycle lists the containers and looks at    *)
(* them one after the other with three separate reads of Redis; what it    *)
(* decides on is the metadata of a conversation, not of the container.     *)
(*                                                                         *)
(* Docker's inspect gives "Created" as a string such as                    *)
(* "2024-01-01T00:00:00Z"; float() of it raises ValueError and is_old_     *)
(* enough becomes True (gc.py:136), so every orphan counts as old.  The    *)
(* absolute TTL is a set of containers that have outlived it.  The         *)
(* inactivity TTL equals the TTL of the key that last_active_at is stored  *)
(* in and is reset with it, so it shows up as the expiry of that key.      *)
(***************************************************************************)
EXTENDS ContainerStore

VARIABLES
    gc,     \* gc[i]: the collector of process i
    aged    \* containers older than container_absolute_ttl

gcVars == <<gc, aged>>

\* Positions: between containers, before the read of the reverse key, before
\* the read of the hash, before the destruction of an orphan, and before the
\* three steps of _graceful_destroy().
GCPC == {"scan", "map", "meta", "orphan", "drain", "kill", "forget"}

GCRest == [pc |-> "scan", todo |-> {}, id |-> None, conv |-> None, victim |-> None]

GCInit ==
    /\ gc = [i \in Inst |-> GCRest]
    /\ aged = {}

Collector == [pc : GCPC, todo : SUBSET Id, id : Id \cup {None},
              conv : Conv \cup {None}, victim : Id \cup {None}]

GCTypeOK ==
    /\ gc \in [Inst -> Collector]
    /\ aged \in SUBSET Id

\* The container at hand is dealt with.
NextContainer(g) == [GCRest EXCEPT !.todo = g.todo \ {g.id}]

Turn(i, g) == gc' = [gc EXCEPT ![i] = g]

-----------------------------------------------------------------------------
\* A cycle begins with the list of Docker.
StartCycle(i) ==
    /\ gc[i].pc = "scan" /\ gc[i].todo = {}
    /\ Listed # {}
    /\ Turn(i, [gc[i] EXCEPT !.todo = Listed])
    /\ UNCHANGED <<storeVars, aged>>

\* EXISTS workspace:warm_pool_info: pool containers are skipped.
CheckPool(i) ==
    /\ gc[i].pc = "scan"
    /\ \E id \in gc[i].todo :
          Turn(i, IF id \in poolInfo
                  THEN [gc[i] EXCEPT !.todo = @ \ {id}]
                  ELSE [gc[i] EXCEPT !.pc = "map", !.id = id])
    /\ UNCHANGED <<storeVars, aged>>

\* GET workspace:container_reverse (the Docker label is always empty).
MapToConversation(i) ==
    /\ gc[i].pc = "map"
    /\ Turn(i, [gc[i] EXCEPT !.pc = "meta", !.conv = reverse[gc[i].id]])
    /\ UNCHANGED <<storeVars, aged>>

\* _should_destroy(info)
ShouldDestroy(e) == e.id \in aged \/ e.status = "draining"

\* Mutant: a container without metadata is left alone.
DecideSparesOrphans(i) ==
    /\ gc[i].pc = "meta"
    /\ LET c == gc[i].conv IN
       Turn(i, IF c \in Conv /\ Names(c, gc[i].id) /\ ShouldDestroy(entry[c])
               THEN [gc[i] EXCEPT !.pc = "drain", !.victim = entry[c].id]
               ELSE NextContainer(gc[i]))
    /\ UNCHANGED <<storeVars, aged>>

\* HGETALL workspace:container:<conv> and the decision.  The hash of no
\* conversation is empty; a broken hash ends the cycle with KeyError.
Decide(i) ==
    /\ gc[i].pc = "meta"
    /\ LET c == gc[i].conv IN
       \/ /\ c = None \/ (c \in Conv /\ entry[c] = None)
          /\ Turn(i, [gc[i] EXCEPT !.pc = "orphan"])
       \/ /\ c \in Conv /\ Broken(c)
          /\ Turn(i, GCRest)
       \/ /\ c \in Conv /\ entry[c] # None /\ ~Broken(c)
          /\ Turn(i, IF ShouldDestroy(entry[c])
                     THEN [gc[i] EXCEPT !.pc = "drain", !.victim = entry[c].id]
                     ELSE NextContainer(gc[i]))
    /\ UNCHANGED <<storeVars, aged>>

\* An orphan: its proxy is stopped and the container destroyed; an error of
\* Docker ends the cycle.
CollectOrphan(i) ==
    /\ gc[i].pc = "orphan"
    /\ proxies' = [proxies EXCEPT ![i] = @ \ {gc[i].id}]
    /\ \/ Destroy(gc[i].id) /\ Turn(i, NextContainer(gc[i]))
       \/ DestroyFails /\ Turn(i, GCRest)
    /\ UNCHANGED <<redisVars, given, aged>>

\* _graceful_destroy(): HSET of the status, which creates a missing key
\* without a TTL ...
Drain(i) ==
    /\ gc[i].pc = "drain"
    /\ LET c == gc[i].conv IN
       entry' = [entry EXCEPT ![c] =
          IF @ = None THEN [id |-> None, status |-> "draining", ttl |-> FALSE]
                      ELSE [@ EXCEPT !.status = "draining"]]
    /\ Turn(i, [gc[i] EXCEPT !.pc = "kill"])
    /\ UNCHANGED <<cstate, pool, poolInfo, reverse, proxies, given, aged>>

\* ... the proxy is stopped, here only, and the container destroyed, which
\* can fail ...
Kill(i) ==
    /\ gc[i].pc = "kill"
    /\ proxies' = [proxies EXCEPT ![i] = @ \ {gc[i].victim}]
    /\ \/ Destroy(gc[i].victim) /\ Turn(i, [gc[i] EXCEPT !.pc = "forget"])
       \/ DestroyFails /\ Turn(i, NextContainer(gc[i]))
    /\ UNCHANGED <<redisVars, given, aged>>

\* ... and the keys are deleted.
Forget(i) ==
    /\ gc[i].pc = "forget"
    /\ DeleteKeys(gc[i].conv, gc[i].victim)
    /\ Turn(i, NextContainer(gc[i]))
    /\ UNCHANGED <<cstate, pool, poolInfo, proxies, given, aged>>

\* Redis raises: the cycle ends, or the destruction of the container at hand.
CycleFails(i) ==
    /\ "redis" \in Faults
    /\ \/ gc[i].pc \in {"map", "meta"} /\ Turn(i, GCRest)
       \/ gc[i].pc \in {"drain", "forget"} /\ Turn(i, NextContainer(gc[i]))
    /\ UNCHANGED <<storeVars, aged>>

\* A container reaches container_absolute_ttl.  A pool container cannot: its
\* info lives for half an hour.
Ages(id) ==
    /\ "age" \in Faults
    /\ given[id] # None /\ id \notin aged
    /\ aged' = aged \cup {id}
    /\ UNCHANGED <<storeVars, gc>>

GCStep(i) ==
    \/ StartCycle(i) \/ CheckPool(i) \/ MapToConversation(i) \/ Decide(i)
    \/ CollectOrphan(i) \/ Drain(i) \/ Kill(i) \/ Forget(i) \/ CycleFails(i)
=============================================================================
