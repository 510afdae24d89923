----------------------- MODULE ContainerStackInvariant -----------------------
(***************************************************************************)
(* The inductive invariant of ContainerStack: who holds which container.   *)
(* It needs that no RPUSH is executed twice ("resend" is not a fault).     *)
(***************************************************************************)
EXTENDS ContainerStack

\* The container that the request has popped and not yet claimed.
Popped(c) == req[c].pc \in {"probe", "claim"}

\* Control points at which get_or_create() has a container in hand.
CandPC == {"health", "touch", "purge", "probe", "claim", "proxy", "save", "link"}

\* Control points at which execute() has a container in hand.
InfoPC == {"start", "exec", "evict"}

\* Local variables are set where the code uses them.
RequestOK(r) ==
    /\ r.pc \in CandPC <=> r.cand # None
    /\ r.pc \in InfoPC => r.info # None
    /\ r.pc # "idle" => r.inst # None

TaskOK(t) ==
    /\ t.pc \in {"wait", "push"} <=> t.id # None
    /\ t.attempt < MaxAttempts

CollectorOK(g) ==
    /\ g.pc # "scan" => g.id # None
    /\ g.pc \in {"drain", "kill", "forget"} => g.conv # None /\ g.victim # None

Controlled ==
    /\ \A c \in Conv : RequestOK(req[c])
    /\ \A m \in Maker : TaskOK(maker[m])
    /\ \A i \in Inst : CollectorOK(gc[i])

\* No container outside the "unborn" ones is anybody's.
Born(id) == id # None => cstate[id] # "unborn"

AllBorn ==
    /\ \A id \in Id : given[id] # None => Born(id)
    /\ \A id \in Elements(pool) : Born(id)
    /\ \A m \in Maker : Born(maker[m].id)
    /\ \A c \in Conv : Born(req[c].cand)
    /\ \A i \in Inst : \A id \in doomed[i] \cup gc[i].todo \cup {gc[i].id, gc[i].victim} : Born(id)

\* A container that nobody has acquired is with one creating task, or once in
\* the pool, or with one request that has popped it.
PoolDistinct == \A m, n \in 1..Len(pool) : pool[m] = pool[n] => m = n

Unassigned ==
    /\ PoolDistinct
    /\ \A id \in Elements(pool) : given[id] = None
    /\ \A m \in Maker : maker[m].id # None =>
          /\ given[maker[m].id] = None
          /\ maker[m].id \notin Elements(pool)
          /\ \A n \in Maker \ {m} : maker[n].id # maker[m].id
    /\ \A c \in Conv : Popped(c) =>
          /\ given[req[c].cand] = None
          /\ req[c].cand \notin Elements(pool)
          /\ \A m \in Maker : maker[m].id # req[c].cand
          /\ \A d \in Conv \ {c} : Popped(d) => req[d].cand # req[c].cand

\* What a request refers to otherwise was acquired for its conversation ...
Assigned ==
    \A c \in Conv :
        /\ req[c].info # None => given[req[c].info] = c
        /\ req[c].cand # None /\ ~Popped(c) => given[req[c].cand] = c

\* ... and so was what Redis has on record.
Recorded ==
    /\ \A c \in Conv : entry[c] # None /\ entry[c].id # None => given[entry[c].id] = c
    /\ \A id \in Id : reverse[id] # None => given[id] = reverse[id]

IInv == TypeOK /\ Controlled /\ AllBorn /\ Unassigned /\ Assigned /\ Recorded
=============================================================================
