------------------------ MODULE ContainerStackProofs ------------------------
(***************************************************************************)
(* Theorems about ContainerStack, for any number of processes, containers, *)
(* conversations and creating tasks and whatever faults happen, as long as *)
(* the Redis client does not send an RPUSH twice.                          *)
(***************************************************************************)
EXTENDS ContainerStackInvariant, FiniteSetTheorems, TLAPS

NoResend == "resend" \notin Faults

-----------------------------------------------------------------------------
(* The pool as a sequence *)

LEMMA AppendElements ==
    ASSUME NEW s \in Seq(Id), NEW e \in Id
    PROVE  /\ Append(s, e) \in Seq(Id)
           /\ Elements(Append(s, e)) = Elements(s) \cup {e}
  <1>1. Len(Append(s, e)) = Len(s) + 1 /\ Append(s, e)[Len(s) + 1] = e
    OBVIOUS
  <1>2. \A n \in 1..Len(s) : Append(s, e)[n] = s[n]
    OBVIOUS
  <1>3. Append(s, e) \in Seq(Id)
    OBVIOUS
  <1>4. \A x \in Elements(Append(s, e)) : x \in Elements(s) \cup {e}
    BY <1>1, <1>2 DEF Elements
  <1>5. \A x \in Elements(s) \cup {e} : x \in Elements(Append(s, e))
    <2>1. e \in Elements(Append(s, e))
      BY <1>1 DEF Elements
    <2>2. ASSUME NEW n \in 1..Len(s)
          PROVE  s[n] \in Elements(Append(s, e))
      BY <1>1, <1>2 DEF Elements
    <2>3. QED
      BY <2>1, <2>2 DEF Elements
  <1>6. QED
    BY <1>3, <1>4, <1>5

LEMMA TailElements ==
    ASSUME NEW s \in Seq(Id), s # <<>>
    PROVE  /\ Head(s) \in Id /\ Tail(s) \in Seq(Id)
           /\ Elements(s) = Elements(Tail(s)) \cup {Head(s)}
  <1>1. Len(s) >= 1 /\ Len(Tail(s)) = Len(s) - 1 /\ Head(s) = s[1]
    OBVIOUS
  <1>2. \A n \in 1..Len(Tail(s)) : Tail(s)[n] = s[n + 1]
    OBVIOUS
  <1>3. Head(s) \in Id /\ Tail(s) \in Seq(Id)
    OBVIOUS
  <1>4. \A x \in Elements(Tail(s)) \cup {Head(s)} : x \in Elements(s)
    <2>1. ASSUME NEW n \in 1..Len(Tail(s))
          PROVE  s[n + 1] \in Elements(s)
      BY <1>1 DEF Elements
    <2>2. Head(s) \in Elements(s)
      BY <1>1 DEF Elements
    <2>3. QED
      BY <1>2, <2>1, <2>2 DEF Elements
  <1>5. ASSUME NEW n \in 1..Len(s)
        PROVE  s[n] \in Elements(Tail(s)) \cup {Head(s)}
    <2>1. CASE n = 1
      BY <1>1, <2>1
    <2>2. CASE n > 1
      <3>1. n - 1 \in 1..Len(Tail(s)) /\ Tail(s)[n - 1] = s[n]
        BY <1>1, <1>2, <2>2
      <3>2. QED
        BY <3>1 DEF Elements
    <2>3. QED
      BY <2>1, <2>2
  <1>6. QED
    BY <1>3, <1>4, <1>5 DEF Elements

-----------------------------------------------------------------------------
(* The records that the operators of the model return *)

LEMMA RestFields ==
    /\ ReqRest \in Request /\ RequestOK(ReqRest)
    /\ ReqRest.pc = "idle" /\ ReqRest.info = None /\ ReqRest.cand = None
  BY DEF ReqRest, Request, ReqPC, Stage, Status, RequestOK, CandPC, InfoPC

LEMMA RaisedFields ==
    ASSUME NEW r \in Request, RequestOK(r), r.pc # "idle"
    PROVE  /\ Raised(r) \in Request /\ RequestOK(Raised(r))
           /\ Raised(r).pc \in {"finish", "idle"}
           /\ Raised(r).cand = None
           /\ Raised(r).info \in {None, r.info}
  <1>1. CASE r.stage = "recovery"
    BY <1>1 DEF Raised, Request, ReqPC, Stage, Status, RequestOK, CandPC, InfoPC
  <1>2. CASE r.stage # "recovery"
    BY <1>2 DEF Raised, Request, ReqPC, Stage, ReqRest, Status, RequestOK, CandPC, InfoPC
  <1>3. QED
    BY <1>1, <1>2

LEMMA GotFields ==
    ASSUME NEW r \in Request, NEW id \in Id, r.inst # None
    PROVE  /\ Got(r, id) \in Request /\ RequestOK(Got(r, id))
           /\ Got(r, id).pc \in {"start", "lookup", "idle"}
           /\ Got(r, id).cand = None
           /\ Got(r, id).info \in {None, id}
  <1>1. CASE r.stage = "first"
    BY <1>1, StoreAssumption DEF Got, Request, ReqPC, Stage, Status, RequestOK, CandPC, InfoPC
  <1>2. CASE r.stage = "recovery"
    BY <1>2 DEF Got, Request, ReqPC, Stage, Status, RequestOK, CandPC, InfoPC
  <1>3. CASE r.stage = "after"
    BY <1>3 DEF Got, Request, ReqPC, Stage, ReqRest, Status, RequestOK, CandPC, InfoPC
  <1>4. QED
    BY <1>1, <1>2, <1>3 DEF Request, Stage

LEMMA RetriedFields ==
    ASSUME NEW t \in Task
    PROVE  Retried(t) \in Task /\ TaskOK(Retried(t)) /\ Retried(t).id = None
  <1>1. t.attempt \in Nat /\ MaxAttempts \in Nat \ {0}
    BY PoolAssumption DEF Task
  <1>2. CASE t.attempt + 1 < MaxAttempts
    <2>1. PICK n \in 0..MaxAttempts : n = t.attempt + 1 /\ n < MaxAttempts
      BY <1>1, <1>2
    <2>2. Retried(t) = [t EXCEPT !.pc = "check", !.id = None, !.attempt = n]
      BY <1>2, <2>1 DEF Retried
    <2>3. QED
      BY <2>1, <2>2 DEF Task, MakerPC, TaskOK
  <1>3. CASE ~(t.attempt + 1 < MaxAttempts)
    BY <1>1, <1>3 DEF Retried, Task, MakerPC, MakerRest, TaskOK
  <1>4. QED
    BY <1>2, <1>3

-----------------------------------------------------------------------------
(* What the invariant says of one request, task or collector, and what is  *)
(* left of it when one of them moves                                       *)

LEMMA RequestFacts ==
    ASSUME IInv, NEW c \in Conv
    PROVE  /\ req[c] \in Request /\ RequestOK(req[c])
           /\ req[c].pc \in CandPC => req[c].cand \in Id
           /\ req[c].info # None => given[req[c].info] = c
           /\ req[c].cand # None /\ ~Popped(c) => given[req[c].cand] = c
  BY DEF IInv, TypeOK, OrchestratorTypeOK, Controlled, RequestOK, Request, Assigned

LEMMA RequestMoves ==
    ASSUME IInv, NEW c \in Conv, NEW r \in Request, RequestOK(r), Become(c, r)
    PROVE  /\ OrchestratorTypeOK'
           /\ req'[c] = r /\ \A d \in Conv \ {c} : req'[d] = req[d]
           /\ \A d \in Conv : RequestOK(req'[d])
  BY DEF IInv, TypeOK, OrchestratorTypeOK, Controlled, Become

LEMMA TaskFacts ==
    ASSUME IInv, NEW m \in Maker
    PROVE  /\ maker[m] \in Task /\ TaskOK(maker[m])
           /\ maker[m].pc \in {"wait", "push"} => maker[m].id \in Id
  BY DEF IInv, TypeOK, PoolTypeOK, Controlled, TaskOK, Task

LEMMA TaskMoves ==
    ASSUME IInv, NEW m \in Maker, NEW t \in Task, TaskOK(t), Proceed(m, t)
    PROVE  /\ maker' \in [Maker -> Task]
           /\ maker'[m] = t /\ \A n \in Maker \ {m} : maker'[n] = maker[n]
           /\ \A n \in Maker : TaskOK(maker'[n])
  BY DEF IInv, TypeOK, PoolTypeOK, Controlled, Proceed

LEMMA CollectorFacts ==
    ASSUME IInv, NEW i \in Inst
    PROVE  /\ gc[i] \in Collector /\ CollectorOK(gc[i])
           /\ gc[i].pc # "scan" => gc[i].id \in Id
           /\ gc[i].pc \in {"drain", "kill", "forget"} =>
                 gc[i].conv \in Conv /\ gc[i].victim \in Id
  BY DEF IInv, TypeOK, GCTypeOK, Controlled, CollectorOK, Collector

LEMMA CollectorMoves ==
    ASSUME IInv, NEW i \in Inst, NEW g \in Collector, CollectorOK(g), Turn(i, g)
    PROVE  /\ gc' \in [Inst -> Collector]
           /\ gc'[i] = g /\ \A j \in Inst \ {i} : gc'[j] = gc[j]
           /\ \A j \in Inst : CollectorOK(gc'[j])
  BY DEF IInv, TypeOK, GCTypeOK, Controlled, Turn

LEMMA EntryFacts ==
    ASSUME IInv, NEW c \in Conv
    PROVE  entry[c] # None =>
              entry[c] \in Metadata /\ (entry[c].id # None => given[entry[c].id] = c)
  BY DEF IInv, TypeOK, StoreTypeOK, Recorded

LEMMA ReverseFacts ==
    ASSUME IInv, NEW id \in Id
    PROVE  reverse[id] \in Conv \cup {None}
  BY DEF IInv, TypeOK, StoreTypeOK

LEMMA PoolHead ==
    ASSUME IInv, pool # <<>>
    PROVE  /\ Head(pool) \in Id /\ Tail(pool) \in Seq(Id)
           /\ Elements(pool) = Elements(Tail(pool)) \cup {Head(pool)}
           /\ Head(pool) \notin Elements(Tail(pool))
           /\ \A m, n \in 1..Len(Tail(pool)) : Tail(pool)[m] = Tail(pool)[n] => m = n
  <1>1. pool \in Seq(Id) /\ \A m, n \in 1..Len(pool) : pool[m] = pool[n] => m = n
    BY DEF IInv, TypeOK, StoreTypeOK, Unassigned, PoolDistinct
  <1>2. Len(pool) >= 1 /\ Len(Tail(pool)) = Len(pool) - 1 /\ Head(pool) = pool[1]
    BY <1>1
  <1>3. \A n \in 1..Len(Tail(pool)) : Tail(pool)[n] = pool[n + 1] /\ n + 1 \in 1..Len(pool)
    BY <1>1, <1>2
  <1>4. Head(pool) \notin Elements(Tail(pool))
    <2>1. ASSUME NEW n \in 1..Len(Tail(pool))
          PROVE  Tail(pool)[n] # Head(pool)
      <3>1. n + 1 # 1 /\ 1 \in 1..Len(pool)
        BY <1>2
      <3>2. QED
        BY <1>1, <1>2, <1>3, <3>1
    <2>2. QED
      BY <2>1 DEF Elements
  <1>5. ASSUME NEW m \in 1..Len(Tail(pool)), NEW n \in 1..Len(Tail(pool)),
               Tail(pool)[m] = Tail(pool)[n]
        PROVE  m = n
    <2>1. m + 1 = n + 1
      BY <1>1, <1>3, <1>5
    <2>2. QED
      BY <2>1
  <1>6. QED
    BY <1>1, <1>4, <1>5, TailElements

LEMMA PoolAppend ==
    ASSUME IInv, NEW id \in Id, id \notin Elements(pool)
    PROVE  /\ Append(pool, id) \in Seq(Id)
           /\ Elements(Append(pool, id)) = Elements(pool) \cup {id}
           /\ \A m, n \in 1..Len(Append(pool, id)) :
                 Append(pool, id)[m] = Append(pool, id)[n] => m = n
  <1>1. pool \in Seq(Id) /\ \A m, n \in 1..Len(pool) : pool[m] = pool[n] => m = n
    BY DEF IInv, TypeOK, StoreTypeOK, Unassigned, PoolDistinct
  <1>2. Len(Append(pool, id)) = Len(pool) + 1 /\ Append(pool, id)[Len(pool) + 1] = id
    BY <1>1
  <1>3. \A n \in 1..Len(pool) : Append(pool, id)[n] = pool[n] /\ pool[n] # id
    BY <1>1 DEF Elements
  <1>4. \A n \in 1..Len(pool) + 1 : n \in 1..Len(pool) \/ n = Len(pool) + 1
    BY <1>1
  <1>5. QED
    BY <1>1, <1>2, <1>3, <1>4, AppendElements

-----------------------------------------------------------------------------
(* Steps that hand out no container: a request, a task or a collector      *)
(* moves on                                                                *)

BornStayBorn == \A id \in Id : cstate[id] # "unborn" => cstate'[id] # "unborn"

LEMMA RequestKeeps ==
    ASSUME IInv, NEW c \in Conv, NEW r \in Request, RequestOK(r), Become(c, r),
           StoreTypeOK', PoolTypeOK', BornStayBorn, Recorded',
           UNCHANGED <<pool, given, maker, gcVars>>,
           \A i \in Inst : doomed'[i] \subseteq doomed[i] \cup {req[c].cand},
           r.info # None => given[r.info] = c,
           \/ r.cand = None
           \/ r.cand = req[c].cand /\ (r.pc \in {"probe", "claim"} <=> Popped(c))
           \/ r.pc = "health" /\ given[r.cand] = c
    PROVE  IInv'
  <1>1. /\ OrchestratorTypeOK' /\ req'[c] = r
        /\ \A d \in Conv \ {c} : req'[d] = req[d]
        /\ \A d \in Conv : RequestOK(req'[d])
    BY RequestMoves
  <1>2. TypeOK'
    BY <1>1 DEF IInv, TypeOK, GCTypeOK, gcVars
  <1>3. Controlled'
    BY <1>1 DEF IInv, Controlled, gcVars
  <1>4. AllBorn'
    <2>1. r.cand # None => r.cand \in Id /\ cstate'[r.cand] # "unborn"
      <3>1. r.cand # None => r.cand \in Id
        BY DEF Request
      <3>2. r.cand # None => cstate[r.cand] # "unborn"
        BY <3>1, StoreAssumption DEF IInv, AllBorn, Born
      <3>3. QED
        BY <3>1, <3>2 DEF BornStayBorn
    <2>2. \A d \in Conv : req'[d].cand # None => cstate'[req'[d].cand] # "unborn"
      <3>1. \A d \in Conv \ {c} : req[d].cand # None =>
              req[d].cand \in Id /\ cstate[req[d].cand] # "unborn"
        BY DEF IInv, TypeOK, OrchestratorTypeOK, Request, AllBorn, Born
      <3>2. QED
        BY <1>1, <2>1, <3>1 DEF BornStayBorn
    <2>3. \A i \in Inst : \A id \in doomed'[i] : id # None => cstate'[id] # "unborn"
      <3>1. \A i \in Inst : \A id \in doomed[i] \cup {req[c].cand} :
              id # None => id \in Id /\ cstate[id] # "unborn"
        BY DEF IInv, TypeOK, PoolTypeOK, OrchestratorTypeOK, Request, AllBorn, Born
      <3>2. QED
        BY <3>1 DEF BornStayBorn
    <2>4. QED
      BY <2>2, <2>3 DEF IInv, TypeOK, StoreTypeOK, PoolTypeOK, GCTypeOK,
         Collector, Task, AllBorn, Born, BornStayBorn, Elements, gcVars
  <1>5. Unassigned'
    <2>1. \A d \in Conv : Popped(d)' => Popped(d) /\ req'[d].cand = req[d].cand
      BY <1>1 DEF Popped, RequestOK, CandPC
    <2>2. QED
      BY <2>1 DEF IInv, Unassigned, PoolDistinct
  <1>6. Assigned'
    BY <1>1 DEF IInv, Assigned, Popped
  <1>7. QED
    BY <1>2, <1>3, <1>4, <1>5, <1>6 DEF IInv

LEMMA LocalRequestKeeps ==
    ASSUME IInv, NEW c \in Conv, NEW r \in Request, RequestOK(r), Become(c, r),
           UNCHANGED <<storeVars, poolVars, gcVars>>,
           r.info # None => given[r.info] = c,
           \/ r.cand = None
           \/ r.cand = req[c].cand /\ (r.pc \in {"probe", "claim"} <=> Popped(c))
           \/ r.pc = "health" /\ given[r.cand] = c
    PROVE  IInv'
  <1>1. StoreTypeOK' /\ PoolTypeOK' /\ Recorded'
    BY DEF IInv, TypeOK, StoreTypeOK, PoolTypeOK, Recorded, storeVars, poolVars
  <1>2. BornStayBorn
    BY DEF BornStayBorn, storeVars
  <1>3. QED
    BY <1>1, <1>2, RequestKeeps DEF storeVars, poolVars

LEMMA TaskKeeps ==
    ASSUME IInv, NEW m \in Maker, NEW t \in Task, TaskOK(t), Proceed(m, t),
           StoreTypeOK', PoolTypeOK', BornStayBorn,
           UNCHANGED <<pool, entry, reverse, given, doomed, req, gcVars>>,
           t.id \in {None, maker[m].id}
    PROVE  IInv'
  <1>1. /\ maker'[m] = t
        /\ \A n \in Maker \ {m} : maker'[n] = maker[n]
        /\ \A n \in Maker : TaskOK(maker'[n])
    BY TaskMoves
  <1>2. TypeOK'
    BY DEF IInv, TypeOK, OrchestratorTypeOK, GCTypeOK, gcVars
  <1>3. Controlled'
    BY <1>1 DEF IInv, Controlled, gcVars
  <1>4. AllBorn'
    <2>1. \A n \in Maker : maker'[n].id # None => cstate'[maker'[n].id] # "unborn"
      <3>1. \A n \in Maker : maker[n].id # None =>
              maker[n].id \in Id /\ cstate[maker[n].id] # "unborn"
        BY DEF IInv, TypeOK, PoolTypeOK, Task, AllBorn, Born
      <3>2. QED
        BY <1>1, <3>1 DEF BornStayBorn
    <2>2. \A d \in Conv : req[d].cand # None => cstate'[req[d].cand] # "unborn"
      BY DEF IInv, TypeOK, OrchestratorTypeOK, Request, AllBorn, Born, BornStayBorn
    <2>3. \A i \in Inst : \A id \in doomed[i] \cup gc[i].todo \cup {gc[i].id, gc[i].victim} :
            id # None => cstate'[id] # "unborn"
      BY DEF IInv, TypeOK, PoolTypeOK, GCTypeOK, Collector, AllBorn, Born, BornStayBorn
    <2>4. \A id \in Id : given[id] # None \/ id \in Elements(pool) => cstate'[id] # "unborn"
      BY StoreAssumption DEF IInv, AllBorn, Born, BornStayBorn
    <2>5. Elements(pool) \subseteq Id
      BY DEF IInv, TypeOK, StoreTypeOK, Elements
    <2>6. QED
      BY <2>1, <2>2, <2>3, <2>4, <2>5 DEF AllBorn, Born, Elements, gcVars
  <1>5. Unassigned'
    <2>1. \A n \in Maker : maker'[n].id # None => maker'[n].id = maker[n].id
      BY <1>1
    <2>2. \A d \in Conv : (Popped(d)' <=> Popped(d)) /\ (Popped(d) => req[d].cand # None)
      BY DEF IInv, Controlled, RequestOK, CandPC, Popped
    <2>3. QED
      BY <2>1, <2>2 DEF IInv, Unassigned, PoolDistinct
  <1>6. Assigned' /\ Recorded'
    BY DEF IInv, Assigned, Recorded, Popped
  <1>7. QED
    BY <1>2, <1>3, <1>4, <1>5, <1>6 DEF IInv

LEMMA CollectorKeeps ==
    ASSUME IInv, NEW i \in Inst, NEW g \in Collector, CollectorOK(g), Turn(i, g),
           StoreTypeOK', BornStayBorn, Recorded',
           UNCHANGED <<pool, given, poolVars, req, aged>>,
           \A id \in g.todo \cup {g.id, g.victim} : Born(id)
    PROVE  IInv'
  <1>1. /\ gc' \in [Inst -> Collector] /\ gc'[i] = g
        /\ \A j \in Inst \ {i} : gc'[j] = gc[j]
        /\ \A j \in Inst : CollectorOK(gc'[j])
    BY CollectorMoves
  <1>2. TypeOK'
    BY <1>1 DEF IInv, TypeOK, PoolTypeOK, OrchestratorTypeOK, GCTypeOK, poolVars
  <1>3. Controlled'
    BY <1>1 DEF IInv, Controlled, poolVars
  <1>4. AllBorn'
    <2>1. \A id \in g.todo \cup {g.id, g.victim} : Born(id)'
      BY DEF Collector, Born, BornStayBorn
    <2>2. \A j \in Inst : \A id \in gc'[j].todo \cup {gc'[j].id, gc'[j].victim} : Born(id)'
      BY <1>1, <2>1 DEF IInv, TypeOK, GCTypeOK, Collector, AllBorn, Born, BornStayBorn
    <2>3. QED
      BY <2>2 DEF IInv, TypeOK, StoreTypeOK, PoolTypeOK, OrchestratorTypeOK,
         Task, Request, AllBorn, Born, BornStayBorn, Elements, poolVars
  <1>5. Unassigned'
    BY DEF IInv, Unassigned, PoolDistinct, Popped, poolVars
  <1>6. Assigned'
    BY DEF IInv, Assigned, Popped
  <1>7. QED
    BY <1>2, <1>3, <1>4, <1>5, <1>6 DEF IInv

-----------------------------------------------------------------------------
(* Requests: one lemma per action                                          *)

LEMMA BeginKeeps ==
    ASSUME IInv, NEW c \in Conv, NEW i \in Inst, Begin(c, i), UNCHANGED gcVars
    PROVE  IInv'
  <1>1. /\ req[c] \in Request /\ RequestOK(req[c])
        /\ req[c].pc \in CandPC => req[c].cand \in Id
    BY RequestFacts
  <1>2. PICK r \in Request :
           /\ RequestOK(r) /\ Become(c, r)
           /\ r.info = None /\ r.cand = None
    <2> DEFINE r == [ReqRest EXCEPT !.pc = "lookup", !.inst = i]
    <2>1. r \in Request
      BY DEF ReqRest, Request, ReqPC, Stage, Status
    <2>2. r.pc = "lookup" /\ r.info = None /\ r.cand = None /\ r.inst = i
      BY DEF ReqRest
    <2>3. RequestOK(r)
      BY <2>2, StoreAssumption DEF RequestOK, CandPC, InfoPC
    <2>4. Become(c, r)
      BY DEF Begin
    <2>5. QED
      BY <2>1, <2>2, <2>3, <2>4
  <1>3. QED
    BY <1>1, <1>2, RequestFacts, LocalRequestKeeps DEF Popped, RequestOK,
       CandPC, At, Begin

LEMMA LookupKeeps ==
    ASSUME IInv, NEW c \in Conv, Lookup(c), UNCHANGED gcVars
    PROVE  IInv'
  <1>1. /\ req[c] \in Request /\ RequestOK(req[c])
        /\ req[c].pc \in CandPC => req[c].cand \in Id
    BY RequestFacts
  <1>2. PICK r \in Request :
           /\ RequestOK(r) /\ Become(c, r)
           /\ \/ r.info \in {None, req[c].info} /\ r.cand = None
              \/ /\ r.info = req[c].info /\ r.pc = "health"
                 /\ r.cand # None /\ given[r.cand] = c
    <2>1. CASE entry[c] = None /\ GoTo(c, "pop")
      BY <1>1, <2>1 DEF Request, ReqPC, RequestOK, CandPC, InfoPC, At, GoTo, Lookup
    <2>2. CASE Become(c, Raised(req[c]))
      BY <1>1, <2>2, RaisedFields DEF At, Lookup
    <2>3. CASE /\ entry[c] # None /\ ~Broken(c)
               /\ Become(c, [req[c] EXCEPT !.pc = "health", !.cand = entry[c].id,
                                           !.seen = entry[c].status])
      <3>1. /\ entry[c].id \in Id /\ entry[c].id # None /\ entry[c].status \in Status
            /\ given[entry[c].id] = c
        BY <2>3, EntryFacts, StoreAssumption DEF Broken, Names, Metadata
      <3> DEFINE r == [req[c] EXCEPT !.pc = "health", !.cand = entry[c].id,
                                     !.seen = entry[c].status]
      <3>2. r \in Request
        BY <1>1, <3>1 DEF Request, ReqPC
      <3>3. /\ r.pc = "health" /\ r.cand = entry[c].id
            /\ r.info = req[c].info /\ r.inst = req[c].inst
        BY <1>1 DEF Request
      <3>4. RequestOK(r)
        BY <1>1, <3>1, <3>3 DEF RequestOK, CandPC, InfoPC, At, Lookup
      <3>5. QED
        BY <2>3, <3>1, <3>2, <3>3, <3>4
    <2>4. QED
      BY <2>1, <2>2, <2>3 DEF Lookup
  <1>3. QED
    BY <1>1, <1>2, RequestFacts, LocalRequestKeeps DEF Popped, RequestOK,
       CandPC, At, Lookup

LEMMA CheckHealthKeeps ==
    ASSUME IInv, NEW c \in Conv, CheckHealth(c), UNCHANGED gcVars
    PROVE  IInv'
  <1>1. /\ req[c] \in Request /\ RequestOK(req[c])
        /\ req[c].pc \in CandPC => req[c].cand \in Id
    BY RequestFacts
  <1>2. PICK r \in Request :
           /\ RequestOK(r) /\ Become(c, r)
           /\ r.pc \in {"touch", "purge"} /\ r.info = req[c].info /\ r.cand = req[c].cand
    BY <1>1 DEF Request, ReqPC, Stage, Status, RequestOK, CandPC, InfoPC, At,
       GoTo, CheckHealth
  <1>3. QED
    BY <1>1, <1>2, RequestFacts, LocalRequestKeeps DEF Popped, RequestOK,
       CandPC, At, CheckHealth

LEMMA AssignRaisesKeeps ==
    ASSUME IInv, NEW c \in Conv, AssignRaises(c), UNCHANGED gcVars
    PROVE  IInv'
  <1>1. /\ req[c] \in Request /\ RequestOK(req[c])
        /\ req[c].pc \in CandPC => req[c].cand \in Id
    BY RequestFacts
  <1>2. PICK r \in Request :
           /\ RequestOK(r) /\ Become(c, r)
           /\ r.info \in {None, req[c].info} /\ r.cand = None
    BY <1>1, RaisedFields DEF Request, ReqPC, Stage, Status, RequestOK,
       CandPC, InfoPC, At, AssignRaises
  <1>3. QED
    BY <1>1, <1>2, RequestFacts, LocalRequestKeeps DEF Popped, RequestOK,
       CandPC, At, AssignRaises

LEMMA ProbeGoodKeeps ==
    ASSUME IInv, NEW c \in Conv, ProbeGood(c), UNCHANGED gcVars
    PROVE  IInv'
  <1>1. /\ req[c] \in Request /\ RequestOK(req[c])
        /\ req[c].pc \in CandPC => req[c].cand \in Id
    BY RequestFacts
  <1>2. PICK r \in Request :
           /\ RequestOK(r) /\ Become(c, r)
           /\ r.pc = "claim" /\ r.info = req[c].info /\ r.cand = req[c].cand
    BY <1>1 DEF Request, ReqPC, Stage, Status, RequestOK, CandPC, InfoPC, At,
       GoTo, ProbeGood
  <1>3. QED
    BY <1>1, <1>2, RequestFacts, LocalRequestKeeps DEF Popped, RequestOK,
       CandPC, At, ProbeGood

LEMMA PrepareFailsKeeps ==
    ASSUME IInv, NEW c \in Conv, PrepareFails(c), UNCHANGED gcVars
    PROVE  IInv'
  <1>1. /\ req[c] \in Request /\ RequestOK(req[c])
        /\ req[c].pc \in CandPC => req[c].cand \in Id
    BY RequestFacts
  <1>2. PICK r \in Request :
           /\ RequestOK(r) /\ Become(c, r)
           /\ r.info = None /\ r.cand = None
    BY <1>1 DEF Request, ReqPC, Stage, Status, RequestOK, CandPC, InfoPC, At,
       ReqRest, PrepareFails
  <1>3. QED
    BY <1>1, <1>2, RequestFacts, LocalRequestKeeps DEF Popped, RequestOK,
       CandPC, At, PrepareFails

LEMMA ExecEndsKeeps ==
    ASSUME IInv, NEW c \in Conv, ExecEnds(c), UNCHANGED gcVars
    PROVE  IInv'
  <1>1. /\ req[c] \in Request /\ RequestOK(req[c])
        /\ req[c].pc \in CandPC => req[c].cand \in Id
    BY RequestFacts
  <1>2. PICK r \in Request :
           /\ RequestOK(r) /\ Become(c, r)
           /\ r.pc = "finish" /\ r.info = req[c].info /\ r.cand = req[c].cand
    BY <1>1 DEF Request, ReqPC, Stage, Status, RequestOK, CandPC, InfoPC, At,
       GoTo, ExecEnds
  <1>3. QED
    BY <1>1, <1>2, RequestFacts, LocalRequestKeeps DEF Popped, RequestOK,
       CandPC, At, ExecEnds

LEMMA ExecFailsKeeps ==
    ASSUME IInv, NEW c \in Conv, ExecFails(c), UNCHANGED gcVars
    PROVE  IInv'
  <1>1. /\ req[c] \in Request /\ RequestOK(req[c])
        /\ req[c].pc \in CandPC => req[c].cand \in Id
    BY RequestFacts
  <1>2. PICK r \in Request :
           /\ RequestOK(r) /\ Become(c, r)
           /\ r.pc = "evict" /\ r.info = req[c].info /\ r.cand = req[c].cand
    BY <1>1 DEF Request, ReqPC, Stage, Status, RequestOK, CandPC, InfoPC, At,
       GoTo, ExecFails
  <1>3. QED
    BY <1>1, <1>2, RequestFacts, LocalRequestKeeps DEF Popped, RequestOK,
       CandPC, At, ExecFails

LEMMA ReuseKeeps ==
    ASSUME IInv, NEW c \in Conv, Reuse(c), UNCHANGED gcVars
    PROVE  IInv'
  <1>1. /\ req[c] \in Request /\ RequestOK(req[c])
        /\ req[c].pc \in CandPC => req[c].cand \in Id
    BY RequestFacts
  <1>2. PICK r \in Request :
           /\ RequestOK(r) /\ Become(c, r)
           /\ r.info \in {None, req[c].cand} /\ r.cand = None
    BY <1>1, GotFields DEF Request, ReqPC, Stage, Status, RequestOK, CandPC,
       InfoPC, At, Reuse
  <1>3. StoreTypeOK'
    BY <1>1, <1>2 DEF IInv, TypeOK, StoreTypeOK, Metadata, Status, Request,
       RequestOK, CandPC, InfoPC, At, Reuse, RefreshEntry, storeVars,
       redisVars, poolVars, gcVars
  <1>4. PoolTypeOK'
    BY DEF IInv, TypeOK, PoolTypeOK, Reuse, storeVars, redisVars, poolVars,
       gcVars
  <1>5. BornStayBorn /\ Recorded'
    BY <1>1, EntryFacts, RequestFacts DEF IInv, TypeOK, StoreTypeOK,
       BornStayBorn, Recorded, Popped, RequestOK, CandPC, At, Reuse,
       RefreshEntry, storeVars, redisVars, poolVars, gcVars
  <1>6. QED
    BY <1>1, <1>2, <1>3, <1>4, <1>5, RequestFacts, RequestKeeps DEF Popped,
       RequestOK, CandPC, At, Reuse, storeVars, redisVars, poolVars, gcVars

LEMMA PurgeKeeps ==
    ASSUME IInv, NEW c \in Conv, Purge(c), UNCHANGED gcVars
    PROVE  IInv'
  <1>1. /\ req[c] \in Request /\ RequestOK(req[c])
        /\ req[c].pc \in CandPC => req[c].cand \in Id
    BY RequestFacts
  <1>2. PICK r \in Request :
           /\ RequestOK(r) /\ Become(c, r)
           /\ r.info \in {None, req[c].info} /\ r.cand = None
    <2>1. CASE Become(c, Raised(req[c]))
      BY <1>1, <2>1, RaisedFields DEF At, Purge
    <2>2. CASE Become(c, [req[c] EXCEPT !.pc = "pop", !.cand = None, !.seen = "live"])
      <3> DEFINE r == [req[c] EXCEPT !.pc = "pop", !.cand = None, !.seen = "live"]
      <3>1. r \in Request
        BY <1>1 DEF Request, ReqPC, Status
      <3>2. r.pc = "pop" /\ r.cand = None /\ r.info = req[c].info /\ r.inst = req[c].inst
        BY <1>1 DEF Request
      <3>3. RequestOK(r)
        BY <1>1, <3>2 DEF RequestOK, CandPC, InfoPC, At, Purge
      <3>4. QED
        BY <2>2, <3>1, <3>2, <3>3
    <2>3. QED
      BY <2>1, <2>2 DEF Purge
  <1>3. StoreTypeOK'
    BY <1>1, <1>2 DEF IInv, TypeOK, StoreTypeOK, Metadata, Status, Request,
       RequestOK, CandPC, InfoPC, At, Purge, StopAndDestroy, Destroy,
       DestroyFails, DeleteKeys, KeysStay, storeVars, redisVars, poolVars,
       gcVars
  <1>4. PoolTypeOK'
    BY DEF IInv, TypeOK, PoolTypeOK, Purge, storeVars, redisVars, poolVars,
       gcVars
  <1>5. BornStayBorn /\ Recorded'
    BY <1>1, EntryFacts, RequestFacts DEF IInv, TypeOK, StoreTypeOK,
       BornStayBorn, Recorded, Popped, RequestOK, CandPC, At, Purge,
       StopAndDestroy, Destroy, DestroyFails, DeleteKeys, KeysStay, storeVars,
       redisVars, poolVars, gcVars
  <1>6. QED
    BY <1>1, <1>2, <1>3, <1>4, <1>5, RequestFacts, RequestKeeps DEF Popped,
       RequestOK, CandPC, At, Purge, storeVars, redisVars, poolVars, gcVars

LEMMA ProbeBadKeeps ==
    ASSUME IInv, NEW c \in Conv, ProbeBad(c), UNCHANGED gcVars
    PROVE  IInv'
  <1>1. /\ req[c] \in Request /\ RequestOK(req[c])
        /\ req[c].pc \in CandPC => req[c].cand \in Id
    BY RequestFacts
  <1>2. PICK r \in Request :
           /\ RequestOK(r) /\ Become(c, r)
           /\ r.info \in {None, req[c].info} /\ r.cand = None
    <2> DEFINE r == [req[c] EXCEPT !.pc = "pop", !.cand = None]
    <2>1. r \in Request
      BY <1>1 DEF Request, ReqPC
    <2>2. r.pc = "pop" /\ r.cand = None /\ r.info = req[c].info /\ r.inst = req[c].inst
      BY <1>1 DEF Request
    <2>3. RequestOK(r)
      BY <1>1, <2>2 DEF RequestOK, CandPC, InfoPC, At, ProbeBad
    <2>4. QED
      BY <2>1, <2>2, <2>3 DEF ProbeBad
  <1>3. StoreTypeOK'
    BY <1>1, <1>2 DEF IInv, TypeOK, StoreTypeOK, Metadata, Status, Request,
       RequestOK, CandPC, InfoPC, At, ProbeBad, storeVars, redisVars,
       poolVars, gcVars
  <1>4. PoolTypeOK'
    BY <1>1, PoolAssumption DEF IInv, TypeOK, PoolTypeOK, Request, RequestOK,
       CandPC, At, ScheduleRefill, ProbeBad, storeVars, redisVars, poolVars,
       gcVars
  <1>5. BornStayBorn /\ Recorded'
    BY <1>1, EntryFacts, RequestFacts DEF IInv, TypeOK, StoreTypeOK,
       BornStayBorn, Recorded, Popped, RequestOK, CandPC, At, ProbeBad,
       storeVars, redisVars, poolVars, gcVars
  <1>6. QED
    BY <1>1, <1>2, <1>3, <1>4, <1>5, RequestFacts, RequestKeeps DEF Popped,
       RequestOK, CandPC, At, ProbeBad, storeVars, redisVars, poolVars,
       gcVars, IInv, TypeOK, PoolTypeOK

LEMMA AcquireRaisesKeeps ==
    ASSUME IInv, NEW c \in Conv, AcquireRaises(c), UNCHANGED gcVars
    PROVE  IInv'
  <1>1. /\ req[c] \in Request /\ RequestOK(req[c])
        /\ req[c].pc \in CandPC => req[c].cand \in Id
    BY RequestFacts
  <1>2. PICK r \in Request :
           /\ RequestOK(r) /\ Become(c, r)
           /\ r.info \in {None, req[c].info} /\ r.cand = None
    BY <1>1, RaisedFields DEF Request, ReqPC, Stage, Status, RequestOK,
       CandPC, InfoPC, At, AcquireRaises
  <1>3. StoreTypeOK'
    BY <1>1, <1>2 DEF IInv, TypeOK, StoreTypeOK, Metadata, Status, Request,
       RequestOK, CandPC, InfoPC, At, AcquireRaises, CreateFails, storeVars,
       redisVars, poolVars, gcVars
  <1>4. PoolTypeOK'
    BY <1>1, PoolAssumption DEF IInv, TypeOK, PoolTypeOK, Request, RequestOK,
       CandPC, At, ScheduleRefill, AcquireRaises, storeVars, redisVars,
       poolVars, gcVars
  <1>5. BornStayBorn /\ Recorded'
    BY <1>1, EntryFacts, RequestFacts DEF IInv, TypeOK, StoreTypeOK,
       BornStayBorn, Recorded, Popped, RequestOK, CandPC, At, AcquireRaises,
       CreateFails, storeVars, redisVars, poolVars, gcVars
  <1>6. QED
    BY <1>1, <1>2, <1>3, <1>4, <1>5, RequestFacts, RequestKeeps DEF Popped,
       RequestOK, CandPC, At, AcquireRaises, storeVars, redisVars, poolVars,
       gcVars, IInv, TypeOK, PoolTypeOK

LEMMA StartProxyKeeps ==
    ASSUME IInv, NEW c \in Conv, StartProxy(c), UNCHANGED gcVars
    PROVE  IInv'
  <1>1. /\ req[c] \in Request /\ RequestOK(req[c])
        /\ req[c].pc \in CandPC => req[c].cand \in Id
    BY RequestFacts
  <1>2. PICK r \in Request :
           /\ RequestOK(r) /\ Become(c, r)
           /\ r.pc = "save" /\ r.info = req[c].info /\ r.cand = req[c].cand
    BY <1>1 DEF Request, ReqPC, Stage, Status, RequestOK, CandPC, InfoPC, At,
       GoTo, StartProxy
  <1>3. StoreTypeOK'
    BY <1>1, <1>2 DEF IInv, TypeOK, StoreTypeOK, Metadata, Status, Request,
       RequestOK, CandPC, InfoPC, At, StartProxy, storeVars, redisVars,
       poolVars, gcVars
  <1>4. PoolTypeOK'
    BY DEF IInv, TypeOK, PoolTypeOK, StartProxy, storeVars, redisVars,
       poolVars, gcVars
  <1>5. BornStayBorn /\ Recorded'
    BY <1>1, EntryFacts, RequestFacts DEF IInv, TypeOK, StoreTypeOK,
       BornStayBorn, Recorded, Popped, RequestOK, CandPC, At, StartProxy,
       storeVars, redisVars, poolVars, gcVars
  <1>6. QED
    BY <1>1, <1>2, <1>3, <1>4, <1>5, RequestFacts, RequestKeeps DEF Popped,
       RequestOK, CandPC, At, StartProxy, storeVars, redisVars, poolVars,
       gcVars

LEMMA SaveKeeps ==
    ASSUME IInv, NEW c \in Conv, Save(c), UNCHANGED gcVars
    PROVE  IInv'
  <1>1. /\ req[c] \in Request /\ RequestOK(req[c])
        /\ req[c].pc \in CandPC => req[c].cand \in Id
    BY RequestFacts
  <1>2. PICK r \in Request :
           /\ RequestOK(r) /\ Become(c, r)
           /\ r.pc = "link" /\ r.info = req[c].info /\ r.cand = req[c].cand
    BY <1>1 DEF Request, ReqPC, Stage, Status, RequestOK, CandPC, InfoPC, At,
       GoTo, Save
  <1>3. StoreTypeOK'
    BY <1>1, <1>2 DEF IInv, TypeOK, StoreTypeOK, Metadata, Status, Request,
       RequestOK, CandPC, InfoPC, At, Save, SaveEntry, storeVars, redisVars,
       poolVars, gcVars
  <1>4. PoolTypeOK'
    BY DEF IInv, TypeOK, PoolTypeOK, Save, storeVars, redisVars, poolVars,
       gcVars
  <1>5. BornStayBorn /\ Recorded'
    BY <1>1, EntryFacts, RequestFacts DEF IInv, TypeOK, StoreTypeOK,
       BornStayBorn, Recorded, Popped, RequestOK, CandPC, At, Save, SaveEntry,
       storeVars, redisVars, poolVars, gcVars
  <1>6. QED
    BY <1>1, <1>2, <1>3, <1>4, <1>5, RequestFacts, RequestKeeps DEF Popped,
       RequestOK, CandPC, At, Save, storeVars, redisVars, poolVars, gcVars

LEMMA LinkKeeps ==
    ASSUME IInv, NEW c \in Conv, Link(c), UNCHANGED gcVars
    PROVE  IInv'
  <1>1. /\ req[c] \in Request /\ RequestOK(req[c])
        /\ req[c].pc \in CandPC => req[c].cand \in Id
    BY RequestFacts
  <1>2. PICK r \in Request :
           /\ RequestOK(r) /\ Become(c, r)
           /\ r.info \in {None, req[c].cand} /\ r.cand = None
    BY <1>1, GotFields DEF Request, ReqPC, Stage, Status, RequestOK, CandPC,
       InfoPC, At, Link
  <1>3. StoreTypeOK'
    BY <1>1, <1>2 DEF IInv, TypeOK, StoreTypeOK, Metadata, Status, Request,
       RequestOK, CandPC, InfoPC, At, Link, storeVars, redisVars, poolVars,
       gcVars
  <1>4. PoolTypeOK'
    BY DEF IInv, TypeOK, PoolTypeOK, Link, storeVars, redisVars, poolVars,
       gcVars
  <1>5. BornStayBorn /\ Recorded'
    BY <1>1, EntryFacts, RequestFacts DEF IInv, TypeOK, StoreTypeOK,
       BornStayBorn, Recorded, Popped, RequestOK, CandPC, At, Link, storeVars,
       redisVars, poolVars, gcVars
  <1>6. QED
    BY <1>1, <1>2, <1>3, <1>4, <1>5, RequestFacts, RequestKeeps DEF Popped,
       RequestOK, CandPC, At, Link, storeVars, redisVars, poolVars, gcVars

LEMMA StartKeeps ==
    ASSUME IInv, NEW c \in Conv, Start(c), UNCHANGED gcVars
    PROVE  IInv'
  <1>1. /\ req[c] \in Request /\ RequestOK(req[c])
        /\ req[c].pc \in CandPC => req[c].cand \in Id
    BY RequestFacts
  <1>2. PICK r \in Request :
           /\ RequestOK(r) /\ Become(c, r)
           /\ r.pc = "exec" /\ r.info = req[c].info /\ r.cand = req[c].cand
    BY <1>1 DEF Request, ReqPC, Stage, Status, RequestOK, CandPC, InfoPC, At,
       GoTo, Start
  <1>3. StoreTypeOK'
    BY <1>1, <1>2 DEF IInv, TypeOK, StoreTypeOK, Metadata, Status, Request,
       RequestOK, CandPC, InfoPC, At, Start, RefreshEntry, storeVars,
       redisVars, poolVars, gcVars
  <1>4. PoolTypeOK'
    BY DEF IInv, TypeOK, PoolTypeOK, Start, storeVars, redisVars, poolVars,
       gcVars
  <1>5. BornStayBorn /\ Recorded'
    BY <1>1, EntryFacts, RequestFacts DEF IInv, TypeOK, StoreTypeOK,
       BornStayBorn, Recorded, Popped, RequestOK, CandPC, At, Start,
       RefreshEntry, storeVars, redisVars, poolVars, gcVars
  <1>6. QED
    BY <1>1, <1>2, <1>3, <1>4, <1>5, RequestFacts, RequestKeeps DEF Popped,
       RequestOK, CandPC, At, Start, storeVars, redisVars, poolVars, gcVars

LEMMA ExecRestartsProxyKeeps ==
    ASSUME IInv, NEW c \in Conv, ExecRestartsProxy(c), UNCHANGED gcVars
    PROVE  IInv'
  <1>1. /\ req[c] \in Request /\ RequestOK(req[c])
        /\ req[c].pc \in CandPC => req[c].cand \in Id
    BY RequestFacts
  <1>2. PICK r \in Request :
           /\ RequestOK(r) /\ Become(c, r)
           /\ r.pc = "finish" /\ r.info = req[c].info /\ r.cand = req[c].cand
    BY <1>1 DEF Request, ReqPC, Stage, Status, RequestOK, CandPC, InfoPC, At,
       GoTo, ExecRestartsProxy
  <1>3. StoreTypeOK'
    BY <1>1, <1>2 DEF IInv, TypeOK, StoreTypeOK, Metadata, Status, Request,
       RequestOK, CandPC, InfoPC, At, ExecRestartsProxy, storeVars, redisVars,
       poolVars, gcVars
  <1>4. PoolTypeOK'
    BY DEF IInv, TypeOK, PoolTypeOK, ExecRestartsProxy, storeVars, redisVars,
       poolVars, gcVars
  <1>5. BornStayBorn /\ Recorded'
    BY <1>1, EntryFacts, RequestFacts DEF IInv, TypeOK, StoreTypeOK,
       BornStayBorn, Recorded, Popped, RequestOK, CandPC, At,
       ExecRestartsProxy, storeVars, redisVars, poolVars, gcVars
  <1>6. QED
    BY <1>1, <1>2, <1>3, <1>4, <1>5, RequestFacts, RequestKeeps DEF Popped,
       RequestOK, CandPC, At, ExecRestartsProxy, storeVars, redisVars,
       poolVars, gcVars

LEMMA EvictKeeps ==
    ASSUME IInv, NEW c \in Conv, Evict(c), UNCHANGED gcVars
    PROVE  IInv'
  <1>1. /\ req[c] \in Request /\ RequestOK(req[c])
        /\ req[c].pc \in CandPC => req[c].cand \in Id
    BY RequestFacts
  <1>2. PICK r \in Request :
           /\ RequestOK(r) /\ Become(c, r)
           /\ r.pc \in {"lookup", "finish"} /\ r.info = req[c].info /\ r.cand = req[c].cand
    <2>1. CASE GoTo(c, "finish")
      BY <1>1, <2>1 DEF Request, ReqPC, RequestOK, CandPC, InfoPC, At, GoTo, Evict
    <2>2. CASE Become(c, [req[c] EXCEPT !.pc = "lookup", !.stage = "recovery"])
      <3> DEFINE r == [req[c] EXCEPT !.pc = "lookup", !.stage = "recovery"]
      <3>1. r \in Request
        BY <1>1 DEF Request, ReqPC, Stage
      <3>2. /\ r.pc = "lookup" /\ r.cand = req[c].cand
            /\ r.info = req[c].info /\ r.inst = req[c].inst
        BY <1>1 DEF Request
      <3>3. RequestOK(r)
        BY <1>1, <3>2 DEF RequestOK, CandPC, InfoPC, At, Evict
      <3>4. QED
        BY <2>2, <3>1, <3>2, <3>3
    <2>3. QED
      BY <2>1, <2>2 DEF Evict
  <1>3. StoreTypeOK'
    BY <1>1, <1>2 DEF IInv, TypeOK, StoreTypeOK, Metadata, Status, Request,
       RequestOK, CandPC, InfoPC, At, Evict, StopAndDestroy, Destroy,
       DestroyFails, DeleteKeys, KeysStay, storeVars, redisVars, poolVars,
       gcVars
  <1>4. PoolTypeOK'
    BY DEF IInv, TypeOK, PoolTypeOK, Evict, storeVars, redisVars, poolVars,
       gcVars
  <1>5. BornStayBorn /\ Recorded'
    BY <1>1, EntryFacts, RequestFacts DEF IInv, TypeOK, StoreTypeOK,
       BornStayBorn, Recorded, Popped, RequestOK, CandPC, At, Evict,
       StopAndDestroy, Destroy, DestroyFails, DeleteKeys, KeysStay, storeVars,
       redisVars, poolVars, gcVars
  <1>6. QED
    BY <1>1, <1>2, <1>3, <1>4, <1>5, RequestFacts, RequestKeeps DEF Popped,
       RequestOK, CandPC, At, Evict, storeVars, redisVars, poolVars, gcVars

LEMMA CancelKeeps ==
    ASSUME IInv, NEW c \in Conv, Cancel(c), UNCHANGED gcVars
    PROVE  IInv'
  <1>1. RefreshEntry(c, "live") \/ entry' = entry
    BY DEF Cancel
  <1>2. Become(c, ReqRest) /\ ReqRest \in Request /\ RequestOK(ReqRest)
    BY RestFields DEF Cancel
  <1>3. entry' \in [Conv -> Metadata \cup {None}]
    <2>1. CASE RefreshEntry(c, "live")
      BY <2>1 DEF IInv, TypeOK, StoreTypeOK, RefreshEntry, Metadata, Status
    <2>2. CASE entry' = entry
      BY <2>2 DEF IInv, TypeOK, StoreTypeOK
    <2>3. QED
      BY <1>1, <2>1, <2>2
  <1>4. StoreTypeOK' /\ PoolTypeOK'
    BY <1>3 DEF IInv, TypeOK, StoreTypeOK, PoolTypeOK, Cancel, poolVars
  <1>5. BornStayBorn /\ Recorded'
    BY <1>1, EntryFacts DEF IInv, TypeOK, StoreTypeOK, BornStayBorn, Recorded, Cancel,
       RefreshEntry
  <1>6. QED
    BY <1>2, <1>4, <1>5, RestFields, RequestKeeps DEF Cancel, poolVars, gcVars

LEMMA FinishKeeps ==
    ASSUME IInv, NEW c \in Conv, Finish(c), UNCHANGED gcVars
    PROVE  IInv'
  <1>1. /\ req[c] \in Request /\ RequestOK(req[c])
        /\ req[c].pc \in CandPC => req[c].cand \in Id
    BY RequestFacts
  <1>2. PICK r \in Request :
           /\ RequestOK(r) /\ Become(c, r)
           /\ r.info = None /\ r.cand = None
    <2>1. CASE Become(c, ReqRest)
      BY <2>1, RestFields
    <2>2. CASE Become(c, [req[c] EXCEPT !.pc = "lookup", !.stage = "after", !.info = None])
      <3> DEFINE r == [req[c] EXCEPT !.pc = "lookup", !.stage = "after", !.info = None]
      <3>1. r \in Request
        BY <1>1 DEF Request, ReqPC, Stage
      <3>2. r.pc = "lookup" /\ r.cand = req[c].cand /\ r.info = None /\ r.inst = req[c].inst
        BY <1>1 DEF Request
      <3>3. RequestOK(r) /\ r.cand = None
        BY <1>1, <3>2 DEF RequestOK, CandPC, InfoPC, At, Finish
      <3>4. QED
        BY <2>2, <3>1, <3>2, <3>3
    <2>3. QED
      BY <2>1, <2>2 DEF Finish
  <1>3. StoreTypeOK'
    <2>1. entry' \in [Conv -> Metadata \cup {None}]
      <3>1. CASE RefreshEntry(c, "live")
        BY <3>1 DEF IInv, TypeOK, StoreTypeOK, RefreshEntry, Metadata, Status
      <3>2. CASE entry' = entry
        BY <3>2 DEF IInv, TypeOK, StoreTypeOK
      <3>3. QED
        BY <3>1, <3>2 DEF Finish
    <2>2. QED
      BY <2>1 DEF IInv, TypeOK, StoreTypeOK, Finish
  <1>4. PoolTypeOK'
    BY DEF IInv, TypeOK, PoolTypeOK, Finish, storeVars, redisVars, poolVars,
       gcVars
  <1>5. BornStayBorn /\ Recorded'
    BY <1>1, EntryFacts, RequestFacts DEF IInv, TypeOK, StoreTypeOK,
       BornStayBorn, Recorded, Popped, RequestOK, CandPC, At, Finish,
       RefreshEntry, storeVars, redisVars, poolVars, gcVars
  <1>6. QED
    BY <1>1, <1>2, <1>3, <1>4, <1>5, RequestFacts, RequestKeeps DEF Popped,
       RequestOK, CandPC, At, Finish, storeVars, redisVars, poolVars, gcVars

-----------------------------------------------------------------------------
(* Creating tasks                                                          *)

LEMMA MakerStopsKeeps ==
    ASSUME IInv, NEW m \in Maker, MakerStops(m), UNCHANGED <<req, gcVars>>
    PROVE  IInv'
  <1>1. /\ maker[m] \in Task /\ TaskOK(maker[m])
        /\ maker[m].pc \in {"wait", "push"} => maker[m].id \in Id
    BY TaskFacts
  <1>2. PICK t \in Task : TaskOK(t) /\ Proceed(m, t) /\ t.id = None
    BY <1>1, PoolAssumption DEF Task, MakerPC, TaskOK, MakerRest, MakerStops
  <1>3. StoreTypeOK' /\ BornStayBorn
    BY <1>1 DEF IInv, TypeOK, StoreTypeOK, BornStayBorn, MakerStops,
       storeVars, redisVars
  <1>4. PoolTypeOK'
    BY <1>2, TaskMoves DEF IInv, TypeOK, PoolTypeOK, MakerStops, storeVars
  <1>5. QED
    BY <1>2, <1>3, <1>4, TaskKeeps DEF MakerStops, storeVars, redisVars

LEMMA MakerSavesInfoKeeps ==
    ASSUME IInv, NEW m \in Maker, MakerSavesInfo(m), UNCHANGED <<req, gcVars>>
    PROVE  IInv'
  <1>1. /\ maker[m] \in Task /\ TaskOK(maker[m])
        /\ maker[m].pc \in {"wait", "push"} => maker[m].id \in Id
    BY TaskFacts
  <1>2. PICK t \in Task : TaskOK(t) /\ Proceed(m, t) /\ t.id = maker[m].id
    BY <1>1 DEF Task, MakerPC, TaskOK, MakerSavesInfo
  <1>3. StoreTypeOK' /\ BornStayBorn
    BY <1>1 DEF IInv, TypeOK, StoreTypeOK, BornStayBorn, MakerSavesInfo,
       storeVars, redisVars
  <1>4. PoolTypeOK'
    BY <1>2, TaskMoves DEF IInv, TypeOK, PoolTypeOK, MakerSavesInfo, storeVars
  <1>5. QED
    BY <1>2, <1>3, <1>4, TaskKeeps DEF MakerSavesInfo, storeVars, redisVars

LEMMA MakerGivesUpKeeps ==
    ASSUME IInv, NEW m \in Maker, MakerGivesUp(m), UNCHANGED <<req, gcVars>>
    PROVE  IInv'
  <1>1. /\ maker[m] \in Task /\ TaskOK(maker[m])
        /\ maker[m].pc \in {"wait", "push"} => maker[m].id \in Id
    BY TaskFacts
  <1>2. PICK t \in Task : TaskOK(t) /\ Proceed(m, t) /\ t.id = None
    BY <1>1, RetriedFields DEF Task, MakerPC, TaskOK, MakerGivesUp
  <1>3. StoreTypeOK' /\ BornStayBorn
    BY <1>1 DEF IInv, TypeOK, StoreTypeOK, BornStayBorn, MakerGivesUp,
       Destroy, storeVars, redisVars
  <1>4. PoolTypeOK'
    BY <1>2, TaskMoves DEF IInv, TypeOK, PoolTypeOK, MakerGivesUp, storeVars
  <1>5. QED
    BY <1>2, <1>3, <1>4, TaskKeeps DEF MakerGivesUp, storeVars, redisVars

LEMMA MakerCreateFailsKeeps ==
    ASSUME IInv, NEW m \in Maker, MakerCreateFails(m), UNCHANGED <<req, gcVars>>
    PROVE  IInv'
  <1>1. /\ maker[m] \in Task /\ TaskOK(maker[m])
        /\ maker[m].pc \in {"wait", "push"} => maker[m].id \in Id
    BY TaskFacts
  <1>2. PICK t \in Task : TaskOK(t) /\ Proceed(m, t) /\ t.id = None
    BY <1>1, RetriedFields DEF Task, MakerPC, TaskOK, MakerCreateFails
  <1>3. StoreTypeOK' /\ BornStayBorn
    BY <1>1 DEF IInv, TypeOK, StoreTypeOK, BornStayBorn, MakerCreateFails,
       CreateFails, storeVars, redisVars
  <1>4. PoolTypeOK'
    BY <1>2, TaskMoves DEF IInv, TypeOK, PoolTypeOK, MakerCreateFails,
       storeVars
  <1>5. QED
    BY <1>2, <1>3, <1>4, TaskKeeps DEF MakerCreateFails, storeVars, redisVars

LEMMA MakerRaisesKeeps ==
    ASSUME IInv, NEW m \in Maker, MakerRaises(m), UNCHANGED <<req, gcVars>>
    PROVE  IInv'
  <1>1. /\ maker[m] \in Task /\ TaskOK(maker[m])
        /\ maker[m].pc \in {"wait", "push"} => maker[m].id \in Id
    BY TaskFacts
  <1>2. PICK t \in Task : TaskOK(t) /\ Proceed(m, t) /\ t.id = None
    BY <1>1, RetriedFields DEF Task, MakerPC, TaskOK, MakerRaises
  <1>3. StoreTypeOK' /\ BornStayBorn
    BY <1>1 DEF IInv, TypeOK, StoreTypeOK, BornStayBorn, MakerRaises,
       storeVars, redisVars
  <1>4. PoolTypeOK'
    BY <1>2, TaskMoves DEF IInv, TypeOK, PoolTypeOK, MakerRaises, storeVars
  <1>5. QED
    BY <1>2, <1>3, <1>4, TaskKeeps DEF MakerRaises, storeVars, redisVars

-----------------------------------------------------------------------------
(* Collectors                                                              *)

LEMMA StartCycleKeeps ==
    ASSUME IInv, NEW i \in Inst, StartCycle(i), UNCHANGED <<poolVars, req>>
    PROVE  IInv'
  <1>1. /\ gc[i] \in Collector /\ CollectorOK(gc[i])
        /\ gc[i].pc # "scan" => gc[i].id \in Id
    BY CollectorFacts
  <1>2. PICK g \in Collector :
           /\ CollectorOK(g) /\ Turn(i, g)
           /\ g.todo = Listed /\ g.id = gc[i].id /\ g.victim = gc[i].victim
    BY <1>1 DEF Collector, GCPC, GCRest, CollectorOK, NextContainer, Listed,
       StartCycle
  <1>3. \A id \in g.todo \cup {g.id, g.victim} : Born(id)
    BY <1>2 DEF IInv, AllBorn, Born, Listed
  <1>4. StoreTypeOK' /\ BornStayBorn
    BY <1>1 DEF IInv, TypeOK, StoreTypeOK, Metadata, Status, BornStayBorn,
       StartCycle, storeVars, redisVars
  <1>5. Recorded'
    BY <1>1 DEF IInv, TypeOK, StoreTypeOK, Recorded, StartCycle, storeVars,
       redisVars
  <1>6. QED
    BY <1>2, <1>3, <1>4, <1>5, CollectorKeeps DEF StartCycle, storeVars,
       redisVars

LEMMA CheckPoolKeeps ==
    ASSUME IInv, NEW i \in Inst, CheckPool(i), UNCHANGED <<poolVars, req>>
    PROVE  IInv'
  <1>1. /\ gc[i] \in Collector /\ CollectorOK(gc[i])
        /\ gc[i].pc # "scan" => gc[i].id \in Id
    BY CollectorFacts
  <1>2. PICK g \in Collector :
           /\ CollectorOK(g) /\ Turn(i, g)
           /\ g.todo \subseteq gc[i].todo
           /\ g.id \in gc[i].todo \cup {gc[i].id} /\ g.victim = gc[i].victim
    <2>1. PICK id \in gc[i].todo :
             Turn(i, IF id \in poolInfo
                     THEN [gc[i] EXCEPT !.todo = @ \ {id}]
                     ELSE [gc[i] EXCEPT !.pc = "map", !.id = id])
      BY DEF CheckPool
    <2>2. gc[i].pc = "scan" /\ id \in Id /\ id # None
      BY <1>1, StoreAssumption DEF CheckPool, Collector
    <2>3. CASE id \in poolInfo
      BY <1>1, <2>1, <2>2, <2>3 DEF Collector, CollectorOK
    <2>4. CASE id \notin poolInfo
      <3> DEFINE g == [gc[i] EXCEPT !.pc = "map", !.id = id]
      <3>1. g \in Collector
        BY <1>1, <2>2 DEF Collector, GCPC
      <3>2. g.pc = "map" /\ g.id = id /\ g.todo = gc[i].todo /\ g.victim = gc[i].victim
        BY <1>1 DEF Collector
      <3>3. CollectorOK(g)
        BY <2>2, <3>2 DEF CollectorOK
      <3>4. Turn(i, g)
        BY <2>1, <2>4
      <3>5. QED
        BY <3>1, <3>2, <3>3, <3>4
    <2>5. QED
      BY <2>3, <2>4
  <1>3. \A id \in g.todo \cup {g.id, g.victim} : Born(id)
    BY <1>2 DEF IInv, AllBorn, Born, Collector
  <1>4. StoreTypeOK' /\ BornStayBorn
    BY <1>1 DEF IInv, TypeOK, StoreTypeOK, Metadata, Status, BornStayBorn,
       CheckPool, storeVars, redisVars
  <1>5. Recorded'
    BY <1>1 DEF IInv, TypeOK, StoreTypeOK, Recorded, CheckPool, storeVars,
       redisVars
  <1>6. QED
    BY <1>2, <1>3, <1>4, <1>5, CollectorKeeps DEF CheckPool, storeVars,
       redisVars

LEMMA MapToConversationKeeps ==
    ASSUME IInv, NEW i \in Inst, MapToConversation(i), UNCHANGED <<poolVars, req>>
    PROVE  IInv'
  <1>1. /\ gc[i] \in Collector /\ CollectorOK(gc[i])
        /\ gc[i].pc # "scan" => gc[i].id \in Id
    BY CollectorFacts
  <1>2. PICK g \in Collector :
           /\ CollectorOK(g) /\ Turn(i, g)
           /\ g.todo = gc[i].todo /\ g.id = gc[i].id /\ g.victim = gc[i].victim
    <2>1. gc[i].pc = "map" /\ reverse[gc[i].id] \in Conv \cup {None}
      BY <1>1, ReverseFacts DEF MapToConversation
    <2> DEFINE g == [gc[i] EXCEPT !.pc = "meta", !.conv = reverse[gc[i].id]]
    <2>2. g \in Collector
      BY <1>1, <2>1 DEF Collector, GCPC
    <2>3. /\ g.pc = "meta" /\ g.id = gc[i].id
          /\ g.todo = gc[i].todo /\ g.victim = gc[i].victim
      BY <1>1 DEF Collector
    <2>4. CollectorOK(g)
      BY <1>1, <2>1, <2>3 DEF CollectorOK
    <2>5. QED
      BY <2>2, <2>3, <2>4 DEF MapToConversation
  <1>3. \A id \in g.todo \cup {g.id, g.victim} : Born(id)
    BY <1>2 DEF IInv, AllBorn, Born, Collector
  <1>4. StoreTypeOK' /\ BornStayBorn
    BY <1>1 DEF IInv, TypeOK, StoreTypeOK, Metadata, Status, BornStayBorn,
       MapToConversation, storeVars, redisVars
  <1>5. Recorded'
    BY <1>1 DEF IInv, TypeOK, StoreTypeOK, Recorded, MapToConversation,
       storeVars, redisVars
  <1>6. QED
    BY <1>2, <1>3, <1>4, <1>5, CollectorKeeps DEF MapToConversation,
       storeVars, redisVars

LEMMA DecideKeeps ==
    ASSUME IInv, NEW i \in Inst, Decide(i), UNCHANGED <<poolVars, req>>
    PROVE  IInv'
  <1>1. /\ gc[i] \in Collector /\ CollectorOK(gc[i])
        /\ gc[i].pc # "scan" => gc[i].id \in Id
    BY CollectorFacts
  <1>2. PICK g \in Collector :
           /\ CollectorOK(g) /\ Turn(i, g)
           /\ \/ g.todo = gc[i].todo /\ g.id = gc[i].id /\ g.victim = gc[i].victim
              \/ g.todo \subseteq gc[i].todo /\ g.id = None /\ g.victim = None
              \/ /\ g.todo = gc[i].todo /\ g.id = gc[i].id
                 /\ g.victim # None /\ given[g.victim] # None
    <2>1. gc[i].pc = "meta" /\ gc[i].conv \in Conv \cup {None}
      BY <1>1 DEF Decide, Collector
    <2>2. CASE Turn(i, [gc[i] EXCEPT !.pc = "orphan"])
      BY <1>1, <2>1, <2>2 DEF Collector, GCPC, CollectorOK
    <2>3. CASE Turn(i, GCRest) \/ Turn(i, NextContainer(gc[i]))
      BY <1>1, <2>3 DEF Collector, GCPC, GCRest, CollectorOK, NextContainer
    <2>4. CASE /\ gc[i].conv \in Conv /\ entry[gc[i].conv] # None /\ ~Broken(gc[i].conv)
               /\ Turn(i, [gc[i] EXCEPT !.pc = "drain", !.victim = entry[gc[i].conv].id])
      <3>1. /\ entry[gc[i].conv].id \in Id /\ entry[gc[i].conv].id # None
            /\ given[entry[gc[i].conv].id] # None /\ gc[i].conv # None
        BY <2>4, EntryFacts, StoreAssumption DEF Broken, Names, Metadata
      <3> DEFINE g == [gc[i] EXCEPT !.pc = "drain", !.victim = entry[gc[i].conv].id]
      <3>2. g \in Collector
        BY <1>1, <3>1 DEF Collector, GCPC
      <3>3. /\ g.pc = "drain" /\ g.victim = entry[gc[i].conv].id
            /\ g.id = gc[i].id /\ g.conv = gc[i].conv /\ g.todo = gc[i].todo
        BY <1>1 DEF Collector
      <3>4. CollectorOK(g)
        BY <1>1, <2>1, <3>1, <3>3 DEF CollectorOK
      <3>5. QED
        BY <2>4, <3>1, <3>2, <3>3, <3>4
    <2>5. QED
      BY <2>1, <2>2, <2>3, <2>4 DEF Decide
  <1>3. \A id \in g.todo \cup {g.id, g.victim} : Born(id)
    BY <1>2, StoreAssumption DEF IInv, AllBorn, Born, Collector
  <1>4. StoreTypeOK' /\ BornStayBorn
    BY <1>1 DEF IInv, TypeOK, StoreTypeOK, Metadata, Status, BornStayBorn,
       Decide, storeVars, redisVars
  <1>5. Recorded'
    BY <1>1 DEF IInv, TypeOK, StoreTypeOK, Recorded, Decide, storeVars,
       redisVars
  <1>6. QED
    BY <1>2, <1>3, <1>4, <1>5, CollectorKeeps DEF Decide, storeVars, redisVars

LEMMA CollectOrphanKeeps ==
    ASSUME IInv, NEW i \in Inst, CollectOrphan(i), UNCHANGED <<poolVars, req>>
    PROVE  IInv'
  <1>1. /\ gc[i] \in Collector /\ CollectorOK(gc[i])
        /\ gc[i].pc # "scan" => gc[i].id \in Id
    BY CollectorFacts
  <1>2. PICK g \in Collector :
           /\ CollectorOK(g) /\ Turn(i, g)
           /\ g.todo \subseteq gc[i].todo /\ g.id = None /\ g.victim = None
    BY <1>1 DEF Collector, GCPC, GCRest, CollectorOK, NextContainer,
       CollectOrphan
  <1>3. \A id \in g.todo \cup {g.id, g.victim} : Born(id)
    BY <1>2 DEF IInv, AllBorn, Born, Collector
  <1>4. StoreTypeOK' /\ BornStayBorn
    BY <1>1 DEF IInv, TypeOK, StoreTypeOK, Metadata, Status, BornStayBorn,
       CollectOrphan, Destroy, DestroyFails, storeVars, redisVars
  <1>5. Recorded'
    BY <1>1 DEF IInv, TypeOK, StoreTypeOK, Recorded, CollectOrphan, Destroy,
       DestroyFails, storeVars, redisVars
  <1>6. QED
    BY <1>2, <1>3, <1>4, <1>5, CollectorKeeps DEF CollectOrphan, storeVars,
       redisVars

LEMMA DrainKeeps ==
    ASSUME IInv, NEW i \in Inst, Drain(i), UNCHANGED <<poolVars, req>>
    PROVE  IInv'
  <1>1. /\ gc[i] \in Collector /\ CollectorOK(gc[i])
        /\ gc[i].pc # "scan" => gc[i].id \in Id
        /\ gc[i].pc \in {"drain", "kill", "forget"} =>
              gc[i].conv \in Conv /\ gc[i].victim \in Id
    BY CollectorFacts
  <1>2. PICK g \in Collector :
           /\ CollectorOK(g) /\ Turn(i, g)
           /\ g.todo = gc[i].todo /\ g.id = gc[i].id /\ g.victim = gc[i].victim
    BY <1>1 DEF Collector, GCPC, GCRest, CollectorOK, NextContainer, Drain
  <1>3. \A id \in g.todo \cup {g.id, g.victim} : Born(id)
    BY <1>2 DEF IInv, AllBorn, Born, Collector
  <1>4. StoreTypeOK' /\ BornStayBorn
    BY <1>1 DEF IInv, TypeOK, StoreTypeOK, Metadata, Status, BornStayBorn,
       Drain, storeVars, redisVars
  <1>5. Recorded'
    BY <1>1 DEF IInv, TypeOK, StoreTypeOK, Recorded, Drain, storeVars,
       redisVars
  <1>6. QED
    BY <1>2, <1>3, <1>4, <1>5, CollectorKeeps DEF Drain, storeVars, redisVars

LEMMA KillKeeps ==
    ASSUME IInv, NEW i \in Inst, Kill(i), UNCHANGED <<poolVars, req>>
    PROVE  IInv'
  <1>1. /\ gc[i] \in Collector /\ CollectorOK(gc[i])
        /\ gc[i].pc # "scan" => gc[i].id \in Id
        /\ gc[i].pc \in {"drain", "kill", "forget"} =>
              gc[i].conv \in Conv /\ gc[i].victim \in Id
    BY CollectorFacts
  <1>2. PICK g \in Collector :
           /\ CollectorOK(g) /\ Turn(i, g)
           /\ \/ g.todo = gc[i].todo /\ g.id = gc[i].id /\ g.victim = gc[i].victim
              \/ g.todo \subseteq gc[i].todo /\ g.id = None /\ g.victim = None
    BY <1>1 DEF Collector, GCPC, GCRest, CollectorOK, NextContainer, Kill
  <1>3. \A id \in g.todo \cup {g.id, g.victim} : Born(id)
    BY <1>2 DEF IInv, AllBorn, Born, Collector
  <1>4. StoreTypeOK' /\ BornStayBorn
    BY <1>1 DEF IInv, TypeOK, StoreTypeOK, Metadata, Status, BornStayBorn,
       Kill, Destroy, DestroyFails, storeVars, redisVars
  <1>5. Recorded'
    BY <1>1 DEF IInv, TypeOK, StoreTypeOK, Recorded, Kill, Destroy,
       DestroyFails, storeVars, redisVars
  <1>6. QED
    BY <1>2, <1>3, <1>4, <1>5, CollectorKeeps DEF Kill, storeVars, redisVars

LEMMA ForgetKeeps ==
    ASSUME IInv, NEW i \in Inst, Forget(i), UNCHANGED <<poolVars, req>>
    PROVE  IInv'
  <1>1. /\ gc[i] \in Collector /\ CollectorOK(gc[i])
        /\ gc[i].pc # "scan" => gc[i].id \in Id
        /\ gc[i].pc \in {"drain", "kill", "forget"} =>
              gc[i].conv \in Conv /\ gc[i].victim \in Id
    BY CollectorFacts
  <1>2. PICK g \in Collector :
           /\ CollectorOK(g) /\ Turn(i, g)
           /\ g.todo \subseteq gc[i].todo /\ g.id = None /\ g.victim = None
    BY <1>1 DEF Collector, GCPC, GCRest, CollectorOK, NextContainer, Forget
  <1>3. \A id \in g.todo \cup {g.id, g.victim} : Born(id)
    BY <1>2 DEF IInv, AllBorn, Born, Collector
  <1>4. StoreTypeOK' /\ BornStayBorn
    BY <1>1 DEF IInv, TypeOK, StoreTypeOK, Metadata, Status, BornStayBorn,
       Forget, DeleteKeys, storeVars, redisVars
  <1>5. Recorded'
    BY <1>1 DEF IInv, TypeOK, StoreTypeOK, Recorded, Forget, DeleteKeys,
       storeVars, redisVars
  <1>6. QED
    BY <1>2, <1>3, <1>4, <1>5, CollectorKeeps DEF Forget, storeVars, redisVars

LEMMA CycleFailsKeeps ==
    ASSUME IInv, NEW i \in Inst, CycleFails(i), UNCHANGED <<poolVars, req>>
    PROVE  IInv'
  <1>1. /\ gc[i] \in Collector /\ CollectorOK(gc[i])
        /\ gc[i].pc # "scan" => gc[i].id \in Id
    BY CollectorFacts
  <1>2. PICK g \in Collector :
           /\ CollectorOK(g) /\ Turn(i, g)
           /\ g.todo \subseteq gc[i].todo /\ g.id = None /\ g.victim = None
    BY <1>1 DEF Collector, GCPC, GCRest, CollectorOK, NextContainer,
       CycleFails
  <1>3. \A id \in g.todo \cup {g.id, g.victim} : Born(id)
    BY <1>2 DEF IInv, AllBorn, Born, Collector
  <1>4. StoreTypeOK' /\ BornStayBorn
    BY <1>1 DEF IInv, TypeOK, StoreTypeOK, Metadata, Status, BornStayBorn,
       CycleFails, storeVars, redisVars
  <1>5. Recorded'
    BY <1>1 DEF IInv, TypeOK, StoreTypeOK, Recorded, CycleFails, storeVars,
       redisVars
  <1>6. QED
    BY <1>2, <1>3, <1>4, <1>5, CollectorKeeps DEF CycleFails, storeVars,
       redisVars

-----------------------------------------------------------------------------
(* Steps that hand a container from one holder to the next                 *)

LEMMA FreshFacts ==
    ASSUME IInv, NEW id \in Id, cstate[id] = "unborn"
    PROVE  /\ given[id] = None /\ id \notin Elements(pool)
           /\ \A m \in Maker : maker[m].id # id
           /\ \A c \in Conv : req[c].cand # id
  <1>1. id # None
    BY StoreAssumption
  <1>2. QED
    BY <1>1 DEF IInv, AllBorn, Born

LEMMA CreateFacts ==
    ASSUME IInv, NEW id \in Id, Create(id)
    PROVE  /\ cstate[id] = "unborn" /\ BornStayBorn /\ cstate'[id] # "unborn"
           /\ cstate' \in [Id -> {"unborn", "starting", "ready", "hung", "exited", "gone"}]
  BY DEF IInv, TypeOK, StoreTypeOK, Create, BornStayBorn

\* What AllBorn says of the steps in which no container is unborn again.
LEMMA BornKept ==
    ASSUME IInv, BornStayBorn
    PROVE  /\ \A id \in Id : given[id] # None => cstate'[id] # "unborn"
           /\ \A id \in Elements(pool) : id \in Id /\ cstate'[id] # "unborn"
           /\ \A m \in Maker : maker[m].id # None => cstate'[maker[m].id] # "unborn"
           /\ \A c \in Conv : req[c].cand # None => cstate'[req[c].cand] # "unborn"
           /\ \A i \in Inst :
                \A id \in doomed[i] \cup gc[i].todo \cup {gc[i].id, gc[i].victim} :
                   id # None => cstate'[id] # "unborn"
  <1>1. \A id \in Id : given[id] # None => cstate'[id] # "unborn"
    BY StoreAssumption DEF IInv, AllBorn, Born, BornStayBorn
  <1>2. \A id \in Elements(pool) : id \in Id /\ cstate'[id] # "unborn"
    BY StoreAssumption DEF IInv, TypeOK, StoreTypeOK, AllBorn, Born, BornStayBorn, Elements
  <1>3. \A m \in Maker : maker[m].id # None => cstate'[maker[m].id] # "unborn"
    BY DEF IInv, TypeOK, PoolTypeOK, Task, AllBorn, Born, BornStayBorn
  <1>4. \A c \in Conv : req[c].cand # None => cstate'[req[c].cand] # "unborn"
    BY DEF IInv, TypeOK, OrchestratorTypeOK, Request, AllBorn, Born, BornStayBorn
  <1>5. \A i \in Inst :
          \A id \in doomed[i] \cup gc[i].todo \cup {gc[i].id, gc[i].victim} :
             id # None => cstate'[id] # "unborn"
    BY DEF IInv, TypeOK, PoolTypeOK, GCTypeOK, Collector, AllBorn, Born, BornStayBorn
  <1>6. QED
    BY <1>1, <1>2, <1>3, <1>4, <1>5

LEMMA ScheduleRefillType ==
    ASSUME IInv, NEW i \in Inst, ScheduleRefill(i)
    PROVE  refill' \in [Inst -> 0..MaxRefill]
  <1>1. refill \in [Inst -> 0..MaxRefill] /\ MaxRefill \in Nat
    BY PoolAssumption DEF IInv, TypeOK, PoolTypeOK
  <1>2. PICK n \in 0..MaxRefill : refill' = [refill EXCEPT ![i] = n]
    <2>1. CASE refill[i] < MaxRefill
      <3>1. refill[i] + 1 \in 0..MaxRefill
        BY <1>1, <2>1
      <3>2. refill' = [refill EXCEPT ![i] = refill[i] + 1]
        BY <2>1 DEF ScheduleRefill
      <3>3. QED
        BY <3>1, <3>2
    <2>2. CASE ~(refill[i] < MaxRefill)
      <3>1. refill' = [refill EXCEPT ![i] = refill[i]]
        BY <2>2 DEF ScheduleRefill
      <3>2. QED
        BY <1>1, <3>1
    <2>3. QED
      BY <2>1, <2>2
  <1>3. QED
    BY <1>1, <1>2

LEMMA PopKeeps ==
    ASSUME IInv, NoResend, NEW c \in Conv, Pop(c), UNCHANGED gcVars
    PROVE  IInv'
  <1> DEFINE r == [req[c] EXCEPT !.pc = "probe", !.cand = Head(pool)]
  <1>1. req[c] \in Request /\ RequestOK(req[c]) /\ req[c].pc = "pop"
    BY RequestFacts DEF Pop, At
  <1>2. pool # <<>> /\ pool' = Tail(pool) /\ Become(c, r)
    BY DEF Pop, NoResend
  <1>3. /\ Head(pool) \in Id /\ Tail(pool) \in Seq(Id)
        /\ Elements(pool) = Elements(pool') \cup {Head(pool)}
        /\ Head(pool) \notin Elements(pool')
        /\ \A m, n \in 1..Len(pool') : pool'[m] = pool'[n] => m = n
    BY <1>2, PoolHead
  <1>4. /\ r.pc = "probe" /\ r.cand = Head(pool)
        /\ r.info = req[c].info /\ r.inst = req[c].inst
    BY <1>1 DEF Request
  <1>5. r \in Request /\ RequestOK(r)
    <2>1. r \in Request
      BY <1>1, <1>3 DEF Request, ReqPC
    <2>2. RequestOK(r)
      BY <1>1, <1>3, <1>4, StoreAssumption DEF RequestOK, CandPC, InfoPC
    <2>3. QED
      BY <2>1, <2>2
  <1>6. /\ OrchestratorTypeOK' /\ req'[c] = r
        /\ \A d \in Conv \ {c} : req'[d] = req[d]
        /\ \A d \in Conv : RequestOK(req'[d])
    BY <1>2, <1>5, RequestMoves
  <1> HIDE DEF r
  <1>7. TypeOK'
    BY <1>2, <1>3, <1>6 DEF IInv, TypeOK, StoreTypeOK, PoolTypeOK, GCTypeOK, Pop,
       poolVars, gcVars
  <1>8. Controlled'
    BY <1>6 DEF IInv, Controlled, Pop, poolVars, gcVars
  <1>9. AllBorn'
    BY <1>3, <1>4, <1>6 DEF IInv, AllBorn, Born, Pop, poolVars, gcVars
  <1>10. Unassigned'
    <2>1. \A d \in Conv \ {c} : Popped(d)' <=> Popped(d)
      BY <1>6 DEF Popped
    <2>2. \A m \in Maker : maker[m].id # Head(pool)
      BY <1>3, StoreAssumption DEF IInv, Unassigned
    <2>3. \A d \in Conv : Popped(d) => req[d].cand # Head(pool)
      BY <1>3 DEF IInv, Unassigned
    <2>4. given[Head(pool)] = None
      BY <1>3 DEF IInv, Unassigned
    <2>5. QED
      BY <1>3, <1>4, <1>6, <2>1, <2>2, <2>3, <2>4 DEF IInv, Unassigned, PoolDistinct,
         Pop, poolVars
  <1>11. Assigned' /\ Recorded'
    BY <1>1, <1>4, <1>6 DEF IInv, Assigned, Recorded, Popped, Pop
  <1>12. QED
    BY <1>7, <1>8, <1>9, <1>10, <1>11 DEF IInv

LEMMA ClaimKeeps ==
    ASSUME IInv, NEW c \in Conv, Claim(c), UNCHANGED gcVars
    PROVE  IInv'
  <1> DEFINE id == req[c].cand
  <1>1. req[c] \in Request /\ RequestOK(req[c]) /\ req[c].pc = "claim" /\ id \in Id
    BY RequestFacts DEF Claim, At, CandPC
  <1>2. PICK r \in Request :
           /\ RequestOK(r) /\ Become(c, r)
           /\ r.pc = "proxy" /\ r.info = req[c].info /\ r.cand = id
    BY <1>1 DEF Claim, GoTo, Request, ReqPC, RequestOK, CandPC, InfoPC
  <1>3. /\ OrchestratorTypeOK' /\ req'[c] = r
        /\ \A d \in Conv \ {c} : req'[d] = req[d]
        /\ \A d \in Conv : RequestOK(req'[d])
    BY <1>2, RequestMoves
  <1>4. /\ given' = [given EXCEPT ![id] = c]
        /\ given[id] = None /\ id \notin Elements(pool)
        /\ \A m \in Maker : maker[m].id # id
        /\ \A d \in Conv \ {c} : Popped(d) => req[d].cand # id
    BY <1>1 DEF IInv, Unassigned, Popped, Claim
  <1>5. /\ given' \in [Id -> Conv \cup {None}] /\ given'[id] = c
        /\ \A x \in Id \ {id} : given'[x] = given[x]
    BY <1>1, <1>4 DEF IInv, TypeOK, StoreTypeOK
  <1>6. refill' \in [Inst -> 0..MaxRefill]
    <2>1. req[c].inst \in Inst /\ ScheduleRefill(req[c].inst)
      BY <1>1 DEF Request, RequestOK, Claim
    <2>2. QED
      BY <2>1, ScheduleRefillType
  <1> HIDE DEF id
  <1>7. TypeOK'
    BY <1>1, <1>3, <1>5, <1>6 DEF IInv, TypeOK, StoreTypeOK, PoolTypeOK, GCTypeOK, Claim, gcVars
  <1>8. Controlled'
    BY <1>3 DEF IInv, Controlled, Claim, gcVars
  <1>9. AllBorn'
    <2>1. cstate[id] # "unborn"
      BY <1>1, StoreAssumption DEF IInv, AllBorn, Born, id
    <2>2. QED
      BY <1>1, <1>2, <1>3, <1>5, <2>1 DEF IInv, AllBorn, Born, Claim, gcVars
  <1>10. Unassigned'
    <2>1. \A d \in Conv : Popped(d)' => d # c /\ Popped(d) /\ req'[d].cand = req[d].cand
      BY <1>2, <1>3 DEF Popped
    <2>2. \A d \in Conv \ {c} : Popped(d) => req[d].cand \in Id \ {id}
      BY <1>4, RequestFacts DEF Popped, CandPC
    <2>3. \A m \in Maker : maker[m].id # None => maker[m].id \in Id \ {id}
      BY <1>4, TaskFacts DEF TaskOK
    <2>4. Elements(pool) \subseteq Id \ {id}
      BY <1>4 DEF IInv, TypeOK, StoreTypeOK, Elements
    <2>5. QED
      BY <1>5, <2>1, <2>2, <2>3, <2>4 DEF IInv, Unassigned, PoolDistinct, Claim
  <1>11. Assigned'
    <2>1. \A d \in Conv : req[d].info # None => given'[req[d].info] = d
      BY <1>4, <1>5, RequestFacts, StoreAssumption DEF Request
    <2>2. \A d \in Conv \ {c} : req[d].cand # None /\ ~Popped(d) => given'[req[d].cand] = d
      BY <1>4, <1>5, RequestFacts, StoreAssumption DEF Request
    <2>3. QED
      BY <1>2, <1>3, <1>5, <2>1, <2>2 DEF Assigned, Popped
  <1>12. Recorded'
    <2>1. \A d \in Conv : entry[d] # None /\ entry[d].id # None => given'[entry[d].id] = d
      BY <1>4, <1>5, EntryFacts, StoreAssumption DEF Metadata
    <2>2. \A x \in Id : reverse[x] # None => given'[x] = reverse[x]
      BY <1>4, <1>5 DEF IInv, Recorded
    <2>3. QED
      BY <2>1, <2>2 DEF Recorded, Claim
  <1>13. QED
    BY <1>7, <1>8, <1>9, <1>10, <1>11, <1>12 DEF IInv

LEMMA PopEmptyKeeps ==
    ASSUME IInv, NEW c \in Conv, PopEmpty(c), UNCHANGED gcVars
    PROVE  IInv'
  <1>1. req[c] \in Request /\ RequestOK(req[c]) /\ req[c].pc = "pop"
    BY RequestFacts DEF PopEmpty, At
  <1>2. PICK id \in Id :
           /\ Create(id) /\ given' = [given EXCEPT ![id] = c]
           /\ Become(c, [req[c] EXCEPT !.pc = "proxy", !.cand = id])
    BY DEF PopEmpty
  <1> DEFINE r == [req[c] EXCEPT !.pc = "proxy", !.cand = id]
  <1>3. r.pc = "proxy" /\ r.cand = id /\ r.info = req[c].info /\ r.inst = req[c].inst
    BY <1>1 DEF Request
  <1>4. r \in Request /\ RequestOK(r)
    <2>1. r \in Request
      BY <1>1 DEF Request, ReqPC
    <2>2. RequestOK(r)
      BY <1>1, <1>3, StoreAssumption DEF RequestOK, CandPC, InfoPC
    <2>3. QED
      BY <2>1, <2>2
  <1>5. /\ OrchestratorTypeOK' /\ req'[c] = r
        /\ \A d \in Conv \ {c} : req'[d] = req[d]
        /\ \A d \in Conv : RequestOK(req'[d])
    BY <1>2, <1>4, RequestMoves
  <1> HIDE DEF r
  <1>6. /\ given[id] = None /\ id \notin Elements(pool)
        /\ \A m \in Maker : maker[m].id # id
        /\ \A d \in Conv : req[d].cand # id
        /\ BornStayBorn /\ cstate'[id] # "unborn"
        /\ cstate' \in [Id -> {"unborn", "starting", "ready", "hung", "exited", "gone"}]
    BY <1>2, CreateFacts, FreshFacts
  <1>7. /\ given' \in [Id -> Conv \cup {None}] /\ given'[id] = c
        /\ \A x \in Id \ {id} : given'[x] = given[x]
    BY <1>2 DEF IInv, TypeOK, StoreTypeOK
  <1>8. refill' \in [Inst -> 0..MaxRefill]
    <2>1. req[c].inst \in Inst /\ ScheduleRefill(req[c].inst)
      BY <1>1 DEF Request, RequestOK, PopEmpty
    <2>2. QED
      BY <2>1, ScheduleRefillType
  <1>9. TypeOK'
    BY <1>5, <1>6, <1>7, <1>8 DEF IInv, TypeOK, StoreTypeOK, PoolTypeOK, GCTypeOK,
       PopEmpty, redisVars, gcVars
  <1>10. Controlled'
    BY <1>5 DEF IInv, Controlled, PopEmpty, gcVars
  <1>11. AllBorn'
    <2>1. \A x \in Id : given'[x] # None => cstate'[x] # "unborn"
      BY <1>6, <1>7, BornKept
    <2>2. \A d \in Conv : req'[d].cand # None => cstate'[req'[d].cand] # "unborn"
      BY <1>3, <1>5, <1>6, BornKept
    <2>3. QED
      BY <1>6, <2>1, <2>2, BornKept DEF AllBorn, Born, Elements, PopEmpty, redisVars, gcVars
  <1>12. Unassigned'
    <2>1. \A d \in Conv : Popped(d)' => d # c /\ Popped(d) /\ req'[d].cand = req[d].cand
      BY <1>3, <1>5 DEF Popped
    <2>2. \A d \in Conv \ {c} : Popped(d) => req[d].cand \in Id \ {id}
      BY <1>6, RequestFacts DEF Popped, CandPC
    <2>3. \A m \in Maker : maker[m].id # None => maker[m].id \in Id \ {id}
      BY <1>6, TaskFacts DEF TaskOK
    <2>4. Elements(pool) \subseteq Id \ {id}
      BY <1>6 DEF IInv, TypeOK, StoreTypeOK, Elements
    <2>5. QED
      BY <1>7, <2>1, <2>2, <2>3, <2>4 DEF IInv, Unassigned, PoolDistinct, PopEmpty, redisVars
  <1>13. Assigned'
    <2>1. \A d \in Conv : req[d].info # None => given'[req[d].info] = d
      BY <1>6, <1>7, RequestFacts, StoreAssumption DEF Request
    <2>2. \A d \in Conv \ {c} : req[d].cand # None /\ ~Popped(d) => given'[req[d].cand] = d
      BY <1>6, <1>7, RequestFacts, StoreAssumption DEF Request
    <2>3. QED
      BY <1>3, <1>5, <1>7, <2>1, <2>2 DEF Assigned, Popped
  <1>14. Recorded'
    <2>1. \A d \in Conv : entry[d] # None /\ entry[d].id # None => given'[entry[d].id] = d
      BY <1>6, <1>7, EntryFacts, StoreAssumption DEF Metadata
    <2>2. \A x \in Id : reverse[x] # None => given'[x] = reverse[x]
      BY <1>6, <1>7 DEF IInv, Recorded
    <2>3. QED
      BY <2>1, <2>2 DEF Recorded, PopEmpty, redisVars
  <1>15. QED
    BY <1>9, <1>10, <1>11, <1>12, <1>13, <1>14 DEF IInv

LEMMA MakerCreatesKeeps ==
    ASSUME IInv, NEW m \in Maker, MakerCreates(m), UNCHANGED <<req, gcVars>>
    PROVE  IInv'
  <1>1. maker[m] \in Task /\ TaskOK(maker[m]) /\ maker[m].pc = "check"
    BY TaskFacts DEF MakerCreates
  <1>2. PICK id \in Id :
           Create(id) /\ Proceed(m, [maker[m] EXCEPT !.pc = "wait", !.id = id])
    BY DEF MakerCreates
  <1> DEFINE t == [maker[m] EXCEPT !.pc = "wait", !.id = id]
  <1>3. t \in Task /\ t.id = id /\ TaskOK(t)
    <2>1. t \in Task
      BY <1>1 DEF Task, MakerPC
    <2>2. t.pc = "wait" /\ t.id = id /\ t.attempt = maker[m].attempt
      BY <1>1 DEF Task
    <2>3. QED
      BY <1>1, <2>1, <2>2, StoreAssumption DEF TaskOK
  <1>4. /\ maker' \in [Maker -> Task] /\ maker'[m] = t
        /\ \A n \in Maker \ {m} : maker'[n] = maker[n]
        /\ \A n \in Maker : TaskOK(maker'[n])
    BY <1>2, <1>3, TaskMoves
  <1> HIDE DEF t
  <1>5. /\ given[id] = None /\ id \notin Elements(pool)
        /\ \A n \in Maker : maker[n].id # id
        /\ \A d \in Conv : req[d].cand # id
        /\ BornStayBorn /\ cstate'[id] # "unborn"
        /\ cstate' \in [Id -> {"unborn", "starting", "ready", "hung", "exited", "gone"}]
    BY <1>2, CreateFacts, FreshFacts
  <1>6. TypeOK'
    BY <1>4, <1>5 DEF IInv, TypeOK, StoreTypeOK, PoolTypeOK, OrchestratorTypeOK, GCTypeOK,
       MakerCreates, redisVars, gcVars
  <1>7. Controlled'
    BY <1>4 DEF IInv, Controlled, gcVars
  <1>8. AllBorn'
    <2>1. \A n \in Maker : maker'[n].id # None => cstate'[maker'[n].id] # "unborn"
      BY <1>3, <1>4, <1>5, BornKept
    <2>2. QED
      BY <1>5, <2>1, BornKept DEF AllBorn, Born, Elements, MakerCreates, redisVars, gcVars
  <1>9. Unassigned'
    <2>1. \A d \in Conv : Popped(d)' <=> Popped(d)
      BY DEF Popped
    <2>2. QED
      BY <1>3, <1>4, <1>5, <2>1 DEF IInv, Unassigned, PoolDistinct, MakerCreates, redisVars
  <1>10. Assigned' /\ Recorded'
    BY DEF IInv, Assigned, Recorded, Popped, MakerCreates, redisVars
  <1>11. QED
    BY <1>6, <1>7, <1>8, <1>9, <1>10 DEF IInv

LEMMA MakerPushesKeeps ==
    ASSUME IInv, NoResend, NEW m \in Maker, MakerPushes(m), UNCHANGED <<req, gcVars>>
    PROVE  IInv'
  <1> DEFINE id == maker[m].id
  <1>1. maker[m] \in Task /\ TaskOK(maker[m]) /\ maker[m].pc = "push" /\ id \in Id /\ id # None
    BY TaskFacts, StoreAssumption DEF MakerPushes
  <1>2. pool' = Append(pool, id) /\ Proceed(m, MakerRest)
    BY DEF MakerPushes, NoResend
  <1>3. MakerRest \in Task /\ TaskOK(MakerRest) /\ MakerRest.id = None
    BY PoolAssumption DEF MakerRest, Task, MakerPC, TaskOK
  <1>4. /\ maker' \in [Maker -> Task] /\ maker'[m] = MakerRest
        /\ \A n \in Maker \ {m} : maker'[n] = maker[n]
        /\ \A n \in Maker : TaskOK(maker'[n])
    BY <1>2, <1>3, TaskMoves
  <1>5. /\ given[id] = None /\ id \notin Elements(pool)
        /\ \A n \in Maker \ {m} : maker[n].id # id
        /\ \A d \in Conv : Popped(d) => req[d].cand # id
    BY <1>1 DEF IInv, Unassigned
  <1>6. /\ pool' \in Seq(Id) /\ Elements(pool') = Elements(pool) \cup {id}
        /\ \A k, n \in 1..Len(pool') : pool'[k] = pool'[n] => k = n
    BY <1>1, <1>2, <1>5, PoolAppend
  <1> HIDE DEF id
  <1>7. TypeOK'
    BY <1>4, <1>6 DEF IInv, TypeOK, StoreTypeOK, PoolTypeOK, OrchestratorTypeOK, GCTypeOK,
       MakerPushes, gcVars
  <1>8. Controlled'
    BY <1>4 DEF IInv, Controlled, gcVars
  <1>9. AllBorn'
    <2>1. cstate[id] # "unborn"
      BY <1>1 DEF IInv, AllBorn, Born, id
    <2>2. QED
      BY <1>3, <1>4, <1>6, <2>1 DEF IInv, AllBorn, Born, MakerPushes, gcVars
  <1>10. Unassigned'
    <2>1. \A d \in Conv : (Popped(d)' <=> Popped(d)) /\ (Popped(d) => req[d].cand # None)
      BY DEF IInv, Controlled, RequestOK, CandPC, Popped
    <2>2. QED
      BY <1>3, <1>4, <1>5, <1>6, <2>1 DEF IInv, Unassigned, PoolDistinct, MakerPushes
  <1>11. Assigned' /\ Recorded'
    BY DEF IInv, Assigned, Recorded, Popped, MakerPushes
  <1>12. QED
    BY <1>7, <1>8, <1>9, <1>10, <1>11 DEF IInv

LEMMA ReplenishKeeps ==
    ASSUME IInv, NEW i \in Inst, Replenish(i), UNCHANGED <<req, gcVars>>
    PROVE  IInv'
  <1> DEFINE new == [MakerRest EXCEPT !.pc = "check", !.inst = i]
  <1>1. new \in Task /\ TaskOK(new) /\ new.id = None
    <2>1. new \in Task
      <3>1. 0 \in 0..MaxAttempts
        BY PoolAssumption
      <3>2. QED
        BY <3>1 DEF MakerRest, Task, MakerPC
    <2>2. new.pc = "check" /\ new.id = None /\ new.attempt = 0
      BY DEF MakerRest
    <2>3. QED
      BY <2>1, <2>2, PoolAssumption DEF TaskOK
  <1>2. PICK S \in SUBSET IdleMaker :
           maker' = [m \in Maker |-> IF m \in S THEN new ELSE maker[m]]
    BY DEF Replenish
  <1> HIDE DEF new
  <1>3. \A m \in Maker : maker'[m] = new \/ maker'[m] = maker[m]
    BY <1>2
  <1>4. maker' \in [Maker -> Task]
    BY <1>1, <1>2 DEF IInv, TypeOK, PoolTypeOK
  <1>5. refill' \in [Inst -> 0..MaxRefill]
    <2>1. refill[i] \in 1..MaxRefill /\ refill[i] - 1 \in 0..MaxRefill
      BY PoolAssumption DEF IInv, TypeOK, PoolTypeOK, Replenish
    <2>2. QED
      BY <2>1 DEF IInv, TypeOK, PoolTypeOK, Replenish
  <1>6. TypeOK'
    BY <1>4, <1>5 DEF IInv, TypeOK, StoreTypeOK, PoolTypeOK, OrchestratorTypeOK, GCTypeOK,
       Replenish, storeVars, gcVars
  <1>7. Controlled'
    BY <1>1, <1>3 DEF IInv, Controlled, gcVars
  <1>8. \A m \in Maker : maker'[m].id # None => maker'[m].id = maker[m].id
    BY <1>1, <1>3
  <1>9. AllBorn'
    BY <1>8 DEF IInv, AllBorn, Born, Elements, Replenish, storeVars, gcVars
  <1>10. Unassigned'
    <2>1. \A d \in Conv : (Popped(d)' <=> Popped(d)) /\ (Popped(d) => req[d].cand # None)
      BY DEF IInv, Controlled, RequestOK, CandPC, Popped
    <2>2. QED
      BY <1>8, <2>1 DEF IInv, Unassigned, PoolDistinct, Elements, Replenish, storeVars
  <1>11. Assigned' /\ Recorded'
    BY DEF IInv, Assigned, Recorded, Popped, Replenish, storeVars
  <1>12. QED
    BY <1>6, <1>7, <1>9, <1>10, <1>11 DEF IInv

-----------------------------------------------------------------------------
(* Tasks of the pool and the environment *)

LEMMA SweepKeeps ==
    ASSUME IInv, NEW i \in Inst, Sweep(i), UNCHANGED <<req, gcVars>>
    PROVE  IInv'
  <1>1. PICK id \in Id : /\ Destroy(id) \/ DestroyFails
                         /\ doomed' = [doomed EXCEPT ![i] = @ \ {id}]
    BY DEF Sweep, IInv, TypeOK, PoolTypeOK
  <1>2. /\ cstate' \in [Id -> {"unborn", "starting", "ready", "hung", "exited", "gone"}]
        /\ BornStayBorn
    BY <1>1 DEF IInv, TypeOK, StoreTypeOK, BornStayBorn, Destroy, DestroyFails
  <1>3. doomed' \in [Inst -> SUBSET Id] /\ \A j \in Inst : doomed'[j] \subseteq doomed[j]
    BY <1>1 DEF IInv, TypeOK, PoolTypeOK
  <1>4. TypeOK'
    BY <1>2, <1>3 DEF IInv, TypeOK, StoreTypeOK, PoolTypeOK, OrchestratorTypeOK, GCTypeOK,
       Sweep, redisVars, gcVars
  <1>5. Controlled'
    BY DEF IInv, Controlled, Sweep, gcVars
  <1>6. AllBorn'
    BY <1>2, <1>3, BornKept DEF AllBorn, Born, Elements, Sweep, redisVars, gcVars
  <1>7. Unassigned' /\ Assigned' /\ Recorded'
    BY DEF IInv, Unassigned, PoolDistinct, Elements, Assigned, Recorded, Popped, Sweep, redisVars
  <1>8. QED
    BY <1>4, <1>5, <1>6, <1>7 DEF IInv

LEMMA PoolInfoExpiresKeeps ==
    ASSUME IInv, NEW id \in Id, PoolInfoExpires(id), UNCHANGED <<req, gcVars>>
    PROVE  IInv'
  <1>1. TypeOK'
    BY DEF IInv, TypeOK, StoreTypeOK, PoolTypeOK, OrchestratorTypeOK, GCTypeOK,
       PoolInfoExpires, poolVars, gcVars
  <1>2. Controlled' /\ AllBorn'
    BY DEF IInv, Controlled, AllBorn, Born, Elements, PoolInfoExpires, poolVars, gcVars
  <1>3. Unassigned' /\ Assigned' /\ Recorded'
    BY DEF IInv, Unassigned, PoolDistinct, Elements, Assigned, Recorded, Popped,
       PoolInfoExpires, poolVars
  <1>4. QED
    BY <1>1, <1>2, <1>3 DEF IInv

LEMMA ContainerChangesKeeps ==
    ASSUME IInv, ContainerChanges, UNCHANGED <<poolVars, req, gcVars>>
    PROVE  IInv'
  <1>1. PICK id \in Id : AgentStarts(id) \/ AgentHangs(id) \/ ContainerExits(id)
    BY DEF ContainerChanges
  <1>2. /\ cstate' \in [Id -> {"unborn", "starting", "ready", "hung", "exited", "gone"}]
        /\ BornStayBorn
    BY <1>1 DEF IInv, TypeOK, StoreTypeOK, BornStayBorn, AgentStarts, AgentHangs, ContainerExits
  <1>3. TypeOK'
    BY <1>2 DEF IInv, TypeOK, StoreTypeOK, PoolTypeOK, OrchestratorTypeOK, GCTypeOK,
       ContainerChanges, redisVars, poolVars, gcVars
  <1>4. Controlled'
    BY DEF IInv, Controlled, poolVars, gcVars
  <1>5. AllBorn'
    BY <1>2, BornKept DEF AllBorn, Born, Elements, ContainerChanges, redisVars, poolVars, gcVars
  <1>6. Unassigned' /\ Assigned' /\ Recorded'
    BY DEF IInv, Unassigned, PoolDistinct, Elements, Assigned, Recorded, Popped,
       ContainerChanges, redisVars, poolVars
  <1>7. QED
    BY <1>3, <1>4, <1>5, <1>6 DEF IInv

LEMMA EntryExpiresKeeps ==
    ASSUME IInv, NEW c \in Conv, EntryExpires(c)
    PROVE  IInv'
  <1>1. entry' \in [Conv -> Metadata \cup {None}] /\ \A d \in Conv : entry'[d] \in {None, entry[d]}
    BY DEF IInv, TypeOK, StoreTypeOK, EntryExpires
  <1>2. TypeOK'
    BY <1>1 DEF IInv, TypeOK, StoreTypeOK, PoolTypeOK, OrchestratorTypeOK, GCTypeOK,
       EntryExpires, poolVars, gcVars
  <1>3. Controlled' /\ AllBorn'
    BY DEF IInv, Controlled, AllBorn, Born, Elements, EntryExpires, poolVars, gcVars
  <1>4. Unassigned' /\ Assigned'
    BY DEF IInv, Unassigned, PoolDistinct, Elements, Assigned, Popped, EntryExpires, poolVars
  <1>5. Recorded'
    BY <1>1 DEF IInv, Recorded, EntryExpires
  <1>6. QED
    BY <1>2, <1>3, <1>4, <1>5 DEF IInv

LEMMA ReverseExpiresKeeps ==
    ASSUME IInv, NEW id \in Id, ReverseExpires(id)
    PROVE  IInv'
  <1>1. reverse' \in [Id -> Conv \cup {None}] /\ \A x \in Id : reverse'[x] \in {None, reverse[x]}
    BY DEF IInv, TypeOK, StoreTypeOK, ReverseExpires
  <1>2. TypeOK'
    BY <1>1 DEF IInv, TypeOK, StoreTypeOK, PoolTypeOK, OrchestratorTypeOK, GCTypeOK,
       ReverseExpires, poolVars, gcVars
  <1>3. Controlled' /\ AllBorn'
    BY DEF IInv, Controlled, AllBorn, Born, Elements, ReverseExpires, poolVars, gcVars
  <1>4. Unassigned' /\ Assigned'
    BY DEF IInv, Unassigned, PoolDistinct, Elements, Assigned, Popped, ReverseExpires, poolVars
  <1>5. Recorded'
    BY <1>1 DEF IInv, Recorded, ReverseExpires
  <1>6. QED
    BY <1>2, <1>3, <1>4, <1>5 DEF IInv

LEMMA AgesKeeps ==
    ASSUME IInv, NEW id \in Id, Ages(id), UNCHANGED <<poolVars, req>>
    PROVE  IInv'
  <1>1. TypeOK'
    BY DEF IInv, TypeOK, StoreTypeOK, PoolTypeOK, OrchestratorTypeOK, GCTypeOK,
       Ages, storeVars, poolVars
  <1>2. Controlled' /\ AllBorn'
    BY DEF IInv, Controlled, AllBorn, Born, Elements, Ages, storeVars, poolVars
  <1>3. Unassigned' /\ Assigned' /\ Recorded'
    BY DEF IInv, Unassigned, PoolDistinct, Elements, Assigned, Recorded, Popped,
       Ages, storeVars, poolVars
  <1>4. QED
    BY <1>1, <1>2, <1>3 DEF IInv

LEMMA FullRefillType ==
    IF MaxRefill = 0 THEN 0 \in 0..MaxRefill ELSE 1 \in 0..MaxRefill
  BY PoolAssumption

LEMMA RestTask == MakerRest \in Task /\ TaskOK(MakerRest) /\ MakerRest.id = None
  <1>1. 0 \in 0..MaxAttempts /\ 0 < MaxAttempts
    BY PoolAssumption
  <1>2. QED
    BY <1>1 DEF MakerRest, Task, MakerPC, TaskOK

LEMMA RestCollector ==
    /\ GCRest \in Collector /\ CollectorOK(GCRest)
    /\ GCRest.todo = {} /\ GCRest.id = None /\ GCRest.victim = None
  BY DEF GCRest, Collector, GCPC, CollectorOK

\* A restart only forgets.
LEMMA RestartKeeps ==
    ASSUME IInv, NEW i \in Inst, Restart(i)
    PROVE  IInv'
  <1>1. \A c \in Conv : req'[c] = ReqRest \/ req'[c] = req[c]
    BY DEF Restart
  <1>2. \A m \in Maker : maker'[m] = MakerRest \/ maker'[m] = maker[m]
    BY DEF Restart
  <1>3. \A j \in Inst : gc'[j] = GCRest \/ gc'[j] = gc[j]
    BY DEF Restart, IInv, TypeOK, GCTypeOK
  <1>4. \A j \in Inst : doomed'[j] \subseteq doomed[j]
    BY DEF Restart, IInv, TypeOK, PoolTypeOK
  <1>5. TypeOK'
    <2>1. req' \in [Conv -> Request]
      BY RestFields DEF Restart, IInv, TypeOK, OrchestratorTypeOK
    <2>2. maker' \in [Maker -> Task]
      BY RestTask DEF Restart, IInv, TypeOK, PoolTypeOK
    <2>3. gc' \in [Inst -> Collector]
      BY RestCollector DEF Restart, IInv, TypeOK, GCTypeOK
    <2>4. refill' \in [Inst -> 0..MaxRefill]
      BY FullRefillType DEF Restart, IInv, TypeOK, PoolTypeOK
    <2>5. doomed' \in [Inst -> SUBSET Id] /\ proxies' \in [Inst -> SUBSET Id]
      BY DEF Restart, IInv, TypeOK, PoolTypeOK, StoreTypeOK
    <2>6. QED
      BY <2>1, <2>2, <2>3, <2>4, <2>5 DEF IInv, TypeOK, StoreTypeOK, PoolTypeOK,
         OrchestratorTypeOK, GCTypeOK, Restart, redisVars
  <1>6. Controlled'
    BY <1>1, <1>2, <1>3, RestFields, RestTask, RestCollector DEF IInv, Controlled
  <1>7. AllBorn'
    BY <1>1, <1>2, <1>3, <1>4, RestFields, RestTask, RestCollector
       DEF IInv, AllBorn, Born, Elements, Restart, redisVars
  <1>8. Unassigned'
    <2>1. \A c \in Conv : Popped(c)' => Popped(c) /\ req'[c].cand = req[c].cand
      BY <1>1, RestFields DEF Popped
    <2>2. \A m \in Maker : maker'[m].id # None => maker'[m].id = maker[m].id
      BY <1>2, RestTask
    <2>3. \A c \in Conv : Popped(c) => req[c].cand # None
      BY DEF IInv, Controlled, RequestOK, CandPC, Popped
    <2>4. QED
      BY <2>1, <2>2, <2>3 DEF IInv, Unassigned, PoolDistinct, Elements, Restart, redisVars
  <1>9. Assigned' /\ Recorded'
    BY <1>1, RestFields DEF IInv, Assigned, Recorded, Popped, Restart, redisVars
  <1>10. QED
    BY <1>5, <1>6, <1>7, <1>8, <1>9 DEF IInv

-----------------------------------------------------------------------------
(* The inductive invariant *)

LEMMA InitKeeps == Init => IInv
  <1> SUFFICES ASSUME Init PROVE IInv
    OBVIOUS
  <1>1. pool \in Seq(Id) /\ Len(pool) = 0 /\ Elements(pool) = {}
    BY DEF Init, StoreInit, Elements
  <1>2. /\ \A c \in Conv : req[c] = ReqRest
        /\ \A m \in Maker : maker[m] = MakerRest
        /\ \A i \in Inst : gc[i] = GCRest /\ doomed[i] = {}
    BY DEF Init, OrchestratorInit, PoolInit, GCInit
  <1>3. TypeOK
    <2>1. StoreTypeOK
      BY <1>1 DEF Init, StoreInit, StoreTypeOK
    <2>2. refill \in [Inst -> 0..MaxRefill]
      BY FullRefillType DEF Init, PoolInit
    <2>3. PoolTypeOK
      BY <2>2, RestTask DEF Init, PoolInit, PoolTypeOK
    <2>4. OrchestratorTypeOK /\ GCTypeOK
      BY RestFields, RestCollector DEF Init, OrchestratorInit, GCInit, OrchestratorTypeOK, GCTypeOK
    <2>5. QED
      BY <2>1, <2>3, <2>4 DEF TypeOK
  <1>4. Controlled
    BY <1>2, RestFields, RestTask, RestCollector DEF Controlled
  <1>5. AllBorn
    BY <1>1, <1>2, RestFields, RestTask, RestCollector DEF AllBorn, Born, Init, StoreInit
  <1>6. Unassigned
    BY <1>1, <1>2, RestFields, RestTask DEF Unassigned, PoolDistinct, Popped
  <1>7. Assigned /\ Recorded
    BY <1>2, RestFields DEF Assigned, Recorded, Init, StoreInit
  <1>8. QED
    BY <1>3, <1>4, <1>5, <1>6, <1>7 DEF IInv

LEMMA PoolNextKeeps ==
    ASSUME IInv, NoResend, PoolNext, UNCHANGED <<req, gcVars>>
    PROVE  IInv'
  <1>1. ASSUME NEW i \in Inst, Replenish(i) \/ Sweep(i)
        PROVE  IInv'
    BY <1>1, ReplenishKeeps, SweepKeeps
  <1>2. ASSUME NEW m \in Maker, MakerStep(m)
        PROVE  IInv'
    BY <1>2, MakerStopsKeeps, MakerCreatesKeeps, MakerCreateFailsKeeps, MakerSavesInfoKeeps,
       MakerGivesUpKeeps, MakerPushesKeeps, MakerRaisesKeeps DEF MakerStep
  <1>3. ASSUME NEW id \in Id, PoolInfoExpires(id)
        PROVE  IInv'
    BY <1>3, PoolInfoExpiresKeeps
  <1>4. QED
    BY <1>1, <1>2, <1>3 DEF PoolNext

LEMMA RequestNextKeeps ==
    ASSUME IInv, NoResend, RequestNext, UNCHANGED gcVars
    PROVE  IInv'
  <1>1. ASSUME NEW c \in Conv, GetOrCreate(c)
        PROVE  IInv'
    BY <1>1, LookupKeeps, CheckHealthKeeps, ReuseKeeps, PurgeKeeps, PopKeeps, PopEmptyKeeps,
       ProbeGoodKeeps, ProbeBadKeeps, ClaimKeeps, AcquireRaisesKeeps, StartProxyKeeps,
       AssignRaisesKeeps, SaveKeeps, LinkKeeps DEF GetOrCreate
  <1>2. ASSUME NEW c \in Conv, Execute(c)
        PROVE  IInv'
    BY <1>2, PrepareFailsKeeps, StartKeeps, ExecEndsKeeps, ExecFailsKeeps,
       ExecRestartsProxyKeeps, EvictKeeps, FinishKeeps DEF Execute
  <1>3. ASSUME NEW c \in Conv, NEW i \in Inst, Begin(c, i)
        PROVE  IInv'
    BY <1>3, BeginKeeps
  <1>4. ASSUME NEW c \in Conv, Cancel(c)
        PROVE  IInv'
    BY <1>4, CancelKeeps
  <1>5. QED
    BY <1>1, <1>2, <1>3, <1>4 DEF RequestNext, RequestStep

LEMMA GCStepKeeps ==
    ASSUME IInv, NEW i \in Inst, GCStep(i), UNCHANGED <<poolVars, req>>
    PROVE  IInv'
  BY StartCycleKeeps, CheckPoolKeeps, MapToConversationKeeps, DecideKeeps, CollectOrphanKeeps,
     DrainKeeps, KillKeeps, ForgetKeeps, CycleFailsKeeps DEF GCStep

LEMMA EnvironmentKeeps ==
    ASSUME IInv, Environment
    PROVE  IInv'
  BY ContainerChangesKeeps, EntryExpiresKeeps, ReverseExpiresKeeps, AgesKeeps, RestartKeeps
     DEF Environment

LEMMA StutterKeeps ==
    ASSUME IInv, UNCHANGED vars
    PROVE  IInv'
  <1>1. TypeOK'
    BY DEF IInv, TypeOK, StoreTypeOK, PoolTypeOK, OrchestratorTypeOK, GCTypeOK,
       vars, storeVars, poolVars, gcVars
  <1>2. Controlled' /\ AllBorn'
    BY DEF IInv, Controlled, AllBorn, Born, Elements, vars, storeVars, poolVars, gcVars
  <1>3. Unassigned' /\ Assigned' /\ Recorded'
    BY DEF IInv, Unassigned, PoolDistinct, Elements, Assigned, Recorded, Popped,
       vars, storeVars, poolVars
  <1>4. QED
    BY <1>1, <1>2, <1>3 DEF IInv

LEMMA StepKeepsIInv == NoResend /\ IInv /\ [Next]_vars => IInv'
  <1> SUFFICES ASSUME NoResend, IInv, [Next]_vars PROVE IInv'
    OBVIOUS
  <1>1. CASE PoolNext /\ UNCHANGED <<req, gcVars>>
    BY <1>1, PoolNextKeeps
  <1>2. CASE RequestNext /\ UNCHANGED gcVars
    BY <1>2, RequestNextKeeps
  <1>3. CASE (\E i \in Collecting : GCStep(i)) /\ UNCHANGED <<poolVars, req>>
    BY <1>3, GCStepKeeps, StackAssumption
  <1>4. CASE Environment
    BY <1>4, EnvironmentKeeps
  <1>5. CASE UNCHANGED vars
    BY <1>5, StutterKeeps
  <1>6. QED
    BY <1>1, <1>2, <1>3, <1>4, <1>5 DEF Next

\* The inductive invariant: every container is unborn, or with one creating
\* task, once in the pool or with one request, or belongs to one conversation.
THEOREM StackInvariant ==
    ASSUME NoResend
    PROVE  Spec => []IInv
  <1>1. Init => IInv
    BY InitKeeps
  <1>2. IInv /\ [Next]_vars => IInv'
    BY StepKeepsIInv
  <1>3. QED
    BY <1>1, <1>2, PTL DEF Spec

\* Every variable of the stack keeps its type.
THEOREM StackTypeCorrect ==
    ASSUME NoResend
    PROVE  Spec => []TypeOK
  <1>1. IInv => TypeOK
    BY DEF IInv
  <1>2. Spec => []IInv
    BY StackInvariant
  <1>3. QED
    BY <1>1, <1>2, PTL

-----------------------------------------------------------------------------
(* What follows from it *)

LEMMA UsesAcquired ==
    ASSUME IInv, NEW c \in Conv, NEW id \in Uses(c)
    PROVE  \/ given[id] = c
           \/ Popped(c) /\ id = req[c].cand
  <1>1. CASE id = req[c].info
    BY <1>1 DEF IInv, Assigned, Uses
  <1>2. CASE id = req[c].cand
    BY <1>2 DEF IInv, Assigned, Uses
  <1>3. CASE entry[c] # None /\ id = entry[c].id
    BY <1>3 DEF IInv, Recorded, Uses
  <1>4. CASE id \in Id /\ reverse[id] = c
    BY <1>4, StoreAssumption DEF IInv, Recorded
  <1>5. QED
    BY <1>1, <1>2, <1>3, <1>4 DEF Uses

LEMMA InvariantSeparates == IInv => NoSharedContainer
  <1> SUFFICES ASSUME IInv, NEW c \in Conv, NEW id \in Uses(c)
               PROVE  /\ id \notin Elements(pool)
                      /\ \A d \in Conv \ {c} : id \notin Uses(d)
    BY DEF NoSharedContainer
  <1>1. \A x \in Elements(pool) : given[x] = None
    BY DEF IInv, Unassigned
  <1>2. \A d \in Conv : Popped(d) => given[req[d].cand] = None /\ req[d].cand \notin Elements(pool)
    BY DEF IInv, Unassigned
  <1>3. c # None
    BY StoreAssumption
  <1>4. id \notin Elements(pool)
    BY <1>1, <1>2, <1>3, UsesAcquired
  <1>5. ASSUME NEW d \in Conv \ {c}, id \in Uses(d)
        PROVE  FALSE
    <2>1. \/ given[id] = c
          \/ Popped(c) /\ id = req[c].cand
      BY UsesAcquired
    <2>2. \/ given[id] = d
          \/ Popped(d) /\ id = req[d].cand
      BY <1>5, UsesAcquired
    <2>3. Popped(c) /\ Popped(d) => req[c].cand # req[d].cand
      BY DEF IInv, Unassigned
    <2>4. d # None
      BY StoreAssumption
    <2>5. QED
      BY <1>2, <1>3, <2>1, <2>2, <2>3, <2>4
  <1>6. QED
    BY <1>4, <1>5

\* Two conversations never have a container in common, and none of a
\* conversation's is in the pool (LPOP, create_container() and the records in
\* Redis hand a container to one request).
THEOREM StackNoSharedContainer ==
    ASSUME NoResend
    PROVE  Spec => []NoSharedContainer
  <1>1. IInv => NoSharedContainer
    BY InvariantSeparates
  <1>2. Spec => []IInv
    BY StackInvariant
  <1>3. QED
    BY <1>1, <1>2, PTL

-----------------------------------------------------------------------------
(* A container is acquired once, and the stack implements the assignment   *)

LEMMA GivenSteps ==
    ASSUME IInv, [Next]_vars
    PROVE  \/ given' = given
           \/ \E c \in Conv : Claim(c)
           \/ \E c \in Conv : PopEmpty(c)
  BY DEF Next, vars, storeVars, redisVars, PoolNext, MakerStep, Replenish, Sweep, PoolInfoExpires,
     MakerStops, MakerCreates, MakerCreateFails, MakerSavesInfo, MakerGivesUp, MakerPushes,
     MakerRaises, RequestNext, RequestStep, GetOrCreate, Execute, Begin, Lookup, CheckHealth,
     Reuse, Purge, Pop, ProbeGood, ProbeBad, AcquireRaises, StartProxy, AssignRaises, Save, Link,
     PrepareFails, Start, ExecEnds, ExecFails, ExecRestartsProxy, Evict, Finish, Cancel, GCStep,
     StartCycle, CheckPool, MapToConversation, Decide, CollectOrphan, Drain, Kill, Forget,
     CycleFails, Environment, ContainerChanges, EntryExpires, ReverseExpires, Ages, Restart

LEMMA GivenKept ==
    ASSUME IInv, [Next]_vars
    PROVE  \A id \in Id : given[id] # None => given'[id] = given[id]
  <1>1. CASE given' = given
    BY <1>1
  <1>2. ASSUME NEW c \in Conv, Claim(c)
        PROVE  \A id \in Id : given[id] # None => given'[id] = given[id]
    <2>1. given[req[c].cand] = None
      BY <1>2 DEF IInv, Unassigned, Popped, Claim, At
    <2>2. QED
      BY <1>2, <2>1 DEF Claim, IInv, TypeOK, StoreTypeOK
  <1>3. ASSUME NEW c \in Conv, PopEmpty(c)
        PROVE  \A id \in Id : given[id] # None => given'[id] = given[id]
    <2>1. PICK id \in Id : Create(id) /\ given' = [given EXCEPT ![id] = c]
      BY <1>3 DEF PopEmpty
    <2>2. given[id] = None
      BY <2>1, CreateFacts, FreshFacts
    <2>3. QED
      BY <2>1, <2>2 DEF IInv, TypeOK, StoreTypeOK
  <1>4. QED
    BY <1>1, <1>2, <1>3, GivenSteps

\* A container that worked for a conversation never passes to another one,
\* whatever becomes of its metadata.
THEOREM StackGivenOnce ==
    ASSUME NoResend
    PROVE  Spec => GivenOnce
  <1>1. IInv /\ [Next]_vars => [\A id \in Id : given[id] # None => given'[id] = given[id]]_vars
    BY GivenKept
  <1>2. Spec => []IInv
    BY StackInvariant
  <1>3. QED
    BY <1>1, <1>2, PTL DEF Spec, GivenOnce

\* The phase of a container in the abstract assignment.
PhaseOf(id) == IF cstate[id] = "unborn" THEN "unborn"
               ELSE IF cstate[id] = "gone" THEN "gone"
               ELSE IF given[id] # None THEN given[id] ELSE "spare"

Phases == [id \in Id |-> PhaseOf(id)]

\* What happens to the containers in one step.
DockerStep ==
    \/ UNCHANGED <<cstate, given>>
    \/ \E id \in Id : Create(id) /\ given' = given
    \/ \E id \in Id : Destroy(id) /\ cstate[id] # "unborn" /\ given' = given
    \/ \E id \in Id, after \in {"ready", "hung", "exited"} :
          /\ cstate[id] # "gone"
          /\ cstate[id] = "unborn" => after = "exited"
          /\ cstate' = [cstate EXCEPT ![id] = after] /\ given' = given
    \/ \E c \in Conv : \E id \in Id :
          /\ given[id] = None /\ cstate[id] # "unborn"
          /\ given' = [given EXCEPT ![id] = c] /\ cstate' = cstate
    \/ \E c \in Conv : \E id \in Id : Create(id) /\ given' = [given EXCEPT ![id] = c]

LEMMA DestroyStep ==
    ASSUME IInv, NEW id \in Id, Born(id), Destroy(id) \/ DestroyFails, given' = given
    PROVE  DockerStep
  BY StoreAssumption DEF DockerStep, Born, Destroy, DestroyFails

LEMMA CreateFailsStep ==
    ASSUME CreateFails, given' = given
    PROVE  DockerStep
  BY DEF DockerStep, CreateFails

LEMMA PoolDockerStep ==
    ASSUME IInv, PoolNext
    PROVE  DockerStep
  <1>1. ASSUME NEW i \in Inst, Replenish(i)
        PROVE  DockerStep
    BY <1>1 DEF Replenish, storeVars, DockerStep
  <1>2. ASSUME NEW i \in Inst, Sweep(i)
        PROVE  DockerStep
    BY <1>2, DestroyStep DEF Sweep, IInv, TypeOK, PoolTypeOK, AllBorn
  <1>3. ASSUME NEW m \in Maker, MakerStep(m)
        PROVE  DockerStep
    <2>1. CASE MakerStops(m) \/ MakerSavesInfo(m) \/ MakerPushes(m) \/ MakerRaises(m)
      BY <2>1 DEF MakerStops, MakerSavesInfo, MakerPushes, MakerRaises, storeVars, DockerStep
    <2>2. CASE MakerCreates(m)
      BY <2>2 DEF MakerCreates, DockerStep
    <2>3. CASE MakerCreateFails(m)
      BY <2>3, CreateFailsStep DEF MakerCreateFails
    <2>4. CASE MakerGivesUp(m)
      <3>1. maker[m].id \in Id /\ Born(maker[m].id)
        BY <2>4, TaskFacts DEF MakerGivesUp, IInv, AllBorn
      <3>2. QED
        BY <2>4, <3>1, DestroyStep DEF MakerGivesUp
    <2>5. QED
      BY <1>3, <2>1, <2>2, <2>3, <2>4 DEF MakerStep
  <1>4. ASSUME NEW id \in Id, PoolInfoExpires(id)
        PROVE  DockerStep
    BY <1>4 DEF PoolInfoExpires, DockerStep
  <1>5. QED
    BY <1>1, <1>2, <1>3, <1>4 DEF PoolNext

LEMMA RequestDockerStep ==
    ASSUME IInv, NEW c \in Conv, RequestStep(c)
    PROVE  DockerStep
  <1>1. CASE \/ Lookup(c) \/ CheckHealth(c) \/ Reuse(c) \/ Pop(c) \/ ProbeGood(c) \/ ProbeBad(c)
             \/ StartProxy(c) \/ AssignRaises(c) \/ Save(c) \/ Link(c)
    BY <1>1 DEF Lookup, CheckHealth, Reuse, Pop, ProbeGood, ProbeBad, StartProxy, AssignRaises,
       Save, Link, storeVars, DockerStep
  <1>2. CASE \/ PrepareFails(c) \/ Start(c) \/ ExecEnds(c) \/ ExecFails(c)
             \/ ExecRestartsProxy(c) \/ Finish(c)
    BY <1>2 DEF PrepareFails, Start, ExecEnds, ExecFails, ExecRestartsProxy, Finish,
       storeVars, DockerStep
  <1>3. CASE Purge(c)
    <2>1. req[c].cand \in Id /\ Born(req[c].cand)
      BY <1>3, RequestFacts DEF Purge, At, CandPC, IInv, AllBorn
    <2>2. QED
      BY <1>3, <2>1, DestroyStep DEF Purge, StopAndDestroy
  <1>4. CASE Evict(c)
    <2>1. req[c].info \in Id /\ req[c].info # None /\ given[req[c].info] = c
      BY <1>4, RequestFacts DEF Evict, At, InfoPC, RequestOK, Request
    <2>2. Born(req[c].info)
      BY <2>1, StoreAssumption DEF IInv, AllBorn
    <2>3. QED
      BY <1>4, <2>1, <2>2, DestroyStep DEF Evict, StopAndDestroy
  <1>5. CASE Claim(c)
    <2>1. req[c].cand \in Id /\ Born(req[c].cand) /\ given[req[c].cand] = None
      BY <1>5, RequestFacts DEF Claim, At, CandPC, IInv, AllBorn, Unassigned, Popped
    <2>2. QED
      BY <1>5, <2>1, StoreAssumption DEF Claim, Born, DockerStep
  <1>6. CASE PopEmpty(c)
    BY <1>6 DEF PopEmpty, DockerStep
  <1>7. CASE AcquireRaises(c)
    BY <1>7, CreateFailsStep DEF AcquireRaises
  <1>8. QED
    BY <1>1, <1>2, <1>3, <1>4, <1>5, <1>6, <1>7 DEF RequestStep, GetOrCreate, Execute

LEMMA CollectorDockerStep ==
    ASSUME IInv, NEW i \in Inst, GCStep(i)
    PROVE  DockerStep
  <1>1. CASE \/ StartCycle(i) \/ CheckPool(i) \/ MapToConversation(i) \/ Decide(i)
             \/ Drain(i) \/ Forget(i) \/ CycleFails(i)
    BY <1>1 DEF StartCycle, CheckPool, MapToConversation, Decide, Drain, Forget, CycleFails,
       storeVars, DockerStep
  <1>2. CASE CollectOrphan(i)
    <2>1. gc[i].id \in Id /\ Born(gc[i].id)
      BY <1>2, CollectorFacts DEF CollectOrphan, IInv, AllBorn
    <2>2. QED
      BY <1>2, <2>1, DestroyStep DEF CollectOrphan
  <1>3. CASE Kill(i)
    <2>1. gc[i].victim \in Id /\ Born(gc[i].victim)
      BY <1>3, CollectorFacts DEF Kill, IInv, AllBorn
    <2>2. QED
      BY <1>3, <2>1, DestroyStep DEF Kill
  <1>4. QED
    BY <1>1, <1>2, <1>3 DEF GCStep

LEMMA EnvironmentDockerStep ==
    ASSUME Environment
    PROVE  DockerStep
  <1>1. CASE ContainerChanges
    <2>1. PICK id \in Id : AgentStarts(id) \/ AgentHangs(id) \/ ContainerExits(id)
      BY <1>1 DEF ContainerChanges
    <2>2. given' = given
      BY <1>1 DEF ContainerChanges
    <2>3. QED
      BY <2>1, <2>2 DEF AgentStarts, AgentHangs, ContainerExits, Running, DockerStep
  <1>2. CASE ~ContainerChanges
    BY <1>2 DEF Environment, EntryExpires, ReverseExpires, Ages, Restart, storeVars, DockerStep
  <1>3. QED
    BY <1>1, <1>2

LEMMA NextDockerStep == IInv /\ [Next]_vars => DockerStep
  <1> SUFFICES ASSUME IInv, [Next]_vars PROVE DockerStep
    OBVIOUS
  <1>1. CASE PoolNext
    BY <1>1, PoolDockerStep
  <1>2. CASE RequestNext
    <2>1. ASSUME NEW c \in Conv, NEW i \in Inst, Begin(c, i)
          PROVE  DockerStep
      BY <2>1 DEF Begin, storeVars, DockerStep
    <2>2. ASSUME NEW c \in Conv, Cancel(c)
          PROVE  DockerStep
      BY <2>2 DEF Cancel, DockerStep
    <2>3. QED
      BY <1>2, <2>1, <2>2, RequestDockerStep DEF RequestNext
  <1>3. CASE \E i \in Collecting : GCStep(i)
    BY <1>3, StackAssumption, CollectorDockerStep
  <1>4. CASE Environment
    BY <1>4, EnvironmentDockerStep
  <1>5. CASE UNCHANGED vars
    BY <1>5 DEF vars, storeVars, DockerStep
  <1>6. QED
    BY <1>1, <1>2, <1>3, <1>4, <1>5 DEF Next

LEMMA OnePhase ==
    ASSUME IInv, DockerStep
    PROVE  \/ Phases' = Phases
           \/ \E id \in Id : \E after \in Conv \cup {"spare", "gone"} :
                /\ Phases' = [Phases EXCEPT ![id] = after]
                /\ \/ Phases[id] = "unborn" /\ after # "gone"
                   \/ Phases[id] = "spare" /\ after \in Conv
                   \/ Phases[id] \in Conv \cup {"spare"} /\ after = "gone"
  <1> DEFINE Goal == \/ Phases' = Phases
                     \/ \E id \in Id : \E after \in Conv \cup {"spare", "gone"} :
                          /\ Phases' = [Phases EXCEPT ![id] = after]
                          /\ \/ Phases[id] = "unborn" /\ after # "gone"
                             \/ Phases[id] = "spare" /\ after \in Conv
                             \/ Phases[id] \in Conv \cup {"spare"} /\ after = "gone"
  <1>1. /\ cstate \in [Id -> {"unborn", "starting", "ready", "hung", "exited", "gone"}]
        /\ given \in [Id -> Conv \cup {None}]
        /\ \A id \in Id : cstate[id] = "unborn" => given[id] = None
    BY StoreAssumption DEF IInv, TypeOK, StoreTypeOK, AllBorn, Born
  <1>2. {"unborn", "spare", "gone"} \cap Conv = {} /\ None \notin Conv
    BY StoreAssumption
  <1>3. "spare" \in Conv \cup {"spare", "gone"} /\ "spare" # "gone"
    OBVIOUS
  <1>4. CASE UNCHANGED <<cstate, given>>
    <2>1. Phases' = Phases
      BY <1>4 DEF Phases, PhaseOf
    <2>2. QED
      BY <2>1
  <1>5. ASSUME NEW id \in Id, Create(id), given' = given
        PROVE  Goal
    <2>1. Phases[id] = "unborn" /\ Phases' = [Phases EXCEPT ![id] = "spare"]
      BY <1>1, <1>5 DEF Create, Phases, PhaseOf
    <2>2. QED
      BY <1>3, <2>1, Zenon
  <1>6. ASSUME NEW id \in Id, Destroy(id), cstate[id] # "unborn", given' = given
        PROVE  Goal
    <2>1. Phases' = [Phases EXCEPT ![id] = "gone"]
      BY <1>1, <1>6 DEF Destroy, Phases, PhaseOf
    <2>2. CASE cstate[id] = "gone"
      <3>1. Phases[id] = "gone"
        BY <2>2 DEF Phases, PhaseOf
      <3>2. Phases' = Phases
        BY <2>1, <3>1 DEF Phases
      <3>3. QED
        BY <3>2
    <2>3. CASE cstate[id] # "gone"
      <3>1. Phases[id] \in Conv \cup {"spare"}
        BY <1>1, <1>6, <2>3 DEF Phases, PhaseOf
      <3>2. QED
        BY <2>1, <3>1
    <2>4. QED
      BY <2>2, <2>3
  <1>7. ASSUME NEW id \in Id, NEW after \in {"ready", "hung", "exited"},
               cstate[id] # "gone", cstate[id] = "unborn" => after = "exited",
               cstate' = [cstate EXCEPT ![id] = after], given' = given
        PROVE  Goal
    <2>1. CASE cstate[id] = "unborn"
      <3>1. Phases[id] = "unborn" /\ Phases' = [Phases EXCEPT ![id] = "spare"]
        BY <1>1, <1>7, <2>1 DEF Phases, PhaseOf
      <3>2. QED
        BY <1>3, <3>1, Zenon
    <2>2. CASE cstate[id] # "unborn"
      <3>1. Phases' = Phases
        BY <1>1, <1>7, <2>2 DEF Phases, PhaseOf
      <3>2. QED
        BY <3>1
    <2>3. QED
      BY <2>1, <2>2
  <1>8. ASSUME NEW c \in Conv, NEW id \in Id, given[id] = None, cstate[id] # "unborn",
               given' = [given EXCEPT ![id] = c], cstate' = cstate
        PROVE  Goal
    <2>1. CASE cstate[id] = "gone"
      <3>1. Phases' = Phases
        BY <1>1, <1>8, <2>1 DEF Phases, PhaseOf
      <3>2. QED
        BY <3>1
    <2>2. CASE cstate[id] # "gone"
      <3>1. Phases[id] = "spare" /\ Phases' = [Phases EXCEPT ![id] = c]
        BY <1>1, <1>2, <1>8, <2>2 DEF Phases, PhaseOf
      <3>2. QED
        BY <3>1
    <2>3. QED
      BY <2>1, <2>2
  <1>9. ASSUME NEW c \in Conv, NEW id \in Id, Create(id), given' = [given EXCEPT ![id] = c]
        PROVE  Goal
    <2>1. Phases[id] = "unborn" /\ Phases' = [Phases EXCEPT ![id] = c]
      BY <1>1, <1>2, <1>9 DEF Create, Phases, PhaseOf
    <2>2. QED
      BY <1>2, <2>1
  <1>10. QED
    BY <1>4, <1>5, <1>6, <1>7, <1>8, <1>9 DEF DockerStep

LEMMA AssignmentInit == Init => Assignment!Init
  BY DEF Init, StoreInit, Assignment!Init

LEMMA AssignmentStep == IInv /\ [Next]_vars => Assignment!Next \/ Phases' = Phases
  <1> SUFFICES ASSUME IInv, [Next]_vars, Phases' # Phases PROVE Assignment!Next
    OBVIOUS
  <1>1. PICK id \in Id, after \in Conv \cup {"spare", "gone"} :
           /\ Phases' = [Phases EXCEPT ![id] = after]
           /\ \/ Phases[id] = "unborn" /\ after # "gone"
              \/ Phases[id] = "spare" /\ after \in Conv
              \/ Phases[id] \in Conv \cup {"spare"} /\ after = "gone"
    BY NextDockerStep, OnePhase
  <1>2. \A before : Phases[id] \in before => Assignment!Become(id, before, after)
    BY <1>1 DEF Assignment!Become, Phases, PhaseOf
  <1>3. QED
    BY <1>1, <1>2 DEF Assignment!Next

\* The stack implements the abstract assignment: every container is born,
\* given to at most one conversation and destroyed, in that order.
THEOREM StackImplementsAssignment ==
    ASSUME NoResend
    PROVE  Spec => ImplementsAssignment
  <1>1. Init => Assignment!Init
    BY AssignmentInit
  <1>2. IInv /\ [Next]_vars => [Assignment!Next]_Phases
    BY AssignmentStep
  <1>3. Spec => []IInv
    BY StackInvariant
  <1>4. QED
    BY <1>1, <1>2, <1>3, PTL DEF Spec, ImplementsAssignment, Assignment!Spec, Phases, PhaseOf

-----------------------------------------------------------------------------
(* The size of the pool.  A container counts from the check that let its   *)
(* task create it; Redis is not assumed to work, nor processes to live.    *)

InFlight == {m \in Maker : maker[m].pc \in {"wait", "push"}}

\* Steps that take the pool and the tasks nowhere: nothing joins either.
Shrinks == Len(pool') <= Len(pool) /\ InFlight' \subseteq InFlight

LEMMA ShrinkKeepsOvershoot ==
    ASSUME IsFiniteSet(Maker), IInv, IInv', PoolOvershoot, Shrinks
    PROVE  PoolOvershoot'
  <1>1. IsFiniteSet(InFlight) /\ IsFiniteSet(InFlight')
    BY FS_Subset DEF InFlight
  <1>2. Cardinality(InFlight') <= Cardinality(InFlight)
    BY <1>1, FS_Subset DEF Shrinks
  <1>3. /\ Cardinality(InFlight) \in Nat /\ Cardinality(InFlight') \in Nat
        /\ Cardinality(Maker) \in Nat
    BY <1>1, FS_CardinalityType
  <1>4. Len(pool) \in Nat /\ Len(pool') \in Nat
    BY DEF IInv, TypeOK, StoreTypeOK
  <1>5. Len(pool) + Cardinality(InFlight) <= MaxSize - 1 + Cardinality(Maker)
    BY DEF PoolOvershoot, InFlight
  <1>6. Len(pool') + Cardinality(InFlight') <= MaxSize - 1 + Cardinality(Maker)
    BY <1>2, <1>3, <1>4, <1>5, PoolAssumption DEF Shrinks
  <1>7. QED
    BY <1>6 DEF PoolOvershoot, InFlight

\* The check has just seen room, and no more tasks can be in flight than there are.
LEMMA CreateKeepsOvershoot ==
    ASSUME IsFiniteSet(Maker), IInv, NEW m \in Maker, MakerCreates(m)
    PROVE  PoolOvershoot'
  <1>1. pool' = pool /\ Len(pool) < MaxSize
    BY DEF MakerCreates, redisVars
  <1>2. InFlight' \subseteq Maker
    BY DEF InFlight
  <1>3. /\ Cardinality(InFlight') <= Cardinality(Maker)
        /\ Cardinality(InFlight') \in Nat /\ Cardinality(Maker) \in Nat
    BY <1>2, FS_Subset, FS_CardinalityType
  <1>4. Len(pool) \in Nat
    BY DEF IInv, TypeOK, StoreTypeOK
  <1>5. Len(pool') + Cardinality(InFlight') <= MaxSize - 1 + Cardinality(Maker)
    BY <1>1, <1>3, <1>4, PoolAssumption
  <1>6. QED
    BY <1>5 DEF PoolOvershoot, InFlight

\* The container leaves its task for the pool.
LEMMA PushKeepsOvershoot ==
    ASSUME IsFiniteSet(Maker), NoResend, IInv, PoolOvershoot, NEW m \in Maker, MakerPushes(m)
    PROVE  PoolOvershoot'
  <1>1. pool' = Append(pool, maker[m].id) /\ maker[m].pc = "push" /\ Proceed(m, MakerRest)
    BY DEF MakerPushes, NoResend
  <1>2. pool \in Seq(Id) /\ maker[m].id \in Id /\ maker \in [Maker -> Task]
    <2>1. pool \in Seq(Id) /\ maker \in [Maker -> Task]
      BY DEF IInv, TypeOK, StoreTypeOK, PoolTypeOK
    <2>2. maker[m].id \in Id \cup {None} /\ maker[m].id # None
      BY <1>1, <2>1 DEF IInv, Controlled, TaskOK, Task
    <2>3. QED
      BY <2>1, <2>2
  <1>3. Len(pool') = Len(pool) + 1 /\ Len(pool) \in Nat
    BY <1>1, <1>2
  <1>4. m \in InFlight /\ InFlight' = InFlight \ {m}
    <2>1. /\ maker'[m].pc = "idle"
          /\ \A n \in Maker \ {m} : maker'[n] = maker[n]
      BY <1>1, <1>2 DEF Proceed, MakerRest
    <2>2. QED
      BY <1>1, <2>1 DEF InFlight
  <1>5. /\ Cardinality(InFlight') = Cardinality(InFlight) - 1
        /\ Cardinality(InFlight) \in Nat /\ Cardinality(Maker) \in Nat
    <2>1. IsFiniteSet(InFlight)
      BY FS_Subset DEF InFlight
    <2>2. Cardinality(InFlight \ {m}) = Cardinality(InFlight) - 1
      BY <1>4, <2>1, FS_RemoveElement
    <2>3. QED
      BY <1>4, <2>1, <2>2, FS_CardinalityType
  <1>6. Len(pool) + Cardinality(InFlight) <= MaxSize - 1 + Cardinality(Maker)
    BY DEF PoolOvershoot, InFlight
  <1>7. Len(pool') + Cardinality(InFlight') <= MaxSize - 1 + Cardinality(Maker)
    BY <1>3, <1>5, <1>6, PoolAssumption
  <1>8. QED
    BY <1>7 DEF PoolOvershoot, InFlight

\* Every other step of a task leaves the pool alone and puts nothing in flight.
LEMMA TaskShrinks ==
    ASSUME IInv, NEW m \in Maker,
           MakerStops(m) \/ MakerCreateFails(m) \/ MakerSavesInfo(m) \/ MakerGivesUp(m)
             \/ MakerRaises(m)
    PROVE  Shrinks
  <1>1. maker \in [Maker -> Task] /\ Len(pool) \in Nat
    BY DEF IInv, TypeOK, PoolTypeOK, StoreTypeOK
  <1>2. pool' = pool
    BY DEF MakerStops, MakerCreateFails, MakerSavesInfo, MakerGivesUp, MakerRaises,
       storeVars, redisVars
  <1>3. PICK t : Proceed(m, t) /\ ((t.pc \in {"idle", "check"}) \/ maker[m].pc = "wait")
    <2>1. \A task \in Task : Retried(task).pc \in {"idle", "check"}
      BY DEF Retried, Task, MakerRest
    <2>2. maker[m] \in Task /\ MakerRest.pc = "idle"
      BY <1>1 DEF MakerRest
    <2>3. CASE MakerStops(m)
      BY <2>2, <2>3 DEF MakerStops
    <2>4. CASE MakerCreateFails(m)
      BY <2>1, <2>2, <2>4 DEF MakerCreateFails
    <2>5. CASE MakerSavesInfo(m)
      BY <2>5 DEF MakerSavesInfo
    <2>6. CASE MakerGivesUp(m)
      BY <2>1, <2>2, <2>6 DEF MakerGivesUp
    <2>7. CASE MakerRaises(m)
      BY <2>1, <2>2, <2>7 DEF MakerRaises
    <2>8. QED
      BY <2>3, <2>4, <2>5, <2>6, <2>7
  <1>4. maker'[m] = t /\ \A n \in Maker \ {m} : maker'[n] = maker[n]
    BY <1>1, <1>3 DEF Proceed
  <1>5. InFlight' \subseteq InFlight
    BY <1>3, <1>4 DEF InFlight
  <1>6. QED
    BY <1>1, <1>2, <1>5 DEF Shrinks

LEMMA ReplenishShrinks ==
    ASSUME IInv, NEW i \in Inst, Replenish(i) \/ Sweep(i)
    PROVE  Shrinks
  <1>1. pool' = pool /\ Len(pool) \in Nat
    BY DEF Replenish, Sweep, storeVars, redisVars, IInv, TypeOK, StoreTypeOK
  <1>2. InFlight' \subseteq InFlight
    <2>1. CASE Replenish(i)
      <3>1. PICK S \in SUBSET IdleMaker :
              maker' = [n \in Maker |-> IF n \in S
                          THEN [MakerRest EXCEPT !.pc = "check", !.inst = i] ELSE maker[n]]
        BY <2>1 DEF Replenish
      <3>2. \A n \in Maker : maker'[n].pc = "check" \/ maker'[n] = maker[n]
        BY <3>1 DEF MakerRest
      <3>3. QED
        BY <3>2 DEF InFlight
    <2>2. CASE Sweep(i)
      BY <2>2 DEF Sweep, InFlight
    <2>3. QED
      BY <2>1, <2>2
  <1>3. QED
    BY <1>1, <1>2 DEF Shrinks

\* Requests only take containers off the pool.
LEMMA RequestPool ==
    ASSUME NoResend, RequestNext
    PROVE  maker' = maker /\ (pool' = pool \/ (pool # <<>> /\ pool' = Tail(pool)))
  <1>1. ASSUME NEW c \in Conv, GetOrCreate(c)
        PROVE  maker' = maker /\ (pool' = pool \/ (pool # <<>> /\ pool' = Tail(pool)))
    <2>1. CASE \/ Lookup(c) \/ CheckHealth(c) \/ Reuse(c) \/ Purge(c) \/ ProbeGood(c)
               \/ ProbeBad(c) \/ Claim(c)
      BY <2>1 DEF Lookup, CheckHealth, Reuse, Purge, ProbeGood, ProbeBad, Claim,
         storeVars, redisVars, poolVars
    <2>2. CASE Pop(c)
      BY <2>2 DEF Pop, NoResend, poolVars
    <2>3. CASE \/ PopEmpty(c) \/ AcquireRaises(c) \/ StartProxy(c) \/ AssignRaises(c)
               \/ Save(c) \/ Link(c)
      BY <2>3 DEF PopEmpty, AcquireRaises, StartProxy, AssignRaises, Save, Link,
         storeVars, redisVars, poolVars
    <2>4. QED
      BY <1>1, <2>1, <2>2, <2>3 DEF GetOrCreate
  <1>2. ASSUME NEW c \in Conv, Execute(c)
        PROVE  maker' = maker /\ pool' = pool
    BY <1>2 DEF Execute, PrepareFails, Start, ExecEnds, ExecFails, ExecRestartsProxy, Evict,
       Finish, storeVars, redisVars, poolVars
  <1>3. ASSUME NEW c \in Conv, Cancel(c) \/ \E i \in Inst : Begin(c, i)
        PROVE  maker' = maker /\ pool' = pool
    BY <1>3 DEF Cancel, Begin, storeVars, poolVars
  <1>4. QED
    BY <1>1, <1>2, <1>3 DEF RequestNext, RequestStep

LEMMA OtherShrinks ==
    ASSUME IInv, NoResend,
           \/ RequestNext
           \/ (\E i \in Collecting : GCStep(i)) /\ UNCHANGED poolVars
           \/ Environment
           \/ \E id \in Id : PoolInfoExpires(id)
           \/ UNCHANGED vars
    PROVE  Shrinks
  <1>1. pool \in Seq(Id) /\ Len(pool) \in Nat
    BY DEF IInv, TypeOK, StoreTypeOK
  <1>2. pool # <<>> => Len(Tail(pool)) <= Len(pool)
    BY <1>1
  <1>3. maker' = maker => InFlight' = InFlight
    BY DEF InFlight
  <1>4. CASE RequestNext
    BY <1>1, <1>2, <1>3, <1>4, RequestPool DEF Shrinks
  <1>5. CASE (\E i \in Collecting : GCStep(i)) /\ UNCHANGED poolVars
    <2>1. pool' = pool
      BY <1>5 DEF GCStep, StartCycle, CheckPool, MapToConversation, Decide, CollectOrphan,
         Drain, Kill, Forget, CycleFails, storeVars, redisVars
    <2>2. QED
      BY <1>1, <1>3, <1>5, <2>1 DEF Shrinks, poolVars
  <1>6. CASE Environment
    <2>1. pool' = pool
      BY <1>6 DEF Environment, ContainerChanges, EntryExpires, ReverseExpires, Ages, Restart,
         storeVars, redisVars
    <2>2. InFlight' \subseteq InFlight
      <3>1. maker' = maker \/ \E i \in Inst : Restart(i)
        BY <1>6 DEF Environment, EntryExpires, ReverseExpires, poolVars
      <3>2. ASSUME NEW i \in Inst, Restart(i)
            PROVE  InFlight' \subseteq InFlight
        <4>1. \A m \in Maker : maker'[m].pc = "idle" \/ maker'[m] = maker[m]
          BY <3>2 DEF Restart, MakerRest
        <4>2. QED
          BY <4>1 DEF InFlight
      <3>3. QED
        BY <1>3, <3>1, <3>2
    <2>3. QED
      BY <1>1, <2>1, <2>2 DEF Shrinks
  <1>7. CASE (\E id \in Id : PoolInfoExpires(id)) \/ UNCHANGED vars
    BY <1>1, <1>3, <1>7 DEF Shrinks, PoolInfoExpires, vars, storeVars, poolVars
  <1>8. QED
    BY <1>4, <1>5, <1>6, <1>7

LEMMA StepKeepsOvershoot ==
    ASSUME IsFiniteSet(Maker), NoResend, IInv, IInv', PoolOvershoot, [Next]_vars
    PROVE  PoolOvershoot'
  <1>1. CASE PoolNext
    <2>1. ASSUME NEW m \in Maker, MakerStep(m)
          PROVE  PoolOvershoot'
      BY <2>1, CreateKeepsOvershoot, PushKeepsOvershoot, TaskShrinks, ShrinkKeepsOvershoot
         DEF MakerStep
    <2>2. ASSUME NEW i \in Inst, Replenish(i) \/ Sweep(i)
          PROVE  PoolOvershoot'
      BY <2>2, ReplenishShrinks, ShrinkKeepsOvershoot
    <2>3. CASE \E id \in Id : PoolInfoExpires(id)
      BY <2>3, OtherShrinks, ShrinkKeepsOvershoot
    <2>4. QED
      BY <1>1, <2>1, <2>2, <2>3 DEF PoolNext
  <1>2. CASE ~PoolNext
    <2>1. \/ RequestNext
          \/ (\E i \in Collecting : GCStep(i)) /\ UNCHANGED poolVars
          \/ Environment
          \/ UNCHANGED vars
      BY <1>2 DEF Next
    <2>2. QED
      BY <2>1, OtherShrinks, ShrinkKeepsOvershoot
  <1>3. QED
    BY <1>1, <1>2

\* The pool exceeds its maximum at most by the tasks that are creating at
\* once, less one: LLEN and RPUSH are apart, but each task checks before.
THEOREM StackPoolOvershoot ==
    ASSUME NoResend, IsFiniteSet(Maker)
    PROVE  Spec => []PoolOvershoot
  <1>1. Init => PoolOvershoot
    <2> SUFFICES ASSUME Init PROVE PoolOvershoot
      OBVIOUS
    <2>1. Len(pool) = 0 /\ \A m \in Maker : maker[m].pc = "idle"
      BY DEF Init, StoreInit, PoolInit, MakerRest
    <2>2. Cardinality({m \in Maker : maker[m].pc \in {"wait", "push"}}) = 0
      <3>1. {m \in Maker : maker[m].pc \in {"wait", "push"}} = {}
        BY <2>1
      <3>2. QED
        BY <3>1, FS_EmptySet
    <2>3. Cardinality(Maker) \in Nat
      BY FS_CardinalityType
    <2>4. QED
      BY <2>1, <2>2, <2>3, PoolAssumption DEF PoolOvershoot
  <1>2. IInv /\ IInv' /\ PoolOvershoot /\ [Next]_vars => PoolOvershoot'
    BY StepKeepsOvershoot
  <1>3. Spec => []IInv
    BY StackInvariant
  <1>4. QED
    BY <1>1, <1>2, <1>3, PTL DEF Spec
=============================================================================
