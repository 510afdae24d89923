----------------------- MODULE ConversationTurnProofs -----------------------
(***************************************************************************)
(* The conversation lock, for any number of calls and resources and any    *)
(* TTLs: type correctness, mutual exclusion of live holders, the key never *)
(* freed by anybody but its owner, and the refinement of Lease.  Then the  *)
(* turns of one conversation that hold it, for any number of turns, any    *)
(* TTLs, timeouts and context limit: types, mutual exclusion of working    *)
(* turns, the order of the message log, and the serial history of the      *)
(* database.                                                               *)
(***************************************************************************)
EXTENDS ConversationTurn, FiniteSetTheorems, TLAPS

-----------------------------------------------------------------------------
(* The lock *)

\* A key exists as long as it has time to live, belongs to a call for that
\* resource which has started, and a live holder that has not lapsed owns it.
LockInv ==
    /\ LockTypeOK
    /\ \A r \in Resource : token[r] # None => ttl[r] > 0
    /\ \A c \in Call : \A r \in Resource :
          token[r] = c => ResourceOf[c] = r /\ state[c] # "idle"
    /\ \A c \in Call : state[c] = "held" /\ c \notin lapsed => Owns(c)

LEMMA LockInitInv == LockInit => LockInv
  BY LockAssumption DEF LockInit, LockInv, LockTypeOK, CallState, Owns

LEMMA LockStepInv == LockInv /\ [LockNext]_lockVars => LockInv'
  <1> SUFFICES ASSUME LockInv, [LockNext]_lockVars
               PROVE  LockInv'
    OBVIOUS
  <1> USE LockAssumption DEF LockInv, LockTypeOK, CallState, Owns
  <1>1. CASE Tick
    BY <1>1 DEF Tick
  <1>2. ASSUME NEW c \in Call, BeginAcquire(c)
        PROVE  LockInv'
    BY <1>2 DEF BeginAcquire
  <1>3. ASSUME NEW c \in Call, AcquireSet(c)
        PROVE  LockInv'
    BY <1>3 DEF AcquireSet
  <1>4. ASSUME NEW c \in Call, AcquireBusy(c)
        PROVE  LockInv'
    BY <1>4 DEF AcquireBusy
  <1>5. ASSUME NEW c \in Call, AcquireReplyLost(c)
        PROVE  LockInv'
    BY <1>5 DEF AcquireReplyLost
  <1>6. ASSUME NEW c \in Call, AcquireFails(c)
        PROVE  LockInv'
    BY <1>6 DEF AcquireFails
  <1>7. ASSUME NEW c \in Call, Extend(c)
        PROVE  LockInv'
    BY <1>7 DEF Extend
  <1>8. ASSUME NEW c \in Call, Release(c)
        PROVE  LockInv'
    BY <1>8 DEF Release
  <1>9. ASSUME NEW c \in Call, ReleaseFails(c)
        PROVE  LockInv'
    BY <1>9 DEF ReleaseFails
  <1>10. ASSUME NEW c \in Call, Crash(c)
         PROVE  LockInv'
    BY <1>10 DEF Crash
  <1>11. CASE UNCHANGED lockVars
    BY <1>11 DEF lockVars
  <1>12. QED
    BY <1>1, <1>2, <1>3, <1>4, <1>5, <1>6, <1>7, <1>8, <1>9, <1>10, <1>11
       DEF LockNext, LockStep

LEMMA LockInvariant == LockSpec => []LockInv
  <1>1. LockInit => LockInv
    BY LockInitInv
  <1>2. LockInv /\ [LockNext]_lockVars => LockInv'
    BY LockStepInv
  <1>3. QED
    BY <1>1, <1>2, PTL DEF LockSpec

\* The variables of the lock manager keep their types.
THEOREM LockTypeCorrect == LockSpec => []LockTypeOK
  <1>1. LockInv => LockTypeOK
    BY DEF LockInv
  <1>2. QED
    BY <1>1, LockInvariant, PTL

\* Of two calls that believe they own one resource's lock, one has outlived
\* its TTL (acquire() with SET NX, release() and extend() with the token).
THEOREM LockMutualExclusion == LockSpec => []MutualExclusion
  <1>1. LockInv => MutualExclusion
    BY DEF LockInv, MutualExclusion, Owns
  <1>2. QED
    BY <1>1, LockInvariant, PTL

\* Only the owner's release() and the end of the TTL free a key.
THEOREM LockOnlyOwnerFreesKey == LockSpec => OnlyOwnerFreesKey
  <1> DEFINE FreedByOwner ==
        \A r \in Resource : \A c \in Call :
          token[r] = c /\ token'[r] # c =>
             /\ token'[r] = None
             /\ ttl[r] = 1 \/ (state[c] = "held" /\ state'[c] = "released")
  <1>1. LockInv /\ [LockNext]_lockVars => [FreedByOwner]_lockVars
    <2> SUFFICES ASSUME LockInv, LockNext
                 PROVE  FreedByOwner
      OBVIOUS
    <2> USE LockAssumption DEF LockInv, LockTypeOK, CallState, Owns
    <2>1. CASE Tick
      BY <2>1 DEF Tick
    <2>2. ASSUME NEW d \in Call, Release(d)
          PROVE  FreedByOwner
      BY <2>2 DEF Release
    <2>3. ASSUME NEW d \in Call, AcquireSet(d) \/ AcquireReplyLost(d)
          PROVE  FreedByOwner
      BY <2>3 DEF AcquireSet, AcquireReplyLost
    <2>4. ASSUME NEW d \in Call,
                 BeginAcquire(d) \/ AcquireBusy(d) \/ AcquireFails(d)
                   \/ Extend(d) \/ ReleaseFails(d) \/ Crash(d)
          PROVE  FreedByOwner
      BY <2>4 DEF BeginAcquire, AcquireBusy, AcquireFails, Extend, ReleaseFails, Crash
    <2>5. QED
      BY <2>1, <2>2, <2>3, <2>4 DEF LockNext, LockStep
  <1>2. QED
    BY <1>1, LockInvariant, PTL DEF LockSpec, OnlyOwnerFreesKey

\* A step that gives a key more time is a step of its live holder, or the key
\* has no owner before it.
LEMMA GainStep ==
    ASSUME LockInv, [LockNext]_lockVars,
           NEW r \in Resource, NEW c \in Call, token[r] = c, state[c] # "held"
    PROVE  ttl'[r] <= ttl[r]
  <1>1. /\ token \in [Resource -> Call \cup {None}] /\ ttl \in [Resource -> Nat]
        /\ None \notin Call /\ ResourceOf \in [Call -> Resource]
    BY LockAssumption DEF LockInv, LockTypeOK
  <1>2. CASE Tick
    BY <1>1, <1>2 DEF Tick
  <1>3. ASSUME NEW d \in Call, AcquireSet(d) \/ AcquireReplyLost(d)
        PROVE  ttl'[r] <= ttl[r]
    BY <1>1, <1>3 DEF AcquireSet, AcquireReplyLost
  <1>4. ASSUME NEW d \in Call, Extend(d) \/ Release(d)
        PROVE  ttl'[r] <= ttl[r]
    <2>1. ResourceOf[d] = r /\ Owns(d) => d = c
      BY <1>1 DEF Owns
    <2>2. ResourceOf[d] # r \/ ~Owns(d)
      BY <1>4, <2>1 DEF Extend, Release
    <2>3. ttl'[r] = ttl[r]
      BY <1>1, <1>4, <2>2 DEF Extend, Release
    <2>4. QED
      BY <1>1, <2>3
  <1>5. ASSUME NEW d \in Call,
               BeginAcquire(d) \/ AcquireBusy(d) \/ AcquireFails(d)
                 \/ ReleaseFails(d) \/ Crash(d)
        PROVE  ttl'[r] <= ttl[r]
    BY <1>1, <1>5 DEF BeginAcquire, AcquireBusy, AcquireFails, ReleaseFails, Crash
  <1>6. CASE UNCHANGED lockVars
    BY <1>1, <1>6 DEF lockVars
  <1>7. QED
    BY <1>2, <1>3, <1>4, <1>5, <1>6 DEF LockNext, LockStep

\* extend() by anybody but the live holder buys no time.
THEOREM LockOnlyHolderGainsTime == LockSpec => OnlyHolderGainsTime
  <1> DEFINE Gains ==
        \A r \in Resource : \A c \in Call :
          token[r] = c /\ state[c] # "held" => ttl'[r] <= ttl[r]
  <1>1. LockInv /\ [LockNext]_lockVars => [Gains]_lockVars
    BY GainStep
  <1>2. QED
    BY <1>1, LockInvariant, PTL DEF LockSpec, OnlyHolderGainsTime

-----------------------------------------------------------------------------
(* Refinement of Lease *)

\* Calls that have had their stretch or never will (the mapping of spent).
Spent == {c \in Call : state[c] \notin {"idle", "trying"} \/ Owns(c)}

LEMMA LeaseInit == LockInit => LeaseView!Init
  BY LockAssumption DEF LockInit, LeaseView!Init, Owns

LEMMA LeaseStep == LockInv /\ [LockNext]_lockVars => [LeaseView!Next]_<<token, Spent>>
  <1> SUFFICES ASSUME LockInv, [LockNext]_lockVars
               PROVE  LeaseView!Next \/ (UNCHANGED token /\ Spent' = Spent)
    OBVIOUS
  <1> USE LockAssumption DEF LockInv, LockTypeOK, CallState
  <1>0. LeaseView!Next <=>
        \/ \E c \in Call : LeaseView!Grant(c) \/ LeaseView!Forgo(c)
        \/ \E S \in SUBSET Call : LeaseView!End(S)
    BY DEF LeaseView!Next
  <1>1. CASE Tick
    <2> DEFINE S == {c \in Call : Owns(c) /\ ttl[ResourceOf[c]] = 1}
    <2>1. token' = [r \in Resource |-> IF token[r] \in S THEN None ELSE token[r]]
      BY <1>1 DEF Tick, Owns
    <2>2. Spent' = Spent
      BY <1>1 DEF Tick, Owns, Spent
    <2>3. CASE S = {}
      BY <2>1, <2>2, <2>3
    <2>4. CASE S # {}
      <3>1. LeaseView!End(S)
        BY <2>1, <2>2, <2>4 DEF LeaseView!End, Owns, Spent
      <3>2. S \in SUBSET Call
        OBVIOUS
      <3>3. QED
        BY <1>0, <3>1, <3>2, Zenon
    <2>5. QED
      BY <2>3, <2>4
  <1>2. ASSUME NEW c \in Call, AcquireSet(c) \/ AcquireReplyLost(c)
        PROVE  LeaseView!Grant(c)
    <2>1. c \notin Spent /\ token[ResourceOf[c]] = None
      BY <1>2 DEF AcquireSet, AcquireReplyLost, Owns, Spent
    <2>2. token' = [token EXCEPT ![ResourceOf[c]] = c]
      BY <1>2 DEF AcquireSet, AcquireReplyLost
    <2>3. Spent' = Spent \cup {c}
      BY <1>2, <2>1, <2>2 DEF AcquireSet, AcquireReplyLost, Owns, Spent
    <2>4. QED
      BY <2>1, <2>2, <2>3 DEF LeaseView!Grant, Spent, Owns
  <1>3. ASSUME NEW c \in Call, AcquireFails(c) \/ Crash(c)
        PROVE  LeaseView!Forgo(c) \/ (UNCHANGED token /\ Spent' = Spent)
    <2>1. token' = token /\ Spent' = Spent \cup {c}
      BY <1>3 DEF AcquireFails, Crash, Owns, Spent
    <2>2. CASE c \in Spent
      BY <2>1, <2>2
    <2>3. CASE c \notin Spent
      BY <2>1, <2>3 DEF LeaseView!Forgo, Spent, Owns
    <2>4. QED
      BY <2>2, <2>3
  <1>4. ASSUME NEW c \in Call, Release(c)
        PROVE  LeaseView!End({c}) \/ (UNCHANGED token /\ Spent' = Spent)
    <2>1. CASE Owns(c)
      <3>1. token' = [r \in Resource |-> IF token[r] \in {c} THEN None ELSE token[r]]
        BY <1>4, <2>1 DEF Release, Owns
      <3>2. Spent' = Spent
        BY <1>4, <2>1 DEF Release, Owns, Spent
      <3>3. QED
        BY <2>1, <3>1, <3>2 DEF LeaseView!End, Owns, Spent
    <2>2. CASE ~Owns(c)
      BY <1>4, <2>2 DEF Release, Owns, Spent
    <2>3. QED
      BY <2>1, <2>2
  <1>5. ASSUME NEW c \in Call,
               BeginAcquire(c) \/ AcquireBusy(c) \/ Extend(c) \/ ReleaseFails(c)
        PROVE  UNCHANGED token /\ Spent' = Spent
    BY <1>5 DEF BeginAcquire, AcquireBusy, Extend, ReleaseFails, Owns, Spent
  <1>6. CASE UNCHANGED lockVars
    BY <1>6 DEF lockVars, Owns, Spent
  <1>7. \A c \in Call : {c} \in SUBSET Call
    OBVIOUS
  <1>8. ASSUME NEW c \in Call, LockStep(c)
        PROVE  LeaseView!Next \/ (UNCHANGED token /\ Spent' = Spent)
    <2>1. CASE AcquireSet(c) \/ AcquireReplyLost(c)
      BY <1>0, <1>2, <2>1, Zenon
    <2>2. CASE AcquireFails(c) \/ Crash(c)
      BY <1>0, <1>3, <2>2, Zenon
    <2>3. CASE Release(c)
      BY <1>0, <1>4, <1>7, <2>3, Zenon
    <2>4. CASE BeginAcquire(c) \/ AcquireBusy(c) \/ Extend(c) \/ ReleaseFails(c)
      BY <1>5, <2>4, Zenon
    <2>5. QED
      BY <1>8, <2>1, <2>2, <2>3, <2>4, Zenon DEF LockStep
  <1>9. QED
    BY <1>1, <1>6, <1>8, Zenon DEF LockNext

\* The Redis lock implements the abstract lease: the key's value is the
\* owner, and no call ever gets a second stretch of ownership.
THEOREM LockImplementsLease == LockSpec => ImplementsLease
  <1>1. LockInit => LeaseView!Init
    BY LeaseInit
  <1>2. LockInv /\ [LockNext]_lockVars => [LeaseView!Next]_LeaseView!leaseVars
    BY LeaseStep DEF LeaseView!leaseVars, Spent
  <1>3. QED
    BY <1>1, <1>2, LockInvariant, PTL DEF LockSpec, ImplementsLease, LeaseView!Spec

-----------------------------------------------------------------------------
(* A turn uses the lock as DistributedLock allows *)

LEMMA TurnInitLock == Init => LockInit
  BY DEF Init

LEMMA TurnStepOwnLock ==
  ASSUME NEW t \in Turn,
         \/ TurnStep(t) \/ IdleTimeout(t) \/ GeneratorFails(t)
         \/ Disconnect(t) \/ Die(t)
  PROVE  LockStep(t) \/ UNCHANGED lockVars
  <1>1. CASE CheckContext(t) \/ Granted(t) \/ Waits(t) \/ Locked(t)
    BY <1>1 DEF CheckContext, Granted, Waits, Locked, LockStep
  <1>2. CASE StreamEvent(t) \/ StreamDone(t) \/ StreamBreaks(t)
    BY <1>2 DEF StreamEvent, StreamDone, StreamBreaks, Renew, LockStep
  <1>3. CASE SaveUserMessage(t) \/ Prepare(t) \/ RecordUsage(t)
               \/ RecordFails(t) \/ NothingToRecord(t)
               \/ SaveAnswer(t) \/ TurnRaises(t)
    BY <1>3 DEF SaveUserMessage, Prepare, RecordUsage, RecordFails,
                NothingToRecord, SaveAnswer, TurnRaises
  <1>4. CASE Finally(t)
    BY <1>4 DEF Finally, ReleaseLock, Commit, Rollback, LockStep
  <1>5. CASE IdleTimeout(t) \/ GeneratorFails(t) \/ Disconnect(t) \/ Die(t)
    BY <1>5 DEF IdleTimeout, GeneratorFails, Cancelled, Disconnect, Die, LockStep
  <1>6. QED
    BY <1>1, <1>2, <1>3, <1>4, <1>5 DEF TurnStep, Work

LEMMA TurnStepLock == [Next]_vars => [LockNext]_lockVars
  <1> SUFFICES ASSUME [Next]_vars
               PROVE  LockNext \/ UNCHANGED lockVars
    OBVIOUS
  <1>1. CASE Clock
    BY <1>1 DEF Clock, LockNext
  <1>2. CASE UNCHANGED vars
    BY <1>2 DEF vars
  <1>3. QED
    BY <1>1, <1>2, TurnStepOwnLock DEF Next, LockNext, Turn

LEMMA TurnLockInvariant == Spec => []LockInv
  BY TurnInitLock, TurnStepLock, LockInvariant, PTL DEF Spec, LockSpec

\* However the steps of turns are mixed with crashes, lost replies and expiry, no
\* key gains time but by its live holder: every step of a turn is a step of the
\* lock or leaves the lock alone.
THEOREM TurnOnlyHolderGainsTime == Spec => OnlyHolderGainsTime
  BY TurnInitLock, TurnStepLock, LockOnlyHolderGainsTime, PTL DEF Spec, LockSpec

\* So the conversations, locked and unlocked by whole turns, are leases: one
\* holder at a time, who loses a lease only by its end or by letting go.
THEOREM TurnImplementsLease == Spec => ImplementsLease
  BY TurnInitLock, TurnStepLock, LockImplementsLease, PTL DEF Spec, LockSpec

-----------------------------------------------------------------------------
(* One turn works at a time *)

\* A turn that works, or is about to give the lock back, is a live holder.
TurnHolds ==
    /\ pc \in [Turn -> PC]
    /\ \A t \in Turn : Working(t) \/ pc[t] = "release" => state[t] = "held"

LEMMA TurnHoldsInit == Init => TurnHolds
  BY DEF Init, LockInit, TurnHolds, Working, EmptyRow, PC

LEMMA TurnHoldsStep == LockInv /\ TurnHolds /\ [Next]_vars => TurnHolds'
  <1> SUFFICES ASSUME LockInv, TurnHolds, [Next]_vars
               PROVE  TurnHolds'
    OBVIOUS
  <1> USE DEF Turn, TurnHolds, PC, Working, GoTo, Leave, LockInv, LockTypeOK
  <1>1. CASE Clock
    BY <1>1 DEF Clock, Tick, lockVars
  <1>2. ASSUME NEW t \in Turn, TurnStep(t)
        PROVE  TurnHolds'
    <2>1. CASE CheckContext(t)
      BY <2>1 DEF CheckContext, BeginAcquire, lockVars
    <2>2. CASE Granted(t)
      BY <2>2 DEF Granted, AcquireSet
    <2>3. CASE Waits(t)
      BY <2>3 DEF Waits, AcquireBusy, AcquireReplyLost, turnVars
    <2>4. CASE Locked(t)
      BY <2>4 DEF Locked, AcquireFails
    <2>5. CASE StreamEvent(t)
      BY <2>5 DEF StreamEvent, Renew, Extend, lockVars
    <2>6. CASE StreamDone(t)
      <3>1. pc' = [pc EXCEPT ![t] = "post"] /\ pc[t] = "stream" /\ Renew(t)
        BY <2>6 DEF StreamDone
      <3>2. QED
        BY <3>1 DEF Renew, Extend, lockVars
    <2>7. CASE StreamBreaks(t)
      BY <2>7 DEF StreamBreaks, Renew, Extend, lockVars
    <2>8. CASE SaveUserMessage(t) \/ Prepare(t) \/ RecordFails(t)
                 \/ NothingToRecord(t) \/ SaveAnswer(t) \/ TurnRaises(t)
      BY <2>8 DEF SaveUserMessage, Prepare, RecordFails, NothingToRecord,
                  SaveAnswer, TurnRaises, Raises, lockVars
    <2>9. CASE RecordUsage(t)
      <3>1. /\ pc' = [pc EXCEPT ![t] = "answer"]
            /\ pc[t] = "post"
            /\ UNCHANGED lockVars
        BY <2>9 DEF RecordUsage
      <3>2. QED
        BY <3>1 DEF lockVars
    <2>10. CASE ReleaseLock(t)
      BY <2>10 DEF ReleaseLock, Release, ReleaseFails
    <2>11. CASE Commit(t) \/ Rollback(t)
      BY <2>11 DEF Commit, Rollback, lockVars
    <2>12. QED
      BY <1>2, <2>1, <2>2, <2>3, <2>4, <2>5, <2>6, <2>7, <2>8, <2>9, <2>10, <2>11
         DEF TurnStep, Work, Finally
  <1>3. ASSUME NEW t \in Turn, IdleTimeout(t) \/ GeneratorFails(t)
        PROVE  TurnHolds'
    BY <1>3 DEF IdleTimeout, GeneratorFails, Cancelled, Crash, lockVars
  <1>4. ASSUME NEW t \in Turn, Disconnect(t) \/ Die(t)
        PROVE  TurnHolds'
    BY <1>4 DEF Disconnect, Die, Crash, lockVars
  <1>5. CASE UNCHANGED vars
    BY <1>5 DEF vars, turnVars, lockVars
  <1>6. QED
    BY <1>1, <1>2, <1>3, <1>4, <1>5 DEF Next

LEMMA TurnHoldsInvariant == Spec => []TurnHolds
  BY TurnHoldsInit, TurnHoldsStep, TurnLockInvariant, PTL DEF Spec

\* Of two turns that work, one has outlived its lease.
THEOREM TurnOneWorks == Spec => []OneTurnWorks
  <1>1. LockInv /\ TurnHolds => OneTurnWorks
    BY TurnAssumption DEF LockInv, TurnHolds, OneTurnWorks, Owns, Turn
  <1>2. QED
    BY <1>1, TurnHoldsInvariant, TurnLockInvariant, PTL

-----------------------------------------------------------------------------
(* Types *)

\* A non-empty set of numbers with a bound has a greatest element.
LEMMA MaxExists ==
  ASSUME NEW S \in SUBSET Nat, S # {}, NEW n \in Nat, \A k \in S : k <= n
  PROVE  \E m \in S : \A k \in S : k <= m
  <1> DEFINE B == {b \in Nat : \A k \in S : k <= b}
             R == {ss \in Nat \X Nat : ss[1] < ss[2]}
  <1>1. IsWellFoundedOn(R, Nat)
    BY NatLessThanWellFounded DEF OpToRel
  <1>2. B \subseteq Nat /\ B # {}
    OBVIOUS
  <1>3. \E x \in B : \A y \in B : ~(<<y, x>> \in R)
    <2> HIDE DEF R, B
    <2> QED
      BY <1>1, <1>2, WFMin, Zenon
  <1>4. PICK x \in B : \A y \in B : ~(<<y, x>> \in R)
    BY <1>3
  <1>5. \A y \in B : ~(y < x)
    BY <1>4
  <1>6. x \in S
    <2> SUFFICES ASSUME x \notin S
                 PROVE  FALSE
      OBVIOUS
    <2>1. PICK k \in S : TRUE
      OBVIOUS
    <2>2. x - 1 \in B
      BY <2>1
    <2>3. QED
      BY <2>2, <1>5
  <1>7. QED
    BY <1>6

\* NextSeq(t) is greater than every sequence number that t can see.
LEMMA NextSeqIsNext ==
  ASSUME NEW t \in Turn, NEW n \in Nat,
         log \subseteq Message, drafts[t] \subseteq Message,
         \A m \in log \cup drafts[t] : m.seq <= n
  PROVE  /\ NextSeq(t) \in Nat
         /\ \A m \in log \cup drafts[t] : m.seq < NextSeq(t)
         /\ NextSeq(t) = 1 \/ \E m \in log \cup drafts[t] : NextSeq(t) = m.seq + 1
  <1> DEFINE seqs == {m.seq : m \in log \cup drafts[t]}
             max == CHOOSE k \in seqs : \A j \in seqs : j <= k
  <1>1. NextSeq(t) = IF seqs = {} THEN 1 ELSE 1 + max
    BY DEF NextSeq
  <1>2. seqs \in SUBSET Nat /\ \A k \in seqs : k <= n
    BY DEF Message
  <1>3. CASE seqs = {}
    BY <1>1, <1>3
  <1>4. CASE seqs # {}
    <2>1. \E k \in seqs : \A j \in seqs : j <= k
      <3> HIDE DEF seqs
      <3> QED
        BY <1>2, <1>4, MaxExists
    <2>2. max \in seqs /\ \A j \in seqs : j <= max
      <3> HIDE DEF seqs
      <3> QED
        BY <2>1
    <2> HIDE DEF max
    <2>3. NextSeq(t) = 1 + max /\ max \in Nat
      BY <1>1, <1>2, <1>4, <2>2
    <2>4. \A m \in log \cup drafts[t] : m.seq \in seqs
      OBVIOUS
    <2>5. PICK q \in log \cup drafts[t] : q.seq = max
      BY <2>2
    <2> HIDE DEF seqs
    <2>6. \A m \in log \cup drafts[t] : m.seq \in Nat /\ m.seq <= max
      BY <1>2, <2>2, <2>4
    <2>7. \A m \in log \cup drafts[t] : m.seq < NextSeq(t)
      BY <2>3, <2>6
    <2>8. QED
      BY <2>3, <2>5, <2>7
  <1>5. QED
    BY <1>3, <1>4

\* Facts about rows that the provers need spelled out.
LEMMA RowTitled ==
  ASSUME NEW r \in Row
  PROVE  /\ [r EXCEPT !.titled = TRUE] \in Row
         /\ [r EXCEPT !.titled = TRUE].tokens = r.tokens
         /\ [r EXCEPT !.titled = TRUE].limit = r.limit
         /\ [r EXCEPT !.titled = TRUE].session = r.session
  BY DEF Row

LEMMA RowCounted ==
  ASSUME NEW r \in Row, NEW n \in Nat, NEW b \in BOOLEAN, NEW t \in Turn
  PROVE  LET s == [r EXCEPT !.tokens = n, !.limit = b, !.session = t] IN
         s \in Row /\ s.tokens = n /\ s.limit = b /\ s.session = t
  BY DEF Row

LEMMA RowRefreshed ==
  ASSUME NEW t \in Turn, row \in Row, loaded[t] \in Row
  PROVE  LET s == Refreshed(t) IN
         /\ s \in Row
         /\ s.tokens = IF "tokens" \in dirty[t] THEN loaded[t].tokens ELSE row.tokens
         /\ s.limit = IF "limit" \in dirty[t] THEN loaded[t].limit ELSE row.limit
         /\ s.session = IF "session" \in dirty[t] THEN loaded[t].session ELSE row.session
  BY DEF Row, Column, Refreshed

\* The types in three parts: flags, clocks, data with a bound on its numbers.
FlagsOK ==
    /\ pc \in [Turn -> PC]
    /\ ok \in [Turn -> BOOLEAN]
    /\ watched \in [Turn -> BOOLEAN]
    /\ done \in [Turn -> BOOLEAN]
    /\ due \in [Turn -> BOOLEAN]
    /\ renewal \in [Turn -> {"none", "done"}]
    /\ overlap \in BOOLEAN

ClocksOK == silent \in [Turn -> 0..EventTimeout]

DataOK ==
    /\ log \subseteq Message
    /\ usage \subseteq Turn
    /\ drafts \in [Turn -> SUBSET Message]
    /\ row \in Row
    /\ loaded \in [Turn -> Row]
    /\ dirty \in [Turn -> SUBSET Column]
    /\ \A t \in Turn : \E n \in Nat : \A m \in log \cup drafts[t] : m.seq <= n

TurnTypeInv == FlagsOK /\ ClocksOK /\ DataOK

LEMMA TurnTypeInit == Init => TurnTypeInv
  <1> SUFFICES ASSUME Init
               PROVE  TurnTypeInv
    OBVIOUS
  <1>1. EmptyRow \in Row
    BY DEF EmptyRow, Row
  <1>2. FlagsOK
    BY DEF Init, FlagsOK, PC
  <1>3. ClocksOK
    BY TurnAssumption DEF Init, ClocksOK
  <1>4. DataOK
    BY <1>1 DEF Init, DataOK
  <1>5. QED
    BY <1>2, <1>3, <1>4 DEF TurnTypeInv

LEMMA FlagsStep == FlagsOK /\ [Next]_vars => FlagsOK'
  <1> SUFFICES ASSUME FlagsOK, [Next]_vars
               PROVE  FlagsOK'
    OBVIOUS
  <1> USE DEF FlagsOK, PC, GoTo, Leave, Raises, Speaks, clientVars, renewVars
  <1>1. CASE Clock
    BY <1>1 DEF Clock
  <1>2. ASSUME NEW t \in Turn, CheckContext(t) \/ Granted(t) \/ Locked(t)
        PROVE  FlagsOK'
    BY <1>2 DEF CheckContext, Granted, Locked
  <1>3. ASSUME NEW t \in Turn, Waits(t)
        PROVE  FlagsOK'
    BY <1>3 DEF Waits, turnVars
  <1>4. ASSUME NEW t \in Turn, SaveUserMessage(t) \/ Prepare(t)
        PROVE  FlagsOK'
    BY <1>4 DEF SaveUserMessage, Prepare
  <1>5. ASSUME NEW t \in Turn, StreamEvent(t) \/ StreamBreaks(t)
        PROVE  FlagsOK'
    BY <1>5 DEF StreamEvent, StreamBreaks, Renew
  <1>6. ASSUME NEW t \in Turn, StreamDone(t)
        PROVE  FlagsOK'
    <2>1. /\ pc' = [pc EXCEPT ![t] = "post"]
          /\ done' = [done EXCEPT ![t] = TRUE]
          /\ Renew(t)
          /\ UNCHANGED <<ok, watched, overlap>>
      BY <1>6 DEF StreamDone
    <2>2. QED
      BY <2>1 DEF Renew
  <1>7. ASSUME NEW t \in Turn, RecordUsage(t)
        PROVE  FlagsOK'
    <2>1. /\ pc' = [pc EXCEPT ![t] = "answer"]
          /\ UNCHANGED <<ok, done, watched, due, renewal, overlap>>
      BY <1>7 DEF RecordUsage
    <2>2. QED
      BY <2>1
  <1>8. ASSUME NEW t \in Turn, RecordFails(t) \/ NothingToRecord(t)
        PROVE  FlagsOK'
    BY <1>8 DEF RecordFails, NothingToRecord
  <1>9. ASSUME NEW t \in Turn, SaveAnswer(t) \/ TurnRaises(t)
        PROVE  FlagsOK'
    BY <1>9 DEF SaveAnswer, TurnRaises
  <1>10. ASSUME NEW t \in Turn, Finally(t)
         PROVE  FlagsOK'
    BY <1>10 DEF Finally, ReleaseLock, Commit, Rollback
  <1>11. ASSUME NEW t \in Turn, IdleTimeout(t) \/ GeneratorFails(t)
         PROVE  FlagsOK'
    BY <1>11 DEF IdleTimeout, GeneratorFails, Cancelled
  <1>12. ASSUME NEW t \in Turn, Disconnect(t) \/ Die(t)
         PROVE  FlagsOK'
    BY <1>12 DEF Disconnect, Die
  <1>13. CASE UNCHANGED vars
    BY <1>13 DEF vars, turnVars
  <1>14. QED
    BY <1>1, <1>2, <1>3, <1>4, <1>5, <1>6, <1>7, <1>8, <1>9, <1>10, <1>11,
       <1>12, <1>13
       DEF Next, TurnStep, Work

LEMMA ClocksStep == ClocksOK /\ FlagsOK /\ [Next]_vars => ClocksOK'
  <1> SUFFICES ASSUME ClocksOK, FlagsOK, [Next]_vars
               PROVE  ClocksOK'
    OBVIOUS
  <1>1. CASE Clock
    <2>1. ASSUME NEW t \in Turn
          PROVE  (IF Open(t) /\ (watched[t] \/ pc[t] = "stream")
                  THEN silent[t] + 1 ELSE silent[t]) \in 0..EventTimeout
      BY <1>1, TurnAssumption DEF Clock, ClocksOK
    <2>2. QED
      BY <1>1, <2>1 DEF Clock, ClocksOK
  <1>2. ASSUME NEW t \in Turn,
               silent' = silent \/ silent' = [silent EXCEPT ![t] = 0]
        PROVE  ClocksOK'
    BY <1>2, TurnAssumption DEF ClocksOK
  <1> USE DEF ClocksOK, GoTo, Leave, Raises, Speaks, clientVars
  <1>3. ASSUME NEW t \in Turn, CheckContext(t) \/ Granted(t) \/ Waits(t) \/ Locked(t)
        PROVE  silent' = silent \/ silent' = [silent EXCEPT ![t] = 0]
    BY <1>3 DEF CheckContext, Granted, Waits, Locked, turnVars
  <1>4. ASSUME NEW t \in Turn,
               SaveUserMessage(t) \/ Prepare(t) \/ StreamEvent(t) \/ StreamBreaks(t)
        PROVE  silent' = [silent EXCEPT ![t] = 0]
    BY <1>4 DEF SaveUserMessage, Prepare, StreamEvent, StreamBreaks
  <1>5. ASSUME NEW t \in Turn, StreamDone(t)
        PROVE  silent' = [silent EXCEPT ![t] = 0]
    BY <1>5, Zenon DEF StreamDone
  <1>6. ASSUME NEW t \in Turn, RecordUsage(t)
        PROVE  silent' = silent
    BY <1>6, Zenon DEF RecordUsage
  <1>7. ASSUME NEW t \in Turn,
               RecordFails(t) \/ NothingToRecord(t) \/ SaveAnswer(t) \/ TurnRaises(t)
        PROVE  silent' = silent \/ silent' = [silent EXCEPT ![t] = 0]
    BY <1>7 DEF RecordFails, NothingToRecord, SaveAnswer, TurnRaises
  <1>8. ASSUME NEW t \in Turn, Finally(t)
        PROVE  silent' = silent \/ silent' = [silent EXCEPT ![t] = 0]
    BY <1>8 DEF Finally, ReleaseLock, Commit, Rollback
  <1>9. ASSUME NEW t \in Turn,
               IdleTimeout(t) \/ GeneratorFails(t) \/ Disconnect(t) \/ Die(t)
        PROVE  silent' = silent \/ silent' = [silent EXCEPT ![t] = 0]
    BY <1>9 DEF IdleTimeout, GeneratorFails, Cancelled, Disconnect, Die
  <1>10. CASE UNCHANGED vars
    BY <1>10 DEF vars, turnVars
  <1>11. QED
    BY <1>1, <1>2, <1>3, <1>4, <1>5, <1>6, <1>7, <1>8, <1>9, <1>10
       DEF Next, TurnStep, Work

-----------------------------------------------------------------------------
(* What a step does to the database and to the session *)

\* Steps of t that touch neither, other than getting the lock.
Moves(t) ==
    /\ UNCHANGED <<dbVars, sessionVars, overlap>>
    /\ \E where \in PC :
          /\ pc' = [pc EXCEPT ![t] = where]
          /\ \/ pc[t] = "check" /\ where = "acquire"
             \/ pc[t] = "stream" /\ where = "post"
             \/ pc[t] = "post" /\ where = "answer"
             \/ Working(t) /\ where = "release"
             \/ pc[t] = "release" /\ where = "end"

\* t gets the lock.
Enters(t) ==
    /\ pc[t] = "acquire" /\ pc' = [pc EXCEPT ![t] = "user"]
    /\ overlap' = (overlap \/ \E u \in Turn \ {t} : Open(u))
    /\ UNCHANGED <<dbVars, sessionVars>>

\* t ends and its transaction is rolled back.
Drops(t) ==
    /\ pc' = [pc EXCEPT ![t] = "ended"]
    /\ drafts' = [drafts EXCEPT ![t] = {}]
    /\ loaded' = [loaded EXCEPT ![t] = EmptyRow]
    /\ dirty' = [dirty EXCEPT ![t] = {}]
    /\ UNCHANGED <<dbVars, overlap>>

\* t writes a message.
Writes(t) ==
    /\ \/ /\ pc[t] = "user" /\ pc' = [pc EXCEPT ![t] = "prepare"]
          /\ Draft(t, "user")
       \/ /\ pc[t] = "answer" /\ pc' = [pc EXCEPT ![t] = "release"]
          /\ Draft(t, "assistant")
    /\ UNCHANGED <<dbVars, loaded, dirty, overlap>>

\* t loads the row.
Loads(t) ==
    /\ pc[t] = "prepare" /\ pc' = [pc EXCEPT ![t] = "stream"]
    /\ loaded' = [loaded EXCEPT ![t] = row]
    /\ UNCHANGED <<dbVars, drafts, dirty, overlap>>

\* t writes the title.
Titles(t) ==
    /\ pc[t] = "stream" /\ pc' = [pc EXCEPT ![t] = "post"]
    /\ loaded' = [loaded EXCEPT ![t] = [Refreshed(t) EXCEPT !.titled = TRUE]]
    /\ dirty' = [dirty EXCEPT ![t] = {"titled"}]
    /\ UNCHANGED <<dbVars, drafts, overlap>>

LEMMA TurnStepEffect ==
  ASSUME FlagsOK, [Next]_vars
  PROVE  \/ UNCHANGED <<pc, dbVars, sessionVars, overlap>>
         \/ \E t \in Turn :
               \/ Moves(t) \/ Enters(t) \/ Drops(t) \/ Writes(t)
               \/ Loads(t) \/ Titles(t) \/ RecordUsage(t) \/ Commit(t)
  <1> DEFINE Same == UNCHANGED <<pc, dbVars, sessionVars, overlap>>
  <1> USE DEF FlagsOK, PC, GoTo, Leave, Raises
  <1>1. CASE Clock
    BY <1>1 DEF Clock
  <1>2. ASSUME NEW t \in Turn, CheckContext(t) \/ Locked(t)
        PROVE  Moves(t) \/ Drops(t)
    BY <1>2 DEF CheckContext, Locked, Moves, Drops, sessionVars
  <1>3. ASSUME NEW t \in Turn, Granted(t) \/ Waits(t)
        PROVE  Enters(t) \/ Same
    BY <1>3 DEF Granted, Waits, Enters, turnVars
  <1>4. ASSUME NEW t \in Turn, SaveUserMessage(t) \/ Prepare(t)
        PROVE  Writes(t) \/ Loads(t)
    BY <1>4 DEF SaveUserMessage, Prepare, Writes, Loads
  <1>5. ASSUME NEW t \in Turn, StreamEvent(t) \/ StreamBreaks(t)
        PROVE  Moves(t) \/ Same
    BY <1>5 DEF StreamEvent, StreamBreaks, Moves, sessionVars
  <1>6. ASSUME NEW t \in Turn, StreamDone(t)
        PROVE  Moves(t) \/ Titles(t)
    <2>1. /\ pc[t] = "stream" /\ pc' = [pc EXCEPT ![t] = "post"]
          /\ UNCHANGED <<dbVars, drafts, overlap>>
          /\ \/ UNCHANGED <<loaded, dirty>>
             \/ /\ loaded' = [loaded EXCEPT ![t] = [Refreshed(t) EXCEPT !.titled = TRUE]]
                /\ dirty' = [dirty EXCEPT ![t] = {"titled"}]
      BY <1>6, Zenon DEF StreamDone
    <2>2. CASE UNCHANGED <<loaded, dirty>>
      BY <2>1, <2>2 DEF Moves, sessionVars
    <2>3. CASE /\ loaded' = [loaded EXCEPT ![t] = [Refreshed(t) EXCEPT !.titled = TRUE]]
               /\ dirty' = [dirty EXCEPT ![t] = {"titled"}]
      BY <2>1, <2>3, Zenon DEF Titles
    <2>4. QED
      BY <2>1, <2>2, <2>3
  <1>7. ASSUME NEW t \in Turn, RecordFails(t) \/ NothingToRecord(t) \/ TurnRaises(t)
        PROVE  Moves(t)
    BY <1>7 DEF RecordFails, NothingToRecord, TurnRaises, Moves, Working, sessionVars
  <1>8. ASSUME NEW t \in Turn, SaveAnswer(t)
        PROVE  Moves(t) \/ Writes(t)
    BY <1>8 DEF SaveAnswer, Moves, Writes, Working, sessionVars
  <1>9. ASSUME NEW t \in Turn, ReleaseLock(t) \/ Rollback(t)
        PROVE  Moves(t) \/ Drops(t)
    BY <1>9 DEF ReleaseLock, Rollback, Moves, Drops, sessionVars
  <1>10. ASSUME NEW t \in Turn, IdleTimeout(t) \/ GeneratorFails(t)
         PROVE  Moves(t) \/ Drops(t)
    BY <1>10 DEF IdleTimeout, GeneratorFails, Cancelled, Moves, Drops, Working, sessionVars
  <1>11. ASSUME NEW t \in Turn, Disconnect(t) \/ Die(t)
         PROVE  Same \/ Drops(t)
    BY <1>11 DEF Disconnect, Die, Drops
  <1>12. CASE UNCHANGED vars
    BY <1>12 DEF vars, turnVars
  <1>13. QED
    BY <1>1, <1>2, <1>3, <1>4, <1>5, <1>6, <1>7, <1>8, <1>9, <1>10, <1>11, <1>12
       DEF Next, TurnStep, Work, Finally

LEMMA DataStep == DataOK /\ FlagsOK /\ [Next]_vars => DataOK'
  <1> SUFFICES ASSUME DataOK, FlagsOK, [Next]_vars
               PROVE  DataOK'
    OBVIOUS
  <1> USE DEF DataOK, dbVars, sessionVars
  <1>0. EmptyRow \in Row
    BY DEF EmptyRow, Row
  <1>1. CASE UNCHANGED <<pc, dbVars, sessionVars, overlap>>
    BY <1>1
  <1>2. ASSUME NEW t \in Turn, Moves(t) \/ Enters(t)
        PROVE  DataOK'
    BY <1>2 DEF Moves, Enters
  <1>3. ASSUME NEW t \in Turn, Drops(t)
        PROVE  DataOK'
    BY <1>0, <1>3 DEF Drops
  <1>4. ASSUME NEW t \in Turn, Writes(t)
        PROVE  DataOK'
    <2>1. PICK n \in Nat : \A m \in log \cup drafts[t] : m.seq <= n
      OBVIOUS
    <2>2. NextSeq(t) \in Nat
      BY <2>1, NextSeqIsNext
    <2>3. PICK type \in {"user", "assistant"} : Draft(t, type)
      BY <1>4 DEF Writes
    <2> DEFINE m0 == [seq |-> NextSeq(t), turn |-> t, type |-> type]
    <2>4. m0 \in Message /\ m0.seq = NextSeq(t)
      BY <2>2 DEF Message
    <2>5. drafts' = [drafts EXCEPT ![t] = @ \cup {m0}]
      BY <2>3 DEF Draft
    <2>6. UNCHANGED <<log, usage, row, loaded, dirty>>
      BY <1>4 DEF Writes
    <2> HIDE DEF m0
    <2>7. drafts' \in [Turn -> SUBSET Message]
      BY <2>4, <2>5
    <2>8. ASSUME NEW u \in Turn
          PROVE  \E k \in Nat : \A m \in log' \cup drafts'[u] : m.seq <= k
      <3>1. CASE u = t
        <4>1. drafts'[u] = drafts[t] \cup {m0}
          BY <2>5, <3>1
        <4>2. \A m \in log \cup drafts[t] : m.seq \in Nat
          BY DEF Message
        <4>3. n + NextSeq(t) \in Nat /\ m0.seq <= n + NextSeq(t)
          BY <2>2, <2>4
        <4>4. \A m \in log' \cup drafts'[u] : m.seq <= n + NextSeq(t)
          BY <2>1, <2>2, <2>6, <4>1, <4>2, <4>3
        <4>5. QED
          BY <4>3, <4>4
      <3>2. CASE u # t
        <4>1. drafts'[u] = drafts[u]
          BY <2>5, <3>2
        <4>2. QED
          BY <2>6, <4>1
      <3>3. QED
        BY <3>1, <3>2
    <2>9. QED
      BY <2>6, <2>7, <2>8
  <1>5. ASSUME NEW t \in Turn, Loads(t)
        PROVE  DataOK'
    BY <1>5 DEF Loads
  <1>6. ASSUME NEW t \in Turn, Titles(t)
        PROVE  DataOK'
    <2>1. [Refreshed(t) EXCEPT !.titled = TRUE] \in Row
      BY RowRefreshed, RowTitled
    <2>2. loaded' \in [Turn -> Row]
      BY <1>6, <2>1, Zenon DEF Titles
    <2>3. dirty' \in [Turn -> SUBSET Column]
      <3>1. dirty' = [dirty EXCEPT ![t] = {"titled"}]
        BY <1>6, Zenon DEF Titles
      <3>2. QED
        BY <3>1 DEF Column
    <2>4. UNCHANGED <<dbVars, drafts>>
      BY <1>6, Zenon DEF Titles
    <2>5. QED
      BY <2>2, <2>3, <2>4
  <1>7. ASSUME NEW t \in Turn, RecordUsage(t)
        PROVE  DataOK'
    <2> DEFINE tokens == loaded[t].tokens + 1
               limit == tokens >= ContextLimit
               counted == [loaded[t] EXCEPT !.tokens = tokens, !.limit = limit, !.session = t]
               columns == {"tokens", "session"} \cup
                            (IF limit # loaded[t].limit THEN {"limit"} ELSE {})
    <2>1. tokens \in Nat /\ limit \in BOOLEAN
      BY TurnAssumption DEF Row
    <2>2. counted \in Row
      <3> HIDE DEF tokens, limit
      <3> QED
        BY <2>1, RowCounted
    <2>3. /\ loaded' = [loaded EXCEPT ![t] = counted]
          /\ dirty' = [dirty EXCEPT ![t] = @ \cup columns]
          /\ UNCHANGED <<dbVars, drafts>>
      BY <1>7, Zenon DEF RecordUsage
    <2>4. columns \subseteq Column
      BY DEF Column
    <2> HIDE DEF counted, columns
    <2>5. loaded' \in [Turn -> Row] /\ dirty' \in [Turn -> SUBSET Column]
      BY <2>2, <2>3, <2>4
    <2>6. QED
      BY <2>3, <2>5
  <1>8. ASSUME NEW t \in Turn, Commit(t)
        PROVE  DataOK'
    <2>1. /\ log' = log \cup drafts[t]
          /\ row' = Refreshed(t)
          /\ usage' = IF "tokens" \in dirty[t] THEN usage \cup {t} ELSE usage
          /\ drafts' = [drafts EXCEPT ![t] = {}]
          /\ loaded' = [loaded EXCEPT ![t] = EmptyRow]
          /\ dirty' = [dirty EXCEPT ![t] = {}]
      BY <1>8 DEF Commit, Leave
    <2>2. row' \in Row
      BY <2>1, RowRefreshed
    <2>3. ASSUME NEW u \in Turn
          PROVE  \E k \in Nat : \A m \in log' \cup drafts'[u] : m.seq <= k
      <3>1. PICK a \in Nat : \A m \in log \cup drafts[t] : m.seq <= a
        OBVIOUS
      <3>2. PICK b \in Nat : \A m \in log \cup drafts[u] : m.seq <= b
        OBVIOUS
      <3>3. \A m \in log' \cup drafts'[u] : m \in log \cup drafts[t] \cup drafts[u]
        BY <2>1
      <3>4. \A m \in log \cup drafts[t] \cup drafts[u] : m.seq \in Nat
        BY DEF Message
      <3>5. ASSUME NEW m \in log \cup drafts[t] \cup drafts[u]
            PROVE  m.seq <= a + b
        <4>1. m.seq <= a \/ m.seq <= b
          BY <3>1, <3>2
        <4>2. QED
          BY <3>4, <4>1
      <3>6. \A m \in log' \cup drafts'[u] : m.seq <= a + b
        BY ONLY <3>3, <3>5
      <3>7. a + b \in Nat
        OBVIOUS
      <3>8. QED
        BY ONLY <3>6, <3>7
    <2>4. log' \subseteq Message /\ usage' \subseteq Turn
      BY <2>1
    <2>5. /\ drafts' \in [Turn -> SUBSET Message]
          /\ loaded' \in [Turn -> Row]
          /\ dirty' \in [Turn -> SUBSET Column]
      BY <1>0, <2>1
    <2>6. QED
      BY <2>2, <2>3, <2>4, <2>5
  <1>9. QED
    BY <1>1, <1>2, <1>3, <1>4, <1>5, <1>6, <1>7, <1>8, TurnStepEffect

LEMMA TurnTypeInvariant == Spec => []TurnTypeInv
  <1>1. TurnTypeInv /\ [Next]_vars => TurnTypeInv'
    BY FlagsStep, ClocksStep, DataStep DEF TurnTypeInv
  <1>2. QED
    BY <1>1, TurnTypeInit, PTL DEF Spec

\* The variables of the turns keep their types.
THEOREM TurnTypeCorrect == Spec => []TurnTypeOK
  <1>1. LockInv /\ TurnTypeInv => TurnTypeOK
    BY DEF LockInv, TurnTypeInv, FlagsOK, ClocksOK, DataOK, TurnTypeOK
  <1>2. QED
    BY <1>1, TurnLockInvariant, TurnTypeInvariant, PTL

-----------------------------------------------------------------------------
(* The order of the message log *)

Answered(S) ==
    \A a \in S : a.type = "assistant" =>
        \E q \in S : q.turn = a.turn /\ q.type = "user" /\ q.seq < a.seq

\* A turn past its first message has it in its transaction, and what a turn
\* has flushed is in order by itself: committing it keeps the log in order.
AnswerInv ==
    /\ \A t \in Turn : pc[t] \in {"prepare", "stream", "post", "answer"} =>
          \E q \in drafts[t] : q.turn = t /\ q.type = "user"
    /\ Answered(log)
    /\ \A t \in Turn : Answered(drafts[t])

LEMMA AnswerInit == Init => AnswerInv
  BY DEF Init, AnswerInv, Answered

LEMMA AnswerStep == TurnTypeInv /\ AnswerInv /\ [Next]_vars => AnswerInv'
  <1> SUFFICES ASSUME TurnTypeInv, AnswerInv, [Next]_vars
               PROVE  AnswerInv'
    OBVIOUS
  <1> USE DEF AnswerInv, dbVars, sessionVars
  <1>0. /\ pc \in [Turn -> PC]
        /\ drafts \in [Turn -> SUBSET Message] /\ log \subseteq Message
        /\ \A t \in Turn : \E n \in Nat : \A m \in log \cup drafts[t] : m.seq <= n
    BY DEF TurnTypeInv, FlagsOK, DataOK
  <1>1. CASE UNCHANGED <<pc, dbVars, sessionVars, overlap>>
    BY <1>1 DEF Answered
  <1>2. ASSUME NEW t \in Turn, Moves(t) \/ Enters(t)
        PROVE  AnswerInv'
    BY <1>0, <1>2 DEF Moves, Enters, Answered, Working
  <1>3. ASSUME NEW t \in Turn, Drops(t)
        PROVE  AnswerInv'
    BY <1>0, <1>3 DEF Drops, Answered
  <1>4. ASSUME NEW t \in Turn, Writes(t)
        PROVE  AnswerInv'
    <2>1. PICK n \in Nat : \A m \in log \cup drafts[t] : m.seq <= n
      BY <1>0
    <2>2. /\ NextSeq(t) \in Nat
          /\ \A m \in log \cup drafts[t] : m.seq < NextSeq(t)
      BY <1>0, <2>1, NextSeqIsNext
    <2>3. PICK type \in {"user", "assistant"} :
            /\ Draft(t, type)
            /\ type = "user" => pc' = [pc EXCEPT ![t] = "prepare"]
            /\ type = "assistant" =>
                  pc[t] = "answer" /\ pc' = [pc EXCEPT ![t] = "release"]
      BY <1>4 DEF Writes
    <2> DEFINE m0 == [seq |-> NextSeq(t), turn |-> t, type |-> type]
    <2>4. m0.seq = NextSeq(t) /\ m0.turn = t /\ m0.type = type
      OBVIOUS
    <2>5. drafts' = [drafts EXCEPT ![t] = drafts[t] \cup {m0}] /\ log' = log
      BY <1>4, <2>3 DEF Draft, Writes
    <2> HIDE DEF m0
    <2>6. drafts'[t] = drafts[t] \cup {m0} /\ \A u \in Turn \ {t} : drafts'[u] = drafts[u]
      BY <1>0, <2>5
    <2>7. type = "assistant" =>
            \E q \in drafts[t] : q.turn = t /\ q.type = "user" /\ q.seq < m0.seq
      BY <2>2, <2>3, <2>4
    <2>8. Answered(drafts'[t])
      BY <2>4, <2>6, <2>7 DEF Answered
    <2>9. type = "user" => \E q \in drafts'[t] : q.turn = t /\ q.type = "user"
      BY <2>4, <2>6
    <2>10. /\ Answered(log')
           /\ \A u \in Turn : Answered(drafts'[u])
      BY <2>5, <2>6, <2>8
    <2>11. \A u \in Turn : pc'[u] \in {"prepare", "stream", "post", "answer"} =>
             \E q \in drafts'[u] : q.turn = u /\ q.type = "user"
      BY <1>0, <2>3, <2>6, <2>9
    <2>12. QED
      BY <2>10, <2>11 DEF Answered
  <1>5. ASSUME NEW t \in Turn, Loads(t) \/ Titles(t) \/ RecordUsage(t)
        PROVE  AnswerInv'
    <2>1. /\ pc[t] \in {"prepare", "stream", "post"}
          /\ \E where \in {"stream", "post", "answer"} : pc' = [pc EXCEPT ![t] = where]
          /\ UNCHANGED <<log, drafts>>
      BY <1>5, Zenon DEF Loads, Titles, RecordUsage, GoTo
    <2>2. QED
      BY <1>0, <2>1 DEF Answered
  <1>6. ASSUME NEW t \in Turn, Commit(t)
        PROVE  AnswerInv'
    <2>1. /\ log' = log \cup drafts[t]
          /\ drafts' = [drafts EXCEPT ![t] = {}]
          /\ pc' = [pc EXCEPT ![t] = "ended"]
      BY <1>6 DEF Commit, Leave, GoTo
    <2>2. Answered(log')
      BY <2>1 DEF Answered
    <2>3. QED
      BY <1>0, <2>1, <2>2 DEF Answered
  <1>7. QED
    BY <1>1, <1>2, <1>3, <1>4, <1>5, <1>6, TurnStepEffect DEF TurnTypeInv

\* The stored answer of a turn follows its stored question.
THEOREM TurnAnswersFollow == Spec => []AnswerFollowsQuestion
  <1>1. AnswerInv => AnswerFollowsQuestion
    BY DEF AnswerInv, Answered, AnswerFollowsQuestion
  <1>2. QED
    BY <1>1, AnswerInit, AnswerStep, TurnTypeInvariant, PTL DEF Spec

-----------------------------------------------------------------------------
(* The serial history of the database *)

\* Only an open turn has something in its transaction, only an ended turn is
\* on record, and without an overlap one turn at most is open.
OpenInv ==
    /\ \A t \in Turn : ~Open(t) => drafts[t] = {} /\ dirty[t] = {}
    /\ \A t \in usage : pc[t] = "ended"
    /\ ~overlap => \A t, u \in Turn : Open(t) /\ Open(u) => t = u

LEMMA OpenInit == Init => OpenInv
  BY DEF Init, OpenInv, Open, Working

LEMMA OpenStep == TurnTypeInv /\ OpenInv /\ [Next]_vars => OpenInv'
  <1> SUFFICES ASSUME TurnTypeInv, OpenInv, [Next]_vars
               PROVE  OpenInv'
    OBVIOUS
  <1> USE DEF OpenInv, Open, Working, dbVars, sessionVars
  <1>0. /\ pc \in [Turn -> PC] /\ overlap \in BOOLEAN
        /\ drafts \in [Turn -> SUBSET Message]
        /\ dirty \in [Turn -> SUBSET Column] /\ usage \subseteq Turn
    BY DEF TurnTypeInv, FlagsOK, DataOK
  <1>1. CASE UNCHANGED <<pc, dbVars, sessionVars, overlap>>
    BY <1>1
  <1>2. ASSUME NEW t \in Turn, Moves(t)
        PROVE  OpenInv'
    BY <1>0, <1>2 DEF Moves
  <1>3. ASSUME NEW t \in Turn, Enters(t)
        PROVE  OpenInv'
    BY <1>0, <1>3 DEF Enters
  <1>4. ASSUME NEW t \in Turn, Drops(t)
        PROVE  OpenInv'
    BY <1>0, <1>4 DEF Drops
  <1>5. ASSUME NEW t \in Turn, Writes(t)
        PROVE  OpenInv'
    <2>1. /\ pc[t] \in {"user", "answer"}
          /\ \E where \in {"prepare", "release"} : pc' = [pc EXCEPT ![t] = where]
          /\ \E S : drafts' = [drafts EXCEPT ![t] = S]
          /\ UNCHANGED <<dbVars, dirty, overlap>>
      BY <1>5 DEF Writes, Draft
    <2>2. QED
      BY <1>0, <2>1
  <1>6. ASSUME NEW t \in Turn, Loads(t) \/ Titles(t) \/ RecordUsage(t)
        PROVE  OpenInv'
    <2>1. /\ pc[t] \in {"prepare", "stream", "post"}
          /\ \E where \in {"stream", "post", "answer"} : pc' = [pc EXCEPT ![t] = where]
          /\ \E S : dirty' = [dirty EXCEPT ![t] = S]
          /\ UNCHANGED <<dbVars, drafts, overlap>>
      <3>1. CASE Loads(t)
        <4>1. dirty' = [dirty EXCEPT ![t] = dirty[t]]
          BY <1>0, <3>1 DEF Loads
        <4>2. QED
          BY <3>1, <4>1, Zenon DEF Loads
      <3>2. CASE Titles(t) \/ RecordUsage(t)
        BY <3>2, Zenon DEF Titles, RecordUsage, GoTo
      <3>3. QED
        BY <1>6, <3>1, <3>2
    <2>2. QED
      BY <1>0, <2>1
  <1>7. ASSUME NEW t \in Turn, Commit(t)
        PROVE  OpenInv'
    BY <1>0, <1>7 DEF Commit, Leave, GoTo
  <1>8. QED
    BY <1>1, <1>2, <1>3, <1>4, <1>5, <1>6, <1>7, TurnStepEffect DEF TurnTypeInv

\* S holds the messages 1, 2, ... with no number missing or used twice.
Dense(S) == IsFiniteSet(S) /\ {m.seq : m \in S} = 1..Cardinality(S)

SeqInv == ~overlap => Dense(log) /\ \A t \in Turn : Dense(log \cup drafts[t])

LEMMA SeqInit == Init => SeqInv
  <1>1. Dense({})
    BY FS_EmptySet DEF Dense
  <1>2. QED
    BY <1>1 DEF Init, SeqInv

LEMMA SeqStep == TurnTypeInv /\ OpenInv /\ SeqInv /\ [Next]_vars => SeqInv'
  <1> SUFFICES ASSUME TurnTypeInv, OpenInv, SeqInv, [Next]_vars, ~overlap'
               PROVE  Dense(log') /\ \A u \in Turn : Dense(log' \cup drafts'[u])
    BY DEF SeqInv
  <1> USE DEF dbVars, sessionVars
  <1>0. /\ pc \in [Turn -> PC] /\ overlap \in BOOLEAN
        /\ drafts \in [Turn -> SUBSET Message] /\ log \subseteq Message
        /\ \A t \in Turn : \E n \in Nat : \A m \in log \cup drafts[t] : m.seq <= n
    BY DEF TurnTypeInv, FlagsOK, DataOK
  <1>1. CASE UNCHANGED <<pc, dbVars, sessionVars, overlap>>
    BY <1>1 DEF SeqInv
  <1>2. ASSUME NEW t \in Turn, Moves(t) \/ Enters(t) \/ Loads(t)
        PROVE  Dense(log') /\ \A u \in Turn : Dense(log' \cup drafts'[u])
    BY <1>0, <1>2 DEF Moves, Enters, Loads, SeqInv
  <1>3. ASSUME NEW t \in Turn, Titles(t) \/ RecordUsage(t)
        PROVE  Dense(log') /\ \A u \in Turn : Dense(log' \cup drafts'[u])
    <2>1. UNCHANGED <<log, drafts, overlap>>
      BY <1>3, Zenon DEF Titles, RecordUsage
    <2>2. QED
      BY <2>1 DEF SeqInv
  <1>4. ASSUME NEW t \in Turn, Drops(t)
        PROVE  Dense(log') /\ \A u \in Turn : Dense(log' \cup drafts'[u])
    <2>1. ~overlap /\ log' = log /\ drafts' = [drafts EXCEPT ![t] = {}]
      BY <1>4 DEF Drops
    <2>2. log \cup {} = log
      OBVIOUS
    <2>3. QED
      BY <1>0, <2>1, <2>2 DEF SeqInv
  <1>5. ASSUME NEW t \in Turn, Writes(t)
        PROVE  Dense(log') /\ \A u \in Turn : Dense(log' \cup drafts'[u])
    <2> DEFINE S == log \cup drafts[t]
    <2>1. PICK n \in Nat : \A m \in S : m.seq <= n
      BY <1>0
    <2>2. /\ NextSeq(t) \in Nat
          /\ \A m \in S : m.seq < NextSeq(t)
          /\ NextSeq(t) = 1 \/ \E m \in S : NextSeq(t) = m.seq + 1
      BY <1>0, <2>1, NextSeqIsNext
    <2>3. PICK type \in {"user", "assistant"} : Draft(t, type)
      BY <1>5 DEF Writes
    <2> DEFINE m0 == [seq |-> NextSeq(t), turn |-> t, type |-> type]
    <2>4. m0.seq = NextSeq(t)
      OBVIOUS
    <2>5. drafts' = [drafts EXCEPT ![t] = drafts[t] \cup {m0}] /\ log' = log /\ ~overlap
      BY <1>5, <2>3 DEF Draft, Writes
    <2> HIDE DEF m0
    <2>6. log' \cup drafts'[t] = S \cup {m0}
      BY <1>0, <2>5
    <2>7. Dense(S) /\ S \subseteq Message
      BY <1>0, <2>5 DEF SeqInv
    <2> HIDE DEF S
    <2>8. m0 \notin S
      BY <2>2, <2>4
    <2>9. IsFiniteSet(S \cup {m0}) /\ Cardinality(S \cup {m0}) = Cardinality(S) + 1
      BY <2>7, <2>8, FS_AddElement DEF Dense
    <2>10. Cardinality(S) \in Nat
      BY <2>7, FS_CardinalityType DEF Dense
    <2>11. NextSeq(t) = Cardinality(S) + 1
      <3>1. {m.seq : m \in S} = 1..Cardinality(S)
        BY <2>7 DEF Dense
      <3>2. CASE Cardinality(S) = 0
        BY <2>2, <3>1, <3>2
      <3>3. CASE Cardinality(S) > 0
        <4>1. Cardinality(S) \in {m.seq : m \in S}
          BY <2>10, <3>1, <3>3
        <4>2. NextSeq(t) > Cardinality(S)
          BY <2>2, <4>1
        <4>3. \A m \in S : m.seq \in 1..Cardinality(S)
          BY <3>1
        <4>4. QED
          BY <2>2, <2>10, <3>3, <4>2, <4>3
      <3>4. QED
        BY <2>10, <3>2, <3>3
    <2>12. {m.seq : m \in S \cup {m0}} = {m.seq : m \in S} \cup {NextSeq(t)}
      BY <2>4
    <2>13. {m.seq : m \in S \cup {m0}} = 1..(Cardinality(S) + 1)
      <3>1. {m.seq : m \in S} = 1..Cardinality(S)
        BY <2>7 DEF Dense
      <3>2. 1..(Cardinality(S) + 1) = 1..Cardinality(S) \cup {Cardinality(S) + 1}
        BY <2>10
      <3>3. QED
        BY <2>11, <2>12, <3>1, <3>2, Zenon
    <2>14. Dense(S \cup {m0})
      BY <2>9, <2>13 DEF Dense
    <2>15. \A u \in Turn \ {t} : drafts'[u] = drafts[u]
      BY <1>0, <2>5
    <2>16. QED
      BY <2>5, <2>6, <2>14, <2>15 DEF SeqInv
  <1>6. ASSUME NEW t \in Turn, Commit(t)
        PROVE  Dense(log') /\ \A u \in Turn : Dense(log' \cup drafts'[u])
    <2>1. /\ log' = log \cup drafts[t] /\ ~overlap
          /\ drafts' = [drafts EXCEPT ![t] = {}]
          /\ pc[t] = "end"
      BY <1>6 DEF Commit, Leave
    <2>2. \A u \in Turn : drafts'[u] = {}
      BY <1>0, <2>1 DEF OpenInv, Open
    <2>3. \A u \in Turn : log' \cup drafts'[u] = log'
      BY <2>2
    <2>4. Dense(log')
      BY <2>1 DEF SeqInv
    <2>5. QED
      BY <2>3, <2>4
  <1>7. QED
    BY <1>1, <1>2, <1>3, <1>4, <1>5, <1>6, TurnStepEffect DEF TurnTypeInv

\* The committed row counts the usage logs.
RowAgrees ==
    /\ IsFiniteSet(usage)
    /\ row.tokens = Cardinality(usage)
    /\ row.limit = (row.tokens >= ContextLimit)
    /\ usage # {} => row.session \in usage

\* The object in the session of t is the committed row, title apart.
Fresh(t) ==
    /\ loaded[t].tokens = row.tokens /\ loaded[t].limit = row.limit
    /\ loaded[t].session = row.session
    /\ dirty[t] \subseteq {"titled"}

\* t has written the counters of the committed row plus its own.
Counted(t) ==
    /\ {"tokens", "session"} \subseteq dirty[t]
    /\ loaded[t].tokens = row.tokens + 1
    /\ loaded[t].limit = (loaded[t].tokens >= ContextLimit)
    /\ loaded[t].session = t
    /\ "limit" \notin dirty[t] => loaded[t].limit = row.limit

\* What t has written when it is where it is.
SessionAgrees(t) ==
    /\ pc[t] \in {"user", "prepare"} => dirty[t] = {}
    /\ pc[t] \in {"stream", "post"} => Fresh(t)
    /\ pc[t] \in {"answer", "release", "end"} =>
          dirty[t] \subseteq {"titled"} \/ Counted(t)

RowInv == ~overlap => RowAgrees /\ \A t \in Turn : SessionAgrees(t)

LEMMA RowInit == Init => RowInv
  <1> SUFFICES ASSUME Init
               PROVE  RowAgrees /\ \A t \in Turn : SessionAgrees(t)
    BY DEF RowInv
  <1>1. RowAgrees
    <2>1. usage = {} /\ row.tokens = 0 /\ row.limit = FALSE
      BY DEF Init, EmptyRow
    <2>2. (0 >= ContextLimit) = FALSE
      BY TurnAssumption
    <2>3. QED
      BY <2>1, <2>2, FS_EmptySet DEF RowAgrees
  <1>2. QED
    BY <1>1 DEF Init, SessionAgrees

LEMMA RowStep == TurnTypeInv /\ OpenInv /\ RowInv /\ [Next]_vars => RowInv'
  <1> SUFFICES ASSUME TurnTypeInv, OpenInv, RowInv, [Next]_vars, ~overlap'
               PROVE  RowAgrees' /\ \A u \in Turn : SessionAgrees(u)'
    BY DEF RowInv
  <1> USE DEF dbVars, sessionVars
  <1>0. /\ pc \in [Turn -> PC] /\ overlap \in BOOLEAN
        /\ row \in Row /\ loaded \in [Turn -> Row]
        /\ dirty \in [Turn -> SUBSET Column] /\ usage \subseteq Turn
    BY DEF TurnTypeInv, FlagsOK, DataOK
  <1>1. CASE UNCHANGED <<pc, dbVars, sessionVars, overlap>>
    BY <1>1 DEF RowInv, RowAgrees, SessionAgrees, Fresh, Counted
  \* Most steps leave the row alone and concern the session of one turn.
  <1>2. ASSUME NEW t \in Turn, UNCHANGED <<row, usage, overlap>>, SessionAgrees(t)',
               \A u \in Turn \ {t} :
                  pc'[u] = pc[u] /\ loaded'[u] = loaded[u] /\ dirty'[u] = dirty[u]
        PROVE  RowAgrees' /\ \A u \in Turn : SessionAgrees(u)'
    <2>1. RowAgrees' /\ \A u \in Turn \ {t} : SessionAgrees(u)
      BY <1>2 DEF RowInv, RowAgrees
    <2>2. ASSUME NEW u \in Turn \ {t}
          PROVE  SessionAgrees(u)'
      BY <1>2, <2>1 DEF SessionAgrees, Fresh, Counted
    <2>3. QED
      BY <1>2, <2>1, <2>2
  <1>3. ASSUME NEW t \in Turn, Moves(t)
        PROVE  RowAgrees' /\ \A u \in Turn : SessionAgrees(u)'
    <2>1. UNCHANGED <<row, usage, loaded, dirty, overlap>> /\ ~overlap
      BY <1>3 DEF Moves
    <2>2. SessionAgrees(t)
      BY <2>1 DEF RowInv
    <2>3. SessionAgrees(t)'
      BY <1>0, <1>3, <2>1, <2>2
         DEF Moves, SessionAgrees, Fresh, Counted, Working
    <2>4. \A u \in Turn \ {t} : pc'[u] = pc[u]
      BY <1>0, <1>3 DEF Moves
    <2>5. QED
      BY <1>2, <2>1, <2>3, <2>4
  <1>4. ASSUME NEW t \in Turn, Enters(t)
        PROVE  RowAgrees' /\ \A u \in Turn : SessionAgrees(u)'
    <2>1. /\ UNCHANGED <<row, usage, loaded, dirty>> /\ ~overlap
          /\ pc[t] = "acquire" /\ pc' = [pc EXCEPT ![t] = "user"]
      BY <1>4 DEF Enters
    <2>2. dirty[t] = {}
      BY <2>1 DEF OpenInv, Open, Working
    <2>3. SessionAgrees(t)'
      BY <1>0, <2>1, <2>2 DEF SessionAgrees
    <2>4. overlap' = overlap
      <3>1. overlap' = (overlap \/ \E u \in Turn \ {t} : Open(u))
        BY <1>4 DEF Enters
      <3>2. overlap' = FALSE /\ overlap = FALSE
        BY <1>0, <2>1, <3>1, Zenon
      <3>3. QED
        BY <3>2
    <2>5. \A u \in Turn \ {t} : pc'[u] = pc[u]
      BY <1>0, <2>1
    <2>6. QED
      BY <1>2, <2>1, <2>3, <2>4, <2>5
  <1>5. ASSUME NEW t \in Turn, Drops(t)
        PROVE  RowAgrees' /\ \A u \in Turn : SessionAgrees(u)'
    <2>1. SessionAgrees(t)'
      BY <1>0, <1>5 DEF Drops, SessionAgrees
    <2>2. /\ UNCHANGED <<row, usage, overlap>>
          /\ \A u \in Turn \ {t} :
                pc'[u] = pc[u] /\ loaded'[u] = loaded[u] /\ dirty'[u] = dirty[u]
      BY <1>0, <1>5 DEF Drops
    <2>3. QED
      BY <1>2, <2>1, <2>2
  <1>6. ASSUME NEW t \in Turn, Writes(t)
        PROVE  RowAgrees' /\ \A u \in Turn : SessionAgrees(u)'
    <2>1. UNCHANGED <<row, usage, loaded, dirty, overlap>> /\ ~overlap
      BY <1>6 DEF Writes
    <2>2. SessionAgrees(t)
      BY <2>1 DEF RowInv
    <2>3. \/ pc[t] = "user" /\ pc' = [pc EXCEPT ![t] = "prepare"]
          \/ pc[t] = "answer" /\ pc' = [pc EXCEPT ![t] = "release"]
      BY <1>6 DEF Writes
    <2>4. SessionAgrees(t)'
      BY <1>0, <2>1, <2>2, <2>3 DEF SessionAgrees, Counted
    <2>5. \A u \in Turn \ {t} : pc'[u] = pc[u]
      BY <1>0, <2>3
    <2>6. QED
      BY <1>2, <2>1, <2>4, <2>5
  <1>7. ASSUME NEW t \in Turn, Loads(t)
        PROVE  RowAgrees' /\ \A u \in Turn : SessionAgrees(u)'
    <2>1. /\ UNCHANGED <<row, usage, dirty, overlap>> /\ ~overlap
          /\ pc[t] = "prepare" /\ pc' = [pc EXCEPT ![t] = "stream"]
          /\ loaded' = [loaded EXCEPT ![t] = row]
      BY <1>7 DEF Loads
    <2>2. dirty[t] = {}
      BY <2>1 DEF RowInv, SessionAgrees
    <2>3. SessionAgrees(t)'
      BY <1>0, <2>1, <2>2 DEF SessionAgrees, Fresh
    <2>4. \A u \in Turn \ {t} : pc'[u] = pc[u] /\ loaded'[u] = loaded[u]
      BY <1>0, <2>1
    <2>5. QED
      BY <1>2, <2>1, <2>3, <2>4
  <1>8. ASSUME NEW t \in Turn, Titles(t)
        PROVE  RowAgrees' /\ \A u \in Turn : SessionAgrees(u)'
    <2> DEFINE titled == [Refreshed(t) EXCEPT !.titled = TRUE]
    <2>1. /\ UNCHANGED <<row, usage, overlap>> /\ ~overlap
          /\ pc[t] = "stream" /\ pc' = [pc EXCEPT ![t] = "post"]
          /\ loaded' = [loaded EXCEPT ![t] = titled]
          /\ dirty' = [dirty EXCEPT ![t] = {"titled"}]
      BY <1>8, Zenon DEF Titles
    <2>2. Fresh(t)
      BY <2>1 DEF RowInv, SessionAgrees
    <2>3. /\ Refreshed(t) \in Row
          /\ Refreshed(t).tokens = row.tokens
          /\ Refreshed(t).limit = row.limit
          /\ Refreshed(t).session = row.session
      <3>1. {"tokens", "limit", "session"} \cap dirty[t] = {}
        BY <2>2 DEF Fresh
      <3>2. QED
        BY <1>0, <3>1, RowRefreshed
    <2>4. titled.tokens = row.tokens /\ titled.limit = row.limit /\ titled.session = row.session
      BY <2>3, RowTitled
    <2> HIDE DEF titled
    <2>5. loaded'[t] = titled /\ dirty'[t] = {"titled"} /\ pc'[t] = "post" /\ row' = row
      BY <1>0, <2>1
    <2>6. Fresh(t)'
      BY <2>4, <2>5 DEF Fresh
    <2>7. SessionAgrees(t)'
      BY <2>5, <2>6 DEF SessionAgrees
    <2>8. \A u \in Turn \ {t} :
             pc'[u] = pc[u] /\ loaded'[u] = loaded[u] /\ dirty'[u] = dirty[u]
      BY <1>0, <2>1
    <2>9. QED
      BY <1>2, <2>1, <2>7, <2>8
  <1>9. ASSUME NEW t \in Turn, RecordUsage(t)
        PROVE  RowAgrees' /\ \A u \in Turn : SessionAgrees(u)'
    <2> DEFINE tokens == loaded[t].tokens + 1
               limit == tokens >= ContextLimit
               counted == [loaded[t] EXCEPT !.tokens = tokens, !.limit = limit, !.session = t]
               columns == {"tokens", "session"} \cup
                            (IF limit # loaded[t].limit THEN {"limit"} ELSE {})
    <2>1. /\ loaded' = [loaded EXCEPT ![t] = counted]
          /\ dirty' = [dirty EXCEPT ![t] = @ \cup columns]
          /\ pc[t] = "post" /\ pc' = [pc EXCEPT ![t] = "answer"]
          /\ UNCHANGED <<row, usage, overlap>> /\ ~overlap
      BY <1>9, Zenon DEF RecordUsage, GoTo
    <2>2. Fresh(t)
      BY <2>1 DEF RowInv, SessionAgrees
    <2>3. tokens = row.tokens + 1 /\ tokens \in Nat /\ limit \in BOOLEAN
      BY <1>0, <2>2, TurnAssumption DEF Fresh, Row
    <2>4. counted.tokens = tokens /\ counted.limit = limit /\ counted.session = t
      <3>1. loaded[t] \in Row
        BY <1>0
      <3> HIDE DEF tokens, limit
      <3>2. QED
        BY <2>3, <3>1 DEF Row
    <2>5. "limit" \notin columns => limit = row.limit
      BY <2>2 DEF Fresh
    <2>6. {"tokens", "session"} \subseteq columns
      OBVIOUS
    <2>7. limit = (counted.tokens >= ContextLimit)
      BY <2>4
    <2> HIDE DEF counted, columns, tokens, limit
    <2>8. loaded'[t] = counted /\ dirty'[t] = dirty[t] \cup columns /\ pc'[t] = "answer"
      BY <1>0, <2>1
    <2>9. Counted(t)'
      BY <2>1, <2>3, <2>4, <2>5, <2>6, <2>7, <2>8 DEF Counted
    <2>10. SessionAgrees(t)'
      BY <2>8, <2>9 DEF SessionAgrees
    <2>11. \A u \in Turn \ {t} :
             pc'[u] = pc[u] /\ loaded'[u] = loaded[u] /\ dirty'[u] = dirty[u]
      BY <1>0, <2>1
    <2>12. QED
      BY <1>2, <2>1, <2>10, <2>11
  <1>10. ASSUME NEW t \in Turn, Commit(t)
         PROVE  RowAgrees' /\ \A u \in Turn : SessionAgrees(u)'
    <2>1. /\ row' = Refreshed(t)
          /\ usage' = IF "tokens" \in dirty[t] THEN usage \cup {t} ELSE usage
          /\ pc[t] = "end" /\ pc' = [pc EXCEPT ![t] = "ended"]
          /\ ~overlap
      BY <1>10 DEF Commit, Leave, GoTo
    <2>2. \A u \in Turn : ~Open(u)'
      BY <1>0, <2>1 DEF OpenInv, Open, Working
    <2>3. \A u \in Turn : SessionAgrees(u)'
      BY <2>2 DEF Open, Working, SessionAgrees
    <2>4. /\ RowAgrees /\ t \notin usage
          /\ dirty[t] \subseteq {"titled"} \/ Counted(t)
      BY <2>1 DEF RowInv, OpenInv, SessionAgrees
    <2>5. /\ Refreshed(t).tokens =
                 IF "tokens" \in dirty[t] THEN loaded[t].tokens ELSE row.tokens
          /\ Refreshed(t).limit =
                 IF "limit" \in dirty[t] THEN loaded[t].limit ELSE row.limit
          /\ Refreshed(t).session =
                 IF "session" \in dirty[t] THEN loaded[t].session ELSE row.session
      BY <1>0, RowRefreshed
    <2>6. CASE dirty[t] \subseteq {"titled"}
      <3>1. /\ row'.tokens = row.tokens /\ row'.limit = row.limit
            /\ row'.session = row.session /\ usage' = usage
        BY <2>1, <2>5, <2>6
      <3>2. QED
        BY <2>3, <2>4, <3>1 DEF RowAgrees
    <2>7. CASE Counted(t)
      <3>1. /\ row'.tokens = row.tokens + 1
            /\ row'.limit = (row'.tokens >= ContextLimit)
            /\ row'.session = t /\ usage' = usage \cup {t}
        BY <2>1, <2>5, <2>7 DEF Counted
      <3>2. /\ IsFiniteSet(usage')
            /\ Cardinality(usage') = Cardinality(usage) + 1
        BY <2>4, <3>1, FS_AddElement DEF RowAgrees
      <3>3. QED
        BY <2>3, <2>4, <3>1, <3>2 DEF RowAgrees
    <2>8. QED
      BY <2>4, <2>6, <2>7
  <1>11. QED
    BY <1>1, <1>3, <1>4, <1>5, <1>6, <1>7, <1>8, <1>9, <1>10, TurnStepEffect
       DEF TurnTypeInv

\* As long as no turn got the lock over an open transaction, messages are
\* numbered without gap or duplicate and the row counts the usage logs.
THEOREM TurnSerialHistory == Spec => []SerialHistory
  <1>1. SeqInv /\ RowInv => SerialHistory
    BY DEF SeqInv, RowInv, Dense, RowAgrees, SerialHistory
  <1>2. Spec => []OpenInv
    BY OpenInit, OpenStep, TurnTypeInvariant, PTL DEF Spec
  <1>3. Spec => []SeqInv
    BY <1>2, SeqInit, SeqStep, TurnTypeInvariant, PTL DEF Spec
  <1>4. Spec => []RowInv
    BY <1>2, RowInit, RowStep, TurnTypeInvariant, PTL DEF Spec
  <1>5. QED
    BY <1>1, <1>3, <1>4, PTL

-----------------------------------------------------------------------------
(* A lapse needs silence *)

\* Time to live and silence of an extended, streaming turn make up the TTL of
\* the extension, and the key is as good as new until the next one is due.
Extended(t) ==
    pc[t] = "stream" /\ renewal[t] = "done" /\ t \notin lapsed =>
        /\ ttl[ResourceOf[t]] + silent[t] >= ExtendTTL
        /\ ~due[t] => ttl[ResourceOf[t]] >= ExtendTTL

RenewInv ==
    \A t \in Turn :
        /\ pc[t] \in {"check", "acquire", "user", "prepare"} => renewal[t] = "none"
        /\ Extended(t)

LEMMA RenewInit == Init => RenewInv
  BY DEF Init, RenewInv, Extended

\* A command of u does not touch the key that t owns.
LEMMA OwnKeyKept ==
  ASSUME LockInv, NEW t \in Turn, NEW u \in Turn \ {t}, Owns(t),
         LockStep(u) \/ UNCHANGED lockVars
  PROVE  ttl'[ResourceOf[t]] = ttl[ResourceOf[t]]
  <1> USE LockAssumption DEF LockInv, LockTypeOK, Owns, Turn
  <1>1. CASE BeginAcquire(u) \/ AcquireSet(u) \/ AcquireBusy(u) \/ AcquireReplyLost(u)
               \/ AcquireFails(u)
    BY <1>1, TurnAssumption
       DEF BeginAcquire, AcquireSet, AcquireBusy, AcquireReplyLost, AcquireFails
  <1>2. CASE Extend(u)
    BY <1>2 DEF Extend
  <1>3. CASE Release(u) \/ ReleaseFails(u) \/ Crash(u)
    BY <1>3 DEF Release, ReleaseFails, Crash
  <1>4. CASE UNCHANGED lockVars
    BY <1>4 DEF lockVars
  <1>5. QED
    BY <1>1, <1>2, <1>3, <1>4 DEF LockStep

\* Only the end of its TTL makes a call lapse, only its own end makes it not.
LEMMA LapsedKept ==
  ASSUME NEW t \in Turn, NEW u \in Turn,
         LockStep(u) \/ UNCHANGED lockVars
  PROVE  /\ t \in lapsed' => t \in lapsed
         /\ u # t /\ t \in lapsed => t \in lapsed'
  <1>1. lapsed' = lapsed \/ lapsed' = lapsed \ {u}
    BY DEF LockStep, BeginAcquire, AcquireSet, AcquireBusy, AcquireReplyLost,
           AcquireFails, Extend, Release, ReleaseFails, Crash, lockVars
  <1>2. QED
    BY <1>1

\* What a step of u does to the flags that Extended looks at: it leaves those
\* of the other turns alone, and u stays out of the stream, is in it and
\* extends its lock when that is due, enters it, or loses its client.
OnlyOwnFlags(u) ==
    \A t \in Turn \ {u} :
        /\ pc'[t] = pc[t] /\ renewal'[t] = renewal[t]
        /\ silent'[t] = silent[t] /\ due'[t] = due[t]

Flow(u) ==
    \/ pc'[u] \in {"post", "answer", "release", "end", "ended"}
    \/ /\ pc[u] \in {"check", "acquire", "user"}
       /\ pc'[u] \in {"acquire", "user", "prepare"}
       /\ renewal'[u] = renewal[u]
    \/ pc[u] = "prepare" /\ pc'[u] = "stream" /\ renewal'[u] = renewal[u]
    \/ pc[u] = "stream" /\ pc'[u] = "stream" /\ silent'[u] = 0 /\ Renew(u)
    \/ /\ UNCHANGED <<pc, renewal, due, lockVars>>
       /\ pc[u] = "stream" => silent'[u] = silent[u]

LEMMA TurnStepFlow ==
  ASSUME TurnTypeInv, NEW u \in Turn,
         \/ TurnStep(u) \/ IdleTimeout(u) \/ GeneratorFails(u)
         \/ Disconnect(u) \/ Die(u)
  PROVE  OnlyOwnFlags(u) /\ Flow(u)
  <1>0. /\ pc \in [Turn -> PC] /\ due \in [Turn -> BOOLEAN]
        /\ renewal \in [Turn -> {"none", "done"}]
        /\ silent \in [Turn -> 0..EventTimeout]
    BY DEF TurnTypeInv, FlagsOK, ClocksOK
  <1> USE <1>0 DEF OnlyOwnFlags, Flow, PC, GoTo, Leave, Raises, Speaks,
                   clientVars, renewVars
  <1>1. CASE CheckContext(u) \/ Granted(u) \/ Locked(u)
    BY <1>1 DEF CheckContext, Granted, Locked
  <1>2. CASE Waits(u)
    BY <1>2 DEF Waits, turnVars
  <1>3. CASE SaveUserMessage(u)
    BY <1>3 DEF SaveUserMessage
  <1>4. CASE Prepare(u)
    BY <1>4 DEF Prepare
  <1>5. CASE StreamEvent(u) \/ StreamBreaks(u)
    BY <1>5 DEF StreamEvent, StreamBreaks, Renew
  <1>6. CASE StreamDone(u)
    <2>1. /\ pc' = [pc EXCEPT ![u] = "post"]
          /\ silent' = [silent EXCEPT ![u] = 0]
          /\ Renew(u)
      BY <1>6, Zenon DEF StreamDone, GoTo, Speaks
    <2>2. QED
      BY <2>1 DEF Renew
  <1>7. CASE RecordUsage(u)
    <2>1. /\ pc' = [pc EXCEPT ![u] = "answer"]
          /\ UNCHANGED <<silent, due, renewal>>
      BY <1>7, Zenon DEF RecordUsage, GoTo, clientVars, renewVars
    <2>2. QED
      BY <2>1
  <1>8. CASE RecordFails(u) \/ NothingToRecord(u) \/ TurnRaises(u)
    BY <1>8 DEF RecordFails, NothingToRecord, TurnRaises
  <1>9. CASE SaveAnswer(u)
    BY <1>9 DEF SaveAnswer
  <1>10. CASE Finally(u)
    BY <1>10 DEF Finally, ReleaseLock, Commit, Rollback
  <1>11. CASE IdleTimeout(u) \/ GeneratorFails(u)
    BY <1>11 DEF IdleTimeout, GeneratorFails, Cancelled
  <1>12. CASE Disconnect(u) \/ Die(u)
    BY <1>12 DEF Disconnect, Die, lockVars
  <1>13. QED
    BY <1>1, <1>2, <1>3, <1>4, <1>5, <1>6, <1>7, <1>8, <1>9, <1>10, <1>11, <1>12
       DEF TurnStep, Work

LEMMA RenewStep ==
  LockInv /\ TurnHolds /\ TurnTypeInv /\ RenewInv /\ [Next]_vars => RenewInv'
  <1> SUFFICES ASSUME LockInv, TurnHolds, TurnTypeInv, RenewInv, [Next]_vars
               PROVE  RenewInv'
    OBVIOUS
  <1>0. /\ ttl \in [Resource -> Nat] /\ silent \in [Turn -> 0..EventTimeout]
        /\ ExtendTTL \in Nat /\ \A t \in Turn : ResourceOf[t] \in Resource
        /\ renewal \in [Turn -> {"none", "done"}]
        /\ pc \in [Turn -> PC] /\ lapsed \subseteq Turn
    BY LockAssumption
       DEF LockInv, LockTypeOK, TurnTypeInv, FlagsOK, ClocksOK, Turn
  \* A streaming turn that has not lapsed owns its key.
  <1>1. ASSUME NEW t \in Turn, pc[t] = "stream", t \notin lapsed
        PROVE  Owns(t) /\ state[t] = "held" /\ ttl[ResourceOf[t]] > 0
    BY <1>0, <1>1, LockAssumption DEF TurnHolds, Working, LockInv, Owns, Turn
  <1>2. CASE Clock
    <2>1. /\ \/ Tick
             \/ (\A r \in Resource : ttl[r] = 0) /\ UNCHANGED lockVars
          /\ silent' = [t \in Turn |->
                IF Open(t) /\ (watched[t] \/ pc[t] = "stream") THEN silent[t] + 1
                ELSE silent[t]]
          /\ due' = [t \in Turn |-> due[t] \/ pc[t] = "stream"]
          /\ UNCHANGED <<pc, renewal>>
      BY <1>2 DEF Clock
    <2>2. ASSUME NEW t \in Turn, pc[t] = "stream", renewal[t] = "done", t \notin lapsed'
          PROVE  ttl'[ResourceOf[t]] + silent'[t] >= ExtendTTL /\ due'[t]
      <3>1. due'[t] /\ silent'[t] = silent[t] + 1
        BY <2>1, <2>2 DEF Open, Working
      <3>2. t \notin lapsed
        BY <2>1, <2>2 DEF Tick, lockVars
      <3>3. ttl[ResourceOf[t]] + silent[t] >= ExtendTTL
        BY <2>2, <3>2 DEF RenewInv, Extended
      <3>4. Tick
        BY <1>0, <1>1, <2>1, <2>2, <3>2
      <3>5. ttl'[ResourceOf[t]] = ttl[ResourceOf[t]] - 1
        BY <1>0, <1>1, <2>2, <3>2, <3>4 DEF Tick
      <3>6. ttl[ResourceOf[t]] \in Nat /\ silent[t] \in Nat
        BY <1>0
      <3>7. QED
        BY <1>0, <3>1, <3>3, <3>5, <3>6
    <2>3. QED
      BY <2>1, <2>2 DEF RenewInv, Extended
  <1>3. ASSUME NEW u \in Turn,
               \/ TurnStep(u) \/ IdleTimeout(u) \/ GeneratorFails(u)
               \/ Disconnect(u) \/ Die(u)
        PROVE  RenewInv'
    <2>1. OnlyOwnFlags(u) /\ Flow(u)
      BY <1>3, TurnStepFlow
    <2>2. LockStep(u) \/ UNCHANGED lockVars
      BY <1>3, TurnStepOwnLock
    <2>3. ASSUME NEW t \in Turn \ {u}
          PROVE  /\ pc'[t] \in {"check", "acquire", "user", "prepare"} => renewal'[t] = "none"
                 /\ Extended(t)'
      <3>1. pc[t] = "stream" /\ t \notin lapsed' =>
               t \notin lapsed /\ ttl'[ResourceOf[t]] = ttl[ResourceOf[t]]
        BY <1>1, <2>2, OwnKeyKept, LapsedKept
      <3>2. QED
        BY <2>1, <3>1 DEF OnlyOwnFlags, RenewInv, Extended
    <2>4. /\ pc'[u] \in {"check", "acquire", "user", "prepare"} => renewal'[u] = "none"
          /\ Extended(u)'
      <3>1. CASE pc'[u] # "stream"
        BY <2>1, <3>1 DEF Flow, RenewInv, Extended
      <3>2. CASE pc[u] = "prepare" /\ pc'[u] = "stream" /\ renewal'[u] = renewal[u]
        BY <3>2 DEF RenewInv, Extended
      <3>3. CASE pc[u] = "stream" /\ pc'[u] = "stream" /\ silent'[u] = 0 /\ Renew(u)
        <4>1. CASE ~due[u]
          BY <1>0, <3>3, <4>1 DEF Renew, RenewInv, Extended, lockVars, renewVars
        <4>2. CASE due[u] /\ Extend(u)
          <5>1. lapsed' = lapsed
            BY <4>2 DEF Extend
          <5>2. Owns(u) => ttl'[ResourceOf[u]] = ExtendTTL
            BY <1>0, <4>2 DEF Extend
          <5>3. QED
            BY <1>0, <1>1, <3>3, <5>1, <5>2 DEF Extended
        <4>3. CASE due[u] /\ UNCHANGED lockVars /\ renewal' = [renewal EXCEPT ![u] = "none"]
          BY <1>0, <3>3, <4>3 DEF Extended
        <4>4. QED
          BY <3>3, <4>1, <4>2, <4>3 DEF Renew
      <3>4. CASE UNCHANGED <<pc, renewal, due, lockVars>>
                 /\ (pc[u] = "stream" => silent'[u] = silent[u])
        BY <3>4 DEF RenewInv, Extended, lockVars
      <3>5. QED
        BY <2>1, <3>1, <3>2, <3>3, <3>4 DEF Flow
    <2>5. QED
      BY <2>3, <2>4 DEF RenewInv
  <1>4. CASE UNCHANGED vars
    BY <1>4 DEF vars, turnVars, lockVars, clientVars, renewVars, RenewInv, Extended
  <1>5. QED
    BY <1>2, <1>3, <1>4 DEF Next

\* The lock of a streaming turn whose extensions succeed lapses only when the
\* agent has been silent for the TTL of an extension.
THEOREM TurnLapseNeedsSilence == Spec => LapseNeedsSilence
  <1> DEFINE Silent ==
        \A t \in Turn :
          t \in lapsed' \ lapsed /\ pc[t] = "stream" /\ renewal[t] = "done"
             => silent'[t] >= ExtendTTL
  <1>1. LockInv /\ TurnTypeInv /\ TurnHolds /\ RenewInv /\ [Next]_vars => [Silent]_vars
    <2> SUFFICES ASSUME LockInv, TurnTypeInv, TurnHolds, RenewInv, Next,
                        NEW t \in Turn, t \in lapsed' \ lapsed,
                        pc[t] = "stream", renewal[t] = "done"
                 PROVE  silent'[t] >= ExtendTTL
      OBVIOUS
    <2>1. Clock
      BY TurnStepOwnLock, LapsedKept DEF Next
    <2>2. /\ Tick
          /\ silent'[t] = silent[t] + 1
      BY <2>1 DEF Clock, Open, Working, lockVars
    <2>3. ttl[ResourceOf[t]] = 1
      BY <2>2 DEF Tick
    <2>4. ttl[ResourceOf[t]] + silent[t] >= ExtendTTL
      BY DEF RenewInv, Extended
    <2>5. silent[t] \in Nat /\ ExtendTTL \in Nat
      BY LockAssumption DEF TurnTypeInv, ClocksOK
    <2>6. QED
      BY <2>2, <2>3, <2>4, <2>5
  <1>2. Spec => []RenewInv
    BY RenewInit, RenewStep, TurnLockInvariant, TurnHoldsInvariant,
       TurnTypeInvariant, PTL DEF Spec
  <1>3. QED
    BY <1>1, <1>2, TurnLockInvariant, TurnHoldsInvariant, TurnTypeInvariant, PTL
       DEF Spec, LapseNeedsSilence
=============================================================================
