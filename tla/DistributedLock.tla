--------------------------- MODULE DistributedLock ---------------------------
(***************************************************************************)
(* DistributedLockManager (app/infrastructure/distributed_lock.py): a lock *)
(* per resource kept in one Redis key whose value is the token of the call *)
(* that owns it and which Redis deletes when its TTL runs out.             *)
(*                                                                         *)
(* A call of acquire() mints a fresh uuid4, so the call stands for its     *)
(* token.  One command of Redis is one step.  A reply can be lost: the     *)
(* client is built with retry_on_timeout=True (app/infrastructure/         *)
(* redis.py:45) and sends the command again, so a SET NX that did take     *)
(* effect answers "not set" to the call that owns the key.                 *)
(***************************************************************************)
EXTENDS Naturals

CONSTANTS
    Call,        \* calls of acquire()
    Resource,    \* resource ids
    None,        \* the key does not exist
    ResourceOf,  \* the resource each call asks for
    LockTTL,     \* TTL set by acquire(), in ticks
    ExtendTTL,   \* TTL set by extend(), in ticks
    MaxTries     \* acquire_timeout / retry_interval: most attempts of a call

ASSUME LockAssumption ==
    /\ None \notin Call
    /\ ResourceOf \in [Call -> Resource]
    /\ LockTTL \in Nat \ {0}
    /\ ExtendTTL \in Nat \ {0}
    /\ MaxTries \in Nat \ {0}

VARIABLES
    token,   \* token[r]: value of the key lock:conversation:<r>, or None
    ttl,     \* ttl[r]: ticks until Redis deletes the key, 0 when it does not exist
    state,   \* state[c]: what the caller of c knows
    tries,   \* tries[c]: attempts made by c
    lapsed   \* history: calls that still think they own a key Redis has deleted

lockVars == <<token, ttl, state, tries, lapsed>>

CallState == {"idle", "trying", "held", "failed", "released", "crashed"}

Owns(c) == token[ResourceOf[c]] = c

LockInit ==
    /\ token = [r \in Resource |-> None]
    /\ ttl = [r \in Resource |-> 0]
    /\ state = [c \in Call |-> "idle"]
    /\ tries = [c \in Call |-> 0]
    /\ lapsed = {}

-----------------------------------------------------------------------------
(* acquire() *)

\* acquire() starts: token minted, deadline set.
BeginAcquire(c) ==
    /\ state[c] = "idle"
    /\ state' = [state EXCEPT ![c] = "trying"]
    /\ UNCHANGED <<token, ttl, tries, lapsed>>

\* SET NX PX succeeds.
AcquireSet(c) ==
    /\ state[c] = "trying"
    /\ tries[c] < MaxTries
    /\ token[ResourceOf[c]] = None
    /\ token' = [token EXCEPT ![ResourceOf[c]] = c]
    /\ ttl' = [ttl EXCEPT ![ResourceOf[c]] = LockTTL]
    /\ state' = [state EXCEPT ![c] = "held"]
    /\ UNCHANGED <<tries, lapsed>>

\* SET NX finds the key: the call sleeps for the retry interval.
AcquireBusy(c) ==
    /\ state[c] = "trying"
    /\ tries[c] < MaxTries
    /\ token[ResourceOf[c]] # None
    /\ tries' = [tries EXCEPT ![c] = @ + 1]
    /\ UNCHANGED <<token, ttl, state, lapsed>>

\* SET NX takes effect, its reply is lost and the command sent again finds
\* the key: the call goes on waiting for a key that holds its own token.
AcquireReplyLost(c) ==
    /\ state[c] = "trying"
    /\ tries[c] < MaxTries
    /\ token[ResourceOf[c]] = None
    /\ token' = [token EXCEPT ![ResourceOf[c]] = c]
    /\ ttl' = [ttl EXCEPT ![ResourceOf[c]] = LockTTL]
    /\ tries' = [tries EXCEPT ![c] = @ + 1]
    /\ UNCHANGED <<state, lapsed>>

\* LockAcquisitionError: the deadline has passed (not before the first
\* attempt), or Redis answered with an error.
AcquireFails(c) ==
    /\ state[c] = "trying"
    /\ state' = [state EXCEPT ![c] = "failed"]
    /\ UNCHANGED <<token, ttl, tries, lapsed>>

-----------------------------------------------------------------------------
(* extend() and release(): scripts that compare the token first *)

\* Mutant: PEXPIRE without the comparison.
ExtendAnyKey(c) ==
    /\ state[c] = "held"
    /\ ttl' = [ttl EXCEPT ![ResourceOf[c]] = IF @ = 0 THEN 0 ELSE ExtendTTL]
    /\ UNCHANGED <<token, state, tries, lapsed>>

\* Mutant: SET XX PX of the token in place of PEXPIRE.
ExtendResets(c) ==
    /\ state[c] = "held" /\ token[ResourceOf[c]] # None
    /\ token' = [token EXCEPT ![ResourceOf[c]] = c]
    /\ ttl' = [ttl EXCEPT ![ResourceOf[c]] = ExtendTTL]
    /\ UNCHANGED <<state, tries, lapsed>>

Extend(c) ==
    /\ state[c] = "held"
    /\ ttl' = IF Owns(c) THEN [ttl EXCEPT ![ResourceOf[c]] = ExtendTTL] ELSE ttl
    /\ UNCHANGED <<token, state, tries, lapsed>>

Release(c) ==
    /\ state[c] = "held"
    /\ token' = IF Owns(c) THEN [token EXCEPT ![ResourceOf[c]] = None] ELSE token
    /\ ttl' = IF Owns(c) THEN [ttl EXCEPT ![ResourceOf[c]] = 0] ELSE ttl
    /\ state' = [state EXCEPT ![c] = "released"]
    /\ lapsed' = lapsed \ {c}
    /\ UNCHANGED tries

\* RedisError inside release(): logged, False returned, the key stays.
ReleaseFails(c) ==
    /\ state[c] = "held"
    /\ state' = [state EXCEPT ![c] = "released"]
    /\ lapsed' = lapsed \ {c}
    /\ UNCHANGED <<token, ttl, tries>>

-----------------------------------------------------------------------------
(* The environment *)

\* The backend process running the call dies.
Crash(c) ==
    /\ state[c] \in {"trying", "held"}
    /\ state' = [state EXCEPT ![c] = "crashed"]
    /\ lapsed' = lapsed \ {c}
    /\ UNCHANGED <<token, ttl, tries>>

\* Time passes in Redis; keys whose TTL runs out are deleted.  A call waits
\* far less (5 s) than a key lives, so a key is not seen to expire by the
\* waiting call that set it.
Tick ==
    /\ \E r \in Resource : ttl[r] > 0
    /\ \A c \in Call : state[c] = "trying" /\ Owns(c) => ttl[ResourceOf[c]] > 1
    /\ ttl' = [r \in Resource |-> IF ttl[r] > 0 THEN ttl[r] - 1 ELSE 0]
    /\ token' = [r \in Resource |-> IF ttl[r] > 1 THEN token[r] ELSE None]
    /\ lapsed' = lapsed \cup
          {c \in Call : state[c] = "held" /\ Owns(c) /\ ttl[ResourceOf[c]] = 1}
    /\ UNCHANGED <<state, tries>>

-----------------------------------------------------------------------------
LockStep(c) ==
    \/ BeginAcquire(c)
    \/ AcquireSet(c) \/ AcquireBusy(c) \/ AcquireReplyLost(c) \/ AcquireFails(c)
    \/ Extend(c)
    \/ Release(c) \/ ReleaseFails(c)
    \/ Crash(c)

LockNext == Tick \/ \E c \in Call : LockStep(c)

LockSpec == LockInit /\ [][LockNext]_lockVars

-----------------------------------------------------------------------------
(* Properties *)

LockTypeOK ==
    /\ token \in [Resource -> Call \cup {None}]
    /\ ttl \in [Resource -> Nat]
    /\ state \in [Call -> CallState]
    /\ tries \in [Call -> Nat]
    /\ lapsed \in SUBSET Call

\* Two calls that both believe they own the lock of one resource can only be
\* a call whose key has expired and another: as long as no holder outlives
\* its TTL, "SET NX" plus the token comparison give mutual exclusion.
MutualExclusion ==
    \A c, d \in Call :
        /\ c # d
        /\ ResourceOf[c] = ResourceOf[d]
        /\ state[c] = "held" /\ state[d] = "held"
        => c \in lapsed \/ d \in lapsed

\* A call that lost its lease never disturbs the next owner: the key of a
\* live owner is only deleted by the owner's own release() or when its TTL
\* has run out, and it never passes from one token to another in one step.
OnlyOwnerFreesKey ==
    [][\A r \in Resource : \A c \in Call :
          token[r] = c /\ token'[r] # c =>
             /\ token'[r] = None
             /\ ttl[r] = 1 \/ (state[c] = "held" /\ state'[c] = "released")]_lockVars

\* extend() by a call that is not the owner buys nobody time: the TTL of a
\* key never grows in a step while it has an owner that is not a live holder.
OnlyHolderGainsTime ==
    [][\A r \in Resource : \A c \in Call :
          token[r] = c /\ state[c] # "held" => ttl'[r] <= ttl[r]]_lockVars

\* The manager implements the abstract lease: what is asked of the lock is
\* its key, and a call is spent once its token was stored or it stopped.
LeaseView == INSTANCE Lease WITH
    owner <- token,
    spent <- {c \in Call : state[c] \notin {"idle", "trying"} \/ Owns(c)}

ImplementsLease == LeaseView!Spec

=============================================================================
