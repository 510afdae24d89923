----------------------------- MODULE RateLimit ------------------------------
(***************************************************************************)
(* The rate limiter (app/middleware/rate_limit.py): requests of one user,  *)
(* in several processes of one host, and the sliding window that a Lua     *)
(* script keeps in a sorted set of Redis.                                  *)
(*                                                                         *)
(* A request stamps itself, then the script runs with that stamp: atomic,  *)
(* but later, and perhaps after the script of a request with a later       *)
(* stamp; an answer that is lost makes the client send it once again.      *)
(* Redis starts math.random() anew for every script, so an entry is its    *)
(* stamp at the precision of Lua's "..": requests of one tick (0.1 ms)     *)
(* share an entry.  EXPIRE only removes what the next run would trim.      *)
(*                                                                         *)
(* Paths that are not limited and other users' keys do not meet the state. *)
(***************************************************************************)
EXTENDS Integers, FiniteSets, FiniteSetsExt

CONSTANTS
    Request,   \* requests of the user
    Limit,     \* requests_per_window
    Window,    \* window_seconds, in ticks
    Second,    \* ticks of a second
    Patience,  \* ticks after which an unanswered call of Redis is given up
    MaxTime    \* bound of the model on the clock

ASSUME LimitAssumption ==
    /\ Limit \in Nat \ {0} /\ Window \in Nat /\ Second \in Nat \ {0}
    /\ Patience \in 0..Window /\ MaxTime \in Nat

VARIABLES
    now,       \* the host's clock
    entries,   \* stamps in the sorted set
    call,      \* call[r]: the check of request r
    late       \* scripts that are still to run after their request gave up

vars == <<now, entries, call, late>>

Check == [at : {"idle", "sent", "resent", "admitted", "denied", "unchecked"},
          stamp : 0..MaxTime, retry : Nat]

Init ==
    /\ now = 0
    /\ entries = {}
    /\ call = [r \in Request |-> [at |-> "idle", stamp |-> 0, retry |-> 0]]
    /\ late = {}

Pending(r) == call[r].at \in {"sent", "resent"}

\* Mutant: windows stand still.
TrimmedFixed(S, s) == {e \in S : e \div Window = s \div Window}
\* ZREMRANGEBYSCORE -inf .. now - window.
Trimmed(S, s) == {e \in S : e + Window > s}
HasRoom(s) == Cardinality(Trimmed(entries, s)) < Limit
RunScript(s) == entries' = IF HasRoom(s) THEN Trimmed(entries, s) \cup {s} ELSE Trimmed(entries, s)

Ceil(ticks) == (ticks + Second - 1) \div Second
\* Mutant: rounded down.
RetryAfterDown(s) == (Min(Trimmed(entries, s)) + Window - s) \div Second
\* Until the oldest entry leaves the window.
RetryAfter(s) == Ceil(Min(Trimmed(entries, s)) + Window - s)

\* The request is limited by its path; its stamp is read before the connection is.
Arrive(r) ==
    /\ call[r].at = "idle"
    /\ call' = [call EXCEPT ![r].at = "sent", ![r].stamp = now]
    /\ UNCHANGED <<now, entries, late>>

\* The script runs and its answer arrives: the application, or 429 and Retry-After.
Answered(r) == LET s == call[r].stamp IN
    /\ Pending(r)
    /\ RunScript(s)
    /\ call' = [call EXCEPT ![r] = IF HasRoom(s) THEN [@ EXCEPT !.at = "admitted"]
                                   ELSE [@ EXCEPT !.at = "denied", !.retry = RetryAfter(s)]]
    /\ UNCHANGED <<now, late>>

\* The script runs, the answer is lost, and retry_on_timeout sends the script again.
AnswerLost(r) ==
    /\ call[r].at = "sent"
    /\ RunScript(call[r].stamp)
    /\ call' = [call EXCEPT ![r].at = "resent"]
    /\ UNCHANGED <<now, late>>

\* The connection broke before the script ran.
Resend(r) ==
    /\ call[r].at = "sent"
    /\ call' = [call EXCEPT ![r].at = "resent"]
    /\ UNCHANGED <<now, entries, late>>

\* Fail open; the script may have reached Redis all the same.
GiveUp(r) ==
    /\ Pending(r)
    /\ call' = [call EXCEPT ![r].at = "unchecked"]
    /\ late' \in {late, late \cup {r}}
    /\ UNCHANGED <<now, entries>>

LateRun(r) ==
    /\ r \in late
    /\ RunScript(call[r].stamp)
    /\ late' = late \ {r}
    /\ UNCHANGED <<now, call>>

\* Nobody waits for Redis beyond the timeouts of the pool.
Tick ==
    /\ now < MaxTime
    /\ \A r \in Request : Pending(r) => now < call[r].stamp + Patience
    /\ now' = now + 1
    /\ UNCHANGED <<entries, call, late>>

Next ==
    \/ \E r \in Request :
          Arrive(r) \/ Answered(r) \/ AnswerLost(r) \/ Resend(r) \/ GiveUp(r) \/ LateRun(r)
    \/ Tick

Spec == Init /\ [][Next]_vars

-----------------------------------------------------------------------------

AdmittedStamps(a, b) ==
    {t \in 0..MaxTime : a < t + Window /\ t =< b /\
        \E r \in Request : call[r].at = "admitted" /\ call[r].stamp = t}

(***************************************************************************)
(* No window, shortened by the time a call of Redis may take, holds more   *)
(* admitted stamps than the limit, in whatever order the scripts ran and   *)
(* however often (RATE_LIMIT_SCRIPT, retry_on_timeout).                    *)
(***************************************************************************)
WindowKept == \A t \in 0..MaxTime : Cardinality(AdmittedStamps(t + Patience, t)) =< Limit

(***************************************************************************)
(* Retry-After is neither too short nor too long: when the told seconds    *)
(* are over there is room, if nobody else took it, and until the last of   *)
(* them there is none, by the entries that are (retry_after).              *)
(***************************************************************************)
RetryHonest == [][\A r \in Request :
    call[r].at # "denied" /\ call'[r].at = "denied" =>
       LET seen(k) == Cardinality(Trimmed(entries', call[r].stamp + k * Second))
           k == call'[r].retry
       IN k > 0 /\ seen(k) < Limit /\ seen(k - 1) >= Limit]_vars
=============================================================================
