--------------------------- MODULE RateLimitProofs ---------------------------
(***************************************************************************)
(* The rate limiter for any number of requests, any limit and any window:  *)
(* what is admitted stays within the limit though scripts run late, twice  *)
(* or out of the order of their stamps, and Retry-After is exact.          *)
(***************************************************************************)
EXTENDS RateLimit, FiniteSetTheorems, WellFoundedInduction, TLAPS

\* The types; nothing in the sorted set is of the future, and nobody waits for
\* Redis longer than the client does.
LimitTypeInv ==
    /\ now \in 0..MaxTime
    /\ entries \subseteq 0..now
    /\ call \in [Request -> Check]
    /\ late \subseteq Request
    /\ \A r \in Request : call[r].stamp <= now
    /\ \A r \in Request : Pending(r) => now <= call[r].stamp + Patience

\* What was admitted in the window that ends now has an entry: scripts trim
\* by stamps, and those are not of the future.
Entered == \A r \in Request :
    call[r].at = "admitted" /\ call[r].stamp + Window > now => call[r].stamp \in entries

\* The script adds only where there is room.
Bounded == Cardinality(entries) <= Limit

LimitInv == LimitTypeInv /\ Entered /\ Bounded /\ WindowKept

-----------------------------------------------------------------------------
(* The script *)

LEMMA EntriesFinite ==
    ASSUME LimitTypeInv
    PROVE  IsFiniteSet(entries) /\ Cardinality(entries) \in Nat
  <1>1. now \in Int /\ entries \in SUBSET (0..now)
    BY LimitAssumption DEF LimitTypeInv
  <1>2. IsFiniteSet(0..now)
    BY <1>1, FS_Interval
  <1>3. IsFiniteSet(entries)
    BY <1>1, <1>2, FS_Subset
  <1>4. QED
    BY <1>3, FS_CardinalityType

LEMMA TrimmedFinite ==
    ASSUME LimitTypeInv, NEW s \in Nat
    PROVE  /\ Trimmed(entries, s) \subseteq entries
           /\ IsFiniteSet(Trimmed(entries, s))
           /\ Cardinality(Trimmed(entries, s)) \in Nat
           /\ Cardinality(Trimmed(entries, s)) <= Cardinality(entries)
  <1>1. Trimmed(entries, s) \subseteq entries
    BY DEF Trimmed
  <1>2. QED
    BY <1>1, EntriesFinite, FS_Subset, FS_CardinalityType

\* A script adds its stamp at most, leaves what is in the window that ends now,
\* and never exceeds the limit.
LEMMA ScriptEffect ==
    ASSUME LimitTypeInv, Bounded, NEW s \in 0..now, RunScript(s)
    PROVE  /\ entries' \subseteq 0..now
           /\ \A e \in entries : e + Window > now => e \in entries'
           /\ Bounded'
  <1>1. now \in Nat /\ entries \subseteq 0..now /\ s \in Nat
    BY LimitAssumption DEF LimitTypeInv
  <1>2. /\ Trimmed(entries, s) \subseteq entries
        /\ IsFiniteSet(Trimmed(entries, s))
        /\ Cardinality(Trimmed(entries, s)) \in Nat
        /\ Cardinality(Trimmed(entries, s)) <= Cardinality(entries)
        /\ Cardinality(entries) \in Nat
    BY <1>1, TrimmedFinite, EntriesFinite
  <1>3. entries' \subseteq 0..now
    BY <1>1, <1>2 DEF RunScript
  <1>4. ASSUME NEW e \in entries, e + Window > now
        PROVE  e \in entries'
    <2>1. e + Window > s
      BY <1>1, <1>4, LimitAssumption
    <2>2. e \in Trimmed(entries, s)
      BY <2>1 DEF Trimmed
    <2>3. QED
      BY <2>2 DEF RunScript
  <1>5. Cardinality(entries') <= Limit
    <2>1. CASE HasRoom(s)
      <3>1. entries' = Trimmed(entries, s) \cup {s}
        BY <2>1 DEF RunScript
      <3>2. Cardinality(entries') = IF s \in Trimmed(entries, s)
              THEN Cardinality(Trimmed(entries, s)) ELSE Cardinality(Trimmed(entries, s)) + 1
        BY <3>1, <1>2, FS_AddElement
      <3>3. Cardinality(Trimmed(entries, s)) < Limit
        BY <2>1 DEF HasRoom
      <3>4. QED
        BY <3>2, <3>3, <1>2, LimitAssumption
    <2>2. CASE ~HasRoom(s)
      <3>1. entries' = Trimmed(entries, s)
        BY <2>2 DEF RunScript
      <3>2. QED
        BY <3>1, <1>2, LimitAssumption DEF Bounded
    <2>3. QED
      BY <2>1, <2>2
  <1>6. QED
    BY <1>3, <1>4, <1>5 DEF Bounded

-----------------------------------------------------------------------------
(* The window *)

LEMMA StampsFinite ==
    ASSUME NEW a, NEW b
    PROVE  IsFiniteSet(AdmittedStamps(a, b))
  <1>1. IsFiniteSet(0..MaxTime)
    BY LimitAssumption, FS_Interval
  <1>2. AdmittedStamps(a, b) \subseteq 0..MaxTime
    BY DEF AdmittedStamps
  <1>3. QED
    BY <1>1, <1>2, FS_Subset

\* Steps that admit nobody.
LEMMA NobodyAdmitted ==
    ASSUME WindowKept,
           \A r \in Request : call'[r].at = "admitted" =>
               call[r].at = "admitted" /\ call'[r].stamp = call[r].stamp
    PROVE  WindowKept'
  <1> SUFFICES ASSUME NEW t \in 0..MaxTime
               PROVE  Cardinality(AdmittedStamps(t + Patience, t)') <= Limit
    BY DEF WindowKept
  <1> DEFINE before == AdmittedStamps(t + Patience, t)
             after == AdmittedStamps(t + Patience, t)'
  <1>1. after \subseteq before
    BY DEF AdmittedStamps
  <1>2. IsFiniteSet(before)
    BY StampsFinite
  <1>3. Cardinality(before) <= Limit
    BY DEF WindowKept
  <1> HIDE DEF before, after
  <1>4. /\ Cardinality(after) <= Cardinality(before)
        /\ Cardinality(after) \in Nat /\ Cardinality(before) \in Nat
    BY <1>1, <1>2, FS_Subset, FS_CardinalityType
  <1>5. Cardinality(after) <= Limit
    BY <1>3, <1>4, LimitAssumption
  <1>6. QED
    BY <1>5 DEF after

\* Request r is admitted.  Whatever else a window holds has an entry that the
\* script has counted: the window, shortened by the patience of the client,
\* has begun after the entries that any script can have trimmed by now.
LEMMA OneAdmitted ==
    ASSUME LimitTypeInv, Entered, WindowKept, NEW r \in Request, Pending(r),
           HasRoom(call[r].stamp),
           call' = [call EXCEPT ![r] = [@ EXCEPT !.at = "admitted"]]
    PROVE  WindowKept'
  <1> DEFINE s == call[r].stamp
             counted == Trimmed(entries, s)
  <1>1. /\ s \in Nat /\ s <= now /\ now <= s + Patience /\ now \in Nat
        /\ call \in [Request -> Check] /\ call[r] \in Check
    BY LimitAssumption DEF LimitTypeInv, Check
  <1>2. IsFiniteSet(counted) /\ Cardinality(counted) \in Nat /\ Cardinality(counted) < Limit
    BY <1>1, TrimmedFinite DEF HasRoom
  <1>3. \A q \in Request \ {r} : call'[q] = call[q]
    BY <1>1
  <1>4. call'[r].at = "admitted" /\ call'[r].stamp = s
    BY <1>1 DEF Check
  <1> SUFFICES ASSUME NEW t \in 0..MaxTime
               PROVE  Cardinality(AdmittedStamps(t + Patience, t)') <= Limit
    BY DEF WindowKept
  <1> DEFINE before == AdmittedStamps(t + Patience, t)
             after == AdmittedStamps(t + Patience, t)'
  <1>5. t \in Nat /\ Patience \in Nat /\ Window \in Nat
    BY LimitAssumption
  <1>6. after \subseteq before \cup {s}
    BY <1>3, <1>4 DEF AdmittedStamps
  <1>7. IsFiniteSet(before) /\ Cardinality(before) <= Limit
    BY StampsFinite DEF WindowKept
  <1>8. CASE s \in after
    <2>1. s <= t
      BY <1>8 DEF AdmittedStamps
    <2>2. ASSUME NEW e \in before
          PROVE  e \in counted
      <3>1. e \in 0..MaxTime /\ t + Patience < e + Window
        BY <2>2 DEF AdmittedStamps
      <3>2. PICK q \in Request : call[q].at = "admitted" /\ call[q].stamp = e
        BY <2>2 DEF AdmittedStamps
      <3>3. e + Window > now /\ e + Window > s
        BY <3>1, <2>1, <1>1, <1>5
      <3>4. e \in entries
        BY <3>2, <3>3 DEF Entered
      <3>5. QED
        BY <3>3, <3>4 DEF Trimmed
    <2>3. after \subseteq counted \cup {s}
      BY <1>6, <2>2
    <2> HIDE DEF before, after, counted, s
    <2>4. /\ IsFiniteSet(counted \cup {s})
          /\ Cardinality(counted \cup {s}) <= Cardinality(counted) + 1
          /\ Cardinality(counted \cup {s}) \in Nat
      BY <1>2, FS_AddElement
    <2>5. Cardinality(after) <= Cardinality(counted \cup {s}) /\ Cardinality(after) \in Nat
      BY <2>3, <2>4, FS_Subset, FS_CardinalityType
    <2>6. Cardinality(after) <= Limit
      BY <1>2, <2>4, <2>5, LimitAssumption
    <2>7. QED
      BY <2>6 DEF after
  <1>9. CASE s \notin after
    <2>1. after \subseteq before
      BY <1>6, <1>9
    <2> HIDE DEF before, after, counted, s
    <2>2. /\ Cardinality(after) <= Cardinality(before)
          /\ Cardinality(after) \in Nat /\ Cardinality(before) \in Nat
      BY <2>1, <1>7, FS_Subset, FS_CardinalityType
    <2>3. Cardinality(after) <= Limit
      BY <1>7, <2>2, LimitAssumption
    <2>4. QED
      BY <2>3 DEF after
  <1>10. QED
    BY <1>8, <1>9

-----------------------------------------------------------------------------
(* Retry-After *)

LEMMA CeilBounds ==
    ASSUME NEW n \in Nat \ {0}
    PROVE  /\ Ceil(n) \in Nat \ {0}
           /\ n <= Ceil(n) * Second
           /\ (Ceil(n) - 1) * Second < n
  <1> DEFINE q == (n + Second - 1) \div Second
  <1>1. n + Second - 1 \in Nat /\ Second \in Nat \ {0}
    BY LimitAssumption
  <1>2. q \in Int /\ q * Second <= n + Second - 1 /\ n + Second - 1 < (q + 1) * Second
    BY <1>1
  <1>3. Ceil(n) = q
    BY DEF Ceil
  <1> HIDE DEF q
  <1>4. (q + 1) * Second = q * Second + Second /\ (q - 1) * Second = q * Second - Second
    BY <1>1, <1>2
  <1>5. q * Second \in Int
    BY <1>1, <1>2
  <1>6. n <= q * Second /\ (q - 1) * Second < n
    BY <1>1, <1>2, <1>4, <1>5
  <1>7. q >= 1
    <2>1. CASE q <= 0
      <3>1. q * Second <= 0
        BY <1>1, <1>2, <2>1
      <3>2. QED
        BY <1>5, <1>6, <3>1
    <2>2. QED
      BY <1>2, <2>1
  <1>8. QED
    BY <1>2, <1>3, <1>6, <1>7

LEMMA LeastExists ==
    ASSUME NEW S \in SUBSET Nat, S # {}
    PROVE  \E m \in S : \A k \in S : m <= k
  <1> DEFINE R == {p \in Nat \X Nat : p[1] < p[2]}
  <1>1. IsWellFoundedOn(R, Nat)
    BY NatLessThanWellFounded DEF OpToRel
  <1>2. S \subseteq Nat /\ S # {}
    OBVIOUS
  <1>3. \E x \in S : \A y \in S : ~(<<y, x>> \in R)
    <2> HIDE DEF R
    <2> QED
      BY <1>1, <1>2, WFMin, Zenon
  <1>4. PICK x \in S : \A y \in S : ~(<<y, x>> \in R)
    BY <1>3
  <1>5. \A y \in S : ~(y < x)
    BY <1>4
  <1>6. QED
    BY <1>5

\* What a refused request is told is computed from the oldest entry it counts.
LEMMA OldestCounted ==
    ASSUME LimitTypeInv, NEW s \in 0..now, ~HasRoom(s)
    PROVE  LET T == Trimmed(entries, s) IN
           /\ Min(T) \in T
           /\ \A e \in T : Min(T) <= e
           /\ T \subseteq Nat
           /\ Min(T) + Window - s \in Nat \ {0}
           /\ RetryAfter(s) \in Nat \ {0}
  <1> DEFINE T == Trimmed(entries, s)
  <1>1. now \in Nat /\ s \in Nat /\ entries \subseteq 0..now
    BY LimitAssumption DEF LimitTypeInv
  <1>2. T \subseteq Nat /\ \A e \in T : e + Window > s
    <2>1. \A e \in 0..now : e \in Nat
      BY <1>1
    <2>2. \A e \in T : e \in entries /\ e + Window > s
      BY DEF Trimmed
    <2>3. QED
      BY <1>1, <2>1, <2>2
  <1>3. T # {}
    <2>1. Cardinality(T) >= Limit /\ Cardinality(T) \in Nat
      BY <1>1, TrimmedFinite, LimitAssumption DEF HasRoom
    <2>2. QED
      BY <2>1, FS_EmptySet, LimitAssumption
  <1>4. PICK m \in T : \A e \in T : m <= e
    <2> HIDE DEF T
    <2> QED
      BY <1>2, <1>3, LeastExists
  <1>5. Min(T) \in T /\ \A e \in T : Min(T) <= e
    <2> HIDE DEF T
    <2> QED
      BY <1>4 DEF Min
  <1>6. Min(T) + Window - s \in Nat \ {0}
    <2> DEFINE m2 == Min(T)
    <2>1. m2 \in Nat /\ m2 + Window > s
      BY <1>2, <1>5
    <2> HIDE DEF m2, T
    <2>2. m2 + Window - s \in Nat \ {0}
      BY <1>1, <2>1, LimitAssumption
    <2>3. QED
      BY <2>2 DEF m2
  <1>7. RetryAfter(s) \in Nat \ {0}
    BY <1>6, CeilBounds DEF RetryAfter
  <1>8. QED
    BY <1>2, <1>5, <1>6, <1>7

\* Retry-After leads to the first time, in seconds from the stamp, at which the
\* entries that are there leave room.
RetryExact(r) ==
    LET seen(k) == Cardinality(Trimmed(entries', call[r].stamp + k * Second))
        k == call'[r].retry
    IN k > 0 /\ seen(k) < Limit /\ seen(k - 1) >= Limit

LEMMA DeniedExact ==
    ASSUME LimitTypeInv, Bounded, NEW r \in Request, ~HasRoom(call[r].stamp),
           RunScript(call[r].stamp), call'[r].retry = RetryAfter(call[r].stamp)
    PROVE  RetryExact(r)
  <1> DEFINE s == call[r].stamp
             T == Trimmed(entries, s)
             m == Min(T)
             k == RetryAfter(s)
             n == m + Window - s
             later == s + k * Second
             before == s + (k - 1) * Second
  <1>1. s \in 0..now /\ s \in Nat
    BY LimitAssumption DEF LimitTypeInv, Check
  <1>2. /\ m \in T /\ T \subseteq Nat /\ n \in Nat \ {0} /\ k \in Nat \ {0}
        /\ \A e \in T : m <= e
    BY <1>1, OldestCounted
  <1>3. k = Ceil(n)
    BY DEF RetryAfter
  <1>4. entries' = T
    BY DEF RunScript
  <1>5. IsFiniteSet(T) /\ Cardinality(T) \in Nat /\ Cardinality(T) = Limit
    BY <1>1, TrimmedFinite, EntriesFinite, LimitAssumption DEF HasRoom, Bounded
  <1>6. n <= k * Second /\ (k - 1) * Second < n
    <2> HIDE DEF n, k
    <2> QED
      BY <1>2, <1>3, CeilBounds
  <1>7. k * Second \in Int /\ (k - 1) * Second \in Int /\ m \in Nat /\ Window \in Nat
    BY <1>2, LimitAssumption
  <1>8. later \in Int /\ m + Window <= later /\ before \in Int /\ before < m + Window
    <2> DEFINE a == k * Second
               b == (k - 1) * Second
    <2>1. a \in Int /\ b \in Int /\ n <= a /\ b < n
      BY <1>6, <1>7
    <2> HIDE DEF a, b, m, k, s
    <2>2. m + Window <= s + a /\ s + b < m + Window /\ s + a \in Int /\ s + b \in Int
      BY <1>1, <1>7, <2>1
    <2>3. QED
      BY <2>2 DEF a, b
  <1> HIDE DEF later, before, n, k, m, s
  <1>9. Cardinality(Trimmed(T, later)) < Limit
    <2>1. Trimmed(T, later) \subseteq T \ {m}
      BY <1>2, <1>7, <1>8 DEF Trimmed
    <2>2. IsFiniteSet(T \ {m}) /\ Cardinality(T \ {m}) = Cardinality(T) - 1
      BY <1>2, <1>5, FS_RemoveElement
    <2>3. Cardinality(Trimmed(T, later)) <= Cardinality(T \ {m}) /\ Cardinality(Trimmed(T, later)) \in Nat
      BY <2>1, <2>2, FS_Subset, FS_CardinalityType
    <2>4. QED
      BY <1>5, <2>2, <2>3, LimitAssumption
  <1>10. Cardinality(Trimmed(T, before)) >= Limit
    <2>1. \A e \in T : e + Window > before
      <3> SUFFICES ASSUME NEW e \in T PROVE e + Window > before
        OBVIOUS
      <3>1. e \in Nat /\ m <= e
        BY <1>2
      <3>2. QED
        BY <1>7, <1>8, <3>1
    <2>2. Trimmed(T, before) = T
      BY <2>1 DEF Trimmed
    <2>3. QED
      BY <1>5, <2>2, LimitAssumption
  <1>11. call'[r].retry = k
    BY DEF k, s
  <1>12. Trimmed(entries', call[r].stamp + k * Second) = Trimmed(T, later)
    BY <1>4 DEF later, s
  <1>13. Trimmed(entries', call[r].stamp + (k - 1) * Second) = Trimmed(T, before)
    BY <1>4 DEF before, s
  <1>14. QED
    BY <1>2, <1>9, <1>10, <1>11, <1>12, <1>13 DEF RetryExact

-----------------------------------------------------------------------------
(* Steps *)

LEMMA InitLimitInv == Init => LimitInv
  <1> SUFFICES ASSUME Init PROVE LimitInv
    OBVIOUS
  <1>1. LimitTypeInv /\ Entered
    BY LimitAssumption DEF Init, LimitTypeInv, Entered, Check, Pending
  <1>2. Bounded
    BY LimitAssumption, FS_EmptySet DEF Init, Bounded
  <1>3. ASSUME NEW t \in 0..MaxTime
        PROVE  Cardinality(AdmittedStamps(t + Patience, t)) <= Limit
    <2>1. AdmittedStamps(t + Patience, t) = {}
      BY DEF Init, AdmittedStamps
    <2>2. QED
      BY <2>1, LimitAssumption, FS_EmptySet
  <1>4. QED
    BY <1>1, <1>2, <1>3 DEF LimitInv, WindowKept

LEMMA ArriveKeeps ==
    ASSUME LimitInv, NEW r \in Request, Arrive(r)
    PROVE  LimitInv'
  <1>1. LimitTypeInv /\ Entered /\ Bounded /\ WindowKept
    BY DEF LimitInv
  <1>2. /\ call[r].at = "idle" /\ now' = now /\ entries' = entries /\ late' = late
        /\ \A q \in Request \ {r} : call'[q] = call[q]
        /\ call'[r].at = "sent" /\ call'[r].stamp = now
        /\ call' \in [Request -> Check]
    BY <1>1 DEF Arrive, LimitTypeInv, Check
  <1>3. LimitTypeInv'
    BY <1>1, <1>2, LimitAssumption DEF LimitTypeInv, Pending
  <1>4. Entered' /\ Bounded'
    BY <1>1, <1>2 DEF Entered, Bounded
  <1>5. WindowKept'
    BY <1>1, <1>2, NobodyAdmitted
  <1>6. QED
    BY <1>3, <1>4, <1>5 DEF LimitInv

\* A script runs with a stamp that is not of the future, and calls change only
\* where they neither are nor become admitted.
LEMMA ScriptKeeps ==
    ASSUME LimitInv, NEW s \in 0..now, RunScript(s), now' = now,
           call' \in [Request -> Check], late' \subseteq Request,
           \A q \in Request : call'[q].stamp = call[q].stamp,
           \A q \in Request : call'[q].at = "admitted" => call[q].at = "admitted",
           \A q \in Request : Pending(q)' => Pending(q)
    PROVE  LimitInv'
  <1>1. LimitTypeInv /\ Entered /\ Bounded /\ WindowKept
    BY DEF LimitInv
  <1>2. /\ entries' \subseteq 0..now
        /\ \A e \in entries : e + Window > now => e \in entries'
        /\ Bounded'
    BY <1>1, ScriptEffect
  <1>3. LimitTypeInv'
    BY <1>1, <1>2 DEF LimitTypeInv
  <1>4. Entered'
    BY <1>1, <1>2 DEF Entered
  <1>5. WindowKept'
    BY <1>1, NobodyAdmitted
  <1>6. QED
    BY <1>2, <1>3, <1>4, <1>5 DEF LimitInv

LEMMA AnsweredKeeps ==
    ASSUME LimitInv, NEW r \in Request, Answered(r)
    PROVE  LimitInv'
  <1> DEFINE s == call[r].stamp
  <1>1. LimitTypeInv /\ Entered /\ Bounded /\ WindowKept
    BY DEF LimitInv
  <1>2. /\ s \in 0..now /\ s \in 0..MaxTime /\ Pending(r) /\ RunScript(s) /\ now' = now /\ late' = late
        /\ call \in [Request -> Check] /\ call[r] \in Check
    BY <1>1, LimitAssumption DEF Answered, LimitTypeInv, Check
  <1>3. CASE HasRoom(s)
    <2>1. call' = [call EXCEPT ![r] = [@ EXCEPT !.at = "admitted"]]
      BY <1>3 DEF Answered
    <2>2. /\ call' \in [Request -> Check]
          /\ call'[r].at = "admitted" /\ call'[r].stamp = s
          /\ \A q \in Request \ {r} : call'[q] = call[q]
      BY <1>2, <2>1 DEF Check
    <2>3. /\ entries' \subseteq 0..now
          /\ \A e \in entries : e + Window > now => e \in entries'
          /\ Bounded'
      BY <1>1, <1>2, ScriptEffect
    <2>4. s \in entries'
      BY <1>3 DEF RunScript, Answered
    <2>5. LimitTypeInv'
      BY <1>1, <1>2, <2>2, <2>3 DEF LimitTypeInv, Pending
    <2>6. Entered'
      BY <1>1, <1>2, <2>2, <2>3, <2>4 DEF Entered
    <2>7. WindowKept'
      BY <1>1, <1>2, <1>3, <2>1, OneAdmitted
    <2>8. QED
      BY <2>3, <2>5, <2>6, <2>7 DEF LimitInv
  <1>4. CASE ~HasRoom(s)
    <2>1. call' = [call EXCEPT ![r] = [@ EXCEPT !.at = "denied", !.retry = RetryAfter(s)]]
      BY <1>4 DEF Answered
    <2>2. RetryAfter(s) \in Nat
      BY <1>1, <1>2, <1>4, OldestCounted
    <2>3. /\ call' \in [Request -> Check]
          /\ call'[r].at = "denied" /\ call'[r].stamp = s
          /\ \A q \in Request \ {r} : call'[q] = call[q]
      BY <1>2, <2>1, <2>2 DEF Check
    <2>4. \A q \in Request : Pending(q)' => Pending(q)
      BY <2>3 DEF Pending
    <2>5. late' \subseteq Request
      BY <1>1, <1>2 DEF LimitTypeInv
    <2>6. QED
      BY <1>2, <2>3, <2>4, <2>5, ScriptKeeps
  <1>5. QED
    BY <1>3, <1>4

LEMMA AnswerLostKeeps ==
    ASSUME LimitInv, NEW r \in Request, AnswerLost(r)
    PROVE  LimitInv'
  <1>1. /\ call[r].stamp \in 0..now /\ call \in [Request -> Check] /\ call[r] \in Check
        /\ late' \subseteq Request /\ now' = now /\ RunScript(call[r].stamp)
    BY LimitAssumption DEF LimitInv, LimitTypeInv, Check, AnswerLost
  <1>2. /\ call' \in [Request -> Check] /\ call[r].at = "sent"
        /\ call'[r].at = "resent" /\ call'[r].stamp = call[r].stamp
        /\ \A q \in Request \ {r} : call'[q] = call[q]
    BY <1>1 DEF AnswerLost, Check
  <1>3. \A q \in Request : Pending(q)' => Pending(q)
    BY <1>2 DEF Pending
  <1>4. QED
    BY <1>1, <1>2, <1>3, ScriptKeeps

LEMMA LateRunKeeps ==
    ASSUME LimitInv, NEW r \in Request, LateRun(r)
    PROVE  LimitInv'
  <1>1. /\ call[r].stamp \in 0..now /\ call \in [Request -> Check]
        /\ late' \subseteq Request /\ now' = now /\ call' = call /\ RunScript(call[r].stamp)
    BY LimitAssumption DEF LimitInv, LimitTypeInv, Check, LateRun
  <1>2. \A q \in Request : Pending(q)' => Pending(q)
    BY <1>1 DEF Pending
  <1>3. QED
    BY <1>1, <1>2, ScriptKeeps

\* Steps in which no script runs and nobody is admitted.
LEMMA WaitingKeeps ==
    ASSUME LimitInv, NEW r \in Request, Resend(r) \/ GiveUp(r)
    PROVE  LimitInv'
  <1>1. LimitTypeInv /\ Entered /\ Bounded /\ WindowKept
    BY DEF LimitInv
  <1>2. /\ now' = now /\ entries' = entries /\ late' \subseteq Request
        /\ call' \in [Request -> Check] /\ Pending(r)
        /\ call'[r].at \in {"resent", "unchecked"} /\ call'[r].stamp = call[r].stamp
        /\ \A q \in Request \ {r} : call'[q] = call[q]
    BY <1>1 DEF Resend, GiveUp, LimitTypeInv, Check, Pending
  <1>3. LimitTypeInv'
    BY <1>1, <1>2 DEF LimitTypeInv, Pending
  <1>4. Entered' /\ Bounded'
    BY <1>1, <1>2 DEF Entered, Bounded
  <1>5. WindowKept'
    BY <1>1, <1>2, NobodyAdmitted
  <1>6. QED
    BY <1>3, <1>4, <1>5 DEF LimitInv

LEMMA TickKeeps ==
    ASSUME LimitInv, Tick
    PROVE  LimitInv'
  <1>1. LimitTypeInv /\ Entered /\ Bounded /\ WindowKept
    BY DEF LimitInv
  <1>2. now \in Nat /\ now' = now + 1 /\ now' \in 0..MaxTime /\ UNCHANGED <<entries, call, late>>
    BY <1>1, LimitAssumption DEF Tick, LimitTypeInv
  <1>3. LimitTypeInv'
    <2>1. \A r \in Request : call[r].stamp \in Nat
      BY <1>1 DEF LimitTypeInv, Check
    <2>2. \A r \in Request : Pending(r)' => now' <= call'[r].stamp + Patience
      BY <1>2, <2>1, LimitAssumption DEF Tick, Pending
    <2>3. QED
      BY <1>1, <1>2, <2>1, <2>2 DEF LimitTypeInv
  <1>4. Entered' /\ Bounded'
    BY <1>1, <1>2, LimitAssumption DEF Entered, Bounded, LimitTypeInv, Check
  <1>5. WindowKept'
    BY <1>1, <1>2, NobodyAdmitted
  <1>6. QED
    BY <1>3, <1>4, <1>5 DEF LimitInv

LEMMA StepKeepsLimitInv == LimitInv /\ [Next]_vars => LimitInv'
  <1> SUFFICES ASSUME LimitInv, [Next]_vars PROVE LimitInv'
    OBVIOUS
  <1>1. ASSUME NEW r \in Request,
               Arrive(r) \/ Answered(r) \/ AnswerLost(r) \/ Resend(r) \/ GiveUp(r) \/ LateRun(r)
        PROVE  LimitInv'
    BY <1>1, ArriveKeeps, AnsweredKeeps, AnswerLostKeeps, WaitingKeeps, LateRunKeeps
  <1>2. CASE Tick
    BY <1>2, TickKeeps
  <1>3. CASE UNCHANGED vars
    BY <1>3 DEF vars, LimitInv, LimitTypeInv, Pending, Entered, Bounded, WindowKept, AdmittedStamps
  <1>4. QED
    BY <1>1, <1>2, <1>3 DEF Next

\* The inductive invariant: what is admitted in the window has an entry, and
\* there are no more entries than the limit.
LEMMA LimitInvariant == Spec => []LimitInv
  <1>1. Init => LimitInv
    BY InitLimitInv
  <1>2. LimitInv /\ [Next]_vars => LimitInv'
    BY StepKeepsLimitInv
  <1>3. QED
    BY <1>1, <1>2, PTL DEF Spec

\* No window, shortened by the patience of the client of Redis, holds more
\* admitted stamps than the limit, whatever the order of the scripts.
THEOREM LimitWindowKept == Spec => []WindowKept
  <1>1. LimitInv => WindowKept
    BY DEF LimitInv
  <1>2. QED
    BY <1>1, LimitInvariant, PTL

\* Retry-After is the first second at which the entries leave room.
THEOREM LimitRetryHonest == Spec => RetryHonest
  <1> DEFINE Told == \A r \in Request :
                call[r].at # "denied" /\ call'[r].at = "denied" => RetryExact(r)
  <1>1. LimitInv /\ [Next]_vars => [Told]_vars
    <2> SUFFICES ASSUME LimitInv, Next, NEW r \in Request,
                        call[r].at # "denied", call'[r].at = "denied"
                 PROVE  RetryExact(r)
      OBVIOUS
    <2>1. LimitTypeInv /\ Bounded /\ call \in [Request -> Check]
      BY DEF LimitInv, LimitTypeInv
    <2>2. Answered(r)
      <3>1. ASSUME NEW q \in Request,
                   Arrive(q) \/ AnswerLost(q) \/ Resend(q) \/ GiveUp(q) \/ LateRun(q)
            PROVE  FALSE
        BY <2>1, <3>1 DEF Arrive, AnswerLost, Resend, GiveUp, LateRun, Check
      <3>2. ASSUME NEW q \in Request, q # r, Answered(q)
            PROVE  FALSE
        BY <2>1, <3>2 DEF Answered
      <3>3. ~Tick
        BY DEF Tick
      <3>4. QED
        BY <3>1, <3>2, <3>3 DEF Next
    <2>3. ~HasRoom(call[r].stamp)
      BY <2>1, <2>2 DEF Answered, Check
    <2>4. RunScript(call[r].stamp) /\ call'[r].retry = RetryAfter(call[r].stamp)
      BY <2>1, <2>2, <2>3 DEF Answered, Check
    <2>5. QED
      BY <2>1, <2>3, <2>4, DeniedExact
  <1>2. QED
    BY <1>1, LimitInvariant, PTL DEF Spec, RetryHonest, RetryExact
=============================================================================
