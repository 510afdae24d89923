----------------------------- MODULE AgentProofs -----------------------------
(***************************************************************************)
(* The agent in its container: the events of its turns and its file tools. *)
(*                                                                         *)
(* The events of a turn for any tools, messages, window and counters, and  *)
(* any cutting of the bytes: the client is shown what the agent has        *)
(* written, in order; results carry the names of their calls; every turn   *)
(* is answered; what is kept is what was shown.                            *)
(*                                                                         *)
(* The tools for any files, sizes and limits: images stay those of their   *)
(* pages; a search finds the first matches; an outline counts all of the   *)
(* text below its headings; the hints lead through the whole file.         *)
(***************************************************************************)
EXTENDS EventStream, FileTools, SequenceTheorems, FiniteSetTheorems, WellFoundedInduction, TLAPS

-----------------------------------------------------------------------------
(* Events of some types *)

LEMMA SetInduction ==
    ASSUME NEW S, 0 \in S, \A n \in Nat : n \in S => n + 1 \in S
    PROVE  \A n \in Nat : n \in S
  <1> SUFFICES ASSUME NEW k \in Nat, k \notin S
               PROVE  FALSE
    OBVIOUS
  <1> DEFINE Bad == {U \in FiniteSubsetsOf(Nat) : \E m \in Nat : U = 1..m /\ m \notin S}
  <1>1. 1..k \in Bad
    <2>1. IsFiniteSet(1..k)
      BY FS_Interval
    <2>2. QED
      BY <2>1 DEF FiniteSubsetsOf
  <1>2. PICK U \in Bad : \A V \in Bad : <<V, U>> \notin StrictSubsetOrdering(Nat)
    <2>1. IsWellFoundedOn(StrictSubsetOrdering(Nat), FiniteSubsetsOf(Nat))
      BY FS_StrictSubsetOrderingWellFounded
    <2>2. Bad \subseteq FiniteSubsetsOf(Nat)
      OBVIOUS
    <2> HIDE DEF Bad
    <2>3. QED
      BY <1>1, <2>1, <2>2, WFMin, Zenon
  <1>3. PICK m \in Nat : U = 1..m /\ m \notin S
    OBVIOUS
  <1>4. m - 1 \in Nat /\ m - 1 \notin S
    BY <1>3
  <1>5. 1..(m - 1) \in Bad
    <2>1. IsFiniteSet(1..(m - 1))
      BY <1>4, FS_Interval
    <2>2. QED
      BY <1>4, <2>1 DEF FiniteSubsetsOf
  <1>6. <<1..(m - 1), U>> \in StrictSubsetOrdering(Nat)
    BY <1>3, <1>4 DEF StrictSubsetOrdering
  <1>7. QED
    BY <1>2, <1>5, <1>6

\* How many events are kept from one to the next.
Step(s, types, f, n) ==
    f[n] = IF n = 0 THEN <<>>
           ELSE IF s[n].type \in types THEN Append(f[n - 1], s[n]) ELSE f[n - 1]
Keeps(s, types, f) ==
    f = [n \in 0..Len(s) |->
            IF n = 0 THEN <<>>
            ELSE IF s[n].type \in types THEN Append(f[n - 1], s[n]) ELSE f[n - 1]]

LEMMA KeepsExists ==
    ASSUME NEW S, NEW s \in Seq(S), NEW types
    PROVE  \E f : Keeps(s, types, f)
  <1> DEFINE Body(f, n) == IF n = 0 THEN <<>>
                  ELSE IF s[n].type \in types THEN Append(f[n - 1], s[n]) ELSE f[n - 1]
             Good == {n \in Nat : n > Len(s) \/ \E f : f = [i \in 0..n |-> Body(f, i)]}
  <1>1. 0 \in Good
    <2>1. [i \in 0..0 |-> <<>>] = [i \in 0..0 |-> Body([j \in 0..0 |-> <<>>], i)]
      OBVIOUS
    <2>2. QED
      BY <2>1, Zenon
  <1>2. ASSUME NEW n \in Nat, n \in Good
        PROVE  n + 1 \in Good
    <2> SUFFICES ASSUME n + 1 <= Len(s)
                 PROVE  \E f : f = [i \in 0..n + 1 |-> Body(f, i)]
      <3> HIDE DEF Body
      <3>1. QED
        OBVIOUS
    <2>1. PICK g : g = [i \in 0..n |-> Body(g, i)]
      <3>1. ~(n > Len(s))
        OBVIOUS
      <3> HIDE DEF Body
      <3>2. QED
        BY <1>2, <3>1
    <2> DEFINE f == [i \in 0..n + 1 |-> IF i <= n THEN g[i] ELSE Body(g, n + 1)]
    <2>2. f = [i \in 0..n + 1 |-> Body(f, i)]
      <3>1. \A i \in 0..n : g[i] = Body(g, i)
        BY <2>1
      <3>2. \A i \in 0..n : f[i] = g[i]
        OBVIOUS
      <3>3. f[n + 1] = Body(g, n + 1)
        OBVIOUS
      <3>4. \A i \in 0..n + 1 : Body(f, i) = Body(g, i)
        BY <3>2
      <3>5. \A i \in 0..n + 1 : f[i] = Body(f, i)
        BY <3>1, <3>2, <3>3, <3>4
      <3>6. QED
        BY <3>5
    <2>3. QED
      BY <2>2
  <1>3. Len(s) \in Good
    <2> HIDE DEF Good
    <2>1. QED
      BY <1>1, <1>2, SetInduction
  <1>4. QED
    BY <1>3 DEF Keeps

LEMMA OfTypeSteps ==
    ASSUME NEW S, NEW s \in Seq(S), NEW types
    PROVE  \E f : Keeps(s, types, f) /\ OfType(s, types) = f[Len(s)]
  <1>1. PICK f : Keeps(s, types, f)
    BY KeepsExists
  <1> DEFINE g == CHOOSE h : h = [n \in 0..Len(s) |->
                    IF n = 0 THEN <<>>
                    ELSE IF s[n].type \in types THEN Append(h[n - 1], s[n]) ELSE h[n - 1]]
  <1>2. Keeps(s, types, g)
    BY <1>1, Zenon DEF Keeps
  <1>3. OfType(s, types) = g[Len(s)]
    BY Zenon DEF OfType
  <1>4. QED
    BY <1>2, <1>3

LEMMA KeepsAt ==
    ASSUME NEW S, NEW s \in Seq(S), NEW types, NEW f, Keeps(s, types, f)
    PROVE  /\ f[0] = <<>>
           /\ \A n \in 0..Len(s) - 1 : f[n + 1] =
                IF s[n + 1].type \in types THEN Append(f[n], s[n + 1]) ELSE f[n]
  <1>1. Len(s) \in Nat
    OBVIOUS
  <1>2. \A i \in 0..Len(s) : f[i] =
          IF i = 0 THEN <<>>
          ELSE IF s[i].type \in types THEN Append(f[i - 1], s[i]) ELSE f[i - 1]
    BY Zenon DEF Keeps
  <1>3. f[0] = <<>>
    BY <1>1, <1>2
  <1>4. ASSUME NEW n \in 0..Len(s) - 1
        PROVE  f[n + 1] = IF s[n + 1].type \in types THEN Append(f[n], s[n + 1]) ELSE f[n]
    <2>1. n + 1 \in 0..Len(s) /\ n + 1 # 0 /\ (n + 1) - 1 = n
      BY <1>1
    <2>2. f[n + 1] = IF s[n + 1].type \in types
                     THEN Append(f[(n + 1) - 1], s[n + 1]) ELSE f[(n + 1) - 1]
      BY <1>2, <2>1
    <2>3. QED
      BY <2>1, <2>2, Zenon
  <1>5. QED
    BY <1>3, <1>4

LEMMA OfTypeSeq ==
    ASSUME NEW S, NEW s \in Seq(S), NEW types
    PROVE  OfType(s, types) \in Seq(S)
  <1>1. PICK f : Keeps(s, types, f) /\ OfType(s, types) = f[Len(s)]
    BY OfTypeSteps
  <1> DEFINE Good == {n \in Nat : n > Len(s) \/ f[n] \in Seq(S)}
  <1>2. 0 \in Good
    <2>1. <<>> \in Seq(S) /\ f[0] = <<>>
      BY <1>1, KeepsAt
    <2>2. QED
      BY <2>1
  <1>3. ASSUME NEW n \in Nat, n \in Good
        PROVE  n + 1 \in Good
    <2> SUFFICES ASSUME n + 1 <= Len(s)
                 PROVE  f[n + 1] \in Seq(S)
      OBVIOUS
    <2>1. f[n + 1] = IF s[n + 1].type \in types THEN Append(f[n], s[n + 1]) ELSE f[n]
      BY <1>1, KeepsAt
    <2>2. f[n] \in Seq(S) /\ s[n + 1] \in S
      BY <1>3
    <2>3. QED
      BY <2>1, <2>2
  <1>4. Len(s) \in Good
    <2> HIDE DEF Good
    <2>1. QED
      BY <1>2, <1>3, SetInduction
  <1>5. QED
    BY <1>1, <1>4

Joined(S, f, g, h, k, n) == h[k + n] = f[k] \o g[n] /\ g[n] \in Seq(S)

LEMMA OfTypeJoin ==
    ASSUME NEW S, NEW s \in Seq(S), NEW t \in Seq(S), NEW types
    PROVE  OfType(s \o t, types) = OfType(s, types) \o OfType(t, types)
  <1>1. PICK f : Keeps(s, types, f) /\ OfType(s, types) = f[Len(s)]
    BY OfTypeSteps
  <1>2. PICK g : Keeps(t, types, g) /\ OfType(t, types) = g[Len(t)]
    BY OfTypeSteps
  <1>3. s \o t \in Seq(S)
    OBVIOUS
  <1>4. PICK h : Keeps(s \o t, types, h) /\ OfType(s \o t, types) = h[Len(s \o t)]
    BY <1>3, OfTypeSteps
  <1>5. /\ Len(s) \in Nat /\ Len(t) \in Nat /\ Len(s \o t) = Len(s) + Len(t)
        /\ \A i \in 1..Len(s) : (s \o t)[i] = s[i] /\ s[i] \in S
        /\ \A i \in 1..Len(t) : (s \o t)[Len(s) + i] = t[i] /\ t[i] \in S
    OBVIOUS
  <1> DEFINE k == Len(s)
             m == Len(t)
             u == s \o t
  <1> HIDE DEF k, m, u
  <1>6. /\ f[0] = <<>>
        /\ \A n \in 0..k - 1 : f[n + 1] =
             IF s[n + 1].type \in types THEN Append(f[n], s[n + 1]) ELSE f[n]
    BY <1>1, KeepsAt DEF k
  <1>7. /\ g[0] = <<>>
        /\ \A n \in 0..m - 1 : g[n + 1] =
             IF t[n + 1].type \in types THEN Append(g[n], t[n + 1]) ELSE g[n]
    BY <1>2, KeepsAt DEF m
  <1>8. /\ k \in Nat /\ m \in Nat
        /\ \A i \in 1..k : u[i] = s[i] /\ s[i] \in S
        /\ \A i \in 1..m : u[k + i] = t[i] /\ t[i] \in S
    BY <1>5 DEF k, m, u
  <1>9. /\ h[0] = <<>>
        /\ \A n \in 0..k + m - 1 : h[n + 1] =
             IF u[n + 1].type \in types THEN Append(h[n], u[n + 1]) ELSE h[n]
    <2>1. Len(u) = k + m /\ k + m \in Nat
      BY <1>5 DEF k, m, u
    <2>2. Keeps(u, types, h) /\ u \in Seq(S)
      BY <1>3, <1>4 DEF u
    <2>3. /\ h[0] = <<>>
          /\ \A n \in 0..Len(u) - 1 : h[n + 1] =
               IF u[n + 1].type \in types THEN Append(h[n], u[n + 1]) ELSE h[n]
      BY <2>2, KeepsAt
    <2>4. ASSUME NEW n \in 0..k + m - 1
          PROVE  h[n + 1] = IF u[n + 1].type \in types THEN Append(h[n], u[n + 1]) ELSE h[n]
      <3>1. n \in 0..Len(u) - 1
        BY <1>8, <2>1
      <3>2. QED
        BY <2>3, <3>1, Zenon
    <2>5. QED
      BY <2>3, <2>4
  <1> DEFINE Same == {n \in Nat : n > k \/ (h[n] = f[n] /\ f[n] \in Seq(S))}
  <1>10. 0 \in Same
    <2>1. <<>> \in Seq(S)
      OBVIOUS
    <2>2. QED
      BY <1>6, <1>9, <2>1
  <1>11. ASSUME NEW n \in Nat, n \in Same
         PROVE  n + 1 \in Same
    <2> SUFFICES ASSUME n + 1 <= k
                 PROVE  h[n + 1] = f[n + 1] /\ f[n + 1] \in Seq(S)
      BY <1>8
    <2>1. h[n] = f[n] /\ f[n] \in Seq(S) /\ u[n + 1] = s[n + 1] /\ s[n + 1] \in S
      BY <1>8, <1>11
    <2>2. n \in 0..k - 1 /\ n \in 0..k + m - 1
      BY <1>8
    <2>3. /\ f[n + 1] = IF s[n + 1].type \in types THEN Append(f[n], s[n + 1]) ELSE f[n]
          /\ h[n + 1] = IF u[n + 1].type \in types THEN Append(h[n], u[n + 1]) ELSE h[n]
      BY <1>6, <1>9, <2>2
    <2>4. QED
      BY <2>1, <2>3
  <1>12. k \in Same
    <2> HIDE DEF Same
    <2>1. QED
      BY <1>8, <1>10, <1>11, SetInduction
  <1>13. h[k] = f[k] /\ f[k] \in Seq(S)
    BY <1>8, <1>12
  <1> DEFINE Joint == {n \in Nat : n > m \/ Joined(S, f, g, h, k, n)}
  <1>14. 0 \in Joint
    <2>1. f[k] \o <<>> = f[k]
      BY <1>13, ConcatEmptySeq
    <2>2. <<>> \in Seq(S) /\ k + 0 = k
      BY <1>8
    <2>3. Joined(S, f, g, h, k, 0)
      BY <1>7, <1>13, <2>1, <2>2 DEF Joined
    <2>4. QED
      BY <2>3
  <1>15. ASSUME NEW n \in Nat, n \in Joint
         PROVE  n + 1 \in Joint
    <2>0. CASE n + 1 > m
      BY <2>0
    <2> SUFFICES ASSUME ~(n + 1 > m)
                 PROVE  n + 1 \in Joint
      BY <2>0
    <2>1. /\ h[k + n] = f[k] \o g[n] /\ g[n] \in Seq(S)
          /\ u[k + (n + 1)] = t[n + 1] /\ t[n + 1] \in S
      <3>1. ~(n > m) /\ n + 1 \in 1..m
        BY <1>8
      <3>2. h[k + n] = f[k] \o g[n] /\ g[n] \in Seq(S)
        BY <1>15, <3>1 DEF Joined
      <3>3. QED
        BY <1>8, <3>1, <3>2
    <2>2. n \in 0..m - 1 /\ k + n \in 0..k + m - 1 /\ (k + n) + 1 = k + (n + 1)
      BY <1>8
    <2>3. /\ g[n + 1] = IF t[n + 1].type \in types THEN Append(g[n], t[n + 1]) ELSE g[n]
          /\ h[k + (n + 1)] = IF u[k + (n + 1)].type \in types
                              THEN Append(h[k + n], u[k + (n + 1)]) ELSE h[k + n]
      BY <1>7, <1>9, <2>2
    <2>4. ASSUME NEW a \in Seq(S), NEW b \in Seq(S), NEW e \in S
          PROVE  a \o Append(b, e) = Append(a \o b, e) /\ Append(b, e) \in Seq(S)
      OBVIOUS
    <2>5. CASE t[n + 1].type \in types
      <3>1. g[n + 1] = Append(g[n], t[n + 1]) /\ h[k + (n + 1)] = Append(h[k + n], t[n + 1])
        BY <2>1, <2>3, <2>5
      <3>2. /\ f[k] \o Append(g[n], t[n + 1]) = Append(f[k] \o g[n], t[n + 1])
            /\ Append(g[n], t[n + 1]) \in Seq(S)
        BY <1>13, <2>1, <2>4
      <3>3. h[k + (n + 1)] = f[k] \o g[n + 1] /\ g[n + 1] \in Seq(S)
        BY <2>1, <3>1, <3>2, Zenon
      <3>4. Joined(S, f, g, h, k, n + 1)
        BY <3>3 DEF Joined
      <3>5. QED
        BY <3>4
    <2>6. CASE t[n + 1].type \notin types
      <3>1. g[n + 1] = g[n] /\ h[k + (n + 1)] = h[k + n]
        BY <2>1, <2>3, <2>6
      <3>2. Joined(S, f, g, h, k, n + 1)
        BY <2>1, <3>1 DEF Joined
      <3>3. QED
        BY <3>2
    <2>7. QED
      BY <2>5, <2>6
  <1>16. m \in Joint
    <2> HIDE DEF Joint
    <2>1. QED
      BY <1>8, <1>14, <1>15, SetInduction
  <1>17. h[k + m] = f[k] \o g[m]
    <2>1. ~(m > m)
      BY <1>8
    <2>2. QED
      BY <1>16, <2>1 DEF Joined
  <1>18. QED
    BY <1>1, <1>2, <1>4, <1>5, <1>17 DEF k, m, u

LEMMA OfTypeOne ==
    ASSUME NEW e, NEW types
    PROVE  OfType(<<e>>, types) = IF e.type \in types THEN <<e>> ELSE <<>>
  <1> DEFINE s == <<e>>
             S == {e}
  <1>0. s \in Seq(S)
    OBVIOUS
  <1>1. Len(s) = 1 /\ s[1] = e /\ s = Append(<<>>, e)
    OBVIOUS
  <1> HIDE DEF s, S
  <1>2. PICK f : Keeps(s, types, f) /\ OfType(s, types) = f[Len(s)]
    BY <1>0, OfTypeSteps
  <1>3. f[0] = <<>> /\ f[1] = IF e.type \in types THEN Append(f[0], e) ELSE f[0]
    <2>1. 0 \in 0..Len(s) - 1 /\ 0 + 1 = 1
      BY <1>1
    <2>2. /\ f[0] = <<>>
          /\ \A n \in 0..Len(s) - 1 : f[n + 1] =
               IF s[n + 1].type \in types THEN Append(f[n], s[n + 1]) ELSE f[n]
      BY <1>0, <1>2, KeepsAt
    <2>3. QED
      BY <1>1, <2>1, <2>2
  <1>4. QED
    BY <1>1, <1>2, <1>3 DEF s

LEMMA OfTypeNone ==
    ASSUME NEW types
    PROVE  OfType(<<>>, types) = <<>>
  <1>1. <<>> \in Seq({}) /\ Len(<<>>) = 0
    OBVIOUS
  <1>2. PICK f : Keeps(<<>>, types, f) /\ OfType(<<>>, types) = f[Len(<<>>)]
    BY <1>1, OfTypeSteps
  <1>3. QED
    BY <1>1, <1>2 DEF Keeps

-----------------------------------------------------------------------------
(* The inductive invariant *)

\* A sequence, of whatever there is in it.
IsSeq(s) == s \in Seq(Range(s))

\* What the agent writes, and what a failure leaves on the wire.
Named(u) == [id |-> u, name |-> NameOf[u]]
Failed == [message |-> "failed"]
ToolFrame == {Frame(kind, Named(u)) : kind \in {"tool_use", "tool_result"}, u \in ToolUse}
ResultData(status, raw) == [status |-> status, usage |-> raw, session |-> TRUE]
ResultFrames ==
    {Frame("done", ResultData(status, raw)) : status \in {"success", "error"}, raw \in RawUsage}
AgentFrame ==
    {ErrorFrame, TextFrame, ThinkingFrame, Frame("system", [init |-> TRUE]),
     Frame("done", [status |-> "success"])} \cup ToolFrame \cup ResultFrames
FailureFrame ==
    {Frame(type, Failed) : type \in {"garbled", "error", "text_delta", "thinking", "system",
                                     "done", "tool_use", "tool_result"}}
    \cup {Frame("container_recovered", [recovered |-> TRUE])}

IsSession(d) ==
    d = [log |-> d.log, usage |-> d.usage, tokens |-> d.tokens, limit |-> d.limit,
         titled |-> d.titled]

StreamTypeInv ==
    /\ agent \in {"starting", "running", "answered", "ended", "dead", "gone"}
    /\ host \in {"stream", "rescue", "record", "answer", "end", "undo", "closed"}
    /\ names \subseteq ToolUse /\ open \subseteq names
    /\ emitted \in Seq(AgentFrame)
    /\ wire \in Seq(AgentFrame \cup FailureFrame)
    /\ agent # "gone" => wire \in Seq(AgentFrame)
    /\ got \in 0..Pieces * Len(wire)
    /\ IsSeq(sent)
    /\ IsSession(draft) /\ IsSession(stored)
    /\ draft.tokens \in Nat /\ stored.tokens \in Nat

\* What the client is shown and what is on its way is what the agent has written; a
\* failure adds two frames at most to a part of it.
FramesInv ==
    host = "stream" =>
        IF agent # "gone" THEN Shown \o Told(wire) = Told(emitted)
        ELSE \E whole \in 0..Len(Shown) :
                /\ IsPrefix(SubSeq(Shown, 1, whole), Told(emitted))
                /\ Len(Shown) + Len(wire) <= whole + 2

\* A call comes before its result, on the wire as in what was sent.
Has(s, kind, d, n) == \E k \in 1..n : s[k].type = kind /\ s[k].data = d
CallSent(d, n) == Has(sent, "tool_call", d, n)
CallOnWay(d, n) == Has(wire, "tool_use", d, n)
ToolsInv ==
    /\ \A i \in 1..Len(sent) : sent[i].type = "tool_result" /\ sent[i].data.id # "" =>
          CallSent(sent[i].data, i - 1)
    /\ \A i \in 1..Len(wire) : wire[i].type = "tool_result" /\ wire[i].data # Failed =>
          CallSent(wire[i].data, Len(sent)) \/ CallOnWay(wire[i].data, i - 1)
    /\ agent # "gone" => \A u \in names :
          CallSent(Named(u), Len(sent)) \/ CallOnWay(Named(u), Len(wire))

\* How the turn ended is on its way before the agent is through.
Final == {"done", "error"}
Reported(s) == \E i \in 1..Len(s) : s[i].type \in Final
AnswerInv ==
    /\ host = "stream" /\ agent \in {"answered", "ended"} => Reported(wire) \/ Reported(sent)
    /\ host = "stream" /\ agent = "gone" => Reported(wire) \/ Reported(sent) \/ broken
    /\ host # "stream" => Reported(sent) \/ broken

\* One done frame at most, and one done event unless the turn is undone.
DonesIn(s) == {i \in 1..Len(s) : s[i].type = "done"}
Undone == host = "undo" \/ (host = "closed" /\ stored.log = <<>> /\ stored.usage = None)
DoneInv ==
    /\ ~Undone => /\ \A i, k \in DonesIn(sent) : i = k
                  /\ \A i, k \in DonesIn(wire) : i = k
                  /\ DonesIn(sent) = {} \/ DonesIn(wire) = {}
    /\ host = "stream" /\ agent \in {"starting", "running"} =>
          DonesIn(sent) = {} /\ DonesIn(wire) = {}
    /\ ~Undone /\ host # "stream" => agent \in {"ended", "gone"}

\* What is kept of the events, before and after the commit.
Total == stored.tokens + Tokens(doneData.usage)
Full(tokens) == Window > 0 /\ Percent(tokens) >= 95
StatusRight(d, tokens) == Window > 0 /\ (d.can_continue <=> ~Full(tokens))

DraftInv ==
    /\ host \notin {"end", "closed"} => draft.log = <<>>
    /\ host \in {"stream", "rescue", "record"} => draft.usage = None
EventsInv ==
    /\ draft.log \in {<<>>, events} /\ stored.log \in {<<>>, events}
    /\ events = OfType(sent, Content)
DataInv ==
    /\ doneData # None =>
         /\ \E i \in DonesIn(sent) : sent[i].data = doneData
         /\ NormaliseUsage(doneData.usage) = doneData.usage
         /\ Tokens(doneData.usage) \in Nat
    /\ DonesIn(sent) = {} => doneData = None
TurnInv ==
    host # "closed" =>
         /\ stored.log = <<>> /\ stored.usage = None /\ ~stored.limit
         /\ draft.usage = None => draft.tokens = stored.tokens /\ ~draft.limit
         /\ draft.usage # None =>
              /\ doneData # None /\ draft.usage = doneData.usage
              /\ draft.tokens = Total /\ (draft.limit <=> Full(Total))
         /\ \A i \in 1..Len(sent) : sent[i].type = "context_status" =>
              doneData # None /\ StatusRight(sent[i].data, Total)
ClosedInv ==
    host = "closed" /\ stored.usage # None =>
         /\ \E i \in DonesIn(sent) : sent[i].data.usage = stored.usage
         /\ stored.limit <=> Full(stored.tokens)
         /\ \A i \in 1..Len(sent) : sent[i].type = "context_status" =>
              StatusRight(sent[i].data, stored.tokens)
RecordInv == DraftInv /\ EventsInv /\ DataInv /\ TurnInv /\ ClosedInv

\* The files the client was shown are known, and all of them looked after.
OutsideInv ==
    /\ \A i \in 1..Len(sent) :
          sent[i].type = "tool_call" /\ sent[i].data.id \in Outside
             /\ sent[i].data.name \in FileTool => sent[i].data.id \in external
    /\ host \in {"record", "answer", "end"} => external = copied \cup missed

-----------------------------------------------------------------------------
(* Sequences *)

LEMMA AnySeq ==
    ASSUME NEW S, NEW s \in Seq(S)
    PROVE  /\ IsSeq(s) /\ Len(s) \in Nat /\ DOMAIN s = 1..Len(s)
           /\ \A i \in 1..Len(s) : s[i] \in S
  <1>1. /\ Len(s) \in Nat /\ DOMAIN s = 1..Len(s) /\ s \in [1..Len(s) -> S]
        /\ \A i \in 1..Len(s) : s[i] \in S
    BY LenProperties
  <1>2. s \in [1..Len(s) -> Range(s)]
    BY <1>1 DEF Range
  <1>3. ASSUME NEW n \in Nat, NEW T, NEW f \in [1..n -> T]
        PROVE  f \in Seq(T)
    OBVIOUS
  <1>4. s \in Seq(Range(s))
    BY <1>1, <1>2, <1>3
  <1>5. QED
    BY <1>1, <1>4 DEF IsSeq

LEMMA SeqLen ==
    ASSUME NEW s, IsSeq(s)
    PROVE  Len(s) \in Nat /\ DOMAIN s = 1..Len(s)
  BY DEF IsSeq

LEMMA SeqJoin ==
    ASSUME NEW s, IsSeq(s), NEW t, IsSeq(t)
    PROVE  /\ IsSeq(s \o t) /\ Len(s \o t) = Len(s) + Len(t)
           /\ \A i \in 1..Len(s) + Len(t) :
                (s \o t)[i] = IF i <= Len(s) THEN s[i] ELSE t[i - Len(s)]
           /\ \A i \in 1..Len(s) : (s \o t)[i] = s[i]
           /\ \A i \in 1..Len(t) : (s \o t)[Len(s) + i] = t[i]
  <1> DEFINE S == Range(s) \cup Range(t)
  <1>1. s \in Seq(S) /\ t \in Seq(S)
    <2>1. s \in Seq(Range(s)) /\ t \in Seq(Range(t))
      BY DEF IsSeq
    <2>2. Range(s) \subseteq S /\ Range(t) \subseteq S
      OBVIOUS
    <2> HIDE DEF S
    <2>3. QED
      BY <2>1, <2>2, SeqMonotonic
  <1> HIDE DEF S
  <1>2. /\ s \o t \in Seq(S) /\ Len(s \o t) = Len(s) + Len(t)
        /\ \A i \in 1..Len(s) + Len(t) :
                (s \o t)[i] = IF i <= Len(s) THEN s[i] ELSE t[i - Len(s)]
    BY <1>1, ConcatProperties
  <1>3. Len(s) \in Nat /\ Len(t) \in Nat
    BY SeqLen
  <1>4. \A i \in 1..Len(t) : (s \o t)[Len(s) + i] = t[i]
    <2> SUFFICES ASSUME NEW i \in 1..Len(t)
                 PROVE  (s \o t)[Len(s) + i] = t[i]
      OBVIOUS
    <2>1. Len(s) + i \in 1..Len(s) + Len(t) /\ ~(Len(s) + i <= Len(s))
          /\ (Len(s) + i) - Len(s) = i
      BY <1>3
    <2>2. QED
      BY <1>2, <2>1
  <1>5. \A i \in 1..Len(s) : (s \o t)[i] = s[i]
    <2> SUFFICES ASSUME NEW i \in 1..Len(s)
                 PROVE  (s \o t)[i] = s[i]
      OBVIOUS
    <2>1. i \in 1..Len(s) + Len(t) /\ i <= Len(s)
      BY <1>3
    <2>2. QED
      BY <1>2, <2>1
  <1>6. IsSeq(s \o t)
    BY <1>2, AnySeq
  <1>7. QED
    BY <1>2, <1>4, <1>5, <1>6

LEMMA SeqOne ==
    ASSUME NEW e
    PROVE  IsSeq(<<e>>) /\ Len(<<e>>) = 1 /\ <<e>>[1] = e
  <1>1. <<e>> \in Seq({e})
    OBVIOUS
  <1>2. QED
    BY <1>1, AnySeq

LEMMA SeqNone == IsSeq(<<>>) /\ Len(<<>>) = 0
  <1>1. <<>> \in Seq({})
    OBVIOUS
  <1>2. QED
    BY <1>1, AnySeq

LEMMA SeqAssoc ==
    ASSUME NEW s, IsSeq(s), NEW t, IsSeq(t), NEW u, IsSeq(u)
    PROVE  (s \o t) \o u = s \o (t \o u)
  <1> DEFINE S == Range(s) \cup Range(t) \cup Range(u)
  <1>1. s \in Seq(S) /\ t \in Seq(S) /\ u \in Seq(S)
    <2>1. s \in Seq(Range(s)) /\ t \in Seq(Range(t)) /\ u \in Seq(Range(u))
      BY DEF IsSeq
    <2>2. Range(s) \subseteq S /\ Range(t) \subseteq S /\ Range(u) \subseteq S
      OBVIOUS
    <2> HIDE DEF S
    <2>3. QED
      BY <2>1, <2>2, SeqMonotonic
  <1> HIDE DEF S
  <1>2. QED
    BY <1>1, ConcatAssociative

LEMMA JoinNone ==
    ASSUME NEW s, IsSeq(s)
    PROVE  s \o <<>> = s /\ <<>> \o s = s
  BY ConcatEmptySeq DEF IsSeq

\* Two sequences that agree everywhere.
LEMMA SameSeq ==
    ASSUME NEW s, IsSeq(s), NEW t, IsSeq(t), Len(s) = Len(t),
           \A i \in 1..Len(s) : s[i] = t[i]
    PROVE  s = t
  <1>1. DOMAIN s = DOMAIN t /\ s = [i \in DOMAIN s |-> s[i]] /\ t = [i \in DOMAIN t |-> t[i]]
    <2>1. s \in [1..Len(s) -> Range(s)] /\ t \in [1..Len(t) -> Range(t)]
      BY LenProperties DEF IsSeq
    <2>2. QED
      BY <2>1
  <1>2. QED
    BY <1>1, SeqLen

LEMMA KeptJoin ==
    ASSUME NEW s, IsSeq(s), NEW t, IsSeq(t), NEW types
    PROVE  /\ OfType(s \o t, types) = OfType(s, types) \o OfType(t, types)
           /\ IsSeq(OfType(s, types))
  <1> DEFINE S == Range(s) \cup Range(t)
  <1>1. s \in Seq(S) /\ t \in Seq(S)
    <2>1. s \in Seq(Range(s)) /\ t \in Seq(Range(t))
      BY DEF IsSeq
    <2>2. Range(s) \subseteq S /\ Range(t) \subseteq S
      OBVIOUS
    <2> HIDE DEF S
    <2>3. QED
      BY <2>1, <2>2, SeqMonotonic
  <1> HIDE DEF S
  <1>2. OfType(s, types) \in Seq(S)
    BY <1>1, OfTypeSeq
  <1>3. QED
    BY <1>1, <1>2, OfTypeJoin, AnySeq

\* Events of other types leave nothing.
LEMMA OfTypeOthers ==
    ASSUME NEW s, IsSeq(s), NEW types, \A i \in 1..Len(s) : s[i].type \notin types
    PROVE  OfType(s, types) = <<>>
  <1> DEFINE S == Range(s)
  <1>1. s \in Seq(S) /\ Len(s) \in Nat
    BY SeqLen DEF IsSeq
  <1> HIDE DEF S
  <1>2. PICK f : Keeps(s, types, f) /\ OfType(s, types) = f[Len(s)]
    BY <1>1, OfTypeSteps
  <1>3. /\ f[0] = <<>>
        /\ \A n \in 0..Len(s) - 1 : f[n + 1] =
             IF s[n + 1].type \in types THEN Append(f[n], s[n + 1]) ELSE f[n]
    BY <1>1, <1>2, KeepsAt
  <1> DEFINE Good == {n \in Nat : n > Len(s) \/ f[n] = <<>>}
  <1>4. 0 \in Good
    BY <1>3
  <1>5. ASSUME NEW n \in Nat, n \in Good
        PROVE  n + 1 \in Good
    <2>1. CASE n + 1 <= Len(s)
      <3>1. n \in 0..Len(s) - 1 /\ n + 1 \in 1..Len(s) /\ f[n] = <<>>
        BY <1>1, <1>5, <2>1
      <3>2. s[n + 1].type \notin types
        BY <3>1
      <3>3. f[n + 1] = <<>>
        BY <1>3, <3>1, <3>2
      <3>4. QED
        BY <3>3
    <2>2. QED
      BY <1>1, <2>1
  <1>6. Len(s) \in Good
    <2> HIDE DEF Good
    <2>1. QED
      BY <1>1, <1>4, <1>5, SetInduction
  <1>7. QED
    BY <1>1, <1>2, <1>6

-----------------------------------------------------------------------------
(* Frames and the events they become *)

FirstFrame == Head(wire)

FrameKind(f) ==
    \/ f.type = "error" /\ f.data = Failed
    \/ f.type = "text_delta" /\ f.data \in {[text |-> "whole"], Failed}
    \/ f.type = "thinking" /\ f.data \in {[content |-> "whole"], Failed}
    \/ f.type = "system" /\ f.data \in {[init |-> TRUE], Failed}
    \/ f.type = "tool_use" /\ (f.data = Failed \/ \E u \in ToolUse : f.data = Named(u))
    \/ f.type = "tool_result" /\ (f.data = Failed \/ \E u \in ToolUse : f.data = Named(u))
    \/ /\ f.type = "done"
         /\ \/ f.data \in {Failed, [status |-> "success"]}
            \/ \E status \in {"success", "error"}, raw \in RawUsage :
                 f.data = [status |-> status, usage |-> raw, session |-> TRUE]
    \/ f.type = "garbled" /\ f.data = Failed
    \/ f.type = "container_recovered" /\ f.data = [recovered |-> TRUE]

LEMMA FrameKinds ==
    ASSUME NEW f \in AgentFrame \cup FailureFrame
    PROVE  f = Frame(f.type, f.data) /\ FrameKind(f)
  <1>1. CASE f = ErrorFrame
    BY <1>1 DEF ErrorFrame, Frame, Failed, FrameKind
  <1>2. CASE f = TextFrame \/ f = ThinkingFrame
    BY <1>2 DEF TextFrame, ThinkingFrame, Frame, FrameKind
  <1>3. CASE f = Frame("system", [init |-> TRUE]) \/ f = Frame("done", [status |-> "success"])
    BY <1>3 DEF Frame, FrameKind
  <1>4. ASSUME NEW kind \in {"tool_use", "tool_result"}, NEW u \in ToolUse, f = Frame(kind, Named(u))
        PROVE  f = Frame(f.type, f.data) /\ FrameKind(f)
    BY <1>4 DEF Frame, FrameKind
  <1>5. ASSUME NEW status \in {"success", "error"}, NEW raw \in RawUsage,
               f = Frame("done", [status |-> status, usage |-> raw, session |-> TRUE])
        PROVE  f = Frame(f.type, f.data) /\ FrameKind(f)
    BY <1>5 DEF Frame, FrameKind
  <1>6. CASE f \in FailureFrame
    <2>1. CASE f = Frame("container_recovered", [recovered |-> TRUE])
      BY <2>1 DEF Frame, FrameKind
    <2>2. ASSUME NEW type \in {"garbled", "error", "text_delta", "thinking", "system",
                               "done", "tool_use", "tool_result"}, f = Frame(type, Failed)
          PROVE  f = Frame(f.type, f.data) /\ FrameKind(f)
      BY <2>2 DEF Frame, FrameKind
    <2>3. QED
      BY <1>6, <2>1, <2>2, Zenon DEF FailureFrame
  <1>7. CASE f \in AgentFrame
    <2>1. \/ f \in {ErrorFrame, TextFrame, ThinkingFrame, Frame("system", [init |-> TRUE]),
                     Frame("done", [status |-> "success"])}
          \/ \E kind \in {"tool_use", "tool_result"}, u \in ToolUse : f = Frame(kind, Named(u))
          \/ \E status \in {"success", "error"}, raw \in RawUsage :
               f = Frame("done", [status |-> status, usage |-> raw, session |-> TRUE])
      <3>1. \/ f \in {ErrorFrame, TextFrame, ThinkingFrame, Frame("system", [init |-> TRUE]),
                      Frame("done", [status |-> "success"])}
            \/ f \in ToolFrame \/ f \in ResultFrames
        BY <1>7 DEF AgentFrame
      <3>2. f \in ToolFrame => \E kind \in {"tool_use", "tool_result"}, u \in ToolUse :
                                f = Frame(kind, Named(u))
        BY DEF ToolFrame
      <3>3. f \in ResultFrames => \E status \in {"success", "error"}, raw \in RawUsage :
               f = Frame("done", [status |-> status, usage |-> raw, session |-> TRUE])
        BY DEF ResultFrames, ResultData
      <3>4. QED
        BY <3>1, <3>2, <3>3
    <2>2. QED
      BY <1>1, <1>2, <1>3, <1>4, <1>5, <2>1, Zenon
  <1>8. QED
    BY <1>6, <1>7

LEMMA AgentKinds ==
    ASSUME NEW f \in AgentFrame
    PROVE  /\ f.type \in {"error", "text_delta", "thinking", "system", "tool_use", "tool_result", "done"}
           /\ f.type = "system" => f.data = [init |-> TRUE]
           /\ f.type \in {"tool_use", "tool_result"} => \E u \in ToolUse : f.data = Named(u)
  <1>1. CASE f \in {ErrorFrame, TextFrame, ThinkingFrame}
    BY <1>1 DEF ErrorFrame, TextFrame, ThinkingFrame, Frame
  <1>2. CASE f = Frame("system", [init |-> TRUE])
    BY <1>2 DEF Frame
  <1>0. CASE f = Frame("done", [status |-> "success"])
    BY <1>0 DEF Frame
  <1>3. CASE \E kind \in {"tool_use", "tool_result"}, u \in ToolUse : f = Frame(kind, Named(u))
    BY <1>3 DEF Frame
  <1>4. CASE \E status \in {"success", "error"}, raw \in RawUsage :
               f = Frame("done", [status |-> status, usage |-> raw, session |-> TRUE])
    BY <1>4 DEF Frame
  <1>5. QED
    BY <1>0, <1>1, <1>2, <1>3, <1>4 DEF AgentFrame, ToolFrame, ResultFrames, ResultData

LEMMA NotFailed ==
    ASSUME NEW u
    PROVE  /\ Named(u) # Failed /\ Named(u).id = u /\ Named(u).name = NameOf[u]
           /\ DOMAIN Named(u) = {"id", "name"} /\ DOMAIN Failed = {"message"}
  BY DEF Named, Failed

LEMMA WireHead ==
    ASSUME StreamTypeInv, wire # <<>>
    PROVE  /\ FirstFrame \in AgentFrame \cup FailureFrame
           /\ agent # "gone" => FirstFrame \in AgentFrame
           /\ IsSeq(wire) /\ IsSeq(Tail(wire)) /\ Len(wire) \in Nat \ {0}
           /\ FirstFrame = wire[1] /\ Len(Tail(wire)) = Len(wire) - 1
           /\ \A i \in 1..Len(Tail(wire)) : Tail(wire)[i] = wire[i + 1]
           /\ wire = <<FirstFrame>> \o Tail(wire)
           /\ Tail(wire) \in Seq(AgentFrame \cup FailureFrame)
           /\ agent # "gone" => Tail(wire) \in Seq(AgentFrame)
  <1> DEFINE S == AgentFrame \cup FailureFrame
  <1>1. wire \in Seq(S)
    BY DEF StreamTypeInv
  <1>2. agent # "gone" => wire \in Seq(AgentFrame)
    BY DEF StreamTypeInv
  <1>3. ASSUME NEW T, wire \in Seq(T)
        PROVE  Head(wire) \in T /\ Tail(wire) \in Seq(T) /\ Len(Tail(wire)) = Len(wire) - 1
               /\ \A i \in 1..Len(Tail(wire)) : Tail(wire)[i] = wire[i + 1]
    BY <1>3, HeadTailProperties
  <1> HIDE DEF S
  <1>4. /\ FirstFrame \in S /\ Tail(wire) \in Seq(S)
        /\ Len(Tail(wire)) = Len(wire) - 1 /\ Len(wire) \in Nat \ {0}
        /\ \A i \in 1..Len(Tail(wire)) : Tail(wire)[i] = wire[i + 1]
        /\ FirstFrame = wire[1]
    BY <1>1, <1>3, EmptySeq DEF FirstFrame
  <1>5. IsSeq(wire) /\ IsSeq(Tail(wire))
    BY <1>1, <1>4, AnySeq
  <1>6. wire = <<FirstFrame>> \o Tail(wire)
    BY <1>1 DEF FirstFrame
  <1>7. agent # "gone" => FirstFrame \in AgentFrame /\ Tail(wire) \in Seq(AgentFrame)
    BY <1>2, <1>3 DEF FirstFrame
  <1>8. QED
    BY <1>4, <1>5, <1>6, <1>7 DEF S

LEMMA FrameDomains ==
    /\ DOMAIN Failed = {"message"}
    /\ \A u : DOMAIN Named(u) = {"id", "name"}
    /\ DOMAIN [text |-> "whole"] = {"text"} /\ DOMAIN [content |-> "whole"] = {"content"}
    /\ DOMAIN [init |-> TRUE] = {"init"} /\ DOMAIN [recovered |-> TRUE] = {"recovered"}
    /\ DOMAIN [status |-> "success"] = {"status"}
    /\ \A s, r : DOMAIN [status |-> s, usage |-> r, session |-> TRUE] = {"status", "usage", "session"}
  BY DEF Failed, Named

LEMMA ParsedFrame ==
    ASSUME StreamTypeInv, wire # <<>>
    PROVE  /\ Parsed.type = FirstFrame.type
           /\ Parsed = FirstFrame \/ (FirstFrame.type = "text_delta" /\ DOMAIN Parsed.data = {"text"})
  <1> DEFINE f == FirstFrame
  <1>1. f \in AgentFrame \cup FailureFrame
    BY WireHead
  <1>2. CASE "text" \in DOMAIN f.data
    <2>1. f.type = "text_delta" /\ f = Frame("text_delta", [text |-> "whole"])
      <3>1. f = Frame(f.type, f.data) /\ FrameKind(f)
        BY <1>1, FrameKinds
      <3>2. f.data # Failed /\ \A u : f.data # Named(u)
        BY <1>2, FrameDomains
      <3>3. f.type # "done"
        BY <1>2, <3>1, <3>2, FrameDomains DEF FrameKind
      <3>4. f.type = "text_delta" /\ f.data = [text |-> "whole"]
        BY <1>2, <3>1, <3>2, <3>3, FrameDomains DEF FrameKind
      <3>5. QED
        BY <3>1, <3>4
    <2>2. [f EXCEPT !.data.text = "damaged"].type = "text_delta"
          /\ DOMAIN [f EXCEPT !.data.text = "damaged"].data = {"text"}
      BY <2>1 DEF Frame
    <2>3. QED
      BY <2>1, <2>2 DEF Parsed, FirstFrame
  <1>3. CASE "text" \notin DOMAIN f.data
    BY <1>3 DEF Parsed, FirstFrame
  <1>4. QED
    BY <1>2, <1>3

\* What the client is sent for a frame, besides progress, status and title.
Added == {"progress", "context_status", "title"}
ShownType(f) ==
    IF f.type = "system" /\ f.data # Failed THEN "init"
    ELSE IF f.type = "text_delta" THEN "assistant"
    ELSE IF f.type = "tool_use" THEN "tool_call" ELSE f.type
Becomes(e, f) ==
    /\ e.type = ShownType(f)
    /\ f.type \in {"tool_use", "tool_result"} =>
          e.data = IF f.data = Failed THEN [id |-> "", name |-> ""] ELSE f.data
Mark(e, n) == [type |-> e.type, seq |-> n, data |-> e.data]

LEMMA TwoEvents ==
    ASSUME NEW a, NEW b
    PROVE  /\ <<a, b>> = <<a>> \o <<b>> /\ IsSeq(<<a, b>>) /\ Len(<<a, b>>) = 2
           /\ <<a, b>>[1] = a /\ <<a, b>>[2] = b
  <1>1. Len(<<a, b>>) = 2 /\ <<a, b>>[1] = a /\ <<a, b>>[2] = b
    OBVIOUS
  <1>2. IsSeq(<<a, b>>)
    <2>1. ASSUME NEW S, NEW c \in S, NEW d \in S
          PROVE  <<c, d>> \in Seq(S)
      OBVIOUS
    <2>2. <<a, b>> \in Seq({a, b})
      BY <2>1
    <2>3. QED
      BY <2>2, AnySeq
  <1>3. <<a, b>> = <<a>> \o <<b>>
    <2> DEFINE s == <<a>>
               t == <<b>>
               u == <<a, b>>
    <2>1. /\ IsSeq(s) /\ Len(s) = 1 /\ s[1] = a
          /\ IsSeq(t) /\ Len(t) = 1 /\ t[1] = b
      BY SeqOne
    <2>2. IsSeq(u) /\ Len(u) = 2 /\ u[1] = a /\ u[2] = b
      BY <1>1, <1>2
    <2> HIDE DEF s, t, u
    <2>3. /\ IsSeq(s \o t) /\ Len(s \o t) = 2 /\ (s \o t)[1] = a
          /\ (s \o t)[2] = b
      <3>1. /\ IsSeq(s \o t) /\ Len(s \o t) = Len(s) + Len(t)
            /\ \A i \in 1..Len(s) + Len(t) :
                 (s \o t)[i] = IF i <= Len(s) THEN s[i] ELSE t[i - Len(s)]
        BY <2>1, SeqJoin
      <3>2. 1 \in 1..Len(s) + Len(t) /\ 2 \in 1..Len(s) + Len(t) /\ Len(s) + Len(t) = 2
            /\ 1 <= Len(s) /\ ~(2 <= Len(s)) /\ 2 - Len(s) = 1
        BY <2>1
      <3>3. QED
        BY <2>1, <3>1, <3>2
    <2>4. u = s \o t
      <3>1. \A i \in 1..2 : i = 1 \/ i = 2
        OBVIOUS
      <3>2. \A i \in 1..Len(u) : u[i] = (s \o t)[i]
        BY <2>2, <2>3, <3>1
      <3>3. Len(u) = Len(s \o t)
        BY <2>2, <2>3
      <3>4. QED
        BY <2>2, <2>3, <3>2, <3>3, SameSeq
    <2>5. QED
      BY <2>4 DEF s, t, u
  <1>4. QED
    BY <1>1, <1>2, <1>3

LEMMA NumberedSeq ==
    ASSUME NEW made, IsSeq(made)
    PROVE  /\ IsSeq(Numbered(made)) /\ Len(Numbered(made)) = Len(made)
           /\ \A i \in 1..Len(made) : Numbered(made)[i] = Mark(made[i], seq + i)
  <1>1. Len(made) \in Nat /\ DOMAIN made = 1..Len(made)
    BY SeqLen
  <1>2. Numbered(made) = [i \in 1..Len(made) |-> Mark(made[i], seq + i)]
    BY <1>1 DEF Numbered, Mark
  <1>3. ASSUME NEW n \in Nat, NEW T, NEW f \in [1..n -> T]
        PROVE  f \in Seq(T) /\ Len(f) = n
    OBVIOUS
  <1> DEFINE m == Numbered(made)
             T == Range(m)
  <1>4. m \in [1..Len(made) -> T]
    BY <1>2 DEF Range
  <1> HIDE DEF T
  <1>5. Numbered(made) \in Seq(T) /\ Len(Numbered(made)) = Len(made)
    BY <1>1, <1>3, <1>4
  <1>6. QED
    BY <1>2, <1>5, AnySeq

LEMMA NumberedOne ==
    ASSUME NEW e
    PROVE  Numbered(<<e>>) = <<Mark(e, seq + 1)>>
  <1>1. IsSeq(<<e>>) /\ Len(<<e>>) = 1 /\ <<e>>[1] = e
    BY SeqOne
  <1>2. /\ IsSeq(Numbered(<<e>>)) /\ Len(Numbered(<<e>>)) = 1
        /\ \A i \in 1..1 : Numbered(<<e>>)[i] = Mark(<<e>>[i], seq + i)
    BY <1>1, NumberedSeq
  <1>3. Numbered(<<e>>)[1] = Mark(e, seq + 1)
    BY <1>1, <1>2
  <1> DEFINE t == <<Mark(e, seq + 1)>>
  <1>4. IsSeq(t) /\ Len(t) = 1 /\ t[1] = Mark(e, seq + 1)
    BY SeqOne
  <1> HIDE DEF t
  <1>5. Numbered(<<e>>) = t
    BY <1>2, <1>3, <1>4, SameSeq
  <1>6. QED
    BY <1>5 DEF t

LEMMA NumberedTwo ==
    ASSUME NEW a, NEW b
    PROVE  Numbered(<<a, b>>) = <<Mark(a, seq + 1), Mark(b, seq + 2)>>
  <1>1. IsSeq(<<a, b>>) /\ Len(<<a, b>>) = 2 /\ <<a, b>>[1] = a /\ <<a, b>>[2] = b
    BY TwoEvents
  <1>2. /\ IsSeq(Numbered(<<a, b>>)) /\ Len(Numbered(<<a, b>>)) = 2
        /\ \A i \in 1..2 : Numbered(<<a, b>>)[i] = Mark(<<a, b>>[i], seq + i)
    BY <1>1, NumberedSeq
  <1>3. /\ Numbered(<<a, b>>)[1] = Mark(a, seq + 1)
        /\ Numbered(<<a, b>>)[2] = Mark(b, seq + 2)
    BY <1>1, <1>2
  <1> DEFINE t == <<Mark(a, seq + 1), Mark(b, seq + 2)>>
  <1>4. IsSeq(t) /\ Len(t) = 2 /\ t[1] = Mark(a, seq + 1) /\ t[2] = Mark(b, seq + 2)
    BY TwoEvents
  <1> HIDE DEF t
  <1>5. Numbered(<<a, b>>) = t
    BY <1>2, <1>3, <1>4, SameSeq
  <1>6. QED
    BY <1>5 DEF t

LEMMA TranslateEvent ==
    ASSUME NEW f \in AgentFrame \cup FailureFrame, NEW g, g.type = f.type,
           g = f \/ f.type = "text_delta", f.type # "done"
    PROVE  \E e : /\ Becomes(e, f)
                  /\ Translate(g) = <<e>> \/ \E kind : Translate(g) = <<Progress(kind), e>>
  <1>0. FrameKind(f)
    BY FrameKinds
  <1>1. CASE f.type = "system" /\ f.data = [init |-> TRUE]
    <2>1. Translate(g) = <<InitEvent>>
      BY <1>1 DEF Translate
    <2>2. [init |-> TRUE] # Failed
      BY FrameDomains
    <2>3. Becomes(InitEvent, f)
      BY <1>1, <2>2 DEF Becomes, ShownType, InitEvent, Event
    <2>4. QED
      BY <2>1, <2>3
  <1>2. CASE f.type = "system" /\ f.data = Failed
    <2>1. Translate(g) = <<Event("system", Failed)>>
      BY <1>2, FrameDomains DEF Translate
    <2>2. Becomes(Event("system", Failed), f)
      BY <1>2 DEF Becomes, ShownType, Event
    <2>3. QED
      BY <2>1, <2>2
  <1>3. CASE f.type = "text_delta"
    <2>1. Translate(g) = <<Progress("generating"), AssistantEvent(g.data)>>
      BY <1>3 DEF Translate
    <2>2. Becomes(AssistantEvent(g.data), f)
      BY <1>3 DEF Becomes, ShownType, AssistantEvent, Event
    <2>3. QED
      BY <2>1, <2>2
  <1>4. CASE f.type = "thinking"
    <2>1. Translate(g) = <<Progress("thinking"), ThinkingEvent(g.data)>>
      BY <1>4 DEF Translate
    <2>2. Becomes(ThinkingEvent(g.data), f)
      BY <1>4 DEF Becomes, ShownType, ThinkingEvent, Event
    <2>3. QED
      BY <2>1, <2>2
  <1>5. CASE f.type \in {"tool_use", "tool_result"}
    <2>0. f.data = Failed \/ \E u \in ToolUse : f.data = Named(u)
      BY <1>0, <1>5 DEF FrameKind
    <2>1. [id |-> Get(f.data, "id", ""), name |-> Get(f.data, "name", "")] =
             IF f.data = Failed THEN [id |-> "", name |-> ""] ELSE f.data
      <3>1. CASE f.data = Failed
        BY <3>1, FrameDomains DEF Get
      <3>2. ASSUME NEW u \in ToolUse, f.data = Named(u)
            PROVE  [id |-> Get(f.data, "id", ""), name |-> Get(f.data, "name", "")] = Named(u)
                   /\ f.data # Failed
        BY <3>2, FrameDomains, NotFailed DEF Get, Named
      <3>3. QED
        BY <2>0, <3>1, <3>2
    <2>2. CASE f.type = "tool_use"
      <3>1. Translate(g) = <<Progress("tool"), ToolCallEvent(f.data)>>
        BY <2>2 DEF Translate
      <3>2. Becomes(ToolCallEvent(f.data), f)
        BY <2>1, <2>2 DEF Becomes, ShownType, ToolCallEvent, Event
      <3>3. QED
        BY <3>1, <3>2
    <2>3. CASE f.type = "tool_result"
      <3>1. Translate(g) = <<ToolResultEvent(f.data)>>
        BY <2>3 DEF Translate
      <3>2. Becomes(ToolResultEvent(f.data), f)
        BY <2>1, <2>3 DEF Becomes, ShownType, ToolResultEvent, Event
      <3>3. QED
        BY <3>1, <3>2
    <2>4. QED
      BY <1>5, <2>2, <2>3
  <1>6. CASE f.type \in {"error", "garbled"}
    <2>1. Translate(g) = <<Event(f.type, f.data)>>
      BY <1>6 DEF Translate
    <2>2. Becomes(Event(f.type, f.data), f)
      BY <1>6 DEF Becomes, ShownType, Event
    <2>3. QED
      BY <2>1, <2>2
  <1>7. CASE f.type = "container_recovered"
    <2>1. Translate(g) = <<RecoveredEvent>>
      BY <1>7 DEF Translate
    <2>2. Becomes(RecoveredEvent, f)
      BY <1>7 DEF Becomes, ShownType, RecoveredEvent, Event
    <2>3. QED
      BY <2>1, <2>2
  <1>8. QED
    BY <1>0, <1>1, <1>2, <1>3, <1>4, <1>5, <1>6, <1>7 DEF FrameKind

\* The events of a frame, the last of them its own.
Sends(pre, e) == sent' = sent \o (pre \o <<e>>)

LEMMA RelayEventSends ==
    ASSUME StreamTypeInv, RelayEvent
    PROVE  /\ wire # <<>> /\ wire' = Tail(wire) /\ got' = got - Pieces
           /\ \E pre, e :
                /\ IsSeq(pre) /\ \A i \in 1..Len(pre) : pre[i].type = "progress"
                /\ Sends(pre, e) /\ Becomes(e, FirstFrame)
                /\ events' = events \o OfType(pre \o <<e>>, Content)
                /\ external' = external \cup ExternalPaths(pre \o <<e>>)
  <1>1. NextFrame /\ Parsed.type # "done"
    BY DEF RelayEvent
  <1>2. wire # <<>> /\ wire' = Tail(wire) /\ got' = got - Pieces
    <2>1. got >= Pieces /\ wire' = Tail(wire) /\ got' = got - Pieces
      BY <1>1 DEF NextFrame
    <2>2. got \in 0..Pieces * Len(wire)
      BY DEF StreamTypeInv
    <2>3. wire # <<>>
      BY <2>1, <2>2 DEF Pieces
    <2>4. QED
      BY <2>1, <2>3
  <1>3. /\ FirstFrame \in AgentFrame \cup FailureFrame
        /\ Parsed.type = FirstFrame.type
        /\ Parsed = FirstFrame \/ FirstFrame.type = "text_delta"
    BY <1>2, WireHead, ParsedFrame
  <1>4. PICK e : /\ Becomes(e, FirstFrame)
                 /\ \/ Translate(Parsed) = <<e>>
                    \/ \E kind : Translate(Parsed) = <<Progress(kind), e>>
    BY <1>1, <1>3, TranslateEvent
  <1>5. /\ sent' = sent \o Numbered(Translate(Parsed))
        /\ events' = events \o OfType(Numbered(Translate(Parsed)), Content)
        /\ external' = external \cup ExternalPaths(Numbered(Translate(Parsed)))
    BY Zenon DEF RelayEvent
  <1>6. CASE Translate(Parsed) = <<e>>
    <2>1. Numbered(Translate(Parsed)) = <<>> \o <<Mark(e, seq + 1)>>
      BY <1>6, NumberedOne, SeqOne, JoinNone
    <2>2. Becomes(Mark(e, seq + 1), FirstFrame)
      BY <1>4 DEF Becomes, Mark
    <2>3. IsSeq(<<>>) /\ \A i \in 1..Len(<<>>) : <<>>[i].type = "progress"
      BY SeqNone
    <2>4. QED
      BY <1>2, <1>5, <2>1, <2>2, <2>3 DEF Sends
  <1>7. ASSUME NEW kind, Translate(Parsed) = <<Progress(kind), e>>
        PROVE  \E pre, d :
                /\ IsSeq(pre) /\ \A i \in 1..Len(pre) : pre[i].type = "progress"
                /\ Sends(pre, d) /\ Becomes(d, FirstFrame)
                /\ events' = events \o OfType(pre \o <<d>>, Content)
                /\ external' = external \cup ExternalPaths(pre \o <<d>>)
    <2> DEFINE pre == <<Mark(Progress(kind), seq + 1)>>
    <2>1. Numbered(Translate(Parsed)) = pre \o <<Mark(e, seq + 2)>>
      <3>1. Numbered(Translate(Parsed)) = <<Mark(Progress(kind), seq + 1), Mark(e, seq + 2)>>
        BY <1>7, NumberedTwo
      <3>2. <<Mark(Progress(kind), seq + 1), Mark(e, seq + 2)>> = pre \o <<Mark(e, seq + 2)>>
        BY TwoEvents
      <3>3. QED
        BY <3>1, <3>2
    <2>2. Becomes(Mark(e, seq + 2), FirstFrame)
      BY <1>4 DEF Becomes, Mark
    <2>3. IsSeq(pre) /\ Len(pre) = 1 /\ pre[1] = Mark(Progress(kind), seq + 1)
      BY SeqOne
    <2>4. \A i \in 1..Len(pre) : pre[i].type = "progress"
      <3>1. Mark(Progress(kind), seq + 1).type = "progress"
        BY DEF Mark, Progress, Event
      <3> HIDE DEF pre
      <3>2. QED
        BY <2>3, <3>1
    <2> HIDE DEF pre
    <2>5. QED
      BY <1>5, <2>1, <2>2, <2>3, <2>4 DEF Sends
  <1>8. QED
    BY <1>2, <1>4, <1>6, <1>7

\* What the usage of a done frame comes to.
LEMMA UsageNormal ==
    ASSUME NEW u
    PROVE  NormaliseUsage(NormaliseUsage(u)) = NormaliseUsage(u)
  <1> DEFINE n == NormaliseUsage(u)
  <1>1. /\ DOMAIN n = {"input", "output", "cache_5m", "cache_1h", "cache_read"}
        /\ n = [input |-> n.input, output |-> n.output, cache_5m |-> n.cache_5m,
                cache_1h |-> n.cache_1h, cache_read |-> n.cache_read]
    BY DEF NormaliseUsage
  <1> HIDE DEF n
  <1>2. NormaliseUsage(n) =
          [input |-> n.input, output |-> n.output, cache_5m |-> n.cache_5m,
           cache_1h |-> n.cache_1h, cache_read |-> n.cache_read]
    BY <1>1 DEF NormaliseUsage, Get
  <1>3. QED
    BY <1>1, <1>2 DEF n

LEMMA UsageCounts ==
    ASSUME NEW u, \A f \in DOMAIN u : u[f] \in Nat
    PROVE  Tokens(NormaliseUsage(u)) \in Nat
  <1>1. Get(u, "input", 0) \in Nat /\ Get(u, "output", 0) \in Nat
    BY DEF Get
  <1>2. /\ NormaliseUsage(u).input = Get(u, "input", 0)
        /\ NormaliseUsage(u).output = Get(u, "output", 0)
    BY DEF NormaliseUsage
  <1>3. QED
    BY <1>1, <1>2 DEF Tokens

LEMMA LevelBlocked ==
    ASSUME NEW p \in Int
    PROVE  Level(p) = "blocked" <=> p >= 95
  BY DEF Level

LEMMA SeqTail ==
    ASSUME NEW m, IsSeq(m), Len(m) > 0
    PROVE  /\ IsSeq(Tail(m)) /\ Len(Tail(m)) = Len(m) - 1 /\ Head(m) = m[1]
           /\ \A i \in 1..Len(Tail(m)) : Tail(m)[i] = m[i + 1]
  <1> DEFINE S == Range(m)
  <1>1. m \in Seq(S)
    BY DEF IsSeq
  <1> HIDE DEF S
  <1>2. m # <<>>
    BY SeqNone
  <1>3. /\ Tail(m) \in Seq(S) /\ Len(Tail(m)) = Len(m) - 1
        /\ \A i \in 1..Len(Tail(m)) : Tail(m)[i] = m[i + 1]
    BY <1>1, <1>2, HeadTailProperties
  <1>4. Head(m) = m[1]
    BY <1>1, <1>2
  <1>5. QED
    BY <1>3, <1>4, AnySeq

\* What goes before a done event: a status of the conversation that is right, a title.
BeforeDone(e, tokens) ==
    \/ e.type = "title"
    \/ e.type = "context_status" /\ StatusRight(e.data, tokens)

LEMMA StatusEvents ==
    ASSUME NEW usage, Tokens(usage) \in Nat, draft.tokens \in Nat
    PROVE  /\ IsSeq(ContextStatus(usage))
           /\ \A i \in 1..Len(ContextStatus(usage)) :
                BeforeDone(ContextStatus(usage)[i], draft.tokens + Tokens(usage))
  <1> DEFINE total == draft.tokens + Tokens(usage)
             e == ContextStatusEvent(Level(Percent(total)))
  <1>1. CASE Window = 0
    <2>1. ContextStatus(usage) = <<>>
      BY <1>1 DEF ContextStatus
    <2>2. QED
      BY <2>1, SeqNone
  <1>2. CASE Window # 0
    <2>1. ContextStatus(usage) = <<e>>
      BY <1>2 DEF ContextStatus
    <2>2. Window \in Nat \ {0} /\ total \in Nat
      BY <1>2, StreamAssumption
    <2>3. Percent(total) \in Int
      BY <2>2 DEF Percent
    <2>4. Level(Percent(total)) = "blocked" <=> Percent(total) >= 95
      BY <2>3, LevelBlocked
    <2>5. e.type = "context_status" /\ e.data.can_continue = (Level(Percent(total)) # "blocked")
      BY DEF ContextStatusEvent, Event
    <2>6. StatusRight(e.data, total)
      <3>1. Window > 0 /\ (Full(total) <=> Level(Percent(total)) = "blocked")
        BY <2>2, <2>4 DEF Full
      <3>2. e.data.can_continue <=> ~(Level(Percent(total)) = "blocked")
        BY DEF ContextStatusEvent, Event
      <3> HIDE DEF e
      <3>3. e.data.can_continue <=> ~Full(total)
        BY <3>1, <3>2
      <3>4. QED
        BY <3>1, <3>3 DEF StatusRight
    <2>7. BeforeDone(e, total)
      BY <2>5, <2>6 DEF BeforeDone
    <2>8. IsSeq(<<e>>) /\ Len(<<e>>) = 1 /\ <<e>>[1] = e
      BY SeqOne
    <2> HIDE DEF e, total
    <2>9. QED
      BY <2>1, <2>7, <2>8 DEF total
  <1>3. QED
    BY <1>1, <1>2

LEMMA TitleEvents ==
    ASSUME NEW title \in Titles, NEW tokens
    PROVE  IsSeq(title) /\ \A i \in 1..Len(title) : BeforeDone(title[i], tokens)
  <1>1. title = <<>> \/ title = <<TitleEvent>>
    BY DEF Titles
  <1>2. CASE title = <<>>
    BY <1>2, SeqNone
  <1>3. CASE title = <<TitleEvent>>
    <2>1. BeforeDone(TitleEvent, tokens)
      BY DEF BeforeDone, TitleEvent, Event
    <2>2. IsSeq(title) /\ Len(title) = 1 /\ title[1] = TitleEvent
      BY <1>3, SeqOne
    <2>3. QED
      BY <2>1, <2>2
  <1>4. QED
    BY <1>1, <1>2, <1>3

\* The data of a done event.
DoneDataRight(d) ==
    /\ d # None /\ NormaliseUsage(d.usage) = d.usage /\ Tokens(d.usage) \in Nat

LEMMA TranslateDone ==
    ASSUME NEW f \in AgentFrame \cup FailureFrame, f.type = "done"
    PROVE  \E e : Translate(f) = <<e>> /\ e.type = "done" /\ DoneDataRight(e.data)
  <1> DEFINE raw == Get(f.data, "usage", <<>>)
             u == NormaliseUsage(raw)
             e == DoneEvent(Get(f.data, "status", "success"), u, Get(f.data, "session", FALSE))
  <1>1. Translate(f) = <<e>>
    BY DEF Translate
  <1>2. raw = <<>> \/ raw \in RawUsage
    <2>1. \/ f.data = Failed \/ f.data = [status |-> "success"]
          \/ \E status \in {"success", "error"}, r \in RawUsage :
               f.data = [status |-> status, usage |-> r, session |-> TRUE]
      BY FrameKinds DEF FrameKind
    <2>2. CASE f.data = Failed \/ f.data = [status |-> "success"]
      BY <2>2, FrameDomains DEF Get
    <2>3. ASSUME NEW status, NEW r \in RawUsage,
                 f.data = [status |-> status, usage |-> r, session |-> TRUE]
          PROVE  raw \in RawUsage
      BY <2>3, FrameDomains DEF Get
    <2>4. QED
      BY <2>1, <2>2, <2>3
  <1>3. \A c \in DOMAIN raw : raw[c] \in Nat
    <2>1. CASE raw = <<>>
      BY <2>1
    <2>2. CASE raw \in RawUsage
      BY <2>2, StreamAssumption
    <2>3. QED
      BY <1>2, <2>1, <2>2
  <1>4. NormaliseUsage(u) = u /\ Tokens(u) \in Nat
    <2> HIDE DEF raw
    <2>1. QED
      BY <1>3, UsageNormal, UsageCounts
  <1>5. e.type = "done" /\ e.data.usage = u /\ DOMAIN e.data = {"status", "usage", "session"}
    <2> HIDE DEF u
    <2>1. QED
      BY DEF DoneEvent, Event
  <1>6. e.data # None
    <2>1. DOMAIN None = {"none"}
      BY DEF None
    <2> HIDE DEF e
    <2>2. QED
      BY <1>5, <2>1
  <1>7. QED
    <2> HIDE DEF e, u
    <2>1. QED
      BY <1>1, <1>4, <1>5, <1>6 DEF DoneDataRight

LEMMA RelayDoneSends ==
    ASSUME StreamTypeInv, RelayDone
    PROVE  /\ wire # <<>> /\ wire' = Tail(wire) /\ got' = got - Pieces
           /\ FirstFrame.type = "done" /\ DoneDataRight(doneData')
           /\ \E pre, e :
                /\ IsSeq(pre)
                /\ \A i \in 1..Len(pre) :
                     BeforeDone(pre[i], draft.tokens + Tokens(doneData'.usage))
                /\ Sends(pre, e) /\ e.type = "done" /\ e.data = doneData'
  <1>1. NextFrame /\ Parsed.type = "done"
    BY DEF RelayDone
  <1>2. wire # <<>> /\ wire' = Tail(wire) /\ got' = got - Pieces
    <2>1. got >= Pieces /\ wire' = Tail(wire) /\ got' = got - Pieces
      BY <1>1 DEF NextFrame
    <2>2. got \in 0..Pieces * Len(wire)
      BY DEF StreamTypeInv
    <2>3. wire # <<>>
      BY <2>1, <2>2 DEF Pieces
    <2>4. QED
      BY <2>1, <2>3
  <1>3. /\ FirstFrame \in AgentFrame \cup FailureFrame
        /\ FirstFrame.type = "done" /\ Parsed = FirstFrame
    BY <1>1, <1>2, WireHead, ParsedFrame
  <1>4. PICK d : Translate(Parsed) = <<d>> /\ d.type = "done" /\ DoneDataRight(d.data)
    BY <1>3, TranslateDone
  <1>5. PICK title \in Titles :
          /\ sent' = sent \o DoneEvents(Translate(Parsed), title)
          /\ doneData' = Translate(Parsed)[1].data
    BY DEF RelayDone
  <1> DEFINE status == ContextStatus(d.data.usage)
             total == draft.tokens + Tokens(d.data.usage)
             rest == status \o title
             all == <<d>> \o rest
             made == Numbered(all)
  <1>6. doneData' = d.data
    BY <1>4, <1>5
  <1>7. /\ IsSeq(status) /\ \A i \in 1..Len(status) : BeforeDone(status[i], total)
    <2>1. Tokens(d.data.usage) \in Nat /\ draft.tokens \in Nat
      BY <1>4 DEF DoneDataRight, StreamTypeInv
    <2>2. QED
      BY <2>1, StatusEvents
  <1>8. IsSeq(title) /\ \A i \in 1..Len(title) : BeforeDone(title[i], total)
    BY TitleEvents
  <1> HIDE DEF status, total
  <1>9. IsSeq(rest) /\ \A i \in 1..Len(rest) : BeforeDone(rest[i], total)
    <2>1. /\ IsSeq(rest) /\ Len(rest) = Len(status) + Len(title)
          /\ \A i \in 1..Len(status) + Len(title) :
               rest[i] = IF i <= Len(status) THEN status[i] ELSE title[i - Len(status)]
      BY <1>7, <1>8, SeqJoin
    <2>2. Len(status) \in Nat /\ Len(title) \in Nat
      BY <1>7, <1>8, SeqLen
    <2> HIDE DEF rest
    <2>3. ASSUME NEW i \in 1..Len(rest)
          PROVE  BeforeDone(rest[i], total)
      <3>1. CASE i <= Len(status)
        <4>1. i \in 1..Len(status) /\ rest[i] = status[i]
          BY <2>1, <2>2, <3>1
        <4>2. QED
          BY <1>7, <4>1
      <3>2. CASE ~(i <= Len(status))
        <4>1. i - Len(status) \in 1..Len(title) /\ rest[i] = title[i - Len(status)]
          BY <2>1, <2>2, <3>2
        <4>2. QED
          BY <1>8, <4>1
      <3>3. QED
        BY <3>1, <3>2
    <2>4. QED
      BY <2>1, <2>3
  <1>10. /\ IsSeq(<<d>>) /\ Len(<<d>>) = 1 /\ <<d>>[1] = d
    BY SeqOne
  <1>11. (<<d>> \o status) \o title = all
    BY <1>7, <1>8, <1>10, SeqAssoc
  <1> HIDE DEF rest
  <1>12. /\ IsSeq(all) /\ Len(all) = 1 + Len(rest) /\ Len(rest) \in Nat
         /\ all[1] = d /\ \A i \in 1..Len(rest) : all[i + 1] = rest[i]
    <2>1. /\ IsSeq(all) /\ Len(all) = Len(<<d>>) + Len(rest)
          /\ \A i \in 1..Len(<<d>>) : all[i] = <<d>>[i]
          /\ \A i \in 1..Len(rest) : all[Len(<<d>>) + i] = rest[i]
      BY <1>9, <1>10, SeqJoin
    <2>2. Len(rest) \in Nat
      BY <1>9, SeqLen
    <2> HIDE DEF all
    <2>3. \A i \in 1..Len(rest) : all[i + 1] = rest[i]
      <3>1. \A i \in 1..Len(rest) : 1 + i = i + 1
        BY <2>2
      <3>2. QED
        BY <1>10, <2>1, <3>1
    <2>4. QED
      BY <1>10, <2>1, <2>2, <2>3
  <1> HIDE DEF all
  <1>13. /\ IsSeq(made) /\ Len(made) = Len(all)
         /\ \A i \in 1..Len(all) : made[i] = Mark(all[i], seq + i)
    BY <1>12, NumberedSeq
  <1> HIDE DEF made
  <1>14. /\ IsSeq(Tail(made)) /\ Len(Tail(made)) = Len(rest) /\ Head(made) = Mark(d, seq + 1)
         /\ \A i \in 1..Len(rest) : Tail(made)[i] = Mark(rest[i], seq + (i + 1))
    <2>1. /\ IsSeq(Tail(made)) /\ Len(Tail(made)) = Len(made) - 1 /\ Head(made) = made[1]
          /\ \A i \in 1..Len(Tail(made)) : Tail(made)[i] = made[i + 1]
      BY <1>12, <1>13, SeqTail
    <2>2. Len(Tail(made)) = Len(rest)
      BY <1>12, <1>13, <2>1
    <2>3. Head(made) = Mark(d, seq + 1)
      BY <1>12, <1>13, <2>1
    <2>4. ASSUME NEW i \in 1..Len(rest)
          PROVE  Tail(made)[i] = Mark(rest[i], seq + (i + 1))
      <3>1. i + 1 \in 1..Len(all)
        BY <1>12
      <3>2. QED
        BY <1>12, <1>13, <2>1, <2>2, <3>1
    <2>5. QED
      BY <2>1, <2>2, <2>3, <2>4
  <1>15. DoneEvents(Translate(Parsed), title) = Tail(made) \o <<Head(made)>>
    <2>1. Translate(Parsed)[1].data.usage = d.data.usage
      BY <1>4
    <2>2. (Translate(Parsed) \o ContextStatus(Translate(Parsed)[1].data.usage)) \o title = all
      BY <1>4, <1>11, <2>1 DEF status
    <2>3. Numbered((Translate(Parsed) \o ContextStatus(Translate(Parsed)[1].data.usage)) \o title) = made
      BY <2>2 DEF made
    <2>4. QED
      BY <2>3, Zenon DEF DoneEvents
  <1>16. \A i \in 1..Len(rest) : BeforeDone(Tail(made)[i], total)
    <2>1. ASSUME NEW e, NEW n, BeforeDone(e, total)
          PROVE  BeforeDone(Mark(e, n), total)
      BY <2>1 DEF BeforeDone, Mark
    <2>2. QED
      BY <1>9, <1>14, <2>1
  <1>17. Mark(d, seq + 1).type = "done" /\ Mark(d, seq + 1).data = doneData'
    BY <1>4, <1>6 DEF Mark
  <1>18. Sends(Tail(made), Mark(d, seq + 1))
    BY <1>5, <1>14, <1>15 DEF Sends
  <1>19. total = draft.tokens + Tokens(doneData'.usage)
    BY <1>6 DEF total
  <1>20. DoneDataRight(doneData')
    BY <1>4, <1>6
  <1>21. QED
    BY <1>2, <1>3, <1>14, <1>16, <1>17, <1>18, <1>19, <1>20

-----------------------------------------------------------------------------
(* What the agent writes *)

\* A finite set in some order.
LEMMA SomeOrder ==
    ASSUME NEW S, IsFiniteSet(S)
    PROVE  /\ SetToSeq(S) \in Seq(S)
           /\ \A x \in S : \E i \in 1..Len(SetToSeq(S)) : SetToSeq(S)[i] = x
  <1> DEFINE n == Cardinality(S)
             f == SetToSeq(S)
  <1>1. n \in Nat /\ ExistsBijection(1..n, S)
    BY FS_CardinalityType
  <1>2. \E g \in [1..n -> S] : IsInjective(g)
    BY <1>1 DEF ExistsBijection, Bijection, Injection
  <1>3. f \in [1..n -> S] /\ IsInjective(f)
    BY <1>2 DEF SetToSeq
  <1>4. f \in Injection(1..n, S)
    BY <1>3 DEF Injection
  <1>5. IsFiniteSet(1..n) /\ Cardinality(1..n) = n
    BY <1>1, FS_Interval
  <1> HIDE DEF f
  <1>6. f \in Surjection(1..n, S)
    BY <1>4, <1>5, FS_Injection
  <1>7. \A x \in S : \E i \in 1..n : f[i] = x
    BY <1>6 DEF Surjection
  <1>8. f \in Seq(S) /\ Len(f) = n
    <2> HIDE DEF n
    <2>1. QED
      BY <1>1, <1>3
  <1>9. QED
    BY <1>7, <1>8 DEF f

LEMMA UsesFinite ==
    ASSUME NEW uses \in SUBSET ToolUse, NEW kind
    PROVE  IsFiniteSet({Frame(kind, Named(u)) : u \in uses})
  <1> DEFINE S == {Frame(kind, Named(u)) : u \in uses}
             f == [u \in uses |-> Frame(kind, Named(u))]
  <1>1. IsFiniteSet(uses)
    BY FS_Subset, StreamAssumption
  <1>2. f \in Surjection(uses, S)
    BY DEF Surjection
  <1> HIDE DEF f, S
  <1>3. IsFiniteSet(S)
    BY <1>1, <1>2, FS_Surjection
  <1>4. QED
    BY <1>3 DEF S

\* The frames "fr" are appended to what is on the wire; nothing on the host changes.
WritesOf(fr) ==
    /\ fr \in Seq(AgentFrame) /\ Writes(fr) /\ agent # "gone"

\* Frames of an ending, of a result of the SDK, and such as say nothing of the two.
FewDone(fr) ==
    /\ \A i, k \in DonesIn(fr) : i = k
    /\ DonesIn(fr) # {} => agent \in {"starting", "running"} /\ agent' \notin {"starting", "running"}
Ends(fr) == agent' \in {"answered", "ended"} => Reported(fr) \/ agent = "answered"

\* Calls are new, results follow their calls.
ToolsOf(fr) ==
    /\ names \subseteq names' /\ open' \subseteq names' /\ names' \subseteq ToolUse
    /\ \A u \in names' \ names : \E i \in 1..Len(fr) : fr[i] = Frame("tool_use", Named(u))
    /\ \A i \in 1..Len(fr) : fr[i].type = "tool_result" =>
          \E u \in names : fr[i].data = Named(u)

LEMMA WritesOne ==
    ASSUME NEW f \in AgentFrame
    PROVE  <<f>> \in Seq(AgentFrame) /\ Len(<<f>>) = 1 /\ <<f>>[1] = f
  OBVIOUS

LEMMA EndWrites ==
    ASSUME StreamTypeInv, AgentRefuses \/ AgentRaises
    PROVE  \E fr : WritesOf(fr) /\ FewDone(fr) /\ Ends(fr) /\ ToolsOf(fr)
  <1> DEFINE fr == <<ErrorFrame>>
  <1>1. ErrorFrame \in AgentFrame /\ ErrorFrame.type = "error"
    BY DEF AgentFrame, ErrorFrame, Frame
  <1>2. fr \in Seq(AgentFrame) /\ Len(fr) = 1 /\ fr[1] = ErrorFrame
    BY <1>1, WritesOne
  <1>3. Writes(fr) /\ agent # "gone" /\ agent' = "ended" /\ UNCHANGED <<names, open>>
    BY DEF AgentRefuses, AgentRaises
  <1> HIDE DEF fr
  <1>4. DonesIn(fr) = {}
    BY <1>1, <1>2 DEF DonesIn
  <1>5. Reported(fr)
    BY <1>1, <1>2 DEF Reported, Final
  <1>6. ToolsOf(fr)
    BY <1>1, <1>2, <1>3 DEF ToolsOf, StreamTypeInv
  <1>7. WritesOf(fr)
    BY <1>2, <1>3 DEF WritesOf
  <1>8. QED
    BY <1>4, <1>5, <1>6, <1>7 DEF FewDone, Ends

LEMMA StartWrites ==
    ASSUME StreamTypeInv, AgentStarts
    PROVE  \E fr : WritesOf(fr) /\ FewDone(fr) /\ Ends(fr) /\ ToolsOf(fr)
  <1> DEFINE f == Frame("system", [init |-> TRUE])
             fr == <<f>>
  <1>1. f \in AgentFrame /\ f.type = "system"
    BY DEF AgentFrame, Frame
  <1>2. Writes(fr) /\ agent # "gone" /\ agent' = "running" /\ UNCHANGED <<names, open>>
    BY DEF AgentStarts
  <1> HIDE DEF f
  <1>3. fr \in Seq(AgentFrame) /\ Len(fr) = 1 /\ fr[1] = f
    BY <1>1, WritesOne
  <1> HIDE DEF fr
  <1>4. DonesIn(fr) = {}
    BY <1>1, <1>3 DEF DonesIn
  <1>5. ToolsOf(fr)
    BY <1>1, <1>2, <1>3 DEF ToolsOf, StreamTypeInv
  <1>6. WritesOf(fr)
    BY <1>2, <1>3 DEF WritesOf
  <1>7. QED
    BY <1>2, <1>4, <1>5, <1>6 DEF FewDone, Ends

LEMMA ResultWrites ==
    ASSUME StreamTypeInv, AgentResult
    PROVE  \E fr : WritesOf(fr) /\ FewDone(fr) /\ Ends(fr) /\ ToolsOf(fr)
  <1>1. PICK status \in {"success", "error"}, raw \in RawUsage :
          Writes(<<Frame("done", [status |-> status, usage |-> raw, session |-> TRUE])>>)
    BY DEF AgentResult
  <1> DEFINE f == Frame("done", [status |-> status, usage |-> raw, session |-> TRUE])
             fr == <<f>>
  <1>2. f \in AgentFrame
    <2>1. Frame("done", ResultData(status, raw)) \in ResultFrames
      BY DEF ResultFrames
    <2>2. f \in ResultFrames
      BY <2>1 DEF ResultData
    <2> HIDE DEF f
    <2>3. QED
      BY <2>2 DEF AgentFrame
  <1>3. f.type = "done"
    BY DEF Frame
  <1>4. Writes(fr) /\ agent = "running" /\ agent' = "answered" /\ UNCHANGED <<names, open>>
    BY <1>1 DEF AgentResult
  <1> HIDE DEF f
  <1>5. fr \in Seq(AgentFrame) /\ Len(fr) = 1 /\ fr[1] = f
    BY <1>2, WritesOne
  <1> HIDE DEF fr
  <1>6. DonesIn(fr) = {1} /\ Reported(fr)
    BY <1>3, <1>5 DEF DonesIn, Reported, Final
  <1>7. ToolsOf(fr)
    BY <1>3, <1>4, <1>5 DEF ToolsOf, StreamTypeInv
  <1>8. WritesOf(fr)
    BY <1>4, <1>5 DEF WritesOf
  <1>9. QED
    BY <1>4, <1>6, <1>7, <1>8 DEF FewDone, Ends

LEMMA FallbackWrites ==
    ASSUME StreamTypeInv, AgentEnds
    PROVE  \E fr : WritesOf(fr) /\ FewDone(fr) /\ Ends(fr) /\ ToolsOf(fr)
  <1>1. agent \in {"running", "answered"} /\ agent' = "ended" /\ UNCHANGED <<names, open>>
    BY DEF AgentEnds
  <1>2. CASE agent = "answered"
    <2> DEFINE fr == <<>>
    <2>1. Writes(fr)
      BY <1>2 DEF AgentEnds
    <2>2. fr \in Seq(AgentFrame) /\ Len(fr) = 0
      OBVIOUS
    <2> HIDE DEF fr
    <2>3. DonesIn(fr) = {}
      BY <2>2 DEF DonesIn
    <2>4. ToolsOf(fr)
      BY <1>1, <2>2 DEF ToolsOf, StreamTypeInv
    <2>5. QED
      BY <1>1, <1>2, <2>1, <2>2, <2>3, <2>4 DEF WritesOf, FewDone, Ends
  <1>3. CASE agent # "answered"
    <2> DEFINE f == Frame("done", [status |-> "success"])
               fr == <<f>>
    <2>1. f \in AgentFrame /\ f.type = "done"
      BY DEF AgentFrame, Frame
    <2>2. Writes(fr)
      BY <1>3 DEF AgentEnds, FallbackFrames
    <2> HIDE DEF f
    <2>3. fr \in Seq(AgentFrame) /\ Len(fr) = 1 /\ fr[1] = f
      BY <2>1, WritesOne
    <2> HIDE DEF fr
    <2>4. DonesIn(fr) = {1} /\ Reported(fr)
      BY <2>1, <2>3 DEF DonesIn, Reported, Final
    <2>5. ToolsOf(fr)
      BY <1>1, <2>1, <2>3 DEF ToolsOf, StreamTypeInv
    <2>6. QED
      BY <1>1, <1>3, <2>2, <2>3, <2>4, <2>5 DEF WritesOf, FewDone, Ends
  <1>4. QED
    BY <1>2, <1>3

LEMMA ToolFrames ==
    ASSUME NEW uses \in SUBSET ToolUse, NEW kind \in {"tool_use", "tool_result"}
    PROVE  {Frame(kind, Named(u)) : u \in uses} \subseteq AgentFrame
  <1>1. ASSUME NEW u \in uses
        PROVE  Frame(kind, Named(u)) \in ToolFrame
    BY DEF ToolFrame
  <1>2. ToolFrame \subseteq AgentFrame
    BY DEF AgentFrame
  <1>3. QED
    BY <1>1, <1>2

\* Frames of the calls, or of the results, of some tools.
Order(uses, kind) == SetToSeq({Frame(kind, Named(u)) : u \in uses})

LEMMA ToolFramesInOrder ==
    ASSUME NEW uses \in SUBSET ToolUse, NEW kind \in {"tool_use", "tool_result"}
    PROVE  /\ Order(uses, kind) \in Seq(AgentFrame) /\ IsSeq(Order(uses, kind))
           /\ \A u \in uses : \E i \in 1..Len(Order(uses, kind)) :
                 Order(uses, kind)[i] = Frame(kind, Named(u))
           /\ \A i \in 1..Len(Order(uses, kind)) :
                 /\ Order(uses, kind)[i].type = kind
                 /\ \E u \in uses : Order(uses, kind)[i].data = Named(u)
  <1> DEFINE S == {Frame(kind, Named(u)) : u \in uses}
             fr == Order(uses, kind)
  <1>1. IsFiniteSet(S) /\ S \subseteq AgentFrame
    BY UsesFinite, ToolFrames
  <1>2. \A u \in uses : Frame(kind, Named(u)) \in S
    OBVIOUS
  <1>3. \A x \in S : x.type = kind /\ \E u \in uses : x.data = Named(u)
    BY DEF Frame
  <1>4. fr = SetToSeq(S)
    BY DEF Order
  <1> HIDE DEF S, fr
  <1>5. fr \in Seq(S) /\ \A x \in S : \E i \in 1..Len(fr) : fr[i] = x
    BY <1>1, <1>4, SomeOrder
  <1>6. IsSeq(fr) /\ \A i \in 1..Len(fr) : fr[i] \in S
    BY <1>5, AnySeq
  <1>7. fr \in Seq(AgentFrame)
    BY <1>1, <1>5, SeqMonotonic
  <1>8. QED
    BY <1>2, <1>3, <1>5, <1>6, <1>7 DEF fr

LEMMA HearWrites ==
    ASSUME StreamTypeInv, AgentHears
    PROVE  \E fr : WritesOf(fr) /\ FewDone(fr) /\ Ends(fr) /\ ToolsOf(fr)
  <1>1. PICK uses \in SUBSET open :
          /\ open' = open \ uses
          /\ Writes(SetToSeq({ResultFrame(u, names) : u \in uses}))
    BY DEF AgentHears
  <1>2. agent = "running" /\ agent' = "running" /\ names' = names
    BY DEF AgentHears, Another
  <1> DEFINE fr == Order(uses, "tool_result")
  <1>3. {ResultFrame(u, names) : u \in uses} = {Frame("tool_result", Named(u)) : u \in uses}
    <2>1. ASSUME NEW u \in uses
          PROVE  ResultFrame(u, names) = Frame("tool_result", Named(u))
      BY DEF StreamTypeInv, ResultFrame, Named
    <2>2. QED
      BY <2>1
  <1>4. uses \in SUBSET ToolUse /\ uses \subseteq names
    BY DEF StreamTypeInv
  <1>5. /\ fr \in Seq(AgentFrame) /\ IsSeq(fr)
        /\ \A i \in 1..Len(fr) : fr[i].type = "tool_result" /\ \E u \in uses : fr[i].data = Named(u)
    BY <1>4, ToolFramesInOrder
  <1>6. Writes(fr)
    BY <1>1, <1>3 DEF Order
  <1> HIDE DEF fr
  <1>7. DonesIn(fr) = {}
    BY <1>5 DEF DonesIn
  <1>8. ToolsOf(fr)
    BY <1>1, <1>2, <1>4, <1>5 DEF ToolsOf, StreamTypeInv
  <1>9. QED
    BY <1>2, <1>5, <1>6, <1>7, <1>8 DEF WritesOf, FewDone, Ends

LEMMA SpeakWrites ==
    ASSUME StreamTypeInv, AgentSpeaks
    PROVE  \E fr : WritesOf(fr) /\ FewDone(fr) /\ Ends(fr) /\ ToolsOf(fr)
  <1>1. PICK said \in {<<>>, <<TextFrame>>, <<ThinkingFrame>>}, uses \in SUBSET (ToolUse \ names) :
          /\ names' = names \cup uses /\ open' = open \cup uses
          /\ Writes(said \o SetToSeq({UseFrame(u) : u \in uses}))
    BY DEF AgentSpeaks
  <1>2. agent = "running" /\ agent' = "running"
    BY DEF AgentSpeaks, Another
  <1> DEFINE calls == Order(uses, "tool_use")
             fr == said \o calls
  <1>3. {UseFrame(u) : u \in uses} = {Frame("tool_use", Named(u)) : u \in uses}
    BY DEF UseFrame, Named
  <1>4. uses \in SUBSET ToolUse
    OBVIOUS
  <1>5. /\ calls \in Seq(AgentFrame) /\ IsSeq(calls)
        /\ \A u \in uses : \E i \in 1..Len(calls) : calls[i] = Frame("tool_use", Named(u))
        /\ \A i \in 1..Len(calls) : calls[i].type = "tool_use"
    BY <1>4, ToolFramesInOrder
  <1>6. Writes(fr)
    BY <1>1, <1>3 DEF Order
  <1> HIDE DEF calls
  <1>7. /\ said \in Seq(AgentFrame) /\ IsSeq(said)
        /\ \A i \in 1..Len(said) : said[i].type \in {"text_delta", "thinking"}
    <2>1. /\ TextFrame \in AgentFrame /\ TextFrame.type = "text_delta"
          /\ ThinkingFrame \in AgentFrame /\ ThinkingFrame.type = "thinking"
      BY DEF AgentFrame, TextFrame, ThinkingFrame, Frame
    <2>2. CASE said = <<>>
      BY <2>2, SeqNone
    <2>3. CASE said = <<TextFrame>>
      <3>1. said \in Seq(AgentFrame) /\ Len(said) = 1 /\ said[1] = TextFrame
        BY <2>1, <2>3, WritesOne
      <3>2. QED
        BY <2>1, <3>1, AnySeq
    <2>4. CASE said = <<ThinkingFrame>>
      <3>1. said \in Seq(AgentFrame) /\ Len(said) = 1 /\ said[1] = ThinkingFrame
        BY <2>1, <2>4, WritesOne
      <3>2. QED
        BY <2>1, <3>1, AnySeq
    <2>5. QED
      BY <2>2, <2>3, <2>4
  <1>8. /\ fr \in Seq(AgentFrame) /\ Len(fr) = Len(said) + Len(calls)
        /\ Len(said) \in Nat /\ Len(calls) \in Nat
        /\ \A i \in 1..Len(said) + Len(calls) :
              fr[i] = IF i <= Len(said) THEN said[i] ELSE calls[i - Len(said)]
        /\ \A i \in 1..Len(calls) : fr[Len(said) + i] = calls[i]
    <2>1. Len(said) \in Nat /\ Len(calls) \in Nat
      BY <1>5, <1>7, SeqLen
    <2>2. fr \in Seq(AgentFrame)
      BY <1>5, <1>7, ConcatProperties
    <2>3. QED
      BY <1>5, <1>7, <2>1, <2>2, SeqJoin
  <1> HIDE DEF fr
  <1>9. \A i \in 1..Len(fr) : fr[i].type \in {"text_delta", "thinking", "tool_use"}
    <2> SUFFICES ASSUME NEW i \in 1..Len(fr)
                 PROVE  fr[i].type \in {"text_delta", "thinking", "tool_use"}
      OBVIOUS
    <2>1. CASE i <= Len(said)
      <3>1. i \in 1..Len(said) /\ fr[i] = said[i]
        BY <1>8, <2>1
      <3>2. QED
        BY <1>7, <3>1
    <2>2. CASE ~(i <= Len(said))
      <3>1. i - Len(said) \in 1..Len(calls) /\ fr[i] = calls[i - Len(said)]
        BY <1>8, <2>2
      <3>2. QED
        BY <1>5, <3>1
    <2>3. QED
      BY <2>1, <2>2
  <1>10. \A u \in uses : \E i \in 1..Len(fr) : fr[i] = Frame("tool_use", Named(u))
    <2> SUFFICES ASSUME NEW u \in uses
                 PROVE  \E i \in 1..Len(fr) : fr[i] = Frame("tool_use", Named(u))
      OBVIOUS
    <2>1. PICK i \in 1..Len(calls) : calls[i] = Frame("tool_use", Named(u))
      BY <1>5
    <2>2. Len(said) + i \in 1..Len(fr) /\ fr[Len(said) + i] = calls[i]
      BY <1>8
    <2>3. QED
      BY <2>1, <2>2
  <1>11. DonesIn(fr) = {}
    BY <1>9 DEF DonesIn
  <1>12. ToolsOf(fr)
    <2>1. names \subseteq names' /\ open' \subseteq names' /\ names' \subseteq ToolUse
      BY <1>1 DEF StreamTypeInv
    <2>2. \A u \in names' \ names : \E i \in 1..Len(fr) : fr[i] = Frame("tool_use", Named(u))
      BY <1>1, <1>10
    <2>3. QED
      BY <1>9, <2>1, <2>2 DEF ToolsOf
  <1>13. QED
    BY <1>2, <1>6, <1>8, <1>11, <1>12 DEF WritesOf, FewDone, Ends

\* The messages of the SDK and the endings of its run.
AgentActs ==
    \/ AgentRefuses \/ AgentStarts \/ AgentSpeaks \/ AgentHears
    \/ AgentResult \/ AgentEnds \/ AgentRaises

LEMMA AgentWrites ==
    ASSUME StreamTypeInv, AgentActs
    PROVE  /\ agent' \in {"running", "answered", "ended"}
           /\ \E fr : WritesOf(fr) /\ FewDone(fr) /\ Ends(fr) /\ ToolsOf(fr)
  <1>1. agent' \in {"running", "answered", "ended"}
    BY DEF AgentActs, AgentRefuses, AgentStarts, AgentSpeaks, AgentHears, Another,
           AgentResult, AgentEnds, AgentRaises
  <1>2. QED
    BY <1>1, EndWrites, StartWrites, SpeakWrites, HearWrites, ResultWrites, FallbackWrites
       DEF AgentActs

-----------------------------------------------------------------------------
(* What the steps do to what is on the wire and to what was sent *)

LEMMA Parts ==
    ASSUME NEW s, IsSeq(s), NEW t, IsSeq(t), NEW u, u = s \o t
    PROVE  /\ IsSeq(u) /\ Len(s) \in Nat /\ Len(t) \in Nat /\ Len(u) = Len(s) + Len(t)
           /\ \A i \in 1..Len(s) : u[i] = s[i]
           /\ \A i \in 1..Len(t) : u[Len(s) + i] = t[i]
           /\ \A i \in 1..Len(u) :
                \/ i \in 1..Len(s) /\ u[i] = s[i]
                \/ i - Len(s) \in 1..Len(t) /\ u[i] = t[i - Len(s)]
  <1>1. Len(s) \in Nat /\ Len(t) \in Nat
    BY SeqLen
  <1>2. /\ IsSeq(u) /\ Len(u) = Len(s) + Len(t)
        /\ \A i \in 1..Len(s) + Len(t) : u[i] = IF i <= Len(s) THEN s[i] ELSE t[i - Len(s)]
        /\ \A i \in 1..Len(s) : u[i] = s[i]
        /\ \A i \in 1..Len(t) : u[Len(s) + i] = t[i]
    BY SeqJoin
  <1>3. ASSUME NEW i \in 1..Len(u)
        PROVE  \/ i \in 1..Len(s) /\ u[i] = s[i]
               \/ i - Len(s) \in 1..Len(t) /\ u[i] = t[i - Len(s)]
    <2>1. i \in 1..Len(s) + Len(t)
      BY <1>2
    <2>2. u[i] = IF i <= Len(s) THEN s[i] ELSE t[i - Len(s)]
      BY <1>2, <2>1
    <2>3. i \in 1..Len(s) \/ (~(i <= Len(s)) /\ i - Len(s) \in 1..Len(t))
      BY <1>1, <2>1
    <2>4. i \in 1..Len(s) => i <= Len(s)
      BY <1>1
    <2>5. QED
      BY <2>2, <2>3, <2>4
  <1>4. QED
    BY <1>1, <1>2, <1>3

LEMMA WrittenWire ==
    ASSUME StreamTypeInv, NEW fr, WritesOf(fr)
    PROVE  /\ wire' \in Seq(AgentFrame) /\ emitted' \in Seq(AgentFrame)
           /\ IsSeq(wire) /\ IsSeq(fr) /\ IsSeq(emitted)
           /\ wire' = wire \o fr /\ emitted' = emitted \o fr
           /\ Len(wire) \in Nat /\ Len(fr) \in Nat /\ Len(wire') = Len(wire) + Len(fr)
           /\ \A i \in 1..Len(wire) : wire'[i] = wire[i]
           /\ \A i \in 1..Len(fr) : wire'[Len(wire) + i] = fr[i]
           /\ \A i \in 1..Len(wire') :
                \/ i \in 1..Len(wire) /\ wire'[i] = wire[i]
                \/ i - Len(wire) \in 1..Len(fr) /\ wire'[i] = fr[i - Len(wire)]
           /\ UNCHANGED <<got, split, broken, host, seq, sent, doneData, fileVars, dbVars>>
  <1>1. /\ fr \in Seq(AgentFrame) /\ agent # "gone" /\ wire' = wire \o fr
        /\ emitted' = emitted \o fr
        /\ UNCHANGED <<got, split, broken, host, seq, sent, doneData, fileVars, dbVars>>
    BY DEF WritesOf, Writes
  <1>2. wire \in Seq(AgentFrame) /\ emitted \in Seq(AgentFrame)
    BY <1>1 DEF StreamTypeInv
  <1>3. IsSeq(wire) /\ IsSeq(fr) /\ IsSeq(emitted)
    BY <1>1, <1>2, AnySeq
  <1>4. wire \o fr \in Seq(AgentFrame) /\ emitted \o fr \in Seq(AgentFrame)
    BY <1>1, <1>2, ConcatProperties
  <1>5. /\ Len(wire) \in Nat /\ Len(fr) \in Nat /\ Len(wire') = Len(wire) + Len(fr)
        /\ \A i \in 1..Len(wire) : wire'[i] = wire[i]
        /\ \A i \in 1..Len(fr) : wire'[Len(wire) + i] = fr[i]
        /\ \A i \in 1..Len(wire') :
             \/ i \in 1..Len(wire) /\ wire'[i] = wire[i]
             \/ i - Len(wire) \in 1..Len(fr) /\ wire'[i] = fr[i - Len(wire)]
    BY <1>1, <1>3, Parts
  <1>6. QED
    BY <1>1, <1>3, <1>4, <1>5

LEMMA FailedWire ==
    ASSUME StreamTypeInv, StreamFails \/ StreamTimesOut
    PROVE  /\ host = "stream" /\ agent # "gone" /\ agent' = "gone"
           /\ wire' \in Seq(FailureFrame) /\ Len(wire') \in {1, 2} /\ got' = Pieces * Len(wire')
           /\ \A i \in 1..Len(wire') : wire'[i].type = "tool_result" => wire'[i].data = Failed
           /\ wire'[1].type = "done" => wire # <<>> /\ FirstFrame.type = "done"
           /\ Len(wire') = 2 => wire'[2].type = "container_recovered"
           /\ wire'[1].type = "error" \/ broken'
           /\ UNCHANGED <<names, open, messages, emitted, host, seq, sent, doneData,
                          external, copied, missed, dbVars>>
  <1>0. ErrorFrame \in FailureFrame /\ ErrorFrame = Frame("error", Failed)
    BY DEF ErrorFrame, Failed, FailureFrame
  <1>1. ASSUME NEW f \in FailureFrame
        PROVE  <<f>> \in Seq(FailureFrame) /\ Len(<<f>>) = 1 /\ <<f>>[1] = f
    OBVIOUS
  <1>2. CASE StreamTimesOut
    <2>1. wire' = <<ErrorFrame>> /\ got' = Pieces /\ host = "stream"
          /\ agent # "gone" /\ agent' = "gone"
      BY <1>2 DEF StreamTimesOut
    <2>2. wire' \in Seq(FailureFrame) /\ Len(wire') = 1 /\ wire'[1] = ErrorFrame
      BY <1>0, <1>1, <2>1
    <2>3. ErrorFrame.type = "error"
      BY DEF ErrorFrame, Frame
    <2>4. QED
      BY <1>2, <2>1, <2>2, <2>3 DEF StreamTimesOut, Pieces
  <1>3. CASE StreamFails
    <2> DEFINE f == IF wire = <<>> THEN ErrorFrame ELSE Broken(Head(wire))
               notice == Frame("container_recovered", [recovered |-> TRUE])
    <2>1. /\ f \in FailureFrame /\ f.data = Failed
          /\ f.type = "done" => wire # <<>> /\ FirstFrame.type = "done"
          /\ f.type = "error" \/ got > 0
      <3>1. CASE wire = <<>>
        BY <1>0, <3>1 DEF Frame
      <3>2. CASE wire # <<>>
        <4>0. agent = "dead"
          BY <1>3 DEF StreamFails
        <4>1. FirstFrame \in AgentFrame
          BY <3>2, <4>0, WireHead
        <4>2. FirstFrame.type \in {"error", "text_delta", "thinking", "system", "tool_use",
                                   "tool_result", "done"}
          BY <4>1, AgentKinds
        <4>3. got = 0 \/ got = 1 \/ got = 2
          BY <1>3 DEF StreamFails, StreamTypeInv, Pieces
        <4>4. f = Broken(FirstFrame)
          BY <3>2 DEF FirstFrame
        <4>5. \A type \in {"garbled", "error", "text_delta", "thinking", "system", "done",
                           "tool_use", "tool_result"} : Frame(type, Failed) \in FailureFrame
          BY DEF FailureFrame
        <4>6. /\ got = 0 => f = Frame("error", Failed)
              /\ got = 1 => f = Frame("garbled", Failed)
              /\ got = 2 => f = Frame(FirstFrame.type, Failed)
          BY <1>0, <4>4 DEF Broken, InEventLine, InCharacter, Frame
        <4> HIDE DEF f
        <4>7. \A type : Frame(type, Failed).type = type /\ Frame(type, Failed).data = Failed
          BY DEF Frame
        <4>8. QED
          BY <3>2, <4>2, <4>3, <4>5, <4>6, <4>7
      <3>3. QED
        BY <3>1, <3>2
    <2>2. PICK after \in {<<>>, <<notice>>} :
             wire' = <<f>> \o after /\ got' = Pieces * (1 + Len(after))
      BY <1>3 DEF StreamFails
    <2>3. notice \in FailureFrame /\ notice.type = "container_recovered"
      BY DEF FailureFrame, Frame
    <2>4. broken' = (got > 0) /\ host = "stream" /\ agent = "dead" /\ agent' = "gone"
      BY <1>3 DEF StreamFails
    <2>5. /\ UNCHANGED <<names, open, messages, emitted, host, seq, sent, doneData,
                         external, copied, missed, dbVars>>
      BY <1>3 DEF StreamFails
    <2> HIDE DEF f, notice
    <2>6. CASE after = <<>>
      <3>1. wire' = <<f>> /\ got' = Pieces * 1
        BY <2>2, <2>6, JoinNone, SeqOne, SeqNone
      <3>2. wire' \in Seq(FailureFrame) /\ Len(wire') = 1 /\ wire'[1] = f
        BY <1>1, <2>1, <3>1
      <3>3. QED
        <4>1. \A i \in 1..Len(wire') : wire'[i].data = Failed
          BY <2>1, <3>2
        <4>2. got' = Pieces * Len(wire') /\ Len(wire') \in {1, 2} /\ Len(wire') # 2
          BY <3>1, <3>2
        <4>3. wire'[1].type = "error" \/ broken'
          BY <2>1, <2>4, <3>2
        <4>4. wire'[1].type = "done" => wire # <<>> /\ FirstFrame.type = "done"
          BY <2>1, <3>2
        <4>5. QED
          BY <2>4, <2>5, <3>2, <4>1, <4>2, <4>3, <4>4
    <2>7. CASE after = <<notice>>
      <3>1. wire' = <<f, notice>> /\ got' = Pieces * 2
        <4>1. Len(after) = 1 /\ 1 + 1 = 2
          BY <2>7
        <4>2. <<f, notice>> = <<f>> \o <<notice>>
          BY TwoEvents
        <4>3. QED
          BY <2>2, <2>7, <4>1, <4>2
      <3>2. ASSUME NEW g \in FailureFrame, NEW h \in FailureFrame
            PROVE  <<g, h>> \in Seq(FailureFrame)
        OBVIOUS
      <3>3. wire' \in Seq(FailureFrame)
        BY <2>1, <2>3, <3>1, <3>2
      <3>4. Len(wire') = 2 /\ wire'[1] = f /\ wire'[2] = notice
        BY <3>1, TwoEvents
      <3>5. \A i \in 1..2 : i = 1 \/ i = 2
        OBVIOUS
      <3>6. QED
        BY <2>1, <2>3, <2>4, <2>5, <3>1, <3>3, <3>4, <3>5
    <2>8. QED
      BY <2>2, <2>6, <2>7
  <1>4. QED
    BY <1>2, <1>3

LEMMA SentMore ==
    ASSUME IsSeq(sent), NEW pre, IsSeq(pre), NEW e, Sends(pre, e)
    PROVE  /\ IsSeq(sent') /\ Len(sent) \in Nat /\ Len(pre) \in Nat
           /\ Len(sent') = Len(sent) + Len(pre) + 1
           /\ \A i \in 1..Len(sent) : sent'[i] = sent[i]
           /\ \A i \in 1..Len(pre) : sent'[Len(sent) + i] = pre[i]
           /\ sent'[Len(sent')] = e
           /\ \A i \in 1..Len(sent') :
                \/ i \in 1..Len(sent) /\ sent'[i] = sent[i]
                \/ i - Len(sent) \in 1..Len(pre) /\ sent'[i] = pre[i - Len(sent)]
                \/ i = Len(sent') /\ sent'[i] = e
  <1> DEFINE o == <<e>>
             t == pre \o o
  <1>1. IsSeq(o) /\ Len(o) = 1 /\ o[1] = e
    BY SeqOne
  <1> HIDE DEF o
  <1>2. /\ Len(pre) \in Nat /\ IsSeq(t) /\ Len(t) = Len(pre) + 1
        /\ \A i \in 1..Len(pre) : t[i] = pre[i]
        /\ t[Len(pre) + 1] = e
        /\ \A i \in 1..Len(t) : i \in 1..Len(pre) \/ i = Len(pre) + 1
    <2>1. /\ IsSeq(t) /\ Len(pre) \in Nat /\ Len(o) \in Nat /\ Len(t) = Len(pre) + Len(o)
          /\ \A i \in 1..Len(pre) : t[i] = pre[i]
          /\ \A i \in 1..Len(o) : t[Len(pre) + i] = o[i]
      <3>1. t = pre \o o
        OBVIOUS
      <3> HIDE DEF t
      <3>2. QED
        <4>1. IsSeq(t) /\ Len(pre) \in Nat
          BY <1>1, <3>1, Parts, SeqLen
        <4>2. Len(t) = Len(pre) + Len(o) /\ Len(o) \in Nat
          BY <1>1, <3>1, Parts
        <4>3. \A i \in 1..Len(pre) : t[i] = pre[i]
          BY <1>1, <3>1, Parts
        <4>4. \A i \in 1..Len(o) : t[Len(pre) + i] = o[i]
          BY <1>1, <3>1, <4>1, <4>2, SeqJoin
        <4>5. QED
          BY <4>1, <4>2, <4>3, <4>4
    <2>2. 1 \in 1..Len(o)
      BY <1>1
    <2> HIDE DEF t
    <2>3. \A i \in 1..Len(t) : i \in 1..Len(pre) \/ i = Len(pre) + 1
      BY <1>1, <2>1
    <2>4. QED
      BY <1>1, <2>1, <2>2, <2>3
  <1>3. sent' = sent \o t
    BY DEF Sends, o
  <1> HIDE DEF t
  <1>4. /\ Len(sent) \in Nat /\ IsSeq(sent') /\ Len(sent') = Len(sent) + Len(t)
        /\ \A i \in 1..Len(sent) : sent'[i] = sent[i]
        /\ \A i \in 1..Len(t) : sent'[Len(sent) + i] = t[i]
        /\ \A i \in 1..Len(sent') :
             \/ i \in 1..Len(sent) /\ sent'[i] = sent[i]
             \/ i - Len(sent) \in 1..Len(t) /\ sent'[i] = t[i - Len(sent)]
    <2>1. IsSeq(t)
      BY <1>2
    <2> DEFINE u == sent'
    <2>2. u = sent \o t
      BY <1>3
    <2> HIDE DEF u
    <2>3. IsSeq(u) /\ Len(sent) \in Nat
      BY <2>1, <2>2, Parts, SeqLen
    <2>4. Len(u) = Len(sent) + Len(t)
      BY <2>1, <2>2, Parts
    <2>5. \A i \in 1..Len(sent) : u[i] = sent[i]
      BY <2>1, <2>2, Parts
    <2>6. \A i \in 1..Len(t) : u[Len(sent) + i] = t[i]
      BY <2>1, <2>2, Parts
    <2>7. \A i \in 1..Len(u) :
             \/ i \in 1..Len(sent) /\ u[i] = sent[i]
             \/ i - Len(sent) \in 1..Len(t) /\ u[i] = t[i - Len(sent)]
      BY <2>1, <2>2, Parts
    <2>8. QED
      BY <2>3, <2>4, <2>5, <2>6, <2>7 DEF u
  <1>5. \A i \in 1..Len(pre) : sent'[Len(sent) + i] = pre[i]
    <2>1. \A i \in 1..Len(pre) : i \in 1..Len(t)
      BY <1>2
    <2>2. QED
      BY <1>2, <1>4, <2>1
  <1>6. sent'[Len(sent')] = e
    <2>1. Len(t) \in 1..Len(t) /\ Len(sent') = Len(sent) + Len(t) /\ Len(t) = Len(pre) + 1
      BY <1>2, <1>4
    <2>2. sent'[Len(sent) + Len(t)] = t[Len(t)]
      BY <1>4, <2>1
    <2>3. QED
      BY <1>2, <2>1, <2>2
  <1>7. ASSUME NEW i \in 1..Len(sent')
        PROVE  \/ i \in 1..Len(sent) /\ sent'[i] = sent[i]
               \/ i - Len(sent) \in 1..Len(pre) /\ sent'[i] = pre[i - Len(sent)]
               \/ i = Len(sent') /\ sent'[i] = e
    <2>1. CASE i \in 1..Len(sent)
      BY <1>4, <2>1
    <2>2. CASE ~(i \in 1..Len(sent))
      <3>1. i - Len(sent) \in 1..Len(t) /\ sent'[i] = t[i - Len(sent)]
        BY <1>4, <2>2
      <3>2. i - Len(sent) \in 1..Len(pre) \/ i - Len(sent) = Len(pre) + 1
        BY <1>2, <3>1
      <3>3. i - Len(sent) = Len(pre) + 1 => i = Len(sent')
        BY <1>2, <1>4
      <3>4. QED
        BY <1>2, <1>6, <3>1, <3>2, <3>3
    <2>3. QED
      BY <2>1, <2>2
  <1>8. Len(sent') = Len(sent) + Len(pre) + 1
    BY <1>2, <1>4
  <1>9. QED
    BY <1>2, <1>4, <1>5, <1>6, <1>7, <1>8

\* A turn undone is answered with an error and a done event.
LEMMA RaiseSends ==
    ASSUME StreamTypeInv, HostRaises
    PROVE  \E pre, e :
             /\ IsSeq(pre) /\ Len(pre) = 1 /\ pre[1].type = "error" /\ e.type = "done"
             /\ Sends(pre, e)
  <1> DEFINE a == Mark(ErrorEvent, seq + 1)
             b == Mark(ErrorDone, seq + 2)
  <1>1. sent' = sent \o Numbered(<<ErrorEvent, ErrorDone>>)
    BY DEF HostRaises
  <1>2. Numbered(<<ErrorEvent, ErrorDone>>) = <<a, b>>
    BY NumberedTwo
  <1>3. a.type = "error" /\ b.type = "done"
    BY DEF Mark, ErrorEvent, ErrorDone, DoneEvent, Event
  <1> HIDE DEF a, b
  <1>4. <<a, b>> = <<a>> \o <<b>>
    BY TwoEvents
  <1>5. IsSeq(<<a>>) /\ Len(<<a>>) = 1 /\ <<a>>[1] = a
    BY SeqOne
  <1>6. Sends(<<a>>, b)
    BY <1>1, <1>2, <1>4 DEF Sends
  <1>7. QED
    BY <1>3, <1>5, <1>6

\* Steps of the host that neither receive nor send.
HostActs ==
    \/ StreamEnds \/ Rescue \/ RecordUsage \/ RecordNothing \/ SaveAnswer
    \/ Commit \/ Rollback

LEMMA HostQuiet ==
    ASSUME HostActs
    PROVE  UNCHANGED <<agentVars, wireVars, seq, sent, doneData, external, replaced, events>>
  BY DEF HostActs, StreamEnds, Rescue, RecordUsage, RecordNothing, SaveAnswer, Commit, Rollback,
         agentVars, wireVars, fileVars, dbVars

LEMMA StepKinds ==
    ASSUME [Next]_vars
    PROVE  \/ AgentActs \/ ContainerDies \/ Receive \/ StreamFails \/ StreamTimesOut
           \/ RelayEvent \/ RelayDone \/ HostActs \/ HostRaises \/ UNCHANGED vars
  BY DEF Next, AgentActs, HostActs

-----------------------------------------------------------------------------
(* Types *)

LEMMA TypeInit ==
    Init => StreamTypeInv
  <1> SUFFICES ASSUME Init
               PROVE  StreamTypeInv
    OBVIOUS
  <1>1. IsSeq(<<>>) /\ Len(<<>>) = 0
    BY SeqNone
  <1>2. <<>> \in Seq(AgentFrame) /\ <<>> \in Seq(AgentFrame \cup FailureFrame)
    OBVIOUS
  <1>3. PICK t \in StartTokens :
          stored = [log |-> <<>>, usage |-> None, tokens |-> t, limit |-> FALSE, titled |-> FALSE]
    BY DEF Init
  <1>4. t \in Nat
    BY StreamAssumption
  <1>5. IsSession(stored) /\ stored.tokens = t
    BY <1>3 DEF IsSession
  <1>6. draft = stored
    BY DEF Init
  <1>7. /\ agent = "starting" /\ host = "stream" /\ names = {} /\ open = {}
        /\ emitted = <<>> /\ wire = <<>> /\ got = 0 /\ sent = <<>>
    BY DEF Init
  <1>8. got \in 0..Pieces * Len(wire)
    BY <1>1, <1>7 DEF Pieces
  <1>9. QED
    BY <1>1, <1>2, <1>4, <1>5, <1>6, <1>7, <1>8 DEF StreamTypeInv

LEMMA TypeAgent ==
    ASSUME StreamTypeInv, AgentActs
    PROVE  StreamTypeInv'
  <1>1. agent' \in {"running", "answered", "ended"}
    BY AgentWrites
  <1>2. PICK fr : WritesOf(fr) /\ ToolsOf(fr)
    BY AgentWrites
  <1>3. /\ wire' \in Seq(AgentFrame) /\ emitted' \in Seq(AgentFrame)
        /\ Len(wire) \in Nat /\ Len(fr) \in Nat /\ Len(wire') = Len(wire) + Len(fr)
        /\ UNCHANGED <<got, split, broken, host, seq, sent, doneData, fileVars, dbVars>>
    BY <1>2, WrittenWire
  <1>4. wire' \in Seq(AgentFrame \cup FailureFrame)
    BY <1>3, SeqMonotonic
  <1>5. got' \in 0..Pieces * Len(wire')
    BY <1>3 DEF StreamTypeInv, Pieces
  <1>6. names' \subseteq ToolUse /\ open' \subseteq names'
    BY <1>2 DEF ToolsOf
  <1>7. UNCHANGED <<host, sent, draft, stored>>
    BY <1>3 DEF dbVars
  <1>8. /\ IsSeq(sent') /\ IsSession(draft') /\ IsSession(stored') /\ draft'.tokens \in Nat
        /\ stored'.tokens \in Nat
        /\ host' \in {"stream", "rescue", "record", "answer", "end", "undo", "closed"}
    BY <1>7 DEF StreamTypeInv
  <1>9. QED
    BY <1>1, <1>3, <1>4, <1>5, <1>6, <1>8 DEF StreamTypeInv

LEMMA TypeRelay ==
    ASSUME StreamTypeInv, RelayEvent \/ RelayDone
    PROVE  StreamTypeInv'
  <1>1. wire # <<>> /\ wire' = Tail(wire) /\ got' = got - Pieces
    BY RelayEventSends, RelayDoneSends
  <1>2. \E pre, e : IsSeq(pre) /\ Sends(pre, e)
    BY RelayEventSends, RelayDoneSends
  <1>3. IsSeq(sent')
    BY <1>2, SentMore DEF StreamTypeInv
  <1>4. /\ Tail(wire) \in Seq(AgentFrame \cup FailureFrame)
        /\ agent # "gone" => Tail(wire) \in Seq(AgentFrame)
        /\ Len(wire) \in Nat \ {0} /\ Len(Tail(wire)) = Len(wire) - 1
    BY <1>1, WireHead
  <1>5. got >= Pieces
    BY DEF RelayEvent, RelayDone, NextFrame
  <1>6. got' \in 0..Pieces * Len(wire')
    BY <1>1, <1>4, <1>5 DEF StreamTypeInv, Pieces
  <1>7. UNCHANGED <<agent, names, open, emitted, host, stored>>
    BY DEF RelayEvent, RelayDone, NextFrame, agentVars
  <1>8. IsSession(draft') /\ draft'.tokens \in Nat
    <2>1. CASE RelayEvent
      <3>1. draft' = draft
        BY <2>1 DEF RelayEvent
      <3>2. QED
        BY <3>1 DEF StreamTypeInv
    <2>2. CASE RelayDone
      <3>1. PICK b : draft' = [draft EXCEPT !.titled = @ \/ b]
        <4>1. \E title \in Titles : draft' = [draft EXCEPT !.titled = @ \/ title # <<>>]
          BY <2>2 DEF RelayDone
        <4>2. QED
          BY <4>1
      <3>2. QED
        BY <3>1 DEF StreamTypeInv, IsSession
    <2>3. QED
      BY <2>1, <2>2
  <1>9. IsSession(stored') /\ stored'.tokens \in Nat /\ names' \subseteq ToolUse
        /\ open' \subseteq names' /\ emitted' \in Seq(AgentFrame)
        /\ agent' \in {"starting", "running", "answered", "ended", "dead", "gone"}
        /\ host' \in {"stream", "rescue", "record", "answer", "end", "undo", "closed"}
    BY <1>7 DEF StreamTypeInv
  <1>10. QED
    BY <1>1, <1>3, <1>4, <1>6, <1>7, <1>8, <1>9 DEF StreamTypeInv

LEMMA TypeFails ==
    ASSUME StreamTypeInv, StreamFails \/ StreamTimesOut
    PROVE  StreamTypeInv'
  <1>1. /\ agent' = "gone" /\ wire' \in Seq(FailureFrame) /\ Len(wire') \in {1, 2}
        /\ got' = Pieces * Len(wire')
        /\ UNCHANGED <<names, open, messages, emitted, host, seq, sent, doneData,
                       external, copied, missed, dbVars>>
    BY FailedWire
  <1>2. wire' \in Seq(AgentFrame \cup FailureFrame)
    BY <1>1, SeqMonotonic
  <1>3. got' \in 0..Pieces * Len(wire')
    BY <1>1 DEF Pieces
  <1>4. /\ names' \subseteq ToolUse /\ open' \subseteq names' /\ emitted' \in Seq(AgentFrame)
        /\ host' \in {"stream", "rescue", "record", "answer", "end", "undo", "closed"}
        /\ IsSeq(sent') /\ IsSession(draft') /\ IsSession(stored')
        /\ draft'.tokens \in Nat /\ stored'.tokens \in Nat
    BY <1>1 DEF StreamTypeInv, dbVars
  <1>5. QED
    BY <1>1, <1>2, <1>3, <1>4 DEF StreamTypeInv

\* What a later record of the usage takes as tokens is a number.
DataCounts == doneData # None => Tokens(NormaliseUsage(doneData.usage)) \in Nat

LEMMA TypeHost ==
    ASSUME StreamTypeInv, DataCounts, HostActs
    PROVE  StreamTypeInv'
  <1>1. /\ UNCHANGED <<agentVars, wireVars, sent>>
    BY HostQuiet
  <1>2. host' \in {"stream", "rescue", "record", "answer", "end", "undo", "closed"}
    BY DEF HostActs, StreamEnds, Rescue, RecordUsage, RecordNothing, SaveAnswer, Commit, Rollback
  <1>3. IsSession(draft') /\ draft'.tokens \in Nat /\ IsSession(stored') /\ stored'.tokens \in Nat
    <2>1. CASE StreamEnds \/ Rescue \/ RecordNothing
      <3>1. UNCHANGED <<draft, stored>>
        BY <2>1 DEF StreamEnds, Rescue, RecordNothing, dbVars
      <3>2. QED
        BY <3>1 DEF StreamTypeInv
    <2>2. CASE RecordUsage
      <3> DEFINE u == NormaliseUsage(doneData.usage)
      <3>1. doneData # None
            /\ draft' = [draft EXCEPT !.usage = u, !.tokens = @ + Tokens(u),
                                      !.limit = LimitReached(u)]
            /\ stored' = stored
        BY <2>2 DEF RecordUsage
      <3>2. Tokens(u) \in Nat
        BY <3>1 DEF DataCounts
      <3>3. PICK limit : draft' = [draft EXCEPT !.usage = u, !.tokens = @ + Tokens(u),
                                                !.limit = limit]
        BY <3>1
      <3>4. PICK n \in Nat : draft' = [draft EXCEPT !.usage = u, !.tokens = @ + n,
                                                   !.limit = limit]
        BY <3>2, <3>3
      <3> HIDE DEF u
      <3>5. draft'.tokens = draft.tokens + n /\ IsSession(draft')
        BY <3>4 DEF StreamTypeInv, IsSession
      <3>6. QED
        BY <3>1, <3>5 DEF StreamTypeInv
    <2>3. CASE SaveAnswer
      <3>1. stored' = stored /\ (draft' = draft \/ draft' = [draft EXCEPT !.log = events])
        BY <2>3 DEF SaveAnswer
      <3>2. QED
        BY <3>1 DEF StreamTypeInv, IsSession
    <2>4. CASE Commit \/ Rollback
      <3>1. (stored' = draft /\ draft' = draft) \/ (stored' = stored /\ draft' = stored)
        BY <2>4 DEF Commit, Rollback
      <3>2. QED
        BY <3>1 DEF StreamTypeInv
    <2>5. QED
      BY <2>1, <2>2, <2>3, <2>4 DEF HostActs
  <1>4. UNCHANGED <<agent, names, open, emitted, wire, got, sent>>
    BY <1>1 DEF agentVars, wireVars
  <1>5. QED
    BY <1>2, <1>3, <1>4 DEF StreamTypeInv

LEMMA TypeKept ==
    ASSUME StreamTypeInv, DataCounts, [Next]_vars
    PROVE  StreamTypeInv'
  <1>1. CASE ContainerDies
    <2>1. agent' = "dead" /\ agent # "gone"
          /\ UNCHANGED <<host, names, open, emitted, wire, got, sent, draft, stored>>
      BY <1>1 DEF ContainerDies, wireVars, dbVars
    <2>2. QED
      BY <2>1 DEF StreamTypeInv
  <1>2. CASE Receive
    <2>1. UNCHANGED <<agent, host, names, open, emitted, wire, sent, draft, stored>>
      BY <1>2 DEF Receive, agentVars, dbVars
    <2>2. got' \in got + 1 .. Pieces * Len(wire)
      BY <1>2 DEF Receive
    <2>3. got' \in 0..Pieces * Len(wire')
      <3>1. got \in Nat /\ wire' = wire
        BY <2>1 DEF StreamTypeInv
      <3>2. QED
        BY <2>2, <3>1 DEF StreamTypeInv
    <2>4. QED
      BY <2>1, <2>3 DEF StreamTypeInv
  <1>3. CASE HostRaises
    <2>1. \E pre, e : IsSeq(pre) /\ Sends(pre, e)
      BY <1>3, RaiseSends
    <2>2. IsSeq(sent')
      BY <2>1, SentMore DEF StreamTypeInv
    <2>3. host' = "undo" /\ UNCHANGED <<agent, names, open, emitted, wire, got, draft, stored>>
      BY <1>3 DEF HostRaises, agentVars, wireVars, dbVars
    <2>4. QED
      BY <2>2, <2>3 DEF StreamTypeInv
  <1>4. CASE UNCHANGED vars
    BY <1>4 DEF vars, agentVars, wireVars, dbVars, StreamTypeInv
  <1>5. QED
    BY <1>1, <1>2, <1>3, <1>4, StepKinds, TypeAgent, TypeRelay, TypeFails, TypeHost

-----------------------------------------------------------------------------
(* Files outside the workspace *)

OutsideCall(e) == e.type = "tool_call" /\ e.data.id \in Outside /\ e.data.name \in FileTool

LEMMA OutsideInit ==
    Init => OutsideInv
  <1>1. Init => sent = <<>> /\ host = "stream"
    BY DEF Init
  <1>2. Len(<<>>) = 0
    BY SeqNone
  <1>3. QED
    BY <1>1, <1>2 DEF OutsideInv

\* Nothing that calls for a copy is sent, but what is in "external".
LEMMA OutsideSends ==
    ASSUME StreamTypeInv, OutsideInv, NEW pre, IsSeq(pre), NEW e, Sends(pre, e),
           \A i \in 1..Len(pre) : ~OutsideCall(pre[i]),
           OutsideCall(e) => e.data.id \in external', external \subseteq external'
    PROVE  \A i \in 1..Len(sent') : OutsideCall(sent'[i]) => sent'[i].data.id \in external'
  <1> SUFFICES ASSUME NEW i \in 1..Len(sent'), OutsideCall(sent'[i])
               PROVE  sent'[i].data.id \in external'
    OBVIOUS
  <1>1. \/ i \in 1..Len(sent) /\ sent'[i] = sent[i]
        \/ i - Len(sent) \in 1..Len(pre) /\ sent'[i] = pre[i - Len(sent)]
        \/ i = Len(sent') /\ sent'[i] = e
    BY SentMore DEF StreamTypeInv
  <1>2. \A k \in 1..Len(sent) : OutsideCall(sent[k]) => sent[k].data.id \in external
    BY DEF OutsideInv, OutsideCall
  <1>3. QED
    BY <1>1, <1>2

LEMMA OutsideKept ==
    ASSUME StreamTypeInv, OutsideInv, [Next]_vars
    PROVE  OutsideInv'
  <1> DEFINE Later == {"record", "answer", "end"}
  <1>1. CASE RelayEvent
    <2>1. PICK pre, e :
            /\ IsSeq(pre) /\ \A i \in 1..Len(pre) : pre[i].type = "progress"
            /\ Sends(pre, e) /\ external' = external \cup ExternalPaths(pre \o <<e>>)
      BY <1>1, RelayEventSends
    <2>2. OutsideCall(e) => e.data.id \in external'
      <3>1. SUFFICES ASSUME OutsideCall(e)
                     PROVE  e.data.id \in ExternalPaths(pre \o <<e>>)
        BY <2>1
      <3> DEFINE t == pre \o <<e>>
      <3>2. IsSeq(t) /\ Len(t) = Len(pre) + 1 /\ t[Len(pre) + 1] = e /\ Len(pre) \in Nat
        <4>1. IsSeq(<<e>>) /\ Len(<<e>>) = 1 /\ <<e>>[1] = e
          BY SeqOne
        <4>2. Len(pre) \in Nat
          BY <2>1, SeqLen
        <4>3. /\ IsSeq(t) /\ Len(t) = Len(pre) + 1
              /\ \A i \in 1..Len(<<e>>) : t[Len(pre) + i] = <<e>>[i]
          BY <2>1, <4>1, SeqJoin
        <4>4. 1 \in 1..Len(<<e>>)
          BY <4>1
        <4>5. QED
          BY <4>1, <4>2, <4>3, <4>4
      <3> HIDE DEF t
      <3>3. Len(pre) + 1 \in DOMAIN t
        BY <3>2, SeqLen
      <3>4. e.data.id \in ExternalPaths(t)
        BY <3>1, <3>2, <3>3 DEF ExternalPaths, OutsideCall
      <3>5. QED
        BY <3>4 DEF t
    <2>3. \A i \in 1..Len(pre) : ~OutsideCall(pre[i])
      BY <2>1 DEF OutsideCall
    <2>4. \A i \in 1..Len(sent') : OutsideCall(sent'[i]) => sent'[i].data.id \in external'
      BY <2>1, <2>2, <2>3, OutsideSends
    <2>5. host' = "stream"
      BY <1>1 DEF RelayEvent, NextFrame
    <2>6. QED
      BY <2>4, <2>5 DEF OutsideInv, OutsideCall
  <1>2. CASE RelayDone \/ HostRaises
    <2>1. PICK pre, e :
            /\ IsSeq(pre) /\ \A i \in 1..Len(pre) : pre[i].type # "tool_call"
            /\ Sends(pre, e) /\ e.type = "done"
      <3>1. CASE RelayDone
        <4>1. PICK pre, e : /\ IsSeq(pre) /\ Sends(pre, e) /\ e.type = "done"
                            /\ \A i \in 1..Len(pre) :
                                 BeforeDone(pre[i], draft.tokens + Tokens(doneData'.usage))
          BY <3>1, RelayDoneSends
        <4>2. \A i \in 1..Len(pre) : pre[i].type # "tool_call"
          BY <4>1 DEF BeforeDone
        <4>3. QED
          BY <4>1, <4>2
      <3>2. CASE HostRaises
        <4>1. PICK pre, e : /\ IsSeq(pre) /\ Len(pre) = 1 /\ pre[1].type = "error"
                            /\ e.type = "done" /\ Sends(pre, e)
          BY <3>2, RaiseSends
        <4>2. \A i \in 1..Len(pre) : pre[i].type # "tool_call"
          BY <4>1
        <4>3. QED
          BY <4>1, <4>2
      <3>3. QED
        BY <1>2, <3>1, <3>2
    <2>2. external' = external /\ host' \in {"stream", "undo"}
      BY <1>2 DEF RelayDone, NextFrame, HostRaises, fileVars
    <2>3. \A i \in 1..Len(pre) : ~OutsideCall(pre[i])
      BY <2>1 DEF OutsideCall
    <2>4. ~OutsideCall(e)
      BY <2>1 DEF OutsideCall
    <2>5. \A i \in 1..Len(sent') : OutsideCall(sent'[i]) => sent'[i].data.id \in external'
      BY <2>1, <2>2, <2>3, <2>4, OutsideSends
    <2>6. QED
      BY <2>2, <2>5 DEF OutsideInv, OutsideCall
  <1>3. CASE HostActs
    <2>1. UNCHANGED <<sent, external>>
      BY <1>3, HostQuiet
    <2>2. host' \in Later => external' = copied' \cup missed'
      <3>1. CASE Rescue
        <4>1. PICK there \in IF replaced THEN {{}} ELSE SUBSET external :
                copied' = there /\ missed' = external \ there
          BY <3>1 DEF Rescue
        <4>2. there \subseteq external
          BY <4>1
        <4>3. QED
          BY <2>1, <4>1, <4>2
      <3>2. CASE StreamEnds \/ Commit \/ Rollback
        BY <3>2 DEF StreamEnds, Commit, Rollback
      <3>3. CASE RecordUsage \/ RecordNothing \/ SaveAnswer
        <4>1. UNCHANGED <<copied, missed>> /\ host \in Later
          BY <3>3 DEF RecordUsage, RecordNothing, SaveAnswer, fileVars
        <4>2. QED
          BY <2>1, <4>1 DEF OutsideInv
      <3>4. QED
        BY <1>3, <3>1, <3>2, <3>3 DEF HostActs
    <2>3. QED
      BY <2>1, <2>2 DEF OutsideInv
  <1>4. CASE AgentActs
    <2>1. PICK fr : WritesOf(fr)
      BY <1>4, AgentWrites
    <2>2. UNCHANGED <<host, sent, fileVars>>
      BY <2>1, WrittenWire
    <2>3. QED
      BY <2>2 DEF OutsideInv, fileVars
  <1>5. CASE ContainerDies \/ Receive
    <2>1. UNCHANGED <<host, sent, external, copied, missed>>
      BY <1>5 DEF ContainerDies, Receive, fileVars
    <2>2. QED
      BY <2>1 DEF OutsideInv
  <1>6. CASE StreamFails \/ StreamTimesOut
    <2>1. UNCHANGED <<host, sent, external, copied, missed>>
      BY <1>6, FailedWire
    <2>2. QED
      BY <2>1 DEF OutsideInv
  <1>7. CASE UNCHANGED vars
    BY <1>7 DEF vars, fileVars, OutsideInv
  <1>8. QED
    BY <1>1, <1>2, <1>3, <1>4, <1>5, <1>6, <1>7, StepKinds

-----------------------------------------------------------------------------
(* Calls and results of tools *)

LEMMA HasMore ==
    ASSUME NEW s, NEW t, NEW kind, NEW d, NEW n \in Int, NEW m \in Int, n <= m,
           \A i \in 1..n : t[i] = s[i], Has(s, kind, d, n)
    PROVE  Has(t, kind, d, m)
  <1>1. PICK k \in 1..n : s[k].type = kind /\ s[k].data = d
    BY DEF Has
  <1>2. k \in 1..m /\ t[k] = s[k]
    OBVIOUS
  <1>3. QED
    BY <1>1, <1>2 DEF Has

LEMMA ToolsInit ==
    Init => ToolsInv
  <1> SUFFICES ASSUME Init
               PROVE  ToolsInv
    OBVIOUS
  <1>1. Len(sent) = 0 /\ Len(wire) = 0 /\ names = {}
    BY SeqNone DEF Init
  <1>2. 1..0 = {}
    OBVIOUS
  <1>3. QED
    BY <1>1, <1>2 DEF ToolsInv

LEMMA ToolsAgent ==
    ASSUME StreamTypeInv, ToolsInv, AgentActs
    PROVE  ToolsInv'
  <1>1. PICK fr : WritesOf(fr) /\ ToolsOf(fr)
    BY AgentWrites
  <1>2. /\ Len(wire) \in Nat /\ Len(fr) \in Nat /\ Len(wire') = Len(wire) + Len(fr)
        /\ \A i \in 1..Len(wire) : wire'[i] = wire[i]
        /\ \A i \in 1..Len(fr) : wire'[Len(wire) + i] = fr[i]
        /\ \A i \in 1..Len(wire') :
             \/ i \in 1..Len(wire) /\ wire'[i] = wire[i]
             \/ i - Len(wire) \in 1..Len(fr) /\ wire'[i] = fr[i - Len(wire)]
        /\ sent' = sent
    BY <1>1, WrittenWire
  <1>3. agent # "gone"
    BY <1>1 DEF WritesOf
  <1>4. ASSUME NEW i \in 1..Len(wire'), wire'[i].type = "tool_result", wire'[i].data # Failed
        PROVE  CallSent(wire'[i].data, Len(sent)) \/ Has(wire', "tool_use", wire'[i].data, i - 1)
    <2>1. CASE i \in 1..Len(wire) /\ wire'[i] = wire[i]
      <3>1. CallSent(wire[i].data, Len(sent)) \/ CallOnWay(wire[i].data, i - 1)
        BY <1>4, <2>1 DEF ToolsInv
      <3>2. i - 1 \in Int /\ i - 1 <= i - 1 /\ \A k \in 1..i - 1 : wire'[k] = wire[k]
        BY <1>2, <2>1
      <3>3. QED
        BY <2>1, <3>1, <3>2, HasMore DEF CallOnWay
    <2>2. CASE i - Len(wire) \in 1..Len(fr) /\ wire'[i] = fr[i - Len(wire)]
      <3>1. PICK u \in names : wire'[i].data = Named(u)
        BY <1>1, <1>4, <2>2 DEF ToolsOf
      <3>2. CallSent(Named(u), Len(sent)) \/ CallOnWay(Named(u), Len(wire))
        BY <1>3 DEF ToolsInv
      <3>3. i - 1 \in Int /\ Len(wire) <= i - 1
        BY <1>2, <2>2
      <3>4. QED
        BY <1>2, <3>1, <3>2, <3>3, HasMore DEF CallOnWay
    <2>3. QED
      BY <1>2, <2>1, <2>2
  <1>5. ASSUME NEW u \in names'
        PROVE  CallSent(Named(u), Len(sent)) \/ Has(wire', "tool_use", Named(u), Len(wire'))
    <2>1. CASE u \in names
      <3>1. CallSent(Named(u), Len(sent)) \/ CallOnWay(Named(u), Len(wire))
        BY <1>3, <2>1 DEF ToolsInv
      <3>2. Len(wire) <= Len(wire') /\ Len(wire') \in Int
        BY <1>2
      <3>3. QED
        BY <1>2, <3>1, <3>2, HasMore DEF CallOnWay
    <2>2. CASE u \notin names
      <3>1. PICK i \in 1..Len(fr) : fr[i] = Frame("tool_use", Named(u))
        BY <1>1, <2>2 DEF ToolsOf
      <3>2. Len(wire) + i \in 1..Len(wire') /\ wire'[Len(wire) + i] = fr[i]
        BY <1>2
      <3>3. fr[i].type = "tool_use" /\ fr[i].data = Named(u)
        BY <3>1 DEF Frame
      <3>4. QED
        BY <3>2, <3>3 DEF Has
    <2>3. QED
      BY <2>1, <2>2
  <1>6. \A i \in 1..Len(sent) : sent[i].type = "tool_result" /\ sent[i].data.id # "" =>
          CallSent(sent[i].data, i - 1)
    BY DEF ToolsInv
  <1>7. QED
    BY <1>2, <1>4, <1>5, <1>6 DEF ToolsInv, CallSent, CallOnWay

\* What is sent for a frame is its call, or its result.
Passes(e) ==
    /\ FirstFrame.type = "tool_use" /\ FirstFrame.data # Failed =>
          e.type = "tool_call" /\ e.data = FirstFrame.data
    /\ e.type = "tool_result" /\ e.data.id # "" =>
          FirstFrame.type = "tool_result" /\ FirstFrame.data # Failed /\ e.data = FirstFrame.data

LEMMA RelayPasses ==
    ASSUME StreamTypeInv, wire # <<>>, NEW e,
           Becomes(e, FirstFrame) \/ (FirstFrame.type = "done" /\ e.type = "done")
    PROVE  Passes(e)
  <1> DEFINE f == FirstFrame
  <1>1. FrameKind(f)
    BY WireHead, FrameKinds
  <1>2. f.type \in {"error", "text_delta", "thinking", "system", "tool_use", "tool_result", "done",
                    "garbled", "container_recovered"}
    BY <1>1 DEF FrameKind
  <1> HIDE DEF f
  <1>3. CASE Becomes(e, f)
    <2>1. e.type = ShownType(f)
      BY <1>3 DEF Becomes
    <2>2. e.type = "tool_result" => f.type = "tool_result"
      BY <1>2, <2>1 DEF ShownType
    <2>3. f.type = "tool_use" => e.type = "tool_call"
      BY <2>1 DEF ShownType
    <2>4. f.type \in {"tool_use", "tool_result"} =>
             e.data = IF f.data = Failed THEN [id |-> "", name |-> ""] ELSE f.data
      BY <1>3 DEF Becomes
    <2>5. f.type = "tool_use" /\ f.data # Failed => e.data = f.data
      BY <2>4
    <2>6. f.type = "tool_result" /\ e.data.id # "" => f.data # Failed /\ e.data = f.data
      <3>1. f.type = "tool_result" /\ f.data = Failed => e.data.id = ""
        <4>1. f.type = "tool_result" /\ f.data = Failed => e.data = [id |-> "", name |-> ""]
          BY <2>4
        <4>2. ASSUME NEW d, d = [id |-> "", name |-> ""]
              PROVE  d.id = ""
          BY <4>2
        <4>3. QED
          BY <4>1, <4>2
      <3>2. f.type = "tool_result" /\ f.data # Failed => e.data = f.data
        BY <2>4
      <3>3. QED
        BY <3>1, <3>2
    <2>7. QED
      BY <2>2, <2>3, <2>5, <2>6 DEF Passes, f
  <1>4. CASE f.type = "done" /\ e.type = "done"
    BY <1>4 DEF Passes, f
  <1>5. QED
    BY <1>3, <1>4 DEF f

LEMMA ToolsRelay ==
    ASSUME StreamTypeInv, ToolsInv, wire # <<>>, wire' = Tail(wire), UNCHANGED <<agent, names>>,
           NEW pre, IsSeq(pre), \A i \in 1..Len(pre) : pre[i].type # "tool_result",
           NEW e, Sends(pre, e), Passes(e)
    PROVE  ToolsInv'
  <1>1. /\ Len(sent) \in Nat /\ Len(pre) \in Nat
        /\ Len(sent') = Len(sent) + Len(pre) + 1
        /\ \A i \in 1..Len(sent) : sent'[i] = sent[i]
        /\ sent'[Len(sent')] = e
        /\ \A i \in 1..Len(sent') :
             \/ i \in 1..Len(sent) /\ sent'[i] = sent[i]
             \/ i - Len(sent) \in 1..Len(pre) /\ sent'[i] = pre[i - Len(sent)]
             \/ i = Len(sent') /\ sent'[i] = e
    BY SentMore DEF StreamTypeInv
  <1>2. /\ Len(wire) \in Nat \ {0} /\ FirstFrame = wire[1] /\ Len(wire') = Len(wire) - 1
        /\ \A i \in 1..Len(wire') : wire'[i] = wire[i + 1]
    BY WireHead
  <1>3. ASSUME NEW d, NEW n \in 0..Len(sent), CallSent(d, n), NEW m \in Int, n <= m
        PROVE  Has(sent', "tool_call", d, m)
    <2>1. \A i \in 1..n : sent'[i] = sent[i]
      BY <1>1
    <2>2. n \in Int
      OBVIOUS
    <2>3. QED
      BY <1>3, <2>1, <2>2, HasMore DEF CallSent
  <1>4. ASSUME NEW d, d # Failed, NEW n \in 0..Len(wire),
               CallSent(d, Len(sent)) \/ CallOnWay(d, n)
        PROVE  Has(sent', "tool_call", d, Len(sent')) \/ Has(wire', "tool_use", d, n - 1)
    <2>1. CASE CallSent(d, Len(sent))
      <3>1. Len(sent) \in 0..Len(sent) /\ Len(sent') \in Int /\ Len(sent) <= Len(sent')
        BY <1>1
      <3>2. QED
        BY <1>3, <2>1, <3>1
    <2>2. CASE CallOnWay(d, n)
      <3>1. PICK k \in 1..n : wire[k].type = "tool_use" /\ wire[k].data = d
        BY <2>2 DEF CallOnWay, Has
      <3>2. CASE k = 1
        <4>1. e.type = "tool_call" /\ e.data = d
          BY <1>2, <1>4, <3>1, <3>2 DEF Passes
        <4>2. Len(sent') \in 1..Len(sent')
          BY <1>1
        <4>3. QED
          BY <1>1, <4>1, <4>2 DEF Has
      <3>3. CASE k # 1
        <4>1. k - 1 \in 1..n - 1 /\ k - 1 \in 1..Len(wire') /\ (k - 1) + 1 = k
          BY <1>2, <3>3
        <4>2. wire'[k - 1] = wire[k]
          BY <1>2, <4>1
        <4>3. QED
          BY <3>1, <4>1, <4>2 DEF Has
      <3>4. QED
        BY <3>2, <3>3
    <2>3. QED
      BY <1>4, <2>1, <2>2
  <1>5. ASSUME NEW i \in 1..Len(sent'), sent'[i].type = "tool_result", sent'[i].data.id # ""
        PROVE  Has(sent', "tool_call", sent'[i].data, i - 1)
    <2>1. CASE i \in 1..Len(sent) /\ sent'[i] = sent[i]
      <3>1. CallSent(sent[i].data, i - 1)
        BY <1>5, <2>1 DEF ToolsInv
      <3>2. i - 1 \in 0..Len(sent) /\ i - 1 \in Int /\ i - 1 <= i - 1
        BY <1>1, <2>1
      <3>3. QED
        BY <1>3, <2>1, <3>1, <3>2
    <2>2. CASE i - Len(sent) \in 1..Len(pre) /\ sent'[i] = pre[i - Len(sent)]
      BY <1>5, <2>2
    <2>3. CASE i = Len(sent') /\ sent'[i] = e
      <3>1. FirstFrame.type = "tool_result" /\ FirstFrame.data # Failed /\ e.data = FirstFrame.data
        BY <1>5, <2>3 DEF Passes
      <3>2. CallSent(wire[1].data, Len(sent)) \/ CallOnWay(wire[1].data, 1 - 1)
        <4>1. 1 \in 1..Len(wire)
          BY <1>2
        <4>2. QED
          BY <1>2, <3>1, <4>1 DEF ToolsInv
      <3>3. ~CallOnWay(wire[1].data, 1 - 1)
        BY DEF CallOnWay, Has
      <3>4. Len(sent) \in 0..Len(sent) /\ i - 1 \in Int /\ Len(sent) <= i - 1
        BY <1>1, <2>3
      <3>5. Has(sent', "tool_call", wire[1].data, i - 1)
        BY <1>3, <3>2, <3>3, <3>4
      <3>6. QED
        BY <1>2, <2>3, <3>1, <3>5
    <2>4. QED
      BY <1>1, <2>1, <2>2, <2>3
  <1>6. ASSUME NEW i \in 1..Len(wire'), wire'[i].type = "tool_result", wire'[i].data # Failed
        PROVE  \/ Has(sent', "tool_call", wire'[i].data, Len(sent'))
               \/ Has(wire', "tool_use", wire'[i].data, i - 1)
    <2>1. wire'[i] = wire[i + 1] /\ i + 1 \in 1..Len(wire) /\ i \in 0..Len(wire) /\ (i + 1) - 1 = i
      BY <1>2
    <2>2. CallSent(wire[i + 1].data, Len(sent)) \/ CallOnWay(wire[i + 1].data, (i + 1) - 1)
      BY <1>6, <2>1 DEF ToolsInv
    <2>3. QED
      BY <1>4, <1>6, <2>1, <2>2
  <1>7. ASSUME agent # "gone", NEW u \in names
        PROVE  \/ Has(sent', "tool_call", Named(u), Len(sent'))
               \/ Has(wire', "tool_use", Named(u), Len(wire'))
    <2>1. CallSent(Named(u), Len(sent)) \/ CallOnWay(Named(u), Len(wire))
      BY <1>7 DEF ToolsInv
    <2>2. Len(wire) \in 0..Len(wire) /\ Named(u) # Failed
      BY <1>2, NotFailed
    <2>3. QED
      BY <1>2, <1>4, <2>1, <2>2
  <1>8. QED
    BY <1>5, <1>6, <1>7 DEF ToolsInv, CallSent, CallOnWay

LEMMA ToolsKept ==
    ASSUME StreamTypeInv, ToolsInv, [Next]_vars
    PROVE  ToolsInv'
  <1>1. CASE RelayEvent
    <2>1. PICK pre, e :
            /\ IsSeq(pre) /\ \A i \in 1..Len(pre) : pre[i].type = "progress"
            /\ Sends(pre, e) /\ Becomes(e, FirstFrame)
      BY <1>1, RelayEventSends
    <2>2. wire # <<>> /\ wire' = Tail(wire)
      BY <1>1, RelayEventSends
    <2>3. Passes(e)
      BY <2>1, <2>2, RelayPasses
    <2>4. UNCHANGED <<agent, names>>
      BY <1>1 DEF RelayEvent, NextFrame, agentVars
    <2>5. \A i \in 1..Len(pre) : pre[i].type # "tool_result"
      BY <2>1
    <2>6. QED
      BY <2>1, <2>2, <2>3, <2>4, <2>5, ToolsRelay
  <1>2. CASE RelayDone
    <2>1. PICK pre, e :
            /\ IsSeq(pre) /\ Sends(pre, e) /\ e.type = "done"
            /\ \A i \in 1..Len(pre) : BeforeDone(pre[i], draft.tokens + Tokens(doneData'.usage))
      BY <1>2, RelayDoneSends
    <2>2. wire # <<>> /\ wire' = Tail(wire) /\ FirstFrame.type = "done"
      BY <1>2, RelayDoneSends
    <2>3. Passes(e)
      BY <2>1, <2>2, RelayPasses
    <2>4. UNCHANGED <<agent, names>>
      BY <1>2 DEF RelayDone, NextFrame, agentVars
    <2>5. \A i \in 1..Len(pre) : pre[i].type # "tool_result"
      BY <2>1 DEF BeforeDone
    <2>6. QED
      BY <2>1, <2>2, <2>3, <2>4, <2>5, ToolsRelay
  <1>3. CASE HostRaises
    <2>1. PICK pre, e : /\ IsSeq(pre) /\ Len(pre) = 1 /\ pre[1].type = "error"
                        /\ e.type = "done" /\ Sends(pre, e)
      BY <1>3, RaiseSends
    <2>2. UNCHANGED <<agent, names, wire>>
      BY <1>3 DEF HostRaises, agentVars, wireVars
    <2>3. /\ Len(sent) \in Nat /\ Len(sent') = Len(sent) + 2
          /\ \A i \in 1..Len(sent) : sent'[i] = sent[i]
          /\ \A i \in 1..Len(sent') :
               \/ i \in 1..Len(sent) /\ sent'[i] = sent[i]
               \/ sent'[i].type # "tool_result"
      <3>1. /\ Len(sent) \in Nat /\ Len(sent') = Len(sent) + Len(pre) + 1
            /\ \A i \in 1..Len(sent) : sent'[i] = sent[i]
            /\ \A i \in 1..Len(sent') :
                 \/ i \in 1..Len(sent) /\ sent'[i] = sent[i]
                 \/ i - Len(sent) \in 1..Len(pre) /\ sent'[i] = pre[i - Len(sent)]
                 \/ i = Len(sent') /\ sent'[i] = e
        BY <2>1, SentMore DEF StreamTypeInv
      <3>2. QED
        BY <2>1, <3>1
    <2>4. ASSUME NEW d, NEW n \in 0..Len(sent), CallSent(d, n), NEW m \in Int, n <= m
          PROVE  Has(sent', "tool_call", d, m)
      <3>1. \A i \in 1..n : sent'[i] = sent[i]
        BY <2>3
      <3>2. n \in Int
        OBVIOUS
      <3>3. QED
        BY <2>4, <3>1, <3>2, HasMore DEF CallSent
    <2>5. Len(sent) \in 0..Len(sent) /\ Len(sent') \in Int /\ Len(sent) <= Len(sent')
      BY <2>3
    <2>6. ASSUME NEW i \in 1..Len(sent'), sent'[i].type = "tool_result", sent'[i].data.id # ""
          PROVE  Has(sent', "tool_call", sent'[i].data, i - 1)
      <3>1. i \in 1..Len(sent) /\ sent'[i] = sent[i]
        BY <2>3, <2>6
      <3>2. CallSent(sent[i].data, i - 1)
        BY <2>6, <3>1 DEF ToolsInv
      <3>3. i - 1 \in 0..Len(sent) /\ i - 1 \in Int /\ i - 1 <= i - 1
        BY <2>3, <3>1
      <3>4. QED
        BY <2>4, <3>1, <3>2, <3>3
    <2>7. ASSUME NEW i \in 1..Len(wire), wire[i].type = "tool_result", wire[i].data # Failed
          PROVE  Has(sent', "tool_call", wire[i].data, Len(sent')) \/ CallOnWay(wire[i].data, i - 1)
      BY <2>4, <2>5, <2>7 DEF ToolsInv
    <2>8. ASSUME agent # "gone", NEW u \in names
          PROVE  Has(sent', "tool_call", Named(u), Len(sent')) \/ CallOnWay(Named(u), Len(wire))
      BY <2>4, <2>5, <2>8 DEF ToolsInv
    <2>9. QED
      BY <2>2, <2>6, <2>7, <2>8 DEF ToolsInv, CallSent, CallOnWay
  <1>4. CASE StreamFails \/ StreamTimesOut
    <2>1. /\ agent' = "gone" /\ sent' = sent
          /\ \A i \in 1..Len(wire') : wire'[i].type = "tool_result" => wire'[i].data = Failed
      BY <1>4, FailedWire
    <2>2. QED
      BY <2>1 DEF ToolsInv, CallSent
  <1>5. CASE HostActs
    <2>1. UNCHANGED <<agentVars, wireVars, sent>>
      BY <1>5, HostQuiet
    <2>2. QED
      BY <2>1 DEF agentVars, wireVars, ToolsInv, CallSent, CallOnWay
  <1>6. CASE ContainerDies
    <2>1. agent # "gone" /\ UNCHANGED <<names, wire, sent>>
      BY <1>6 DEF ContainerDies, wireVars
    <2>2. QED
      BY <2>1 DEF ToolsInv, CallSent, CallOnWay
  <1>7. CASE Receive \/ UNCHANGED vars
    <2>1. UNCHANGED <<agent, names, wire, sent>>
      BY <1>7 DEF Receive, vars, agentVars, wireVars
    <2>2. QED
      BY <2>1 DEF ToolsInv, CallSent, CallOnWay
  <1>8. QED
    BY <1>1, <1>2, <1>3, <1>4, <1>5, <1>6, <1>7, StepKinds, ToolsAgent

-----------------------------------------------------------------------------
(* How the turn ended, and only once *)

LEMMA RelayParts ==
    ASSUME StreamTypeInv, RelayEvent \/ RelayDone
    PROVE  /\ wire # <<>> /\ wire' = Tail(wire)
           /\ UNCHANGED <<agent, names, open, host, broken, emitted, stored>> /\ host = "stream"
           /\ \E pre, e :
                /\ IsSeq(pre) /\ \A i \in 1..Len(pre) : pre[i].type \in Added
                /\ Sends(pre, e) /\ (e.type = "done" <=> FirstFrame.type = "done")
                /\ FirstFrame.type \in Final => e.type \in Final
  <1>1. UNCHANGED <<agent, names, open, host, broken, emitted, stored>> /\ host = "stream"
    BY DEF RelayEvent, RelayDone, NextFrame, agentVars
  <1>2. CASE RelayEvent
    <2>1. PICK pre, e :
            /\ IsSeq(pre) /\ \A i \in 1..Len(pre) : pre[i].type = "progress"
            /\ Sends(pre, e) /\ Becomes(e, FirstFrame)
      BY <1>2, RelayEventSends
    <2>2. wire # <<>> /\ wire' = Tail(wire)
      BY <1>2, RelayEventSends
    <2>3. FirstFrame.type # "done"
      <3>1. Parsed.type # "done"
        BY <1>2 DEF RelayEvent
      <3>2. QED
        BY <2>2, <3>1, ParsedFrame
    <2>4. e.type = ShownType(FirstFrame)
      BY <2>1 DEF Becomes
    <2>5. e.type # "done"
      BY <2>3, <2>4 DEF ShownType
    <2>6. FirstFrame.type = "error" => e.type = "error"
      BY <2>4 DEF ShownType
    <2>7. \A i \in 1..Len(pre) : pre[i].type \in Added
      BY <2>1 DEF Added
    <2>8. QED
      BY <1>1, <2>1, <2>2, <2>3, <2>5, <2>6, <2>7 DEF Final
  <1>3. CASE RelayDone
    <2>1. PICK pre, e :
            /\ IsSeq(pre) /\ Sends(pre, e) /\ e.type = "done"
            /\ \A i \in 1..Len(pre) : BeforeDone(pre[i], draft.tokens + Tokens(doneData'.usage))
      BY <1>3, RelayDoneSends
    <2>2. wire # <<>> /\ wire' = Tail(wire) /\ FirstFrame.type = "done"
      BY <1>3, RelayDoneSends
    <2>3. \A i \in 1..Len(pre) : pre[i].type \in Added
      BY <2>1 DEF Added, BeforeDone
    <2>4. QED
      BY <1>1, <2>1, <2>2, <2>3 DEF Final
  <1>4. QED
    BY <1>2, <1>3

LEMMA AgentPhases ==
    ASSUME AgentActs
    PROVE  /\ agent \in {"starting", "running", "answered"}
           /\ agent' = "running" => agent \in {"starting", "running"}
  BY DEF AgentActs, AgentRefuses, AgentStarts, AgentSpeaks, AgentHears, Another,
         AgentResult, AgentEnds, AgentRaises

LEMMA AnswerInit ==
    Init => AnswerInv
  BY DEF Init, AnswerInv

LEMMA ReportedSent ==
    ASSUME StreamTypeInv, NEW pre, IsSeq(pre), NEW e, Sends(pre, e),
           Reported(sent) \/ e.type \in Final
    PROVE  Reported(sent')
  <1>1. /\ Len(sent) \in Nat /\ Len(pre) \in Nat /\ Len(sent') = Len(sent) + Len(pre) + 1
        /\ \A i \in 1..Len(sent) : sent'[i] = sent[i]
        /\ sent'[Len(sent')] = e
    BY SentMore DEF StreamTypeInv
  <1>2. Len(sent') \in 1..Len(sent') /\ \A i \in 1..Len(sent) : i \in 1..Len(sent')
    BY <1>1
  <1>3. QED
    BY <1>1, <1>2 DEF Reported

LEMMA AnswerKept ==
    ASSUME StreamTypeInv, AnswerInv, [Next]_vars
    PROVE  AnswerInv'
  <1>1. CASE AgentActs
    <2>1. PICK fr : WritesOf(fr) /\ Ends(fr)
      BY <1>1, AgentWrites
    <2>2. /\ Len(wire) \in Nat /\ Len(fr) \in Nat /\ Len(wire') = Len(wire) + Len(fr)
          /\ \A i \in 1..Len(wire) : wire'[i] = wire[i]
          /\ \A i \in 1..Len(fr) : wire'[Len(wire) + i] = fr[i]
          /\ UNCHANGED <<broken, host, sent>>
      BY <2>1, WrittenWire
    <2>3. Reported(wire) \/ Reported(fr) => Reported(wire')
      <3>1. /\ \A i \in 1..Len(wire) : i \in 1..Len(wire')
            /\ \A i \in 1..Len(fr) : Len(wire) + i \in 1..Len(wire')
        BY <2>2
      <3>2. QED
        BY <2>2, <3>1 DEF Reported
    <2>4. agent' \in {"running", "answered", "ended"}
      BY <1>1, AgentWrites
    <2>5. host = "stream" /\ agent' \in {"answered", "ended"} => Reported(wire') \/ Reported(sent)
      BY <2>1, <2>3 DEF Ends, AnswerInv
    <2>6. QED
      BY <2>2, <2>4, <2>5 DEF AnswerInv
  <1>2. CASE RelayEvent \/ RelayDone
    <2>1. /\ wire # <<>> /\ wire' = Tail(wire)
          /\ UNCHANGED <<agent, host, broken>> /\ host = "stream"
      BY <1>2, RelayParts
    <2>2. PICK pre, e : IsSeq(pre) /\ Sends(pre, e) /\ (FirstFrame.type \in Final => e.type \in Final)
      BY <1>2, RelayParts
    <2>3. Reported(wire) \/ Reported(sent) => Reported(wire') \/ Reported(sent')
      <3>1. Reported(sent) => Reported(sent')
        BY <2>2, ReportedSent
      <3>2. ASSUME NEW i \in 1..Len(wire), wire[i].type \in Final
            PROVE  Reported(wire') \/ Reported(sent')
        <4>1. /\ Len(wire) \in Nat \ {0} /\ FirstFrame = wire[1] /\ Len(wire') = Len(wire) - 1
              /\ \A k \in 1..Len(wire') : wire'[k] = wire[k + 1]
          BY <2>1, WireHead
        <4>2. CASE i = 1
          BY <2>2, <3>2, <4>1, <4>2, ReportedSent
        <4>3. CASE i # 1
          <5>1. i - 1 \in 1..Len(wire') /\ (i - 1) + 1 = i
            BY <4>1, <4>3
          <5>2. wire'[i - 1] = wire[i]
            BY <4>1, <5>1
          <5>3. QED
            BY <3>2, <5>1, <5>2 DEF Reported
        <4>4. QED
          BY <4>2, <4>3
      <3>3. QED
        BY <3>1, <3>2 DEF Reported
    <2>4. QED
      BY <2>1, <2>3 DEF AnswerInv
  <1>3. CASE StreamFails \/ StreamTimesOut
    <2>1. /\ host' = "stream" /\ agent' = "gone" /\ Len(wire') \in {1, 2}
          /\ wire'[1].type = "error" \/ broken'
      BY <1>3, FailedWire
    <2>2. Reported(wire') \/ broken'
      <3>1. 1 \in 1..Len(wire')
        BY <2>1
      <3>2. QED
        BY <2>1, <3>1 DEF Reported, Final
    <2>3. QED
      BY <2>1, <2>2 DEF AnswerInv
  <1>4. CASE HostRaises
    <2>1. PICK pre, e : IsSeq(pre) /\ e.type = "done" /\ Sends(pre, e)
      BY <1>4, RaiseSends
    <2>2. Reported(sent')
      BY <2>1, ReportedSent DEF Final
    <2>3. host' = "undo"
      BY <1>4 DEF HostRaises
    <2>4. QED
      BY <2>2, <2>3 DEF AnswerInv
  <1>5. CASE HostActs
    <2>1. UNCHANGED <<agent, broken, wire, sent>>
      BY <1>5, HostQuiet DEF agentVars, wireVars
    <2>2. host' # "stream"
      BY <1>5 DEF HostActs, StreamEnds, Rescue, RecordUsage, RecordNothing, SaveAnswer, Commit,
                  Rollback
    <2>3. Reported(sent) \/ broken
      <3>1. CASE StreamEnds
        <4>1. host = "stream" /\ agent \in {"ended", "gone"} /\ wire = <<>>
          BY <3>1 DEF StreamEnds
        <4>2. ~Reported(wire)
          <5>1. Len(wire) = 0
            BY <4>1, SeqNone
          <5>2. QED
            BY <5>1 DEF Reported
        <4>3. QED
          BY <4>1, <4>2 DEF AnswerInv
      <3>2. CASE ~StreamEnds
        <4>1. host # "stream"
          BY <1>5, <3>2 DEF HostActs, Rescue, RecordUsage, RecordNothing, SaveAnswer, Commit, Rollback
        <4>2. QED
          BY <4>1 DEF AnswerInv
      <3>3. QED
        BY <3>1, <3>2
    <2>4. QED
      BY <2>1, <2>2, <2>3 DEF AnswerInv
  <1>6. CASE ContainerDies
    <2>1. agent' = "dead" /\ UNCHANGED <<host, broken, wire, sent>>
      BY <1>6 DEF ContainerDies, wireVars
    <2>2. QED
      BY <2>1 DEF AnswerInv
  <1>7. CASE Receive \/ UNCHANGED vars
    <2>1. UNCHANGED <<agent, host, broken, wire, sent>>
      BY <1>7 DEF Receive, vars, agentVars, wireVars
    <2>2. QED
      BY <2>1 DEF AnswerInv
  <1>8. QED
    BY <1>1, <1>2, <1>3, <1>4, <1>5, <1>6, <1>7, StepKinds

LEMMA DoneInit ==
    Init => DoneInv
  <1> SUFFICES ASSUME Init
               PROVE  DoneInv
    OBVIOUS
  <1>1. Len(sent) = 0 /\ Len(wire) = 0 /\ host = "stream"
    BY SeqNone DEF Init
  <1>2. DonesIn(sent) = {} /\ DonesIn(wire) = {}
    BY <1>1 DEF DonesIn
  <1>3. QED
    BY <1>1, <1>2 DEF DoneInv

\* Nothing is on record before the turn is closed.
Clean == host # "closed" => stored.log = <<>> /\ stored.usage = None

LEMMA UndoneKept ==
    ASSUME Clean, Undone, [Next]_vars
    PROVE  Undone'
  <1>0. host \in {"undo", "closed"}
    BY DEF Undone
  <1>1. CASE AgentActs
    <2>1. UNCHANGED <<host, stored>>
      BY <1>1 DEF AgentActs, AgentRefuses, AgentStarts, AgentSpeaks, AgentHears, AgentResult,
                  AgentEnds, AgentRaises, Writes, dbVars
    <2>2. QED
      BY <2>1 DEF Undone
  <1>2. ~ContainerDies /\ ~Receive /\ ~StreamFails /\ ~StreamTimesOut /\ ~RelayEvent /\ ~RelayDone
        /\ ~HostRaises
    BY <1>0 DEF ContainerDies, Receive, StreamFails, StreamTimesOut, RelayEvent, RelayDone,
                NextFrame, HostRaises
  <1>3. CASE HostActs
    <2>1. Rollback /\ host = "undo"
      BY <1>0, <1>3 DEF HostActs, StreamEnds, Rescue, RecordUsage, RecordNothing, SaveAnswer,
                        Commit, Rollback
    <2>2. host' = "closed" /\ stored' = stored
      BY <2>1 DEF Rollback
    <2>3. QED
      BY <2>1, <2>2 DEF Undone, Clean
  <1>4. CASE UNCHANGED vars
    <2>1. UNCHANGED <<host, stored>>
      BY <1>4 DEF vars, dbVars
    <2>2. QED
      BY <2>1 DEF Undone
  <1>5. QED
    BY <1>1, <1>2, <1>3, <1>4, StepKinds

\* The done frames that are left when the first frame is taken off.
LEMMA DonesLeft ==
    ASSUME StreamTypeInv, wire # <<>>, wire' = Tail(wire)
    PROVE  /\ \A i \in DonesIn(wire') : i + 1 \in DonesIn(wire)
           /\ FirstFrame.type = "done" <=> 1 \in DonesIn(wire)
           /\ 0 \notin DonesIn(wire')
           /\ \A i \in DonesIn(wire') : i \in Nat
  <1>1. /\ Len(wire) \in Nat \ {0} /\ FirstFrame = wire[1] /\ Len(wire') = Len(wire) - 1
        /\ \A i \in 1..Len(wire') : wire'[i] = wire[i + 1]
    BY WireHead
  <1>2. 1 \in 1..Len(wire) /\ \A i \in 1..Len(wire') : i + 1 \in 1..Len(wire) /\ i \in Nat /\ i # 0
    BY <1>1
  <1>3. QED
    BY <1>1, <1>2 DEF DonesIn

LEMMA DonesSent ==
    ASSUME StreamTypeInv, NEW pre, IsSeq(pre), \A i \in 1..Len(pre) : pre[i].type # "done",
           NEW e, Sends(pre, e)
    PROVE  /\ \A i \in DonesIn(sent') : i \in DonesIn(sent) \/ (i = Len(sent') /\ e.type = "done")
           /\ \A i \in DonesIn(sent) : i \in DonesIn(sent') /\ sent'[i] = sent[i]
           /\ e.type = "done" => Len(sent') \in DonesIn(sent')
  <1>1. /\ Len(sent) \in Nat /\ Len(pre) \in Nat /\ Len(sent') = Len(sent) + Len(pre) + 1
        /\ \A i \in 1..Len(sent) : sent'[i] = sent[i]
        /\ sent'[Len(sent')] = e
        /\ \A i \in 1..Len(sent') :
             \/ i \in 1..Len(sent) /\ sent'[i] = sent[i]
             \/ i - Len(sent) \in 1..Len(pre) /\ sent'[i] = pre[i - Len(sent)]
             \/ i = Len(sent') /\ sent'[i] = e
    BY SentMore DEF StreamTypeInv
  <1>2. Len(sent') \in 1..Len(sent') /\ \A i \in 1..Len(sent) : i \in 1..Len(sent')
    BY <1>1
  <1>3. ASSUME NEW i \in DonesIn(sent')
        PROVE  i \in DonesIn(sent) \/ (i = Len(sent') /\ e.type = "done")
    <2>1. i \in 1..Len(sent') /\ sent'[i].type = "done"
      BY <1>3 DEF DonesIn
    <2>2. QED
      BY <1>1, <2>1 DEF DonesIn
  <1>4. ASSUME NEW i \in DonesIn(sent)
        PROVE  i \in DonesIn(sent') /\ sent'[i] = sent[i]
    <2>1. i \in 1..Len(sent) /\ sent[i].type = "done"
      BY <1>4 DEF DonesIn
    <2>2. QED
      BY <1>1, <1>2, <2>1 DEF DonesIn
  <1>5. e.type = "done" => Len(sent') \in DonesIn(sent')
    BY <1>1, <1>2 DEF DonesIn
  <1>6. QED
    BY <1>3, <1>4, <1>5

LEMMA DoneAgent ==
    ASSUME StreamTypeInv, DoneInv, ~Undone, AgentActs
    PROVE  DoneInv'
  <1>1. PICK fr : WritesOf(fr) /\ FewDone(fr)
    BY AgentWrites
  <1>2. /\ Len(wire) \in Nat /\ Len(fr) \in Nat /\ Len(wire') = Len(wire) + Len(fr)
        /\ \A i \in 1..Len(wire') :
             \/ i \in 1..Len(wire) /\ wire'[i] = wire[i]
             \/ i - Len(wire) \in 1..Len(fr) /\ wire'[i] = fr[i - Len(wire)]
        /\ UNCHANGED <<host, sent, stored>>
    BY <1>1, WrittenWire DEF dbVars
  <1>3. /\ agent \in {"starting", "running", "answered"} /\ host = "stream"
        /\ agent' = "running" => agent \in {"starting", "running"}
    BY AgentPhases DEF DoneInv
  <1>4. agent' \in {"running", "answered", "ended"}
    BY AgentWrites
  <1>5. ASSUME NEW i \in DonesIn(wire')
        PROVE  i \in DonesIn(wire) \/ (i - Len(wire) \in DonesIn(fr) /\ i \in Int)
    <2>1. i \in 1..Len(wire') /\ wire'[i].type = "done"
      BY <1>5 DEF DonesIn
    <2>2. QED
      BY <1>2, <2>1 DEF DonesIn
  <1>6. CASE DonesIn(fr) = {}
    <2>1. DonesIn(wire') \subseteq DonesIn(wire)
      BY <1>5, <1>6
    <2>2. agent' = "running" => agent \in {"starting", "running"}
      BY <1>3
    <2>3. QED
      BY <1>2, <1>3, <1>4, <2>1, <2>2 DEF DoneInv
  <1>7. CASE DonesIn(fr) # {}
    <2>1. agent \in {"starting", "running"} /\ agent' \notin {"starting", "running"}
      BY <1>1, <1>7 DEF FewDone
    <2>2. DonesIn(sent) = {} /\ DonesIn(wire) = {}
      BY <1>3, <2>1 DEF DoneInv
    <2>3. \A i, k \in DonesIn(fr) : i = k
      BY <1>1 DEF FewDone
    <2>4. ASSUME NEW i \in DonesIn(wire'), NEW k \in DonesIn(wire')
          PROVE  i = k
      <3>1. i - Len(wire) \in DonesIn(fr) /\ k - Len(wire) \in DonesIn(fr) /\ i \in Int /\ k \in Int
        BY <1>5, <2>2
      <3>2. i - Len(wire) = k - Len(wire)
        BY <2>3, <3>1
      <3>3. QED
        BY <1>2, <3>1, <3>2
    <2>5. \A i, k \in DonesIn(sent) : i = k
      BY <2>2
    <2>6. QED
      BY <1>2, <1>3, <2>1, <2>2, <2>4, <2>5 DEF DoneInv
  <1>8. QED
    BY <1>6, <1>7

LEMMA DoneRelay ==
    ASSUME StreamTypeInv, DoneInv, ~Undone, RelayEvent \/ RelayDone
    PROVE  DoneInv'
  <1>1. /\ wire # <<>> /\ wire' = Tail(wire)
        /\ UNCHANGED <<agent, host, stored>> /\ host = "stream"
    BY RelayParts
  <1>2. PICK pre, e :
          /\ IsSeq(pre) /\ \A i \in 1..Len(pre) : pre[i].type \in Added
          /\ Sends(pre, e) /\ (e.type = "done" <=> FirstFrame.type = "done")
    BY RelayParts
  <1>3. \A i \in 1..Len(pre) : pre[i].type # "done"
    BY <1>2 DEF Added
  <1>4. /\ \A i \in DonesIn(sent') : i \in DonesIn(sent) \/ (i = Len(sent') /\ e.type = "done")
        /\ e.type = "done" => Len(sent') \in DonesIn(sent')
    BY <1>2, <1>3, DonesSent
  <1>5. /\ \A i \in DonesIn(wire') : i + 1 \in DonesIn(wire)
        /\ FirstFrame.type = "done" <=> 1 \in DonesIn(wire)
        /\ 0 \notin DonesIn(wire') /\ \A i \in DonesIn(wire') : i \in Nat
    BY <1>1, DonesLeft
  <1>6. /\ \A i, k \in DonesIn(sent) : i = k
        /\ \A i, k \in DonesIn(wire) : i = k
        /\ DonesIn(sent) = {} \/ DonesIn(wire) = {}
    BY DEF DoneInv
  <1>7. CASE e.type = "done"
    <2>1. 1 \in DonesIn(wire) /\ DonesIn(sent) = {}
      BY <1>2, <1>5, <1>6, <1>7
    <2>2. DonesIn(wire') = {}
      <3>1. ASSUME NEW i \in DonesIn(wire')
            PROVE  FALSE
        <4>1. i + 1 = 1 /\ i \in Nat /\ i # 0
          BY <1>5, <1>6, <2>1
        <4>2. QED
          BY <4>1
      <3>2. QED
        BY <3>1
    <2>3. \A i, k \in DonesIn(sent') : i = k
      BY <1>4, <2>1
    <2>4. agent \notin {"starting", "running"}
      BY <1>1, <2>1 DEF DoneInv
    <2>5. QED
      BY <1>1, <2>2, <2>3, <2>4 DEF DoneInv
  <1>8. CASE e.type # "done"
    <2>1. DonesIn(sent') \subseteq DonesIn(sent)
      BY <1>4, <1>8
    <2>2. ASSUME NEW i \in DonesIn(wire'), NEW k \in DonesIn(wire')
          PROVE  i = k
      <3>1. i + 1 = k + 1 /\ i \in Nat /\ k \in Nat
        BY <1>5, <1>6
      <3>2. QED
        BY <3>1
    <2>3. DonesIn(wire) = {} => DonesIn(wire') = {}
      BY <1>5
    <2>4. QED
      BY <1>1, <1>6, <2>1, <2>2, <2>3 DEF DoneInv
  <1>9. QED
    BY <1>7, <1>8

LEMMA DoneFails ==
    ASSUME StreamTypeInv, DoneInv, ~Undone, StreamFails \/ StreamTimesOut
    PROVE  DoneInv'
  <1>1. /\ host = "stream" /\ agent' = "gone" /\ Len(wire') \in {1, 2}
        /\ wire'[1].type = "done" => wire # <<>> /\ FirstFrame.type = "done"
        /\ Len(wire') = 2 => wire'[2].type = "container_recovered"
        /\ UNCHANGED <<host, sent>>
    BY FailedWire
  <1>2. ASSUME NEW i \in DonesIn(wire')
        PROVE  i = 1 /\ DonesIn(sent) = {}
    <2>1. i \in 1..Len(wire') /\ wire'[i].type = "done"
      BY <1>2 DEF DonesIn
    <2>2. i = 1
      <3>1. i = 1 \/ (i = 2 /\ Len(wire') = 2)
        BY <1>1, <2>1
      <3>2. QED
        BY <1>1, <2>1, <3>1
    <2>3. wire # <<>> /\ FirstFrame.type = "done"
      BY <1>1, <2>1, <2>2
    <2>4. 1 \in DonesIn(wire)
      <3>1. Len(wire) \in Nat \ {0} /\ FirstFrame = wire[1]
        BY <2>3, WireHead
      <3>2. 1 \in 1..Len(wire)
        BY <3>1
      <3>3. QED
        BY <2>3, <3>1, <3>2 DEF DonesIn
    <2>5. QED
      BY <2>2, <2>4 DEF DoneInv
  <1>3. \A i, k \in DonesIn(wire') : i = k
    BY <1>2
  <1>4. \A i, k \in DonesIn(sent) : i = k
    BY DEF DoneInv
  <1>5. QED
    BY <1>1, <1>2, <1>3, <1>4 DEF DoneInv

LEMMA DoneKept ==
    ASSUME StreamTypeInv, Clean, DoneInv, [Next]_vars
    PROVE  DoneInv'
  <1>0. CASE Undone
    <2>1. Undone'
      BY <1>0, UndoneKept
    <2>2. host' # "stream"
      BY <2>1 DEF Undone
    <2>3. QED
      BY <2>1, <2>2 DEF DoneInv
  <1>1. CASE ~Undone /\ HostRaises
    <2>1. host' = "undo"
      BY <1>1 DEF HostRaises
    <2>2. QED
      BY <2>1 DEF DoneInv, Undone
  <1>2. CASE ~Undone /\ HostActs
    <2>1. UNCHANGED <<agent, wire, sent>>
      BY <1>2, HostQuiet DEF agentVars, wireVars
    <2>2. host' # "stream" /\ agent \in {"ended", "gone"}
      <3>1. CASE StreamEnds
        BY <3>1 DEF StreamEnds
      <3>2. CASE ~StreamEnds
        <4>1. host # "stream" /\ host' # "stream"
          BY <1>2, <3>2 DEF HostActs, Rescue, RecordUsage, RecordNothing, SaveAnswer, Commit, Rollback
        <4>2. QED
          BY <1>2, <4>1 DEF DoneInv
      <3>3. QED
        BY <3>1, <3>2
    <2>3. QED
      BY <1>2, <2>1, <2>2 DEF DoneInv
  <1>3. CASE ~Undone /\ ContainerDies
    <2>1. agent' = "dead" /\ host = "stream" /\ UNCHANGED <<host, wire, sent>>
      BY <1>3 DEF ContainerDies, wireVars
    <2>2. QED
      BY <1>3, <2>1 DEF DoneInv
  <1>4. CASE ~Undone /\ (Receive \/ UNCHANGED vars)
    <2>1. UNCHANGED <<agent, host, wire, sent, stored>>
      BY <1>4 DEF Receive, vars, agentVars, wireVars, dbVars
    <2>2. QED
      BY <1>4, <2>1 DEF DoneInv, Undone
  <1>5. QED
    BY <1>0, <1>1, <1>2, <1>3, <1>4, StepKinds, DoneAgent, DoneRelay, DoneFails

-----------------------------------------------------------------------------
(* What is kept of the events *)

LEMMA RecordInit ==
    Init => RecordInv
  <1> SUFFICES ASSUME Init
               PROVE  RecordInv
    OBVIOUS
  <1>1. /\ host = "stream" /\ sent = <<>> /\ doneData = None /\ events = <<>> /\ draft = stored
        /\ Len(sent) = 0
    BY SeqNone DEF Init
  <1>2. stored.log = <<>> /\ stored.usage = None /\ stored.limit = FALSE
    BY DEF Init
  <1>3. DraftInv
    BY <1>1, <1>2 DEF DraftInv
  <1>4. EventsInv
    BY <1>1, <1>2, OfTypeNone DEF EventsInv
  <1>5. DataInv
    BY <1>1 DEF DataInv
  <1>6. TurnInv
    BY <1>1, <1>2 DEF TurnInv
  <1>7. ClosedInv
    BY <1>1 DEF ClosedInv
  <1>8. QED
    BY <1>3, <1>4, <1>5, <1>6, <1>7 DEF RecordInv

LEMMA RecordQuiet ==
    ASSUME RecordInv, UNCHANGED <<host, sent, doneData, events, draft, stored>>
    PROVE  RecordInv'
  BY DEF RecordInv, DraftInv, EventsInv, DataInv, TurnInv, ClosedInv, Total

\* The events that are kept when some more are sent.
LEMMA KeptMore ==
    ASSUME IsSeq(sent), NEW pre, IsSeq(pre), \A i \in 1..Len(pre) : pre[i].type \notin Content,
           NEW e, Sends(pre, e)
    PROVE  /\ OfType(sent', Content) = OfType(sent, Content) \o OfType(pre \o <<e>>, Content)
           /\ e.type \notin Content => OfType(sent', Content) = OfType(sent, Content)
  <1> DEFINE o == <<e>>
             rest == pre \o o
  <1>1. IsSeq(o) /\ Len(o) = 1 /\ o[1] = e
    BY SeqOne
  <1> HIDE DEF o
  <1>2. IsSeq(rest)
    BY <1>1, SeqJoin
  <1>3. /\ OfType(rest, Content) = OfType(pre, Content) \o OfType(o, Content)
        /\ IsSeq(OfType(pre, Content))
    BY <1>1, KeptJoin
  <1>4. OfType(pre, Content) = <<>>
    BY OfTypeOthers
  <1>5. sent' = sent \o rest
    BY DEF Sends, o
  <1> HIDE DEF rest
  <1>6. /\ OfType(sent', Content) = OfType(sent, Content) \o OfType(rest, Content)
        /\ IsSeq(OfType(sent, Content))
    <2>1. /\ OfType(sent \o rest, Content) = OfType(sent, Content) \o OfType(rest, Content)
          /\ IsSeq(OfType(sent, Content))
      BY <1>2, KeptJoin
    <2>2. QED
      BY <1>5, <2>1
  <1>7. ASSUME e.type \notin Content
        PROVE  OfType(rest, Content) = <<>>
    <2>1. OfType(o, Content) = <<>>
      BY <1>7, OfTypeOne DEF o
    <2>2. <<>> \o <<>> = <<>>
      BY SeqNone, JoinNone
    <2>3. QED
      BY <1>3, <1>4, <2>1, <2>2
  <1>8. e.type \notin Content => OfType(sent', Content) = OfType(sent, Content)
    BY <1>6, <1>7, JoinNone
  <1>9. QED
    BY <1>6, <1>8 DEF rest, o

LEMMA EventTypes ==
    ASSUME StreamTypeInv, wire # <<>>, NEW e, Becomes(e, FirstFrame)
    PROVE  e.type # "context_status" /\ (FirstFrame.type # "done" => e.type # "done")
  <1> DEFINE f == FirstFrame
  <1>1. FrameKind(f)
    BY WireHead, FrameKinds
  <1>2. f.type \in {"error", "text_delta", "thinking", "system", "tool_use", "tool_result", "done",
                    "garbled", "container_recovered"}
    BY <1>1 DEF FrameKind
  <1>3. e.type = ShownType(f)
    BY DEF Becomes
  <1> HIDE DEF f
  <1>4. ShownType(f) # "context_status" /\ (f.type # "done" => ShownType(f) # "done")
    BY <1>2 DEF ShownType
  <1>5. QED
    BY <1>3, <1>4 DEF f

LEMMA RecordEvent ==
    ASSUME StreamTypeInv, RecordInv, RelayEvent
    PROVE  RecordInv'
  <1>1. PICK pre, e :
          /\ IsSeq(pre) /\ \A i \in 1..Len(pre) : pre[i].type = "progress"
          /\ Sends(pre, e) /\ Becomes(e, FirstFrame)
          /\ events' = events \o OfType(pre \o <<e>>, Content)
    BY RelayEventSends
  <1>2. wire # <<>> /\ host = "stream" /\ host' = "stream"
        /\ UNCHANGED <<doneData, draft, stored>>
    BY RelayEventSends DEF RelayEvent, NextFrame
  <1>3. IsSeq(sent) /\ \A i \in 1..Len(pre) : pre[i].type \notin Content
    BY <1>1 DEF Content, StreamTypeInv
  <1>4. events' = OfType(sent', Content)
    BY <1>1, <1>3, KeptMore DEF RecordInv, EventsInv
  <1>5. draft'.log = <<>> /\ stored'.log = <<>>
    BY <1>2 DEF RecordInv, DraftInv, TurnInv
  <1>6. /\ \A i \in DonesIn(sent) : i \in DonesIn(sent') /\ sent'[i] = sent[i]
    BY <1>1, DonesSent
  <1>7. DataInv'
    BY <1>2, <1>6 DEF RecordInv, DataInv
  <1>8. ASSUME NEW i \in 1..Len(sent'), sent'[i].type = "context_status"
        PROVE  doneData # None /\ StatusRight(sent'[i].data, Total)
    <2>1. \/ i \in 1..Len(sent) /\ sent'[i] = sent[i]
          \/ i - Len(sent) \in 1..Len(pre) /\ sent'[i] = pre[i - Len(sent)]
          \/ i = Len(sent') /\ sent'[i] = e
      BY <1>1, <1>3, SentMore
    <2>2. e.type # "context_status"
      BY <1>1, <1>2, EventTypes
    <2>3. i \in 1..Len(sent) /\ sent'[i] = sent[i]
      BY <1>1, <1>8, <2>1, <2>2
    <2>4. QED
      BY <1>2, <1>8, <2>3 DEF RecordInv, TurnInv
  <1>9. TurnInv'
    BY <1>2, <1>8 DEF RecordInv, TurnInv, Total
  <1>10. QED
    BY <1>2, <1>4, <1>5, <1>7, <1>9 DEF RecordInv, DraftInv, EventsInv, ClosedInv

LEMMA RecordRelayDone ==
    ASSUME StreamTypeInv, DoneInv, RecordInv, RelayDone
    PROVE  RecordInv'
  <1>1. PICK pre, e :
          /\ IsSeq(pre) /\ Sends(pre, e) /\ e.type = "done" /\ e.data = doneData'
          /\ \A i \in 1..Len(pre) : BeforeDone(pre[i], draft.tokens + Tokens(doneData'.usage))
    BY RelayDoneSends
  <1>2. /\ wire # <<>> /\ wire' = Tail(wire) /\ FirstFrame.type = "done"
        /\ DoneDataRight(doneData') /\ host = "stream" /\ host' = "stream"
        /\ UNCHANGED <<events, stored>>
    BY RelayDoneSends DEF RelayDone, NextFrame
  <1>3. draft'.log = draft.log /\ draft'.usage = draft.usage /\ draft'.tokens = draft.tokens
        /\ draft'.limit = draft.limit
    <2>1. PICK b : draft' = [draft EXCEPT !.titled = @ \/ b]
      <3>1. \E title \in Titles : draft' = [draft EXCEPT !.titled = @ \/ title # <<>>]
        BY DEF RelayDone
      <3>2. QED
        BY <3>1
    <2>2. IsSession(draft)
      BY DEF StreamTypeInv
    <2>3. QED
      BY <2>1, <2>2 DEF IsSession
  <1>4. IsSeq(sent) /\ \A i \in 1..Len(pre) : pre[i].type \notin Content \cup {"done"}
    BY <1>1 DEF BeforeDone, Content, StreamTypeInv
  <1>5. events' = OfType(sent', Content)
    <2>1. e.type \notin Content
      BY <1>1 DEF Content
    <2>2. OfType(sent', Content) = OfType(sent, Content)
      BY <1>1, <1>4, <2>1, KeptMore
    <2>3. QED
      BY <1>2, <2>2 DEF RecordInv, EventsInv
  <1>6. Len(sent') \in DonesIn(sent') /\ sent'[Len(sent')] = e
    BY <1>1, <1>4, DonesSent, SentMore
  <1>7. DataInv'
    BY <1>1, <1>2, <1>6 DEF DataInv, DoneDataRight
  <1>8. doneData = None
    <2>1. 1 \in DonesIn(wire)
      BY <1>2, DonesLeft
    <2>2. ~Undone
      BY <1>2 DEF Undone
    <2>3. DonesIn(sent) = {}
      BY <2>1, <2>2 DEF DoneInv
    <2>4. QED
      BY <2>3 DEF RecordInv, DataInv
  <1>9. draft.tokens = stored.tokens /\ draft.usage = None /\ ~draft.limit /\ draft.log = <<>>
        /\ stored.log = <<>> /\ stored.usage = None /\ ~stored.limit
    BY <1>2 DEF RecordInv, DraftInv, TurnInv
  <1>10. ASSUME NEW i \in 1..Len(sent'), sent'[i].type = "context_status"
         PROVE  StatusRight(sent'[i].data, stored.tokens + Tokens(doneData'.usage))
    <2>1. \/ i \in 1..Len(sent) /\ sent'[i] = sent[i]
          \/ i - Len(sent) \in 1..Len(pre) /\ sent'[i] = pre[i - Len(sent)]
          \/ i = Len(sent') /\ sent'[i] = e
      BY <1>1, <1>4, SentMore
    <2>2. ~(i \in 1..Len(sent) /\ sent'[i] = sent[i])
      BY <1>2, <1>8, <1>10 DEF RecordInv, TurnInv
    <2>3. sent'[i] = pre[i - Len(sent)] /\ i - Len(sent) \in 1..Len(pre)
      BY <1>1, <1>10, <2>1, <2>2
    <2>4. BeforeDone(sent'[i], draft.tokens + Tokens(doneData'.usage))
      BY <1>1, <2>3
    <2>5. QED
      BY <1>9, <1>10, <2>4 DEF BeforeDone
  <1>11. TurnInv'
    BY <1>2, <1>3, <1>9, <1>10 DEF TurnInv, Total, DoneDataRight
  <1>12. QED
    BY <1>2, <1>3, <1>5, <1>7, <1>9, <1>11 DEF RecordInv, DraftInv, EventsInv, ClosedInv

LEMMA RecordRaises ==
    ASSUME StreamTypeInv, RecordInv, HostRaises
    PROVE  RecordInv'
  <1>1. PICK pre, e : /\ IsSeq(pre) /\ Len(pre) = 1 /\ pre[1].type = "error"
                      /\ e.type = "done" /\ Sends(pre, e)
    BY RaiseSends
  <1>2. /\ host \in {"stream", "answer"} /\ host' = "undo"
        /\ UNCHANGED <<doneData, events, draft, stored>>
    BY DEF HostRaises, dbVars
  <1>3. IsSeq(sent) /\ \A i \in 1..Len(pre) : pre[i].type = "error"
    BY <1>1 DEF StreamTypeInv
  <1>4. events' = OfType(sent', Content)
    <2>1. e.type \notin Content /\ \A i \in 1..Len(pre) : pre[i].type \notin Content
      BY <1>1, <1>3 DEF Content
    <2>2. OfType(sent', Content) = OfType(sent, Content)
      BY <1>1, <1>3, <2>1, KeptMore
    <2>3. QED
      BY <1>2, <2>2 DEF RecordInv, EventsInv
  <1>5. /\ \A i \in DonesIn(sent) : i \in DonesIn(sent') /\ sent'[i] = sent[i]
        /\ Len(sent') \in DonesIn(sent')
    BY <1>1, <1>3, DonesSent
  <1>6. DataInv'
    BY <1>2, <1>5 DEF RecordInv, DataInv
  <1>7. ASSUME NEW i \in 1..Len(sent'), sent'[i].type = "context_status"
        PROVE  doneData # None /\ StatusRight(sent'[i].data, Total)
    <2>1. \/ i \in 1..Len(sent) /\ sent'[i] = sent[i]
          \/ i - Len(sent) \in 1..Len(pre) /\ sent'[i] = pre[i - Len(sent)]
          \/ i = Len(sent') /\ sent'[i] = e
      BY <1>1, <1>3, SentMore
    <2>2. i \in 1..Len(sent) /\ sent'[i] = sent[i]
      BY <1>1, <1>3, <1>7, <2>1
    <2>3. QED
      BY <1>2, <1>7, <2>2 DEF RecordInv, TurnInv
  <1>8. TurnInv'
    BY <1>2, <1>7 DEF RecordInv, TurnInv, Total
  <1>9. QED
    BY <1>2, <1>4, <1>6, <1>8 DEF RecordInv, DraftInv, EventsInv, ClosedInv

\* The parts of the session that "draft" changes.
LEMMA RecordUsageKeeps ==
    ASSUME StreamTypeInv, RecordInv, RecordUsage
    PROVE  RecordInv'
  <1> DEFINE u == NormaliseUsage(doneData.usage)
  <1>1. /\ host = "record" /\ host' = "answer" /\ doneData # None
        /\ UNCHANGED <<sent, doneData, events, stored>>
    BY DEF RecordUsage
  <1>2. u = doneData.usage /\ Tokens(u) \in Nat
    BY <1>1 DEF RecordInv, DataInv
  <1>3. u # None
    <2>1. "input" \in DOMAIN u /\ DOMAIN None = {"none"}
      BY DEF NormaliseUsage, None
    <2> HIDE DEF u
    <2>2. QED
      BY <2>1
  <1>4. draft' = [draft EXCEPT !.usage = u, !.tokens = @ + Tokens(u), !.limit = LimitReached(u)]
    BY DEF RecordUsage
  <1>5. LimitReached(u) <=> Full(draft.tokens + Tokens(u))
    BY DEF LimitReached, Full
  <1> HIDE DEF u
  <1>6. /\ draft'.log = draft.log /\ draft'.usage = u /\ draft'.tokens = draft.tokens + Tokens(u)
        /\ draft'.limit = LimitReached(u)
    BY <1>4 DEF StreamTypeInv, IsSession
  <1>7. /\ draft.tokens = stored.tokens /\ draft.log = <<>>
    BY <1>1 DEF RecordInv, DraftInv, TurnInv
  <1>8. draft'.tokens = Total /\ (draft'.limit <=> Full(Total))
    BY <1>2, <1>5, <1>6, <1>7 DEF Total
  <1>9. TurnInv'
    <2>1. Total' = Total
      BY <1>1 DEF Total
    <2>2. /\ stored'.log = <<>> /\ stored'.usage = None /\ ~stored'.limit
      BY <1>1 DEF RecordInv, TurnInv
    <2>3. \A i \in 1..Len(sent) : sent[i].type = "context_status" =>
              doneData # None /\ StatusRight(sent[i].data, Total)
      BY <1>1 DEF RecordInv, TurnInv
    <2>4. draft'.usage # None /\ draft'.usage = doneData'.usage /\ doneData' # None
      BY <1>1, <1>2, <1>3, <1>6
    <2>5. \A i \in 1..Len(sent') : sent'[i].type = "context_status" =>
              doneData' # None /\ StatusRight(sent'[i].data, Total')
      BY <1>1, <2>1, <2>3
    <2>6. draft'.tokens = Total' /\ (draft'.limit <=> Full(Total'))
      BY <1>8, <2>1
    <2>7. QED
      BY <2>2, <2>4, <2>5, <2>6 DEF TurnInv
  <1>10. DraftInv'
    BY <1>1, <1>6, <1>7 DEF DraftInv
  <1>11. EventsInv'
    BY <1>1, <1>6, <1>7 DEF RecordInv, EventsInv
  <1>12. DataInv' /\ ClosedInv'
    BY <1>1 DEF RecordInv, DataInv, ClosedInv
  <1>13. QED
    BY <1>9, <1>10, <1>11, <1>12 DEF RecordInv

LEMMA SaveKeeps ==
    ASSUME StreamTypeInv, RecordInv, SaveAnswer
    PROVE  RecordInv'
  <1>1. /\ host = "answer" /\ host' = "end" /\ UNCHANGED <<sent, doneData, events, stored>>
        /\ draft' \in {draft, [draft EXCEPT !.log = events]}
    BY DEF SaveAnswer
  <1>2. /\ draft'.usage = draft.usage /\ draft'.tokens = draft.tokens /\ draft'.limit = draft.limit
        /\ draft'.log \in {draft.log, events}
    BY <1>1 DEF StreamTypeInv, IsSession
  <1>3. DraftInv' /\ EventsInv' /\ DataInv' /\ ClosedInv'
    BY <1>1, <1>2 DEF RecordInv, DraftInv, EventsInv, DataInv, ClosedInv
  <1>4. TurnInv'
    BY <1>1, <1>2 DEF RecordInv, TurnInv, Total
  <1>5. QED
    BY <1>3, <1>4 DEF RecordInv

LEMMA CommitKeeps ==
    ASSUME StreamTypeInv, RecordInv, Commit
    PROVE  RecordInv'
  <1>1. /\ host = "end" /\ host' = "closed" /\ stored' = draft
        /\ UNCHANGED <<sent, doneData, events, draft>>
    BY DEF Commit
  <1>2. DraftInv' /\ EventsInv' /\ DataInv' /\ TurnInv'
    BY <1>1 DEF RecordInv, DraftInv, EventsInv, DataInv, TurnInv
  <1>3. ASSUME draft.usage # None
        PROVE  /\ \E i \in DonesIn(sent) : sent[i].data.usage = draft.usage
               /\ draft.limit <=> Full(draft.tokens)
               /\ \A i \in 1..Len(sent) : sent[i].type = "context_status" =>
                    StatusRight(sent[i].data, draft.tokens)
    <2>1. doneData # None /\ draft.usage = doneData.usage /\ draft.tokens = Total
          /\ (draft.limit <=> Full(Total))
      BY <1>1, <1>3 DEF RecordInv, TurnInv
    <2>2. \E i \in DonesIn(sent) : sent[i].data = doneData
      BY <2>1 DEF RecordInv, DataInv
    <2>3. \A i \in 1..Len(sent) : sent[i].type = "context_status" =>
              StatusRight(sent[i].data, Total)
      BY <1>1 DEF RecordInv, TurnInv
    <2>4. QED
      BY <2>1, <2>2, <2>3
  <1>4. ClosedInv'
    BY <1>1, <1>3 DEF ClosedInv
  <1>5. QED
    BY <1>2, <1>4 DEF RecordInv

LEMMA RecordKept ==
    ASSUME StreamTypeInv, DoneInv, RecordInv, [Next]_vars
    PROVE  RecordInv'
  <1>1. CASE AgentActs
    <2>1. PICK fr : WritesOf(fr)
      BY <1>1, AgentWrites
    <2>2. UNCHANGED <<host, sent, doneData, dbVars>>
      BY <2>1, WrittenWire
    <2>3. QED
      BY <2>2, RecordQuiet DEF dbVars
  <1>2. CASE ContainerDies \/ Receive \/ UNCHANGED vars
    <2>1. UNCHANGED <<host, sent, doneData, dbVars>>
      BY <1>2 DEF ContainerDies, Receive, vars
    <2>2. QED
      BY <2>1, RecordQuiet DEF dbVars
  <1>3. CASE StreamFails \/ StreamTimesOut
    <2>1. UNCHANGED <<host, sent, doneData, dbVars>>
      BY <1>3, FailedWire
    <2>2. QED
      BY <2>1, RecordQuiet DEF dbVars
  <1>4. CASE StreamEnds \/ Rescue \/ RecordNothing
    <2>1. /\ host \in {"stream", "rescue", "record"} /\ host' \in {"rescue", "record", "answer"}
          /\ UNCHANGED <<sent, doneData, events, draft, stored>>
      BY <1>4 DEF StreamEnds, Rescue, RecordNothing, dbVars
    <2>2. QED
      BY <2>1 DEF RecordInv, DraftInv, EventsInv, DataInv, TurnInv, ClosedInv, Total
  <1>5. CASE Rollback
    <2>1. /\ host \in {"end", "undo"} /\ host' = "closed" /\ draft' = stored
          /\ UNCHANGED <<sent, doneData, events, stored>>
      BY <1>5 DEF Rollback
    <2>2. QED
      BY <2>1 DEF RecordInv, DraftInv, EventsInv, DataInv, TurnInv, ClosedInv
  <1>6. CASE HostActs
    BY <1>4, <1>5, <1>6, RecordUsageKeeps, SaveKeeps, CommitKeeps DEF HostActs
  <1>7. QED
    BY <1>1, <1>2, <1>3, <1>6, StepKinds, RecordEvent, RecordRelayDone, RecordRaises

-----------------------------------------------------------------------------
(* Frames in order *)

KeyOf(f) == IF f.type = "system" THEN <<"init">> ELSE FrameKey(f)
Keys(relayed) == [i \in DOMAIN relayed |-> EventKey(relayed[i])]

LEMMA ToldSeq ==
    ASSUME NEW s, IsSeq(s)
    PROVE  /\ IsSeq(Told(s)) /\ Len(Told(s)) = Len(s) /\ Len(s) \in Nat
           /\ \A i \in 1..Len(s) : Told(s)[i] = KeyOf(s[i])
  <1>1. Len(s) \in Nat /\ DOMAIN s = 1..Len(s)
    BY SeqLen
  <1>2. Told(s) = [i \in 1..Len(s) |-> KeyOf(s[i])]
    BY <1>1 DEF Told, KeyOf
  <1>3. ASSUME NEW n \in Nat, NEW T, NEW f \in [1..n -> T]
        PROVE  f \in Seq(T) /\ Len(f) = n
    OBVIOUS
  <1> DEFINE T == {KeyOf(s[i]) : i \in 1..Len(s)}
  <1>4. Told(s) \in [1..Len(s) -> T]
    BY <1>2
  <1> HIDE DEF T
  <1>5. Told(s) \in Seq(T) /\ Len(Told(s)) = Len(s)
    BY <1>1, <1>3, <1>4
  <1>6. IsSeq(Told(s))
    BY <1>5, AnySeq
  <1>7. QED
    BY <1>1, <1>2, <1>5, <1>6

LEMMA KeysSeq ==
    ASSUME NEW s, IsSeq(s)
    PROVE  /\ IsSeq(Keys(s)) /\ Len(Keys(s)) = Len(s) /\ Len(s) \in Nat
           /\ \A i \in 1..Len(s) : Keys(s)[i] = EventKey(s[i])
  <1>1. Len(s) \in Nat /\ DOMAIN s = 1..Len(s)
    BY SeqLen
  <1>2. Keys(s) = [i \in 1..Len(s) |-> EventKey(s[i])]
    BY <1>1 DEF Keys
  <1>3. ASSUME NEW n \in Nat, NEW T, NEW f \in [1..n -> T]
        PROVE  f \in Seq(T) /\ Len(f) = n
    OBVIOUS
  <1> DEFINE T == {EventKey(s[i]) : i \in 1..Len(s)}
  <1>4. Keys(s) \in [1..Len(s) -> T]
    BY <1>2
  <1> HIDE DEF T
  <1>5. Keys(s) \in Seq(T) /\ Len(Keys(s)) = Len(s)
    BY <1>1, <1>3, <1>4
  <1>6. IsSeq(Keys(s))
    BY <1>5, AnySeq
  <1>7. QED
    BY <1>1, <1>2, <1>5, <1>6

LEMMA ToldJoin ==
    ASSUME NEW s, IsSeq(s), NEW t, IsSeq(t), NEW u, u = s \o t
    PROVE  Told(u) = Told(s) \o Told(t)
  <1>1. /\ IsSeq(u) /\ Len(s) \in Nat /\ Len(t) \in Nat /\ Len(u) = Len(s) + Len(t)
        /\ \A i \in 1..Len(u) :
             \/ i \in 1..Len(s) /\ u[i] = s[i]
             \/ i - Len(s) \in 1..Len(t) /\ u[i] = t[i - Len(s)]
    <2>1. IsSeq(u) /\ Len(s) \in Nat /\ Len(t) \in Nat
      BY SeqLen, SeqJoin
    <2>2. Len(u) = Len(s) + Len(t)
      BY Parts
    <2>3. \A i \in 1..Len(u) :
             \/ i \in 1..Len(s) /\ u[i] = s[i]
             \/ i - Len(s) \in 1..Len(t) /\ u[i] = t[i - Len(s)]
      BY Parts
    <2>4. QED
      BY <2>1, <2>2, <2>3
  <1> DEFINE a == Told(s)
             b == Told(t)
             c == Told(u)
             d == a \o b
  <1>2. /\ IsSeq(a) /\ Len(a) = Len(s) /\ \A i \in 1..Len(s) : a[i] = KeyOf(s[i])
        /\ IsSeq(b) /\ Len(b) = Len(t) /\ \A i \in 1..Len(t) : b[i] = KeyOf(t[i])
        /\ IsSeq(c) /\ Len(c) = Len(u) /\ \A i \in 1..Len(u) : c[i] = KeyOf(u[i])
    BY <1>1, ToldSeq
  <1> HIDE DEF a, b, c
  <1>3. /\ IsSeq(d) /\ Len(d) = Len(a) + Len(b)
        /\ \A i \in 1..Len(a) + Len(b) : d[i] = IF i <= Len(a) THEN a[i] ELSE b[i - Len(a)]
    BY <1>2, SeqJoin
  <1> HIDE DEF d
  <1>4. ASSUME NEW i \in 1..Len(u)
        PROVE  c[i] = d[i]
    <2>0. i \in 1..Len(a) + Len(b)
      BY <1>1, <1>2
    <2>1. d[i] = IF i <= Len(a) THEN a[i] ELSE b[i - Len(a)]
      BY <1>3, <2>0
    <2>2. c[i] = KeyOf(u[i])
      BY <1>2
    <2>3. CASE i \in 1..Len(s) /\ u[i] = s[i]
      <3>1. i <= Len(a) /\ a[i] = KeyOf(s[i])
        BY <1>1, <1>2, <2>3
      <3>2. QED
        BY <2>1, <2>2, <2>3, <3>1
    <2>4. CASE i - Len(s) \in 1..Len(t) /\ u[i] = t[i - Len(s)]
      <3>1. ~(i <= Len(a)) /\ b[i - Len(s)] = KeyOf(t[i - Len(s)])
        BY <1>1, <1>2, <2>4
      <3>2. QED
        BY <1>2, <2>1, <2>2, <2>4, <3>1
    <2>5. QED
      BY <1>1, <2>3, <2>4
  <1>5. c = d
    BY <1>1, <1>2, <1>3, <1>4, SameSeq
  <1>6. QED
    BY <1>5 DEF a, b, c, d

\* What is shown grows by the event of each frame.
LEMMA ShownSeq ==
    ASSUME IsSeq(sent)
    PROVE  IsSeq(Shown) /\ Len(Shown) \in Nat /\ Shown = Keys(OfType(sent, Relayed))
  <1>1. Shown = Keys(OfType(sent, Relayed))
    BY DEF Shown, Keys
  <1>2. IsSeq(<<>>)
    BY SeqNone
  <1>3. /\ OfType(sent \o <<>>, Relayed) = OfType(sent, Relayed) \o OfType(<<>>, Relayed)
        /\ IsSeq(OfType(sent, Relayed))
    BY <1>2, KeptJoin
  <1>4. QED
    BY <1>1, <1>3, KeysSeq, SeqLen

LEMMA KeysMore ==
    ASSUME NEW r, IsSeq(r), NEW e
    PROVE  Keys(r \o <<e>>) = Keys(r) \o <<EventKey(e)>>
  <1> DEFINE o == <<e>>
             q == <<EventKey(e)>>
             u == r \o o
             c == Keys(u)
             d == Keys(r) \o q
  <1>1. IsSeq(o) /\ Len(o) = 1 /\ o[1] = e /\ IsSeq(q) /\ Len(q) = 1 /\ q[1] = EventKey(e)
    BY SeqOne
  <1> HIDE DEF o, q
  <1>2. Len(r) \in Nat
    BY SeqLen
  <1>3. /\ IsSeq(u) /\ Len(u) = Len(r) + Len(o)
        /\ \A i \in 1..Len(r) + Len(o) : u[i] = IF i <= Len(r) THEN r[i] ELSE o[i - Len(r)]
    BY <1>1, SeqJoin
  <1>4. /\ IsSeq(Keys(r)) /\ Len(Keys(r)) = Len(r) /\ Len(r) \in Nat
        /\ \A i \in 1..Len(r) : Keys(r)[i] = EventKey(r[i])
    BY KeysSeq
  <1> HIDE DEF u
  <1>5. /\ IsSeq(c) /\ Len(c) = Len(u) /\ Len(u) \in Nat
        /\ \A i \in 1..Len(u) : c[i] = EventKey(u[i])
    BY <1>3, KeysSeq
  <1> HIDE DEF c
  <1> DEFINE kr == Keys(r)
  <1>6. kr = Keys(r)
    OBVIOUS
  <1> HIDE DEF kr
  <1>7. /\ IsSeq(kr \o q) /\ Len(kr \o q) = Len(kr) + Len(q)
        /\ \A i \in 1..Len(kr) + Len(q) : (kr \o q)[i] = IF i <= Len(kr) THEN kr[i] ELSE q[i - Len(kr)]
    <2>1. IsSeq(kr)
      BY <1>4, <1>6
    <2>2. QED
      BY <1>1, <2>1, SeqJoin
  <1>8. d = kr \o q
    BY <1>6
  <1> HIDE DEF d
  <1>9. /\ IsSeq(d) /\ Len(d) = Len(r) + 1
        /\ \A i \in 1..Len(r) + 1 : d[i] = IF i <= Len(r) THEN kr[i] ELSE q[i - Len(r)]
    <2>1. Len(kr) = Len(r) /\ Len(q) = 1
      BY <1>1, <1>4, <1>6
    <2>2. QED
      BY <1>7, <1>8, <2>1
  <1>10. ASSUME NEW i \in 1..Len(c)
         PROVE  c[i] = d[i]
    <2>1. i \in 1..Len(r) + 1 /\ i \in 1..Len(r) + Len(o)
      BY <1>1, <1>3, <1>5
    <2>2. CASE i <= Len(r)
      <3>1. i \in 1..Len(r) /\ u[i] = r[i] /\ d[i] = kr[i]
        BY <1>2, <1>3, <1>9, <2>1, <2>2
      <3>2. QED
        BY <1>4, <1>5, <1>6, <3>1
    <2>3. CASE ~(i <= Len(r))
      <3>1. i - Len(r) = 1 /\ u[i] = o[i - Len(r)] /\ d[i] = q[i - Len(r)]
        BY <1>2, <1>3, <1>9, <2>1, <2>3
      <3>2. QED
        BY <1>1, <1>5, <3>1
    <2>4. QED
      BY <2>2, <2>3
  <1>11. Len(c) = Len(d)
    BY <1>1, <1>3, <1>5, <1>9
  <1>12. c = d
    BY <1>5, <1>9, <1>10, <1>11, SameSeq
  <1>13. QED
    BY <1>12 DEF c, d, u, o, q

LEMMA ShownMore ==
    ASSUME IsSeq(sent), NEW pre, IsSeq(pre), \A i \in 1..Len(pre) : pre[i].type \in Added,
           NEW e, e.type \in Relayed, Sends(pre, e)
    PROVE  Shown' = Shown \o <<EventKey(e)>>
  <1> DEFINE o == <<e>>
             rest == pre \o o
             r == OfType(sent, Relayed)
  <1>1. IsSeq(o)
    BY SeqOne
  <1>2. OfType(o, Relayed) = o
    BY OfTypeOne
  <1> HIDE DEF o
  <1>3. \A i \in 1..Len(pre) : pre[i].type \notin Relayed
    BY DEF Relayed, Added
  <1>4. OfType(pre, Relayed) = <<>>
    BY <1>3, OfTypeOthers
  <1>5. /\ OfType(rest, Relayed) = OfType(pre, Relayed) \o OfType(o, Relayed)
        /\ IsSeq(OfType(pre, Relayed))
    BY <1>1, KeptJoin
  <1>6. OfType(rest, Relayed) = o
    BY <1>1, <1>2, <1>4, <1>5, JoinNone
  <1>7. IsSeq(rest)
    BY <1>1, SeqJoin
  <1>8. sent' = sent \o rest
    BY DEF Sends, o
  <1> HIDE DEF rest
  <1>9. /\ OfType(sent \o rest, Relayed) = OfType(sent, Relayed) \o OfType(rest, Relayed)
        /\ IsSeq(OfType(sent, Relayed))
    BY <1>7, KeptJoin
  <1>10. OfType(sent', Relayed) = r \o <<e>> /\ IsSeq(r)
    BY <1>6, <1>8, <1>9 DEF o
  <1>11. Shown = Keys(r)
    BY ShownSeq
  <1>12. Shown' = Keys(OfType(sent', Relayed))
    BY DEF Shown, Keys
  <1> HIDE DEF r
  <1>13. Keys(r \o <<e>>) = Keys(r) \o <<EventKey(e)>>
    BY <1>10, KeysMore
  <1>14. QED
    BY <1>10, <1>11, <1>12, <1>13

\* The event of a frame of the agent tells what the frame tells.
LEMMA KeyPasses ==
    ASSUME NEW f \in AgentFrame, NEW e,
           Becomes(e, f) \/ (f.type = "done" /\ e.type = "done")
    PROVE  EventKey(e) = KeyOf(f) /\ e.type \in Relayed
  <1>1. /\ f.type \in {"error", "text_delta", "thinking", "system", "tool_use", "tool_result", "done"}
        /\ f.type = "system" => f.data = [init |-> TRUE]
        /\ f.type \in {"tool_use", "tool_result"} => \E u \in ToolUse : f.data = Named(u)
    BY AgentKinds
  <1>2. CASE f.type = "done"
    <2>1. e.type = "done"
      BY <1>2 DEF Becomes, ShownType
    <2>2. QED
      BY <1>2, <2>1 DEF EventKey, KeyOf, FrameKey, Relayed, Added
  <1>3. CASE f.type = "system"
    <2>1. f.data # Failed
      BY <1>1, <1>3, FrameDomains
    <2>2. e.type = "init"
      BY <1>3, <2>1 DEF Becomes, ShownType
    <2>3. QED
      BY <1>3, <2>2 DEF EventKey, KeyOf, Relayed, Added
  <1>4. CASE f.type = "text_delta"
    <2>1. e.type = "assistant"
      BY <1>4 DEF Becomes, ShownType
    <2>2. QED
      BY <1>4, <2>1 DEF EventKey, KeyOf, FrameKey, Relayed, Added
  <1>5. CASE f.type = "tool_use"
    <2>1. f.data # Failed
      BY <1>1, <1>5, NotFailed
    <2>2. e.type = "tool_call" /\ e.data = f.data
      BY <1>5, <2>1 DEF Becomes, ShownType
    <2>3. QED
      BY <1>5, <2>2 DEF EventKey, KeyOf, FrameKey, Relayed, Added
  <1>6. CASE f.type = "tool_result"
    <2>1. f.data # Failed
      BY <1>1, <1>6, NotFailed
    <2>2. e.type = "tool_result" /\ e.data = f.data
      BY <1>6, <2>1 DEF Becomes, ShownType
    <2>3. QED
      BY <1>6, <2>2 DEF EventKey, KeyOf, FrameKey, Relayed, Added
  <1>7. CASE f.type \in {"error", "thinking"}
    <2>1. e.type = f.type
      BY <1>7 DEF Becomes, ShownType
    <2>2. QED
      BY <1>7, <2>1 DEF EventKey, KeyOf, FrameKey, Relayed, Added
  <1>8. QED
    BY <1>1, <1>2, <1>3, <1>4, <1>5, <1>6, <1>7

LEMMA TypesRelayed ==
    ASSUME NEW f \in AgentFrame \cup FailureFrame, NEW e,
           Becomes(e, f) \/ (f.type = "done" /\ e.type = "done")
    PROVE  e.type \in Relayed
  <1>1. FrameKind(f)
    BY FrameKinds
  <1>2. f.type \in {"error", "text_delta", "thinking", "system", "tool_use", "tool_result", "done",
                    "garbled", "container_recovered"}
    BY <1>1 DEF FrameKind
  <1>3. e.type = "done" \/ e.type = ShownType(f)
    BY DEF Becomes
  <1>4. ShownType(f) \in Relayed
    BY <1>2 DEF ShownType, Relayed, Added
  <1>5. "done" \in Relayed
    BY DEF Relayed, Added
  <1>6. QED
    BY <1>3, <1>4, <1>5

LEMMA PartOf ==
    ASSUME NEW s, IsSeq(s), NEW n \in 0..Len(s)
    PROVE  /\ IsSeq(SubSeq(s, 1, n)) /\ Len(SubSeq(s, 1, n)) = n /\ n \in Nat
           /\ \A i \in 1..n : SubSeq(s, 1, n)[i] = s[i]
  <1>1. s \in Seq(Range(s)) /\ Len(s) \in Nat
    BY SeqLen DEF IsSeq
  <1>2. ASSUME NEW S, NEW t \in Seq(S)
        PROVE  /\ n \in Nat
               /\ n <= Len(t) => /\ SubSeq(t, 1, n) \in Seq(S) /\ Len(SubSeq(t, 1, n)) = n
                                 /\ \A i \in 1..n : SubSeq(t, 1, n)[i] = t[i]
    OBVIOUS
  <1>3. /\ SubSeq(s, 1, n) \in Seq(Range(s)) /\ Len(SubSeq(s, 1, n)) = n /\ n \in Nat
        /\ \A i \in 1..n : SubSeq(s, 1, n)[i] = s[i]
    BY <1>1, <1>2
  <1>4. IsSeq(SubSeq(s, 1, n))
    BY <1>3, AnySeq
  <1>5. QED
    BY <1>3, <1>4

\* What is appended does not change a part of the beginning.
LEMMA PartStays ==
    ASSUME NEW s, IsSeq(s), NEW q, IsSeq(q), NEW n \in 0..Len(s)
    PROVE  SubSeq(s \o q, 1, n) = SubSeq(s, 1, n)
  <1> DEFINE u == s \o q
  <1>1. /\ IsSeq(u) /\ Len(s) \in Nat /\ Len(q) \in Nat /\ Len(u) = Len(s) + Len(q)
        /\ \A i \in 1..Len(s) : u[i] = s[i]
    <2>1. /\ IsSeq(u) /\ Len(u) = Len(s) + Len(q)
          /\ \A i \in 1..Len(s) + Len(q) : u[i] = IF i <= Len(s) THEN s[i] ELSE q[i - Len(s)]
          /\ \A i \in 1..Len(s) : u[i] = s[i]
          /\ \A i \in 1..Len(q) : u[Len(s) + i] = q[i]
      BY SeqJoin
    <2>2. Len(s) \in Nat /\ Len(q) \in Nat
      BY SeqLen
    <2>3. QED
      BY <2>1, <2>2
  <1> HIDE DEF u
  <1>2. n \in 0..Len(u)
    BY <1>1
  <1>3. /\ IsSeq(SubSeq(s, 1, n)) /\ Len(SubSeq(s, 1, n)) = n /\ n \in Nat
        /\ \A i \in 1..n : SubSeq(s, 1, n)[i] = s[i]
    BY PartOf
  <1>4. /\ IsSeq(SubSeq(u, 1, n)) /\ Len(SubSeq(u, 1, n)) = n /\ n \in Nat
        /\ \A i \in 1..n : SubSeq(u, 1, n)[i] = u[i]
    BY <1>1, <1>2, PartOf
  <1>5. \A i \in 1..n : SubSeq(u, 1, n)[i] = SubSeq(s, 1, n)[i]
    BY <1>1, <1>3, <1>4
  <1>6. SubSeq(u, 1, n) = SubSeq(s, 1, n)
    BY <1>3, <1>4, <1>5, SameSeq
  <1>7. QED
    BY <1>6 DEF u

LEMMA WholePart ==
    ASSUME NEW s, IsSeq(s)
    PROVE  SubSeq(s, 1, Len(s)) = s
  <1>1. Len(s) \in Nat /\ Len(s) \in 0..Len(s)
    BY SeqLen
  <1>2. /\ IsSeq(SubSeq(s, 1, Len(s))) /\ Len(SubSeq(s, 1, Len(s))) = Len(s)
        /\ \A i \in 1..Len(s) : SubSeq(s, 1, Len(s))[i] = s[i]
    BY <1>1, PartOf
  <1>3. QED
    BY <1>2, SameSeq

\* The beginning of a sequence is a prefix of it.
LEMMA PrefixOf ==
    ASSUME NEW s, IsSeq(s), NEW t, IsSeq(t)
    PROVE  IsPrefix(s, s \o t)
  <1>1. Len(s) \in Nat /\ Len(t) \in Nat /\ Len(s \o t) = Len(s) + Len(t)
    BY Parts
  <1>2. SubSeq(s \o t, 1, Len(s)) = SubSeq(s, 1, Len(s))
    BY <1>1, PartStays
  <1>3. QED
    BY <1>1, <1>2 DEF IsPrefix

LEMMA FramesInit ==
    Init => FramesInv
  <1> SUFFICES ASSUME Init
               PROVE  FramesInv
    OBVIOUS
  <1>1. sent = <<>> /\ wire = <<>> /\ emitted = <<>> /\ agent = "starting"
    BY DEF Init
  <1>2. IsSeq(<<>>) /\ Len(<<>>) = 0
    BY SeqNone
  <1>3. IsSeq(Told(<<>>)) /\ Len(Told(<<>>)) = Len(<<>>) /\ Len(<<>>) \in Nat
    BY <1>2, ToldSeq
  <1>4. Told(<<>>) = <<>>
    BY <1>2, <1>3, SameSeq
  <1>5. Shown = Keys(OfType(<<>>, Relayed))
    BY <1>1, <1>2, ShownSeq
  <1>6. OfType(<<>>, Relayed) = <<>>
    BY OfTypeNone
  <1>7. IsSeq(Keys(<<>>)) /\ Len(Keys(<<>>)) = Len(<<>>)
    BY <1>2, KeysSeq
  <1>8. Keys(<<>>) = <<>>
    BY <1>2, <1>7, SameSeq
  <1>9. Shown = <<>>
    BY <1>5, <1>6, <1>8
  <1>10. Shown \o Told(wire) = Told(emitted)
    BY <1>1, <1>2, <1>4, <1>9, JoinNone
  <1>11. QED
    BY <1>1, <1>10 DEF FramesInv

\* The agent writes at the end of the wire what it tells.
LEMMA FramesAgent ==
    ASSUME StreamTypeInv, FramesInv, NEW fr, WritesOf(fr), agent # "gone", agent' # "gone"
    PROVE  FramesInv'
  <1>1. /\ IsSeq(wire) /\ IsSeq(fr) /\ IsSeq(emitted)
        /\ wire' = wire \o fr /\ emitted' = emitted \o fr
        /\ UNCHANGED <<got, split, broken, host, seq, sent, doneData, fileVars, dbVars>>
    BY WrittenWire
  <1>2. IsSeq(sent)
    BY DEF StreamTypeInv
  <1> SUFFICES ASSUME host' = "stream"
               PROVE  Shown' \o Told(wire') = Told(emitted')
    BY DEF FramesInv
  <1>3. Shown' = Shown
    BY <1>1 DEF Shown
  <1>4. Shown \o Told(wire) = Told(emitted)
    BY <1>1 DEF FramesInv
  <1>5. Told(wire') = Told(wire) \o Told(fr) /\ Told(emitted') = Told(emitted) \o Told(fr)
    BY <1>1, ToldJoin
  <1>6. IsSeq(Shown) /\ IsSeq(Told(wire)) /\ IsSeq(Told(fr))
    BY <1>1, <1>2, ShownSeq, ToldSeq
  <1>7. (Shown \o Told(wire)) \o Told(fr) = Shown \o (Told(wire) \o Told(fr))
    BY <1>6, SeqAssoc
  <1>8. QED
    BY <1>3, <1>4, <1>5, <1>7

\* A frame of the agent becomes what the client is shown of it.
LEMMA FramesRelay ==
    ASSUME StreamTypeInv, FramesInv, wire # <<>>, wire' = Tail(wire), host = "stream",
           UNCHANGED <<agent, host, emitted>>,
           NEW pre, IsSeq(pre), \A i \in 1..Len(pre) : pre[i].type \in Added,
           NEW e, Becomes(e, FirstFrame) \/ (FirstFrame.type = "done" /\ e.type = "done"),
           Sends(pre, e)
    PROVE  FramesInv'
  <1>1. IsSeq(sent) /\ IsSeq(Shown) /\ Len(Shown) \in Nat
    <2>1. IsSeq(sent)
      BY DEF StreamTypeInv
    <2>2. IsSeq(Shown) /\ Len(Shown) \in Nat /\ Shown = Keys(OfType(sent, Relayed))
      BY <2>1, ShownSeq
    <2>3. QED
      BY <2>1, <2>2
  <1>2. /\ FirstFrame \in AgentFrame \cup FailureFrame
        /\ agent # "gone" => FirstFrame \in AgentFrame
        /\ IsSeq(wire) /\ IsSeq(Tail(wire)) /\ Len(wire) \in Nat \ {0}
        /\ Len(Tail(wire)) = Len(wire) - 1
        /\ wire = <<FirstFrame>> \o Tail(wire)
    BY WireHead
  <1> DEFINE k == EventKey(e)
             q == <<k>>
  <1>3. e.type \in Relayed
    BY <1>2, TypesRelayed
  <1>4. Shown' = Shown \o q
    BY <1>1, <1>3, ShownMore
  <1>5. IsSeq(q) /\ Len(q) = 1 /\ q[1] = k
    BY SeqOne
  <1>6. CASE agent # "gone"
    <2>1. k = KeyOf(FirstFrame)
      <3>1. FirstFrame \in AgentFrame
        BY <1>2, <1>6
      <3>2. EventKey(e) = KeyOf(FirstFrame) /\ e.type \in Relayed
        BY <3>1, KeyPasses
      <3>3. QED
        BY <3>2
    <2> DEFINE one == <<FirstFrame>>
               t == Told(Tail(wire))
    <2>2. IsSeq(one) /\ Len(one) = 1 /\ one[1] = FirstFrame
      BY SeqOne
    <2>3. wire = one \o Tail(wire)
      BY <1>2
    <2> HIDE DEF one
    <2>4. Told(wire) = Told(one) \o Told(Tail(wire))
      BY <1>2, <2>2, <2>3, ToldJoin
    <2>5. /\ IsSeq(Told(one)) /\ Len(Told(one)) = Len(one) /\ Len(one) \in Nat
          /\ \A i \in 1..Len(one) : Told(one)[i] = KeyOf(one[i])
      BY <2>2, ToldSeq
    <2> HIDE DEF k, q
    <2>6. Told(one) = q
      <3>1. Len(Told(one)) = Len(q) /\ Told(one)[1] = q[1]
        BY <1>5, <2>1, <2>2, <2>5
      <3>2. \A i \in 1..Len(Told(one)) : Told(one)[i] = q[i]
        BY <1>5, <3>1
      <3>3. QED
        BY <1>5, <2>5, <3>1, <3>2, SameSeq
    <2>7. IsSeq(t)
      <3>1. /\ IsSeq(Told(Tail(wire))) /\ Len(Told(Tail(wire))) = Len(Tail(wire))
            /\ Len(Tail(wire)) \in Nat
            /\ \A i \in 1..Len(Tail(wire)) : Told(Tail(wire))[i] = KeyOf(Tail(wire)[i])
        BY <1>2, ToldSeq
      <3>2. QED
        BY <3>1
    <2>8. Shown \o Told(wire) = Told(emitted)
      BY <1>6 DEF FramesInv
    <2>10. Told(wire') = t /\ Told(emitted') = Told(emitted) /\ Told(wire) = Told(one) \o t
      BY <2>4
    <2> HIDE DEF t
    <2>9. (Shown \o q) \o t = Shown \o (q \o t)
      BY <1>1, <1>5, <2>7, SeqAssoc
    <2>11. Shown' \o Told(wire') = Told(emitted')
      BY <1>4, <2>6, <2>8, <2>9, <2>10
    <2>12. QED
      BY <1>6, <2>11 DEF FramesInv
  <1>7. CASE agent = "gone"
    <2> HIDE DEF k, q
    <2>1. PICK whole \in 0..Len(Shown) :
                /\ IsPrefix(SubSeq(Shown, 1, whole), Told(emitted))
                /\ Len(Shown) + Len(wire) <= whole + 2
      BY <1>7 DEF FramesInv
    <2>2. Len(Shown') = Len(Shown) + 1
      <3>1. /\ IsSeq(Shown \o q) /\ Len(Shown \o q) = Len(Shown) + Len(q)
            /\ \A i \in 1..Len(Shown) + Len(q) :
                 (Shown \o q)[i] = IF i <= Len(Shown) THEN Shown[i] ELSE q[i - Len(Shown)]
        BY <1>1, <1>5, SeqJoin
      <3>2. QED
        BY <1>4, <1>5, <3>1
    <2>3. SubSeq(Shown \o q, 1, whole) = SubSeq(Shown, 1, whole)
      BY <1>1, <1>5, PartStays
    <2>4. IsPrefix(SubSeq(Shown', 1, whole), Told(emitted'))
      BY <1>4, <2>1, <2>3
    <2>5. whole \in 0..Len(Shown') /\ Len(Shown') + Len(wire') <= whole + 2
      BY <1>1, <1>2, <2>1, <2>2
    <2>6. QED
      BY <1>7, <2>4, <2>5 DEF FramesInv
  <1>8. QED
    BY <1>6, <1>7

\* A failure leaves what was shown as a part, and two frames at most to come.
LEMMA FramesFail ==
    ASSUME StreamTypeInv, FramesInv, StreamFails \/ StreamTimesOut
    PROVE  FramesInv'
  <1>1. /\ host = "stream" /\ agent # "gone" /\ agent' = "gone"
        /\ Len(wire') \in {1, 2}
        /\ UNCHANGED <<names, open, messages, emitted, host, seq, sent, doneData,
                       external, copied, missed, dbVars>>
    BY FailedWire
  <1>2. /\ IsSeq(sent) /\ IsSeq(Shown) /\ Len(Shown) \in Nat /\ IsSeq(Told(wire))
    <2>1. IsSeq(sent) /\ IsSeq(wire)
      BY AnySeq DEF StreamTypeInv
    <2>2. IsSeq(Shown) /\ Len(Shown) \in Nat /\ Shown = Keys(OfType(sent, Relayed))
      BY <2>1, ShownSeq
    <2>3. /\ IsSeq(Told(wire)) /\ Len(Told(wire)) = Len(wire) /\ Len(wire) \in Nat
          /\ \A i \in 1..Len(wire) : Told(wire)[i] = KeyOf(wire[i])
      BY <2>1, ToldSeq
    <2>4. QED
      BY <2>1, <2>2, <2>3
  <1>3. Shown \o Told(wire) = Told(emitted)
    BY <1>1 DEF FramesInv
  <1>4. Shown' = Shown /\ Told(emitted') = Told(emitted)
    BY <1>1 DEF Shown
  <1>5. IsPrefix(Shown, Shown \o Told(wire))
    BY <1>2, PrefixOf
  <1>6. SubSeq(Shown, 1, Len(Shown)) = Shown
    BY <1>2, WholePart
  <1>7. IsPrefix(SubSeq(Shown', 1, Len(Shown')), Told(emitted'))
    BY <1>3, <1>4, <1>5, <1>6
  <1>8. Len(Shown') \in 0..Len(Shown') /\ Len(Shown') + Len(wire') <= Len(Shown') + 2
    <2>1. ASSUME NEW n \in Nat, NEW m \in {1, 2}
          PROVE  n \in 0..n /\ n + m <= n + 2
      OBVIOUS
    <2>2. Len(Shown') \in Nat
      BY <1>2, <1>4
    <2>3. QED
      BY <1>1, <2>1, <2>2, Zenon
  <1>9. QED
    BY <1>1, <1>7, <1>8 DEF FramesInv

LEMMA FramesQuiet ==
    ASSUME FramesInv, UNCHANGED <<host, sent, wire, emitted>>, (agent = "gone") <=> (agent' = "gone")
    PROVE  FramesInv'
  <1>1. Shown' = Shown
    BY DEF Shown
  <1>2. QED
    BY <1>1 DEF FramesInv

LEMMA FramesKept ==
    ASSUME StreamTypeInv, FramesInv, [Next]_vars
    PROVE  FramesInv'
  <1>1. CASE AgentActs
    <2>1. /\ agent' \in {"running", "answered", "ended"}
          /\ \E fr : WritesOf(fr) /\ FewDone(fr) /\ Ends(fr) /\ ToolsOf(fr)
      BY <1>1, AgentWrites
    <2>2. PICK fr : WritesOf(fr)
      BY <2>1
    <2>3. agent # "gone" /\ agent' # "gone"
      BY <2>1, <2>2 DEF WritesOf
    <2>4. QED
      BY <2>2, <2>3, FramesAgent
  <1>2. CASE ContainerDies
    <2>1. UNCHANGED <<host, sent, wire, emitted>> /\ ((agent = "gone") <=> (agent' = "gone"))
      BY <1>2 DEF ContainerDies, wireVars
    <2>2. QED
      BY <2>1, FramesQuiet
  <1>3. CASE Receive
    <2>1. UNCHANGED <<host, sent, wire, emitted>> /\ ((agent = "gone") <=> (agent' = "gone"))
      BY <1>3 DEF Receive, agentVars
    <2>2. QED
      BY <2>1, FramesQuiet
  <1>4. CASE StreamFails \/ StreamTimesOut
    BY <1>4, FramesFail
  <1>5. CASE RelayEvent
    <2>1. /\ wire # <<>> /\ wire' = Tail(wire)
          /\ \E pre, e :
               /\ IsSeq(pre) /\ \A i \in 1..Len(pre) : pre[i].type = "progress"
               /\ Sends(pre, e) /\ Becomes(e, FirstFrame)
      <3>1. /\ wire # <<>> /\ wire' = Tail(wire) /\ got' = got - Pieces
            /\ \E pre, e :
                 /\ IsSeq(pre) /\ \A i \in 1..Len(pre) : pre[i].type = "progress"
                 /\ Sends(pre, e) /\ Becomes(e, FirstFrame)
                 /\ events' = events \o OfType(pre \o <<e>>, Content)
                 /\ external' = external \cup ExternalPaths(pre \o <<e>>)
        BY <1>5, RelayEventSends
      <3>2. QED
        BY <3>1, Zenon
    <2>2. PICK pre, e :
               /\ IsSeq(pre) /\ \A i \in 1..Len(pre) : pre[i].type = "progress"
               /\ Sends(pre, e) /\ Becomes(e, FirstFrame)
      BY <2>1
    <2>3. \A i \in 1..Len(pre) : pre[i].type \in Added
      BY <2>2 DEF Added
    <2>4. host = "stream" /\ UNCHANGED <<agent, host, emitted>>
      BY <1>5 DEF RelayEvent, NextFrame, agentVars
    <2>5. QED
      BY <2>1, <2>2, <2>3, <2>4, FramesRelay
  <1>6. CASE RelayDone
    <2>1. /\ wire # <<>> /\ wire' = Tail(wire)
          /\ FirstFrame.type = "done"
          /\ \E pre, e :
               /\ IsSeq(pre)
               /\ \A i \in 1..Len(pre) :
                    BeforeDone(pre[i], draft.tokens + Tokens(doneData'.usage))
               /\ Sends(pre, e) /\ e.type = "done"
      <3>1. /\ wire # <<>> /\ wire' = Tail(wire) /\ got' = got - Pieces
            /\ FirstFrame.type = "done" /\ DoneDataRight(doneData')
            /\ \E pre, e :
                 /\ IsSeq(pre)
                 /\ \A i \in 1..Len(pre) :
                      BeforeDone(pre[i], draft.tokens + Tokens(doneData'.usage))
                 /\ Sends(pre, e) /\ e.type = "done" /\ e.data = doneData'
        BY <1>6, RelayDoneSends
      <3>2. QED
        BY <3>1, Zenon
    <2>2. PICK pre, e :
               /\ IsSeq(pre)
               /\ \A i \in 1..Len(pre) :
                    BeforeDone(pre[i], draft.tokens + Tokens(doneData'.usage))
               /\ Sends(pre, e) /\ e.type = "done"
      BY <2>1
    <2>3. \A i \in 1..Len(pre) : pre[i].type \in Added
      BY <2>2 DEF Added, BeforeDone
    <2>4. host = "stream" /\ UNCHANGED <<agent, host, emitted>>
      BY <1>6 DEF RelayDone, NextFrame, agentVars
    <2>5. QED
      BY <2>1, <2>2, <2>3, <2>4, FramesRelay
  <1>7. CASE HostActs
    <2>1. host' # "stream"
      BY <1>7 DEF HostActs, StreamEnds, Rescue, RecordUsage, RecordNothing, SaveAnswer, Commit,
         Rollback
    <2>2. QED
      BY <2>1 DEF FramesInv
  <1>8. CASE HostRaises
    <2>1. host' # "stream"
      BY <1>8 DEF HostRaises
    <2>2. QED
      BY <2>1 DEF FramesInv
  <1>9. CASE UNCHANGED vars
    <2>1. UNCHANGED <<host, sent, wire, emitted>> /\ ((agent = "gone") <=> (agent' = "gone"))
      BY <1>9 DEF vars, agentVars, wireVars
    <2>2. QED
      BY <2>1, FramesQuiet
  <1>10. QED
    BY <1>1, <1>2, <1>3, <1>4, <1>5, <1>6, <1>7, <1>8, <1>9, StepKinds

-----------------------------------------------------------------------------
(* The properties *)

StreamInv ==
    /\ StreamTypeInv /\ FramesInv /\ ToolsInv /\ AnswerInv /\ DoneInv /\ RecordInv /\ OutsideInv

\* The inductive invariant of a turn holds throughout it: see its parts.
THEOREM StreamInvariant == Spec => []StreamInv
  <1>1. Init => StreamInv
    BY TypeInit, FramesInit, ToolsInit, AnswerInit, DoneInit, RecordInit, OutsideInit DEF StreamInv
  <1>2. StreamInv /\ [Next]_vars => StreamInv'
    <2> SUFFICES ASSUME StreamInv, [Next]_vars
                 PROVE  StreamInv'
      OBVIOUS
    <2>1. /\ StreamTypeInv /\ FramesInv /\ ToolsInv /\ AnswerInv /\ DoneInv /\ RecordInv
          /\ OutsideInv
      BY DEF StreamInv
    <2>2. DataCounts
      <3>1. doneData # None => /\ NormaliseUsage(doneData.usage) = doneData.usage
                               /\ Tokens(doneData.usage) \in Nat
        BY <2>1 DEF RecordInv, DataInv
      <3>2. QED
        BY <3>1 DEF DataCounts
    <2>3. Clean
      BY <2>1 DEF RecordInv, TurnInv, Clean
    <2>4. StreamTypeInv'
      BY <2>1, <2>2, TypeKept
    <2>5. FramesInv'
      BY <2>1, FramesKept
    <2>6. ToolsInv'
      BY <2>1, ToolsKept
    <2>7. AnswerInv'
      BY <2>1, AnswerKept
    <2>8. DoneInv'
      BY <2>1, <2>3, DoneKept
    <2>9. RecordInv'
      BY <2>1, RecordKept
    <2>10. OutsideInv'
      BY <2>1, OutsideKept
    <2>11. QED
      BY <2>4, <2>5, <2>6, <2>7, <2>8, <2>9, <2>10 DEF StreamInv
  <1>3. QED
    BY <1>1, <1>2, PTL DEF Spec

\* However the bytes of the agent are cut into chunks, the client is shown what the agent
\* has written, in order and once; of a container that died, a beginning of it.
THEOREM StreamFramesInOrder == Spec => []FramesInOrder
  <1>1. StreamInv => FramesInOrder
    <2> SUFFICES ASSUME StreamInv, host = "stream"
                 PROVE  IF agent # "gone" THEN Shown \o Told(wire) = Told(emitted)
                        ELSE \E whole \in 0..Len(Shown) :
                                /\ IsPrefix(SubSeq(Shown, 1, whole), Told(emitted))
                                /\ Len(Shown) - whole <= 2
      BY DEF FramesInOrder
    <2>1. FramesInv /\ IsSeq(sent) /\ IsSeq(wire)
      BY AnySeq DEF StreamInv, StreamTypeInv
    <2>2. CASE agent # "gone"
      BY <2>1, <2>2 DEF FramesInv
    <2>3. CASE agent = "gone"
      <3>1. PICK whole \in 0..Len(Shown) :
                /\ IsPrefix(SubSeq(Shown, 1, whole), Told(emitted))
                /\ Len(Shown) + Len(wire) <= whole + 2
        BY <2>1, <2>3 DEF FramesInv
      <3>2. IsSeq(Shown) /\ Len(Shown) \in Nat /\ Shown = Keys(OfType(sent, Relayed))
        BY <2>1, ShownSeq
      <3>3. Len(wire) \in Nat
        BY <2>1, SeqLen
      <3>4. Len(Shown) - whole <= 2
        BY <3>1, <3>2, <3>3
      <3>5. QED
        BY <2>3, <3>1, <3>4
    <2>4. QED
      BY <2>2, <2>3
  <1>2. QED
    BY <1>1, StreamInvariant, PTL

\* A result of a tool the client is shown carries the name of its call, shown before: it is
\* looked up in the map of the whole run, and frames are not reordered.
THEOREM StreamToolsNamed == Spec => []ToolsNamed
  <1>1. StreamInv => ToolsNamed
    <2> SUFFICES ASSUME StreamInv
                 PROVE  ToolsNamed
      OBVIOUS
    <2>1. IsSeq(sent) /\ ToolsInv
      BY DEF StreamInv, StreamTypeInv
    <2>2. DOMAIN sent = 1..Len(sent)
      BY <2>1, SeqLen
    <2>3. ASSUME NEW i \in 1..Len(sent), sent[i].type = "tool_result", sent[i].data.id # ""
          PROVE  \E k \in 1..i - 1 : sent[k].type = "tool_call" /\ sent[k].data = sent[i].data
      BY <2>1, <2>3 DEF ToolsInv, CallSent, Has
    <2>4. QED
      BY <2>2, <2>3 DEF ToolsNamed
  <1>2. QED
    BY <1>1, StreamInvariant, PTL

\* The client of a closed stream was told how the turn ended, by a done event or an error,
\* unless the container died inside a frame.
THEOREM StreamTurnAnswered == Spec => []TurnAnswered
  <1>1. StreamInv => TurnAnswered
    <2> SUFFICES ASSUME StreamInv, Closed, ~broken
                 PROVE  \E e \in Range(sent) : e.type \in {"done", "error"}
      BY DEF TurnAnswered
    <2>1. IsSeq(sent) /\ AnswerInv
      BY DEF StreamInv, StreamTypeInv
    <2>2. PICK i \in 1..Len(sent) : sent[i].type \in Final
      BY <2>1 DEF AnswerInv, Closed, Reported
    <2>3. sent[i] \in Range(sent)
      BY <2>1, SeqLen DEF Range
    <2>4. QED
      BY <2>2, <2>3 DEF Final
  <1>2. QED
    BY <1>1, StreamInvariant, PTL

\* What is committed is what the client has seen: the message is made of its events, the
\* bill is that of its done event, and two done events leave nothing behind.
THEOREM StreamKeptAsShown == Spec => []KeptAsShown
  <1>1. StreamInv => KeptAsShown
    <2> SUFFICES ASSUME StreamInv, Closed
                 PROVE  /\ stored.log # <<>> => stored.log = OfType(sent, Content)
                        /\ stored.usage # None =>
                              \E i \in Dones : sent[i].data.usage = stored.usage
                        /\ Cardinality(Dones) = 2 => stored.log = <<>> /\ stored.usage = None
      BY DEF KeptAsShown
    <2>1. IsSeq(sent) /\ DoneInv /\ EventsInv /\ ClosedInv
      BY DEF StreamInv, StreamTypeInv, RecordInv
    <2>2. Dones = DonesIn(sent)
      BY <2>1, SeqLen DEF Dones, DonesIn
    <2>3. stored.log # <<>> => stored.log = OfType(sent, Content)
      BY <2>1 DEF EventsInv
    <2>4. stored.usage # None => \E i \in Dones : sent[i].data.usage = stored.usage
      BY <2>1, <2>2 DEF ClosedInv, Closed
    <2>5. ASSUME Cardinality(Dones) = 2
          PROVE  stored.log = <<>> /\ stored.usage = None
      <3> SUFFICES ASSUME ~Undone
                   PROVE  FALSE
        BY DEF Undone, Closed
      <3>1. \A i, k \in Dones : i = k
        BY <2>1, <2>2 DEF DoneInv
      <3>2. Dones = {} \/ \E i : Dones = {i}
        BY <3>1
      <3>3. Cardinality(Dones) \in {0, 1}
        BY <3>2, FS_EmptySet, FS_Singleton
      <3>4. QED
        BY <2>5, <3>3
    <2>6. QED
      BY <2>3, <2>4, <2>5
  <1>2. QED
    BY <1>1, StreamInvariant, PTL

\* Once a turn is on record, the next one is let in or refused as the client was told.
THEOREM StreamStatusHonest == Spec => []StatusHonest
  <1>1. StreamInv => StatusHonest
    <2> SUFFICES ASSUME StreamInv, Closed, stored.usage # None, NEW e \in Range(sent),
                        e.type = "context_status"
                 PROVE  e.data.can_continue <=> Admits(stored)
      BY DEF StatusHonest
    <2>1. IsSeq(sent) /\ ClosedInv /\ stored.tokens \in Nat
      BY DEF StreamInv, StreamTypeInv, RecordInv
    <2>2. PICK i \in 1..Len(sent) : sent[i] = e
      BY <2>1, SeqLen DEF Range
    <2>3. StatusRight(e.data, stored.tokens) /\ (stored.limit <=> Full(stored.tokens))
      BY <2>1, <2>2 DEF ClosedInv, Closed
    <2>4. Window > 0 /\ (e.data.can_continue <=> ~Full(stored.tokens))
      BY <2>3 DEF StatusRight
    <2>5. Full(stored.tokens) <=> Percent(stored.tokens) >= 95
      BY <2>4 DEF Full
    <2>6. Percent(stored.tokens) \in Int
      BY <2>1, <2>4, StreamAssumption DEF Percent
    <2>7. Admits(stored) <=> ~Full(stored.tokens)
      BY <2>3, <2>5, <2>6 DEF Admits
    <2>8. QED
      BY <2>4, <2>7
  <1>2. QED
    BY <1>1, StreamInvariant, PTL

\* A file the agent was seen to write outside the workspace is copied into it, or its loss
\* is known, before the files are saved.
THEOREM StreamOutsideFilesKept == Spec => []OutsideFilesKept
  <1>1. StreamInv => OutsideFilesKept
    <2> SUFFICES ASSUME StreamInv, host \notin {"stream", "rescue", "undo", "closed"},
                        NEW e \in Range(sent), OutsideCall(e)
                 PROVE  e.data.id \in copied \cup missed
      BY DEF OutsideFilesKept, OutsideCall
    <2>1. IsSeq(sent) /\ OutsideInv /\ host \in {"record", "answer", "end"}
      BY DEF StreamInv, StreamTypeInv
    <2>2. PICK i \in 1..Len(sent) : sent[i] = e
      BY <2>1, SeqLen DEF Range
    <2>3. e.data.id \in external
      BY <2>1, <2>2 DEF OutsideInv, OutsideCall
    <2>4. QED
      BY <2>1, <2>3 DEF OutsideInv
  <1>2. QED
    BY <1>1, StreamInvariant, PTL

-----------------------------------------------------------------------------
(* Images of pages *)

\* A path that holds a page was reported for it; the others were reported for pages of
\* the same number and of a PDF of the same stem.
HeldPages ==
    /\ \A p \in DOMAIN generated : <<p, generated[p]>> \in reported
    /\ \A r \in reported :
         /\ r[1] \in DOMAIN generated
         /\ r[1] = [stem |-> r[2].pdf.stem, page |-> r[2].page]
         /\ r[2] = [pdf |-> r[2].pdf, page |-> r[2].page]

HeldPage(r) == /\ r[1] = [stem |-> r[2].pdf.stem, page |-> r[2].page]
            /\ r[2] = [pdf |-> r[2].pdf, page |-> r[2].page]

LEMMA HeldPagesKept == HeldPages => ImagesKept
  <1> SUFFICES ASSUME HeldPages, NEW r \in reported
               PROVE  \/ generated[r[1]] = r[2]
                      \/ \E q \in reported : q[2].pdf # r[2].pdf /\ q[2].pdf.stem = r[2].pdf.stem
    BY DEF ImagesKept
  <1> DEFINE q == <<r[1], generated[r[1]]>>
  <1>1. q \in reported /\ q[1] = r[1] /\ q[2] = generated[r[1]]
    BY DEF HeldPages
  <1>2. HeldPage(r) /\ HeldPage(q)
    BY <1>1 DEF HeldPages, HeldPage
  <1> HIDE DEF q
  <1>3. r[2].page = q[2].page /\ r[2].pdf.stem = q[2].pdf.stem
    <2>1. [stem |-> r[2].pdf.stem, page |-> r[2].page] = [stem |-> q[2].pdf.stem, page |-> q[2].page]
      BY <1>1, <1>2 DEF HeldPage
    <2>2. ASSUME NEW a, NEW b, NEW c, NEW d,
                 [stem |-> a, page |-> b] = [stem |-> c, page |-> d]
          PROVE  a = c /\ b = d
      <3>1. [stem |-> a, page |-> b].stem = [stem |-> c, page |-> d].stem
        BY <2>2, Zenon
      <3>2. [stem |-> a, page |-> b].page = [stem |-> c, page |-> d].page
        BY <2>2, Zenon
      <3>3. QED
        BY <3>1, <3>2
    <2>3. QED
      BY <2>1, <2>2, Zenon
  <1>4. CASE q[2].pdf = r[2].pdf
    BY <1>1, <1>2, <1>3, <1>4, Zenon DEF HeldPage
  <1>5. CASE q[2].pdf # r[2].pdf
    BY <1>1, <1>3, <1>5
  <1>6. QED
    BY <1>4, <1>5

LEMMA HeldPagesConvert ==
    ASSUME HeldPages, NEW pdf, NEW spec, Convert(pdf, spec)
    PROVE  HeldPages'
  <1> DEFINE asked == ParsedAll(spec, pdf.pages)
             kept == SubSeq(asked, 1, Min({MaxImages, Len(asked)}))
             todo == {k \in 1..Len(kept) : kept[k] \in 1..pdf.pages}
             At(k) == PathOf(pdf, kept[k], k)
             Held(k) == [pdf |-> pdf, page |-> kept[k]]
             paths == {At(k) : k \in todo}
             Chosen(p) == CHOOSE j \in todo : At(j) = p
  <1>1. /\ generated' = [p \in DOMAIN generated \cup paths |->
                          IF p \in paths THEN Held(Chosen(p)) ELSE generated[p]]
        /\ reported' = reported \cup {<<At(k), Held(k)>> : k \in todo}
    BY Zenon DEF Convert
  <1>2. \A k \in todo : /\ At(k) = [stem |-> Held(k).pdf.stem, page |-> Held(k).page]
                        /\ Held(k) = [pdf |-> Held(k).pdf, page |-> Held(k).page]
    <2> HIDE DEF kept, todo
    <2>1. QED
      BY DEF PathOf
  <1>3. \A p \in paths : Chosen(p) \in todo /\ At(Chosen(p)) = p
    <2> HIDE DEF kept, todo, At
    <2>1. QED
      BY Zenon
  <1> HIDE DEF kept, todo, At, Held, Chosen
  <1>4. ASSUME NEW p \in DOMAIN generated'
        PROVE  <<p, generated'[p]>> \in reported'
    <2>1. CASE p \in paths
      <3>1. generated'[p] = Held(Chosen(p))
        BY <1>1, <2>1
      <3>2. <<At(Chosen(p)), Held(Chosen(p))>> \in {<<At(k), Held(k)>> : k \in todo}
        BY <1>3, <2>1
      <3>3. QED
        BY <1>1, <1>3, <2>1, <3>1, <3>2
    <2>2. CASE p \notin paths
      <3>1. p \in DOMAIN generated /\ generated'[p] = generated[p]
        BY <1>1, <2>2
      <3>2. QED
        BY <1>1, <3>1 DEF HeldPages
    <2>3. QED
      BY <2>1, <2>2
  <1>5. ASSUME NEW r \in reported'
        PROVE  /\ r[1] \in DOMAIN generated'
               /\ r[1] = [stem |-> r[2].pdf.stem, page |-> r[2].page]
               /\ r[2] = [pdf |-> r[2].pdf, page |-> r[2].page]
    <2>0. DOMAIN generated' = DOMAIN generated \cup paths
      BY <1>1
    <2>1. CASE r \in reported
      BY <2>0, <2>1 DEF HeldPages
    <2>2. CASE r \notin reported
      <3>1. PICK k \in todo : r = <<At(k), Held(k)>>
        BY <1>1, <2>2
      <3>2. r[1] = At(k) /\ r[2] = Held(k) /\ At(k) \in paths
        BY <3>1
      <3>3. QED
        BY <1>2, <2>0, <3>2
    <2>3. QED
      BY <2>1, <2>2
  <1>6. QED
    BY <1>4, <1>5 DEF HeldPages

LEMMA HeldPagesStep ==
    ASSUME HeldPages, [ToolNext]_toolVars
    PROVE  HeldPages'
  <1>1. CASE UNCHANGED <<generated, reported>>
    BY <1>1 DEF HeldPages
  <1>2. CASE \E pdf \in Pdfs, spec \in Specs : Convert(pdf, spec)
    BY <1>2, HeldPagesConvert
  <1>3. CASE ReadStep
    BY <1>1, <1>3 DEF ReadStep, ReadSheet, ReadDocument, ReadSlides, ReadPdf, ReadSection, Answer
  <1>4. CASE ReadFails \/ Search \/ UNCHANGED toolVars
    BY <1>1, <1>4 DEF ReadFails, Search, toolVars
  <1>5. QED
    BY <1>2, <1>3, <1>4 DEF ToolNext

(***************************************************************************)
(* An image that was reported for a page shows it, unless a PDF of the     *)
(* same name was converted too, for any PDFs and any pages that are asked  *)
(* for in any order (convert_pdf_to_images_handler()).                     *)
(***************************************************************************)
THEOREM ImagesStay == ToolSpec => []ImagesKept
  <1>1. ToolInit => HeldPages
    BY DEF ToolInit, HeldPages
  <1>2. HeldPages /\ [ToolNext]_toolVars => HeldPages'
    BY HeldPagesStep
  <1>3. QED
    BY <1>1, <1>2, HeldPagesKept, PTL DEF ToolSpec

-----------------------------------------------------------------------------
(* Sorted numbers *)

Rising(s) == \A i, j \in 1..Len(s) : i < j => s[i] < s[j]
Lower(s, n) == {s[i] : i \in 1..n}

LEMMA LowerCount ==
    ASSUME NEW s \in Seq(Nat), Rising(s), NEW n \in 0..Len(s)
    PROVE  IsFiniteSet(Lower(s, n)) /\ Cardinality(Lower(s, n)) = n
  <1> DEFINE Good == {k \in Nat : k > Len(s) \/
                        (IsFiniteSet(Lower(s, k)) /\ Cardinality(Lower(s, k)) = k)}
  <1>1. 0 \in Good
    <2>1. Lower(s, 0) = {}
      BY DEF Lower
    <2>2. QED
      BY <2>1, FS_EmptySet
  <1>2. ASSUME NEW k \in Nat, k \in Good
        PROVE  k + 1 \in Good
    <2>0. CASE k + 1 > Len(s)
      BY <2>0
    <2>1. CASE k + 1 <= Len(s)
      <3>1. IsFiniteSet(Lower(s, k)) /\ Cardinality(Lower(s, k)) = k
        BY <1>2, <2>1
      <3>2. Lower(s, k + 1) = Lower(s, k) \cup {s[k + 1]}
        BY <2>1 DEF Lower
      <3>3. s[k + 1] \notin Lower(s, k)
        <4>1. \A i \in 1..k : s[i] < s[k + 1] /\ s[i] \in Nat /\ s[k + 1] \in Nat
          BY <2>1 DEF Rising
        <4>2. QED
          BY <4>1 DEF Lower
      <3>4. /\ IsFiniteSet(Lower(s, k) \cup {s[k + 1]})
            /\ Cardinality(Lower(s, k) \cup {s[k + 1]}) =
                 IF s[k + 1] \in Lower(s, k) THEN Cardinality(Lower(s, k))
                 ELSE Cardinality(Lower(s, k)) + 1
        BY <3>1, FS_AddElement
      <3>5. IsFiniteSet(Lower(s, k + 1)) /\ Cardinality(Lower(s, k + 1)) = k + 1
        BY <3>1, <3>2, <3>3, <3>4
      <3>6. QED
        BY <3>5
    <2>2. QED
      BY <2>0, <2>1
  <1>3. n \in Nat
    OBVIOUS
  <1>4. n \in Good
    <2> HIDE DEF Good
    <2>1. QED
      BY <1>1, <1>2, <1>3, SetInduction
  <1>5. QED
    BY <1>4

LEMMA RisingSorted ==
    ASSUME NEW s \in Seq(Nat), Rising(s)
    PROVE  Sorted(Range(s)) = s
  <1> DEFINE S == Range(s)
             Before(n) == {m \in S : m < n}
  <1>1. S = Lower(s, Len(s)) /\ Len(s) \in Nat
    BY DEF Range, Lower
  <1>2. Cardinality(S) = Len(s)
    BY <1>1, LowerCount
  <1>3. \A i \in 1..Len(s) : s[i] \in S /\ Cardinality(Before(s[i])) = i - 1
    <2> SUFFICES ASSUME NEW i \in 1..Len(s)
                 PROVE  s[i] \in S /\ Cardinality(Before(s[i])) = i - 1
      OBVIOUS
    <2>1. \A j \in 1..Len(s) : s[j] < s[i] <=> j < i
      <3> SUFFICES ASSUME NEW j \in 1..Len(s)
                   PROVE  s[j] < s[i] <=> j < i
        OBVIOUS
      <3>1. s[i] \in Nat /\ s[j] \in Nat
        OBVIOUS
      <3>2. (i < j => s[i] < s[j]) /\ (j < i => s[j] < s[i])
        BY DEF Rising
      <3>3. QED
        BY <3>1, <3>2
    <2>2. Before(s[i]) = Lower(s, i - 1)
      BY <1>1, <2>1 DEF Lower
    <2>3. Cardinality(Lower(s, i - 1)) = i - 1
      BY LowerCount
    <2>4. QED
      BY <1>1, <2>2, <2>3 DEF Lower
  <1>4. \A n \in S : \E i \in 1..Len(s) : n = s[i]
    BY DEF Range
  <1> HIDE DEF S, Before
  <1>5. \A i \in 1..Len(s) : (CHOOSE n \in S : Cardinality(Before(n)) = i - 1) = s[i]
    <2> SUFFICES ASSUME NEW i \in 1..Len(s)
                 PROVE  (CHOOSE n \in S : Cardinality(Before(n)) = i - 1) = s[i]
      OBVIOUS
    <2> DEFINE c == CHOOSE n \in S : Cardinality(Before(n)) = i - 1
    <2>1. c \in S /\ Cardinality(Before(c)) = i - 1
      BY <1>3, Zenon
    <2>2. PICK j \in 1..Len(s) : c = s[j]
      BY <1>4, <2>1
    <2> HIDE DEF c
    <2>3. Cardinality(Before(c)) = j - 1
      BY <1>3, <2>2
    <2>4. j = i
      BY <2>1, <2>3
    <2>5. QED
      BY <2>2, <2>4 DEF c
  <1>6. Sorted(S) = [i \in 1..Len(s) |-> CHOOSE n \in S : Cardinality(Before(n)) = i - 1]
    BY <1>2 DEF Sorted, Before
  <1>7. Sorted(S) = [i \in 1..Len(s) |-> s[i]]
    BY <1>5, <1>6
  <1>8. QED
    BY <1>7 DEF S

LEMMA RisingAdd ==
    ASSUME NEW s \in Seq(Nat), Rising(s), NEW n \in Nat, \A i \in 1..Len(s) : s[i] < n
    PROVE  /\ Append(s, n) \in Seq(Nat) /\ Rising(Append(s, n))
           /\ Range(Append(s, n)) = Range(s) \cup {n}
  <1> DEFINE t == Append(s, n)
  <1>1. /\ t \in Seq(Nat) /\ Len(t) = Len(s) + 1 /\ t[Len(s) + 1] = n /\ Len(s) \in Nat
        /\ \A i \in 1..Len(s) : t[i] = s[i]
        /\ DOMAIN s = 1..Len(s) /\ DOMAIN t = 1..Len(t)
    OBVIOUS
  <1> HIDE DEF t
  <1>2. Rising(t)
    <2> SUFFICES ASSUME NEW i \in 1..Len(t), NEW j \in 1..Len(t), i < j
                 PROVE  t[i] < t[j]
      BY DEF Rising
    <2>1. i \in 1..Len(s) /\ t[i] = s[i] /\ s[i] < n
      BY <1>1
    <2>2. CASE j = Len(s) + 1
      BY <1>1, <2>1, <2>2
    <2>3. CASE j # Len(s) + 1
      <3>1. j \in 1..(Len(s) + 1) /\ Len(s) \in Nat
        BY <1>1
      <3>2. j \in 1..Len(s)
        BY <2>3, <3>1
      <3>3. t[j] = s[j]
        BY <1>1, <3>2
      <3>4. QED
        BY <2>1, <3>2, <3>3 DEF Rising
    <2>4. QED
      BY <2>2, <2>3
  <1>3. Range(t) = Range(s) \cup {n}
    BY <1>1 DEF Range
  <1>4. QED
    BY <1>1, <1>2, <1>3 DEF t

LEMMA RisingRange ==
    ASSUME NEW s \in Seq(Nat)
    PROVE  /\ \A i \in 1..Len(s) : s[i] \in Range(s)
           /\ \A n \in Range(s) : \E i \in 1..Len(s) : n = s[i]
  BY DEF Range

LEMMA Ordered ==
    ASSUME NEW S, NEW n \in Nat, S \subseteq 1..n
    PROVE  \E s \in Seq(Nat) : Rising(s) /\ Range(s) = S
  <1> DEFINE Good == {k \in Nat : \E s \in Seq(Nat) : Rising(s) /\ Range(s) = S \cap (1..k)}
  <1>1. 0 \in Good
    <2>1. <<>> \in Seq(Nat) /\ Rising(<<>>) /\ Range(<<>>) = S \cap (1..0)
      BY DEF Rising, Range
    <2>2. QED
      BY <2>1
  <1>2. ASSUME NEW k \in Nat, k \in Good
        PROVE  k + 1 \in Good
    <2>1. PICK s \in Seq(Nat) : Rising(s) /\ Range(s) = S \cap (1..k)
      BY <1>2
    <2>2. CASE k + 1 \in S
      <3>1. \A i \in 1..Len(s) : s[i] < k + 1
        BY <2>1, RisingRange
      <3>2. /\ Append(s, k + 1) \in Seq(Nat) /\ Rising(Append(s, k + 1))
            /\ Range(Append(s, k + 1)) = Range(s) \cup {k + 1}
        BY <2>1, <3>1, RisingAdd
      <3>3. Range(s) \cup {k + 1} = S \cap (1..k + 1)
        BY <2>1, <2>2
      <3>4. \E t \in Seq(Nat) : Rising(t) /\ Range(t) = S \cap (1..k + 1)
        BY <3>2, <3>3, Zenon
      <3>5. QED
        BY <3>4
    <2>3. CASE k + 1 \notin S
      <3>1. S \cap (1..k) = S \cap (1..k + 1)
        BY <2>3
      <3>2. QED
        BY <2>1, <3>1
    <2>4. QED
      BY <2>2, <2>3
  <1>3. n \in Good
    <2> HIDE DEF Good
    <2>1. QED
      BY <1>1, <1>2, SetInduction
  <1>4. S \cap (1..n) = S
    OBVIOUS
  <1>5. QED
    BY <1>3, <1>4

LEMMA NumbersRange ==
    ASSUME NEW a \in Nat, NEW b \in Nat
    PROVE  /\ Numbers(a, b) \in Seq(Nat) /\ Rising(Numbers(a, b))
           /\ Range(Numbers(a, b)) = a..b
           /\ Len(Numbers(a, b)) = IF b < a THEN 0 ELSE b - a + 1
  <1> DEFINE n == IF b < a THEN 0 ELSE b - a + 1
             s == [i \in 1..n |-> a + i - 1]
  <1>1. n \in Nat /\ Numbers(a, b) = s
    BY DEF Numbers
  <1>2. /\ s \in Seq(Nat) /\ Len(s) = n /\ DOMAIN s = 1..n
        /\ \A i \in 1..n : s[i] = a + i - 1
    OBVIOUS
  <1>3. Rising(s)
    BY <1>2 DEF Rising
  <1>4. Range(s) = a..b
    <2> HIDE DEF s
    <2>1. \A i \in 1..n : s[i] \in a..b
      BY <1>2
    <2>2. ASSUME NEW k \in a..b
          PROVE  \E i \in 1..n : s[i] = k
      <3>1. k - a + 1 \in 1..n /\ s[k - a + 1] = k
        <4>1. k - a + 1 \in 1..n /\ a + (k - a + 1) - 1 = k
          OBVIOUS
        <4>2. s[k - a + 1] = a + (k - a + 1) - 1
          BY <1>2, <4>1
        <4>3. QED
          BY <4>1, <4>2
      <3>2. QED
        BY <3>1
    <2>3. QED
      BY <1>2, <2>1, <2>2 DEF Range
  <1>5. QED
    BY <1>1, <1>2, <1>3, <1>4

LEMMA SortedNumbers ==
    ASSUME NEW a \in Nat, NEW b \in Nat
    PROVE  Sorted(a..b) = Numbers(a, b)
  <1>1. /\ Numbers(a, b) \in Seq(Nat) /\ Rising(Numbers(a, b))
        /\ Range(Numbers(a, b)) = a..b
    BY NumbersRange
  <1>2. Sorted(Range(Numbers(a, b))) = Numbers(a, b)
    BY <1>1, RisingSorted
  <1>3. QED
    BY <1>1, <1>2, Zenon

LEMMA NumbersNone ==
    ASSUME NEW a \in Nat, NEW b \in Int, b < a
    PROVE  Numbers(a, b) = <<>>
  BY DEF Numbers

\* What is shown before and what is shown next.
LEMMA NumbersJoin ==
    ASSUME NEW a \in Nat, NEW b \in Nat, NEW c \in Nat, a <= b, b <= c + 1
    PROVE  Numbers(a, b - 1) \o Numbers(b, c) = Numbers(a, c)
  <1>1. Numbers(a, b - 1) = [i \in 1..(b - a) |-> a + i - 1]
    BY DEF Numbers
  <1>2. Numbers(b, c) = [i \in 1..(c - b + 1) |-> b + i - 1]
    BY DEF Numbers
  <1>3. Numbers(a, c) = [i \in 1..(c - a + 1) |-> a + i - 1]
    BY DEF Numbers
  <1>4. ASSUME NEW m \in Nat, NEW n \in Nat
        PROVE  [i \in 1..m |-> a + i - 1] \o [i \in 1..n |-> (a + m) + i - 1]
                 = [i \in 1..(m + n) |-> a + i - 1]
    OBVIOUS
  <1>5. /\ b - a \in Nat /\ c - b + 1 \in Nat /\ a + (b - a) = b
        /\ (b - a) + (c - b + 1) = c - a + 1
    OBVIOUS
  <1>6. [i \in 1..(b - a) |-> a + i - 1] \o [i \in 1..(c - b + 1) |-> (a + (b - a)) + i - 1]
          = [i \in 1..((b - a) + (c - b + 1)) |-> a + i - 1]
    BY <1>4, <1>5
  <1>7. QED
    BY <1>1, <1>2, <1>3, <1>5, <1>6

-----------------------------------------------------------------------------
(* Recursive functions *)

Stepwise(f, v, G, n) == f[0] = v /\ \A i \in 0..n - 1 : f[i + 1] = G[<<i + 1, f[i]>>]

LEMMA Iterated ==
    ASSUME NEW V, NEW v \in V, NEW n \in Nat, NEW G \in [(1..n) \X V -> V]
    PROVE  \E f \in [0..n -> V] : Stepwise(f, v, G, n)
  <1> DEFINE Good == {k \in Nat : k > n \/ \E f \in [0..k -> V] : Stepwise(f, v, G, k)}
  <1>1. 0 \in Good
    <2> DEFINE f == [i \in 0..0 |-> v]
    <2>1. f \in [0..0 -> V] /\ Stepwise(f, v, G, 0)
      BY DEF Stepwise
    <2>2. QED
      BY <2>1
  <1>2. ASSUME NEW k \in Nat, k \in Good
        PROVE  k + 1 \in Good
    <2>0. CASE k + 1 > n
      BY <2>0
    <2>1. CASE k + 1 <= n
      <3>1. PICK f \in [0..k -> V] : Stepwise(f, v, G, k)
        BY <1>2, <2>1
      <3> DEFINE g == [i \in 0..k + 1 |-> IF i <= k THEN f[i] ELSE G[<<k + 1, f[k]>>]]
      <3>2. G[<<k + 1, f[k]>>] \in V
        <4>1. <<k + 1, f[k]>> \in (1..n) \X V
          BY <2>1
        <4>2. QED
          BY <4>1
      <3>3. g \in [0..k + 1 -> V]
        BY <3>2
      <3>4. /\ \A i \in 0..k : g[i] = f[i]
            /\ g[k + 1] = G[<<k + 1, f[k]>>]
        OBVIOUS
      <3> HIDE DEF g
      <3>5. ASSUME NEW i \in 0..(k + 1) - 1
            PROVE  g[i + 1] = G[<<i + 1, g[i]>>]
        <4>1. CASE i = k
          BY <3>4, <4>1
        <4>2. CASE i # k
          <5>1. i \in 0..k - 1 /\ i \in 0..k /\ i + 1 \in 0..k
            BY <4>2
          <5>2. f[i + 1] = G[<<i + 1, f[i]>>]
            BY <3>1, <5>1 DEF Stepwise
          <5>3. QED
            BY <3>4, <5>1, <5>2
        <4>3. QED
          BY <4>1, <4>2
      <3>6. Stepwise(g, v, G, k + 1)
        BY <3>1, <3>4, <3>5 DEF Stepwise
      <3>7. \E h \in [0..k + 1 -> V] : Stepwise(h, v, G, k + 1)
        BY <3>3, <3>6
      <3>8. QED
        BY <3>7
    <2>2. QED
      BY <2>0, <2>1
  <1>3. n \in Good
    <2> HIDE DEF Good
    <2>1. QED
      BY <1>1, <1>2, SetInduction
  <1>4. QED
    BY <1>3

-----------------------------------------------------------------------------
(* Searching *)

LEMMA FoundSteps ==
    ASSUME NEW T, NEW places \in Seq(T)
    PROVE  \E f : /\ FoundIn(places) = f[Len(places)] /\ f[0] = <<>>
                  /\ \A i \in 0..Len(places) - 1 : f[i + 1] = AddHit(f[i], places[i + 1])
  <1> DEFINE n == Len(places)
             V == Seq(T)
             G == [x \in (1..n) \X V |-> AddHit(x[2], places[x[1]])]
             Eq(f) == f = [i \in 0..n |-> IF i = 0 THEN <<>> ELSE AddHit(f[i - 1], places[i])]
             g == CHOOSE f : Eq(f)
  <1>1. n \in Nat /\ <<>> \in V
    OBVIOUS
  <1>2. G \in [(1..n) \X V -> V]
    <2> SUFFICES ASSUME NEW x \in (1..n) \X V
                 PROVE  AddHit(x[2], places[x[1]]) \in V
      OBVIOUS
    <2>1. x[2] \in Seq(T) /\ places[x[1]] \in T
      OBVIOUS
    <2>2. QED
      BY <2>1 DEF AddHit
  <1>3. \A i \in 1..n, s \in V : G[<<i, s>>] = AddHit(s, places[i])
    OBVIOUS
  <1> HIDE DEF G, n, V
  <1>4. PICK f \in [0..n -> V] : Stepwise(f, <<>>, G, n)
    BY <1>1, <1>2, Iterated
  <1>5. Eq(f)
    <2>1. ASSUME NEW i \in 0..n
          PROVE  f[i] = IF i = 0 THEN <<>> ELSE AddHit(f[i - 1], places[i])
      <3>1. CASE i = 0
        BY <1>4, <3>1 DEF Stepwise
      <3>2. CASE i # 0
        <4>1. i - 1 \in 0..n - 1 /\ (i - 1) + 1 = i /\ i \in 1..n /\ f[i - 1] \in V
          BY <1>1, <3>2
        <4>2. f[(i - 1) + 1] = G[<<(i - 1) + 1, f[i - 1]>>]
          BY <1>4, <4>1 DEF Stepwise
        <4>3. f[i] = AddHit(f[i - 1], places[i])
          BY <1>3, <4>1, <4>2
        <4>4. QED
          BY <3>2, <4>3
      <3>3. QED
        BY <3>1, <3>2
    <2>2. QED
      BY <2>1
  <1>6. Eq(g)
    BY <1>5, Zenon
  <1>7. FoundIn(places) = g[n]
    BY Zenon DEF FoundIn, n
  <1> HIDE DEF g
  <1>8. g[0] = <<>>
    BY <1>1, <1>6
  <1>9. ASSUME NEW i \in 0..n - 1
        PROVE  g[i + 1] = AddHit(g[i], places[i + 1])
    <2>1. i + 1 \in 0..n /\ i + 1 # 0 /\ (i + 1) - 1 = i
      BY <1>1
    <2>2. g[i + 1] = AddHit(g[(i + 1) - 1], places[i + 1])
      BY <1>6, <2>1
    <2>3. QED
      BY <2>1, <2>2
  <1>10. QED
    BY <1>7, <1>8, <1>9 DEF n

\* The first so many of the places with the numbers in all.
FirstHits(places, all) ==
    [k \in 1..(IF Len(all) < MaxHits THEN Len(all) ELSE MaxHits) |-> places[all[k]]]
MatchesTo(places, n) == {i \in 1..n : places[i].match}

LEMMA FirstHitsMore ==
    ASSUME NEW T, NEW places \in Seq(T), NEW n \in 1..Len(places),
           NEW all \in Seq(Nat), \A k \in 1..Len(all) : all[k] \in 1..Len(places),
           places[n].match
    PROVE  AddHit(FirstHits(places, all), places[n]) = FirstHits(places, Append(all, n))
  <1> DEFINE more == Append(all, n)
             least == IF Len(all) < MaxHits THEN Len(all) ELSE MaxHits
  <1>1. /\ Len(all) \in Nat /\ Len(more) = Len(all) + 1 /\ more[Len(all) + 1] = n
        /\ \A k \in 1..Len(all) : more[k] = all[k]
    OBVIOUS
  <1> HIDE DEF more
  <1>2. MaxHits \in Nat \ {0}
    BY SizesAssumption
  <1>3. /\ FirstHits(places, all) \in Seq(T) /\ Len(FirstHits(places, all)) = least
        /\ \A k \in 1..least : FirstHits(places, all)[k] = places[all[k]]
    <2>1. least \in Nat /\ least <= Len(all)
      BY <1>1, <1>2
    <2>2. \A k \in 1..least : places[all[k]] \in T
      <3> SUFFICES ASSUME NEW k \in 1..least
                   PROVE  places[all[k]] \in T
        OBVIOUS
      <3>1. k \in 1..Len(all)
        BY <1>1, <2>1
      <3>2. QED
        BY <3>1
    <2>3. FirstHits(places, all) = [k \in 1..least |-> places[all[k]]]
      BY DEF FirstHits
    <2> HIDE DEF least
    <2>4. QED
      BY <2>1, <2>2, <2>3
  <1>4. CASE Len(all) < MaxHits
    <2>1. AddHit(FirstHits(places, all), places[n]) = Append(FirstHits(places, all), places[n])
      BY <1>3, <1>4 DEF AddHit
    <2>2. FirstHits(places, more) = [k \in 1..Len(all) + 1 |-> places[more[k]]]
      BY <1>1, <1>2, <1>4 DEF FirstHits
    <2>3. least = Len(all)
      BY <1>4
    <2> DEFINE a == Append(FirstHits(places, all), places[n])
    <2>4. /\ a \in Seq(T) /\ Len(a) = Len(all) + 1 /\ a[Len(all) + 1] = places[n]
          /\ \A k \in 1..Len(all) : a[k] = FirstHits(places, all)[k]
      BY <1>3, <2>3
    <2> HIDE DEF a, least
    <2>5. a = [k \in 1..Len(all) + 1 |-> a[k]]
      BY <2>4
    <2>6. \A k \in 1..Len(all) + 1 : a[k] = places[more[k]]
      <3> SUFFICES ASSUME NEW k \in 1..Len(all) + 1
                   PROVE  a[k] = places[more[k]]
        OBVIOUS
      <3>1. CASE k = Len(all) + 1
        BY <1>1, <2>4, <3>1
      <3>2. CASE k # Len(all) + 1
        <4>1. k \in 1..Len(all)
          BY <1>1, <3>2
        <4>2. QED
          BY <1>1, <1>3, <2>3, <2>4, <4>1
      <3>3. QED
        BY <3>1, <3>2
    <2>7. a = FirstHits(places, more)
      BY <2>2, <2>5, <2>6
    <2>8. QED
      BY <2>1, <2>7 DEF a, more
  <1>5. CASE ~(Len(all) < MaxHits)
    <2>1. AddHit(FirstHits(places, all), places[n]) = FirstHits(places, all)
      BY <1>2, <1>3, <1>5 DEF AddHit
    <2>2. FirstHits(places, more) = [k \in 1..MaxHits |-> places[more[k]]]
      BY <1>1, <1>2, <1>5 DEF FirstHits
    <2>3. FirstHits(places, all) = [k \in 1..MaxHits |-> places[all[k]]]
      BY <1>1, <1>2, <1>5 DEF FirstHits
    <2>4. \A k \in 1..MaxHits : more[k] = all[k]
      BY <1>1, <1>2, <1>5
    <2>5. QED
      BY <2>1, <2>2, <2>3, <2>4 DEF more
  <1>6. QED
    BY <1>4, <1>5

LEMMA FoundFirst ==
    ASSUME NEW T, NEW places \in Seq(T)
    PROVE  FoundIn(places) = FirstHits(places, Matches(places))
  <1> DEFINE n == Len(places)
  <1>0. n \in Nat
    OBVIOUS
  <1>1. PICK f : /\ FoundIn(places) = f[n] /\ f[0] = <<>>
                 /\ \A i \in 0..n - 1 : f[i + 1] = AddHit(f[i], places[i + 1])
    BY FoundSteps
  <1> DEFINE Right(k, s) == /\ Rising(s) /\ Range(s) = MatchesTo(places, k)
                            /\ f[k] = FirstHits(places, s)
             Good == {k \in Nat : k > n \/ \E s \in Seq(Nat) : Right(k, s)}
  <1>2. 0 \in Good
    <2>1. <<>> \in Seq(Nat) /\ Len(<<>>) = 0
      OBVIOUS
    <2>2. Rising(<<>>) /\ Range(<<>>) = MatchesTo(places, 0)
      BY DEF Rising, Range, MatchesTo
    <2>3. FirstHits(places, <<>>) = <<>>
      <3>1. 0 < MaxHits
        BY SizesAssumption
      <3>2. QED
        BY <2>1, <3>1 DEF FirstHits
    <2>4. Right(0, <<>>)
      BY <1>1, <2>2, <2>3
    <2> HIDE DEF Right
    <2>5. QED
      BY <2>1, <2>4
  <1>3. ASSUME NEW k \in Nat, k \in Good
        PROVE  k + 1 \in Good
    <2>0. CASE k + 1 > n
      BY <2>0
    <2>1. CASE k + 1 <= n
      <3>1. PICK s \in Seq(Nat) : Right(k, s)
        <4> HIDE DEF Right
        <4>1. QED
          BY <1>0, <1>3, <2>1
      <3>2. f[k + 1] = AddHit(f[k], places[k + 1])
        <4>1. k \in 0..n - 1
          BY <1>0, <2>1
        <4>2. QED
          BY <1>1, <4>1
      <3>3. \A i \in 1..Len(s) : s[i] \in 1..k
        BY <3>1, RisingRange DEF MatchesTo
      <3>4. \E t \in Seq(Nat) : Right(k + 1, t)
        <4>1. CASE places[k + 1].match
          <5>1. /\ Append(s, k + 1) \in Seq(Nat) /\ Rising(Append(s, k + 1))
                /\ Range(Append(s, k + 1)) = Range(s) \cup {k + 1}
            <6>1. \A i \in 1..Len(s) : s[i] < k + 1
              BY <3>3
            <6>2. QED
              BY <3>1, <6>1, RisingAdd
          <5>2. Range(s) \cup {k + 1} = MatchesTo(places, k + 1)
            BY <3>1, <4>1 DEF MatchesTo
          <5>3. AddHit(FirstHits(places, s), places[k + 1]) = FirstHits(places, Append(s, k + 1))
            <6>1. k + 1 \in 1..Len(places) /\ \A i \in 1..Len(s) : s[i] \in 1..Len(places)
              BY <1>0, <2>1, <3>3
            <6>2. QED
              BY <4>1, <6>1, FirstHitsMore
          <5>4. Right(k + 1, Append(s, k + 1))
            BY <3>1, <3>2, <5>1, <5>2, <5>3, Zenon
          <5> HIDE DEF Right
          <5>5. QED
            BY <5>1, <5>4
        <4>2. CASE ~places[k + 1].match
          <5>1. f[k + 1] = f[k]
            BY <3>2, <4>2 DEF AddHit
          <5>2. MatchesTo(places, k + 1) = MatchesTo(places, k)
            BY <4>2 DEF MatchesTo
          <5>3. Right(k + 1, s)
            BY <3>1, <5>1, <5>2, Zenon
          <5> HIDE DEF Right
          <5>4. QED
            BY <5>3
        <4>3. QED
          BY <4>1, <4>2
      <3> HIDE DEF Right
      <3>5. QED
        BY <3>4
    <2>2. QED
      BY <2>0, <2>1
  <1>4. n \in Good
    <2> HIDE DEF Good
    <2>1. QED
      BY <1>0, <1>2, <1>3, SetInduction
  <1>5. PICK s \in Seq(Nat) : Right(n, s)
    <2> HIDE DEF Right
    <2>1. QED
      BY <1>0, <1>4
  <1>6. Matches(places) = s
    <2>1. Sorted(Range(s)) = s
      BY <1>5, RisingSorted
    <2>2. QED
      BY <1>5, <2>1, Zenon DEF Matches, MatchesTo
  <1>7. QED
    BY <1>1, <1>5, <1>6, Zenon

LEMMA FlattenSteps ==
    ASSUME NEW T, NEW seqs \in Seq(Seq(T)), seqs # <<>>
    PROVE  \E f : /\ FlattenSeq(seqs) = f[Len(seqs)] /\ f[1] = seqs[1]
                  /\ \A i \in 1..Len(seqs) - 1 : f[i + 1] = f[i] \o seqs[i + 1]
  <1> DEFINE n == Len(seqs)
             V == Seq(T)
             G == [x \in (1..n) \X V |-> x[2] \o seqs[x[1]]]
             Eq(f) == f = [i \in 1..n |-> IF i = 1 THEN seqs[i] ELSE f[i - 1] \o seqs[i]]
             g == CHOOSE f : Eq(f)
  <1>1. n \in Nat \ {0} /\ <<>> \in V /\ \A i \in 1..n : seqs[i] \in V
    OBVIOUS
  <1>2. G \in [(1..n) \X V -> V]
    <2> SUFFICES ASSUME NEW x \in (1..n) \X V
                 PROVE  x[2] \o seqs[x[1]] \in V
      OBVIOUS
    <2>1. x[2] \in Seq(T) /\ seqs[x[1]] \in Seq(T)
      OBVIOUS
    <2>2. QED
      BY <2>1
  <1>3. \A i \in 1..n, s \in V : G[<<i, s>>] = s \o seqs[i]
    OBVIOUS
  <1>4. \A s \in V : <<>> \o s = s
    OBVIOUS
  <1> HIDE DEF G, n, V
  <1>5. PICK f \in [0..n -> V] : Stepwise(f, <<>>, G, n)
    BY <1>1, <1>2, Iterated
  <1> DEFINE h == [i \in 1..n |-> f[i]]
  <1>6. Eq(h)
    <2>1. ASSUME NEW i \in 1..n
          PROVE  h[i] = IF i = 1 THEN seqs[i] ELSE h[i - 1] \o seqs[i]
      <3>1. i - 1 \in 0..n - 1 /\ (i - 1) + 1 = i /\ f[i - 1] \in V
        BY <1>1
      <3>2. f[(i - 1) + 1] = G[<<(i - 1) + 1, f[i - 1]>>]
        BY <1>5, <3>1 DEF Stepwise
      <3>3. f[i] = f[i - 1] \o seqs[i]
        BY <1>3, <3>1, <3>2
      <3>4. CASE i = 1
        <4>1. f[i - 1] = <<>>
          BY <1>5, <3>4 DEF Stepwise
        <4>2. f[i] = seqs[i]
          BY <1>1, <1>4, <3>3, <4>1
        <4>3. QED
          BY <3>4, <4>2
      <3>5. CASE i # 1
        <4>1. i - 1 \in 1..n
          BY <1>1, <3>5
        <4>2. QED
          BY <3>3, <3>5, <4>1
      <3>6. QED
        BY <3>4, <3>5
    <2> HIDE DEF h
    <2>2. h = [i \in 1..n |-> h[i]]
      BY DEF h
    <2>3. QED
      BY <2>1, <2>2
  <1> HIDE DEF h
  <1>7. Eq(g)
    BY <1>6, Zenon
  <1>8. FlattenSeq(seqs) = g[n]
    <2>1. Len(seqs) # 0
      BY <1>1 DEF n
    <2>2. QED
      BY <2>1, Zenon DEF FlattenSeq, n
  <1> HIDE DEF g
  <1>9. g[1] = seqs[1]
    BY <1>1, <1>7
  <1>10. ASSUME NEW i \in 1..n - 1
         PROVE  g[i + 1] = g[i] \o seqs[i + 1]
    <2>1. i + 1 \in 1..n /\ i + 1 # 1 /\ (i + 1) - 1 = i
      BY <1>1
    <2>2. g[i + 1] = g[(i + 1) - 1] \o seqs[i + 1]
      BY <1>7, <2>1
    <2>3. QED
      BY <2>1, <2>2
  <1>11. QED
    BY <1>8, <1>9, <1>10 DEF n

LEMMA FlattenSeqs ==
    ASSUME NEW T, NEW seqs \in Seq(Seq(T))
    PROVE  FlattenSeq(seqs) \in Seq(T)
  <1>1. CASE seqs = <<>>
    <2>1. FlattenSeq(seqs) = <<>>
      BY <1>1 DEF FlattenSeq
    <2>2. <<>> \in Seq(T)
      OBVIOUS
    <2>3. QED
      BY <2>1, <2>2
  <1>2. CASE seqs # <<>>
    <2> DEFINE n == Len(seqs)
    <2>1. PICK f : /\ FlattenSeq(seqs) = f[n] /\ f[1] = seqs[1]
                   /\ \A i \in 1..n - 1 : f[i + 1] = f[i] \o seqs[i + 1]
      BY <1>2, FlattenSteps
    <2>2. n \in Nat \ {0} /\ \A i \in 1..n : seqs[i] \in Seq(T)
      BY <1>2
    <2> HIDE DEF n
    <2> DEFINE Good == {k \in Nat : k = 0 \/ k > n \/ f[k] \in Seq(T)}
    <2>3. ASSUME NEW k \in Nat, k \in Good
          PROVE  k + 1 \in Good
      <3>0. CASE k + 1 > n
        BY <3>0
      <3>1. CASE k = 0
        BY <2>1, <2>2, <3>1
      <3>2. CASE k # 0 /\ k + 1 <= n
        <4>1. f[k] \in Seq(T) /\ seqs[k + 1] \in Seq(T) /\ k \in 1..n - 1
          BY <2>2, <2>3, <3>2
        <4>2. f[k + 1] = f[k] \o seqs[k + 1]
          BY <2>1, <4>1
        <4>3. f[k + 1] \in Seq(T)
          BY <4>1, <4>2
        <4>4. QED
          BY <4>3
      <3>3. QED
        BY <2>2, <3>0, <3>1, <3>2
    <2>4. n \in Good
      <3>1. 0 \in Good /\ n \in Nat
        BY <2>2
      <3> HIDE DEF Good
      <3>2. QED
        BY <2>3, <3>1, SetInduction
    <2>5. QED
      BY <2>1, <2>2, <2>4
  <1>3. QED
    BY <1>1, <1>2

LEMMA FileKinds ==
    ASSUME file \in Files
    PROVE  \/ file \in Sheet /\ file.kind = "sheet"
           \/ file \in Document /\ file.kind = "document"
           \/ file \in Deck /\ file.kind = "slides"
           \/ file \in PdfFile /\ file.kind = "pdf"
  <1>1. file \in Sheet \cup Document \cup Deck \cup PdfFile
    BY FilesAssumption
  <1>2. file \in Sheet => file.kind = "sheet"
    BY DEF Sheet
  <1>3. file \in Document => file.kind = "document"
    BY DEF Document
  <1>4. file \in Deck => file.kind = "slides"
    BY DEF Deck
  <1>5. file \in PdfFile => file.kind = "pdf"
    BY DEF PdfFile
  <1>6. QED
    BY <1>1, <1>2, <1>3, <1>4, <1>5

LEMMA PlacesSeq ==
    ASSUME file \in Files
    PROVE  \E T : Places \in Seq(T)
  <1>1. CASE file \in Sheet /\ file.kind = "sheet"
    <2> DEFINE At(i) == LET r == file.used[1] + i - 1 IN Place("row", r, r \in file.match)
               n == file.used[2] - file.used[1] + 1
               s == [i \in 1..n |-> At(i)]
    <2>1. file.used[1] \in Nat /\ file.used[2] \in Nat
      BY <1>1 DEF Sheet, Area
    <2>2. Places = s
      BY <1>1, Zenon DEF Places
    <2> HIDE DEF At
    <2>3. CASE n \in Nat
      <3> HIDE DEF n
      <3>1. s \in Seq({At(i) : i \in 1..n})
        BY <2>3
      <3>2. QED
        BY <2>2, <3>1
    <2>4. CASE n \notin Nat
      <3>1. 1..n = {}
        BY <2>1, <2>4
      <3> HIDE DEF n
      <3>2. s = <<>>
        BY <3>1
      <3> HIDE DEF s
      <3>3. <<>> \in Seq({})
        OBVIOUS
      <3>4. QED
        BY <2>2, <3>2, <3>3
    <2>5. QED
      BY <2>3, <2>4
  <1>2. CASE file \in Document /\ file.kind = "document"
    <2> DEFINE P(i) == Place("para", i, file.paras[i].match)
               R(i) == Place("table", i, file.tables[i])
               m == Len(file.paras)
               n == Len(file.tables)
               T == {P(i) : i \in 1..m} \cup {R(i) : i \in 1..n}
    <2>1. m \in Nat /\ n \in Nat
      BY <1>2 DEF Document
    <2>2. Places = [i \in 1..m |-> P(i)] \o [i \in 1..n |-> R(i)]
      BY <1>2 DEF Places
    <2> HIDE DEF P, R, m, n
    <2>3. [i \in 1..m |-> P(i)] \in Seq(T) /\ [i \in 1..n |-> R(i)] \in Seq(T)
      BY <2>1
    <2> HIDE DEF T
    <2>4. ASSUME NEW a \in Seq(T), NEW b \in Seq(T)
          PROVE  a \o b \in Seq(T)
      OBVIOUS
    <2>5. Places \in Seq(T)
      BY <2>2, <2>3, <2>4, Zenon
    <2>6. QED
      BY <2>5
  <1>3. CASE file \in Deck /\ file.kind = "slides"
    <2> DEFINE At(i) == LET s == file.slides[i] IN
                 <<Place("title", i, s.title), Place("text", i, s.title \/ s.text), Place("notes", i, s.notes)>>
               m == Len(file.slides)
               T == UNION {Range(At(i)) : i \in 1..m}
               seqs == [i \in 1..m |-> At(i)]
    <2>1. m \in Nat
      BY <1>3 DEF Deck
    <2>2. Places = FlattenSeq(seqs)
      BY <1>3 DEF Places
    <2>3. \A i \in 1..m : At(i) \in Seq(T)
      <3> SUFFICES ASSUME NEW i \in 1..m
                   PROVE  At(i) \in Seq(T)
        OBVIOUS
      <3>1. Range(At(i)) \subseteq T
        OBVIOUS
      <3>2. ASSUME NEW a, NEW b, NEW c
            PROVE  <<a, b, c>> \in Seq({a, b, c}) /\ Range(<<a, b, c>>) = {a, b, c}
        BY DEF Range
      <3>3. At(i) \in Seq(Range(At(i)))
        BY <3>2
      <3> HIDE DEF At, T
      <3>4. QED
        BY <3>1, <3>3
    <2> HIDE DEF At, m, T
    <2>4. seqs \in Seq(Seq(T))
      BY <2>1, <2>3
    <2> HIDE DEF seqs
    <2>5. FlattenSeq(seqs) \in Seq(T)
      BY <2>4, FlattenSeqs
    <2>6. QED
      BY <2>2, <2>5
  <1>4. CASE file \in PdfFile /\ file.kind = "pdf"
    <2>1. Places = <<>>
      BY <1>4 DEF Places
    <2>2. <<>> \in Seq({})
      OBVIOUS
    <2>3. QED
      BY <2>1, <2>2
  <1>5. QED
    BY <1>1, <1>2, <1>3, <1>4, FileKinds

LEMMA FileStays ==
    ASSUME [ToolNext]_toolVars
    PROVE  /\ file' = file
           /\ hits' = hits \/ (Search /\ hits' = FoundIn(Places))
  <1>1. CASE ReadStep
    BY <1>1 DEF ReadStep, ReadSheet, ReadDocument, ReadSlides, ReadPdf, ReadSection, Answer
  <1>2. CASE ReadFails \/ UNCHANGED toolVars
    BY <1>2 DEF ReadFails, toolVars
  <1>3. CASE Search
    BY <1>3 DEF Search
  <1>4. CASE \E pdf \in Pdfs, spec \in Specs : Convert(pdf, spec)
    <2>1. \A pdf, spec : Convert(pdf, spec) => UNCHANGED <<file, reading, hits>>
      BY Zenon DEF Convert
    <2>2. QED
      BY <1>4, <2>1
  <1>5. QED
    BY <1>1, <1>2, <1>3, <1>4 DEF ToolNext

(***************************************************************************)
(* A search finds the first matches in the order of the document, and      *)
(* fewer than the limit only if there are no more, for any file and any    *)
(* limit (search_workbook(), search_document(), search_presentation()).    *)
(***************************************************************************)
THEOREM SearchesComplete == ToolSpec => []SearchComplete
  <1> DEFINE Inv == file \in Files /\ SearchComplete
  <1>1. ToolInit => Inv
    BY DEF ToolInit, SearchComplete
  <1>2. Inv /\ [ToolNext]_toolVars => Inv'
    <2> SUFFICES ASSUME Inv, [ToolNext]_toolVars
                 PROVE  Inv'
      OBVIOUS
    <2>1. /\ file' = file
          /\ hits' = hits \/ (Search /\ hits' = FoundIn(Places))
      BY FileStays
    <2>2. Places' = Places /\ file' \in Files
      BY <2>1 DEF Places
    <2>3. CASE hits' = hits
      BY <2>1, <2>2, <2>3 DEF SearchComplete
    <2>4. CASE hits' = FoundIn(Places)
      <3>1. PICK T : Places \in Seq(T)
        BY PlacesSeq
      <3>2. FoundIn(Places) = FirstHits(Places, Matches(Places))
        BY <3>1, FoundFirst
      <3>3. QED
        BY <2>2, <2>4, <3>2 DEF SearchComplete, FirstHits
    <2>5. QED
      BY <2>1, <2>2, <2>3, <2>4
  <1>3. QED
    BY <1>1, <1>2, PTL DEF ToolSpec

-----------------------------------------------------------------------------
(* The outline of a document *)

Para == [level : Nat, chars : Nat, match : BOOLEAN]
Count == [done : Seq(Nat), open : Nat]

LEMMA CharsSteps ==
    ASSUME NEW paras \in Seq(Para), NEW first \in Nat \ {0}, NEW last \in 0..Len(paras)
    PROVE  \E g : /\ CharsIn(paras, first, last) = g[last] /\ g[0] = 0
                  /\ \A i \in 0..last - 1 : g[i + 1] =
                       IF i + 1 < first THEN 0 ELSE g[i] + paras[i + 1].chars
  <1> DEFINE Body(i, x) == IF i < first THEN 0 ELSE x + paras[i].chars
             G == [x \in (1..last) \X Nat |-> Body(x[1], x[2])]
             Eq(f) == f = [i \in 0..last |-> IF i < first THEN 0 ELSE f[i - 1] + paras[i].chars]
             g == CHOOSE f : Eq(f)
  <1>1. last \in Nat /\ \A i \in 1..last : paras[i].chars \in Nat
    <2>1. last \in Nat /\ Len(paras) \in Nat /\ last <= Len(paras)
      OBVIOUS
    <2>2. \A i \in 1..Len(paras) : paras[i] \in Para
      OBVIOUS
    <2>3. \A i \in 1..last : paras[i] \in Para
      BY <2>1, <2>2
    <2>4. QED
      BY <2>1, <2>3 DEF Para
  <1>2. G \in [(1..last) \X Nat -> Nat]
    <2> SUFFICES ASSUME NEW x \in (1..last) \X Nat
                 PROVE  Body(x[1], x[2]) \in Nat
      OBVIOUS
    <2>1. x[2] \in Nat /\ paras[x[1]].chars \in Nat
      BY <1>1
    <2>2. QED
      BY <2>1
  <1>3. \A i \in 1..last, x \in Nat : G[<<i, x>>] = Body(i, x)
    OBVIOUS
  <1> HIDE DEF G
  <1>4. PICK f \in [0..last -> Nat] : Stepwise(f, 0, G, last)
    BY <1>1, <1>2, Iterated
  <1>5. Eq(f)
    <2>1. ASSUME NEW i \in 0..last
          PROVE  f[i] = IF i < first THEN 0 ELSE f[i - 1] + paras[i].chars
      <3>1. CASE i = 0
        BY <1>4, <3>1 DEF Stepwise
      <3>2. CASE i # 0
        <4>1. i - 1 \in 0..last - 1 /\ (i - 1) + 1 = i /\ i \in 1..last /\ f[i - 1] \in Nat
          BY <1>1, <3>2
        <4>2. f[(i - 1) + 1] = G[<<(i - 1) + 1, f[i - 1]>>]
          BY <1>4, <4>1 DEF Stepwise
        <4>3. f[i] = Body(i, f[i - 1])
          BY <1>3, <4>1, <4>2
        <4>4. QED
          BY <4>3
      <3>3. QED
        BY <3>1, <3>2
    <2>2. QED
      BY <2>1
  <1>6. Eq(g)
    BY <1>5, Zenon
  <1>7. CharsIn(paras, first, last) = g[last]
    BY Zenon DEF CharsIn
  <1> HIDE DEF g
  <1>8. g[0] = 0
    BY <1>1, <1>6
  <1>9. ASSUME NEW i \in 0..last - 1
        PROVE  g[i + 1] = IF i + 1 < first THEN 0 ELSE g[i] + paras[i + 1].chars
    <2>1. i + 1 \in 0..last /\ (i + 1) - 1 = i
      BY <1>1
    <2>2. g[i + 1] = IF i + 1 < first THEN 0 ELSE g[(i + 1) - 1] + paras[i + 1].chars
      BY <1>6, <2>1
    <2>3. QED
      BY <2>1, <2>2
  <1>10. QED
    BY <1>7, <1>8, <1>9

LEMMA CharsMore ==
    ASSUME NEW paras \in Seq(Para), NEW first \in Nat \ {0}, NEW last \in Nat,
           last + 1 <= Len(paras), first <= last + 1
    PROVE  /\ CharsIn(paras, first, last) \in Nat
           /\ CharsIn(paras, first, last + 1) =
                CharsIn(paras, first, last) + paras[last + 1].chars
           /\ first = last + 1 => CharsIn(paras, first, last) = 0
  <1>1. PICK g : /\ CharsIn(paras, first, last) = g[last] /\ g[0] = 0
                 /\ \A i \in 0..last - 1 : g[i + 1] =
                      IF i + 1 < first THEN 0 ELSE g[i] + paras[i + 1].chars
    <2>1. last \in 0..Len(paras)
      OBVIOUS
    <2>2. QED
      BY <2>1, CharsSteps
  <1>2. PICK h : /\ CharsIn(paras, first, last + 1) = h[last + 1] /\ h[0] = 0
                 /\ \A i \in 0..(last + 1) - 1 : h[i + 1] =
                      IF i + 1 < first THEN 0 ELSE h[i] + paras[i + 1].chars
    <2>1. last + 1 \in 0..Len(paras)
      OBVIOUS
    <2>2. QED
      BY <2>1, CharsSteps
  <1>3. \A i \in 1..last + 1 : paras[i].chars \in Nat
    <2>1. \A i \in 1..Len(paras) : paras[i] \in Para
      OBVIOUS
    <2>2. \A i \in 1..last + 1 : paras[i] \in Para
      BY <2>1
    <2>3. QED
      BY <2>2 DEF Para
  <1> DEFINE Good == {k \in Nat : k > last \/
                        (g[k] = h[k] /\ g[k] \in Nat /\ (k < first => g[k] = 0))}
  <1>4. 0 \in Good
    BY <1>1, <1>2
  <1>5. ASSUME NEW k \in Nat, k \in Good
        PROVE  k + 1 \in Good
    <2>0. CASE k + 1 > last
      BY <2>0
    <2>1. CASE k + 1 <= last
      <3>1. k \in 0..last - 1 /\ k \in 0..(last + 1) - 1 /\ k + 1 \in 1..last + 1
        BY <2>1
      <3>2. /\ g[k + 1] = IF k + 1 < first THEN 0 ELSE g[k] + paras[k + 1].chars
            /\ h[k + 1] = IF k + 1 < first THEN 0 ELSE h[k] + paras[k + 1].chars
        BY <1>1, <1>2, <3>1
      <3>3. g[k] = h[k] /\ g[k] \in Nat
        BY <1>5, <2>1
      <3>4. g[k + 1] = h[k + 1] /\ g[k + 1] \in Nat /\ (k + 1 < first => g[k + 1] = 0)
        BY <1>3, <3>1, <3>2, <3>3
      <3>5. QED
        BY <3>4
    <2>2. QED
      BY <2>0, <2>1
  <1>6. last \in Good
    <2> HIDE DEF Good
    <2>1. QED
      BY <1>4, <1>5, SetInduction
  <1>7. h[last + 1] = h[last] + paras[last + 1].chars
    <2>1. last \in 0..(last + 1) - 1 /\ ~(last + 1 < first)
      OBVIOUS
    <2>2. QED
      BY <1>2, <2>1
  <1>8. QED
    BY <1>1, <1>2, <1>6, <1>7

LEMMA CloseCount ==
    ASSUME NEW s \in Count
    PROVE  /\ Close(s) \in Seq(Nat) /\ Len(Close(s)) = Len(s.done)
           /\ \A i \in 1..Len(s.done) :
                Close(s)[i] = IF i = Len(s.done) THEN s.open ELSE s.done[i]
  <1>1. s.done \in Seq(Nat) /\ s.open \in Nat
    BY DEF Count
  <1>2. CASE s.done = <<>>
    BY <1>1, <1>2 DEF Close
  <1>3. CASE s.done # <<>>
    <2>1. Close(s) = [s.done EXCEPT ![Len(s.done)] = s.open]
      BY <1>3 DEF Close
    <2>2. QED
      BY <1>1, <1>3, <2>1
  <1>4. QED
    BY <1>2, <1>3

LEMMA PassOverCount ==
    ASSUME NEW s \in Count, NEW p \in Para
    PROVE  PassOver(s, p) \in Count
  <1>1. /\ s.done \in Seq(Nat) /\ s.open \in Nat /\ p.chars \in Nat
        /\ s = [done |-> s.done, open |-> s.open]
    BY DEF Count, Para
  <1>2. CASE p.level = 0
    <2>1. PassOver(s, p) = [s EXCEPT !.open = @ + p.chars]
      BY <1>2 DEF PassOver
    <2>2. s.open + p.chars \in Nat
      BY <1>1
    <2>3. QED
      BY <1>1, <2>1, <2>2 DEF Count
  <1>3. CASE p.level # 0
    <2>1. PassOver(s, p) = [done |-> Append(Close(s), 0), open |-> p.chars]
      BY <1>3 DEF PassOver
    <2>2. Close(s) \in Seq(Nat)
      BY CloseCount
    <2>3. Append(Close(s), 0) \in Seq(Nat)
      BY <2>2
    <2>4. QED
      BY <1>1, <2>1, <2>3 DEF Count
  <1>4. QED
    BY <1>2, <1>3

LEMMA PassSteps ==
    ASSUME NEW paras \in Seq(Para)
    PROVE  \E f : /\ Passed(paras) = f[Len(paras)] /\ f[0] = [done |-> <<>>, open |-> 0]
                  /\ \A i \in 0..Len(paras) - 1 : f[i + 1] = PassOver(f[i], paras[i + 1])
  <1> DEFINE n == Len(paras)
             V == Count
             v == [done |-> <<>>, open |-> 0]
             G == [x \in (1..n) \X V |-> PassOver(x[2], paras[x[1]])]
             Eq(f) == f = [i \in 0..n |-> IF i = 0 THEN [done |-> <<>>, open |-> 0]
                                          ELSE PassOver(f[i - 1], paras[i])]
             g == CHOOSE f : Eq(f)
  <1>1. n \in Nat /\ v \in V
    <2>1. <<>> \in Seq(Nat)
      OBVIOUS
    <2>2. QED
      BY <2>1 DEF Count
  <1>2. G \in [(1..n) \X V -> V]
    <2> SUFFICES ASSUME NEW x \in (1..n) \X V
                 PROVE  PassOver(x[2], paras[x[1]]) \in V
      OBVIOUS
    <2>1. x[2] \in Count /\ paras[x[1]] \in Para
      OBVIOUS
    <2>2. QED
      BY <2>1, PassOverCount
  <1>3. \A i \in 1..n, s \in V : G[<<i, s>>] = PassOver(s, paras[i])
    OBVIOUS
  <1> HIDE DEF G, n, V
  <1>4. PICK f \in [0..n -> V] : Stepwise(f, v, G, n)
    <2> HIDE DEF v
    <2>1. QED
      BY <1>1, <1>2, Iterated
  <1>5. Eq(f)
    <2>1. ASSUME NEW i \in 0..n
          PROVE  f[i] = IF i = 0 THEN v ELSE PassOver(f[i - 1], paras[i])
      <3> HIDE DEF v
      <3>1. CASE i = 0
        BY <1>4, <3>1 DEF Stepwise
      <3>2. CASE i # 0
        <4>1. i - 1 \in 0..n - 1 /\ (i - 1) + 1 = i /\ i \in 1..n /\ f[i - 1] \in V
          BY <1>1, <3>2
        <4>2. f[(i - 1) + 1] = G[<<(i - 1) + 1, f[i - 1]>>]
          BY <1>4, <4>1 DEF Stepwise
        <4>3. f[i] = PassOver(f[i - 1], paras[i])
          BY <1>3, <4>1, <4>2
        <4>4. QED
          BY <3>2, <4>3
      <3>3. QED
        BY <3>1, <3>2
    <2>2. QED
      BY <2>1
  <1>6. Eq(g)
    BY <1>5, Zenon
  <1>7. Passed(paras) = g[n]
    BY Zenon DEF Passed, n
  <1> HIDE DEF g
  <1>8. g[0] = v
    BY <1>1, <1>6
  <1>9. ASSUME NEW i \in 0..n - 1
        PROVE  g[i + 1] = PassOver(g[i], paras[i + 1])
    <2>1. i + 1 \in 0..n /\ i + 1 # 0 /\ (i + 1) - 1 = i
      BY <1>1
    <2>2. g[i + 1] = PassOver(g[(i + 1) - 1], paras[i + 1])
      BY <1>6, <2>1
    <2>3. QED
      BY <2>1, <2>2
  <1>10. QED
    BY <1>7, <1>8, <1>9 DEF n

HeadsTo(paras, n) == {i \in 1..n : paras[i].level > 0}
\* The characters below the headings with the numbers in heads, of the first n paragraphs.
Outline(paras, heads, n) ==
    [k \in 1..Len(heads) |->
       CharsIn(paras, heads[k], IF k = Len(heads) THEN n ELSE heads[k + 1] - 1)]
\* What is known after n paragraphs.
Counted(paras, heads, s, n) ==
    /\ Rising(heads) /\ Range(heads) = HeadsTo(paras, n)
    /\ s \in Count /\ Close(s) = Outline(paras, heads, n)
    /\ heads # <<>> => s.open = CharsIn(paras, heads[Len(heads)], n)

CountedEach(paras, heads, s, n) ==
    /\ Len(heads) \in Nat /\ Len(s.done) = Len(heads)
    /\ \A k \in 1..Len(heads) : heads[k] \in 1..n
    /\ \A k \in 1..Len(heads) - 1 : heads[k] <= heads[k + 1] - 1
    /\ \A k \in 1..Len(heads) : Close(s)[k] =
         CharsIn(paras, heads[k], IF k = Len(heads) THEN n ELSE heads[k + 1] - 1)

LEMMA CountedLess ==
    ASSUME NEW paras, NEW heads \in Seq(Nat), NEW s, NEW n \in Nat, Counted(paras, heads, s, n)
    PROVE  CountedEach(paras, heads, s, n)
  <1>1. \A k \in 1..Len(heads) : heads[k] \in 1..n
    BY RisingRange DEF Counted, HeadsTo
  <1>2. Len(heads) \in Nat
    OBVIOUS
  <1>3. \A k \in 1..Len(heads) - 1 : heads[k] <= heads[k + 1] - 1
    <2> SUFFICES ASSUME NEW k \in 1..Len(heads) - 1
                 PROVE  heads[k] <= heads[k + 1] - 1
      OBVIOUS
    <2>1. k \in 1..Len(heads) /\ k + 1 \in 1..Len(heads) /\ k < k + 1
      BY <1>2
    <2>2. heads[k] < heads[k + 1]
      BY <2>1 DEF Counted, Rising
    <2>3. heads[k] \in Nat /\ heads[k + 1] \in Nat
      BY <2>1
    <2>4. QED
      BY <2>2, <2>3
  <1>4. Len(Close(s)) = Len(s.done) /\ Close(s) \in Seq(Nat)
    BY CloseCount DEF Counted
  <1>5. Close(s) = Outline(paras, heads, n)
    BY DEF Counted
  <1>6. Len(Outline(paras, heads, n)) = Len(heads)
    BY <1>2 DEF Outline
  <1>7. \A k \in 1..Len(heads) : Close(s)[k] =
          CharsIn(paras, heads[k], IF k = Len(heads) THEN n ELSE heads[k + 1] - 1)
    BY <1>5 DEF Outline
  <1>8. QED
    BY <1>1, <1>2, <1>3, <1>4, <1>5, <1>6, <1>7 DEF CountedEach

\* A paragraph of text.
LEMMA CountText ==
    ASSUME NEW paras \in Seq(Para), NEW heads \in Seq(Nat), NEW s, NEW n \in Nat,
           n + 1 <= Len(paras), Counted(paras, heads, s, n), paras[n + 1].level = 0
    PROVE  Counted(paras, heads, PassOver(s, paras[n + 1]), n + 1)
  <1> DEFINE p == paras[n + 1]
             t == PassOver(s, p)
  <1>1. p \in Para /\ s \in Count
    BY DEF Counted
  <1>2. t \in Count
    BY <1>1, PassOverCount
  <1>3. t.done = s.done /\ t.open = s.open + p.chars
    <2>1. t = [s EXCEPT !.open = @ + p.chars]
      BY DEF PassOver
    <2>2. QED
      BY <1>1, <2>1 DEF Count
  <1>0. HeadsTo(paras, n + 1) = HeadsTo(paras, n)
    BY DEF HeadsTo
  <1>4. CountedEach(paras, heads, s, n)
    BY CountedLess
  <1>5. /\ Len(heads) \in Nat /\ Len(s.done) = Len(heads)
        /\ \A k \in 1..Len(heads) : heads[k] \in 1..n
        /\ \A k \in 1..Len(heads) - 1 : heads[k] <= heads[k + 1] - 1
        /\ \A k \in 1..Len(heads) : Close(s)[k] =
             CharsIn(paras, heads[k], IF k = Len(heads) THEN n ELSE heads[k + 1] - 1)
    BY <1>4 DEF CountedEach
  <1>6. heads # <<>> => t.open = CharsIn(paras, heads[Len(heads)], n + 1)
    <2> SUFFICES ASSUME heads # <<>>
                 PROVE  t.open = CharsIn(paras, heads[Len(heads)], n + 1)
      OBVIOUS
    <2> DEFINE h == heads[Len(heads)]
    <2>1. h \in 1..n
      BY <1>5
    <2> HIDE DEF h
    <2>2. /\ CharsIn(paras, h, n) \in Nat
          /\ CharsIn(paras, h, n + 1) = CharsIn(paras, h, n) + paras[n + 1].chars
          /\ h = n + 1 => CharsIn(paras, h, n) = 0
      <3>1. h \in Nat \ {0} /\ h <= n + 1
        BY <2>1
      <3>2. QED
        BY <3>1, CharsMore
    <2>3. s.open = CharsIn(paras, h, n)
      BY DEF Counted, h
    <2>4. QED
      BY <1>3, <2>2, <2>3 DEF h
  <1> HIDE DEF t
  <1>7. /\ Close(t) \in Seq(Nat) /\ Len(Close(t)) = Len(t.done)
        /\ \A i \in 1..Len(t.done) :
             Close(t)[i] = IF i = Len(t.done) THEN t.open ELSE t.done[i]
    BY <1>2, CloseCount
  <1>8. /\ Close(s) \in Seq(Nat) /\ Len(Close(s)) = Len(s.done)
        /\ \A i \in 1..Len(s.done) :
             Close(s)[i] = IF i = Len(s.done) THEN s.open ELSE s.done[i]
    BY <1>1, CloseCount
  <1>9. \A k \in 1..Len(heads) : Close(t)[k] =
          CharsIn(paras, heads[k], IF k = Len(heads) THEN n + 1 ELSE heads[k + 1] - 1)
    <2> SUFFICES ASSUME NEW k \in 1..Len(heads)
                 PROVE  Close(t)[k] = CharsIn(paras, heads[k],
                                        IF k = Len(heads) THEN n + 1 ELSE heads[k + 1] - 1)
      OBVIOUS
    <2>1. CASE k = Len(heads)
      <3>1. Close(t)[k] = t.open
        BY <1>3, <1>5, <1>7, <2>1
      <3>2. heads # <<>>
        BY <1>5
      <3>3. QED
        BY <1>6, <2>1, <3>1, <3>2
    <2>2. CASE k # Len(heads)
      <3>1. Close(t)[k] = s.done[k] /\ Close(s)[k] = s.done[k]
        BY <1>3, <1>5, <1>7, <1>8, <2>2
      <3>2. QED
        BY <1>5, <2>2, <3>1
    <2>3. QED
      BY <2>1, <2>2
  <1>10. Close(t) = Outline(paras, heads, n + 1)
    <2>1. Close(t) = [k \in 1..Len(heads) |-> Close(t)[k]]
      BY <1>3, <1>5, <1>7
    <2>2. QED
      BY <1>9, <2>1 DEF Outline
  <1>11. Rising(heads) /\ Range(heads) = HeadsTo(paras, n + 1)
    BY <1>0 DEF Counted
  <1>12. QED
    BY <1>2, <1>6, <1>10, <1>11 DEF Counted, t

\* The next heading.
LEMMA CountHeading ==
    ASSUME NEW paras \in Seq(Para), NEW heads \in Seq(Nat), NEW s, NEW n \in Nat,
           n + 1 <= Len(paras), Counted(paras, heads, s, n), paras[n + 1].level # 0
    PROVE  /\ Append(heads, n + 1) \in Seq(Nat)
           /\ Counted(paras, Append(heads, n + 1), PassOver(s, paras[n + 1]), n + 1)
  <1> DEFINE p == paras[n + 1]
             t == PassOver(s, p)
             more == Append(heads, n + 1)
             m == Len(heads)
  <1>1. p \in Para /\ s \in Count
    BY DEF Counted
  <1>2. t \in Count
    BY <1>1, PassOverCount
  <1>3. t.done = Append(Close(s), 0) /\ t.open = p.chars
    BY DEF PassOver
  <1>4. CountedEach(paras, heads, s, n)
    BY CountedLess
  <1>5. /\ m \in Nat /\ Len(s.done) = m
        /\ \A k \in 1..m : heads[k] \in 1..n
        /\ \A k \in 1..m - 1 : heads[k] <= heads[k + 1] - 1
        /\ \A k \in 1..m : Close(s)[k] =
             CharsIn(paras, heads[k], IF k = m THEN n ELSE heads[k + 1] - 1)
    BY <1>4 DEF CountedEach
  <1>6. /\ more \in Seq(Nat) /\ Rising(more) /\ Range(more) = Range(heads) \cup {n + 1}
    <2>1. \A k \in 1..Len(heads) : heads[k] < n + 1
      BY <1>5
    <2>2. Rising(heads) /\ n + 1 \in Nat
      BY DEF Counted
    <2>3. /\ Append(heads, n + 1) \in Seq(Nat) /\ Rising(Append(heads, n + 1))
          /\ Range(Append(heads, n + 1)) = Range(heads) \cup {n + 1}
      BY <2>1, <2>2, RisingAdd
    <2>4. QED
      BY <2>3, Zenon
  <1>7. Range(heads) \cup {n + 1} = HeadsTo(paras, n + 1)
    <2>1. paras[n + 1].level > 0
      BY <1>1 DEF Para
    <2>2. Range(heads) = HeadsTo(paras, n)
      BY DEF Counted
    <2>3. QED
      BY <2>1, <2>2 DEF HeadsTo
  <1>8. /\ Len(more) = m + 1 /\ more[m + 1] = n + 1
        /\ \A k \in 1..m : more[k] = heads[k]
    OBVIOUS
  <1>9. p.chars \in Nat /\ CharsIn(paras, n + 1, n + 1) = p.chars
    <2>1. /\ CharsIn(paras, n + 1, n) \in Nat
          /\ CharsIn(paras, n + 1, n + 1) = CharsIn(paras, n + 1, n) + paras[n + 1].chars
          /\ n + 1 = n + 1 => CharsIn(paras, n + 1, n) = 0
      <3>1. n + 1 \in Nat \ {0} /\ n + 1 <= n + 1
        OBVIOUS
      <3>2. QED
        BY <3>1, CharsMore
    <2>2. p.chars \in Nat
      BY <1>1 DEF Para
    <2>3. QED
      BY <2>1, <2>2
  <1> HIDE DEF t, more, m
  <1>10. /\ Close(t) \in Seq(Nat) /\ Len(Close(t)) = Len(t.done)
         /\ \A i \in 1..Len(t.done) :
              Close(t)[i] = IF i = Len(t.done) THEN t.open ELSE t.done[i]
    BY <1>2, CloseCount
  <1>11. Close(s) \in Seq(Nat) /\ Len(Close(s)) = m
    <2>1. /\ Close(s) \in Seq(Nat) /\ Len(Close(s)) = Len(s.done)
          /\ \A i \in 1..Len(s.done) :
               Close(s)[i] = IF i = Len(s.done) THEN s.open ELSE s.done[i]
      BY <1>1, CloseCount
    <2>2. QED
      BY <1>5, <2>1
  <1>12. Len(t.done) = m + 1 /\ \A k \in 1..m : t.done[k] = Close(s)[k]
    <2>1. /\ Len(Append(Close(s), 0)) = m + 1
          /\ \A k \in 1..m : Append(Close(s), 0)[k] = Close(s)[k]
      BY <1>5, <1>11
    <2>2. QED
      BY <1>3, <2>1
  <1>13. \A k \in 1..m + 1 : Close(t)[k] =
           CharsIn(paras, more[k], IF k = m + 1 THEN n + 1 ELSE more[k + 1] - 1)
    <2> SUFFICES ASSUME NEW k \in 1..m + 1
                 PROVE  Close(t)[k] = CharsIn(paras, more[k],
                                        IF k = m + 1 THEN n + 1 ELSE more[k + 1] - 1)
      OBVIOUS
    <2>1. CASE k = m + 1
      <3>1. Close(t)[k] = p.chars
        BY <1>3, <1>10, <1>12, <2>1
      <3>2. QED
        BY <1>8, <1>9, <2>1, <3>1
    <2>2. CASE k # m + 1
      <3>0. k \in 1..m
        BY <1>5, <2>2
      <3>1. k \in 1..m /\ more[k] = heads[k]
        BY <1>8, <3>0
      <3>2. Close(t)[k] = Close(s)[k]
        BY <1>10, <1>12, <2>2, <3>1
      <3>3. more[k + 1] - 1 = IF k = m THEN n ELSE heads[k + 1] - 1
        <4>1. CASE k = m
          BY <1>8, <4>1
        <4>2. CASE k # m
          <5>1. k + 1 \in 1..m
            BY <1>5, <3>1, <4>2
          <5>2. QED
            BY <1>8, <4>2, <5>1
        <4>3. QED
          BY <4>1, <4>2
      <3>4. QED
        BY <1>5, <2>2, <3>1, <3>2, <3>3
    <2>3. QED
      BY <2>1, <2>2
  <1>14. Close(t) = Outline(paras, more, n + 1)
    <2>1. Close(t) = [k \in 1..m + 1 |-> Close(t)[k]]
      BY <1>10, <1>12
    <2>2. QED
      BY <1>8, <1>13, <2>1 DEF Outline
  <1>15. t.open = CharsIn(paras, more[Len(more)], n + 1)
    BY <1>3, <1>8, <1>9
  <1>16. Counted(paras, more, t, n + 1)
    BY <1>2, <1>6, <1>7, <1>14, <1>15 DEF Counted
  <1>17. QED
    BY <1>6, <1>16 DEF t, more

LEMMA OutlineRight ==
    ASSUME NEW paras \in Seq(Para)
    PROVE  HeadingChars(paras) = Outline(paras, Heads(paras), Len(paras))
  <1> DEFINE n == Len(paras)
  <1>0. n \in Nat
    OBVIOUS
  <1>1. PICK f : /\ Passed(paras) = f[n] /\ f[0] = [done |-> <<>>, open |-> 0]
                 /\ \A i \in 0..n - 1 : f[i + 1] = PassOver(f[i], paras[i + 1])
    BY PassSteps
  <1> DEFINE Good == {k \in Nat : k > n \/ \E heads \in Seq(Nat) : Counted(paras, heads, f[k], k)}
  <1>2. 0 \in Good
    <2>1. <<>> \in Seq(Nat) /\ Len(<<>>) = 0
      OBVIOUS
    <2>2. Rising(<<>>) /\ Range(<<>>) = HeadsTo(paras, 0)
      BY DEF Rising, Range, HeadsTo
    <2>3. f[0] \in Count /\ f[0].done = <<>>
      BY <1>1, <2>1 DEF Count
    <2>4. Close(f[0]) = <<>>
      BY <2>3 DEF Close
    <2>5. Outline(paras, <<>>, 0) = <<>>
      BY <2>1 DEF Outline
    <2>6. Counted(paras, <<>>, f[0], 0)
      BY <2>2, <2>3, <2>4, <2>5 DEF Counted
    <2>7. QED
      BY <2>1, <2>6
  <1>3. ASSUME NEW k \in Nat, k \in Good
        PROVE  k + 1 \in Good
    <2>0. CASE k + 1 > n
      BY <2>0
    <2>1. CASE k + 1 <= n
      <3>1. PICK heads \in Seq(Nat) : Counted(paras, heads, f[k], k)
        BY <1>0, <1>3, <2>1
      <3>2. f[k + 1] = PassOver(f[k], paras[k + 1])
        <4>1. k \in 0..n - 1
          BY <1>0, <2>1
        <4>2. QED
          BY <1>1, <4>1
      <3>3. \E more \in Seq(Nat) : Counted(paras, more, f[k + 1], k + 1)
        <4>1. CASE paras[k + 1].level = 0
          <5>1. Counted(paras, heads, PassOver(f[k], paras[k + 1]), k + 1)
            BY <2>1, <3>1, <4>1, CountText
          <5>2. QED
            BY <3>2, <5>1
        <4>2. CASE paras[k + 1].level # 0
          <5>1. /\ Append(heads, k + 1) \in Seq(Nat)
                /\ Counted(paras, Append(heads, k + 1), PassOver(f[k], paras[k + 1]), k + 1)
            BY <2>1, <3>1, <4>2, CountHeading
          <5>2. QED
            BY <3>2, <5>1
        <4>3. QED
          BY <4>1, <4>2
      <3>4. QED
        BY <3>3
    <2>2. QED
      BY <2>0, <2>1
  <1>4. n \in Good
    <2> HIDE DEF Good
    <2>1. QED
      BY <1>0, <1>2, <1>3, SetInduction
  <1>5. PICK heads \in Seq(Nat) : Counted(paras, heads, f[n], n)
    BY <1>0, <1>4
  <1>6. Heads(paras) = heads
    <2>1. Sorted(Range(heads)) = heads
      BY <1>5, RisingSorted DEF Counted
    <2>2. Range(heads) = HeadsTo(paras, n)
      BY <1>5 DEF Counted
    <2>3. QED
      BY <2>1, <2>2, Zenon DEF Heads, HeadsTo
  <1>7. Close(f[n]) = Outline(paras, heads, n)
    BY <1>5 DEF Counted
  <1>8. QED
    BY <1>1, <1>6, <1>7, Zenon DEF HeadingChars

(***************************************************************************)
(* In the outline each heading has the characters up to the next heading   *)
(* and the last one those to the end, for a document of any paragraphs     *)
(* (get_document_info()).                                                  *)
(***************************************************************************)
THEOREM OutlinesExact == ToolSpec => []OutlineExact
  <1>1. file \in Files => OutlineExact
    <2> SUFFICES ASSUME file \in Files, file.kind = "document"
                 PROVE  LET heads == Heads(file.paras)
                            Upto(k) == IF k = Len(heads) THEN Len(file.paras) ELSE heads[k+1] - 1
                        IN HeadingChars(file.paras) =
                             [k \in 1..Len(heads) |-> CharsIn(file.paras, heads[k], Upto(k))]
      BY DEF OutlineExact
    <2>1. file.paras \in Seq(Para)
      BY FileKinds DEF Document, Para
    <2>2. HeadingChars(file.paras) = Outline(file.paras, Heads(file.paras), Len(file.paras))
      BY <2>1, OutlineRight
    <2>3. QED
      BY <2>2 DEF Outline
  <1>2. ToolInit => file \in Files
    BY DEF ToolInit
  <1>3. file \in Files /\ [ToolNext]_toolVars => (file \in Files)'
    BY FileStays
  <1>4. QED
    BY <1>1, <1>2, <1>3, PTL DEF ToolSpec

-----------------------------------------------------------------------------
(* Pages *)

LEMMA NatLeast ==
    ASSUME NEW S, S \subseteq Nat, S # {}
    PROVE  Min(S) \in S /\ \A y \in S : Min(S) <= y
  <1>1. \E x \in S : \A y \in S : x <= y
    <2> SUFFICES ASSUME \A x \in S : \E y \in S : ~(x <= y)
                 PROVE  FALSE
      OBVIOUS
    <2> DEFINE Good == {k \in Nat : \A y \in S : k < y}
    <2>1. 0 \in Good
      OBVIOUS
    <2>2. ASSUME NEW k \in Nat, k \in Good
          PROVE  k + 1 \in Good
      <3> SUFFICES ASSUME NEW z \in S, ~(k + 1 < z)
                   PROVE  FALSE
        OBVIOUS
      <3>1. z = k + 1
        BY <2>2
      <3>2. PICK y \in S : ~(z <= y)
        OBVIOUS
      <3>3. k < y /\ y \in Nat
        BY <2>2
      <3>4. QED
        BY <3>1, <3>2, <3>3
    <2>3. PICK x \in S : TRUE
      OBVIOUS
    <2>4. x \in Good
      <3>1. x \in Nat
        OBVIOUS
      <3> HIDE DEF Good
      <3>2. QED
        BY <2>1, <2>2, <3>1, SetInduction
    <2>5. QED
      BY <2>4
  <1>2. QED
    BY <1>1, Zenon DEF Min

LEMMA MinTwo ==
    ASSUME NEW a \in Int, NEW b \in Int
    PROVE  Min({a, b}) = IF a <= b THEN a ELSE b
  <1> DEFINE m == IF a <= b THEN a ELSE b
  <1>1. m \in {a, b} /\ \A y \in {a, b} : m <= y
    OBVIOUS
  <1>2. Min({a, b}) \in {a, b} /\ \A y \in {a, b} : Min({a, b}) <= y
    BY <1>1, Zenon DEF Min
  <1>3. QED
    BY <1>2

LEMMA MaxTwo ==
    ASSUME NEW a \in Int, NEW b \in Int
    PROVE  Max({a, b}) = IF a >= b THEN a ELSE b
  <1> DEFINE m == IF a >= b THEN a ELSE b
  <1>1. m \in {a, b} /\ \A y \in {a, b} : m >= y
    OBVIOUS
  <1>2. Max({a, b}) \in {a, b} /\ \A y \in {a, b} : Max({a, b}) >= y
    BY <1>1, Zenon DEF Max
  <1>3. QED
    BY <1>2

FirstOf(n) == IF file.kind = "sheet" /\ n < SheetArea[1] THEN SheetArea[1] ELSE n

\* What the agent has seen reaches from where it began to where it was told to go on.
Paging ==
    /\ file \in Files
    /\ at = "start" => shown = <<>>
    /\ at = "reading" =>
         /\ file.kind # "pdf"
         /\ from \in Nat \ {0} /\ hint \in Nat
         /\ from <= hint /\ hint <= LastItem
         /\ shown = Numbers(FirstItem, hint - 1)
    /\ PagesCover

LEMMA SheetRows ==
    ASSUME file \in Sheet
    PROVE  SheetArea[1] \in Nat \ {0} /\ SheetArea[2] \in Nat \ {0}
  <1>1. file.used \in Area /\ file.print \in Area \cup {<<>>}
    BY DEF Sheet
  <1>2. SheetArea \in Area
    BY <1>1 DEF SheetArea
  <1>3. QED
    BY <1>2 DEF Area

LEMMA LastItems ==
    ASSUME file \in Files
    PROVE  LastItem \in Nat
  <1>1. CASE file \in Sheet /\ file.kind = "sheet"
    <2>1. LastItem = SheetArea[2]
      BY <1>1 DEF LastItem
    <2>2. QED
      BY <1>1, <2>1, SheetRows
  <1>2. CASE file \in Document /\ file.kind = "document"
    <2>1. LastItem = Len(file.paras)
      BY <1>2 DEF LastItem
    <2>2. QED
      BY <1>2, <2>1 DEF Document
  <1>3. CASE file \in Deck /\ file.kind = "slides"
    <2>1. LastItem = Len(file.slides)
      BY <1>3 DEF LastItem
    <2>2. QED
      BY <1>3, <2>1 DEF Deck
  <1>4. CASE file \in PdfFile /\ file.kind = "pdf"
    <2>1. LastItem = file.total
      BY <1>4 DEF LastItem
    <2>2. QED
      BY <1>4, <2>1 DEF PdfFile
  <1>5. QED
    BY <1>1, <1>2, <1>3, <1>4, FileKinds

LEMMA FirstOfNat ==
    ASSUME file \in Files, NEW n \in Nat
    PROVE  /\ FirstOf(n) \in Nat /\ n <= FirstOf(n)
           /\ \A m \in Nat : n <= m => FirstOf(n) = FirstOf(m) \/ (FirstOf(n) <= m /\ FirstOf(m) = m)
  <1>1. CASE file.kind = "sheet"
    <2>1. SheetArea[1] \in Nat
      BY <1>1, FileKinds, SheetRows
    <2>2. QED
      BY <1>1, <2>1 DEF FirstOf
  <1>2. CASE file.kind # "sheet"
    BY <1>2 DEF FirstOf
  <1>3. QED
    BY <1>1, <1>2

LEMMA NatBetween == \A x, y, z \in Nat : x <= y /\ y <= z => x <= z
  OBVIOUS

LEMMA AnswerPages ==
    ASSUME Paging, at \in {"start", "reading"}, file.kind # "pdf",
           NEW first \in Nat \ {0}, NEW last \in Nat, last <= LastItem,
           NEW next \in Nat, next = IF at = "start" THEN first ELSE hint,
           last < LastItem => next <= last + 1,
           at = "reading" => next <= last + 1,
           Answer(first, Numbers(FirstOf(next), last), last, last < LastItem)
    PROVE  Paging'
  <1>0. /\ file \in Files /\ (at = "start" => shown = <<>>)
        /\ at = "reading" => /\ from \in Nat \ {0} /\ from <= hint
                             /\ shown = Numbers(FirstItem, hint - 1)
    BY DEF Paging
  <1>1. /\ file' = file
        /\ shown' = shown \o Numbers(FirstOf(next), last)
        /\ hint' = IF last < LastItem THEN last + 1 ELSE NoHint
        /\ at' = IF last < LastItem THEN "reading" ELSE "read"
        /\ from' = IF at = "start" THEN first ELSE from
    BY DEF Answer
  <1>2. /\ LastItem \in Nat /\ LastItem' = LastItem
        /\ FirstItem = FirstOf(from) /\ FirstItem' = FirstOf(from')
    BY <1>0, <1>1, LastItems DEF LastItem, FirstItem, FirstOf, SheetArea
  <1>3. from' \in Nat \ {0} /\ from' <= next
    BY <1>0, <1>1
  <1>4. shown' = Numbers(FirstOf(from'), last)
    <2>1. CASE at = "start"
      <3>1. shown = <<>> /\ from' = next
        BY <1>0, <1>1, <2>1
      <3>2. Numbers(FirstOf(next), last) \in Seq(Nat)
        BY <1>0, FirstOfNat, NumbersRange
      <3>3. <<>> \o Numbers(FirstOf(next), last) = Numbers(FirstOf(next), last)
        BY <3>2
      <3>4. QED
        BY <1>1, <3>1, <3>3
    <2>2. CASE at = "reading"
      <3>1. /\ from' = from /\ from \in Nat /\ next = hint /\ from <= next /\ next <= last + 1
            /\ shown = Numbers(FirstOf(from), next - 1)
        BY <1>0, <1>1, <1>2, <2>2
      <3>2. /\ FirstOf(from) \in Nat /\ from <= FirstOf(from)
            /\ \A m \in Nat : from <= m =>
                 FirstOf(from) = FirstOf(m) \/ (FirstOf(from) <= m /\ FirstOf(m) = m)
        BY <1>0, <3>1, FirstOfNat
      <3>3. CASE FirstOf(from) <= next /\ FirstOf(next) = next
        <4>1. Numbers(FirstOf(from), next - 1) \o Numbers(next, last) = Numbers(FirstOf(from), last)
          BY <3>1, <3>2, <3>3, NumbersJoin
        <4>2. QED
          BY <1>1, <3>1, <3>3, <4>1
      <3>4. CASE ~(FirstOf(from) <= next /\ FirstOf(next) = next)
        <4>1. FirstOf(next) = FirstOf(from) /\ next - 1 < FirstOf(from)
          <5>1. FirstOf(next) = FirstOf(from)
            BY <3>1, <3>2, <3>4
          <5>2. FirstOf(next) \in Nat /\ next <= FirstOf(next)
            BY <1>0, FirstOfNat
          <5>3. QED
            BY <5>1, <5>2
        <4>2. shown = <<>>
          <5>1. next - 1 \in Int
            OBVIOUS
          <5>2. Numbers(FirstOf(from), next - 1) = <<>>
            BY <3>2, <4>1, <5>1, NumbersNone
          <5>3. QED
            BY <3>1, <5>2
        <4>3. Numbers(FirstOf(next), last) \in Seq(Nat)
          BY <1>0, FirstOfNat, NumbersRange
        <4>4. <<>> \o Numbers(FirstOf(next), last) = Numbers(FirstOf(next), last)
          BY <4>3
        <4>5. QED
          BY <1>1, <3>1, <4>1, <4>2, <4>4
      <3>5. QED
        BY <3>3, <3>4
    <2>3. QED
      BY <2>1, <2>2
  <1>5. CASE last < LastItem
    <2>1. at' = "reading" /\ hint' = last + 1 /\ hint' \in Nat /\ hint' - 1 = last
      BY <1>1, <1>5
    <2>2. hint' <= LastItem'
      BY <1>2, <1>5, <2>1
    <2>3. next <= last + 1
      BY <1>5
    <2>4. from' <= hint'
      <3>1. from' \in Nat /\ hint' \in Nat
        BY <1>3, <2>1
      <3>2. from' <= next /\ next <= hint'
        BY <1>3, <2>1, <2>3, Zenon
      <3>3. QED
        BY <3>1, <3>2, NatBetween, Zenon
    <2>5. QED
      BY <1>0, <1>1, <1>2, <1>3, <1>4, <2>1, <2>2, <2>4 DEF Paging, PagesCover
  <1>6. CASE ~(last < LastItem)
    <2>1. at' = "read" /\ last = LastItem
      BY <1>1, <1>2, <1>6
    <2>2. shown' = Numbers(FirstItem', LastItem')
      BY <1>2, <1>4, <2>1
    <2>3. QED
      BY <1>0, <1>1, <2>1, <2>2 DEF Paging, PagesCover
  <1>7. QED
    BY <1>5, <1>6

LEMMA SheetPaged ==
    ASSUME Paging, NEW start \in 1..MaxItem, NEW end \in 1..MaxItem, ReadSheet(start, end)
    PROVE  Paging'
  <1> DEFINE a == SheetArea
             last == Min({end, a[2]})
  <1>0. MaxItem \in Nat
    BY SizesAssumption
  <1>1. /\ file.kind = "sheet" /\ start <= end
        /\ (at = "start" \/ (at = "reading" /\ start = hint))
        /\ Answer(start, Numbers(Max({start, a[1]}), last), last, last < a[2])
    BY DEF ReadSheet, Asks, SheetPage
  <1>2. a[1] \in Nat \ {0} /\ a[2] \in Nat \ {0} /\ file \in Files
    BY <1>1, FileKinds, SheetRows DEF Paging
  <1>3. last = IF end <= a[2] THEN end ELSE a[2]
    BY <1>0, <1>2, MinTwo
  <1>4. Max({start, a[1]}) = FirstOf(start)
    <2>1. Max({start, a[1]}) = IF start >= a[1] THEN start ELSE a[1]
      BY <1>0, <1>2, MaxTwo
    <2>2. FirstOf(start) = IF start < a[1] THEN a[1] ELSE start
      BY <1>1 DEF FirstOf
    <2>3. QED
      BY <1>0, <1>2, <2>1, <2>2
  <1>5. LastItem = a[2]
    BY <1>1 DEF LastItem
  <1> HIDE DEF last, a
  <1>6. /\ start \in Nat \ {0} /\ last \in Nat /\ last <= LastItem
        /\ start = (IF at = "start" THEN start ELSE hint)
        /\ (last < LastItem => start <= last + 1)
        /\ (at = "reading" => start <= last + 1)
        /\ Answer(start, Numbers(FirstOf(start), last), last, last < LastItem)
        /\ at \in {"start", "reading"} /\ file.kind # "pdf"
    <2>1. at = "reading" => start <= LastItem
      BY <1>1 DEF Paging
    <2>2. start \in Nat \ {0} /\ end \in Nat \ {0}
      BY <1>0
    <2>3. Answer(start, Numbers(FirstOf(start), last), last, last < LastItem)
      BY <1>1, <1>4, <1>5
    <2>4. at \in {"start", "reading"} /\ file.kind # "pdf"
      BY <1>1
    <2>5. start = (IF at = "start" THEN start ELSE hint)
      BY <1>1
    <2>6. last \in Nat /\ last <= LastItem /\ (last < LastItem => start <= last + 1)
          /\ (at = "reading" => start <= last + 1)
      BY <1>1, <1>2, <1>3, <1>5, <2>1, <2>2
    <2>7. QED
      BY <2>2, <2>3, <2>4, <2>5, <2>6
  <1>7. QED
    BY <1>6, AnswerPages

LEMMA SectionEnds ==
    ASSUME file \in Document, NEW i \in 1..Len(file.paras)
    PROVE  SectionEnd(i) \in i..Len(file.paras)
  <1> DEFINE total == Len(file.paras)
             S == {j - 1 : j \in {k \in i+1..total : LevelOf(k) \in 1..LevelOf(i)}} \cup {total}
  <1>1. total \in Nat
    BY DEF Document
  <1>2. S \subseteq i..total /\ S \subseteq Nat /\ S # {}
    BY <1>1
  <1>3. SectionEnd(i) = Min(S)
    BY DEF SectionEnd
  <1> HIDE DEF S
  <1>4. Min(S) \in S
    BY <1>2, NatLeast
  <1>5. QED
    BY <1>2, <1>3, <1>4

LEMMA CutEnd ==
    ASSUME NEW first \in Nat, NEW last \in Nat
    PROVE  /\ Cut(first, last) \in Nat /\ Cut(first, last) <= last
           /\ Cut(first, last) = last \/ first <= Cut(first, last)
  <1>1. PageSize \in Nat \ {0}
    BY SizesAssumption
  <1>2. QED
    BY <1>1 DEF Cut

LEMMA DocumentPaged ==
    ASSUME Paging, NEW start \in 1..MaxItem, NEW end \in 1..MaxItem, ReadDocument(start, end)
    PROVE  Paging'
  <1> DEFINE total == Len(file.paras)
             upto == Min({total, end})
             last == Cut(start, upto)
  <1>0. MaxItem \in Nat
    BY SizesAssumption
  <1>1. start \in Nat \ {0} /\ end \in Nat \ {0}
    BY <1>0
  <1>2. Max({1, start}) = start
    BY <1>1, MaxTwo
  <1>3. /\ file.kind = "document" /\ start <= end
        /\ (at = "start" \/ (at = "reading" /\ start = hint))
        /\ Answer(start, Numbers(start, last), last, last < total)
    BY <1>2 DEF ReadDocument, Asks, DocumentPage
  <1>4. total \in Nat /\ file \in Files
    BY <1>3, FileKinds DEF Paging, Document
  <1>5. upto = IF total <= end THEN total ELSE end
    BY <1>1, <1>4, MinTwo
  <1>6. upto \in Nat
    BY <1>1, <1>4, <1>5
  <1>7. /\ last \in Nat /\ last <= upto
        /\ last = upto \/ start <= last
    <2> HIDE DEF upto
    <2>1. QED
      BY <1>1, <1>6, CutEnd
  <1>8. LastItem = total /\ FirstOf(start) = start
    BY <1>3 DEF LastItem, FirstOf
  <1> HIDE DEF last, upto, total
  <1>9. /\ start \in Nat \ {0} /\ last \in Nat /\ last <= LastItem
        /\ start = (IF at = "start" THEN start ELSE hint)
        /\ (last < LastItem => start <= last + 1)
        /\ (at = "reading" => start <= last + 1)
        /\ Answer(start, Numbers(FirstOf(start), last), last, last < LastItem)
        /\ at \in {"start", "reading"} /\ file.kind # "pdf"
    <2>1. at = "reading" => start <= total
      BY <1>3, <1>8 DEF Paging
    <2>2. last <= LastItem /\ (last < LastItem => start <= last + 1)
      BY <1>1, <1>3, <1>4, <1>5, <1>7, <1>8
    <2>3. at = "reading" => start <= last + 1
      BY <1>1, <1>3, <1>4, <1>5, <1>7, <2>1
    <2>4. Answer(start, Numbers(FirstOf(start), last), last, last < LastItem)
      BY <1>3, <1>8
    <2>5. at \in {"start", "reading"} /\ file.kind # "pdf"
      BY <1>3
    <2>6. start = (IF at = "start" THEN start ELSE hint)
      BY <1>3
    <2>7. QED
      BY <1>1, <1>7, <2>2, <2>3, <2>4, <2>5, <2>6
  <1>10. QED
    BY <1>9, AnswerPages

LEMMA SectionPaged ==
    ASSUME Paging, NEW i \in 1..MaxItem, ReadSection(i)
    PROVE  Paging'
  <1> DEFINE total == Len(file.paras)
             last == Cut(i, SectionEnd(i))
  <1>1. /\ file.kind = "document" /\ at = "start" /\ i \in 1..total
        /\ Answer(i, Numbers(i, last), last, last < total)
    BY DEF ReadSection, SectionPage
  <1>2. file \in Document /\ total \in Nat /\ file \in Files
    BY <1>1, FileKinds DEF Paging, Document
  <1>3. SectionEnd(i) \in i..total
    BY <1>1, <1>2, SectionEnds
  <1>4. i \in Nat \ {0} /\ SectionEnd(i) \in Nat
    BY <1>1, <1>2, <1>3
  <1>5. /\ last \in Nat /\ last <= SectionEnd(i)
        /\ last = SectionEnd(i) \/ i <= last
    BY <1>4, CutEnd
  <1>6. LastItem = total /\ FirstOf(i) = i
    BY <1>1 DEF LastItem, FirstOf
  <1> HIDE DEF last, total
  <1>7. /\ i \in Nat \ {0} /\ last \in Nat /\ last <= LastItem
        /\ i = (IF at = "start" THEN i ELSE hint)
        /\ (last < LastItem => i <= last + 1)
        /\ (at = "reading" => i <= last + 1)
        /\ Answer(i, Numbers(FirstOf(i), last), last, last < LastItem)
        /\ at \in {"start", "reading"} /\ file.kind # "pdf"
    BY <1>1, <1>2, <1>3, <1>4, <1>5, <1>6
  <1>8. QED
    BY <1>7, AnswerPages

LEMMA DashNumbers ==
    ASSUME NEW a \in Nat, NEW b \in Nat, NEW total \in Nat
    PROVE  ParsedAll(Dash(a, b), total) = Numbers(a, IF b <= total THEN b ELSE total)
  <1> DEFINE m == IF b <= total THEN b ELSE total
             d == [dash |-> TRUE, first |-> a, last |-> b]
  <1>1. Min({b, total}) = m
    BY MinTwo
  <1>2. d.dash /\ d.first = a /\ d.last = b
    OBVIOUS
  <1>3. ParsedPart(d, total) = a..m
    <2> HIDE DEF m, d
    <2>1. QED
      BY <1>1, <1>2 DEF ParsedPart
  <1>4. Dash(a, b) = {d}
    BY DEF Dash
  <1> HIDE DEF d
  <1>5. UNION {ParsedPart(part, total) : part \in Dash(a, b)} = a..m
    BY <1>3, <1>4
  <1>6. Sorted(a..m) = Numbers(a, m)
    BY SortedNumbers
  <1>7. QED
    BY <1>5, <1>6 DEF ParsedAll

LEMMA DeckPage ==
    ASSUME file \in Deck, NEW a \in Nat \ {0}, a = 1 \/ a <= Len(file.slides)
    PROVE  LET total == Len(file.slides)
               last == IF a + PageSize - 1 <= total THEN a + PageSize - 1 ELSE total
               p == SlidesPage(Dash(a, a + PageSize - 1))
           IN  p.numbers = Numbers(a, last) /\ p.last = last /\ p.more = (last < total)
  <1> DEFINE total == Len(file.slides)
             b == a + PageSize - 1
             m == IF b <= total THEN b ELSE total
             asked == ParsedAll(Dash(a, b), total)
             kept == SubSeq(asked, 1, Min({PageSize, Len(asked)}))
             end == IF kept = <<>> THEN 0 ELSE Last(kept)
  <1>1. /\ total \in Nat /\ PageSize \in Nat \ {0} /\ b \in Nat /\ m \in Nat
        /\ m <= b /\ m <= total /\ m >= a - 1
    BY SizesAssumption DEF Deck
  <1>2. asked = Numbers(a, m)
    <2> HIDE DEF total, b
    <2>1. QED
      BY <1>1, DashNumbers
  <1>3. /\ Numbers(a, m) \in Seq(Nat) /\ Rising(Numbers(a, m))
        /\ Range(Numbers(a, m)) = a..m
        /\ Len(Numbers(a, m)) = IF m < a THEN 0 ELSE m - a + 1
    <2> HIDE DEF m
    <2>1. QED
      BY <1>1, NumbersRange
  <1>4. Len(asked) \in Nat /\ Len(asked) <= PageSize
    <2>1. m - a + 1 <= PageSize
      BY <1>1
    <2> HIDE DEF m, asked
    <2>2. QED
      BY <1>1, <1>2, <1>3, <2>1
  <1>5. kept = asked
    <2>1. Min({PageSize, Len(asked)}) = Len(asked)
      <3> HIDE DEF asked
      <3>1. Min({PageSize, Len(asked)}) = IF PageSize <= Len(asked) THEN PageSize ELSE Len(asked)
        BY <1>1, <1>4, MinTwo
      <3>2. QED
        BY <1>1, <1>4, <3>1
    <2>2. IsSeq(asked)
      <3> HIDE DEF asked
      <3>1. asked \in Seq(Nat)
        BY <1>2, <1>3
      <3>2. QED
        BY <3>1, AnySeq
    <2> HIDE DEF asked
    <2>3. SubSeq(asked, 1, Len(asked)) = asked
      BY <2>2, WholePart
    <2>4. QED
      BY <2>1, <2>3
  <1>6. end = m
    <2>1. CASE m < a
      <3>1. a = 1 /\ m = 0
        BY <1>1, <2>1
      <3>2. Len(Numbers(a, m)) = 0
        BY <1>3, <2>1
      <3> HIDE DEF m, kept, asked
      <3>3. kept = <<>>
        BY <1>2, <1>3, <1>5, <3>2
      <3>4. QED
        BY <3>1, <3>3
    <2>2. CASE ~(m < a)
      <3>1. Len(Numbers(a, m)) = m - a + 1 /\ m - a + 1 > 0
        <4> HIDE DEF m
        <4>1. m - a + 1 > 0
          BY <1>1, <2>2
        <4>2. QED
          BY <1>3, <2>2, <4>1
      <3>2. Numbers(a, m)[m - a + 1] = m
        <4> HIDE DEF m
        <4>1. Numbers(a, m) = [i \in 1..(m - a + 1) |-> a + i - 1]
          BY <1>1, <2>2 DEF Numbers
        <4>2. m - a + 1 \in 1..(m - a + 1) /\ a + (m - a + 1) - 1 = m
          BY <1>1, <2>2
        <4>3. QED
          BY <4>1, <4>2
      <3> HIDE DEF m, kept, asked
      <3>3. kept # <<>>
        BY <1>2, <1>5, <3>1
      <3>4. Last(kept) = m
        BY <1>2, <1>5, <3>1, <3>2 DEF Last
      <3>5. QED
        BY <3>3, <3>4
    <2>3. QED
      BY <2>1, <2>2
  <1>7. Sorted(Range(kept) \cap 1..total) = Numbers(a, m)
    <2> HIDE DEF m, kept, asked, total
    <2>1. Range(kept) \cap 1..total = a..m
      BY <1>1, <1>2, <1>3, <1>5
    <2>2. QED
      BY <1>1, <2>1, SortedNumbers
  <1>8. SlidesPage(Dash(a, b)) =
          [numbers |-> Sorted(Range(kept) \cap 1..total), last |-> end, more |-> end < total]
    BY Zenon DEF SlidesPage
  <1> DEFINE p == SlidesPage(Dash(a, b))
  <1> HIDE DEF kept, end, m, total, b
  <1>9. p.numbers = Numbers(a, m) /\ p.last = m /\ p.more = (m < total)
    BY <1>6, <1>7, <1>8
  <1> HIDE DEF p
  <1>10. QED
    BY <1>9, Zenon DEF p, m, total, b

LEMMA SlidesPaged ==
    ASSUME Paging, NEW start \in 1..MaxItem, NEW end \in 1..MaxItem, ReadSlides(start, end)
    PROVE  Paging'
  <1> DEFINE total == Len(file.slides)
             next == IF at = "start" THEN 1 ELSE hint
             last == IF next + PageSize - 1 <= total THEN next + PageSize - 1 ELSE total
             p == SlidesPage(Dash(next, next + PageSize - 1))
  <1>0. PageSize \in Nat \ {0}
    BY SizesAssumption
  <1>1. file.kind = "slides" /\ (at = "start" \/ at = "reading")
    BY DEF ReadSlides, Asks
  <1>2. file \in Deck /\ total \in Nat /\ file \in Files
    BY <1>1, FileKinds DEF Paging, Deck
  <1>3. LastItem = total /\ FirstOf(next) = next
    BY <1>1 DEF LastItem, FirstOf
  <1>4. next \in Nat \ {0} /\ (next = 1 \/ next <= total) /\ (at = "reading" => next <= total)
    BY <1>1, <1>2, <1>3 DEF Paging
  <1>5. Answer(1, p.numbers, p.last, p.more)
    <2>1. CASE at = "start"
      <3>1. 1 + PageSize - 1 = PageSize
        BY <1>0
      <3>2. QED
        BY <2>1, <3>1 DEF ReadSlides
    <2>2. CASE at = "reading"
      BY <2>2 DEF ReadSlides
    <2>3. QED
      BY <1>1, <2>1, <2>2
  <1>6. p.numbers = Numbers(next, last) /\ p.last = last /\ p.more = (last < total)
    <2> HIDE DEF next
    <2>1. QED
      BY <1>2, <1>4, DeckPage, Zenon
  <1>7. /\ last \in Nat /\ last <= total /\ (last < total => next <= last + 1)
        /\ (at = "reading" => next <= last + 1)
    <2> HIDE DEF next, total
    <2>1. QED
      BY <1>0, <1>2, <1>4
  <1>8. Answer(1, Numbers(FirstOf(next), last), last, last < LastItem)
    <2> HIDE DEF next, last, p, total
    <2>1. QED
      BY <1>3, <1>5, <1>6
  <1>9. next = (IF at = "start" THEN 1 ELSE hint)
    OBVIOUS
  <1>10. at \in {"start", "reading"} /\ file.kind # "pdf"
    BY <1>1
  <1> HIDE DEF next, last, p, total
  <1>11. /\ 1 \in Nat \ {0} /\ next \in Nat /\ last <= LastItem
         /\ last < LastItem => next <= last + 1
    BY <1>3, <1>4, <1>7
  <1>12. QED
    BY <1>7, <1>8, <1>9, <1>10, <1>11, AnswerPages

LEMMA PdfPaged ==
    ASSUME Paging, NEW start \in 1..MaxItem, NEW end \in 1..MaxItem, ReadPdf(start, end)
    PROVE  Paging'
  <1>1. /\ file.kind = "pdf" /\ at = "start"
        /\ Answer(start, ParsedAll(Dash(1, PageSize), file.total), file.total, FALSE)
    BY DEF ReadPdf
  <1>2. file \in Files /\ file.total \in Nat /\ PageSize \in Nat
    BY <1>1, FileKinds, SizesAssumption DEF Paging, PdfFile
  <1>3. ParsedAll(Dash(1, PageSize), file.total)
          = Numbers(1, IF PageSize <= file.total THEN PageSize ELSE file.total)
    BY <1>2, DashNumbers
  <1> DEFINE m == IF file.total < PageSize THEN file.total ELSE PageSize
  <1>4. m = (IF PageSize <= file.total THEN PageSize ELSE file.total) /\ m \in Nat
    BY <1>2
  <1> HIDE DEF m
  <1>5. Numbers(1, m) \in Seq(Nat)
    BY <1>4, NumbersRange
  <1>6. /\ file' = file /\ at' = "read" /\ shown' = shown \o Numbers(1, m)
    BY <1>1, <1>3, <1>4 DEF Answer
  <1>7. shown' = Numbers(1, m)
    BY <1>1, <1>5, <1>6 DEF Paging
  <1>8. LastItem' = file.total
    BY <1>1, <1>6 DEF LastItem
  <1>9. QED
    BY <1>1, <1>2, <1>6, <1>7, <1>8 DEF Paging, PagesCover, m

LEMMA PagingStep ==
    ASSUME Paging, [ToolNext]_toolVars
    PROVE  Paging'
  <1>1. CASE UNCHANGED <<file, reading>>
    BY <1>1 DEF Paging, PagesCover, LastItem, FirstItem, SheetArea, reading
  <1>2. CASE ReadFails
    BY <1>2 DEF ReadFails, Paging, PagesCover
  <1>3. CASE ReadStep
    BY <1>3, SheetPaged, DocumentPaged, SectionPaged, SlidesPaged, PdfPaged DEF ReadStep
  <1>4. CASE Search \/ UNCHANGED toolVars
    BY <1>1, <1>4 DEF Search, toolVars, reading
  <1>5. CASE \E pdf \in Pdfs, spec \in Specs : Convert(pdf, spec)
    <2>1. \A pdf, spec : Convert(pdf, spec) => UNCHANGED <<file, reading>>
      BY Zenon DEF Convert
    <2>2. QED
      BY <1>1, <1>5, <2>1
  <1>6. QED
    BY <1>2, <1>3, <1>4, <1>5 DEF ToolNext

(***************************************************************************)
(* An agent that follows the hints to their end has seen everything from   *)
(* where it began, each item once and in order, and of a PDF the first     *)
(* pages, for any file, page size, beginnings and ends                     *)
(* (get_sheet_csv(), get_document_content(), get_slides_content()).        *)
(***************************************************************************)
THEOREM PagesCovered == ToolSpec => []PagesCover
  <1>1. ToolInit => Paging
    BY DEF ToolInit, Paging, PagesCover
  <1>2. Paging /\ [ToolNext]_toolVars => Paging'
    BY PagingStep
  <1>3. Paging => PagesCover
    BY DEF Paging
  <1>4. QED
    BY <1>1, <1>2, <1>3, PTL DEF ToolSpec

=============================================================================
