-------------------------- MODULE SimpleChatProofs --------------------------
(***************************************************************************)
(* Simple chats for any number of calls, chats and worker processes: a     *)
(* chat on which no two streams met is a dialogue, the model is asked with *)
(* all of it, its title stays, and answers and usage agree whatever breaks *)
(* off.                                                                    *)
(***************************************************************************)
EXTENDS SimpleChat, FiniteSetTheorems, WellFoundedInduction, TLAPS

ChatTypeInv ==
    /\ chat \in [Chat -> Row]
    /\ msgs \in [Chat -> SUBSET Message]
    /\ \A c \in Chat : IsFiniteSet(msgs[c])
    /\ usage \in [Chat -> SUBSET Request]
    /\ draft \in [Request -> Draft]
    /\ req \in [Request -> Call]
    /\ loop \in [Worker -> Request \cup {None}]
    /\ crossed \subseteq Chat
    /\ broken \subseteq Chat

\* No call of Bedrock is tried more often than it may be.
AttemptsLeft == \A r \in Request : req[r].tries < MaxAttempts

\* A stream whose question is committed, and one whose answer is flushed.
Asked == {"history", "call", "pull", "event", "answer"}
Answered == {"title", "bill", "close"}

Line(role, n, r) == [role |-> role, seq |-> n, by |-> r]
FlushedLine(r, role) == \E n \in Nat \ {0} : draft[r].msgs = {Line(role, n, r)}

\* What a request has flushed follows from where it is.
DraftAt == \A r \in Request :
    /\ req[r].chat = None <=> req[r].at \in {"idle", "ended"}
    /\ req[r].at \in {"idle", "ended", "delete"} \cup Asked => draft[r] = NoDraft
    /\ req[r].at = "save" => draft[r] \in {NoDraft, [NoDraft EXCEPT !.new = TRUE]}
    /\ req[r].at = "commit" =>
         FlushedLine(r, "user") /\ ~draft[r].usage /\ ~draft[r].title /\ ~draft[r].archive
    /\ req[r].at \in Answered =>
         /\ FlushedLine(r, "assistant") /\ ~draft[r].new /\ ~draft[r].archive
         /\ draft[r].usage = (req[r].at = "close")
         /\ req[r].at = "title" => ~draft[r].title
    /\ req[r].at = "archive" => draft[r] \in {NoDraft, [NoDraft EXCEPT !.archive = TRUE]}

\* A flushed row keeps the row of its chat from being deleted.
Referenced == \A r \in Request :
    draft[r] # NoDraft /\ ~draft[r].new => Exists(req[r].chat)

\* Who has not committed a question has no row yet.
Unwritten == \A c \in Chat : \A m \in msgs[c] : req[m.by].at \notin {"idle", "save", "commit"}

Alone == \A r, q \in Request :
    Streams(r) /\ Streams(q) /\ r # q /\ req[r].chat = req[q].chat => req[r].chat \in crossed

\* Numbers without gaps, and every answer after its question.
Numbered == \A c \in Chat \ crossed :
    /\ Seqs(msgs[c]) = 1..Cardinality(msgs[c])
    /\ \A m \in msgs[c] : m.role = "assistant" => Line("user", m.seq - 1, m.by) \in msgs[c]

\* A stream that is alone on its chat: the number it has taken is the next one, its
\* question is the last row, and its answer will come right after it.
Flow == \A r \in Request : Streams(r) /\ req[r].chat \notin crossed =>
    /\ req[r].at = "commit" => \A m \in draft[r].msgs : m.seq = Cardinality(msgs[req[r].chat]) + 1
    /\ req[r].at \in Asked =>
         /\ Exists(req[r].chat) => Question(r) # {}
         /\ \A q \in Question(r) : q.seq = Cardinality(msgs[req[r].chat])
    /\ req[r].at \in Answered => \A m \in draft[r].msgs :
         /\ m.seq = Cardinality(msgs[req[r].chat]) + 1
         /\ Line("user", m.seq - 1, r) \in msgs[req[r].chat]

Sent == \A r \in Request : req[r].at \in {"call", "pull", "event"} =>
    /\ Question(r) \subseteq req[r].sent
    /\ req[r].chat \notin crossed /\ Question(r) # {} => req[r].sent = msgs[req[r].chat]

\* A question without an answer is that of a stream under way.
TurnsTaken == \A c \in Chat \ (crossed \cup broken) :
    /\ \A m \in msgs[c] : (m.role = "user") = (m.seq % 2 = 1)
    /\ Cardinality(msgs[c]) % 2 = 1 =>
         \E r \in Request : /\ req[r].chat = c /\ Question(r) # {}
                            /\ req[r].at \in Asked \cup Answered

\* A stream that is to name its chat finds it without a name; a name is of an exchange
\* that was billed.
Titles ==
    /\ \A r \in Request :
         /\ Streams(r) /\ req[r].chat \notin crossed
         /\ req[r].first \/ req[r].at = "title" \/ draft[r].title
         => chat[req[r].chat].title = None
    /\ \A c \in Chat : chat[c].title # None => chat[c].status # "none" /\ usage[c] # {}

\* An event loop is blocked by a request that waits for Bedrock, and by no other.
LoopHeld == \A r \in Request :
    req[r].at \in {"call", "event"} <=> loop[WorkerOf[r]] = r

ChatInv ==
    /\ ChatTypeInv /\ AttemptsLeft /\ DraftAt /\ Referenced /\ Unwritten /\ Alone /\ Numbered
    /\ Flow /\ Sent /\ TurnsTaken /\ Titles /\ AnswersBilled /\ LoopHeld

-----------------------------------------------------------------------------
(* Numbers *)

LEMMA FiniteMax ==
    ASSUME NEW S \in SUBSET Nat, IsFiniteSet(S), S # {}
    PROVE  \E x \in S : \A y \in S : x >= y
  <1> DEFINE Bad == {U \in FiniteSubsetsOf(S) :
                        U # {} /\ \A x \in U : \E y \in U : ~(x >= y)}
  <1>1. ASSUME Bad # {}
        PROVE  FALSE
    <2>1. PICK U \in Bad : \A V \in Bad : <<V, U>> \notin StrictSubsetOrdering(S)
      <3>1. IsWellFoundedOn(StrictSubsetOrdering(S), FiniteSubsetsOf(S))
        BY FS_StrictSubsetOrderingWellFounded
      <3>2. Bad \subseteq FiniteSubsetsOf(S)
        OBVIOUS
      <3> HIDE DEF Bad
      <3>3. QED
        BY <1>1, <3>1, <3>2, WFMin, Zenon
    <2>2. U \in SUBSET S /\ IsFiniteSet(U) /\ U # {}
      BY DEF FiniteSubsetsOf
    <2>3. PICK a \in U : TRUE
      BY <2>2
    <2>4. U \ {a} \in SUBSET S /\ IsFiniteSet(U \ {a})
      BY <2>2, FS_RemoveElement
    <2>5. <<U \ {a}, U>> \in StrictSubsetOrdering(S)
      BY <2>2, <2>3, <2>4 DEF StrictSubsetOrdering
    <2>6. U \ {a} \notin Bad
      BY <2>1, <2>5
    <2>7. U \ {a} # {}
      BY <2>2, <2>3
    <2>8. PICK x \in U \ {a} : \A y \in U \ {a} : x >= y
      BY <2>4, <2>6, <2>7 DEF FiniteSubsetsOf
    <2>9. a \in Nat /\ x \in Nat
      BY <2>2, <2>3, <2>8
    <2>10. \E z \in U : \A y \in U : z >= y
      <3>1. CASE x >= a
        BY <2>8, <3>1
      <3>2. CASE ~(x >= a)
        <4>1. \A y \in U : a >= y
          BY <2>2, <2>8, <2>9, <3>2
        <4>2. QED
          BY <2>3, <4>1
      <3>3. QED
        BY <3>1, <3>2
    <2>11. QED
      BY <2>1, <2>10
  <1>2. S \in FiniteSubsetsOf(S)
    BY DEF FiniteSubsetsOf
  <1>3. QED
    BY <1>1, <1>2

LEMMA MaxOfSet ==
    ASSUME NEW S \in SUBSET Nat, IsFiniteSet(S), S # {}
    PROVE  Max(S) \in S /\ \A y \in S : Max(S) >= y
  BY FiniteMax DEF Max

LEMMA SeqsFinite ==
    ASSUME NEW S \in SUBSET Message, IsFiniteSet(S)
    PROVE  Seqs(S) \in SUBSET Nat /\ IsFiniteSet(Seqs(S))
  <1> DEFINE f == [m \in S |-> m.seq]
  <1>1. f \in Surjection(S, Seqs(S))
    BY DEF Surjection, Seqs
  <1>2. IsFiniteSet(Seqs(S))
    BY <1>1, FS_Surjection
  <1>3. QED
    BY <1>2 DEF Seqs, Message

\* A number that follows those of the rows in sight.
LEMMA NextSeqType ==
    ASSUME ChatTypeInv, NEW r \in Request, req[r].chat \in Chat, draft[r].msgs = {}
    PROVE  /\ NextSeq(r) \in Nat \ {0}
           /\ Seqs(msgs[req[r].chat]) = 1..Cardinality(msgs[req[r].chat]) =>
                NextSeq(r) = Cardinality(msgs[req[r].chat]) + 1
  <1> DEFINE S == msgs[req[r].chat]
             T == {0} \cup Seqs(S)
  <1>1. S \in SUBSET Message /\ IsFiniteSet(S)
    BY DEF ChatTypeInv
  <1>2. T \in SUBSET Nat /\ IsFiniteSet(T) /\ T # {}
    <2>1. Seqs(S) \in SUBSET Nat /\ IsFiniteSet(Seqs(S))
      BY <1>1, SeqsFinite
    <2>2. IsFiniteSet(Seqs(S) \cup {0})
      BY <2>1, FS_AddElement
    <2>3. T = Seqs(S) \cup {0}
      OBVIOUS
    <2>4. QED
      BY <2>1, <2>2, <2>3
  <1>3. Max(T) \in T /\ \A y \in T : Max(T) >= y
    BY <1>2, MaxOfSet
  <1>4. NextSeq(r) = Max(T) + 1
    <2>1. Visible(r) = S
      BY DEF Visible
    <2>2. QED
      BY <2>1 DEF NextSeq
  <1>5. Cardinality(S) \in Nat
    BY <1>1, FS_CardinalityType
  <1>6. Seqs(S) = 1..Cardinality(S) => Max(T) = Cardinality(S)
    <2> HAVE Seqs(S) = 1..Cardinality(S)
    <2>1. T = 0..Cardinality(S)
      BY <1>5
    <2> HIDE DEF T, S
    <2>2. QED
      BY <1>3, <1>5, <2>1
  <1>7. QED
    BY <1>2, <1>3, <1>4, <1>6

-----------------------------------------------------------------------------
(* Types *)

LEMMA AtChat ==
    ASSUME ChatTypeInv, DraftAt, NEW r \in Request, req[r].at \notin {"idle", "ended"}
    PROVE  req[r].chat \in Chat /\ req[r].chat # None
  BY ChatAssumption DEF ChatTypeInv, DraftAt, Call

Places == {"idle", "save", "commit", "history", "call", "pull", "event", "answer",
           "title", "bill", "close", "archive", "delete", "ended"}

LEMMA PlacesOfCalls ==
    ASSUME ChatTypeInv, NEW r \in Request
    PROVE  req[r] \in Call /\ req[r].at \in Places
  BY DEF ChatTypeInv, Call, Places

LEMMA FreshCall ==
    ASSUME NEW where \in Places, NEW c \in Chat \cup {None}, NEW b \in BOOLEAN
    PROVE  /\ [NoCall EXCEPT !.at = where] \in Call
           /\ [NoCall EXCEPT !.at = where, !.chat = c] \in Call
           /\ [NoCall EXCEPT !.at = where, !.chat = c, !.first = b] \in Call
  <1>1. 0 \in 0..MaxAttempts
    BY ChatAssumption
  <1>2. NoCall \in Call
    BY <1>1 DEF Call, NoCall
  <1>3. QED
    BY <1>2 DEF Call, Places, NoCall

LEMMA GoToType ==
    ASSUME ChatTypeInv, NEW r \in Request, NEW where \in Places, GoTo(r, where)
    PROVE  req' \in [Request -> Call]
  <1>1. req[r] \in Call
    BY DEF ChatTypeInv
  <1>2. [req[r] EXCEPT !.at = where] \in Call
    BY <1>1 DEF Call, Places
  <1>3. QED
    BY <1>2 DEF GoTo, ChatTypeInv

LEMMA EndType ==
    ASSUME ChatTypeInv, NEW r \in Request, End(r)
    PROVE  req' \in [Request -> Call] /\ draft' \in [Request -> Draft]
  <1>1. [NoCall EXCEPT !.at = "ended"] \in Call
    BY FreshCall DEF Places
  <1>2. NoDraft \in Draft
    BY DEF NoDraft, Draft
  <1>3. QED
    BY <1>1, <1>2 DEF ChatTypeInv, End

LEMMA StoreType ==
    ASSUME ChatTypeInv, DraftAt, NEW r \in Request, req[r].at \notin {"idle", "ended"}, Store(r)
    PROVE  /\ chat' \in [Chat -> Row]
           /\ msgs' \in [Chat -> SUBSET Message]
           /\ \A c \in Chat : IsFiniteSet(msgs'[c])
           /\ usage' \in [Chat -> SUBSET Request]
  <1>1. req[r].chat \in Chat
    BY AtChat
  <1>2. chat' \in [Chat -> Row]
    BY <1>1 DEF ChatTypeInv, Store, Row, TitleOf
  <1>3. usage' \in [Chat -> SUBSET Request]
    BY <1>1 DEF ChatTypeInv, Store
  <1>4. draft[r].msgs \in SUBSET Message
    BY DEF ChatTypeInv, Draft
  <1>5. msgs' \in [Chat -> SUBSET Message]
    BY <1>1, <1>4 DEF ChatTypeInv, Store
  <1>6. draft[r].msgs = {} \/ \E m : draft[r].msgs = {m}
    <2>1. CASE req[r].at \in {"commit"} \cup Answered
      BY <2>1 DEF DraftAt, FlushedLine
    <2>2. CASE req[r].at \notin {"commit"} \cup Answered
      <3>1. draft[r] \in {NoDraft, [NoDraft EXCEPT !.new = TRUE], [NoDraft EXCEPT !.archive = TRUE]}
        BY <2>2, PlacesOfCalls DEF DraftAt, Asked, Answered, Places
      <3>2. QED
        BY <3>1 DEF NoDraft
    <2>3. QED
      BY <2>1, <2>2
  <1>7. \A c \in Chat : IsFiniteSet(msgs[c] \cup draft[r].msgs)
    <2>1. CASE draft[r].msgs = {}
      BY <2>1 DEF ChatTypeInv
    <2>2. ASSUME NEW m, draft[r].msgs = {m}
          PROVE  \A c \in Chat : IsFiniteSet(msgs[c] \cup draft[r].msgs)
      BY <2>2, FS_AddElement DEF ChatTypeInv
    <2>3. QED
      BY <1>6, <2>1, <2>2
  <1>8. \A c \in Chat : msgs'[c] \in {msgs[c], msgs[c] \cup draft[r].msgs}
    BY <1>1 DEF ChatTypeInv, Store
  <1>9. \A c \in Chat : IsFiniteSet(msgs'[c])
    BY <1>7, <1>8 DEF ChatTypeInv
  <1>10. QED
    BY <1>2, <1>3, <1>5, <1>9

LEMMA AddMessageType ==
    ASSUME ChatTypeInv, DraftAt, NEW r \in Request, req[r].at \in {"save", "answer"},
           NEW role \in {"user", "assistant"}, AddMessage(r, role)
    PROVE  draft' \in [Request -> Draft]
  <1>1. req[r].chat \in Chat /\ draft[r].msgs = {}
    BY AtChat DEF DraftAt, NoDraft, Asked
  <1>2. NextSeq(r) \in Nat \ {0}
    BY <1>1, NextSeqType
  <1>3. [role |-> role, seq |-> NextSeq(r), by |-> r] \in Message
    BY <1>2 DEF Message
  <1>4. [draft[r] EXCEPT !.msgs = @ \cup {[role |-> role, seq |-> NextSeq(r), by |-> r]}] \in Draft
    BY <1>3 DEF ChatTypeInv, Draft
  <1>5. QED
    BY <1>4 DEF ChatTypeInv, AddMessage

LEMMA TypeStep ==
    ASSUME ChatTypeInv, AttemptsLeft, DraftAt, Next
    PROVE  ChatTypeInv'
  <1>1. PICK r \in Request :
           \/ \E c \in Chat : BeginStep(r, c)
           \/ Refuse(r) \/ StreamStep(r) \/ DatabaseFails(r) \/ Disconnect(r)
           \/ ArchiveUpdate(r) \/ ArchiveCommit(r) \/ DeleteCommit(r) \/ AdminFails(r)
    BY DEF Next
  <1> WorkerOf[r] \in Worker
    BY ChatAssumption
  <1>2. ASSUME NEW c \in Chat, BeginStep(r, c)
        PROVE  ChatTypeInv'
    <2>1. [NoCall EXCEPT !.at = "save", !.chat = c, !.first = TRUE] \in Call
          /\ [NoCall EXCEPT !.at = "save", !.chat = c, !.first = (chat[c].title = None)] \in Call
          /\ [NoCall EXCEPT !.at = "archive", !.chat = c] \in Call
          /\ [NoCall EXCEPT !.at = "delete", !.chat = c] \in Call
      BY FreshCall DEF Places
    <2>2. CASE StreamNew(r, c)
      BY <2>1, <2>2 DEF StreamNew, Join, ChatTypeInv, tables, Draft
    <2>3. CASE StreamOn(r, c)
      BY <2>1, <2>3 DEF StreamOn, Join, ChatTypeInv, tables
    <2>4. CASE Load(r, c, "archive") \/ Load(r, c, "delete")
      BY <2>1, <2>4 DEF Load, ChatTypeInv, tables, history
    <2>5. QED
      BY <1>2, <2>2, <2>3, <2>4 DEF BeginStep
  <1>3. CASE Refuse(r) \/ AdminFails(r)
    BY <1>3, EndType DEF Refuse, AdminFails, ChatTypeInv, tables, history
  <1>4. CASE DatabaseFails(r) \/ Disconnect(r) \/ CallFails(r) \/ StreamBreaks(r)
    <2>1. End(r) /\ UNCHANGED <<tables, crossed>>
          /\ loop' \in [Worker -> Request \cup {None}]
          /\ broken' = broken \cup {c \in {req[r].chat} : Question(r) # {}}
      BY <1>4 DEF DatabaseFails, Disconnect, CallFails, StreamBreaks, Break, Release, ChatTypeInv
    <2>2. req[r].chat \in Chat
      BY <1>4, AtChat DEF DatabaseFails, Disconnect, CallFails, StreamBreaks, Streams
    <2>3. QED
      BY <2>1, <2>2, EndType DEF ChatTypeInv, tables
  <1>5. CASE StreamStep(r)
    <2>1. CASE SaveQuestion(r)
      <3>1. req' \in [Request -> Call]
        BY <2>1, GoToType DEF SaveQuestion, Places
      <3>2. QED
        BY <2>1, <3>1, AddMessageType DEF SaveQuestion, ChatTypeInv, tables, history
    <2>2. CASE CommitQuestion(r)
      <3>1. req' \in [Request -> Call]
        BY <2>2, GoToType DEF CommitQuestion, Places
      <3>2. draft' \in [Request -> Draft]
        BY <2>2 DEF CommitQuestion, ChatTypeInv, Draft, NoDraft
      <3>3. QED
        BY <2>2, <3>1, <3>2, StoreType DEF CommitQuestion, ChatTypeInv, history
    <2>3. CASE ReadHistory(r)
      <3>1. req[r] \in Call /\ msgs[req[r].chat] \in SUBSET Message
        BY <2>3, AtChat DEF ReadHistory, ChatTypeInv
      <3>2. [req[r] EXCEPT !.at = "call", !.sent = msgs[req[r].chat]] \in Call
        BY <3>1 DEF Call
      <3>3. req' \in [Request -> Call]
        BY <2>3, <3>2 DEF ReadHistory, ChatTypeInv
      <3>4. QED
        BY <2>3, <3>3 DEF ReadHistory, ChatTypeInv, tables, history
    <2>4. CASE CallSucceeds(r)
      <3>1. req' \in [Request -> Call]
        BY <2>4, GoToType DEF CallSucceeds, Places
      <3>2. QED
        BY <2>4, <3>1 DEF CallSucceeds, ChatTypeInv, tables, history
    <2>5. CASE CallRetried(r)
      <3>1. req[r] \in Call /\ req[r].tries \in 0..MaxAttempts
        BY PlacesOfCalls DEF Call
      <3>2. req[r].tries + 1 \in 0..MaxAttempts
        BY <3>1, ChatAssumption DEF AttemptsLeft
      <3>3. [req[r] EXCEPT !.tries = @ + 1] \in Call
        BY <3>1, <3>2 DEF Call
      <3>4. req' \in [Request -> Call]
        BY <2>5, <3>3 DEF CallRetried, ChatTypeInv
      <3>5. QED
        BY <2>5, <3>4 DEF CallRetried, ChatTypeInv, tables, history
    <2>6. CASE Pull(r)
      <3>1. req' \in [Request -> Call]
        BY <2>6, GoToType DEF Pull, Places
      <3>2. QED
        BY <2>6, <3>1 DEF Pull, ChatTypeInv, tables, history
    <2>7. CASE TextDelta(r)
      <3>1. [req[r] EXCEPT !.at = "pull", !.text = TRUE] \in Call
        BY PlacesOfCalls DEF Call
      <3>2. req' \in [Request -> Call]
        BY <2>7, <3>1 DEF TextDelta, ChatTypeInv
      <3>3. QED
        BY <2>7, <3>2 DEF TextDelta, Release, ChatTypeInv, tables, history
    <2>8. CASE StreamEnds(r)
      <3>1. req' \in [Request -> Call]
        BY <2>8, GoToType DEF StreamEnds, Places
      <3>2. QED
        BY <2>8, <3>1 DEF StreamEnds, Release, ChatTypeInv, tables, history
    <2>9. CASE SaveAnswer(r)
      <3>1. \A where \in Places : [NoCall EXCEPT !.at = where, !.chat = req[r].chat] \in Call
        BY <2>9, AtChat, FreshCall DEF SaveAnswer
      <3>2. req' \in [Request -> Call]
        BY <2>9, <3>1 DEF SaveAnswer, ChatTypeInv, Places
      <3>3. QED
        BY <2>9, <3>2, AddMessageType DEF SaveAnswer, ChatTypeInv, tables, history
    <2>10. CASE UpdateTitle(r)
      <3>1. req' \in [Request -> Call]
        BY <2>10, GoToType DEF UpdateTitle, Places
      <3>2. draft' \in [Request -> Draft]
        BY <2>10 DEF UpdateTitle, ChatTypeInv, Draft
      <3>3. QED
        BY <2>10, <3>1, <3>2 DEF UpdateTitle, ChatTypeInv, tables, history
    <2>11. CASE SaveUsage(r)
      <3>1. req' \in [Request -> Call]
        BY <2>11, GoToType DEF SaveUsage, Places
      <3>2. draft' \in [Request -> Draft]
        BY <2>11 DEF SaveUsage, ChatTypeInv, Draft
      <3>3. QED
        BY <2>11, <3>1, <3>2 DEF SaveUsage, ChatTypeInv, tables, history
    <2>12. CASE Commit(r)
      BY <2>12, StoreType, EndType DEF Commit, ChatTypeInv, history
    <2>13. QED
      BY <1>4, <1>5, <2>1, <2>2, <2>3, <2>4, <2>5, <2>6, <2>7, <2>8, <2>9, <2>10, <2>11, <2>12
      DEF StreamStep
  <1>6. CASE ArchiveUpdate(r)
    BY <1>6 DEF ArchiveUpdate, ChatTypeInv, tables, history, Draft
  <1>7. CASE ArchiveCommit(r)
    BY <1>7, StoreType, EndType DEF ArchiveCommit, ChatTypeInv, history
  <1>8. CASE DeleteCommit(r)
    <2>1. req[r].chat \in Chat
      BY <1>8, AtChat DEF DeleteCommit
    <2>2. chat' \in [Chat -> Row] /\ msgs' \in [Chat -> SUBSET Message]
      BY <1>8, <2>1 DEF DeleteCommit, ChatTypeInv, Row
    <2>3. \A c \in Chat : IsFiniteSet(msgs'[c])
      BY <1>8, <2>1, FS_EmptySet DEF DeleteCommit, ChatTypeInv
    <2>4. QED
      BY <1>8, <2>2, <2>3, EndType DEF DeleteCommit, ChatTypeInv, history
  <1>9. QED
    BY <1>1, <1>2, <1>3, <1>4, <1>5, <1>6, <1>7, <1>8

-----------------------------------------------------------------------------
(* What a step of a request leaves alone *)

Step(r) ==
    \/ \E c \in Chat : BeginStep(r, c)
    \/ Refuse(r) \/ StreamStep(r) \/ DatabaseFails(r) \/ Disconnect(r)
    \/ ArchiveUpdate(r) \/ ArchiveCommit(r) \/ DeleteCommit(r) \/ AdminFails(r)

LEMMA Steps == Next <=> \E r \in Request : Step(r)
  BY DEF Next, Step

\* Steps that change nothing but the request, and those that end it without a commit.
Quiet(r) ==
    \/ SaveQuestion(r) \/ ReadHistory(r) \/ CallSucceeds(r) \/ CallRetried(r) \/ Pull(r)
    \/ TextDelta(r) \/ StreamEnds(r) \/ SaveAnswer(r) \/ UpdateTitle(r) \/ SaveUsage(r)
    \/ ArchiveUpdate(r) \/ (\E c \in Chat : Load(r, c, "archive") \/ Load(r, c, "delete"))
Enter(r) == \E c \in Chat : StreamNew(r, c) \/ StreamOn(r, c)
Leave(r) == Refuse(r) \/ AdminFails(r)
BreakOff(r) == DatabaseFails(r) \/ Disconnect(r) \/ CallFails(r) \/ StreamBreaks(r)
StoreStep(r) == CommitQuestion(r) \/ Commit(r) \/ ArchiveCommit(r)

LEMMA StepKinds ==
    ASSUME NEW r \in Request, Step(r)
    PROVE  Quiet(r) \/ Enter(r) \/ Leave(r) \/ BreakOff(r) \/ StoreStep(r) \/ DeleteCommit(r)
  BY DEF Step, StreamStep, BeginStep, Quiet, Enter, Leave, BreakOff, StoreStep

LEMMA QuietEffect ==
    ASSUME ChatTypeInv, NEW r \in Request, Quiet(r)
    PROVE  /\ UNCHANGED <<chat, msgs, usage, known, crossed, broken>>
           /\ \A q \in Request \ {r} : req'[q] = req[q] /\ draft'[q] = draft[q]
  BY DEF Quiet, ChatTypeInv, tables, history, SaveQuestion, ReadHistory, CallSucceeds, CallRetried,
     Pull, TextDelta, StreamEnds, SaveAnswer, UpdateTitle, SaveUsage, ArchiveUpdate, Load, GoTo,
     AddMessage

LEMMA EnterEffect ==
    ASSUME ChatTypeInv, NEW r \in Request, Enter(r)
    PROVE  /\ UNCHANGED <<chat, msgs, usage, loop, broken>>
           /\ req[r].at = "idle" /\ FreeLoop(r)
           /\ req'[r].at = "save" /\ req'[r].chat \in Chat /\ req'[r].tries = 0
           /\ req'[r].first => chat[req'[r].chat].status = "none" \/ chat[req'[r].chat].title = None
           /\ draft'[r] \in {draft[r], [draft[r] EXCEPT !.new = TRUE]}
           /\ crossed \subseteq crossed'
           /\ req'[r].chat \notin crossed' => StreamsOn(req'[r].chat) = {}
           /\ \A q \in Request \ {r} : req'[q] = req[q] /\ draft'[q] = draft[q]
  <1>1. PICK c \in Chat : StreamNew(r, c) \/ StreamOn(r, c)
    BY DEF Enter
  <1>2. \A b : [NoCall EXCEPT !.at = "save", !.chat = c, !.first = b].at = "save"
          /\ [NoCall EXCEPT !.at = "save", !.chat = c, !.first = b].chat = c
          /\ [NoCall EXCEPT !.at = "save", !.chat = c, !.first = b].first = b
          /\ [NoCall EXCEPT !.at = "save", !.chat = c, !.first = b].tries = 0
    BY DEF NoCall
  <1>3. CASE StreamNew(r, c)
    BY <1>2, <1>3 DEF StreamNew, Join, ChatTypeInv, tables
  <1>4. CASE StreamOn(r, c)
    <2>1. req'[r] = [NoCall EXCEPT !.at = "save", !.chat = c, !.first = (chat[c].title = None)]
      BY <1>4 DEF StreamOn, Join, ChatTypeInv
    <2>2. req'[r].at = "save" /\ req'[r].chat = c /\ req'[r].tries = 0
          /\ req'[r].first = (chat[c].title = None)
      BY <1>2, <2>1
    <2>3. UNCHANGED <<chat, msgs, usage, draft, loop, broken>> /\ req[r].at = "idle" /\ FreeLoop(r)
      BY <1>4 DEF StreamOn, tables
    <2>4. crossed' = IF StreamsOn(c) = {} THEN crossed ELSE crossed \cup {c}
      BY <1>4 DEF StreamOn, Join
    <2>5. \A q \in Request \ {r} : req'[q] = req[q]
      BY <1>4 DEF StreamOn, Join, ChatTypeInv
    <2>6. QED
      BY <2>2, <2>3, <2>4, <2>5
  <1>5. QED
    BY <1>1, <1>3, <1>4

LEMMA EndEffect ==
    ASSUME ChatTypeInv, NEW r \in Request, End(r)
    PROVE  /\ req'[r] = [NoCall EXCEPT !.at = "ended"] /\ draft'[r] = NoDraft
           /\ req'[r].at = "ended" /\ req'[r].chat = None /\ req'[r].tries = 0
           /\ \A q \in Request \ {r} : req'[q] = req[q] /\ draft'[q] = draft[q]
  <1>1. req'[r] = [NoCall EXCEPT !.at = "ended"]
    BY DEF End, ChatTypeInv
  <1>2. QED
    BY <1>1 DEF End, ChatTypeInv, NoCall

LEMMA BreakOffEffect ==
    ASSUME ChatTypeInv, NEW r \in Request, BreakOff(r)
    PROVE  /\ UNCHANGED <<chat, msgs, usage, crossed>>
           /\ Streams(r) /\ End(r)
           /\ broken' = broken \cup {c \in {req[r].chat} : Question(r) # {}}
  BY DEF BreakOff, DatabaseFails, Disconnect, CallFails, StreamBreaks, Break, tables, Streams

LEMMA StoreEffect ==
    ASSUME ChatTypeInv, NEW r \in Request, StoreStep(r)
    PROVE  /\ Store(r) /\ FreeLoop(r) /\ UNCHANGED <<loop, crossed, broken>>
           /\ req[r].at \in {"commit", "close", "archive"}
           /\ req[r].at = "commit" => req'[r] = [req[r] EXCEPT !.at = "history"]
           /\ req[r].at = "archive" => draft[r].archive
           /\ req[r].at # "commit" => End(r)
           /\ draft'[r] = NoDraft
           /\ \A q \in Request \ {r} : req'[q] = req[q] /\ draft'[q] = draft[q]
  BY DEF StoreStep, CommitQuestion, Commit, ArchiveCommit, End, GoTo, ChatTypeInv, history

LEMMA OthersKept ==
    ASSUME ChatTypeInv, NEW r \in Request, Step(r)
    PROVE  /\ \A q \in Request \ {r} : req'[q] = req[q] /\ draft'[q] = draft[q]
           /\ crossed \subseteq crossed' /\ broken \subseteq broken'
  <1>1. CASE Quiet(r)
    BY <1>1, QuietEffect
  <1>2. CASE Enter(r)
    BY <1>2, EnterEffect
  <1>3. CASE BreakOff(r)
    BY <1>3, BreakOffEffect, EndEffect
  <1>4. CASE Leave(r) \/ DeleteCommit(r)
    BY <1>4, EndEffect DEF Leave, Refuse, AdminFails, DeleteCommit, history
  <1>5. CASE StoreStep(r)
    BY <1>5, StoreEffect
  <1>6. QED
    BY <1>1, <1>2, <1>3, <1>4, <1>5, StepKinds

-----------------------------------------------------------------------------
(* Requests and their drafts *)

LEMMA AttemptsStep ==
    ASSUME ChatTypeInv, AttemptsLeft, NEW r \in Request, Step(r)
    PROVE  AttemptsLeft'
  <1>1. SUFFICES ASSUME NEW q \in Request
                 PROVE  req'[q].tries < MaxAttempts
    BY DEF AttemptsLeft
  <1>2. NoCall.tries = 0 /\ 0 < MaxAttempts
    BY ChatAssumption DEF NoCall
  <1>3. CASE q # r
    BY <1>3, OthersKept DEF AttemptsLeft
  <1>4. CASE q = r
    <2>1. CASE Enter(r)
      BY <1>2, <1>4, <2>1, EnterEffect
    <2>2. CASE Leave(r) \/ BreakOff(r) \/ DeleteCommit(r)
      BY <1>2, <1>4, <2>2, EndEffect, BreakOffEffect DEF Leave, Refuse, AdminFails, DeleteCommit
    <2>3. CASE StoreStep(r)
      <3>1. req'[r].tries = 0 \/ req'[r] = [req[r] EXCEPT !.at = "history"]
        BY <2>3, EndEffect, StoreEffect
      <3>2. req'[r].tries \in {0, req[r].tries}
        BY <3>1, PlacesOfCalls DEF Call
      <3>3. QED
        BY <1>2, <1>4, <3>2 DEF AttemptsLeft
    <2>4. CASE CallRetried(r)
      <3>1. req[r].tries \in Int /\ req[r].tries < MaxAttempts /\ req[r].tries # MaxAttempts - 1
        BY <2>4, PlacesOfCalls DEF AttemptsLeft, CallRetried, LastAttempt, Call
      <3>2. req'[r].tries = req[r].tries + 1
        BY <2>4, PlacesOfCalls DEF CallRetried, ChatTypeInv, Call
      <3>3. QED
        BY <1>4, <3>1, <3>2, ChatAssumption
    <2>5. CASE SaveAnswer(r) \/ \E c \in Chat : Load(r, c, "archive") \/ Load(r, c, "delete")
      <3>1. req'[r].tries = 0
        <4>1. CASE SaveAnswer(r)
          BY <4>1 DEF SaveAnswer, ChatTypeInv, NoCall
        <4>2. ASSUME NEW c \in Chat, NEW what \in {"archive", "delete"}, Load(r, c, what)
              PROVE  req'[r].tries = 0
          BY <4>2 DEF Load, ChatTypeInv, NoCall
        <4>3. QED
          BY <2>5, <4>1, <4>2
      <3>2. QED
        BY <1>2, <1>4, <3>1
    <2>6. CASE SaveQuestion(r) \/ ReadHistory(r) \/ CallSucceeds(r) \/ Pull(r) \/ TextDelta(r)
               \/ StreamEnds(r) \/ UpdateTitle(r) \/ SaveUsage(r) \/ ArchiveUpdate(r)
      <3>1. req'[r].tries = req[r].tries
        <4>1. req[r] \in Call
          BY PlacesOfCalls
        <4>2. \A where : [req[r] EXCEPT !.at = where].tries = req[r].tries
          BY <4>1 DEF Call
        <4>3. CASE ReadHistory(r)
          BY <4>1, <4>3 DEF ReadHistory, ChatTypeInv, Call
        <4>4. CASE TextDelta(r)
          BY <4>1, <4>4 DEF TextDelta, ChatTypeInv, Call
        <4>5. CASE ArchiveUpdate(r)
          BY <4>5 DEF ArchiveUpdate
        <4>6. ASSUME NEW where, GoTo(r, where)
              PROVE  req'[r].tries = req[r].tries
          BY <4>2, <4>6 DEF GoTo, ChatTypeInv
        <4>7. QED
          BY <2>6, <4>3, <4>4, <4>5, <4>6
          DEF SaveQuestion, CallSucceeds, Pull, StreamEnds, UpdateTitle, SaveUsage
      <3>2. QED
        BY <1>4, <3>1 DEF AttemptsLeft
    <2>7. QED
      BY <2>1, <2>2, <2>3, <2>4, <2>5, <2>6, StepKinds DEF Quiet
  <1>5. QED
    BY <1>3, <1>4

\* The steps of a stream between question and answer.
Wait(r) ==
    ReadHistory(r) \/ CallSucceeds(r) \/ CallRetried(r) \/ Pull(r) \/ TextDelta(r) \/ StreamEnds(r)

LEMMA GoToEffect ==
    ASSUME ChatTypeInv, NEW r \in Request, NEW where, GoTo(r, where)
    PROVE  /\ req'[r].at = where /\ req'[r].chat = req[r].chat
           /\ req'[r].first = req[r].first /\ req'[r].sent = req[r].sent
  <1>1. req'[r] = [req[r] EXCEPT !.at = where]
    BY DEF GoTo, ChatTypeInv
  <1>2. QED
    BY <1>1, PlacesOfCalls DEF Call

LEMMA WaitEffect ==
    ASSUME ChatTypeInv, NEW r \in Request, Wait(r)
    PROVE  /\ UNCHANGED <<chat, msgs, usage, draft, known, crossed, broken>>
           /\ req[r].at \in Asked /\ req'[r].at \in Asked \ {"history"}
           /\ req'[r].chat = req[r].chat /\ req'[r].first = req[r].first
           /\ \/ req[r].at = "history" /\ req'[r].sent = msgs[req[r].chat]
              \/ req[r].at \in {"call", "pull", "event"} /\ req'[r].sent = req[r].sent
  <1>1. CASE ReadHistory(r)
    <2>1. req'[r] = [req[r] EXCEPT !.at = "call", !.sent = msgs[req[r].chat]]
      BY <1>1 DEF ReadHistory, ChatTypeInv
    <2>2. req'[r].at = "call" /\ req'[r].sent = msgs[req[r].chat]
          /\ req'[r].chat = req[r].chat /\ req'[r].first = req[r].first
      BY <2>1, PlacesOfCalls DEF Call
    <2>3. QED
      BY <1>1, <2>2 DEF ReadHistory, tables, history, Asked
  <1>2. CASE CallSucceeds(r) \/ Pull(r) \/ StreamEnds(r)
    BY <1>2, GoToEffect DEF CallSucceeds, Pull, StreamEnds, tables, history, Asked
  <1>3. CASE CallRetried(r)
    <2>1. req'[r] = [req[r] EXCEPT !.tries = @ + 1]
      BY <1>3 DEF CallRetried, ChatTypeInv
    <2>2. QED
      BY <1>3, <2>1, PlacesOfCalls DEF CallRetried, tables, history, Call, Asked
  <1>4. CASE TextDelta(r)
    <2>1. req'[r] = [req[r] EXCEPT !.at = "pull", !.text = TRUE]
      BY <1>4 DEF TextDelta, ChatTypeInv
    <2>2. req'[r].at = "pull" /\ req'[r].sent = req[r].sent
          /\ req'[r].chat = req[r].chat /\ req'[r].first = req[r].first
      BY <2>1, PlacesOfCalls DEF Call
    <2>3. QED
      BY <1>4, <2>2 DEF TextDelta, tables, history, Asked
  <1>5. QED
    BY <1>1, <1>2, <1>3, <1>4 DEF Wait

LEMMA SaveQuestionEffect ==
    ASSUME ChatTypeInv, DraftAt, NEW r \in Request, SaveQuestion(r)
    PROVE  /\ req[r].at = "save" /\ req'[r].at = "commit" /\ UNCHANGED loop
           /\ req'[r].chat = req[r].chat /\ req'[r].first = req[r].first
           /\ NextSeq(r) \in Nat \ {0}
           /\ draft'[r] = [draft[r] EXCEPT !.msgs = {Line("user", NextSeq(r), r)}]
           /\ Exists(req[r].chat) \/ draft[r].new
           /\ draft[r] \in {NoDraft, [NoDraft EXCEPT !.new = TRUE]}
  <1>1. req[r].at = "save" /\ draft[r] \in {NoDraft, [NoDraft EXCEPT !.new = TRUE]}
    BY DEF SaveQuestion, DraftAt
  <1>2. draft[r].msgs = {}
    BY <1>1 DEF NoDraft
  <1>3. draft'[r] = [draft[r] EXCEPT !.msgs = {Line("user", NextSeq(r), r)}]
    BY <1>2 DEF SaveQuestion, AddMessage, ChatTypeInv, Line
  <1>4. NextSeq(r) \in Nat \ {0}
    BY <1>1, <1>2, AtChat, NextSeqType
  <1>5. QED
    BY <1>1, <1>3, <1>4, GoToEffect DEF SaveQuestion, ForeignKeyHolds

LEMMA SaveAnswerEffect ==
    ASSUME ChatTypeInv, DraftAt, NEW r \in Request, SaveAnswer(r)
    PROVE  /\ req[r].at = "answer" /\ req'[r].at \in {"title", "bill"} /\ UNCHANGED loop
           /\ req'[r].at = "title" => req[r].first
           /\ req'[r].chat = req[r].chat /\ req'[r].first = FALSE
           /\ NextSeq(r) \in Nat \ {0}
           /\ draft[r] = NoDraft
           /\ draft'[r] = [NoDraft EXCEPT !.msgs = {Line("assistant", NextSeq(r), r)}]
           /\ Exists(req[r].chat)
  <1>1. req[r].at = "answer" /\ draft[r] = NoDraft
    BY DEF SaveAnswer, DraftAt, Asked
  <1>2. draft[r].msgs = {} /\ draft[r].new = FALSE
    BY <1>1 DEF NoDraft
  <1>3. draft'[r] = [NoDraft EXCEPT !.msgs = {Line("assistant", NextSeq(r), r)}]
    BY <1>1, <1>2 DEF SaveAnswer, AddMessage, ChatTypeInv, Line
  <1>4. NextSeq(r) \in Nat \ {0}
    BY <1>1, <1>2, AtChat, NextSeqType
  <1>5. req'[r] = [NoCall EXCEPT !.at = IF req[r].first /\ req[r].text THEN "title" ELSE "bill",
                                 !.chat = req[r].chat]
    BY DEF SaveAnswer, ChatTypeInv
  <1>6. req'[r].at = (IF req[r].first /\ req[r].text THEN "title" ELSE "bill")
        /\ req'[r].chat = req[r].chat /\ req'[r].first = FALSE
    BY <1>5 DEF NoCall
  <1>7. QED
    BY <1>1, <1>2, <1>3, <1>4, <1>6 DEF SaveAnswer, ForeignKeyHolds

LEMMA LoadEffect ==
    ASSUME ChatTypeInv, NEW r \in Request, NEW c \in Chat, NEW what, Load(r, c, what)
    PROVE  /\ req[r].at = "idle" /\ req'[r].at = what /\ req'[r].chat = c
           /\ UNCHANGED <<draft, loop>> /\ FreeLoop(r)
  <1>1. req'[r] = [NoCall EXCEPT !.at = what, !.chat = c]
    BY DEF Load, ChatTypeInv
  <1>2. QED
    BY <1>1 DEF Load, NoCall

LEMMA DraftStep ==
    ASSUME ChatTypeInv, DraftAt, NEW r \in Request, Step(r)
    PROVE  DraftAt'
  <1>1. \A q \in Request \ {r} : req'[q] = req[q] /\ draft'[q] = draft[q]
    BY OthersKept
  <1> DEFINE Fits(at, d) ==
         /\ at \in {"idle", "ended", "delete"} \cup Asked => d = NoDraft
         /\ at = "save" => d \in {NoDraft, [NoDraft EXCEPT !.new = TRUE]}
         /\ at = "commit" => /\ \E n \in Nat \ {0} : d.msgs = {Line("user", n, r)}
                             /\ ~d.usage /\ ~d.title /\ ~d.archive
         /\ at \in Answered => /\ \E n \in Nat \ {0} : d.msgs = {Line("assistant", n, r)}
                               /\ ~d.new /\ ~d.archive /\ d.usage = (at = "close")
                               /\ at = "title" => ~d.title
         /\ at = "archive" => d \in {NoDraft, [NoDraft EXCEPT !.archive = TRUE]}
  <1>2. Fits(req[r].at, draft[r]) /\ (req[r].chat = None <=> req[r].at \in {"idle", "ended"})
    BY DEF DraftAt, FlushedLine
  <1>3. SUFFICES Fits(req'[r].at, draft'[r])
                 /\ (req'[r].chat = None <=> req'[r].at \in {"idle", "ended"})
    BY <1>1 DEF DraftAt, FlushedLine
  <1>4. None \notin Chat
    BY ChatAssumption
  <1>5. CASE Wait(r)
    BY <1>2, <1>5, WaitEffect DEF Asked, Answered
  <1>6. CASE SaveQuestion(r)
    <2>1. draft'[r].msgs = {Line("user", NextSeq(r), r)} /\ ~draft'[r].usage /\ ~draft'[r].title
          /\ ~draft'[r].archive
      <3>1. CASE draft[r] = NoDraft
        <4>1. draft'[r] = [NoDraft EXCEPT !.msgs = {Line("user", NextSeq(r), r)}]
          BY <1>6, <3>1, SaveQuestionEffect
        <4>2. QED
          BY <4>1 DEF NoDraft
      <3>2. CASE draft[r] = [NoDraft EXCEPT !.new = TRUE]
        <4>1. draft'[r] = [[NoDraft EXCEPT !.new = TRUE] EXCEPT
                             !.msgs = {Line("user", NextSeq(r), r)}]
          BY <1>6, <3>2, SaveQuestionEffect
        <4>2. QED
          BY <4>1 DEF NoDraft
      <3>3. QED
        BY <1>6, <3>1, <3>2, SaveQuestionEffect
    <2>2. QED
      BY <1>2, <1>6, <2>1, SaveQuestionEffect DEF Asked, Answered
  <1>7. CASE SaveAnswer(r)
    <2>1. draft'[r].msgs = {Line("assistant", NextSeq(r), r)} /\ ~draft'[r].new
          /\ ~draft'[r].archive /\ draft'[r].usage = FALSE /\ draft'[r].title = FALSE
      BY <1>7, SaveAnswerEffect DEF NoDraft
    <2>2. QED
      BY <1>2, <1>7, <2>1, SaveAnswerEffect DEF Asked, Answered
  <1>8. CASE UpdateTitle(r)
    <2>1. draft'[r] = [draft[r] EXCEPT !.title = TRUE] /\ req[r].at = "title"
      BY <1>8 DEF UpdateTitle, ChatTypeInv
    <2>2. draft'[r].msgs = draft[r].msgs /\ draft'[r].new = draft[r].new
          /\ draft'[r].archive = draft[r].archive /\ draft'[r].usage = draft[r].usage
      BY <2>1 DEF ChatTypeInv, Draft
    <2>3. QED
      BY <1>2, <1>8, <2>1, <2>2, GoToEffect DEF UpdateTitle, Asked, Answered
  <1>9. CASE SaveUsage(r)
    <2>1. draft'[r] = [draft[r] EXCEPT !.usage = TRUE] /\ req[r].at = "bill"
      BY <1>9 DEF SaveUsage, ChatTypeInv
    <2>2. draft'[r].msgs = draft[r].msgs /\ draft'[r].new = draft[r].new
          /\ draft'[r].archive = draft[r].archive /\ draft'[r].usage = TRUE
      BY <2>1 DEF ChatTypeInv, Draft
    <2>3. QED
      <3>1. req'[r].at = "close" /\ req'[r].chat = req[r].chat
        BY <1>9, GoToEffect DEF SaveUsage
      <3>2. draft'[r].usage = (req'[r].at = "close")
        BY <2>2, <3>1
      <3>3. QED
        BY <1>2, <2>1, <2>2, <3>1, <3>2 DEF Asked, Answered
  <1>10. CASE ArchiveUpdate(r)
    BY <1>2, <1>10 DEF ArchiveUpdate, ChatTypeInv, Asked, Answered
  <1>11. ASSUME NEW c \in Chat, NEW what \in {"archive", "delete"}, Load(r, c, what)
         PROVE  Fits(req'[r].at, draft'[r])
                /\ (req'[r].chat = None <=> req'[r].at \in {"idle", "ended"})
    BY <1>2, <1>4, <1>11, LoadEffect DEF Asked, Answered
  <1>12. CASE Enter(r)
    BY <1>2, <1>4, <1>12, EnterEffect DEF Asked, Answered
  <1>13. ASSUME End(r)
         PROVE  Fits(req'[r].at, draft'[r])
                /\ (req'[r].chat = None <=> req'[r].at \in {"idle", "ended"})
    BY <1>13, EndEffect DEF Asked, Answered
  <1>14. CASE StoreStep(r)
    <2>1. CASE req[r].at = "commit"
      <3>1. req'[r].at = "history" /\ req'[r].chat = req[r].chat
        BY <1>14, <2>1, StoreEffect, PlacesOfCalls DEF Call
      <3>2. QED
        BY <1>2, <1>14, <2>1, <3>1, StoreEffect DEF Asked, Answered
    <2>2. CASE req[r].at # "commit"
      BY <1>13, <1>14, <2>2, StoreEffect
    <2>3. QED
      BY <2>1, <2>2
  <1>15. CASE Leave(r) \/ BreakOff(r) \/ DeleteCommit(r)
    BY <1>13, <1>15, BreakOffEffect DEF Leave, Refuse, AdminFails, DeleteCommit
  <1> HIDE DEF Fits
  <1>16. QED
    BY <1>5, <1>6, <1>7, <1>8, <1>9, <1>10, <1>11, <1>12, <1>14, <1>15, StepKinds DEF Quiet, Wait

-----------------------------------------------------------------------------
(* Rows *)

LEMMA StoreRows ==
    ASSUME ChatTypeInv, DraftAt, NEW r \in Request, StoreStep(r)
    PROVE  /\ req[r].chat \in Chat
           /\ \A c \in Chat \ {req[r].chat} :
                chat'[c] = chat[c] /\ msgs'[c] = msgs[c] /\ usage'[c] = usage[c]
           /\ msgs'[req[r].chat] = msgs[req[r].chat] \cup draft[r].msgs
           /\ usage'[req[r].chat] =
                IF req[r].at = "close" THEN usage[req[r].chat] \cup {r} ELSE usage[req[r].chat]
           /\ chat'[req[r].chat].title =
                IF draft[r].title THEN r ELSE chat[req[r].chat].title
           /\ draft[r].title => req[r].at = "close"
           /\ chat'[req[r].chat].status \in {chat[req[r].chat].status, "active", "archived"}
           /\ draft[r].new => chat'[req[r].chat].status = "active"
           /\ req[r].at = "commit" =>
                \E n \in Nat \ {0} : draft[r].msgs = {Line("user", n, r)}
           /\ req[r].at = "close" =>
                \E n \in Nat \ {0} : draft[r].msgs = {Line("assistant", n, r)}
           /\ req[r].at = "archive" => draft[r].msgs = {}
  <1>1. Store(r) /\ req[r].at \in {"commit", "close", "archive"}
        /\ (req[r].at = "archive" => draft[r].archive)
    BY StoreEffect
  <1>2. req[r].chat \in Chat
    BY <1>1, AtChat
  <1>3. \A c \in Chat \ {req[r].chat} :
          chat'[c] = chat[c] /\ msgs'[c] = msgs[c] /\ usage'[c] = usage[c]
    BY <1>1, <1>2 DEF Store, ChatTypeInv
  <1>4. /\ msgs'[req[r].chat] = msgs[req[r].chat] \cup draft[r].msgs
        /\ usage'[req[r].chat] =
             IF draft[r].usage THEN usage[req[r].chat] \cup {r} ELSE usage[req[r].chat]
        /\ chat'[req[r].chat] =
             [status |-> IF draft[r].new THEN "active"
                         ELSE IF draft[r].archive THEN "archived" ELSE chat[req[r].chat].status,
              title |-> IF draft[r].title THEN r ELSE chat[req[r].chat].title]
    BY <1>1, <1>2 DEF Store, ChatTypeInv, TitleOf
  <1>5. /\ req[r].at = "commit" =>
             /\ \E n \in Nat \ {0} : draft[r].msgs = {Line("user", n, r)}
             /\ ~draft[r].usage /\ ~draft[r].title
        /\ req[r].at = "close" =>
             /\ \E n \in Nat \ {0} : draft[r].msgs = {Line("assistant", n, r)}
             /\ draft[r].usage
        /\ req[r].at = "archive" => draft[r] \in {NoDraft, [NoDraft EXCEPT !.archive = TRUE]}
    BY DEF DraftAt, FlushedLine, Answered
  <1>6. req[r].at = "archive" =>
          draft[r].msgs = {} /\ draft[r].usage = FALSE /\ draft[r].title = FALSE
    BY <1>5 DEF NoDraft
  <1>7. QED
    BY <1>1, <1>2, <1>3, <1>4, <1>5, <1>6

\* A commit changes the row of its chat only.
LEMMA StoreOthers ==
    ASSUME ChatTypeInv, DraftAt, NEW r \in Request, StoreStep(r),
           NEW c \in Chat, c # req[r].chat
    PROVE  chat'[c] = chat[c]
  <1>1. c \in Chat \ {req[r].chat}
    OBVIOUS
  <1>2. QED
    BY <1>1, StoreRows

LEMMA DeleteRows ==
    ASSUME ChatTypeInv, DraftAt, NEW r \in Request, DeleteCommit(r)
    PROVE  /\ req[r].chat \in Chat /\ req[r].at = "delete" /\ End(r)
           /\ UNCHANGED <<usage, crossed, broken, loop>> /\ FreeLoop(r)
           /\ usage[req[r].chat] = {}
           /\ \A q \in Request \ {r} : req[q].chat = req[r].chat => draft[q] = NoDraft
           /\ \A c \in Chat \ {req[r].chat} : chat'[c] = chat[c] /\ msgs'[c] = msgs[c]
           /\ chat'[req[r].chat].status = "deleted" /\ chat'[req[r].chat].title = None
           /\ msgs'[req[r].chat] = {}
  <1>1. req[r].at = "delete"
    BY DEF DeleteCommit
  <1>2. req[r].chat \in Chat
    BY <1>1, AtChat
  <1>3. QED
    BY <1>1, <1>2 DEF DeleteCommit, Unreferenced, ChatTypeInv, history

\* The rows change by commits and deletions, and by nothing else.
LEMMA RowsKept ==
    ASSUME ChatTypeInv, NEW r \in Request, Step(r), ~StoreStep(r), ~DeleteCommit(r)
    PROVE  UNCHANGED <<chat, msgs, usage>>
  BY StepKinds, QuietEffect, EnterEffect, BreakOffEffect DEF Leave, Refuse, AdminFails, tables

LEMMA BilledStep ==
    ASSUME ChatTypeInv, DraftAt, AnswersBilled, NEW r \in Request, Step(r)
    PROVE  AnswersBilled'
  <1> DEFINE Answerers(S) == {m.by : m \in {n \in S : n.role = "assistant"}}
  <1>1. \A c \in Chat : usage[c] = Answerers(msgs[c])
    BY DEF AnswersBilled
  <1>2. SUFFICES ASSUME NEW c \in Chat
                 PROVE  usage'[c] = Answerers(msgs'[c])
    BY DEF AnswersBilled
  <1>3. CASE StoreStep(r)
    <2>1. CASE c # req[r].chat
      BY <1>1, <1>3, <2>1, StoreRows
    <2>2. CASE c = req[r].chat
      <3>1. CASE req[r].at = "commit"
        <4>1. PICK n \in Nat \ {0} : draft[r].msgs = {Line("user", n, r)}
          BY <1>3, <3>1, StoreRows
        <4>2. msgs'[c] = msgs[c] \cup {Line("user", n, r)} /\ usage'[c] = usage[c]
          BY <1>3, <2>2, <3>1, <4>1, StoreRows
        <4>3. Answerers(msgs'[c]) = Answerers(msgs[c])
          BY <4>2 DEF Line
        <4>4. QED
          BY <1>1, <4>2, <4>3
      <3>2. CASE req[r].at = "close"
        <4>1. PICK n \in Nat \ {0} : draft[r].msgs = {Line("assistant", n, r)}
          BY <1>3, <3>2, StoreRows
        <4>2. msgs'[c] = msgs[c] \cup {Line("assistant", n, r)} /\ usage'[c] = usage[c] \cup {r}
          BY <1>3, <2>2, <3>2, <4>1, StoreRows
        <4>3. {n1 \in msgs'[c] : n1.role = "assistant"} =
                {n1 \in msgs[c] : n1.role = "assistant"} \cup {Line("assistant", n, r)}
          BY <4>2 DEF Line
        <4>4. Line("assistant", n, r).by = r
          BY DEF Line
        <4>5. Answerers(msgs'[c]) = Answerers(msgs[c]) \cup {r}
          BY <4>3, <4>4
        <4>6. QED
          BY <1>1, <4>2, <4>5
      <3>3. CASE req[r].at = "archive"
        <4>1. msgs'[c] = msgs[c] /\ usage'[c] = usage[c]
          BY <1>3, <2>2, <3>3, StoreRows
        <4>2. QED
          BY <1>1, <4>1
      <3>4. QED
        BY <1>3, <3>1, <3>2, <3>3, StoreEffect
    <2>3. QED
      BY <2>1, <2>2
  <1>4. CASE DeleteCommit(r)
    BY <1>1, <1>4, DeleteRows
  <1>5. CASE ~StoreStep(r) /\ ~DeleteCommit(r)
    BY <1>1, <1>5, RowsKept
  <1>6. QED
    BY <1>3, <1>4, <1>5

LEMMA ReferencedStep ==
    ASSUME ChatTypeInv, DraftAt, DraftAt', Referenced, NEW r \in Request, Step(r)
    PROVE  Referenced'
  <1>1. \A q \in Request \ {r} : req'[q] = req[q] /\ draft'[q] = draft[q]
    BY OthersKept
  <1>2. \A q \in Request : draft[q] # NoDraft => req[q].chat \in Chat
    BY AtChat DEF DraftAt
  <1> DEFINE ExistsThen(c) == chat'[c].status \in {"active", "archived"}
  <1>3. \A c \in Chat : Exists(c) =>
          \/ ExistsThen(c)
          \/ DeleteCommit(r) /\ \A q \in Request \ {r} : req[q].chat = c => draft[q] = NoDraft
    <2>1. CASE StoreStep(r)
      BY <2>1, StoreRows DEF Exists
    <2>2. CASE DeleteCommit(r)
      BY <2>2, DeleteRows DEF Exists
    <2>3. CASE ~StoreStep(r) /\ ~DeleteCommit(r)
      BY <2>3, RowsKept DEF Exists
    <2>4. QED
      BY <2>1, <2>2, <2>3
  <1>4. ASSUME NEW q \in Request, q # r, draft'[q] # NoDraft, ~draft'[q].new
        PROVE  ExistsThen(req'[q].chat)
    <2>1. draft[q] # NoDraft /\ Exists(req[q].chat) /\ req[q].chat \in Chat
      BY <1>1, <1>2, <1>4 DEF Referenced
    <2>2. QED
      BY <1>1, <1>3, <1>4, <2>1
  <1>5. ASSUME draft'[r] # NoDraft, ~draft'[r].new
        PROVE  ExistsThen(req'[r].chat)
    <2>1. ~StoreStep(r) /\ ~DeleteCommit(r) /\ ~Leave(r) /\ ~BreakOff(r)
      BY <1>5, StoreEffect, EndEffect, BreakOffEffect, DeleteRows DEF Leave, Refuse, AdminFails
    <2>2. UNCHANGED chat
      BY <2>1, RowsKept
    <2>3. SUFFICES Exists(req'[r].chat)
      BY <2>2 DEF Exists
    <2>4. CASE Wait(r)
      BY <1>5, <2>4, WaitEffect DEF Referenced
    <2>5. CASE SaveQuestion(r)
      <3>1. draft'[r].new = draft[r].new
        <4>1. draft[r] \in Draft /\ draft'[r] = [draft[r] EXCEPT !.msgs = {Line("user", NextSeq(r), r)}]
          BY <2>5, SaveQuestionEffect DEF ChatTypeInv
        <4>2. QED
          BY <4>1 DEF Draft
      <3>2. QED
        BY <1>5, <2>5, <3>1, SaveQuestionEffect
    <2>6. CASE SaveAnswer(r)
      BY <2>6, SaveAnswerEffect
    <2>7. CASE UpdateTitle(r) \/ SaveUsage(r)
      <3>1. req[r].at \in Answered /\ req'[r].chat = req[r].chat
        BY <2>7, GoToEffect DEF UpdateTitle, SaveUsage, Answered
      <3>2. draft[r] # NoDraft /\ ~draft[r].new
        BY <3>1 DEF DraftAt, FlushedLine, NoDraft
      <3>3. QED
        BY <3>1, <3>2 DEF Referenced
    <2>8. CASE ArchiveUpdate(r)
      BY <2>8 DEF ArchiveUpdate
    <2>9. CASE Enter(r) \/ \E c \in Chat : Load(r, c, "archive") \/ Load(r, c, "delete")
      <3>1. req[r].at = "idle" /\ draft'[r] \in {draft[r], [draft[r] EXCEPT !.new = TRUE]}
        BY <2>9, EnterEffect, LoadEffect
      <3>2. draft[r] = NoDraft
        BY <3>1 DEF DraftAt
      <3>3. QED
        BY <1>5, <3>1, <3>2 DEF NoDraft
    <2>10. QED
      BY <2>1, <2>4, <2>5, <2>6, <2>7, <2>8, <2>9, StepKinds DEF Quiet, Wait
  <1>6. ASSUME NEW q \in Request, draft'[q] # NoDraft, ~draft'[q].new
        PROVE  ExistsThen(req'[q].chat)
    BY <1>4, <1>5, <1>6
  <1>7. QED
    BY <1>6 DEF Referenced, Exists

-----------------------------------------------------------------------------
(* Streams on a chat *)

LEMMA Moves ==
    ASSUME ChatTypeInv, DraftAt, NEW r \in Request, Step(r)
    PROVE  \/ req'[r].at = "ended"
           \/ Enter(r)
           \/ req[r].at = "idle" /\ req'[r].at \in {"archive", "delete"}
           \/ /\ req'[r].chat = req[r].chat
              /\ \/ req[r].at = "save" /\ req'[r].at = "commit"
                 \/ req[r].at = "commit" /\ req'[r].at = "history"
                 \/ req[r].at \in Asked /\ req'[r].at \in Asked \ {"history"}
                 \/ req[r].at = "answer" /\ req'[r].at \in {"title", "bill"}
                 \/ req[r].at \in Answered /\ req'[r].at \in {"bill", "close"}
                 \/ req[r].at = "archive" /\ req'[r].at = "archive"
  <1>1. CASE Wait(r)
    BY <1>1, WaitEffect
  <1>2. CASE SaveQuestion(r) \/ SaveAnswer(r)
    BY <1>2, SaveQuestionEffect, SaveAnswerEffect
  <1>3. CASE UpdateTitle(r) \/ SaveUsage(r)
    BY <1>3, GoToEffect DEF UpdateTitle, SaveUsage, Answered
  <1>4. CASE ArchiveUpdate(r)
    BY <1>4 DEF ArchiveUpdate
  <1>5. ASSUME NEW c \in Chat, Load(r, c, "archive") \/ Load(r, c, "delete")
        PROVE  req[r].at = "idle" /\ req'[r].at \in {"archive", "delete"}
    BY <1>5, LoadEffect
  <1>6. CASE StoreStep(r)
    <2>1. CASE req[r].at = "commit"
      BY <1>6, <2>1, StoreEffect, PlacesOfCalls DEF Call
    <2>2. CASE req[r].at # "commit"
      BY <1>6, <2>2, StoreEffect, EndEffect
    <2>3. QED
      BY <2>1, <2>2
  <1>7. CASE Leave(r) \/ BreakOff(r) \/ DeleteCommit(r)
    BY <1>7, EndEffect, BreakOffEffect DEF Leave, Refuse, AdminFails, DeleteCommit
  <1>8. QED
    BY <1>1, <1>2, <1>3, <1>4, <1>5, <1>6, <1>7, StepKinds DEF Quiet, Wait

LEMMA StreamsKept ==
    ASSUME ChatTypeInv, DraftAt, NEW r \in Request, Step(r), NEW q \in Request, Streams(q)'
    PROVE  \/ Streams(q) /\ req'[q].chat = req[q].chat
           \/ q = r /\ Enter(r)
  <1>1. CASE q # r
    BY <1>1, OthersKept DEF Streams
  <1>2. CASE q = r
    BY <1>2, Moves DEF Streams, Asked, Answered
  <1>3. QED
    BY <1>1, <1>2

LEMMA UnwrittenStep ==
    ASSUME ChatTypeInv, DraftAt, Unwritten, NEW r \in Request, Step(r)
    PROVE  Unwritten'
  <1>1. SUFFICES ASSUME NEW c \in Chat, NEW m \in msgs'[c]
                 PROVE  req'[m.by].at \notin {"idle", "save", "commit"}
    BY DEF Unwritten
  <1>2. m \in msgs[c] \/ (StoreStep(r) /\ m \in draft[r].msgs)
    <2>1. CASE StoreStep(r)
      BY <2>1, StoreRows
    <2>2. CASE DeleteCommit(r)
      BY <2>2, DeleteRows
    <2>3. CASE ~StoreStep(r) /\ ~DeleteCommit(r)
      BY <2>3, RowsKept
    <2>4. QED
      BY <2>1, <2>2, <2>3
  <1>3. CASE m \in msgs[c]
    <2>1. m.by \in Request /\ req[m.by].at \notin {"idle", "save", "commit"}
      BY <1>3 DEF Unwritten, ChatTypeInv, Message
    <2>2. CASE m.by # r
      BY <2>1, <2>2, OthersKept
    <2>3. CASE m.by = r
      BY <2>1, <2>3, Moves, EnterEffect DEF Asked
    <2>4. QED
      BY <2>2, <2>3
  <1>4. CASE StoreStep(r) /\ m \in draft[r].msgs
    <2>1. m.by = r /\ req[r].at \in {"commit", "close"}
      <3>1. \A role, n : Line(role, n, r).by = r
        BY DEF Line
      <3>2. QED
        <4>1. req[r].at \in {"commit", "close"}
          BY <1>4, StoreRows, StoreEffect
        <4>2. \E n \in Nat \ {0} : draft[r].msgs \in {{Line("user", n, r)}, {Line("assistant", n, r)}}
          BY <1>4, <4>1, StoreRows
        <4>3. QED
          BY <1>4, <3>1, <4>1, <4>2
    <2>2. req'[r].at \in {"history", "ended"}
      BY <1>4, StoreEffect, EndEffect, PlacesOfCalls DEF Call
    <2>3. QED
      BY <2>1, <2>2
  <1>5. QED
    BY <1>2, <1>3, <1>4

LEMMA AloneStep ==
    ASSUME ChatTypeInv, DraftAt, Alone, NEW r \in Request, Step(r)
    PROVE  Alone'
  <1>1. SUFFICES ASSUME NEW p \in Request, NEW q \in Request, Streams(p)', Streams(q)', p # q,
                        req'[p].chat = req'[q].chat
                 PROVE  req'[p].chat \in crossed'
    BY DEF Alone
  <1>2. CASE ~Enter(r)
    BY <1>1, <1>2, StreamsKept, OthersKept DEF Alone
  <1>3. CASE Enter(r) /\ r \notin {p, q}
    BY <1>1, <1>3, StreamsKept, OthersKept DEF Alone
  <1>4. ASSUME NEW s \in Request, Enter(r), s # r, Streams(s)', req'[s].chat = req'[r].chat
        PROVE  req'[s].chat \in crossed'
    <2>1. Streams(s) /\ req[s].chat = req'[r].chat
      BY <1>4, StreamsKept
    <2>2. StreamsOn(req'[r].chat) # {}
      BY <2>1 DEF StreamsOn
    <2>3. QED
      BY <1>4, <2>2, EnterEffect
  <1>5. QED
    BY <1>1, <1>2, <1>3, <1>4

\* Where no two streams meet, a stream sees the rows change by its own commits only.
LEMMA OwnRows ==
    ASSUME ChatTypeInv, DraftAt, Alone, NEW r \in Request, Step(r), NEW q \in Request, q # r,
           Streams(q), req[q].chat \notin crossed
    PROVE  /\ req[q].chat \in Chat
           /\ \/ /\ msgs'[req[q].chat] = msgs[req[q].chat]
                 /\ chat'[req[q].chat] = chat[req[q].chat]
              \/ /\ StoreStep(r) /\ ~Streams(r) /\ req[r].chat = req[q].chat /\ draft[r].archive
                 /\ msgs'[req[q].chat] = msgs[req[q].chat]
                 /\ chat'[req[q].chat].title = chat[req[q].chat].title
              \/ /\ msgs'[req[q].chat] = {} /\ chat'[req[q].chat].title = None
                 /\ chat'[req[q].chat].status = "deleted" /\ draft[q] = NoDraft
  <1>1. req[q].chat \in Chat
    BY AtChat DEF Streams
  <1>2. CASE StoreStep(r)
    <2>1. CASE req[r].chat # req[q].chat
      BY <1>1, <1>2, <2>1, StoreRows
    <2>2. CASE req[r].chat = req[q].chat
      <3>1. ~Streams(r)
        BY <2>2 DEF Alone
      <3>2. req[r].at = "archive" /\ draft[r].archive
        BY <1>2, <3>1, StoreEffect DEF Streams
      <3>3. draft[r].msgs = {} /\ ~draft[r].title
        BY <1>2, <3>2, StoreRows
      <3>4. /\ msgs'[req[r].chat] = msgs[req[r].chat] \cup draft[r].msgs
            /\ chat'[req[r].chat].title = chat[req[r].chat].title
        BY <1>2, <3>3, StoreRows
      <3>5. QED
        BY <1>1, <1>2, <2>2, <3>1, <3>2, <3>3, <3>4
    <2>3. QED
      BY <2>1, <2>2
  <1>3. CASE DeleteCommit(r)
    <2>1. CASE req[r].chat # req[q].chat
      BY <1>1, <1>3, <2>1, DeleteRows
    <2>2. CASE req[r].chat = req[q].chat
      BY <1>1, <1>3, <2>2, DeleteRows
    <2>3. QED
      BY <2>1, <2>2
  <1>4. CASE ~StoreStep(r) /\ ~DeleteCommit(r)
    BY <1>1, <1>4, RowsKept
  <1>5. QED
    BY <1>2, <1>3, <1>4

-----------------------------------------------------------------------------
(* The dialogue *)

LEMMA NumberedAppend ==
    ASSUME NEW S \in SUBSET Message, IsFiniteSet(S), Seqs(S) = 1..Cardinality(S),
           NEW m, m.seq = Cardinality(S) + 1
    PROVE  /\ Cardinality(S) \in Nat
           /\ Cardinality(S \cup {m}) = Cardinality(S) + 1
           /\ Seqs(S \cup {m}) = 1..Cardinality(S) + 1
  <1>1. Cardinality(S) \in Nat
    BY FS_CardinalityType
  <1>2. m \notin S
    <2>1. Cardinality(S) + 1 \notin Seqs(S)
      BY <1>1
    <2>2. QED
      BY <2>1 DEF Seqs
  <1>3. Cardinality(S \cup {m}) = Cardinality(S) + 1
    BY <1>2, FS_AddElement
  <1>4. Seqs(S \cup {m}) = Seqs(S) \cup {Cardinality(S) + 1}
    BY DEF Seqs
  <1>5. \A n \in Nat : (1..n) \cup {n + 1} = 1..n + 1
    OBVIOUS
  <1>6. QED
    BY <1>1, <1>3, <1>4, <1>5

\* A commit on a chat where the stream is alone appends its row.
LEMMA Appended ==
    ASSUME ChatTypeInv, DraftAt, Numbered, Flow, NEW r \in Request, StoreStep(r),
           req[r].at # "archive", req[r].chat \notin crossed
    PROVE  /\ req[r].chat \in Chat /\ Cardinality(msgs[req[r].chat]) \in Nat
           /\ Cardinality(msgs'[req[r].chat]) = Cardinality(msgs[req[r].chat]) + 1
           /\ Seqs(msgs'[req[r].chat]) = 1..Cardinality(msgs'[req[r].chat])
           /\ req[r].at = "commit" =>
                msgs'[req[r].chat] = msgs[req[r].chat] \cup
                  {Line("user", Cardinality(msgs[req[r].chat]) + 1, r)}
           /\ req[r].at = "close" =>
                /\ msgs'[req[r].chat] = msgs[req[r].chat] \cup
                     {Line("assistant", Cardinality(msgs[req[r].chat]) + 1, r)}
                /\ Line("user", Cardinality(msgs[req[r].chat]), r) \in msgs[req[r].chat]
  <1> DEFINE S == msgs[req[r].chat]
  <1>1. req[r].chat \in Chat /\ req[r].at \in {"commit", "close"}
    BY StoreRows, StoreEffect
  <1>2. S \in SUBSET Message /\ IsFiniteSet(S) /\ Seqs(S) = 1..Cardinality(S)
    BY <1>1 DEF ChatTypeInv, Numbered
  <1>3. PICK n \in Nat \ {0}, role \in {"user", "assistant"} :
          /\ draft[r].msgs = {Line(role, n, r)}
          /\ req[r].at = "commit" => role = "user"
          /\ req[r].at = "close" => role = "assistant"
    BY <1>1, StoreRows
  <1>4. Line(role, n, r).seq = n
    BY DEF Line
  <1>5. n = Cardinality(S) + 1
    BY <1>1, <1>3, <1>4 DEF Flow, Streams, Answered
  <1>6. msgs'[req[r].chat] = S \cup {Line(role, n, r)}
    BY <1>3, StoreRows
  <1>7. Cardinality(S) \in Nat /\ Cardinality(S \cup {Line(role, n, r)}) = Cardinality(S) + 1
        /\ Seqs(S \cup {Line(role, n, r)}) = 1..Cardinality(S) + 1
    BY <1>2, <1>4, <1>5, NumberedAppend
  <1>8. req[r].at = "close" => Line("user", n - 1, r) \in S
    BY <1>3, <1>4 DEF Flow, Streams, Answered
  <1>9. n - 1 = Cardinality(S)
    BY <1>5, <1>7
  <1> HIDE DEF S
  <1>10. QED
    BY <1>1, <1>3, <1>5, <1>6, <1>7, <1>8, <1>9 DEF S

LEMMA NumberedStep ==
    ASSUME ChatTypeInv, DraftAt, Numbered, Flow, NEW r \in Request, Step(r)
    PROVE  Numbered'
  <1> DEFINE Right(S) == /\ Seqs(S) = 1..Cardinality(S)
                         /\ \A m \in S : m.role = "assistant" => Line("user", m.seq - 1, m.by) \in S
  <1>1. SUFFICES ASSUME NEW c \in Chat \ crossed'
                 PROVE  Right(msgs'[c])
    BY DEF Numbered, Seqs
  <1>2. c \notin crossed /\ Right(msgs[c])
    BY OthersKept DEF Numbered
  <1>3. CASE StoreStep(r) /\ c = req[r].chat /\ req[r].at # "archive"
    <2>1. Seqs(msgs'[c]) = 1..Cardinality(msgs'[c])
      BY <1>2, <1>3, Appended
    <2>2. CASE req[r].at = "commit"
      <3>1. PICK n : msgs'[c] = msgs[c] \cup {Line("user", n, r)}
        BY <1>2, <1>3, <2>2, Appended
      <3>2. Line("user", n, r).role # "assistant"
        BY DEF Line
      <3>3. QED
        BY <1>2, <2>1, <3>1, <3>2
    <2>3. CASE req[r].at = "close"
      <3>1. PICK n \in Nat : /\ msgs'[c] = msgs[c] \cup {Line("assistant", n + 1, r)}
                             /\ Line("user", n, r) \in msgs[c]
        BY <1>2, <1>3, <2>3, Appended
      <3>2. Line("assistant", n + 1, r).seq - 1 = n /\ Line("assistant", n + 1, r).by = r
        BY DEF Line
      <3>3. QED
        BY <1>2, <2>1, <3>1, <3>2
    <2>4. QED
      BY <1>3, <2>2, <2>3, StoreEffect
  <1>4. CASE StoreStep(r) /\ ~(c = req[r].chat /\ req[r].at # "archive")
    <2>1. msgs'[c] = msgs[c]
      <3>1. CASE c # req[r].chat
        BY <1>4, <3>1, StoreRows
      <3>2. CASE c = req[r].chat
        <4>1. draft[r].msgs = {}
          BY <1>4, <3>2, StoreRows
        <4>2. QED
          BY <1>4, <3>2, <4>1, StoreRows
      <3>3. QED
        BY <3>1, <3>2
    <2>2. QED
      BY <1>2, <2>1
  <1>5. CASE DeleteCommit(r)
    <2>1. msgs'[c] \in {msgs[c], {}}
      BY <1>5, DeleteRows
    <2>2. Right({})
      BY FS_EmptySet DEF Seqs
    <2>3. QED
      BY <1>2, <2>1, <2>2
  <1>6. CASE ~StoreStep(r) /\ ~DeleteCommit(r)
    BY <1>2, <1>6, RowsKept
  <1>7. QED
    BY <1>3, <1>4, <1>5, <1>6

LEMMA LoopStep ==
    ASSUME ChatTypeInv, LoopHeld, NEW r \in Request, Step(r)
    PROVE  LoopHeld'
  <1> DEFINE w == WorkerOf[r]
  <1>1. w \in Worker /\ None \notin Request /\ \A q \in Request : WorkerOf[q] \in Worker
    BY ChatAssumption
  <1>2. \A q \in Request \ {r} : req'[q] = req[q]
    BY OthersKept
  <1>3. CASE /\ req[r].at \notin {"call", "event"} /\ req'[r].at \notin {"call", "event"}
             /\ UNCHANGED loop
    BY <1>2, <1>3 DEF LoopHeld
  <1>4. CASE /\ req[r].at \in {"call", "event"} /\ req'[r].at \in {"call", "event"}
             /\ UNCHANGED loop
    BY <1>2, <1>4 DEF LoopHeld
  <1>5. CASE /\ FreeLoop(r) /\ req'[r].at \in {"call", "event"}
             /\ loop' = [loop EXCEPT ![w] = r]
    BY <1>1, <1>2, <1>5 DEF LoopHeld, FreeLoop, ChatTypeInv
  <1>6. CASE /\ req[r].at \in {"call", "event"} /\ req'[r].at \notin {"call", "event"}
             /\ loop' = [loop EXCEPT ![w] = None]
    BY <1>1, <1>2, <1>6 DEF LoopHeld, ChatTypeInv
  <1>7. FreeLoop(r) => req[r].at \notin {"call", "event"}
    BY <1>1 DEF LoopHeld, FreeLoop
  <1>8. CASE Wait(r)
    <2>1. CASE ReadHistory(r)
      <3>1. req'[r] = [req[r] EXCEPT !.at = "call", !.sent = msgs[req[r].chat]]
        BY <2>1 DEF ReadHistory, ChatTypeInv
      <3>2. req'[r].at = "call"
        BY <3>1, PlacesOfCalls DEF Call
      <3>3. QED
        BY <1>5, <2>1, <3>2 DEF ReadHistory
    <2>2. CASE CallSucceeds(r)
      BY <1>4, <2>2, GoToEffect DEF CallSucceeds
    <2>3. CASE CallRetried(r)
      <3>1. req'[r] = [req[r] EXCEPT !.tries = @ + 1]
        BY <2>3 DEF CallRetried, ChatTypeInv
      <3>2. req'[r].at = "call"
        BY <2>3, <3>1, PlacesOfCalls DEF Call, CallRetried
      <3>3. QED
        BY <1>4, <2>3, <3>2 DEF CallRetried
    <2>4. CASE Pull(r)
      BY <1>5, <2>4, GoToEffect DEF Pull
    <2>5. CASE TextDelta(r)
      <3>1. req'[r] = [req[r] EXCEPT !.at = "pull", !.text = TRUE]
        BY <2>5 DEF TextDelta, ChatTypeInv
      <3>2. req'[r].at = "pull"
        BY <3>1, PlacesOfCalls DEF Call
      <3>3. QED
        BY <1>6, <2>5, <3>2 DEF TextDelta, Release
    <2>6. CASE StreamEnds(r)
      BY <1>6, <2>6, GoToEffect DEF StreamEnds, Release
    <2>7. QED
      BY <1>8, <2>1, <2>2, <2>3, <2>4, <2>5, <2>6 DEF Wait
  <1>9. CASE CallFails(r) \/ StreamBreaks(r)
    <2>1. req'[r].at = "ended"
      BY <1>9, EndEffect DEF CallFails, StreamBreaks, Break
    <2>2. QED
      BY <1>6, <1>9, <2>1 DEF CallFails, StreamBreaks, Release
  <1>10. CASE DatabaseFails(r) \/ Disconnect(r) \/ Leave(r) \/ DeleteCommit(r)
    <2>1. req'[r].at = "ended"
      BY <1>10, EndEffect DEF DatabaseFails, Disconnect, Break, Leave, Refuse, AdminFails, DeleteCommit
    <2>2. FreeLoop(r) /\ UNCHANGED loop
      BY <1>10 DEF DatabaseFails, Disconnect, Leave, Refuse, AdminFails, DeleteCommit
    <2>3. QED
      BY <1>3, <1>7, <2>1, <2>2
  <1>11. CASE StoreStep(r)
    <2>1. req'[r].at \in {"ended", "history"}
      BY <1>11, StoreEffect, EndEffect, PlacesOfCalls DEF Call
    <2>2. QED
      BY <1>3, <1>7, <1>11, <2>1, StoreEffect
  <1>12. CASE Enter(r)
    BY <1>3, <1>7, <1>12, EnterEffect
  <1>13. CASE SaveQuestion(r) \/ UpdateTitle(r) \/ SaveUsage(r)
    BY <1>3, <1>13, GoToEffect DEF SaveQuestion, UpdateTitle, SaveUsage
  <1>14. CASE SaveAnswer(r)
    <2>1. req'[r].at \in {"title", "bill"}
      BY <1>14 DEF SaveAnswer, ChatTypeInv, NoCall
    <2>2. QED
      BY <1>3, <1>14, <2>1 DEF SaveAnswer
  <1>15. CASE ArchiveUpdate(r)
    BY <1>3, <1>15 DEF ArchiveUpdate
  <1>16. ASSUME NEW c \in Chat, Load(r, c, "archive") \/ Load(r, c, "delete")
         PROVE  LoopHeld'
    BY <1>3, <1>16, LoadEffect
  <1>17. QED
    BY <1>8, <1>9, <1>10, <1>11, <1>12, <1>13, <1>14, <1>15, <1>16, StepKinds
    DEF Quiet, Wait, BreakOff

LEMMA FlowStep ==
    ASSUME ChatTypeInv, DraftAt, Referenced, Unwritten, Alone, Numbered, Flow,
           NEW r \in Request, Step(r)
    PROVE  Flow'
  <1>1. SUFFICES ASSUME NEW q \in Request, Streams(q)', req'[q].chat \notin crossed'
                 PROVE  LET c == req'[q].chat
                            Q == {m \in msgs'[c] : m.by = q /\ m.role = "user"} IN
                   /\ req'[q].at = "commit" =>
                        \A m \in draft'[q].msgs : m.seq = Cardinality(msgs'[c]) + 1
                   /\ req'[q].at \in Asked =>
                        /\ chat'[c].status \in {"active", "archived"} => Q # {}
                        /\ \A m \in Q : m.seq = Cardinality(msgs'[c])
                   /\ req'[q].at \in Answered => \A m \in draft'[q].msgs :
                        /\ m.seq = Cardinality(msgs'[c]) + 1
                        /\ Line("user", m.seq - 1, q) \in msgs'[c]
    BY <1>1 DEF Flow, Question, Exists
  <1>2. req'[q].chat \notin crossed
    BY <1>1, OthersKept
  <1>3. CASE q # r
    <2>1. req'[q] = req[q] /\ draft'[q] = draft[q] /\ Streams(q)
      BY <1>1, <1>3, OthersKept DEF Streams
    <2>2. CASE msgs'[req[q].chat] = msgs[req[q].chat]
               /\ (chat'[req[q].chat].status \in {"active", "archived"} => Exists(req[q].chat))
      BY <1>2, <2>1, <2>2 DEF Flow, Question
    <2>3. CASE StoreStep(r) /\ req[r].chat = req[q].chat /\ draft[r].archive
      <3>1. req[r].at = "archive"
        BY <2>3, StoreEffect DEF DraftAt, Answered
      <3>2. draft[r] # NoDraft /\ ~draft[r].new
        BY <2>3, <3>1 DEF DraftAt, NoDraft
      <3>3. Exists(req[q].chat)
        BY <2>3, <3>2 DEF Referenced
      <3>4. msgs'[req[q].chat] = msgs[req[q].chat]
        <4>1. draft[r].msgs = {} /\ req[r].chat \in Chat
          BY <2>3, <3>1, StoreRows
        <4>2. msgs'[req[r].chat] = msgs[req[r].chat] \cup draft[r].msgs
          BY <2>3, StoreRows
        <4>3. QED
          BY <2>3, <4>1, <4>2
      <3>5. QED
        BY <2>2, <3>3, <3>4
    <2>4. CASE msgs'[req[q].chat] = {} /\ draft[q] = NoDraft
               /\ chat'[req[q].chat].status = "deleted"
      <3>1. req[q].at \notin {"commit"} \cup Answered
        BY <2>4 DEF DraftAt, FlushedLine, NoDraft
      <3>2. QED
        BY <2>1, <2>4, <3>1
    <2>5. QED
      BY <1>2, <1>3, <2>1, <2>2, <2>3, <2>4, OwnRows DEF Exists
  <1>4. CASE q = r
    <2>1. r \in Request /\ req'[r].at # "ended"
      BY <1>1, <1>4 DEF Streams
    <2>2. CASE Enter(r)
      BY <1>4, <2>2, EnterEffect DEF Asked, Answered
    <2>3. CASE StoreStep(r)
      <3>1. req[r].at = "commit" /\ req'[r].at = "history" /\ req'[r].chat = req[r].chat
        BY <2>1, <2>3, StoreEffect, EndEffect, PlacesOfCalls DEF Call
      <3> DEFINE C == Cardinality(msgs[req[r].chat])
      <3>2. /\ msgs'[req[r].chat] = msgs[req[r].chat] \cup {Line("user", C + 1, r)}
            /\ Cardinality(msgs'[req[r].chat]) = C + 1
            /\ req[r].chat \in Chat
        BY <1>2, <1>4, <2>3, <3>1, Appended
      <3>3. \A m \in msgs[req[r].chat] : m.by # r
        BY <3>1, <3>2 DEF Unwritten
      <3>4. /\ Line("user", C + 1, r).by = r /\ Line("user", C + 1, r).role = "user"
            /\ Line("user", C + 1, r).seq = C + 1
        BY DEF Line
      <3> HIDE DEF C
      <3>5. {m \in msgs'[req[r].chat] : m.by = r /\ m.role = "user"} = {Line("user", C + 1, r)}
        BY <3>2, <3>3, <3>4
      <3>6. \A m \in {Line("user", C + 1, r)} : m.seq = Cardinality(msgs'[req[r].chat])
        BY <3>2, <3>4
      <3>7. QED
        BY <1>4, <3>1, <3>5, <3>6 DEF Asked, Answered
    <2>4. CASE Wait(r)
      BY <1>2, <1>4, <2>4, WaitEffect DEF Flow, Streams, Question, Exists, Asked, Answered
    <2>5. CASE SaveQuestion(r) \/ SaveAnswer(r)
      <3>1. /\ req[r].at \in {"save", "answer"} /\ req'[r].chat = req[r].chat
            /\ UNCHANGED <<chat, msgs>>
        BY <2>5, SaveQuestionEffect, SaveAnswerEffect, QuietEffect DEF Quiet
      <3>2. req[r].chat \in Chat /\ draft[r].msgs = {}
        BY <3>1, AtChat DEF DraftAt, Asked, NoDraft
      <3>3. NextSeq(r) = Cardinality(msgs[req[r].chat]) + 1
        BY <1>2, <1>4, <3>1, <3>2, NextSeqType DEF Numbered
      <3>4. CASE SaveQuestion(r)
        <4>1. draft'[r].msgs = {Line("user", NextSeq(r), r)}
          <5>1. draft[r] \in Draft /\ draft'[r] = [draft[r] EXCEPT !.msgs = {Line("user", NextSeq(r), r)}]
            BY <3>4, SaveQuestionEffect DEF ChatTypeInv
          <5>2. QED
            BY <5>1 DEF Draft
        <4>2. \A m \in draft'[r].msgs : m.seq = Cardinality(msgs'[req'[r].chat]) + 1
          <5>1. Line("user", NextSeq(r), r).seq = NextSeq(r)
            BY DEF Line
          <5>2. QED
            BY <3>1, <3>3, <4>1, <5>1
        <4>3. req'[r].at = "commit"
          BY <3>4, SaveQuestionEffect
        <4>4. QED
          BY <1>4, <4>2, <4>3 DEF Asked, Answered
      <3>5. CASE SaveAnswer(r)
        <4>1. draft'[r].msgs = {Line("assistant", NextSeq(r), r)}
          BY <3>5, SaveAnswerEffect DEF NoDraft
        <4>2. Question(r) # {} /\ \A m \in Question(r) : m.seq = Cardinality(msgs[req[r].chat])
          BY <1>2, <1>4, <3>1, <3>5, SaveAnswerEffect DEF Flow, Streams, Asked
        <4>3. PICK m \in Question(r) : m.seq = Cardinality(msgs[req[r].chat])
          BY <4>2
        <4>4. m \in Message /\ m \in msgs[req[r].chat] /\ m.by = r /\ m.role = "user"
          BY <3>2, <4>3 DEF Question, ChatTypeInv
        <4>5. m = Line("user", Cardinality(msgs[req[r].chat]), r)
          BY <4>3, <4>4 DEF Message, Line
        <4>6. Cardinality(msgs[req[r].chat]) \in Nat
          BY <3>2, FS_CardinalityType DEF ChatTypeInv
        <4>7. NextSeq(r) - 1 = Cardinality(msgs[req[r].chat])
          BY <3>3, <4>6
        <4>8. Line("assistant", NextSeq(r), r).seq = NextSeq(r)
          BY DEF Line
        <4>9. \A a \in draft'[r].msgs :
                /\ a.seq = Cardinality(msgs'[req'[r].chat]) + 1
                /\ Line("user", a.seq - 1, r) \in msgs'[req'[r].chat]
          BY <3>1, <3>3, <4>1, <4>4, <4>5, <4>7, <4>8
        <4>10. req'[r].at \in {"title", "bill"}
          BY <3>5, SaveAnswerEffect
        <4>11. QED
          BY <1>4, <4>9, <4>10 DEF Asked, Answered
      <3>6. QED
        BY <2>5, <3>4, <3>5
    <2>6. CASE UpdateTitle(r) \/ SaveUsage(r)
      <3>1. /\ req[r].at \in Answered /\ req'[r].at \in Answered
            /\ req'[r].chat = req[r].chat /\ UNCHANGED msgs
        BY <2>6, GoToEffect DEF UpdateTitle, SaveUsage, Answered, tables
      <3>2. draft'[r].msgs = draft[r].msgs
        <4>1. draft[r] \in Draft
              /\ draft'[r] \in {[draft[r] EXCEPT !.title = TRUE], [draft[r] EXCEPT !.usage = TRUE]}
          BY <2>6 DEF UpdateTitle, SaveUsage, ChatTypeInv
        <4>2. QED
          BY <4>1 DEF Draft
      <3>3. QED
        BY <1>2, <1>4, <3>1, <3>2 DEF Flow, Streams, Asked, Answered
    <2>7. CASE ArchiveUpdate(r) \/ \E c \in Chat : Load(r, c, "archive") \/ Load(r, c, "delete")
      <3>1. req'[r].at \in {"archive", "delete"}
        BY <2>7, LoadEffect DEF ArchiveUpdate
      <3>2. QED
        BY <1>1, <1>4, <3>1 DEF Streams
    <2>8. CASE Leave(r) \/ BreakOff(r) \/ DeleteCommit(r)
      BY <2>1, <2>8, EndEffect, BreakOffEffect DEF Leave, Refuse, AdminFails, DeleteCommit
    <2>9. QED
      BY <2>2, <2>3, <2>4, <2>5, <2>6, <2>7, <2>8, StepKinds DEF Quiet, Wait
  <1>5. QED
    BY <1>3, <1>4

\* Nobody but r commits rows of r.
LEMMA QuestionsKept ==
    ASSUME ChatTypeInv, DraftAt, NEW r \in Request, Step(r), NEW q \in Request,
           req[q].chat \in Chat, q # r \/ req[r].at # "commit"
    PROVE  {m \in msgs'[req[q].chat] : m.by = q /\ m.role = "user"} \subseteq Question(q)
  <1>1. SUFFICES ASSUME NEW m \in msgs'[req[q].chat], m.by = q, m.role = "user"
                 PROVE  m \in msgs[req[q].chat]
    BY DEF Question
  <1>2. CASE StoreStep(r)
    <2>1. CASE req[r].chat = req[q].chat
      <3>1. \A role, n : Line(role, n, r).by = r /\ Line(role, n, r).role = role
        BY DEF Line
      <3>2. msgs'[req[q].chat] = msgs[req[q].chat] \cup draft[r].msgs
        BY <1>2, <2>1, StoreRows
      <3>3. m \notin draft[r].msgs
        <4>1. req[r].at \in {"commit", "close", "archive"}
          BY <1>2, StoreEffect
        <4>2. \/ draft[r].msgs = {}
              \/ req[r].at = "commit" /\ \E n \in Nat \ {0} : draft[r].msgs = {Line("user", n, r)}
              \/ \E n \in Nat \ {0} : draft[r].msgs = {Line("assistant", n, r)}
          BY <1>2, <4>1, StoreRows
        <4>3. QED
          BY <1>1, <3>1, <4>2
      <3>4. QED
        BY <1>1, <3>2, <3>3
    <2>2. CASE req[r].chat # req[q].chat
      BY <1>1, <1>2, <2>2, StoreRows
    <2>3. QED
      BY <2>1, <2>2
  <1>3. CASE DeleteCommit(r)
    <2>1. msgs'[req[q].chat] \in {msgs[req[q].chat], {}}
      BY <1>3, DeleteRows
    <2>2. QED
      BY <1>1, <2>1
  <1>4. CASE ~StoreStep(r) /\ ~DeleteCommit(r)
    BY <1>1, <1>4, RowsKept
  <1>5. QED
    BY <1>2, <1>3, <1>4

LEMMA SentStep ==
    ASSUME ChatTypeInv, DraftAt, Alone, Sent, NEW r \in Request, Step(r)
    PROVE  Sent'
  <1>1. SUFFICES ASSUME NEW q \in Request, req'[q].at \in {"call", "pull", "event"}
                 PROVE  LET Q == {m \in msgs'[req'[q].chat] : m.by = q /\ m.role = "user"} IN
                        /\ Q \subseteq req'[q].sent
                        /\ req'[q].chat \notin crossed' /\ Q # {} =>
                             req'[q].sent = msgs'[req'[q].chat]
    BY <1>1 DEF Sent, Question
  <1>2. CASE q # r
    <2>1. req'[q] = req[q] /\ Streams(q) /\ req[q].chat \in Chat
      BY <1>1, <1>2, OthersKept, AtChat DEF Streams
    <2>2. {m \in msgs'[req[q].chat] : m.by = q /\ m.role = "user"} \subseteq Question(q)
      BY <1>2, <2>1, QuestionsKept
    <2>3. Question(q) \subseteq req[q].sent
      BY <1>1, <2>1 DEF Sent
    <2>4. ASSUME req[q].chat \notin crossed',
                 {m \in msgs'[req[q].chat] : m.by = q /\ m.role = "user"} # {}
          PROVE  req[q].sent = msgs'[req[q].chat]
      <3>1. req[q].chat \notin crossed /\ msgs'[req[q].chat] # {}
        BY <2>4, OthersKept
      <3>2. msgs'[req[q].chat] = msgs[req[q].chat]
        BY <1>2, <2>1, <3>1, OwnRows
      <3>3. Question(q) # {}
        BY <2>2, <2>4
      <3>4. QED
        BY <1>1, <2>1, <3>1, <3>2, <3>3 DEF Sent
    <2>5. QED
      BY <2>1, <2>2, <2>3, <2>4
  <1>3. CASE q = r
    <2>1. Wait(r)
      <3>1. ~Enter(r) /\ ~StoreStep(r)
        BY <1>1, <1>3, EnterEffect, StoreEffect, EndEffect, PlacesOfCalls DEF Call
      <3>2. ~SaveQuestion(r) /\ ~SaveAnswer(r) /\ ~UpdateTitle(r) /\ ~SaveUsage(r)
        <4>1. ~SaveQuestion(r) /\ ~SaveAnswer(r)
          BY <1>1, <1>3, SaveQuestionEffect, SaveAnswerEffect
        <4>2. ~GoTo(r, "bill") /\ ~GoTo(r, "close")
          BY <1>1, <1>3, GoToEffect
        <4>3. QED
          BY <4>1, <4>2 DEF UpdateTitle, SaveUsage
      <3>3. ~ArchiveUpdate(r) /\ ~\E c \in Chat : Load(r, c, "archive") \/ Load(r, c, "delete")
        BY <1>1, <1>3, LoadEffect DEF ArchiveUpdate
      <3>4. ~Leave(r) /\ ~BreakOff(r) /\ ~DeleteCommit(r)
        BY <1>1, <1>3, EndEffect, BreakOffEffect DEF Leave, Refuse, AdminFails, DeleteCommit
      <3>5. QED
        BY <3>1, <3>2, <3>3, <3>4, StepKinds DEF Quiet, Wait
    <2>2. UNCHANGED <<msgs, crossed>> /\ req'[r].chat = req[r].chat
          /\ \/ req'[r].sent = msgs[req[r].chat]
             \/ req[r].at \in {"call", "pull", "event"} /\ req'[r].sent = req[r].sent
      BY <2>1, WaitEffect
    <2>3. CASE req'[r].sent = msgs[req[r].chat]
      BY <1>3, <2>2, <2>3
    <2>4. CASE req[r].at \in {"call", "pull", "event"} /\ req'[r].sent = req[r].sent
      BY <1>3, <2>2, <2>4 DEF Sent, Question
    <2>5. QED
      BY <2>2, <2>3, <2>4
  <1>4. QED
    BY <1>2, <1>3

LEMMA TitlesStep ==
    ASSUME ChatTypeInv, DraftAt, Referenced, Alone, Titles, NEW r \in Request, Step(r)
    PROVE  Titles'
  <1>1. ASSUME NEW c \in Chat, chat'[c].title # None
        PROVE  chat'[c].status # "none" /\ usage'[c] # {}
    <2>1. CASE StoreStep(r) /\ c = req[r].chat
      <3>1. CASE draft[r].title
        <4>1. req[r].at = "close" /\ draft[r] # NoDraft /\ ~draft[r].new
          <5>1. req[r].at = "close"
            BY <2>1, <3>1, StoreRows
          <5>2. ~draft[r].new
            BY <5>1 DEF DraftAt, Answered
          <5>3. NoDraft.title = FALSE
            BY DEF NoDraft
          <5>4. QED
            BY <3>1, <5>1, <5>2, <5>3
        <4>2. Exists(c) /\ r \in usage'[c]
          BY <2>1, <4>1, StoreRows DEF Referenced
        <4>3. QED
          BY <2>1, <4>2, StoreRows DEF Exists
      <3>2. CASE ~draft[r].title
        BY <1>1, <2>1, <3>2, StoreRows DEF Titles
      <3>3. QED
        BY <3>1, <3>2
    <2>2. CASE StoreStep(r) /\ c # req[r].chat
      BY <1>1, <2>2, StoreRows DEF Titles
    <2>3. CASE DeleteCommit(r)
      BY <1>1, <2>3, DeleteRows DEF Titles
    <2>4. CASE ~StoreStep(r) /\ ~DeleteCommit(r)
      BY <1>1, <2>4, RowsKept DEF Titles
    <2>5. QED
      BY <2>1, <2>2, <2>3, <2>4
  <1>2. ASSUME NEW q \in Request, Streams(q)', req'[q].chat \notin crossed',
               req'[q].first \/ req'[q].at = "title" \/ draft'[q].title
        PROVE  chat'[req'[q].chat].title = None
    <2>1. req'[q].chat \notin crossed
      BY <1>2, OthersKept
    <2>2. CASE q # r
      <3>1. req'[q] = req[q] /\ draft'[q] = draft[q] /\ Streams(q)
        BY <1>2, <2>2, OthersKept DEF Streams
      <3>2. chat[req[q].chat].title = None
        BY <1>2, <2>1, <3>1 DEF Titles
      <3>3. QED
        BY <2>1, <2>2, <3>1, <3>2, OwnRows
    <2>3. CASE q = r /\ Enter(r)
      <3>1. draft'[r].title = FALSE
        <4>1. draft[r] = NoDraft /\ draft'[r] \in {draft[r], [draft[r] EXCEPT !.new = TRUE]}
          BY <2>3, EnterEffect DEF DraftAt
        <4>2. QED
          BY <4>1 DEF NoDraft
      <3>2. req'[r].first /\ req'[r].chat \in Chat /\ UNCHANGED chat
        BY <1>2, <2>3, <3>1, EnterEffect
      <3>3. QED
        BY <2>3, <3>2, EnterEffect DEF Titles
    <2>4. CASE q = r /\ ~Enter(r)
      <3>1. Streams(r) /\ req'[r].chat = req[r].chat /\ req[r].chat \in Chat
        BY <1>2, <2>4, StreamsKept, AtChat DEF Streams
      <3>2. SUFFICES /\ chat'[req[r].chat].title = chat[req[r].chat].title
                     /\ req[r].first \/ req[r].at = "title" \/ draft[r].title
        BY <2>1, <2>4, <3>1 DEF Titles
      <3>3. req'[r].at \notin {"ended", "archive", "delete"}
        BY <1>2, <2>4 DEF Streams
      <3>4. CASE StoreStep(r)
        <4>1. req[r].at = "commit"
          BY <3>3, <3>4, StoreEffect, EndEffect
        <4>2. ~draft[r].title /\ chat'[req[r].chat].title = chat[req[r].chat].title
          BY <3>4, <4>1, StoreRows
        <4>3. req'[r].at = "history" /\ req'[r].first = req[r].first /\ draft'[r] = NoDraft
          BY <3>4, <4>1, StoreEffect, PlacesOfCalls DEF Call
        <4>4. QED
          BY <1>2, <2>4, <4>2, <4>3 DEF NoDraft
      <3>5. CASE Wait(r)
        BY <1>2, <2>4, <3>5, WaitEffect DEF Asked
      <3>6. CASE SaveQuestion(r)
        <4>1. draft'[r].title = draft[r].title
          <5>1. draft[r] \in Draft /\ draft'[r] = [draft[r] EXCEPT !.msgs = {Line("user", NextSeq(r), r)}]
            BY <3>6, SaveQuestionEffect DEF ChatTypeInv
          <5>2. QED
            BY <5>1 DEF Draft
        <4>2. QED
          BY <1>2, <2>4, <3>6, <4>1, SaveQuestionEffect DEF SaveQuestion, tables
      <3>7. CASE SaveAnswer(r)
        <4>1. draft'[r].title = FALSE
          BY <3>7, SaveAnswerEffect DEF NoDraft
        <4>2. QED
          BY <1>2, <2>4, <3>7, <4>1, SaveAnswerEffect DEF SaveAnswer, tables
      <3>8. CASE UpdateTitle(r)
        BY <3>8 DEF UpdateTitle, tables
      <3>9. CASE SaveUsage(r)
        <4>1. draft'[r].title = draft[r].title
          BY <3>9 DEF SaveUsage, ChatTypeInv, Draft
        <4>2. QED
          BY <1>2, <2>4, <3>9, <4>1, GoToEffect DEF SaveUsage, tables
      <3>10. CASE ArchiveUpdate(r) \/ \E c \in Chat : Load(r, c, "archive") \/ Load(r, c, "delete")
        BY <3>3, <3>10, LoadEffect DEF ArchiveUpdate
      <3>11. CASE Leave(r) \/ BreakOff(r) \/ DeleteCommit(r)
        BY <3>3, <3>11, EndEffect, BreakOffEffect DEF Leave, Refuse, AdminFails, DeleteCommit
      <3>12. QED
        BY <2>4, <3>4, <3>5, <3>6, <3>7, <3>8, <3>9, <3>10, <3>11, StepKinds DEF Quiet, Wait
    <2>5. QED
      BY <2>2, <2>3, <2>4
  <1>3. QED
    BY <1>1, <1>2 DEF Titles

\* A name is replaced only where streams have met.
LEMMA TitleChanged ==
    ASSUME ChatTypeInv, DraftAt, Titles, NEW r \in Request, Step(r), NEW c \in Chat,
           chat[c].title # None, chat'[c].title # chat[c].title
    PROVE  c \in crossed
  <1>1. CASE StoreStep(r)
    <2>1. c = req[r].chat
      <3>1. CASE c # req[r].chat
        BY <1>1, <3>1, StoreOthers
      <3>2. QED
        BY <3>1
    <2>2. draft[r].title /\ req[r].at = "close"
      <3>1. /\ chat'[c].title = IF draft[r].title THEN r ELSE chat[c].title
            /\ draft[r].title => req[r].at = "close"
        BY <1>1, <2>1, StoreRows
      <3>2. QED
        BY <3>1
    <2>3. QED
      BY <2>1, <2>2 DEF Titles, Streams
  <1>2. CASE DeleteCommit(r)
    BY <1>2, DeleteRows DEF Titles
  <1>3. CASE ~StoreStep(r) /\ ~DeleteCommit(r)
    BY <1>3, RowsKept
  <1>4. QED
    BY <1>1, <1>2, <1>3

\* A stream with a question on record, which ends in an answer or breaks the chat.
Pending(p, c) == req[p].chat = c /\ req[p].at \in Asked \cup Answered /\ Question(p) # {}

LEMMA TurnsStep ==
    ASSUME ChatTypeInv, DraftAt, Alone, Numbered, Flow, TurnsTaken, NEW r \in Request, Step(r)
    PROVE  TurnsTaken'
  <1>1. SUFFICES ASSUME NEW c \in Chat, c \notin crossed', c \notin broken'
                 PROVE  /\ \A m \in msgs'[c] : (m.role = "user") = (m.seq % 2 = 1)
                        /\ Cardinality(msgs'[c]) % 2 = 1 => \E p \in Request : Pending(p, c)'
    BY <1>1 DEF TurnsTaken, Pending
  <1> DEFINE C == Cardinality(msgs[c])
  <1>2. c \notin crossed /\ c \notin broken
    BY <1>1, OthersKept
  <1>3. \A m \in msgs[c] : (m.role = "user") = (m.seq % 2 = 1)
    BY <1>2 DEF TurnsTaken
  <1>4. C % 2 = 1 => \E p \in Request : Pending(p, c)
    BY <1>2 DEF TurnsTaken, Pending
  <1>5. C \in Nat
    BY FS_CardinalityType DEF ChatTypeInv
  <1>6. ASSUME NEW p \in Request, Pending(p, c), p # r, msgs'[c] = msgs[c]
        PROVE  Pending(p, c)'
    BY <1>6, OthersKept DEF Pending, Question
  <1>7. CASE StoreStep(r) /\ c = req[r].chat /\ req[r].at = "commit"
    <2>1. C % 2 # 1
      <3>1. SUFFICES ASSUME NEW p \in Request, Pending(p, c)
                     PROVE  FALSE
        BY <1>4
      <3>2. Streams(p) /\ Streams(r) /\ p # r
        BY <1>7, <3>1 DEF Pending, Streams, Asked, Answered
      <3>3. QED
        BY <1>2, <1>7, <3>1, <3>2 DEF Alone, Pending
    <2>2. msgs'[c] = msgs[c] \cup {Line("user", C + 1, r)}
      BY <1>2, <1>7, Appended
    <2>3. (C + 1) % 2 = 1
      BY <1>5, <2>1
    <2>4. Line("user", C + 1, r).role = "user" /\ Line("user", C + 1, r).seq = C + 1
          /\ Line("user", C + 1, r).by = r
      BY DEF Line
    <2> HIDE DEF C
    <2>5. \A m \in msgs'[c] : (m.role = "user") = (m.seq % 2 = 1)
      BY <1>3, <2>2, <2>3, <2>4
    <2>6. req'[r].at = "history" /\ req'[r].chat = c
      BY <1>7, StoreEffect, PlacesOfCalls DEF Call
    <2>7. Pending(r, c)'
      BY <2>2, <2>4, <2>6 DEF Pending, Question, Asked
    <2>8. QED
      BY <2>5, <2>7
  <1>8. CASE StoreStep(r) /\ c = req[r].chat /\ req[r].at = "close"
    <2>1. /\ msgs'[c] = msgs[c] \cup {Line("assistant", C + 1, r)}
          /\ Cardinality(msgs'[c]) = C + 1 /\ Line("user", C, r) \in msgs[c]
      BY <1>2, <1>8, Appended
    <2>2. Line("assistant", C + 1, r).role = "assistant" /\ Line("assistant", C + 1, r).seq = C + 1
          /\ Line("user", C, r).role = "user" /\ Line("user", C, r).seq = C
      BY DEF Line
    <2> HIDE DEF C
    <2>3. C % 2 = 1
      BY <1>3, <2>1, <2>2
    <2>4. (C + 1) % 2 # 1
      BY <1>5, <2>3
    <2>5. \A m \in msgs'[c] : (m.role = "user") = (m.seq % 2 = 1)
      BY <1>3, <2>1, <2>2, <2>4
    <2>6. QED
      BY <2>1, <2>4, <2>5
  <1>9. CASE StoreStep(r) /\ ~(c = req[r].chat /\ req[r].at \in {"commit", "close"})
    <2>1. msgs'[c] = msgs[c]
      <3>1. CASE c # req[r].chat
        BY <1>9, <3>1, StoreRows
      <3>2. CASE c = req[r].chat
        <4>1. draft[r].msgs = {}
          BY <1>9, <3>2, StoreRows, StoreEffect
        <4>2. msgs'[c] = msgs[c] \cup draft[r].msgs
          BY <1>9, <3>2, StoreRows
        <4>3. QED
          BY <4>1, <4>2
      <3>3. QED
        BY <3>1, <3>2
    <2>2. ~Pending(r, c)
      BY <1>9, StoreEffect DEF Pending, Asked, Answered
    <2>3. QED
      BY <1>3, <1>4, <1>6, <2>1, <2>2
  <1>10. CASE DeleteCommit(r)
    <2>1. CASE c = req[r].chat
      <3>1. msgs'[c] = {}
        BY <1>10, <2>1, DeleteRows
      <3>2. Cardinality(msgs'[c]) = 0 /\ 0 % 2 # 1
        BY <3>1, FS_EmptySet
      <3>3. QED
        BY <3>1, <3>2
    <2>2. CASE c # req[r].chat
      <3>1. msgs'[c] = msgs[c] /\ ~Pending(r, c)
        BY <1>10, <2>2, DeleteRows DEF Pending
      <3>2. QED
        BY <1>3, <1>4, <1>6, <3>1
    <2>3. QED
      BY <2>1, <2>2
  <1>11. CASE ~StoreStep(r) /\ ~DeleteCommit(r)
    <2>1. UNCHANGED msgs
      BY <1>11, RowsKept
    <2>2. ASSUME Pending(r, c)
          PROVE  Pending(r, c)'
      <3>1. ~Leave(r) /\ ~Enter(r)
        BY <2>2, EnterEffect DEF Pending, Leave, Refuse, AdminFails, Asked, Answered
      <3>2. ~BreakOff(r)
        BY <1>1, <2>2, BreakOffEffect DEF Pending
      <3>3. Quiet(r)
        BY <1>11, <3>1, <3>2, StepKinds
      <3>4. req'[r].at # "ended"
        <4>1. CASE Wait(r)
          BY <4>1, WaitEffect DEF Asked
        <4>2. CASE SaveQuestion(r) \/ SaveAnswer(r)
          BY <4>2, SaveQuestionEffect, SaveAnswerEffect
        <4>3. CASE UpdateTitle(r) \/ SaveUsage(r)
          BY <4>3, GoToEffect DEF UpdateTitle, SaveUsage
        <4>4. CASE ArchiveUpdate(r) \/ \E d \in Chat : Load(r, d, "archive") \/ Load(r, d, "delete")
          BY <4>4, LoadEffect DEF ArchiveUpdate
        <4>5. QED
          BY <3>3, <4>1, <4>2, <4>3, <4>4 DEF Quiet, Wait
      <3>5. req'[r].chat = req[r].chat /\ req'[r].at \in Asked \cup Answered
        BY <2>2, <3>1, <3>4, Moves DEF Pending, Asked, Answered
      <3>6. QED
        BY <2>1, <2>2, <3>5 DEF Pending, Question
    <2>3. QED
      BY <1>3, <1>4, <1>6, <2>1, <2>2
  <1>12. QED
    BY <1>7, <1>8, <1>9, <1>10, <1>11

-----------------------------------------------------------------------------
(* The theorems *)

LEMMA ChatInit == Init => ChatInv
  <1> SUFFICES ASSUME Init
               PROVE  ChatInv
    OBVIOUS
  <1>1. NoCall \in Call /\ NoDraft \in Draft
    BY ChatAssumption DEF NoCall, Call, NoDraft, Draft
  <1>2. ChatTypeInv
    BY <1>1, FS_EmptySet DEF Init, ChatTypeInv, Row, Message
  <1>3. \A r \in Request : req[r].at = "idle" /\ req[r].chat = None /\ req[r].tries = 0
                             /\ draft[r] = NoDraft
    BY DEF Init, NoCall
  <1>4. AttemptsLeft
    BY <1>3, ChatAssumption DEF AttemptsLeft
  <1>5. DraftAt
    BY <1>3 DEF DraftAt, Asked, Answered
  <1>6. Referenced /\ Unwritten /\ Alone /\ Sent /\ LoopHeld
    BY <1>3, ChatAssumption DEF Init, Referenced, Unwritten, Alone, Sent, LoopHeld, Streams
  <1>7. Numbered /\ Flow
    BY <1>3, FS_EmptySet DEF Init, Numbered, Flow, Streams, Seqs
  <1>8. TurnsTaken /\ Titles /\ AnswersBilled
    <2>1. 0 % 2 # 1
      OBVIOUS
    <2>2. QED
      BY <1>3, <2>1, FS_EmptySet DEF Init, TurnsTaken, Titles, Streams, AnswersBilled
  <1>9. QED
    BY <1>2, <1>4, <1>5, <1>6, <1>7, <1>8 DEF ChatInv

LEMMA ChatStep == ChatInv /\ [Next]_vars => ChatInv'
  <1> SUFFICES ASSUME ChatInv, [Next]_vars
               PROVE  ChatInv'
    OBVIOUS
  <1>1. CASE Next
    <2>1. PICK r \in Request : Step(r)
      BY <1>1, Steps
    <2>2. ChatTypeInv' /\ AttemptsLeft' /\ DraftAt'
      BY <1>1, <2>1, TypeStep, AttemptsStep, DraftStep DEF ChatInv
    <2>3. Referenced' /\ Unwritten' /\ Alone'
      BY <2>1, <2>2, ReferencedStep, UnwrittenStep, AloneStep DEF ChatInv
    <2>4. Numbered' /\ Flow' /\ Sent'
      BY <2>1, NumberedStep, FlowStep, SentStep DEF ChatInv
    <2>5. TurnsTaken' /\ Titles' /\ AnswersBilled' /\ LoopHeld'
      BY <2>1, TurnsStep, TitlesStep, BilledStep, LoopStep DEF ChatInv
    <2>6. QED
      BY <2>2, <2>3, <2>4, <2>5 DEF ChatInv
  <1>2. CASE UNCHANGED vars
    BY <1>2 DEF vars, ChatInv, ChatTypeInv, AttemptsLeft, DraftAt, FlushedLine, Referenced, Exists,
       Unwritten, Alone, Streams, Numbered, Flow, Question, Sent, TurnsTaken, Titles, AnswersBilled,
       LoopHeld, Seqs
  <1>3. QED
    BY <1>1, <1>2

\* The inductive invariant of simple chats: types, what a request has flushed at each of
\* its places, who is alone on a chat, and what the rows then look like
\* (simple_chat_service.py).
THEOREM ChatInvariant == Spec => []ChatInv
  <1>1. QED
    BY ChatInit, ChatStep, PTL DEF Spec

\* A chat on which no two streams met is numbered without gaps, every answer follows its
\* own question, and if none broke off, users and model take turns (_save_message()).
THEOREM ChatIsDialogue == Spec => []Dialogue
  <1>1. ChatInv => Dialogue
    <2> SUFFICES ASSUME ChatInv, NEW c \in Chat \ crossed
                 PROVE  /\ Seqs(msgs[c]) = 1..Cardinality(msgs[c])
                        /\ \A m \in msgs[c] : m.role = "assistant" =>
                             [role |-> "user", seq |-> m.seq - 1, by |-> m.by] \in msgs[c]
                        /\ c \notin broken => \A m \in msgs[c] : (m.role = "user") = (m.seq % 2 = 1)
      BY DEF Dialogue
    <2>1. QED
      BY DEF ChatInv, Numbered, TurnsTaken, Line
  <1>2. QED
    BY <1>1, ChatInvariant, PTL

\* The model is sent the question it is asked and, unless streams meet, all that is on
\* record, the question last (stream_message()).
THEOREM ModelIsAskedWithHistory == Spec => []ModelSeesHistory
  <1>1. ChatInv => ModelSeesHistory
    <2> SUFFICES ASSUME ChatInv, NEW r \in Request, req[r].at \in {"call", "pull", "event"},
                        NEW q \in Question(r)
                 PROVE  /\ q \in req[r].sent
                        /\ req[r].chat \notin crossed =>
                             /\ req[r].sent = msgs[req[r].chat]
                             /\ \A m \in req[r].sent : m.seq <= q.seq
      BY DEF ModelSeesHistory
    <2>1. q \in req[r].sent
      BY DEF ChatInv, Sent
    <2>2. ASSUME req[r].chat \notin crossed
          PROVE  /\ req[r].sent = msgs[req[r].chat]
                 /\ \A m \in req[r].sent : m.seq <= q.seq
      <3>1. req[r].sent = msgs[req[r].chat]
        BY <2>2 DEF ChatInv, Sent
      <3>2. req[r].chat \in Chat /\ q.seq = Cardinality(msgs[req[r].chat])
        BY <2>2, AtChat DEF ChatInv, Flow, Streams, Asked
      <3>3. Cardinality(msgs[req[r].chat]) \in Nat
            /\ Seqs(msgs[req[r].chat]) = 1..Cardinality(msgs[req[r].chat])
        BY <2>2, <3>2, FS_CardinalityType DEF ChatInv, ChatTypeInv, Numbered
      <3>4. \A m \in msgs[req[r].chat] : m.seq \in 1..Cardinality(msgs[req[r].chat])
        BY <3>3 DEF Seqs
      <3>5. QED
        BY <3>1, <3>2, <3>3, <3>4
    <2>3. QED
      BY <2>1, <2>2
  <1>2. QED
    BY <1>1, ChatInvariant, PTL

\* Whatever fails or is cancelled, answers on record and usage rows are those of the same
\* requests (save_usage_log()).
THEOREM ChatAnswersBilled == Spec => []AnswersBilled
  <1>1. ChatInv => AnswersBilled
    BY DEF ChatInv
  <1>2. QED
    BY <1>1, ChatInvariant, PTL

\* A title once committed stays, unless streams have met on the chat (is_first_message).
THEOREM ChatTitleKept == Spec => TitleKept
  <1>1. ChatInv /\ [Next]_vars => [\A c \in Chat :
           chat[c].title # None /\ chat'[c].title # chat[c].title => c \in crossed]_vars
    <2> SUFFICES ASSUME ChatInv, Next, NEW c \in Chat, chat[c].title # None,
                        chat'[c].title # chat[c].title, c \notin crossed
                 PROVE  FALSE
      OBVIOUS
    <2>1. PICK r \in Request : Step(r)
      BY Steps
    <2>2. ChatTypeInv /\ DraftAt /\ Titles
      BY DEF ChatInv
    <2>3. QED
      BY <2>1, <2>2, TitleChanged
  <1>2. QED
    BY <1>1, ChatInvariant, PTL DEF Spec, TitleKept
=============================================================================
