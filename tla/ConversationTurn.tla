-------------------------- MODULE ConversationTurn --------------------------
(***************************************************************************)
(* Turns of one conversation: ExecuteService.execute_streaming() under the *)
(* conversation lock, its database session, and the SSE generator that     *)
(* watches it (app/services/execute_service.py,                            *)
(* app/api/conversations/streaming.py).                                    *)
(*                                                                         *)
(* A turn is a call of acquire(), so the lock is DistributedLock itself,   *)
(* with one resource.  The database is PostgreSQL at READ COMMITTED: a     *)
(* SELECT sees what is committed and the session's own flushed rows, an    *)
(* UPDATE holds the row until its transaction ends.  The session keeps the *)
(* conversation row it has loaded (expire_on_commit=False, no              *)
(* populate_existing): a later SELECT does not refresh it.                 *)
(***************************************************************************)
EXTENDS DistributedLock, FiniteSets

CONSTANTS
    ExecTimeout,   \* container_execution_timeout: read timeout of the stream
    EventTimeout,  \* event_timeout: idle timeout of the SSE generator
    ContextLimit   \* 95 % of the context window, in turns

\* Timeouts as ordered by config.py:144; all turns are of one conversation.
ASSUME TurnAssumption ==
    /\ ExecTimeout \in Nat \ {0}
    /\ EventTimeout \in Nat \ {0}
    /\ ExecTimeout <= EventTimeout
    /\ ContextLimit \in Nat \ {0}
    /\ \A c, d \in Call : ResourceOf[c] = ResourceOf[d]

VARIABLES
    pc,       \* pc[t]: what execute_streaming() awaits
    ok,       \* ok[t]: execution_success, and the session is not in error
    watched,  \* watched[t]: the client, hence the generator, is still there
    silent,   \* silent[t]: ticks since the last event of t, as long as some
              \* timeout depends on it
    done,     \* done[t]: the agent's done event has come (done_data)
    due,      \* due[t]: more than 60 s since the last extension
    renewal,  \* renewal[t]: what became of the last extension of the lock
    log,      \* committed rows of messages_log
    row,      \* committed row of the conversation
    usage,    \* turns with a committed usage_log
    drafts,   \* drafts[t]: messages flushed by t, not yet committed
    loaded,   \* loaded[t]: the conversation object in the session of t
    dirty,    \* dirty[t]: columns of the conversation that t has flushed
    overlap   \* history: some turn got the lock while another one's
              \* transaction was open

clientVars == <<watched, silent>>
renewVars == <<due, renewal>>
dbVars == <<log, row, usage>>
sessionVars == <<drafts, loaded, dirty>>
turnVars == <<pc, ok, done, clientVars, renewVars, dbVars, sessionVars, overlap>>
vars == <<lockVars, turnVars>>

Turn == Call
Column == {"tokens", "limit", "session", "titled"}
Message == [seq : Nat, turn : Turn, type : {"user", "assistant"}]
Row == [tokens : Nat, limit : BOOLEAN, session : Turn \cup {None},
        titled : BOOLEAN]

PC == {"check", "acquire", "user", "prepare", "stream", "post", "answer",
       "release", "end", "ended"}

\* The turn does its work: it runs the agent and writes its results.
Working(t) == pc[t] \in {"user", "prepare", "stream", "post", "answer"}
\* The transaction of t may hold rows that nobody else can see.
Open(t) == Working(t) \/ pc[t] \in {"release", "end"}

EmptyRow == [tokens |-> 0, limit |-> FALSE, session |-> None, titled |-> FALSE]

Init ==
    /\ LockInit
    /\ pc = [t \in Turn |-> "check"]
    /\ ok = [t \in Turn |-> TRUE]
    /\ watched = [t \in Turn |-> TRUE]
    /\ silent = [t \in Turn |-> 0]
    /\ done = [t \in Turn |-> FALSE]
    /\ due = [t \in Turn |-> FALSE]
    /\ renewal = [t \in Turn |-> "none"]
    /\ log = {} /\ row = EmptyRow /\ usage = {}
    /\ drafts = [t \in Turn |-> {}]
    /\ loaded = [t \in Turn |-> EmptyRow]
    /\ dirty = [t \in Turn |-> {}]
    /\ overlap = FALSE

GoTo(t, where) == pc' = [pc EXCEPT ![t] = where]

\* The turn is over: its frames, its generator and its session are gone.
Leave(t) ==
    /\ GoTo(t, "ended")
    /\ ok' = [ok EXCEPT ![t] = TRUE]
    /\ watched' = [watched EXCEPT ![t] = FALSE]
    /\ silent' = [silent EXCEPT ![t] = 0]
    /\ done' = [done EXCEPT ![t] = FALSE]
    /\ due' = [due EXCEPT ![t] = FALSE]
    /\ renewal' = [renewal EXCEPT ![t] = "none"]
    /\ drafts' = [drafts EXCEPT ![t] = {}]
    /\ loaded' = [loaded EXCEPT ![t] = EmptyRow]
    /\ dirty' = [dirty EXCEPT ![t] = {}]
    /\ UNCHANGED overlap

\* An event of t reaches the queue: the generator forwards it and notes the time.
Speaks(t) == silent' = [silent EXCEPT ![t] = 0] /\ UNCHANGED watched

\* The except clause: error and done events, then the finally clause.
Raises(t) ==
    /\ GoTo(t, "release")
    /\ ok' = [ok EXCEPT ![t] = FALSE]
    /\ Speaks(t)
    /\ UNCHANGED done

-----------------------------------------------------------------------------
(* Before the try block: context check and lock *)

\* _check_context_limit() looks at the committed row; the object is not kept.
CheckContext(t) ==
    /\ pc[t] = "check"
    /\ UNCHANGED dbVars
    /\ IF row.limit \/ row.tokens >= ContextLimit
       THEN Leave(t) /\ UNCHANGED lockVars
       ELSE /\ BeginAcquire(t)
            /\ GoTo(t, "acquire")
            /\ UNCHANGED <<ok, done, clientVars, renewVars, sessionVars, overlap>>

Granted(t) ==
    /\ pc[t] = "acquire"
    /\ AcquireSet(t)
    /\ GoTo(t, "user")
    /\ overlap' = (overlap \/ \E u \in Turn \ {t} : Open(u))
    /\ UNCHANGED <<ok, done, clientVars, renewVars, dbVars, sessionVars>>

Waits(t) ==
    /\ pc[t] = "acquire"
    /\ AcquireBusy(t) \/ AcquireReplyLost(t)
    /\ UNCHANGED turnVars

\* ConversationLockError: conversation_locked and done, and that is all.
Locked(t) ==
    /\ pc[t] = "acquire"
    /\ AcquireFails(t)
    /\ Leave(t)
    /\ UNCHANGED dbVars

-----------------------------------------------------------------------------
(* The try block *)

\* get_max_message_seq(): over the committed messages and those t has flushed.
NextSeq(t) ==
    LET seqs == {m.seq : m \in log \cup drafts[t]} IN
    IF seqs = {} THEN 1 ELSE 1 + CHOOSE n \in seqs : \A k \in seqs : k <= n

Draft(t, type) ==
    drafts' = [drafts EXCEPT ![t] =
        @ \cup {[seq |-> NextSeq(t), turn |-> t, type |-> type]}]

SaveUserMessage(t) ==
    /\ pc[t] = "user"
    /\ Draft(t, "user")
    /\ GoTo(t, "prepare")
    /\ Speaks(t)
    /\ UNCHANGED <<lockVars, ok, done, renewVars, dbVars, loaded, dirty, overlap>>

\* Mutant: the turn goes on with the row as it was before it had the lock.
PrepareStale(t) ==
    /\ pc[t] = "prepare"
    /\ GoTo(t, "stream") /\ Speaks(t)
    /\ due' = [due EXCEPT ![t] = FALSE]
    /\ UNCHANGED <<lockVars, ok, done, renewal, dbVars, sessionVars, overlap>>

\* Container and files; the conversation object loaded here stays in the
\* session for the rest of the turn.  The extension timer starts.
Prepare(t) ==
    /\ pc[t] = "prepare"
    /\ loaded' = [loaded EXCEPT ![t] = row]
    /\ due' = [due EXCEPT ![t] = FALSE]
    /\ GoTo(t, "stream")
    /\ Speaks(t)
    /\ UNCHANGED <<lockVars, ok, done, renewal, dbVars, drafts, dirty, overlap>>

\* Mutant: the timer of the extension is never restarted.
RenewOnce(t) ==
    IF due[t] /\ renewal[t] = "none"
    THEN /\ Extend(t)
         /\ renewal' = [renewal EXCEPT ![t] = "done"]
         /\ UNCHANGED due
    ELSE UNCHANGED <<lockVars, renewVars>>

\* extend(additional_ttl=600) with the first event after 60 s.  A key that is
\* gone (False) and an error of Redis are both ignored.
Renew(t) ==
    IF due[t]
    THEN /\ due' = [due EXCEPT ![t] = FALSE]
         /\ \/ Extend(t) /\ renewal' = [renewal EXCEPT ![t] = "done"]
            \/ UNCHANGED lockVars /\ renewal' = [renewal EXCEPT ![t] = "none"]
    ELSE UNCHANGED <<lockVars, renewVars>>

StreamEvent(t) ==
    /\ pc[t] = "stream"
    /\ Speaks(t)
    /\ Renew(t)
    /\ UNCHANGED <<pc, ok, done, dbVars, sessionVars, overlap>>

\* No other transaction has written the row of the conversation.
RowFree(t) == \A u \in Turn \ {t} : dirty[u] = {}

\* The columns as t sees them in the database.
Refreshed(t) == [f \in Column |-> IF f \in dirty[t] THEN loaded[t][f] ELSE row[f]]

\* The done event; before it, the title of a conversation that has none is
\* written (when the model has answered with some text).
StreamDone(t) ==
    /\ pc[t] = "stream"
    /\ Speaks(t)
    /\ done' = [done EXCEPT ![t] = TRUE]
    /\ Renew(t)
    /\ GoTo(t, "post")
    /\ \/ UNCHANGED <<loaded, dirty>>
       \/ /\ ~loaded[t].titled
          /\ RowFree(t)
          /\ loaded' = [loaded EXCEPT ![t] = [Refreshed(t) EXCEPT !.titled = TRUE]]
          /\ dirty' = [dirty EXCEPT ![t] = {"titled"}]
    /\ UNCHANGED <<ok, dbVars, drafts, overlap>>

\* The stream ends with an error event and without done: a failure that the
\* orchestrator has handled, or the read timeout.
StreamBreaks(t) ==
    /\ pc[t] = "stream"
    /\ Speaks(t)
    /\ Renew(t)
    /\ GoTo(t, "post")
    /\ UNCHANGED <<ok, done, dbVars, sessionVars, overlap>>

\* _record_usage() and the session id.  The counters are added to the loaded
\* object, and only columns whose value changes are written.
RecordUsage(t) ==
    LET tokens == loaded[t].tokens + 1
        limit == tokens >= ContextLimit
        columns == {"tokens", "session"} \cup
                     (IF limit # loaded[t].limit THEN {"limit"} ELSE {})
    IN
    /\ pc[t] = "post" /\ done[t] /\ RowFree(t)
    /\ dirty' = [dirty EXCEPT ![t] = @ \cup columns]
    /\ loaded' = [loaded EXCEPT ![t] =
          [@ EXCEPT !.tokens = tokens, !.limit = limit, !.session = t]]
    /\ GoTo(t, "answer")
    /\ UNCHANGED <<lockVars, ok, done, clientVars, renewVars, dbVars, drafts, overlap>>

\* A statement of _record_usage() fails: logged, and the session is in error.
\* Either the update of the session id raises, or the commit will fail.
RecordFails(t) ==
    /\ pc[t] = "post" /\ done[t]
    /\ \/ Raises(t)
       \/ /\ GoTo(t, "answer")
          /\ ok' = [ok EXCEPT ![t] = FALSE]
          /\ UNCHANGED <<done, clientVars>>
    /\ UNCHANGED <<lockVars, renewVars, dbVars, sessionVars, overlap>>

\* Without a done event there is nothing to record.
NothingToRecord(t) ==
    /\ pc[t] = "post" /\ ~done[t]
    /\ GoTo(t, "answer")
    /\ UNCHANGED <<lockVars, ok, done, clientVars, renewVars, dbVars, sessionVars, overlap>>

\* _save_assistant_message(), when there are events; its errors are logged.
SaveAnswer(t) ==
    /\ pc[t] = "answer"
    /\ GoTo(t, "release")
    /\ \/ ok[t] /\ Draft(t, "assistant") /\ UNCHANGED ok
       \/ UNCHANGED <<drafts, ok>>
       \/ UNCHANGED drafts /\ ok' = [ok EXCEPT ![t] = FALSE]
    /\ UNCHANGED <<lockVars, done, clientVars, renewVars, dbVars, loaded, dirty, overlap>>

\* An exception in the try block.
TurnRaises(t) ==
    /\ pc[t] \in {"user", "prepare", "stream", "post"}
    /\ Raises(t)
    /\ UNCHANGED <<lockVars, renewVars, dbVars, sessionVars, overlap>>

-----------------------------------------------------------------------------
(* The finally block: the lock is released first, then the transaction ends *)

\* Mutant: the lock is given back as soon as the stream is over.
ReleaseLockEarly(t) ==
    /\ pc[t] \in {"post", "release"}
    /\ Release(t) \/ ReleaseFails(t)
    /\ pc' = [pc EXCEPT ![t] = IF @ = "post" THEN "answer" ELSE "end"]
    /\ UNCHANGED <<ok, done, clientVars, renewVars, dbVars, sessionVars, overlap>>

ReleaseLock(t) ==
    /\ pc[t] = "release"
    /\ Release(t) \/ ReleaseFails(t)
    /\ GoTo(t, "end")
    /\ UNCHANGED <<ok, done, clientVars, renewVars, dbVars, sessionVars, overlap>>

Commit(t) ==
    /\ pc[t] = "end" /\ ok[t]
    /\ log' = log \cup drafts[t]
    /\ row' = Refreshed(t)
    /\ usage' = IF "tokens" \in dirty[t] THEN usage \cup {t} ELSE usage
    /\ Leave(t)
    /\ UNCHANGED lockVars

\* Rollback: after an exception, or when the commit fails.
Rollback(t) ==
    /\ pc[t] = "end"
    /\ Leave(t)
    /\ UNCHANGED <<lockVars, dbVars>>

-----------------------------------------------------------------------------
(* The generator, the clock, and the death of the process *)

\* CancelledError in the background task: no except clause catches it.  In the
\* try block the finally block still runs; inside the finally block, or before
\* the try block, it ends the turn at once and closing the session rolls back.
Cancelled(t) ==
    /\ UNCHANGED dbVars
    /\ \/ /\ Working(t)
          /\ GoTo(t, "release")
          /\ ok' = [ok EXCEPT ![t] = FALSE]
          /\ watched' = [watched EXCEPT ![t] = FALSE]
          /\ silent' = [silent EXCEPT ![t] = 0]
          /\ UNCHANGED <<lockVars, done, renewVars, sessionVars, overlap>>
       \/ pc[t] \in {"release", "end"} /\ Leave(t) /\ UNCHANGED lockVars
       \/ pc[t] = "acquire" /\ Leave(t) /\ Crash(t)

\* Mutant: pings count as events.
IdleTimeoutNever(t) == FALSE /\ Cancelled(t)

\* The idle timeout of the generator, which then reports timeout_error.
IdleTimeout(t) ==
    /\ watched[t]
    /\ silent[t] >= EventTimeout
    /\ Cancelled(t)

\* An event that the generator cannot send: it cancels the turn, too.
GeneratorFails(t) == watched[t] /\ Cancelled(t)

\* The client goes away: the generator returns and the turn goes on.
Disconnect(t) ==
    /\ watched[t]
    /\ watched' = [watched EXCEPT ![t] = FALSE]
    /\ silent' = [silent EXCEPT ![t] = IF pc[t] = "stream" THEN @ ELSE 0]
    /\ UNCHANGED <<lockVars, pc, ok, done, renewVars, dbVars,
                   sessionVars, overlap>>

\* The process dies: the key stays, PostgreSQL rolls back.
Die(t) ==
    /\ pc[t] = "acquire" \/ Open(t)
    /\ IF state[t] \in {"trying", "held"} THEN Crash(t) ELSE UNCHANGED lockVars
    /\ Leave(t)
    /\ UNCHANGED dbVars

\* A tick is longer than the timeouts of Redis (5 s) and of PostgreSQL (60 s):
\* time passes while the turn waits for the container, the agent or the files,
\* and not beyond a timeout of the stream or of the generator.
Clock ==
    /\ \A t \in Turn :
          /\ pc[t] \in {"check", "prepare", "stream", "post", "ended"}
          /\ watched[t] => silent[t] < EventTimeout
          /\ pc[t] = "stream" => silent[t] < ExecTimeout
    /\ \/ Tick
       \/ (\A r \in Resource : ttl[r] = 0) /\ UNCHANGED lockVars
    /\ silent' = [t \in Turn |->
          IF Open(t) /\ (watched[t] \/ pc[t] = "stream") THEN silent[t] + 1
          ELSE silent[t]]
    /\ due' = [t \in Turn |-> due[t] \/ pc[t] = "stream"]
    /\ UNCHANGED <<pc, ok, watched, done, renewal, dbVars, sessionVars, overlap>>

-----------------------------------------------------------------------------
Work(t) ==
    \/ SaveUserMessage(t) \/ Prepare(t)
    \/ StreamEvent(t) \/ StreamDone(t) \/ StreamBreaks(t)
    \/ RecordUsage(t) \/ RecordFails(t) \/ NothingToRecord(t)
    \/ SaveAnswer(t) \/ TurnRaises(t)

Finally(t) == ReleaseLock(t) \/ Commit(t) \/ Rollback(t)

TurnStep(t) ==
    \/ CheckContext(t) \/ Granted(t) \/ Waits(t) \/ Locked(t)
    \/ Work(t) \/ Finally(t)

Next ==
    \/ Clock
    \/ \E t \in Turn :
          \/ TurnStep(t)
          \/ IdleTimeout(t) \/ GeneratorFails(t) \/ Disconnect(t)
          \/ Die(t)

Spec == Init /\ [][Next]_vars

\* Steps that have timeouts of their own: commands of Redis and PostgreSQL,
\* and the read of the stream.
TimeLimited(t) ==
    \/ Granted(t) \/ Waits(t) \/ Locked(t)
    \/ SaveUserMessage(t) \/ SaveAnswer(t)
    \/ silent[t] >= ExecTimeout /\ StreamBreaks(t)
    \/ Finally(t)

\* The clock and the event loop keep going, and so does the generator.
\* Nothing forces the agent, the container or the file transfer to come back.
Fairness ==
    /\ WF_vars(Clock)
    /\ WF_vars(\E t \in Turn : TimeLimited(t))
    /\ WF_vars(\E t \in Turn : IdleTimeout(t))

FairSpec == Spec /\ Fairness

-----------------------------------------------------------------------------
(* Properties *)

TurnTypeOK ==
    /\ LockTypeOK
    /\ pc \in [Turn -> PC]
    /\ ok \in [Turn -> BOOLEAN]
    /\ watched \in [Turn -> BOOLEAN]
    /\ silent \in [Turn -> 0..EventTimeout]
    /\ done \in [Turn -> BOOLEAN]
    /\ due \in [Turn -> BOOLEAN]
    /\ renewal \in [Turn -> {"none", "done"}]
    /\ log \subseteq Message
    /\ row \in Row
    /\ usage \subseteq Turn
    /\ drafts \in [Turn -> SUBSET Message]
    /\ loaded \in [Turn -> Row]
    /\ dirty \in [Turn -> SUBSET Column]
    /\ overlap \in BOOLEAN

\* Two turns of a conversation work at the same time only when one of them has
\* lost the lock by outliving its TTL: no step of the turn, no failure and no
\* cancellation gives the lock back before the work is over.
OneTurnWorks ==
    \A t, u \in Turn :
        t # u /\ Working(t) /\ Working(u) => t \in lapsed \/ u \in lapsed

\* As long as no turn got the lock while another transaction was still open,
\* the database is as after a serial execution: the messages are numbered
\* without gap or duplicate, the context counter counts the usage logs, the
\* limit flag agrees with it, and the session belongs to a turn on record.
SerialHistory ==
    ~overlap =>
        /\ {m.seq : m \in log} = 1..Cardinality(log)
        /\ row.tokens = Cardinality(usage)
        /\ row.limit = (row.tokens >= ContextLimit)
        /\ usage # {} => row.session \in usage

\* The answer of a turn comes after its question, never without it.
AnswerFollowsQuestion ==
    \A a \in log : a.type = "assistant" =>
        \E q \in log : q.turn = a.turn /\ q.type = "user" /\ q.seq < a.seq

\* Once a lock has been extended and no later extension has failed, it lapses
\* under a streaming turn only if the agent has been silent for the whole TTL
\* of the extension, in ticks: no event that comes late enough to extend the
\* lock is left unused.
LapseNeedsSilence ==
    [][\A t \in Turn :
          t \in lapsed' \ lapsed /\ pc[t] = "stream" /\ renewal[t] = "done"
             => silent'[t] >= ExtendTTL]_vars

\* A turn that a client waits for never stays without progress: the idle timeout
\* frees the lock and the session of a stuck turn.
StuckTurnEnds ==
    \A t \in Turn : []<>(pc[t] = "ended" \/ silent[t] = 0 \/ ~watched[t])

=============================================================================
