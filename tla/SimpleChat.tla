----------------------------- MODULE SimpleChat -----------------------------
(***************************************************************************)
(* Simple chats (app/services/simple_chat_service.py, bedrock_client.py,   *)
(* app/api/simple_chats/): requests on the rows of a chat and on the event *)
(* loop of their worker process, with no lock between them.                *)
(*                                                                         *)
(* Each request has one transaction at a time (get_db()), at READ          *)
(* COMMITTED: what it has flushed is in draft[r] until it commits, and     *)
(* with the FastAPI of requirements.txt that is after the response.  The   *)
(* call of Bedrock and the reading of its stream are synchronous code in a *)
(* coroutine, so loop[w] names the request that keeps the other requests   *)
(* of process w from running.                                              *)
(*                                                                         *)
(* Texts are not modelled, except that an answer can be empty; a title is  *)
(* named after the request that made it.  Lists and single reads of chats  *)
(* change nothing and are left out, and so is the circuit breaker: each    *)
(* request has one of its own, which sees two calls at most and five       *)
(* failures open it.                                                       *)
(***************************************************************************)
EXTENDS Naturals, FiniteSets, FiniteSetsExt

CONSTANTS
    Request,      \* calls of the API
    Worker,       \* processes of the backend
    WorkerOf,     \* WorkerOf[r]: the process that serves r
    Chat,         \* chat ids
    None,         \* no chat, title or request
    MaxAttempts   \* bedrock_max_retries

ASSUME ChatAssumption ==
    /\ WorkerOf \in [Request -> Worker]
    /\ None \notin Chat \cup Request
    /\ MaxAttempts \in Nat \ {0}

VARIABLES
    chat,         \* chat[c]: the committed row of simple_chats
    msgs,         \* msgs[c]: committed rows of simple_chat_messages
    usage,        \* usage[c]: requests with a committed row of usage_logs
    draft,        \* draft[r]: rows that r has flushed
    req,          \* req[r]: the call r
    loop,         \* loop[w]: the request that blocks the event loop of w
    known,        \* history: chats whose id a client has (X-Chat-ID)
    crossed,      \* history: chats with two streams at one time
    broken        \* history: chats with a question that stays without answer

tables == <<chat, msgs, usage>>
history == <<known, crossed, broken>>
vars == <<chat, msgs, usage, draft, req, loop, known, crossed, broken>>

Message == [role : {"user", "assistant"}, seq : Nat \ {0}, by : Request]
Row == [status : {"none", "active", "archived", "deleted"}, title : Request \cup {None}]
Draft == [msgs : SUBSET Message, usage : BOOLEAN, new : BOOLEAN,
          title : BOOLEAN, archive : BOOLEAN]
Call == [at : {"idle", "save", "commit", "history", "call", "pull", "event", "answer",
               "title", "bill", "close", "archive", "delete", "ended"},
         chat : Chat \cup {None}, first : BOOLEAN, sent : SUBSET Message,
         text : BOOLEAN, tries : 0..MaxAttempts]

NoDraft == [msgs |-> {}, usage |-> FALSE, new |-> FALSE, title |-> FALSE, archive |-> FALSE]
NoCall == [at |-> "idle", chat |-> None, first |-> FALSE, sent |-> {}, text |-> FALSE,
           tries |-> 0]

Init ==
    /\ chat = [c \in Chat |-> [status |-> "none", title |-> None]]
    /\ msgs = [c \in Chat |-> {}]
    /\ usage = [c \in Chat |-> {}]
    /\ draft = [r \in Request |-> NoDraft]
    /\ req = [r \in Request |-> NoCall]
    /\ loop = [w \in Worker |-> None]
    /\ known = {}
    /\ crossed = {}
    /\ broken = {}

Exists(c) == chat[c].status \in {"active", "archived"}
\* r runs stream_message().
Streams(r) == req[r].at \in {"save", "commit", "history", "call", "pull", "event", "answer",
                             "title", "bill", "close"}
StreamsOn(c) == {r \in Request : Streams(r) /\ req[r].chat = c}
Question(r) == {m \in msgs[req[r].chat] : m.by = r /\ m.role = "user"}
\* What the transaction of r sees.
Visible(r) == msgs[req[r].chat] \cup draft[r].msgs
Seqs(S) == {m.seq : m \in S}
\* Mutant: question and answer share a number's place.
SeqOfExchange(r) == Cardinality({m \in Visible(r) : m.role = "user"}) + 1
NextSeq(r) == Max({0} \cup Seqs(Visible(r))) + 1
\* generate(): whatever the model answers, and if it fails the question's beginning.
TitleOf(r) == r
FreeLoop(r) == loop[WorkerOf[r]] = None

GoTo(r, where) == req' = [req EXCEPT ![r].at = where]
\* An inserted row locks the row of the chat against its deletion, an UPDATE also
\* against other UPDATEs.
Unlocked(r) == \A q \in Request \ {r} :
    req[q].chat # req[r].chat \/ ~(draft[q].title \/ draft[q].archive)
Unreferenced(r) == \A q \in Request \ {r} : req[q].chat # req[r].chat \/ draft[q] = NoDraft
ForeignKeyHolds(r) == Exists(req[r].chat) \/ draft[r].new

\* The call ends, and what it has not committed is gone.
End(r) ==
    /\ req' = [req EXCEPT ![r] = [NoCall EXCEPT !.at = "ended"]]
    /\ draft' = [draft EXCEPT ![r] = NoDraft]
\* The same for a stream, whose question may be committed by now.
Break(r) ==
    /\ End(r)
    /\ broken' = broken \cup {c \in {req[r].chat} : Question(r) # {}}

(***************************************************************************)
(* POST /simple-chats/stream, as far as the response has not begun.        *)
(***************************************************************************)

Join(r, c, isFirst) ==
    /\ req' = [req EXCEPT ![r] = [NoCall EXCEPT !.at = "save", !.chat = c, !.first = isFirst]]
    /\ crossed' = IF StreamsOn(c) = {} THEN crossed ELSE crossed \cup {c}

\* create_chat(): the row is flushed, the id goes out with the response's headers.
StreamNew(r, c) ==
    /\ req[r].at = "idle" /\ FreeLoop(r)
    /\ chat[c].status = "none" /\ c \notin known
    /\ Join(r, c, TRUE)
    /\ draft' = [draft EXCEPT ![r].new = TRUE]
    /\ known' = known \cup {c}
    /\ UNCHANGED <<tables, loop, broken>>

\* Mutant: every stream counts as the first.
StreamOnAnew(r, c) ==
    /\ req[r].at = "idle" /\ FreeLoop(r)
    /\ c \in known /\ chat[c].status = "active"
    /\ Join(r, c, TRUE)
    /\ UNCHANGED <<tables, draft, loop, known, broken>>

\* The title of the loaded object stays what it is now, until the request ends.
StreamOn(r, c) ==
    /\ req[r].at = "idle" /\ FreeLoop(r)
    /\ c \in known /\ chat[c].status = "active"
    /\ Join(r, c, chat[c].title = None)
    /\ UNCHANGED <<tables, draft, loop, known, broken>>

\* 404, 400 or 422: no such chat, archived, model or tenant inactive, field missing.
Refuse(r) ==
    /\ req[r].at = "idle" /\ FreeLoop(r)
    /\ End(r)
    /\ UNCHANGED <<tables, loop, history>>

(***************************************************************************)
(* stream_message()                                                        *)
(***************************************************************************)

\* _save_message(): the next number after those it can see.
AddMessage(r, role) ==
    draft' = [draft EXCEPT ![r].msgs = @ \cup {[role |-> role, seq |-> NextSeq(r), by |-> r]}]

SaveQuestion(r) ==
    /\ req[r].at = "save" /\ FreeLoop(r)
    /\ ForeignKeyHolds(r)
    /\ AddMessage(r, "user")
    /\ GoTo(r, "commit")
    /\ UNCHANGED <<tables, loop, history>>

\* Mutant: usage is recorded with the question.
StoreBilled(r) == LET c == req[r].chat  d == draft[r] IN
    /\ msgs' = [msgs EXCEPT ![c] = @ \cup d.msgs]
    /\ usage' = [usage EXCEPT ![c] = IF d.archive THEN @ ELSE @ \cup {r}]
    /\ chat' = [chat EXCEPT ![c] =
                  [status |-> IF d.new THEN "active" ELSE IF d.archive THEN "archived" ELSE @.status,
                   title |-> IF d.title THEN TitleOf(r) ELSE @.title]]

\* COMMIT of what r has flushed.
Store(r) == LET c == req[r].chat  d == draft[r] IN
    /\ msgs' = [msgs EXCEPT ![c] = @ \cup d.msgs]
    /\ usage' = [usage EXCEPT ![c] = IF d.usage THEN @ \cup {r} ELSE @]
    /\ chat' = [chat EXCEPT ![c] =
                  [status |-> IF d.new THEN "active" ELSE IF d.archive THEN "archived" ELSE @.status,
                   title |-> IF d.title THEN TitleOf(r) ELSE @.title]]

CommitQuestion(r) ==
    /\ req[r].at = "commit" /\ FreeLoop(r)
    /\ Store(r)
    /\ draft' = [draft EXCEPT ![r] = NoDraft]
    /\ GoTo(r, "history")
    /\ UNCHANGED <<loop, history>>

\* Mutant: the history is what was on record before the question.
ReadOldHistory(r) ==
    /\ req[r].at = "history" /\ FreeLoop(r)
    /\ req' = [req EXCEPT ![r].at = "call", ![r].sent = msgs[req[r].chat] \ Question(r)]
    /\ loop' = [loop EXCEPT ![WorkerOf[r]] = r]
    /\ UNCHANGED <<tables, draft, history>>

\* From the rows on, there is no await before the call.
ReadHistory(r) ==
    /\ req[r].at = "history" /\ FreeLoop(r)
    /\ req' = [req EXCEPT ![r].at = "call", ![r].sent = msgs[req[r].chat]]
    /\ loop' = [loop EXCEPT ![WorkerOf[r]] = r]
    /\ UNCHANGED <<tables, draft, history>>

Release(r) == loop' = [loop EXCEPT ![WorkerOf[r]] = None]

\* retry_sync(): the loop is blocked during the attempts and the sleeps between them.
CallSucceeds(r) ==
    /\ req[r].at = "call"
    /\ GoTo(r, "event")
    /\ UNCHANGED <<tables, draft, loop, history>>

LastAttempt(r) == req[r].tries = MaxAttempts - 1

\* Mutant: the attempts start again.
CallRetriedAnew(r) ==
    /\ req[r].at = "call"
    /\ req' = [req EXCEPT ![r].tries = (@ + 1) % MaxAttempts]
    /\ UNCHANGED <<tables, draft, loop, history>>

CallRetried(r) ==
    /\ req[r].at = "call"
    /\ ~LastAttempt(r)
    /\ req' = [req EXCEPT ![r].tries = @ + 1]
    /\ UNCHANGED <<tables, draft, loop, history>>

\* The last attempt, or an exception that is not retryable: the client gets an error event.
CallFails(r) ==
    /\ req[r].at = "call"
    /\ Break(r)
    /\ Release(r)
    /\ UNCHANGED <<tables, known, crossed>>

\* The next event of Bedrock is awaited with the loop blocked, and handed on without.
Pull(r) ==
    /\ req[r].at = "pull" /\ FreeLoop(r)
    /\ GoTo(r, "event")
    /\ loop' = [loop EXCEPT ![WorkerOf[r]] = r]
    /\ UNCHANGED <<tables, draft, history>>

TextDelta(r) ==
    /\ req[r].at = "event"
    /\ req' = [req EXCEPT ![r].at = "pull", ![r].text = TRUE]
    /\ Release(r)
    /\ UNCHANGED <<tables, draft, history>>

StreamEnds(r) ==
    /\ req[r].at = "event"
    /\ GoTo(r, "answer")
    /\ Release(r)
    /\ UNCHANGED <<tables, draft, history>>

StreamBreaks(r) ==
    /\ req[r].at = "event"
    /\ Break(r)
    /\ Release(r)
    /\ UNCHANGED <<tables, known, crossed>>

SaveAnswer(r) ==
    /\ req[r].at = "answer" /\ FreeLoop(r)
    /\ ForeignKeyHolds(r)
    /\ AddMessage(r, "assistant")
    /\ req' = [req EXCEPT ![r] = [NoCall EXCEPT
                 !.at = IF req[r].first /\ req[r].text THEN "title" ELSE "bill",
                 !.chat = req[r].chat]]
    /\ UNCHANGED <<tables, loop, history>>

\* A thread asks for the title; then the row is updated.
UpdateTitle(r) ==
    /\ req[r].at = "title" /\ FreeLoop(r)
    /\ Unlocked(r)
    /\ draft' = [draft EXCEPT ![r].title = TRUE]
    /\ GoTo(r, "bill")
    /\ UNCHANGED <<tables, loop, history>>

\* The done event goes out next, before the commit.
SaveUsage(r) ==
    /\ req[r].at = "bill" /\ FreeLoop(r)
    /\ draft' = [draft EXCEPT ![r].usage = TRUE]
    /\ GoTo(r, "close")
    /\ UNCHANGED <<tables, loop, history>>

Commit(r) ==
    /\ req[r].at = "close" /\ FreeLoop(r)
    /\ Store(r)
    /\ End(r)
    /\ UNCHANGED <<loop, history>>

\* A statement fails: of itself, for a row that is gone, or waiting for a lock.
DatabaseFails(r) ==
    /\ Streams(r) /\ FreeLoop(r)
    /\ req[r].at # "pull"
    /\ Break(r)
    /\ UNCHANGED <<tables, loop, known, crossed>>

\* The client leaves, and its generator is cancelled where it waits.
Disconnect(r) ==
    /\ Streams(r) /\ FreeLoop(r)
    /\ Break(r)
    /\ UNCHANGED <<tables, loop, known, crossed>>

(***************************************************************************)
(* archive_simple_chat(), delete_simple_chat(): both load the chat and     *)
(* answer before they commit.                                              *)
(***************************************************************************)

Load(r, c, what) ==
    /\ req[r].at = "idle" /\ FreeLoop(r)
    /\ c \in known /\ Exists(c)
    /\ req' = [req EXCEPT ![r] = [NoCall EXCEPT !.at = what, !.chat = c]]
    /\ UNCHANGED <<tables, draft, loop, history>>

\* UPDATE, then 200; a chat that is gone by now is a StaleDataError.
ArchiveUpdate(r) ==
    /\ req[r].at = "archive" /\ draft[r] = NoDraft /\ FreeLoop(r)
    /\ Exists(req[r].chat) /\ Unlocked(r)
    /\ draft' = [draft EXCEPT ![r].archive = TRUE]
    /\ UNCHANGED <<tables, req, loop, history>>

ArchiveCommit(r) ==
    /\ req[r].at = "archive" /\ draft[r].archive /\ FreeLoop(r)
    /\ Store(r)
    /\ End(r)
    /\ UNCHANGED <<loop, history>>

\* The session deletes at its commit, after the 204.  The rows of usage_logs that name
\* the chat forbid it; a chat that is gone is no error.
DeleteCommit(r) == LET c == req[r].chat IN
    /\ req[r].at = "delete" /\ FreeLoop(r)
    /\ Unreferenced(r)
    /\ usage[c] = {}
    /\ chat' = [chat EXCEPT ![c] = [status |-> "deleted", title |-> None]]
    /\ msgs' = [msgs EXCEPT ![c] = {}]
    /\ End(r)
    /\ UNCHANGED <<usage, loop, history>>

AdminFails(r) ==
    /\ req[r].at \in {"archive", "delete"} /\ FreeLoop(r)
    /\ End(r)
    /\ UNCHANGED <<tables, loop, history>>

-----------------------------------------------------------------------------

StreamStep(r) ==
    \/ SaveQuestion(r) \/ CommitQuestion(r) \/ ReadHistory(r)
    \/ CallSucceeds(r) \/ CallRetried(r) \/ CallFails(r)
    \/ Pull(r) \/ TextDelta(r) \/ StreamEnds(r) \/ StreamBreaks(r)
    \/ SaveAnswer(r) \/ UpdateTitle(r) \/ SaveUsage(r) \/ Commit(r)

BeginStep(r, c) ==
    \/ StreamNew(r, c) \/ StreamOn(r, c)
    \/ Load(r, c, "archive") \/ Load(r, c, "delete")

Next == \E r \in Request :
    \/ \E c \in Chat : BeginStep(r, c)
    \/ Refuse(r) \/ StreamStep(r) \/ DatabaseFails(r) \/ Disconnect(r)
    \/ ArchiveUpdate(r) \/ ArchiveCommit(r) \/ DeleteCommit(r) \/ AdminFails(r)

\* The calls of Bedrock have timeouts, and so do the sleeps.
BlockingStep(r) ==
    \/ CallSucceeds(r) \/ CallRetried(r) \/ CallFails(r)
    \/ TextDelta(r) \/ StreamEnds(r) \/ StreamBreaks(r)
Spec == Init /\ [][Next]_vars /\ \A r \in Request : WF_vars(BlockingStep(r))

-----------------------------------------------------------------------------

(***************************************************************************)
(* As long as no two streams meet on a chat, its messages are numbered     *)
(* without gaps or doubles and every answer follows its own question; if   *)
(* no stream broke off either, users and model take turns, which Bedrock   *)
(* asks for (_save_message()).                                             *)
(***************************************************************************)
Dialogue == \A c \in Chat \ crossed : Exists(c) =>
    /\ Seqs(msgs[c]) = 1..Cardinality(msgs[c])
    /\ \A m \in msgs[c] : m.role = "assistant" =>
         [role |-> "user", seq |-> m.seq - 1, by |-> m.by] \in msgs[c]
    /\ c \notin broken => \A m \in msgs[c] : (m.role = "user") = (m.seq % 2 = 1)

(***************************************************************************)
(* What is sent to the model holds the question it is asked; unless        *)
(* streams meet, it is all that is on record when the answer comes, and    *)
(* the question is the last of it (stream_message()).                      *)
(***************************************************************************)
ModelSeesHistory == \A r \in Request : req[r].at \in {"call", "pull", "event"} =>
    \A q \in Question(r) :
       /\ q \in req[r].sent
       /\ req[r].chat \notin crossed =>
            /\ req[r].sent = msgs[req[r].chat]
            /\ \A m \in req[r].sent : m.seq <= q.seq

(***************************************************************************)
(* A title once committed stays, unless streams have met: only the first   *)
(* exchange names the chat (is_first_message).                             *)
(***************************************************************************)
TitleKept == [][\A c \in Chat :
    chat[c].title # None /\ chat'[c].title # chat[c].title => c \in crossed]_vars

(***************************************************************************)
(* Every answer on record is billed, and nothing else is: message and      *)
(* usage row are of one transaction (save_usage_log()).                    *)
(***************************************************************************)
AnswersBilled == \A c \in Chat :
    usage[c] = {m.by : m \in {n \in msgs[c] : n.role = "assistant"}}

(***************************************************************************)
(* A blocked event loop comes free: attempts and waits are bounded         *)
(* (retry_sync()).                                                         *)
(***************************************************************************)
LoopFreed == \A w \in Worker : []<>(loop[w] = None)

=============================================================================
