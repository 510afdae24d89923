--------------------------- MODULE WorkspaceFiles ---------------------------
(***************************************************************************)
(* The files of one conversation: the objects in S3, the rows of           *)
(* conversation_files, and /workspace in the conversation's container      *)
(* (app/services/workspace/file_sync.py, s3_storage.py,                    *)
(* app/services/workspace_service.py and the calls made by                 *)
(* app/services/execute_service.py and app/api/conversations/streaming.py).*)
(*                                                                         *)
(* A request attaches files in a database transaction of its own, which    *)
(* FastAPI ends after the response, the stream of the turn, has been sent. *)
(* The turn copies the listed files into the container, lets the agent     *)
(* work, copies the container's files back, some of them while the agent   *)
(* still works, and commits their rows.  Only one turn at a time works on  *)
(* the conversation (OneTurnWorks of ConversationTurn): a lock that lapses *)
(* under its turn is left out here.                                        *)
(*                                                                         *)
(* A command run in the container, an S3 call and an upsert (under         *)
(* _db_lock) are atomic and have no effect when they fail.  Path holds the *)
(* files that are synchronised: reserved prefixes and excluded names never *)
(* enter it, and a file that has no contents (which takes no command to    *)
(* send, and then fails to be decoded) is left out.                        *)
(***************************************************************************)
EXTENDS Naturals, Sequences, FiniteSets

CONSTANTS
    Turn,      \* requests, each with its turn
    Path,      \* paths below /workspace
    NameOf,    \* NameOf[p]: the last segment of p
    Uploads,   \* Uploads[t]: the files that request t may attach
    Chunks,    \* commands it takes to send one file to the container
    Parallel,  \* max_concurrent of the semaphores
    Syncing,   \* bound: turns that sync in the background
    MaxSync,   \* bound: background syncs of such a turn
    MaxRev,    \* bound: contents that users and agents write
    None,      \* no file
    Mixed      \* contents that nobody wrote

ASSUME FilesAssumption ==
    /\ DOMAIN NameOf = Path
    /\ Uploads \in [Turn -> SUBSET Path]
    /\ Chunks \in Nat \ {0} /\ Parallel \in Nat \ {0}
    /\ Syncing \subseteq Turn /\ MaxSync \in Nat /\ MaxRev \in Nat
    /\ None # Mixed

VARIABLES
    at,         \* at[t]: what the request, then its turn, is doing
    attaching,  \* attaching[t]: the attachment that is in S3 and has no row yet
    attached,   \* attached[t]: rows flushed by the request's open transaction
    drafts,     \* drafts[t]: rows flushed by the turn
    pull,       \* files on their way into the container
    jobs,       \* files on their way out of it
    syncs,      \* syncs[t]: background syncs started by t
    s3,         \* s3[p]: the object
    rows,       \* committed rows
    box,        \* box[p]: the file in the container
    tmp,        \* tmp[n]: pieces in the transfer file of name n
    clock,      \* contents written so far
    clean,      \* history: the sync that the working turn waits for has had
                \* no failure
    late,       \* history: a sync has outlived the wait for it
    pushed,     \* history: pushed[t][p]: what t had stored of p when it ended
    saved,      \* history: saved[p]: newest contents of p that a committed
                \* transaction has recorded
    promised    \* history: saved, when the working turn listed the files

storeVars == <<s3, rows>>
boxVars == <<box, tmp>>
requestVars == <<attaching, attached>>
syncVars == <<pull, jobs, syncs>>
history == <<clean, late, pushed, saved, promised>>
vars == <<at, requestVars, drafts, syncVars, storeVars, boxVars, clock, history>>

Name == {NameOf[p] : p \in Path}
\* Contents, numbered in the order in which they are written.
Data == [path : Path, rev : 1..MaxRev]
ASSUME NoData == None \notin Data

Row == [by : Turn, kind : {"upload", "sync"}, path : Path]
Transfer == [turn : Turn, row : Row, step : {"get", "send", "decode"},
             data : Data \cup {None, Mixed}, sent : 0..Chunks]
\* Task 0 is the final sync of a turn.
Job == [turn : Turn, task : 0..MaxSync, path : Path \cup {None},
        step : {"find", "read", "put", "record", "thread"}, data : Data \cup {None, Mixed}]

\* The conversation is locked by t.
Holds(t) == at[t] \in {"pull", "agent", "wait", "push"}

NothingSaved == [p \in Path |-> 0]

Init ==
    /\ at = [t \in Turn |-> "request"]
    /\ attaching = [t \in Turn |-> None]
    /\ attached = [t \in Turn |-> {}]
    /\ drafts = [t \in Turn |-> {}]
    /\ pull = {} /\ jobs = {} /\ syncs = [t \in Turn |-> 0]
    /\ s3 = [p \in Path |-> None] /\ rows = {}
    /\ box = [p \in Path |-> None] /\ tmp = [n \in Name |-> <<>>]
    /\ clock = 0
    /\ clean = TRUE /\ late = FALSE
    /\ pushed = [t \in Turn |-> NothingSaved]
    /\ saved = NothingSaved /\ promised = NothingSaved

GoTo(t, where) == at' = [at EXCEPT ![t] = where]

Newer(a, b) == [p \in Path |-> IF a[p] > b[p] THEN a[p] ELSE b[p]]
\* The revisions of the files of a set of rows.
Revisions(files, listed) ==
    [p \in Path |-> IF files[p] \in Data /\ \E r \in listed : r.path = p
                    THEN files[p].rev ELSE 0]

-----------------------------------------------------------------------------
(* The request: attachments, and the end of its transaction *)

\* Mutant: the row before the object.
PutAttachmentLater(t, p) ==
    /\ at[t] = "request" /\ attaching[t] = None
    /\ p \in Uploads[t] /\ \A r \in attached[t] : r.path # p
    /\ clock < MaxRev /\ clock' = clock + 1
    /\ attaching' = [attaching EXCEPT ![t] = p]
    /\ UNCHANGED <<at, attached, drafts, syncVars, storeVars, boxVars, history>>

\* upload_user_file_with_metadata(): first the object, then the row.
PutAttachment(t, p) ==
    /\ at[t] = "request" /\ attaching[t] = None
    /\ p \in Uploads[t] /\ \A r \in attached[t] : r.path # p
    /\ clock < MaxRev
    /\ clock' = clock + 1
    /\ s3' = [s3 EXCEPT ![p] = [path |-> p, rev |-> clock + 1]]
    /\ attaching' = [attaching EXCEPT ![t] = p]
    /\ UNCHANGED <<at, attached, drafts, syncVars, rows, boxVars, history>>

SaveFileRecord(t) ==
    /\ attaching[t] # None
    /\ attached' = [attached EXCEPT ![t] =
          @ \cup {[by |-> t, kind |-> "upload", path |-> attaching[t]]}]
    /\ attaching' = [attaching EXCEPT ![t] = None]
    /\ UNCHANGED <<at, drafts, syncVars, storeVars, boxVars, clock, history>>

\* Status 500, and the transaction is rolled back; the objects stay.
AttachFails(t) ==
    /\ at[t] = "request"
    /\ GoTo(t, "over")
    /\ attaching' = [attaching EXCEPT ![t] = None]
    /\ attached' = [attached EXCEPT ![t] = {}]
    /\ UNCHANGED <<drafts, syncVars, storeVars, boxVars, clock, history>>

\* The response starts: its generator runs the turn in a session of its own.
Respond(t) ==
    /\ at[t] = "request" /\ attaching[t] = None
    /\ GoTo(t, "lock")
    /\ UNCHANGED <<requestVars, drafts, syncVars, storeVars, boxVars, clock, history>>

\* get_db() commits when the response is over: with the turn, or as soon as
\* the client has gone.
CloseRequest(t) ==
    /\ at[t] # "request" /\ attached[t] # {}
    /\ rows' = rows \cup attached[t]
    /\ saved' = Newer(saved, Revisions(s3, attached[t]))
    /\ attached' = [attached EXCEPT ![t] = {}]
    /\ UNCHANGED <<at, attaching, drafts, syncVars, s3, boxVars, clock,
                   clean, late, pushed, promised>>

-----------------------------------------------------------------------------
(* The turn *)

\* Mutant: only the files of the user are listed.
EnterWithUploads(t) ==
    /\ at[t] = "lock" /\ \A u \in Turn : ~Holds(u)
    /\ GoTo(t, "pull")
    /\ pull' = {[turn |-> t, row |-> r, step |-> "get", data |-> None, sent |-> 0]
                  : r \in {q \in rows : q.kind = "upload"}}
    /\ clean' = TRUE /\ promised' = saved
    /\ UNCHANGED <<requestVars, drafts, jobs, syncs, storeVars, boxVars, clock,
                   late, pushed, saved>>

\* The lock is granted, the files are listed: one transfer for each row.
Enter(t) ==
    /\ at[t] = "lock" /\ \A u \in Turn : ~Holds(u)
    /\ GoTo(t, "pull")
    /\ pull' = {[turn |-> t, row |-> r, step |-> "get", data |-> None, sent |-> 0]
                  : r \in rows}
    /\ clean' = TRUE
    /\ promised' = saved
    /\ UNCHANGED <<requestVars, drafts, jobs, syncs, storeVars, boxVars, clock,
                   late, pushed, saved>>

\* The conversation is in use, or its context is full.
Refused(t) ==
    /\ at[t] = "lock"
    /\ GoTo(t, "over")
    /\ UNCHANGED <<requestVars, drafts, syncVars, storeVars, boxVars, clock, history>>

\* Nothing is promised outside the two syncs.
Forget == clean' = TRUE /\ promised' = NothingSaved

BeginAgent(t) ==
    /\ at[t] = "pull" /\ pull = {}
    /\ GoTo(t, "agent")
    /\ Forget
    /\ UNCHANGED <<requestVars, drafts, syncVars, storeVars, boxVars, clock,
                   late, pushed, saved>>

\* The agent may write any file.  The front end puts a new identifier into the
\* path of an attachment, which no agent comes upon before the file is listed.
AgentWrites(p) ==
    /\ \E t \in Turn : at[t] = "agent"
    /\ (\E t \in Turn : p \in Uploads[t]) => \E r \in rows : r.path = p
    /\ clock < MaxRev
    /\ clock' = clock + 1
    /\ box' = [box EXCEPT ![p] = [path |-> p, rev |-> clock + 1]]
    /\ UNCHANGED <<at, requestVars, drafts, syncVars, storeVars, tmp, history>>

\* Jobs of t that t does not wait for.
Background(t) == {j \in jobs : j.turn = t /\ j.task # 0}

FindIn(t, n) ==
    [turn |-> t, task |-> n, path |-> None, step |-> "find", data |-> None]

\* The result of a file tool starts a sync in the background (at most one
\* every 10 s).
StartSync(t) ==
    /\ at[t] = "agent" /\ t \in Syncing /\ syncs[t] < MaxSync
    /\ syncs' = [syncs EXCEPT ![t] = @ + 1]
    /\ jobs' = jobs \cup {FindIn(t, syncs[t] + 1)}
    /\ UNCHANGED <<at, requestVars, drafts, pull, storeVars, boxVars, clock, history>>

EndStream(t) ==
    /\ at[t] = "agent"
    /\ GoTo(t, "wait")
    /\ UNCHANGED <<requestVars, drafts, syncVars, storeVars, boxVars, clock, history>>

\* Mutant: nobody waits for the background syncs.
StartFinalSyncAtOnce(t) ==
    /\ at[t] = "wait"
    /\ GoTo(t, "push")
    /\ jobs' = jobs \cup {FindIn(t, 0)}
    /\ clean' = TRUE
    /\ UNCHANGED <<requestVars, drafts, pull, syncs, storeVars, boxVars, clock,
                   late, pushed, saved, promised>>

\* The background syncs are waited for, for 5 s at most.
StartFinalSync(t) ==
    /\ at[t] = "wait"
    /\ late' = (late \/ Background(t) # {})
    /\ GoTo(t, "push")
    /\ jobs' = jobs \cup {FindIn(t, 0)}
    /\ clean' = TRUE
    /\ UNCHANGED <<requestVars, drafts, pull, syncs, storeVars, boxVars, clock,
                   pushed, saved, promised>>

\* The turn has stored what it has; the lock is released before the commit.
ReleaseLock(t) ==
    /\ at[t] = "push" /\ \A j \in jobs : j.turn = t => j.task # 0
    /\ GoTo(t, "commit")
    /\ pushed' = [pushed EXCEPT ![t] =
          IF clean THEN Revisions(box, rows \cup drafts[t]) ELSE NothingSaved]
    /\ Forget
    /\ UNCHANGED <<requestVars, drafts, syncVars, storeVars, boxVars, clock, late, saved>>

Commit(t) ==
    /\ at[t] = "commit"
    /\ GoTo(t, "over")
    /\ rows' = rows \cup drafts[t]
    /\ drafts' = [drafts EXCEPT ![t] = {}]
    /\ saved' = Newer(saved, pushed[t])
    /\ pushed' = [pushed EXCEPT ![t] = NothingSaved]
    /\ UNCHANGED <<requestVars, syncVars, s3, boxVars, clock,
                   clean, late, promised>>

\* S3 calls of the final sync that have started: they run in threads that no
\* cancellation stops.
Calls(t) == {j \in jobs : j.turn = t /\ j.task = 0 /\ j.step = "put"}

\* An exception, a cancellation or a failed commit: rollback.  What the turn
\* waited for is cancelled, a sync in the background goes on.
TurnFails(t) ==
    /\ Holds(t) \/ at[t] = "commit"
    /\ GoTo(t, "over")
    /\ drafts' = [drafts EXCEPT ![t] = {}]
    /\ pull' = {x \in pull : x.turn # t}
    /\ jobs' = {j \in jobs : j.turn = t => j.task # 0}
                 \cup {[j EXCEPT !.step = "thread"] : j \in Calls(t)}
    /\ late' = (late \/ Background(t) \cup Calls(t) # {})
    /\ pushed' = [pushed EXCEPT ![t] = NothingSaved]
    /\ IF Holds(t) THEN Forget ELSE UNCHANGED <<clean, promised>>
    /\ UNCHANGED <<requestVars, syncs, storeVars, boxVars, clock, saved>>

-----------------------------------------------------------------------------
(* sync_to_container(): S3 to the container *)

Replace(S, old, new) == (S \ {old}) \cup {new}

Download(x) ==
    /\ x.step = "get" /\ s3[x.row.path] # None
    /\ Cardinality({y \in pull : y.step # "get"}) < Parallel
    /\ pull' = Replace(pull, x, [x EXCEPT !.step = "send", !.data = s3[x.row.path]])
    /\ UNCHANGED <<at, requestVars, drafts, jobs, syncs, storeVars, boxVars, clock, history>>

\* _write_to_container(): /tmp/_ws_xfer_{filename}
TmpOf(x) == NameOf[x.row.path]

\* Mutant: every chunk is appended.
AppendChunk(x) ==
    /\ x.step = "send"
    /\ tmp' = [tmp EXCEPT ![TmpOf(x)] = Append(@, x.data)]
    /\ pull' = Replace(pull, x, [x EXCEPT !.sent = @ + 1,
                 !.step = IF x.sent + 1 = Chunks THEN "decode" ELSE "send"])
    /\ UNCHANGED <<at, requestVars, drafts, jobs, syncs, storeVars, box, clock, history>>

\* The first chunk with >, the others with >>.
SendChunk(x) ==
    /\ x.step = "send"
    /\ tmp' = [tmp EXCEPT ![TmpOf(x)] =
          Append(IF x.sent = 0 THEN <<>> ELSE @, x.data)]
    /\ pull' = Replace(pull, x, [x EXCEPT !.sent = @ + 1,
                 !.step = IF x.sent + 1 = Chunks THEN "decode" ELSE "send"])
    /\ UNCHANGED <<at, requestVars, drafts, jobs, syncs, storeVars, box, clock, history>>

\* What base64 -d makes of the pieces.
Decoded(pieces) ==
    IF Len(pieces) = Chunks /\ \A i \in 1..Chunks : pieces[i] = pieces[1]
    THEN pieces[1] ELSE Mixed

\* base64 -d < tmp > dest && rm -f tmp; it fails when the file is gone.
Decode(x) ==
    /\ x.step = "decode" /\ tmp[TmpOf(x)] # <<>>
    /\ box' = [box EXCEPT ![x.row.path] = Decoded(tmp[TmpOf(x)])]
    /\ tmp' = [tmp EXCEPT ![TmpOf(x)] = <<>>]
    /\ pull' = pull \ {x}
    /\ UNCHANGED <<at, requestVars, drafts, jobs, syncs, storeVars, clock, history>>

\* Any error is logged, and the turn goes on without the file.  A command that
\* has failed is followed by rm -f, an exception is not.
TransferFails(x) ==
    /\ pull' = pull \ {x}
    /\ clean' = FALSE
    /\ \/ UNCHANGED tmp
       \/ x.step # "get" /\ tmp' = [tmp EXCEPT ![TmpOf(x)] = <<>>]
    /\ UNCHANGED <<at, requestVars, drafts, jobs, syncs, storeVars, box, clock,
                   late, pushed, saved, promised>>

-----------------------------------------------------------------------------
(* sync_from_container(): the container to S3 *)

FindFiles(j) ==
    /\ j.step = "find"
    /\ jobs' = (jobs \ {j}) \cup
          {[j EXCEPT !.path = p, !.step = "read"] : p \in {q \in Path : box[q] # None}}
    /\ UNCHANGED <<at, requestVars, drafts, pull, syncs, storeVars, boxVars, clock, history>>

ReadFile(j) ==
    /\ j.step = "read" /\ box[j.path] # None
    /\ Cardinality({k \in jobs : /\ k.turn = j.turn /\ k.task = j.task
                                 /\ k.step \in {"put", "record"}}) < Parallel
    /\ jobs' = Replace(jobs, j, [j EXCEPT !.step = "put", !.data = box[j.path]])
    /\ UNCHANGED <<at, requestVars, drafts, pull, syncs, storeVars, boxVars, clock, history>>

PutFile(j) ==
    /\ j.step \in {"put", "thread"}
    /\ s3' = [s3 EXCEPT ![j.path] = j.data]
    /\ jobs' = IF j.step = "thread" THEN jobs \ {j}
               ELSE Replace(jobs, j, [j EXCEPT !.step = "record"])
    /\ UNCHANGED <<at, requestVars, drafts, pull, syncs, rows, boxVars, clock, history>>

\* Rows of p that the session of t can see.
Existing(t, p) == {r \in rows \cup drafts[t] : r.path = p}

\* _upsert_file_record(): a new row, or another version in the row there is.
\* More than one row is an error.  After the end of the turn nobody commits.
RecordFile(j) ==
    /\ j.step = "record"
    /\ Cardinality(Existing(j.turn, j.path)) <= 1
    /\ jobs' = jobs \ {j}
    /\ drafts' = IF at[j.turn] # "over" /\ Existing(j.turn, j.path) = {}
                 THEN [drafts EXCEPT ![j.turn] =
                         @ \cup {[by |-> j.turn, kind |-> "sync", path |-> j.path]}]
                 ELSE drafts
    /\ UNCHANGED <<at, requestVars, pull, syncs, storeVars, boxVars, clock, history>>

\* Any error, MultipleResultsFound among them, is logged.
SyncFails(j) ==
    /\ jobs' = jobs \ {j}
    /\ clean' = (clean /\ j.task # 0)
    /\ UNCHANGED <<at, requestVars, drafts, pull, syncs, storeVars, boxVars, clock,
                   late, pushed, saved, promised>>

-----------------------------------------------------------------------------
(* Crashes *)

\* The container dies or is destroyed, with its files; every command that was
\* meant for it fails, and the next one starts empty.
LoseContainer ==
    /\ box' = [p \in Path |-> None] /\ tmp' = [n \in Name |-> <<>>]
    /\ pull' = {}
    /\ jobs' = {j \in jobs : j.step \notin {"find", "read"}}
    /\ clean' = \A t \in Turn : at[t] \notin {"pull", "push"}
    /\ UNCHANGED <<at, requestVars, drafts, syncs, storeVars, clock,
                   late, pushed, saved, promised>>

\* The process dies; what PostgreSQL has not committed is gone.
Die ==
    /\ at' = [t \in Turn |-> IF at[t] = "request" /\ attached[t] = {} /\ attaching[t] = None
                             THEN "request" ELSE "over"]
    /\ attaching' = [t \in Turn |-> None]
    /\ attached' = [t \in Turn |-> {}]
    /\ drafts' = [t \in Turn |-> {}]
    /\ pull' = {} /\ jobs' = {}
    /\ pushed' = [t \in Turn |-> NothingSaved]
    /\ Forget
    /\ UNCHANGED <<syncs, storeVars, boxVars, clock, late, saved>>

-----------------------------------------------------------------------------
Request(t) ==
    \/ \E p \in Path : PutAttachment(t, p)
    \/ SaveFileRecord(t) \/ AttachFails(t) \/ Respond(t) \/ CloseRequest(t)

TurnStep(t) ==
    \/ Enter(t) \/ Refused(t) \/ BeginAgent(t) \/ StartSync(t) \/ EndStream(t)
    \/ StartFinalSync(t) \/ ReleaseLock(t) \/ Commit(t) \/ TurnFails(t)

SyncStep ==
    \/ \E x \in pull : Download(x) \/ SendChunk(x) \/ Decode(x) \/ TransferFails(x)
    \/ \E j \in jobs :
          FindFiles(j) \/ ReadFile(j) \/ PutFile(j) \/ RecordFile(j) \/ SyncFails(j)

Next ==
    \/ \E t \in Turn : Request(t) \/ TurnStep(t)
    \/ \E p \in Path : AgentWrites(p)
    \/ SyncStep
    \/ LoseContainer \/ Die

Spec == Init /\ [][Next]_vars

-----------------------------------------------------------------------------
(* Properties *)

FilesTypeOK ==
    /\ at \in [Turn -> {"request", "lock", "pull", "agent", "wait", "push",
                        "commit", "over"}]
    /\ attaching \in [Turn -> Path \cup {None}]
    /\ attached \in [Turn -> SUBSET Row]
    /\ drafts \in [Turn -> SUBSET Row]
    /\ pull \subseteq Transfer
    /\ jobs \subseteq Job
    /\ syncs \in [Turn -> 0..MaxSync]
    /\ s3 \in [Path -> Data \cup {None, Mixed}]
    /\ rows \subseteq Row
    /\ box \in [Path -> Data \cup {None, Mixed}]
    /\ tmp \in [Name -> Seq(Data \cup {Mixed})]
    /\ clock \in 0..MaxRev
    /\ clean \in BOOLEAN /\ late \in BOOLEAN
    /\ pushed \in [Turn -> [Path -> 0..MaxRev]]
    /\ saved \in [Path -> 0..MaxRev]
    /\ promised \in [Path -> 0..MaxRev]

\* Paths with a last segment of their own, and one row at most.  (Two turns
\* that both find a new file record it both, when the first has released the
\* lock and not yet committed.)
Unshared == {p \in Path : /\ \A q \in Path : NameOf[q] = NameOf[p] => q = p
                          /\ \A r, q \in rows : r.path = p /\ q.path = p => r = q}

\* Contents of p, or no file.
Own(p, data) == data # None => data \in Data /\ data.path = p

\* Whatever fails or is cancelled in between, a file with a name of its own and
\* one row never has the contents of another one, or pieces of several, neither
\* in the container nor in S3.
OwnContent == \A p \in Unshared : Own(p, box[p]) /\ Own(p, s3[p])

\* A file that the list of files shows can be downloaded: every row, committed
\* or about to be, has its object.
ListedFileExists ==
    \A r \in rows \cup UNION {attached[t] \cup drafts[t] : t \in Turn} :
        s3[r.path] # None

AtLeast(files, revs) ==
    \A p \in Unshared : revs[p] > 0 => files[p] \in Data /\ files[p].rev >= revs[p]

\* Contents that a committed transaction has recorded, or newer ones, are in S3
\* for good: no failure, crash, loss of the container or later turn takes them
\* back, as long as no sync has outlived the wait for it and the file has one row.
NoWorkLost == ~late => AtLeast(s3, saved)

\* A turn whose sync has had no failure gives its agent every file that was on
\* record when it listed them, in that state or a newer one.
AgentSeesFiles ==
    [][\A t \in Turn :
          at[t] = "pull" /\ at'[t] = "agent" /\ clean /\ ~late
             => AtLeast(box, promised)]_vars
=============================================================================
