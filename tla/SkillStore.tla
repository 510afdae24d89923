----------------------------- MODULE SkillStore -----------------------------
(***************************************************************************)
(* The skills of one tenant: the rows of agent_skills, the directory that  *)
(* the worker processes of a backend share, and the backup in S3           *)
(* (app/services/skill_service.py, skill_s3_backup.py, app/api/skills.py). *)
(*                                                                         *)
(* A request is one call of the API.  It writes the directory in one go    *)
(* (no await in between), then flushes its row, then stores the files in   *)
(* S3 one by one, and its transaction ends after that (get_db()).          *)
(*                                                                         *)
(* File contents are named after the request that wrote them.  Titles,     *)
(* descriptions and the checks of names are left out, and so are the       *)
(* reading operations, which change nothing.  The backup is enabled.  A    *)
(* write that dies with its process half way through a directory is left   *)
(* out.                                                                    *)
(***************************************************************************)
EXTENDS Naturals, Sequences, FiniteSets

CONSTANTS
    Request,   \* calls of the API that change skills
    Worker,    \* processes of the backend
    Skill,     \* names of skills
    File,      \* names of files in a skill
    SkillMd,   \* the file that every upload has
    FileList,  \* the files of a call, in the order in which they are written
    None,      \* no row, directory or file
    Torn       \* contents of a file whose write failed half way

ASSUME SkillAssumption ==
    /\ SkillMd \in File
    /\ FileList \subseteq Seq(File) /\ <<>> \notin FileList
    /\ None \notin Request \cup Skill \cup File \cup {Torn}
    /\ Torn \notin Request

VARIABLES
    rows,     \* rows[i]: the committed row that request i has inserted
    disk,     \* disk[n]: the directory of n
    s3,       \* s3[n]: the objects of n
    req,      \* req[r]: the call r
    worker,   \* worker[w]: the process w (module Skills)
    marred,   \* history: skills hit by a failure between two copies, or by
              \* two calls at once
    unsaved   \* history: skills whose backup has failed

storeVars == <<rows, disk, s3, req>>
history == <<marred, unsaved>>

Content == Request \cup {Torn, None}
Row == [name : Skill, version : Nat, active : BOOLEAN]
Call == [at : {"idle", "write", "remove", "flush", "put", "list", "drop", "commit",
               "ok", "failed"},
         op : {"none", "upload", "update", "meta", "delete"},
         name : Skill \cup {None}, list : FileList \cup {<<>>}, id : Request \cup {None},
         version : Nat, active : BOOLEAN, todo : Seq(File), on : Worker \cup {None}]

NoCall == [at |-> "idle", op |-> "none", name |-> None, list |-> <<>>, id |-> None,
           version |-> 0, active |-> TRUE, todo |-> <<>>, on |-> None]
NoFiles == [f \in File |-> None]
FilesOf(n) == IF disk[n] = None THEN NoFiles ELSE disk[n]
Members(list) == {list[i] : i \in 1..Len(list)}

\* The rows that get_by_name(n) finds.
Named(n) == {i \in Request : rows[i] # None /\ rows[i].name = n}
InFlight(r) == req[r].at \notin {"idle", "ok", "failed"}
\* r changes files of n.
Touches(r, n) == InFlight(r) /\ req[r].name = n /\ req[r].op # "meta"
Restoring(w) == worker[w].at \in {"keys", "fetch", "store"}

GoTo(r, where) == req' = [req EXCEPT ![r].at = where]
End(r, how) == req' = [req EXCEPT ![r] = [NoCall EXCEPT !.at = how]]
\* The exception ends the call, and get_db() rolls its transaction back.
Fail(r) == End(r, "failed")
SetDir(n, d) == disk' = [disk EXCEPT ![n] = d]

\* A row written by a flushed and not yet ended transaction is locked.
RowFree(r) == \A q \in Request : ~(/\ q # r /\ req[q].id = req[r].id
                                   /\ req[q].op \in {"update", "meta"}
                                   /\ req[q].at \in {"put", "commit"})

\* Calls that meet another one, or a restore, on their skill.
Meets(n) == (\E q \in Request : Touches(q, n)) \/ (\E w \in Worker : Restoring(w))
Begin(r, n, call) ==
    /\ req' = [req EXCEPT ![r] = call]
    /\ marred' = IF call.at \in {"write", "remove"} /\ Meets(n)
                 THEN marred \cup {n} ELSE marred
    /\ UNCHANGED <<rows, disk, s3, worker, unsaved>>

-----------------------------------------------------------------------------
(* Beginning a call *)

\* upload_skill(): status 409 if the name is taken; with two rows of the name
\* scalar_one_or_none() raises.
Upload(r, w, n, list) ==
    /\ req[r].at = "idle" /\ worker[w].at = "up"
    /\ Head(list) = SkillMd
    /\ IF Named(n) = {}
       THEN Begin(r, n, [NoCall EXCEPT !.at = "write", !.op = "upload", !.name = n,
                                       !.list = list, !.id = r, !.on = w])
       ELSE Fail(r) /\ UNCHANGED <<rows, disk, s3, worker, history>>

\* get_by_id() of update_files(), update() and delete(); status 404 changes nothing.
Load(r, w, i, call) ==
    /\ req[r].at = "idle" /\ worker[w].at = "up"
    /\ rows[i] # None
    /\ Begin(r, rows[i].name, [call EXCEPT !.name = rows[i].name, !.id = i,
                               !.version = rows[i].version, !.active = rows[i].active,
                               !.on = w])

UpdateFiles(r, w, i, list) ==
    Load(r, w, i, [NoCall EXCEPT !.at = "write", !.op = "update", !.list = list])
\* Of the fields of SkillUpdate the model keeps the status.
UpdateMeta(r, w, i) == Load(r, w, i, [NoCall EXCEPT !.at = "flush", !.op = "meta"])
Delete(r, w, i) == Load(r, w, i, [NoCall EXCEPT !.at = "remove", !.op = "delete"])

-----------------------------------------------------------------------------
(* Files on disk *)

Written(n, files, data) == [f \in File |-> IF f \in files THEN data ELSE FilesOf(n)[f]]
Before(list, k) == {list[i] : i \in 1..(k - 1)}

WriteFiles(r) ==
    /\ req[r].at = "write"
    /\ SetDir(req[r].name, Written(req[r].name, Members(req[r].list), r))
    /\ GoTo(r, "flush")
    /\ UNCHANGED <<rows, s3, worker, marred, unsaved>>

\* The k-th file cannot be opened, or its write breaks off.  create() removes the
\* files it has written before, also those that were there already; update_files()
\* leaves them.
WriteFails(r, k, half) ==
    /\ req[r].at = "write" /\ k \in 1..Len(req[r].list)
    /\ LET n == req[r].name
           done == Before(req[r].list, k)
           kept == Written(n, done, IF req[r].op = "upload" THEN None ELSE r)
       IN SetDir(n, IF half THEN [kept EXCEPT ![req[r].list[k]] = Torn] ELSE kept)
    /\ marred' = marred \cup {req[r].name}
    /\ Fail(r)
    /\ UNCHANGED <<rows, s3, worker, unsaved>>

\* rmtree()
RemoveDir(r) ==
    /\ req[r].at = "remove"
    /\ IF disk[req[r].name] = None THEN UNCHANGED disk
                                   ELSE SetDir(req[r].name, None)
    /\ GoTo(r, "list")
    /\ UNCHANGED <<rows, s3, worker, marred, unsaved>>

\* rmtree() fails after some files; the deletion goes on.
RemoveDirFails(r, gone) ==
    /\ req[r].at = "remove" /\ disk[req[r].name] # None
    /\ SetDir(req[r].name, Written(req[r].name, gone, None))
    /\ marred' = marred \cup {req[r].name}
    /\ GoTo(r, "list")
    /\ UNCHANGED <<rows, s3, worker, unsaved>>

-----------------------------------------------------------------------------
(* The row *)

\* flush(): an UPDATE waits for the row, and raises if it has been deleted.
Flush(r) ==
    /\ req[r].at = "flush"
    /\ req[r].op = "upload" \/ (RowFree(r) /\ rows[req[r].id] # None)
    /\ req' = [req EXCEPT ![r].at = IF req[r].op = "meta" THEN "commit" ELSE "put",
                          ![r].todo = req[r].list]
    /\ UNCHANGED <<rows, disk, s3, worker, history>>

FlushFails(r) ==
    /\ req[r].at = "flush"
    /\ Fail(r)
    /\ marred' = IF req[r].op = "meta" THEN marred ELSE marred \cup {req[r].name}
    /\ UNCHANGED <<rows, disk, s3, worker, unsaved>>

\* What the transaction of r leaves of the row.
RowAfter(r) ==
    LET c == req[r] IN
    CASE c.op = "upload" -> [name |-> c.name, version |-> 1, active |-> TRUE]
      [] c.op = "update" -> [rows[c.id] EXCEPT !.version = c.version + 1]
      [] c.op = "meta" -> [rows[c.id] EXCEPT !.active = ~c.active]
      [] OTHER -> None

\* get_db(): the DELETE is only sent here, and waits for the row.
Commit(r) ==
    /\ req[r].at = "commit" /\ RowFree(r)
    /\ rows' = [rows EXCEPT ![req[r].id] = RowAfter(r)]
    /\ End(r, "ok")
    /\ UNCHANGED <<disk, s3, worker, history>>

CommitFails(r) ==
    /\ req[r].at = "commit"
    /\ Fail(r)
    /\ marred' = IF req[r].op = "meta" THEN marred ELSE marred \cup {req[r].name}
    /\ UNCHANGED <<rows, disk, s3, worker, unsaved>>

-----------------------------------------------------------------------------
(* The backup *)

\* One file less to do.
NextFile(r, where) ==
    req' = [req EXCEPT ![r].todo = Tail(@),
                       ![r].at = IF Len(req[r].todo) = 1 THEN "commit" ELSE where]
SetObject(r, data) == s3' = [s3 EXCEPT ![req[r].name][Head(req[r].todo)] = data]

PutObject(r) ==
    /\ req[r].at = "put"
    /\ SetObject(r, r)
    /\ NextFile(r, "put")
    /\ UNCHANGED <<rows, disk, worker, history>>

\* upload_skill_files() stops at the first failure, and _sync_to_s3() logs it.
PutFails(r) ==
    /\ req[r].at = "put"
    /\ unsaved' = unsaved \cup {req[r].name}
    /\ GoTo(r, "commit")
    /\ UNCHANGED <<rows, disk, s3, worker, marred>>

\* delete_skill_files(): the objects at the time of the listing.
ListObjects(r) ==
    /\ req[r].at = "list"
    /\ \E keys \in [1..Cardinality({f \in File : s3[req[r].name][f] # None}) -> File] :
          /\ Members(keys) = {f \in File : s3[req[r].name][f] # None}
          /\ req' = [req EXCEPT ![r].at = IF keys = <<>> THEN "commit" ELSE "drop",
                                ![r].todo = keys]
    /\ UNCHANGED <<rows, disk, s3, worker, history>>

ListFails(r) ==
    /\ req[r].at = "list"
    /\ unsaved' = unsaved \cup {req[r].name}
    /\ GoTo(r, "commit")
    /\ UNCHANGED <<rows, disk, s3, worker, marred>>

\* Mutant: the objects of a deleted skill stay.
ForgetObject(r) ==
    /\ req[r].at = "drop"
    /\ NextFile(r, "drop")
    /\ UNCHANGED <<rows, disk, s3, worker, history>>

DropObject(r) ==
    /\ req[r].at = "drop"
    /\ SetObject(r, None)
    /\ NextFile(r, "drop")
    /\ UNCHANGED <<rows, disk, worker, history>>

\* A failure is logged, and the loop goes on.
DropFails(r) ==
    /\ req[r].at = "drop"
    /\ unsaved' = unsaved \cup {req[r].name}
    /\ NextFile(r, "drop")
    /\ UNCHANGED <<rows, disk, s3, worker, marred>>

-----------------------------------------------------------------------------
BeginCall(r) ==
    \E w \in Worker :
        \/ \E n \in Skill, list \in FileList : Upload(r, w, n, list)
        \/ \E i \in Request, list \in FileList : UpdateFiles(r, w, i, list)
        \/ \E i \in Request : UpdateMeta(r, w, i) \/ Delete(r, w, i)

CallStep(r) ==
    \/ WriteFiles(r) \/ RemoveDir(r) \/ Flush(r) \/ PutObject(r)
    \/ ListObjects(r) \/ DropObject(r) \/ Commit(r)

CallFails(r) ==
    \/ \E k \in 1..Len(req[r].list), half \in BOOLEAN : WriteFails(r, k, half)
    \/ \E gone \in SUBSET File : RemoveDirFails(r, gone)
    \/ FlushFails(r) \/ CommitFails(r) \/ PutFails(r) \/ ListFails(r) \/ DropFails(r)
=============================================================================
