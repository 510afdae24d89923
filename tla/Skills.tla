------------------------------- MODULE Skills -------------------------------
(***************************************************************************)
(* The skills together with the processes that serve them: crashes, the    *)
(* loss of the volume, and the restore from S3 when a process starts       *)
(* (_recover_skills_from_s3() in app/core/lifespan.py and                  *)
(* restore_tenant_skills()).                                               *)
(*                                                                         *)
(* Every worker process runs the restore for itself before it serves, and  *)
(* the directory is shared: a process that finds a file of another one's   *)
(* restore takes the directory for intact.                                 *)
(***************************************************************************)
EXTENDS SkillStore

CONSTANTS
    First,       \* the call of an earlier time that may have stored a skill
    MaxRestart,  \* bound: starts of processes
    MaxLoss      \* bound: losses of the volume

ASSUME BoundsAssumption ==
    /\ First \in Request
    /\ MaxRestart \in Nat /\ MaxLoss \in Nat

VARIABLES
    lost,   \* history: the volume is lost, and no process serves since then
    spent   \* starts and losses so far

vars == <<storeVars, worker, history, lost, spent>>

Key == [name : Skill, file : File]
Process == [at : {"up", "down", "rows", "local", "keys", "fetch", "store"},
            keys : SUBSET Key, key : Key \cup {None}, data : Content]
ASSUME NoneAssumption == None \notin Row \cup Key \cup [File -> Content]
Running(where) == [at |-> where, keys |-> {}, key |-> None, data |-> None]

\* An earlier call has stored the skill n, or has failed to.
Init ==
    \E n \in Skill, list \in FileList, stored \in BOOLEAN :
        /\ Head(list) = SkillMd
        /\ LET files == [f \in File |-> IF f \in Members(list) THEN First ELSE None]
               row == [name |-> n, version |-> 1, active |-> TRUE]
           IN /\ rows = [i \in Request |-> IF stored /\ i = First THEN row ELSE None]
              /\ disk = [m \in Skill |-> IF stored /\ m = n THEN files ELSE None]
              /\ s3 = [m \in Skill |-> IF stored /\ m = n THEN files ELSE NoFiles]
        /\ req = [r \in Request |-> IF r # First THEN NoCall
                                   ELSE [NoCall EXCEPT !.at = IF stored THEN "ok" ELSE "failed"]]
        /\ worker = [w \in Worker |-> Running("up")]
        /\ marred = {} /\ unsaved = {}
        /\ lost = FALSE
        /\ spent = [starts |-> 0, losses |-> 0]

-----------------------------------------------------------------------------
(* Processes *)

\* What a crash leaves half done: calls that have written something, and objects
\* that were still to be restored.
HalfDone(w) ==
    {req[r].name : r \in {q \in Request : /\ InFlight(q) /\ req[q].on = w
                                          /\ req[q].op # "meta"
                                          /\ req[q].at \notin {"write", "remove"}}}
    \cup {k.name : k \in worker[w].keys}
    \cup IF worker[w].key # None THEN {worker[w].key.name} ELSE {}

Crash(w) ==
    /\ worker[w].at # "down"
    /\ marred' = marred \cup HalfDone(w)
    /\ worker' = [worker EXCEPT ![w] = Running("down")]
    /\ req' = [r \in Request |-> IF InFlight(r) /\ req[r].on = w
                                 THEN [NoCall EXCEPT !.at = "failed"] ELSE req[r]]
    /\ UNCHANGED <<rows, disk, s3, unsaved, lost, spent>>

\* The host is replaced.
LoseVolume ==
    /\ \A w \in Worker : worker[w].at = "down"
    /\ spent.losses < MaxLoss
    /\ disk' = [n \in Skill |-> None]
    /\ lost' = TRUE
    /\ spent' = [spent EXCEPT !.losses = @ + 1]
    /\ UNCHANGED <<rows, s3, req, worker, history>>

Start(w) ==
    /\ worker[w].at = "down" /\ spent.starts < MaxRestart
    /\ worker' = [worker EXCEPT ![w] = Running("rows")]
    /\ spent' = [spent EXCEPT !.starts = @ + 1]
    /\ UNCHANGED <<storeVars, history, lost>>

-----------------------------------------------------------------------------
(* _recover_skills_from_s3() *)

Serve(w) == worker' = [worker EXCEPT ![w] = Running("up")] /\ lost' = FALSE
Unrestored == {n \in Skill : Named(n) # {} /\ disk[n] = None}

\* The tenants that have skills.
SelectTenants(w) ==
    /\ worker[w].at = "rows"
    /\ IF \A i \in Request : rows[i] = None
       THEN Serve(w)
       ELSE worker' = [worker EXCEPT ![w].at = "local"] /\ UNCHANGED lost
    /\ UNCHANGED <<storeVars, history, spent>>

\* Mutant: one failed file is not the end of the check for local files.
CheckNothing(w) ==
    /\ worker[w].at = "local"
    /\ Serve(w)
    /\ UNCHANGED <<storeVars, history, spent>>

\* Any directory counts, also an empty one.  A restore takes the backup as it is,
\* and meets the calls that other processes serve.
CheckLocal(w) ==
    /\ worker[w].at = "local"
    /\ IF \E n \in Skill : disk[n] # None
       THEN Serve(w) /\ UNCHANGED marred
       ELSE /\ worker' = [worker EXCEPT ![w].at = "keys"]
            /\ marred' = marred \cup unsaved
                              \cup {n \in Skill : \E r \in Request : Touches(r, n)}
            /\ UNCHANGED lost
    /\ UNCHANGED <<storeVars, unsaved, spent>>

ListKeys(w) ==
    /\ worker[w].at = "keys"
    /\ LET keys == {k \in Key : s3[k.name][k.file] # None} IN
       IF keys = {} THEN Serve(w)
       ELSE /\ worker' = [worker EXCEPT ![w] = [Running("fetch") EXCEPT !.keys = keys]]
            /\ UNCHANGED lost
    /\ UNCHANGED <<storeVars, history, spent>>

\* The database or S3 fails: the process serves with what there is.
RecoverFails(w) ==
    /\ worker[w].at \in {"rows", "local", "keys"}
    /\ marred' = marred \cup Unrestored
    /\ Serve(w)
    /\ UNCHANGED <<storeVars, unsaved, spent>>

\* get_object(); the key is gone if it was deleted meanwhile.
FetchObject(w, k) ==
    /\ worker[w].at = "fetch" /\ k \in worker[w].keys
    /\ s3[k.name][k.file] # None
    /\ worker' = [worker EXCEPT ![w] = [at |-> "store", keys |-> @.keys \ {k}, key |-> k,
                                        data |-> s3[k.name][k.file]]]
    /\ UNCHANGED <<storeVars, history, lost, spent>>

\* A failed object is logged and left out.
ObjectFails(w, k) ==
    /\ worker[w].at = "fetch" /\ k \in worker[w].keys
    /\ marred' = marred \cup {k.name}
    /\ worker' = [worker EXCEPT ![w].keys = @ \ {k}]
    /\ UNCHANGED <<storeVars, unsaved, lost, spent>>

StoreFile(w) ==
    /\ worker[w].at = "store"
    /\ LET k == worker[w].key IN SetDir(k.name, Written(k.name, {k.file}, worker[w].data))
    /\ worker' = [worker EXCEPT ![w].at = "fetch", ![w].key = None, ![w].data = None]
    /\ UNCHANGED <<rows, s3, req, marred, unsaved, lost, spent>>

Restored(w) ==
    /\ worker[w].at = "fetch" /\ worker[w].keys = {}
    /\ Serve(w)
    /\ UNCHANGED <<storeVars, history, spent>>

Recover(w) ==
    \/ SelectTenants(w) \/ CheckLocal(w) \/ ListKeys(w) \/ RecoverFails(w)
    \/ \E k \in Key : FetchObject(w, k) \/ ObjectFails(w, k)
    \/ StoreFile(w) \/ Restored(w)

-----------------------------------------------------------------------------
Next ==
    \/ \E r \in Request : (BeginCall(r) \/ CallStep(r) \/ CallFails(r)) /\ UNCHANGED <<lost, spent>>
    \/ \E w \in Worker : Crash(w) \/ Start(w) \/ Recover(w)
    \/ LoseVolume

Spec == Init /\ [][Next]_vars

-----------------------------------------------------------------------------
(* Properties *)

\* n has not been hit by a failure or by two calls at once, and nobody works on it.
Settled(n) ==
    /\ n \notin marred /\ ~lost
    /\ \A r \in Request : ~Touches(r, n)
    /\ \A w \in Worker : worker[w].at \in {"up", "down"}

\* The table and the directory agree: a skill has its row, only one, exactly if it
\* has its directory, with its SKILL.md, whatever was uploaded, changed, deleted,
\* lost with the volume and restored before.
RowsMatchDisk ==
    \A n \in Skill : Settled(n) =>
        /\ Cardinality(Named(n)) <= 1
        /\ Named(n) = {} <=> disk[n] = None
        /\ disk[n] # None => disk[n][SkillMd] \notin {None, Torn}

\* The backup agrees with the directory ("mirrors", skill_s3_backup.py:26), so a
\* deleted skill cannot come back with a restore, and a restored one is complete.
BackupMatchesDisk ==
    \A n \in Skill : Settled(n) /\ n \notin unsaved => s3[n] = FilesOf(n)
=============================================================================
