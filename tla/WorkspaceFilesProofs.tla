------------------------ MODULE WorkspaceFilesProofs ------------------------
(***************************************************************************)
(* Theorems of WorkspaceFiles, for any requests, paths, names and bounds:  *)
(* listed files are there, a file keeps its own contents, recorded work is *)
(* not lost, and an agent sees it.                                         *)
(***************************************************************************)
EXTENDS WorkspaceFiles, TLAPS

\* What the local variables of the transfers hold at each step, and that the
\* object comes before anything that speaks of it.
TransferInv ==
    \A x \in pull : /\ x.step = "get" => x.sent = 0
                    /\ x.step # "get" => x.data # None
                    /\ x.step = "send" => x.sent < Chunks
JobInv ==
    \A j \in jobs : /\ j.step # "find" => j.path \in Path
                    /\ j.step \in {"put", "record", "thread"} => j.data # None
                    /\ j.step = "record" => s3[j.path] # None
AttachInv == \A t \in Turn : attaching[t] # None => s3[attaching[t]] # None

FilesInv == FilesTypeOK /\ TransferInv /\ JobInv /\ AttachInv /\ ListedFileExists

LEMMA FilesInit == Init => FilesInv
  <1> SUFFICES ASSUME Init
               PROVE  FilesInv
    OBVIOUS
  <1> USE DEF Init
  <1>1. FilesTypeOK
    <2>1. tmp \in [Name -> Seq(Data \cup {Mixed})]
      OBVIOUS
    <2>2. NothingSaved \in [Path -> 0..MaxRev]
      BY FilesAssumption DEF NothingSaved
    <2>3. syncs \in [Turn -> 0..MaxSync] /\ clock \in 0..MaxRev
      BY FilesAssumption
    <2>4. QED
      BY <2>1, <2>2, <2>3 DEF FilesTypeOK
  <1>2. TransferInv /\ JobInv /\ AttachInv /\ ListedFileExists
    BY DEF TransferInv, JobInv, AttachInv, ListedFileExists
  <1>3. QED
    BY <1>1, <1>2 DEF FilesInv

LEMMA RevisionsType ==
    ASSUME NEW files \in [Path -> Data \cup {None, Mixed}], NEW listed
    PROVE  Revisions(files, listed) \in [Path -> 0..MaxRev]
  BY FilesAssumption DEF Revisions, Data

LEMMA NewerType ==
    ASSUME NEW a \in [Path -> 0..MaxRev], NEW b \in [Path -> 0..MaxRev]
    PROVE  Newer(a, b) \in [Path -> 0..MaxRev]
  BY DEF Newer

LEMMA FilesTypeRequest ==
    ASSUME FilesTypeOK, AttachInv, NEW t \in Turn, Request(t)
    PROVE  FilesTypeOK'
  <1> USE DEF FilesTypeOK, GoTo, syncVars, storeVars, boxVars, history, requestVars
  <1>1. ASSUME NEW p \in Path, PutAttachment(t, p)
        PROVE  FilesTypeOK'
    <2>1. clock + 1 \in 1..MaxRev /\ clock + 1 \in 0..MaxRev
      BY <1>1, FilesAssumption DEF PutAttachment
    <2>2. [path |-> p, rev |-> clock + 1] \in Data
      BY <2>1 DEF Data
    <2>3. s3' \in [Path -> Data \cup {None, Mixed}]
      BY <1>1, <2>2 DEF PutAttachment
    <2>4. QED
      BY <1>1, <2>1, <2>3 DEF PutAttachment
  <1>2. ASSUME SaveFileRecord(t)
        PROVE  FilesTypeOK'
    BY <1>2 DEF SaveFileRecord, Row
  <1>3. ASSUME AttachFails(t)
        PROVE  FilesTypeOK'
    BY <1>3 DEF AttachFails
  <1>4. ASSUME Respond(t)
        PROVE  FilesTypeOK'
    BY <1>4 DEF Respond
  <1>5. ASSUME CloseRequest(t)
        PROVE  FilesTypeOK'
    <2>1. saved' \in [Path -> 0..MaxRev]
      BY <1>5, RevisionsType, NewerType DEF CloseRequest
    <2>2. QED
      BY <1>5, <2>1 DEF CloseRequest
  <1>6. QED
    BY <1>1, <1>2, <1>3, <1>4, <1>5 DEF Request

LEMMA FilesTypeTurn ==
    ASSUME FilesTypeOK, NEW t \in Turn, TurnStep(t)
    PROVE  FilesTypeOK'
  <1> USE DEF FilesTypeOK, GoTo, syncVars, storeVars, boxVars, history, requestVars
  <1>0. NothingSaved \in [Path -> 0..MaxRev]
    BY FilesAssumption DEF NothingSaved
  <1>f. ASSUME NEW n \in 0..MaxSync
        PROVE  FindIn(t, n) \in Job
    BY DEF FindIn, Job
  <1>1. ASSUME Enter(t)
        PROVE  FilesTypeOK'
    <2>1. pull' \subseteq Transfer
      <3>1. ASSUME NEW r \in rows
            PROVE  [turn |-> t, row |-> r, step |-> "get", data |-> None, sent |-> 0]
                      \in Transfer
        BY FilesAssumption DEF Transfer
      <3>2. QED
        BY <1>1, <3>1 DEF Enter
    <2>2. QED
      BY <1>1, <2>1 DEF Enter
  <1>2. CASE Refused(t)
    BY <1>2 DEF Refused
  <1>3. CASE BeginAgent(t)
    BY <1>0, <1>3 DEF BeginAgent, Forget
  <1>4. CASE StartSync(t)
    <2>1. syncs[t] + 1 \in 0..MaxSync
      BY <1>4, FilesAssumption DEF StartSync
    <2>2. jobs' \subseteq Job
      BY <1>4, <1>f, <2>1 DEF StartSync
    <2>3. QED
      BY <1>4, <2>1, <2>2 DEF StartSync
  <1>5. CASE EndStream(t)
    BY <1>5 DEF EndStream
  <1>6. CASE StartFinalSync(t)
    <2>1. 0 \in 0..MaxSync
      BY FilesAssumption
    <2>2. jobs' \subseteq Job
      BY <1>6, <1>f, <2>1 DEF StartFinalSync
    <2>3. QED
      BY <1>6, <2>2 DEF StartFinalSync
  <1>7. CASE ReleaseLock(t)
    <2>1. pushed' \in [Turn -> [Path -> 0..MaxRev]]
      BY <1>0, <1>7, RevisionsType DEF ReleaseLock
    <2>2. QED
      BY <1>0, <1>7, <2>1 DEF ReleaseLock, Forget
  <1>8. CASE Commit(t)
    <2>1. saved' \in [Path -> 0..MaxRev] /\ pushed' \in [Turn -> [Path -> 0..MaxRev]]
      BY <1>0, <1>8, NewerType DEF Commit
    <2>2. QED
      BY <1>8, <2>1 DEF Commit
  <1>9. CASE TurnFails(t)
    <2>1. clean' \in BOOLEAN /\ promised' \in [Path -> 0..MaxRev]
      <3>1. CASE Holds(t)
        BY <1>0, <1>9, <3>1 DEF TurnFails, Forget
      <3>2. CASE ~Holds(t)
        BY <1>9, <3>2 DEF TurnFails
      <3>3. QED
        BY ONLY <3>1, <3>2
    <2>2. \A j \in Job : [j EXCEPT !.step = "thread"] \in Job
      BY DEF Job
    <2>3. jobs' \subseteq Job
      BY <1>9, <2>2 DEF TurnFails, Calls
    <2>4. late' \in BOOLEAN /\ pushed' \in [Turn -> [Path -> 0..MaxRev]]
          /\ drafts' \in [Turn -> SUBSET Row] /\ pull' \subseteq Transfer
      BY <1>0, <1>9 DEF TurnFails
    <2>5. QED
      BY <1>9, <2>1, <2>3, <2>4 DEF TurnFails
  <1>10. QED
    BY <1>1, <1>2, <1>3, <1>4, <1>5, <1>6, <1>7, <1>8, <1>9 DEF TurnStep

LEMMA FilesTypePull ==
    ASSUME FilesTypeOK, TransferInv, NEW x \in pull,
           Download(x) \/ SendChunk(x) \/ Decode(x) \/ TransferFails(x)
    PROVE  FilesTypeOK'
  <1> USE DEF FilesTypeOK, storeVars, boxVars, history, requestVars
  <1>0. /\ x \in Transfer /\ x.row \in Row /\ x.row.path \in Path
        /\ x.data \in Data \cup {None, Mixed} /\ x.sent \in 0..Chunks
        /\ TmpOf(x) \in Name
    BY DEF Transfer, Row, TmpOf, Name
  <1>1. CASE Download(x)
    <2>1. [x EXCEPT !.step = "send", !.data = s3[x.row.path]] \in Transfer
      BY <1>0 DEF Transfer
    <2>2. pull' \subseteq Transfer
      BY <1>1, <2>1 DEF Download, Replace
    <2>3. QED
      BY <1>1, <2>2 DEF Download
  <1>2. CASE SendChunk(x)
    <2>1. x.sent + 1 \in 0..Chunks /\ x.data \in Data \cup {Mixed}
      BY <1>0, <1>2, FilesAssumption DEF SendChunk, TransferInv
    <2>2. [x EXCEPT !.sent = @ + 1, !.step = IF x.sent + 1 = Chunks THEN "decode" ELSE "send"]
             \in Transfer
      BY <1>0, <2>1 DEF Transfer
    <2>3. pull' \subseteq Transfer
      BY <1>2, <2>2 DEF SendChunk, Replace
    <2>4. tmp' \in [Name -> Seq(Data \cup {Mixed})]
      BY <1>0, <1>2, <2>1 DEF SendChunk
    <2>5. QED
      BY <1>2, <2>3, <2>4 DEF SendChunk
  <1>3. CASE Decode(x)
    <2>1. tmp[TmpOf(x)] \in Seq(Data \cup {Mixed}) /\ tmp[TmpOf(x)] # <<>>
      BY <1>0, <1>3 DEF Decode
    <2>2. Decoded(tmp[TmpOf(x)]) \in Data \cup {Mixed}
      BY <2>1, FilesAssumption DEF Decoded
    <2>3. box' \in [Path -> Data \cup {None, Mixed}]
      BY <1>0, <1>3, <2>2 DEF Decode
    <2>4. tmp' \in [Name -> Seq(Data \cup {Mixed})]
      BY <1>0, <1>3 DEF Decode
    <2>5. QED
      BY <1>3, <2>3, <2>4 DEF Decode
  <1>4. CASE TransferFails(x)
    <2>1. tmp' \in [Name -> Seq(Data \cup {Mixed})]
      <3>1. tmp' = tmp \/ tmp' = [tmp EXCEPT ![TmpOf(x)] = <<>>]
        BY ONLY <1>4, Zenon DEF TransferFails
      <3>2. tmp \in [Name -> Seq(Data \cup {Mixed})] /\ <<>> \in Seq(Data \cup {Mixed})
        OBVIOUS
      <3>3. QED
        BY ONLY <3>1, <3>2
    <2>2. pull' = pull \ {x} /\ clean' = FALSE
      BY ONLY <1>4, Zenon DEF TransferFails
    <2>3. pull' \subseteq Transfer
      BY <2>2
    <2>5. clean' \in BOOLEAN
      BY ONLY <2>2, Zenon
    <2>4. QED
      BY <1>4, <2>1, <2>3, <2>5 DEF TransferFails
  <1>5. QED
    BY <1>1, <1>2, <1>3, <1>4

LEMMA FilesTypePush ==
    ASSUME FilesTypeOK, JobInv, NEW j \in jobs,
           FindFiles(j) \/ ReadFile(j) \/ PutFile(j) \/ RecordFile(j) \/ SyncFails(j)
    PROVE  FilesTypeOK'
  <1> USE DEF FilesTypeOK, storeVars, boxVars, history, requestVars
  <1>0. /\ j \in Job /\ j.turn \in Turn
        /\ j.step # "find" => j.path \in Path
        /\ j.data \in Data \cup {None, Mixed}
    BY DEF Job, JobInv
  <1>1. CASE FindFiles(j)
    <2>1. ASSUME NEW p \in Path
          PROVE  [j EXCEPT !.path = p, !.step = "read"] \in Job
      BY <1>0 DEF Job
    <2>2. jobs' \subseteq Job
      BY <1>1, <2>1 DEF FindFiles
    <2>3. QED
      BY <1>1, <2>2 DEF FindFiles
  <1>2. CASE ReadFile(j)
    <2>1. [j EXCEPT !.step = "put", !.data = box[j.path]] \in Job
      BY <1>0, <1>2 DEF Job, ReadFile
    <2>2. jobs' \subseteq Job
      BY <1>2, <2>1 DEF ReadFile, Replace
    <2>3. QED
      BY <1>2, <2>2 DEF ReadFile
  <1>3. CASE PutFile(j)
    <2>1. [j EXCEPT !.step = "record"] \in Job
      BY <1>0 DEF Job
    <2>2. jobs' \subseteq Job
      BY <1>3, <2>1 DEF PutFile, Replace
    <2>3. QED
      BY <1>0, <1>3, <2>2 DEF PutFile
  <1>4. CASE RecordFile(j)
    <2>1. [by |-> j.turn, kind |-> "sync", path |-> j.path] \in Row
      BY <1>0, <1>4 DEF RecordFile, Row
    <2>2. drafts' \in [Turn -> SUBSET Row]
      BY <1>0, <1>4, <2>1 DEF RecordFile
    <2>3. QED
      BY <1>4, <2>2 DEF RecordFile
  <1>5. CASE SyncFails(j)
    BY <1>5 DEF SyncFails
  <1>6. QED
    BY <1>1, <1>2, <1>3, <1>4, <1>5

LEMMA FilesTypeRest ==
    ASSUME FilesTypeOK,
           (\E p \in Path : AgentWrites(p)) \/ LoseContainer \/ Die \/ UNCHANGED vars
    PROVE  FilesTypeOK'
  <1> USE DEF FilesTypeOK, syncVars, storeVars, boxVars, history, requestVars
  <1>1. ASSUME NEW p \in Path, AgentWrites(p)
        PROVE  FilesTypeOK'
    <2>1. clock + 1 \in 1..MaxRev /\ clock + 1 \in 0..MaxRev
      BY <1>1, FilesAssumption DEF AgentWrites
    <2>2. [path |-> p, rev |-> clock + 1] \in Data
      BY <2>1 DEF Data
    <2>3. box' \in [Path -> Data \cup {None, Mixed}]
      BY <1>1, <2>2 DEF AgentWrites
    <2>4. QED
      BY <1>1, <2>1, <2>3 DEF AgentWrites
  <1>2. CASE LoseContainer
    <2>1. tmp' \in [Name -> Seq(Data \cup {Mixed})]
      BY <1>2 DEF LoseContainer
    <2>2. QED
      BY <1>2, <2>1 DEF LoseContainer
  <1>3. CASE Die
    <2>1. NothingSaved \in [Path -> 0..MaxRev]
      BY FilesAssumption DEF NothingSaved
    <2>2. at' \in [Turn -> {"request", "lock", "pull", "agent", "wait", "push",
                            "commit", "over"}]
      BY <1>3 DEF Die
    <2>3. QED
      BY <1>3, <2>1, <2>2 DEF Die, Forget
  <1>4. CASE UNCHANGED vars
    BY <1>4 DEF vars
  <1>5. QED
    BY <1>1, <1>2, <1>3, <1>4

-----------------------------------------------------------------------------
(* The object comes before the row *)

\* No step takes an object away, and new rows stand for objects.
ObjectsStay == \A p \in Path : s3[p] # None => s3'[p] # None

\* The rows that anybody has flushed or committed.
Listed == rows \cup UNION {attached[t] \cup drafts[t] : t \in Turn}

LEMMA NewData ==
    ASSUME NEW p \in Path, clock < MaxRev, clock \in 0..MaxRev
    PROVE  [path |-> p, rev |-> clock + 1] # None
  <1>1. clock + 1 \in 1..MaxRev
    BY FilesAssumption
  <1>2. [path |-> p, rev |-> clock + 1] \in Data
    BY <1>1 DEF Data
  <1>3. QED
    BY <1>2, NoData

LEMMA ListedStep ==
    ASSUME FilesInv, [Next]_vars
    PROVE  ListedFileExists' /\ AttachInv' /\ ObjectsStay
  <1> USE DEF FilesInv, GoTo, syncVars, storeVars, boxVars, history, requestVars
  <1>0. /\ rows \subseteq Row /\ attached \in [Turn -> SUBSET Row]
        /\ drafts \in [Turn -> SUBSET Row] /\ \A r \in Row : r.path \in Path
        /\ s3 \in [Path -> Data \cup {None, Mixed}]
        /\ attaching \in [Turn -> Path \cup {None}] /\ clock \in 0..MaxRev
        /\ jobs \subseteq Job
    BY DEF FilesTypeOK, Row
  <1> USE DEF ListedFileExists, AttachInv, ObjectsStay
  <1>1. ASSUME NEW t \in Turn, NEW p \in Path, PutAttachment(t, p)
        PROVE  ListedFileExists' /\ AttachInv' /\ ObjectsStay
    <2>1. /\ s3' = [s3 EXCEPT ![p] = [path |-> p, rev |-> clock + 1]]
          /\ [path |-> p, rev |-> clock + 1] # None
      BY <1>0, <1>1, NewData DEF PutAttachment
    <2>2. \A q \in Path : (s3[q] # None => s3'[q] # None) /\ s3'[p] # None
      BY <1>0, <2>1
    <2>3. QED
      BY <1>0, <1>1, <2>2 DEF PutAttachment
  <1>2. ASSUME NEW t \in Turn, SaveFileRecord(t)
        PROVE  ListedFileExists' /\ AttachInv' /\ ObjectsStay
    BY <1>0, <1>2 DEF SaveFileRecord
  <1>3. ASSUME NEW t \in Turn,
               AttachFails(t) \/ CloseRequest(t) \/ Commit(t) \/ TurnFails(t)
        PROVE  ListedFileExists' /\ AttachInv' /\ ObjectsStay
    BY <1>0, <1>3 DEF AttachFails, CloseRequest, Commit, TurnFails
  <1>4. ASSUME NEW j \in jobs, PutFile(j)
        PROVE  ListedFileExists' /\ AttachInv' /\ ObjectsStay
    <2>1. s3' = [s3 EXCEPT ![j.path] = j.data] /\ j.data # None
      BY <1>4 DEF PutFile, JobInv
    <2>2. \A q \in Path : s3[q] # None => s3'[q] # None
      BY <1>0, <2>1
    <2>3. QED
      BY <1>0, <1>4, <2>2 DEF PutFile
  <1>5. ASSUME NEW j \in jobs, RecordFile(j)
        PROVE  ListedFileExists' /\ AttachInv' /\ ObjectsStay
    <2>1. s3[j.path] # None
      BY <1>5 DEF RecordFile, JobInv
    <2>2. QED
      BY <1>0, <1>5, <2>1 DEF RecordFile
  <1>6. CASE Die
    BY <1>0, <1>6 DEF Die
  <1>7. CASE UNCHANGED <<requestVars, drafts, storeVars>>
    BY <1>7
  <1>8. ASSUME NEW t \in Turn, UNCHANGED <<attaching, attached, drafts, storeVars>>
        PROVE  ListedFileExists' /\ AttachInv' /\ ObjectsStay
    BY <1>8
  <1>9. QED
    <2>1. ASSUME NEW t \in Turn, Request(t)
          PROVE  ListedFileExists' /\ AttachInv' /\ ObjectsStay
      BY <2>1, <1>1, <1>2, <1>3, <1>7 DEF Request, Respond
    <2>2. ASSUME NEW t \in Turn, TurnStep(t)
          PROVE  ListedFileExists' /\ AttachInv' /\ ObjectsStay
      BY <2>2, <1>3, <1>7
      DEF TurnStep, Enter, Refused, BeginAgent, StartSync, EndStream,
          StartFinalSync, ReleaseLock
    <2>3. ASSUME SyncStep
          PROVE  ListedFileExists' /\ AttachInv' /\ ObjectsStay
      BY <2>3, <1>4, <1>5, <1>7
      DEF SyncStep, Download, SendChunk, Decode, TransferFails, FindFiles,
          ReadFile, SyncFails
    <2>4. QED
      BY <2>1, <2>2, <2>3, <1>6, <1>7 DEF Next, vars, AgentWrites, LoseContainer

LEMMA LocalStep ==
    ASSUME FilesInv, ObjectsStay, [Next]_vars
    PROVE  TransferInv' /\ JobInv'
  <1> USE DEF FilesInv, GoTo, syncVars, storeVars, boxVars, history, requestVars
  <1>0. /\ pull \subseteq Transfer /\ jobs \subseteq Job
        /\ s3 \in [Path -> Data \cup {None, Mixed}]
        /\ box \in [Path -> Data \cup {None, Mixed}]
        /\ \A x \in pull : x.row.path \in Path
    BY DEF FilesTypeOK, Transfer, Row
  <1>1. ASSUME pull' \subseteq pull
        PROVE  TransferInv'
    BY <1>1 DEF TransferInv
  <1>2. ASSUME jobs' \subseteq jobs
        PROVE  JobInv'
    BY <1>2 DEF JobInv, ObjectsStay
  <1>3. ASSUME NEW x \in pull, Download(x)
        PROVE  TransferInv' /\ JobInv'
    <2> DEFINE y == [x EXCEPT !.step = "send", !.data = s3[x.row.path]]
    <2>1. x \in Transfer /\ x.step = "get" /\ s3[x.row.path] # None
      BY <1>0, <1>3 DEF Download
    <2>2. y.step = "send" /\ y.data = s3[x.row.path] /\ y.sent = x.sent
      BY <2>1 DEF Transfer
    <2>3. pull' = Replace(pull, x, y) /\ jobs' = jobs
      BY <1>3 DEF Download
    <2> HIDE DEF y
    <2>4. y.data # None /\ y.sent < Chunks
      BY <2>1, <2>2, FilesAssumption DEF TransferInv
    <2>5. TransferInv'
      BY <2>2, <2>3, <2>4 DEF TransferInv, Replace
    <2>6. QED
      BY <1>2, <2>3, <2>5
  <1>4. ASSUME NEW x \in pull, SendChunk(x)
        PROVE  TransferInv' /\ JobInv'
    <2> DEFINE y == [x EXCEPT !.sent = @ + 1,
                       !.step = IF x.sent + 1 = Chunks THEN "decode" ELSE "send"]
    <2>1. x \in Transfer /\ x.step = "send" /\ x.sent < Chunks /\ x.data # None
      BY <1>0, <1>4 DEF SendChunk, TransferInv
    <2>2. /\ y.step = (IF x.sent + 1 = Chunks THEN "decode" ELSE "send")
          /\ y.data = x.data /\ y.sent = x.sent + 1
      BY <2>1 DEF Transfer
    <2>3. pull' = Replace(pull, x, y) /\ jobs' = jobs
      BY <1>4 DEF SendChunk
    <2> HIDE DEF y
    <2>4. y.step # "get" /\ y.data # None /\ (y.step = "send" => y.sent < Chunks)
      <3>1. x.sent \in Nat
        BY <2>1, FilesAssumption DEF Transfer
      <3>2. QED
        BY <2>1, <2>2, <3>1, FilesAssumption
    <2>5. TransferInv'
      BY <2>3, <2>4 DEF TransferInv, Replace
    <2>6. QED
      BY <1>2, <2>3, <2>5
  <1>5. ASSUME NEW j \in jobs, FindFiles(j)
        PROVE  TransferInv' /\ JobInv'
    <2>1. \A p \in Path : /\ [j EXCEPT !.path = p, !.step = "read"].path = p
                          /\ [j EXCEPT !.path = p, !.step = "read"].step = "read"
      BY <1>0 DEF Job
    <2>2. /\ jobs' = (jobs \ {j}) \cup
                {[j EXCEPT !.path = p, !.step = "read"] : p \in {q \in Path : box[q] # None}}
          /\ pull' = pull
      BY <1>5 DEF FindFiles
    <2>3. ASSUME NEW k \in jobs'
          PROVE  k \in jobs \/ (k.step = "read" /\ k.path \in Path)
      <3>1. CASE k \in jobs
        BY ONLY <3>1
      <3>2. CASE k \notin jobs
        <4>1. PICK p \in Path : k = [j EXCEPT !.path = p, !.step = "read"]
          BY ONLY <2>2, <2>3, <3>2, Zenon
        <4>2. QED
          BY ONLY <2>1, <4>1
      <3>3. QED
        BY ONLY <3>1, <3>2
    <2>4. JobInv'
      BY <2>3 DEF JobInv, ObjectsStay
    <2>5. QED
      BY <1>1, <2>2, <2>4
  <1>6. ASSUME NEW j \in jobs, ReadFile(j)
        PROVE  TransferInv' /\ JobInv'
    <2> DEFINE k == [j EXCEPT !.step = "put", !.data = box[j.path]]
    <2>1. j \in Job /\ j.path \in Path /\ box[j.path] # None
      BY <1>0, <1>6 DEF ReadFile, JobInv
    <2>2. k.step = "put" /\ k.data = box[j.path] /\ k.path = j.path
      BY <2>1 DEF Job
    <2>3. jobs' = Replace(jobs, j, k) /\ pull' = pull
      BY <1>6 DEF ReadFile
    <2> HIDE DEF k
    <2>4. JobInv'
      BY <2>1, <2>2, <2>3 DEF JobInv, ObjectsStay, Replace
    <2>5. QED
      BY <1>1, <2>3, <2>4
  <1>7. ASSUME NEW j \in jobs, PutFile(j)
        PROVE  TransferInv' /\ JobInv'
    <2> DEFINE k == [j EXCEPT !.step = "record"]
    <2>1. j \in Job /\ j.path \in Path /\ j.data # None
      BY <1>0, <1>7 DEF PutFile, JobInv
    <2>2. k.step = "record" /\ k.data = j.data /\ k.path = j.path
      BY <2>1 DEF Job
    <2>3. /\ jobs' \subseteq jobs \cup {k} /\ pull' = pull
          /\ s3' = [s3 EXCEPT ![j.path] = j.data]
      BY <1>7 DEF PutFile, Replace
    <2> HIDE DEF k
    <2>4. s3'[j.path] # None
      BY <1>0, <2>1, <2>3
    <2>5. JobInv'
      BY <2>1, <2>2, <2>3, <2>4 DEF JobInv, ObjectsStay
    <2>6. QED
      BY <1>1, <2>3, <2>5
  <1>8. ASSUME NEW t \in Turn, Enter(t)
        PROVE  TransferInv' /\ JobInv'
    <2>1. \A x \in pull' : x.step = "get" /\ x.sent = 0
      BY <1>8 DEF Enter
    <2>2. TransferInv'
      BY <2>1 DEF TransferInv
    <2>3. QED
      BY <1>2, <1>8, <2>2 DEF Enter
  <1>9. ASSUME NEW t \in Turn, StartSync(t) \/ StartFinalSync(t)
        PROVE  TransferInv' /\ JobInv'
    <2>1. pull' = pull /\ \A j \in jobs' : j \in jobs \/ j.step = "find"
      BY <1>9 DEF StartSync, StartFinalSync, FindIn
    <2>2. JobInv'
      BY <2>1 DEF JobInv, ObjectsStay
    <2>3. QED
      BY <1>1, <2>1, <2>2
  <1>t. ASSUME NEW t \in Turn, TurnFails(t)
        PROVE  TransferInv' /\ JobInv'
    <2>1. /\ pull' \subseteq pull /\ UNCHANGED s3
          /\ jobs' \subseteq jobs \cup {[j EXCEPT !.step = "thread"] : j \in Calls(t)}
      BY <1>t DEF TurnFails
    <2>2. ASSUME NEW j \in Calls(t)
          PROVE  /\ [j EXCEPT !.step = "thread"].step = "thread"
                 /\ [j EXCEPT !.step = "thread"].data # None
                 /\ [j EXCEPT !.step = "thread"].path \in Path
      <3>1. j \in Job /\ j.data # None /\ j.path \in Path
        BY <1>0 DEF Calls, JobInv
      <3>2. QED
        BY <3>1 DEF Job
    <2>3. JobInv'
      <3>1. ASSUME NEW k \in jobs'
            PROVE  k \in jobs \/ (k.step = "thread" /\ k.data # None /\ k.path \in Path)
        BY <2>1, <2>2
      <3>2. QED
        BY <2>1, <3>1 DEF JobInv
    <2>4. QED
      BY <1>1, <2>1, <2>3
  <1>10. ASSUME pull' \subseteq pull, jobs' \subseteq jobs
         PROVE  TransferInv' /\ JobInv'
    BY <1>1, <1>2, <1>10
  <1>11. QED
    <2>1. ASSUME NEW t \in Turn, Request(t)
          PROVE  pull' = pull /\ jobs' = jobs
      BY <2>1
      DEF Request, PutAttachment, SaveFileRecord, AttachFails, Respond, CloseRequest
    <2>2. ASSUME NEW t \in Turn, TurnStep(t)
          PROVE  TransferInv' /\ JobInv'
      BY <2>2, <1>8, <1>9, <1>10, <1>t
      DEF TurnStep, Refused, BeginAgent, EndStream, ReleaseLock, Commit
    <2>3. ASSUME SyncStep
          PROVE  TransferInv' /\ JobInv'
      BY <2>3, <1>3, <1>4, <1>5, <1>6, <1>7, <1>10
      DEF SyncStep, Decode, TransferFails, RecordFile, SyncFails
    <2>4. QED
      BY <2>1, <2>2, <2>3, <1>10 DEF Next, vars, AgentWrites, LoseContainer, Die

LEMMA FilesInvariant == Spec => []FilesInv
  <1>1. FilesInv /\ [Next]_vars => FilesInv'
    <2> SUFFICES ASSUME FilesInv, [Next]_vars
                 PROVE  FilesInv'
      OBVIOUS
    <2>1. FilesTypeOK'
      BY FilesTypeRequest, FilesTypeTurn, FilesTypePull, FilesTypePush, FilesTypeRest
      DEF FilesInv, Next, SyncStep
    <2>2. QED
      BY <2>1, ListedStep, LocalStep DEF FilesInv
  <1>2. QED
    BY <1>1, FilesInit, PTL DEF Spec

\* The variables of requests, turns and transfers keep their types.
THEOREM FilesTypeCorrect == Spec => []FilesTypeOK
  <1>1. FilesInv => FilesTypeOK
    BY DEF FilesInv
  <1>2. QED
    BY <1>1, FilesInvariant, PTL

\* A file that is listed, or about to be, has its object: the code stores the
\* object before it writes the row, and nothing takes an object away.
THEOREM ListedFilesCanBeRead == Spec => []ListedFileExists
  <1>1. FilesInv => ListedFileExists
    BY DEF FilesInv
  <1>2. QED
    BY <1>1, FilesInvariant, PTL

-----------------------------------------------------------------------------
(* One turn works, with one transfer for a row *)

HoldInv == \A t, u \in Turn : Holds(t) /\ Holds(u) => t = u
PullInv ==
    /\ \A x \in pull : /\ at[x.turn] = "pull" /\ x.row \in rows
                       /\ x.step = "get" => x.data = None
    /\ \A x, y \in pull : x.row = y.row => x = y
    /\ \A j \in jobs : j.step \in {"find", "read"} => j.data = None

\* What is on its way belongs to the file, and the transfer file holds the
\* pieces that were sent.
MovesInv ==
    \A p \in Unshared :
        /\ Own(p, box[p]) /\ Own(p, s3[p])
        /\ \A x \in pull : x.row.path = p =>
              /\ Own(p, x.data)
              /\ x.step = "decode" => x.sent = Chunks
              /\ x.sent > 0 => /\ Len(tmp[NameOf[p]]) = x.sent
                               /\ \A i \in 1..x.sent : tmp[NameOf[p]][i] = x.data
        /\ \A j \in jobs : j.path = p => Own(p, j.data)

OwnInv == FilesInv /\ HoldInv /\ PullInv /\ MovesInv

-----------------------------------------------------------------------------
(* What is on record is not newer than what is in S3 or on its way there *)

HasRow(p) == \E r \in rows : r.path = p

\* All there is of a file, and on its way.
Contents(p) ==
    {box[p], s3[p]} \cup {x.data : x \in {y \in pull : y.row.path = p}}
                    \cup {j.data : j \in {k \in jobs : k.path = p}}

\* No file that is on record, or about to be, is newer.
NotOlder(p, d) == d.rev >= saved[p] /\ \A t \in Turn : d.rev >= pushed[t][p]

\* Rows of requests and of turns keep apart: a request attaches before it
\* responds, and each row once.
RowsInv ==
    /\ \A t \in Turn : /\ attaching[t] # None => at[t] = "request" /\ attaching[t] \in Uploads[t]
                       /\ \A r \in attached[t] : /\ r.by = t /\ r.kind = "upload"
                                                 /\ r.path \in Uploads[t]
                       /\ \A r \in drafts[t] : r.kind = "sync"
    /\ \A r \in rows : r.kind = "upload" => at[r.by] # "request" /\ attached[r.by] = {}

\* What is on record has a row; what a front end attaches has no contents in
\* the container without one.
RecordInv ==
    \A p \in Path :
        /\ saved[p] > 0 => HasRow(p)
        /\ \A t \in Turn : pushed[t][p] > 0 =>
              at[t] = "commit" /\ (HasRow(p) \/ \E r \in drafts[t] : r.path = p)
        /\ (\E t \in Turn : p \in Uploads[t]) /\ ~HasRow(p) =>
              box[p] = None /\ \A j \in jobs : j.path = p => j.data = None

\* Nothing is newer than the newest contents.
ClockInv ==
    \A p \in Unshared :
        /\ saved[p] <= clock /\ \A t \in Turn : pushed[t][p] <= clock
        /\ \A d \in Contents(p) : d # None => d.rev <= clock

\* As long as no sync has outlived the wait for it, a job belongs to the turn
\* that works.
JobsInv == ~late =>
    \A j \in jobs : /\ j.step # "thread"
                    /\ j.task = 0 => at[j.turn] = "push"
                    /\ j.task # 0 => at[j.turn] \in {"agent", "wait"}

\* The heart of the matter: nothing that could still overwrite a file is older
\* than what is on record of it.
KeptInv == ~late =>
    \A p \in Unshared :
        /\ saved[p] > 0 \/ (\E t \in Turn : pushed[t][p] > 0) => s3[p] # None
        /\ \A d \in Contents(p) : d # None => NotOlder(p, d)

\* The file is stored, or the final sync has still to find, read or store it.
Pushed(p) ==
    /\ box[p] # None =>
          \/ s3[p] # None /\ s3[p].rev >= box[p].rev
          \/ \E j \in jobs : j.step = "find" \/ (j.path = p /\ j.step \in {"read", "put"})
    /\ \A j \in jobs : j.path = p /\ j.step = "put" => j.data = box[p]

\* A final sync without a failure has stored every file, or still will.
PushInv == ~late /\ clean /\ (\E t \in Turn : at[t] = "push") =>
    \A p \in Unshared : Pushed(p)

\* The file has come, or is still to come.
Seen(p) ==
    promised[p] > 0 =>
        \/ box[p] # None /\ box[p].rev >= promised[p]
        \/ \E x \in pull : x.row.path = p

\* Transfers without a failure have brought every file, or still will.
SeenInv ==
    /\ \A p \in Path : promised[p] <= saved[p]
    /\ ~late /\ clean /\ (\E t \in Turn : at[t] = "pull") => \A p \in Unshared : Seen(p)

WorkInv ==
    /\ OwnInv /\ RowsInv /\ RecordInv /\ ClockInv /\ JobsInv
    /\ KeptInv /\ PushInv /\ SeenInv

-----------------------------------------------------------------------------
(* Records *)

Loaded(x) == [x EXCEPT !.step = "send", !.data = s3[x.row.path]]
Sent(x) == [x EXCEPT !.sent = @ + 1,
              !.step = IF x.sent + 1 = Chunks THEN "decode" ELSE "send"]
Found(j, p) == [j EXCEPT !.path = p, !.step = "read"]
Taken(j) == [j EXCEPT !.step = "put", !.data = box[j.path]]
Stored(j) == [j EXCEPT !.step = "record"]
Left(j) == [j EXCEPT !.step = "thread"]

LEMMA TransferRecords ==
    ASSUME NEW x \in Transfer
    PROVE  /\ Loaded(x).turn = x.turn /\ Loaded(x).row = x.row /\ Loaded(x).sent = x.sent
           /\ Loaded(x).step = "send" /\ Loaded(x).data = s3[x.row.path]
           /\ Sent(x).turn = x.turn /\ Sent(x).row = x.row /\ Sent(x).data = x.data
           /\ Sent(x).sent = x.sent + 1
           /\ Sent(x).step = IF x.sent + 1 = Chunks THEN "decode" ELSE "send"
           /\ x.turn \in Turn /\ x.row.path \in Path /\ x.row.by \in Turn /\ x.sent \in Nat
BY FilesAssumption DEF Transfer, Row, Loaded, Sent

LEMMA JobRecords ==
    ASSUME NEW j \in Job
    PROVE  /\ \A p \in Path : /\ Found(j, p).turn = j.turn /\ Found(j, p).task = j.task
                              /\ Found(j, p).step = "read" /\ Found(j, p).path = p
                              /\ Found(j, p).data = j.data
           /\ Taken(j).turn = j.turn /\ Taken(j).task = j.task
           /\ Taken(j).step = "put" /\ Taken(j).path = j.path /\ Taken(j).data = box[j.path]
           /\ Stored(j).turn = j.turn /\ Stored(j).task = j.task
           /\ Stored(j).step = "record" /\ Stored(j).path = j.path /\ Stored(j).data = j.data
           /\ Left(j).turn = j.turn /\ Left(j).task = j.task
           /\ Left(j).step = "thread" /\ Left(j).path = j.path /\ Left(j).data = j.data
           /\ j.turn \in Turn
BY DEF Job, Found, Taken, Stored, Left

LEMMA InitOwn == Init => OwnInv
<1>. SUFFICES ASSUME Init PROVE OwnInv
  OBVIOUS
<1>1. FilesInv
  BY FilesInit
<1>2. HoldInv /\ PullInv /\ MovesInv
  BY DEF Init, HoldInv, Holds, PullInv, MovesInv, Own, Unshared
<1>. QED  BY <1>1, <1>2 DEF OwnInv

-----------------------------------------------------------------------------
(* One turn works *)

\* Only Enter makes a turn work, and only one.
LEMMA HoldStep ==
    ASSUME FilesInv, HoldInv, [Next]_vars
    PROVE  HoldInv'
<1>. DEFINE Same == \A t \in Turn : Holds(t)' => Holds(t)
<1>0. at \in [Turn -> {"request", "lock", "pull", "agent", "wait", "push", "commit", "over"}]
  BY DEF FilesInv, FilesTypeOK
<1>1. ASSUME Same  PROVE HoldInv'
  BY <1>1 DEF HoldInv
<1>2. ASSUME NEW t \in Turn, Enter(t)  PROVE HoldInv'
  BY <1>0, <1>2 DEF Enter, HoldInv, Holds, GoTo
<1>3. CASE at' = at
  <2>1. Same
    BY <1>3 DEF Holds
  <2>. QED  BY <1>1, <2>1
<1>4. ASSUME NEW t \in Turn, Request(t)  PROVE HoldInv'
  <2>1. Same
    BY <1>0, <1>4 DEF Request, PutAttachment, SaveFileRecord, AttachFails, Respond, CloseRequest,
                      Holds, GoTo
  <2>. QED  BY <1>1, <2>1
<1>5. ASSUME NEW t \in Turn, TurnStep(t)  PROVE HoldInv'
  <2>1. CASE Enter(t)
    BY <1>2, <2>1
  <2>2. CASE ~Enter(t)
    <3>1. Same
      BY <1>0, <1>5, <2>2
      DEF TurnStep, Refused, BeginAgent, StartSync, EndStream, StartFinalSync, ReleaseLock,
          Commit, TurnFails, Holds, GoTo
    <3>. QED  BY <1>1, <3>1
  <2>. QED  BY <2>1, <2>2
<1>6. CASE SyncStep
  <2>1. at' = at
    BY <1>6 DEF SyncStep, Download, SendChunk, Decode, TransferFails, FindFiles, ReadFile,
                PutFile, RecordFile, SyncFails
  <2>. QED  BY <1>3, <2>1
<1>7. CASE Die
  <2>1. Same
    BY <1>0, <1>7 DEF Die, Holds
  <2>. QED  BY <1>1, <2>1
<1>. QED  BY <1>3, <1>4, <1>5, <1>6, <1>7 DEF Next, AgentWrites, LoseContainer, vars

\* Rows are never taken away, so a shared file stays shared.
LEMMA RowsGrow ==
    ASSUME [Next]_vars
    PROVE  rows \subseteq rows'
BY DEF Next, vars, storeVars, Request, PutAttachment, SaveFileRecord, AttachFails, Respond,
       CloseRequest, TurnStep, Enter, Refused, BeginAgent, StartSync, EndStream, StartFinalSync,
       ReleaseLock, Commit, TurnFails, SyncStep, Download, SendChunk, Decode, TransferFails,
       FindFiles, ReadFile, PutFile, RecordFile, SyncFails, AgentWrites, LoseContainer, Die

LEMMA SharedStay ==
    ASSUME rows \subseteq rows'
    PROVE  Unshared' \subseteq Unshared
BY DEF Unshared

-----------------------------------------------------------------------------
(* One transfer for a row *)

LEMMA PullStep ==
    ASSUME FilesInv, HoldInv, PullInv, [Next]_vars
    PROVE  PullInv'
<1>0. /\ at \in [Turn -> {"request", "lock", "pull", "agent", "wait", "push", "commit", "over"}]
      /\ pull \subseteq Transfer /\ jobs \subseteq Job /\ rows \subseteq rows'
  BY RowsGrow DEF FilesInv, FilesTypeOK
<1>. DEFINE Pulled == /\ \A x \in pull' : /\ at'[x.turn] = "pull" /\ x.row \in rows'
                                          /\ x.step = "get" => x.data = None
                      /\ \A x, y \in pull' : x.row = y.row => x = y
            Fresh == \A j \in jobs' : j.step \in {"find", "read"} => j.data = None
<1>1. ASSUME pull' \subseteq pull, \A x \in pull' : at'[x.turn] = at[x.turn]
      PROVE  Pulled
  BY <1>0, <1>1 DEF PullInv
<1>2. ASSUME jobs' \subseteq jobs  PROVE Fresh
  BY <1>2 DEF PullInv
<1>3. ASSUME NEW x \in pull, NEW y, pull' = Replace(pull, x, y), at' = at,
             y.turn = x.turn, y.row = x.row, y.step # "get"
      PROVE  Pulled
  BY <1>0, <1>3 DEF PullInv, Replace
<1>4. ASSUME NEW t \in Turn, Request(t)  PROVE PullInv'
  <2>1. pull' = pull /\ jobs' = jobs /\ \A u \in Turn : at[u] = "pull" => at'[u] = "pull"
    BY <1>0, <1>4 DEF Request, PutAttachment, SaveFileRecord, AttachFails, Respond,
                      CloseRequest, syncVars, GoTo
  <2>. QED  BY <1>0, <2>1 DEF PullInv, Transfer
<1>5. ASSUME NEW t \in Turn, TurnStep(t)  PROVE PullInv'
  <2>1. CASE Enter(t)
    <3>1. pull = {}
      BY <1>0, <2>1 DEF Enter, Holds, PullInv, Transfer
    <3>2. at'[t] = "pull" /\ jobs' = jobs /\ rows' = rows
          /\ pull' = {[turn |-> t, row |-> r, step |-> "get", data |-> None, sent |-> 0] : r \in rows}
      BY <1>0, <2>1 DEF Enter, GoTo, storeVars
    <3>. QED  BY <3>2, <1>2 DEF PullInv
  <2>2. CASE TurnFails(t)
    <3>1. pull' = {x \in pull : x.turn # t} /\ at' = [at EXCEPT ![t] = "over"]
          /\ jobs' = {j \in jobs : j.turn = t => j.task # 0} \cup {Left(j) : j \in Calls(t)}
      BY <2>2 DEF TurnFails, GoTo, Left
    <3>2. Pulled
      BY <1>0, <1>1, <3>1 DEF Transfer
    <3>3. \A j \in Calls(t) : Left(j).step = "thread"
      BY <1>0, JobRecords DEF Calls
    <3>4. Fresh
      BY <3>1, <3>3 DEF PullInv
    <3>. QED  BY <3>2, <3>4 DEF PullInv
  <2>3. CASE StartSync(t) \/ StartFinalSync(t)
    <3>1. pull' = pull /\ \A u \in Turn : at[u] = "pull" => at'[u] = "pull"
      BY <1>0, <2>3 DEF StartSync, StartFinalSync, GoTo
    <3>2. \A j \in jobs' : j \in jobs \/ j.data = None
      BY <2>3 DEF StartSync, StartFinalSync, FindIn
    <3>. QED  BY <1>0, <3>1, <3>2 DEF PullInv, Transfer
  <2>4. CASE Refused(t) \/ EndStream(t) \/ ReleaseLock(t) \/ Commit(t)
    <3>1. pull' = pull /\ jobs' = jobs /\ \A u \in Turn : at[u] = "pull" => at'[u] = "pull"
      BY <1>0, <2>4 DEF Refused, EndStream, ReleaseLock, Commit, syncVars, GoTo
    <3>. QED  BY <1>0, <3>1 DEF PullInv, Transfer
  <2>5. CASE BeginAgent(t)
    <3>1. pull' = {} /\ jobs' = jobs
      BY <2>5 DEF BeginAgent, syncVars
    <3>. QED  BY <3>1 DEF PullInv
  <2>. QED  BY <1>5, <2>1, <2>2, <2>3, <2>4, <2>5 DEF TurnStep
<1>6. ASSUME NEW x \in pull, Download(x) \/ SendChunk(x) \/ Decode(x) \/ TransferFails(x)
      PROVE  PullInv'
  <2>1. at' = at /\ jobs' = jobs
    BY <1>6 DEF Download, SendChunk, Decode, TransferFails
  <2>2. CASE Decode(x) \/ TransferFails(x)
    <3>1. pull' \subseteq pull
      BY <2>2 DEF Decode, TransferFails
    <3>. QED  BY <1>1, <1>2, <2>1, <3>1 DEF PullInv
  <2>3. CASE Download(x)
    <3>1. pull' = Replace(pull, x, Loaded(x))
      BY <2>3 DEF Download, Loaded
    <3>2. Loaded(x).turn = x.turn /\ Loaded(x).row = x.row /\ Loaded(x).step # "get"
      BY <1>0, TransferRecords
    <3>3. Pulled
      BY <1>3, <2>1, <3>1, <3>2
    <3>. QED  BY <1>2, <2>1, <3>3 DEF PullInv
  <2>4. CASE SendChunk(x)
    <3>1. pull' = Replace(pull, x, Sent(x))
      BY <2>4 DEF SendChunk, Sent
    <3>2. Sent(x).turn = x.turn /\ Sent(x).row = x.row /\ Sent(x).step # "get"
      BY <1>0, TransferRecords
    <3>3. Pulled
      BY <1>3, <2>1, <3>1, <3>2
    <3>. QED  BY <1>2, <2>1, <3>3 DEF PullInv
  <2>. QED  BY <1>6, <2>2, <2>3, <2>4
<1>7. ASSUME NEW j \in jobs,
             FindFiles(j) \/ ReadFile(j) \/ PutFile(j) \/ RecordFile(j) \/ SyncFails(j)
      PROVE  PullInv'
  <2>1. at' = at /\ pull' = pull
    BY <1>7 DEF FindFiles, ReadFile, PutFile, RecordFile, SyncFails
  <2>2. Fresh
    <3>0. j \in Job /\ (j.step \in {"find", "read"} => j.data = None)
      BY <1>0 DEF PullInv
    <3>1. CASE FindFiles(j)
      <4>1. jobs' = (jobs \ {j}) \cup {Found(j, p) : p \in {q \in Path : box[q] # None}}
            /\ j.data = None
        BY <3>0, <3>1 DEF FindFiles, Found
      <4>2. \A p \in Path : Found(j, p).data = None
        BY <3>0, <4>1, JobRecords
      <4>. QED  BY <4>1, <4>2 DEF PullInv
    <3>2. CASE ReadFile(j)
      <4>1. jobs' = Replace(jobs, j, Taken(j))
        BY <3>2 DEF ReadFile, Taken
      <4>2. Taken(j).step = "put"
        BY <3>0, JobRecords
      <4>. QED  BY <4>1, <4>2 DEF PullInv, Replace
    <3>3. CASE PutFile(j)
      <4>1. jobs' = jobs \ {j} \/ jobs' = Replace(jobs, j, Stored(j))
        BY <3>3 DEF PutFile, Stored
      <4>2. Stored(j).step = "record"
        BY <3>0, JobRecords
      <4>. QED  BY <4>1, <4>2 DEF PullInv, Replace
    <3>4. CASE RecordFile(j) \/ SyncFails(j)
      BY <1>2, <3>4 DEF RecordFile, SyncFails
    <3>. QED  BY <1>7, <3>1, <3>2, <3>3, <3>4
  <2>3. Pulled
    BY <1>1, <2>1
  <2>. QED  BY <2>2, <2>3 DEF PullInv
<1>8. CASE LoseContainer \/ Die \/ (\E p \in Path : AgentWrites(p)) \/ UNCHANGED vars
  <2>1. jobs' \subseteq jobs /\ pull' \subseteq pull /\ (pull' = {} \/ at' = at)
    BY <1>8 DEF LoseContainer, Die, AgentWrites, syncVars, vars
  <2>. QED  BY <1>1, <1>2, <2>1 DEF PullInv
<1>. QED  BY <1>4, <1>5, <1>6, <1>7, <1>8 DEF Next, SyncStep

-----------------------------------------------------------------------------
(* What is on its way belongs to its file *)

\* Two transfers of a file with a name of its own and one row are one.
LEMMA OneTransfer ==
    ASSUME FilesInv, PullInv, NEW p \in Unshared, NEW x \in pull, NEW y \in pull,
           TmpOf(x) = NameOf[p], y.row.path = p
    PROVE  x = y /\ x.row.path = p
<1>1. x.row.path \in Path /\ x.row \in rows /\ y.row \in rows
  BY TransferRecords DEF FilesInv, FilesTypeOK, PullInv
<1>2. x.row.path = p
  BY <1>1 DEF Unshared, TmpOf
<1>3. x.row = y.row
  BY <1>1, <1>2 DEF Unshared
<1>. QED  BY <1>2, <1>3 DEF PullInv

LEMMA AppendFacts ==
    ASSUME NEW S, NEW s \in Seq(S), NEW d \in S
    PROVE  /\ Len(Append(s, d)) = Len(s) + 1
           /\ \A i \in 1..Len(s) : Append(s, d)[i] = s[i]
           /\ Append(s, d)[Len(s) + 1] = d
OBVIOUS

LEMMA ChunkStep ==
    ASSUME OwnInv, NEW x \in pull, SendChunk(x)
    PROVE  MovesInv'
<1>0. /\ x \in Transfer /\ pull \subseteq Transfer /\ x.row.path \in Path /\ x.sent \in Nat
      /\ tmp \in [Name -> Seq(Data \cup {Mixed})] /\ TmpOf(x) \in Name
  BY TransferRecords DEF OwnInv, FilesInv, FilesTypeOK, TmpOf, Name
<1>1. /\ tmp' = [tmp EXCEPT ![TmpOf(x)] = Append(IF x.sent = 0 THEN <<>> ELSE @, x.data)]
      /\ pull' = Replace(pull, x, Sent(x)) /\ x.step = "send"
      /\ UNCHANGED <<box, s3, jobs, rows>>
  BY DEF SendChunk, Sent, storeVars
<1>2. /\ Sent(x).row = x.row /\ Sent(x).data = x.data /\ Sent(x).sent = x.sent + 1
      /\ Sent(x).step = IF x.sent + 1 = Chunks THEN "decode" ELSE "send"
  BY <1>0, TransferRecords
<1>3. x.data \in Data \cup {Mixed} /\ x.sent < Chunks
  BY <1>0, <1>1 DEF OwnInv, FilesInv, TransferInv, Transfer
<1>4. Unshared' = Unshared
  BY <1>1 DEF Unshared
<1>. SUFFICES ASSUME NEW p \in Unshared, NEW y \in pull', y.row.path = p
              PROVE  /\ Own(p, y.data)
                     /\ y.step = "decode" => y.sent = Chunks
                     /\ y.sent > 0 => /\ Len(tmp'[NameOf[p]]) = y.sent
                                      /\ \A i \in 1..y.sent : tmp'[NameOf[p]][i] = y.data
  BY <1>1, <1>4 DEF MovesInv, OwnInv, Own
<1>5. p \in Path /\ NameOf[p] \in Name
  BY DEF Unshared, Name
<1>6. CASE y = Sent(x)
  <2>1. x.row.path = p /\ TmpOf(x) = NameOf[p]
    BY <1>2, <1>6 DEF TmpOf
  <2>2. Own(p, x.data)
        /\ (x.sent > 0 => /\ Len(tmp[NameOf[p]]) = x.sent
                          /\ \A i \in 1..x.sent : tmp[NameOf[p]][i] = x.data)
    BY <2>1 DEF OwnInv, MovesInv
  <2>. DEFINE old == IF x.sent = 0 THEN <<>> ELSE tmp[NameOf[p]]
  <2>3. old \in Seq(Data \cup {Mixed}) /\ Len(old) = x.sent
        /\ \A i \in 1..x.sent : old[i] = x.data
    BY <1>0, <1>5, <2>2
  <2>4. tmp'[NameOf[p]] = Append(old, x.data)
    BY <1>0, <1>1, <1>5, <2>1
  <2>. HIDE DEF old
  <2>5. Len(Append(old, x.data)) = x.sent + 1
        /\ \A i \in 1..(x.sent + 1) : Append(old, x.data)[i] = x.data
    <3>1. /\ Len(Append(old, x.data)) = x.sent + 1
          /\ \A i \in 1..x.sent : Append(old, x.data)[i] = old[i]
          /\ Append(old, x.data)[x.sent + 1] = x.data
      BY <1>3, <2>3, AppendFacts
    <3>. QED  BY <1>0, <2>3, <3>1
  <2>. QED  BY <1>2, <1>6, <2>2, <2>4, <2>5
<1>7. CASE y \in pull /\ y # x
  <2>1. TmpOf(x) # NameOf[p]
    BY <1>7, OneTransfer DEF OwnInv
  <2>2. tmp'[NameOf[p]] = tmp[NameOf[p]]
    BY <1>0, <1>1, <1>5, <2>1
  <2>. QED  BY <1>7, <2>2 DEF OwnInv, MovesInv
<1>. QED  BY <1>1, <1>6, <1>7 DEF Replace

LEMMA DecodeStep ==
    ASSUME OwnInv, NEW x \in pull, Decode(x)
    PROVE  MovesInv' /\ \A p \in Unshared : x.row.path = p => box'[p] = x.data
<1>0. /\ x \in Transfer /\ pull \subseteq Transfer /\ x.row.path \in Path
      /\ tmp \in [Name -> Seq(Data \cup {Mixed})] /\ TmpOf(x) \in Name
      /\ box \in [Path -> Data \cup {None, Mixed}]
  BY TransferRecords DEF OwnInv, FilesInv, FilesTypeOK, TmpOf, Name
<1>1. /\ box' = [box EXCEPT ![x.row.path] = Decoded(tmp[TmpOf(x)])]
      /\ tmp' = [tmp EXCEPT ![TmpOf(x)] = <<>>] /\ x.step = "decode"
      /\ pull' = pull \ {x} /\ UNCHANGED <<s3, jobs, rows>>
  BY DEF Decode, storeVars
<1>2. Unshared' = Unshared
  BY <1>1 DEF Unshared
<1>3. ASSUME NEW p \in Unshared, x.row.path = p
      PROVE  Own(p, x.data) /\ box'[p] = x.data
  <2>1. /\ Own(p, x.data) /\ x.sent = Chunks
        /\ x.sent > 0 => /\ Len(tmp[NameOf[p]]) = x.sent
                         /\ \A i \in 1..x.sent : tmp[NameOf[p]][i] = x.data
    BY <1>1, <1>3 DEF OwnInv, MovesInv
  <2>2. Decoded(tmp[NameOf[p]]) = x.data
    BY <2>1, FilesAssumption DEF Decoded
  <2>. QED  BY <1>0, <1>1, <1>3, <2>1, <2>2 DEF TmpOf
<1>4. ASSUME NEW p \in Unshared, x.row.path # p
      PROVE  box'[p] = box[p]
  BY <1>0, <1>1, <1>4 DEF Unshared
<1>5. ASSUME NEW p \in Unshared, NEW y \in pull', y.row.path = p
      PROVE  tmp'[NameOf[p]] = tmp[NameOf[p]]
  <2>1. TmpOf(x) # NameOf[p]
    BY <1>1, <1>5, OneTransfer DEF OwnInv
  <2>. QED  BY <1>0, <1>1, <2>1 DEF Unshared, Name
<1>6. MovesInv'
  <2>. SUFFICES ASSUME NEW p \in Unshared
                PROVE  /\ Own(p, box'[p]) /\ Own(p, s3'[p])
                       /\ \A y \in pull' : y.row.path = p =>
                            /\ Own(p, y.data)
                            /\ y.step = "decode" => y.sent = Chunks
                            /\ y.sent > 0 => /\ Len(tmp'[NameOf[p]]) = y.sent
                                             /\ \A i \in 1..y.sent : tmp'[NameOf[p]][i] = y.data
                       /\ \A j \in jobs' : j.path = p => Own(p, j.data)
    BY <1>2 DEF MovesInv, Own
  <2>1. Own(p, box'[p]) /\ Own(p, s3'[p])
    BY <1>1, <1>3, <1>4 DEF OwnInv, MovesInv
  <2>2. \A y \in pull' : y \in pull
    BY <1>1
  <2>. QED  BY <1>1, <1>5, <2>1, <2>2 DEF OwnInv, MovesInv
<1>. QED  BY <1>3, <1>6

LEMMA MovesStep ==
    ASSUME OwnInv, [Next]_vars
    PROVE  MovesInv'
<1>0. /\ pull \subseteq Transfer /\ jobs \subseteq Job /\ Unshared' \subseteq Unshared
      /\ s3 \in [Path -> Data \cup {None, Mixed}] /\ box \in [Path -> Data \cup {None, Mixed}]
      /\ clock \in 0..MaxRev /\ Unshared \subseteq Path
  BY RowsGrow, SharedStay DEF OwnInv, FilesInv, FilesTypeOK, Unshared
\* Stores and jobs one by one; what is pulled only becomes less.
<1>1. ASSUME \A p \in Unshared : Own(p, box'[p]) /\ Own(p, s3'[p]),
             \A j \in jobs' : \A p \in Unshared : j.path = p => Own(p, j.data),
             pull' = {} \/ (pull' \subseteq pull /\ tmp' = tmp)
      PROVE  MovesInv'
  BY <1>0, <1>1 DEF OwnInv, MovesInv, Own
<1>2. /\ \A p \in Unshared : Own(p, box[p]) /\ Own(p, s3[p])
      /\ \A j \in jobs : \A p \in Unshared : j.path = p => Own(p, j.data)
      /\ \A x \in pull : \A p \in Unshared : x.row.path = p => Own(p, x.data)
  BY DEF OwnInv, MovesInv
<1>3. ASSUME NEW p \in Path, clock < MaxRev, NEW d, d = [path |-> p, rev |-> clock + 1]
      PROVE  Own(p, d)
  <2>1. clock + 1 \in 1..MaxRev
    BY <1>0, <1>3, FilesAssumption
  <2>. QED  BY <1>3, <2>1 DEF Own, Data
<1>4. ASSUME NEW t \in Turn, Request(t)  PROVE MovesInv'
  <2>1. pull' = pull /\ jobs' = jobs /\ tmp' = tmp /\ box' = box
    BY <1>4 DEF Request, PutAttachment, SaveFileRecord, AttachFails, Respond,
                CloseRequest, syncVars, boxVars
  <2>2. CASE \E p \in Path : PutAttachment(t, p)
    <3>1. PICK p \in Path : PutAttachment(t, p)
      BY <2>2
    <3>2. s3' = [s3 EXCEPT ![p] = [path |-> p, rev |-> clock + 1]] /\ clock < MaxRev
      BY <3>1 DEF PutAttachment
    <3>3. \A q \in Unshared : Own(q, s3'[q])
      BY <1>0, <1>2, <1>3, <3>2
    <3>. QED  BY <1>1, <1>2, <2>1, <3>3
  <2>3. CASE SaveFileRecord(t) \/ AttachFails(t) \/ Respond(t) \/ CloseRequest(t)
    <3>1. s3' = s3
      BY <2>3 DEF SaveFileRecord, AttachFails, Respond, CloseRequest, storeVars
    <3>. QED  BY <1>1, <1>2, <2>1, <3>1
  <2>. QED  BY <1>4, <2>2, <2>3 DEF Request
<1>5. ASSUME NEW t \in Turn, TurnStep(t)  PROVE MovesInv'
  <2>0. box' = box /\ s3' = s3 /\ tmp' = tmp
    BY <1>5 DEF TurnStep, Enter, Refused, BeginAgent, StartSync, EndStream, StartFinalSync,
                ReleaseLock, Commit, TurnFails, boxVars, storeVars
  <2>1. CASE Enter(t)
    <3>1. jobs' = jobs
          /\ pull' = {[turn |-> t, row |-> r, step |-> "get", data |-> None, sent |-> 0] : r \in rows}
      BY <2>1 DEF Enter
    <3>2. \A x \in pull' : x.data = None /\ x.step = "get" /\ x.sent = 0
      BY <3>1
    <3>. QED  BY <1>0, <1>2, <2>0, <3>1, <3>2 DEF MovesInv, Own
  <2>2. CASE TurnFails(t)
    <3>1. pull' = {x \in pull : x.turn # t}
          /\ jobs' = {j \in jobs : j.turn = t => j.task # 0} \cup {Left(j) : j \in Calls(t)}
      BY <2>2 DEF TurnFails, Left
    <3>2. \A j \in Calls(t) : j \in jobs /\ Left(j).path = j.path /\ Left(j).data = j.data
      BY <1>0, JobRecords DEF Calls
    <3>3. \A k \in jobs' : \A p \in Unshared : k.path = p => Own(p, k.data)
      BY <1>2, <3>1, <3>2
    <3>. QED  BY <1>1, <1>2, <2>0, <3>1, <3>3
  <2>3. CASE StartSync(t) \/ StartFinalSync(t)
    <3>1. pull' = pull /\ \A j \in jobs' : j \in jobs \/ j.data = None
      BY <2>3 DEF StartSync, StartFinalSync, FindIn
    <3>. QED  BY <1>1, <1>2, <2>0, <3>1 DEF Own
  <2>4. CASE Refused(t) \/ BeginAgent(t) \/ EndStream(t) \/ ReleaseLock(t) \/ Commit(t)
    <3>1. pull' = pull /\ jobs' = jobs
      BY <2>4 DEF Refused, BeginAgent, EndStream, ReleaseLock, Commit, syncVars
    <3>. QED  BY <1>1, <1>2, <2>0, <3>1
  <2>. QED  BY <1>5, <2>1, <2>2, <2>3, <2>4 DEF TurnStep
<1>6. ASSUME NEW x \in pull, Download(x) \/ SendChunk(x) \/ Decode(x) \/ TransferFails(x)
      PROVE  MovesInv'
  <2>1. CASE Download(x)
    <3>1. pull' = Replace(pull, x, Loaded(x)) /\ x.step = "get"
          /\ UNCHANGED <<box, s3, tmp, jobs>>
      BY <2>1 DEF Download, Loaded, boxVars, storeVars
    <3>2. Loaded(x).row = x.row /\ Loaded(x).step = "send" /\ Loaded(x).sent = 0
          /\ Loaded(x).data = s3[x.row.path]
      BY <1>0, <3>1, TransferRecords DEF OwnInv, FilesInv, TransferInv
    <3>3. \A y \in pull' : y \in pull \/ y = Loaded(x)
      BY <3>1 DEF Replace
    <3>. QED  BY <1>0, <1>2, <3>1, <3>2, <3>3 DEF OwnInv, MovesInv, Own
  <2>2. CASE SendChunk(x)
    BY <2>2, ChunkStep
  <2>3. CASE Decode(x)
    BY <2>3, DecodeStep
  <2>4. CASE TransferFails(x)
    <3>1. pull' = pull \ {x} /\ UNCHANGED <<box, s3, jobs>>
          /\ (tmp' = tmp \/ tmp' = [tmp EXCEPT ![TmpOf(x)] = <<>>])
      BY <2>4 DEF TransferFails, storeVars
    <3>2. CASE tmp' = tmp
      BY <1>1, <1>2, <3>1, <3>2
    <3>3. CASE tmp' = [tmp EXCEPT ![TmpOf(x)] = <<>>]
      <4>1. ASSUME NEW p \in Unshared, NEW y \in pull', y.row.path = p
            PROVE  tmp'[NameOf[p]] = tmp[NameOf[p]]
        <5>1. TmpOf(x) # NameOf[p]
          BY <3>1, <4>1, OneTransfer DEF OwnInv
        <5>2. tmp \in [Name -> Seq(Data \cup {Mixed})]
          BY DEF OwnInv, FilesInv, FilesTypeOK
        <5>. QED  BY <1>0, <3>3, <5>1, <5>2 DEF Name
      <4>2. \A y \in pull' : y \in pull
        BY <3>1
      <4>. QED  BY <1>0, <3>1, <4>1, <4>2 DEF OwnInv, MovesInv, Own
    <3>. QED  BY <3>1, <3>2, <3>3
  <2>. QED  BY <1>6, <2>1, <2>2, <2>3, <2>4
<1>7. ASSUME NEW j \in jobs,
             FindFiles(j) \/ ReadFile(j) \/ PutFile(j) \/ RecordFile(j) \/ SyncFails(j)
      PROVE  MovesInv'
  <2>0. j \in Job /\ pull' = pull /\ tmp' = tmp /\ box' = box
    BY <1>0, <1>7 DEF FindFiles, ReadFile, PutFile, RecordFile, SyncFails, boxVars
  <2>1. CASE FindFiles(j)
    <3>1. jobs' = (jobs \ {j}) \cup {Found(j, p) : p \in {q \in Path : box[q] # None}}
          /\ j.data = None /\ s3' = s3
      BY <2>1 DEF FindFiles, Found, storeVars, OwnInv, PullInv
    <3>2. \A p \in Path : Found(j, p).data = None
      BY <2>0, <3>1, JobRecords
    <3>3. \A k \in jobs' : k \in jobs \/ k.data = None
      BY <3>1, <3>2
    <3>. QED  BY <1>1, <1>2, <2>0, <3>1, <3>3 DEF Own
  <2>2. CASE ReadFile(j)
    <3>1. jobs' = Replace(jobs, j, Taken(j)) /\ s3' = s3
      BY <2>2 DEF ReadFile, Taken, storeVars
    <3>2. Taken(j).data = box[j.path] /\ Taken(j).path = j.path
      BY <2>0, JobRecords
    <3>3. \A k \in jobs' : \A p \in Unshared : k.path = p => Own(p, k.data)
      BY <1>2, <3>1, <3>2 DEF Replace
    <3>. QED  BY <1>1, <1>2, <2>0, <3>1, <3>3
  <2>3. CASE PutFile(j)
    <3>1. /\ s3' = [s3 EXCEPT ![j.path] = j.data]
          /\ jobs' = jobs \ {j} \/ jobs' = Replace(jobs, j, Stored(j))
      BY <2>3 DEF PutFile, Stored
    <3>2. Stored(j).data = j.data /\ Stored(j).path = j.path
      BY <2>0, JobRecords
    <3>3. \A k \in jobs' : \A p \in Unshared : k.path = p => Own(p, k.data)
      BY <1>2, <3>1, <3>2 DEF Replace
    <3>4. \A p \in Unshared : Own(p, s3'[p])
      BY <1>0, <1>2, <3>1
    <3>. QED  BY <1>1, <1>2, <2>0, <3>3, <3>4
  <2>4. CASE RecordFile(j) \/ SyncFails(j)
    <3>1. jobs' = jobs \ {j} /\ s3' = s3
      BY <2>4 DEF RecordFile, SyncFails, storeVars
    <3>. QED  BY <1>1, <1>2, <2>0, <3>1
  <2>. QED  BY <1>7, <2>1, <2>2, <2>3, <2>4
<1>8. ASSUME NEW p \in Path, AgentWrites(p)  PROVE MovesInv'
  <2>1. /\ box' = [box EXCEPT ![p] = [path |-> p, rev |-> clock + 1]] /\ clock < MaxRev
        /\ UNCHANGED <<s3, tmp, pull, jobs>>
    BY <1>8 DEF AgentWrites, storeVars, syncVars
  <2>2. \A q \in Unshared : Own(q, box'[q])
    BY <1>0, <1>2, <1>3, <2>1
  <2>. QED  BY <1>1, <1>2, <2>1, <2>2
<1>9. CASE LoseContainer \/ Die \/ UNCHANGED vars
  <2>1. /\ s3' = s3 /\ jobs' \subseteq jobs
        /\ pull' = {} \/ (pull' = pull /\ tmp' = tmp)
        /\ box' = box \/ box' = [p \in Path |-> None]
    BY <1>9 DEF LoseContainer, Die, vars, storeVars, boxVars, syncVars
  <2>2. \A q \in Unshared : Own(q, box'[q])
    BY <1>0, <1>2, <2>1 DEF Own
  <2>. QED  BY <1>1, <1>2, <2>1, <2>2
<1>. QED  BY <1>4, <1>5, <1>6, <1>7, <1>8, <1>9 DEF Next, SyncStep

LEMMA OwnStep == OwnInv /\ [Next]_vars => OwnInv'
<1>. SUFFICES ASSUME OwnInv, [Next]_vars PROVE OwnInv'
  OBVIOUS
<1>1. FilesInv'
  <2>1. FilesTypeOK'
    BY FilesTypeRequest, FilesTypeTurn, FilesTypePull, FilesTypePush, FilesTypeRest
    DEF OwnInv, FilesInv, Next, SyncStep
  <2>. QED  BY <2>1, ListedStep, LocalStep DEF OwnInv, FilesInv
<1>. QED  BY <1>1, HoldStep, PullStep, MovesStep DEF OwnInv

LEMMA OwnAlways == Spec => []OwnInv
BY InitOwn, OwnStep, PTL DEF Spec

\* For any requests and paths: a file with a name of its own and one row never
\* has the contents of another file, or pieces of several.  A transfer file
\* holds the pieces that its transfer has sent, since nobody else pulls a file
\* of that name.
THEOREM FilesOwnContent == Spec => []OwnContent
<1>1. OwnInv => OwnContent
  BY DEF OwnInv, MovesInv, OwnContent
<1>. QED  BY <1>1, OwnAlways, PTL

-----------------------------------------------------------------------------
(* Contents only move, or are written anew *)

LEMMA ContentsOwn ==
    ASSUME OwnInv, NEW p \in Unshared, NEW d \in Contents(p), d # None
    PROVE  d \in Data /\ d.rev \in Nat /\ d.rev <= MaxRev
<1>1. d \in Data
  BY DEF OwnInv, MovesInv, Own, Contents
<1>2. d.rev \in 1..MaxRev
  BY <1>1 DEF Data
<1>. QED  BY <1>1, <1>2, FilesAssumption

\* New contents have a number of their own.
LEMMA ContentsStep ==
    ASSUME OwnInv, [Next]_vars, NEW p \in Unshared, NEW d \in Contents(p)', d # None
    PROVE  \/ d \in Contents(p)
           \/ /\ d.rev = clock + 1 /\ clock' = clock + 1
              /\ saved' = saved /\ pushed' = pushed
<1>0. /\ pull \subseteq Transfer /\ jobs \subseteq Job /\ p \in Path
      /\ s3 \in [Path -> Data \cup {None, Mixed}] /\ box \in [Path -> Data \cup {None, Mixed}]
  BY DEF OwnInv, FilesInv, FilesTypeOK, Unshared
<1>. DEFINE Held(e) == e = None \/ e \in Contents(p)
<1>1. ASSUME Held(box'[p]), Held(s3'[p]),
             \A x \in pull' : x.row.path = p => Held(x.data),
             \A j \in jobs' : j.path = p => Held(j.data)
      PROVE  d \in Contents(p)
  BY <1>1 DEF Contents
<1>2. /\ Held(box[p]) /\ Held(s3[p])
      /\ \A x \in pull : x.row.path = p => Held(x.data)
      /\ \A j \in jobs : j.path = p => Held(j.data)
  BY DEF Contents
<1>. HIDE DEF Held
<1>n. Held(None)
  BY DEF Held
<1>3. ASSUME NEW t \in Turn, Request(t), ~ \E q \in Path : PutAttachment(t, q)
      PROVE  d \in Contents(p)
  <2>1. pull' = pull /\ jobs' = jobs /\ s3' = s3 /\ box' = box
    BY <1>3 DEF Request, SaveFileRecord, AttachFails, Respond, CloseRequest, syncVars, boxVars,
                storeVars
  <2>. QED  BY <1>1, <1>2, <2>1
<1>4. ASSUME NEW t \in Turn, NEW q \in Path, PutAttachment(t, q)
      PROVE  \/ d \in Contents(p)
             \/ d.rev = clock + 1 /\ clock' = clock + 1 /\ saved' = saved /\ pushed' = pushed
  <2>1. /\ s3' = [s3 EXCEPT ![q] = [path |-> q, rev |-> clock + 1]]
        /\ clock' = clock + 1 /\ saved' = saved /\ pushed' = pushed
        /\ pull' = pull /\ jobs' = jobs /\ box' = box
    BY <1>4 DEF PutAttachment, syncVars, boxVars, history
  <2>2. CASE q = p
    <3>1. s3'[p] = [path |-> p, rev |-> clock + 1]
      BY <1>0, <2>1, <2>2
    <3>2. d \in Contents(p) \/ d = s3'[p]
      BY <2>1 DEF Contents
    <3>. QED  BY <2>1, <3>1, <3>2
  <2>3. CASE q # p
    <3>1. s3'[p] = s3[p]
      BY <1>0, <2>1, <2>3
    <3>. QED  BY <1>1, <1>2, <2>1, <3>1
  <2>. QED  BY <2>2, <2>3
<1>5. ASSUME NEW q \in Path, AgentWrites(q)
      PROVE  \/ d \in Contents(p)
             \/ d.rev = clock + 1 /\ clock' = clock + 1 /\ saved' = saved /\ pushed' = pushed
  <2>1. /\ box' = [box EXCEPT ![q] = [path |-> q, rev |-> clock + 1]]
        /\ clock' = clock + 1 /\ saved' = saved /\ pushed' = pushed
        /\ pull' = pull /\ jobs' = jobs /\ s3' = s3
    BY <1>5 DEF AgentWrites, syncVars, storeVars, history
  <2>2. CASE q = p
    <3>1. box'[p] = [path |-> p, rev |-> clock + 1]
      BY <1>0, <2>1, <2>2
    <3>2. d \in Contents(p) \/ d = box'[p]
      BY <2>1 DEF Contents
    <3>. QED  BY <2>1, <3>1, <3>2
  <2>3. CASE q # p
    <3>1. box'[p] = box[p]
      BY <1>0, <2>1, <2>3
    <3>. QED  BY <1>1, <1>2, <2>1, <3>1
  <2>. QED  BY <2>2, <2>3
<1>6. ASSUME NEW t \in Turn, TurnStep(t)  PROVE d \in Contents(p)
  <2>0. box' = box /\ s3' = s3
    BY <1>6 DEF TurnStep, Enter, Refused, BeginAgent, StartSync, EndStream, StartFinalSync,
                ReleaseLock, Commit, TurnFails, boxVars, storeVars
  <2>1. CASE Enter(t)
    <3>1. jobs' = jobs
          /\ pull' = {[turn |-> t, row |-> r, step |-> "get", data |-> None, sent |-> 0] : r \in rows}
      BY <2>1 DEF Enter
    <3>2. \A x \in pull' : x.data = None
      BY <3>1
    <3>. QED  BY <1>1, <1>2, <1>n, <2>0, <3>1, <3>2
  <2>2. CASE TurnFails(t)
    <3>1. pull' = {x \in pull : x.turn # t}
          /\ jobs' = {j \in jobs : j.turn = t => j.task # 0} \cup {Left(j) : j \in Calls(t)}
      BY <2>2 DEF TurnFails, Left
    <3>2. \A j \in Calls(t) : j \in jobs /\ Left(j).path = j.path /\ Left(j).data = j.data
      BY <1>0, JobRecords DEF Calls
    <3>3. \A k \in jobs' : k.path = p => Held(k.data)
      BY <1>2, <3>1, <3>2
    <3>. QED  BY <1>1, <1>2, <2>0, <3>1, <3>3
  <2>3. CASE StartSync(t) \/ StartFinalSync(t)
    <3>1. pull' = pull /\ \A j \in jobs' : j \in jobs \/ j.data = None
      BY <2>3 DEF StartSync, StartFinalSync, FindIn
    <3>. QED  BY <1>1, <1>2, <1>n, <2>0, <3>1
  <2>4. CASE Refused(t) \/ BeginAgent(t) \/ EndStream(t) \/ ReleaseLock(t) \/ Commit(t)
    <3>1. pull' = pull /\ jobs' = jobs
      BY <2>4 DEF Refused, BeginAgent, EndStream, ReleaseLock, Commit, syncVars
    <3>. QED  BY <1>1, <1>2, <2>0, <3>1
  <2>. QED  BY <1>6, <2>1, <2>2, <2>3, <2>4 DEF TurnStep
<1>7. ASSUME NEW x \in pull, Download(x) \/ SendChunk(x) \/ Decode(x) \/ TransferFails(x)
      PROVE  d \in Contents(p)
  <2>0. x \in Transfer /\ s3' = s3 /\ jobs' = jobs
    BY <1>0, <1>7 DEF Download, SendChunk, Decode, TransferFails, storeVars
  <2>1. CASE Download(x)
    <3>1. pull' = Replace(pull, x, Loaded(x)) /\ box' = box
      BY <2>1 DEF Download, Loaded, boxVars
    <3>2. Loaded(x).row = x.row /\ Loaded(x).data = s3[x.row.path]
      BY <2>0, TransferRecords
    <3>3. \A y \in pull' : y.row.path = p => Held(y.data)
      BY <1>2, <3>1, <3>2 DEF Replace
    <3>. QED  BY <1>1, <1>2, <2>0, <3>1, <3>3
  <2>2. CASE SendChunk(x)
    <3>1. pull' = Replace(pull, x, Sent(x)) /\ box' = box
      BY <2>2 DEF SendChunk, Sent
    <3>2. Sent(x).row = x.row /\ Sent(x).data = x.data
      BY <2>0, TransferRecords
    <3>3. \A y \in pull' : y.row.path = p => Held(y.data)
      BY <1>2, <3>1, <3>2 DEF Replace
    <3>. QED  BY <1>1, <1>2, <2>0, <3>1, <3>3
  <2>3. CASE Decode(x)
    <3>1. pull' = pull \ {x} /\ box' = [box EXCEPT ![x.row.path] = Decoded(tmp[TmpOf(x)])]
      BY <2>3 DEF Decode
    <3>2. x.row.path = p => box'[p] = x.data
      BY <2>3, DecodeStep
    <3>3. x.row.path # p => box'[p] = box[p]
      BY <1>0, <3>1
    <3>4. Held(box'[p])
      BY <1>2, <3>2, <3>3
    <3>. QED  BY <1>1, <1>2, <2>0, <3>1, <3>4
  <2>4. CASE TransferFails(x)
    <3>1. pull' = pull \ {x} /\ box' = box
      BY <2>4 DEF TransferFails
    <3>. QED  BY <1>1, <1>2, <2>0, <3>1
  <2>. QED  BY <1>7, <2>1, <2>2, <2>3, <2>4
<1>8. ASSUME NEW j \in jobs,
             FindFiles(j) \/ ReadFile(j) \/ PutFile(j) \/ RecordFile(j) \/ SyncFails(j)
      PROVE  d \in Contents(p)
  <2>0. j \in Job /\ pull' = pull /\ box' = box
    BY <1>0, <1>8 DEF FindFiles, ReadFile, PutFile, RecordFile, SyncFails, boxVars
  <2>1. CASE FindFiles(j)
    <3>1. jobs' = (jobs \ {j}) \cup {Found(j, q) : q \in {r \in Path : box[r] # None}}
          /\ j.data = None /\ s3' = s3
      BY <2>1 DEF FindFiles, Found, storeVars, OwnInv, PullInv
    <3>2. \A q \in Path : Found(j, q).data = None
      BY <2>0, <3>1, JobRecords
    <3>3. \A k \in jobs' : k \in jobs \/ k.data = None
      BY <3>1, <3>2
    <3>. QED  BY <1>1, <1>2, <1>n, <2>0, <3>1, <3>3
  <2>2. CASE ReadFile(j)
    <3>1. jobs' = Replace(jobs, j, Taken(j)) /\ s3' = s3
      BY <2>2 DEF ReadFile, Taken, storeVars
    <3>2. Taken(j).data = box[j.path] /\ Taken(j).path = j.path
      BY <2>0, JobRecords
    <3>3. \A k \in jobs' : k.path = p => Held(k.data)
      BY <1>2, <3>1, <3>2 DEF Replace
    <3>. QED  BY <1>1, <1>2, <2>0, <3>1, <3>3
  <2>3. CASE PutFile(j)
    <3>1. /\ s3' = [s3 EXCEPT ![j.path] = j.data]
          /\ jobs' = jobs \ {j} \/ jobs' = Replace(jobs, j, Stored(j))
      BY <2>3 DEF PutFile, Stored
    <3>2. Stored(j).data = j.data /\ Stored(j).path = j.path
      BY <2>0, JobRecords
    <3>3. \A k \in jobs' : k.path = p => Held(k.data)
      BY <1>2, <3>1, <3>2 DEF Replace
    <3>4. Held(s3'[p])
      BY <1>0, <1>2, <3>1
    <3>. QED  BY <1>1, <1>2, <2>0, <3>3, <3>4
  <2>4. CASE RecordFile(j) \/ SyncFails(j)
    <3>1. jobs' = jobs \ {j} /\ s3' = s3
      BY <2>4 DEF RecordFile, SyncFails, storeVars
    <3>. QED  BY <1>1, <1>2, <2>0, <3>1
  <2>. QED  BY <1>8, <2>1, <2>2, <2>3, <2>4
<1>9. CASE LoseContainer \/ Die \/ UNCHANGED vars
  <2>1. /\ s3' = s3 /\ jobs' \subseteq jobs /\ pull' \subseteq pull
        /\ box' = box \/ box' = [q \in Path |-> None]
    BY <1>9 DEF LoseContainer, Die, vars, storeVars, boxVars, syncVars
  <2>2. Held(box'[p])
    BY <1>0, <1>2, <1>n, <2>1
  <2>. QED  BY <1>1, <1>2, <2>1, <2>2
<1>. QED  BY <1>3, <1>4, <1>5, <1>6, <1>7, <1>8, <1>9 DEF Next, SyncStep

-----------------------------------------------------------------------------
(* What is recorded *)

\* The revision of p among the files that are listed is the revision of p.
LEMMA RevisionFacts ==
    ASSUME NEW files, NEW listed, NEW p \in Path
    PROVE  /\ Revisions(files, listed)[p] \in {0, files[p].rev}
           /\ Revisions(files, listed)[p] # 0 =>
                 files[p] \in Data /\ \E r \in listed : r.path = p
BY DEF Revisions

LEMMA NewerFacts ==
    ASSUME NEW a \in [Path -> Nat], NEW b \in [Path -> Nat], NEW p \in Path
    PROVE  /\ Newer(a, b)[p] \in {a[p], b[p]}
           /\ Newer(a, b)[p] >= a[p] /\ Newer(a, b)[p] >= b[p]
BY DEF Newer

LEMMA RecordTypes ==
    ASSUME FilesInv
    PROVE  /\ saved \in [Path -> Nat] /\ promised \in [Path -> Nat]
           /\ \A t \in Turn : pushed[t] \in [Path -> Nat]
           /\ clock \in Nat
           /\ at \in [Turn -> {"request", "lock", "pull", "agent", "wait", "push",
                               "commit", "over"}]
<1>1. 0..MaxRev \subseteq Nat
  BY FilesAssumption
<1>. QED  BY <1>1 DEF FilesInv, FilesTypeOK

LEMMA NextTypes ==
    ASSUME FilesInv'
    PROVE  saved' \in [Path -> Nat] /\ promised' \in [Path -> Nat] /\ clock' \in Nat
<1>1. 0..MaxRev \subseteq Nat
  BY FilesAssumption
<1>. QED  BY <1>1 DEF FilesInv, FilesTypeOK

\* Only the end of a transaction records anything, and only the release of the
\* lock decides what a turn will have recorded.
LEMMA SavedStep ==
    ASSUME FilesInv, [Next]_vars
    PROVE  /\ saved' = saved \/ \E t \in Turn : CloseRequest(t) \/ Commit(t)
           /\ \A t \in Turn : \/ pushed'[t] = pushed[t] /\ (at[t] = "commit" => at'[t] = at[t])
                              \/ pushed'[t] = NothingSaved
                              \/ ReleaseLock(t)
           /\ late => late'
           /\ clock' >= clock
<1>0. /\ pushed \in [Turn -> [Path -> 0..MaxRev]] /\ clock \in Nat
      /\ at \in [Turn -> {"request", "lock", "pull", "agent", "wait", "push", "commit", "over"}]
  BY RecordTypes DEF FilesInv, FilesTypeOK
<1>1. ASSUME NEW t \in Turn, Request(t)
      PROVE  /\ saved' = saved \/ CloseRequest(t)
             /\ pushed' = pushed /\ late' = late /\ clock' >= clock
             /\ \A u \in Turn : at[u] = "commit" => at'[u] = at[u]
  BY <1>0, <1>1 DEF Request, PutAttachment, SaveFileRecord, AttachFails, Respond, CloseRequest,
                    GoTo, history
<1>2. ASSUME NEW t \in Turn, TurnStep(t)
      PROVE  /\ saved' = saved \/ Commit(t)
             /\ late => late'
             /\ clock' >= clock
  <2>1. saved' = saved \/ Commit(t)
    BY <1>2 DEF TurnStep, Enter, Refused, BeginAgent, StartSync, EndStream, StartFinalSync,
                ReleaseLock, TurnFails, history
  <2>2. CASE StartFinalSync(t) \/ TurnFails(t)
    <3>1. late => late'
      BY <2>2 DEF StartFinalSync, TurnFails
    <3>2. clock' = clock
      BY <2>2 DEF StartFinalSync, TurnFails
    <3>. QED  BY <1>0, <2>1, <3>1, <3>2
  <2>3. CASE ~(StartFinalSync(t) \/ TurnFails(t))
    <3>1. late' = late /\ clock' = clock
      BY <1>2, <2>3 DEF TurnStep, Enter, Refused, BeginAgent, StartSync, EndStream, ReleaseLock,
                        Commit, history
    <3>. QED  BY <1>0, <2>1, <3>1
  <2>. QED  BY <2>2, <2>3
<1>3. ASSUME NEW t \in Turn, TurnStep(t), NEW u \in Turn
      PROVE  \/ pushed'[u] = pushed[u] /\ (at[u] = "commit" => at'[u] = at[u])
             \/ pushed'[u] = NothingSaved
             \/ ReleaseLock(u)
  <2>1. CASE ReleaseLock(t)
    <3>1. /\ pushed' = [pushed EXCEPT ![t] =
                IF clean THEN Revisions(box, rows \cup drafts[t]) ELSE NothingSaved]
          /\ at' = [at EXCEPT ![t] = "commit"]
      BY <2>1 DEF ReleaseLock, GoTo
    <3>. QED  BY <1>0, <2>1, <3>1
  <2>2. CASE Commit(t) \/ TurnFails(t)
    <3>1. /\ pushed' = [pushed EXCEPT ![t] = NothingSaved]
          /\ at' = [at EXCEPT ![t] = "over"]
      BY <2>2 DEF Commit, TurnFails, GoTo
    <3>. QED  BY <1>0, <3>1
  <2>3. CASE ~(ReleaseLock(t) \/ Commit(t) \/ TurnFails(t))
    BY <1>0, <1>3, <2>3 DEF TurnStep, Enter, Refused, BeginAgent, StartSync, EndStream,
                    StartFinalSync, GoTo, history
  <2>. QED  BY <2>1, <2>2, <2>3
<1>4. CASE SyncStep \/ (\E p \in Path : AgentWrites(p)) \/ LoseContainer \/ UNCHANGED vars
  <2>1. saved' = saved /\ pushed' = pushed /\ late' = late /\ at' = at
    BY <1>4 DEF SyncStep, Download, SendChunk, Decode, TransferFails, FindFiles, ReadFile,
                PutFile, RecordFile, SyncFails, AgentWrites, LoseContainer, vars, history
  <2>2. clock' = clock \/ clock' = clock + 1
    BY <1>4 DEF SyncStep, Download, SendChunk, Decode, TransferFails, FindFiles, ReadFile,
                PutFile, RecordFile, SyncFails, AgentWrites, LoseContainer, vars
  <2>. QED  BY <1>0, <2>1, <2>2
<1>5. CASE Die
  <2>1. /\ saved' = saved /\ late' = late /\ clock' = clock
        /\ \A t \in Turn : pushed'[t] = NothingSaved
    BY <1>5 DEF Die
  <2>. QED  BY <1>0, <2>1
<1>. QED
  <2>1. CASE \E t \in Turn : Request(t)
    BY <1>1, <2>1
  <2>2. CASE \E t \in Turn : TurnStep(t)
    <3>1. PICK t \in Turn : TurnStep(t)
      BY <2>2
    <3>2. \A u \in Turn : \/ pushed'[u] = pushed[u] /\ (at[u] = "commit" => at'[u] = at[u])
                          \/ pushed'[u] = NothingSaved
                          \/ ReleaseLock(u)
      BY <1>3, <3>1
    <3>3. (saved' = saved \/ Commit(t)) /\ (late => late') /\ clock' >= clock
      BY <1>2, <3>1
    <3>. QED  BY <3>2, <3>3
  <2>. QED  BY <1>4, <1>5, <2>1, <2>2 DEF Next

LEMMA RowsStep ==
    ASSUME FilesInv, RowsInv, [Next]_vars
    PROVE  RowsInv'
<1>0. /\ at \in [Turn -> {"request", "lock", "pull", "agent", "wait", "push", "commit", "over"}]
      /\ attaching \in [Turn -> Path \cup {None}] /\ attached \in [Turn -> SUBSET Row]
      /\ drafts \in [Turn -> SUBSET Row] /\ rows \subseteq Row /\ jobs \subseteq Job
  BY DEF FilesInv, FilesTypeOK
<1>1. ASSUME UNCHANGED <<attaching, attached>>,
             \A t \in Turn : (at[t] = "request") <=> (at'[t] = "request"),
             \A t \in Turn : \A r \in drafts'[t] : r \in drafts[t] \/ r.kind = "sync",
             \A r \in rows' : r \in rows \/ r.kind = "sync"
      PROVE  RowsInv'
  BY <1>0, <1>1 DEF RowsInv, Row
<1>2. ASSUME NEW t \in Turn, Request(t)  PROVE RowsInv'
  <2>0. drafts' = drafts
    BY <1>2 DEF Request, PutAttachment, SaveFileRecord, AttachFails, Respond, CloseRequest
  <2>1. CASE \E p \in Path : PutAttachment(t, p)
    BY <1>0, <2>0, <2>1 DEF PutAttachment, RowsInv
  <2>2. CASE SaveFileRecord(t)
    <3>1. /\ attached' = [attached EXCEPT ![t] =
                @ \cup {[by |-> t, kind |-> "upload", path |-> attaching[t]]}]
          /\ attaching' = [attaching EXCEPT ![t] = None] /\ attaching[t] # None
          /\ UNCHANGED <<at, rows>>
      BY <2>2 DEF SaveFileRecord, storeVars
    <3>2. at[t] = "request" /\ attaching[t] \in Uploads[t]
      BY <3>1 DEF RowsInv
    <3>. QED  BY <1>0, <2>0, <3>1, <3>2 DEF RowsInv, Row
  <2>3. CASE AttachFails(t)
    BY <1>0, <2>0, <2>3 DEF AttachFails, GoTo, RowsInv, storeVars, Row
  <2>4. CASE Respond(t)
    BY <1>0, <2>0, <2>4 DEF Respond, GoTo, RowsInv, requestVars, storeVars, Row
  <2>5. CASE CloseRequest(t)
    <3>1. /\ at[t] # "request" /\ rows' = rows \cup attached[t]
          /\ attached' = [attached EXCEPT ![t] = {}] /\ UNCHANGED <<at, attaching>>
      BY <2>5 DEF CloseRequest
    <3>. QED  BY <1>0, <2>0, <3>1 DEF RowsInv, Row
  <2>. QED  BY <1>2, <2>1, <2>2, <2>3, <2>4, <2>5 DEF Request
<1>3. ASSUME NEW t \in Turn, TurnStep(t)  PROVE RowsInv'
  <2>1. UNCHANGED <<attaching, attached>>
        /\ \A u \in Turn : (at[u] = "request") <=> (at'[u] = "request")
    BY <1>0, <1>3 DEF TurnStep, Enter, Refused, BeginAgent, StartSync, EndStream, StartFinalSync,
                ReleaseLock, Commit, TurnFails, requestVars, GoTo, Holds
  <2>2. /\ \A u \in Turn : drafts'[u] \subseteq drafts[u]
        /\ rows' = rows \/ rows' = rows \cup drafts[t]
    BY <1>0, <1>3 DEF TurnStep, Enter, Refused, BeginAgent, StartSync, EndStream, StartFinalSync,
                ReleaseLock, Commit, TurnFails, storeVars
  <2>3. \A r \in rows' : r \in rows \/ r.kind = "sync"
    BY <2>2 DEF RowsInv
  <2>. QED  BY <1>1, <2>1, <2>2, <2>3
<1>4. CASE SyncStep
  <2>1. UNCHANGED <<attaching, attached, at, rows>>
    BY <1>4 DEF SyncStep, Download, SendChunk, Decode, TransferFails, FindFiles, ReadFile,
                PutFile, RecordFile, SyncFails, requestVars, storeVars
  <2>2. drafts' = drafts \/ \E j \in jobs : RecordFile(j)
    BY <1>4 DEF SyncStep, Download, SendChunk, Decode, TransferFails, FindFiles, ReadFile,
                PutFile, SyncFails
  <2>3. \A u \in Turn : \A r \in drafts'[u] : r \in drafts[u] \/ r.kind = "sync"
    <3>1. ASSUME NEW j \in jobs, RecordFile(j)
          PROVE  \A u \in Turn : \A r \in drafts'[u] : r \in drafts[u] \/ r.kind = "sync"
      BY <1>0, <3>1 DEF RecordFile
    <3>. QED  BY <2>2, <3>1
  <2>. QED  BY <1>1, <2>1, <2>3
<1>5. CASE (\E p \in Path : AgentWrites(p)) \/ LoseContainer \/ UNCHANGED vars
  <2>1. UNCHANGED <<attaching, attached, at, rows, drafts>>
    BY <1>5 DEF AgentWrites, LoseContainer, vars, requestVars, storeVars
  <2>. QED  BY <1>1, <2>1
<1>6. CASE Die
  BY <1>0, <1>6 DEF Die, RowsInv, storeVars, Row
<1>. QED  BY <1>2, <1>3, <1>4, <1>5, <1>6 DEF Next

LEMMA DraftsStay ==
    ASSUME FilesInv, [Next]_vars, NEW t \in Turn, at[t] = "commit", at'[t] = "commit"
    PROVE  drafts[t] \subseteq drafts'[t]
<1>0. /\ at \in [Turn -> {"request", "lock", "pull", "agent", "wait", "push", "commit", "over"}]
      /\ drafts \in [Turn -> SUBSET Row] /\ jobs \subseteq Job
  BY DEF FilesInv, FilesTypeOK
<1>1. ASSUME NEW u \in Turn, TurnStep(u)  PROVE drafts[t] \subseteq drafts'[t]
  <2>1. CASE Commit(u) \/ TurnFails(u)
    <3>1. drafts' = [drafts EXCEPT ![u] = {}] /\ at' = [at EXCEPT ![u] = "over"]
      BY <2>1 DEF Commit, TurnFails, GoTo
    <3>. QED  BY <1>0, <3>1
  <2>2. CASE ~(Commit(u) \/ TurnFails(u))
    BY <1>1, <2>2 DEF TurnStep, Enter, Refused, BeginAgent, StartSync, EndStream, StartFinalSync,
                      ReleaseLock
  <2>. QED  BY <2>1, <2>2
<1>2. ASSUME NEW j \in jobs, RecordFile(j)  PROVE drafts[t] \subseteq drafts'[t]
  BY <1>0, <1>2 DEF RecordFile
<1>3. CASE Die
  BY <1>3 DEF Die
<1>4. CASE UNCHANGED vars \/ (\E p \in Path : AgentWrites(p)) \/ LoseContainer
           \/ \E u \in Turn : Request(u)
  BY <1>4 DEF vars, AgentWrites, LoseContainer, Request, PutAttachment, SaveFileRecord,
              AttachFails, Respond, CloseRequest
<1>. QED  BY <1>1, <1>2, <1>3, <1>4 DEF Next, SyncStep, Download, SendChunk, Decode,
             TransferFails, FindFiles, ReadFile, PutFile, SyncFails

LEMMA RecordStep ==
    ASSUME OwnInv, RecordInv, [Next]_vars
    PROVE  RecordInv'
<1>0. /\ pull \subseteq Transfer /\ jobs \subseteq Job /\ FilesInv
      /\ box \in [Path -> Data \cup {None, Mixed}] /\ rows \subseteq rows'
  BY RowsGrow DEF OwnInv, FilesInv, FilesTypeOK
<1>. SUFFICES ASSUME NEW p \in Path
              PROVE  /\ saved'[p] > 0 => HasRow(p)'
                     /\ \A t \in Turn : pushed'[t][p] > 0 =>
                           at'[t] = "commit" /\ (HasRow(p)' \/ \E r \in drafts'[t] : r.path = p)
                     /\ (\E t \in Turn : p \in Uploads[t]) /\ ~HasRow(p)' =>
                           box'[p] = None /\ \A j \in jobs' : j.path = p => j.data = None
  BY DEF RecordInv
<1>1. HasRow(p) => HasRow(p)'
  BY <1>0 DEF HasRow
<1>2. saved'[p] > 0 => HasRow(p)'
  <2>1. CASE saved' = saved
    BY <1>1, <2>1 DEF RecordInv
  <2>2. ASSUME NEW t \in Turn, CloseRequest(t)  PROVE saved'[p] > 0 => HasRow(p)'
    <3>1. saved' = Newer(saved, Revisions(s3, attached[t])) /\ rows' = rows \cup attached[t]
      BY <2>2 DEF CloseRequest
    <3>2. saved'[p] \in {saved[p], Revisions(s3, attached[t])[p]}
      BY <3>1 DEF Newer
    <3>3. Revisions(s3, attached[t])[p] > 0 => HasRow(p)'
      BY <3>1, RevisionFacts DEF HasRow
    <3>. QED  BY <1>1, <3>2, <3>3 DEF RecordInv
  <2>3. ASSUME NEW t \in Turn, Commit(t)  PROVE saved'[p] > 0 => HasRow(p)'
    <3>1. saved' = Newer(saved, pushed[t]) /\ rows' = rows \cup drafts[t]
      BY <2>3 DEF Commit
    <3>2. saved'[p] \in {saved[p], pushed[t][p]}
      BY <3>1 DEF Newer
    <3>3. pushed[t][p] > 0 => HasRow(p)'
      BY <3>1 DEF RecordInv, HasRow
    <3>. QED  BY <1>1, <3>2, <3>3 DEF RecordInv
  <2>. QED  BY <1>0, <2>1, <2>2, <2>3, SavedStep
<1>3. ASSUME NEW t \in Turn, pushed'[t][p] > 0
      PROVE  at'[t] = "commit" /\ (HasRow(p)' \/ \E r \in drafts'[t] : r.path = p)
  <2>1. CASE pushed'[t] = pushed[t] /\ (at[t] = "commit" => at'[t] = at[t])
    <3>1. at[t] = "commit" /\ (HasRow(p) \/ \E r \in drafts[t] : r.path = p)
      BY <1>3, <2>1 DEF RecordInv
    <3>2. drafts[t] \subseteq drafts'[t]
      BY <1>0, <2>1, <3>1, DraftsStay
    <3>. QED  BY <1>1, <2>1, <3>1, <3>2
  <2>2. CASE pushed'[t] = NothingSaved
    BY <1>3, <2>2 DEF NothingSaved
  <2>3. CASE ReleaseLock(t)
    <3>0. pushed \in [Turn -> [Path -> 0..MaxRev]] /\ at \in [Turn -> {"request", "lock", "pull",
             "agent", "wait", "push", "commit", "over"}]
      BY <1>0 DEF FilesInv, FilesTypeOK
    <3>1. /\ pushed' = [pushed EXCEPT ![t] =
                IF clean THEN Revisions(box, rows \cup drafts[t]) ELSE NothingSaved]
          /\ at' = [at EXCEPT ![t] = "commit"] /\ drafts' = drafts /\ rows' = rows
      BY <2>3 DEF ReleaseLock, GoTo, storeVars
    <3>2. pushed'[t] = Revisions(box, rows \cup drafts[t])
      BY <1>3, <3>0, <3>1 DEF NothingSaved
    <3>3. \E r \in rows \cup drafts[t] : r.path = p
      BY <1>3, <3>2, RevisionFacts
    <3>. QED  BY <3>0, <3>1, <3>3 DEF HasRow
  <2>. QED  BY <1>0, <2>1, <2>2, <2>3, SavedStep
<1>4. ASSUME NEW u \in Turn, p \in Uploads[u], ~HasRow(p)'
      PROVE  box'[p] = None /\ \A j \in jobs' : j.path = p => j.data = None
  <2>0. /\ ~HasRow(p) /\ box[p] = None /\ \A j \in jobs : j.path = p => j.data = None
    BY <1>1, <1>4 DEF RecordInv
  <2>1. ASSUME box' = box, jobs' \subseteq jobs
        PROVE  box'[p] = None /\ \A j \in jobs' : j.path = p => j.data = None
    BY <2>0, <2>1
  <2>2. ASSUME NEW q \in Path, AgentWrites(q)  PROVE box'[p] = None /\ jobs' = jobs
    BY <1>0, <1>4, <2>0, <2>2 DEF AgentWrites, HasRow, syncVars
  <2>3. ASSUME NEW x \in pull, Decode(x)  PROVE box'[p] = None /\ jobs' = jobs
    <3>1. x.row \in rows
      BY DEF OwnInv, PullInv
    <3>2. x.row.path # p
      BY <2>0, <3>1 DEF HasRow
    <3>. QED  BY <1>0, <2>0, <2>3, <3>2 DEF Decode
  <2>4. ASSUME NEW t \in Turn, TurnStep(t)
        PROVE  box' = box /\ \A j \in jobs' : j.path = p => j.data = None
    <3>1. box' = box
      BY <2>4 DEF TurnStep, Enter, Refused, BeginAgent, StartSync, EndStream, StartFinalSync,
                  ReleaseLock, Commit, TurnFails, boxVars
    <3>2. CASE TurnFails(t)
      <4>1. jobs' = {j \in jobs : j.turn = t => j.task # 0} \cup {Left(j) : j \in Calls(t)}
        BY <3>2 DEF TurnFails, Left
      <4>2. \A j \in Calls(t) : j \in jobs /\ Left(j).path = j.path /\ Left(j).data = j.data
        BY <1>0, JobRecords DEF Calls
      <4>. QED  BY <2>0, <3>1, <4>1, <4>2
    <3>3. CASE ~TurnFails(t)
      <4>1. \A j \in jobs' : j \in jobs \/ j.data = None
        BY <2>4, <3>3 DEF TurnStep, Enter, Refused, BeginAgent, StartSync, EndStream,
                  StartFinalSync, ReleaseLock, Commit, FindIn, syncVars
      <4>. QED  BY <2>0, <3>1, <4>1
    <3>. QED  BY <3>2, <3>3
  <2>5. ASSUME NEW j \in jobs,
               FindFiles(j) \/ ReadFile(j) \/ PutFile(j) \/ RecordFile(j) \/ SyncFails(j)
        PROVE  box' = box /\ \A k \in jobs' : k.path = p => k.data = None
    <3>0. j \in Job /\ box' = box
      BY <1>0, <2>5 DEF FindFiles, ReadFile, PutFile, RecordFile, SyncFails, boxVars
    <3>1. CASE FindFiles(j)
      <4>1. jobs' = (jobs \ {j}) \cup {Found(j, q) : q \in {r \in Path : box[r] # None}}
            /\ j.data = None
        BY <3>1 DEF FindFiles, Found, OwnInv, PullInv
      <4>2. \A q \in Path : Found(j, q).data = None
        BY <3>0, <4>1, JobRecords
      <4>. QED  BY <2>0, <3>0, <4>1, <4>2
    <3>2. CASE ReadFile(j)
      <4>1. jobs' = Replace(jobs, j, Taken(j)) /\ box[j.path] # None
        BY <3>2 DEF ReadFile, Taken
      <4>2. Taken(j).path = j.path
        BY <3>0, JobRecords
      <4>. QED  BY <2>0, <3>0, <4>1, <4>2 DEF Replace
    <3>3. CASE PutFile(j)
      <4>1. jobs' = jobs \ {j} \/ jobs' = Replace(jobs, j, Stored(j))
        BY <3>3 DEF PutFile, Stored
      <4>2. Stored(j).data = j.data /\ Stored(j).path = j.path
        BY <3>0, JobRecords
      <4>. QED  BY <2>0, <3>0, <4>1, <4>2 DEF Replace
    <3>4. CASE RecordFile(j) \/ SyncFails(j)
      BY <2>0, <3>0, <3>4 DEF RecordFile, SyncFails
    <3>. QED  BY <2>5, <3>1, <3>2, <3>3, <3>4
  <2>6. CASE LoseContainer \/ Die
    <3>1. jobs' \subseteq jobs /\ (box' = box \/ box' = [q \in Path |-> None])
      BY <2>6 DEF LoseContainer, Die, boxVars
    <3>. QED  BY <2>0, <3>1
  <2>7. CASE \/ UNCHANGED vars \/ (\E t \in Turn : Request(t))
             \/ \E x \in pull : Download(x) \/ SendChunk(x) \/ TransferFails(x)
    <3>1. box' = box /\ jobs' = jobs
      BY <2>7 DEF vars, boxVars, syncVars, Request, PutAttachment, SaveFileRecord, AttachFails,
                  Respond, CloseRequest, Download, SendChunk, TransferFails
    <3>. QED  BY <2>1, <3>1
  <2>. QED  BY <2>0, <2>2, <2>3, <2>4, <2>5, <2>6, <2>7 DEF Next, SyncStep
<1>. QED  BY <1>2, <1>3, <1>4

LEMMA ClockStep ==
    ASSUME OwnInv, ClockInv, [Next]_vars
    PROVE  ClockInv'
<1>0. /\ FilesInv /\ rows \subseteq rows' /\ Unshared' \subseteq Unshared /\ Unshared \subseteq Path
  BY RowsGrow, SharedStay DEF OwnInv, Unshared
<1>1. /\ saved \in [Path -> Nat] /\ \A t \in Turn : pushed[t] \in [Path -> Nat]
      /\ clock \in Nat /\ clock' \in Nat /\ clock' >= clock
  <2>1. FilesInv'
    BY OwnStep DEF OwnInv
  <2>. QED  BY <1>0, <2>1, RecordTypes, NextTypes, SavedStep
<1>. SUFFICES ASSUME NEW p \in Unshared
              PROVE  /\ saved'[p] <= clock'
                     /\ \A t \in Turn : pushed'[t][p] <= clock'
                     /\ \A d \in Contents(p)' : d # None => d.rev <= clock'
  BY <1>0 DEF ClockInv
<1>2. /\ p \in Path /\ saved[p] <= clock /\ \A t \in Turn : pushed[t][p] <= clock
      /\ \A d \in Contents(p) : d # None => d \in Data /\ d.rev \in Nat /\ d.rev <= clock
  BY <1>0, ContentsOwn DEF ClockInv
<1>3. ASSUME NEW listed
      PROVE  Revisions(s3, listed)[p] <= clock /\ Revisions(box, listed)[p] <= clock
  <2>1. s3[p] \in Contents(p) /\ box[p] \in Contents(p)
    BY DEF Contents
  <2>2. \A d \in Data : d # None
    BY NoData
  <2>. QED  BY <1>1, <1>2, <2>1, <2>2, RevisionFacts
<1>4. saved'[p] <= clock'
  <2>1. ASSUME NEW t \in Turn, CloseRequest(t)  PROVE saved'[p] <= clock
    <3>1. saved'[p] \in {saved[p], Revisions(s3, attached[t])[p]}
      BY <1>2, <2>1 DEF CloseRequest, Newer
    <3>. QED  BY <1>2, <1>3, <3>1
  <2>2. ASSUME NEW t \in Turn, Commit(t)  PROVE saved'[p] <= clock
    <3>1. saved'[p] \in {saved[p], pushed[t][p]}
      BY <1>2, <2>2 DEF Commit, Newer
    <3>. QED  BY <1>2, <3>1
  <2>3. saved'[p] <= clock /\ saved'[p] \in Nat
    <3>1. saved' \in [Path -> Nat]
      BY OwnStep, NextTypes DEF OwnInv
    <3>. QED  BY <1>0, <1>2, <2>1, <2>2, <3>1, SavedStep
  <2>. QED  BY <1>1, <2>3
<1>5. ASSUME NEW t \in Turn  PROVE pushed'[t][p] <= clock'
  <2>1. CASE ReleaseLock(t)
    <3>0. pushed \in [Turn -> [Path -> 0..MaxRev]]
      BY <1>0 DEF FilesInv, FilesTypeOK
    <3>1. pushed' = [pushed EXCEPT ![t] =
                IF clean THEN Revisions(box, rows \cup drafts[t]) ELSE NothingSaved]
          /\ clock' = clock
      BY <2>1 DEF ReleaseLock
    <3>2. pushed'[t] = Revisions(box, rows \cup drafts[t]) \/ pushed'[t] = NothingSaved
      BY <3>0, <3>1
    <3>3. NothingSaved[p] = 0
      BY <1>2 DEF NothingSaved
    <3>. QED  BY <1>1, <1>3, <3>1, <3>2, <3>3
  <2>2. CASE pushed'[t] = pushed[t] \/ pushed'[t] = NothingSaved
    <3>1. NothingSaved[p] = 0
      BY <1>2 DEF NothingSaved
    <3>. QED  BY <1>1, <1>2, <2>2, <3>1
  <2>. QED  BY <1>0, <2>1, <2>2, SavedStep
<1>6. ASSUME NEW d \in Contents(p)', d # None  PROVE d.rev <= clock'
  <2>1. CASE d \in Contents(p)
    BY <1>1, <1>2, <1>6, <2>1
  <2>2. CASE d.rev = clock + 1 /\ clock' = clock + 1
    BY <1>1, <2>2
  <2>. QED  BY <1>6, <2>1, <2>2, ContentsStep
<1>. QED  BY <1>4, <1>5, <1>6

-----------------------------------------------------------------------------
(* Nobody works beside the turn that has the lock *)

\* Whatever is on its way belongs to the turn that works, and to its phase.
LEMMA Alone ==
    ASSUME OwnInv, JobsInv, ~late, NEW t \in Turn, Holds(t)
    PROVE  /\ at[t] # "pull" => pull = {}
           /\ \A j \in jobs : /\ j.turn = t
                              /\ j.task = 0 => at[t] = "push"
                              /\ j.task # 0 => at[t] \in {"agent", "wait"}
           /\ at[t] = "push" => \A j \in jobs : j.task = 0
           /\ at[t] = "wait" => jobs \subseteq Background(t)
           /\ at[t] = "pull" => jobs = {}
<1>0. pull \subseteq Transfer /\ jobs \subseteq Job
  BY DEF OwnInv, FilesInv, FilesTypeOK
<1>1. at[t] # "pull" => pull = {}
  BY <1>0, TransferRecords DEF OwnInv, PullInv, HoldInv, Holds
<1>2. \A j \in jobs : j.turn = t
  BY <1>0, JobRecords DEF JobsInv, OwnInv, HoldInv, Holds
<1>. QED  BY <1>1, <1>2 DEF JobsInv, Background

LEMMA JobsStep ==
    ASSUME OwnInv, JobsInv, [Next]_vars
    PROVE  JobsInv'
<1>0. /\ at \in [Turn -> {"request", "lock", "pull", "agent", "wait", "push", "commit", "over"}]
      /\ jobs \subseteq Job /\ FilesInv /\ syncs \in [Turn -> 0..MaxSync]
  BY DEF OwnInv, FilesInv, FilesTypeOK
<1>. SUFFICES ASSUME ~late'
              PROVE  \A j \in jobs' : /\ j.step # "thread"
                                      /\ j.task = 0 => at'[j.turn] = "push"
                                      /\ j.task # 0 => at'[j.turn] \in {"agent", "wait"}
  BY DEF JobsInv
<1>. DEFINE Placed(j) == /\ j.step # "thread"
                         /\ j.task = 0 => at'[j.turn] = "push"
                         /\ j.task # 0 => at'[j.turn] \in {"agent", "wait"}
<1>1. ~late /\ \A j \in jobs : /\ j.turn \in Turn /\ j.step # "thread"
                               /\ j.task = 0 => at[j.turn] = "push"
                               /\ j.task # 0 => at[j.turn] \in {"agent", "wait"}
  BY <1>0, SavedStep, JobRecords DEF JobsInv
<1>2. ASSUME jobs' \subseteq jobs, \A j \in jobs' : at'[j.turn] = at[j.turn]
      PROVE  \A j \in jobs' : Placed(j)
  BY <1>1, <1>2
<1>3. ASSUME NEW j \in jobs, at' = at,
             \A k \in jobs' : k \in jobs \/ (k.turn = j.turn /\ k.task = j.task /\ k.step # "thread")
      PROVE  \A k \in jobs' : Placed(k)
  BY <1>1, <1>3
<1>4. ASSUME NEW t \in Turn, Request(t)  PROVE \A j \in jobs' : Placed(j)
  <2>1. jobs' = jobs /\ \A u \in Turn : Holds(u) => at'[u] = at[u]
    BY <1>0, <1>4 DEF Request, PutAttachment, SaveFileRecord, AttachFails, Respond, CloseRequest,
                      syncVars, GoTo, Holds
  <2>. QED  BY <1>1, <1>2, <2>1 DEF Holds
<1>5. ASSUME NEW t \in Turn, Holds(t)
      PROVE  /\ \A j \in jobs : j.turn = t
             /\ at[t] = "wait" => jobs \subseteq Background(t)
             /\ at[t] = "push" => \A j \in jobs : j.task = 0
             /\ at[t] = "pull" => jobs = {}
  BY <1>1, <1>5, Alone
<1>6. ASSUME NEW t \in Turn, TurnStep(t)  PROVE \A j \in jobs' : Placed(j)
  <2>1. CASE StartSync(t)
    <3>1. /\ at' = at /\ at[t] = "agent" /\ jobs' = jobs \cup {FindIn(t, syncs[t] + 1)}
      BY <2>1 DEF StartSync
    <3>2. /\ FindIn(t, syncs[t] + 1).turn = t /\ FindIn(t, syncs[t] + 1).step = "find"
          /\ FindIn(t, syncs[t] + 1).task # 0
      BY <1>0, FilesAssumption DEF FindIn
    <3>. QED  BY <1>1, <3>1, <3>2
  <2>2. CASE EndStream(t)
    <3>1. at' = [at EXCEPT ![t] = "wait"] /\ jobs' = jobs /\ at[t] = "agent"
      BY <2>2 DEF EndStream, GoTo, syncVars
    <3>. QED  BY <1>0, <1>1, <3>1
  <2>3. CASE StartFinalSync(t)
    <3>1. /\ at' = [at EXCEPT ![t] = "push"] /\ jobs' = jobs \cup {FindIn(t, 0)}
          /\ at[t] = "wait" /\ Background(t) = {}
      BY <2>3 DEF StartFinalSync, GoTo
    <3>2. FindIn(t, 0).turn = t /\ FindIn(t, 0).step = "find" /\ FindIn(t, 0).task = 0
      BY DEF FindIn
    <3>3. jobs = {}
      BY <1>5, <3>1 DEF Holds
    <3>. QED  BY <1>0, <3>1, <3>2, <3>3
  <2>4. CASE ReleaseLock(t)
    <3>1. at[t] = "push" /\ jobs' = jobs /\ \A j \in jobs : j.turn = t => j.task # 0
      BY <2>4 DEF ReleaseLock, syncVars
    <3>2. jobs = {}
      BY <1>5, <3>1 DEF Holds
    <3>. QED  BY <3>1, <3>2
  <2>5. CASE TurnFails(t)
    <3>1. /\ jobs' = {j \in jobs : j.turn = t => j.task # 0} \cup {Left(j) : j \in Calls(t)}
          /\ at' = [at EXCEPT ![t] = "over"] /\ Background(t) \cup Calls(t) = {}
      BY <2>5 DEF TurnFails, GoTo, Left
    <3>2. \A j \in jobs' : j \in jobs /\ j.turn # t
      BY <3>1 DEF Background
    <3>. QED  BY <1>0, <1>1, <1>2, <3>1, <3>2
  <2>6. CASE Enter(t) \/ Refused(t) \/ BeginAgent(t) \/ Commit(t)
    <3>1. /\ jobs' = jobs /\ at[t] \in {"lock", "pull", "commit"}
          /\ \A u \in Turn : u # t => at'[u] = at[u]
      BY <1>0, <2>6 DEF Enter, Refused, BeginAgent, Commit, syncVars, GoTo
    <3>. QED  BY <1>1, <1>2, <3>1
  <2>. QED  BY <1>6, <2>1, <2>2, <2>3, <2>4, <2>5, <2>6 DEF TurnStep
<1>7. ASSUME NEW x \in pull, Download(x) \/ SendChunk(x) \/ Decode(x) \/ TransferFails(x)
      PROVE  \A j \in jobs' : Placed(j)
  <2>1. at' = at /\ jobs' = jobs
    BY <1>7 DEF Download, SendChunk, Decode, TransferFails
  <2>. QED  BY <1>2, <2>1
<1>8. ASSUME NEW j \in jobs,
             FindFiles(j) \/ ReadFile(j) \/ PutFile(j) \/ RecordFile(j) \/ SyncFails(j)
      PROVE  \A k \in jobs' : Placed(k)
  <2>0. j \in Job /\ at' = at
    BY <1>0, <1>8 DEF FindFiles, ReadFile, PutFile, RecordFile, SyncFails
  <2>1. CASE FindFiles(j)
    <3>1. jobs' = (jobs \ {j}) \cup {Found(j, q) : q \in {r \in Path : box[r] # None}}
      BY <2>1 DEF FindFiles, Found
    <3>2. \A q \in Path : /\ Found(j, q).turn = j.turn /\ Found(j, q).task = j.task
                          /\ Found(j, q).step # "thread"
      BY <2>0, JobRecords
    <3>. QED  BY <1>3, <2>0, <3>1, <3>2
  <2>2. CASE ReadFile(j)
    <3>1. jobs' = Replace(jobs, j, Taken(j))
      BY <2>2 DEF ReadFile, Taken
    <3>2. Taken(j).turn = j.turn /\ Taken(j).task = j.task /\ Taken(j).step # "thread"
      BY <2>0, JobRecords
    <3>. QED  BY <1>3, <2>0, <3>1, <3>2 DEF Replace
  <2>3. CASE PutFile(j)
    <3>1. jobs' = jobs \ {j} \/ jobs' = Replace(jobs, j, Stored(j))
      BY <2>3 DEF PutFile, Stored
    <3>2. Stored(j).turn = j.turn /\ Stored(j).task = j.task /\ Stored(j).step # "thread"
      BY <2>0, JobRecords
    <3>. QED  BY <1>3, <2>0, <3>1, <3>2 DEF Replace
  <2>4. CASE RecordFile(j) \/ SyncFails(j)
    BY <1>2, <2>0, <2>4 DEF RecordFile, SyncFails
  <2>. QED  BY <1>8, <2>1, <2>2, <2>3, <2>4
<1>9. CASE LoseContainer \/ (\E p \in Path : AgentWrites(p)) \/ Die \/ UNCHANGED vars
  <2>1. jobs' \subseteq jobs /\ (jobs' = {} \/ at' = at)
    BY <1>9 DEF LoseContainer, AgentWrites, Die, vars, syncVars
  <2>. QED  BY <1>2, <2>1
<1>. QED  BY <1>4, <1>6, <1>7, <1>8, <1>9 DEF Next, SyncStep

-----------------------------------------------------------------------------
(* Nothing takes recorded work back *)

LEMMA ObjectStays ==
    ASSUME FilesInv, [Next]_vars, NEW p \in Path, s3[p] # None
    PROVE  s3'[p] # None
<1>0. /\ s3 \in [Path -> Data \cup {None, Mixed}] /\ JobInv
  BY DEF FilesInv, FilesTypeOK
<1>1. ASSUME NEW t \in Turn, NEW q \in Path, PutAttachment(t, q)
      PROVE  s3'[p] # None
  <2>1. s3' = [s3 EXCEPT ![q] = [path |-> q, rev |-> clock + 1]] /\ clock < MaxRev
    BY <1>1 DEF PutAttachment
  <2>2. [path |-> q, rev |-> clock + 1] \in Data
    <3>1. clock + 1 \in 1..MaxRev
      BY <2>1, FilesAssumption DEF FilesInv, FilesTypeOK
    <3>. QED  BY <3>1 DEF Data
  <2>. QED  BY <1>0, <2>1, <2>2, NoData
<1>2. ASSUME NEW j \in jobs, PutFile(j)  PROVE s3'[p] # None
  BY <1>0, <1>2 DEF PutFile, JobInv
<1>3. CASE ~ \E t \in Turn, q \in Path : PutAttachment(t, q)
  <2>1. CASE ~ \E j \in jobs : PutFile(j)
    <3>1. s3' = s3
      BY <1>3, <2>1 DEF Next, vars, storeVars, Request, SaveFileRecord, AttachFails, Respond,
         CloseRequest, TurnStep, Enter, Refused, BeginAgent, StartSync, EndStream, StartFinalSync,
         ReleaseLock, Commit, TurnFails, SyncStep, Download, SendChunk, Decode, TransferFails,
         FindFiles, ReadFile, RecordFile, SyncFails, AgentWrites, LoseContainer, Die
    <3>. QED  BY <3>1
  <2>. QED  BY <1>2, <2>1
<1>. QED  BY <1>1, <1>3

\* A file that gets a row of its own by a request had none, and so nothing of
\* it is on its way.
LEMMA FirstRow ==
    ASSUME OwnInv, RowsInv, RecordInv, NEW t \in Turn, CloseRequest(t), NEW p \in Unshared',
           NEW r \in attached[t], r.path = p
    PROVE  saved[p] = 0 /\ Contents(p) \subseteq {None, s3[p]}
<1>0. /\ attached \in [Turn -> SUBSET Row] /\ rows \subseteq Row /\ saved \in [Path -> Nat]
      /\ p \in Path /\ FilesInv
  BY RecordTypes DEF OwnInv, FilesInv, FilesTypeOK, Unshared
<1>1. /\ r.by = t /\ r.kind = "upload" /\ p \in Uploads[t]
  BY <1>0 DEF RowsInv
<1>2. rows' = rows \cup attached[t]
  BY DEF CloseRequest
<1>3. ~HasRow(p)
  <2>1. SUFFICES ASSUME NEW q \in rows, q.path = p  PROVE FALSE
    BY DEF HasRow
  <2>2. q = r
    BY <1>2, <2>1 DEF Unshared
  <2>. QED  BY <1>1, <2>2 DEF RowsInv
<1>4. saved[p] = 0 /\ box[p] = None /\ \A j \in jobs : j.path = p => j.data = None
  BY <1>0, <1>1, <1>3 DEF RecordInv
<1>5. \A x \in pull : x.row.path # p
  BY <1>3 DEF OwnInv, PullInv, HasRow
<1>. QED  BY <1>4, <1>5 DEF Contents

\* When a turn without a failure releases the lock, S3 has what it has stored,
\* and nothing is on its way.
LEMMA AllStored ==
    ASSUME OwnInv, JobsInv, PushInv, ~late, clean, NEW t \in Turn, ReleaseLock(t),
           NEW p \in Unshared, box[p] # None
    PROVE  /\ s3[p] # None /\ s3[p].rev >= box[p].rev
           /\ Contents(p) = {box[p], s3[p]}
<1>1. at[t] = "push" /\ \A j \in jobs : j.turn = t => j.task # 0
  BY DEF ReleaseLock
<1>2. jobs = {} /\ pull = {}
  BY <1>1, Alone DEF Holds
<1>. QED  BY <1>1, <1>2 DEF PushInv, Pushed, Contents

LEMMA KeptStep ==
    ASSUME WorkInv, [Next]_vars
    PROVE  KeptInv'
<1>0. /\ FilesInv /\ OwnInv /\ rows \subseteq rows' /\ Unshared' \subseteq Unshared
      /\ Unshared \subseteq Path
  BY RowsGrow, SharedStay DEF WorkInv, OwnInv, Unshared
<1>. SUFFICES ASSUME ~late', NEW p \in Unshared'
              PROVE  /\ saved'[p] > 0 \/ (\E t \in Turn : pushed'[t][p] > 0) => s3'[p] # None
                     /\ \A d \in Contents(p)' : d # None =>
                           /\ d.rev >= saved'[p]
                           /\ \A t \in Turn : d.rev >= pushed'[t][p]
  BY DEF KeptInv, NotOlder
<1>1. /\ p \in Unshared /\ p \in Path /\ ~late
      /\ saved \in [Path -> Nat] /\ \A t \in Turn : pushed[t] \in [Path -> Nat]
      /\ clock \in Nat
  BY <1>0, RecordTypes, SavedStep
<1>2. /\ saved[p] > 0 \/ (\E t \in Turn : pushed[t][p] > 0) => s3[p] # None
      /\ \A d \in Contents(p) : d # None =>
            /\ d \in Data /\ d.rev \in Nat
            /\ d.rev >= saved[p] /\ \A t \in Turn : d.rev >= pushed[t][p]
      /\ s3[p] \in Contents(p) /\ box[p] \in Contents(p)
      /\ saved[p] <= clock /\ \A t \in Turn : pushed[t][p] <= clock
      /\ s3[p] # None => s3'[p] # None
  BY <1>0, <1>1, ContentsOwn, ObjectStays DEF WorkInv, KeptInv, NotOlder, ClockInv, Contents
<1>3. \A e \in Data : e # None
  BY NoData
<1>4. NothingSaved[p] = 0
  BY <1>1 DEF NothingSaved
<1>5. CASE saved' = saved /\ \A t \in Turn : pushed'[t] \in {pushed[t], NothingSaved}
  <2>1. \A t \in Turn : pushed'[t][p] \in {pushed[t][p], 0}
    BY <1>4, <1>5
  <2>2. ASSUME NEW d \in Contents(p)', d # None
        PROVE  d.rev >= saved[p] /\ \A t \in Turn : d.rev >= pushed'[t][p]
    <3>1. CASE d \in Contents(p)
      BY <1>1, <1>2, <2>1, <2>2, <3>1
    <3>2. CASE d.rev = clock + 1
      BY <1>1, <1>2, <2>1, <3>2
    <3>. QED  BY <1>0, <1>1, <2>2, <3>1, <3>2, ContentsStep
  <2>. QED  BY <1>1, <1>2, <1>5, <2>1, <2>2
<1>6. ASSUME NEW t \in Turn, CloseRequest(t)
      PROVE  /\ saved'[p] > 0 \/ (\E u \in Turn : pushed'[u][p] > 0) => s3'[p] # None
             /\ \A d \in Contents(p)' : d # None =>
                   d.rev >= saved'[p] /\ \A u \in Turn : d.rev >= pushed'[u][p]
  <2>1. /\ saved' = Newer(saved, Revisions(s3, attached[t])) /\ pushed' = pushed
        /\ UNCHANGED <<s3, box, pull, jobs>>
    BY <1>6 DEF CloseRequest, syncVars, boxVars
  <2>2. Contents(p)' = Contents(p)
    BY <2>1 DEF Contents
  <2>3. saved'[p] \in {saved[p], Revisions(s3, attached[t])[p]}
    BY <1>1, <2>1 DEF Newer
  <2>4. CASE saved'[p] = saved[p]
    BY <1>2, <2>1, <2>2, <2>4
  <2>5. CASE saved'[p] # saved[p] /\ saved'[p] = Revisions(s3, attached[t])[p]
    <3>1. CASE saved'[p] = 0
      <4>1. saved'[p] >= saved[p]
        BY <1>1, <2>1, <2>3, <2>5, <3>1, RevisionFacts DEF Newer
      <4>. QED  BY <1>1, <2>5, <3>1, <4>1
    <3>2. CASE saved'[p] # 0
      <4>1. saved'[p] = s3[p].rev /\ s3[p] \in Data /\ \E r \in attached[t] : r.path = p
        BY <1>1, <2>5, <3>2, RevisionFacts
      <4>2. Contents(p) \subseteq {None, s3[p]}
        BY <1>0, <1>6, <4>1, FirstRow DEF WorkInv
      <4>. QED  BY <1>2, <1>3, <2>1, <2>2, <4>1, <4>2
    <3>. QED  BY <3>1, <3>2
  <2>. QED  BY <2>3, <2>4, <2>5
<1>7. ASSUME NEW t \in Turn, Commit(t)
      PROVE  /\ saved'[p] > 0 \/ (\E u \in Turn : pushed'[u][p] > 0) => s3'[p] # None
             /\ \A d \in Contents(p)' : d # None =>
                   d.rev >= saved'[p] /\ \A u \in Turn : d.rev >= pushed'[u][p]
  <2>1. /\ saved' = Newer(saved, pushed[t]) /\ pushed' = [pushed EXCEPT ![t] = NothingSaved]
        /\ UNCHANGED <<s3, box, pull, jobs>>
    BY <1>7 DEF Commit, syncVars, boxVars
  <2>2. Contents(p)' = Contents(p)
    BY <2>1 DEF Contents
  <2>3. saved'[p] \in {saved[p], pushed[t][p]}
    BY <1>1, <2>1 DEF Newer
  <2>4. pushed \in [Turn -> [Path -> 0..MaxRev]]
    BY <1>0 DEF FilesInv, FilesTypeOK
  <2>5. \A u \in Turn : pushed'[u][p] \in {pushed[u][p], 0}
    BY <1>4, <2>1, <2>4
  <2>. QED  BY <1>1, <1>2, <2>1, <2>2, <2>3, <2>5
<1>8. ASSUME NEW t \in Turn, ReleaseLock(t)
      PROVE  /\ saved'[p] > 0 \/ (\E u \in Turn : pushed'[u][p] > 0) => s3'[p] # None
             /\ \A d \in Contents(p)' : d # None =>
                   d.rev >= saved'[p] /\ \A u \in Turn : d.rev >= pushed'[u][p]
  <2>0. pushed \in [Turn -> [Path -> 0..MaxRev]]
    BY <1>0 DEF FilesInv, FilesTypeOK
  <2>1. /\ pushed' = [pushed EXCEPT ![t] =
              IF clean THEN Revisions(box, rows \cup drafts[t]) ELSE NothingSaved]
        /\ UNCHANGED <<s3, box, pull, jobs, saved>>
    BY <1>8 DEF ReleaseLock, syncVars, boxVars, storeVars
  <2>2. Contents(p)' = Contents(p)
    BY <2>1 DEF Contents
  <2>3. \A u \in Turn : u # t => pushed'[u][p] = pushed[u][p]
    BY <2>0, <2>1
  <2>4. CASE pushed'[t][p] = 0
    <3>1. \A u \in Turn : pushed'[u][p] \in {pushed[u][p], 0}
      BY <2>3, <2>4
    <3>2. s3'[p] = s3[p] /\ saved'[p] = saved[p]
      BY <2>1
    <3>3. saved'[p] > 0 \/ (\E u \in Turn : pushed'[u][p] > 0) => s3'[p] # None
      BY <1>2, <3>1, <3>2
    <3>4. \A d \in Contents(p) : d # None =>
             d.rev >= saved'[p] /\ \A u \in Turn : d.rev >= pushed'[u][p]
      BY <1>2, <3>1, <3>2
    <3>. QED  BY <2>2, <3>3, <3>4
  <2>5. CASE pushed'[t][p] # 0
    <3>1. clean /\ pushed'[t] = Revisions(box, rows \cup drafts[t])
      BY <1>4, <2>0, <2>1, <2>5
    <3>2. pushed'[t][p] = box[p].rev /\ box[p] \in Data
      BY <1>1, <2>5, <3>1, RevisionFacts
    <3>3. /\ s3[p] # None /\ s3[p].rev >= box[p].rev /\ Contents(p) = {box[p], s3[p]}
      BY <1>0, <1>1, <1>3, <1>8, <3>1, <3>2, AllStored DEF WorkInv
    <3>4. \A d \in Contents(p) : d # None => d.rev >= pushed'[t][p]
      BY <1>2, <3>2, <3>3
    <3>. QED  BY <1>2, <2>1, <2>2, <2>3, <3>3, <3>4
  <2>. QED  BY <2>4, <2>5
<1>9. \/ saved' = saved /\ \A t \in Turn : pushed'[t] \in {pushed[t], NothingSaved}
      \/ \E t \in Turn : CloseRequest(t) \/ Commit(t) \/ ReleaseLock(t)
  BY <1>0, SavedStep
<1>. QED  BY <1>5, <1>6, <1>7, <1>8, <1>9

-----------------------------------------------------------------------------
(* The two syncs of a turn *)

\* A turn that has had no failure in its phase still has none, and works in
\* the phase it was in, unless it has just begun it.
LEMMA PhaseStep ==
    ASSUME OwnInv, [Next]_vars, clean', NEW t \in Turn, at'[t] \in {"pull", "push"}
    PROVE  \/ Enter(t) \/ StartFinalSync(t)
           \/ at[t] = at'[t] /\ clean /\ promised' = promised
<1>0. at \in [Turn -> {"request", "lock", "pull", "agent", "wait", "push", "commit", "over"}]
  BY DEF OwnInv, FilesInv, FilesTypeOK
<1>1. Enter(t) \/ StartFinalSync(t) \/ at[t] = at'[t]
  <2>1. ASSUME NEW u \in Turn, Request(u)  PROVE at[t] = at'[t]
    BY <1>0, <2>1 DEF Request, PutAttachment, SaveFileRecord, AttachFails, Respond, CloseRequest,
                      GoTo
  <2>2. ASSUME NEW u \in Turn, TurnStep(u)
        PROVE  Enter(t) \/ StartFinalSync(t) \/ at[t] = at'[t]
    BY <1>0, <2>2 DEF TurnStep, Enter, Refused, BeginAgent, StartSync, EndStream, StartFinalSync,
                      ReleaseLock, Commit, TurnFails, GoTo
  <2>3. CASE SyncStep \/ (\E p \in Path : AgentWrites(p)) \/ LoseContainer \/ UNCHANGED vars
    BY <2>3 DEF SyncStep, Download, SendChunk, Decode, TransferFails, FindFiles, ReadFile,
                PutFile, RecordFile, SyncFails, AgentWrites, LoseContainer, vars
  <2>4. CASE Die
    BY <2>4 DEF Die
  <2>. QED  BY <2>1, <2>2, <2>3, <2>4 DEF Next
<1>2. CASE at[t] = at'[t]
  <2>0. Holds(t) /\ \A u \in Turn : Holds(u) => u = t
    BY <1>0, <1>2 DEF Holds, OwnInv, HoldInv
  <2>1. ASSUME NEW u \in Turn, TurnStep(u)  PROVE clean' = clean /\ promised' = promised
    <3>1. CASE Enter(u)
      BY <2>0, <3>1 DEF Enter
    <3>2. CASE BeginAgent(u) \/ StartFinalSync(u) \/ ReleaseLock(u)
      <4>1. Holds(u) /\ at'[u] \in {"agent", "push", "commit"} /\ at'[u] # at[u]
        BY <1>0, <3>2 DEF BeginAgent, StartFinalSync, ReleaseLock, GoTo, Holds
      <4>. QED  BY <1>2, <2>0, <4>1
    <3>3. CASE TurnFails(u)
      <4>1. at' = [at EXCEPT ![u] = "over"]
        BY <3>3 DEF TurnFails, GoTo
      <4>2. ~Holds(u)
        BY <1>0, <1>2, <2>0, <4>1
      <4>. QED  BY <3>3, <4>2 DEF TurnFails
    <3>4. CASE Refused(u) \/ StartSync(u) \/ EndStream(u) \/ Commit(u)
      BY <3>4 DEF Refused, StartSync, EndStream, Commit, history
    <3>. QED  BY <2>1, <3>1, <3>2, <3>3, <3>4 DEF TurnStep
  <2>2. ASSUME NEW u \in Turn, Request(u)  PROVE clean' = clean /\ promised' = promised
    BY <2>2 DEF Request, PutAttachment, SaveFileRecord, AttachFails, Respond, CloseRequest, history
  <2>3. CASE SyncStep
    BY <2>3 DEF SyncStep, Download, SendChunk, Decode, TransferFails, FindFiles, ReadFile,
                PutFile, RecordFile, SyncFails, history
  <2>4. CASE LoseContainer
    BY <1>2, <2>4 DEF LoseContainer
  <2>5. CASE Die
    BY <2>5 DEF Die
  <2>6. CASE UNCHANGED vars \/ \E p \in Path : AgentWrites(p)
    BY <2>6 DEF vars, AgentWrites, history
  <2>. QED  BY <1>2, <2>1, <2>2, <2>3, <2>4, <2>5, <2>6 DEF Next
<1>. QED  BY <1>1, <1>2

LEMMA PushJobs ==
    ASSUME OwnInv, JobsInv, ~late, NEW p \in Unshared, Pushed(p), NEW j \in jobs,
           FindFiles(j) \/ ReadFile(j) \/ PutFile(j) \/ RecordFile(j)
    PROVE  Pushed(p)'
<1>0. /\ j \in Job /\ p \in Path /\ j.step # "thread"
      /\ s3 \in [Path -> Data \cup {None, Mixed}] /\ box \in [Path -> Data \cup {None, Mixed}]
      /\ box' = box
  BY DEF OwnInv, FilesInv, FilesTypeOK, Unshared, JobsInv, FindFiles, ReadFile, PutFile,
         RecordFile, boxVars
<1>1. CASE FindFiles(j)
  <2>1. /\ jobs' = (jobs \ {j}) \cup {Found(j, q) : q \in {r \in Path : box[r] # None}}
        /\ s3' = s3
    BY <1>1 DEF FindFiles, Found, storeVars
  <2>2. Found(j, p).path = p /\ \A q \in Path : Found(j, q).step = "read"
    BY <1>0, JobRecords
  <2>3. box[p] # None => \E k \in jobs' : k.path = p /\ k.step \in {"read", "put"}
    BY <1>0, <2>1, <2>2
  <2>4. \A k \in jobs' : k.step = "put" => k \in jobs
    BY <2>1, <2>2
  <2>. QED  BY <1>0, <2>3, <2>4 DEF Pushed
<1>2. CASE ReadFile(j)
  <2>1. jobs' = Replace(jobs, j, Taken(j)) /\ s3' = s3 /\ j.step = "read"
    BY <1>2 DEF ReadFile, Taken, storeVars
  <2>2. Taken(j).path = j.path /\ Taken(j).step = "put" /\ Taken(j).data = box[j.path]
    BY <1>0, JobRecords
  <2>. QED  BY <1>0, <2>1, <2>2 DEF Pushed, Replace
<1>3. CASE PutFile(j)
  <2>1. /\ s3' = [s3 EXCEPT ![j.path] = j.data] /\ jobs' = Replace(jobs, j, Stored(j))
        /\ j.step = "put"
    BY <1>0, <1>3 DEF PutFile, Stored
  <2>2. Stored(j).step = "record"
    BY <1>0, JobRecords
  <2>3. \A k \in jobs' : k.step = "put" => k \in jobs
    BY <2>1, <2>2 DEF Replace
  <2>4. CASE j.path = p
    <3>1. s3'[p] = box[p]
      BY <1>0, <2>1, <2>4 DEF Pushed
    <3>2. box[p] # None => box[p].rev >= box[p].rev
      <4>1. box[p] \in Contents(p)
        BY DEF Contents
      <4>2. box[p] # None => box[p].rev \in Nat
        BY <4>1, ContentsOwn
      <4>. QED  BY <4>2
    <3>. QED  BY <1>0, <2>3, <3>1, <3>2 DEF Pushed
  <2>5. CASE j.path # p
    <3>1. s3'[p] = s3[p]
      BY <1>0, <2>1, <2>5
    <3>2. \A k \in jobs : k # j => k \in jobs'
      BY <2>1 DEF Replace
    <3>. QED  BY <1>0, <2>1, <2>3, <2>5, <3>1, <3>2 DEF Pushed
  <2>. QED  BY <2>4, <2>5
<1>4. CASE RecordFile(j)
  <2>1. jobs' = jobs \ {j} /\ s3' = s3 /\ j.step = "record"
    BY <1>4 DEF RecordFile, storeVars
  <2>. QED  BY <1>0, <2>1 DEF Pushed
<1>. QED  BY <1>1, <1>2, <1>3, <1>4

LEMMA PushStep ==
    ASSUME WorkInv, [Next]_vars
    PROVE  PushInv'
<1>0. /\ FilesInv /\ OwnInv /\ JobsInv /\ rows \subseteq rows' /\ Unshared' \subseteq Unshared
      /\ at \in [Turn -> {"request", "lock", "pull", "agent", "wait", "push", "commit", "over"}]
      /\ jobs \subseteq Job
  BY RowsGrow, SharedStay DEF WorkInv, OwnInv, FilesInv, FilesTypeOK
<1>. SUFFICES ASSUME ~late', clean', NEW t \in Turn, at'[t] = "push", NEW p \in Unshared'
              PROVE  Pushed(p)'
  BY DEF PushInv, Pushed
<1>1. ~late /\ p \in Unshared /\ p \in Path
  BY <1>0, SavedStep DEF Unshared
<1>2. CASE StartFinalSync(t)
  <2>1. /\ jobs' = jobs \cup {FindIn(t, 0)} /\ at[t] = "wait" /\ Background(t) = {}
    BY <1>2 DEF StartFinalSync
  <2>2. jobs = {}
    BY <1>0, <1>1, <2>1, Alone DEF Holds
  <2>3. FindIn(t, 0).step = "find"
    BY DEF FindIn
  <2>. QED  BY <2>1, <2>2, <2>3 DEF Pushed
<1>3. CASE at[t] = "push" /\ clean
  <2>1. /\ \A u \in Turn : Holds(u) => u = t
        /\ pull = {} /\ \A j \in jobs : j.turn = t /\ j.task = 0
        /\ Pushed(p)
    <3>1. Holds(t)
      BY <1>3 DEF Holds
    <3>2. Pushed(p)
      BY <1>1, <1>3 DEF WorkInv, PushInv, Pushed
    <3>. QED  BY <1>0, <1>1, <1>3, <3>1, <3>2, Alone DEF OwnInv, HoldInv
  <2>2. ASSUME box' = box, s3' = s3, jobs' = jobs  PROVE Pushed(p)'
    BY <2>1, <2>2 DEF Pushed
  <2>3. ASSUME NEW u \in Turn, NEW q \in Path, PutAttachment(u, q)  PROVE Pushed(p)'
    <3>1. /\ s3' = [s3 EXCEPT ![q] = [path |-> q, rev |-> clock + 1]]
          /\ box' = box /\ jobs' = jobs /\ clock < MaxRev
      BY <2>3 DEF PutAttachment, boxVars, syncVars
    <3>2. s3 \in [Path -> Data \cup {None, Mixed}] /\ clock \in Nat
      BY <1>0, RecordTypes DEF FilesInv, FilesTypeOK
    <3>3. CASE q = p
      <4>1. s3'[p] = [path |-> p, rev |-> clock + 1]
        BY <1>1, <3>1, <3>2, <3>3
      <4>2. s3'[p].rev = clock + 1
        BY <4>1
      <4>3. s3'[p] # None
        <5>1. clock + 1 \in 1..MaxRev
          BY <3>1, <3>2, FilesAssumption
        <5>2. s3'[p] \in Data
          BY <1>1, <4>1, <5>1 DEF Data
        <5>. QED  BY <5>2, NoData
      <4>4. box[p] # None => box[p].rev \in Nat /\ box[p].rev <= clock
        <5>1. box[p] \in Contents(p)
          BY DEF Contents
        <5>. QED  BY <1>0, <1>1, <5>1, ContentsOwn DEF WorkInv, ClockInv
      <4>5. box[p] # None => s3'[p].rev >= box[p].rev
        BY <3>2, <4>2, <4>4
      <4>. QED  BY <2>1, <3>1, <4>3, <4>5 DEF Pushed
    <3>4. CASE q # p
      <4>1. s3'[p] = s3[p]
        BY <1>1, <3>1, <3>2, <3>4
      <4>. QED  BY <2>1, <3>1, <4>1 DEF Pushed
    <3>. QED  BY <3>3, <3>4
  <2>4. ASSUME NEW u \in Turn, Request(u), ~ \E q \in Path : PutAttachment(u, q)
        PROVE  Pushed(p)'
    <3>1. box' = box /\ s3' = s3 /\ jobs' = jobs
      BY <2>4 DEF Request, SaveFileRecord, AttachFails, Respond, CloseRequest, boxVars,
                  storeVars, syncVars
    <3>. QED  BY <2>2, <3>1
  <2>5. ASSUME NEW u \in Turn, TurnStep(u)  PROVE Pushed(p)'
    <3>0. box' = box /\ s3' = s3
      BY <2>5 DEF TurnStep, Enter, Refused, BeginAgent, StartSync, EndStream, StartFinalSync,
                  ReleaseLock, Commit, TurnFails, boxVars, storeVars
    <3>1. CASE StartSync(u) \/ StartFinalSync(u)
      <4>1. Holds(u) /\ at[u] # "push"
        BY <3>1 DEF StartSync, StartFinalSync, Holds
      <4>. QED  BY <1>3, <2>1, <4>1
    <3>2. CASE TurnFails(u)
      <4>1. at' = [at EXCEPT ![u] = "over"]
            /\ jobs' = {j \in jobs : j.turn = u => j.task # 0}
                         \cup {[j EXCEPT !.step = "thread"] : j \in Calls(u)}
        BY <3>2 DEF TurnFails, GoTo
      <4>2. u # t
        BY <1>0, <4>1
      <4>3. Calls(u) = {} /\ \A j \in jobs : j.turn # u
        BY <2>1, <4>2 DEF Calls
      <4>4. jobs' = jobs
        BY <4>1, <4>3
      <4>. QED  BY <2>2, <3>0, <4>4
    <3>3. CASE ~(StartSync(u) \/ StartFinalSync(u) \/ TurnFails(u))
      <4>1. jobs' = jobs
        BY <2>5, <3>3 DEF TurnStep, Enter, Refused, BeginAgent, EndStream, ReleaseLock, Commit,
                          syncVars
      <4>. QED  BY <2>2, <3>0, <4>1
    <3>. QED  BY <3>1, <3>2, <3>3
  <2>6. ASSUME NEW q \in Path, AgentWrites(q)  PROVE Pushed(p)'
    BY <1>3, <2>1, <2>6 DEF AgentWrites, Holds
  <2>7. CASE SyncStep
    <3>1. PICK j \in jobs :
             FindFiles(j) \/ ReadFile(j) \/ PutFile(j) \/ RecordFile(j) \/ SyncFails(j)
      BY <2>1, <2>7 DEF SyncStep
    <3>2. ~SyncFails(j)
      BY <2>1 DEF SyncFails
    <3>. QED  BY <1>0, <1>1, <2>1, <3>1, <3>2, PushJobs
  <2>8. CASE LoseContainer
    BY <1>3, <2>8 DEF LoseContainer
  <2>9. CASE Die
    BY <2>9 DEF Die
  <2>10. CASE UNCHANGED vars
    BY <2>2, <2>10 DEF vars, boxVars, storeVars, syncVars
  <2>. QED  BY <2>3, <2>4, <2>5, <2>6, <2>7, <2>8, <2>9, <2>10 DEF Next
<1>4. CASE Enter(t)
  BY <1>0, <1>4 DEF Enter, GoTo
<1>. QED  BY <1>0, <1>2, <1>3, <1>4, PhaseStep

LEMMA PromiseStep ==
    ASSUME FilesInv, FilesInv', SeenInv, [Next]_vars, NEW p \in Path
    PROVE  promised'[p] <= saved'[p]
<1>0. /\ saved \in [Path -> Nat] /\ saved' \in [Path -> Nat] /\ promised \in [Path -> Nat]
      /\ \A t \in Turn : pushed[t] \in [Path -> Nat]
      /\ promised[p] <= saved[p]
  BY RecordTypes, NextTypes DEF SeenInv
<1>1. saved'[p] >= saved[p]
  <2>1. ASSUME NEW t \in Turn, CloseRequest(t) \/ Commit(t)  PROVE saved'[p] >= saved[p]
    <3>1. PICK other : saved' = Newer(saved, other)
      BY <2>1 DEF CloseRequest, Commit
    <3>2. saved'[p] = IF saved[p] > other[p] THEN saved[p] ELSE other[p]
      BY <3>1 DEF Newer
    <3>3. saved'[p] \in Nat /\ saved[p] \in Nat
      BY <1>0
    <3>4. CASE Commit(t)
      <4>1. saved' = Newer(saved, pushed[t])
        BY <3>4 DEF Commit
      <4>. QED  BY <1>0, <4>1, NewerFacts
    <3>5. CASE CloseRequest(t)
      <4>1. saved' = Newer(saved, Revisions(s3, attached[t]))
        BY <3>5 DEF CloseRequest
      <4>2. Revisions(s3, attached[t]) \in [Path -> Nat]
        <5>1. \A q \in Path : s3[q] \in Data => s3[q].rev \in Nat
          <6>1. 1..MaxRev \subseteq Nat
            BY FilesAssumption
          <6>. QED  BY <6>1 DEF Data
        <5>. QED  BY <5>1 DEF Revisions
      <4>. QED  BY <1>0, <4>1, <4>2, NewerFacts
    <3>. QED  BY <2>1, <3>4, <3>5
  <2>. QED  BY <1>0, <2>1, SavedStep
<1>2. promised' \in {promised, saved, NothingSaved}
  BY DEF Next, vars, Request, PutAttachment, SaveFileRecord, AttachFails, Respond,
     CloseRequest, TurnStep, Enter, Refused, BeginAgent, StartSync, EndStream, StartFinalSync,
     ReleaseLock, Commit, TurnFails, SyncStep, Download, SendChunk, Decode, TransferFails,
     FindFiles, ReadFile, PutFile, RecordFile, SyncFails, AgentWrites, LoseContainer, Die,
     Forget, history
<1>3. NothingSaved[p] = 0
  BY DEF NothingSaved
<1>. QED  BY <1>0, <1>1, <1>2, <1>3

LEMMA SeenStep ==
    ASSUME WorkInv, [Next]_vars
    PROVE  SeenInv'
<1>0. /\ FilesInv /\ OwnInv /\ JobsInv /\ SeenInv /\ rows \subseteq rows'
      /\ Unshared' \subseteq Unshared /\ pull \subseteq Transfer
      /\ at \in [Turn -> {"request", "lock", "pull", "agent", "wait", "push", "commit", "over"}]
  BY RowsGrow, SharedStay DEF WorkInv, OwnInv, FilesInv, FilesTypeOK
<1>1. \A p \in Path : promised'[p] <= saved'[p]
  BY <1>0, OwnStep, PromiseStep DEF OwnInv
<1>. SUFFICES ASSUME ~late', clean', NEW t \in Turn, at'[t] = "pull", NEW p \in Unshared'
              PROVE  Seen(p)'
  BY <1>1 DEF SeenInv, Seen
<1>2. ~late /\ p \in Unshared /\ p \in Path
  BY <1>0, SavedStep DEF Unshared
<1>3. CASE Enter(t)
  <2>1. /\ promised' = saved
        /\ pull' = {[turn |-> t, row |-> r, step |-> "get", data |-> None, sent |-> 0] : r \in rows}
    BY <1>3 DEF Enter
  <2>2. saved[p] > 0 => \E r \in rows : r.path = p
    BY <1>2 DEF WorkInv, RecordInv, HasRow
  <2>3. ASSUME NEW r \in rows  PROVE \E x \in pull' : x.row = r
    <3>1. [turn |-> t, row |-> r, step |-> "get", data |-> None, sent |-> 0] \in pull'
      BY <2>1
    <3>. QED  BY <3>1
  <2>. QED  BY <2>1, <2>2, <2>3 DEF Seen
<1>4. CASE at[t] = "pull" /\ clean /\ promised' = promised
  <2>1. Seen(p) /\ Holds(t) /\ \A u \in Turn : Holds(u) => u = t
    BY <1>0, <1>2, <1>4 DEF SeenInv, Seen, Holds, OwnInv, HoldInv
  <2>2. ASSUME box' = box, pull' = pull  PROVE Seen(p)'
    BY <1>4, <2>1, <2>2 DEF Seen
  <2>3. ASSUME NEW x \in pull, Download(x) \/ SendChunk(x) \/ Decode(x) \/ TransferFails(x)
        PROVE  Seen(p)'
    <3>0. x \in Transfer
      BY <1>0
    <3>1. CASE Download(x)
      <4>1. pull' = Replace(pull, x, Loaded(x)) /\ box' = box
        BY <3>1 DEF Download, Loaded, boxVars
      <4>2. Loaded(x).row = x.row
        BY <3>0, TransferRecords
      <4>. QED  BY <1>4, <2>1, <4>1, <4>2 DEF Seen, Replace
    <3>2. CASE SendChunk(x)
      <4>1. pull' = Replace(pull, x, Sent(x)) /\ box' = box
        BY <3>2 DEF SendChunk, Sent
      <4>2. Sent(x).row = x.row
        BY <3>0, TransferRecords
      <4>. QED  BY <1>4, <2>1, <4>1, <4>2 DEF Seen, Replace
    <3>3. CASE Decode(x)
      <4>1. /\ pull' = pull \ {x} /\ x.step = "decode"
            /\ box' = [box EXCEPT ![x.row.path] = Decoded(tmp[TmpOf(x)])]
        BY <3>3 DEF Decode
      <4>2. CASE x.row.path = p
        <5>1. box'[p] = x.data /\ x.data # None
          BY <1>0, <1>2, <3>3, <4>1, <4>2, DecodeStep DEF FilesInv, TransferInv
        <5>2. x.data \in Contents(p)
          BY <4>2 DEF Contents
        <5>3. x.data.rev >= saved[p] /\ x.data.rev \in Nat
          BY <1>0, <1>2, <5>1, <5>2, ContentsOwn DEF WorkInv, KeptInv, NotOlder
        <5>4. promised[p] <= saved[p] /\ promised[p] \in Nat /\ saved[p] \in Nat
          BY <1>0, <1>2, RecordTypes DEF SeenInv
        <5>. QED  BY <1>4, <5>1, <5>3, <5>4 DEF Seen
      <4>3. CASE x.row.path # p
        <5>1. box'[p] = box[p]
          BY <1>0, <1>2, <4>1, <4>3 DEF FilesInv, FilesTypeOK
        <5>. QED  BY <1>4, <2>1, <4>1, <4>3, <5>1 DEF Seen
      <4>. QED  BY <4>2, <4>3
    <3>4. CASE TransferFails(x)
      BY <3>4 DEF TransferFails
    <3>. QED  BY <2>3, <3>1, <3>2, <3>3, <3>4
  <2>4. ASSUME NEW u \in Turn, TurnStep(u)  PROVE Seen(p)'
    <3>0. box' = box
      BY <2>4 DEF TurnStep, Enter, Refused, BeginAgent, StartSync, EndStream, StartFinalSync,
                  ReleaseLock, Commit, TurnFails, boxVars
    <3>1. CASE Enter(u)
      BY <2>1, <3>1 DEF Enter
    <3>2. CASE BeginAgent(u)
      <4>1. Holds(u) /\ at'[u] = "agent"
        BY <1>0, <3>2 DEF BeginAgent, GoTo, Holds
      <4>. QED  BY <2>1, <4>1
    <3>3. CASE TurnFails(u)
      <4>1. at' = [at EXCEPT ![u] = "over"] /\ pull' = {x \in pull : x.turn # u}
        BY <3>3 DEF TurnFails, GoTo
      <4>2. u # t
        BY <1>0, <4>1
      <4>3. \A x \in pull : x.turn = t
        BY <1>0, <2>1, TransferRecords DEF OwnInv, PullInv, Holds
      <4>4. pull' = pull
        BY <4>1, <4>2, <4>3
      <4>. QED  BY <2>2, <3>0, <4>4
    <3>4. CASE ~(Enter(u) \/ BeginAgent(u) \/ TurnFails(u))
      <4>1. pull' = pull
        BY <2>4, <3>4 DEF TurnStep, Refused, StartSync, EndStream, StartFinalSync, ReleaseLock,
                          Commit, syncVars
      <4>. QED  BY <2>2, <3>0, <4>1
    <3>. QED  BY <3>1, <3>2, <3>3, <3>4
  <2>5. ASSUME NEW q \in Path, AgentWrites(q)  PROVE Seen(p)'
    BY <1>4, <2>1, <2>5 DEF AgentWrites, Holds
  <2>6. CASE LoseContainer
    BY <1>4, <2>6 DEF LoseContainer
  <2>7. CASE Die
    BY <2>7 DEF Die
  <2>8. CASE \/ UNCHANGED vars \/ (\E u \in Turn : Request(u))
             \/ \E j \in jobs : FindFiles(j) \/ ReadFile(j) \/ PutFile(j) \/ RecordFile(j)
                                 \/ SyncFails(j)
    <3>1. box' = box /\ pull' = pull
      BY <2>8 DEF vars, boxVars, syncVars, Request, PutAttachment, SaveFileRecord, AttachFails,
                  Respond, CloseRequest, FindFiles, ReadFile, PutFile, RecordFile, SyncFails
    <3>. QED  BY <2>2, <3>1
  <2>. QED  BY <2>3, <2>4, <2>5, <2>6, <2>7, <2>8 DEF Next, SyncStep
<1>5. CASE StartFinalSync(t)
  BY <1>0, <1>5 DEF StartFinalSync, GoTo
<1>. QED  BY <1>0, <1>3, <1>4, <1>5, PhaseStep

-----------------------------------------------------------------------------
(* The theorems *)

LEMMA WorkInit == Init => WorkInv
<1>. SUFFICES ASSUME Init PROVE WorkInv
  OBVIOUS
<1>1. OwnInv /\ FilesInv
  BY InitOwn DEF OwnInv
<1>2. \A p \in Path : NothingSaved[p] = 0
  BY DEF NothingSaved
<1>3. \A p \in Unshared : p \in Path
  BY DEF Unshared
<1>4. RowsInv /\ JobsInv
  BY DEF Init, RowsInv, JobsInv
<1>5. RecordInv
  BY <1>2 DEF Init, RecordInv
<1>6. \A p \in Unshared : Contents(p) = {None}
  BY <1>3 DEF Init, Contents
<1>7. ClockInv /\ KeptInv
  BY <1>2, <1>3, <1>6 DEF Init, ClockInv, KeptInv
<1>8. PushInv /\ SeenInv
  BY <1>2, <1>3 DEF Init, PushInv, SeenInv, Pushed, Seen
<1>. QED  BY <1>1, <1>4, <1>5, <1>7, <1>8 DEF WorkInv

LEMMA WorkStep == WorkInv /\ [Next]_vars => WorkInv'
<1>. SUFFICES ASSUME WorkInv, [Next]_vars PROVE WorkInv'
  OBVIOUS
<1>1. /\ OwnInv /\ FilesInv /\ RowsInv /\ RecordInv /\ ClockInv /\ JobsInv
  BY DEF WorkInv, OwnInv
<1>. QED  BY <1>1, OwnStep, RowsStep, RecordStep, ClockStep, JobsStep, KeptStep, PushStep,
             SeenStep DEF WorkInv

LEMMA WorkAlways == Spec => []WorkInv
BY WorkInit, WorkStep, PTL DEF Spec

\* For any requests and paths, and any number of background syncs: what a
\* committed transaction has recorded of a file with a name of its own and one
\* row is in S3 for good, as long as no sync outlives the wait for it.
\* Whatever is on its way is at least as new as what is on record.
THEOREM FilesNoWorkLost == Spec => []NoWorkLost
<1>1. WorkInv => NoWorkLost
  <2>. SUFFICES ASSUME WorkInv, ~late, NEW p \in Unshared, saved[p] > 0
                PROVE  s3[p] \in Data /\ s3[p].rev >= saved[p]
    BY DEF NoWorkLost, AtLeast
  <2>1. s3[p] # None /\ s3[p] \in Contents(p)
    BY DEF WorkInv, KeptInv, Contents
  <2>. QED  BY <2>1, ContentsOwn DEF WorkInv, KeptInv, NotOlder
<1>. QED  BY <1>1, WorkAlways, PTL

\* A turn whose transfers have all been made gives its agent every file that
\* was on record when they were listed, at least as new as it was then.
THEOREM FilesAgentSees == Spec => AgentSeesFiles
<1>. DEFINE Given == \A t \in Turn : at[t] = "pull" /\ at'[t] = "agent" /\ clean /\ ~late
                        => AtLeast(box, promised)
<1>1. WorkInv /\ [Next]_vars => Given
  <2>. SUFFICES ASSUME WorkInv, [Next]_vars, NEW t \in Turn,
                       at[t] = "pull", at'[t] = "agent", clean, ~late,
                       NEW p \in Unshared, promised[p] > 0
                PROVE  box[p] \in Data /\ box[p].rev >= promised[p]
    BY DEF AtLeast
  <2>0. OwnInv /\ at \in [Turn -> {"request", "lock", "pull", "agent", "wait", "push",
                                   "commit", "over"}]
    BY DEF WorkInv, OwnInv, FilesInv, FilesTypeOK
  <2>1. pull = {}
    <3>1. ASSUME NEW u \in Turn, Request(u)  PROVE at'[t] = at[t]
      BY <2>0, <3>1 DEF Request, PutAttachment, SaveFileRecord, AttachFails, Respond,
                        CloseRequest, GoTo
    <3>2. ASSUME NEW u \in Turn, TurnStep(u)  PROVE pull = {}
      BY <2>0, <3>2 DEF TurnStep, Enter, Refused, BeginAgent, StartSync, EndStream,
                        StartFinalSync, ReleaseLock, Commit, TurnFails, GoTo
    <3>3. CASE SyncStep \/ (\E q \in Path : AgentWrites(q)) \/ LoseContainer \/ UNCHANGED vars
      BY <3>3 DEF SyncStep, Download, SendChunk, Decode, TransferFails, FindFiles, ReadFile,
                  PutFile, RecordFile, SyncFails, AgentWrites, LoseContainer, vars
    <3>4. CASE Die
      BY <3>4 DEF Die
    <3>. QED  BY <3>1, <3>2, <3>3, <3>4 DEF Next
  <2>2. box[p] # None /\ box[p].rev >= promised[p]
    BY <2>1 DEF WorkInv, SeenInv, Seen
  <2>3. box[p] \in Contents(p)
    BY DEF Contents
  <2>. QED  BY <2>0, <2>2, <2>3, ContentsOwn
<1>2. WorkInv /\ [Next]_vars => [Given]_vars
  BY <1>1
<1>. QED  BY <1>2, WorkAlways, PTL DEF Spec, AgentSeesFiles

=============================================================================
