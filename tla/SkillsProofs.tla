---------------------------- MODULE SkillsProofs ----------------------------
(***************************************************************************)
(* Skills for any number of calls, processes, skills and files, any number *)
(* of restarts and losses of the volume: as long as no failure and no      *)
(* second call hits a skill half way, table, directory and backup agree    *)
(* whenever nobody works on it.                                            *)
(***************************************************************************)
EXTENDS Skills, FiniteSetTheorems, TLAPS

SkillTypeInv ==
    /\ rows \in [Request -> Row \cup {None}]
    /\ disk \in [Skill -> [File -> Content] \cup {None}]
    /\ s3 \in [Skill -> [File -> Content]]
    /\ req \in [Request -> Call]
    /\ worker \in [Worker -> Process]
    /\ marred \subseteq Skill /\ unsaved \subseteq Skill /\ lost \in BOOLEAN

\* A bucket holds finitely many objects.
BackupFinite == \A n \in Skill : IsFiniteSet({f \in File : s3[n][f] # None})

OpsAt(where) ==
    CASE where = "write" -> {"upload", "update"}
      [] where \in {"remove", "list", "drop"} -> {"delete"}
      [] where = "flush" -> {"upload", "update", "meta"}
      [] where = "put" -> {"upload", "update"}
      [] OTHER -> {"upload", "update", "meta", "delete"}

\* A call under way is served by a process that is up, and knows its skill.
CallFit(r) ==
    /\ InFlight(r) =>
         /\ req[r].name \in Skill /\ req[r].id \in Request /\ req[r].op \in OpsAt(req[r].at)
         /\ req[r].on \in Worker /\ worker[req[r].on].at = "up"
         /\ req[r].op = "upload" => req[r].id = r
         /\ req[r].op \in {"upload", "update"} => req[r].list \in FileList
         /\ req[r].op = "upload" => Head(req[r].list) = SkillMd
    /\ req[r].at \in {"put", "drop"} => req[r].todo # <<>>
CallsFit == \A r \in Request : CallFit(r)

\* A row is there as soon as its upload is through; the names of rows do not change,
\* and a row that has been updated is locked until the commit.
RowFit(r) ==
    /\ rows[r] # None => req[r].at = "ok"
    /\ InFlight(r) /\ req[r].op # "upload" =>
         /\ req[req[r].id].at = "ok"
         /\ rows[req[r].id] # None => rows[req[r].id].name = req[r].name
         /\ req[r].op \in {"update", "meta"} /\ req[r].at \in {"put", "commit"} =>
              rows[req[r].id] # None
RowsFit == \A r \in Request : RowFit(r)

\* What a process has still to restore.
Held(w) == worker[w].keys \cup ({worker[w].key} \ {None})
ProcessFit(w) ==
    /\ worker[w].at \notin {"fetch", "store"} => worker[w].keys = {}
    /\ worker[w].at = "store" <=> worker[w].key # None
    /\ lost => worker[w].at # "up"
ProcessesFit == \A w \in Worker : ProcessFit(w)

\* Calls that meet on a skill, or meet a restore, have marred it.
Apart ==
    /\ \A n \in Skill \ marred : \A r, q \in Request : Touches(r, n) /\ Touches(q, n) => r = q
    /\ \A n \in Skill \ marred : \A r \in Request, w \in Worker :
         Touches(r, n) => ~Restoring(w)

Good(data) == data \notin {None, Torn}
Unique(n) == \A i, j \in Named(n) : i = j
Intact(n) ==
    /\ Unique(n)
    /\ Named(n) = {} <=> disk[n] = None
    /\ disk[n] # None => Good(disk[n][SkillMd])
Mirrored(n) == n \notin unsaved => s3[n] = FilesOf(n)

\* A skill on which nobody works: its row and its backup agree, and its directory is a
\* part of the backup that some process is completing, unless the volume is lost and
\* nothing is restored yet.
Backed(n) ==
    /\ Named(n) = {} <=> s3[n] = NoFiles
    /\ s3[n] # NoFiles => Good(s3[n][SkillMd])
Partial(n) ==
    /\ \A f \in File : FilesOf(n)[f] \in {None, s3[n][f]}
    /\ disk[n] # None => s3[n] # NoFiles
RestoredOr(n, keys) == \A f \in File : s3[n][f] # None =>
    FilesOf(n)[f] = s3[n][f] \/ [name |-> n, file |-> f] \in keys
AllHeld == UNION {Held(w) : w \in Worker}
Bare == lost /\ \A m \in Skill : disk[m] = None
Resting(n) ==
    /\ Unique(n)
    /\ n \in unsaved => IF lost THEN disk[n] = None ELSE Intact(n)
    /\ n \notin unsaved => Backed(n) /\ Partial(n) /\ (Bare \/ RestoredOr(n, AllHeld))

\* Files of a call that are still to be stored in the backup, or dropped from it.
Rest(r) ==
    CASE req[r].at = "flush" -> Members(req[r].list)
      [] req[r].at \in {"put", "drop"} -> Members(req[r].todo)
      [] req[r].at = "list" -> File
      [] OTHER -> {}

\* A skill with a call under way.
Busy(r, n) ==
    /\ Unique(n)
    /\ IF req[r].op = "upload" THEN Named(n) = {} ELSE req[r].id \in Named(n)
    /\ req[r].at \in {"write", "remove"} => Intact(n) /\ Mirrored(n)
    /\ req[r].at \in {"flush", "put", "commit"} /\ req[r].op # "delete" =>
         /\ disk[n] # None /\ Good(disk[n][SkillMd])
         /\ \A f \in Rest(r) : disk[n][f] = r
         /\ n \notin unsaved => \A f \in File \ Rest(r) : s3[n][f] = disk[n][f]
    /\ req[r].at \in {"list", "drop", "commit"} /\ req[r].op = "delete" =>
         /\ disk[n] = None
         /\ n \notin unsaved => \A f \in File \ Rest(r) : s3[n][f] = None

RestingInv == \A n \in Skill \ marred : (\A r \in Request : ~Touches(r, n)) => Resting(n)
BusyInv == \A n \in Skill \ marred : \A r \in Request : Touches(r, n) => Busy(r, n)

\* A restore works on skills whose backup is right, and leaves out none of its objects.
RestoreFit(w) ==
    /\ Restoring(w) => unsaved \subseteq marred
    /\ worker[w].at \in {"fetch", "store"} => \A n \in Skill \ marred : RestoredOr(n, Held(w))
    /\ \A k \in Held(w) : k.name \notin marred =>
         /\ s3[k.name][k.file] # None
         /\ k = worker[w].key => worker[w].data = s3[k.name][k.file]
RestoreInv ==
    /\ \A w \in Worker : RestoreFit(w)
    /\ lost /\ ~Bare => unsaved \subseteq marred

SkillInv ==
    /\ SkillTypeInv /\ BackupFinite /\ CallsFit /\ RowsFit /\ ProcessesFit /\ Apart
    /\ RestingInv /\ BusyInv /\ RestoreInv
-----------------------------------------------------------------------------
(* Lists of files *)

LEMMA MembersSplit ==
    ASSUME NEW s \in Seq(File), s # <<>>
    PROVE  /\ Head(s) \in File /\ Tail(s) \in Seq(File)
           /\ Members(s) = {Head(s)} \cup Members(Tail(s))
           /\ Len(s) = 1 => Members(Tail(s)) = {}
           /\ Len(s) # 1 => Tail(s) # <<>>
  <1>1. Len(s) \in Nat /\ Len(s) >= 1 /\ \A i \in 1..Len(s) : s[i] \in File
    OBVIOUS
  <1>2. Tail(s) \in Seq(File) /\ Len(Tail(s)) = Len(s) - 1
    OBVIOUS
  <1>3. \A i \in 1..(Len(s) - 1) : Tail(s)[i] = s[i + 1]
    OBVIOUS
  <1>4. Head(s) = s[1]
    OBVIOUS
  <1>5. ASSUME NEW x \in Members(s)
        PROVE  x \in {Head(s)} \cup Members(Tail(s))
    <2>1. PICK i \in 1..Len(s) : x = s[i]
      BY DEF Members
    <2>2. CASE i = 1
      BY <1>4, <2>1, <2>2
    <2>3. CASE i # 1
      <3>1. i - 1 \in 1..Len(Tail(s)) /\ Tail(s)[i - 1] = x
        BY <1>1, <1>2, <1>3, <2>1, <2>3
      <3>2. QED
        BY <3>1 DEF Members
    <2>4. QED
      BY <2>2, <2>3
  <1>6. ASSUME NEW x \in Members(Tail(s))
        PROVE  x \in Members(s)
    <2>1. PICK i \in 1..Len(Tail(s)) : x = Tail(s)[i]
      BY DEF Members
    <2>2. i + 1 \in 1..Len(s) /\ s[i + 1] = x
      BY <1>1, <1>2, <1>3, <2>1
    <2>3. QED
      BY <2>2 DEF Members
  <1>7. Head(s) \in Members(s)
    BY <1>1, <1>4 DEF Members
  <1>8. Members(s) = {Head(s)} \cup Members(Tail(s))
    BY <1>5, <1>6, <1>7
  <1>9. Len(s) = 1 => Members(Tail(s)) = {}
    BY <1>2 DEF Members
  <1>10. Len(s) # 1 => Tail(s) # <<>>
    <2>1. Len(<<>>) = 0
      OBVIOUS
    <2>2. Len(s) # 1 => Len(Tail(s)) # 0
      BY <1>1, <1>2
    <2>3. QED
      BY <2>1, <2>2
  <1>11. QED
    BY <1>1, <1>2, <1>4, <1>8, <1>9, <1>10

LEMMA MembersOfList ==
    ASSUME NEW s \in Seq(File)
    PROVE  Members(s) \subseteq File /\ IsFiniteSet(Members(s))
  <1> DEFINE f == [i \in 1..Len(s) |-> s[i]]
  <1>1. Len(s) \in Nat /\ \A i \in 1..Len(s) : s[i] \in File
    OBVIOUS
  <1>2. IsFiniteSet(1..Len(s))
    BY <1>1, FS_Interval
  <1>3. f \in Surjection(1..Len(s), Members(s))
    BY DEF Surjection, Members
  <1>4. IsFiniteSet(Members(s))
    BY <1>2, <1>3, FS_Surjection
  <1>5. QED
    BY <1>1, <1>4 DEF Members

LEMMA ListOfFiles ==
    ASSUME NEW k \in Nat, NEW f \in [1..k -> File]
    PROVE  f \in Seq(File)
  OBVIOUS

LEMMA MembersOfNone == Members(<<>>) = {}
  BY DEF Members

-----------------------------------------------------------------------------
(* What a step of a call does to it *)

Places == {"idle", "write", "remove", "flush", "put", "list", "drop", "commit",
           "ok", "failed"}

LEMMA GoToCall ==
    ASSUME req \in [Request -> Call], NEW r \in Request, NEW where \in Places,
           GoTo(r, where)
    PROVE  /\ req' \in [Request -> Call]
           /\ \A q \in Request \ {r} : req'[q] = req[q]
           /\ req'[r] = [req[r] EXCEPT !.at = where]
           /\ req'[r].at = where /\ req'[r].op = req[r].op /\ req'[r].name = req[r].name
           /\ req'[r].list = req[r].list /\ req'[r].id = req[r].id
           /\ req'[r].on = req[r].on /\ req'[r].todo = req[r].todo
  <1>1. req[r] \in Call
    OBVIOUS
  <1>2. [req[r] EXCEPT !.at = where] \in Call
    BY <1>1 DEF Call, Places
  <1>3. req'[r] = [req[r] EXCEPT !.at = where] /\ \A q \in Request \ {r} : req'[q] = req[q]
    BY DEF GoTo
  <1>4. req' \in [Request -> Call]
    BY <1>2 DEF GoTo
  <1>5. QED
    BY <1>1, <1>3, <1>4 DEF Call

LEMMA EndCall ==
    ASSUME req \in [Request -> Call], NEW r \in Request, NEW how \in {"ok", "failed"},
           End(r, how)
    PROVE  /\ req' \in [Request -> Call]
           /\ \A q \in Request \ {r} : req'[q] = req[q]
           /\ req'[r].at = how
  <1>1. [NoCall EXCEPT !.at = how] \in Call
    <2>1. <<>> \in Seq(File)
      OBVIOUS
    <2>2. NoCall \in Call
      BY <2>1 DEF Call, NoCall
    <2>3. QED
      BY <2>2 DEF Call
  <1>2. [NoCall EXCEPT !.at = how].at = how
    BY DEF NoCall
  <1>3. req'[r] = [NoCall EXCEPT !.at = how] /\ \A q \in Request \ {r} : req'[q] = req[q]
    BY DEF End
  <1>4. req' \in [Request -> Call]
    BY <1>1 DEF End
  <1>5. QED
    BY <1>2, <1>3, <1>4

LEMMA NextFileCall ==
    ASSUME req \in [Request -> Call], NEW r \in Request, NEW where \in {"put", "drop"},
           req[r].todo # <<>>, NextFile(r, where)
    PROVE  /\ req' \in [Request -> Call]
           /\ \A q \in Request \ {r} : req'[q] = req[q]
           /\ req'[r].at = IF Len(req[r].todo) = 1 THEN "commit" ELSE where
           /\ req'[r].op = req[r].op /\ req'[r].name = req[r].name
           /\ req'[r].list = req[r].list /\ req'[r].id = req[r].id
           /\ req'[r].on = req[r].on /\ req'[r].todo = Tail(req[r].todo)
  <1> DEFINE there == IF Len(req[r].todo) = 1 THEN "commit" ELSE where
             call == [req[r] EXCEPT !.todo = Tail(@), !.at = there]
  <1>1. req[r] \in Call
    OBVIOUS
  <1>2. there \in Places
    BY DEF Places
  <1>3. Tail(req[r].todo) \in Seq(File)
    BY <1>1, MembersSplit DEF Call
  <1>4. call \in Call
    <2> HIDE DEF there
    <2>1. QED
      BY <1>1, <1>2, <1>3 DEF Call, Places
  <1>5. req' = [req EXCEPT ![r] = call]
    BY DEF NextFile
  <1>6. req'[r] = call /\ \A q \in Request \ {r} : req'[q] = req[q]
    BY <1>5
  <1>7. req' \in [Request -> Call]
    BY <1>4, <1>5
  <1>8. QED
    BY <1>1, <1>6, <1>7 DEF Call

-----------------------------------------------------------------------------
(* Steps of calls *)

Same(m) ==
    /\ disk'[m] = disk[m] /\ s3'[m] = s3[m] /\ Named(m)' = Named(m)
    /\ m \in unsaved' <=> m \in unsaved

\* What a step of r does to the rows: nothing, its own row, or one that is not locked.
RowsMove(r) == \A i \in Request :
    \/ rows'[i] = rows[i]
    \/ i = r /\ req[r].op = "upload"
    \/ /\ i = req[r].id /\ RowFree(r) /\ InFlight(r) /\ req[r].op # "upload"
       /\ rows'[i] # None => rows[i] # None /\ rows'[i].name = rows[i].name

\* A step of a call changes nothing but what belongs to its skill n, and that only if it
\* works on the files of n.
Moves(r, n) ==
    /\ SkillTypeInv' /\ BackupFinite' /\ CallFit(r)' /\ RowFit(r)'
    /\ \A q \in Request \ {r} : req'[q] = req[q]
    /\ req[r].at \notin {"ok", "failed"}
    /\ worker' = worker /\ lost = FALSE /\ lost' = FALSE /\ marred \subseteq marred'
    /\ RowsMove(r)
    /\ \A m \in Skill \ {n} : Same(m) /\ ~Touches(r, m) /\ ~Touches(r, m)'
    /\ n \notin marred' =>
         /\ Touches(r, n) \/ Same(n)
         /\ Touches(r, n)' => Busy(r, n)' /\ (Touches(r, n) \/ ~Meets(n))
         /\ Touches(r, n) /\ ~Touches(r, n)' => Resting(n)'

LEMMA SameBusy ==
    ASSUME NEW n \in Skill, NEW q \in Request, Same(n), req'[q] = req[q], Busy(q, n)
    PROVE  Busy(q, n)'
  <1>1. Rest(q)' = Rest(q)
    BY DEF Rest
  <1>2. Named(n)' = Named(n) /\ disk'[n] = disk[n] /\ s3'[n] = s3[n]
    BY DEF Same
  <1>3. FilesOf(n)' = FilesOf(n)
    BY <1>2 DEF FilesOf
  <1>4. Unique(n)' /\ (Intact(n) => Intact(n)') /\ (Mirrored(n) => Mirrored(n)')
    BY <1>2, <1>3 DEF Busy, Unique, Intact, Mirrored, Same
  <1>5. QED
    BY <1>1, <1>2, <1>4 DEF Busy, Same

LEMMA SameResting ==
    ASSUME NEW n \in Skill, Same(n), worker' = worker, lost = FALSE, lost' = FALSE, Resting(n)
    PROVE  Resting(n)'
  <1>1. AllHeld' = AllHeld
    BY DEF AllHeld, Held
  <1>2. Named(n)' = Named(n) /\ disk'[n] = disk[n] /\ s3'[n] = s3[n]
    BY DEF Same
  <1>3. FilesOf(n)' = FilesOf(n)
    BY <1>2 DEF FilesOf
  <1>4. Unique(n)' /\ (Intact(n) => Intact(n)') /\ (Backed(n) => Backed(n)')
    BY <1>2 DEF Resting, Unique, Intact, Backed
  <1>5. Partial(n) => Partial(n)'
    BY <1>2, <1>3 DEF Partial
  <1>6. RestoredOr(n, AllHeld) => RestoredOr(n, AllHeld)'
    BY <1>1, <1>2, <1>3 DEF RestoredOr
  <1>7. ~Bare /\ ~Bare'
    BY DEF Bare
  <1>8. QED
    BY <1>4, <1>5, <1>6, <1>7 DEF Resting, Same

LEMMA MovesApart ==
    ASSUME SkillInv, NEW r \in Request, NEW n \in Skill, Moves(r, n)
    PROVE  /\ \A m \in Skill \ marred' : \A q \in Request \ {r} :
                Touches(q, m)' <=> Touches(q, m)
           /\ Apart'
  <1>1. ASSUME NEW q \in Request \ {r}, NEW m \in Skill
        PROVE  Touches(q, m)' <=> Touches(q, m)
    BY <1>1 DEF Moves, Touches, InFlight
  <1>2. ASSUME NEW m \in Skill \ marred', NEW q \in Request, Touches(q, m)'
        PROVE  Touches(q, m) \/ (q = r /\ m = n /\ ~Meets(n))
    <2>1. CASE q # r
      BY <1>1, <1>2, <2>1
    <2>2. CASE q = r
      BY <1>2, <2>2 DEF Moves
    <2>3. QED
      BY <2>1, <2>2
  <1>3. \A w \in Worker : Restoring(w)' <=> Restoring(w)
    BY DEF Moves, Restoring
  <1>4. \A m \in Skill \ marred' : m \notin marred
    BY DEF Moves
  <1>5. ASSUME NEW m \in Skill \ marred', NEW a \in Request, NEW b \in Request,
               Touches(a, m)', Touches(b, m)', a # b
        PROVE  FALSE
    <2>1. Touches(a, m) \/ (a = r /\ m = n /\ ~Meets(n))
      BY <1>2, <1>5
    <2>2. Touches(b, m) \/ (b = r /\ m = n /\ ~Meets(n))
      BY <1>2, <1>5
    <2>3. ~(Touches(a, m) /\ Touches(b, m))
      BY <1>4, <1>5 DEF SkillInv, Apart
    <2>4. QED
      BY <1>5, <2>1, <2>2, <2>3 DEF Meets
  <1>6. ASSUME NEW m \in Skill \ marred', NEW a \in Request, NEW w \in Worker,
               Touches(a, m)', Restoring(w)'
        PROVE  FALSE
    <2>1. Touches(a, m) \/ ~Meets(n)
      BY <1>2, <1>6
    <2>2. QED
      BY <1>3, <1>4, <1>6, <2>1 DEF SkillInv, Apart, Meets
  <1>7. QED
    BY <1>1, <1>5, <1>6 DEF Apart

LEMMA MovesRows ==
    ASSUME SkillInv, NEW r \in Request, NEW n \in Skill, Moves(r, n)
    PROVE  RowsFit'
  <1> SUFFICES ASSUME NEW q \in Request, q # r
               PROVE  RowFit(q)'
    BY DEF Moves, RowsFit
  <1>1. req'[q] = req[q] /\ req[r].at # "ok"
    BY DEF Moves
  <1>2. RowFit(q) /\ RowFit(r) /\ RowsMove(r)
    BY DEF SkillInv, RowsFit, Moves
  <1>3. rows'[q] # None => req'[q].at = "ok"
    BY <1>1, <1>2 DEF RowFit, RowsMove
  <1>4. ASSUME InFlight(q), req[q].op # "upload"
        PROVE  /\ req'[req[q].id].at = "ok"
               /\ rows'[req[q].id] # None => rows'[req[q].id].name = req[q].name
               /\ req[q].op \in {"update", "meta"} /\ req[q].at \in {"put", "commit"} =>
                    rows'[req[q].id] # None
    <2> DEFINE i == req[q].id
    <2>1. i \in Request
      BY <1>4 DEF SkillInv, CallsFit, CallFit
    <2>2. /\ req[i].at = "ok"
          /\ rows[i] # None => rows[i].name = req[q].name
          /\ req[q].op \in {"update", "meta"} /\ req[q].at \in {"put", "commit"} =>
               rows[i] # None
      BY <1>2, <1>4 DEF RowFit
    <2>3. i # r /\ req'[i] = req[i]
      BY <1>1, <2>1, <2>2 DEF Moves
    <2>4. CASE rows'[i] = rows[i]
      BY <2>2, <2>3, <2>4
    <2>5. CASE rows'[i] # rows[i]
      <3>1. /\ i = req[r].id /\ RowFree(r)
            /\ rows'[i] # None => rows[i] # None /\ rows'[i].name = rows[i].name
        BY <1>2, <2>1, <2>3, <2>5 DEF RowsMove
      <3>2. ~(req[q].op \in {"update", "meta"} /\ req[q].at \in {"put", "commit"})
        BY <3>1 DEF RowFree
      <3>3. QED
        BY <2>2, <2>3, <3>1, <3>2
    <2>6. QED
      BY <2>4, <2>5
  <1>5. InFlight(q)' <=> InFlight(q)
    BY <1>1 DEF InFlight
  <1>6. QED
    BY <1>1, <1>3, <1>4, <1>5 DEF RowFit

LEMMA MovesRestore ==
    ASSUME SkillInv, NEW r \in Request, NEW n \in Skill, Moves(r, n)
    PROVE  RestoreInv'
  <1>1. worker' = worker /\ lost' = FALSE /\ marred \subseteq marred'
    BY DEF Moves
  <1>2. \A w \in Worker : (Restoring(w)' <=> Restoring(w)) /\ Held(w)' = Held(w)
    BY <1>1 DEF Restoring, Held
  <1>3. ASSUME NEW w \in Worker, Restoring(w), NEW m \in Skill \ marred'
        PROVE  Same(m)
    <2>1. CASE m # n
      BY <2>1 DEF Moves
    <2>2. CASE m = n
      <3>1. ~Touches(r, n)
        BY <1>1, <1>3, <2>2 DEF SkillInv, Apart
      <3>2. QED
        BY <1>3, <2>2, <3>1 DEF Moves
    <2>3. QED
      BY <2>1, <2>2
  <1>4. ASSUME NEW w \in Worker, Restoring(w)
        PROVE  unsaved' \subseteq marred'
    <2>1. unsaved \subseteq marred
      BY <1>4 DEF SkillInv, RestoreInv, RestoreFit
    <2>2. unsaved' \subseteq Skill
      BY DEF Moves, SkillTypeInv
    <2>3. \A m \in Skill \ marred' : m \in unsaved' <=> m \in unsaved
      BY <1>3, <1>4 DEF Same
    <2>4. QED
      BY <1>1, <2>1, <2>2, <2>3
  <1>5. ASSUME NEW w \in Worker, worker[w].at \in {"fetch", "store"}, NEW m \in Skill \ marred'
        PROVE  RestoredOr(m, Held(w))'
    <2>1. Restoring(w)
      BY <1>5 DEF Restoring
    <2>2. s3'[m] = s3[m] /\ FilesOf(m)' = FilesOf(m)
      BY <1>3, <2>1 DEF Same, FilesOf
    <2>3. RestoredOr(m, Held(w))
      BY <1>1, <1>5 DEF SkillInv, RestoreInv, RestoreFit
    <2>4. QED
      BY <1>2, <2>2, <2>3 DEF RestoredOr
  <1>6. ASSUME NEW w \in Worker, NEW k \in Held(w), k.name \notin marred'
        PROVE  /\ s3'[k.name][k.file] # None
               /\ k = worker[w].key => worker[w].data = s3'[k.name][k.file]
    <2>1. Restoring(w)
      BY <1>6 DEF SkillInv, ProcessesFit, ProcessFit, Held, Restoring
    <2>2. k \in Key
      BY <1>6 DEF SkillInv, SkillTypeInv, Process, Held
    <2>3. k.name \in Skill
      BY <2>2 DEF Key
    <2>4. s3'[k.name] = s3[k.name]
      BY <1>3, <1>6, <2>1, <2>3 DEF Same
    <2>5. QED
      BY <1>1, <1>6, <2>4 DEF SkillInv, RestoreInv, RestoreFit
  <1>7. QED
    BY <1>1, <1>2, <1>4, <1>5, <1>6 DEF RestoreInv, RestoreFit

LEMMA MovesKeep ==
    ASSUME SkillInv, NEW r \in Request, NEW n \in Skill, Moves(r, n)
    PROVE  SkillInv'
  <1>1. SkillTypeInv' /\ BackupFinite'
    BY DEF Moves
  <1>2. CallsFit'
    <2> SUFFICES ASSUME NEW q \in Request, q # r
                 PROVE  CallFit(q)'
      BY DEF Moves, CallsFit
    <2>1. req'[q] = req[q] /\ worker' = worker /\ CallFit(q)
      BY DEF Moves, SkillInv, CallsFit
    <2>2. QED
      BY <2>1 DEF CallFit, InFlight
  <1>3. RowsFit' /\ RestoreInv' /\ Apart'
    BY MovesRows, MovesRestore, MovesApart
  <1>4. ProcessesFit'
    BY DEF Moves, SkillInv, ProcessesFit, ProcessFit
  <1>5. RestingInv'
    <2> SUFFICES ASSUME NEW m \in Skill \ marred', \A q \in Request : ~Touches(q, m)'
                 PROVE  Resting(m)'
      BY DEF RestingInv
    <2>1. \A q \in Request \ {r} : ~Touches(q, m)
      BY MovesApart
    <2>2. CASE Touches(r, m)
      BY <2>2 DEF Moves
    <2>3. CASE ~Touches(r, m)
      <3>1. Same(m)
        BY <2>3 DEF Moves
      <3>2. Resting(m)
        BY <2>1, <2>3 DEF SkillInv, RestingInv, Moves
      <3>3. QED
        BY <3>1, <3>2, SameResting DEF Moves
    <2>4. QED
      BY <2>2, <2>3
  <1>6. BusyInv'
    <2> SUFFICES ASSUME NEW m \in Skill \ marred', NEW q \in Request, Touches(q, m)'
                 PROVE  Busy(q, m)'
      BY DEF BusyInv
    <2>1. CASE q = r
      BY <2>1 DEF Moves
    <2>2. CASE q # r
      <3>1. Touches(q, m) /\ m \notin marred
        BY <2>2, MovesApart DEF Moves
      <3>2. ~Touches(r, m)
        BY <2>2, <3>1 DEF SkillInv, Apart
      <3>3. Same(m)
        BY <3>2 DEF Moves
      <3>4. Busy(q, m)
        BY <3>1 DEF SkillInv, BusyInv
      <3>5. QED
        BY <2>2, <3>3, <3>4, SameBusy DEF Moves
    <2>3. QED
      BY <2>1, <2>2
  <1>7. QED
    BY <1>1, <1>2, <1>3, <1>4, <1>5, <1>6 DEF SkillInv

LEMMA InFlightFacts ==
    ASSUME SkillInv, NEW r \in Request, InFlight(r)
    PROVE  /\ req[r] \in Call /\ req[r].name \in Skill /\ req[r].id \in Request
           /\ req[r].op \in OpsAt(req[r].at) /\ lost = FALSE /\ rows[r] = None
           /\ req[r].at \notin {"ok", "failed", "idle"}
  <1>1. req[r] \in Call /\ req[r].on \in Worker /\ worker[req[r].on].at = "up"
    BY DEF SkillInv, SkillTypeInv, CallsFit, CallFit
  <1>2. lost = FALSE
    BY <1>1 DEF SkillInv, SkillTypeInv, ProcessesFit, ProcessFit
  <1>3. rows[r] = None
    BY DEF SkillInv, RowsFit, RowFit, InFlight
  <1>4. QED
    BY <1>1, <1>2, <1>3 DEF SkillInv, CallsFit, CallFit, InFlight

LEMMA MoveFrame ==
    ASSUME NEW r \in Request, NEW n \in Skill, rows' = rows,
           InFlight(r) => req[r].name = n, InFlight(r)' => req'[r].name = n,
           \A m \in Skill \ {n} : /\ disk'[m] = disk[m] /\ s3'[m] = s3[m]
                                  /\ m \in unsaved' <=> m \in unsaved
    PROVE  /\ RowsMove(r)
           /\ \A m \in Skill \ {n} : Same(m) /\ ~Touches(r, m) /\ ~Touches(r, m)'
           /\ \A m \in Skill : Named(m)' = Named(m)
  <1>1. RowsMove(r)
    BY DEF RowsMove
  <1>2. \A m \in Skill : Named(m)' = Named(m)
    BY DEF Named
  <1>3. \A m \in Skill \ {n} : ~Touches(r, m) /\ ~Touches(r, m)'
    BY DEF Touches
  <1>4. QED
    BY <1>1, <1>2, <1>3 DEF Same

\* A skill that nobody works on, in a process that serves, is whole.
LEMMA RestingIsWhole ==
    ASSUME SkillInv, NEW n \in Skill \ marred, lost = FALSE,
           \A q \in Request : ~Touches(q, n), AllHeld = {}
    PROVE  Unique(n) /\ Intact(n) /\ Mirrored(n)
  <1>1. Resting(n)
    BY DEF SkillInv, RestingInv
  <1>2. CASE n \in unsaved
    BY <1>1, <1>2 DEF Resting, Mirrored
  <1>3. CASE n \notin unsaved
    <2>1. Backed(n) /\ Partial(n) /\ RestoredOr(n, {}) /\ Unique(n)
      BY <1>1, <1>3 DEF Resting, Bare
    <2>2. s3[n] \in [File -> Content] /\ FilesOf(n) \in [File -> Content]
      BY DEF SkillInv, SkillTypeInv, FilesOf, NoFiles, Content
    <2>3. \A f \in File : FilesOf(n)[f] = s3[n][f]
      BY <2>1 DEF Partial, RestoredOr
    <2>4. FilesOf(n) = s3[n]
      BY <2>2, <2>3
    <2>5. disk[n] = None <=> s3[n] = NoFiles
      BY <2>1, <2>4 DEF FilesOf, Partial
    <2>6. disk[n] # None => Good(disk[n][SkillMd])
      BY <2>1, <2>4, <2>5 DEF FilesOf, Backed
    <2>7. QED
      BY <2>1, <2>4, <2>5, <2>6 DEF Backed, Intact, Mirrored
  <1>4. QED
    BY <1>2, <1>3

LEMMA NothingHeld ==
    ASSUME SkillInv, \A w \in Worker : ~Restoring(w)
    PROVE  AllHeld = {}
  BY DEF SkillInv, ProcessesFit, ProcessFit, Restoring, AllHeld, Held

LEMMA BeginMoves ==
    ASSUME SkillInv, NEW r \in Request, NEW w \in Worker, NEW n \in Skill, NEW call \in Call,
           req[r].at = "idle", worker[w].at = "up",
           call.op \in OpsAt(call.at), call.on = w, call.name = n, call.id \in Request,
           call.at \in {"write", "remove", "flush"}, call.at = "flush" => call.op = "meta",
           call.op = "upload" => call.id = r /\ Head(call.list) = SkillMd /\ Named(n) = {},
           call.op # "upload" => rows[call.id] # None /\ rows[call.id].name = n,
           call.op \in {"upload", "update"} => call.list \in FileList,
           Begin(r, n, call), lost' = lost
    PROVE  Moves(r, n)
  <1>1. /\ req' \in [Request -> Call] /\ req'[r] = call
        /\ \A q \in Request \ {r} : req'[q] = req[q]
        /\ UNCHANGED <<rows, disk, s3, worker, unsaved>>
    BY DEF Begin, SkillInv, SkillTypeInv
  <1>2. lost = FALSE
    BY DEF SkillInv, SkillTypeInv, ProcessesFit, ProcessFit
  <1>3. marred' \in SUBSET Skill /\ marred \subseteq marred'
    BY DEF Begin, SkillInv, SkillTypeInv
  <1>4. ~InFlight(r) /\ ~Touches(r, n)
    BY DEF InFlight, Touches
  <1>5. /\ RowsMove(r) /\ Named(n)' = Named(n)
        /\ \A m \in Skill \ {n} : Same(m) /\ ~Touches(r, m) /\ ~Touches(r, m)'
    BY <1>1, <1>4, MoveFrame
  <1>6. Same(n)
    BY <1>1, <1>5 DEF Same

  <1>7. SkillTypeInv' /\ BackupFinite'
    BY <1>1, <1>3 DEF SkillInv, SkillTypeInv, BackupFinite
  <1>8. CallFit(r)'
    BY <1>1 DEF CallFit, InFlight
  <1>9. rows[r] = None /\ (rows[call.id] # None => req[call.id].at = "ok")
    BY DEF SkillInv, RowsFit, RowFit
  <1>10. RowFit(r)'
    <2>1. call.op # "upload" => call.id # r
      BY <1>9
    <2>2. call.op # "upload" => req'[call.id].at = "ok"
      BY <1>1, <1>9, <2>1
    <2>3. QED
      BY <1>1, <1>9, <2>2 DEF RowFit, InFlight
  <1>11. ASSUME n \notin marred', Touches(r, n)'
         PROVE  Busy(r, n)' /\ ~Meets(n)
    <2>1. call.op # "meta" /\ call.at \in {"write", "remove"}
      BY <1>1, <1>11 DEF Touches
    <2>2. ~Meets(n) /\ n \notin marred
      BY <1>3, <1>11, <2>1 DEF Begin
    <2>3. Unique(n) /\ Intact(n) /\ Mirrored(n)
      BY <1>2, <2>2, RestingIsWhole, NothingHeld DEF Meets
    <2>4. Unique(n)' /\ Intact(n)' /\ Mirrored(n)'
      BY <1>6, <2>3 DEF Same, Unique, Intact, Mirrored, FilesOf
    <2>5. IF call.op = "upload" THEN Named(n)' = {} ELSE call.id \in Named(n)'
      BY <1>5 DEF Named
    <2>6. req'[r].at \in {"write", "remove"} /\ req'[r].op = call.op /\ req'[r].id = call.id
      BY <1>1, <2>1
    <2>7. QED
      BY <2>2, <2>4, <2>5, <2>6 DEF Busy
  <1>12. QED
    BY <1>1, <1>2, <1>3, <1>4, <1>5, <1>6, <1>7, <1>8, <1>10, <1>11 DEF Moves

LEMMA OpsOfCalls ==
    /\ OpsAt("write") = {"upload", "update"} /\ OpsAt("remove") = {"delete"}
    /\ OpsAt("list") = {"delete"} /\ OpsAt("drop") = {"delete"}
    /\ OpsAt("flush") = {"upload", "update", "meta"} /\ OpsAt("put") = {"upload", "update"}
    /\ OpsAt("commit") = {"upload", "update", "meta", "delete"}
  BY DEF OpsAt

\* Calls that end without having changed anything the backup depends on, or on a skill
\* that is marred by that.
LEMMA FailMoves ==
    ASSUME SkillInv, NEW r \in Request, NEW n \in Skill, Fail(r),
           req[r].at \notin {"ok", "failed"}, InFlight(r) => req[r].name = n,
           UNCHANGED <<rows, s3, worker, unsaved, lost>>, lost = FALSE,
           disk' \in [Skill -> [File -> Content] \cup {None}],
           \A m \in Skill \ {n} : disk'[m] = disk[m],
           marred' \in {marred, marred \cup {n}},
           n \notin marred' => disk' = disk /\ ~Touches(r, n)
    PROVE  Moves(r, n)
  <1>1. /\ req' \in [Request -> Call] /\ req'[r].at = "failed"
        /\ \A q \in Request \ {r} : req'[q] = req[q]
    BY EndCall DEF Fail, SkillInv, SkillTypeInv
  <1>2. ~InFlight(r)'
    BY <1>1 DEF InFlight
  <1>3. /\ RowsMove(r)
        /\ \A m \in Skill \ {n} : Same(m) /\ ~Touches(r, m) /\ ~Touches(r, m)'
        /\ \A m \in Skill : Named(m)' = Named(m)
    BY <1>2, MoveFrame
  <1>4. SkillTypeInv' /\ BackupFinite'
    BY <1>1 DEF SkillInv, SkillTypeInv, BackupFinite
  <1>5. CallFit(r)' /\ RowFit(r)'
    BY <1>1, <1>2 DEF CallFit, RowFit, SkillInv, RowsFit
  <1>6. n \notin marred' => Same(n) /\ ~Touches(r, n)'
    BY <1>2, <1>3 DEF Same, Touches
  <1>7. QED
    BY <1>1, <1>3, <1>4, <1>5, <1>6 DEF Moves

LEMMA BeginCallMoves ==
    ASSUME SkillInv, NEW r \in Request, BeginCall(r), lost' = lost
    PROVE  \E n \in Skill : Moves(r, n)
  <1>1. PICK w \in Worker :
            \/ \E n \in Skill, list \in FileList : Upload(r, w, n, list)
            \/ \E i \in Request, list \in FileList : UpdateFiles(r, w, i, list)
            \/ \E i \in Request : UpdateMeta(r, w, i) \/ Delete(r, w, i)
    BY DEF BeginCall
  <1>2. ASSUME worker[w].at = "up"
        PROVE  lost = FALSE
    BY <1>2 DEF SkillInv, SkillTypeInv, ProcessesFit, ProcessFit
  <1>3. FileList \subseteq Seq(File) /\ <<>> \in Seq(File)
    BY SkillAssumption
  <1>4. ASSUME NEW n \in Skill, NEW list \in FileList, Upload(r, w, n, list)
        PROVE  Moves(r, n)
    <2>1. CASE Named(n) = {}
      <3> DEFINE call == [NoCall EXCEPT !.at = "write", !.op = "upload", !.name = n,
                                        !.list = list, !.id = r, !.on = w]
      <3>1. call \in Call
        BY <1>3 DEF NoCall, Call
      <3>2. /\ call.op = "upload" /\ call.at = "write" /\ call.on = w /\ call.name = n
            /\ call.id = r /\ call.list = list
        BY DEF NoCall
      <3>3. Begin(r, n, call) /\ req[r].at = "idle" /\ worker[w].at = "up" /\ Head(list) = SkillMd
        BY <1>4, <2>1 DEF Upload
      <3> HIDE DEF call
      <3>4. QED
        BY <2>1, <3>1, <3>2, <3>3, BeginMoves, OpsOfCalls
    <2>2. CASE Named(n) # {}
      <3>1. /\ Fail(r) /\ UNCHANGED <<rows, disk, s3, worker, history>>
            /\ req[r].at = "idle" /\ worker[w].at = "up"
        BY <1>4, <2>2 DEF Upload
      <3>2. ~InFlight(r)
        BY <3>1 DEF InFlight
      <3>3. QED
        BY <1>2, <3>1, <3>2, FailMoves DEF history, SkillInv, SkillTypeInv, Touches
    <2>3. QED
      BY <2>1, <2>2
  <1>5. ASSUME NEW i \in Request, NEW base \in Call, base.op \in OpsAt(base.at),
               base.at \in {"write", "remove", "flush"}, base.at = "flush" => base.op = "meta",
               base.op # "upload", base.op = "update" => base.list \in FileList,
               Load(r, w, i, base)
        PROVE  \E n \in Skill : Moves(r, n)
    <2> DEFINE n == rows[i].name
               call == [base EXCEPT !.name = n, !.id = i, !.version = rows[i].version,
                                    !.active = rows[i].active, !.on = w]
    <2>1. /\ req[r].at = "idle" /\ worker[w].at = "up" /\ rows[i] # None
          /\ Begin(r, n, call)
      BY <1>5 DEF Load
    <2>2. rows[i] \in Row
      BY <2>1 DEF SkillInv, SkillTypeInv
    <2>3. n \in Skill /\ rows[i].version \in Nat /\ rows[i].active \in BOOLEAN
      BY <2>2 DEF Row
    <2>4. call \in Call
      BY <1>5, <2>3 DEF Call
    <2>5. /\ call.op = base.op /\ call.at = base.at /\ call.on = w /\ call.name = n
          /\ call.id = i /\ call.list = base.list
      BY <1>5 DEF Call
    <2> HIDE DEF call
    <2>6. Moves(r, n)
      <3> HIDE DEF n
      <3>1. QED
        BY <1>5, <2>1, <2>3, <2>4, <2>5, BeginMoves DEF n
    <2>7. QED
      BY <2>3, <2>6
  <1>6. ASSUME NEW i \in Request, NEW list \in FileList, UpdateFiles(r, w, i, list)
        PROVE  \E n \in Skill : Moves(r, n)
    <2> DEFINE base == [NoCall EXCEPT !.at = "write", !.op = "update", !.list = list]
    <2>1. Load(r, w, i, base)
      BY <1>6 DEF UpdateFiles
    <2>2. base \in Call
      BY <1>3 DEF NoCall, Call
    <2>3. base.at = "write" /\ base.op = "update" /\ base.list = list
      BY DEF NoCall
    <2> HIDE DEF base
    <2>4. QED
      BY <1>5, <2>1, <2>2, <2>3, OpsOfCalls
  <1>7. ASSUME NEW i \in Request, UpdateMeta(r, w, i)
        PROVE  \E n \in Skill : Moves(r, n)
    <2> DEFINE base == [NoCall EXCEPT !.at = "flush", !.op = "meta"]
    <2>1. Load(r, w, i, base)
      BY <1>7 DEF UpdateMeta
    <2>2. base \in Call
      BY <1>3 DEF NoCall, Call
    <2>3. base.at = "flush" /\ base.op = "meta"
      BY DEF NoCall
    <2> HIDE DEF base
    <2>4. QED
      BY <1>5, <2>1, <2>2, <2>3, OpsOfCalls
  <1>8. ASSUME NEW i \in Request, Delete(r, w, i)
        PROVE  \E n \in Skill : Moves(r, n)
    <2> DEFINE base == [NoCall EXCEPT !.at = "remove", !.op = "delete"]
    <2>1. Load(r, w, i, base)
      BY <1>8 DEF Delete
    <2>2. base \in Call
      BY <1>3 DEF NoCall, Call
    <2>3. base.at = "remove" /\ base.op = "delete"
      BY DEF NoCall
    <2> HIDE DEF base
    <2>4. QED
      BY <1>5, <2>1, <2>2, <2>3, OpsOfCalls
  <1>9. QED
    BY <1>1, <1>4, <1>6, <1>7, <1>8

\* Calls that stay under way.
LEMMA StayMoves ==
    ASSUME SkillInv, NEW r \in Request, InFlight(r), NEW n \in Skill, req[r].name = n,
           req' \in [Request -> Call], \A q \in Request \ {r} : req'[q] = req[q],
           InFlight(r)', req'[r].op = req[r].op, req'[r].name = n,
           req'[r].id = req[r].id, req'[r].list = req[r].list, req'[r].on = req[r].on,
           req[r].op \in OpsAt(req'[r].at),
           req'[r].at \in {"put", "drop"} => req'[r].todo # <<>>,
           req[r].op \in {"update", "meta"} /\ req'[r].at \in {"put", "commit"} =>
             rows[req[r].id] # None,
           rows' = rows, worker' = worker, lost' = lost,
           disk' \in [Skill -> [File -> Content] \cup {None}],
           s3' \in [Skill -> [File -> Content]], BackupFinite',
           marred \subseteq marred', marred' \subseteq Skill, unsaved' \subseteq Skill,
           \A m \in Skill \ {n} : /\ disk'[m] = disk[m] /\ s3'[m] = s3[m]
                                  /\ m \in unsaved' <=> m \in unsaved,
           req[r].op # "meta" /\ n \notin marred' => Busy(r, n)',
           req[r].op = "meta" => disk' = disk /\ s3' = s3 /\ unsaved' = unsaved
    PROVE  Moves(r, n)
  <1>1. lost = FALSE /\ req[r].at \notin {"ok", "failed", "idle"}
    BY InFlightFacts
  <1>2. /\ RowsMove(r)
        /\ \A m \in Skill \ {n} : Same(m) /\ ~Touches(r, m) /\ ~Touches(r, m)'
        /\ \A m \in Skill : Named(m)' = Named(m)
    BY MoveFrame
  <1>3. SkillTypeInv'
    BY DEF SkillInv, SkillTypeInv
  <1>4. CallFit(r)'
    BY DEF SkillInv, CallsFit, CallFit
  <1>5. RowFit(r)'
    <2>1. req[r].op # "upload" => req[r].id \in Request \ {r}
      BY <1>1 DEF SkillInv, RowsFit, RowFit, CallsFit, CallFit
    <2>2. rows[r] = None
      BY InFlightFacts
    <2>3. QED
      BY <2>1, <2>2 DEF SkillInv, RowsFit, RowFit
  <1>6. Touches(r, n) <=> req[r].op # "meta"
    BY DEF Touches
  <1>7. Touches(r, n)' <=> req[r].op # "meta"
    BY DEF Touches
  <1>8. req[r].op = "meta" => Same(n)
    BY <1>2 DEF Same
  <1>9. QED
    BY <1>1, <1>2, <1>3, <1>4, <1>5, <1>6, <1>7, <1>8 DEF Moves

LEMMA BusyBefore ==
    ASSUME SkillInv, NEW r \in Request, InFlight(r), req[r].op # "meta",
           req[r].name \notin marred
    PROVE  Busy(r, req[r].name)
  BY InFlightFacts DEF SkillInv, BusyInv, Touches

LEMMA WrittenType ==
    ASSUME SkillTypeInv, NEW n \in Skill, NEW files \in SUBSET File, NEW data \in Content
    PROVE  /\ FilesOf(n) \in [File -> Content]
           /\ Written(n, files, data) \in [File -> Content] /\ Written(n, files, data) # None
           /\ \A f \in File : Written(n, files, data)[f] =
                IF f \in files THEN data ELSE FilesOf(n)[f]
  <1>1. FilesOf(n) \in [File -> Content]
    BY DEF SkillTypeInv, FilesOf, NoFiles, Content
  <1>2. Written(n, files, data) \in [File -> Content]
    BY <1>1 DEF Written
  <1>3. QED
    BY <1>1, <1>2, NoneAssumption DEF Written

LEMMA SetDirType ==
    ASSUME SkillTypeInv, NEW n \in Skill, NEW d \in [File -> Content] \cup {None}, SetDir(n, d)
    PROVE  /\ disk' \in [Skill -> [File -> Content] \cup {None}] /\ disk'[n] = d
           /\ \A m \in Skill \ {n} : disk'[m] = disk[m]
  BY DEF SkillTypeInv, SetDir

LEMMA WriteFilesMoves ==
    ASSUME SkillInv, NEW r \in Request, NEW n \in Skill, req[r].name = n, WriteFiles(r),
           lost' = lost
    PROVE  Moves(r, n)
  <1> DEFINE files == Members(req[r].list)
             d == Written(n, files, r)
  <1>1. InFlight(r) /\ req[r].at = "write" /\ req[r].op \in {"upload", "update"}
    BY InFlightFacts, OpsOfCalls DEF WriteFiles, InFlight
  <1>2. req[r].list \in Seq(File) /\ req[r].list # <<>> /\ req[r].list \in FileList
    BY <1>1, SkillAssumption DEF SkillInv, CallsFit, CallFit
  <1>3. files \in SUBSET File
    BY <1>2, MembersOfList
  <1>4. SetDir(n, d) /\ GoTo(r, "flush") /\ UNCHANGED <<rows, s3, worker, marred, unsaved>>
    BY DEF WriteFiles
  <1>5. r \in Content /\ Good(r)
    BY SkillAssumption DEF Content, Good
  <1>6. /\ d \in [File -> Content] /\ d # None
        /\ \A f \in File : d[f] = IF f \in files THEN r ELSE FilesOf(n)[f]
    <2> HIDE DEF files
    <2>1. SkillTypeInv
      BY DEF SkillInv
    <2>2. QED
      BY <1>3, <1>5, <2>1, WrittenType
  <1>7. /\ disk' \in [Skill -> [File -> Content] \cup {None}] /\ disk'[n] = d
        /\ \A m \in Skill \ {n} : disk'[m] = disk[m]
    BY <1>1, <1>4, <1>6, SetDirType DEF SkillInv
  <1>8. /\ req' \in [Request -> Call] /\ \A q \in Request \ {r} : req'[q] = req[q]
        /\ req'[r].at = "flush" /\ req'[r].op = req[r].op /\ req'[r].name = n
        /\ req'[r].id = req[r].id /\ req'[r].list = req[r].list /\ req'[r].on = req[r].on
    BY <1>4, GoToCall DEF Places, SkillInv, SkillTypeInv
  <1>9. ASSUME n \notin marred
        PROVE  Busy(r, n)'
    <2>1. Busy(r, n)
      BY <1>1, <1>9, BusyBefore
    <2>2. Unique(n) /\ Intact(n) /\ Mirrored(n)
      BY <1>1, <2>1 DEF Busy
    <2>3. Named(n)' = Named(n)
      BY <1>4 DEF Named
    <2>4. Unique(n)' /\ IF req'[r].op = "upload" THEN Named(n)' = {} ELSE req'[r].id \in Named(n)'
      BY <1>8, <2>1, <2>3 DEF Busy, Unique
    <2>5. Good(d[SkillMd])
      <3>1. CASE req[r].op = "upload"
        <4>1. SkillMd \in files
          <5>1. Head(req[r].list) = SkillMd
            BY <1>1, <3>1 DEF SkillInv, CallsFit, CallFit
          <5>2. QED
            BY <1>2, <5>1, MembersSplit
        <4>2. QED
          BY <1>5, <1>6, <4>1, SkillAssumption
      <3>2. CASE req[r].op # "upload"
        <4>1. disk[n] # None /\ Good(disk[n][SkillMd])
          BY <2>1, <2>2, <3>2 DEF Busy, Intact
        <4>2. QED
          BY <1>5, <1>6, <4>1, SkillAssumption DEF FilesOf
      <3>3. QED
        BY <3>1, <3>2
    <2>6. Rest(r)' = files
      BY <1>8 DEF Rest
    <2>7. n \notin unsaved' => \A f \in File \ files : s3'[n][f] = d[f]
      BY <1>4, <1>6, <2>2 DEF Mirrored
    <2> HIDE DEF d, files
    <2>8. QED
      BY <1>1, <1>3, <1>6, <1>7, <1>8, <2>4, <2>5, <2>6, <2>7 DEF Busy
  <1>10. InFlight(r)'
    BY <1>8 DEF InFlight
  <1>11. s3' \in [Skill -> [File -> Content]] /\ BackupFinite' /\ marred' \subseteq Skill
         /\ unsaved' \subseteq Skill
    BY <1>4 DEF SkillInv, SkillTypeInv, BackupFinite
  <1>12. req[r].op \in OpsAt("flush")
    BY <1>1, OpsOfCalls
  <1> HIDE DEF d, files
  <1>13. QED
    BY <1>1, <1>4, <1>7, <1>8, <1>9, <1>10, <1>11, <1>12, StayMoves

LEMMA WriteFailsMoves ==
    ASSUME SkillInv, NEW r \in Request, NEW n \in Skill, req[r].name = n,
           NEW k \in 1..Len(req[r].list), NEW half \in BOOLEAN, WriteFails(r, k, half),
           lost' = lost
    PROVE  Moves(r, n)
  <1> DEFINE data == IF req[r].op = "upload" THEN None ELSE r
             done == Before(req[r].list, k)
             kept == Written(n, done, data)
             d == IF half THEN [kept EXCEPT ![req[r].list[k]] = Torn] ELSE kept
  <1>1. InFlight(r) /\ req[r].at = "write"
    BY DEF WriteFails, InFlight
  <1>2. lost = FALSE /\ req[r].at \notin {"ok", "failed"} /\ req[r].list \in FileList \cup {<<>>}
    BY <1>1, InFlightFacts DEF Call
  <1>3. req[r].list \in Seq(File) /\ req[r].list[k] \in File /\ done \in SUBSET File
    BY <1>2, SkillAssumption DEF Before
  <1>4. /\ SetDir(n, d) /\ marred' = marred \cup {n} /\ Fail(r)
        /\ UNCHANGED <<rows, s3, worker, unsaved>>
    BY DEF WriteFails
  <1>5. data \in Content /\ SkillTypeInv
    BY DEF Content, SkillInv
  <1>6. kept \in [File -> Content]
    <2> HIDE DEF data, done
    <2>1. QED
      BY <1>3, <1>5, WrittenType
  <1>7. d \in [File -> Content]
    <2> HIDE DEF kept
    <2>1. QED
      BY <1>6 DEF Content
  <1>8. /\ disk' \in [Skill -> [File -> Content] \cup {None}]
        /\ \A m \in Skill \ {n} : disk'[m] = disk[m]
    <2> HIDE DEF d
    <2>1. QED
      BY <1>4, <1>5, <1>7, SetDirType
  <1>9. QED
    BY <1>2, <1>4, <1>8, FailMoves

LEMMA EarlyFailsMoves ==
    ASSUME SkillInv, NEW r \in Request, NEW n \in Skill, req[r].name = n,
           FlushFails(r) \/ CommitFails(r), lost' = lost
    PROVE  Moves(r, n)
  <1>1. InFlight(r)
    BY DEF FlushFails, CommitFails, InFlight
  <1>2. lost = FALSE /\ req[r].at \notin {"ok", "failed"}
    BY <1>1, InFlightFacts
  <1>3. /\ Fail(r) /\ UNCHANGED <<rows, disk, s3, worker, unsaved>>
        /\ marred' = IF req[r].op = "meta" THEN marred ELSE marred \cup {n}
    BY DEF FlushFails, CommitFails
  <1>4. disk' \in [Skill -> [File -> Content] \cup {None}]
    BY <1>3 DEF SkillInv, SkillTypeInv
  <1>5. n \notin marred' => ~Touches(r, n)
    BY <1>3 DEF Touches
  <1>6. QED
    BY <1>2, <1>3, <1>4, <1>5, FailMoves

LEMMA RemoveDirMoves ==
    ASSUME SkillInv, NEW r \in Request, NEW n \in Skill, req[r].name = n,
           RemoveDir(r), lost' = lost
    PROVE  Moves(r, n)
  <1>1. InFlight(r) /\ req[r].at = "remove" /\ req[r].op = "delete"
    BY InFlightFacts, OpsOfCalls DEF RemoveDir, InFlight
  <1>2. /\ disk' \in [Skill -> [File -> Content] \cup {None}] /\ disk'[n] = None
        /\ \A m \in Skill \ {n} : disk'[m] = disk[m]
    <2>1. CASE disk[n] = None
      BY <2>1 DEF RemoveDir, SkillInv, SkillTypeInv
    <2>2. CASE disk[n] # None
      BY <2>2, SetDirType DEF RemoveDir, SkillInv
    <2>3. QED
      BY <2>1, <2>2
  <1>3. GoTo(r, "list") /\ UNCHANGED <<rows, s3, worker, marred, unsaved>>
    BY DEF RemoveDir
  <1>4. /\ req' \in [Request -> Call] /\ \A q \in Request \ {r} : req'[q] = req[q]
        /\ req'[r].at = "list" /\ req'[r].op = req[r].op /\ req'[r].name = n
        /\ req'[r].id = req[r].id /\ req'[r].list = req[r].list /\ req'[r].on = req[r].on
    BY <1>3, GoToCall DEF Places, SkillInv, SkillTypeInv
  <1>5. ASSUME n \notin marred
        PROVE  Busy(r, n)'
    <2>1. Busy(r, n)
      BY <1>1, <1>5, BusyBefore
    <2>2. Named(n)' = Named(n)
      BY <1>3 DEF Named
    <2>3. Unique(n)' /\ IF req'[r].op = "upload" THEN Named(n)' = {} ELSE req'[r].id \in Named(n)'
      BY <1>4, <2>1, <2>2 DEF Busy, Unique
    <2>4. Rest(r)' = File
      BY <1>4 DEF Rest
    <2>5. QED
      BY <1>1, <1>2, <1>4, <2>3, <2>4 DEF Busy
  <1>6. InFlight(r)'
    BY <1>4 DEF InFlight
  <1>7. s3' \in [Skill -> [File -> Content]] /\ BackupFinite' /\ marred' \subseteq Skill
        /\ unsaved' \subseteq Skill
    BY <1>3 DEF SkillInv, SkillTypeInv, BackupFinite
  <1>8. req[r].op \in OpsAt("list")
    BY <1>1, OpsOfCalls
  <1>9. QED
    BY <1>1, <1>2, <1>3, <1>4, <1>5, <1>6, <1>7, <1>8, StayMoves

LEMMA RemoveDirFailsMoves ==
    ASSUME SkillInv, NEW r \in Request, NEW n \in Skill, req[r].name = n,
           NEW gone \in SUBSET File, RemoveDirFails(r, gone), lost' = lost
    PROVE  Moves(r, n)
  <1> DEFINE d == Written(n, gone, None)
  <1>1. InFlight(r) /\ req[r].at = "remove" /\ req[r].op = "delete"
    BY InFlightFacts, OpsOfCalls DEF RemoveDirFails, InFlight
  <1>2. None \in Content /\ SkillTypeInv
    BY DEF Content, SkillInv
  <1>3. d \in [File -> Content]
    BY <1>2, WrittenType
  <1>4. /\ SetDir(n, d) /\ GoTo(r, "list") /\ marred' = marred \cup {n}
        /\ UNCHANGED <<rows, s3, worker, unsaved>>
    BY DEF RemoveDirFails
  <1> HIDE DEF d
  <1>5. /\ disk' \in [Skill -> [File -> Content] \cup {None}]
        /\ \A m \in Skill \ {n} : disk'[m] = disk[m]
    BY <1>2, <1>3, <1>4, SetDirType
  <1>6. /\ req' \in [Request -> Call] /\ \A q \in Request \ {r} : req'[q] = req[q]
        /\ req'[r].at = "list" /\ req'[r].op = req[r].op /\ req'[r].name = n
        /\ req'[r].id = req[r].id /\ req'[r].list = req[r].list /\ req'[r].on = req[r].on
    BY <1>4, GoToCall DEF Places, SkillInv, SkillTypeInv
  <1>7. InFlight(r)'
    BY <1>6 DEF InFlight
  <1>8. s3' \in [Skill -> [File -> Content]] /\ BackupFinite' /\ marred' \subseteq Skill
        /\ unsaved' \subseteq Skill
    BY <1>4 DEF SkillInv, SkillTypeInv, BackupFinite
  <1>9. req[r].op \in OpsAt("list") /\ marred \subseteq marred' /\ n \in marred'
    BY <1>1, <1>4, OpsOfCalls
  <1>10. QED
    BY <1>1, <1>4, <1>5, <1>6, <1>7, <1>8, <1>9, StayMoves

LEMMA FlushMoves ==
    ASSUME SkillInv, NEW r \in Request, NEW n \in Skill, req[r].name = n,
           Flush(r), lost' = lost
    PROVE  Moves(r, n)
  <1> DEFINE there == IF req[r].op = "meta" THEN "commit" ELSE "put"
             call == [req[r] EXCEPT !.at = there, !.todo = req[r].list]
  <1>1. InFlight(r) /\ req[r].at = "flush" /\ req[r].op \in {"upload", "update", "meta"}
    BY InFlightFacts, OpsOfCalls DEF Flush, InFlight
  <1>2. /\ req[r].list \in Seq(File)
        /\ req[r].op # "meta" => req[r].list # <<>>
    <2>1. req[r].list \in FileList \cup {<<>>}
      BY <1>1, InFlightFacts DEF Call
    <2>2. req[r].op # "meta" => req[r].list \in FileList
      BY <1>1 DEF SkillInv, CallsFit, CallFit
    <2>3. <<>> \in Seq(File)
      OBVIOUS
    <2>4. QED
      BY <2>1, <2>2, <2>3, SkillAssumption
  <1>3. req[r] \in Call
    BY DEF SkillInv, SkillTypeInv
  <1>4. call \in Call
    BY <1>2, <1>3 DEF Call
  <1>5. req' = [req EXCEPT ![r] = call]
    BY DEF Flush
  <1>6. /\ req' \in [Request -> Call] /\ \A q \in Request \ {r} : req'[q] = req[q]
        /\ req'[r] = call
    BY <1>4, <1>5 DEF SkillInv, SkillTypeInv
  <1>7. /\ req'[r].at = there /\ req'[r].op = req[r].op /\ req'[r].name = n
        /\ req'[r].id = req[r].id /\ req'[r].list = req[r].list /\ req'[r].on = req[r].on
        /\ req'[r].todo = req[r].list
    BY <1>3, <1>6 DEF Call
  <1> HIDE DEF call
  <1>8. UNCHANGED <<rows, disk, s3, worker, marred, unsaved>>
    BY DEF Flush, history
  <1>9. ASSUME n \notin marred, req[r].op # "meta"
        PROVE  Busy(r, n)'
    <2>1. Busy(r, n)
      BY <1>1, <1>9, BusyBefore
    <2>2. Named(n)' = Named(n)
      BY <1>8 DEF Named
    <2>3. Unique(n)' /\ IF req'[r].op = "upload" THEN Named(n)' = {} ELSE req'[r].id \in Named(n)'
      BY <1>7, <2>1, <2>2 DEF Busy, Unique
    <2>4. Rest(r)' = Rest(r)
      BY <1>1, <1>7, <1>9 DEF Rest
    <2>5. /\ disk[n] # None /\ Good(disk[n][SkillMd])
          /\ \A f \in Rest(r) : disk[n][f] = r
          /\ n \notin unsaved => \A f \in File \ Rest(r) : s3[n][f] = disk[n][f]
      BY <1>1, <2>1 DEF Busy
    <2>6. req'[r].at = "put" /\ req'[r].op # "delete"
      BY <1>1, <1>7, <1>9
    <2>7. QED
      BY <1>8, <2>3, <2>4, <2>5, <2>6 DEF Busy
  <1>10. InFlight(r)'
    BY <1>7 DEF InFlight
  <1>11. /\ s3' \in [Skill -> [File -> Content]] /\ BackupFinite' /\ marred' \subseteq Skill
         /\ unsaved' \subseteq Skill /\ disk' \in [Skill -> [File -> Content] \cup {None}]
    BY <1>8 DEF SkillInv, SkillTypeInv, BackupFinite
  <1>12. /\ req[r].op \in OpsAt(req'[r].at)
         /\ req'[r].at \in {"put", "drop"} => req'[r].todo # <<>>
    BY <1>1, <1>2, <1>7, OpsOfCalls
  <1>13. req[r].op \in {"update", "meta"} => rows[req[r].id] # None
    BY DEF Flush
  <1>14. QED
    BY <1>1, <1>6, <1>7, <1>8, <1>9, <1>10, <1>11, <1>12, <1>13, StayMoves

LEMMA SetObjectType ==
    ASSUME SkillInv, NEW r \in Request, NEW n \in Skill, req[r].name = n,
           req[r].todo \in Seq(File), req[r].todo # <<>>, NEW data \in Content,
           SetObject(r, data)
    PROVE  /\ s3' \in [Skill -> [File -> Content]] /\ BackupFinite'
           /\ \A m \in Skill \ {n} : s3'[m] = s3[m]
           /\ \A f \in File : s3'[n][f] = IF f = Head(req[r].todo) THEN data ELSE s3[n][f]
  <1> DEFINE h == Head(req[r].todo)
  <1>1. h \in File
    BY MembersSplit
  <1>2. s3 \in [Skill -> [File -> Content]] /\ s3' = [s3 EXCEPT ![n][h] = data]
    BY DEF SetObject, SkillInv, SkillTypeInv
  <1> HIDE DEF h
  <1>3. s3[n] \in [File -> Content] /\ s3'[n] = [s3[n] EXCEPT ![h] = data]
    BY <1>2
  <1>4. s3' \in [Skill -> [File -> Content]] /\ \A m \in Skill \ {n} : s3'[m] = s3[m]
    BY <1>1, <1>2
  <1>5. \A f \in File : s3'[n][f] = IF f = h THEN data ELSE s3[n][f]
    BY <1>1, <1>3
  <1>6. IsFiniteSet({f \in File : s3'[n][f] # None})
    <2> DEFINE Old == {f \in File : s3[n][f] # None}
               New == {f \in File : s3'[n][f] # None}
    <2>1. IsFiniteSet(Old)
      BY DEF SkillInv, BackupFinite
    <2>2. IsFiniteSet(Old \cup {h})
      BY <2>1, FS_AddElement
    <2>3. New \subseteq Old \cup {h}
      BY <1>5
    <2>4. QED
      BY <2>2, <2>3, FS_Subset
  <1>7. BackupFinite'
    BY <1>4, <1>6 DEF SkillInv, BackupFinite
  <1>8. QED
    BY <1>4, <1>5, <1>7 DEF h

LEMMA PutObjectMoves ==
    ASSUME SkillInv, NEW r \in Request, NEW n \in Skill, req[r].name = n,
           PutObject(r), lost' = lost
    PROVE  Moves(r, n)
  <1> DEFINE todo == req[r].todo
  <1>1. InFlight(r) /\ req[r].at = "put" /\ req[r].op \in {"upload", "update"}
    BY InFlightFacts, OpsOfCalls DEF PutObject, InFlight
  <1>2. todo \in Seq(File) /\ todo # <<>>
    BY <1>1, InFlightFacts DEF Call, SkillInv, CallsFit, CallFit
  <1>3. r \in Content
    BY DEF Content
  <1>4. /\ s3' \in [Skill -> [File -> Content]] /\ BackupFinite'
        /\ \A m \in Skill \ {n} : s3'[m] = s3[m]
        /\ \A f \in File : s3'[n][f] = IF f = Head(todo) THEN r ELSE s3[n][f]
    BY <1>2, <1>3, SetObjectType DEF PutObject
  <1>5. /\ req' \in [Request -> Call] /\ \A q \in Request \ {r} : req'[q] = req[q]
        /\ req'[r].at = IF Len(todo) = 1 THEN "commit" ELSE "put"
        /\ req'[r].op = req[r].op /\ req'[r].name = n
        /\ req'[r].id = req[r].id /\ req'[r].list = req[r].list /\ req'[r].on = req[r].on
        /\ req'[r].todo = Tail(todo)
    BY <1>2, NextFileCall DEF PutObject, SkillInv, SkillTypeInv
  <1>6. UNCHANGED <<rows, disk, worker, marred, unsaved>>
    BY DEF PutObject, history
  <1>7. /\ Head(todo) \in File /\ Members(todo) = {Head(todo)} \cup Members(Tail(todo))
        /\ Len(todo) = 1 => Members(Tail(todo)) = {}
        /\ Len(todo) # 1 => Tail(todo) # <<>>
    BY <1>2, MembersSplit
  <1>8. Rest(r) = Members(todo) /\ Rest(r)' = Members(Tail(todo))
    BY <1>1, <1>5, <1>7 DEF Rest
  <1> HIDE DEF todo
  <1>9. ASSUME n \notin marred
        PROVE  Busy(r, n)'
    <2>1. Busy(r, n)
      BY <1>1, <1>9, BusyBefore
    <2>2. Named(n)' = Named(n)
      BY <1>6 DEF Named
    <2>3. Unique(n)' /\ IF req'[r].op = "upload" THEN Named(n)' = {} ELSE req'[r].id \in Named(n)'
      BY <1>5, <2>1, <2>2 DEF Busy, Unique
    <2>4. /\ disk[n] # None /\ Good(disk[n][SkillMd])
          /\ \A f \in Rest(r) : disk[n][f] = r
          /\ n \notin unsaved => \A f \in File \ Rest(r) : s3[n][f] = disk[n][f]
      BY <1>1, <2>1 DEF Busy
    <2>5. n \notin unsaved => \A f \in File \ Rest(r)' : s3'[n][f] = disk[n][f]
      BY <1>4, <1>7, <1>8, <2>4
    <2>6. \A f \in Rest(r)' : disk[n][f] = r
      BY <1>7, <1>8, <2>4
    <2>7. req'[r].at \in {"put", "commit"} /\ req'[r].op # "delete"
      BY <1>1, <1>5
    <2>8. QED
      BY <1>6, <2>3, <2>4, <2>5, <2>6, <2>7 DEF Busy
  <1>10. InFlight(r)'
    BY <1>5 DEF InFlight
  <1>11. /\ marred' \subseteq Skill /\ unsaved' \subseteq Skill
         /\ disk' \in [Skill -> [File -> Content] \cup {None}]
    BY <1>6 DEF SkillInv, SkillTypeInv
  <1>12. /\ req[r].op \in OpsAt(req'[r].at)
         /\ req'[r].at \in {"put", "drop"} => req'[r].todo # <<>>
    BY <1>1, <1>5, <1>7, OpsOfCalls
  <1>13. req[r].op \in {"update", "meta"} => rows[req[r].id] # None
    BY <1>1 DEF SkillInv, RowsFit, RowFit
  <1>14. QED
    BY <1>1, <1>4, <1>5, <1>6, <1>9, <1>10, <1>11, <1>12, <1>13, StayMoves

\* The backup of a call may fail on the way.
LEMMA BackupFailsMoves ==
    ASSUME SkillInv, NEW r \in Request, NEW n \in Skill, req[r].name = n,
           PutFails(r) \/ ListFails(r), lost' = lost
    PROVE  Moves(r, n)
  <1>1. /\ InFlight(r) /\ req[r].at \in {"put", "list"}
        /\ req[r].op \in {"upload", "update", "delete"}
        /\ req[r].at = "put" <=> req[r].op # "delete"
    BY InFlightFacts, OpsOfCalls DEF PutFails, ListFails, InFlight
  <1>2. /\ GoTo(r, "commit") /\ UNCHANGED <<rows, disk, s3, worker, marred>>
        /\ unsaved' = unsaved \cup {n}
    BY DEF PutFails, ListFails
  <1>3. /\ req' \in [Request -> Call] /\ \A q \in Request \ {r} : req'[q] = req[q]
        /\ req'[r].at = "commit" /\ req'[r].op = req[r].op /\ req'[r].name = n
        /\ req'[r].id = req[r].id /\ req'[r].list = req[r].list /\ req'[r].on = req[r].on
    BY <1>2, GoToCall DEF Places, SkillInv, SkillTypeInv
  <1>4. ASSUME n \notin marred
        PROVE  Busy(r, n)'
    <2>1. Busy(r, n)
      BY <1>1, <1>4, BusyBefore
    <2>2. Named(n)' = Named(n)
      BY <1>2 DEF Named
    <2>3. Unique(n)' /\ IF req'[r].op = "upload" THEN Named(n)' = {} ELSE req'[r].id \in Named(n)'
      BY <1>3, <2>1, <2>2 DEF Busy, Unique
    <2>4. Rest(r)' = {}
      BY <1>3 DEF Rest
    <2>5. IF req[r].op = "delete" THEN disk[n] = None
                                  ELSE disk[n] # None /\ Good(disk[n][SkillMd])
      BY <1>1, <2>1 DEF Busy
    <2>6. n \in unsaved'
      BY <1>2
    <2>7. QED
      BY <1>2, <1>3, <2>3, <2>4, <2>5, <2>6 DEF Busy
  <1>5. InFlight(r)'
    BY <1>3 DEF InFlight
  <1>6. /\ s3' \in [Skill -> [File -> Content]] /\ BackupFinite' /\ marred' \subseteq Skill
        /\ unsaved' \subseteq Skill /\ disk' \in [Skill -> [File -> Content] \cup {None}]
    BY <1>2 DEF SkillInv, SkillTypeInv, BackupFinite
  <1>7. req[r].op \in OpsAt("commit")
    BY <1>1, OpsOfCalls
  <1>8. req[r].op \in {"update", "meta"} => rows[req[r].id] # None
    BY <1>1 DEF SkillInv, RowsFit, RowFit
  <1>9. \A m \in Skill \ {n} : m \in unsaved' <=> m \in unsaved
    BY <1>2
  <1>10. QED
    BY <1>1, <1>2, <1>3, <1>4, <1>5, <1>6, <1>7, <1>8, <1>9, StayMoves

LEMMA ListObjectsMoves ==
    ASSUME SkillInv, NEW r \in Request, NEW n \in Skill, req[r].name = n,
           ListObjects(r), lost' = lost
    PROVE  Moves(r, n)
  <1> DEFINE Found == {f \in File : s3[n][f] # None}
  <1>1. InFlight(r) /\ req[r].at = "list" /\ req[r].op = "delete"
    BY InFlightFacts, OpsOfCalls DEF ListObjects, InFlight
  <1>2. Cardinality(Found) \in Nat
    BY FS_CardinalityType DEF SkillInv, BackupFinite
  <1>3. PICK keys \in [1..Cardinality(Found) -> File] :
          /\ Members(keys) = Found
          /\ req' = [req EXCEPT ![r].at = IF keys = <<>> THEN "commit" ELSE "drop",
                                ![r].todo = keys]
    BY DEF ListObjects
  <1> DEFINE there == IF keys = <<>> THEN "commit" ELSE "drop"
             call == [req[r] EXCEPT !.at = there, !.todo = keys]
  <1>4. keys \in Seq(File)
    <2> HIDE DEF Found
    <2>1. QED
      BY <1>2, <1>3, ListOfFiles
  <1>5. req[r] \in Call
    BY DEF SkillInv, SkillTypeInv
  <1>6. call \in Call
    BY <1>4, <1>5 DEF Call
  <1>7. /\ req' \in [Request -> Call] /\ \A q \in Request \ {r} : req'[q] = req[q]
        /\ req'[r] = call
    BY <1>3, <1>6 DEF SkillInv, SkillTypeInv
  <1>8. /\ req'[r].at = there /\ req'[r].op = req[r].op /\ req'[r].name = n
        /\ req'[r].id = req[r].id /\ req'[r].list = req[r].list /\ req'[r].on = req[r].on
        /\ req'[r].todo = keys
    BY <1>5, <1>7 DEF Call
  <1> HIDE DEF call
  <1>9. UNCHANGED <<rows, disk, s3, worker, marred, unsaved>>
    BY DEF ListObjects, history
  <1>10. ASSUME n \notin marred
         PROVE  Busy(r, n)'
    <2>1. Busy(r, n)
      BY <1>1, <1>10, BusyBefore
    <2>2. Named(n)' = Named(n)
      BY <1>9 DEF Named
    <2>3. Unique(n)' /\ IF req'[r].op = "upload" THEN Named(n)' = {} ELSE req'[r].id \in Named(n)'
      BY <1>8, <2>1, <2>2 DEF Busy, Unique
    <2>4. Rest(r)' = Found
      BY <1>3, <1>8, MembersOfNone DEF Rest
    <2>5. disk[n] = None
      BY <1>1, <2>1 DEF Busy
    <2>6. \A f \in File \ Found : s3[n][f] = None
      OBVIOUS
    <2>7. QED
      BY <1>1, <1>8, <1>9, <2>3, <2>4, <2>5, <2>6 DEF Busy
  <1>11. InFlight(r)'
    BY <1>8 DEF InFlight
  <1>12. /\ s3' \in [Skill -> [File -> Content]] /\ BackupFinite' /\ marred' \subseteq Skill
         /\ unsaved' \subseteq Skill /\ disk' \in [Skill -> [File -> Content] \cup {None}]
    BY <1>9 DEF SkillInv, SkillTypeInv, BackupFinite
  <1>13. /\ req[r].op \in OpsAt(req'[r].at)
         /\ req'[r].at \in {"put", "drop"} => req'[r].todo # <<>>
    BY <1>1, <1>8, OpsOfCalls
  <1> HIDE DEF there, Found
  <1>14. QED
    BY <1>1, <1>7, <1>8, <1>9, <1>10, <1>11, <1>12, <1>13, StayMoves

LEMMA DropMoves ==
    ASSUME SkillInv, NEW r \in Request, NEW n \in Skill, req[r].name = n,
           DropObject(r) \/ DropFails(r), lost' = lost
    PROVE  Moves(r, n)
  <1> DEFINE todo == req[r].todo
  <1>1. InFlight(r) /\ req[r].at = "drop" /\ req[r].op = "delete"
    BY InFlightFacts, OpsOfCalls DEF DropObject, DropFails, InFlight
  <1>2. todo \in Seq(File) /\ todo # <<>>
    BY <1>1, InFlightFacts DEF Call, SkillInv, CallsFit, CallFit
  <1>3. /\ s3' \in [Skill -> [File -> Content]] /\ BackupFinite'
        /\ \A m \in Skill \ {n} : s3'[m] = s3[m]
        /\ DropObject(r) => \A f \in File :
             s3'[n][f] = IF f = Head(todo) THEN None ELSE s3[n][f]
    <2>1. CASE DropObject(r)
      <3>1. None \in Content /\ SetObject(r, None)
        BY <2>1 DEF Content, DropObject
      <3>2. QED
        BY <1>2, <3>1, SetObjectType
    <2>2. CASE DropFails(r) /\ ~DropObject(r)
      BY <2>2 DEF DropFails, SkillInv, SkillTypeInv, BackupFinite
    <2>3. QED
      BY <2>1, <2>2
  <1>4. NextFile(r, "drop")
    BY DEF DropObject, DropFails
  <1>5. /\ req' \in [Request -> Call] /\ \A q \in Request \ {r} : req'[q] = req[q]
        /\ req'[r].at = IF Len(todo) = 1 THEN "commit" ELSE "drop"
        /\ req'[r].op = req[r].op /\ req'[r].name = n
        /\ req'[r].id = req[r].id /\ req'[r].list = req[r].list /\ req'[r].on = req[r].on
        /\ req'[r].todo = Tail(todo)
    BY <1>2, <1>4, NextFileCall DEF SkillInv, SkillTypeInv
  <1>6. /\ UNCHANGED <<rows, disk, worker, marred>>
        /\ unsaved' \in {unsaved, unsaved \cup {n}}
        /\ ~DropObject(r) => n \in unsaved'
    BY DEF DropObject, DropFails, history
  <1>7. /\ Head(todo) \in File /\ Members(todo) = {Head(todo)} \cup Members(Tail(todo))
        /\ Len(todo) = 1 => Members(Tail(todo)) = {}
        /\ Len(todo) # 1 => Tail(todo) # <<>>
    BY <1>2, MembersSplit
  <1>8. Rest(r) = Members(todo) /\ Rest(r)' = Members(Tail(todo))
    BY <1>1, <1>5, <1>7 DEF Rest
  <1> HIDE DEF todo
  <1>9. ASSUME n \notin marred
        PROVE  Busy(r, n)'
    <2>1. Busy(r, n)
      BY <1>1, <1>9, BusyBefore
    <2>2. Named(n)' = Named(n)
      BY <1>6 DEF Named
    <2>3. Unique(n)' /\ IF req'[r].op = "upload" THEN Named(n)' = {} ELSE req'[r].id \in Named(n)'
      BY <1>5, <2>1, <2>2 DEF Busy, Unique
    <2>4. /\ disk[n] = None
          /\ n \notin unsaved => \A f \in File \ Rest(r) : s3[n][f] = None
      BY <1>1, <2>1 DEF Busy
    <2>5. n \notin unsaved' => DropObject(r) /\ n \notin unsaved
      BY <1>6
    <2>6. n \notin unsaved' => \A f \in File \ Rest(r)' : s3'[n][f] = None
      BY <1>3, <1>7, <1>8, <2>4, <2>5
    <2>7. req'[r].at \in {"drop", "commit"} /\ req'[r].op = "delete"
      BY <1>1, <1>5
    <2>8. QED
      BY <1>6, <2>3, <2>4, <2>6, <2>7 DEF Busy
  <1>10. InFlight(r)'
    BY <1>5 DEF InFlight
  <1>11. /\ marred' \subseteq Skill /\ unsaved' \subseteq Skill
         /\ disk' \in [Skill -> [File -> Content] \cup {None}]
    BY <1>6 DEF SkillInv, SkillTypeInv
  <1>12. /\ req[r].op \in OpsAt(req'[r].at)
         /\ req'[r].at \in {"put", "drop"} => req'[r].todo # <<>>
    BY <1>1, <1>5, <1>7, OpsOfCalls
  <1>13. \A m \in Skill \ {n} : m \in unsaved' <=> m \in unsaved
    BY <1>6
  <1>14. QED
    BY <1>1, <1>3, <1>5, <1>6, <1>9, <1>10, <1>11, <1>12, <1>13, StayMoves

\* A skill is at rest when nobody works on it and table, directory and backup agree.
LEMMA WholeIsResting ==
    ASSUME NEW n \in Skill, SkillTypeInv', lost' = FALSE,
           Unique(n)', Intact(n)', Mirrored(n)'
    PROVE  Resting(n)'
  <1>1. ASSUME n \notin unsaved'
        PROVE  Backed(n)' /\ Partial(n)' /\ RestoredOr(n, AllHeld)'
    <2>1. s3'[n] = FilesOf(n)'
      BY <1>1 DEF Mirrored
    <2>2. disk'[n] # None => Good(disk'[n][SkillMd]) /\ FilesOf(n)' = disk'[n]
      BY DEF Intact, FilesOf
    <2>3. disk'[n] = None => s3'[n] = NoFiles
      BY <2>1 DEF FilesOf
    <2>4. disk'[n] # None => s3'[n] # NoFiles
      BY <2>1, <2>2, SkillAssumption DEF NoFiles, Good
    <2>5. Backed(n)'
      BY <2>1, <2>2, <2>3, <2>4 DEF Backed, Intact
    <2>6. Partial(n)'
      BY <2>1, <2>4 DEF Partial
    <2>7. RestoredOr(n, AllHeld)'
      BY <2>1 DEF RestoredOr
    <2>8. QED
      BY <2>5, <2>6, <2>7
  <1>2. QED
    BY <1>1 DEF Resting

LEMMA CommitMoves ==
    ASSUME SkillInv, NEW r \in Request, NEW n \in Skill, req[r].name = n,
           Commit(r), lost' = lost
    PROVE  Moves(r, n)
  <1> DEFINE i == req[r].id
             row == RowAfter(r)
  <1>1. InFlight(r) /\ req[r].at = "commit" /\ req[r].op \in {"upload", "update", "meta", "delete"}
    BY InFlightFacts, OpsOfCalls DEF Commit, InFlight
  <1>2. /\ rows' = [rows EXCEPT ![i] = row] /\ End(r, "ok") /\ RowFree(r)
        /\ UNCHANGED <<disk, s3, worker, marred, unsaved>>
    BY DEF Commit, history
  <1>3. /\ i \in Request /\ rows[r] = None /\ lost = FALSE /\ req[r] \in Call
        /\ req[r].op = "upload" => i = r
    BY <1>1, InFlightFacts DEF SkillInv, CallsFit, CallFit
  <1>4. /\ req[r].op # "upload" /\ rows[i] # None => rows[i].name = n
        /\ req[r].op \in {"update", "meta"} => rows[i] # None
    BY <1>1 DEF SkillInv, RowsFit, RowFit
  <1>5. rows \in [Request -> Row \cup {None}] /\ None \notin Row
    BY NoneAssumption DEF SkillInv, SkillTypeInv
  <1>6. /\ row \in Row \cup {None}
        /\ row = None <=> req[r].op = "delete"
        /\ row # None => row.name = n
    <2>1. CASE req[r].op = "upload"
      <3>1. row = [name |-> n, version |-> 1, active |-> TRUE]
        BY <2>1 DEF RowAfter
      <3>2. row \in Row /\ row.name = n
        BY <3>1 DEF Row
      <3>3. QED
        BY <1>5, <2>1, <3>2
    <2>2. CASE req[r].op = "update"
      <3>1. rows[i] \in Row /\ req[r].version \in Nat /\ rows[i].name = n
        BY <1>3, <1>4, <1>5, <2>2 DEF Call
      <3>2. row = [rows[i] EXCEPT !.version = req[r].version + 1]
        BY <2>2 DEF RowAfter
      <3>3. row \in Row /\ row.name = n
        BY <3>1, <3>2 DEF Row
      <3>4. QED
        BY <1>5, <2>2, <3>3
    <2>3. CASE req[r].op = "meta"
      <3>1. rows[i] \in Row /\ req[r].active \in BOOLEAN /\ rows[i].name = n
        BY <1>3, <1>4, <1>5, <2>3 DEF Call
      <3>2. row = [rows[i] EXCEPT !.active = ~req[r].active]
        BY <2>3 DEF RowAfter
      <3>3. row \in Row /\ row.name = n
        BY <3>1, <3>2 DEF Row
      <3>4. QED
        BY <1>5, <2>3, <3>3
    <2>4. CASE req[r].op = "delete"
      BY <2>4 DEF RowAfter
    <2>5. QED
      BY <1>1, <2>1, <2>2, <2>3, <2>4
  <1> HIDE DEF row
  <1>7. /\ rows' \in [Request -> Row \cup {None}] /\ rows'[i] = row
        /\ \A j \in Request \ {i} : rows'[j] = rows[j]
    BY <1>2, <1>3, <1>5, <1>6
  <1>8. /\ req' \in [Request -> Call] /\ \A q \in Request \ {r} : req'[q] = req[q]
        /\ req'[r].at = "ok"
    BY <1>2, EndCall DEF SkillInv, SkillTypeInv
  <1>9. SkillTypeInv' /\ BackupFinite'
    BY <1>2, <1>7, <1>8 DEF SkillInv, SkillTypeInv, BackupFinite
  <1>10. CallFit(r)' /\ RowFit(r)'
    BY <1>8 DEF CallFit, RowFit, InFlight
  <1>11. RowsMove(r)
    <2> SUFFICES ASSUME NEW j \in Request, rows'[j] # rows[j]
                 PROVE  \/ j = r /\ req[r].op = "upload"
                        \/ /\ j = i /\ req[r].op # "upload"
                           /\ rows'[j] # None => rows[j] # None /\ rows'[j].name = rows[j].name
      BY <1>1, <1>2 DEF RowsMove
    <2>1. j = i
      BY <1>7
    <2>2. QED
      BY <1>1, <1>3, <1>4, <1>6, <1>7, <2>1
  <1>12. ASSUME NEW m \in Skill \ {n}
         PROVE  Same(m) /\ ~Touches(r, m) /\ ~Touches(r, m)'
    <2>1. \A j \in Request : j \in Named(m)' <=> j \in Named(m)
      <3> TAKE j \in Request
      <3>1. CASE j = i
        BY <1>3, <1>4, <1>6, <1>7, <3>1 DEF Named
      <3>2. CASE j # i
        BY <1>7, <3>2 DEF Named
      <3>3. QED
        BY <3>1, <3>2
    <2>2. Named(m)' = Named(m)
      BY <2>1 DEF Named
    <2>3. QED
      BY <1>2, <1>8, <2>2 DEF Same, Touches, InFlight
  <1>13. ASSUME req[r].op = "meta"
         PROVE  Same(n) /\ ~Touches(r, n)'
    <2>1. \A j \in Request : j \in Named(n)' <=> j \in Named(n)
      <3> TAKE j \in Request
      <3>1. CASE j = i
        BY <1>3, <1>4, <1>6, <1>7, <1>13, <3>1 DEF Named
      <3>2. CASE j # i
        BY <1>7, <3>2 DEF Named
      <3>3. QED
        BY <3>1, <3>2
    <2>2. Named(n)' = Named(n)
      BY <2>1 DEF Named
    <2>3. QED
      BY <1>2, <1>8, <2>2 DEF Same, Touches, InFlight
  <1>14. ASSUME req[r].op # "meta", n \notin marred
         PROVE  Resting(n)'
    <2>1. Busy(r, n)
      BY <1>1, <1>14, BusyBefore
    <2>2. Rest(r) = {}
      BY <1>1 DEF Rest
    <2>3. disk'[n] = disk[n] /\ s3'[n] = s3[n] /\ (n \in unsaved' <=> n \in unsaved)
      BY <1>2
    <2>4. CASE req[r].op = "delete"
      <3>1. disk[n] = None /\ (n \notin unsaved => \A f \in File : s3[n][f] = None)
        BY <1>1, <2>1, <2>2, <2>4 DEF Busy
      <3>2. Named(n) = {i}
        BY <2>1, <2>4 DEF Busy, Unique
      <3>3. Named(n)' = {}
        <4>1. \A j \in Request : j # i => j \notin Named(n)
          BY <3>2
        <4>2. \A j \in Request : rows'[j] # None => j # i /\ rows'[j] = rows[j]
          BY <1>6, <1>7, <2>4
        <4>3. QED
          BY <4>1, <4>2 DEF Named
      <3>4. Unique(n)' /\ Intact(n)'
        BY <2>3, <3>1, <3>3 DEF Unique, Intact
      <3>5. n \notin unsaved => s3[n] = NoFiles
        <4>1. s3[n] \in [File -> Content]
          BY DEF SkillInv, SkillTypeInv
        <4>2. QED
          BY <3>1, <4>1 DEF NoFiles
      <3>6. Mirrored(n)'
        BY <2>3, <3>1, <3>5 DEF Mirrored, FilesOf
      <3>7. QED
        BY <1>3, <1>9, <3>4, <3>6, WholeIsResting
    <2>5. CASE req[r].op # "delete"
      <3>1. /\ disk[n] # None /\ Good(disk[n][SkillMd])
            /\ n \notin unsaved => \A f \in File : s3[n][f] = disk[n][f]
        BY <1>1, <2>1, <2>2, <2>5 DEF Busy
      <3>2. Named(n)' = {i}
        <4>1. \A j \in Request : j # i => j \notin Named(n)
          BY <1>14, <2>1 DEF Busy, Unique
        <4>2. i \in Named(n)'
          BY <1>3, <1>6, <1>7, <2>5 DEF Named
        <4>3. \A j \in Request : j # i => j \notin Named(n)'
          BY <1>7, <4>1 DEF Named
        <4>4. QED
          BY <4>2, <4>3 DEF Named
      <3>3. Unique(n)' /\ Intact(n)'
        BY <2>3, <3>1, <3>2 DEF Unique, Intact
      <3>4. n \notin unsaved => s3[n] = disk[n]
        <4>1. s3[n] \in [File -> Content] /\ disk[n] \in [File -> Content]
          BY <3>1 DEF SkillInv, SkillTypeInv
        <4>2. QED
          BY <3>1, <4>1
      <3>5. Mirrored(n)'
        BY <2>3, <3>1, <3>4 DEF Mirrored, FilesOf
      <3>6. QED
        BY <1>3, <1>9, <3>3, <3>5, WholeIsResting
    <2>6. QED
      BY <2>4, <2>5
  <1>15. /\ Touches(r, n) <=> req[r].op # "meta"
         /\ ~Touches(r, n)'
    BY <1>1, <1>8 DEF Touches, InFlight
  <1>16. QED
    BY <1>1, <1>2, <1>3, <1>8, <1>9, <1>10, <1>11, <1>12, <1>13, <1>14, <1>15 DEF Moves

\* Every step of a call changes only what belongs to its skill.
LEMMA CallsMove ==
    ASSUME SkillInv, NEW r \in Request, BeginCall(r) \/ CallStep(r) \/ CallFails(r), lost' = lost
    PROVE  \E n \in Skill : Moves(r, n)
  <1>1. CASE BeginCall(r)
    BY <1>1, BeginCallMoves
  <1>2. CASE CallStep(r)
    <2>1. InFlight(r)
      BY <1>2 DEF CallStep, InFlight, WriteFiles, RemoveDir, Flush, PutObject, ListObjects,
                  DropObject, Commit
    <2>2. req[r].name \in Skill
      BY <2>1, InFlightFacts
    <2>3. PICK n \in Skill : req[r].name = n
      BY <2>2
    <2>4. Moves(r, n)
      BY <1>2, <2>3, WriteFilesMoves, RemoveDirMoves, FlushMoves, PutObjectMoves,
         ListObjectsMoves, DropMoves, CommitMoves DEF CallStep
    <2>5. QED
      BY <2>4
  <1>3. CASE CallFails(r)
    <2>1. InFlight(r)
      BY <1>3 DEF CallFails, InFlight, WriteFails, RemoveDirFails, FlushFails, CommitFails,
                  PutFails, ListFails, DropFails
    <2>2. req[r].name \in Skill
      BY <2>1, InFlightFacts
    <2>3. PICK n \in Skill : req[r].name = n
      BY <2>2
    <2>4. Moves(r, n)
      BY <1>3, <2>3, WriteFailsMoves, RemoveDirFailsMoves, EarlyFailsMoves, BackupFailsMoves,
         DropMoves DEF CallFails
    <2>5. QED
      BY <2>4
  <1>4. QED
    BY <1>1, <1>2, <1>3

-----------------------------------------------------------------------------
(* Steps of processes *)

LEMMA TouchesSame ==
    ASSUME req' = req
    PROVE  \A r \in Request, n \in Skill : Touches(r, n)' <=> Touches(r, n)
  BY DEF Touches, InFlight

LEMMA RestoredMore ==
    ASSUME NEW n \in Skill, NEW keys, NEW more, RestoredOr(n, keys), s3' = s3,
           \A f \in File : FilesOf(n)'[f] \in {FilesOf(n)[f], s3[n][f]},
           \A f \in File : [name |-> n, file |-> f] \in keys =>
             \/ [name |-> n, file |-> f] \in more
             \/ FilesOf(n)'[f] = s3[n][f]
    PROVE  \A f \in File : s3'[n][f] # None =>
             FilesOf(n)'[f] = s3'[n][f] \/ [name |-> n, file |-> f] \in more
  BY DEF RestoredOr

LEMMA ProcessKeep ==
    ASSUME SkillInv, NEW w \in Worker, SkillTypeInv', UNCHANGED <<rows, s3, req, unsaved>>,
           marred \subseteq marred', lost' => lost, worker[w].at # "up",
           \A v \in Worker \ {w} : worker'[v] = worker[v],
           ProcessFit(w)', RestoreFit(w)', lost' /\ ~Bare' => unsaved \subseteq marred',
           \A n \in Skill \ marred' : \A f \in File :
             FilesOf(n)'[f] \in {FilesOf(n)[f], s3[n][f]},
           \A n \in Skill \ marred' : \A r \in Request : Touches(r, n) =>
             disk'[n] = disk[n] /\ (Restoring(w)' => Restoring(w)),
           \A n \in Skill \ marred' : (\A r \in Request : ~Touches(r, n)) => Resting(n)'
    PROVE  SkillInv'
  <1>1. BackupFinite' /\ RowsFit'
    BY DEF SkillInv, BackupFinite, RowsFit, RowFit, InFlight
  <1>2. CallsFit'
    <2> SUFFICES ASSUME NEW r \in Request
                 PROVE  CallFit(r)'
      BY DEF CallsFit
    <2>1. CallFit(r)
      BY DEF SkillInv, CallsFit
    <2>2. QED
      BY <2>1 DEF CallFit, InFlight
  <1>3. ProcessesFit'
    <2> SUFFICES ASSUME NEW v \in Worker, v # w
                 PROVE  ProcessFit(v)'
      BY DEF ProcessesFit
    <2>1. ProcessFit(v)
      BY DEF SkillInv, ProcessesFit
    <2>2. QED
      BY <2>1 DEF ProcessFit
  <1>4. \A r \in Request, n \in Skill : Touches(r, n)' <=> Touches(r, n)
    BY TouchesSame
  <1>5. Apart'
    <2>1. ASSUME NEW n \in Skill \ marred', NEW r \in Request, NEW v \in Worker,
                 Touches(r, n)', Restoring(v)'
          PROVE  FALSE
      <3>1. Restoring(v)
        BY <1>4, <2>1 DEF Restoring
      <3>2. QED
        BY <1>4, <2>1, <3>1 DEF SkillInv, Apart
    <2>2. \A n \in Skill \ marred' : \A r, q \in Request :
            Touches(r, n)' /\ Touches(q, n)' => r = q
      BY <1>4 DEF SkillInv, Apart
    <2>3. QED
      BY <2>1, <2>2 DEF Apart
  <1>6. RestingInv'
    BY <1>4 DEF RestingInv
  <1>7. BusyInv'
    <2> SUFFICES ASSUME NEW n \in Skill \ marred', NEW r \in Request, Touches(r, n)'
                 PROVE  Busy(r, n)'
      BY DEF BusyInv
    <2>1. Touches(r, n) /\ n \notin marred
      BY <1>4
    <2>2. Busy(r, n)
      BY <2>1 DEF SkillInv, BusyInv
    <2>3. Named(n)' = Named(n)
      BY DEF Named
    <2>4. Same(n)
      BY <2>1, <2>3 DEF Same
    <2>5. QED
      BY <2>2, <2>4, SameBusy
  <1>8. RestoreInv'
    <2> SUFFICES ASSUME NEW v \in Worker, v # w
                 PROVE  RestoreFit(v)'
      BY DEF RestoreInv
    <2>1. RestoreFit(v) /\ worker'[v] = worker[v]
      BY DEF SkillInv, RestoreInv
    <2>2. Held(v)' = Held(v) /\ (Restoring(v)' <=> Restoring(v))
      BY <2>1 DEF Held, Restoring
    <2>3. ASSUME worker[v].at \in {"fetch", "store"}, NEW n \in Skill \ marred'
          PROVE  RestoredOr(n, Held(v))'
      <3>1. RestoredOr(n, Held(v))
        BY <2>1, <2>3 DEF RestoreFit
      <3>2. \A f \in File : s3'[n][f] # None =>
              FilesOf(n)'[f] = s3'[n][f] \/ [name |-> n, file |-> f] \in Held(v)
        BY <3>1, RestoredMore
      <3>3. QED
        BY <2>2, <3>2 DEF RestoredOr
    <2>4. QED
      BY <2>1, <2>2, <2>3 DEF RestoreFit
  <1>9. QED
    BY <1>1, <1>2, <1>3, <1>5, <1>6, <1>7, <1>8 DEF SkillInv

\* A step that leaves the directories alone, and the objects that are still to be restored.
LEMMA QuietKeep ==
    ASSUME SkillInv, NEW w \in Worker, SkillTypeInv',
           UNCHANGED <<rows, s3, disk, req, unsaved, lost>>,
           marred \subseteq marred', worker[w].at # "up", worker'[w].at # "up",
           \A v \in Worker \ {w} : worker'[v] = worker[v],
           ProcessFit(w)', RestoreFit(w)',
           Restoring(w)' => \/ Restoring(w)
                            \/ \A n \in Skill \ marred' : \A r \in Request : ~Touches(r, n),
           \A k \in Held(w) : k.name \in marred' \/ k \in Held(w)'
    PROVE  SkillInv'
  <1>1. Bare' <=> Bare
    BY DEF Bare
  <1>2. lost' /\ ~Bare' => unsaved \subseteq marred'
    BY <1>1 DEF SkillInv, RestoreInv
  <1>3. \A n \in Skill : FilesOf(n)' = FilesOf(n) /\ Named(n)' = Named(n)
    BY DEF FilesOf, Named
  <1>4. ASSUME NEW n \in Skill \ marred', \A r \in Request : ~Touches(r, n)
        PROVE  Resting(n)'
    <2>1. Resting(n)
      BY <1>4 DEF SkillInv, RestingInv
    <2>2. Unique(n)' /\ (Intact(n) => Intact(n)') /\ (Backed(n) => Backed(n)')
      BY <1>3, <2>1 DEF Resting, Unique, Intact, Backed
    <2>3. Partial(n) => Partial(n)'
      BY <1>3 DEF Partial
    <2>4. ASSUME RestoredOr(n, AllHeld)
          PROVE  RestoredOr(n, AllHeld)'
      <3>1. ASSUME NEW f \in File, [name |-> n, file |-> f] \in AllHeld
            PROVE  [name |-> n, file |-> f] \in AllHeld'
        <4>1. PICK v \in Worker : [name |-> n, file |-> f] \in Held(v)
          BY <3>1 DEF AllHeld
        <4>2. [name |-> n, file |-> f] \in Held(v)'
          <5>1. CASE v = w
            BY <1>4, <4>1, <5>1
          <5>2. CASE v # w
            BY <4>1, <5>2 DEF Held
          <5>3. QED
            BY <5>1, <5>2
        <4>3. QED
          BY <4>2 DEF AllHeld
      <3>2. QED
        BY <1>3, <2>4, <3>1 DEF RestoredOr
    <2>5. QED
      BY <1>1, <2>1, <2>2, <2>3, <2>4 DEF Resting
  <1>5. QED
    BY <1>2, <1>3, <1>4, ProcessKeep

LEMMA RunningType ==
    ASSUME SkillTypeInv, NEW w \in Worker, NEW where \in {"up", "down", "rows"},
           worker' = [worker EXCEPT ![w] = Running(where)]
    PROVE  /\ worker' \in [Worker -> Process]
           /\ worker'[w].at = where /\ worker'[w].keys = {} /\ worker'[w].key = None
           /\ Held(w)' = {}
           /\ \A v \in Worker \ {w} : worker'[v] = worker[v]
  <1>1. Running(where) \in Process
    BY DEF Running, Process, Content
  <1>2. worker'[w] = Running(where) /\ \A v \in Worker \ {w} : worker'[v] = worker[v]
    BY DEF SkillTypeInv
  <1>3. worker' \in [Worker -> Process]
    BY <1>1 DEF SkillTypeInv
  <1>4. QED
    BY <1>2, <1>3 DEF Running, Held

\* A process that has nothing more to restore may serve: what the backup holds of a skill
\* that nobody works on is there.
LEMMA ServeKeep ==
    ASSUME SkillInv, NEW w \in Worker, Serve(w), worker[w].at # "up", Held(w) = {},
           UNCHANGED <<rows, s3, disk, req, unsaved>>,
           marred \subseteq marred', marred' \subseteq Skill,
           \A n \in Skill \ marred' : lost /\ (\A r \in Request : ~Touches(r, n)) =>
             /\ n \in unsaved => Intact(n)
             /\ n \notin unsaved /\ Bare => RestoredOr(n, {})
    PROVE  SkillInv'
  <1>1. /\ worker' \in [Worker -> Process]
        /\ worker'[w].at = "up" /\ worker'[w].keys = {} /\ worker'[w].key = None
        /\ Held(w)' = {}
        /\ \A v \in Worker \ {w} : worker'[v] = worker[v]
        /\ lost' = FALSE
    BY RunningType DEF Serve, SkillInv
  <1>2. SkillTypeInv'
    BY <1>1 DEF SkillInv, SkillTypeInv
  <1>3. ProcessFit(w)' /\ RestoreFit(w)' /\ ~Restoring(w)'
    BY <1>1 DEF ProcessFit, RestoreFit, Restoring
  <1>4. \A n \in Skill : FilesOf(n)' = FilesOf(n) /\ Named(n)' = Named(n)
    BY DEF FilesOf, Named
  <1>5. ASSUME NEW n \in Skill \ marred', \A r \in Request : ~Touches(r, n)
        PROVE  Resting(n)'
    <2>1. Resting(n)
      BY <1>5 DEF SkillInv, RestingInv
    <2>2. Unique(n)' /\ (Intact(n) => Intact(n)') /\ (Backed(n) => Backed(n)')
      BY <1>4, <2>1 DEF Resting, Unique, Intact, Backed
    <2>3. Partial(n) => Partial(n)'
      BY <1>4 DEF Partial
    <2>4. CASE n \in unsaved
      <3>1. Intact(n)
        BY <1>5, <2>1, <2>4 DEF Resting
      <3>2. QED
        BY <1>1, <2>2, <2>4, <3>1 DEF Resting
    <2>5. CASE n \notin unsaved
      <3>1. RestoredOr(n, AllHeld)
        <4>1. CASE Bare
          BY <1>5, <2>5, <4>1 DEF RestoredOr, Bare
        <4>2. CASE ~Bare
          BY <2>1, <2>5, <4>2 DEF Resting
        <4>3. QED
          BY <4>1, <4>2
      <3>2. ASSUME NEW f \in File, [name |-> n, file |-> f] \in AllHeld
            PROVE  [name |-> n, file |-> f] \in AllHeld'
        <4>1. PICK v \in Worker : [name |-> n, file |-> f] \in Held(v)
          BY <3>2 DEF AllHeld
        <4>2. v # w
          BY <4>1
        <4>3. [name |-> n, file |-> f] \in Held(v)'
          BY <1>1, <4>1, <4>2 DEF Held
        <4>4. QED
          BY <4>3 DEF AllHeld
      <3>3. RestoredOr(n, AllHeld)'
        BY <1>4, <3>1, <3>2 DEF RestoredOr
      <3>4. QED
        BY <2>1, <2>2, <2>3, <2>5, <3>3 DEF Resting
    <2>6. QED
      BY <2>4, <2>5
  <1>6. QED
    BY <1>1, <1>2, <1>3, <1>4, <1>5, ProcessKeep

LEMMA StartKeeps ==
    ASSUME SkillInv, NEW w \in Worker, Start(w)
    PROVE  SkillInv'
  <1>1. /\ worker[w].at = "down" /\ worker' = [worker EXCEPT ![w] = Running("rows")]
        /\ UNCHANGED <<rows, s3, disk, req, unsaved, marred, lost>>
    BY DEF Start, storeVars, history
  <1>2. /\ worker' \in [Worker -> Process]
        /\ worker'[w].at = "rows" /\ worker'[w].keys = {} /\ worker'[w].key = None
        /\ Held(w)' = {}
        /\ \A v \in Worker \ {w} : worker'[v] = worker[v]
    BY <1>1, RunningType DEF SkillInv
  <1>3. SkillTypeInv'
    BY <1>1, <1>2 DEF SkillInv, SkillTypeInv
  <1>4. ProcessFit(w)' /\ RestoreFit(w)' /\ ~Restoring(w)'
    BY <1>2 DEF ProcessFit, RestoreFit, Restoring
  <1>5. Held(w) = {}
    BY <1>1 DEF SkillInv, ProcessesFit, ProcessFit, Held
  <1>6. QED
    BY <1>1, <1>2, <1>3, <1>4, <1>5, QuietKeep

LEMMA SelectTenantsKeeps ==
    ASSUME SkillInv, NEW w \in Worker, SelectTenants(w)
    PROVE  SkillInv'
  <1>1. /\ worker[w].at = "rows"
        /\ UNCHANGED <<rows, s3, disk, req, unsaved, marred>>
    BY DEF SelectTenants, storeVars, history
  <1>2. Held(w) = {} /\ worker[w].keys = {} /\ worker[w].key = None
    BY <1>1 DEF SkillInv, ProcessesFit, ProcessFit, Held
  <1>3. CASE \A i \in Request : rows[i] = None
    <2>1. Serve(w)
      BY <1>3 DEF SelectTenants
    <2>2. ASSUME NEW n \in Skill \ marred, lost, \A r \in Request : ~Touches(r, n)
          PROVE  /\ n \in unsaved => Intact(n)
                 /\ n \notin unsaved => RestoredOr(n, {})
      <3>1. Resting(n)
        BY <2>2 DEF SkillInv, RestingInv
      <3>2. Named(n) = {}
        BY <1>3 DEF Named
      <3>3. n \in unsaved => Intact(n)
        BY <2>2, <3>1, <3>2 DEF Resting, Intact
      <3>4. n \notin unsaved => s3[n] = NoFiles
        BY <3>1, <3>2 DEF Resting, Backed
      <3>5. QED
        BY <3>3, <3>4 DEF RestoredOr, NoFiles
    <2>3. marred' \subseteq Skill
      BY <1>1 DEF SkillInv, SkillTypeInv
    <2>4. QED
      BY <1>1, <1>2, <2>1, <2>2, <2>3, ServeKeep
  <1>4. CASE ~\A i \in Request : rows[i] = None
    <2>1. worker' = [worker EXCEPT ![w].at = "local"] /\ lost' = lost
      BY <1>4 DEF SelectTenants
    <2>2. /\ worker' \in [Worker -> Process]
          /\ worker'[w].at = "local" /\ worker'[w].keys = {} /\ worker'[w].key = None
          /\ \A v \in Worker \ {w} : worker'[v] = worker[v]
      BY <1>2, <2>1 DEF SkillInv, SkillTypeInv, Process
    <2>3. SkillTypeInv'
      BY <1>1, <2>1, <2>2 DEF SkillInv, SkillTypeInv
    <2>4. ProcessFit(w)' /\ RestoreFit(w)' /\ ~Restoring(w)'
      BY <2>2 DEF ProcessFit, RestoreFit, Restoring, Held
    <2>5. QED
      BY <1>1, <1>2, <2>1, <2>2, <2>3, <2>4, QuietKeep
  <1>5. QED
    BY <1>3, <1>4

LEMMA CheckLocalKeeps ==
    ASSUME SkillInv, NEW w \in Worker, CheckLocal(w)
    PROVE  SkillInv'
  <1>1. /\ worker[w].at = "local"
        /\ UNCHANGED <<rows, s3, disk, req, unsaved>>
    BY DEF CheckLocal, storeVars
  <1>2. Held(w) = {} /\ worker[w].keys = {} /\ worker[w].key = None
    BY <1>1 DEF SkillInv, ProcessesFit, ProcessFit, Held
  <1>3. CASE \E n \in Skill : disk[n] # None
    <2>1. Serve(w) /\ marred' = marred
      BY <1>3 DEF CheckLocal
    <2>2. ~Bare /\ (lost => unsaved \subseteq marred)
      BY <1>3 DEF Bare, SkillInv, RestoreInv
    <2>3. marred' \subseteq Skill
      BY <2>1 DEF SkillInv, SkillTypeInv
    <2>4. QED
      BY <1>1, <1>2, <2>1, <2>2, <2>3, ServeKeep
  <1>4. CASE ~\E n \in Skill : disk[n] # None
    <2>1. /\ worker' = [worker EXCEPT ![w].at = "keys"] /\ lost' = lost
          /\ marred' = marred \cup unsaved \cup {n \in Skill : \E r \in Request : Touches(r, n)}
      BY <1>4 DEF CheckLocal
    <2>2. /\ worker' \in [Worker -> Process]
          /\ worker'[w].at = "keys" /\ worker'[w].keys = {} /\ worker'[w].key = None
          /\ \A v \in Worker \ {w} : worker'[v] = worker[v]
      BY <1>2, <2>1 DEF SkillInv, SkillTypeInv, Process
    <2>3. SkillTypeInv'
      BY <1>1, <2>1, <2>2 DEF SkillInv, SkillTypeInv
    <2>4. ProcessFit(w)' /\ RestoreFit(w)'
      BY <1>1, <2>1, <2>2 DEF ProcessFit, RestoreFit, Restoring, Held
    <2>5. \A n \in Skill \ marred' : \A r \in Request : ~Touches(r, n)
      BY <2>1
    <2>6. QED
      BY <1>1, <1>2, <2>1, <2>2, <2>3, <2>4, <2>5, QuietKeep
  <1>5. QED
    BY <1>3, <1>4

LEMMA RecoverFailsKeeps ==
    ASSUME SkillInv, NEW w \in Worker, RecoverFails(w)
    PROVE  SkillInv'
  <1>1. /\ worker[w].at \in {"rows", "local", "keys"} /\ Serve(w)
        /\ marred' = marred \cup Unrestored
        /\ UNCHANGED <<rows, s3, disk, req, unsaved>>
    BY DEF RecoverFails, storeVars
  <1>2. Held(w) = {} /\ worker[w].keys = {} /\ worker[w].key = None
    BY <1>1 DEF SkillInv, ProcessesFit, ProcessFit, Held
  <1>3. marred' \subseteq Skill
    BY <1>1 DEF SkillInv, SkillTypeInv, Unrestored
  <1>4. ASSUME NEW n \in Skill \ marred', lost, \A r \in Request : ~Touches(r, n)
        PROVE  /\ n \in unsaved => Intact(n)
               /\ n \notin unsaved /\ Bare => RestoredOr(n, {})
    <2>1. Resting(n) /\ (Named(n) = {} \/ disk[n] # None)
      BY <1>1, <1>4 DEF SkillInv, RestingInv, Unrestored
    <2>2. n \in unsaved => Intact(n)
      BY <1>4, <2>1 DEF Resting, Intact
    <2>3. n \notin unsaved /\ Bare => s3[n] = NoFiles
      BY <2>1 DEF Resting, Backed, Bare
    <2>4. QED
      BY <2>2, <2>3 DEF RestoredOr, NoFiles
  <1>5. QED
    BY <1>1, <1>2, <1>3, <1>4, ServeKeep

LEMMA RestoredKeeps ==
    ASSUME SkillInv, NEW w \in Worker, Restored(w)
    PROVE  SkillInv'
  <1>1. /\ worker[w].at = "fetch" /\ worker[w].keys = {} /\ Serve(w)
        /\ UNCHANGED <<rows, s3, disk, req, unsaved, marred>>
    BY DEF Restored, storeVars, history
  <1>2. Held(w) = {}
    BY <1>1 DEF SkillInv, ProcessesFit, ProcessFit, Held
  <1>3. /\ unsaved \subseteq marred
        /\ \A n \in Skill \ marred : RestoredOr(n, {})
    BY <1>1, <1>2 DEF SkillInv, RestoreInv, RestoreFit, Restoring
  <1>4. marred' \subseteq Skill
    BY <1>1 DEF SkillInv, SkillTypeInv
  <1>5. QED
    BY <1>1, <1>2, <1>3, <1>4, ServeKeep

LEMMA ListKeysKeeps ==
    ASSUME SkillInv, NEW w \in Worker, ListKeys(w)
    PROVE  SkillInv'
  <1> DEFINE keys == {k \in Key : s3[k.name][k.file] # None}
  <1>1. /\ worker[w].at = "keys"
        /\ UNCHANGED <<rows, s3, disk, req, unsaved, marred>>
    BY DEF ListKeys, storeVars, history
  <1>2. Held(w) = {} /\ worker[w].keys = {} /\ worker[w].key = None
    BY <1>1 DEF SkillInv, ProcessesFit, ProcessFit, Held
  <1>3. unsaved \subseteq marred
    BY <1>1 DEF SkillInv, RestoreInv, RestoreFit, Restoring
  <1>4. \A n \in Skill, f \in File :
          s3[n][f] # None => [name |-> n, file |-> f] \in keys
    BY DEF Key
  <1>5. CASE keys = {}
    <2>1. Serve(w)
      BY <1>5 DEF ListKeys
    <2>2. \A n \in Skill : RestoredOr(n, {})
      BY <1>4, <1>5 DEF RestoredOr
    <2>3. marred' \subseteq Skill
      BY <1>1 DEF SkillInv, SkillTypeInv
    <2>4. QED
      BY <1>1, <1>2, <1>3, <2>1, <2>2, <2>3, ServeKeep
  <1>6. CASE keys # {}
    <2>1. /\ worker' = [worker EXCEPT ![w] = [Running("fetch") EXCEPT !.keys = keys]]
          /\ lost' = lost
      BY <1>6 DEF ListKeys
    <2> DEFINE from == Running("fetch")
               process == [from EXCEPT !.keys = keys]
    <2>2. from \in Process /\ from.at = "fetch" /\ from.key = None
      BY DEF Running, Process, Content
    <2>3. keys \in SUBSET Key
      OBVIOUS
    <2> HIDE DEF keys, from
    <2>4. /\ worker' \in [Worker -> Process]
          /\ worker'[w].at = "fetch" /\ worker'[w].keys = keys /\ worker'[w].key = None
          /\ \A v \in Worker \ {w} : worker'[v] = worker[v]
      <3>1. process \in Process /\ process.at = "fetch" /\ process.keys = keys /\ process.key = None
        BY <2>2, <2>3 DEF Process
      <3> HIDE DEF process
      <3>2. worker' = [worker EXCEPT ![w] = process]
        BY <2>1 DEF process, from
      <3>3. QED
        BY <3>1, <3>2 DEF SkillInv, SkillTypeInv
    <2>5. SkillTypeInv'
      BY <1>1, <2>1, <2>4 DEF SkillInv, SkillTypeInv
    <2>6. Held(w)' = keys
      BY <2>4 DEF Held
    <2>7. \A n \in Skill : RestoredOr(n, Held(w))'
      BY <1>1, <1>4, <2>6 DEF RestoredOr
    <2>8. ProcessFit(w)'
      BY <2>4 DEF ProcessFit
    <2>9. None \notin keys
      BY NoneAssumption DEF keys
    <2>10. RestoreFit(w)'
      <3>1. \A k \in keys : s3[k.name][k.file] # None
        BY DEF keys
      <3>2. QED
        BY <1>1, <1>3, <2>4, <2>6, <2>7, <2>9, <3>1 DEF RestoreFit
    <2>11. Restoring(w)
      BY <1>1 DEF Restoring
    <2>12. QED
      BY <1>1, <1>2, <2>1, <2>4, <2>5, <2>8, <2>10, <2>11, QuietKeep
  <1>7. QED
    BY <1>5, <1>6

LEMMA FetchObjectKeeps ==
    ASSUME SkillInv, NEW w \in Worker, NEW k \in Key, FetchObject(w, k)
    PROVE  SkillInv'
  <1> DEFINE data == s3[k.name][k.file]
             process == [at |-> "store", keys |-> worker[w].keys \ {k}, key |-> k, data |-> data]
  <1>1. /\ worker[w].at = "fetch" /\ k \in worker[w].keys
        /\ UNCHANGED <<rows, s3, disk, req, unsaved, marred, lost>>
        /\ worker' = [worker EXCEPT ![w] = process]
    BY DEF FetchObject, storeVars, history
  <1>2. worker[w].key = None /\ k # None
    BY <1>1, NoneAssumption DEF SkillInv, ProcessesFit, ProcessFit
  <1>3. Held(w) = worker[w].keys /\ worker[w].keys \in SUBSET Key
    BY <1>2 DEF Held, SkillInv, SkillTypeInv, Process
  <1>4. data \in Content
    BY DEF SkillInv, SkillTypeInv, Key
  <1>5. process \in Process /\ process.at = "store" /\ process.key = k /\ process.data = data
        /\ process.keys = worker[w].keys \ {k}
    BY <1>3, <1>4 DEF Process
  <1> HIDE DEF process
  <1>6. /\ worker' \in [Worker -> Process] /\ worker'[w] = process
        /\ \A v \in Worker \ {w} : worker'[v] = worker[v]
    BY <1>1, <1>5 DEF SkillInv, SkillTypeInv
  <1>7. SkillTypeInv'
    BY <1>1, <1>6 DEF SkillInv, SkillTypeInv
  <1>8. Held(w)' = Held(w)
    BY <1>1, <1>2, <1>3, <1>5, <1>6 DEF Held
  <1>9. ProcessFit(w)'
    BY <1>2, <1>5, <1>6 DEF ProcessFit
  <1>10. RestoreFit(w) /\ Restoring(w)
    BY <1>1 DEF SkillInv, RestoreInv, Restoring
  <1>11. RestoreFit(w)'
    <2>1. \A n \in Skill \ marred : RestoredOr(n, Held(w))'
      BY <1>1, <1>8, <1>10 DEF RestoreFit, RestoredOr, FilesOf
    <2>2. \A j \in Held(w) : j.name \notin marred =>
            s3[j.name][j.file] # None
      BY <1>10 DEF RestoreFit
    <2>3. unsaved \subseteq marred
      BY <1>10 DEF RestoreFit
    <2>4. worker'[w].key = k /\ worker'[w].data = s3[k.name][k.file]
      BY <1>5, <1>6
    <2> HIDE DEF data
    <2>5. QED
      BY <1>1, <1>8, <2>1, <2>2, <2>3, <2>4 DEF RestoreFit
  <1>12. worker[w].at # "up" /\ worker'[w].at # "up"
    BY <1>1, <1>5, <1>6
  <1>13. QED
    BY <1>1, <1>6, <1>7, <1>8, <1>9, <1>10, <1>11, <1>12, QuietKeep

LEMMA ObjectFailsKeeps ==
    ASSUME SkillInv, NEW w \in Worker, NEW k \in Key, ObjectFails(w, k)
    PROVE  SkillInv'
  <1>1. /\ worker[w].at = "fetch" /\ k \in worker[w].keys
        /\ UNCHANGED <<rows, s3, disk, req, unsaved, lost>>
        /\ marred' = marred \cup {k.name}
        /\ worker' = [worker EXCEPT ![w].keys = @ \ {k}]
    BY DEF ObjectFails, storeVars
  <1>2. worker[w].key = None /\ worker[w] \in Process
    BY <1>1 DEF SkillInv, SkillTypeInv, ProcessesFit, ProcessFit
  <1>3. Held(w) = worker[w].keys
    BY <1>2 DEF Held
  <1>4. /\ worker' \in [Worker -> Process] /\ worker'[w].at = "fetch"
        /\ worker'[w].keys = worker[w].keys \ {k} /\ worker'[w].key = None
        /\ \A v \in Worker \ {w} : worker'[v] = worker[v]
    BY <1>1, <1>2 DEF SkillInv, SkillTypeInv, Process
  <1>5. SkillTypeInv'
    BY <1>1, <1>4 DEF SkillInv, SkillTypeInv, Key
  <1>6. Held(w)' = Held(w) \ {k}
    BY <1>3, <1>4 DEF Held
  <1>7. ProcessFit(w)'
    BY <1>4 DEF ProcessFit
  <1>8. RestoreFit(w) /\ Restoring(w)
    BY <1>1 DEF SkillInv, RestoreInv, Restoring
  <1>9. RestoreFit(w)'
    <2>1. ASSUME NEW n \in Skill \ marred'
          PROVE  RestoredOr(n, Held(w))'
      <3>1. RestoredOr(n, Held(w)) /\ n # k.name
        BY <1>1, <1>8, <2>1 DEF RestoreFit
      <3>2. \A f \in File : [name |-> n, file |-> f] \in Held(w) =>
              [name |-> n, file |-> f] \in Held(w)'
        BY <1>6, <3>1
      <3>3. QED
        BY <1>1, <3>1, <3>2 DEF RestoredOr, FilesOf
    <2>2. \A j \in Held(w)' : j \in Held(w) /\ j # None
      BY <1>3, <1>6, NoneAssumption DEF SkillInv, SkillTypeInv, Process
    <2>3. \A j \in Held(w)' : j.name \notin marred' => s3[j.name][j.file] # None
      BY <1>1, <1>8, <2>2 DEF RestoreFit
    <2>4. unsaved' \subseteq marred'
      BY <1>1, <1>8 DEF RestoreFit
    <2>5. QED
      BY <1>1, <1>4, <2>1, <2>2, <2>3, <2>4 DEF RestoreFit
  <1>10. QED
    BY <1>1, <1>3, <1>4, <1>5, <1>6, <1>7, <1>8, <1>9, QuietKeep

LEMMA StoreFileKeeps ==
    ASSUME SkillInv, NEW w \in Worker, StoreFile(w)
    PROVE  SkillInv'
  <1>1. /\ worker[w].at = "store" /\ UNCHANGED <<rows, s3, req, unsaved, marred, lost>>
        /\ worker' = [worker EXCEPT ![w].at = "fetch", ![w].key = None, ![w].data = None]
    BY DEF StoreFile
  <1>2. worker[w].key # None /\ worker[w] \in Process
    BY <1>1 DEF SkillInv, SkillTypeInv, ProcessesFit, ProcessFit
  <1>3. PICK k \in Key : worker[w].key = k
    BY <1>2 DEF Process
  <1>4. k \in Held(w)
    BY <1>2, <1>3 DEF Held
  <1>5. PICK n \in Skill, g \in File, data \in Content :
          n = k.name /\ g = k.file /\ data = worker[w].data
    BY <1>2 DEF Key, Process
  <1>6. /\ worker' \in [Worker -> Process] /\ worker'[w].at = "fetch"
        /\ worker'[w].keys = worker[w].keys /\ worker'[w].key = None
        /\ \A v \in Worker \ {w} : worker'[v] = worker[v]
    BY <1>1, <1>2 DEF SkillInv, SkillTypeInv, Process, Content
  <1>7. SetDir(n, Written(n, {g}, data))
    BY <1>3, <1>5 DEF StoreFile
  <1>8. /\ disk' \in [Skill -> [File -> Content] \cup {None}]
        /\ \A m \in Skill \ {n} : disk'[m] = disk[m]
        /\ disk'[n] # None
        /\ \A f \in File : disk'[n][f] = IF f = g THEN data ELSE FilesOf(n)[f]
    <2> DEFINE d == Written(n, {g}, data)
    <2>1. SkillTypeInv /\ {g} \in SUBSET File
      BY DEF SkillInv
    <2>2. /\ d \in [File -> Content] /\ d # None
          /\ \A f \in File : d[f] = IF f \in {g} THEN data ELSE FilesOf(n)[f]
      BY <2>1, WrittenType
    <2> HIDE DEF d
    <2>3. /\ disk' \in [Skill -> [File -> Content] \cup {None}] /\ disk'[n] = d
          /\ \A m \in Skill \ {n} : disk'[m] = disk[m]
      BY <1>7, <2>1, <2>2, SetDirType DEF d
    <2>4. QED
      BY <2>2, <2>3
  <1>9. SkillTypeInv'
    BY <1>1, <1>6, <1>8 DEF SkillInv, SkillTypeInv
  <1>10. ProcessFit(w)'
    BY <1>6 DEF ProcessFit
  <1>11. RestoreFit(w) /\ Restoring(w)
    BY <1>1 DEF SkillInv, RestoreInv, Restoring
  <1>12. unsaved \subseteq marred
    BY <1>11 DEF RestoreFit
  <1>13. n \notin marred => data = s3[n][g] /\ data # None
    BY <1>3, <1>4, <1>5, <1>11 DEF RestoreFit
  <1>14. \A m \in Skill \ marred : \A f \in File :
           FilesOf(m)'[f] = IF m = n /\ f = g THEN s3[n][g] ELSE FilesOf(m)[f]
    BY <1>8, <1>13 DEF FilesOf
  <1>15. \A m \in Skill \ marred : \A f \in File :
           FilesOf(m)'[f] \in {FilesOf(m)[f], s3[m][f]}
    BY <1>14
  <1>16. Held(w)' = worker[w].keys
    BY <1>6 DEF Held
  <1>17. ASSUME NEW m \in Skill \ marred, NEW f \in File, [name |-> m, file |-> f] \in Held(w)
         PROVE  [name |-> m, file |-> f] \in Held(w)' \/ FilesOf(m)'[f] = s3[m][f]
    <2>1. CASE [name |-> m, file |-> f] = k
      <3>1. m = n /\ f = g
        BY <1>5, <2>1
      <3>2. QED
        BY <1>14, <3>1
    <2>2. CASE [name |-> m, file |-> f] # k
      BY <1>3, <1>16, <1>17, <2>2 DEF Held
    <2>3. QED
      BY <2>1, <2>2
  <1>18. ASSUME NEW m \in Skill \ marred
         PROVE  RestoredOr(m, Held(w))'
    <2>1. RestoredOr(m, Held(w))
      BY <1>1, <1>11, <1>18 DEF RestoreFit
    <2>2. \A f \in File : s3'[m][f] # None =>
            FilesOf(m)'[f] = s3'[m][f] \/ [name |-> m, file |-> f] \in Held(w)'
      BY <1>1, <1>15, <1>17, <2>1 DEF RestoredOr
    <2>3. QED
      BY <2>2 DEF RestoredOr
  <1>19. RestoreFit(w)'
    <2>1. \A j \in worker[w].keys : j \in Held(w) /\ j # None
      BY <1>2, NoneAssumption DEF Held, Process
    <2>2. \A j \in Held(w)' : j # None /\ (j.name \notin marred => s3[j.name][j.file] # None)
      BY <1>11, <1>16, <2>1 DEF RestoreFit
    <2>3. QED
      BY <1>1, <1>6, <1>12, <1>18, <2>2 DEF RestoreFit
  <1>20. \A m \in Skill \ marred : \A r \in Request : ~Touches(r, m)
    BY <1>11 DEF SkillInv, Apart
  <1>21. ASSUME NEW m \in Skill \ marred
         PROVE  Resting(m)'
    <2>1. Resting(m) /\ m \notin unsaved
      BY <1>12, <1>20, <1>21 DEF SkillInv, RestingInv
    <2>2. Backed(m) /\ Partial(m) /\ Unique(m)
      BY <2>1 DEF Resting
    <2>3. Unique(m)' /\ Backed(m)'
      BY <1>1, <2>2 DEF Unique, Backed, Named
    <2>4. Partial(m)'
      <3>1. \A f \in File : FilesOf(m)'[f] \in {None, s3[m][f]}
        BY <1>15, <2>2 DEF Partial
      <3>2. m = n => s3[m] # NoFiles
        BY <1>13 DEF NoFiles
      <3>3. disk'[m] # None => s3[m] # NoFiles
        BY <1>8, <2>2, <3>2 DEF Partial
      <3>4. QED
        BY <1>1, <3>1, <3>3 DEF Partial
    <2>5. RestoredOr(m, AllHeld)'
      <3>1. \A f \in File : s3'[m][f] # None =>
              FilesOf(m)'[f] = s3'[m][f] \/ [name |-> m, file |-> f] \in Held(w)'
        BY <1>18, <1>21 DEF RestoredOr
      <3>2. \A f \in File : [name |-> m, file |-> f] \in Held(w)' =>
              [name |-> m, file |-> f] \in AllHeld'
        BY DEF AllHeld
      <3>3. QED
        BY <3>1, <3>2 DEF RestoredOr
    <2>6. QED
      BY <1>1, <2>1, <2>3, <2>4, <2>5 DEF Resting
  <1>22. worker[w].at # "up"
    BY <1>1
  <1>23. QED
    BY <1>1, <1>6, <1>9, <1>10, <1>12, <1>15, <1>19, <1>20, <1>21, <1>22, ProcessKeep

LEMMA LoseVolumeKeeps ==
    ASSUME SkillInv, LoseVolume
    PROVE  SkillInv'
  <1>1. /\ \A w \in Worker : worker[w].at = "down"
        /\ disk' = [n \in Skill |-> None] /\ lost' = TRUE
        /\ UNCHANGED <<rows, s3, req, worker, marred, unsaved>>
    BY DEF LoseVolume, history
  <1>2. SkillTypeInv' /\ BackupFinite'
    BY <1>1 DEF SkillInv, SkillTypeInv, BackupFinite
  <1>3. CallsFit' /\ RowsFit'
    BY <1>1 DEF SkillInv, CallsFit, CallFit, RowsFit, RowFit, InFlight
  <1>4. \A r \in Request, n \in Skill : ~Touches(r, n) /\ ~Touches(r, n)'
    BY <1>1 DEF SkillInv, CallsFit, CallFit, Touches, InFlight
  <1>5. ProcessesFit'
    BY <1>1 DEF SkillInv, ProcessesFit, ProcessFit
  <1>6. Apart' /\ BusyInv'
    BY <1>4 DEF Apart, BusyInv
  <1>7. Bare'
    BY <1>1 DEF Bare
  <1>8. ASSUME NEW n \in Skill \ marred
        PROVE  Resting(n)'
    <2>1. Resting(n)
      BY <1>4, <1>8 DEF SkillInv, RestingInv
    <2>2. Unique(n)' /\ (Backed(n) => Backed(n)')
      BY <1>1, <2>1 DEF Resting, Unique, Backed, Named
    <2>3. Partial(n)' /\ disk'[n] = None
      BY <1>1 DEF Partial, FilesOf, NoFiles
    <2>4. QED
      BY <1>1, <1>7, <2>1, <2>2, <2>3 DEF Resting
  <1>9. RestingInv'
    BY <1>1, <1>8 DEF RestingInv
  <1>10. RestoreInv'
    <2>1. ASSUME NEW w \in Worker
          PROVE  RestoreFit(w)'
      <3>1. Held(w) = {}
        BY <1>1 DEF SkillInv, ProcessesFit, ProcessFit, Held
      <3>2. Held(w)' = {}
        BY <1>1, <3>1 DEF Held
      <3>3. QED
        BY <1>1, <3>2 DEF RestoreFit, Restoring
    <2>2. QED
      BY <1>7, <2>1 DEF RestoreInv
  <1>11. QED
    BY <1>2, <1>3, <1>5, <1>6, <1>9, <1>10 DEF SkillInv

LEMMA CrashKeeps ==
    ASSUME SkillInv, NEW w \in Worker, Crash(w)
    PROVE  SkillInv'
  <1> DEFINE Cut(r) == InFlight(r) /\ req[r].on = w
             failed == [NoCall EXCEPT !.at = "failed"]
  <1>1. /\ worker' = [worker EXCEPT ![w] = Running("down")]
        /\ marred' = marred \cup HalfDone(w)
        /\ req' = [r \in Request |-> IF Cut(r) THEN failed ELSE req[r]]
        /\ UNCHANGED <<rows, disk, s3, unsaved, lost>>
    BY DEF Crash
  <1>2. failed \in Call /\ failed.at = "failed"
    <2>1. <<>> \in Seq(File)
      OBVIOUS
    <2>2. NoCall \in Call
      BY <2>1 DEF Call, NoCall
    <2>3. QED
      BY <2>2 DEF Call
  <1> HIDE DEF failed
  <1>3. /\ worker' \in [Worker -> Process]
        /\ worker'[w].at = "down" /\ worker'[w].keys = {} /\ worker'[w].key = None
        /\ Held(w)' = {}
        /\ \A v \in Worker \ {w} : worker'[v] = worker[v]
    BY <1>1, RunningType DEF SkillInv
  <1>4. HalfDone(w) \in SUBSET Skill
    <2>1. \A r \in Request : InFlight(r) => req[r].name \in Skill
      BY InFlightFacts
    <2>2. \A k \in worker[w].keys : k.name \in Skill
      BY DEF SkillInv, SkillTypeInv, Process, Key
    <2>3. worker[w].key # None => worker[w].key.name \in Skill
      BY DEF SkillInv, SkillTypeInv, Process, Key
    <2>4. QED
      BY <2>1, <2>2, <2>3 DEF HalfDone
  <1>5. \A k \in Held(w) : k.name \in marred'
    BY <1>1 DEF Held, HalfDone
  <1>6. ASSUME NEW r \in Request
        PROVE  /\ Cut(r) => req'[r].at = "failed" /\ ~InFlight(r)'
               /\ ~Cut(r) => req'[r] = req[r] /\ (InFlight(r)' <=> InFlight(r))
               /\ InFlight(r)' => ~Cut(r) /\ InFlight(r)
    BY <1>1, <1>2 DEF InFlight
  <1>7. SkillTypeInv' /\ BackupFinite'
    <2>1. req' \in [Request -> Call]
      BY <1>1, <1>2 DEF SkillInv, SkillTypeInv
    <2>2. QED
      BY <1>1, <1>3, <1>4, <2>1 DEF SkillInv, SkillTypeInv, BackupFinite
  <1>8. CallsFit'
    <2> SUFFICES ASSUME NEW r \in Request
                 PROVE  CallFit(r)'
      BY DEF CallsFit
    <2>1. CASE Cut(r)
      BY <1>6, <2>1 DEF CallFit
    <2>2. CASE ~Cut(r)
      <3>1. CallFit(r)
        BY DEF SkillInv, CallsFit
      <3>2. InFlight(r) => req[r].on # w
        BY <2>2
      <3>3. req'[r] = req[r] /\ (InFlight(r)' <=> InFlight(r))
        BY <1>6, <2>2
      <3> HIDE DEF Cut
      <3>4. QED
        BY <1>3, <3>1, <3>2, <3>3 DEF CallFit
    <2>3. QED
      BY <2>1, <2>2
  <1>9. RowsFit'
    <2> SUFFICES ASSUME NEW r \in Request
                 PROVE  RowFit(r)'
      BY DEF RowsFit
    <2>1. RowFit(r)
      BY DEF SkillInv, RowsFit
    <2>2. \A q \in Request : req[q].at = "ok" => req'[q] = req[q]
      BY <1>1 DEF InFlight
    <2>3. rows'[r] # None => req'[r].at = "ok"
      BY <1>1, <2>1, <2>2 DEF RowFit
    <2>4. ASSUME InFlight(r)'
          PROVE  InFlight(r) /\ req'[r] = req[r] /\ req[r].id \in Request
      BY <1>6, <2>4, InFlightFacts
    <2>5. QED
      BY <1>1, <2>1, <2>2, <2>3, <2>4 DEF RowFit
  <1>10. ProcessesFit'
    <2> SUFFICES ASSUME NEW v \in Worker
                 PROVE  ProcessFit(v)'
      BY DEF ProcessesFit
    <2>1. ProcessFit(v)
      BY DEF SkillInv, ProcessesFit
    <2>2. QED
      BY <1>1, <1>3, <2>1 DEF ProcessFit
  <1>11. ASSUME NEW r \in Request, NEW n \in Skill, Touches(r, n)'
         PROVE  Touches(r, n) /\ req'[r] = req[r]
    BY <1>6, <1>11 DEF Touches
  <1>12. \A v \in Worker : Restoring(v)' => Restoring(v) /\ worker'[v] = worker[v]
    BY <1>3 DEF Restoring
  <1>13. marred \subseteq marred'
    BY <1>1
  <1>14. Apart'
    BY <1>11, <1>12, <1>13 DEF SkillInv, Apart
  <1>15. \A n \in Skill : FilesOf(n)' = FilesOf(n) /\ Named(n)' = Named(n) /\ Same(n)
    BY <1>1 DEF FilesOf, Named, Same
  <1>16. BusyInv'
    <2> SUFFICES ASSUME NEW n \in Skill \ marred', NEW r \in Request, Touches(r, n)'
                 PROVE  Busy(r, n)'
      BY DEF BusyInv
    <2>1. Busy(r, n) /\ req'[r] = req[r]
      BY <1>11, <1>13 DEF SkillInv, BusyInv
    <2>2. QED
      BY <1>15, <2>1, SameBusy
  <1>17. ASSUME NEW n \in Skill \ marred', \A r \in Request : ~Touches(r, n)'
         PROVE  Resting(n)'
    <2>1. CASE \E r \in Request : Touches(r, n)
      <3>1. PICK r \in Request : Touches(r, n)
        BY <2>1
      <3>2. Busy(r, n) /\ InFlight(r) /\ req[r].name = n /\ req[r].op # "meta"
        BY <1>13, <3>1 DEF SkillInv, BusyInv, Touches
      <3>3. Cut(r)
        <4>1. ~Cut(r) => Touches(r, n)'
          BY <1>6, <3>1 DEF Touches
        <4>2. QED
          BY <1>17, <4>1
      <3>4. req[r].at \in {"write", "remove"}
        <4>1. n \notin HalfDone(w)
          BY <1>1
        <4>2. QED
          BY <3>2, <3>3, <4>1 DEF HalfDone
      <3>5. Unique(n) /\ Intact(n) /\ Mirrored(n) /\ lost = FALSE
        BY <3>2, <3>4, InFlightFacts DEF Busy
      <3>6. Unique(n)' /\ Intact(n)' /\ Mirrored(n)'
        BY <1>1, <1>15, <3>5 DEF Unique, Intact, Mirrored
      <3>7. QED
        BY <1>1, <1>7, <3>5, <3>6, WholeIsResting
    <2>2. CASE ~\E r \in Request : Touches(r, n)
      <3>1. Resting(n)
        BY <1>13, <2>2 DEF SkillInv, RestingInv
      <3>2. Unique(n)' /\ (Intact(n) => Intact(n)') /\ (Backed(n) => Backed(n)')
        BY <1>1, <1>15, <3>1 DEF Resting, Unique, Intact, Backed
      <3>3. (Partial(n) => Partial(n)') /\ (Bare' <=> Bare)
        BY <1>1, <1>15 DEF Partial, Bare
      <3>4. ASSUME RestoredOr(n, AllHeld)
            PROVE  RestoredOr(n, AllHeld)'
        <4>1. ASSUME NEW f \in File, [name |-> n, file |-> f] \in AllHeld
              PROVE  [name |-> n, file |-> f] \in AllHeld'
          <5>1. PICK v \in Worker : [name |-> n, file |-> f] \in Held(v)
            BY <4>1 DEF AllHeld
          <5>2. v # w
            BY <1>5, <5>1
          <5>3. [name |-> n, file |-> f] \in Held(v)'
            BY <1>3, <5>1, <5>2 DEF Held
          <5>4. QED
            BY <5>3 DEF AllHeld
        <4>2. QED
          BY <1>1, <1>15, <3>4, <4>1 DEF RestoredOr
      <3>5. QED
        BY <1>1, <3>1, <3>2, <3>3, <3>4 DEF Resting
    <2>3. QED
      BY <2>1, <2>2
  <1>18. RestingInv'
    BY <1>17 DEF RestingInv
  <1>19. RestoreInv'
    <2>1. ASSUME NEW v \in Worker
          PROVE  RestoreFit(v)'
      <3>1. CASE v = w
        BY <1>3, <3>1 DEF RestoreFit, Restoring
      <3>2. CASE v # w
        <4>1. RestoreFit(v) /\ worker'[v] = worker[v]
          BY <1>3, <3>2 DEF SkillInv, RestoreInv
        <4>2. Held(v)' = Held(v)
          BY <4>1 DEF Held
        <4>3. \A n \in Skill : RestoredOr(n, Held(v)) => RestoredOr(n, Held(v))'
          BY <1>1, <1>15, <4>2 DEF RestoredOr
        <4>4. QED
          BY <1>1, <1>13, <4>1, <4>2, <4>3 DEF RestoreFit, Restoring
      <3>3. QED
        BY <3>1, <3>2
    <2>2. Bare' <=> Bare
      BY <1>1 DEF Bare
    <2>3. QED
      BY <1>1, <1>13, <2>1, <2>2 DEF SkillInv, RestoreInv
  <1>20. QED
    BY <1>7, <1>8, <1>9, <1>10, <1>14, <1>16, <1>18, <1>19 DEF SkillInv

-----------------------------------------------------------------------------
(* The theorems *)

LEMMA SkillInit ==
    ASSUME Init
    PROVE  SkillInv
  <1>1. PICK n \in Skill, list \in FileList, stored \in BOOLEAN :
          /\ Head(list) = SkillMd
          /\ LET files == [f \in File |-> IF f \in Members(list) THEN First ELSE None]
                 row == [name |-> n, version |-> 1, active |-> TRUE]
             IN /\ rows = [i \in Request |-> IF stored /\ i = First THEN row ELSE None]
                /\ disk = [m \in Skill |-> IF stored /\ m = n THEN files ELSE None]
                /\ s3 = [m \in Skill |-> IF stored /\ m = n THEN files ELSE NoFiles]
          /\ req = [r \in Request |-> IF r # First THEN NoCall
                                   ELSE [NoCall EXCEPT !.at = IF stored THEN "ok" ELSE "failed"]]
    BY DEF Init
  <1> DEFINE files == [f \in File |-> IF f \in Members(list) THEN First ELSE None]
             row == [name |-> n, version |-> 1, active |-> TRUE]
             first == [NoCall EXCEPT !.at = IF stored THEN "ok" ELSE "failed"]
  <1>2. /\ rows = [i \in Request |-> IF stored /\ i = First THEN row ELSE None]
        /\ disk = [m \in Skill |-> IF stored /\ m = n THEN files ELSE None]
        /\ s3 = [m \in Skill |-> IF stored /\ m = n THEN files ELSE NoFiles]
        /\ req = [r \in Request |-> IF r # First THEN NoCall ELSE first]
        /\ worker = [w \in Worker |-> Running("up")]
        /\ marred = {} /\ unsaved = {} /\ lost = FALSE
    BY <1>1 DEF Init
  <1>3. First \in Request /\ list \in Seq(File) /\ list # <<>>
    BY SkillAssumption, BoundsAssumption
  <1>4. SkillMd \in Members(list) /\ Members(list) \in SUBSET File /\ IsFiniteSet(Members(list))
    BY <1>1, <1>3, MembersSplit, MembersOfList
  <1>5. NoCall \in Call /\ first \in Call
    <2>1. <<>> \in Seq(File)
      OBVIOUS
    <2>2. NoCall \in Call
      BY <2>1 DEF Call, NoCall
    <2>3. QED
      BY <2>2 DEF Call
  <1>6. NoCall.at = "idle" /\ first.at = IF stored THEN "ok" ELSE "failed"
    BY DEF NoCall
  <1>7. row \in Row /\ row # None /\ row.name = n
    <2>1. row \in Row /\ row.name = n
      BY DEF Row
    <2> HIDE DEF row
    <2>2. QED
      BY <2>1, NoneAssumption
  <1>8. files \in [File -> Content] /\ files # None /\ Good(files[SkillMd]) /\ files # NoFiles
    <2>1. files \in [File -> Content]
      BY <1>3 DEF Content
    <2>2. files[SkillMd] = First
      BY <1>4
    <2>3. First \notin {None, Torn}
      BY <1>3, SkillAssumption
    <2>4. NoFiles[SkillMd] = None
      BY <1>4, SkillAssumption DEF NoFiles
    <2>5. QED
      BY <2>1, <2>2, <2>3, <2>4, NoneAssumption DEF Good
  <1>9. \A f \in File : files[f] # None => f \in Members(list)
    OBVIOUS
  <1> HIDE DEF files, row, first
  <1>10. /\ worker \in [Worker -> Process]
         /\ \A w \in Worker : /\ worker[w].at = "up" /\ worker[w].keys = {}
                              /\ worker[w].key = None
    BY <1>2 DEF Running, Process, Content
  <1>11. SkillTypeInv
    <2>1. NoFiles \in [File -> Content]
      BY DEF NoFiles, Content
    <2>2. QED
      BY <1>2, <1>5, <1>7, <1>8, <1>10, <2>1 DEF SkillTypeInv
  <1>12. BackupFinite
    <2> SUFFICES ASSUME NEW m \in Skill
                 PROVE  IsFiniteSet({f \in File : s3[m][f] # None})
      BY DEF BackupFinite
    <2>1. {f \in File : s3[m][f] # None} \subseteq Members(list)
      BY <1>2, <1>9 DEF NoFiles
    <2>2. QED
      BY <1>4, <2>1, FS_Subset
  <1>13. \A r \in Request : ~InFlight(r) /\ req[r].at \notin {"put", "drop"}
    BY <1>2, <1>6 DEF InFlight
  <1>14. CallsFit
    BY <1>13 DEF CallsFit, CallFit
  <1>15. RowsFit
    BY <1>2, <1>6, <1>13 DEF RowsFit, RowFit
  <1>16. ProcessesFit
    BY <1>2, <1>10 DEF ProcessesFit, ProcessFit
  <1>17. Apart /\ BusyInv
    BY <1>13 DEF Apart, BusyInv, Touches
  <1>18. RestoreInv
    BY <1>2, <1>10 DEF RestoreInv, RestoreFit, Restoring, Held
  <1>19. ASSUME NEW m \in Skill
         PROVE  Resting(m)
    <2>1. CASE stored /\ m = n
      <3>1. Named(m) = {First}
        BY <1>2, <1>3, <1>7, <2>1 DEF Named
      <3>2. disk[m] = files /\ s3[m] = files
        BY <1>2, <2>1
      <3>3. FilesOf(m) = files
        BY <1>8, <3>2 DEF FilesOf
      <3>4. QED
        BY <1>2, <1>8, <3>1, <3>2, <3>3 DEF Resting, Unique, Backed, Partial, RestoredOr
    <2>2. CASE ~(stored /\ m = n)
      <3>1. Named(m) = {}
        BY <1>2, <1>7, <2>2 DEF Named
      <3>2. disk[m] = None /\ s3[m] = NoFiles
        BY <1>2, <2>2
      <3>3. QED
        BY <1>2, <3>1, <3>2 DEF Resting, Unique, Backed, Partial, RestoredOr, FilesOf, NoFiles
    <2>3. QED
      BY <2>1, <2>2
  <1>20. RestingInv
    BY <1>19 DEF RestingInv
  <1>21. QED
    BY <1>11, <1>12, <1>14, <1>15, <1>16, <1>17, <1>18, <1>20 DEF SkillInv

LEMMA SkillStep ==
    ASSUME SkillInv, Next
    PROVE  SkillInv'
  <1>1. CASE \E r \in Request : (BeginCall(r) \/ CallStep(r) \/ CallFails(r))
                                /\ UNCHANGED <<lost, spent>>
    BY <1>1, CallsMove, MovesKeep
  <1>2. CASE \E w \in Worker : Crash(w) \/ Start(w) \/ Recover(w)
    BY <1>2, CrashKeeps, StartKeeps, SelectTenantsKeeps, CheckLocalKeeps, ListKeysKeeps,
       RecoverFailsKeeps, FetchObjectKeeps, ObjectFailsKeeps, StoreFileKeeps, RestoredKeeps
       DEF Recover
  <1>3. CASE LoseVolume
    BY <1>3, LoseVolumeKeeps
  <1>4. QED
    BY <1>1, <1>2, <1>3 DEF Next

LEMMA SkillStutter ==
    ASSUME SkillInv, UNCHANGED vars
    PROVE  SkillInv'
  <1>1. UNCHANGED <<rows, disk, s3, req, worker, marred, unsaved, lost>>
    BY DEF vars, storeVars, history
  <1>2. SkillTypeInv' /\ BackupFinite' /\ CallsFit' /\ RowsFit' /\ ProcessesFit'
    BY <1>1 DEF SkillInv, SkillTypeInv, BackupFinite, CallsFit, CallFit, InFlight, RowsFit, RowFit,
       ProcessesFit, ProcessFit
  <1>3. /\ \A r \in Request, n \in Skill : Touches(r, n)' <=> Touches(r, n)
        /\ \A w \in Worker : Restoring(w)' <=> Restoring(w)
    BY <1>1, TouchesSame DEF Restoring
  <1>4. Apart'
    BY <1>1, <1>3 DEF SkillInv, Apart
  <1>5. /\ \A n \in Skill : FilesOf(n)' = FilesOf(n) /\ Named(n)' = Named(n)
        /\ \A w \in Worker : Held(w)' = Held(w)
        /\ AllHeld' = AllHeld /\ (Bare' <=> Bare)
    BY <1>1 DEF FilesOf, Named, Held, AllHeld, Bare
  <1>6. \A n \in Skill : Resting(n) => Resting(n)'
    <2> SUFFICES ASSUME NEW n \in Skill, Resting(n)
                 PROVE  Resting(n)'
      OBVIOUS
    <2>1. Unique(n)' /\ (Intact(n) => Intact(n)') /\ (Backed(n) => Backed(n)')
      BY <1>1, <1>5 DEF Resting, Unique, Intact, Backed
    <2>2. Partial(n) => Partial(n)'
      BY <1>1, <1>5 DEF Partial
    <2>3. RestoredOr(n, AllHeld) => RestoredOr(n, AllHeld)'
      BY <1>1, <1>5 DEF RestoredOr
    <2>4. QED
      BY <1>1, <1>5, <2>1, <2>2, <2>3 DEF Resting
  <1>7. RestingInv'
    BY <1>1, <1>3, <1>6 DEF SkillInv, RestingInv
  <1>8. \A n \in Skill, r \in Request : Busy(r, n) => Busy(r, n)'
    BY <1>1, <1>5, SameBusy DEF Same
  <1>9. BusyInv'
    BY <1>1, <1>3, <1>8 DEF SkillInv, BusyInv
  <1>10. RestoreInv'
    <2>1. \A n \in Skill, w \in Worker : RestoredOr(n, Held(w)) => RestoredOr(n, Held(w))'
      BY <1>1, <1>5 DEF RestoredOr
    <2>2. QED
      BY <1>1, <1>3, <1>5, <2>1 DEF SkillInv, RestoreInv, RestoreFit
  <1>11. QED
    BY <1>2, <1>4, <1>7, <1>9, <1>10 DEF SkillInv

\* The inductive invariant: every call and every process is where its skill's row,
\* directory and backup can be, unless a failure has marred the skill (skill_service.py,
\* skill_s3_backup.py, lifespan.py).
THEOREM SkillInvariant == Spec => []SkillInv
  <1>1. Init => SkillInv
    BY SkillInit
  <1>2. SkillInv /\ [Next]_vars => SkillInv'
    BY SkillStep, SkillStutter
  <1>3. QED
    BY <1>1, <1>2, PTL DEF Spec

LEMMA SettledIsWhole ==
    ASSUME SkillInv, NEW n \in Skill, Settled(n)
    PROVE  Unique(n) /\ Intact(n) /\ Mirrored(n)
  <1>1. n \notin marred /\ lost = FALSE /\ \A r \in Request : ~Touches(r, n)
    BY DEF Settled, SkillInv, SkillTypeInv
  <1>2. AllHeld = {}
    BY NothingHeld DEF Settled, Restoring
  <1>3. QED
    BY <1>1, <1>2, RestingIsWhole

\* A skill on which nobody works has one row if it has a directory, with its SKILL.md,
\* and none if it has not, after any calls, crashes, losses and restores that did not
\* break off half way (upload_skill(), update_files(), delete(), restore_tenant_skills()).
THEOREM SkillRowsMatchDisk == Spec => []RowsMatchDisk
  <1>1. SkillInv => RowsMatchDisk
    <2> SUFFICES ASSUME SkillInv, NEW n \in Skill, Settled(n)
                 PROVE  /\ Cardinality(Named(n)) <= 1
                        /\ Named(n) = {} <=> disk[n] = None
                        /\ disk[n] # None => disk[n][SkillMd] \notin {None, Torn}
      BY DEF RowsMatchDisk
    <2>1. Unique(n) /\ Intact(n)
      BY SettledIsWhole
    <2>2. Cardinality(Named(n)) <= 1
      <3>1. CASE Named(n) = {}
        BY <3>1, FS_EmptySet
      <3>2. CASE Named(n) # {}
        <4>1. PICK i : i \in Named(n)
          BY <3>2
        <4>2. Named(n) = {i}
          BY <2>1, <4>1 DEF Unique
        <4>3. QED
          BY <4>2, FS_Singleton
      <3>3. QED
        BY <3>1, <3>2
    <2>3. QED
      BY <2>1, <2>2 DEF Intact, Good
  <1>2. QED
    BY <1>1, SkillInvariant, PTL

\* The backup of such a skill holds exactly its files, so that no deleted skill comes
\* back with a restore and no restored one lacks a file (skill_s3_backup.py).
THEOREM SkillBackupMatchesDisk == Spec => []BackupMatchesDisk
  <1>1. SkillInv => BackupMatchesDisk
    BY SettledIsWhole DEF BackupMatchesDisk, Mirrored
  <1>2. QED
    BY <1>1, SkillInvariant, PTL
=============================================================================
