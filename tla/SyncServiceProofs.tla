-------------------------- MODULE SyncServiceProofs ---------------------------
(***************************************************************************)
(* Proofs about SyncService, for any workers, cards and versions.          *)
(*                                                                         *)
(* The item's lock makes what a worker has read and written of a card      *)
(* (Stage) independent of the other workers that lock; imports do not, and *)
(* the only thing they disturb is recorded in intruded.                    *)
(***************************************************************************)
EXTENDS SyncService, TLAPS

Pcs == Inside \cup {"idle", "queued", "lock", "import", "insert"}

\* What is known, between two steps, of a worker at p with the job j.
StageOf(p, j) ==
  /\ p = "queued" => j.kind = "integrity"
  /\ (p \in {"queued", "lock"} /\ j.kind = "integrity") \/ p = "repair" =>
       records[j.rid] # NoRecord /\ j.read \in 1 .. remote[j.rid]
  /\ p \in {"fetch", "fetch all", "save", "unchanged", "failed", "write", "mark"} =>
       records[j.rid] # NoRecord
  /\ p \in {"save", "insert"} => j.new \in 1 .. remote[j.rid]
  /\ p = "save" => intruded[j.rid] \/ records[j.rid].version <= j.new
  /\ p = "mark" => files[j.rid] = j.read

Stage(t) == StageOf(pc[t], job[t])

\* What is known of card r.
Stored(r) ==
  IF records[r] = NoRecord THEN files[r] = 0 /\ ~wanted[r]
  ELSE records[r].version <= remote[r] /\ records[r].favorite = wanted[r]

Marked(r) == records[r] # NoRecord =>
  \/ records[r].exported = files[r]
  \/ unmarked[r]
  \/ \E t \in Threads : pc[t] = "mark" /\ job[t].rid = r

IInv ==
  /\ TypeOK
  /\ \A t \in Threads : Stage(t)
  /\ \A r \in Rids : Stored(r) /\ Marked(r)

-----------------------------------------------------------------------------

\* A save keeps what only the user and the exports change.
LEMMA UpsertKeeps ==
  ASSUME NEW old \in Record \cup {NoRecord}, NEW v \in Versions
  PROVE  /\ Upsert(old, v) \in Record
         /\ Upsert(old, v) # NoRecord
         /\ Upsert(old, v).version = v
         /\ Upsert(old, v).exported = IF old = NoRecord THEN 0 ELSE old.exported
         /\ Upsert(old, v).favorite = IF old = NoRecord THEN FALSE ELSE old.favorite
<1> USE MaxVersionIsNat DEF Versions
<1>1. ASSUME NEW rec \in Record PROVE rec # NoRecord
  <2>1. rec.version # 0
    BY DEF Record
  <2>2. NoRecord.version = 0
    BY DEF NoRecord
  <2>3. QED
    BY <2>1, <2>2
<1>2. CASE old = NoRecord
  <2> DEFINE new == [version |-> v, status |-> "success", exported |-> 0, favorite |-> FALSE]
  <2>1. Upsert(old, v) = new
    BY <1>2 DEF Upsert
  <2>2. new \in Record /\ new.version = v /\ new.exported = 0 /\ new.favorite = FALSE
    BY DEF Record
  <2> HIDE DEF new
  <2>3. QED
    BY <1>1, <1>2, <2>1, <2>2
<1>3. CASE old # NoRecord
  <2> DEFINE new == [old EXCEPT !.version = v, !.status = "success"]
  <2>1. Upsert(old, v) = new
    BY <1>3 DEF Upsert
  <2>2. new \in Record /\ new.version = v /\ new.exported = old.exported /\ new.favorite = old.favorite
    BY <1>3 DEF Record
  <2> HIDE DEF new
  <2>3. QED
    BY <1>1, <1>3, <2>1, <2>2
<1>4. QED
  BY <1>2, <1>3

\* At first no card has been exported or marked, and all workers are idle.
LEMMA InitIInv == Init => IInv
<1> SUFFICES ASSUME Init PROVE IInv
  OBVIOUS
<1> USE MaxVersionIsNat DEF Init
<1> DEFINE first == [version |-> 1, status |-> "success", exported |-> 0, favorite |-> FALSE]
<1>a. first \in Record /\ first.version = 1 /\ first.exported = 0 /\ first.favorite = FALSE
  BY DEF Record, Versions
<1>b. records \in [Rids -> {NoRecord, first}]
  OBVIOUS
<1> HIDE DEF first
<1>1. TypeOK
  <2>1. records \in [Rids -> Record \cup {NoRecord}]
    BY <1>a, <1>b
  <2>2. remote \in [Rids -> Versions] /\ files \in [Rids -> 0 .. MaxVersion]
    BY DEF Versions
  <2>3. pc \in [Threads -> Inside \cup {"idle", "queued", "lock", "import", "insert"}]
    OBVIOUS
  <2>4. \A t \in Threads : pc[t] = "idle" /\ pc[t] \notin Inside /\ job[t] = NoJob
    BY DEF Inside
  <2>5. LockTypeOK
    BY DEF LockInit, LockTypeOK
  <2>6. QED
    BY <2>1, <2>2, <2>3, <2>4, <2>5 DEF TypeOK
<1>2. \A t \in Threads : Stage(t)
  BY DEF Stage, StageOf
<1>3. ASSUME NEW r \in Rids PROVE Stored(r) /\ Marked(r)
  <2>1. files[r] = 0 /\ remote[r] = 1 /\ wanted[r] = FALSE
    OBVIOUS
  <2>2. records[r] = NoRecord \/ records[r] = first
    BY <1>b
  <2> HIDE DEF Init
  <2>3. CASE records[r] = NoRecord
    BY <2>1, <2>3 DEF Stored, Marked
  <2>4. CASE records[r] # NoRecord
    <3>1. records[r].version <= remote[r]
      BY <1>a, <2>1, <2>2, <2>4
    <3>2. records[r].favorite = wanted[r] /\ records[r].exported = files[r]
      BY <1>a, <2>1, <2>2, <2>4
    <3>3. QED
      BY <2>4, <3>1, <3>2 DEF Stored, Marked
  <2>5. QED
    BY <2>3, <2>4
<1>4. QED
  BY <1>1, <1>2, <1>3 DEF IInv

-----------------------------------------------------------------------------
(* Facts about jobs and records                                            *)

\* No job is mistaken for none.
LEMMA JobIsAJob ==
  ASSUME NEW j \in Job
  PROVE  /\ j # NoJob
         /\ j.kind \in {"update", "export", "integrity", "import"} /\ j.rid \in Rids
         /\ j.read \in 0 .. MaxVersion /\ j.new \in 0 .. MaxVersion
<1>1. j.kind # "none" /\ NoJob.kind = "none"
  BY DEF Job, NoJob
<1>2. QED
  BY <1>1 DEF Job

\* A job that begins.
LEMMA NewJob ==
  ASSUME NEW kind \in {"update", "export", "integrity", "import"}, NEW r \in Rids, NEW v \in 0 .. MaxVersion
  PROVE  LET j == [kind |-> kind, rid |-> r, read |-> v, new |-> 0]
         IN  j \in Job /\ j.kind = kind /\ j.rid = r /\ j.read = v
  BY MaxVersionIsNat DEF Job

\* A job's fields change one at a time.
LEMMA JobFields ==
  ASSUME NEW j \in Job, NEW v \in 0 .. MaxVersion
  PROVE  /\ [j EXCEPT !.read = v] \in Job /\ [j EXCEPT !.read = v].kind = j.kind
         /\ [j EXCEPT !.read = v].rid = j.rid /\ [j EXCEPT !.read = v].read = v
         /\ [j EXCEPT !.new = v] \in Job /\ [j EXCEPT !.new = v].kind = j.kind
         /\ [j EXCEPT !.new = v].rid = j.rid /\ [j EXCEPT !.new = v].read = j.read
         /\ [j EXCEPT !.new = v].new = v
  BY DEF Job

\* A record has a version of the website.
LEMMA RecordIsARecord ==
  ASSUME NEW rec \in Record
  PROVE  /\ rec # NoRecord
         /\ rec.version \in Versions /\ rec.favorite \in BOOLEAN /\ rec.exported \in 0 .. MaxVersion
<1>1. rec.version # 0 /\ NoRecord.version = 0
  BY MaxVersionIsNat DEF Record, NoRecord, Versions
<1>2. QED
  BY <1>1 DEF Record

\* The status of a record changes alone.
LEMMA StatusField ==
  ASSUME NEW rec \in Record, NEW status \in {"success", "unchanged", "failed"}
  PROVE  LET new == [rec EXCEPT !.status = status]
         IN  new \in Record /\ new.version = rec.version /\ new.exported = rec.exported /\ new.favorite = rec.favorite
  BY DEF Record

\* So does the version marked as exported,
LEMMA ExportedField ==
  ASSUME NEW rec \in Record, NEW v \in 0 .. MaxVersion
  PROVE  LET new == [rec EXCEPT !.exported = v]
         IN  new \in Record /\ new.version = rec.version /\ new.exported = v /\ new.favorite = rec.favorite
  BY DEF Record

\* and the favorite.
LEMMA FavoriteField ==
  ASSUME NEW rec \in Record, NEW favorite \in BOOLEAN
  PROVE  LET new == [rec EXCEPT !.favorite = favorite]
         IN  new \in Record /\ new.version = rec.version /\ new.exported = rec.exported /\ new.favorite = favorite
  BY DEF Record

\* What is known of a worker that is at work.
LEMMA AtWork ==
  ASSUME IInv, NEW t \in Threads, pc[t] # "idle"
  PROVE  /\ job[t] \in Job /\ job[t] # NoJob /\ job[t].rid \in Rids
         /\ job[t].read \in 0 .. MaxVersion /\ job[t].new \in 0 .. MaxVersion
         /\ records[job[t].rid] \in Record \cup {NoRecord}
         /\ remote[job[t].rid] \in Versions
         /\ files[job[t].rid] \in 0 .. MaxVersion
         /\ unmarked[job[t].rid] \in BOOLEAN /\ intruded[job[t].rid] \in BOOLEAN
         /\ StageOf(pc[t], job[t]) /\ Stored(job[t].rid) /\ Marked(job[t].rid)
<1>1. job[t] \in Job
  BY DEF IInv, TypeOK
<1>2. job[t] # NoJob /\ job[t].rid \in Rids /\ job[t].read \in 0 .. MaxVersion /\ job[t].new \in 0 .. MaxVersion
  BY <1>1, JobIsAJob
<1>3. QED
  BY <1>1, <1>2 DEF IInv, TypeOK, Stage

\* Two workers inside are at different cards.
LEMMA Apart ==
  ASSUME IInv, NEW t \in Threads, NEW u \in Threads, u # t, pc[t] \in Inside, pc[u] \in Inside
  PROVE  job[t].rid # job[u].rid
  BY DEF IInv, TypeOK

-----------------------------------------------------------------------------
(* Steps of workers                                                        *)

\* A worker goes on and leaves the data alone.
LEMMA QuietStep ==
  ASSUME IInv, NEW t \in Threads, NEW p \in Pcs, NEW j \in Job \cup {NoJob},
         pc' = [pc EXCEPT ![t] = p], job' = [job EXCEPT ![t] = j], UNCHANGED dataVars,
         LockTypeOK', \A u \in Threads \ {t} : pc[u] \in Inside => holder'[job[u].rid] = u,
         p = "idle" <=> j = NoJob, p \in Inside => holder'[j.rid] = t,
         pc[t] # "mark", StageOf(p, j)
  PROVE  IInv'
<1>1. \A u \in Threads : pc'[u] = (IF u = t THEN p ELSE pc[u]) /\ job'[u] = (IF u = t THEN j ELSE job[u])
  BY DEF IInv, TypeOK
<1>2. TypeOK'
  <2>1. pc' \in [Threads -> Pcs] /\ job' \in [Threads -> Job \cup {NoJob}]
    BY DEF IInv, TypeOK, Pcs
  <2>2. \A u \in Threads : (pc'[u] = "idle" <=> job'[u] = NoJob) /\ (pc'[u] \in Inside => holder'[job'[u].rid] = u)
    BY <1>1 DEF IInv, TypeOK
  <2>3. QED
    BY <2>1, <2>2 DEF IInv, TypeOK, Pcs, dataVars
<1>3. ASSUME NEW u \in Threads PROVE Stage(u)'
  <2>1. CASE u = t
    BY <1>1, <2>1 DEF Stage, StageOf, dataVars
  <2>2. CASE u # t
    <3>1. pc'[u] = pc[u] /\ job'[u] = job[u] /\ StageOf(pc[u], job[u])
      BY <1>1, <2>2 DEF IInv, Stage
    <3>2. QED
      BY <3>1 DEF Stage, StageOf, dataVars
  <2>3. QED
    BY <2>1, <2>2
<1>4. ASSUME NEW c \in Rids PROVE Stored(c)' /\ Marked(c)'
  <2>1. \A u \in Threads : pc[u] = "mark" => pc'[u] = "mark" /\ job'[u].rid = job[u].rid
    BY <1>1
  <2>2. QED
    BY <2>1 DEF IInv, Stored, Marked, dataVars
<1>5. QED
  BY <1>2, <1>3, <1>4 DEF IInv

\* Worker t goes to p with the job j, and what is kept of its card r becomes
\* rec, f, um and i.  Whoever does so without the item leaves the file alone and
\* is recorded in i when the item has a holder.
Saving(t, p, j, r, rec, f, um, i) ==
  /\ p \in Pcs /\ pc' = [pc EXCEPT ![t] = p]
  /\ j \in Job \cup {NoJob} /\ job' = [job EXCEPT ![t] = j]
  /\ p = "idle" <=> j = NoJob
  /\ LockTypeOK'
  /\ \A u \in Threads \ {t} : pc[u] \in Inside => holder'[job[u].rid] = u
  /\ p \in Inside => holder'[j.rid] = t
  /\ r \in Rids /\ r = job[t].rid /\ pc[t] # "idle"
  /\ rec \in Record \cup {NoRecord} /\ records' = [records EXCEPT ![r] = rec]
  /\ f \in 0 .. MaxVersion /\ files' = [files EXCEPT ![r] = f]
  /\ um \in BOOLEAN /\ unmarked' = [unmarked EXCEPT ![r] = um]
  /\ i \in BOOLEAN /\ intruded' = [intruded EXCEPT ![r] = i]
  /\ UNCHANGED <<remote, wanted>>
  /\ records[r] # NoRecord => rec # NoRecord
  /\ IF rec = NoRecord THEN f = 0 /\ ~wanted[r] ELSE rec.version <= remote[r] /\ rec.favorite = wanted[r]
  /\ rec # NoRecord =>
       \/ rec.exported = f
       \/ um
       \/ p = "mark" /\ j.rid = r
       \/ pc[t] # "mark" /\ records[r] # NoRecord
            /\ rec.exported = records[r].exported /\ f = files[r] /\ um = unmarked[r]
  /\ pc[t] \in Inside \/ (f = files[r] /\ (holder[r] # None => i))
  /\ p \in {"idle", "unlock"} \/ (p = "mark" /\ j.rid = r /\ rec # NoRecord /\ f = j.read)

\* Such a step keeps the invariant.
LEMMA SavingStep ==
  ASSUME IInv, NEW t \in Threads, NEW p, NEW j, NEW r, NEW rec, NEW f, NEW um, NEW i,
         Saving(t, p, j, r, rec, f, um, i)
  PROVE  IInv'
<1> USE DEF Saving
<1>1. \A u \in Threads : pc'[u] = (IF u = t THEN p ELSE pc[u]) /\ job'[u] = (IF u = t THEN j ELSE job[u])
  BY DEF IInv, TypeOK
<1>2. \A c \in Rids : /\ records'[c] = (IF c = r THEN rec ELSE records[c])
                      /\ files'[c] = (IF c = r THEN f ELSE files[c])
                      /\ unmarked'[c] = (IF c = r THEN um ELSE unmarked[c])
                      /\ intruded'[c] = (IF c = r THEN i ELSE intruded[c])
  BY DEF IInv, TypeOK
<1>3. TypeOK'
  <2>1. pc' \in [Threads -> Pcs] /\ job' \in [Threads -> Job \cup {NoJob}]
    BY DEF IInv, TypeOK, Pcs
  <2>2. \A u \in Threads : (pc'[u] = "idle" <=> job'[u] = NoJob) /\ (pc'[u] \in Inside => holder'[job'[u].rid] = u)
    BY <1>1 DEF IInv, TypeOK
  <2>3. /\ records' \in [Rids -> Record \cup {NoRecord}] /\ files' \in [Rids -> 0 .. MaxVersion]
        /\ unmarked' \in [Rids -> BOOLEAN] /\ intruded' \in [Rids -> BOOLEAN]
    BY DEF IInv, TypeOK
  <2>4. QED
    BY <2>1, <2>2, <2>3 DEF IInv, TypeOK, Pcs
<1>4. ASSUME NEW u \in Threads PROVE Stage(u)'
  <2>1. CASE u = t
    <3>1. pc'[u] = p /\ job'[u] = j
      BY <1>1, <2>1
    <3>2. CASE p \in {"idle", "unlock"}
      BY <3>1, <3>2 DEF Stage, StageOf
    <3>3. CASE p = "mark" /\ j.rid = r /\ rec # NoRecord /\ f = j.read
      <4>1. records'[r] = rec /\ files'[r] = f
        BY <1>2
      <4>2. QED
        BY <3>1, <3>3, <4>1 DEF Stage, StageOf
    <3>4. QED
      BY <3>2, <3>3
  <2>2. CASE u # t
    <3>1. pc'[u] = pc[u] /\ job'[u] = job[u] /\ StageOf(pc[u], job[u])
      BY <1>1, <2>2 DEF IInv, Stage
    <3>2. CASE pc[u] = "idle"
      BY <3>1, <3>2 DEF Stage, StageOf
    <3>3. CASE pc[u] # "idle" /\ job[u].rid # r
      <4>1. job[u].rid \in Rids
        BY <3>3, AtWork
      <4>2. QED
        BY <1>2, <3>1, <3>3, <4>1 DEF Stage, StageOf
    <3>4. CASE pc[u] # "idle" /\ job[u].rid = r
      <4>1. pc[u] \in Inside => f = files[r] /\ i
        <5>1. SUFFICES ASSUME pc[u] \in Inside PROVE f = files[r] /\ i
          OBVIOUS
        <5>2. pc[t] \notin Inside
          BY <2>2, <3>4, <5>1, Apart
        <5>3. holder[r] = u
          BY <3>4, <5>1 DEF IInv, TypeOK
        <5>4. QED
          BY <5>2, <5>3, NoneIsNoThread
      <4>2. pc[u] = "save" => i
        BY <4>1 DEF Inside
      <4>3. pc[u] = "mark" => f = files[r]
        BY <4>1 DEF Inside
      <4>4. records'[r] = rec /\ files'[r] = f /\ intruded'[r] = i
        BY <1>2
      <4>5. QED
        BY <3>1, <3>4, <4>2, <4>3, <4>4 DEF Stage, StageOf
    <3>5. QED
      BY <3>2, <3>3, <3>4
  <2>3. QED
    BY <2>1, <2>2
<1>5. ASSUME NEW c \in Rids PROVE Stored(c)'
  BY <1>2 DEF IInv, Stored
<1>6. ASSUME NEW c \in Rids PROVE Marked(c)'
  <2>1. Marked(c)
    BY DEF IInv
  <2>2. CASE c # r
    <3>1. \A u \in Threads : pc[u] = "mark" /\ job[u].rid = c => pc'[u] = "mark" /\ job'[u].rid = c
      BY <1>1, <2>2
    <3>2. QED
      BY <1>2, <2>1, <2>2, <3>1 DEF Marked
  <2>3. CASE c = r
    <3>1. pc[t] # "mark" => \A u \in Threads : pc[u] = "mark" /\ job[u].rid = c => pc'[u] = "mark" /\ job'[u].rid = c
      BY <1>1
    <3>2. p = "mark" /\ j.rid = r => \E u \in Threads : pc'[u] = "mark" /\ job'[u].rid = c
      BY <1>1, <2>3
    <3>3. records'[c] = rec /\ files'[c] = f /\ unmarked'[c] = um
      BY <1>2, <2>3
    <3>4. QED
      BY <2>1, <2>3, <3>1, <3>2, <3>3 DEF Marked
  <2>4. QED
    BY <2>2, <2>3
<1>7. QED
  BY <1>3, <1>4, <1>5, <1>6 DEF IInv

\* What a save of a card stores.
LEMMA SavedCard ==
  ASSUME IInv, NEW r \in Rids, NEW v \in 1 .. remote[r]
  PROVE  LET rec == Upsert(records[r], v)
         IN  /\ rec \in Record /\ rec # NoRecord
             /\ rec.version <= remote[r] /\ rec.favorite = wanted[r]
             /\ rec.exported = files[r] \/ (records[r] # NoRecord /\ rec.exported = records[r].exported)
<1>1. /\ records[r] \in Record \cup {NoRecord} /\ remote[r] \in Versions
      /\ wanted[r] \in BOOLEAN /\ Stored(r)
  BY DEF IInv, TypeOK
<1>2. v \in Versions /\ v <= remote[r]
  BY <1>1, MaxVersionIsNat DEF Versions
<1> DEFINE rec == Upsert(records[r], v)
<1>3. /\ rec \in Record /\ rec # NoRecord /\ rec.version = v
      /\ rec.exported = (IF records[r] = NoRecord THEN 0 ELSE records[r].exported)
      /\ rec.favorite = (IF records[r] = NoRecord THEN FALSE ELSE records[r].favorite)
  BY <1>1, <1>2, UpsertKeeps
<1> HIDE DEF rec
<1>4. rec.exported = files[r] \/ (records[r] # NoRecord /\ rec.exported = records[r].exported)
  BY <1>1, <1>3 DEF Stored
<1>5. rec.favorite = wanted[r]
  BY <1>1, <1>3 DEF Stored
<1>6. QED
  BY <1>2, <1>3, <1>4, <1>5 DEF rec

\* A user changes the favorite of a card, and nothing else.
LEMMA FavoriteStep ==
  ASSUME IInv, NEW r \in Rids, NEW favorite \in BOOLEAN, records[r] # NoRecord,
         records' = [records EXCEPT ![r].favorite = favorite], wanted' = [wanted EXCEPT ![r] = favorite],
         UNCHANGED <<lockVars, remote, files, unmarked, pc, job, intruded>>
  PROVE  IInv'
<1> DEFINE rec == [records[r] EXCEPT !.favorite = favorite]
<1>1. records[r] \in Record
  BY DEF IInv, TypeOK
<1>2. /\ rec \in Record /\ rec.version = records[r].version
      /\ rec.exported = records[r].exported /\ rec.favorite = favorite
  BY <1>1, FavoriteField
<1>3. records' = [records EXCEPT ![r] = rec]
  OBVIOUS
<1> HIDE DEF rec
<1>4. rec # NoRecord
  BY <1>2, RecordIsARecord
<1>5. \A c \in Rids : /\ records'[c] = (IF c = r THEN rec ELSE records[c])
                      /\ wanted'[c] = (IF c = r THEN favorite ELSE wanted[c])
  BY <1>3 DEF IInv, TypeOK
<1>6. TypeOK'
  <2>1. records' \in [Rids -> Record \cup {NoRecord}] /\ wanted' \in [Rids -> BOOLEAN]
    BY <1>2, <1>3 DEF IInv, TypeOK
  <2>2. QED
    BY <2>1 DEF IInv, TypeOK, LockTypeOK, lockVars
<1>7. ASSUME NEW t \in Threads PROVE Stage(t)'
  <2>1. pc'[t] = pc[t] /\ job'[t] = job[t] /\ StageOf(pc[t], job[t])
    BY DEF IInv, Stage
  <2>2. CASE pc[t] = "idle"
    BY <2>1, <2>2 DEF Stage, StageOf
  <2>3. CASE pc[t] # "idle"
    <3>1. job[t].rid \in Rids
      BY <2>3, AtWork
    <3>2. /\ records[job[t].rid] # NoRecord => records'[job[t].rid] # NoRecord
          /\ records'[job[t].rid].version = records[job[t].rid].version
      BY <1>2, <1>4, <1>5, <3>1
    <3>3. QED
      BY <2>1, <3>2 DEF Stage, StageOf
  <2>4. QED
    BY <2>2, <2>3
<1>8. ASSUME NEW c \in Rids PROVE Stored(c)'
  <2>1. CASE c = r
    BY <1>2, <1>4, <1>5, <2>1 DEF IInv, Stored
  <2>2. CASE c # r
    BY <1>5, <2>2 DEF IInv, Stored
  <2>3. QED
    BY <2>1, <2>2
<1>9. ASSUME NEW c \in Rids PROVE Marked(c)'
  BY <1>2, <1>4, <1>5 DEF IInv, Marked
<1>10. QED
  BY <1>6, <1>7, <1>8, <1>9 DEF IInv

\* Every step keeps the invariant.
LEMMA NextIInv == IInv /\ [Next]_vars => IInv'
<1> SUFFICES ASSUME IInv, [Next]_vars PROVE IInv'
  OBVIOUS
<1>1. ASSUME NEW t \in Threads, NEW r \in Rids, NEW kind \in {"update", "export"}, StartItem(t, r, kind) PROVE IInv'
  <2> DEFINE v == 0
             j == [kind |-> kind, rid |-> r, read |-> v, new |-> 0]
  <2>1. v \in 0 .. MaxVersion
    BY MaxVersionIsNat
  <2>2. pc[t] = "idle" /\ pc' = [pc EXCEPT ![t] = "lock"] /\ job' = [job EXCEPT ![t] = j]
    BY <1>1 DEF StartItem, Goto
  <2> HIDE DEF v
  <2>3. j \in Job /\ j.kind = kind /\ j.rid = r /\ j.read = v
    BY <2>1, NewJob
  <2> HIDE DEF j
  <2>4. j # NoJob
    BY <2>3, JobIsAJob
  <2>5. UNCHANGED dataVars /\ holder' = holder /\ LockTypeOK'
    BY <1>1 DEF StartItem, Request, lockVars, LockTypeOK, IInv, TypeOK
  <2>6. StageOf("lock", j)
    BY <1>1, <2>1, <2>3 DEF StageOf, StartItem
  <2>7. \A u \in Threads \ {t} : pc[u] \in Inside => holder'[job[u].rid] = u
    BY <2>5 DEF IInv, TypeOK
  <2>8. "lock" \in Pcs \ Inside
    BY DEF Pcs, Inside
  <2>9. QED
    BY <2>2, <2>3, <2>4, <2>5, <2>6, <2>7, <2>8, QuietStep
<1>2. ASSUME NEW t \in Threads, NEW r \in Rids, StartIntegrity(t, r) PROVE IInv'
  <2> DEFINE v == records[r].version
             j == [kind |-> "integrity", rid |-> r, read |-> v, new |-> 0]
  <2>1. v \in 0 .. MaxVersion /\ v \in 1 .. remote[r]
    <3>1. records[r] \in Record /\ records[r].version \in 1 .. remote[r] /\ v = records[r].version
      BY <1>2, RecordIsARecord DEF StartIntegrity, IInv, TypeOK, Stored, Versions
    <3>2. v \in 0 .. MaxVersion
      BY <3>1, RecordIsARecord, MaxVersionIsNat DEF Versions
    <3>3. QED
      BY <3>1, <3>2
  <2>2. pc[t] = "idle" /\ pc' = [pc EXCEPT ![t] = "queued"] /\ job' = [job EXCEPT ![t] = j]
    BY <1>2 DEF StartIntegrity, Goto
  <2> HIDE DEF v
  <2>3. j \in Job /\ j.kind = "integrity" /\ j.rid = r /\ j.read = v
    BY <2>1, NewJob
  <2> HIDE DEF j
  <2>4. j # NoJob
    BY <2>3, JobIsAJob
  <2>5. UNCHANGED dataVars /\ holder' = holder /\ LockTypeOK'
    BY <1>2 DEF StartIntegrity, lockVars, LockTypeOK, IInv, TypeOK
  <2>6. StageOf("queued", j)
    BY <1>2, <2>1, <2>3 DEF StageOf, StartIntegrity
  <2>7. \A u \in Threads \ {t} : pc[u] \in Inside => holder'[job[u].rid] = u
    BY <2>5 DEF IInv, TypeOK
  <2>8. "queued" \in Pcs \ Inside
    BY DEF Pcs, Inside
  <2>9. QED
    BY <2>2, <2>3, <2>4, <2>5, <2>6, <2>7, <2>8, QuietStep
<1>3. ASSUME NEW t \in Threads, NEW r \in Rids, StartImport(t, r) PROVE IInv'
  <2> DEFINE v == 0
             j == [kind |-> "import", rid |-> r, read |-> v, new |-> 0]
  <2>1. v \in 0 .. MaxVersion
    BY MaxVersionIsNat
  <2>2. pc[t] = "idle" /\ pc' = [pc EXCEPT ![t] = "import"] /\ job' = [job EXCEPT ![t] = j]
    BY <1>3 DEF StartImport, Goto
  <2> HIDE DEF v
  <2>3. j \in Job /\ j.kind = "import" /\ j.rid = r /\ j.read = v
    BY <2>1, NewJob
  <2> HIDE DEF j
  <2>4. j # NoJob
    BY <2>3, JobIsAJob
  <2>5. UNCHANGED dataVars /\ holder' = holder /\ LockTypeOK'
    BY <1>3 DEF StartImport, lockVars, LockTypeOK, IInv, TypeOK
  <2>6. StageOf("import", j)
    BY <1>3, <2>1, <2>3 DEF StageOf, StartImport
  <2>7. \A u \in Threads \ {t} : pc[u] \in Inside => holder'[job[u].rid] = u
    BY <2>5 DEF IInv, TypeOK
  <2>8. "import" \in Pcs \ Inside
    BY DEF Pcs, Inside
  <2>9. QED
    BY <2>2, <2>3, <2>4, <2>5, <2>6, <2>7, <2>8, QuietStep
<1>4. ASSUME NEW t \in Threads, LockQueued(t) PROVE IInv'
  <2>1. PICK p \in {"lock"} : pc[t] \in {"queued"} /\ pc' = [pc EXCEPT ![t] = p]
    BY <1>4 DEF LockQueued, Goto
  <2>2. job[t] \in Job /\ job[t] # NoJob /\ job[t].rid \in Rids /\ StageOf(pc[t], job[t])
    BY <2>1, AtWork
  <2>3. job' = job /\ UNCHANGED dataVars /\ LockTypeOK'
    BY <1>4, <2>2 DEF LockQueued, Request, lockVars, LockTypeOK, IInv, TypeOK
  <2>4. job' = [job EXCEPT ![t] = job[t]]
    BY <2>3 DEF IInv, TypeOK
  <2>5. holder' = holder
    BY <1>4 DEF LockQueued, Request, lockVars
  <2>6. p \in Inside => holder'[job[t].rid] = t
    BY <2>1, <2>5 DEF IInv, TypeOK, Inside
  <2>7. \A u \in Threads \ {t} : pc[u] \in Inside => holder'[job[u].rid] = u
    BY <2>5 DEF IInv, TypeOK
  <2>8. StageOf(p, job[t])
    BY <2>1, <2>2 DEF StageOf
  <2>9. p \in Pcs \ {"idle"} /\ pc[t] # "mark"
    BY <2>1 DEF Pcs, Inside
  <2>10. QED
    BY <2>3, <2>1, <2>2, <2>4, <2>6, <2>7, <2>8, <2>9, QuietStep
<1>5. ASSUME NEW t \in Threads, Acquire(t) PROVE IInv'
  <2>1. PICK p \in {"find", "repair"} : pc[t] \in {"lock"} /\ pc' = [pc EXCEPT ![t] = p]
    BY <1>5 DEF Acquire, Goto
  <2>2. job[t] \in Job /\ job[t] # NoJob /\ job[t].rid \in Rids /\ StageOf(pc[t], job[t])
    BY <2>1, AtWork
  <2>3. job' = job /\ UNCHANGED dataVars /\ LockTypeOK'
    BY <1>5, <2>2 DEF Acquire, Grant, lockVars, LockTypeOK, IInv, TypeOK
  <2>4. job' = [job EXCEPT ![t] = job[t]]
    BY <2>3 DEF IInv, TypeOK
  <2>5. holder[job[t].rid] = None /\ holder' = [holder EXCEPT ![job[t].rid] = t]
    BY <1>5 DEF Acquire, Grant
  <2>6. p \in Inside => holder'[job[t].rid] = t
    BY <2>2, <2>5 DEF IInv, TypeOK, LockTypeOK
  <2>7. \A u \in Threads \ {t} : pc[u] \in Inside => holder'[job[u].rid] = u
    BY <2>5, NoneIsNoThread DEF IInv, TypeOK, LockTypeOK
  <2>8. StageOf(p, job[t])
    <3>1. p = "repair" => job[t].kind = "integrity"
      BY <1>5, <2>1 DEF Acquire, Goto, IInv, TypeOK
    <3>2. QED
      BY <2>1, <2>2, <3>1 DEF StageOf
  <2>9. p \in Pcs \ {"idle"} /\ pc[t] # "mark"
    BY <2>1 DEF Pcs, Inside
  <2>10. QED
    BY <2>3, <2>1, <2>2, <2>4, <2>6, <2>7, <2>8, <2>9, QuietStep
<1>6. ASSUME NEW t \in Threads, FindRecord(t), records[job[t].rid] = NoRecord PROVE IInv'
  <2>1. PICK p \in {"unlock"} : pc[t] \in {"find"} /\ pc' = [pc EXCEPT ![t] = p]
    BY <1>6 DEF FindRecord, Goto
  <2>2. job[t] \in Job /\ job[t] # NoJob /\ job[t].rid \in Rids /\ StageOf(pc[t], job[t])
    BY <2>1, AtWork
  <2>3. job' = job /\ UNCHANGED dataVars /\ LockTypeOK'
    BY <1>6, <2>2 DEF FindRecord, lockVars, LockTypeOK, IInv, TypeOK
  <2>4. job' = [job EXCEPT ![t] = job[t]]
    BY <2>3 DEF IInv, TypeOK
  <2>5. holder' = holder
    BY <1>6 DEF FindRecord, lockVars
  <2>6. p \in Inside => holder'[job[t].rid] = t
    BY <2>1, <2>5 DEF IInv, TypeOK, Inside
  <2>7. \A u \in Threads \ {t} : pc[u] \in Inside => holder'[job[u].rid] = u
    BY <2>5 DEF IInv, TypeOK
  <2>8. StageOf(p, job[t])
    BY <1>6, <2>1, <2>2 DEF StageOf, FindRecord
  <2>9. p \in Pcs \ {"idle"} /\ pc[t] # "mark"
    BY <2>1 DEF Pcs, Inside
  <2>10. QED
    BY <2>3, <2>1, <2>2, <2>4, <2>6, <2>7, <2>8, <2>9, QuietStep
<1>7. ASSUME NEW t \in Threads, FetchMetadata(t) PROVE IInv'
  <2>1. PICK p \in {"fetch all", "unchanged"} : pc[t] \in {"fetch"} /\ pc' = [pc EXCEPT ![t] = p]
    BY <1>7 DEF FetchMetadata, Goto
  <2>2. job[t] \in Job /\ job[t] # NoJob /\ job[t].rid \in Rids /\ StageOf(pc[t], job[t])
    BY <2>1, AtWork
  <2>3. job' = job /\ UNCHANGED dataVars /\ LockTypeOK'
    BY <1>7, <2>2 DEF FetchMetadata, lockVars, LockTypeOK, IInv, TypeOK
  <2>4. job' = [job EXCEPT ![t] = job[t]]
    BY <2>3 DEF IInv, TypeOK
  <2>5. holder' = holder
    BY <1>7 DEF FetchMetadata, lockVars
  <2>6. p \in Inside => holder'[job[t].rid] = t
    BY <2>1, <2>5 DEF IInv, TypeOK, Inside
  <2>7. \A u \in Threads \ {t} : pc[u] \in Inside => holder'[job[u].rid] = u
    BY <2>5 DEF IInv, TypeOK
  <2>8. StageOf(p, job[t])
    BY <2>1, <2>2 DEF StageOf
  <2>9. p \in Pcs \ {"idle"} /\ pc[t] # "mark"
    BY <2>1 DEF Pcs, Inside
  <2>10. QED
    BY <2>3, <2>1, <2>2, <2>4, <2>6, <2>7, <2>8, <2>9, QuietStep
<1>8. ASSUME NEW t \in Threads, StepFails(t) PROVE IInv'
  <2>1. PICK p \in {"failed"} : pc[t] \in {"fetch", "fetch all", "save"} /\ pc' = [pc EXCEPT ![t] = p]
    BY <1>8 DEF StepFails, Goto
  <2>2. job[t] \in Job /\ job[t] # NoJob /\ job[t].rid \in Rids /\ StageOf(pc[t], job[t])
    BY <2>1, AtWork
  <2>3. job' = job /\ UNCHANGED dataVars /\ LockTypeOK'
    BY <1>8, <2>2 DEF StepFails, lockVars, LockTypeOK, IInv, TypeOK
  <2>4. job' = [job EXCEPT ![t] = job[t]]
    BY <2>3 DEF IInv, TypeOK
  <2>5. holder' = holder
    BY <1>8 DEF StepFails, lockVars
  <2>6. p \in Inside => holder'[job[t].rid] = t
    BY <2>1, <2>5 DEF IInv, TypeOK, Inside
  <2>7. \A u \in Threads \ {t} : pc[u] \in Inside => holder'[job[u].rid] = u
    BY <2>5 DEF IInv, TypeOK
  <2>8. StageOf(p, job[t])
    BY <2>1, <2>2 DEF StageOf
  <2>9. p \in Pcs \ {"idle"} /\ pc[t] # "mark"
    BY <2>1 DEF Pcs, Inside
  <2>10. QED
    BY <2>3, <2>1, <2>2, <2>4, <2>6, <2>7, <2>8, <2>9, QuietStep
<1>9. ASSUME NEW t \in Threads, NothingRepaired(t) PROVE IInv'
  <2>1. PICK p \in {"unlock"} : pc[t] \in {"repair"} /\ pc' = [pc EXCEPT ![t] = p]
    BY <1>9 DEF NothingRepaired, Goto
  <2>2. job[t] \in Job /\ job[t] # NoJob /\ job[t].rid \in Rids /\ StageOf(pc[t], job[t])
    BY <2>1, AtWork
  <2>3. job' = job /\ UNCHANGED dataVars /\ LockTypeOK'
    BY <1>9, <2>2 DEF NothingRepaired, lockVars, LockTypeOK, IInv, TypeOK
  <2>4. job' = [job EXCEPT ![t] = job[t]]
    BY <2>3 DEF IInv, TypeOK
  <2>5. holder' = holder
    BY <1>9 DEF NothingRepaired, lockVars
  <2>6. p \in Inside => holder'[job[t].rid] = t
    BY <2>1, <2>5 DEF IInv, TypeOK, Inside
  <2>7. \A u \in Threads \ {t} : pc[u] \in Inside => holder'[job[u].rid] = u
    BY <2>5 DEF IInv, TypeOK
  <2>8. StageOf(p, job[t])
    BY <2>1, <2>2 DEF StageOf
  <2>9. p \in Pcs \ {"idle"} /\ pc[t] # "mark"
    BY <2>1 DEF Pcs, Inside
  <2>10. QED
    BY <2>3, <2>1, <2>2, <2>4, <2>6, <2>7, <2>8, <2>9, QuietStep
<1>10. ASSUME NEW t \in Threads, WriteFails(t) PROVE IInv'
  <2>1. PICK p \in {"unlock"} : pc[t] \in {"write"} /\ pc' = [pc EXCEPT ![t] = p]
    BY <1>10 DEF WriteFails, Goto
  <2>2. job[t] \in Job /\ job[t] # NoJob /\ job[t].rid \in Rids /\ StageOf(pc[t], job[t])
    BY <2>1, AtWork
  <2>3. job' = job /\ UNCHANGED dataVars /\ LockTypeOK'
    BY <1>10, <2>2 DEF WriteFails, lockVars, LockTypeOK, IInv, TypeOK
  <2>4. job' = [job EXCEPT ![t] = job[t]]
    BY <2>3 DEF IInv, TypeOK
  <2>5. holder' = holder
    BY <1>10 DEF WriteFails, lockVars
  <2>6. p \in Inside => holder'[job[t].rid] = t
    BY <2>1, <2>5 DEF IInv, TypeOK, Inside
  <2>7. \A u \in Threads \ {t} : pc[u] \in Inside => holder'[job[u].rid] = u
    BY <2>5 DEF IInv, TypeOK
  <2>8. StageOf(p, job[t])
    BY <2>1, <2>2 DEF StageOf
  <2>9. p \in Pcs \ {"idle"} /\ pc[t] # "mark"
    BY <2>1 DEF Pcs, Inside
  <2>10. QED
    BY <2>3, <2>1, <2>2, <2>4, <2>6, <2>7, <2>8, <2>9, QuietStep
<1>11. ASSUME NEW t \in Threads, FindRecord(t), records[job[t].rid] # NoRecord PROVE IInv'
  <2> DEFINE v == records[job[t].rid].version
             j == [job[t] EXCEPT !.read = v]
  <2>1. PICK p \in {"fetch", "write"} : pc[t] = "find" /\ pc' = [pc EXCEPT ![t] = p]
    BY <1>11 DEF FindRecord, Goto
  <2>2. /\ job[t] \in Job /\ job[t].rid \in Rids /\ remote[job[t].rid] \in Versions
        /\ records[job[t].rid] \in Record \cup {NoRecord}
        /\ StageOf(pc[t], job[t]) /\ Stored(job[t].rid)
    BY <2>1, AtWork
  <2>3. v \in 0 .. MaxVersion
    BY <1>11, <2>2, RecordIsARecord, MaxVersionIsNat DEF Versions
  <2>a. job' = [job EXCEPT ![t] = j]
    BY <1>11 DEF FindRecord
  <2> HIDE DEF v
  <2>4. j \in Job /\ j.rid = job[t].rid /\ j.read = v
    BY <2>2, <2>3, JobFields
  <2> HIDE DEF j
  <2>5. j # NoJob
    BY <2>4, JobIsAJob
  <2>6. UNCHANGED dataVars /\ holder' = holder /\ LockTypeOK'
    BY <1>11 DEF FindRecord, lockVars, LockTypeOK, IInv, TypeOK
  <2>7. StageOf(p, j)
    BY <1>11, <2>1, <2>2, <2>4 DEF StageOf, FindRecord
  <2>8. p \in Inside => holder'[j.rid] = t
    BY <2>1, <2>4, <2>6 DEF IInv, TypeOK, Inside
  <2>9. \A u \in Threads \ {t} : pc[u] \in Inside => holder'[job[u].rid] = u
    BY <2>6 DEF IInv, TypeOK
  <2>10. p \in Pcs \ {"idle"} /\ pc[t] # "mark"
    BY <2>1 DEF Pcs, Inside
  <2>11. QED
    BY <2>1, <2>4, <2>5, <2>6, <2>7, <2>8, <2>9, <2>10, <2>a, QuietStep
<1>12. ASSUME NEW t \in Threads, FetchAll(t) PROVE IInv'
  <2> DEFINE v == remote[job[t].rid]
             j == [job[t] EXCEPT !.new = v]
  <2>1. PICK p \in {"save"} : pc[t] = "fetch all" /\ pc' = [pc EXCEPT ![t] = p]
    BY <1>12 DEF FetchAll, Goto
  <2>2. /\ job[t] \in Job /\ job[t].rid \in Rids /\ remote[job[t].rid] \in Versions
        /\ records[job[t].rid] \in Record \cup {NoRecord}
        /\ StageOf(pc[t], job[t]) /\ Stored(job[t].rid)
    BY <2>1, AtWork
  <2>3. v \in 0 .. MaxVersion
    BY <2>2, MaxVersionIsNat DEF Versions
  <2>a. job' = [job EXCEPT ![t] = j]
    BY <1>12 DEF FetchAll
  <2> HIDE DEF v
  <2>4. j \in Job /\ j.rid = job[t].rid /\ j.new = v
    BY <2>2, <2>3, JobFields
  <2> HIDE DEF j
  <2>5. j # NoJob
    BY <2>4, JobIsAJob
  <2>6. UNCHANGED dataVars /\ holder' = holder /\ LockTypeOK'
    BY <1>12 DEF FetchAll, lockVars, LockTypeOK, IInv, TypeOK
  <2>7. StageOf(p, j)
    <3>1. v \in 1 .. remote[j.rid]
      BY <2>2, <2>4, MaxVersionIsNat DEF Versions, v
    <3>2. records[j.rid] # NoRecord => records[j.rid].version <= v
      BY <2>2, <2>4 DEF Stored, v
    <3>3. "save" = "save" => records[j.rid] # NoRecord
      BY <2>1, <2>2, <2>4 DEF StageOf
    <3>4. QED
      BY <2>1, <2>4, <3>1, <3>2, <3>3 DEF StageOf
  <2>8. p \in Inside => holder'[j.rid] = t
    BY <2>1, <2>4, <2>6 DEF IInv, TypeOK, Inside
  <2>9. \A u \in Threads \ {t} : pc[u] \in Inside => holder'[job[u].rid] = u
    BY <2>6 DEF IInv, TypeOK
  <2>10. p \in Pcs \ {"idle"} /\ pc[t] # "mark"
    BY <2>1 DEF Pcs, Inside
  <2>11. QED
    BY <2>1, <2>4, <2>5, <2>6, <2>7, <2>8, <2>9, <2>10, <2>a, QuietStep
<1>13. ASSUME NEW t \in Threads, ImportFetch(t) PROVE IInv'
  <2> DEFINE v == remote[job[t].rid]
             j == [job[t] EXCEPT !.new = v]
  <2>1. PICK p \in {"insert"} : pc[t] = "import" /\ pc' = [pc EXCEPT ![t] = p]
    BY <1>13 DEF ImportFetch, Goto
  <2>2. /\ job[t] \in Job /\ job[t].rid \in Rids /\ remote[job[t].rid] \in Versions
        /\ records[job[t].rid] \in Record \cup {NoRecord}
        /\ StageOf(pc[t], job[t]) /\ Stored(job[t].rid)
    BY <2>1, AtWork
  <2>3. v \in 0 .. MaxVersion
    BY <2>2, MaxVersionIsNat DEF Versions
  <2>a. job' = [job EXCEPT ![t] = j]
    BY <1>13 DEF ImportFetch
  <2> HIDE DEF v
  <2>4. j \in Job /\ j.rid = job[t].rid /\ j.new = v
    BY <2>2, <2>3, JobFields
  <2> HIDE DEF j
  <2>5. j # NoJob
    BY <2>4, JobIsAJob
  <2>6. UNCHANGED dataVars /\ holder' = holder /\ LockTypeOK'
    BY <1>13 DEF ImportFetch, lockVars, LockTypeOK, IInv, TypeOK
  <2>7. StageOf(p, j)
    <3>1. v \in 1 .. remote[j.rid]
      BY <2>2, <2>4, MaxVersionIsNat DEF Versions, v
    <3>2. records[j.rid] # NoRecord => records[j.rid].version <= v
      BY <2>2, <2>4 DEF Stored, v
    <3>3. "insert" = "save" => records[j.rid] # NoRecord
      BY <2>1, <2>2, <2>4 DEF StageOf
    <3>4. QED
      BY <2>1, <2>4, <3>1, <3>2, <3>3 DEF StageOf
  <2>8. p \in Inside => holder'[j.rid] = t
    BY <2>1, <2>4, <2>6 DEF IInv, TypeOK, Inside
  <2>9. \A u \in Threads \ {t} : pc[u] \in Inside => holder'[job[u].rid] = u
    BY <2>6 DEF IInv, TypeOK
  <2>10. p \in Pcs \ {"idle"} /\ pc[t] # "mark"
    BY <2>1 DEF Pcs, Inside
  <2>11. QED
    BY <2>1, <2>4, <2>5, <2>6, <2>7, <2>8, <2>9, <2>10, <2>a, QuietStep
<1>14. ASSUME NEW t \in Threads, ImportFails(t) PROVE IInv'
  <2>1. pc[t] \in {"import", "insert"} /\ pc' = [pc EXCEPT ![t] = "idle"] /\ job' = [job EXCEPT ![t] = NoJob]
    BY <1>14 DEF ImportFails, Goto
  <2>2. UNCHANGED dataVars /\ holder' = holder /\ LockTypeOK'
    BY <1>14 DEF ImportFails, lockVars, LockTypeOK, IInv, TypeOK
  <2>3. \A u \in Threads \ {t} : pc[u] \in Inside => holder'[job[u].rid] = u
    BY <2>2 DEF IInv, TypeOK
  <2>4. StageOf("idle", NoJob)
    BY DEF StageOf
  <2>5. "idle" \in Pcs \ Inside
    BY DEF Pcs, Inside
  <2>6. QED
    BY <2>1, <2>2, <2>3, <2>4, <2>5, QuietStep
<1>15. ASSUME NEW t \in Threads, SaveCard(t) PROVE IInv'
  <2> DEFINE r == job[t].rid
  <2>1. pc[t] = "save" /\ pc' = [pc EXCEPT ![t] = "unlock"]
    BY <1>15 DEF SaveCard, Goto
  <2>2. /\ job[t] \in Job /\ job[t] # NoJob /\ r \in Rids /\ remote[r] \in Versions
        /\ job[t].read \in 0 .. MaxVersion /\ records[r] \in Record \cup {NoRecord}
        /\ files[r] \in 0 .. MaxVersion /\ unmarked[r] \in BOOLEAN /\ intruded[r] \in BOOLEAN
        /\ StageOf(pc[t], job[t]) /\ Stored(r)
    BY <2>1, AtWork
  <2>3. LockTypeOK'
    BY <1>15, <2>2 DEF SaveCard, lockVars, LockTypeOK, IInv, TypeOK
  <2>4. \A u \in Threads \ {t} : pc[u] \in Inside => holder'[job[u].rid] = u
    BY <1>15 DEF SaveCard, lockVars, IInv, TypeOK
  <2>5. job' = [job EXCEPT ![t] = job[t]] /\ holder'[job[t].rid] = t
    BY <1>15, <2>1 DEF SaveCard, lockVars, IInv, TypeOK, Inside
  <2>6. "unlock" \in Pcs /\ "save" \in Inside /\ "unlock" # "idle"
    BY DEF Pcs, Inside
  <2> DEFINE rec == Upsert(records[r], job[t].new)
  <2>7. job[t].new \in 1 .. remote[r]
    BY <2>1, <2>2 DEF StageOf
  <2>8. /\ rec \in Record /\ rec # NoRecord /\ rec.version <= remote[r] /\ rec.favorite = wanted[r]
        /\ rec.exported = files[r] \/ (records[r] # NoRecord /\ rec.exported = records[r].exported)
    BY <2>2, <2>7, SavedCard
  <2>9. records' = [records EXCEPT ![r] = rec]
    BY <1>15 DEF SaveCard
  <2> HIDE DEF rec
  <2>10. /\ files' = [files EXCEPT ![r] = files[r]] /\ unmarked' = [unmarked EXCEPT ![r] = unmarked[r]]
         /\ intruded' = [intruded EXCEPT ![r] = intruded[r]] /\ UNCHANGED <<remote, wanted>>
    BY <1>15 DEF SaveCard, IInv, TypeOK
  <2>11. Saving(t, "unlock", job[t], r, rec, files[r], unmarked[r], intruded[r])
    BY <2>1, <2>2, <2>3, <2>4, <2>5, <2>6, <2>8, <2>9, <2>10 DEF Saving
  <2>12. QED
    BY <2>11, SavingStep
<1>16. ASSUME NEW t \in Threads, Repair(t) PROVE IInv'
  <2> DEFINE r == job[t].rid
  <2>1. pc[t] = "repair" /\ pc' = [pc EXCEPT ![t] = "unlock"]
    BY <1>16 DEF Repair, Goto
  <2>2. /\ job[t] \in Job /\ job[t] # NoJob /\ r \in Rids /\ remote[r] \in Versions
        /\ job[t].read \in 0 .. MaxVersion /\ records[r] \in Record \cup {NoRecord}
        /\ files[r] \in 0 .. MaxVersion /\ unmarked[r] \in BOOLEAN /\ intruded[r] \in BOOLEAN
        /\ StageOf(pc[t], job[t]) /\ Stored(r)
    BY <2>1, AtWork
  <2>3. LockTypeOK'
    BY <1>16, <2>2 DEF Repair, lockVars, LockTypeOK, IInv, TypeOK
  <2>4. \A u \in Threads \ {t} : pc[u] \in Inside => holder'[job[u].rid] = u
    BY <1>16 DEF Repair, lockVars, IInv, TypeOK
  <2>5. job' = [job EXCEPT ![t] = job[t]] /\ holder'[job[t].rid] = t
    BY <1>16, <2>1 DEF Repair, lockVars, IInv, TypeOK, Inside
  <2>6. "unlock" \in Pcs /\ "repair" \in Inside /\ "unlock" # "idle"
    BY DEF Pcs, Inside
  <2> DEFINE rec == Upsert(records[r], job[t].read)
  <2>7. job[t].read \in 1 .. remote[r]
    BY <2>1, <2>2 DEF StageOf
  <2>8. /\ rec \in Record /\ rec # NoRecord /\ rec.version <= remote[r] /\ rec.favorite = wanted[r]
        /\ rec.exported = files[r] \/ (records[r] # NoRecord /\ rec.exported = records[r].exported)
    BY <2>2, <2>7, SavedCard
  <2>9. records' = [records EXCEPT ![r] = rec]
    BY <1>16 DEF Repair
  <2> HIDE DEF rec
  <2>10. /\ files' = [files EXCEPT ![r] = files[r]] /\ unmarked' = [unmarked EXCEPT ![r] = unmarked[r]]
         /\ intruded' = [intruded EXCEPT ![r] = intruded[r]] /\ UNCHANGED <<remote, wanted>>
    BY <1>16 DEF Repair, IInv, TypeOK
  <2>11. Saving(t, "unlock", job[t], r, rec, files[r], unmarked[r], intruded[r])
    BY <2>1, <2>2, <2>3, <2>4, <2>5, <2>6, <2>8, <2>9, <2>10 DEF Saving
  <2>12. QED
    BY <2>11, SavingStep
<1>17. ASSUME NEW t \in Threads, ImportSave(t) PROVE IInv'
  <2> DEFINE r == job[t].rid
  <2>1. pc[t] = "insert" /\ pc' = [pc EXCEPT ![t] = "idle"]
    BY <1>17 DEF ImportSave, Goto
  <2>2. /\ job[t] \in Job /\ job[t] # NoJob /\ r \in Rids /\ remote[r] \in Versions
        /\ job[t].read \in 0 .. MaxVersion /\ records[r] \in Record \cup {NoRecord}
        /\ files[r] \in 0 .. MaxVersion /\ unmarked[r] \in BOOLEAN /\ intruded[r] \in BOOLEAN
        /\ StageOf(pc[t], job[t]) /\ Stored(r)
    BY <2>1, AtWork
  <2>3. LockTypeOK'
    BY <1>17, <2>2 DEF ImportSave, lockVars, LockTypeOK, IInv, TypeOK
  <2>4. \A u \in Threads \ {t} : pc[u] \in Inside => holder'[job[u].rid] = u
    BY <1>17 DEF ImportSave, lockVars, IInv, TypeOK
  <2>5. job' = [job EXCEPT ![t] = NoJob]
    BY <1>17 DEF ImportSave
  <2>6. "idle" \in Pcs /\ "unlock" \in Inside /\ "idle" \notin Inside
    BY DEF Pcs, Inside
  <2> DEFINE rec == Upsert(records[r], job[t].new)
             i == holder[r] # None
  <2>7. job[t].new \in 1 .. remote[r]
    BY <2>1, <2>2 DEF StageOf
  <2>8. /\ rec \in Record /\ rec # NoRecord /\ rec.version <= remote[r] /\ rec.favorite = wanted[r]
        /\ rec.exported = files[r] \/ (records[r] # NoRecord /\ rec.exported = records[r].exported)
    BY <2>2, <2>7, SavedCard
  <2>9. records' = [records EXCEPT ![r] = rec]
    BY <1>17 DEF ImportSave
  <2> HIDE DEF rec
  <2>10. /\ files' = [files EXCEPT ![r] = files[r]] /\ unmarked' = [unmarked EXCEPT ![r] = unmarked[r]]
         /\ UNCHANGED <<remote, wanted>>
    BY <1>17 DEF ImportSave, IInv, TypeOK
  <2>11. i \in BOOLEAN /\ intruded' = [intruded EXCEPT ![r] = i]
    BY <1>17 DEF ImportSave
  <2>12. holder[r] # None => i
    OBVIOUS
  <2> HIDE DEF i
  <2>13. Saving(t, "idle", NoJob, r, rec, files[r], unmarked[r], i)
    BY <2>1, <2>2, <2>3, <2>4, <2>5, <2>6, <2>8, <2>9, <2>10, <2>11, <2>12 DEF Saving
  <2>14. QED
    BY <2>13, SavingStep
<1>18. ASSUME NEW t \in Threads, Unlock(t) PROVE IInv'
  <2> DEFINE r == job[t].rid
  <2>1. pc[t] = "unlock" /\ pc' = [pc EXCEPT ![t] = "idle"]
    BY <1>18 DEF Unlock, Goto
  <2>2. /\ job[t] \in Job /\ job[t] # NoJob /\ r \in Rids /\ remote[r] \in Versions
        /\ job[t].read \in 0 .. MaxVersion /\ records[r] \in Record \cup {NoRecord}
        /\ files[r] \in 0 .. MaxVersion /\ unmarked[r] \in BOOLEAN /\ intruded[r] \in BOOLEAN
        /\ StageOf(pc[t], job[t]) /\ Stored(r)
    BY <2>1, AtWork
  <2>3. LockTypeOK'
    BY <1>18, <2>2 DEF Unlock, Release, lockVars, LockTypeOK, IInv, TypeOK
  <2>4. \A u \in Threads \ {t} : pc[u] \in Inside => holder'[job[u].rid] = u
    BY <1>18, <2>2 DEF Unlock, Release, LockTypeOK, IInv, TypeOK
  <2>5. job' = [job EXCEPT ![t] = NoJob]
    BY <1>18 DEF Unlock
  <2>6. "idle" \in Pcs /\ "unlock" \in Inside /\ "idle" \notin Inside
    BY DEF Pcs, Inside
  <2> DEFINE rec == records[r]
             f == files[r]
             um == unmarked[r]
  <2>7. /\ records' = [records EXCEPT ![r] = rec] /\ files' = [files EXCEPT ![r] = f]
        /\ unmarked' = [unmarked EXCEPT ![r] = um]
        /\ intruded' = [intruded EXCEPT ![r] = FALSE] /\ UNCHANGED <<remote, wanted>>
    BY <1>18 DEF Unlock, IInv, TypeOK
  <2>8. /\ rec \in Record \cup {NoRecord} /\ f \in 0 .. MaxVersion /\ um \in BOOLEAN
        /\ IF rec = NoRecord THEN f = 0 /\ ~wanted[r] ELSE rec.version <= remote[r] /\ rec.favorite = wanted[r]
        /\ rec = records[r] /\ f = files[r] /\ um = unmarked[r]
    BY <2>2 DEF Stored
  <2> HIDE DEF rec, f, um
  <2>a. /\ records[r] # NoRecord => rec # NoRecord
        /\ IF rec = NoRecord THEN f = 0 /\ ~wanted[r] ELSE rec.version <= remote[r] /\ rec.favorite = wanted[r]
    BY <2>1, <2>8
  <2>b. rec # NoRecord =>
          \/ rec.exported = f
          \/ um
          \/ "idle" = "mark" /\ NoJob.rid = r
          \/ pc[t] # "mark" /\ records[r] # NoRecord
               /\ rec.exported = records[r].exported /\ f = files[r] /\ um = unmarked[r]
    BY <2>1, <2>8
  <2>9. Saving(t, "idle", NoJob, r, rec, f, um, FALSE)
    BY <2>1, <2>2, <2>3, <2>4, <2>5, <2>6, <2>7, <2>8, <2>a, <2>b DEF Saving
  <2>10. QED
    BY <2>9, SavingStep
<1>19. ASSUME NEW t \in Threads, WriteCard(t) PROVE IInv'
  <2> DEFINE r == job[t].rid
  <2>1. pc[t] = "write" /\ pc' = [pc EXCEPT ![t] = "mark"]
    BY <1>19 DEF WriteCard, Goto
  <2>2. /\ job[t] \in Job /\ job[t] # NoJob /\ r \in Rids /\ remote[r] \in Versions
        /\ job[t].read \in 0 .. MaxVersion /\ records[r] \in Record \cup {NoRecord}
        /\ files[r] \in 0 .. MaxVersion /\ unmarked[r] \in BOOLEAN /\ intruded[r] \in BOOLEAN
        /\ StageOf(pc[t], job[t]) /\ Stored(r)
    BY <2>1, AtWork
  <2>3. LockTypeOK'
    BY <1>19, <2>2 DEF WriteCard, lockVars, LockTypeOK, IInv, TypeOK
  <2>4. \A u \in Threads \ {t} : pc[u] \in Inside => holder'[job[u].rid] = u
    BY <1>19 DEF WriteCard, lockVars, IInv, TypeOK
  <2>5. job' = [job EXCEPT ![t] = job[t]] /\ holder'[job[t].rid] = t
    BY <1>19, <2>1 DEF WriteCard, lockVars, IInv, TypeOK, Inside
  <2>6. "mark" \in Pcs /\ "write" \in Inside /\ "mark" # "idle"
    BY DEF Pcs, Inside
  <2> DEFINE rec == records[r]
             f == job[t].read
             um == unmarked[r]
             i == intruded[r]
  <2>7. /\ records' = [records EXCEPT ![r] = rec] /\ files' = [files EXCEPT ![r] = f]
        /\ unmarked' = [unmarked EXCEPT ![r] = um]
        /\ intruded' = [intruded EXCEPT ![r] = i] /\ UNCHANGED <<remote, wanted>>
    BY <1>19 DEF WriteCard, IInv, TypeOK
  <2>8. rec # NoRecord
    BY <2>1, <2>2 DEF StageOf
  <2>9. /\ rec \in Record \cup {NoRecord} /\ f \in 0 .. MaxVersion /\ um \in BOOLEAN /\ i \in BOOLEAN
        /\ rec.version <= remote[r] /\ rec.favorite = wanted[r] /\ f = job[t].read
    BY <2>2, <2>8 DEF Stored
  <2> HIDE DEF rec, f, um, i
  <2>a. /\ records[r] # NoRecord => rec # NoRecord
        /\ IF rec = NoRecord THEN f = 0 /\ ~wanted[r] ELSE rec.version <= remote[r] /\ rec.favorite = wanted[r]
    BY <2>1, <2>2, <2>8, <2>9
  <2>b. rec # NoRecord =>
          \/ rec.exported = f
          \/ um
          \/ "mark" = "mark" /\ job[t].rid = r
          \/ pc[t] # "mark" /\ records[r] # NoRecord
               /\ rec.exported = records[r].exported /\ f = files[r] /\ um = unmarked[r]
    BY <2>1, <2>2, <2>8, <2>9
  <2>10. Saving(t, "mark", job[t], r, rec, f, um, i)
    BY <2>1, <2>2, <2>3, <2>4, <2>5, <2>6, <2>7, <2>8, <2>9, <2>a, <2>b DEF Saving
  <2>11. QED
    BY <2>10, SavingStep
<1>20. ASSUME NEW t \in Threads, MarkExported(t) PROVE IInv'
  <2> DEFINE r == job[t].rid
  <2>1. pc[t] = "mark" /\ pc' = [pc EXCEPT ![t] = "unlock"]
    BY <1>20 DEF MarkExported, Goto
  <2>2. /\ job[t] \in Job /\ job[t] # NoJob /\ r \in Rids /\ remote[r] \in Versions
        /\ job[t].read \in 0 .. MaxVersion /\ records[r] \in Record \cup {NoRecord}
        /\ files[r] \in 0 .. MaxVersion /\ unmarked[r] \in BOOLEAN /\ intruded[r] \in BOOLEAN
        /\ StageOf(pc[t], job[t]) /\ Stored(r)
    BY <2>1, AtWork
  <2>3. LockTypeOK'
    BY <1>20, <2>2 DEF MarkExported, lockVars, LockTypeOK, IInv, TypeOK
  <2>4. \A u \in Threads \ {t} : pc[u] \in Inside => holder'[job[u].rid] = u
    BY <1>20 DEF MarkExported, lockVars, IInv, TypeOK
  <2>5. job' = [job EXCEPT ![t] = job[t]] /\ holder'[job[t].rid] = t
    BY <1>20, <2>1 DEF MarkExported, lockVars, IInv, TypeOK, Inside
  <2>6. "unlock" \in Pcs /\ "mark" \in Inside /\ "unlock" # "idle"
    BY DEF Pcs, Inside
  <2>7. records[r] # NoRecord /\ records[r] \in Record /\ files[r] = job[t].read
    BY <2>1, <2>2 DEF StageOf
  <2>8. records[r].version <= remote[r] /\ records[r].favorite = wanted[r]
    BY <2>2, <2>7 DEF Stored
  <2> DEFINE f == files[r]
             i == intruded[r]
  <2>9. /\ files' = [files EXCEPT ![r] = f] /\ f \in 0 .. MaxVersion /\ f = files[r]
        /\ intruded' = [intruded EXCEPT ![r] = i] /\ i \in BOOLEAN /\ UNCHANGED <<remote, wanted>>
    BY <1>20, <2>2 DEF MarkExported, IInv, TypeOK
  <2> HIDE DEF f, i
  <2>10. CASE records' = [records EXCEPT ![r].exported = job[t].read] /\ unmarked' = [unmarked EXCEPT ![r] = FALSE]
    <3> DEFINE rec == [records[r] EXCEPT !.exported = job[t].read]
    <3>1. /\ rec \in Record /\ rec.version = records[r].version
          /\ rec.exported = job[t].read /\ rec.favorite = records[r].favorite
      BY <2>2, <2>7, ExportedField
    <3>2. records' = [records EXCEPT ![r] = rec]
      BY <2>10
    <3> HIDE DEF rec
    <3>3. rec # NoRecord
      BY <3>1, RecordIsARecord
    <3>a. /\ records[r] # NoRecord => rec # NoRecord
          /\ IF rec = NoRecord THEN f = 0 /\ ~wanted[r] ELSE rec.version <= remote[r] /\ rec.favorite = wanted[r]
      BY <2>7, <2>8, <2>9, <3>1, <3>3
    <3>b. rec # NoRecord =>
            \/ rec.exported = f
            \/ FALSE
            \/ "unlock" = "mark" /\ job[t].rid = r
            \/ pc[t] # "mark" /\ records[r] # NoRecord
                 /\ rec.exported = records[r].exported /\ f = files[r] /\ FALSE = unmarked[r]
      BY <2>7, <2>8, <2>9, <3>1, <3>3
    <3>4. Saving(t, "unlock", job[t], r, rec, f, FALSE, i)
      BY <2>1, <2>2, <2>3, <2>4, <2>5, <2>6, <2>7, <2>9, <2>10, <3>1, <3>2, <3>a, <3>b DEF Saving
    <3>5. QED
      BY <3>4, SavingStep
  <2>11. CASE unmarked' = [unmarked EXCEPT ![r] = TRUE] /\ UNCHANGED records
    <3> DEFINE rec == records[r]
    <3>1. records' = [records EXCEPT ![r] = rec]
      BY <2>11 DEF IInv, TypeOK
    <3>2. rec \in Record /\ rec # NoRecord /\ rec.version <= remote[r] /\ rec.favorite = wanted[r]
      BY <2>7, <2>8
    <3> HIDE DEF rec
    <3>a. /\ records[r] # NoRecord => rec # NoRecord
          /\ IF rec = NoRecord THEN f = 0 /\ ~wanted[r] ELSE rec.version <= remote[r] /\ rec.favorite = wanted[r]
      BY <3>2
    <3>b. rec # NoRecord =>
            \/ rec.exported = f
            \/ TRUE
            \/ "unlock" = "mark" /\ job[t].rid = r
            \/ pc[t] # "mark" /\ records[r] # NoRecord
                 /\ rec.exported = records[r].exported /\ f = files[r] /\ TRUE = unmarked[r]
      BY <3>2
    <3>3. Saving(t, "unlock", job[t], r, rec, f, TRUE, i)
      BY <2>1, <2>2, <2>3, <2>4, <2>5, <2>6, <2>9, <2>11, <3>1, <3>2, <3>a, <3>b DEF Saving
    <3>4. QED
      BY <3>3, SavingStep
  <2>12. QED
    BY <1>20, <2>10, <2>11 DEF MarkExported
<1>21. ASSUME NEW t \in Threads, NEW status \in {"unchanged", "failed"}, SetSyncStatus(t, status) PROVE IInv'
  <2> DEFINE r == job[t].rid
  <2>1. pc[t] = status /\ pc' = [pc EXCEPT ![t] = "unlock"]
    BY <1>21 DEF SetSyncStatus, Goto
  <2>2. /\ job[t] \in Job /\ job[t] # NoJob /\ r \in Rids /\ remote[r] \in Versions
        /\ job[t].read \in 0 .. MaxVersion /\ records[r] \in Record \cup {NoRecord}
        /\ files[r] \in 0 .. MaxVersion /\ unmarked[r] \in BOOLEAN /\ intruded[r] \in BOOLEAN
        /\ StageOf(pc[t], job[t]) /\ Stored(r)
    BY <2>1, AtWork
  <2>3. LockTypeOK'
    BY <1>21, <2>2 DEF SetSyncStatus, lockVars, LockTypeOK, IInv, TypeOK
  <2>4. \A u \in Threads \ {t} : pc[u] \in Inside => holder'[job[u].rid] = u
    BY <1>21 DEF SetSyncStatus, lockVars, IInv, TypeOK
  <2>5. job' = [job EXCEPT ![t] = job[t]] /\ holder'[job[t].rid] = t
    BY <1>21, <2>1 DEF SetSyncStatus, lockVars, IInv, TypeOK, Inside
  <2>6. "unlock" \in Pcs /\ status \in Inside /\ "unlock" # "idle"
    BY DEF Pcs, Inside
  <2>7. records[r] # NoRecord /\ records[r] \in Record
    BY <2>1, <2>2 DEF StageOf
  <2>8. records[r].version <= remote[r] /\ records[r].favorite = wanted[r]
    BY <2>2, <2>7 DEF Stored
  <2> DEFINE f == files[r]
             i == intruded[r]
             um == unmarked[r]
  <2>9. /\ files' = [files EXCEPT ![r] = f] /\ f \in 0 .. MaxVersion /\ f = files[r]
        /\ unmarked' = [unmarked EXCEPT ![r] = um] /\ um \in BOOLEAN /\ um = unmarked[r]
        /\ intruded' = [intruded EXCEPT ![r] = i] /\ i \in BOOLEAN /\ UNCHANGED <<remote, wanted>>
    BY <1>21, <2>2 DEF SetSyncStatus, IInv, TypeOK
  <2> HIDE DEF f, i, um
  <2>10. CASE records' = [records EXCEPT ![r].status = status]
    <3> DEFINE rec == [records[r] EXCEPT !.status = status]
    <3>1. /\ rec \in Record /\ rec.version = records[r].version
          /\ rec.exported = records[r].exported /\ rec.favorite = records[r].favorite
      BY <2>7, StatusField
    <3>2. records' = [records EXCEPT ![r] = rec]
      BY <2>10
    <3> HIDE DEF rec
    <3>3. rec # NoRecord
      BY <3>1, RecordIsARecord
    <3>a. /\ records[r] # NoRecord => rec # NoRecord
          /\ IF rec = NoRecord THEN f = 0 /\ ~wanted[r] ELSE rec.version <= remote[r] /\ rec.favorite = wanted[r]
      BY <2>1, <2>7, <2>8, <2>9, <3>1, <3>3
    <3>b. rec # NoRecord =>
            \/ rec.exported = f
            \/ um
            \/ "unlock" = "mark" /\ job[t].rid = r
            \/ pc[t] # "mark" /\ records[r] # NoRecord
                 /\ rec.exported = records[r].exported /\ f = files[r] /\ um = unmarked[r]
      BY <2>1, <2>7, <2>8, <2>9, <3>1, <3>3
    <3>4. Saving(t, "unlock", job[t], r, rec, f, um, i)
      BY <2>1, <2>2, <2>3, <2>4, <2>5, <2>6, <2>9, <3>1, <3>2, <3>a, <3>b DEF Saving
    <3>5. QED
      BY <3>4, SavingStep
  <2>11. CASE UNCHANGED records
    <3> DEFINE rec == records[r]
    <3>1. records' = [records EXCEPT ![r] = rec]
      BY <2>11 DEF IInv, TypeOK
    <3>2. /\ rec \in Record /\ rec # NoRecord /\ rec.version <= remote[r] /\ rec.favorite = wanted[r]
          /\ rec.exported = records[r].exported
      BY <2>7, <2>8
    <3> HIDE DEF rec
    <3>a. /\ records[r] # NoRecord => rec # NoRecord
          /\ IF rec = NoRecord THEN f = 0 /\ ~wanted[r] ELSE rec.version <= remote[r] /\ rec.favorite = wanted[r]
      BY <2>1, <2>7, <2>9, <3>2
    <3>b. rec # NoRecord =>
            \/ rec.exported = f
            \/ um
            \/ "unlock" = "mark" /\ job[t].rid = r
            \/ pc[t] # "mark" /\ records[r] # NoRecord
                 /\ rec.exported = records[r].exported /\ f = files[r] /\ um = unmarked[r]
      BY <2>1, <2>7, <2>9, <3>2
    <3>3. Saving(t, "unlock", job[t], r, rec, f, um, i)
      BY <2>1, <2>2, <2>3, <2>4, <2>5, <2>6, <2>9, <3>1, <3>2, <3>a, <3>b DEF Saving
    <3>4. QED
      BY <3>3, SavingStep
  <2>12. QED
    BY <1>21, <2>10, <2>11 DEF SetSyncStatus
<1>22. ASSUME NEW r \in Rids, ToggleFavorite(r) PROVE IInv'
  <2>1. records[r] \in Record /\ records[r].favorite = wanted[r] /\ wanted[r] \in BOOLEAN
    BY <1>22 DEF ToggleFavorite, IInv, TypeOK, Stored
  <2> DEFINE favorite == ~wanted[r]
  <2>2. favorite \in BOOLEAN
    OBVIOUS
  <2>3. records' = [records EXCEPT ![r].favorite = favorite] /\ wanted' = [wanted EXCEPT ![r] = favorite]
    BY <1>22, <2>1 DEF ToggleFavorite
  <2> HIDE DEF favorite
  <2>4. QED
    BY <1>22, <2>2, <2>3, FavoriteStep DEF ToggleFavorite
<1>23. ASSUME NEW r \in Rids, NEW favorite \in BOOLEAN, UpdateFavorites(r, favorite) PROVE IInv'
  BY <1>23, FavoriteStep DEF UpdateFavorites
<1>24. ASSUME NEW r \in Rids, Publish(r) PROVE IInv'
  <2>1. remote[r] \in Versions /\ remote' = [remote EXCEPT ![r] = remote[r] + 1] /\ remote[r] + 1 \in Versions
    BY <1>24, MaxVersionIsNat DEF Publish, IInv, TypeOK, Versions
  <2>2. UNCHANGED <<lockVars, records, files, wanted, unmarked, pc, job, intruded>>
    BY <1>24 DEF Publish
  <2>3. \A c \in Rids : remote[c] \in Nat /\ remote'[c] \in Nat /\ remote[c] <= remote'[c]
    BY <2>1, MaxVersionIsNat DEF IInv, TypeOK, Versions
  <2>4. TypeOK'
    <3>1. remote' \in [Rids -> Versions]
      BY <2>1 DEF IInv, TypeOK
    <3>2. QED
      BY <2>2, <3>1 DEF IInv, TypeOK, LockTypeOK, lockVars
  <2>5. ASSUME NEW t \in Threads PROVE Stage(t)'
    <3>1. pc'[t] = pc[t] /\ job'[t] = job[t] /\ StageOf(pc[t], job[t])
      BY <2>2 DEF IInv, Stage
    <3>2. CASE pc[t] = "idle"
      BY <3>1, <3>2 DEF Stage, StageOf
    <3>3. CASE pc[t] # "idle"
      <4>1. job[t].rid \in Rids
        BY <3>3, AtWork
      <4>2. \A v : v \in 1 .. remote[job[t].rid] => v \in 1 .. remote'[job[t].rid]
        BY <2>3, <4>1
      <4>3. QED
        BY <2>2, <3>1, <4>2 DEF Stage, StageOf
    <3>4. QED
      BY <3>2, <3>3
  <2>6. ASSUME NEW c \in Rids PROVE Stored(c)'
    <3>1. records[c] # NoRecord => records[c].version \in Nat
      BY RecordIsARecord, MaxVersionIsNat DEF IInv, TypeOK, Versions
    <3>2. QED
      BY <2>2, <2>3, <3>1 DEF IInv, Stored
  <2>7. ASSUME NEW c \in Rids PROVE Marked(c)'
    BY <2>2 DEF IInv, Marked
  <2>8. QED
    BY <2>4, <2>5, <2>6, <2>7 DEF IInv
<1>25. CASE UNCHANGED vars
  <2>1. UNCHANGED <<lockVars, records, remote, files, pc, job, wanted, unmarked, intruded>>
    BY <1>25 DEF vars, dataVars
  <2>2. TypeOK'
    BY <2>1 DEF IInv, TypeOK, LockTypeOK, lockVars
  <2>3. \A t \in Threads : Stage(t)'
    BY <2>1 DEF IInv, Stage, StageOf
  <2>4. \A r \in Rids : Stored(r)' /\ Marked(r)'
    BY <2>1 DEF IInv, Stored, Marked
  <2>5. QED
    BY <2>2, <2>3, <2>4 DEF IInv
<1>26. QED
  BY <1>1, <1>2, <1>3, <1>4, <1>5, <1>6, <1>7, <1>8, <1>9, <1>10, <1>11, <1>12, <1>13, <1>14, <1>15, <1>16, <1>17, <1>18, <1>19, <1>20, <1>21, <1>22, <1>23, <1>24, <1>25 DEF Next, WorkerStep

\* A step takes a card to an older version only as UpdatesMoveOn allows.
OnlyForward(r) == (records[r] # NoRecord /\ records'[r].version < records[r].version)
  => intruded[r] \/ \E t \in Threads : pc[t] \in {"repair", "insert"} /\ pc'[t] # pc[t] /\ job[t].rid = r

\* No step of any worker takes a card back but as OnlyForward allows.
LEMMA NextMovesOn ==
  ASSUME IInv, Next, NEW r \in Rids
  PROVE  OnlyForward(r)
<1>0. records[r] # NoRecord => records[r] \in Record /\ records[r].version \in Nat
  BY RecordIsARecord, MaxVersionIsNat DEF IInv, TypeOK, Versions
<1>1. ASSUME UNCHANGED records PROVE OnlyForward(r)
  BY <1>0, <1>1 DEF OnlyForward
<1>2. ASSUME NEW t \in Threads, SaveCard(t) PROVE OnlyForward(r)
  <2>1. pc[t] = "save" /\ records' = [records EXCEPT ![job[t].rid] = Upsert(records[job[t].rid], job[t].new)]
    BY <1>2 DEF SaveCard, Goto
  <2>2. job[t].new \in Versions /\ StageOf("save", job[t]) /\ job[t].rid \in Rids
    <3>1. StageOf("save", job[t]) /\ job[t].rid \in Rids /\ remote[job[t].rid] \in Versions
      BY <2>1, AtWork
    <3>2. job[t].new \in 1 .. remote[job[t].rid]
      BY <3>1 DEF StageOf
    <3>3. QED
      BY <3>1, <3>2, MaxVersionIsNat DEF Versions
  <2>3. CASE job[t].rid # r
    <3>1. records'[r] = records[r]
      BY <2>1, <2>3 DEF IInv, TypeOK
    <3>2. QED
      BY <1>0, <3>1 DEF OnlyForward
  <2>4. CASE job[t].rid = r
    <3>1. records'[r] = Upsert(records[r], job[t].new) /\ records[r] \in Record \cup {NoRecord}
      BY <2>1, <2>4 DEF IInv, TypeOK
    <3>2. records'[r].version = job[t].new
      <4>1. Upsert(records[r], job[t].new).version = job[t].new
        BY <2>2, <3>1, UpsertKeeps
      <4>2. QED
        BY <3>1, <4>1
    <3>3. intruded[r] \/ records[r].version <= job[t].new
      BY <2>2, <2>4 DEF StageOf
    <3>4. QED
      BY <1>0, <2>2, <3>2, <3>3, MaxVersionIsNat DEF OnlyForward, Versions
  <2>5. QED
    BY <2>3, <2>4
<1>3. ASSUME NEW t \in Threads, Repair(t) \/ ImportSave(t) PROVE OnlyForward(r)
  <2>1. pc[t] \in {"repair", "insert"} /\ pc'[t] # pc[t]
    BY <1>3 DEF Repair, ImportSave, Goto, IInv, TypeOK
  <2>2. PICK v : records' = [records EXCEPT ![job[t].rid] = v]
    BY <1>3 DEF Repair, ImportSave
  <2>3. job[t].rid # r => records'[r] = records[r]
    BY <2>2 DEF IInv, TypeOK
  <2>4. QED
    BY <1>0, <2>1, <2>3 DEF OnlyForward
<1>4. ASSUME NEW t \in Threads, NEW status \in {"unchanged", "failed"}, SetSyncStatus(t, status) PROVE OnlyForward(r)
  <2>1. CASE records' = [records EXCEPT ![job[t].rid].status = status]
    <3> DEFINE new == [records[r] EXCEPT !.status = status]
    <3>1. records[r] # NoRecord => new.version = records[r].version
      BY <1>0, StatusField
    <3>2. records'[r] = records[r] \/ records'[r] = new
      BY <2>1 DEF IInv, TypeOK
    <3> HIDE DEF new
    <3>3. QED
      BY <1>0, <3>1, <3>2 DEF OnlyForward
  <2>2. QED
    BY <1>1, <1>4, <2>1 DEF SetSyncStatus
<1>5. ASSUME NEW t \in Threads, MarkExported(t) PROVE OnlyForward(r)
  <2>1. CASE records' = [records EXCEPT ![job[t].rid].exported = job[t].read]
    <3>1. job[t].read \in 0 .. MaxVersion
      BY <1>5, AtWork DEF MarkExported, Goto
    <3> DEFINE new == [records[r] EXCEPT !.exported = job[t].read]
    <3>2. records[r] # NoRecord => new.version = records[r].version
      BY <1>0, <3>1, ExportedField
    <3>3. records'[r] = records[r] \/ records'[r] = new
      BY <2>1 DEF IInv, TypeOK
    <3> HIDE DEF new
    <3>4. QED
      BY <1>0, <3>2, <3>3 DEF OnlyForward
  <2>2. QED
    BY <1>1, <1>5, <2>1 DEF MarkExported
<1>6. ASSUME NEW c \in Rids, NEW favorite \in BOOLEAN, records' = [records EXCEPT ![c].favorite = favorite]
      PROVE  OnlyForward(r)
  <2> DEFINE new == [records[r] EXCEPT !.favorite = favorite]
  <2>1. records[r] # NoRecord => new.version = records[r].version
    BY <1>0, FavoriteField
  <2>2. records'[r] = records[r] \/ records'[r] = new
    BY <1>6 DEF IInv, TypeOK
  <2> HIDE DEF new
  <2>3. QED
    BY <1>0, <2>1, <2>2 DEF OnlyForward
<1>7. ASSUME NEW c \in Rids, ToggleFavorite(c) PROVE OnlyForward(r)
  <2>1. records[c].favorite \in BOOLEAN
    BY <1>7, RecordIsARecord DEF ToggleFavorite, IInv, TypeOK
  <2> DEFINE favorite == ~records[c].favorite
  <2>2. favorite \in BOOLEAN /\ records' = [records EXCEPT ![c].favorite = favorite]
    BY <1>7 DEF ToggleFavorite
  <2> HIDE DEF favorite
  <2>3. QED
    BY <1>6, <2>2
<1>8. ASSUME NEW c \in Rids, NEW favorite \in BOOLEAN, UpdateFavorites(c, favorite) PROVE OnlyForward(r)
  BY <1>6, <1>8 DEF UpdateFavorites
<1>9. QED
  <2>1. CASE \E t \in Threads : \/ \E c \in Rids : \/ StartItem(t, c, "update") \/ StartItem(t, c, "export")
                                                   \/ StartIntegrity(t, c) \/ StartImport(t, c)
                                \/ Acquire(t)
    BY <1>1, <2>1 DEF StartItem, StartIntegrity, StartImport, Acquire, dataVars
  <2>2. ASSUME NEW t \in Threads, WorkerStep(t) PROVE OnlyForward(r)
    <3>1. CASE \/ LockQueued(t) \/ FindRecord(t) \/ Unlock(t) \/ FetchMetadata(t) \/ FetchAll(t)
               \/ StepFails(t) \/ NothingRepaired(t) \/ WriteCard(t) \/ WriteFails(t)
               \/ ImportFetch(t) \/ ImportFails(t)
      BY <1>1, <3>1 DEF LockQueued, FindRecord, Unlock, FetchMetadata, FetchAll, StepFails,
        NothingRepaired, WriteCard, WriteFails, ImportFetch, ImportFails, dataVars
    <3>2. QED
      BY <1>2, <1>3, <1>4, <1>5, <2>2, <3>1 DEF WorkerStep
  <2>3. ASSUME NEW c \in Rids, Publish(c) PROVE OnlyForward(r)
    BY <1>1, <2>3 DEF Publish
  <2>4. QED
    BY <1>7, <1>8, <2>1, <2>2, <2>3 DEF Next

-----------------------------------------------------------------------------
(* The theorems                                                            *)

\* The invariant holds in every state.
LEMMA IInvHolds == Spec => []IInv
  BY InitIInv, NextIInv, PTL DEF Spec

\* Whatever the workers and the user do, records, jobs and locks are what
\* TypeOK says; a worker inside holds its item.
THEOREM TypeCorrect == Spec => []TypeOK
<1>1. IInv => TypeOK
  BY DEF IInv
<1>2. QED
  BY <1>1, IInvHolds, PTL

\* The version marked as exported is the one in the file, unless the export that
\* wrote it is about to mark it or could not (export_latest.go).
THEOREM ExportIsMarkedHolds == Spec => []ExportIsMarked
<1>1. IInv => ExportIsMarked
  BY DEF IInv, Marked, ExportIsMarked
<1>2. QED
  BY <1>1, IInvHolds, PTL

\* No update, repair or import loses a favorite that was set meanwhile
\* (favorite.go, and SaveRecord's conflict clause).
THEOREM FavoriteKeptHolds == Spec => []FavoriteKept
<1>1. IInv => FavoriteKept
  BY DEF IInv, Stored, FavoriteKept
<1>2. QED
  BY <1>1, IInvHolds, PTL

\* Whatever the workers do at the same time, a card goes back to an older version
\* only by a repair of a record read before, or by an import (sync_update.go,
\* sync_integrity.go, sync_import.go).
THEOREM UpdatesMoveOnHolds == Spec => UpdatesMoveOn
<1>1. IInv /\ [Next]_vars => [\A r \in Rids :
        (records[r] # NoRecord /\ records'[r].version < records[r].version)
          => intruded[r] \/ \E t \in Threads : pc[t] \in {"repair", "insert"} /\ pc'[t] # pc[t] /\ job[t].rid = r]_vars
  BY NextMovesOn DEF OnlyForward
<1>2. QED
  BY <1>1, IInvHolds, PTL DEF Spec, UpdatesMoveOn

=============================================================================
