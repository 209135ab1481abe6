---------------------------- MODULE DeviceProofs ----------------------------
(***************************************************************************)
(* Proofs about one device: for every directory of record ids, any number  *)
(* of failures and of runs of doctor, every set of results.                *)
(***************************************************************************)
EXTENDS Device, FiniteSetTheorems, TLAPS

-----------------------------------------------------------------------------
(* The inductive invariants.                                               *)

Record == [env : Results, created : Int, attempts : Int, next : Int]
Directory == [RecordIDs -> Record \cup {NoFile}]

\* Every file holds a result of its own record id.
Filed(f) == \A i \in RecordIDs : f[i] # NoFile => RecordIDOf(f[i].env) = i

Whole(f) == f \in Directory /\ Filed(f)

CallType ==
    [kind : {"none", "save", "mark", "dropped"}, id : RecordIDs \cup {Nil},
     rec : Record \cup {Nil}, synced : BOOLEAN,
     step : {"none", "write", "rename", "syncdir", "enforce"}]

\* A call has a record for its file, syncs the contents before the rename, and
\* only Save goes on to the limits.
CallOK ==
    /\ call \in CallType
    /\ call.step # "none" =>
         /\ call.id \in RecordIDs /\ call.rec \in Record
         /\ RecordIDOf(call.rec.env) = call.id
         /\ call.kind # "none"
    /\ call.step = "rename" => call.synced = TRUE
    /\ call.kind = "mark" => call.step # "enforce"
    /\ call.kind = "dropped" => call.step = "enforce"

LoadType == [names : SUBSET (RecordIDs \X {"json", "tmp"}),
             bad : RecordIDs \cup {Nil}, on : BOOLEAN]

WholeInv ==
    /\ Whole(files) /\ Whole(disk)
    /\ unflushed = {} /\ tmp \subseteq RecordIDs
    /\ CallOK
    /\ loading \in [Processes -> LoadType]

\* What SavedIsKept says of one result and one directory.
Holds(f, r) == f[RecordIDOf(r)] # NoFile /\ f[RecordIDOf(r)].env = r
Exempt(r) == RecordIDOf(r) \in unread \/ CommandOf[r] = NoID

\* Save is under way for r, and past the given steps.
Saving(r, steps) == call.kind = "save" /\ call.step \in steps /\ call.rec.env = r

\* The files keep what is promised, the disk what is promised for sure, and
\* both keep what a Save on its way will promise.
KeptInv ==
    /\ promised \subseteq Results
    /\ \A p \in Processes : loading[p].bad # Nil => loading[p].bad \in unread
    /\ \A r \in promised : Holds(files, r) \/ Exempt(r)
    /\ \A r \in promised \ unsure : Holds(disk, r) \/ Exempt(r)
    /\ \A r \in Results : Saving(r, {"syncdir", "enforce"}) =>
                            Holds(files, r) \/ Exempt(r)
    /\ \A r \in Results : Saving(r, {"enforce"}) =>
                            r \in unsure \/ Holds(disk, r) \/ Exempt(r)

\* MarkFailure will write this file, even if somebody removed it meanwhile.
Marked == {i \in RecordIDs : call.kind = "mark" /\ call.step \in {"write", "rename"}
                             /\ call.id = i}

\* Records beyond the limit: in the files once a Save has renamed, in the
\* files and on the disk together while it has not synced the directory.
Grown == IF call.kind \in {"save", "dropped"} /\ call.step \in {"syncdir", "enforce"}
         THEN 1 ELSE 0
Unsynced == IF call.kind = "save" /\ call.step = "syncdir" THEN 1 ELSE 0

SizeInv ==
    /\ failures \in Nat
    /\ Cardinality(Listed(files) \cup Marked) <= MaxRecords + 2 * failures + Grown
    /\ Cardinality(Listed(files) \cup Listed(disk) \cup Marked)
         <= MaxRecords + 1 + 2 * failures + Unsynced

-----------------------------------------------------------------------------
(* Directories.                                                            *)

LEMMA RecordIsWhole ==
    ASSUME NEW x \in Record
    PROVE  x # NoFile /\ x # Torn
  <1>1. DOMAIN x = {"env", "created", "attempts", "next"}
    BY DEF Record
  <1>2. DOMAIN NoFile = {"none"} /\ DOMAIN Torn = {"torn"}
    BY DEF NoFile, Torn
  <1>3. "env" # "none" /\ "env" # "torn"
    OBVIOUS
  <1> QED
    BY <1>1, <1>2, <1>3

LEMMA NoFileIsWhole == NoFile # Torn
  <1>1. DOMAIN NoFile = {"none"} /\ DOMAIN Torn = {"torn"}
    BY DEF NoFile, Torn
  <1>2. "none" # "torn"
    OBVIOUS
  <1> QED
    BY <1>1, <1>2

LEMMA RecordIDType ==
    ASSUME NEW r \in Results
    PROVE  RecordIDOf(r) \in RecordIDs
  BY CommandOfType, SanitizedIDType DEF RecordIDOf

\* readRecordFile sees the files of a whole directory as they are.
LEMMA SeenIsWhole ==
    ASSUME NEW f, Whole(f)
    PROVE  Seen(f) = f
  <1>1. \A i \in RecordIDs : f[i] # Torn
    BY RecordIsWhole, NoFileIsWhole DEF Whole, Directory
  <1>2. f = [i \in RecordIDs |-> f[i]]
    BY DEF Whole, Directory
  <1> QED
    BY <1>1, <1>2 DEF Seen

LEMMA WithoutWhole ==
    ASSUME NEW f, Whole(f), NEW ids
    PROVE  Whole(Without(f, ids))
  BY DEF Whole, Directory, Filed, Without

LEMMA WriteWhole ==
    ASSUME NEW f, Whole(f), NEW i \in RecordIDs, NEW rec \in Record,
           RecordIDOf(rec.env) = i
    PROVE  Whole(writeRecordAtomic(f, i, rec))
  BY DEF Whole, Directory, Filed, writeRecordAtomic

\* Save: the record that takes the place of another one has its id.
LEMMA ReplacingRecord ==
    ASSUME NEW f, Whole(f), NEW r \in Results
    PROVE  Replacing(f, r, 0) \in Record /\ Replacing(f, r, 0).env = r
  <1> DEFINE i == RecordIDOf(r)
  <1>1. i \in RecordIDs
    BY RecordIDType
  <1>2. CASE Readable(f, i)
    <2>1. f[i] \in Record
      BY <1>1, <1>2 DEF Readable, Whole, Directory
    <2>2. Replacing(f, r, 0) = [f[i] EXCEPT !.env = r]
      BY <1>2 DEF Replacing
    <2> QED
      BY <2>1, <2>2 DEF Record
  <1>3. CASE ~Readable(f, i)
    <2>1. Replacing(f, r, 0) = NewRecord(r, 0)
      BY <1>3 DEF Replacing
    <2> QED
      BY <2>1 DEF NewRecord, Record
  <1> QED
    BY <1>2, <1>3

\* MarkFailure counts an attempt and leaves the rest of the record.
LEMMA MarkedRecord ==
    ASSUME NEW x \in Record
    PROVE  /\ [x EXCEPT !.attempts = @ + 1] \in Record
           /\ [x EXCEPT !.attempts = @ + 1].env = x.env
  BY DEF Record

-----------------------------------------------------------------------------
(* Records are whole.                                                      *)

LEMMA NoCallOK == NoCall \in CallType /\ NoCall.step = "none" /\ NoCall.kind = "none"
  BY DEF NoCall, CallType

LEMMA EndedCallOK ==
    ASSUME call' = NoCall
    PROVE  CallOK'
  BY NoCallOK DEF CallOK

LEMMA NoLoadOK == NoLoad \in LoadType
  BY DEF NoLoad, LoadType

LEMMA WholeInit == Init => WholeInv
  <1> SUFFICES ASSUME Init PROVE WholeInv
    OBVIOUS
  <1>1. Whole(files) /\ Whole(disk)
    BY DEF Init, Whole, Directory, Filed
  <1>2. CallOK
    BY NoCallOK DEF Init, CallOK
  <1>3. loading \in [Processes -> LoadType]
    BY NoLoadOK DEF Init
  <1> QED
    BY <1>1, <1>2, <1>3 DEF WholeInv, Init

\* The names ReadDir gives are of record files.
LEMMA ListingType ==
    ASSUME WholeInv
    PROVE  Listing \in SUBSET (RecordIDs \X {"json", "tmp"})
  BY DEF Listing, WholeInv

\* ReadDir and the steps of Load.
LEMMA WholeLoads ==
    ASSUME WholeInv, Run \/ Doctor \/ \E p \in Processes : LoadStep(p)
    PROVE  WholeInv'
  <1>0. /\ Whole(files) /\ Whole(disk) /\ unflushed = {} /\ tmp \subseteq RecordIDs
        /\ CallOK /\ loading \in [Processes -> LoadType]
    BY DEF WholeInv
  <1>1. ASSUME NEW p \in Processes, LoadBegins(p)
        PROVE  loading' \in [Processes -> LoadType]
    <2>1. [names |-> Listing, bad |-> Nil, on |-> TRUE] \in LoadType
      BY ListingType DEF LoadType
    <2> QED
      BY <1>0, <1>1, <2>1 DEF LoadBegins
  <1>2. CASE Run
    <2>1. loading' \in [Processes -> LoadType]
      BY <1>0, <1>1, <1>2 DEF Run, Processes
    <2> QED
      BY <1>0, <1>2, <2>1 DEF Run, WholeInv, CallOK, fileVars
  <1>3. CASE Doctor
    <2>1. loading' \in [Processes -> LoadType]
      BY <1>1, <1>3 DEF Doctor, Processes
    <2> QED
      BY <1>0, <1>3, <2>1 DEF Doctor, WholeInv, CallOK, fileVars
  <1>4. ASSUME NEW p \in Processes, NEW i \in RecordIDs, LoadRemovesTmp(p, i)
        PROVE  WholeInv'
    <2>1. loading' \in [Processes -> LoadType]
      BY <1>0, <1>4 DEF LoadRemovesTmp, LoadType
    <2> QED
      BY <1>0, <1>4, <2>1 DEF LoadRemovesTmp, WholeInv, CallOK
  <1>5. ASSUME NEW p \in Processes, NEW i \in RecordIDs, LoadReads(p, i)
        PROVE  WholeInv'
    <2>1. loading' \in [Processes -> LoadType]
      BY <1>0, <1>5 DEF LoadReads, LoadType
    <2> QED
      BY <1>0, <1>5, <2>1 DEF LoadReads, WholeInv, CallOK, fileVars
  <1>6. ASSUME NEW p \in Processes, LoadQuarantines(p)
        PROVE  WholeInv'
    <2>1. loading' \in [Processes -> LoadType]
      BY <1>0, <1>6 DEF LoadQuarantines, LoadType
    <2>2. Whole(files)'
      BY <1>0, <1>6, WithoutWhole DEF LoadQuarantines
    <2> QED
      BY <1>0, <1>6, <2>1, <2>2 DEF LoadQuarantines, WholeInv, CallOK
  <1>7. ASSUME NEW p \in Processes, LoadEnds(p)
        PROVE  WholeInv'
    <2>1. loading' \in [Processes -> LoadType]
      BY <1>0, <1>7, NoLoadOK DEF LoadEnds
    <2> QED
      BY <1>0, <1>7, <2>1 DEF LoadEnds, WholeInv, CallOK, fileVars
  <1> QED
    BY <1>2, <1>3, <1>4, <1>5, <1>6, <1>7 DEF LoadStep

\* A store call begins with the record it is going to write.
LEMMA WholeBegins ==
    ASSUME WholeInv, NEW kind \in {"save", "mark"}, NEW i \in RecordIDs,
           NEW rec \in Record, RecordIDOf(rec.env) = i, Begins(kind, i, rec)
    PROVE  WholeInv'
  <1>1. call' = [kind |-> kind, id |-> i, rec |-> rec, step |-> "write",
                 synced |-> FALSE]
    BY DEF Begins
  <1>2. CallOK'
    BY <1>1 DEF CallOK, CallType
  <1> QED
    BY <1>2 DEF WholeInv, Begins, fileVars

LEMMA WholeCalls ==
    ASSUME WholeInv,
           \/ \E r \in Results : SaveBegins(r)
           \/ \E i \in RecordIDs : MarkFailureBegins(i) \/ Delete(i)
    PROVE  WholeInv'
  <1>0. Whole(files) /\ Seen(files) = files
    BY SeenIsWhole DEF WholeInv
  <1>1. ASSUME NEW r \in Results, SaveBegins(r)
        PROVE  WholeInv'
    <2> DEFINE rec == Replacing(files, r, 0)
    <2>1. Begins("save", RecordIDOf(r), rec)
      BY <1>0, <1>1 DEF SaveBegins
    <2>2. rec \in Record /\ rec.env = r
      BY <1>0, ReplacingRecord
    <2> HIDE DEF rec
    <2> QED
      BY <2>1, <2>2, RecordIDType, WholeBegins
  <1>2. ASSUME NEW i \in RecordIDs, MarkFailureBegins(i)
        PROVE  WholeInv'
    <2> DEFINE rec == [files[i] EXCEPT !.attempts = @ + 1]
    <2>1. Begins("mark", i, rec)
      BY <1>2 DEF MarkFailureBegins
    <2>2. files[i] \in Record /\ RecordIDOf(files[i].env) = i
      BY <1>0, <1>2 DEF MarkFailureBegins, Readable, Whole, Directory, Filed
    <2>3. rec \in Record /\ rec.env = files[i].env
      BY <2>2, MarkedRecord
    <2> HIDE DEF rec
    <2> QED
      BY <2>1, <2>2, <2>3, WholeBegins
  <1>3. ASSUME NEW i \in RecordIDs, Delete(i)
        PROVE  WholeInv'
    <2>1. Whole(files)'
      BY <1>0, <1>3, WithoutWhole DEF Delete
    <2> QED
      BY <1>3, <2>1 DEF Delete, WholeInv, CallOK
  <1> QED
    BY <1>1, <1>2, <1>3

LEMMA WholeSteps ==
    ASSUME WholeInv,
           \/ WriteTmp \/ RenameTmp \/ RenameFails \/ DiskFails
           \/ SyncDir \/ SyncDirFails \/ SaveReturns
           \/ \E i \in RecordIDs : DropOne(i)
    PROVE  WholeInv'
  <1>0. /\ Whole(files) /\ Whole(disk) /\ unflushed = {} /\ tmp \subseteq RecordIDs
        /\ CallOK /\ loading \in [Processes -> LoadType]
    BY DEF WholeInv
  <1>1. CASE WriteTmp
    <2>1. CallOK' /\ tmp' \subseteq RecordIDs
      BY <1>0, <1>1 DEF WriteTmp, WritesTmp, CallOK, CallType
    <2> QED
      BY <1>0, <1>1, <2>1 DEF WriteTmp, WritesTmp, WholeInv
  <1>2. CASE RenameTmp
    <2>1. call.id \in RecordIDs /\ call.rec \in Record /\ RecordIDOf(call.rec.env) = call.id
      BY <1>0, <1>2 DEF RenameTmp, CallOK
    <2>2. Whole(files)'
      BY <1>0, <1>2, <2>1, WriteWhole DEF RenameTmp
    <2>3. unflushed' = {}
      BY <1>0, <1>2 DEF RenameTmp, CallOK
    <2>4. CallOK'
      BY <1>0, <1>2 DEF RenameTmp, GoesTo, CallOK, CallType
    <2> QED
      BY <1>0, <1>2, <2>2, <2>3, <2>4 DEF RenameTmp, WholeInv
  <1>3. CASE RenameFails \/ DiskFails
    <2>1. CallFails /\ tmp' \subseteq RecordIDs
      BY <1>0, <1>3 DEF RenameFails, DiskFails, CallOK
    <2>2. CallOK'
      BY <2>1, EndedCallOK DEF CallFails
    <2> QED
      BY <1>0, <2>1, <2>2 DEF CallFails, WholeInv
  <1>4. CASE SyncDir \/ SyncDirFails
    <2>1. AfterSyncDir /\ (disk' = files \/ disk' = disk)
      BY <1>4 DEF SyncDir, SyncDirFails
    <2>2. CallOK'
      <3>1. CASE call.kind = "save"
        BY <1>0, <2>1, <3>1 DEF AfterSyncDir, GoesTo, CallOK, CallType
      <3>2. CASE call.kind # "save"
        BY <2>1, <3>2, EndedCallOK DEF AfterSyncDir
      <3> QED
        BY <3>1, <3>2
    <2>3. Whole(disk)'
      BY <1>0, <2>1
    <2> QED
      BY <1>0, <2>1, <2>2, <2>3 DEF AfterSyncDir, WholeInv
  <1>5. CASE SaveReturns
    <2>1. CallOK'
      BY <1>5, EndedCallOK DEF SaveReturns
    <2> QED
      BY <1>0, <1>5, <2>1 DEF SaveReturns, WholeInv, fileVars
  <1>6. ASSUME NEW i \in RecordIDs, DropOne(i)
        PROVE  WholeInv'
    <2>1. Whole(files)'
      BY <1>0, <1>6, WithoutWhole DEF DropOne
    <2>2. CallOK'
      BY <1>0, <1>6 DEF DropOne, CallOK, CallType
    <2> QED
      BY <1>0, <1>6, <2>1, <2>2 DEF DropOne, WholeInv
  <1> QED
    BY <1>1, <1>2, <1>3, <1>4, <1>5, <1>6

\* A power failure leaves each name as it was or as it was synced.
LEMMA WholeFailures ==
    ASSUME WholeInv, Crash \/ PowerLoss
    PROVE  WholeInv'
  <1>0. /\ Whole(files) /\ Whole(disk) /\ unflushed = {} /\ tmp \subseteq RecordIDs
        /\ loading \in [Processes -> LoadType]
    BY DEF WholeInv
  <1>1. CallOK'
    BY EndedCallOK DEF Crash, PowerLoss, AgentDies
  <1>2. CASE Crash
    <2>1. loading' \in [Processes -> LoadType]
      BY <1>0, <1>2, NoLoadOK DEF Crash
    <2> QED
      BY <1>0, <1>1, <1>2, <2>1 DEF Crash, WholeInv, fileVars
  <1>3. CASE PowerLoss
    <2>1. loading' \in [Processes -> LoadType]
      BY <1>3, NoLoadOK DEF PowerLoss
    <2>2. PICK kept \in SUBSET RecordIDs :
            files' = [i \in RecordIDs |-> IF i \notin kept THEN disk[i] ELSE files[i]]
      BY <1>0, <1>3 DEF PowerLoss
    <2>3. Whole(files)'
      BY <1>0, <2>2 DEF Whole, Directory, Filed
    <2> QED
      BY <1>0, <1>1, <1>3, <2>1, <2>3 DEF PowerLoss, WholeInv
  <1> QED
    BY <1>2, <1>3

LEMMA WholeNext == WholeInv /\ [Next]_vars => WholeInv'
  <1> SUFFICES ASSUME WholeInv, [Next]_vars PROVE WholeInv'
    OBVIOUS
  <1>1. CASE UNCHANGED vars \/ Reconfigure
    BY <1>1 DEF vars, Reconfigure, fileVars, WholeInv, CallOK
  <1>2. CASE Next
    BY <1>1, <1>2, WholeLoads, WholeCalls, WholeSteps, WholeFailures DEF Next, StoreStep
  <1> QED
    BY <1>1, <1>2

\* docs/security.md:99 and writeRecordAtomic: no .json file is ever torn, in
\* any order of calls, errors, kills and power failures.
THEOREM RecordsWholeHolds == Spec => []RecordsWhole
  <1>1. WholeInv => RecordsWhole
    BY RecordIsWhole, NoFileIsWhole DEF WholeInv, Whole, Directory, RecordsWhole
  <1> QED
    BY <1>1, WholeInit, WholeNext, PTL DEF Spec

-----------------------------------------------------------------------------
(* Saved results are kept.                                                 *)

LEMMA KeptInit == Init => KeptInv
  BY NoCallOK DEF Init, KeptInv, Saving, NoLoad, Processes

\* Steps that change no file, no promise and no call.
LEMMA KeptLoads ==
    ASSUME WholeInv, KeptInv, Run \/ Doctor \/ \E p \in Processes : LoadStep(p)
    PROVE  KeptInv'
  <1>0. /\ loading \in [Processes -> LoadType]
        /\ Whole(files)
        /\ \A r \in Results : RecordIDOf(r) \in RecordIDs
    BY RecordIDType DEF WholeInv
  <1>1. ASSUME unread \subseteq unread', UNCHANGED <<files, disk, call, promised, unsure>>,
               \A p \in Processes : loading'[p].bad # Nil => loading'[p].bad \in unread'
        PROVE  KeptInv'
    BY <1>1 DEF KeptInv, Holds, Exempt, Saving
  <1>2. ASSUME NEW p \in Processes, LoadBegins(p), unread' = unread
        PROVE  \A q \in Processes : loading'[q].bad # Nil => loading'[q].bad \in unread'
    BY <1>0, <1>2 DEF LoadBegins, KeptInv, LoadType
  <1>3. CASE Run
    <2>1. \A q \in Processes : loading'[q].bad # Nil => loading'[q].bad \in unread'
      BY <1>2, <1>3 DEF Run, promiseVars, Processes, KeptInv
    <2> QED
      BY <1>1, <1>3, <2>1 DEF Run, promiseVars, fileVars
  <1>4. CASE Doctor
    <2>1. \A q \in Processes : loading'[q].bad # Nil => loading'[q].bad \in unread'
      BY <1>2, <1>4 DEF Doctor, promiseVars, Processes
    <2> QED
      BY <1>1, <1>4, <2>1 DEF Doctor, promiseVars, fileVars
  <1>5. ASSUME NEW p \in Processes, NEW i \in RecordIDs, LoadRemovesTmp(p, i)
        PROVE  KeptInv'
    <2>1. \A q \in Processes : loading'[q].bad = loading[q].bad
      BY <1>0, <1>5 DEF LoadRemovesTmp, LoadType
    <2> QED
      BY <1>1, <1>5, <2>1 DEF LoadRemovesTmp, promiseVars, KeptInv
  <1>6. ASSUME NEW p \in Processes, NEW i \in RecordIDs, LoadReads(p, i)
        PROVE  KeptInv'
    <2>1. \A q \in Processes : loading'[q].bad # Nil => loading'[q].bad \in unread'
      BY <1>0, <1>6 DEF LoadReads, LoadType, KeptInv
    <2> QED
      BY <1>1, <1>6, <2>1 DEF LoadReads, fileVars
  <1>7. ASSUME NEW p \in Processes, LoadQuarantines(p)
        PROVE  KeptInv'
    <2>1. \A q \in Processes : loading'[q].bad # Nil => loading'[q].bad \in unread'
      BY <1>0, <1>7 DEF LoadQuarantines, LoadType, KeptInv, promiseVars
    <2>2. \A r \in Results : Holds(files, r) => Holds(files', r) \/ Exempt(r)
      <3>1. loading[p].bad \in unread /\ files' = Without(files, {loading[p].bad})
        BY <1>7 DEF LoadQuarantines, KeptInv
      <3> QED
        BY <1>0, <3>1 DEF Holds, Exempt, Without
    <2>3. UNCHANGED <<disk, call, promised, unsure, unread>>
      BY <1>7 DEF LoadQuarantines, promiseVars
    <2> QED
      BY <2>1, <2>2, <2>3 DEF KeptInv, Holds, Exempt, Saving
  <1>8. ASSUME NEW p \in Processes, LoadEnds(p)
        PROVE  KeptInv'
    <2>1. \A q \in Processes : loading'[q].bad # Nil => loading'[q].bad \in unread'
      BY <1>0, <1>8 DEF LoadEnds, LoadType, KeptInv, promiseVars, NoLoad
    <2> QED
      BY <1>1, <1>8, <2>1 DEF LoadEnds, promiseVars, fileVars
  <1> QED
    BY <1>3, <1>4, <1>5, <1>6, <1>7, <1>8 DEF LoadStep

\* A removal takes the promise with the file.
LEMMA KeptRemoves ==
    ASSUME WholeInv, KeptInv, NEW i \in RecordIDs, files[i] # NoFile,
           files' = Without(files, {i}), promised' = promised \ {files[i].env}
    PROVE  \A r \in promised' : Holds(files', r) \/ Exempt(r)
  <1> SUFFICES ASSUME NEW r \in promised' PROVE Holds(files', r) \/ Exempt(r)
    OBVIOUS
  <1>1. r \in promised /\ r \in Results /\ RecordIDOf(r) \in RecordIDs
    BY RecordIDType DEF KeptInv
  <1>2. CASE Holds(files, r)
    BY <1>1, <1>2 DEF Holds, Without
  <1>3. CASE Exempt(r)
    BY <1>3
  <1> QED
    BY <1>1, <1>2, <1>3 DEF KeptInv

LEMMA KeptCalls ==
    ASSUME WholeInv, KeptInv,
           \/ \E r \in Results : SaveBegins(r)
           \/ \E i \in RecordIDs : MarkFailureBegins(i) \/ Delete(i)
    PROVE  KeptInv'
  <1>1. ASSUME NEW kind, NEW i, NEW rec, Begins(kind, i, rec)
        PROVE  KeptInv'
    <2>1. call'.step = "write"
      BY <1>1 DEF Begins
    <2>2. \A r : ~Saving(r, {"syncdir", "enforce"})' /\ ~Saving(r, {"enforce"})'
      BY <2>1 DEF Saving
    <2> QED
      BY <1>1, <2>2 DEF Begins, KeptInv, Holds, Exempt, fileVars
  <1>2. ASSUME NEW i \in RecordIDs, Delete(i)
        PROVE  KeptInv'
    <2>1. files[i] # NoFile
      BY <1>2, SeenIsWhole DEF Delete, Readable, WholeInv
    <2>2. \A r \in promised' : Holds(files', r) \/ Exempt(r)
      BY <1>2, <2>1, KeptRemoves DEF Delete
    <2>3. \A r : ~Saving(r, {"syncdir", "enforce"})' /\ ~Saving(r, {"enforce"})'
      BY <1>2, NoCallOK DEF Delete, Saving
    <2> QED
      BY <1>2, <2>2, <2>3 DEF Delete, KeptInv, Holds, Exempt
  <1> QED
    BY <1>1, <1>2 DEF SaveBegins, MarkFailureBegins

LEMMA KeptSteps ==
    ASSUME WholeInv, KeptInv,
           \/ WriteTmp \/ RenameTmp \/ RenameFails \/ DiskFails
           \/ SyncDir \/ SyncDirFails \/ SaveReturns
           \/ \E i \in RecordIDs : DropOne(i)
    PROVE  KeptInv'
  <1>0. /\ Whole(files) /\ CallOK /\ call \in CallType
        /\ \A r \in Results : RecordIDOf(r) \in RecordIDs
        /\ \A r \in promised : r \in Results
    BY RecordIDType DEF WholeInv, CallOK, KeptInv
  <1>1. CASE WriteTmp
    <2>1. call'.step = "rename"
      BY <1>0, <1>1 DEF WriteTmp, WritesTmp, CallType
    <2>2. \A r : ~Saving(r, {"syncdir", "enforce"})' /\ ~Saving(r, {"enforce"})'
      BY <2>1 DEF Saving
    <2> QED
      BY <1>1, <2>2 DEF WriteTmp, WritesTmp, KeptInv, Holds, Exempt, promiseVars
  <1>2. CASE RenameTmp
    <2> DEFINE i == call.id
               new == call.rec
    <2>1. i \in RecordIDs /\ new \in Record /\ RecordIDOf(new.env) = i
      BY <1>0, <1>2 DEF RenameTmp, CallOK
    <2>2. /\ files' = [files EXCEPT ![i] = new]
          /\ promised' = {r \in promised : RecordIDOf(r) # i \/ r = new.env}
          /\ UNCHANGED <<disk, loading, unsure, unread>>
      BY <1>2 DEF RenameTmp, writeRecordAtomic
    <2>3. call'.step = "syncdir" /\ call'.rec = new
      BY <1>0, <1>2 DEF RenameTmp, GoesTo, CallType
    <2>4. new # NoFile /\ new.env \in Results
      BY <2>1, RecordIsWhole DEF Record
    <2> HIDE DEF i, new
    <2>5. Holds(files', new.env)
      BY <1>0, <2>1, <2>2, <2>4 DEF Holds, Whole, Directory
    <2>6. \A r \in promised' : Holds(files', r) \/ Exempt(r)
      <3> SUFFICES ASSUME NEW r \in promised', r # new.env
                   PROVE  Holds(files', r) \/ Exempt(r)
        BY <2>5
      <3>1. r \in promised /\ RecordIDOf(r) # i /\ RecordIDOf(r) \in RecordIDs
        BY <1>0, <2>2
      <3>2. files'[RecordIDOf(r)] = files[RecordIDOf(r)]
        BY <1>0, <2>2, <3>1 DEF Whole, Directory
      <3> QED
        BY <3>1, <3>2 DEF KeptInv, Holds
    <2>7. \A r \in Results : Saving(r, {"syncdir", "enforce"})' => Holds(files', r)
      BY <2>3, <2>5 DEF Saving
    <2>8. \A r : ~Saving(r, {"enforce"})'
      BY <2>3 DEF Saving
    <2> QED
      BY <2>2, <2>6, <2>7, <2>8 DEF KeptInv, Exempt, Holds
  <1>3. CASE RenameFails \/ DiskFails
    <2>1. CallFails
      BY <1>3 DEF RenameFails, DiskFails
    <2>2. \A r : ~Saving(r, {"syncdir", "enforce"})' /\ ~Saving(r, {"enforce"})'
      BY <2>1, NoCallOK DEF CallFails, Saving
    <2> QED
      BY <2>1, <2>2 DEF CallFails, KeptInv, Holds, Exempt, promiseVars
  <1>4. CASE SyncDir \/ SyncDirFails
    <2>1. /\ AfterSyncDir
          /\ \/ disk' = files
             \/ disk' = disk /\ unsure' = unsure \cup {call.rec.env}
      BY <1>4 DEF SyncDir, SyncDirFails
    <2>2. UNCHANGED <<files, loading, promised, unread>> /\ call.step = "syncdir"
      BY <2>1 DEF AfterSyncDir
    <2>3. \A r : Saving(r, {"syncdir", "enforce"})' => Saving(r, {"syncdir", "enforce"})
      BY <1>0, <2>1, NoCallOK DEF AfterSyncDir, GoesTo, Saving, CallType
    <2>4. \A r : Saving(r, {"enforce"})' =>
                   Saving(r, {"syncdir", "enforce"}) /\ r = call.rec.env
      BY <1>0, <2>1, NoCallOK DEF AfterSyncDir, GoesTo, Saving, CallType
    <2>5. CASE disk' = files
      BY <2>2, <2>3, <2>4, <2>5 DEF KeptInv, Holds, Exempt
    <2>6. CASE disk' = disk /\ unsure' = unsure \cup {call.rec.env}
      BY <2>2, <2>3, <2>4, <2>6 DEF KeptInv, Holds, Exempt
    <2> QED
      BY <2>1, <2>5, <2>6
  <1>5. CASE SaveReturns
    <2>1. \A r : ~Saving(r, {"syncdir", "enforce"})' /\ ~Saving(r, {"enforce"})'
      BY <1>5, NoCallOK DEF SaveReturns, Saving
    <2>2. UNCHANGED <<files, disk, loading, unsure, unread>>
      BY <1>5 DEF SaveReturns, fileVars
    <2>3. CASE call.kind = "dropped"
      BY <1>5, <2>1, <2>2, <2>3 DEF SaveReturns, KeptInv, Holds, Exempt
    <2>4. CASE call.kind # "dropped"
      <3>1. PICK r \in Results : r = call.rec.env
        BY <1>0, <1>5 DEF SaveReturns, CallOK, Record
      <3>2. Saving(r, {"syncdir", "enforce"}) /\ Saving(r, {"enforce"})
        BY <1>0, <1>5, <2>4, <3>1 DEF SaveReturns, CallOK, CallType, Saving
      <3>3. promised' = promised \cup {r}
        BY <1>5, <2>4, <3>1 DEF SaveReturns
      <3> QED
        BY <2>1, <2>2, <3>1, <3>2, <3>3 DEF KeptInv, Holds, Exempt
    <2> QED
      BY <2>3, <2>4
  <1>6. ASSUME NEW i \in RecordIDs, DropOne(i)
        PROVE  KeptInv'
    <2>1. /\ files' = Without(files, {i}) /\ promised' = promised \ {files[i].env}
          /\ UNCHANGED <<disk, loading, unsure, unread>>
          /\ files[i] # NoFile
          /\ call.step = "enforce"
      BY <1>6, SeenIsWhole DEF DropOne, Listed, Readable, WholeInv
    <2>2. \A r \in promised' : Holds(files', r) \/ Exempt(r)
      BY <2>1, KeptRemoves
    <2>3. CASE i = call.id
      <3>1. call'.kind = "dropped"
        BY <1>0, <1>6, <2>3 DEF DropOne, CallType
      <3>2. \A r : ~Saving(r, {"syncdir", "enforce"})' /\ ~Saving(r, {"enforce"})'
        BY <3>1 DEF Saving
      <3> QED
        BY <2>1, <2>2, <3>2 DEF KeptInv, Holds, Exempt
    <2>4. CASE i # call.id
      <3>1. call' = call
        BY <1>6, <2>4 DEF DropOne
      <3>2. \A r \in Results : Saving(r, {"syncdir", "enforce"}) /\ Holds(files, r) =>
                                 Holds(files', r)
        BY <1>0, <2>1, <2>4 DEF CallOK, Saving, Holds, Without
      <3>3. \A r : /\ Saving(r, {"syncdir", "enforce"})' = Saving(r, {"syncdir", "enforce"})
                   /\ Saving(r, {"enforce"})' = Saving(r, {"enforce"})
        BY <3>1 DEF Saving
      <3> QED
        BY <2>1, <2>2, <3>2, <3>3 DEF KeptInv, Holds, Exempt
    <2> QED
      BY <2>3, <2>4
  <1> QED
    BY <1>1, <1>2, <1>3, <1>4, <1>5, <1>6

\* Whatever mix of old and new names a power failure leaves, what is promised
\* for sure is in both.
LEMMA KeptFailures ==
    ASSUME WholeInv, KeptInv, Crash \/ PowerLoss
    PROVE  KeptInv'
  <1>0. /\ Whole(files) /\ Whole(disk) /\ unflushed = {}
        /\ loading \in [Processes -> LoadType]
        /\ \A r \in promised : r \in Results /\ RecordIDOf(r) \in RecordIDs
    BY RecordIDType DEF WholeInv, KeptInv
  <1>1. call' = NoCall /\ unread' = unread
    BY DEF Crash, PowerLoss, AgentDies
  <1>2. \A r : ~Saving(r, {"syncdir", "enforce"})' /\ ~Saving(r, {"enforce"})'
    BY <1>1, NoCallOK DEF Saving
  <1>3. \A p \in Processes : loading'[p].bad # Nil => loading'[p].bad \in unread'
    BY <1>0, <1>1 DEF Crash, PowerLoss, KeptInv, LoadType, NoLoad
  <1>4. CASE Crash
    BY <1>1, <1>2, <1>3, <1>4 DEF Crash, KeptInv, Holds, Exempt, fileVars
  <1>5. CASE PowerLoss
    <2>1. PICK kept \in SUBSET RecordIDs :
            files' = [i \in RecordIDs |-> IF i \notin kept THEN disk[i] ELSE files[i]]
      BY <1>0, <1>5 DEF PowerLoss
    <2>2. promised' = promised \ unsure /\ unsure' = {} /\ disk' = files'
      BY <1>5 DEF PowerLoss
    <2>3. \A r \in promised' : Holds(files', r) \/ Exempt(r)
      <3> SUFFICES ASSUME NEW r \in promised' PROVE Holds(files', r) \/ Exempt(r)
        OBVIOUS
      <3>1. r \in promised /\ r \in promised \ unsure /\ RecordIDOf(r) \in RecordIDs
        BY <1>0, <2>2
      <3>2. (Holds(files, r) /\ Holds(disk, r)) \/ Exempt(r)
        BY <3>1 DEF KeptInv
      <3> QED
        BY <2>1, <3>1, <3>2 DEF Holds
    <2> QED
      BY <1>1, <1>2, <1>3, <2>2, <2>3 DEF KeptInv, Holds, Exempt
  <1> QED
    BY <1>4, <1>5

LEMMA KeptNext == WholeInv /\ KeptInv /\ [Next]_vars => KeptInv'
  <1> SUFFICES ASSUME WholeInv, KeptInv, [Next]_vars PROVE KeptInv'
    OBVIOUS
  <1>1. CASE UNCHANGED vars \/ Reconfigure
    BY <1>1 DEF vars, Reconfigure, fileVars, promiseVars, KeptInv, Holds, Exempt, Saving
  <1>2. CASE Next
    BY <1>1, <1>2, KeptLoads, KeptCalls, KeptSteps, KeptFailures DEF Next, StoreStep
  <1> QED
    BY <1>1, <1>2

\* store.go Save: a result whose Save returned is in its file until it is
\* deleted, dropped or replaced, through any number of kills, power failures
\* and runs of doctor, but for what SavedIsKept excepts.
THEOREM SavedIsKeptHolds == Spec => []SavedIsKept
  <1>1. WholeInv /\ KeptInv => SavedIsKept
    <2> SUFFICES ASSUME WholeInv, KeptInv, NEW r \in promised, ~Exempt(r)
                 PROVE  files[RecordIDOf(r)] # NoFile /\ files[RecordIDOf(r)] # Torn
                        /\ files[RecordIDOf(r)].env = r
      BY DEF SavedIsKept, Exempt
    <2>1. Holds(files, r) /\ RecordIDOf(r) \in RecordIDs
      BY RecordIDType DEF KeptInv
    <2>2. files[RecordIDOf(r)] \in Record
      BY <2>1 DEF Holds, WholeInv, Whole, Directory
    <2> QED
      BY <2>1, <2>2, RecordIsWhole DEF Holds
  <1> QED
    BY <1>1, WholeInit, WholeNext, KeptInit, KeptNext, PTL DEF Spec

-----------------------------------------------------------------------------
(* How far the limit is exceeded.                                          *)

LEMMA FewerRecords ==
    ASSUME NEW A, NEW B, A \subseteq B, B \subseteq RecordIDs
    PROVE  Cardinality(A) \in Nat /\ Cardinality(B) \in Nat
           /\ Cardinality(A) <= Cardinality(B)
  <1>1. IsFiniteSet(B) /\ IsFiniteSet(A)
    BY RecordIDsFinite, FS_Subset
  <1> QED
    BY <1>1, FS_CardinalityType, FS_Subset

LEMMA OneRecordMore ==
    ASSUME NEW A, NEW B, NEW i \in RecordIDs, A \subseteq B \cup {i}, B \subseteq RecordIDs
    PROVE  Cardinality(A) \in Nat /\ Cardinality(B) \in Nat
           /\ Cardinality(A) <= Cardinality(B) + 1
  <1>1. IsFiniteSet(B)
    BY RecordIDsFinite, FS_Subset
  <1>2. Cardinality(B) \in Nat
    BY <1>1, FS_CardinalityType
  <1>3. Cardinality(B \cup {i}) <= Cardinality(B) + 1 /\ Cardinality(B \cup {i}) \in Nat
    BY <1>1, <1>2, FS_AddElement
  <1>4. Cardinality(A) <= Cardinality(B \cup {i}) /\ Cardinality(A) \in Nat
    BY FewerRecords
  <1> QED
    BY <1>2, <1>3, <1>4

Held == Listed(files) \cup Marked
Recoverable == Listed(files) \cup Listed(disk) \cup Marked

LEMMA HeldType == Held \subseteq RecordIDs /\ Recoverable \subseteq RecordIDs
  BY DEF Held, Recoverable, Listed, Marked

LEMMA SizeFacts ==
    ASSUME SizeInv
    PROVE  /\ failures \in Nat /\ MaxRecords \in Nat
           /\ Grown \in {0, 1} /\ Unsynced \in {0, 1}
           /\ Cardinality(Held) \in Nat /\ Cardinality(Recoverable) \in Nat
           /\ Cardinality(Held) <= MaxRecords + 2 * failures + Grown
           /\ Cardinality(Recoverable) <= MaxRecords + 1 + 2 * failures + Unsynced
  <1>1. Cardinality(Held) \in Nat /\ Cardinality(Recoverable) \in Nat
    BY HeldType, FewerRecords
  <1> QED
    BY <1>1, LimitsPositive DEF SizeInv, Held, Recoverable, Grown, Unsynced

\* Steps that add no record, and after which as many are allowed.
LEMMA SizeShrinks ==
    ASSUME SizeInv, Held' \subseteq Held, Recoverable' \subseteq Recoverable,
           failures' = failures, Grown' = Grown, Unsynced' = Unsynced
    PROVE  SizeInv'
  <1>1. /\ Cardinality(Held') \in Nat /\ Cardinality(Recoverable') \in Nat
        /\ Cardinality(Held') <= Cardinality(Held)
        /\ Cardinality(Recoverable') <= Cardinality(Recoverable)
    BY HeldType, FewerRecords
  <1>2. /\ Cardinality(Held') <= MaxRecords + 2 * failures' + Grown'
        /\ Cardinality(Recoverable') <= MaxRecords + 1 + 2 * failures' + Unsynced'
    BY <1>1, SizeFacts
  <1> QED
    BY <1>2, SizeFacts DEF SizeInv, Held, Recoverable

\* A failure allows for two records more.
LEMMA SizeFails ==
    ASSUME SizeInv, Held' \subseteq Held, Recoverable' \subseteq Recoverable,
           failures' = failures + 1
    PROVE  SizeInv'
  <1>1. /\ Cardinality(Held') \in Nat /\ Cardinality(Recoverable') \in Nat
        /\ Cardinality(Held') <= Cardinality(Held)
        /\ Cardinality(Recoverable') <= Cardinality(Recoverable)
    BY HeldType, FewerRecords
  <1>2. Grown' \in {0, 1} /\ Unsynced' \in {0, 1}
    BY DEF Grown, Unsynced
  <1>3. /\ Cardinality(Held') <= MaxRecords + 2 * failures' + Grown'
        /\ Cardinality(Recoverable') <= MaxRecords + 1 + 2 * failures' + Unsynced'
        /\ failures' \in Nat
    BY <1>1, <1>2, SizeFacts
  <1> QED
    BY <1>3 DEF SizeInv, Held, Recoverable

LEMMA SizeInit == Init => SizeInv
  <1> SUFFICES ASSUME Init PROVE SizeInv
    OBVIOUS
  <1>1. Listed(files) = {} /\ Listed(disk) = {} /\ Marked = {}
    BY NoCallOK DEF Init, Listed, Readable, Marked
  <1>2. Cardinality({}) = 0
    BY FS_EmptySet
  <1>3. Grown = 0 /\ Unsynced = 0
    BY NoCallOK DEF Init, Grown, Unsynced
  <1>4. Listed(files) \cup Marked = {} /\ Listed(files) \cup Listed(disk) \cup Marked = {}
    BY <1>1
  <1>5. /\ Cardinality(Listed(files) \cup Marked) = 0
        /\ Cardinality(Listed(files) \cup Listed(disk) \cup Marked) = 0
    BY <1>2, <1>4
  <1>6. failures = 0 /\ MaxRecords \in Nat
    BY LimitsPositive DEF Init
  <1> QED
    BY <1>3, <1>5, <1>6 DEF SizeInv

LEMMA ListedWithout ==
    ASSUME NEW f, NEW ids
    PROVE  Listed(Without(f, ids)) \subseteq Listed(f)
  BY DEF Listed, Readable, Without

LEMMA SizeLoads ==
    ASSUME SizeInv, Run \/ Doctor \/ \E p \in Processes : LoadStep(p)
    PROVE  SizeInv'
  <1>1. UNCHANGED <<call, failures, disk>>
    BY DEF Run, Doctor, LoadStep, LoadRemovesTmp, LoadReads, LoadQuarantines, LoadEnds,
           fileVars, boundVars
  <1>2. files' = files \/ \E p \in Processes : files' = Without(files, {loading[p].bad})
    BY DEF Run, Doctor, LoadStep, LoadRemovesTmp, LoadReads, LoadQuarantines, LoadEnds,
           fileVars
  <1>3. Listed(files') \subseteq Listed(files)
    BY <1>2, ListedWithout
  <1>4. Marked' = Marked /\ Grown' = Grown /\ Unsynced' = Unsynced
    BY <1>1 DEF Marked, Grown, Unsynced
  <1>5. Held' \subseteq Held /\ Recoverable' \subseteq Recoverable
    BY <1>1, <1>3, <1>4 DEF Held, Recoverable
  <1> QED
    BY <1>1, <1>4, <1>5, SizeShrinks

LEMMA SizeCalls ==
    ASSUME WholeInv, SizeInv,
           \/ \E r \in Results : SaveBegins(r)
           \/ \E i \in RecordIDs : MarkFailureBegins(i) \/ Delete(i)
    PROVE  SizeInv'
  <1>0. Seen(files) = files
    BY SeenIsWhole DEF WholeInv
  <1>1. call = NoCall /\ UNCHANGED <<disk, failures>>
    BY DEF SaveBegins, MarkFailureBegins, Delete, Begins, fileVars, boundVars
  <1>2. Grown = 0 /\ Unsynced = 0
    BY <1>1, NoCallOK DEF Grown, Unsynced
  <1>3. ASSUME NEW r \in Results, SaveBegins(r)
        PROVE  SizeInv'
    <2>1. files' = files /\ call'.step = "write" /\ call'.kind = "save"
      BY <1>3 DEF SaveBegins, Begins, fileVars
    <2>2. Grown' = 0 /\ Unsynced' = 0 /\ Marked' = {}
      BY <2>1 DEF Grown, Unsynced, Marked
    <2>3. Held' \subseteq Held /\ Recoverable' \subseteq Recoverable
      BY <1>1, <2>1, <2>2 DEF Held, Recoverable
    <2> QED
      BY <1>1, <1>2, <2>2, <2>3, SizeShrinks
  <1>4. ASSUME NEW i \in RecordIDs, MarkFailureBegins(i)
        PROVE  SizeInv'
    <2>1. /\ files' = files /\ call'.step = "write" /\ call'.kind = "mark"
          /\ call'.id = i
      BY <1>4 DEF MarkFailureBegins, Begins, fileVars
    <2>2. i \in Listed(files)
      BY <1>0, <1>4 DEF MarkFailureBegins, Listed
    <2>3. Grown' = 0 /\ Unsynced' = 0 /\ Marked' \subseteq Listed(files)
      BY <2>1, <2>2 DEF Grown, Unsynced, Marked
    <2>4. Held' \subseteq Held /\ Recoverable' \subseteq Recoverable
      BY <1>1, <2>1, <2>3 DEF Held, Recoverable
    <2> QED
      BY <1>1, <1>2, <2>3, <2>4, SizeShrinks
  <1>5. ASSUME NEW i \in RecordIDs, Delete(i)
        PROVE  SizeInv'
    <2>1. files' = Without(files, {i}) /\ call' = call
      BY <1>5 DEF Delete
    <2>2. Marked' = Marked /\ Grown' = Grown /\ Unsynced' = Unsynced
      BY <2>1 DEF Marked, Grown, Unsynced
    <2>3. Listed(files') \subseteq Listed(files)
      BY <2>1, ListedWithout
    <2>4. Held' \subseteq Held /\ Recoverable' \subseteq Recoverable
      BY <1>1, <2>2, <2>3 DEF Held, Recoverable
    <2> QED
      BY <1>1, <2>2, <2>4, SizeShrinks
  <1> QED
    BY <1>3, <1>4, <1>5

LEMMA SizeSteps ==
    ASSUME WholeInv, SizeInv,
           \/ WriteTmp \/ RenameTmp \/ RenameFails \/ DiskFails
           \/ SyncDir \/ SyncDirFails \/ SaveReturns
           \/ \E i \in RecordIDs : DropOne(i)
    PROVE  SizeInv'
  <1>0. CallOK /\ call \in CallType /\ Seen(files) = files
    BY SeenIsWhole DEF WholeInv, CallOK
  <1>1. CASE WriteTmp
    <2>1. /\ call.step = "write" /\ call'.step = "rename"
          /\ call'.kind = call.kind /\ call'.id = call.id
          /\ UNCHANGED <<files, disk, failures>>
      BY <1>0, <1>1 DEF WriteTmp, WritesTmp, CallType, boundVars
    <2>2. Marked' = Marked /\ Grown' = Grown /\ Unsynced' = Unsynced
      BY <2>1 DEF Marked, Grown, Unsynced
    <2>3. Held' \subseteq Held /\ Recoverable' \subseteq Recoverable
      BY <2>1, <2>2 DEF Held, Recoverable
    <2> QED
      BY <2>1, <2>2, <2>3, SizeShrinks
  <1>2. CASE RenameTmp
    <2> DEFINE i == call.id
    <2>1. /\ i \in RecordIDs /\ call.step = "rename"
          /\ files' = [files EXCEPT ![i] = call.rec]
          /\ call'.step = "syncdir" /\ call'.kind = call.kind
          /\ UNCHANGED <<disk, failures>>
      BY <1>0, <1>2 DEF RenameTmp, writeRecordAtomic, GoesTo, CallOK, CallType, boundVars
    <2>2. Listed(files') \subseteq Listed(files) \cup {i} /\ Marked' = {}
      <3>1. \A k \in RecordIDs : k # i => files'[k] = files[k]
        BY <2>1 DEF WholeInv, Whole, Directory
      <3> QED
        BY <2>1, <3>1 DEF Listed, Readable, Marked
    <2>3. CASE call.kind = "mark"
      <3>1. Marked = {i} /\ Grown = 0 /\ Unsynced = 0 /\ Grown' = 0 /\ Unsynced' = 0
        BY <2>1, <2>3 DEF Marked, Grown, Unsynced
      <3>2. Held' \subseteq Held /\ Recoverable' \subseteq Recoverable
        BY <2>1, <2>2, <3>1 DEF Held, Recoverable
      <3> QED
        BY <2>1, <3>1, <3>2, SizeShrinks
    <2>4. CASE call.kind # "mark"
      <3>1. call.kind = "save"
        BY <1>0, <2>1, <2>4 DEF CallOK, CallType
      <3>2. Grown = 0 /\ Unsynced = 0 /\ Grown' = 1 /\ Unsynced' = 1
        BY <2>1, <3>1 DEF Grown, Unsynced
      <3>3. Held' \subseteq Held \cup {i} /\ Recoverable' \subseteq Recoverable \cup {i}
        BY <2>1, <2>2 DEF Held, Recoverable
      <3> HIDE DEF i
      <3>4. /\ Cardinality(Held') \in Nat /\ Cardinality(Recoverable') \in Nat
            /\ Cardinality(Held') <= Cardinality(Held) + 1
            /\ Cardinality(Recoverable') <= Cardinality(Recoverable) + 1
        BY <2>1, <3>3, HeldType, OneRecordMore
      <3>5. /\ Cardinality(Held') <= MaxRecords + 2 * failures' + Grown'
            /\ Cardinality(Recoverable') <= MaxRecords + 1 + 2 * failures' + Unsynced'
        BY <2>1, <3>2, <3>4, SizeFacts
      <3> QED
        BY <2>1, <3>5, SizeFacts DEF SizeInv, Held, Recoverable
    <2> QED
      BY <2>3, <2>4
  <1>3. CASE RenameFails
    <2>1. call.step = "rename" /\ call' = NoCall /\ UNCHANGED <<files, disk, failures>>
      BY <1>3 DEF RenameFails, CallFails
    <2>2. /\ Marked' = {} /\ Grown' = 0 /\ Unsynced' = 0
          /\ Grown = 0 /\ Unsynced = 0
      BY <2>1, NoCallOK DEF Marked, Grown, Unsynced
    <2>3. Held' \subseteq Held /\ Recoverable' \subseteq Recoverable
      BY <2>1, <2>2 DEF Held, Recoverable
    <2> QED
      BY <2>1, <2>2, <2>3, SizeShrinks
  <1>4. CASE DiskFails
    <2>1. call' = NoCall /\ UNCHANGED <<files, disk>> /\ failures' = failures + 1
      BY <1>4 DEF DiskFails, CallFails
    <2>2. Marked' = {}
      BY <2>1, NoCallOK DEF Marked
    <2>3. Held' \subseteq Held /\ Recoverable' \subseteq Recoverable
      BY <2>1, <2>2 DEF Held, Recoverable
    <2> QED
      BY <2>1, <2>3, SizeFails
  <1>5. CASE SyncDir
    <2>1. /\ call.step = "syncdir" /\ UNCHANGED <<files, failures>> /\ disk' = files
          /\ IF call.kind = "save" THEN call'.step = "enforce" /\ call'.kind = "save"
                                   ELSE call' = NoCall
      BY <1>0, <1>5 DEF SyncDir, AfterSyncDir, GoesTo, CallType
    <2>2. Marked' = {} /\ Grown' = Grown /\ Unsynced' = 0
      BY <1>0, <2>1, NoCallOK DEF Marked, Grown, Unsynced, CallOK, CallType
    <2>3. Held' \subseteq Held /\ Recoverable' \subseteq Held
      BY <2>1, <2>2 DEF Held, Recoverable
    <2>4. /\ Cardinality(Held') \in Nat /\ Cardinality(Recoverable') \in Nat
          /\ Cardinality(Held') <= Cardinality(Held)
          /\ Cardinality(Recoverable') <= Cardinality(Held)
      BY <2>3, HeldType, FewerRecords
    <2>5. /\ Cardinality(Held') <= MaxRecords + 2 * failures' + Grown'
          /\ Cardinality(Recoverable') <= MaxRecords + 1 + 2 * failures' + Unsynced'
      BY <2>1, <2>2, <2>4, SizeFacts
    <2> QED
      BY <2>1, <2>5, SizeFacts DEF SizeInv, Held, Recoverable
  <1>6. CASE SyncDirFails
    <2>1. /\ call.step = "syncdir" /\ UNCHANGED <<files, disk>>
          /\ failures' = failures + 1
          /\ call'.step = "enforce" \/ call' = NoCall
      BY <1>0, <1>6 DEF SyncDirFails, AfterSyncDir, GoesTo, CallType
    <2>2. Marked' = {}
      BY <2>1, NoCallOK DEF Marked
    <2>3. Held' \subseteq Held /\ Recoverable' \subseteq Recoverable
      BY <2>1, <2>2 DEF Held, Recoverable
    <2> QED
      BY <2>1, <2>3, SizeFails
  <1>7. CASE SaveReturns
    <2>1. /\ call.step = "enforce" /\ call' = NoCall /\ UNCHANGED <<files, disk, failures>>
          /\ Cardinality(Listed(files)) <= MaxRecords
      BY <1>0, <1>7 DEF SaveReturns, FitsLimits, WithinLimits, fileVars, boundVars
    <2>2. Marked' = {} /\ Marked = {} /\ Unsynced' = 0 /\ Grown' = 0 /\ Unsynced = 0
      BY <2>1, NoCallOK DEF Marked, Grown, Unsynced
    <2>3. Held' = Listed(files) /\ Recoverable' = Recoverable
      BY <2>1, <2>2 DEF Held, Recoverable
    <2>4. /\ Cardinality(Held') <= MaxRecords + 2 * failures' + Grown'
          /\ Cardinality(Recoverable') <= MaxRecords + 1 + 2 * failures' + Unsynced'
      <3>1. Cardinality(Held') \in Nat
        BY HeldType, <2>2, <2>3, FewerRecords DEF Held
      <3> QED
        BY <2>1, <2>2, <2>3, <3>1, SizeFacts
    <2> QED
      BY <2>1, <2>4, SizeFacts DEF SizeInv, Held, Recoverable
  <1>8. ASSUME NEW i \in RecordIDs, DropOne(i)
        PROVE  SizeInv'
    <2>1. /\ call.step = "enforce" /\ files' = Without(files, {i})
          /\ UNCHANGED <<disk, failures>>
          /\ call'.step = "enforce" /\ call'.kind \in {call.kind, "dropped"}
      BY <1>0, <1>8 DEF DropOne, CallType, boundVars
    <2>2. call.kind \in {"save", "dropped"}
      BY <1>0, <2>1 DEF CallOK, CallType
    <2>3. Marked' = Marked /\ Grown' = Grown /\ Unsynced' = Unsynced
      BY <2>1, <2>2 DEF Marked, Grown, Unsynced
    <2>4. Listed(files') \subseteq Listed(files)
      BY <2>1, ListedWithout
    <2>5. Held' \subseteq Held /\ Recoverable' \subseteq Recoverable
      BY <2>1, <2>3, <2>4 DEF Held, Recoverable
    <2> QED
      BY <2>1, <2>3, <2>5, SizeShrinks
  <1> QED
    BY <1>1, <1>2, <1>3, <1>4, <1>5, <1>6, <1>7, <1>8

\* A power failure leaves at most what is in the files and on the disk.
LEMMA SizeFailures ==
    ASSUME WholeInv, SizeInv, Crash \/ PowerLoss
    PROVE  SizeInv'
  <1>1. call' = NoCall /\ failures' = failures + 1
    BY DEF Crash, PowerLoss, AgentDies
  <1>2. Marked' = {} /\ Grown' = 0 /\ Unsynced' = 0
    BY <1>1, NoCallOK DEF Marked, Grown, Unsynced
  <1>3. CASE Crash
    <2>1. UNCHANGED <<files, disk>>
      BY <1>3 DEF Crash, fileVars
    <2>2. Held' \subseteq Held /\ Recoverable' \subseteq Recoverable
      BY <1>2, <2>1 DEF Held, Recoverable
    <2> QED
      BY <1>1, <2>2, SizeFails
  <1>4. CASE PowerLoss
    <2>1. PICK kept \in SUBSET RecordIDs :
            files' = [i \in RecordIDs |-> IF i \notin kept THEN disk[i] ELSE files[i]]
      BY <1>4 DEF PowerLoss, WholeInv
    <2>2. Listed(files') \subseteq Listed(files) \cup Listed(disk) /\ disk' = files'
      BY <1>4, <2>1 DEF PowerLoss, Listed, Readable
    <2>3. Held' \subseteq Recoverable /\ Recoverable' \subseteq Recoverable
      BY <1>2, <2>2 DEF Held, Recoverable
    <2>4. /\ Cardinality(Held') \in Nat /\ Cardinality(Recoverable') \in Nat
          /\ Cardinality(Held') <= Cardinality(Recoverable)
          /\ Cardinality(Recoverable') <= Cardinality(Recoverable)
      BY <2>3, HeldType, FewerRecords
    <2>5. /\ Cardinality(Held') <= MaxRecords + 2 * failures' + Grown'
          /\ Cardinality(Recoverable') <= MaxRecords + 1 + 2 * failures' + Unsynced'
          /\ failures' \in Nat
      BY <1>1, <1>2, <2>4, SizeFacts
    <2> QED
      BY <2>5 DEF SizeInv, Held, Recoverable
  <1> QED
    BY <1>3, <1>4

LEMMA SizeNext == WholeInv /\ SizeInv /\ [Next]_vars => SizeInv'
  <1> SUFFICES ASSUME WholeInv, SizeInv, [Next]_vars PROVE SizeInv'
    OBVIOUS
  <1>1. CASE UNCHANGED vars \/ Reconfigure
    <2>1. UNCHANGED <<files, disk, call, failures>>
      BY <1>1 DEF vars, Reconfigure, fileVars, boundVars
    <2>2. /\ Held' = Held /\ Recoverable' = Recoverable
          /\ Grown' = Grown /\ Unsynced' = Unsynced
      BY <2>1 DEF Held, Recoverable, Marked, Grown, Unsynced
    <2> QED
      BY <2>1, <2>2, SizeShrinks
  <1>2. CASE Next
    BY <1>1, <1>2, SizeLoads, SizeCalls, SizeSteps, SizeFailures DEF Next, StoreStep
  <1> QED
    BY <1>1, <1>2

\* store.go enforceLimitsLocked and Load: however often the agent is killed or
\* the power fails, the outbox is over its limit by no more than one record
\* for a Save under way and two for each failure.
THEOREM OverfullByFailuresHolds == Spec => []OverfullByFailures
  <1>1. WholeInv /\ SizeInv => OverfullByFailures
    <2> SUFFICES ASSUME WholeInv, SizeInv PROVE OverfullByFailures
      OBVIOUS
    <2>1. Cardinality(Listed(files)) <= Cardinality(Held) /\ Cardinality(Listed(files)) \in Nat
      BY HeldType, FewerRecords DEF Held
    <2>2. Seen(files) = files
      BY SeenIsWhole DEF WholeInv
    <2> QED
      BY <2>1, <2>2, SizeFacts DEF OverfullByFailures
  <1> QED
    BY <1>1, WholeInit, WholeNext, SizeInit, SizeNext, PTL DEF Spec

-----------------------------------------------------------------------------
(* What has left the outbox for good.                                      *)

\* A store call that has not renamed yet writes no result that is gone.
GoneInv ==
    /\ gone \subseteq saved
    /\ GoneStaysGone
    /\ call.step \in {"write", "rename"} => call.rec.env \notin gone

LEMMA HoldingWithout ==
    ASSUME NEW f, NEW ids, NEW r, Holding(Without(f, ids), r)
    PROVE  Holding(f, r)
  BY DEF Holding, Without

LEMMA HoldingWrite ==
    ASSUME NEW f \in Directory, NEW i \in RecordIDs, NEW rec, NEW r,
           Holding(writeRecordAtomic(f, i, rec), r)
    PROVE  Holding(f, r) \/ rec.env = r
  BY DEF Holding, writeRecordAtomic, Directory

\* Steps that bring no result into a file and begin no call.
LEMMA GoneShrinks ==
    ASSUME GoneInv, UNCHANGED <<gone, saved, disk>>,
           files' = files \/ \E ids : files' = Without(files, ids),
           \/ call' = call
           \/ call'.step \notin {"write", "rename"}
           \/ call'.rec = call.rec /\ call.step \in {"write", "rename"}
    PROVE  GoneInv'
  <1>1. \A r : Holding(files', r) => Holding(files, r)
    BY HoldingWithout
  <1>2. GoneStaysGone'
    BY <1>1 DEF GoneInv, GoneStaysGone, Holding
  <1> QED
    BY <1>2 DEF GoneInv

LEMMA GoneLoads ==
    ASSUME GoneInv, Run \/ Doctor \/ \E p \in Processes : LoadStep(p)
    PROVE  GoneInv'
  <1>1. UNCHANGED <<gone, saved, disk, call>>
    BY DEF Run, Doctor, LoadStep, LoadRemovesTmp, LoadReads, LoadQuarantines, LoadEnds,
           fileVars, promiseVars
  <1>2. files' = files \/ \E p \in Processes : files' = Without(files, {loading[p].bad})
    BY DEF Run, Doctor, LoadStep, LoadRemovesTmp, LoadReads, LoadQuarantines, LoadEnds,
           fileVars
  <1> QED
    BY <1>1, <1>2, GoneShrinks

\* Save is called for a result that was never saved, MarkFailure for one that
\* is in a file.
LEMMA GoneCalls ==
    ASSUME WholeInv, GoneInv,
           \/ \E r \in Results : SaveBegins(r)
           \/ \E i \in RecordIDs : MarkFailureBegins(i) \/ Delete(i)
    PROVE  GoneInv'
  <1>0. Whole(files) /\ Seen(files) = files
    BY SeenIsWhole DEF WholeInv
  <1>1. ASSUME NEW kind, NEW i, NEW rec, Begins(kind, i, rec), rec.env \notin gone,
               saved \subseteq saved'
        PROVE  GoneInv'
    <2>1. UNCHANGED <<gone, files, disk>> /\ call'.rec = rec
      BY <1>1 DEF Begins, fileVars
    <2> QED
      BY <1>1, <2>1 DEF GoneInv, GoneStaysGone, Holding
  <1>2. ASSUME NEW r \in Results, SaveBegins(r)
        PROVE  GoneInv'
    <2>1. Replacing(Seen(files), r, 0).env = r /\ r \notin gone /\ saved \subseteq saved'
      BY <1>0, <1>2, ReplacingRecord DEF SaveBegins, GoneInv
    <2> QED
      BY <1>1, <1>2, <2>1 DEF SaveBegins
  <1>3. ASSUME NEW i \in RecordIDs, MarkFailureBegins(i)
        PROVE  GoneInv'
    <2> DEFINE rec == [files[i] EXCEPT !.attempts = @ + 1]
    <2>1. files[i] # NoFile
      BY <1>0, <1>3 DEF MarkFailureBegins, Readable
    <2>2. files[i] \in Record
      BY <1>0, <2>1 DEF Whole, Directory
    <2>3. files[i] # Torn /\ rec.env = files[i].env
      BY <2>2, RecordIsWhole DEF Record
    <2>4. rec.env \notin gone
      BY <2>1, <2>3 DEF GoneInv, GoneStaysGone, Holding
    <2> QED
      BY <1>1, <1>3, <2>4 DEF MarkFailureBegins
  <1>4. ASSUME NEW i \in RecordIDs, Delete(i)
        PROVE  GoneInv'
    BY <1>4, GoneShrinks DEF Delete
  <1> QED
    BY <1>2, <1>3, <1>4

LEMMA GoneSteps ==
    ASSUME WholeInv, GoneInv,
           \/ WriteTmp \/ RenameTmp \/ RenameFails \/ DiskFails
           \/ SyncDir \/ SyncDirFails \/ SaveReturns
           \/ \E i \in RecordIDs : DropOne(i)
    PROVE  GoneInv'
  <1>0. /\ files \in Directory /\ call \in CallType
        /\ call.step # "none" => call.id \in RecordIDs
    BY DEF WholeInv, Whole, CallOK
  <1>1. CASE WriteTmp
    <2>1. UNCHANGED <<gone, saved, disk, files>> /\ call'.rec = call.rec
          /\ call.step \in {"write", "rename"}
      BY <1>0, <1>1 DEF WriteTmp, WritesTmp, promiseVars, CallType
    <2> QED
      BY <2>1, GoneShrinks
  <1>2. CASE RenameTmp
    <2>1. /\ call.step = "rename" /\ call.id \in RecordIDs
          /\ files' = writeRecordAtomic(files, call.id, call.rec)
          /\ UNCHANGED <<gone, saved, disk>> /\ call'.step = "syncdir"
      BY <1>0, <1>2 DEF RenameTmp, GoesTo, CallType
    <2>2. call.rec.env \notin gone
      BY <2>1 DEF GoneInv
    <2>3. \A r \in gone : ~Holding(files', r)
      BY <1>0, <2>1, <2>2, HoldingWrite DEF GoneInv, GoneStaysGone
    <2>4. GoneStaysGone'
      BY <2>1, <2>3 DEF GoneInv, GoneStaysGone, Holding
    <2> QED
      BY <2>1, <2>4 DEF GoneInv
  <1>3. CASE RenameFails \/ DiskFails \/ SaveReturns
    <2>1. UNCHANGED <<gone, saved, disk, files>> /\ call' = NoCall
      BY <1>3 DEF RenameFails, DiskFails, CallFails, SaveReturns, promiseVars, fileVars
    <2> QED
      BY <2>1, NoCallOK, GoneShrinks
  <1>4. CASE SyncDir
    <2>1. UNCHANGED <<saved, files>> /\ disk' = files /\ gone' = Missing(files)
      BY <1>4 DEF SyncDir, AfterSyncDir
    <2>2. call'.step \notin {"write", "rename"}
      BY <1>0, <1>4, NoCallOK DEF SyncDir, AfterSyncDir, GoesTo, CallType
    <2> QED
      BY <2>1, <2>2 DEF GoneInv, GoneStaysGone, Missing, Holding
  <1>5. CASE SyncDirFails
    <2>1. UNCHANGED <<gone, saved, files, disk>>
      BY <1>5 DEF SyncDirFails, AfterSyncDir
    <2>2. call'.step \notin {"write", "rename"}
      BY <1>0, <1>5, NoCallOK DEF SyncDirFails, AfterSyncDir, GoesTo, CallType
    <2> QED
      BY <2>1, <2>2, GoneShrinks
  <1>6. ASSUME NEW i \in RecordIDs, DropOne(i)
        PROVE  GoneInv'
    <2>1. UNCHANGED <<gone, saved, disk>> /\ files' = Without(files, {i})
      BY <1>6 DEF DropOne
    <2>2. call'.step \notin {"write", "rename"}
      BY <1>0, <1>6 DEF DropOne, CallType
    <2> QED
      BY <2>1, <2>2, GoneShrinks
  <1> QED
    BY <1>1, <1>2, <1>3, <1>4, <1>5, <1>6

\* What a power failure brings back is not gone, what it does not is.
LEMMA GoneFailures ==
    ASSUME GoneInv, Crash \/ PowerLoss
    PROVE  GoneInv'
  <1>1. call'.step \notin {"write", "rename"} /\ saved' = saved
    BY NoCallOK DEF Crash, PowerLoss, AgentDies
  <1>2. CASE Crash
    BY <1>1, <1>2, GoneShrinks DEF Crash, fileVars
  <1>3. CASE PowerLoss
    <2>1. gone' = Missing(files') /\ disk' = files'
      BY <1>3 DEF PowerLoss
    <2> QED
      BY <1>1, <2>1 DEF GoneInv, GoneStaysGone, Missing, Holding
  <1> QED
    BY <1>2, <1>3

\* store.go:172-185: Delete, the limits and Load do not sync the directory, so
\* that a result which was sent may be sent again after a power failure; once
\* a later write has synced the directory, no sequence of calls, errors, kills
\* and power failures brings it back.
THEOREM GoneStaysGoneHolds == Spec => []GoneStaysGone
  <1>1. Init => GoneInv
    BY NoCallOK DEF Init, GoneInv, GoneStaysGone
  <1>2. WholeInv /\ GoneInv /\ [Next]_vars => GoneInv'
    <2> SUFFICES ASSUME WholeInv, GoneInv, [Next]_vars PROVE GoneInv'
      OBVIOUS
    <2>1. CASE UNCHANGED vars \/ Reconfigure
      BY <2>1, GoneShrinks DEF vars, Reconfigure, fileVars, promiseVars
    <2>2. CASE Next
      BY <2>1, <2>2, GoneLoads, GoneCalls, GoneSteps, GoneFailures DEF Next, StoreStep
    <2> QED
      BY <2>1, <2>2
  <1>3. GoneInv => GoneStaysGone
    BY DEF GoneInv
  <1> QED
    BY <1>1, <1>2, <1>3, WholeInit, WholeNext, PTL DEF Spec
=============================================================================
