----------------------- MODULE ResultDispatcherProofs -----------------------
(***************************************************************************)
(* Proofs about the dispatcher over the outbox, for every set of callers,  *)
(* results and record ids, shared or not, and every number of crashes.     *)
(***************************************************************************)
EXTENDS ResultDispatcher, OutboxProofs

\* store.go Due: what a pass gets are the records now on file, due, and each
\* of a different file.
LEMMA DueFacts ==
    ASSUME StoreTypeOK, NEW due \in Due(files, now, BatchLimit)
    PROVE  /\ due \in Seq(Record)
           /\ \A k \in 1 .. Len(due) :
                /\ due[k].env \in Saved
                /\ due[k] = files[RecordIDOf(due[k].env)]
                /\ due[k].next <= now
           /\ \A j, k \in 1 .. Len(due) :
                j # k => RecordIDOf(due[j].env) # RecordIDOf(due[k].env)
  <1> DEFINE ripe == Ripe(files, now)
             size == BatchSize(files, now, BatchLimit)
  <1>1. PICK ids \in [1 .. size -> ripe] :
          /\ OldestFirst(files, ripe, ids)
          /\ due = [k \in DOMAIN ids |-> files[ids[k]]]
    BY DEF Due
  <1>2. size \in Nat
    <2>1. IsFiniteSet(ripe)
      BY RecordIDsFinite, FS_Subset DEF Listed, Ripe
    <2> QED
      BY <2>1, FS_CardinalityType, BatchLimitPositive DEF BatchSize
  <1>3. \A i \in ripe : /\ i \in RecordIDs /\ files[i] \in Record
                        /\ files[i].env \in Saved
                        /\ RecordIDOf(files[i].env) = i
                        /\ files[i].next <= now
    BY DEF Ripe, Listed, Readable, StoreTypeOK
  <1> HIDE DEF ripe, size
  <1>4. due \in Seq(Record) /\ Len(due) = size
    BY <1>1, <1>2, <1>3
  <1>5. \A k \in 1 .. size : ids[k] \in ripe /\ due[k] = files[ids[k]]
    BY <1>1
  <1>6. \A j, k \in 1 .. size : j # k => ids[j] # ids[k]
    BY <1>1, <1>2 DEF OldestFirst
  <1> QED
    BY <1>3, <1>4, <1>5, <1>6

\* The first record of a batch that is not empty, and the rest of it.
LEMMA BatchHeadTail ==
    ASSUME NEW s \in Seq(Record), s # <<>>
    PROVE  /\ Len(s) \in Nat /\ 1 \in 1 .. Len(s) /\ Head(s) = s[1] /\ Head(s) \in Record
           /\ Tail(s) \in Seq(Record) /\ Len(Tail(s)) = Len(s) - 1
           /\ \A k \in 1 .. Len(Tail(s)) :
                k + 1 \in 1 .. Len(s) /\ Tail(s)[k] = s[k + 1]
  OBVIOUS

\* A caller outside a pass.
LEMMA NotListedType == NotListed \in [at : Time, saved : SUBSET Saved]
  BY BoundsNat DEF NotListed, Time

PassStages == {"list", "loop", "send", "failed", "sent"}

\* The flag and the stages: taking the flag, moving on inside the pass,
\* returning, and the moves of a caller outside it.
LEMMA BeginKeepsOnePass ==
    ASSUME OnePass, pc \in [Callers -> Stages], NEW c \in Callers,
           ~sending, GoTo(c, "list"), sending' = TRUE
    PROVE  OnePass'
  BY DEF OnePass, InPass, GoTo, Stages

LEMMA MoveKeepsOnePass ==
    ASSUME OnePass, pc \in [Callers -> Stages], NEW c \in Callers,
           NEW s \in Stages, (s \in PassStages) <=> InPass(c),
           GoTo(c, s), sending' = sending
    PROVE  OnePass'
  <1>1. \A d \in Callers : InPass(d)' <=> InPass(d)
    BY DEF InPass, GoTo, Stages, PassStages
  <1> QED
    BY <1>1 DEF OnePass

LEMMA ReturnKeepsOnePass ==
    ASSUME OnePass, pc \in [Callers -> Stages], NEW c \in Callers,
           InPass(c), GoTo(c, "idle"), sending' = FALSE
    PROVE  OnePass'
  <1>1. \A d \in Callers : ~InPass(d)'
    BY DEF InPass, GoTo, Stages, OnePass
  <1> QED
    BY <1>1 DEF OnePass

\* A step that leaves the store alone, and forgets nothing the cloud has,
\* keeps what is said of the store.
LEMMA QuietKeepsStore ==
    ASSUME DispatchInv, UNCHANGED storeVars,
           received \subseteq received', written \subseteq written'
    PROVE  StoreTypeOK' /\ SoleResultAccounted'
  BY DEF DispatchInv, TypeOK, StoreTypeOK, SoleResultAccounted, storeVars, clockVars,
         Saved, Sole, Pending, Settled

\* Returning from DispatchOnce at any point of the pass keeps the invariant.
LEMMA ReturnKeepsInv ==
    ASSUME DispatchInv, NEW c \in Callers, InPass(c), Return(c)
    PROVE  DispatchInv'
  <1>1. /\ UNCHANGED <<files, now, latest, savedAt, dropped>>
        /\ UNCHANGED <<wsSender, crashes, written, received>>
        /\ batch' = [batch EXCEPT ![c] = <<>>]
        /\ listed' = [listed EXCEPT ![c] = NotListed]
        /\ via' = [via EXCEPT ![c] = "none"]
        /\ pc' = [pc EXCEPT ![c] = "idle"]
        /\ sending' = FALSE
    BY DEF Return, storeVars, clockVars, netVars, cloudVars, GoTo
  <1>2. TypeOK
    BY DEF DispatchInv
  <1>3. StoreTypeOK' /\ SoleResultAccounted'
    BY <1>1, QuietKeepsStore DEF storeVars, clockVars
  <1>4. \A d \in Callers : batch'[d] = <<>> \/ (d # c /\ batch'[d] = batch[d])
    BY <1>1, <1>2 DEF TypeOK
  <1>5. \A d \in Callers : d # c => pc'[d] = pc[d]
    BY <1>1, <1>2 DEF TypeOK
  <1>6. pc'[c] = "idle"
    BY <1>1, <1>2 DEF TypeOK
  <1>7. Saved' = Saved
    BY <1>1 DEF Saved
  <1>8. TypeOK'
    <2>1. pc' \in [Callers -> Stages] /\ via' \in [Callers -> {"websocket", "pull", "none"}]
      BY <1>1, <1>2 DEF TypeOK, Stages
    <2>2. batch' \in [Callers -> Seq(Record)]
      BY <1>1, <1>2 DEF TypeOK
    <2>3. ASSUME NEW d \in Callers
          PROVE  /\ \A k \in 1 .. Len(batch'[d]) : batch'[d][k].env \in Saved'
                 /\ pc'[d] \in {"send", "failed", "sent"} => batch'[d] # <<>>
      <3>1. CASE d = c
        BY <1>4, <1>6, <3>1
      <3>2. CASE d # c
        BY <1>1, <1>2, <1>5, <1>7, <3>2 DEF TypeOK
      <3> QED
        BY <3>1, <3>2
    <2>4. listed' \in [Callers -> [at : Time, saved : SUBSET Saved']]
      BY <1>1, <1>2, <1>7, NotListedType DEF TypeOK
    <2> QED
      BY <1>1, <1>2, <1>3, <1>7, <2>1, <2>2, <2>3, <2>4 DEF TypeOK
  <1>9. OnePass'
    BY <1>1, <1>2, ReturnKeepsOnePass DEF DispatchInv, TypeOK, GoTo
  <1>10. IdleHasNoBatch'
    BY <1>4, <1>5 DEF DispatchInv, IdleHasNoBatch, InPass
  <1>11. BatchDistinct'
    BY <1>1, <1>4 DEF DispatchInv, BatchDistinct
  <1>12. BatchDue'
    <2> SUFFICES ASSUME NEW d \in Callers, NEW k \in 1 .. Len(batch'[d]),
                        NEW r, r = batch'[d][k].env, files'[RecordIDOf(r)] # NoFile
                 PROVE  \/ files'[RecordIDOf(r)].next <= listed'[d].at
                        \/ files'[RecordIDOf(r)].attempts = 0 /\ files'[RecordIDOf(r)].env # r
      BY DEF BatchDue, DueWhenListed
    <2>1. d # c /\ batch'[d] = batch[d] /\ listed'[d] = listed[d]
      BY <1>1, <1>2, <1>4 DEF TypeOK
    <2> QED
      BY <1>1, <2>1 DEF DispatchInv, BatchDue, DueWhenListed
  <1>13. SentIsOut'
    BY <1>1, <1>4, <1>5, <1>6 DEF DispatchInv, SentIsOut, At, Current
  <1> QED
    BY <1>3, <1>8, <1>9, <1>10, <1>11, <1>12, <1>13 DEF DispatchInv

\* Only the caller that holds the flag has a batch.
LEMMA OthersHaveNoBatch ==
    ASSUME DispatchInv, NEW c \in Callers, InPass(c), NEW d \in Callers, d # c
    PROVE  ~InPass(d) /\ batch[d] = <<>>
  BY DEF DispatchInv, OnePass, IdleHasNoBatch

\* The record a pass is working on.
LEMMA CurrentFacts ==
    ASSUME DispatchInv, NEW c \in Callers,
           pc[c] \in {"send", "failed", "sent"}
    PROVE  /\ batch[c] \in Seq(Record) /\ batch[c] # <<>>
           /\ Current(c) = batch[c][1].env
           /\ Current(c) \in Saved /\ Current(c) \in Results
           /\ RecordIDOf(Current(c)) \in RecordIDs
  <1>1. batch[c] \in Seq(Record) /\ batch[c] # <<>>
    BY DEF DispatchInv, TypeOK
  <1>2. 1 \in 1 .. Len(batch[c]) /\ Current(c) = batch[c][1].env
    BY <1>1, BatchHeadTail DEF Current
  <1>3. Current(c) \in Saved
    BY <1>2 DEF DispatchInv, TypeOK
  <1> QED
    BY <1>1, <1>2, <1>3, CommandOfType, SanitizedIDType DEF Saved, RecordIDOf

\* Going on to the next record after a step of the store that touched only
\* the file of the current one.
LEMMA NextRecordKeepsPass ==
    ASSUME DispatchInv, NEW c \in Callers, pc[c] \in {"failed", "sent"},
           NextRecord(c), StoreTypeOK',
           UNCHANGED <<now, latest, savedAt, dropped>>,
           \A i \in RecordIDs : i # RecordIDOf(Current(c)) => files'[i] = files[i]
    PROVE  /\ TypeOK' /\ OnePass' /\ IdleHasNoBatch'
           /\ BatchDistinct' /\ BatchDue' /\ SentIsOut'
  <1>1. /\ UNCHANGED <<wsSender, crashes, written, received, sending, listed>>
        /\ batch' = [batch EXCEPT ![c] = Tail(@)]
        /\ via' = [via EXCEPT ![c] = "none"]
        /\ pc' = [pc EXCEPT ![c] = "loop"]
    BY DEF NextRecord, netVars, cloudVars, GoTo
  <1>2. /\ TypeOK /\ InPass(c)
    BY DEF DispatchInv, InPass
  <1>3. /\ batch[c] \in Seq(Record) /\ batch[c] # <<>>
        /\ Current(c) = batch[c][1].env
    BY CurrentFacts
  <1>4. batch'[c] = Tail(batch[c]) /\ pc'[c] = "loop"
    BY <1>1, <1>2 DEF TypeOK
  <1>5. ASSUME NEW d \in Callers, d # c
        PROVE  /\ batch'[d] = batch[d] /\ pc'[d] = pc[d]
               /\ batch[d] = <<>> /\ ~InPass(d)
    BY <1>1, <1>2, <1>5, OthersHaveNoBatch DEF TypeOK
  <1>6. /\ Len(batch[c]) \in Nat /\ 1 \in 1 .. Len(batch[c])
        /\ batch'[c] \in Seq(Record) /\ Len(batch'[c]) = Len(batch[c]) - 1
        /\ \A k \in 1 .. Len(batch'[c]) :
             k + 1 \in 1 .. Len(batch[c]) /\ batch'[c][k] = batch[c][k + 1]
    BY <1>3, <1>4, BatchHeadTail
  <1>7. Saved' = Saved
    BY DEF Saved
  <1>8. TypeOK'
    <2>1. batch' \in [Callers -> Seq(Record)]
      BY <1>1, <1>2, <1>4, <1>6 DEF TypeOK
    <2>2. pc' \in [Callers -> Stages] /\ via' \in [Callers -> {"websocket", "pull", "none"}]
      BY <1>1, <1>2 DEF TypeOK, Stages
    <2>3. ASSUME NEW d \in Callers
          PROVE  /\ \A k \in 1 .. Len(batch'[d]) : batch'[d][k].env \in Saved'
                 /\ pc'[d] \in {"send", "failed", "sent"} => batch'[d] # <<>>
      <3>1. CASE d = c
        BY <1>2, <1>4, <1>6, <1>7, <3>1 DEF TypeOK
      <3>2. CASE d # c
        BY <1>2, <1>5, <1>7, <3>2 DEF TypeOK
      <3> QED
        BY <3>1, <3>2
    <2> QED
      BY <1>1, <1>2, <1>7, <2>1, <2>2, <2>3 DEF TypeOK
  <1>9. OnePass'
    BY <1>1, <1>2, MoveKeepsOnePass DEF DispatchInv, TypeOK, GoTo, Stages, PassStages
  <1>10. IdleHasNoBatch'
    BY <1>4, <1>5 DEF IdleHasNoBatch, InPass
  <1>11. BatchDistinct'
    <2> SUFFICES ASSUME NEW d \in Callers, NEW j \in 1 .. Len(batch'[d]),
                        NEW k \in 1 .. Len(batch'[d]), j # k
                 PROVE  RecordIDOf(batch'[d][j].env) # RecordIDOf(batch'[d][k].env)
      BY DEF BatchDistinct
    <2>1. d = c
      BY <1>5
    <2>2. /\ j + 1 \in 1 .. Len(batch[c]) /\ batch'[c][j] = batch[c][j + 1]
          /\ k + 1 \in 1 .. Len(batch[c]) /\ batch'[c][k] = batch[c][k + 1]
          /\ j + 1 # k + 1
      <3>1. j \in 1 .. Len(batch'[c]) /\ k \in 1 .. Len(batch'[c])
        BY <2>1
      <3>2. j + 1 \in 1 .. Len(batch[c]) /\ batch'[c][j] = batch[c][j + 1]
        BY <1>6, <3>1
      <3>3. k + 1 \in 1 .. Len(batch[c]) /\ batch'[c][k] = batch[c][k + 1]
        BY <1>6, <3>1
      <3>4. j + 1 # k + 1
        OBVIOUS
      <3> QED
        BY <3>2, <3>3, <3>4
    <2>3. RecordIDOf(batch[c][j + 1].env) # RecordIDOf(batch[c][k + 1].env)
      BY <2>2 DEF DispatchInv, BatchDistinct
    <2> QED
      BY <2>1, <2>2, <2>3
  <1>12. BatchDue'
    <2> SUFFICES ASSUME NEW d \in Callers, NEW k \in 1 .. Len(batch'[d]),
                        NEW r, r = batch'[d][k].env, files'[RecordIDOf(r)] # NoFile
                 PROVE  \/ files'[RecordIDOf(r)].next <= listed'[d].at
                        \/ files'[RecordIDOf(r)].attempts = 0 /\ files'[RecordIDOf(r)].env # r
      BY DEF BatchDue, DueWhenListed
    <2>1. d = c
      BY <1>5
    <2>2. k + 1 \in 1 .. Len(batch[c]) /\ batch'[c][k] = batch[c][k + 1] /\ k + 1 # 1
      BY <1>6, <2>1
    <2> DEFINE i == RecordIDOf(batch[c][k + 1].env)
    <2>3. i # RecordIDOf(Current(c))
      <3>1. \A j, n \in 1 .. Len(batch[c]) :
              j # n => RecordIDOf(batch[c][j].env) # RecordIDOf(batch[c][n].env)
        BY DEF DispatchInv, BatchDistinct
      <3> QED
        BY <1>3, <1>6, <2>2, <3>1
    <2>4. i \in RecordIDs
      BY <1>2, <2>2, CommandOfType, SanitizedIDType DEF TypeOK, Saved, RecordIDOf
    <2>5. files'[i] = files[i]
      BY <2>3, <2>4
    <2>6. r = batch[c][k + 1].env /\ RecordIDOf(r) = i /\ listed'[d] = listed[c]
      BY <1>1, <2>1, <2>2
    <2>7. files[i] # NoFile =>
            files[i].next <= listed[c].at \/ (files[i].attempts = 0 /\ files[i].env # r)
      <3>1. \A j \in 1 .. Len(batch[c]) :
              files[RecordIDOf(batch[c][j].env)] # NoFile =>
                DueWhenListed(c, RecordIDOf(batch[c][j].env), batch[c][j].env)
        BY DEF DispatchInv, BatchDue
      <3>2. files[i] # NoFile => DueWhenListed(c, i, batch[c][k + 1].env)
        BY <2>2, <3>1
      <3> QED
        BY <2>6, <3>2 DEF DueWhenListed
    <2> HIDE DEF i
    <2> QED
      BY <2>5, <2>6, <2>7
  <1>13. SentIsOut'
    BY <1>4, <1>5 DEF SentIsOut, At, InPass
  <1> QED
    BY <1>8, <1>9, <1>10, <1>11, <1>12, <1>13

\* MarkFailure keeps the result in its file.
LEMMA RecordFailureKeepsInv ==
    ASSUME DispatchInv, NEW c \in Callers, RecordFailure(c)
    PROVE  DispatchInv'
  <1> DEFINE n == RecordIDOf(Current(c))
  <1>1. /\ pc[c] = "failed" /\ MarkFailure(n) /\ NextRecord(c)
        /\ n \in RecordIDs /\ StoreTypeOK
    BY CurrentFacts DEF RecordFailure, At, DispatchInv, TypeOK
  <1>2. /\ StoreTypeOK'
        /\ now' = now /\ latest' = latest /\ savedAt' = savedAt /\ dropped' = dropped
        /\ \A k \in RecordIDs \ {n} : files'[k] = files[k]
        /\ files'[n] # NoFile /\ files[n] # NoFile
        /\ files'[n].env = files[n].env
    BY <1>1, MarkFailureFacts
  <1> HIDE DEF n
  <1>3. /\ TypeOK' /\ OnePass' /\ IdleHasNoBatch'
        /\ BatchDistinct' /\ BatchDue' /\ SentIsOut'
    BY <1>1, <1>2, NextRecordKeepsPass DEF n
  <1>4. received' = received /\ written' = written
    BY <1>1 DEF NextRecord, cloudVars
  <1>5. ASSUME NEW r \in Results PROVE Pending(r) => Pending(r)'
    <2>1. RecordIDOf(r) \in RecordIDs
      BY CommandOfType, SanitizedIDType DEF RecordIDOf
    <2> QED
      BY <1>2, <2>1 DEF Pending
  <1>6. SoleResultAccounted'
    BY <1>2, <1>4, <1>5 DEF DispatchInv, SoleResultAccounted, Saved, Sole, Settled
  <1> QED
    BY <1>3, <1>6 DEF DispatchInv

\* Delete removes the file of a result that was sent; if it holds another
\* result by then, that result does not have its record id to itself.
LEMMA DeleteSentKeepsInv ==
    ASSUME DispatchInv, NEW c \in Callers, DeleteSent(c)
    PROVE  DispatchInv'
  <1> DEFINE n == RecordIDOf(Current(c))
  <1>1. /\ pc[c] = "sent" /\ Delete(n) /\ NextRecord(c)
        /\ n \in RecordIDs /\ StoreTypeOK /\ Current(c) \in Saved
        /\ Current(c) \in received \/ Current(c) \in written
    BY CurrentFacts DEF DeleteSent, At, DispatchInv, TypeOK, SentIsOut
  <1>2. /\ StoreTypeOK'
        /\ now' = now /\ latest' = latest /\ savedAt' = savedAt /\ dropped' = dropped
        /\ \A k \in RecordIDs : k # n => files'[k] = files[k]
    BY <1>1, WithoutFacts DEF Delete, clockVars
  <1> HIDE DEF n
  <1>3. /\ TypeOK' /\ OnePass' /\ IdleHasNoBatch'
        /\ BatchDistinct' /\ BatchDue' /\ SentIsOut'
    BY <1>1, <1>2, NextRecordKeepsPass DEF n
  <1>4. received' = received /\ written' = written
    BY <1>1 DEF NextRecord, cloudVars
  <1>5. ASSUME NEW r \in Saved, Sole(r), Pending(r), ~Pending(r)'
        PROVE  Settled(r)
    <2>1. RecordIDOf(r) \in RecordIDs
      BY CommandOfType, SanitizedIDType DEF RecordIDOf, Saved
    <2>2. RecordIDOf(r) = n
      BY <1>2, <1>5, <2>1 DEF Pending
    <2>3. r = Current(c)
      BY <1>1, <1>5, <2>2 DEF Sole, n
    <2> QED
      BY <1>1, <2>3 DEF Settled
  <1>6. SoleResultAccounted'
    <2> SUFFICES ASSUME NEW r \in Saved', Sole(r)', CommandOf[r] # NoID,
                        ~Pending(r)'
                 PROVE  Settled(r)'
      BY DEF SoleResultAccounted
    <2>1. r \in Saved /\ Sole(r)
      BY <1>2 DEF Saved, Sole
    <2>2. Pending(r) \/ Settled(r)
      BY <2>1 DEF DispatchInv, SoleResultAccounted
    <2>3. Settled(r)
      BY <1>5, <2>1, <2>2
    <2> QED
      BY <1>2, <1>4, <2>3 DEF Settled
  <1> QED
    BY <1>3, <1>6 DEF DispatchInv

\* A step of a caller that keeps its batch and leaves the store alone.
LEMMA StageKeepsInv ==
    ASSUME DispatchInv, NEW c \in Callers, NEW s \in Stages, GoTo(c, s),
           UNCHANGED <<files, now, latest, savedAt, dropped>>, batch' = batch, listed' = listed,
           OnePass', InPass(c)' \/ batch[c] = <<>>,
           via' \in [Callers -> {"websocket", "pull", "none"}],
           sending' \in BOOLEAN, wsSender' \in BOOLEAN, crashes' = crashes,
           received \subseteq received', received' \subseteq Saved,
           written \subseteq written', written' \subseteq Saved,
           s \in {"send", "failed", "sent"} => batch[c] # <<>>,
           s = "sent" => Current(c) \in received' \/ Current(c) \in written'
    PROVE  DispatchInv'
  <1>1. TypeOK
    BY DEF DispatchInv
  <1>2. /\ pc'[c] = s /\ pc' \in [Callers -> Stages]
        /\ \A d \in Callers : d # c => pc'[d] = pc[d]
    BY <1>1 DEF TypeOK, GoTo
  <1>3. StoreTypeOK' /\ SoleResultAccounted'
    BY QuietKeepsStore DEF storeVars, clockVars
  <1>4. Saved' = Saved
    BY DEF Saved
  <1>5. TypeOK'
    BY <1>1, <1>2, <1>3, <1>4 DEF TypeOK
  <1>6. IdleHasNoBatch'
    BY <1>2 DEF DispatchInv, IdleHasNoBatch, InPass
  <1>7. BatchDistinct' /\ BatchDue'
    BY DEF DispatchInv, BatchDistinct, BatchDue, DueWhenListed
  <1>8. SentIsOut'
    BY <1>2 DEF DispatchInv, SentIsOut, At, Current
  <1> QED
    BY <1>3, <1>5, <1>6, <1>7, <1>8 DEF DispatchInv

\* Enqueue saves the result first.  A result that stays alone under its
\* record id is not touched by saving another one, except by the limits.
LEMMA EnqueueKeepsInv ==
    ASSUME DispatchInv, NEW c \in Enqueuers, NEW r \in Results \ Saved, Enqueue(c, r)
    PROVE  DispatchInv'
  <1> DEFINE n == RecordIDOf(r)
  <1>1. /\ Save(r) /\ pc[c] = "idle" /\ GoTo(c, "saved")
        /\ UNCHANGED <<batch, listed, via, sending, wsSender, crashes, written, received>>
        /\ TypeOK /\ StoreTypeOK /\ c \in Callers
    BY DEF Enqueue, At, netVars, cloudVars, DispatchInv, TypeOK, Callers
  <1>2. /\ StoreTypeOK' /\ now' = now
        /\ Saved' = Saved \cup {r}
        /\ dropped \subseteq dropped'
        /\ \/ files'[n] = NoFile /\ r \in dropped'
           \/ /\ files'[n] = Replacing(files, r, now)
              /\ files'[n] # NoFile
              /\ files'[n].env = r
        /\ \A i \in RecordIDs \ {n} :
             \/ files'[i] = files[i]
             \/ files'[i] = NoFile /\ files[i] # NoFile
                /\ files[i].env \in dropped'
    BY <1>1, SaveFacts
  <1>3. n \in RecordIDs
    BY CommandOfType, SanitizedIDType DEF RecordIDOf
  <1>4. /\ pc' \in [Callers -> Stages] /\ pc'[c] = "saved"
        /\ \A d \in Callers : d # c => pc'[d] = pc[d]
    BY <1>1 DEF TypeOK, GoTo, Stages
  <1>5. TypeOK'
    BY <1>1, <1>2, <1>4 DEF TypeOK
  <1>6. OnePass'
    BY <1>1, MoveKeepsOnePass DEF DispatchInv, TypeOK, InPass, Stages, PassStages
  <1>7. IdleHasNoBatch' /\ BatchDistinct' /\ SentIsOut'
    BY <1>1, <1>4 DEF DispatchInv, IdleHasNoBatch, BatchDistinct, SentIsOut,
                      InPass, At, Current
  <1>8. BatchDue'
    <2> SUFFICES ASSUME NEW d \in Callers, NEW k \in 1 .. Len(batch[d]),
                        NEW q, q = batch[d][k].env, files'[RecordIDOf(q)] # NoFile
                 PROVE  \/ files'[RecordIDOf(q)].next <= listed[d].at
                        \/ files'[RecordIDOf(q)].attempts = 0 /\ files'[RecordIDOf(q)].env # q
      BY <1>1 DEF BatchDue, DueWhenListed
    <2> DEFINE i == RecordIDOf(q)
    <2>1. i \in RecordIDs /\ q \in Saved
      BY <1>1, CommandOfType, SanitizedIDType DEF TypeOK, Saved, RecordIDOf
    <2>2. files[i] # NoFile => DueWhenListed(d, i, q)
      BY DEF DispatchInv, BatchDue
    <2>3. q # r
      BY <2>1
    <2>4. CASE i # n
      BY <1>1, <1>2, <2>1, <2>2, <2>4 DEF DueWhenListed
    <2>5. CASE i = n
      <3>1. files'[n] = Replacing(files, r, now)
        BY <1>2, <2>5
      <3>2. CASE Readable(files, n)
        <4>1. files'[n] = [files[n] EXCEPT !.env = r]
          BY <3>1, <3>2 DEF Replacing
        <4>2. files[n] # NoFile /\ files[n] \in Record
          BY <1>1, <1>3, <3>2 DEF Readable, StoreTypeOK
        <4>3. /\ files'[n].next = files[n].next /\ files'[n].env = r
              /\ files'[n].attempts = files[n].attempts
          BY <4>1, <4>2 DEF Record
        <4> QED
          BY <1>1, <2>2, <2>3, <2>5, <4>2, <4>3 DEF DueWhenListed
      <3>3. CASE ~Readable(files, n)
        <4>1. files'[n] = NewRecord(r, now)
          BY <3>1, <3>3 DEF Replacing
        <4>2. files'[n].attempts = 0 /\ files'[n].env = r
          BY <4>1 DEF NewRecord
        <4> QED
          BY <2>3, <2>5, <4>2
      <3> QED
        BY <3>2, <3>3
    <2> QED
      BY <2>4, <2>5
  <1>9. SoleResultAccounted'
    <2> SUFFICES ASSUME NEW q \in Saved', Sole(q)', CommandOf[q] # NoID
                 PROVE  Pending(q)' \/ Settled(q)'
      BY DEF SoleResultAccounted
    <2>1. CASE q = r
      BY <1>2, <2>1 DEF Pending, Settled
    <2>2. CASE q # r
      <3>1. q \in Saved /\ Sole(q) /\ RecordIDOf(q) # n
        BY <1>2, <2>2 DEF Sole
      <3>2. RecordIDOf(q) \in RecordIDs
        BY <3>1, CommandOfType, SanitizedIDType DEF RecordIDOf, Saved
      <3>3. Pending(q) \/ Settled(q)
        BY <3>1 DEF DispatchInv, SoleResultAccounted
      <3>4. CASE Pending(q)
        BY <1>2, <3>1, <3>2, <3>4 DEF Pending, Settled
      <3>5. CASE Settled(q)
        BY <1>1, <1>2, <3>5 DEF Settled
      <3> QED
        BY <3>3, <3>4, <3>5
    <2> QED
      BY <2>1, <2>2
  <1> QED
    BY <1>5, <1>6, <1>7, <1>8, <1>9 DEF DispatchInv

\* A pass starts with the records that are due now.
LEMMA ListDueKeepsInv ==
    ASSUME DispatchInv, NEW c \in Callers, ListDue(c)
    PROVE  DispatchInv'
  <1>1. PICK due \in Due(files, now, BatchLimit) :
          batch' = [batch EXCEPT ![c] = due]
    BY DEF ListDue
  <1>2. /\ listed' = [listed EXCEPT ![c] = [at |-> now, saved |-> Saved]]
        /\ pc[c] = "list" /\ pc' = [pc EXCEPT ![c] = "loop"]
        /\ UNCHANGED <<files, now, latest, savedAt, dropped>>
        /\ UNCHANGED <<via, sending, wsSender, crashes, written, received>>
        /\ TypeOK /\ StoreTypeOK /\ InPass(c)
    BY DEF ListDue, At, GoTo, storeVars, clockVars, netVars, cloudVars, DispatchInv,
           TypeOK, InPass
  <1>3. /\ due \in Seq(Record)
        /\ \A k \in 1 .. Len(due) :
             /\ due[k].env \in Saved
             /\ due[k] = files[RecordIDOf(due[k].env)]
             /\ due[k].next <= now
        /\ \A j, k \in 1 .. Len(due) :
             j # k => RecordIDOf(due[j].env) # RecordIDOf(due[k].env)
    BY <1>2, DueFacts
  <1>4. StoreTypeOK' /\ SoleResultAccounted' /\ Saved' = Saved
    BY <1>2, QuietKeepsStore DEF storeVars, clockVars, Saved
  <1>5. batch'[c] = due /\ pc'[c] = "loop" /\ pc' \in [Callers -> Stages]
        /\ batch' \in [Callers -> Seq(Record)]
        /\ listed'[c].at = now
    BY <1>1, <1>2, <1>3 DEF TypeOK, Stages
  <1>6. ASSUME NEW d \in Callers, d # c
        PROVE  /\ batch'[d] = batch[d] /\ pc'[d] = pc[d]
               /\ batch[d] = <<>> /\ ~InPass(d)
    BY <1>1, <1>2, <1>6, OthersHaveNoBatch DEF TypeOK
  <1>7. TypeOK'
    <2>1. ASSUME NEW d \in Callers
          PROVE  /\ \A k \in 1 .. Len(batch'[d]) : batch'[d][k].env \in Saved'
                 /\ pc'[d] \in {"send", "failed", "sent"} => batch'[d] # <<>>
      <3>1. CASE d = c
        BY <1>3, <1>4, <1>5, <3>1
      <3>2. CASE d # c
        BY <1>2, <1>4, <1>6, <3>2 DEF TypeOK
      <3> QED
        BY <3>1, <3>2
    <2>2. listed' \in [Callers -> [at : Time, saved : SUBSET Saved']]
      <3>1. [at |-> now, saved |-> Saved] \in [at : Time, saved : SUBSET Saved]
        BY <1>2 DEF StoreTypeOK
      <3> QED
        BY <1>2, <1>4, <3>1 DEF TypeOK
    <2> QED
      BY <1>2, <1>4, <1>5, <2>1, <2>2 DEF TypeOK
  <1>8. OnePass'
    BY <1>2, MoveKeepsOnePass DEF DispatchInv, TypeOK, GoTo, Stages, PassStages
  <1>9. IdleHasNoBatch'
    BY <1>5, <1>6 DEF IdleHasNoBatch, InPass
  <1>10. BatchDistinct'
    BY <1>3, <1>5, <1>6 DEF BatchDistinct
  <1>11. BatchDue'
    BY <1>2, <1>3, <1>5, <1>6 DEF BatchDue, DueWhenListed
  <1>12. SentIsOut'
    BY <1>5, <1>6 DEF SentIsOut, At, InPass
  <1> QED
    BY <1>4, <1>7, <1>8, <1>9, <1>10, <1>11, <1>12 DEF DispatchInv

\* Every step of a call of DispatchOnce keeps the invariant.
LEMMA PassStepKeepsInv ==
    ASSUME DispatchInv, NEW c \in Callers, PassStep(c)
    PROVE  DispatchInv'
  <1>0. /\ TypeOK /\ OnePass /\ pc \in [Callers -> Stages]
        /\ via \in [Callers -> {"websocket", "pull", "none"}]
        /\ sending \in BOOLEAN /\ wsSender \in BOOLEAN
        /\ received \subseteq Saved /\ written \subseteq Saved
    BY DEF DispatchInv, TypeOK
  <1>1. CASE SkipPass(c)
    <2>1. batch[c] = <<>> /\ ~InPass(c)
      BY <1>1 DEF SkipPass, At, InPass, DispatchInv, IdleHasNoBatch
    <2>2. OnePass'
      BY <1>0, <1>1, <2>1, MoveKeepsOnePass DEF SkipPass, Stages, PassStages
    <2> QED
      BY <1>0, <1>1, <2>1, <2>2, StageKeepsInv
         DEF SkipPass, storeVars, clockVars, netVars, cloudVars, Stages
  <1>2. CASE BeginPass(c)
    <2>1. batch[c] = <<>>
      BY <1>2 DEF BeginPass, At, InPass, DispatchInv, IdleHasNoBatch
    <2>2. OnePass'
      BY <1>0, <1>2, BeginKeepsOnePass DEF BeginPass
    <2> QED
      BY <1>0, <1>2, <2>1, <2>2, StageKeepsInv
         DEF BeginPass, storeVars, clockVars, netVars, cloudVars, Stages
  <1>3. CASE ListDue(c)
    BY <1>3, ListDueKeepsInv
  <1>4. CASE BeginSend(c)
    <2>1. InPass(c) /\ SenderName \in {"websocket", "pull", "none"}
      BY <1>4 DEF BeginSend, At, InPass, SenderName
    <2>2. OnePass'
      BY <1>0, <1>4, <2>1, MoveKeepsOnePass DEF BeginSend, Stages, PassStages
    <2>3. via' \in [Callers -> {"websocket", "pull", "none"}]
      BY <1>0, <1>4, <2>1 DEF BeginSend
    <2>4. InPass(c)'
      BY <1>0, <1>4 DEF BeginSend, GoTo, InPass
    <2> QED
      BY <1>0, <1>4, <2>2, <2>3, <2>4, StageKeepsInv
         DEF BeginSend, storeVars, clockVars, netVars, cloudVars, Stages
  <1>5. CASE SendOK(c)
    <2>1. InPass(c) /\ Current(c) \in Saved /\ batch[c] # <<>>
      BY <1>5, CurrentFacts DEF SendOK, At, InPass
    <2>2. OnePass'
      BY <1>0, <1>5, <2>1, MoveKeepsOnePass DEF SendOK, Stages, PassStages
    <2>3. /\ received \subseteq received' /\ received' \subseteq Saved
          /\ written \subseteq written' /\ written' \subseteq Saved
          /\ Current(c) \in received' \/ Current(c) \in written'
      BY <1>0, <1>5, <2>1 DEF SendOK
    <2>4. InPass(c)'
      BY <1>0, <1>5 DEF SendOK, GoTo, InPass
    <2> QED
      BY <1>0, <1>5, <2>1, <2>2, <2>3, <2>4, StageKeepsInv
         DEF SendOK, storeVars, clockVars, netVars, Stages
  <1>6. CASE SendError(c)
    <2>1. InPass(c) /\ Current(c) \in Saved /\ batch[c] # <<>>
      BY <1>6, CurrentFacts DEF SendError, At, InPass
    <2>2. OnePass'
      BY <1>0, <1>6, <2>1, MoveKeepsOnePass DEF SendError, Stages, PassStages
    <2>3. received \subseteq received' /\ received' \subseteq Saved
      BY <1>0, <1>6, <2>1 DEF SendError
    <2>4. InPass(c)'
      BY <1>0, <1>6 DEF SendError, GoTo, InPass
    <2> QED
      BY <1>0, <1>6, <2>1, <2>2, <2>3, <2>4, StageKeepsInv
         DEF SendError, storeVars, clockVars, netVars, Stages
  <1>7. CASE RecordFailure(c)
    BY <1>7, RecordFailureKeepsInv
  <1>8. CASE DeleteSent(c)
    BY <1>8, DeleteSentKeepsInv
  <1>9. CASE EndPass(c) \/ CancelPass(c) \/ FailureNotRecorded(c) \/ StoreError(c)
    <2>1. InPass(c) /\ Return(c)
      BY <1>9 DEF EndPass, CancelPass, FailureNotRecorded, StoreError, At, InPass
    <2> QED
      BY <2>1, ReturnKeepsInv
  <1> QED
    BY <1>1, <1>2, <1>3, <1>4, <1>5, <1>6, <1>7, <1>8, <1>9 DEF PassStep

\* No caller has a batch.
LEMMA EmptyBatches ==
    LET none == [c \in Callers |-> <<>>] IN
    none \in [Callers -> Seq(Record)] /\ \A c \in Callers : Len(none[c]) = 0
  <1>1. <<>> \in Seq(Record) /\ Len(<<>>) = 0
    OBVIOUS
  <1> QED
    BY <1>1

\* A crash forgets the passes and keeps the files that can be read.
LEMMA CrashKeepsInv ==
    ASSUME DispatchInv, CrashRestart
    PROVE  DispatchInv'
  <1>1. /\ files' = Without(files, RecordIDs \ Listed(files))
        /\ UNCHANGED <<now, latest, savedAt, dropped, written, received>>
        /\ crashes' = crashes + 1 /\ crashes < MaxCrashes
        /\ pc' = [c \in Callers |-> "idle"]
        /\ batch' = [c \in Callers |-> <<>>]
        /\ listed' = [c \in Callers |-> NotListed]
        /\ via' = [c \in Callers |-> "none"]
        /\ sending' = FALSE /\ wsSender' = FALSE
    BY DEF CrashRestart, Load, clockVars, cloudVars
  <1>2. TypeOK /\ StoreTypeOK
    BY DEF DispatchInv, TypeOK
  <1>3. /\ StoreTypeOK' /\ Saved' = Saved
        /\ \A i \in RecordIDs :
             files'[i] = (IF i \in RecordIDs \ Listed(files) THEN NoFile ELSE files[i])
    BY <1>1, <1>2, WithoutFacts DEF Saved
  <1>4. TypeOK'
    <2>1. batch' \in [Callers -> Seq(Record)] /\ \A c \in Callers : Len(batch'[c]) = 0
      BY <1>1, EmptyBatches
    <2>2. crashes' \in 0 .. MaxCrashes /\ pc' \in [Callers -> Stages]
          /\ via' \in [Callers -> {"websocket", "pull", "none"}]
          /\ \A c \in Callers : pc'[c] = "idle"
      BY <1>1, <1>2, MaxCrashesNat DEF TypeOK, Stages
    <2>3. ASSUME NEW c \in Callers
          PROVE  /\ \A k \in 1 .. Len(batch'[c]) : batch'[c][k].env \in Saved'
                 /\ pc'[c] \in {"send", "failed", "sent"} => batch'[c] # <<>>
      BY <2>1, <2>2
    <2>4. listed' \in [Callers -> [at : Time, saved : SUBSET Saved']]
      BY <1>1, <1>3, NotListedType
    <2> QED
      BY <1>1, <1>2, <1>3, <2>1, <2>2, <2>3, <2>4 DEF TypeOK
  <1>5. OnePass' /\ IdleHasNoBatch' /\ BatchDistinct' /\ BatchDue' /\ SentIsOut'
    BY <1>1 DEF OnePass, IdleHasNoBatch, BatchDistinct, BatchDue, SentIsOut,
                InPass, At
  <1>6. ASSUME NEW r \in Saved, CommandOf[r] # NoID, Pending(r)
        PROVE  Pending(r)'
    <2>1. RecordIDOf(r) \in RecordIDs
      BY CommandOfType, SanitizedIDType DEF RecordIDOf, Saved
    <2>2. RecordIDOf(r) \in Listed(files)
      BY <1>6, <2>1 DEF Pending, Listed, Readable
    <2> QED
      BY <1>3, <1>6, <2>1, <2>2 DEF Pending
  <1>7. SoleResultAccounted'
    BY <1>1, <1>3, <1>6 DEF DispatchInv, SoleResultAccounted, Sole, Settled
  <1> QED
    BY <1>4, <1>5, <1>7 DEF DispatchInv

\* The first state of a process with an empty directory.
LEMMA InitInv == Init => DispatchInv
  <1> SUFFICES ASSUME Init PROVE DispatchInv
    OBVIOUS
  <1>1. StoreTypeOK /\ Saved = {}
    BY StoreInitFacts DEF Init, StoreInit, Saved
  <1>2. TypeOK
    <2>1. batch \in [Callers -> Seq(Record)] /\ \A c \in Callers : Len(batch[c]) = 0
      BY EmptyBatches DEF Init
    <2>2. pc \in [Callers -> Stages] /\ \A c \in Callers : pc[c] = "idle"
      BY DEF Init, Stages
    <2>3. ASSUME NEW c \in Callers
          PROVE  /\ \A k \in 1 .. Len(batch[c]) : batch[c][k].env \in Saved
                 /\ pc[c] \in {"send", "failed", "sent"} => batch[c] # <<>>
      BY <2>1, <2>2
    <2>4. crashes \in 0 .. MaxCrashes
      BY MaxCrashesNat DEF Init
    <2>5. sending \in BOOLEAN /\ wsSender \in BOOLEAN
      BY Zenon DEF Init
    <2>6. written \in SUBSET Saved /\ received \in SUBSET Saved
          /\ via \in [Callers -> {"websocket", "pull", "none"}]
          /\ listed \in [Callers -> [at : Time, saved : SUBSET Saved]]
      BY NotListedType DEF Init
    <2> QED
      BY <1>1, <2>1, <2>2, <2>3, <2>4, <2>5, <2>6 DEF TypeOK
  <1>3. OnePass /\ IdleHasNoBatch /\ BatchDistinct /\ BatchDue /\ SentIsOut
    BY DEF Init, OnePass, IdleHasNoBatch, BatchDistinct, BatchDue, SentIsOut,
           InPass, At
  <1>4. SoleResultAccounted
    BY <1>1 DEF SoleResultAccounted
  <1> QED
    BY <1>2, <1>3, <1>4 DEF DispatchInv

\* Every step of the dispatcher, its callers, the network, the clock and the
\* process keeps the invariant.
LEMMA NextInv == DispatchInv /\ [Next]_vars => DispatchInv'
  <1> SUFFICES ASSUME DispatchInv, [Next]_vars PROVE DispatchInv'
    OBVIOUS
  <1>1. ASSUME NEW c \in Enqueuers, NEW r \in Results \ Saved, Enqueue(c, r)
        PROVE  DispatchInv'
    BY <1>1, EnqueueKeepsInv
  <1>2. ASSUME NEW c \in Callers, PassStep(c) PROVE DispatchInv'
    BY <1>2, PassStepKeepsInv
  <1>3. ASSUME NEW up \in BOOLEAN, SetWebSocketSender(up) PROVE DispatchInv'
    <2>1. /\ UNCHANGED <<storeVars, pc, batch, listed, via, sending, crashes, written, received>>
          /\ wsSender' \in BOOLEAN
      BY <1>3 DEF SetWebSocketSender, passVars, cloudVars
    <2>2. StoreTypeOK' /\ SoleResultAccounted' /\ Saved' = Saved
      BY <2>1, QuietKeepsStore DEF storeVars, clockVars, Saved
    <2> QED
      BY <2>1, <2>2 DEF DispatchInv, TypeOK, OnePass, IdleHasNoBatch,
         BatchDistinct, BatchDue, DueWhenListed, SentIsOut, InPass, At, Current,
         storeVars, clockVars
  <1>4. ASSUME NEW t \in Time, ClockMoves(t) PROVE DispatchInv'
    <2>1. /\ Clock(t) /\ UNCHANGED <<files, savedAt, dropped>>
          /\ UNCHANGED <<pc, batch, listed, via, sending, wsSender, crashes, written, received>>
          /\ StoreTypeOK /\ TypeOK
      BY <1>4 DEF ClockMoves, Clock, passVars, netVars, cloudVars, DispatchInv,
                  TypeOK
    <2>2. StoreTypeOK' /\ Saved' = Saved
      BY <2>1, ClockFacts DEF Saved
    <2>3. TypeOK' /\ OnePass' /\ IdleHasNoBatch' /\ BatchDistinct' /\ SentIsOut'
      BY <2>1, <2>2 DEF DispatchInv, TypeOK, OnePass, IdleHasNoBatch,
         BatchDistinct, SentIsOut, InPass, At, Current
    <2>4. SoleResultAccounted'
      BY <2>1, <2>2 DEF DispatchInv, SoleResultAccounted, Sole, Pending, Settled
    <2>5. BatchDue'
      BY <2>1 DEF DispatchInv, BatchDue, DueWhenListed
    <2> QED
      BY <2>3, <2>4, <2>5 DEF DispatchInv
  <1>5. CASE CrashRestart
    BY <1>5, CrashKeepsInv
  <1>6. CASE UNCHANGED vars
    <2>1. UNCHANGED <<storeVars, pc, batch, listed, via, sending, wsSender, crashes, written, received>>
      BY <1>6 DEF vars, passVars, netVars, cloudVars
    <2>2. StoreTypeOK' /\ SoleResultAccounted' /\ Saved' = Saved
      BY <2>1, QuietKeepsStore DEF storeVars, clockVars, Saved
    <2> QED
      BY <2>1, <2>2 DEF DispatchInv, TypeOK, OnePass, IdleHasNoBatch,
         BatchDistinct, BatchDue, DueWhenListed, SentIsOut, InPass, At, Current,
         storeVars, clockVars
  <1> QED
    BY <1>1, <1>2, <1>3, <1>4, <1>5, <1>6 DEF Next

\* The inductive invariant holds in every reachable state.
THEOREM DispatchSafe == Spec => []DispatchInv
  BY InitInv, NextInv, PTL DEF Spec

\* At most one goroutine is inside DispatchOnce past the sending flag, and
\* no return leaves the flag set.
THEOREM OnePassHolds == Spec => []OnePass
  <1>1. DispatchInv => OnePass
    BY DEF DispatchInv
  <1> QED
    BY <1>1, DispatchSafe, PTL

\* A record that is being sent was due when its pass listed it, and has not
\* been put off since, wherever the clock was set.
THEOREM NoEarlyRetryHolds == Spec => []NoEarlyRetry
  <1>1. DispatchInv => NoEarlyRetry
    <2> SUFFICES ASSUME DispatchInv, NEW c \in Callers, At(c, "send"),
                        Readable(files, RecordIDOf(Current(c)))
                 PROVE  DueWhenListed(c, RecordIDOf(Current(c)), Current(c))
      BY DEF NoEarlyRetry
    <2>1. batch[c] \in Seq(Record) /\ batch[c] # <<>>
          /\ Current(c) = batch[c][1].env
      BY CurrentFacts DEF At
    <2>2. 1 \in 1 .. Len(batch[c])
      BY <2>1, BatchHeadTail
    <2>3. files[RecordIDOf(Current(c))] # NoFile
      BY DEF Readable
    <2> QED
      BY <2>1, <2>2, <2>3 DEF DispatchInv, BatchDue
  <1> QED
    BY <1>1, DispatchSafe, PTL

\* A saved result that alone uses its record id is in the outbox, or the
\* cloud has it, or a WebSocket write took it, or the limits dropped it.
THEOREM SoleResultsAccounted == Spec => []SoleResultAccounted
  <1>1. DispatchInv => SoleResultAccounted
    BY DEF DispatchInv
  <1> QED
    BY <1>1, DispatchSafe, PTL

-----------------------------------------------------------------------------
(* The dispatcher over the outbox implements the box of results.           *)

\* Every result has a command_id, and a record file of its own.
OwnFiles ==
    \A q, r \in Results :
        CommandOf[r] # NoID /\ (RecordIDOf(q) = RecordIDOf(r) => q = r)

Boxed == {r \in Results : Pending(r)}
Transmitted == received \cup written

\* store.go Save: the box takes the new result and loses what the limits drop.
LEMMA SaveAccepts ==
    ASSUME OwnFiles, StoreTypeOK, NEW r \in Results, Save(r)
    PROVE  \E out \in SUBSET (Boxed \cup {r}) :
              /\ Boxed' = (Boxed \cup {r}) \ out
              /\ dropped' = dropped \cup out
  <1> DEFINE n == RecordIDOf(r)
             f == [files EXCEPT ![n] = Replacing(files, r, now)]
             Filled == {q \in Results : f[RecordIDOf(q)] # NoFile
                                        /\ f[RecordIDOf(q)].env = q}
  <1>1. PICK gone \in SUBSET Listed(f) :
          /\ files' = Without(f, gone)
          /\ dropped' = dropped \cup {f[d].env : d \in gone}
    BY DEF Save, writeRecordAtomic
  <1>2. \A q \in Results : RecordIDOf(q) \in RecordIDs /\ CommandOf[q] # NoID
    BY CommandOfType, SanitizedIDType DEF RecordIDOf, OwnFiles
  <1>3. /\ Replacing(files, r, now) \in Record
        /\ Replacing(files, r, now).env = r
        /\ Replacing(files, r, now) # NoFile
    BY ReplacingFacts, RecordIsFile
  <1>4. /\ f[n] = Replacing(files, r, now)
        /\ \A i \in RecordIDs \ {n} : f[i] = files[i]
    BY <1>2 DEF StoreTypeOK
  <1>5. \A i \in RecordIDs : f[i] # NoFile => f[i].env \in Results /\ RecordIDOf(f[i].env) = i
    <2>1. \A i \in RecordIDs : files[i] # NoFile =>
             files[i].env \in Results /\ RecordIDOf(files[i].env) = i
      BY DEF StoreTypeOK, Saved
    <2> QED
      BY <1>3, <1>4, <2>1
  <1>6. \A i \in gone : i \in RecordIDs /\ f[i] # NoFile
    BY <1>1 DEF Listed, Readable
  <1> HIDE DEF f
  <1>7. Filled = Boxed \cup {r}
    <2>1. r \in Filled
      BY <1>3, <1>4
    <2>2. ASSUME NEW q \in Results, q # r
          PROVE  q \in Filled <=> q \in Boxed
      BY <1>2, <1>4, <2>2 DEF OwnFiles, Boxed, Pending
    <2> QED
      BY <2>1, <2>2 DEF Boxed
  <1> DEFINE out == {f[d].env : d \in gone}
  <1>8. out \subseteq Filled
    BY <1>5, <1>6
  <1>9. \A q \in Results : q \in out <=> q \in Filled /\ RecordIDOf(q) \in gone
    BY <1>5, <1>6
  <1>10. \A i \in RecordIDs : files'[i] = (IF i \in gone THEN NoFile ELSE f[i])
    BY <1>1 DEF Without
  <1>11. \A q \in Results : q \in Boxed' <=> q \in Filled /\ RecordIDOf(q) \notin gone
    BY <1>2, <1>10 DEF Boxed, Pending
  <1>12. Boxed' = Filled \ out
    BY <1>9, <1>11 DEF Boxed
  <1> QED
    BY <1>1, <1>7, <1>8, <1>12

\* Steps that keep the result of every record, drop none and send none.
LEMMA SameEnvelopes ==
    ASSUME \A r \in Results :
             files'[RecordIDOf(r)] # NoFile /\ files'[RecordIDOf(r)].env = r
             <=> files[RecordIDOf(r)] # NoFile /\ files[RecordIDOf(r)].env = r
    PROVE  Boxed' = Boxed
  BY DEF Boxed, Pending

\* What one step does to the box: it accepts, transmits or removes one result,
\* or does nothing that can be seen.
BoxStep ==
    \/ \E r \in Results \ Saved, out \in SUBSET Results :
          /\ out \subseteq Boxed \cup {r}
          /\ Boxed' = (Boxed \cup {r}) \ out
          /\ dropped' = dropped \cup out
          /\ Transmitted' = Transmitted
    \/ \E r \in Boxed \cup dropped :
          /\ Transmitted' = Transmitted \cup {r}
          /\ Boxed' = Boxed /\ dropped' = dropped
    \/ \E r \in Boxed \cap Transmitted :
          /\ Boxed' = Boxed \ {r}
          /\ Transmitted' = Transmitted /\ dropped' = dropped
    \/ Boxed' = Boxed /\ Transmitted' = Transmitted /\ dropped' = dropped

\* A result that was sent is in the box, was dropped, or was sent before.
LEMMA SendTransmits ==
    ASSUME OwnFiles, DispatchInv, NEW c \in Callers, SendOK(c) \/ SendError(c)
    PROVE  BoxStep
  <1> DEFINE r == Current(c)
  <1>1. r \in Saved /\ r \in Results
    BY CurrentFacts DEF SendOK, SendError, At
  <1>2. r \in Boxed \/ r \in Transmitted \/ r \in dropped
    <2>1. Sole(r) /\ CommandOf[r] # NoID
      BY <1>1 DEF OwnFiles, Sole, Saved
    <2> QED
      BY <1>1, <2>1 DEF DispatchInv, SoleResultAccounted, Settled, Boxed, Transmitted
  <1>3. UNCHANGED <<files, dropped>>
    BY DEF SendOK, SendError, storeVars, clockVars
  <1>4. Boxed' = Boxed
    BY <1>3 DEF Boxed, Pending
  <1>5. Transmitted' = Transmitted \/ Transmitted' = Transmitted \cup {r}
    BY DEF SendOK, SendError, Transmitted
  <1> HIDE DEF r
  <1> QED
    BY <1>2, <1>3, <1>4, <1>5 DEF BoxStep

\* Delete removes the result that was sent, since no other has its file.
LEMMA DeleteRemoves ==
    ASSUME OwnFiles, DispatchInv, NEW c \in Callers, DeleteSent(c)
    PROVE  BoxStep
  <1> DEFINE r == Current(c)
  <1>1. r \in Results /\ RecordIDOf(r) \in RecordIDs
    BY CurrentFacts DEF DeleteSent, At
  <1>2. r \in Transmitted
    BY DEF DeleteSent, DispatchInv, SentIsOut, Transmitted
  <1>3. files' = Without(files, {RecordIDOf(r)})
        /\ UNCHANGED <<dropped, received, written>>
    BY DEF DeleteSent, Delete, NextRecord, cloudVars
  <1> HIDE DEF r
  <1>4. \A q \in Results : RecordIDOf(q) \in RecordIDs /\ (RecordIDOf(q) = RecordIDOf(r) => q = r)
    BY <1>1, CommandOfType, SanitizedIDType DEF RecordIDOf, OwnFiles
  <1>5. Boxed' = Boxed \ {r}
    <2>1. \A i \in RecordIDs : files'[i] = (IF i = RecordIDOf(r) THEN NoFile ELSE files[i])
      BY <1>3 DEF Without
    <2>2. \A q \in Results : q \in Boxed' <=> q \in Boxed /\ q # r
      BY <1>4, <2>1 DEF Boxed, Pending
    <2> QED
      BY <2>2 DEF Boxed
  <1>6. Transmitted' = Transmitted
    BY <1>3 DEF Transmitted
  <1>7. CASE r \in Boxed
    BY <1>2, <1>3, <1>5, <1>6, <1>7 DEF BoxStep
  <1>8. CASE r \notin Boxed
    BY <1>3, <1>5, <1>6, <1>8 DEF BoxStep
  <1> QED
    BY <1>7, <1>8

\* MarkFailure keeps the result in its record.
LEMMA FailureKeepsBox ==
    ASSUME DispatchInv, NEW c \in Callers, RecordFailure(c)
    PROVE  BoxStep
  <1> DEFINE n == RecordIDOf(Current(c))
  <1>1. n \in RecordIDs /\ MarkFailure(n) /\ StoreTypeOK
    BY CurrentFacts DEF RecordFailure, At, DispatchInv, TypeOK
  <1>2. UNCHANGED <<received, written>>
    BY DEF RecordFailure, NextRecord, cloudVars
  <1> HIDE DEF n
  <1>3. /\ dropped' = dropped
        /\ \A k \in RecordIDs \ {n} : files'[k] = files[k]
        /\ files'[n] # NoFile /\ files[n] # NoFile /\ files'[n].env = files[n].env
    BY <1>1, MarkFailureFacts
  <1>4. \A r \in Results : RecordIDOf(r) \in RecordIDs
    BY CommandOfType, SanitizedIDType DEF RecordIDOf
  <1>5. Boxed' = Boxed
    BY <1>3, <1>4, SameEnvelopes
  <1> QED
    BY <1>2, <1>3, <1>5 DEF BoxStep, Transmitted

\* A restart quarantines only what cannot be read, and nothing in the box.
LEMMA CrashKeepsBox ==
    ASSUME OwnFiles, CrashRestart
    PROVE  BoxStep
  <1>1. /\ files' = Without(files, RecordIDs \ Listed(files))
        /\ UNCHANGED <<dropped, received, written>>
    BY DEF CrashRestart, Load, cloudVars
  <1>2. \A r \in Results : RecordIDOf(r) \in RecordIDs /\ CommandOf[r] # NoID
    BY CommandOfType, SanitizedIDType DEF RecordIDOf, OwnFiles
  <1>3. \A r \in Results :
             files'[RecordIDOf(r)] # NoFile /\ files'[RecordIDOf(r)].env = r
             <=> files[RecordIDOf(r)] # NoFile /\ files[RecordIDOf(r)].env = r
    BY <1>1, <1>2 DEF Without, Listed, Readable
  <1>4. Boxed' = Boxed
    BY <1>3, SameEnvelopes
  <1> QED
    BY <1>1, <1>4 DEF BoxStep, Transmitted

LEMMA NextIsBoxStep ==
    ASSUME OwnFiles, DispatchInv, [Next]_vars
    PROVE  BoxStep
  <1>1. ASSUME NEW c \in Enqueuers, NEW r \in Results \ Saved, Enqueue(c, r)
        PROVE  BoxStep
    <2>1. Save(r) /\ StoreTypeOK /\ UNCHANGED <<received, written>>
      BY <1>1 DEF Enqueue, DispatchInv, TypeOK, cloudVars
    <2>2. PICK out \in SUBSET (Boxed \cup {r}) :
            Boxed' = (Boxed \cup {r}) \ out /\ dropped' = dropped \cup out
      BY <2>1, SaveAccepts
    <2>3. out \in SUBSET Results /\ Transmitted' = Transmitted
      BY <2>1 DEF Boxed, Transmitted
    <2> QED
      BY <2>2, <2>3 DEF BoxStep
  <1>2. ASSUME UNCHANGED <<files, dropped, received, written>>
        PROVE  BoxStep
    BY <1>2 DEF BoxStep, Boxed, Pending, Transmitted
  <1>3. ASSUME NEW c \in Callers, PassStep(c)
        PROVE  BoxStep
    <2>1. CASE SendOK(c) \/ SendError(c)
      BY <2>1, SendTransmits
    <2>2. CASE DeleteSent(c)
      BY <2>2, DeleteRemoves
    <2>3. CASE RecordFailure(c)
      BY <2>3, FailureKeepsBox
    <2>4. CASE SkipPass(c) \/ BeginPass(c) \/ ListDue(c) \/ BeginSend(c)
      BY <1>2, <2>4 DEF SkipPass, BeginPass, ListDue, BeginSend, storeVars, clockVars, cloudVars
    <2>5. CASE EndPass(c) \/ CancelPass(c) \/ FailureNotRecorded(c) \/ StoreError(c)
      BY <1>2, <2>5 DEF EndPass, CancelPass, FailureNotRecorded, StoreError, Return,
                        storeVars, clockVars, cloudVars
    <2> QED
      BY <1>3, <2>1, <2>2, <2>3, <2>4, <2>5 DEF PassStep
  <1>4. CASE CrashRestart
    BY <1>4, CrashKeepsBox
  <1>5. CASE (\E up \in BOOLEAN : SetWebSocketSender(up)) \/ (\E t \in Time : ClockMoves(t))
             \/ UNCHANGED vars
    BY <1>2, <1>5 DEF SetWebSocketSender, ClockMoves, Clock, vars, storeVars, clockVars, cloudVars
  <1> QED
    BY <1>1, <1>3, <1>4, <1>5 DEF Next

\* result_dispatcher.go over store.go: where every result has a command_id and
\* a file of its own, what can be seen of the dispatcher, its callers, senders
\* and crashes is the box of results.
THEOREM ImplementsBoxHolds ==
    ASSUME OwnFiles
    PROVE  Spec => ImplementsBox
  <1>0. \A r \in Results : RecordIDOf(r) \in RecordIDs
    BY CommandOfType, SanitizedIDType DEF RecordIDOf
  <1>1. Init => Box!BoxInit
    <2> SUFFICES ASSUME Init PROVE Box!BoxInit
      OBVIOUS
    <2>1. \A r \in Results : ~Pending(r)
      BY <1>0 DEF Init, StoreInit, Pending
    <2> QED
      BY <2>1 DEF Init, StoreInit, Box!BoxInit
  <1>2. DispatchInv /\ [Next]_vars => [Box!BoxNext]_(Box!boxVars)
    <2> SUFFICES ASSUME DispatchInv, [Next]_vars
                 PROVE  [Box!BoxNext]_(Box!boxVars)
      OBVIOUS
    <2>1. BoxStep
      BY NextIsBoxStep
    <2>2. ASSUME NEW r \in Results \ Saved, NEW out \in SUBSET Results,
                 out \subseteq Boxed \cup {r},
                 Boxed' = (Boxed \cup {r}) \ out, dropped' = dropped \cup out,
                 Transmitted' = Transmitted
          PROVE  Box!Accept(r, out)
      <3>1. r \notin Boxed \cup Transmitted \cup dropped
        <4>1. StoreTypeOK /\ received \subseteq Saved /\ written \subseteq Saved
          BY DEF DispatchInv, TypeOK
        <4>2. \A q \in Results : Pending(q) => q \in Saved
          BY <1>0, <4>1 DEF StoreTypeOK, Pending
        <4> QED
          BY <4>1, <4>2 DEF StoreTypeOK, Boxed, Transmitted
      <3> QED
        BY <2>2, <3>1 DEF Box!Accept, Box!Accepted, Boxed, Transmitted
    <2>3. ASSUME NEW r \in Boxed \cup dropped, Transmitted' = Transmitted \cup {r},
                 Boxed' = Boxed, dropped' = dropped
          PROVE  Box!Transmit(r)
      BY <2>3 DEF Box!Transmit, Boxed, Transmitted
    <2>4. ASSUME NEW r \in Boxed \cap Transmitted, Boxed' = Boxed \ {r},
                 Transmitted' = Transmitted, dropped' = dropped
          PROVE  Box!Remove(r)
      BY <2>4 DEF Box!Remove, Boxed, Transmitted
    <2>5. ASSUME Boxed' = Boxed, Transmitted' = Transmitted, dropped' = dropped
          PROVE  UNCHANGED Box!boxVars
      BY <2>5 DEF Box!boxVars, Boxed, Transmitted
    <2>6. Boxed \subseteq Results /\ dropped \subseteq Results
      BY DEF Boxed, DispatchInv, TypeOK, StoreTypeOK, Saved
    <2>7. Box!BoxNext \/ UNCHANGED Box!boxVars
      BY <2>1, <2>2, <2>3, <2>4, <2>5, <2>6 DEF BoxStep, Box!BoxNext
    <2> QED
      BY <2>7
  <1> QED
    BY <1>1, <1>2, DispatchSafe, PTL DEF Spec, ImplementsBox, Box!BoxSpec

-----------------------------------------------------------------------------
(* The dispatcher uses the store as the store is meant to be used.         *)

LEMMA NextIsStoreStep ==
    ASSUME DispatchInv, [Next]_vars
    PROVE  [StoreNext]_storeVars
  <1>1. ASSUME NEW c \in Callers, PassStep(c) PROVE [StoreNext]_storeVars
    <2>1. CASE RecordFailure(c)
      <3>1. RecordIDOf(Current(c)) \in RecordIDs /\ MarkFailure(RecordIDOf(Current(c)))
        BY <2>1, CurrentFacts DEF RecordFailure, At
      <3> QED
        BY <3>1 DEF StoreNext
    <2>2. CASE DeleteSent(c)
      <3>1. RecordIDOf(Current(c)) \in RecordIDs /\ Delete(RecordIDOf(Current(c)))
        BY <2>2, CurrentFacts DEF DeleteSent, At
      <3> QED
        BY <3>1 DEF StoreNext
    <2>3. CASE SkipPass(c) \/ BeginPass(c) \/ ListDue(c) \/ BeginSend(c)
               \/ SendOK(c) \/ SendError(c)
      BY <2>3 DEF SkipPass, BeginPass, ListDue, BeginSend, SendOK, SendError, storeVars, clockVars
    <2>4. CASE EndPass(c) \/ CancelPass(c) \/ FailureNotRecorded(c) \/ StoreError(c)
      BY <2>4 DEF EndPass, CancelPass, FailureNotRecorded, StoreError, Return, storeVars, clockVars
    <2> QED
      BY <1>1, <2>1, <2>2, <2>3, <2>4 DEF PassStep
  <1>2. CASE \E c \in Enqueuers, r \in Results \ Saved : Enqueue(c, r)
    BY <1>2 DEF Enqueue, StoreNext
  <1>3. CASE CrashRestart \/ (\E t \in Time : ClockMoves(t))
    BY <1>3 DEF CrashRestart, ClockMoves, StoreNext
  <1>4. CASE (\E up \in BOOLEAN : SetWebSocketSender(up)) \/ UNCHANGED vars
    BY <1>4 DEF SetWebSocketSender, vars, storeVars, clockVars
  <1> QED
    BY <1>1, <1>2, <1>3, <1>4 DEF Next

\* result_dispatcher.go calls store.go: whatever callers, senders and crashes
\* do, the directory behaves as the store called in some order.
THEOREM DispatcherUsesStore == Spec => StoreSpec
  <1>1. Init => StoreInit
    BY DEF Init
  <1>2. DispatchInv /\ [Next]_vars => [StoreNext]_storeVars
    BY NextIsStoreStep
  <1> QED
    BY <1>1, <1>2, DispatchSafe, PTL DEF Spec, StoreSpec

\* So the limits, the retry times and the order of dropping hold under the
\* dispatcher, through failing sends, failing deletes, restarts and a clock
\* that is set either way.
THEOREM DispatcherKeepsLimits == Spec => [](BoundedWait /\ LimitsSlack) /\ DropsOldest
  BY DispatcherUsesStore, StoreSafe, LimitsSlackHolds, DropsOldestHolds, PTL

-----------------------------------------------------------------------------
(* Which results can be deleted unsent.                                    *)

\* The store's steps but Save: a file keeps its result or goes.
LEMMA FilesKeepResults ==
    ASSUME StoreTypeOK, [StoreNext]_storeVars
    PROVE  \/ \E r \in Results \ Saved : Save(r)
           \/ /\ savedAt' = savedAt
              /\ \A i \in RecordIDs :
                   \/ files'[i] = NoFile
                   \/ files[i] # NoFile /\ files'[i].env = files[i].env
  <1> DEFINE Kept == /\ savedAt' = savedAt
                     /\ \A i \in RecordIDs :
                          \/ files'[i] = NoFile
                          \/ files[i] # NoFile /\ files'[i].env = files[i].env
  <1>1. ASSUME NEW i \in RecordIDs, MarkFailure(i) PROVE Kept
    BY <1>1, MarkFailureFacts
  <1>2. ASSUME NEW ids, files' = Without(files, ids), UNCHANGED <<now, latest, savedAt, dropped>>
        PROVE  Kept
    BY <1>2 DEF Without
  <1>3. CASE (\E t \in Time : Clock(t)) \/ UNCHANGED storeVars
    BY <1>3 DEF Clock, storeVars, clockVars
  <1> QED
    BY <1>1, <1>2, <1>3 DEF StoreNext, Delete, Load, clockVars

\* Where the records of a batch come from: they were there before the step, in
\* the same pass, or Due has just read them from their files.
LEMMA BatchOrigin ==
    ASSUME DispatchInv, [Next]_vars,
           NEW d \in Callers, NEW k \in 1 .. Len(batch'[d])
    PROVE  \/ /\ listed'[d] = listed[d]
              /\ \E j \in 1 .. Len(batch[d]) : batch'[d][k].env = batch[d][j].env
           \/ /\ UNCHANGED storeVars
              /\ batch'[d][k].env \in Saved
              /\ files[RecordIDOf(batch'[d][k].env)].env = batch'[d][k].env
  <1> DEFINE Known == /\ listed'[d] = listed[d]
                      /\ \E j \in 1 .. Len(batch[d]) : batch'[d][k].env = batch[d][j].env
  <1>1. /\ batch \in [Callers -> Seq(Record)] /\ StoreTypeOK
        /\ listed \in [Callers -> [at : Time, saved : SUBSET Saved]]
        /\ \A c \in Callers : batch[c] \in Seq(Record)
    BY DEF DispatchInv, TypeOK
  <1>2. CASE batch' = batch /\ listed' = listed
    BY <1>2
  <1>3. ASSUME NEW c \in Callers, batch' = [batch EXCEPT ![c] = <<>>],
               listed' = [listed EXCEPT ![c] = NotListed]
        PROVE  Known
    <2>1. CASE d = c
      <3>1. batch'[d] = <<>>
        BY <1>1, <1>3, <2>1
      <3> QED
        BY <3>1
    <2>2. CASE d # c
      BY <1>1, <1>3, <2>2
    <2> QED
      BY <2>1, <2>2
  <1>4. ASSUME NEW c \in Callers, pc[c] \in {"failed", "sent"},
               batch' = [batch EXCEPT ![c] = Tail(@)], listed' = listed
        PROVE  Known
    <2>1. CASE d = c
      <3>1. batch[c] # <<>>
        BY <1>4, CurrentFacts
      <3>2. batch'[d] = Tail(batch[d])
        BY <1>1, <1>4, <2>1
      <3>3. k + 1 \in 1 .. Len(batch[d]) /\ batch'[d][k] = batch[d][k + 1]
        BY <1>1, <2>1, <3>1, <3>2, BatchHeadTail
      <3> QED
        BY <1>4, <3>3
    <2>2. CASE d # c
      BY <1>1, <1>4, <2>2
    <2> QED
      BY <2>1, <2>2
  <1>5. ASSUME NEW c \in Callers, ListDue(c)
        PROVE  \/ Known
               \/ /\ UNCHANGED storeVars
                  /\ batch'[d][k].env \in Saved
                  /\ files[RecordIDOf(batch'[d][k].env)].env = batch'[d][k].env
    <2>1. PICK due \in Due(files, now, BatchLimit) : batch' = [batch EXCEPT ![c] = due]
      BY <1>5 DEF ListDue
    <2>2. /\ UNCHANGED storeVars
          /\ listed' = [listed EXCEPT ![c] = [at |-> now, saved |-> Saved]]
      BY <1>5 DEF ListDue
    <2>3. \A n \in 1 .. Len(due) :
            due[n].env \in Saved /\ due[n] = files[RecordIDOf(due[n].env)]
      BY <1>1, DueFacts
    <2>4. CASE d = c
      <3>1. batch'[d] = due
        BY <1>1, <2>1, <2>4
      <3> QED
        BY <2>2, <2>3, <3>1
    <2>5. CASE d # c
      BY <1>1, <2>1, <2>2, <2>5
    <2> QED
      BY <2>4, <2>5
  <1>6. CASE batch' = [c \in Callers |-> <<>>]
    BY <1>6
  <1>7. ASSUME NEW c \in Callers, PassStep(c)
        PROVE  \/ batch' = batch /\ listed' = listed
               \/ /\ batch' = [batch EXCEPT ![c] = <<>>]
                  /\ listed' = [listed EXCEPT ![c] = NotListed]
               \/ /\ pc[c] \in {"failed", "sent"}
                  /\ batch' = [batch EXCEPT ![c] = Tail(@)] /\ listed' = listed
               \/ ListDue(c)
    BY <1>7 DEF PassStep, SkipPass, BeginPass, BeginSend, EndPass, CancelPass, SendOK,
                SendError, RecordFailure, FailureNotRecorded, DeleteSent, StoreError,
                Return, NextRecord, At
  <1>8. CASE \E c \in Callers : PassStep(c)
    BY <1>2, <1>3, <1>4, <1>5, <1>7, <1>8
  <1>9. CASE CrashRestart
    BY <1>6, <1>9 DEF CrashRestart
  <1>10. CASE ~CrashRestart /\ ~(\E c \in Callers : PassStep(c))
    BY <1>2, <1>10 DEF Next, Enqueue, SetWebSocketSender, ClockMoves, vars, passVars
  <1> QED
    BY <1>8, <1>9, <1>10

\* While a pass works on a snapshot of a file, the file holds that result or
\* one that was saved after the pass listed its records.
SnapshotIsOlder ==
    \A c \in Callers : \A k \in 1 .. Len(batch[c]) :
        LET q == batch[c][k].env
            i == RecordIDOf(q)
        IN  files[i] # NoFile => files[i].env = q \/ files[i].env \notin listed[c].saved

LEMMA SnapshotStep ==
    ASSUME DispatchInv, SnapshotIsOlder, [Next]_vars
    PROVE  SnapshotIsOlder'
  <1>1. /\ StoreTypeOK
        /\ \A c \in Callers : listed[c].saved \subseteq Saved
        /\ \A c \in Callers : \A k \in 1 .. Len(batch[c]) : batch[c][k].env \in Saved
        /\ \A r \in Results : RecordIDOf(r) \in RecordIDs
    BY CommandOfType, SanitizedIDType
       DEF DispatchInv, TypeOK, RecordIDOf
  <1>2. [StoreNext]_storeVars
    BY NextIsStoreStep
  <1> SUFFICES ASSUME NEW c \in Callers, NEW k \in 1 .. Len(batch'[c]), NEW q,
                      q = batch'[c][k].env, files'[RecordIDOf(q)] # NoFile
               PROVE  \/ files'[RecordIDOf(q)].env = q
                      \/ files'[RecordIDOf(q)].env \notin listed'[c].saved
    BY DEF SnapshotIsOlder
  <1>3. CASE UNCHANGED storeVars /\ files[RecordIDOf(q)].env = q
    BY <1>3 DEF storeVars
  <1>4. ASSUME NEW j \in 1 .. Len(batch[c]), q = batch[c][j].env, listed'[c] = listed[c]
        PROVE  \/ files'[RecordIDOf(q)].env = q
               \/ files'[RecordIDOf(q)].env \notin listed'[c].saved
    <2>1. q \in Saved /\ RecordIDOf(q) \in RecordIDs
      BY <1>1, <1>4 DEF Saved
    <2>2. files[RecordIDOf(q)] # NoFile =>
             \/ files[RecordIDOf(q)].env = q
             \/ files[RecordIDOf(q)].env \notin listed[c].saved
      BY <1>4 DEF SnapshotIsOlder
    <2>3. ASSUME NEW r \in Results \ Saved, Save(r)
          PROVE  \/ files'[RecordIDOf(q)] = files[RecordIDOf(q)]
                 \/ files'[RecordIDOf(q)].env = r
      <3>1. /\ files'[RecordIDOf(r)] = NoFile \/ files'[RecordIDOf(r)].env = r
            /\ \A i \in RecordIDs \ {RecordIDOf(r)} :
                 files'[i] = files[i] \/ files'[i] = NoFile
        BY <1>1, <2>3, SaveFacts
      <3> QED
        BY <2>1, <3>1
    <2>4. ASSUME NEW r \in Results \ Saved, files'[RecordIDOf(q)].env = r
          PROVE  files'[RecordIDOf(q)].env \notin listed'[c].saved
      BY <1>1, <1>4, <2>4
    <2>5. ASSUME \A i \in RecordIDs :
                   \/ files'[i] = NoFile
                   \/ files[i] # NoFile /\ files'[i].env = files[i].env
          PROVE  files[RecordIDOf(q)] # NoFile
                 /\ files'[RecordIDOf(q)].env = files[RecordIDOf(q)].env
      BY <2>1, <2>5
    <2> QED
      BY <1>1, <1>2, <1>4, <2>2, <2>3, <2>4, <2>5, FilesKeepResults
  <1> QED
    BY <1>3, <1>4, BatchOrigin

\* DispatchOnce and Save: a result that leaves the outbox neither sent nor
\* dropped shares its record id, and is replaced by Save or deleted with one
\* that a pass had listed before and sent, through errors, cancellations, crashes and limits.
THEOREM UnsentIsSharedHolds == Spec => UnsentIsShared
  <1> DEFINE Replaced(r) == \E q \in Saved' \ Saved : RecordIDOf(q) = RecordIDOf(r)
             Overtaken(r) ==
               \E c \in Callers :
                  /\ At(c, "sent") /\ Current(c) \in received \cup written
                  /\ Current(c) # r /\ RecordIDOf(Current(c)) = RecordIDOf(r)
                  /\ r \notin listed[c].saved
             Shared ==
               \A r \in Results :
                  Pending(r) /\ ~Pending(r)' /\ ~Settled(r)' =>
                    \/ \E q \in Saved' \ Saved : RecordIDOf(q) = RecordIDOf(r)
                    \/ \E c \in Callers :
                         /\ At(c, "sent") /\ Current(c) \in received \cup written
                         /\ Current(c) # r /\ RecordIDOf(Current(c)) = RecordIDOf(r)
                         /\ r \notin listed[c].saved
  <1>1. Init => SnapshotIsOlder
    <2> SUFFICES ASSUME Init PROVE SnapshotIsOlder
      OBVIOUS
    <2>1. \A c \in Callers : batch[c] = <<>>
      BY DEF Init
    <2> QED
      BY <2>1 DEF SnapshotIsOlder
  <1>2. DispatchInv /\ SnapshotIsOlder /\ [Next]_vars => SnapshotIsOlder'
    BY SnapshotStep
  <1>3. DispatchInv /\ SnapshotIsOlder /\ [Next]_vars => [Shared]_vars
    <2> SUFFICES ASSUME DispatchInv, SnapshotIsOlder, Next,
                        NEW r \in Results, Pending(r), ~Pending(r)', ~Settled(r)'
                 PROVE  Replaced(r) \/ Overtaken(r)
      OBVIOUS
    <2> DEFINE n == RecordIDOf(r)
    <2>1. /\ n \in RecordIDs /\ files[n] # NoFile /\ files[n].env = r
          /\ n \in Listed(files) /\ StoreTypeOK
      BY CommandOfType, SanitizedIDType
         DEF RecordIDOf, Pending, Listed, Readable, DispatchInv, TypeOK
    <2>2. ~(files'[n] # NoFile /\ files'[n].env = r)
      BY DEF Pending
    <2>3. ASSUME NEW c \in Callers, DeleteSent(c) PROVE Overtaken(r)
      <3> DEFINE q == Current(c)
      <3>1. /\ pc[c] = "sent" /\ files' = Without(files, {RecordIDOf(q)})
            /\ UNCHANGED <<received, written>>
        BY <2>3 DEF DeleteSent, At, NextRecord, cloudVars, Delete
      <3>2. batch[c] \in Seq(Record) /\ batch[c] # <<>> /\ q = batch[c][1].env
        BY <3>1, CurrentFacts
      <3>3. q \in received \cup written
        BY <3>1 DEF DispatchInv, SentIsOut, At
      <3> HIDE DEF q, n
      <3>4. n = RecordIDOf(q)
        BY <2>1, <2>2, <3>1 DEF Without
      <3>5. q # r
        BY <3>1, <3>3 DEF Settled
      <3>6. 1 \in 1 .. Len(batch[c])
        BY <3>2, BatchHeadTail
      <3>7. r \notin listed[c].saved
        BY <2>1, <3>2, <3>4, <3>5, <3>6 DEF SnapshotIsOlder
      <3> QED
        BY <3>1, <3>3, <3>4, <3>5, <3>7 DEF At, q, n
    <2>4. ASSUME NEW q \in Results \ Saved, Save(q) PROVE Replaced(r)
      <3>1. /\ Saved' = Saved \cup {q}
            /\ \A i \in RecordIDs \ {RecordIDOf(q)} :
                 files'[i] = files[i] \/ files[i].env \in dropped'
        BY <2>1, <2>4, SaveFacts
      <3>2. n = RecordIDOf(q)
        BY <2>1, <2>2, <3>1 DEF Settled
      <3> QED
        BY <2>4, <3>1, <3>2
    <2>5. ASSUME NEW i \in RecordIDs, MarkFailure(i) PROVE FALSE
      <3>1. /\ \A k \in RecordIDs \ {i} : files'[k] = files[k]
            /\ files'[i] # NoFile /\ files'[i].env = files[i].env
        BY <2>1, <2>5, MarkFailureFacts
      <3> QED
        BY <2>1, <2>2, <3>1
    <2>6. CASE Load
      <3> HIDE DEF n
      <3> QED
        BY <2>1, <2>2, <2>6 DEF Load, Without
    <2>7. CASE UNCHANGED files
      BY <2>1, <2>2, <2>7
    <2>8. ASSUME NEW c \in Callers, PassStep(c) PROVE Replaced(r) \/ Overtaken(r)
      <3>1. CASE RecordFailure(c)
        <4>1. RecordIDOf(Current(c)) \in RecordIDs /\ MarkFailure(RecordIDOf(Current(c)))
          BY <3>1, CurrentFacts DEF RecordFailure, At
        <4> QED
          BY <2>5, <4>1
      <3>2. CASE SkipPass(c) \/ BeginPass(c) \/ ListDue(c) \/ BeginSend(c)
                 \/ SendOK(c) \/ SendError(c)
        BY <2>7, <3>2 DEF SkipPass, BeginPass, ListDue, BeginSend, SendOK, SendError,
                          storeVars, clockVars
      <3>3. CASE EndPass(c) \/ CancelPass(c) \/ FailureNotRecorded(c) \/ StoreError(c)
        BY <2>7, <3>3 DEF EndPass, CancelPass, FailureNotRecorded, StoreError, Return,
                          storeVars, clockVars
      <3> HIDE DEF Replaced, Overtaken
      <3> QED
        BY <2>3, <2>8, <3>1, <3>2, <3>3 DEF PassStep
    <2>9. CASE \E c \in Enqueuers, q \in Results \ Saved : Enqueue(c, q)
      BY <2>4, <2>9 DEF Enqueue
    <2>10. CASE CrashRestart
      BY <2>6, <2>10 DEF CrashRestart
    <2>11. CASE (\E up \in BOOLEAN : SetWebSocketSender(up)) \/ (\E t \in Time : ClockMoves(t))
      BY <2>7, <2>11 DEF SetWebSocketSender, ClockMoves, Clock, storeVars, clockVars
    <2> HIDE DEF Replaced, Overtaken
    <2> QED
      BY <2>8, <2>9, <2>10, <2>11 DEF Next
  <1> QED
    BY <1>1, <1>2, <1>3, DispatchSafe, PTL DEF Spec, UnsentIsShared
=============================================================================
