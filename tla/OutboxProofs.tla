---------------------------- MODULE OutboxProofs ----------------------------
(***************************************************************************)
(* Proofs about the outbox store, for every directory of record ids, every *)
(* limit and every delay.                                                  *)
(***************************************************************************)
EXTENDS Outbox, FiniteSetTheorems, TLAPS

\* The delay of retryDelay is a natural number no larger than its cap.
LEMMA RetryDelayBounded ==
    ASSUME NEW n \in Nat
    PROVE  retryDelay(n) \in 0 .. MaxDelay
  BY DelaysPositive DEF retryDelay

\* retryJitter moves a retry by at most the jitter of the largest delay.
LEMMA JitterBounded ==
    ASSUME NEW d \in 0 .. MaxDelay, NEW j \in retryJitter(d)
    PROVE  j \in Int /\ j <= MaxDelay \div JitterPart /\ MaxDelay \div JitterPart \in Int
  <1>1. d \div JitterPart \in Int /\ MaxDelay \div JitterPart \in Int
    BY DelaysPositive
  <1>2. d \div JitterPart <= MaxDelay \div JitterPart
    BY DelaysPositive
  <1> QED
    BY <1>1, <1>2 DEF retryJitter

\* A record is never the mark of a missing file.
LEMMA RecordIsFile ==
    ASSUME NEW x \in Record
    PROVE  x # NoFile
  <1>1. DOMAIN x = {"env", "created", "attempts", "next"}
    BY DEF Record
  <1>2. DOMAIN NoFile = {"none"}
    BY DEF NoFile
  <1>3. "env" # "none"
    OBVIOUS
  <1> QED
    BY <1>1, <1>2, <1>3

\* store.go Save, NewRecord: the record Save writes holds the new result; a
\* readable predecessor hands down its times.
LEMMA ReplacingFacts ==
    ASSUME StoreTypeOK, NEW r \in Results
    PROVE  LET rec == Replacing(files, r, now) IN
           /\ rec \in Record
           /\ rec.env = r
           /\ rec.next = now \/ (\E i \in RecordIDs :
                                    files[i] # NoFile /\ rec.next = files[i].next)
  <1> DEFINE i == RecordIDOf(r)
  <1>1. i \in RecordIDs
    BY CommandOfType, SanitizedIDType DEF RecordIDOf
  <1>2. CASE Readable(files, i)
    <2>1. files[i] \in Record
      BY <1>1, <1>2 DEF StoreTypeOK, Readable
    <2>2. Replacing(files, r, now) = [files[i] EXCEPT !.env = r]
      BY <1>2 DEF Replacing
    <2> QED
      BY <1>1, <1>2, <2>1, <2>2 DEF Record, Readable
  <1>3. CASE ~Readable(files, i)
    <2>1. Replacing(files, r, now) = NewRecord(r, now)
      BY <1>3 DEF Replacing
    <2>2. now \in Time /\ now \in Int /\ 0 \in 0 .. MaxAttempts
      BY BoundsNat DEF StoreTypeOK, Time
    <2> QED
      BY <2>1, <2>2 DEF NewRecord, Record
  <1> QED
    BY <1>2, <1>3

\* What Save(r) does to the directory: r is then in its file or dropped, and
\* every other file is as it was, or its result was dropped.
LEMMA SaveFacts ==
    ASSUME StoreTypeOK, NEW r \in Results, Save(r)
    PROVE  /\ StoreTypeOK'
           /\ now' = now /\ latest' = latest
           /\ Saved' = Saved \cup {r}
           /\ dropped \subseteq dropped'
           /\ \/ files'[RecordIDOf(r)] = NoFile /\ r \in dropped'
              \/ /\ files'[RecordIDOf(r)] = Replacing(files, r, now)
                 /\ files'[RecordIDOf(r)] # NoFile
                 /\ files'[RecordIDOf(r)].env = r
           /\ \A i \in RecordIDs \ {RecordIDOf(r)} :
                \/ files'[i] = files[i]
                \/ files'[i] = NoFile /\ files[i] # NoFile
                   /\ files[i].env \in dropped'
  <1> DEFINE n == RecordIDOf(r)
             f == [files EXCEPT ![n] = Replacing(files, r, now)]
  <1>1. n \in RecordIDs
    BY CommandOfType, SanitizedIDType DEF RecordIDOf
  <1>2. PICK gone \in SUBSET Listed(f) :
          /\ files' = Without(f, gone)
          /\ dropped' = dropped \cup {f[d].env : d \in gone}
    BY DEF Save, writeRecordAtomic
  <1>3. savedAt' = [savedAt EXCEPT ![r] = now] /\ now' = now /\ latest' = latest
    BY DEF Save, writeRecordAtomic, clockVars
  <1>4. /\ files \in [RecordIDs -> Record \cup {NoFile}]
        /\ now \in Time /\ now # Absent /\ latest \in Time
        /\ savedAt \in [Results -> Time \cup {Absent}]
        /\ dropped \in SUBSET Saved
        /\ \A i \in RecordIDs : files[i] # NoFile =>
              RecordIDOf(files[i].env) = i /\ files[i].env \in Saved
    BY DEF StoreTypeOK, Time, Absent
  <1>5. Saved' = Saved \cup {r} /\ savedAt' \in [Results -> Time \cup {Absent}]
    BY <1>3, <1>4 DEF Saved
  <1>6. /\ Replacing(files, r, now) \in Record
        /\ Replacing(files, r, now).env = r
        /\ Replacing(files, r, now) # NoFile
    BY ReplacingFacts, RecordIsFile
  <1>7. /\ f \in [RecordIDs -> Record \cup {NoFile}]
        /\ f[n] = Replacing(files, r, now)
        /\ \A i \in RecordIDs \ {n} : f[i] = files[i]
    BY <1>1, <1>4, <1>6
  <1>8. gone \subseteq RecordIDs /\ \A d \in gone : f[d] # NoFile
    BY <1>2 DEF Listed, Readable
  <1> HIDE DEF f, n
  <1>9. /\ files' \in [RecordIDs -> Record \cup {NoFile}]
        /\ \A i \in RecordIDs : files'[i] = (IF i \in gone THEN NoFile ELSE f[i])
    BY <1>2, <1>7 DEF Without
  <1>10. \A i \in RecordIDs : f[i] # NoFile =>
              RecordIDOf(f[i].env) = i /\ f[i].env \in Saved'
    <2> SUFFICES ASSUME NEW i \in RecordIDs, f[i] # NoFile
                 PROVE  RecordIDOf(f[i].env) = i /\ f[i].env \in Saved'
      OBVIOUS
    <2>1. CASE i = n
      BY <1>5, <1>6, <1>7, <2>1 DEF n
    <2>2. CASE i # n
      BY <1>4, <1>5, <1>7, <2>2
    <2> QED
      BY <2>1, <2>2
  <1>11. dropped' \in SUBSET Saved'
    BY <1>2, <1>4, <1>5, <1>8, <1>10
  <1>12. StoreTypeOK'
    BY <1>3, <1>4, <1>5, <1>9, <1>10, <1>11 DEF StoreTypeOK
  <1>13. \/ files'[n] = NoFile /\ r \in dropped'
         \/ /\ files'[n] = Replacing(files, r, now)
            /\ files'[n] # NoFile
            /\ files'[n].env = r
    BY <1>1, <1>2, <1>6, <1>7, <1>9
  <1>14. ASSUME NEW i \in RecordIDs \ {n}
         PROVE  \/ files'[i] = files[i]
                \/ files'[i] = NoFile /\ files[i] # NoFile
                   /\ files[i].env \in dropped'
    <2>1. CASE i \in gone
      BY <1>2, <1>7, <1>8, <1>9, <2>1
    <2>2. CASE i \notin gone
      BY <1>7, <1>9, <2>2
    <2> QED
      BY <2>1, <2>2
  <1> QED
    BY <1>2, <1>3, <1>5, <1>12, <1>13, <1>14 DEF n

\* store.go MarkFailure keeps every file and the result in it, and puts the
\* next attempt off by a bounded delay.
LEMMA MarkFailureFacts ==
    ASSUME StoreTypeOK, NEW i \in RecordIDs, MarkFailure(i)
    PROVE  /\ StoreTypeOK'
           /\ now' = now /\ latest' = latest /\ savedAt' = savedAt /\ dropped' = dropped
           /\ \A k \in RecordIDs \ {i} : files'[k] = files[k]
           /\ files'[i] # NoFile /\ files[i] # NoFile
           /\ files'[i].env = files[i].env
           /\ files'[i].next <= now + MaxDelay + (MaxDelay \div JitterPart)
  <1> DEFINE d == retryDelay(files[i].attempts + 1)
  <1>1. /\ files[i] \in Record /\ files[i] # NoFile
        /\ files[i].attempts < MaxAttempts
        /\ files \in [RecordIDs -> Record \cup {NoFile}]
        /\ now \in Int
    BY DEF MarkFailure, Readable, StoreTypeOK, Time
  <1>2. files[i].attempts \in Nat /\ files[i].attempts + 1 \in 0 .. MaxAttempts
    BY <1>1, BoundsNat DEF Record
  <1>3. d \in 0 .. MaxDelay /\ d \in Int
    BY <1>2, RetryDelayBounded, DelaysPositive
  <1> HIDE DEF d
  <1>4. PICK j \in retryJitter(d) :
          files' = [files EXCEPT ![i] =
                       [files[i] EXCEPT !.attempts = @ + 1, !.next = now + d + j]]
    BY DEF MarkFailure, writeRecordAtomic, d
  <1>5. /\ j \in Int /\ j <= MaxDelay \div JitterPart
        /\ MaxDelay \div JitterPart \in Int
    BY <1>3, JitterBounded
  <1>6. now + d + j \in Int
        /\ now + d + j <= now + MaxDelay + (MaxDelay \div JitterPart)
    BY <1>1, <1>3, <1>5, DelaysPositive
  <1>7. files'[i] = [files[i] EXCEPT !.attempts = @ + 1, !.next = now + d + j]
    BY <1>1, <1>4
  <1>8. /\ files'[i] \in Record
        /\ files'[i].env = files[i].env
        /\ files'[i].next = now + d + j
    BY <1>1, <1>2, <1>6, <1>7 DEF Record
  <1>9. files'[i] # NoFile
    BY <1>8, RecordIsFile
  <1>10. \A k \in RecordIDs \ {i} : files'[k] = files[k]
    BY <1>1, <1>4
  <1>11. files' \in [RecordIDs -> Record \cup {NoFile}]
    <2>1. files' = [k \in RecordIDs |-> files'[k]]
      BY <1>1, <1>4
    <2>2. \A k \in RecordIDs : files'[k] \in Record \cup {NoFile}
      BY <1>1, <1>8, <1>10
    <2> QED
      BY <2>1, <2>2
  <1>12. now' = now /\ latest' = latest /\ savedAt' = savedAt /\ dropped' = dropped
    BY DEF MarkFailure, clockVars
  <1>13. StoreTypeOK'
    BY <1>1, <1>8, <1>10, <1>11, <1>12 DEF StoreTypeOK, Saved
  <1> QED
    BY <1>1, <1>6, <1>8, <1>9, <1>10, <1>12, <1>13

\* Removing files keeps the types.
LEMMA WithoutFacts ==
    ASSUME StoreTypeOK, NEW ids, files' = Without(files, ids),
           UNCHANGED <<now, latest, savedAt, dropped>>
    PROVE  /\ StoreTypeOK'
           /\ \A i \in RecordIDs :
                files'[i] = (IF i \in ids THEN NoFile ELSE files[i])
  BY DEF StoreTypeOK, Without, Saved

\* Wherever the clock is set, latest is the furthest it has been.
LEMMA ClockFacts ==
    ASSUME StoreTypeOK, NEW t \in Time, Clock(t)
    PROVE  /\ StoreTypeOK' /\ now' = t
           /\ latest <= latest' /\ t <= latest'
  BY DEF StoreTypeOK, Clock, Saved, Time

\* The clock never reads more than the latest it has read.
ClockBehind == now <= latest

\* The empty directory has its type.
LEMMA StoreInitFacts == StoreInit => StoreTypeOK /\ BoundedWait /\ ClockBehind
  BY BoundsNat DEF StoreInit, StoreTypeOK, BoundedWait, ClockBehind, Time, Saved, Absent

\* Whatever the order of calls and wherever the clock is set, every file is a
\* saved result filed under the record id of its command, and every record is
\* due once the clock is past the latest time it has ever read by the largest
\* delay with its jitter.
THEOREM StoreSafe == StoreSpec => [](StoreTypeOK /\ BoundedWait)
  <1> DEFINE Inv == StoreTypeOK /\ BoundedWait /\ ClockBehind
  <1>1. StoreInit => Inv
    BY StoreInitFacts
  <1>2. Inv /\ [StoreNext]_storeVars => Inv'
    <2> SUFFICES ASSUME StoreTypeOK, BoundedWait, ClockBehind, [StoreNext]_storeVars
                 PROVE  Inv'
      OBVIOUS
    <2>1. /\ MaxDelay \div JitterPart \in Nat /\ MaxDelay \in Nat
          /\ now \in Int /\ latest \in Int /\ now <= latest
          /\ \A i \in RecordIDs : files[i] # NoFile => files[i].next \in Int
      BY DelaysPositive DEF StoreTypeOK, ClockBehind, Time, Record
    <2>2. ASSUME NEW r \in Results, Save(r) PROVE Inv'
      <3>1. /\ StoreTypeOK' /\ now' = now /\ latest' = latest
            /\ \/ files'[RecordIDOf(r)] = NoFile
               \/ files'[RecordIDOf(r)] = Replacing(files, r, now)
            /\ \A i \in RecordIDs \ {RecordIDOf(r)} :
                 files'[i] = files[i] \/ files'[i] = NoFile
        BY <2>2, SaveFacts
      <3>2. Replacing(files, r, now).next <= latest + MaxDelay + (MaxDelay \div JitterPart)
        BY <2>1, ReplacingFacts DEF BoundedWait
      <3> QED
        BY <3>1, <3>2 DEF BoundedWait, ClockBehind
    <2>3. ASSUME NEW i \in RecordIDs, MarkFailure(i) PROVE Inv'
      <3>1. /\ StoreTypeOK' /\ now' = now /\ latest' = latest
            /\ \A k \in RecordIDs \ {i} : files'[k] = files[k]
            /\ files'[i] # NoFile
            /\ files'[i].next <= now + MaxDelay + (MaxDelay \div JitterPart)
        BY <2>3, MarkFailureFacts
      <3>2. files'[i].next \in Int
        BY <3>1 DEF StoreTypeOK, Record
      <3>3. files'[i].next <= latest + MaxDelay + (MaxDelay \div JitterPart)
        BY <2>1, <3>1, <3>2
      <3> QED
        BY <3>1, <3>3 DEF BoundedWait, ClockBehind
    <2>4. ASSUME NEW ids, files' = Without(files, ids),
                 UNCHANGED <<now, latest, savedAt, dropped>>
          PROVE  Inv'
      BY <2>4, WithoutFacts DEF BoundedWait, ClockBehind
    <2>5. CASE Load \/ \E i \in RecordIDs : Delete(i)
      BY <2>4, <2>5 DEF Load, Delete, clockVars
    <2>6. ASSUME NEW t \in Time, Clock(t) PROVE Inv'
      <3>1. /\ StoreTypeOK' /\ latest <= latest' /\ now' <= latest'
            /\ files' = files /\ latest' \in Int
        BY <2>6, ClockFacts DEF Clock, StoreTypeOK, Time
      <3> QED
        BY <2>1, <3>1 DEF BoundedWait, ClockBehind
    <2>7. CASE UNCHANGED storeVars
      BY <2>7 DEF storeVars, clockVars, StoreTypeOK, BoundedWait, ClockBehind, Saved
    <2> QED
      BY <2>2, <2>3, <2>5, <2>6, <2>7 DEF StoreNext
  <1> QED
    BY <1>1, <1>2, PTL DEF StoreSpec

-----------------------------------------------------------------------------
(* Sums over finite sets.  The library's induction theorems take the       *)
(* predicate as an operator, which the provers cannot instantiate; here it *)
(* is the set of the subsets that satisfy it, and the sum is of a function.*)

\* Induction over the subsets of a finite set.
LEMMA SubsetInduction ==
    ASSUME NEW U, IsFiniteSet(U), NEW Good,
           \A s \in SUBSET U : (\A t \in SUBSET s : t # s => t \in Good) => s \in Good
    PROVE  SUBSET U \subseteq Good
  <1> DEFINE Bad == (SUBSET U) \ Good
  <1> SUFFICES ASSUME Bad # {} PROVE FALSE
    OBVIOUS
  <1>1. IsWellFoundedOn(StrictSubsetOrdering(U), SUBSET U)
    <2>1. IsWellFoundedOn(StrictSubsetOrdering(U), FiniteSubsetsOf(U))
      BY FS_StrictSubsetOrderingWellFounded
    <2>2. FiniteSubsetsOf(U) = SUBSET U
      BY FS_FiniteSubsetsOfFinite
    <2> QED
      BY <2>1, <2>2
  <1>2. PICK s \in Bad : \A t \in Bad : <<t, s>> \notin StrictSubsetOrdering(U)
    <2>1. Bad \subseteq SUBSET U /\ Bad # {}
      OBVIOUS
    <2> HIDE DEF Bad
    <2> QED
      BY <1>1, <2>1, WFMin
  <1>3. ASSUME NEW t \in SUBSET s, t # s PROVE t \in Good
    <2>1. <<t, s>> \in (SUBSET U) \X (SUBSET U)
      BY <1>2
    <2>2. <<t, s>> \in StrictSubsetOrdering(U)
      BY <1>3, <2>1 DEF StrictSubsetOrdering
    <2> QED
      BY <1>2, <2>2
  <1> QED
    BY <1>2, <1>3

\* One step of the fold behind SumFunctionOnSet, and what its LET defines.
Added(size, g, s) ==
    IF s = {} THEN 0
    ELSE LET x == CHOOSE x \in s : TRUE IN size[x] + g[s \ {x}]
PartialSums(size, g, S) == g = [s \in SUBSET S |-> Added(size, g, s)]

LEMMA SumUnfolds ==
    ASSUME NEW size, NEW S
    PROVE  SumFunctionOnSet(size, S) = (CHOOSE g : PartialSums(size, g, S))[S]
  BY DEF SumFunctionOnSet, FoldFunctionOnSet, MapThenFoldSet, PartialSums, Added

LEMMA PartialSumsAt ==
    ASSUME NEW size, NEW S, NEW g, PartialSums(size, g, S), NEW s \in SUBSET S
    PROVE  g[s] = Added(size, g, s)
  BY DEF PartialSums

\* Two folds agree wherever both are defined.
LEMMA PartialSumsAgree ==
    ASSUME NEW size, NEW S, IsFiniteSet(S), NEW T \in SUBSET S, NEW g, NEW h,
           PartialSums(size, g, S), PartialSums(size, h, T)
    PROVE  \A s \in SUBSET T : g[s] = h[s]
  <1> DEFINE Same == {s \in SUBSET T : g[s] = h[s]}
  <1>1. IsFiniteSet(T)
    BY FS_Subset
  <1>2. ASSUME NEW s \in SUBSET T, \A t \in SUBSET s : t # s => t \in Same
        PROVE  s \in Same
    <2>1. g[s] = Added(size, g, s) /\ h[s] = Added(size, h, s)
      BY PartialSumsAt
    <2>2. CASE s = {}
      BY <2>1, <2>2 DEF Added
    <2>3. CASE s # {}
      <3>1. PICK x \in s : x = CHOOSE y \in s : TRUE
        BY <2>3
      <3>2. s \ {x} \in Same
        BY <1>2, <3>1
      <3> QED
        BY <2>1, <2>3, <3>1, <3>2 DEF Added
    <2> QED
      BY <2>2, <2>3
  <1> HIDE DEF Same
  <1>3. SUBSET T \subseteq Same
    BY <1>1, <1>2, SubsetInduction
  <1> QED
    BY <1>3 DEF Same

\* The fold exists, so that the CHOOSE behind its definition finds it.
LEMMA PartialSumsExist ==
    ASSUME NEW size, NEW U, IsFiniteSet(U)
    PROVE  \E g : PartialSums(size, g, U)
  <1> DEFINE Good == {s \in SUBSET U : \E g : PartialSums(size, g, s)}
             Total(s) == (CHOOSE g : PartialSums(size, g, s))[s]
  <1>1. ASSUME NEW s \in SUBSET U, \A t \in SUBSET s : t # s => t \in Good
        PROVE  s \in Good
    <2> DEFINE G == [t \in SUBSET s |->
                       IF t = {} THEN 0
                       ELSE LET x == CHOOSE x \in t : TRUE IN size[x] + Total(t \ {x})]
    <2>1. ASSUME NEW t \in SUBSET s, t # s PROVE G[t] = Total(t)
      <3> DEFINE g == CHOOSE g : PartialSums(size, g, t)
      <3>1. PartialSums(size, g, t) /\ Total(t) = g[t]
        BY <1>1, <2>1
      <3>2. g[t] = Added(size, g, t)
        BY <3>1, PartialSumsAt
      <3>3. CASE t = {}
        BY <3>1, <3>2, <3>3 DEF Added
      <3>4. CASE t # {}
        <4>1. PICK x \in t : x = CHOOSE y \in t : TRUE
          BY <3>4
        <4> DEFINE u == t \ {x}
                   h == CHOOSE h : PartialSums(size, h, u)
        <4>2. u \in SUBSET s /\ u # s /\ u \in SUBSET t
          BY <4>1
        <4>3. PartialSums(size, h, u) /\ Total(u) = h[u]
          BY <1>1, <4>2
        <4>4. IsFiniteSet(t)
          BY FS_Subset
        <4> HIDE DEF g, h, Total, u
        <4>5. g[u] = h[u]
          BY <3>1, <4>2, <4>3, <4>4, PartialSumsAgree
        <4>6. g[t] = size[x] + g[u]
          BY <3>2, <3>4, <4>1 DEF Added, u
        <4>7. G[t] = size[x] + Total(u)
          BY <3>4, <4>1 DEF u
        <4> QED
          BY <3>1, <4>3, <4>5, <4>6, <4>7
      <3> QED
        BY <3>3, <3>4
    <2> HIDE DEF Total
    <2>2. ASSUME NEW t \in SUBSET s PROVE G[t] = Added(size, G, t)
      <3>1. CASE t = {}
        BY <3>1 DEF Added
      <3>2. CASE t # {}
        <4>1. PICK x \in t : x = CHOOSE y \in t : TRUE
          BY <3>2
        <4>2. G[t] = size[x] + Total(t \ {x})
          BY <3>2, <4>1
        <4>3. t \ {x} \in SUBSET s /\ t \ {x} # s
          BY <4>1
        <4> HIDE DEF G
        <4>4. G[t \ {x}] = Total(t \ {x})
          BY <2>1, <4>3
        <4> QED
          BY <3>2, <4>1, <4>2, <4>4 DEF Added
      <3> QED
        BY <3>1, <3>2
    <2>3. G = [t \in SUBSET s |-> G[t]]
      OBVIOUS
    <2> HIDE DEF G
    <2>4. PartialSums(size, G, s)
      BY <2>2, <2>3 DEF PartialSums
    <2> QED
      BY <2>4
  <1> HIDE DEF Good
  <1>2. SUBSET U \subseteq Good
    BY <1>1, SubsetInduction
  <1> QED
    BY <1>2 DEF Good

\* SumFunctionOnSet satisfies its recursion, one chosen element at a time.
LEMMA SumStep ==
    ASSUME NEW size, NEW S, IsFiniteSet(S)
    PROVE  /\ S = {} => SumFunctionOnSet(size, S) = 0
           /\ S # {} => \E x \in S : SumFunctionOnSet(size, S)
                                       = size[x] + SumFunctionOnSet(size, S \ {x})
  <1> DEFINE g == CHOOSE g : PartialSums(size, g, S)
  <1>1. PartialSums(size, g, S)
    BY PartialSumsExist
  <1>2. SumFunctionOnSet(size, S) = g[S]
    BY SumUnfolds
  <1> HIDE DEF g
  <1>3. g[S] = Added(size, g, S)
    BY <1>1, PartialSumsAt
  <1>4. CASE S = {}
    BY <1>2, <1>3, <1>4 DEF Added
  <1>5. CASE S # {}
    <2>1. PICK x \in S : x = CHOOSE y \in S : TRUE
      BY <1>5
    <2> DEFINE u == S \ {x}
               h == CHOOSE h : PartialSums(size, h, u)
    <2>2. IsFiniteSet(u) /\ u \in SUBSET S
      BY FS_Subset
    <2>3. PartialSums(size, h, u)
      BY <2>2, PartialSumsExist
    <2>4. SumFunctionOnSet(size, u) = h[u]
      BY SumUnfolds
    <2> HIDE DEF h, u
    <2>5. g[u] = h[u]
      BY <1>1, <2>2, <2>3, PartialSumsAgree
    <2>6. g[S] = size[x] + g[u]
      BY <1>3, <1>5, <2>1 DEF Added, u
    <2> QED
      BY <1>2, <1>5, <2>1, <2>4, <2>5, <2>6 DEF u
  <1> QED
    BY <1>4, <1>5

\* A sum of natural numbers is one.
LEMMA SumNat ==
    ASSUME NEW size, NEW U, IsFiniteSet(U), \A x \in U : size[x] \in Nat
    PROVE  \A s \in SUBSET U : SumFunctionOnSet(size, s) \in Nat
  <1> DEFINE Good == {s \in SUBSET U : SumFunctionOnSet(size, s) \in Nat}
  <1>1. ASSUME NEW s \in SUBSET U, \A t \in SUBSET s : t # s => t \in Good
        PROVE  s \in Good
    <2>1. IsFiniteSet(s)
      BY FS_Subset
    <2>2. CASE s = {}
      BY <2>1, <2>2, SumStep
    <2>3. CASE s # {}
      <3>1. PICK x \in s : SumFunctionOnSet(size, s)
                              = size[x] + SumFunctionOnSet(size, s \ {x})
        BY <2>1, <2>3, SumStep
      <3>2. s \ {x} \in Good
        BY <1>1, <3>1
      <3> QED
        BY <3>1, <3>2
    <2> QED
      BY <2>2, <2>3
  <1> HIDE DEF Good
  <1>2. SUBSET U \subseteq Good
    BY <1>1, SubsetInduction
  <1> QED
    BY <1>2 DEF Good

\* Any element can be taken out of a sum first.
LEMMA SumRemove ==
    ASSUME NEW size, NEW U, IsFiniteSet(U), \A x \in U : size[x] \in Nat
    PROVE  \A s \in SUBSET U : \A x \in s :
              SumFunctionOnSet(size, s) = size[x] + SumFunctionOnSet(size, s \ {x})
  <1> DEFINE Good == {s \in SUBSET U : \A x \in s :
              SumFunctionOnSet(size, s) = size[x] + SumFunctionOnSet(size, s \ {x})}
  <1>1. ASSUME NEW s \in SUBSET U, \A t \in SUBSET s : t # s => t \in Good
        PROVE  s \in Good
    <2> SUFFICES ASSUME NEW x \in s
                 PROVE  SumFunctionOnSet(size, s) = size[x] + SumFunctionOnSet(size, s \ {x})
      OBVIOUS
    <2>1. IsFiniteSet(s)
      BY FS_Subset
    <2>2. PICK c \in s : SumFunctionOnSet(size, s)
                            = size[c] + SumFunctionOnSet(size, s \ {c})
      BY <2>1, SumStep
    <2>3. CASE x = c
      BY <2>2, <2>3
    <2>4. CASE x # c
      <3> DEFINE rest == s \ {x, c}
      <3>1. (s \ {c}) \ {x} = rest /\ (s \ {x}) \ {c} = rest /\ rest \in SUBSET U
        OBVIOUS
      <3>2. s \ {c} \in Good /\ x \in s \ {c} /\ s \ {x} \in Good /\ c \in s \ {x}
        BY <1>1, <2>4
      <3> HIDE DEF rest
      <3>3. SumFunctionOnSet(size, s \ {c}) = size[x] + SumFunctionOnSet(size, rest)
        BY <3>1, <3>2
      <3>4. SumFunctionOnSet(size, s \ {x}) = size[c] + SumFunctionOnSet(size, rest)
        BY <3>1, <3>2
      <3>5. size[x] \in Nat /\ size[c] \in Nat /\ SumFunctionOnSet(size, rest) \in Nat
        BY <3>1, SumNat
      <3> QED
        BY <2>2, <3>3, <3>4, <3>5
    <2> QED
      BY <2>3, <2>4
  <1> HIDE DEF Good
  <1>2. SUBSET U \subseteq Good
    BY <1>1, SubsetInduction
  <1> QED
    BY <1>2 DEF Good

\* A part of the elements adds up to no more than all of them.
LEMMA SumMonotone ==
    ASSUME NEW size, NEW U, IsFiniteSet(U), \A x \in U : size[x] \in Nat,
           NEW part \in SUBSET U
    PROVE  SumFunctionOnSet(size, part) <= SumFunctionOnSet(size, U)
  <1> DEFINE Good == {t \in SUBSET U : \A s \in SUBSET t :
                         SumFunctionOnSet(size, s) <= SumFunctionOnSet(size, t)}
  <1>1. ASSUME NEW t \in SUBSET U, \A u \in SUBSET t : u # t => u \in Good
        PROVE  t \in Good
    <2> SUFFICES ASSUME NEW s \in SUBSET t
                 PROVE  SumFunctionOnSet(size, s) <= SumFunctionOnSet(size, t)
      OBVIOUS
    <2>1. CASE s = t
      BY <2>1, SumNat
    <2>2. CASE s # t
      <3>1. PICK x \in t : x \notin s
        BY <2>2
      <3>2. SumFunctionOnSet(size, t) = size[x] + SumFunctionOnSet(size, t \ {x})
        BY SumRemove
      <3>3. t \ {x} \in Good /\ s \in SUBSET (t \ {x})
        BY <1>1, <3>1
      <3>4. SumFunctionOnSet(size, s) <= SumFunctionOnSet(size, t \ {x})
        BY <3>3
      <3>5. /\ SumFunctionOnSet(size, s) \in Nat
            /\ SumFunctionOnSet(size, t \ {x}) \in Nat /\ size[x] \in Nat
        BY SumNat
      <3> QED
        BY <3>2, <3>4, <3>5
    <2> QED
      BY <2>1, <2>2
  <1> HIDE DEF Good
  <1>2. SUBSET U \subseteq Good
    BY <1>1, SubsetInduction
  <1> QED
    BY <1>2 DEF Good

\* When every element grows by at most c, the sum grows by at most c for each.
LEMMA SumGrows ==
    ASSUME NEW size, NEW grown, NEW c \in Nat, NEW U, IsFiniteSet(U),
           \A x \in U : size[x] \in Nat /\ grown[x] \in Nat /\ grown[x] <= size[x] + c
    PROVE  SumFunctionOnSet(grown, U) <= SumFunctionOnSet(size, U) + c * Cardinality(U)
  <1> DEFINE Good == {s \in SUBSET U :
                SumFunctionOnSet(grown, s) <= SumFunctionOnSet(size, s) + c * Cardinality(s)}
  <1>1. ASSUME NEW s \in SUBSET U, \A t \in SUBSET s : t # s => t \in Good
        PROVE  s \in Good
    <2>1. IsFiniteSet(s)
      BY FS_Subset
    <2>2. CASE s = {}
      <3>1. SumFunctionOnSet(grown, s) = 0 /\ SumFunctionOnSet(size, s) = 0
        BY <2>1, <2>2, SumStep
      <3>2. Cardinality(s) = 0
        BY <2>2, FS_EmptySet
      <3> QED
        BY <3>1, <3>2
    <2>3. CASE s # {}
      <3>1. PICK x \in s : TRUE
        BY <2>3
      <3> DEFINE u == s \ {x}
      <3>2. /\ SumFunctionOnSet(grown, s) = grown[x] + SumFunctionOnSet(grown, u)
            /\ SumFunctionOnSet(size, s) = size[x] + SumFunctionOnSet(size, u)
        BY SumRemove
      <3>3. SumFunctionOnSet(grown, u) \in Nat /\ SumFunctionOnSet(size, u) \in Nat
        BY SumNat
      <3>4. Cardinality(s) = Cardinality(u) + 1 /\ Cardinality(u) \in Nat
        <4>1. IsFiniteSet(u) /\ Cardinality(u) = Cardinality(s) - 1
          BY <2>1, FS_RemoveElement
        <4>2. Cardinality(s) \in Nat /\ Cardinality(u) \in Nat
          BY <2>1, <4>1, FS_CardinalityType
        <4> QED
          BY <4>1, <4>2
      <3>5. u \in Good
        BY <1>1, <3>1
      <3>6. c * Cardinality(s) = c * Cardinality(u) + c /\ c * Cardinality(u) \in Nat
        BY <3>4
      <3>7. size[x] \in Nat /\ grown[x] \in Nat /\ grown[x] <= size[x] + c
        OBVIOUS
      <3>8. SumFunctionOnSet(grown, u) <= SumFunctionOnSet(size, u) + c * Cardinality(u)
        BY <3>5
      <3> HIDE DEF u
      <3> QED
        BY <3>2, <3>3, <3>6, <3>7, <3>8
    <2> QED
      BY <2>2, <2>3
  <1> HIDE DEF Good
  <1>2. SUBSET U \subseteq Good
    BY <1>1, SubsetInduction
  <1> QED
    BY <1>2 DEF Good

\* The total of snapshotLocked is the sum of a function.
LEMMA TotalIsSum ==
    ASSUME NEW f, NEW S, IsFiniteSet(S)
    PROVE  MapThenSumSet(LAMBDA i : FileBytes(f[i]), S)
             = SumFunctionOnSet([i \in S |-> FileBytes(f[i])], S)
  <1> DEFINE size == [i \in S |-> FileBytes(f[i])]
             Step(g, s) == IF s = {} THEN 0
                           ELSE LET x == CHOOSE x \in s : TRUE
                                IN  FileBytes(f[x]) + g[s \ {x}]
             IsFold(g) == g = [s \in SUBSET S |-> Step(g, s)]
             g == CHOOSE g : IsFold(g)
             h == CHOOSE h : PartialSums(size, h, S)
  <1>1. MapThenSumSet(LAMBDA i : FileBytes(f[i]), S) = g[S]
    BY DEF MapThenSumSet, MapThenFoldSet
  <1>2. ASSUME NEW k PROVE IsFold(k) <=> PartialSums(size, k, S)
    <2>1. ASSUME NEW s \in SUBSET S PROVE Step(k, s) = Added(size, k, s)
      <3>1. CASE s = {}
        BY <3>1 DEF Added
      <3>2. CASE s # {}
        <4>1. PICK x \in s : x = CHOOSE y \in s : TRUE
          BY <3>2
        <4>2. size[x] = FileBytes(f[x])
          BY <4>1
        <4> QED
          BY <3>2, <4>1, <4>2 DEF Added
      <3> QED
        BY <3>1, <3>2
    <2> HIDE DEF size, Step
    <2>2. [s \in SUBSET S |-> Step(k, s)] = [s \in SUBSET S |-> Added(size, k, s)]
      BY <2>1
    <2> QED
      BY <2>2 DEF PartialSums
  <1> HIDE DEF size, IsFold
  <1>3. PartialSums(size, h, S)
    BY PartialSumsExist
  <1>4. IsFold(g)
    BY <1>2, <1>3
  <1>5. SumFunctionOnSet(size, S) = h[S]
    BY SumUnfolds
  <1> HIDE DEF g, h
  <1>6. g[S] = h[S]
    BY <1>2, <1>3, <1>4, PartialSumsAgree
  <1> QED
    BY <1>1, <1>5, <1>6 DEF size

-----------------------------------------------------------------------------
(* The limits.                                                             *)

\* A result with a record id of its own keeps the time at which it was saved.
CreatedAtSave ==
    \A i \in RecordIDs, q \in Results :
        files[i] # NoFile /\ files[i].env = q /\ Sole(q) =>
            files[i].created = savedAt[q]

\* Saving another result leaves no more results alone with their ids.
LEMMA SoleBefore ==
    ASSUME Saved \subseteq Saved'
    PROVE  \A q : Sole(q)' => Sole(q)
  BY DEF Sole

\* The files of a Save(r) before the limits.
Written(r) == [files EXCEPT ![RecordIDOf(r)] = Replacing(files, r, now)]

\* What Save writes before the limits: each record of a result that is alone
\* with its record id has the time of its Save.
LEMMA WrittenAtSave ==
    ASSUME StoreTypeOK, CreatedAtSave, NEW r \in Results \ Saved,
           savedAt' = [savedAt EXCEPT ![r] = now]
    PROVE  /\ Written(r) \in [RecordIDs -> Record \cup {NoFile}]
           /\ \A i \in RecordIDs :
                Written(r)[i] # NoFile => RecordIDOf(Written(r)[i].env) = i
           /\ \A i \in RecordIDs, q \in Results :
                Written(r)[i] # NoFile /\ Written(r)[i].env = q /\ Sole(q)' =>
                    Written(r)[i].created = savedAt'[q]
  <1> DEFINE n == RecordIDOf(r)
             f == Written(r)
  <1>1. n \in RecordIDs
    BY CommandOfType, SanitizedIDType DEF RecordIDOf
  <1>2. /\ Replacing(files, r, now) \in Record
        /\ Replacing(files, r, now).env = r
    BY ReplacingFacts
  <1>3. /\ files \in [RecordIDs -> Record \cup {NoFile}]
        /\ now \in Time /\ now # Absent
        /\ savedAt \in [Results -> Time \cup {Absent}]
        /\ \A i \in RecordIDs : files[i] # NoFile =>
              RecordIDOf(files[i].env) = i /\ files[i].env \in Saved
    BY DEF StoreTypeOK, Time, Absent
  <1>4. /\ f[n] = Replacing(files, r, now)
        /\ \A i \in RecordIDs \ {n} : f[i] = files[i]
        /\ f \in [RecordIDs -> Record \cup {NoFile}]
    BY <1>1, <1>2, <1>3 DEF Written
  <1> HIDE DEF f
  <1>5. Saved' = Saved \cup {r} /\ savedAt'[r] = now
        /\ \A q \in Saved : savedAt'[q] = savedAt[q]
    BY <1>3 DEF Saved
  <1>6. \A q : Sole(q)' => Sole(q)
    BY <1>5, SoleBefore
  <1>7. ASSUME Sole(r)' PROVE Replacing(files, r, now).created = now
    <2>1. \A q \in Saved : RecordIDOf(q) # n
      BY <1>5, <1>7 DEF Sole
    <2>2. ~Readable(files, n)
      BY <1>1, <1>3, <2>1 DEF Readable
    <2> QED
      BY <2>2 DEF Replacing, NewRecord
  <1>8. ASSUME NEW i \in RecordIDs, NEW q \in Results, f[i] # NoFile, f[i].env = q,
               Sole(q)'
        PROVE  f[i].created = savedAt'[q]
    <2>1. CASE i = n
      <3>1. q = r
        BY <1>2, <1>4, <1>8, <2>1
      <3>2. Sole(r)'
        BY <1>8, <3>1
      <3> QED
        BY <1>4, <1>5, <1>7, <2>1, <3>1, <3>2
    <2>2. CASE i # n
      <3>1. f[i] = files[i] /\ files[i] # NoFile /\ files[i].env = q /\ q \in Saved
        BY <1>3, <1>4, <1>8, <2>2
      <3>2. Sole(q)
        BY <1>6, <1>8
      <3> QED
        BY <1>5, <3>1, <3>2 DEF CreatedAtSave
    <2> QED
      BY <2>1, <2>2
  <1>9. \A i \in RecordIDs : f[i] # NoFile => RecordIDOf(f[i].env) = i
    BY <1>2, <1>3, <1>4
  <1> QED
    BY <1>4, <1>8, <1>9 DEF f

LEMMA CreatedStep ==
    ASSUME StoreTypeOK, CreatedAtSave, [StoreNext]_storeVars
    PROVE  CreatedAtSave'
  <1>1. ASSUME NEW r \in Results \ Saved, Save(r) PROVE CreatedAtSave'
    <2> DEFINE f == Written(r)
    <2>1. PICK gone \in SUBSET Listed(f) : files' = Without(f, gone)
      BY <1>1 DEF Save, writeRecordAtomic, Written
    <2>2. savedAt' = [savedAt EXCEPT ![r] = now]
      BY <1>1 DEF Save
    <2>3. \A i \in RecordIDs, q \in Results :
            f[i] # NoFile /\ f[i].env = q /\ Sole(q)' => f[i].created = savedAt'[q]
      BY <2>2, WrittenAtSave
    <2> HIDE DEF f
    <2>4. \A i \in RecordIDs : files'[i] = NoFile \/ files'[i] = f[i]
      BY <2>1 DEF Without
    <2>5. ASSUME NEW i \in RecordIDs, NEW q \in Results, files'[i] # NoFile,
                 files'[i].env = q, Sole(q)'
          PROVE  files'[i].created = savedAt'[q]
      <3>1. files'[i] = f[i]
        BY <2>4, <2>5
      <3> QED
        BY <2>3, <2>5, <3>1
    <2> QED
      BY <2>5 DEF CreatedAtSave
  <1>2. ASSUME UNCHANGED savedAt,
               \A i \in RecordIDs : files'[i] # NoFile =>
                  files[i] # NoFile /\ files'[i].env = files[i].env
                  /\ files'[i].created = files[i].created
        PROVE  CreatedAtSave'
    BY <1>2 DEF CreatedAtSave, Sole, Saved
  <1>3. ASSUME NEW i \in RecordIDs, MarkFailure(i) PROVE CreatedAtSave'
    <2>1. PICK j \in retryJitter(retryDelay(files[i].attempts + 1)) :
            files' = [files EXCEPT ![i] = [files[i] EXCEPT
                        !.attempts = @ + 1,
                        !.next = now + retryDelay(files[i].attempts + 1) + j]]
      BY <1>3 DEF MarkFailure, writeRecordAtomic
    <2>2. files \in [RecordIDs -> Record \cup {NoFile}] /\ files[i] \in Record
          /\ files[i] # NoFile /\ savedAt' = savedAt
      BY <1>3 DEF StoreTypeOK, MarkFailure, Readable
    <2>3. files'[i].env = files[i].env /\ files'[i].created = files[i].created
      BY <2>1, <2>2 DEF Record
    <2>4. \A k \in RecordIDs \ {i} : files'[k] = files[k]
      BY <2>1, <2>2
    <2> QED
      BY <1>2, <2>2, <2>3, <2>4
  <1>4. ASSUME NEW i \in RecordIDs, Delete(i) PROVE CreatedAtSave'
    BY <1>2, <1>4 DEF Delete, Without
  <1>5. CASE Load
    BY <1>2, <1>5 DEF Load, Without
  <1>6. CASE (\E t \in Time : Clock(t)) \/ UNCHANGED storeVars
    BY <1>2, <1>6 DEF Clock, storeVars
  <1> QED
    BY <1>1, <1>3, <1>4, <1>5, <1>6 DEF StoreNext

\* docs/security.md:95 and enforceLimitsLocked: whatever Save drops was saved
\* no later than any result that stays, for results alone with their ids.
THEOREM DropsOldestHolds == StoreSpec => DropsOldest
  <1> DEFINE Oldest ==
        \A d \in dropped' \ dropped, q \in Results :
            Pending(q)' /\ Sole(d)' /\ Sole(q)' => savedAt'[d] <= savedAt'[q]
  <1>1. StoreInit => CreatedAtSave
    BY DEF StoreInit, CreatedAtSave
  <1>2. CreatedAtSave /\ StoreTypeOK /\ [StoreNext]_storeVars => CreatedAtSave'
    BY CreatedStep
  <1>3. CreatedAtSave /\ StoreTypeOK /\ [StoreNext]_storeVars => [Oldest]_storeVars
    <2> SUFFICES ASSUME CreatedAtSave, StoreTypeOK, StoreNext PROVE Oldest
      OBVIOUS
    <2>1. CASE dropped' = dropped
      BY <2>1
    <2>2. ASSUME NEW r \in Results \ Saved, Save(r) PROVE Oldest
      <3> DEFINE f == Written(r)
      <3>1. PICK gone \in SUBSET Listed(f) :
              /\ DroppedBy(f, gone)
              /\ files' = Without(f, gone)
              /\ dropped' = dropped \cup {f[k].env : k \in gone}
        BY <2>2 DEF Save, writeRecordAtomic, Written
      <3>2. savedAt' = [savedAt EXCEPT ![r] = now]
        BY <2>2 DEF Save
      <3>3. \A i \in RecordIDs, x \in Results :
              f[i] # NoFile /\ f[i].env = x /\ Sole(x)' => f[i].created = savedAt'[x]
        BY <3>2, WrittenAtSave
      <3>0. f \in [RecordIDs -> Record \cup {NoFile}]
        BY <3>2, WrittenAtSave
      <3> HIDE DEF f
      <3>4. SUFFICES ASSUME NEW d \in dropped' \ dropped, NEW q \in Results,
                            Pending(q)', Sole(d)', Sole(q)'
                     PROVE  savedAt'[d] <= savedAt'[q]
        OBVIOUS
      <3>5. PICK k \in gone : d = f[k].env
        BY <3>1
      <3>6. k \in RecordIDs /\ f[k] # NoFile /\ d \in Results
        BY <3>0, <3>1, <3>5 DEF Listed, Readable, Record
      <3>7. f[k].created = savedAt'[d]
        BY <3>3, <3>4, <3>5, <3>6
      <3>8. PICK i \in RecordIDs : i = RecordIDOf(q)
        BY CommandOfType, SanitizedIDType DEF RecordIDOf
      <3>9. files'[i] # NoFile /\ files'[i].env = q /\ CommandOf[q] # NoID
        BY <3>4, <3>8 DEF Pending
      <3>10. i \notin gone /\ files'[i] = f[i]
        BY <3>1, <3>9 DEF Without
      <3>11. i \in Listed(f) \ gone
        BY <3>9, <3>10 DEF Listed, Readable
      <3>12. f[i].created = savedAt'[q]
        BY <3>3, <3>4, <3>9, <3>10
      <3>13. f[k].created <= f[i].created
        BY <3>1, <3>11 DEF DroppedBy
      <3> QED
        BY <3>7, <3>12, <3>13
    <2>3. (\E r \in Results \ Saved : Save(r)) \/ dropped' = dropped
      BY DEF StoreNext, MarkFailure, Delete, Load, Clock
    <2> QED
      BY <2>1, <2>2, <2>3
  <1>4. StoreSpec => []StoreTypeOK
    BY StoreSafe, PTL
  <1> QED
    BY <1>1, <1>2, <1>3, <1>4, PTL DEF StoreSpec, DropsOldest

\* enforceLimitsLocked: no call leaves more records than max_records.
THEOREM RecordsLimitedHolds == StoreSpec => []RecordsLimited
  <1>1. StoreInit => RecordsLimited
    <2> SUFFICES ASSUME StoreInit PROVE RecordsLimited
      OBVIOUS
    <2>1. Listed(files) = {}
      BY DEF StoreInit, Listed, Readable
    <2> QED
      BY <2>1, FS_EmptySet, LimitsPositive DEF RecordsLimited
  <1>2. StoreTypeOK /\ RecordsLimited /\ [StoreNext]_storeVars => RecordsLimited'
    <2> SUFFICES ASSUME StoreTypeOK, RecordsLimited, [StoreNext]_storeVars
                 PROVE  RecordsLimited'
      OBVIOUS
    <2>1. ASSUME Listed(files') \subseteq Listed(files) PROVE RecordsLimited'
      <3>1. IsFiniteSet(Listed(files))
        BY RecordIDsFinite, FS_Subset DEF Listed
      <3>2. /\ Cardinality(Listed(files')) <= Cardinality(Listed(files))
            /\ Cardinality(Listed(files')) \in Nat /\ Cardinality(Listed(files)) \in Nat
        BY <2>1, <3>1, FS_Subset, FS_CardinalityType
      <3> QED
        BY <3>2, LimitsPositive DEF RecordsLimited
    <2>2. ASSUME NEW r \in Results, Save(r) PROVE RecordsLimited'
      BY <2>2 DEF Save, DroppedBy, WithinLimits, RecordsLimited
    <2>3. ASSUME NEW i \in RecordIDs, MarkFailure(i) PROVE RecordsLimited'
      <3>1. Readable(files, i) /\ \A k \in RecordIDs \ {i} : files'[k] = files[k]
        BY <2>3, MarkFailureFacts DEF MarkFailure
      <3>2. Listed(files') \subseteq Listed(files)
        BY <3>1 DEF Listed, Readable
      <3> QED
        BY <2>1, <3>2
    <2>4. ASSUME NEW ids, files' = Without(files, ids) PROVE RecordsLimited'
      BY <2>1, <2>4 DEF Listed, Readable, Without
    <2>5. CASE UNCHANGED files
      BY <2>1, <2>5
    <2> QED
      BY <2>2, <2>3, <2>4, <2>5 DEF StoreNext, Delete, Load, Clock, storeVars
  <1>3. StoreSpec => []StoreTypeOK
    BY StoreSafe, PTL
  <1> QED
    BY <1>1, <1>2, <1>3, PTL DEF StoreSpec

\* The sizes of the listed files before any failure, and with last_error.
BodySizes(f) == [i \in Listed(f) |-> Bytes[f[i].env]]
FileSizes(f) == [i \in Listed(f) |-> FileBytes(f[i])]

\* What the limit in bytes keeps: the listed records, without what last_error
\* added to them, fit into max_bytes.
BodiesLimited == SumFunctionOnSet(BodySizes(files), Listed(files)) <= MaxBytes

LEMMA ListedSizes ==
    ASSUME NEW f \in [RecordIDs -> Record \cup {NoFile}]
    PROVE  /\ IsFiniteSet(Listed(f))
           /\ \A i \in Listed(f) :
                /\ BodySizes(f)[i] = Bytes[f[i].env] /\ BodySizes(f)[i] \in Nat
                /\ FileSizes(f)[i] \in Nat
                /\ BodySizes(f)[i] <= FileSizes(f)[i]
                /\ FileSizes(f)[i] <= BodySizes(f)[i] + ErrorBytes
  <1>1. IsFiniteSet(Listed(f))
    BY RecordIDsFinite, FS_Subset DEF Listed
  <1>2. ASSUME NEW i \in Listed(f)
        PROVE  /\ BodySizes(f)[i] = Bytes[f[i].env] /\ BodySizes(f)[i] \in Nat
               /\ FileSizes(f)[i] \in Nat
               /\ BodySizes(f)[i] <= FileSizes(f)[i]
               /\ FileSizes(f)[i] <= BodySizes(f)[i] + ErrorBytes
    <2>1. f[i] \in Record
      BY DEF Listed, Readable
    <2>2. Bytes[f[i].env] \in Nat /\ ErrorBytes \in Nat /\ f[i].attempts \in Int
      BY <2>1, SizesNat DEF Record
    <2>3. BodySizes(f)[i] = Bytes[f[i].env] /\ FileSizes(f)[i] = FileBytes(f[i])
      BY DEF BodySizes, FileSizes
    <2> QED
      BY <2>2, <2>3 DEF FileBytes
  <1> QED
    BY <1>1, <1>2

\* Fewer files, or the same ones after a failure, have no larger bodies.
LEMMA BodiesShrink ==
    ASSUME NEW f \in [RecordIDs -> Record \cup {NoFile}],
           NEW g \in [RecordIDs -> Record \cup {NoFile}],
           \A i \in Listed(g) : i \in Listed(f) /\ g[i].env = f[i].env
    PROVE  SumFunctionOnSet(BodySizes(g), Listed(g))
             <= SumFunctionOnSet(BodySizes(f), Listed(f))
  <1> DEFINE S == Listed(g)
             T == Listed(f)
             a == BodySizes(g)
             b == BodySizes(f)
  <1>1. IsFiniteSet(S) /\ \A i \in S : a[i] = Bytes[g[i].env] /\ a[i] \in Nat
    BY ListedSizes
  <1>2. IsFiniteSet(T) /\ \A i \in T : b[i] = Bytes[f[i].env] /\ b[i] \in Nat
    BY ListedSizes
  <1>3. S \in SUBSET T /\ \A i \in S : a[i] = b[i]
    BY <1>1, <1>2
  <1> HIDE DEF S, T, a, b
  <1>4. \A i \in S : b[i] \in Nat /\ a[i] \in Nat /\ a[i] <= b[i] + 0
    BY <1>2, <1>3
  <1>5. SumFunctionOnSet(a, S) <= SumFunctionOnSet(b, S) + 0 * Cardinality(S)
    BY <1>1, <1>4, SumGrows
  <1>6. SumFunctionOnSet(b, S) <= SumFunctionOnSet(b, T)
    BY <1>2, <1>3, SumMonotone
  <1>7. SumFunctionOnSet(a, S) \in Nat
    BY <1>1, SumNat
  <1>8. SumFunctionOnSet(b, S) \in Nat /\ SumFunctionOnSet(b, T) \in Nat
    BY <1>2, <1>3, SumNat
  <1>9. Cardinality(S) \in Nat
    BY <1>1, FS_CardinalityType
  <1> QED
    BY <1>5, <1>6, <1>7, <1>8, <1>9 DEF S, T, a, b

\* The files fit when they satisfy the limits, and they exceed their bodies by
\* at most one last_error each.
LEMMA FilesAndBodies ==
    ASSUME NEW f \in [RecordIDs -> Record \cup {NoFile}]
    PROVE  LET total == MapThenSumSet(LAMBDA i : FileBytes(f[i]), Listed(f))
               bodies == SumFunctionOnSet(BodySizes(f), Listed(f))
           IN  /\ total \in Nat /\ bodies \in Nat
               /\ bodies <= total
               /\ total <= bodies + ErrorBytes * Cardinality(Listed(f))
  <1> DEFINE S == Listed(f)
             a == BodySizes(f)
             b == FileSizes(f)
  <1>1. /\ IsFiniteSet(S)
        /\ \A i \in S : a[i] \in Nat /\ b[i] \in Nat
        /\ \A i \in S : a[i] <= b[i] + 0
        /\ \A i \in S : b[i] <= a[i] + ErrorBytes
    BY ListedSizes
  <1>2. MapThenSumSet(LAMBDA i : FileBytes(f[i]), S) = SumFunctionOnSet(b, S)
    BY <1>1, TotalIsSum DEF FileSizes
  <1> HIDE DEF S, a, b
  <1>3. SumFunctionOnSet(a, S) <= SumFunctionOnSet(b, S) + 0 * Cardinality(S)
    BY <1>1, SumGrows
  <1>4. SumFunctionOnSet(b, S) <= SumFunctionOnSet(a, S) + ErrorBytes * Cardinality(S)
    BY <1>1, SizesNat, SumGrows
  <1>5. SumFunctionOnSet(a, S) \in Nat /\ SumFunctionOnSet(b, S) \in Nat
    BY <1>1, SumNat
  <1>6. Cardinality(S) \in Nat
    BY <1>1, FS_CardinalityType
  <1>7. SumFunctionOnSet(a, S) <= SumFunctionOnSet(b, S)
    BY <1>3, <1>5, <1>6
  <1> QED
    BY <1>2, <1>4, <1>5, <1>7 DEF S, a, b

LEMMA BodiesStep ==
    ASSUME StoreTypeOK, BodiesLimited, [StoreNext]_storeVars, StoreTypeOK'
    PROVE  BodiesLimited'
  <1>1. /\ files \in [RecordIDs -> Record \cup {NoFile}]
        /\ files' \in [RecordIDs -> Record \cup {NoFile}]
    BY DEF StoreTypeOK
  <1>2. ASSUME \A i \in Listed(files') : i \in Listed(files) /\ files'[i].env = files[i].env
        PROVE  BodiesLimited'
    <2>1. SumFunctionOnSet(BodySizes(files'), Listed(files'))
            <= SumFunctionOnSet(BodySizes(files), Listed(files))
      BY <1>1, <1>2, BodiesShrink
    <2>2. /\ SumFunctionOnSet(BodySizes(files), Listed(files)) \in Nat
          /\ SumFunctionOnSet(BodySizes(files'), Listed(files')) \in Nat
      BY <1>1, FilesAndBodies
    <2> QED
      BY <2>1, <2>2, LimitsPositive DEF BodiesLimited
  <1>3. ASSUME NEW r \in Results, Save(r) PROVE BodiesLimited'
    <2>1. WithinLimits(files')
      BY <1>3 DEF Save, DroppedBy
    <2>2. MapThenSumSet(LAMBDA i : FileBytes(files'[i]), Listed(files')) <= MaxBytes
      BY <2>1 DEF WithinLimits
    <2>3. LET total == MapThenSumSet(LAMBDA i : FileBytes(files'[i]), Listed(files'))
              bodies == SumFunctionOnSet(BodySizes(files'), Listed(files'))
          IN  total \in Nat /\ bodies \in Nat /\ bodies <= total
      BY <1>1, FilesAndBodies
    <2> QED
      BY <2>2, <2>3, LimitsPositive DEF BodiesLimited
  <1>4. ASSUME NEW i \in RecordIDs, MarkFailure(i) PROVE BodiesLimited'
    <2>1. /\ Readable(files, i) /\ files'[i].env = files[i].env
          /\ \A k \in RecordIDs \ {i} : files'[k] = files[k]
      BY <1>4, MarkFailureFacts DEF MarkFailure
    <2> QED
      BY <1>2, <2>1 DEF Listed, Readable
  <1>5. ASSUME NEW ids, files' = Without(files, ids) PROVE BodiesLimited'
    BY <1>2, <1>5 DEF Listed, Readable, Without
  <1>6. CASE UNCHANGED files
    BY <1>2, <1>6
  <1> QED
    BY <1>3, <1>4, <1>5, <1>6 DEF StoreNext, Delete, Load, Clock, storeVars

\* enforceLimitsLocked and MarkFailure: whatever the order of calls, the store
\* never holds more than max_records records, nor more bytes than max_bytes and
\* one last_error for each of them.
THEOREM LimitsSlackHolds == StoreSpec => []LimitsSlack
  <1>1. StoreInit => BodiesLimited
    <2> SUFFICES ASSUME StoreInit PROVE BodiesLimited
      OBVIOUS
    <2>1. Listed(files) = {}
      BY DEF StoreInit, Listed, Readable
    <2>2. SumFunctionOnSet(BodySizes(files), {}) = 0
      BY FS_EmptySet, SumStep
    <2> QED
      BY <2>1, <2>2, LimitsPositive DEF BodiesLimited
  <1>2. StoreTypeOK /\ StoreTypeOK' /\ BodiesLimited /\ [StoreNext]_storeVars
          => BodiesLimited'
    BY BodiesStep
  <1>3. StoreTypeOK /\ RecordsLimited /\ BodiesLimited => LimitsSlack
    <2> SUFFICES ASSUME StoreTypeOK, RecordsLimited, BodiesLimited PROVE LimitsSlack
      OBVIOUS
    <2>1. files \in [RecordIDs -> Record \cup {NoFile}]
      BY DEF StoreTypeOK
    <2>2. LET total == MapThenSumSet(LAMBDA i : FileBytes(files[i]), Listed(files))
              bodies == SumFunctionOnSet(BodySizes(files), Listed(files))
          IN  /\ total \in Nat /\ bodies \in Nat
              /\ total <= bodies + ErrorBytes * Cardinality(Listed(files))
      BY <2>1, FilesAndBodies
    <2>3. Cardinality(Listed(files)) \in Nat /\ ErrorBytes * Cardinality(Listed(files)) \in Nat
      BY <2>1, ListedSizes, FS_CardinalityType, SizesNat
    <2> QED
      BY <2>2, <2>3, LimitsPositive DEF LimitsSlack, BodiesLimited
  <1>4. StoreSpec => []StoreTypeOK
    BY StoreSafe, PTL
  <1>5. StoreSpec => []RecordsLimited
    BY RecordsLimitedHolds
  <1> QED
    BY <1>1, <1>2, <1>3, <1>4, <1>5, PTL DEF StoreSpec
=============================================================================
