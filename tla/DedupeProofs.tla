---------------------------- MODULE DedupeProofs ----------------------------
(***************************************************************************)
(* Proofs about the de-duplication store, for every finite set of command  *)
(* ids, every TTL, every number of entries and every clock range.          *)
(***************************************************************************)
EXTENDS Dedupe, FiniteSetTheorems, TLAPS

\* Any set of command ids is finite, so that its cardinality is a natural
\* number and grows with the set.
LEMMA IDSetsFinite ==
    ASSUME NEW S \in SUBSET CommandIDs, NEW T \in SUBSET S
    PROVE  /\ IsFiniteSet(S) /\ Cardinality(S) \in Nat
           /\ Cardinality(T) \in Nat
           /\ Cardinality(T) <= Cardinality(S)
  <1>1. IsFiniteSet(S) /\ IsFiniteSet(T)
    BY CommandIDsFinite, FS_Subset
  <1>2. Cardinality(T) <= Cardinality(S)
    BY <1>1, FS_Subset
  <1> QED
    BY <1>1, <1>2, FS_CardinalityType

\* dedupe.go pruneLocked keeps or forgets each entry, and forgets only those
\* older than the TTL; it never adds one.
LEMMA PruneFacts ==
    ASSUME NEW m \in [CommandIDs -> Time \cup {Absent}], NEW t \in Time
    PROVE  LET p == pruneLocked(m, t) IN
           /\ p \in [CommandIDs -> Time \cup {Absent}]
           /\ Keys(p) \in SUBSET Keys(m)
           /\ \A id \in CommandIDs :
                 \/ p[id] = m[id]
                 \/ p[id] = Absent /\ m[id] # Absent /\ t - m[id] > TTL
  BY DEF pruneLocked, Keys

\* dedupe.go trimLocked keeps or forgets each entry, leaves at most
\* maxEntries of them, and when it forgets one the maxEntries it keeps are
\* all at least as new.
LEMMA TrimFacts ==
    ASSUME NEW m \in [CommandIDs -> Time \cup {Absent}],
           NEW r, trimLocked(m, r)
    PROVE  /\ r \in [CommandIDs -> Time \cup {Absent}]
           /\ \A id \in CommandIDs : r[id] = m[id] \/ r[id] = Absent
           /\ Cardinality(Keys(r)) <= MaxEntries
           /\ \A id \in CommandIDs :
                 m[id] # Absent /\ r[id] = Absent
                 => /\ Cardinality(Keys(r)) = MaxEntries
                    /\ \A k \in Keys(r) : m[k] >= m[id]
  <1>1. PICK kept \in SUBSET Keys(m) :
          /\ IF Cardinality(Keys(m)) <= MaxEntries
               THEN kept = Keys(m)
               ELSE Cardinality(kept) = MaxEntries
          /\ \A k \in kept, d \in Keys(m) \ kept : m[d] <= m[k]
          /\ r = [id \in CommandIDs |-> IF id \in kept THEN m[id] ELSE Absent]
    BY DEF trimLocked
  <1>2. Keys(r) = kept
    BY <1>1 DEF Keys
  <1>3. r \in [CommandIDs -> Time \cup {Absent}]
    BY <1>1
  <1>4. \A id \in CommandIDs : r[id] = m[id] \/ r[id] = Absent
    BY <1>1
  <1>5. Cardinality(Keys(r)) <= MaxEntries
    BY <1>1, <1>2, MaxEntriesPositive
  <1>6. ASSUME NEW id \in CommandIDs, m[id] # Absent, r[id] = Absent
        PROVE  /\ Cardinality(Keys(r)) = MaxEntries
               /\ \A k \in Keys(r) : m[k] >= m[id]
    <2>1. id \in Keys(m) \ kept
      BY <1>1, <1>6 DEF Keys
    <2>2. Cardinality(kept) = MaxEntries
      BY <1>1, <2>1
    <2>3. ASSUME NEW k \in Keys(r) PROVE m[k] >= m[id]
      <3>1. k \in kept /\ k \in CommandIDs
        BY <1>2 DEF Keys
      <3>2. m[id] <= m[k]
        BY <1>1, <2>1, <3>1
      <3>3. m[id] \in Int /\ m[k] \in Int
        BY <3>1 DEF Time, Absent
      <3> QED
        BY <3>2, <3>3
    <2> QED
      BY <1>2, <2>2, <2>3
  <1> QED
    BY <1>3, <1>4, <1>5, <1>6

\* A step that forgets some ids for having expired and changes nothing else
\* of the store keeps the invariant (Prune, Seen and a refusing Reserve).
LEMMA ForgetExpiredKeepsInv ==
    ASSUME DedupeInv,
           now' = now, stamp' = stamp, high' = high, newer' = newer,
           seen' \in [CommandIDs -> Time \cup {Absent}],
           reply' \in {NoReply} \cup
                 [op : {"Reserve", "Seen"}, id : CommandIDs, ok : BOOLEAN],
           \A id \in CommandIDs :
              \/ seen'[id] = seen[id]
              \/ seen'[id] = Absent /\ now - seen[id] > TTL /\ seen[id] # Absent
    PROVE  DedupeInv'
  <1>1. TypeOK'
    BY DEF DedupeInv, TypeOK
  <1>2. Keys(seen') \in SUBSET Keys(seen)
    BY DEF Keys
  <1>3. SizeBounded'
    <2>1. Keys(seen) \in SUBSET CommandIDs
      BY DEF Keys
    <2>2. Cardinality(Keys(seen')) <= Cardinality(Keys(seen))
          /\ Cardinality(Keys(seen)) \in Nat /\ Cardinality(Keys(seen')) \in Nat
      BY <1>2, <2>1, IDSetsFinite
    <2> QED
      BY <2>2, MaxEntriesPositive DEF SizeBounded, DedupeInv
  <1>4. SeenIsStamp'
    BY <1>2 DEF DedupeInv, SeenIsStamp, Keys
  <1>5. HighCoversNow'
    BY DEF DedupeInv, HighCoversNow
  <1>6. PeersRecorded'
    BY <1>2 DEF DedupeInv, PeersRecorded, Keys
  <1>7. ForgottenForCause'
    <2> SUFFICES ASSUME NEW id \in CommandIDs, stamp[id] # Absent,
                        seen'[id] = Absent
                 PROVE  Expired(id) \/ Crowded(id)
      BY DEF ForgottenForCause, Expired, Crowded
    <2>1. CASE seen[id] = Absent
      BY <2>1 DEF DedupeInv, ForgottenForCause
    <2>2. CASE seen[id] # Absent
      <3>1. now - seen[id] > TTL /\ seen[id] = stamp[id]
        BY <2>2 DEF DedupeInv, SeenIsStamp, Keys
      <3>2. high[id] >= now
        BY DEF DedupeInv, HighCoversNow
      <3>3. high[id] \in Int /\ now \in Int /\ stamp[id] \in Int
        BY DEF DedupeInv, TypeOK, Time, Absent
      <3> QED
        BY <3>1, <3>2, <3>3, TTLPositive DEF Expired
    <2> QED
      BY <2>1, <2>2
  <1> QED
    BY <1>1, <1>3, <1>4, <1>5, <1>6, <1>7 DEF DedupeInv

\* Stamping id into a pruned map and trimming it keeps the invariant: the
\* common part of Mark and of a granting Reserve.
LEMMA StampKeepsInv ==
    ASSUME DedupeInv, NEW id \in CommandIDs,
           StampAndTrim(pruneLocked(seen, now), id),
           now' = now,
           reply' \in {NoReply} \cup
                 [op : {"Reserve", "Seen"}, id : CommandIDs, ok : BOOLEAN]
    PROVE  DedupeInv'
  <1> DEFINE p == pruneLocked(seen, now)
             m == [p EXCEPT ![id] = now]
  <1>0. now \in Time /\ seen \in [CommandIDs -> Time \cup {Absent}]
    BY DEF DedupeInv, TypeOK
  <1>1. /\ p \in [CommandIDs -> Time \cup {Absent}]
        /\ Keys(p) \in SUBSET Keys(seen)
        /\ \A c \in CommandIDs :
              \/ p[c] = seen[c]
              \/ p[c] = Absent /\ seen[c] # Absent /\ now - seen[c] > TTL
    BY <1>0, PruneFacts
  <1>2. m \in [CommandIDs -> Time \cup {Absent}]
        /\ m[id] = now /\ \A c \in CommandIDs \ {id} : m[c] = p[c]
    BY <1>0, <1>1
  <1>3. trimLocked(m, seen') /\ RecordStamp(p, id, now)
    BY DEF StampAndTrim
  <1> HIDE DEF p, m
  <1>4. /\ seen' \in [CommandIDs -> Time \cup {Absent}]
        /\ \A c \in CommandIDs : seen'[c] = m[c] \/ seen'[c] = Absent
        /\ Cardinality(Keys(seen')) <= MaxEntries
        /\ \A c \in CommandIDs :
              m[c] # Absent /\ seen'[c] = Absent
              => /\ Cardinality(Keys(seen')) = MaxEntries
                 /\ \A k \in Keys(seen') : m[k] >= m[c]
    BY <1>2, <1>3, TrimFacts
  <1>5. /\ stamp' = [stamp EXCEPT ![id] = now]
        /\ high' = [high EXCEPT ![id] = now]
        /\ newer' = [c \in CommandIDs |->
                    IF c = id THEN {d \in Keys(p) \ {id} : p[d] >= now}
                    ELSE IF stamp[c] # Absent /\ now >= stamp[c]
                           THEN newer[c] \cup {id}
                           ELSE newer[c]]
    BY <1>3 DEF RecordStamp
  <1>6. TypeOK'
    BY <1>0, <1>4, <1>5 DEF DedupeInv, TypeOK, Keys
  <1>7. SizeBounded'
    BY <1>4 DEF SizeBounded
  <1>8. SeenIsStamp'
    <2> SUFFICES ASSUME NEW c \in Keys(seen') PROVE seen'[c] = stamp'[c]
      BY DEF SeenIsStamp
    <2>1. c \in CommandIDs /\ seen'[c] = m[c] /\ m[c] # Absent
      BY <1>4 DEF Keys
    <2>2. CASE c = id
      BY <1>2, <1>5, <2>1, <2>2 DEF DedupeInv, TypeOK
    <2>3. CASE c # id
      <3>1. m[c] = seen[c] /\ c \in Keys(seen)
        BY <1>1, <1>2, <2>1, <2>3 DEF Keys
      <3>2. stamp'[c] = stamp[c]
        BY <1>5, <2>1, <2>3 DEF DedupeInv, TypeOK
      <3> QED
        BY <2>1, <3>1, <3>2 DEF DedupeInv, SeenIsStamp
    <2> QED
      BY <2>2, <2>3
  <1>9. HighCoversNow'
    BY <1>0, <1>5 DEF DedupeInv, HighCoversNow, TypeOK, Time
  <1>10. ASSUME NEW c \in CommandIDs, NEW d \in Keys(seen'), c # d,
                m[c] # Absent, seen'[d] >= m[c]
         PROVE  d \in newer'[c]
    <2>1. d \in CommandIDs /\ seen'[d] = m[d] /\ m[d] # Absent
      BY <1>4 DEF Keys
    <2>2. CASE c = id
      <3>1. m[d] = p[d] /\ d \in Keys(p) \ {id} /\ m[c] = now
        BY <1>2, <1>10, <2>1, <2>2 DEF Keys
      <3> QED
        BY <1>5, <1>10, <2>1, <2>2, <3>1
    <2>3. CASE c # id
      <3>1. m[c] = seen[c] /\ c \in Keys(seen) /\ seen[c] = stamp[c]
        BY <1>1, <1>2, <1>10, <2>3 DEF Keys, DedupeInv, SeenIsStamp
      <3>2. CASE d = id
        <4>1. now >= stamp[c] /\ stamp[c] # Absent
          BY <1>2, <1>10, <2>1, <3>1, <3>2
        <4> QED
          BY <1>5, <2>3, <3>2, <4>1
      <3>3. CASE d # id
        <4>1. m[d] = seen[d] /\ d \in Keys(seen)
          BY <1>1, <1>2, <2>1, <3>3 DEF Keys
        <4>2. d \in newer[c]
          BY <1>10, <2>1, <3>1, <4>1 DEF DedupeInv, PeersRecorded
        <4> QED
          BY <1>5, <2>3, <4>2
      <3> QED
        BY <3>2, <3>3
    <2> QED
      BY <2>2, <2>3
  <1>11. PeersRecorded'
    <2> SUFFICES ASSUME NEW c \in Keys(seen'), NEW d \in Keys(seen'), c # d,
                        seen'[d] >= seen'[c]
                 PROVE  d \in newer'[c]
      BY DEF PeersRecorded
    <2>1. c \in CommandIDs /\ seen'[c] = m[c] /\ m[c] # Absent
      BY <1>4 DEF Keys
    <2> QED
      BY <1>10, <2>1
  <1>12. ForgottenForCause'
    <2> SUFFICES ASSUME NEW c \in CommandIDs, stamp'[c] # Absent,
                        seen'[c] = Absent
                 PROVE  Expired(c)' \/ Crowded(c)'
      BY DEF ForgottenForCause
    <2>1. CASE m[c] # Absent
      <3>1. Cardinality(Keys(seen')) = MaxEntries
        BY <1>4, <2>1
      <3>2. ASSUME NEW k \in Keys(seen') PROVE k \in newer'[c]
        <4>1. seen'[k] = m[k] /\ k # c
          BY <1>4 DEF Keys
        <4>2. seen'[k] >= m[c]
          BY <1>4, <2>1, <4>1
        <4> QED
          BY <1>10, <2>1, <4>1, <4>2
      <3>3. newer'[c] \in SUBSET CommandIDs
        BY <1>6 DEF TypeOK
      <3>4. Keys(seen') \in SUBSET newer'[c]
        BY <3>2
      <3>5. Cardinality(Keys(seen')) <= Cardinality(newer'[c])
        BY <3>3, <3>4, IDSetsFinite
      <3> QED
        BY <3>1, <3>5, MaxEntriesPositive DEF Crowded
    <2>2. CASE m[c] = Absent
      <3>1. c # id
        BY <1>0, <1>2, <2>2 DEF Time, Absent
      <3>2. p[c] = Absent /\ stamp'[c] = stamp[c] /\ high'[c] = high[c]
            /\ newer[c] \in SUBSET newer'[c]
        BY <1>2, <1>5, <2>2, <3>1 DEF DedupeInv, TypeOK
      <3>3. CASE seen[c] = Absent
        <4>1. Expired(c) \/ Crowded(c)
          BY <3>2, <3>3 DEF DedupeInv, ForgottenForCause
        <4>2. CASE Expired(c)
          BY <3>2, <4>2 DEF Expired
        <4>3. CASE Crowded(c)
          <5>1. newer'[c] \in SUBSET CommandIDs
            BY <1>6 DEF TypeOK
          <5>2. /\ Cardinality(newer[c]) <= Cardinality(newer'[c])
                /\ Cardinality(newer[c]) \in Nat
                /\ Cardinality(newer'[c]) \in Nat
            BY <3>2, <5>1, IDSetsFinite
          <5> QED
            BY <4>3, <5>2, MaxEntriesPositive DEF Crowded
        <4> QED
          BY <4>1, <4>2, <4>3
      <3>4. CASE seen[c] # Absent
        <4>1. now - seen[c] > TTL /\ seen[c] = stamp[c]
          BY <1>1, <3>2, <3>4 DEF DedupeInv, SeenIsStamp, Keys
        <4>2. high[c] >= now
          BY <3>2 DEF DedupeInv, HighCoversNow
        <4>3. high[c] \in Int /\ now \in Int /\ stamp[c] \in Int
          BY DEF DedupeInv, TypeOK, Time, Absent
        <4> QED
          BY <3>2, <4>1, <4>2, <4>3, TTLPositive DEF Expired
      <3> QED
        BY <3>3, <3>4
    <2> QED
      BY <2>1, <2>2
  <1> QED
    BY <1>6, <1>7, <1>8, <1>9, <1>11, <1>12 DEF DedupeInv

\* The clock may be set to any value: the invariant does not depend on the
\* direction of time.
LEMMA ClockKeepsInv ==
    ASSUME DedupeInv, NEW t \in Time, Clock(t)
    PROVE  DedupeInv'
  <1>1. /\ now' = t /\ seen' = seen /\ stamp' = stamp /\ newer' = newer
        /\ high' = [id \in CommandIDs |->
                      IF stamp[id] # Absent /\ t > high[id] THEN t ELSE high[id]]
        /\ reply' = NoReply
    BY DEF Clock
  <1>2. TypeOK'
    BY <1>1 DEF DedupeInv, TypeOK
  <1>3. \A id \in CommandIDs : high'[id] >= high[id]
    BY <1>1 DEF DedupeInv, TypeOK, Time, Absent
  <1>4. SizeBounded' /\ SeenIsStamp' /\ PeersRecorded'
    BY <1>1 DEF DedupeInv, SizeBounded, SeenIsStamp, PeersRecorded, Keys
  <1>5. HighCoversNow'
    BY <1>1 DEF DedupeInv, HighCoversNow, TypeOK, Time, Absent
  <1>6. ForgottenForCause'
    <2> SUFFICES ASSUME NEW id \in CommandIDs, stamp[id] # Absent,
                        seen[id] = Absent
                 PROVE  Expired(id)' \/ Crowded(id)'
      BY <1>1 DEF ForgottenForCause
    <2>1. Expired(id) \/ Crowded(id)
      BY DEF DedupeInv, ForgottenForCause
    <2>2. CASE Expired(id)
      <3>1. high'[id] >= high[id] /\ high[id] \in Int /\ high'[id] \in Int
            /\ stamp[id] \in Int
        BY <1>2, <1>3 DEF DedupeInv, TypeOK, Time, Absent
      <3> QED
        BY <1>1, <2>2, <3>1, TTLPositive DEF Expired
    <2>3. CASE Crowded(id)
      BY <1>1, <2>3 DEF Crowded
    <2> QED
      BY <2>1, <2>2, <2>3
  <1> QED
    BY <1>2, <1>4, <1>5, <1>6 DEF DedupeInv

\* The empty store NewDedupeStore makes satisfies the invariant.
LEMMA InitInv == Init => DedupeInv
  <1> SUFFICES ASSUME Init PROVE DedupeInv
    OBVIOUS
  <1>1. TypeOK
    BY DEF Init, TypeOK
  <1>2. Keys(seen) = {}
    BY DEF Init, Keys
  <1>3. SizeBounded
    BY <1>2, FS_EmptySet, MaxEntriesPositive DEF SizeBounded
  <1>4. SeenIsStamp /\ HighCoversNow /\ PeersRecorded /\ ForgottenForCause
    BY <1>2 DEF Init, SeenIsStamp, HighCoversNow, PeersRecorded,
                ForgottenForCause
  <1> QED
    BY <1>1, <1>3, <1>4 DEF DedupeInv

\* Every method of the store, and every move of the clock, keeps the
\* invariant.
LEMMA NextInv == DedupeInv /\ [Next]_vars => DedupeInv'
  <1> SUFFICES ASSUME DedupeInv, [Next]_vars PROVE DedupeInv'
    OBVIOUS
  <1>0. now \in Time /\ seen \in [CommandIDs -> Time \cup {Absent}]
    BY DEF DedupeInv, TypeOK
  <1>1. ASSUME NEW id \in CommandIDs, Reserve(id) PROVE DedupeInv'
    <2> DEFINE m == pruneLocked(seen, now)
    <2>1. CASE /\ seen' = m
               /\ reply' = ReplyTo("Reserve", id, FALSE)
               /\ UNCHANGED <<stamp, high, newer>>
               /\ UNCHANGED now
      <3>1. reply' \in [op : {"Reserve", "Seen"}, id : CommandIDs, ok : BOOLEAN]
        BY <2>1 DEF ReplyTo
      <3>2. /\ m \in [CommandIDs -> Time \cup {Absent}]
            /\ \A c \in CommandIDs :
                 \/ m[c] = seen[c]
                 \/ m[c] = Absent /\ seen[c] # Absent /\ now - seen[c] > TTL
        BY <1>0, PruneFacts
      <3> QED
        BY <2>1, <3>1, <3>2, ForgetExpiredKeepsInv
    <2>2. CASE /\ StampAndTrim(m, id)
               /\ reply' = ReplyTo("Reserve", id, TRUE)
               /\ UNCHANGED now
      <3>1. reply' \in [op : {"Reserve", "Seen"}, id : CommandIDs, ok : BOOLEAN]
        BY <2>2 DEF ReplyTo
      <3> QED
        BY <2>2, <3>1, StampKeepsInv
    <2> QED
      BY <1>1, <2>1, <2>2 DEF Reserve
  <1>2. ASSUME NEW id \in CommandIDs, Mark(id) PROVE DedupeInv'
    BY <1>2, StampKeepsInv DEF Mark
  <1>3. ASSUME NEW id \in CommandIDs, Seen(id) PROVE DedupeInv'
    <2>1. reply' \in [op : {"Reserve", "Seen"}, id : CommandIDs, ok : BOOLEAN]
      BY <1>3 DEF Seen, ReplyTo
    <2>2. /\ seen' \in [CommandIDs -> Time \cup {Absent}]
          /\ \A c \in CommandIDs :
              \/ seen'[c] = seen[c]
              \/ seen'[c] = Absent /\ now - seen[c] > TTL /\ seen[c] # Absent
      BY <1>0, <1>3 DEF Seen
    <2> QED
      BY <1>3, <2>1, <2>2, ForgetExpiredKeepsInv DEF Seen
  <1>4. CASE Prune
    <2>1. /\ seen' \in [CommandIDs -> Time \cup {Absent}]
          /\ \A c \in CommandIDs :
              \/ seen'[c] = seen[c]
              \/ seen'[c] = Absent /\ now - seen[c] > TTL /\ seen[c] # Absent
      BY <1>0, <1>4, PruneFacts DEF Prune
    <2> QED
      BY <1>4, <2>1, ForgetExpiredKeepsInv DEF Prune
  <1>5. ASSUME NEW t \in Time, Clock(t) PROVE DedupeInv'
    BY <1>5, ClockKeepsInv
  <1>6. CASE UNCHANGED vars
    BY <1>6 DEF vars, DedupeInv, TypeOK, SizeBounded, SeenIsStamp,
                HighCoversNow, PeersRecorded, ForgottenForCause, Keys,
                Expired, Crowded
  <1> QED
    BY <1>1, <1>2, <1>3, <1>4, <1>5, <1>6 DEF Next

\* The inductive invariant of the store holds in every reachable state:
\* types, the entry limit, and that an id is forgotten only for a cause.
THEOREM DedupeSafe == Spec => []DedupeInv
  BY InitInv, NextInv, PTL DEF Spec

\* An id that was stamped is forgotten only once expired or crowded out.
THEOREM StoreForgetsForCause == Spec => []ForgottenForCause
  <1>1. DedupeInv => ForgottenForCause
    BY DEF DedupeInv
  <1> QED
    BY <1>1, DedupeSafe, PTL

\* No command_id is granted twice before its TTL has passed or maxEntries
\* other ids were stamped no earlier.
THEOREM NoEarlyRegrantHolds == Spec => NoEarlyRegrant
  <1> DEFINE A == \A id \in CommandIDs :
                     /\ reply' = ReplyTo("Reserve", id, TRUE)
                     /\ stamp[id] # Absent
                     => Expired(id) \/ Crowded(id)
  <1>1. DedupeInv /\ [Next]_vars => [A]_vars
    <2> SUFFICES ASSUME DedupeInv, Next, NEW id \in CommandIDs,
                        reply' = ReplyTo("Reserve", id, TRUE),
                        stamp[id] # Absent
                 PROVE  Expired(id) \/ Crowded(id)
      OBVIOUS
    <2>1. reply' # NoReply /\ \A c \in CommandIDs :
             /\ reply' # ReplyTo("Reserve", c, FALSE)
             /\ \A b \in BOOLEAN : reply' # ReplyTo("Seen", c, b)
             /\ reply' = ReplyTo("Reserve", c, TRUE) => c = id
      BY DEF ReplyTo, NoReply
    <2>2. Reserve(id)
      <3>1. ASSUME NEW c \in CommandIDs, Seen(c) PROVE FALSE
        <4>1. (seen[c] # Absent /\ ~(seen[c] # Absent /\ now - seen[c] > TTL))
                \in BOOLEAN
          OBVIOUS
        <4> QED
          BY <2>1, <3>1, <4>1 DEF Seen
      <3>2. ASSUME NEW c \in CommandIDs, Reserve(c) PROVE c = id
        BY <2>1, <3>2 DEF Reserve
      <3>3. ASSUME NEW c \in CommandIDs, Mark(c) PROVE FALSE
        BY <2>1, <3>3 DEF Mark
      <3>4. ~Prune /\ \A t \in Time : ~Clock(t)
        BY <2>1 DEF Prune, Clock
      <3> QED
        BY <3>1, <3>2, <3>3, <3>4 DEF Next
    <2>3. pruneLocked(seen, now)[id] = Absent
      BY <2>1, <2>2 DEF Reserve
    <2>4. CASE seen[id] = Absent
      BY <2>4 DEF DedupeInv, ForgottenForCause
    <2>5. CASE seen[id] # Absent
      <3>1. now - seen[id] > TTL
        BY <2>3, <2>5 DEF pruneLocked
      <3>2. seen[id] = stamp[id] /\ high[id] >= now
        BY <2>5 DEF DedupeInv, SeenIsStamp, HighCoversNow, Keys
      <3>3. high[id] \in Int /\ now \in Int /\ stamp[id] \in Int
        BY DEF DedupeInv, TypeOK, Time, Absent
      <3> QED
        BY <3>1, <3>2, <3>3, TTLPositive DEF Expired
    <2> QED
      BY <2>4, <2>5
  <1> QED
    BY <1>1, DedupeSafe, PTL DEF Spec, NoEarlyRegrant

-----------------------------------------------------------------------------
(* The store as a set of ids.                                              *)

\* While every id is fresh the map holds all that were stamped, none of them
\* old enough for pruneLocked or Seen.
LEMMA FreshIsHeld ==
    ASSUME DedupeInv, Fresh, NEW id \in CommandIDs
    PROVE  /\ seen[id] = stamp[id]
           /\ seen[id] # Absent => ~(now - seen[id] > TTL)
  <1>1. CASE seen[id] = Absent
    <2>1. stamp[id] = Absent
      BY <1>1 DEF DedupeInv, ForgottenForCause, Fresh, Keys
    <2>. QED  BY <1>1, <2>1
  <1>2. CASE seen[id] # Absent
    <2>1. seen[id] = stamp[id] /\ stamp[id] # Absent
      BY <1>2 DEF DedupeInv, SeenIsStamp, Keys
    <2>2. ~(high[id] - stamp[id] > TTL)
      BY <2>1 DEF Fresh, Expired, Keys
    <2>3. high[id] >= now
      BY <2>1 DEF DedupeInv, HighCoversNow
    <2>4. high[id] \in Int /\ now \in Int /\ stamp[id] \in Int
      BY DEF DedupeInv, TypeOK, Time, Absent
    <2>. QED  BY <2>1, <2>2, <2>3, <2>4, TTLPositive
  <1>. QED  BY <1>1, <1>2

LEMMA StampAdds ==
    ASSUME DedupeInv, NEW m, NEW id \in CommandIDs, StampAndTrim(m, id)
    PROVE  Keys(stamp') = Keys(stamp) \cup {id}
  <1>1. now \in Time /\ stamp' = [stamp EXCEPT ![id] = now]
    BY DEF StampAndTrim, RecordStamp, DedupeInv, TypeOK
  <1>2. now # Absent
    BY <1>1 DEF Time, Absent
  <1>. QED  BY <1>1, <1>2 DEF Keys, DedupeInv, TypeOK

\* Each method is the one of the set, and the clock and Prune are silent.
LEMMA SetStep ==
    ASSUME DedupeInv, Fresh, Next
    PROVE  IDs!SetNext
  <1>1. ASSUME NEW id \in CommandIDs, Reserve(id)
        PROVE  IDs!SetReserve(id)
    <2>1. pruneLocked(seen, now)[id] = seen[id] /\ seen[id] = stamp[id]
      BY FreshIsHeld DEF pruneLocked
    <2>2. CASE seen[id] # Absent
      <3>1. id \in Keys(stamp) /\ UNCHANGED stamp
        BY <1>1, <2>1, <2>2 DEF Reserve, Keys
      <3>2. reply' = [op |-> "Reserve", id |-> id, ok |-> FALSE]
        BY <1>1, <2>1, <2>2 DEF Reserve, ReplyTo
      <3>3. (id \notin Keys(stamp)) = FALSE
        BY <3>1
      <3>4. Keys(stamp)' = Keys(stamp) \cup {id}
        BY <3>1 DEF Keys
      <3>. QED  BY <3>2, <3>3, <3>4 DEF IDs!SetReserve
    <2>3. CASE seen[id] = Absent
      <3>1. id \notin Keys(stamp)
        BY <2>1, <2>3 DEF Keys
      <3>2. /\ reply' = [op |-> "Reserve", id |-> id, ok |-> TRUE]
            /\ StampAndTrim(pruneLocked(seen, now), id)
        BY <1>1, <2>1, <2>3 DEF Reserve, ReplyTo
      <3>3. (id \notin Keys(stamp)) = TRUE
        BY <3>1
      <3>4. Keys(stamp') = Keys(stamp) \cup {id}
        BY <3>2, StampAdds
      <3>. QED  BY <3>2, <3>3, <3>4 DEF IDs!SetReserve
    <2>. QED  BY <2>2, <2>3
  <1>2. ASSUME NEW id \in CommandIDs, Mark(id)
        PROVE  IDs!SetMark(id)
    <2>1. Keys(stamp') = Keys(stamp) \cup {id}
      BY <1>2, StampAdds DEF Mark
    <2>. QED  BY <1>2, <2>1 DEF Mark, NoReply, IDs!SetMark, IDs!None
  <1>3. ASSUME NEW id \in CommandIDs, Seen(id)
        PROVE  IDs!SetSeen(id)
    <2>1. /\ seen[id] = stamp[id]
          /\ seen[id] # Absent => ~(now - seen[id] > TTL)
      BY FreshIsHeld
    <2>2. (seen[id] # Absent /\ ~(seen[id] # Absent /\ now - seen[id] > TTL))
             = (id \in Keys(stamp))
      BY <2>1 DEF Keys
    <2>3. reply' = [op |-> "Seen", id |-> id,
             ok |-> seen[id] # Absent /\ ~(seen[id] # Absent /\ now - seen[id] > TTL)]
      BY <1>3 DEF Seen, ReplyTo
    <2>4. reply' = [op |-> "Seen", id |-> id, ok |-> id \in Keys(stamp)]
      BY <2>2, <2>3
    <2>5. Keys(stamp)' = Keys(stamp)
      BY <1>3 DEF Seen, Keys
    <2>. QED  BY <2>4, <2>5 DEF IDs!SetSeen
  <1>4. ASSUME Prune \/ \E t \in Time : Clock(t)
        PROVE  IDs!SetQuiet
    <2>1. reply' = NoReply /\ UNCHANGED stamp
      BY <1>4 DEF Prune, Clock
    <2>2. Keys(stamp)' = Keys(stamp)
      BY <2>1 DEF Keys
    <2>. QED  BY <2>1, <2>2 DEF IDs!SetQuiet, IDs!None, NoReply
  <1>. QED  BY <1>1, <1>2, <1>3, <1>4 DEF Next, IDs!SetNext

\* dedupe.go, for any ids, TTL, number of entries and clock: while all ids are
\* fresh, each step of the store is one of the set.
THEOREM ActsAsSetHolds == Spec => ActsAsSet
  <1>1. DedupeInv /\ [Next]_vars => [Fresh => IDs!SetNext]_vars
    BY SetStep
  <1>. QED  BY <1>1, DedupeSafe, PTL DEF Spec, ActsAsSet

\* A store that is never asked beyond its TTL and its capacity implements the
\* set: what module Handler assumes of it.
THEOREM ImplementsSet == Spec /\ []Fresh => IDs!SetSpec
  <1>1. Init => IDs!SetInit
    <2>. SUFFICES ASSUME Init PROVE IDs!SetInit
      OBVIOUS
    <2>1. Keys(stamp) = {} /\ reply = NoReply
      BY DEF Init, Keys
    <2>. QED  BY <2>1 DEF IDs!SetInit, IDs!None, NoReply
  <1>2. DedupeInv /\ Fresh /\ [Next]_vars => [IDs!SetNext]_(IDs!setVars)
    <2>1. UNCHANGED vars => UNCHANGED IDs!setVars
      BY DEF vars, IDs!setVars, Keys
    <2>. QED  BY <2>1, SetStep
  <1>. QED  BY <1>1, <1>2, DedupeSafe, PTL DEF Spec, IDs!SetSpec
=============================================================================
