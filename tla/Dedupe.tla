------------------------------- MODULE Dedupe -------------------------------
(***************************************************************************)
(* The command de-duplication store of internal/commands/dedupe.go: a map  *)
(* from command_id to the wall-clock time of its last stamp, guarded by    *)
(* one mutex, so that every method is one atomic step.  Entries leave the  *)
(* map when they are older than the TTL (pruneLocked, Seen) or when more   *)
(* than maxEntries are held and they are the oldest (trimLocked).          *)
(*                                                                         *)
(* The store reads the wall clock (time.Now().UTC() drops the monotonic    *)
(* reading), so the clock of the model may jump forwards and backwards.    *)
(*                                                                         *)
(* The variables stamp, high and newer are history: they record, for every *)
(* id, when it was last stamped, the highest clock value since then, and   *)
(* which other ids were stamped no earlier on the clock.  They let the     *)
(* properties say when the store may forget an id it has granted.          *)
(***************************************************************************)
EXTENDS Integers, FiniteSets

CONSTANTS
    CommandIDs,   \* the command_ids that transports deliver
    TTL,          \* ttl, after NewDedupeStore replaced a value <= 0
    MaxEntries,   \* maxEntries, after NewDedupeStore replaced a value <= 0
    MaxTime       \* bound: the clock stays within 0..MaxTime

ASSUME CommandIDsFinite == IsFiniteSet(CommandIDs)
ASSUME TTLPositive == TTL \in Nat \ {0}
ASSUME MaxEntriesPositive == MaxEntries \in Nat \ {0}
ASSUME MaxTimeNat == MaxTime \in Nat

VARIABLES
    now,     \* the wall clock
    seen,    \* the map: time of the stamp, or Absent
    reply,   \* the answer of the last operation, NoReply if it had none
    stamp,   \* history: clock at the last Reserve or Mark of each id
    high,    \* history: the highest clock value since that stamp
    newer    \* history: other ids stamped no earlier than that stamp

vars == <<now, seen, reply, stamp, high, newer>>

Time == 0 .. MaxTime
Absent == -1
NoReply == [op |-> "none"]
ReplyTo(op, id, ok) == [op |-> op, id |-> id, ok |-> ok]

Keys(m) == {id \in CommandIDs : m[id] # Absent}

-----------------------------------------------------------------------------
(* The locked helpers.                                                     *)

\* Mutant: an entry goes when it is exactly as old as the TTL.
PruneAtTTL(m, t) ==
    [id \in CommandIDs |->
        IF m[id] # Absent /\ t - m[id] >= TTL THEN Absent ELSE m[id]]

\* pruneLocked: what is left of map m when the clock reads t.
pruneLocked(m, t) ==
    [id \in CommandIDs |->
        IF m[id] # Absent /\ t - m[id] > TTL THEN Absent ELSE m[id]]

\* Mutant: the loop looks for the newest entry.
TrimNewest(m, r) ==
    \E kept \in SUBSET Keys(m) :
        /\ IF Cardinality(Keys(m)) <= MaxEntries
             THEN kept = Keys(m)
             ELSE Cardinality(kept) = MaxEntries
        /\ \A k \in kept, d \in Keys(m) \ kept : m[d] >= m[k]
        /\ r = [id \in CommandIDs |-> IF id \in kept THEN m[id] ELSE Absent]

\* trimLocked: the loop removes an oldest entry while there are too many.
\* Entries with equal times are met in Go's random map order, so that any
\* of them may go: r is one of the maps the loop can leave of m.
trimLocked(m, r) ==
    \E kept \in SUBSET Keys(m) :
        /\ IF Cardinality(Keys(m)) <= MaxEntries
             THEN kept = Keys(m)
             ELSE Cardinality(kept) = MaxEntries
        /\ \A k \in kept, d \in Keys(m) \ kept : m[d] <= m[k]
        /\ r = [id \in CommandIDs |-> IF id \in kept THEN m[id] ELSE Absent]

\* The history of stamping id at time t into map m.
RecordStamp(m, id, t) ==
    /\ stamp' = [stamp EXCEPT ![id] = t]
    /\ high' = [high EXCEPT ![id] = t]
    /\ newer' = [c \in CommandIDs |->
                    IF c = id THEN {d \in Keys(m) \ {id} : m[d] >= t}
                    ELSE IF stamp[c] # Absent /\ t >= stamp[c]
                           THEN newer[c] \cup {id}
                           ELSE newer[c]]

\* The tail Mark and a granting Reserve share: stamp, then trim.  Mark reads the
\* clock once more for the stamp (dedupe.go:62-63); both readings are one here.
StampAndTrim(m, id) ==
    /\ trimLocked([m EXCEPT ![id] = now], seen')
    /\ RecordStamp(m, id, now)

-----------------------------------------------------------------------------
(* The operations.                                                         *)

Reserve(id) ==
    LET m == pruneLocked(seen, now) IN
    /\ \/ /\ m[id] # Absent
          /\ seen' = m
          /\ reply' = ReplyTo("Reserve", id, FALSE)
          /\ UNCHANGED <<stamp, high, newer>>
       \/ /\ m[id] = Absent
          /\ StampAndTrim(m, id)
          /\ reply' = ReplyTo("Reserve", id, TRUE)
    /\ UNCHANGED now

Mark(id) ==
    /\ StampAndTrim(pruneLocked(seen, now), id)
    /\ reply' = NoReply
    /\ UNCHANGED now

Seen(id) ==
    LET expired == seen[id] # Absent /\ now - seen[id] > TTL IN
    /\ seen' = IF expired THEN [seen EXCEPT ![id] = Absent] ELSE seen
    /\ reply' = ReplyTo("Seen", id, seen[id] # Absent /\ ~expired)
    /\ UNCHANGED <<now, stamp, high, newer>>

Prune ==
    /\ seen' = pruneLocked(seen, now)
    /\ reply' = NoReply
    /\ UNCHANGED <<now, stamp, high, newer>>

\* The wall clock: it runs, and NTP or an operator may set it either way.
Clock(t) ==
    /\ now' = t
    /\ high' = [id \in CommandIDs |->
                    IF stamp[id] # Absent /\ t > high[id] THEN t ELSE high[id]]
    /\ reply' = NoReply
    /\ UNCHANGED <<seen, stamp, newer>>

Init ==
    /\ now \in Time
    /\ seen = [id \in CommandIDs |-> Absent]
    /\ reply = NoReply
    /\ stamp = [id \in CommandIDs |-> Absent]
    /\ high = [id \in CommandIDs |-> Absent]
    /\ newer = [id \in CommandIDs |-> {}]

Next ==
    \/ \E id \in CommandIDs : Reserve(id) \/ Mark(id) \/ Seen(id)
    \/ Prune
    \/ \E t \in Time : Clock(t)

Spec == Init /\ [][Next]_vars

-----------------------------------------------------------------------------
(* Properties.                                                             *)

\* The variables stay within their types; the map holds clock readings only.
TypeOK ==
    /\ now \in Time
    /\ seen \in [CommandIDs -> Time \cup {Absent}]
    /\ reply \in {NoReply} \cup
                 [op : {"Reserve", "Seen"}, id : CommandIDs, ok : BOOLEAN]
    /\ stamp \in [CommandIDs -> Time \cup {Absent}]
    /\ high \in [CommandIDs -> Time \cup {Absent}]
    /\ newer \in [CommandIDs -> SUBSET CommandIDs]

Expired(id) == high[id] - stamp[id] > TTL
Crowded(id) == Cardinality(newer[id]) >= MaxEntries

\* dedupe.go trimLocked: no operation leaves more than maxEntries entries.
SizeBounded == Cardinality(Keys(seen)) <= MaxEntries

\* An id that was stamped is forgotten only because the clock went past its
\* TTL at some moment since, or because maxEntries other ids carry stamps
\* that are no older: never by the order of calls alone.
ForgottenForCause ==
    \A id \in CommandIDs :
        stamp[id] # Absent /\ seen[id] = Absent => Expired(id) \/ Crowded(id)

\* dedupe.go Reserve: a command_id that was granted is granted a second time
\* only after its TTL or after maxEntries other ids were stamped no earlier.
\* This is what "executed at most once" rests on within one process.
NoEarlyRegrant ==
    [][\A id \in CommandIDs :
         /\ reply' = ReplyTo("Reserve", id, TRUE)
         /\ stamp[id] # Absent
         => Expired(id) \/ Crowded(id)]_vars

\* Every id the store was given is within its TTL and among the latest
\* maxEntries.
Fresh == \A id \in Keys(stamp) : ~Expired(id) /\ ~Crowded(id)

IDs == INSTANCE IDSet WITH ids <- Keys(stamp)

\* dedupe.go as handler.go uses it: as long as that is so the store cannot be
\* told from a set of ids that never forgets, by the answers it gives and
\* whatever is pruned and trimmed meanwhile.
ActsAsSet == [][Fresh => IDs!SetNext]_vars

\* The facts that make ForgottenForCause inductive: the map holds the last
\* stamps, the clock never exceeds the recorded high, and two ids held at
\* once know of each other's stamps.
SeenIsStamp == \A id \in Keys(seen) : seen[id] = stamp[id]
HighCoversNow == \A id \in CommandIDs : stamp[id] # Absent => high[id] >= now
PeersRecorded ==
    \A c, d \in Keys(seen) : c # d /\ seen[d] >= seen[c] => d \in newer[c]

DedupeInv ==
    /\ TypeOK
    /\ SizeBounded
    /\ SeenIsStamp
    /\ HighCoversNow
    /\ PeersRecorded
    /\ ForgottenForCause
=============================================================================
