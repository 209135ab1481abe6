------------------------------- MODULE Records ------------------------------
(***************************************************************************)
(* The records of the result outbox (internal/outbox): what is in a file,  *)
(* which files the store can read, how it puts them in order, what the     *)
(* limits drop and when a record is tried again.                           *)
(*                                                                         *)
(* A result is an opaque envelope.  What the store looks at is kept: the   *)
(* command it answers, the record id that command is filed under, its size *)
(* in bytes, and the record's created_at, attempts and next_retry_at.      *)
(***************************************************************************)
EXTENDS Integers, FiniteSets, Sequences, FiniteSetsExt

CONSTANTS
    Results,       \* result envelopes, one per handled command delivery
    CommandIDs,    \* command_ids, NoID among them
    NoID,          \* the empty command_id
    RecordIDs,     \* file names, without .json
    CommandOf,     \* the command_id each result answers
    SanitizedID,   \* sanitizeRecordID, which is not injective
    Bytes,         \* size of a result's record file before any failure
    ErrorBytes,    \* what last_error adds to it
    MaxRecords, MaxBytes,
    BaseDelay, MaxDelay,   \* 5s and 1m in the code
    JitterPart,            \* the jitter is at most delay / JitterPart, 5 there
    MaxAttempts    \* bound: failures recorded for one record

ASSUME RecordIDsFinite == IsFiniteSet(RecordIDs)
ASSUME CommandOfType == CommandOf \in [Results -> CommandIDs]
ASSUME SanitizedIDType == SanitizedID \in [CommandIDs -> RecordIDs]
ASSUME SizesNat == Bytes \in [Results -> Nat] /\ ErrorBytes \in Nat
ASSUME LimitsPositive == MaxRecords \in Nat \ {0} /\ MaxBytes \in Nat \ {0}
ASSUME DelaysPositive ==
    /\ BaseDelay \in Nat \ {0} /\ MaxDelay \in Nat /\ BaseDelay <= MaxDelay
    /\ JitterPart \in Nat \ {0}

Absent == -1
NoFile == [none |-> TRUE]

\* The record id a result is filed under (NewRecord, commandIDFromEnvelope).
RecordIDOf(r) == SanitizedID[CommandOf[r]]

-----------------------------------------------------------------------------
(* Records and files.                                                      *)

NewRecord(r, t) == [env |-> r, created |-> t, attempts |-> 0, next |-> t]

\* readRecordFile: a record without a command_id does not count as valid.
Readable(f, i) == f[i] # NoFile /\ CommandOf[f[i].env] # NoID

\* snapshotLocked adds up the sizes of the readable files.
FileBytes(rec) == Bytes[rec.env] + (IF rec.attempts > 0 THEN ErrorBytes ELSE 0)

Listed(f) == {i \in RecordIDs : Readable(f, i)}

WithinLimits(f) ==
    /\ Cardinality(Listed(f)) <= MaxRecords
    /\ MapThenSumSet(LAMBDA i : FileBytes(f[i]), Listed(f)) <= MaxBytes

Without(f, ids) == [i \in RecordIDs |-> IF i \in ids THEN NoFile ELSE f[i]]

\* Mutant: the limits are not enforced.
DropNone(f, gone) == gone = {}

\* Mutant: the list is sorted the other way round.
DropNewest(f, gone) ==
    /\ \A d \in gone, k \in Listed(f) \ gone : f[d].created >= f[k].created
    /\ WithinLimits(Without(f, gone))
    /\ gone # {} =>
         \E last \in gone :
            /\ \A d \in gone : f[d].created >= f[last].created
            /\ ~WithinLimits(Without(f, gone \ {last}))

\* enforceLimitsLocked: remove the oldest readable record until the limits
\* hold.  sort.Slice is not stable, so that records with equal created_at go
\* in any order: gone is a set the loop can remove from f.  It is a set of
\* oldest records, and without the last one of them the limits did not hold.
DroppedBy(f, gone) ==
    /\ \A d \in gone, k \in Listed(f) \ gone : f[d].created <= f[k].created
    /\ WithinLimits(Without(f, gone))
    /\ gone # {} =>
         \E last \in gone :
            /\ \A d \in gone : f[d].created <= f[last].created
            /\ ~WithinLimits(Without(f, gone \ {last}))

\* Save: a readable record with the same id hands down its created_at,
\* attempts and next_retry_at to the record that replaces it.
Replacing(f, r, t) ==
    LET i == RecordIDOf(r) IN
    IF Readable(f, i) THEN [f[i] EXCEPT !.env = r] ELSE NewRecord(r, t)

\* writeRecordAtomic: the file is replaced by rename, as a whole.
writeRecordAtomic(f, i, rec) == [f EXCEPT ![i] = rec]

\* Mutant: the delay is doubled without end.
UncappedDelay(attempts) ==
    IF attempts <= 1 THEN BaseDelay ELSE BaseDelay * 2 ^ (attempts - 1)

\* retryDelay: the loop doubles the delay for each attempt after the first
\* and returns MaxDelay as soon as it is reached.
retryDelay(attempts) ==
    LET doubled == BaseDelay * 2 ^ (attempts - 1) IN
    IF attempts <= 1 THEN BaseDelay
    ELSE IF doubled \in BaseDelay .. MaxDelay THEN doubled ELSE MaxDelay

\* retryJitter: any offset up to a part of the delay, either way.
retryJitter(delay) == -(delay \div JitterPart) .. (delay \div JitterPart)

\* listLocked sorts by created_at, so that a prefix of its list holds the
\* oldest records; equal created_at may come out in any order.
OldestFirst(f, all, ids) ==
    /\ \A j, k \in DOMAIN ids : j < k =>
          ids[j] # ids[k] /\ f[ids[j]].created <= f[ids[k]].created
    /\ \A j \in DOMAIN ids, o \in all \ Range(ids) :
          f[ids[j]].created <= f[o].created

\* Due: the sequences the method can return when the clock reads t: the
\* oldest records whose next_retry_at has come, at most limit of them.
Ripe(f, t) == {i \in Listed(f) : f[i].next <= t}
BatchSize(f, t, limit) ==
    IF Cardinality(Ripe(f, t)) < limit THEN Cardinality(Ripe(f, t)) ELSE limit
\* Mutant: All in place of Due.
DueOrNot(f, t, limit) ==
    {[k \in DOMAIN ids |-> f[ids[k]]] :
        ids \in {s \in [1 .. Cardinality(Listed(f)) -> Listed(f)] :
                    OldestFirst(f, Listed(f), s)}}

Due(f, t, limit) ==
    {[k \in DOMAIN ids |-> f[ids[k]]] :
        ids \in {s \in [1 .. BatchSize(f, t, limit) -> Ripe(f, t)] :
                    OldestFirst(f, Ripe(f, t), s)}}
=============================================================================
