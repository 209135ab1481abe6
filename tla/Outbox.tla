------------------------------- MODULE Outbox -------------------------------
(***************************************************************************)
(* The result outbox of internal/outbox: one JSON file per record, named   *)
(* after the sanitized command_id, in one directory.  Every exported       *)
(* method runs under the store's mutex, so each is one atomic step here.   *)
(* Module Device takes the methods apart into their system calls.          *)
(*                                                                         *)
(* The clock is the wall clock (time.Now().UTC()), and what it reads is    *)
(* kept in created_at and next_retry_at across restarts: it may be set     *)
(* either way at any time.                                                 *)
(***************************************************************************)
EXTENDS Records

CONSTANTS
    MaxTime        \* bound: the clock stays within 0..MaxTime

ASSUME BoundsNat == MaxTime \in Nat /\ MaxAttempts \in Nat

VARIABLES
    files,     \* the directory: a record for each record id, or NoFile
    now,       \* the wall clock
    latest,    \* history: the latest time the clock has read so far
    savedAt,   \* history: what the clock read when each result was saved,
               \* Absent if it was not
    dropped    \* history: the results removed by the limits

clockVars == <<now, latest>>
storeVars == <<files, clockVars, savedAt, dropped>>

Time == 0 .. MaxTime
Saved == {r \in Results : savedAt[r] # Absent}

-----------------------------------------------------------------------------
(* The store's operations, one atomic step each.                           *)

Save(r) ==
    LET i == RecordIDOf(r)
        f == writeRecordAtomic(files, i, Replacing(files, r, now))
    IN  /\ savedAt' = [savedAt EXCEPT ![r] = now]
        /\ \E gone \in SUBSET Listed(f) :
              /\ DroppedBy(f, gone)
              /\ files' = Without(f, gone)
              /\ dropped' = dropped \cup {f[d].env : d \in gone}
        /\ UNCHANGED clockVars

\* MarkFailure, when the record is still there: it keeps its created_at.
\* The limits are not enforced, although last_error makes the file grow.
MarkFailure(i) ==
    /\ Readable(files, i)
    /\ files[i].attempts < MaxAttempts
    /\ \E j \in retryJitter(retryDelay(files[i].attempts + 1)) :
          files' = writeRecordAtomic(files, i,
                     [files[i] EXCEPT
                        !.attempts = @ + 1,
                        !.next = now + retryDelay(files[i].attempts + 1) + j])
    /\ UNCHANGED <<clockVars, savedAt, dropped>>

Delete(i) ==
    /\ files' = Without(files, {i})
    /\ UNCHANGED <<clockVars, savedAt, dropped>>

\* Load, at start: files that cannot be read are renamed to .bad.
Load ==
    /\ files' = Without(files, RecordIDs \ Listed(files))
    /\ UNCHANGED <<clockVars, savedAt, dropped>>

\* Time passes, or the clock is set, forward or back.
Clock(t) ==
    /\ t # now
    /\ now' = t
    /\ latest' = IF t > latest THEN t ELSE latest
    /\ UNCHANGED <<files, savedAt, dropped>>

StoreInit ==
    /\ files = [i \in RecordIDs |-> NoFile]
    /\ now = 0 /\ latest = 0
    /\ savedAt = [r \in Results |-> Absent]
    /\ dropped = {}

\* The store alone, called in any order.
StoreNext ==
    \/ \E r \in Results \ Saved : Save(r)
    \/ \E i \in RecordIDs : MarkFailure(i) \/ Delete(i)
    \/ Load
    \/ \E t \in Time : Clock(t)

StoreSpec == StoreInit /\ [][StoreNext]_storeVars

-----------------------------------------------------------------------------
(* Properties.                                                             *)

Record == [env : Results, created : Time, attempts : 0 .. MaxAttempts, next : Int]

\* Every file is filed under the record id of the command it answers, and
\* holds a result that was saved.
StoreTypeOK ==
    /\ files \in [RecordIDs -> Record \cup {NoFile}]
    /\ now \in Time /\ latest \in Time
    /\ savedAt \in [Results -> Time \cup {Absent}]
    /\ dropped \in SUBSET Saved
    /\ \A i \in RecordIDs : files[i] # NoFile =>
          RecordIDOf(files[i].env) = i /\ files[i].env \in Saved

\* r is in the directory, in a record that can be read back.
Pending(r) == files[RecordIDOf(r)] # NoFile /\ files[RecordIDOf(r)].env = r
              /\ CommandOf[r] # NoID

\* No other saved result is filed under r's record id.
Sole(r) == \A q \in Saved : RecordIDOf(q) = RecordIDOf(r) => q = r

\* docs/security.md:95, "when a limit is exceeded the oldest result is
\* dropped first".  Oldest is by the clock: a dropped result was saved at no
\* later reading of the clock than any result that stays, as long as neither
\* shares its record id with another result.  (One that replaced an older
\* record is ordered by the created_at it took over; one that was saved
\* after the clock was set back counts as the older one.)
DropsOldest ==
    [][\A d \in dropped' \ dropped, q \in Results :
         Pending(q)' /\ Sole(d)' /\ Sole(q)' => savedAt'[d] <= savedAt'[q]
      ]_storeVars

\* However often a record failed or was replaced, its next attempt is due
\* once the clock is past the latest time it has ever read by the largest
\* delay with its jitter: retries do not drift away.  Only a clock that is
\* set back makes the wait longer, by what it is set back: next_retry_at
\* keeps what the clock read when the failure was recorded.
BoundedWait ==
    \A i \in RecordIDs : files[i] # NoFile =>
        files[i].next <= latest + MaxDelay + (MaxDelay \div JitterPart)

\* Save and the limits: the store never holds more records than its limit,
\* those whose command_id cannot be read aside.
RecordsLimited == Cardinality(Listed(files)) <= MaxRecords

\* Nor does the total exceed the limit in bytes by more than the last_error of
\* every record: MarkFailure is the only operation that grows a file unchecked.
LimitsSlack ==
    /\ RecordsLimited
    /\ MapThenSumSet(LAMBDA i : FileBytes(files[i]), Listed(files))
         <= MaxBytes + ErrorBytes * Cardinality(Listed(files))
=============================================================================
