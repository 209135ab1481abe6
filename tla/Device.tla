------------------------------- MODULE Device -------------------------------
(***************************************************************************)
(* One device: the agent and `doctor`, two processes on one outbox         *)
(* directory, and the disk below it.                                       *)
(*                                                                         *)
(* The methods of the store are taken apart into their system calls.  The  *)
(* mutex of the store keeps the agent to one call at a time, but not the   *)
(* store that `doctor` opens on the same directory, and not a crash.       *)
(*                                                                         *)
(* Failures: any system call of a write may return an error; the agent may *)
(* be killed between any two steps; the power may fail, which loses what   *)
(* was not synced, file contents as well as directory entries.  systemd    *)
(* starts the agent again, on a device that may have been reconfigured.    *)
(* The clock stands still here: module Outbox is about the times in a      *)
(* record.                                                                 *)
(***************************************************************************)
EXTENDS Records, Startup

CONSTANTS
    Nil,
    MaxTroubles     \* bound: failures and visits, together

ASSUME TroublesNat == MaxTroubles \in Nat

VARIABLES
    env,        \* faults of the device
    started,    \* what run came to: none, error, idle, up
    files,      \* the .json files: a record, Torn or NoFile
    tmp,        \* the record ids with a .json.tmp file
    disk,       \* the .json files as a power failure is sure to leave them
    unflushed,  \* .json files whose contents were not synced
    call,       \* the store call of the agent, NoCall when there is none
    loading,    \* for each process, its Load, NoLoad when there is none
    saved,      \* history: results that Save was called for
    promised,   \* history: those whose Save returned without an error
    unsure,     \* history: and those whose directory sync failed
    unread,     \* history: record ids of which a Load could not read the file
    gone,       \* history: results that were not in the outbox any more when
                \* its directory was last synced
    failures,   \* kills, power failures and system calls that failed
    visits      \* of an operator: runs of doctor, new configurations

fileVars == <<files, tmp, disk, unflushed>>
promiseVars == <<saved, promised, unsure, unread, gone>>
boundVars == <<failures, visits>>
startVars == <<env, started>>
vars == <<startVars, fileVars, call, loading, promiseVars, boundVars>>

Processes == {"agent", "doctor"}
Torn == [torn |-> TRUE]     \* bytes that are not a record
NoCall == [kind |-> "none", id |-> Nil, rec |-> Nil, step |-> "none", synced |-> FALSE]
NoLoad == [names |-> {}, bad |-> Nil, on |-> FALSE]

\* What readRecordFile makes of the .json files.
Seen(f) == [i \in RecordIDs |-> IF f[i] = Torn THEN NoFile ELSE f[i]]

\* The transports run, on the configuration they were started with.
AgentUp == started = "up" /\ ~loading["agent"].on

MoreTrouble == failures + visits < MaxTroubles

\* Bound: a device has one fault at most, or both transports switched off; one
\* of them switched off is to the store as none.
Devices == {{}, Switches} \cup {{f} : f \in Faults \ Switches}

-----------------------------------------------------------------------------
(* The commands run and doctor, and the device they find.                  *)

\* ReadDir of the outbox: the names that are there now.
Listing ==
    {<<i, "json">> : i \in {k \in RecordIDs : files[k] # NoFile}}
    \cup {<<i, "tmp">> : i \in tmp}

LoadBegins(p) ==
    loading' = [loading EXCEPT ![p] = [names |-> Listing, bad |-> Nil, on |-> TRUE]]

\* run, by systemd, again after an error: when everything loads, NewStore goes
\* through the directory, also where no transport is enabled.
Run ==
    /\ started \in {"none", "error"}
    /\ started' = runOutcome(env)
    /\ IF started' = "error" THEN UNCHANGED loading ELSE LoadBegins("agent")
    /\ UNCHANGED <<env, fileVars, call, promiseVars, boundVars>>

\* The operator changes the device: a fault comes or goes.  What the agent
\* runs on was loaded before, so it matters at the next start.
Reconfigure ==
    /\ started # "up" /\ MoreTrouble
    /\ visits' = visits + 1
    /\ env' \in Devices \ {env}
    /\ UNCHANGED <<started, fileVars, call, loading, promiseVars, failures>>

\* doctor: check, then NewStore on the outbox of the running agent.
Doctor ==
    /\ AgentUp /\ ~loading["doctor"].on /\ MoreTrouble
    /\ visits' = visits + 1
    /\ LoadBegins("doctor")
    /\ UNCHANGED <<startVars, fileVars, call, promiseVars, failures>>

-----------------------------------------------------------------------------
(* Load, name by name.                                                     *)

LoadRemovesTmp(p, i) ==
    /\ <<i, "tmp">> \in loading[p].names /\ loading[p].bad = Nil
    /\ tmp' = tmp \ {i}
    /\ loading' = [loading EXCEPT ![p].names = @ \ {<<i, "tmp">>}]
    /\ UNCHANGED <<startVars, files, disk, unflushed, call, promiseVars, boundVars>>

\* readRecordFile: a file that is gone is an error like one that is torn.
LoadReads(p, i) ==
    /\ <<i, "json">> \in loading[p].names /\ loading[p].bad = Nil
    /\ IF Readable(Seen(files), i)
       THEN /\ loading' = [loading EXCEPT ![p].names = @ \ {<<i, "json">>}]
            /\ UNCHANGED unread
       ELSE /\ loading' = [loading EXCEPT ![p].bad = i]
            /\ unread' = unread \cup {i}
    /\ UNCHANGED <<startVars, fileVars, call, saved, promised, unsure, gone, boundVars>>

\* The rename to .bad takes whatever has the name by now.
LoadQuarantines(p) ==
    LET i == loading[p].bad IN
    /\ i # Nil
    /\ files' = Without(files, {i})
    /\ unflushed' = unflushed \ {i}
    /\ loading' = [loading EXCEPT ![p].bad = Nil, ![p].names = @ \ {<<i, "json">>}]
    /\ UNCHANGED <<startVars, tmp, disk, call, promiseVars, boundVars>>

LoadEnds(p) ==
    /\ loading[p].on /\ loading[p].names = {}
    /\ loading' = [loading EXCEPT ![p] = NoLoad]
    /\ UNCHANGED <<startVars, fileVars, call, promiseVars, boundVars>>

-----------------------------------------------------------------------------
(* The store calls of the agent.                                           *)

Begins(kind, i, rec) ==
    /\ AgentUp /\ call = NoCall
    /\ call' = [kind |-> kind, id |-> i, rec |-> rec, step |-> "write", synced |-> FALSE]
    /\ UNCHANGED <<startVars, fileVars, loading, promised, unsure, unread, gone,
                   boundVars>>

\* Save reads the record that it replaces.
SaveBegins(r) ==
    /\ r \notin saved
    /\ saved' = saved \cup {r}
    /\ Begins("save", RecordIDOf(r), Replacing(Seen(files), r, 0))

MarkFailureBegins(i) ==
    /\ Readable(Seen(files), i) /\ files[i].attempts < MaxAttempts
    /\ Begins("mark", i, [files[i] EXCEPT !.attempts = @ + 1])
    /\ UNCHANGED saved

\* Delete, of a record that was sent.  The directory is not synced.
Delete(i) ==
    /\ AgentUp /\ call = NoCall
    /\ Readable(Seen(files), i)
    /\ files' = Without(files, {i})
    /\ unflushed' = unflushed \ {i}
    /\ promised' = promised \ {files[i].env}
    /\ UNCHANGED <<startVars, tmp, disk, call, loading, saved, unsure, unread, gone,
                   boundVars>>

GoesTo(step) == call' = [call EXCEPT !.step = step]

\* OpenFile creates or truncates the .tmp file; Write, Sync and Close.
WritesTmp(synced) ==
    /\ call.step = "write"
    /\ tmp' = tmp \cup {call.id}
    /\ call' = [call EXCEPT !.step = "rename", !.synced = synced]
    /\ UNCHANGED <<startVars, files, disk, unflushed, loading, promiseVars, boundVars>>

\* Mutant: the contents are not synced.
WriteUnsynced == WritesTmp(FALSE)

WriteTmp == WritesTmp(TRUE)

\* The record takes the place of the one before it, which is promised no more.
RenameTmp ==
    LET i == call.id IN
    /\ call.step = "rename" /\ i \in tmp
    /\ files' = writeRecordAtomic(files, i, call.rec)
    /\ tmp' = tmp \ {i}
    /\ unflushed' = IF call.synced THEN unflushed \ {i} ELSE unflushed \cup {i}
    /\ promised' = {r \in promised : RecordIDOf(r) # i \/ r = call.rec.env}
    /\ GoesTo("syncdir")
    /\ UNCHANGED <<startVars, disk, loading, saved, unsure, unread, gone, boundVars>>

CallFails ==
    /\ call' = NoCall
    /\ UNCHANGED <<startVars, files, disk, unflushed, loading, promiseVars, visits>>

\* Somebody removed the file that is to be renamed: an error, no record.
RenameFails ==
    /\ call.step = "rename" /\ call.id \notin tmp
    /\ CallFails
    /\ UNCHANGED <<tmp, failures>>

\* An error of a system call ends the call.  The .tmp file, if OpenFile came
\* as far as to create it, stays there.
DiskFails ==
    /\ call.step \in {"write", "rename", "enforce"}
    /\ MoreTrouble
    /\ failures' = failures + 1
    /\ \/ UNCHANGED tmp
       \/ call.step = "write" /\ tmp' = tmp \cup {call.id}
    /\ CallFails

\* What follows syncDir, whose errors are not looked at.
AfterSyncDir ==
    /\ call.step = "syncdir"
    /\ IF call.kind = "save" THEN GoesTo("enforce") ELSE call' = NoCall
    /\ UNCHANGED <<startVars, files, tmp, unflushed, loading, saved, promised, unread, visits>>

Holding(f, r) == \E i \in RecordIDs : f[i] # NoFile /\ f[i] # Torn /\ f[i].env = r

\* Results that were saved, or were to be, and are in no file.
Missing(f) == {r \in saved : ~Holding(f, r)}

\* Mutant: the directory is not synced.
SyncNothing ==
    /\ AfterSyncDir
    /\ gone' = Missing(files)
    /\ UNCHANGED <<disk, unsure, failures>>

SyncDir ==
    /\ AfterSyncDir
    /\ disk' = files
    /\ unsure' = {}
    /\ gone' = Missing(files)
    /\ UNCHANGED failures

SyncDirFails ==
    /\ AfterSyncDir
    /\ MoreTrouble
    /\ failures' = failures + 1
    /\ unsure' = unsure \cup {call.rec.env}
    /\ UNCHANGED <<disk, gone>>

\* Mutant: one record more than the limit is left.
FitsLoosely(f) == Cardinality(Listed(f)) <= MaxRecords + 1

FitsLimits(f) == WithinLimits(f)

\* enforceLimitsLocked, one round: an oldest record goes.
DropOne(i) ==
    LET seen == Seen(files) IN
    /\ call.step = "enforce" /\ ~FitsLimits(seen)
    /\ i \in Listed(seen)
    /\ \A k \in Listed(seen) : seen[i].created <= seen[k].created
    /\ files' = Without(files, {i})
    /\ unflushed' = unflushed \ {i}
    /\ promised' = promised \ {files[i].env}
    /\ call' = IF i = call.id THEN [call EXCEPT !.kind = "dropped"] ELSE call
    /\ UNCHANGED <<startVars, tmp, disk, loading, saved, unsure, unread, gone, boundVars>>

\* The limits hold: Save returns the record.
SaveReturns ==
    /\ call.step = "enforce" /\ FitsLimits(Seen(files))
    /\ promised' = IF call.kind = "dropped" THEN promised
                                            ELSE promised \cup {call.rec.env}
    /\ call' = NoCall
    /\ UNCHANGED <<startVars, fileVars, loading, saved, unsure, unread, gone, boundVars>>

-----------------------------------------------------------------------------
(* Failures.                                                               *)

AgentDies ==
    /\ started \in {"idle", "up"} /\ MoreTrouble
    /\ failures' = failures + 1
    /\ started' = "none"
    /\ call' = NoCall
    /\ UNCHANGED <<env, saved, unread, visits>>

\* The agent is killed, and systemd starts it again.
Crash ==
    /\ AgentDies
    /\ loading' = [loading EXCEPT !["agent"] = NoLoad]
    /\ UNCHANGED <<fileVars, promised, unsure, gone>>

\* Every name is as it was or as it was last synced, and contents that were
\* not synced are torn.
PowerLoss ==
    /\ AgentDies
    /\ loading' = [p \in Processes |-> NoLoad]
    /\ \E kept \in SUBSET RecordIDs :
          files' = [i \in RecordIDs |-> IF i \notin kept THEN disk[i]
                                        ELSE IF i \in unflushed THEN Torn
                                        ELSE files[i]]
    /\ tmp' \in SUBSET tmp
    /\ disk' = files'
    /\ unflushed' = {}
    /\ promised' = promised \ unsure
    /\ unsure' = {}
    /\ gone' = Missing(files')

Init ==
    /\ env \in Devices /\ started = "none"
    /\ files = [i \in RecordIDs |-> NoFile]
    /\ tmp = {}
    /\ disk = files
    /\ unflushed = {}
    /\ call = NoCall
    /\ loading = [p \in Processes |-> NoLoad]
    /\ saved = {} /\ promised = {} /\ unsure = {} /\ unread = {}
    /\ gone = {}
    /\ failures = 0 /\ visits = 0

LoadStep(p) ==
    \/ \E i \in RecordIDs : LoadRemovesTmp(p, i) \/ LoadReads(p, i)
    \/ LoadQuarantines(p) \/ LoadEnds(p)

StoreStep ==
    \/ \E r \in Results : SaveBegins(r)
    \/ \E i \in RecordIDs : MarkFailureBegins(i) \/ Delete(i) \/ DropOne(i)
    \/ WriteTmp \/ RenameTmp \/ RenameFails \/ DiskFails
    \/ SyncDir \/ SyncDirFails \/ SaveReturns

Next ==
    \/ Run \/ Reconfigure \/ Doctor
    \/ \E p \in Processes : LoadStep(p)
    \/ StoreStep
    \/ Crash \/ PowerLoss

Spec == Init /\ [][Next]_vars

-----------------------------------------------------------------------------
(* Properties.                                                             *)

\* docs/security.md:99, "temporary file, fsync and rename, so that half a
\* JSON is never taken for a record": no .json file is ever torn, whichever
\* system call a kill or a power failure comes after.
RecordsWhole == \A i \in RecordIDs : files[i] # Torn /\ disk[i] # Torn

\* A result whose Save returned without an error is in its file until it is
\* deleted, dropped by the limits or replaced by another result of its record
\* id, through kills, power failures and runs of doctor.  Two exceptions: the
\* errors of syncDir are ignored, and a Load that cannot read a file, because
\* it is gone since it was listed or holds a result without a command_id,
\* quarantines whatever is saved under that name next.
SavedIsKept ==
    \A r \in promised :
        LET i == RecordIDOf(r) IN
        \/ files[i] # NoFile /\ files[i] # Torn /\ files[i].env = r
        \/ i \in unread
        \/ CommandOf[r] = NoID

\* The outbox holds at most one record more than its limit while Save is
\* under way, and Load does not enforce the limit: a crash or an error between
\* the rename and the limits leaves one record more, and a power failure there
\* two, since it may bring back a record that was dropped.  It never grows by
\* more.
OverfullByFailures ==
    Cardinality(Listed(Seen(files))) <= MaxRecords + 1 + 2 * failures

\* store.go:172-185: Delete, the limits and Load leave the directory to be
\* synced by a later write.  Until then a result that was sent, dropped,
\* replaced or set aside may come back, by a power failure or by a MarkFailure
\* under way, and be sent again; once the directory was synced it never does.
GoneStaysGone == \A r \in gone : ~Holding(files, r) /\ ~Holding(disk, r)
=============================================================================
