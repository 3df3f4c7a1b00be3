----------------------------- MODULE StoreMigration -----------------------------
(***************************************************************************)
(* What a start does to the store of the entries before it serves them:    *)
(* Storage.MigrateMetadata writes the entries of an older version again,   *)
(* and pkg/manager/migrator.go brings in the torrents that a still older   *)
(* one kept in JSON files, one for each torrent and debrid.  The process   *)
(* may crash anywhere, and then loses what the log had not synced.         *)
(*                                                                         *)
(* Left out: Migrator.Stop, which nothing calls, and all that is copied    *)
(* from a file to an entry as it is.                                       *)
(***************************************************************************)
EXTENDS Integers, Sequences, FiniteSets

CONSTANTS
    CacheDir,       \* the files of the cache in the order of the directory: [hash, debrid,
                    \*  id, done, bad: BOOLEAN, files: names]
    PathOf,         \* the path of a file, under which File.Key has it
    OldEntries,     \* hashes of entries without metadata
    SaveEvery,      \* 10: completed torrents between two writes of the status
    MaxCrashes, MaxMishaps, MaxEdits,
    StatusKey,      \* "__migration_status__"
    Absent

CachedHashes == {CacheDir[i].hash : i \in DOMAIN CacheDir}
CachedFor(h) == {i \in DOMAIN CacheDir : CacheDir[i].hash = h}

\* An info hash is no name of the program's own.
ASSUME MigrationAssumption ==
    /\ Len(CacheDir) \in Nat /\ DOMAIN CacheDir = 1 .. Len(CacheDir)
    /\ IsFiniteSet(OldEntries) /\ StatusKey \notin CachedHashes \cup OldEntries

VARIABLES
    journal,        \* the log of the entries store: [key, value]
    durable,        \* how much of it is synced
    boot,           \* how far the start is
    migration,      \* loaded: files, todo: hashes, status
    outages, mishaps, edits

migrationVars == <<journal, durable, boot, migration, outages, mishaps, edits>>

Newest(log, k) ==
    LET at == {i \in DOMAIN log : log[i].key = k}
    IN  IF at = {} THEN Absent ELSE log[CHOOSE i \in at : \A j \in at : j <= i].value

Stored(h) == Newest(journal, h) # Absent
Put(k, v) == journal' = Append(journal, [key |-> k, value |-> v])

Mishap == mishaps < MaxMishaps /\ mishaps' = mishaps + 1
Smooth == UNCHANGED mishaps

-----------------------------------------------------------------------------
(* mergeCachedTorrents, of the files that were read for one hash.  The     *)
(* first is the base: its debrid becomes a provider when it has an id, its *)
(* files are known by their paths.  Of the others the first for a debrid   *)
(* counts, and its files go by the names they have in the JSON.            *)

First(S) == CHOOSE i \in S : \A j \in S : i <= j

\* ToManagedTorrent.
MergedOfBase(i) == [own   |-> IF CacheDir[i].id THEN {i} ELSE {},
                    files |-> {PathOf[n] : n \in CacheDir[i].files}]

MergeResults(S) ==
    LET base   == First(S)
        own    == MergedOfBase(base).own
        others == {i \in S \ {base} :
                      /\ \A j \in own : CacheDir[j].debrid # CacheDir[i].debrid
                      /\ \A j \in S \ {base} : j < i => CacheDir[j].debrid # CacheDir[i].debrid}
        done   == {CacheDir[i].debrid : i \in {j \in own : CacheDir[j].done} \cup {j \in others : ~CacheDir[j].bad}}
    IN  [debrids : {{CacheDir[i].debrid : i \in own \cup others}},
         files   : {MergedOfBase(base).files \cup UNION {CacheDir[i].files : i \in others}},
         active  : IF done = {} THEN {CacheDir[base].debrid} ELSE done,     \* activateBestPlacement
         meta    : {TRUE}]

Begun_Idle(total) == [running |-> FALSE, total |-> total, completed |-> 0, errors |-> 0]

\* The status that Start writes.
Begun(total) == [running |-> TRUE, total |-> total, completed |-> 0, errors |-> 0]

Finished(s) == s # Absent /\ ~s.running /\ s.completed > 0

-----------------------------------------------------------------------------
OldEntry == [debrids |-> {}, files |-> {}, active |-> Absent, meta |-> FALSE]

MigrationInit ==
    /\ \E log \in {s \in [1 .. Cardinality(OldEntries) -> OldEntries] :
                      \A i, j \in DOMAIN s : i # j => s[i] # s[j]} :
          journal = [i \in DOMAIN log |-> [key |-> log[i], value |-> OldEntry]]
    /\ durable = Len(journal)
    /\ boot = "off"
    /\ migration = [loaded |-> {}, todo |-> {}, status |-> Absent]
    /\ outages = 0 /\ mishaps = 0 /\ edits = 0

\* NewStorage, MigrateMetadata: the keys are collected first.
OpenStore ==
    /\ boot = "off"
    /\ boot' = "meta"
    /\ migration' = [migration EXCEPT !.todo =
                        {h \in OldEntries \cup CachedHashes : Stored(h) /\ ~Newest(journal, h).meta}]
    /\ UNCHANGED <<journal, durable, outages, mishaps, edits>>

ResaveEntry(h) ==
    /\ boot = "meta" /\ h \in migration.todo
    /\ migration' = [migration EXCEPT !.todo = @ \ {h}]
    /\ \/ Put(h, [Newest(journal, h) EXCEPT !.meta = TRUE]) /\ Smooth
       \/ Mishap /\ UNCHANGED journal
    /\ UNCHANGED <<durable, boot, outages, edits>>

\* Manager.migrate: once it is finished, with anything at all, it is not done again.
DecideMigration ==
    /\ boot = "meta" /\ migration.todo = {}
    /\ \/ /\ Finished(Newest(journal, StatusKey)) \/ CacheDir = <<>>
          /\ boot' = "serve" /\ Smooth
       \/ /\ ~Finished(Newest(journal, StatusKey)) /\ CacheDir # <<>>
          /\ boot' \in {"load", "serve"}
          /\ IF boot' = "serve" THEN Mishap ELSE Smooth       \* GetStats
    /\ UNCHANGED <<journal, durable, migration, outages, edits>>

\* Migrator.Start.  loadCacheTorrents passes over a file, or a directory, that
\* it cannot read or parse.
StartMigration ==
    /\ boot = "load"
    /\ \E R \in SUBSET DOMAIN CacheDir :
          LET hashes == {CacheDir[i].hash : i \in R}
          IN  /\ IF R = DOMAIN CacheDir THEN Smooth ELSE Mishap
              /\ Put(StatusKey, Begun(Cardinality(hashes)))
              /\ migration' = [loaded |-> R, todo |-> hashes, status |-> Begun(Cardinality(hashes))]
    /\ boot' = "run"
    /\ UNCHANGED <<durable, outages, edits>>

StartFails == boot = "load" /\ boot' = "serve" /\ Mishap /\ UNCHANGED <<journal, durable, migration, outages, edits>>

(* runMigration, one hash of the map, in any order.                        *)
Completed == [migration.status EXCEPT !.completed = @ + 1]
Visited(h, status) == migration' = [migration EXCEPT !.todo = @ \ {h}, !.status = status]

\* It is there: the status is saved each time, or that fails.
SkipStored(h) ==
    /\ boot = "run" /\ h \in migration.todo /\ Stored(h)
    /\ Visited(h, Completed)
    /\ \/ Put(StatusKey, Completed) /\ Smooth
       \/ UNCHANGED journal /\ Mishap
    /\ UNCHANGED <<durable, boot, outages, edits>>

\* AddOrUpdate.
MigrateTorrent(h) ==
    /\ boot = "run" /\ h \in migration.todo /\ ~Stored(h)
    /\ \E e \in MergeResults(CachedFor(h) \cap migration.loaded) : Put(h, e)
    /\ Visited(h, Completed)
    /\ boot' = IF Completed.completed % SaveEvery = 0 THEN "save" ELSE "run"
    /\ Smooth
    /\ UNCHANGED <<durable, outages, edits>>

MigrateFails(h) ==
    /\ boot = "run" /\ h \in migration.todo /\ ~Stored(h)
    /\ Visited(h, [migration.status EXCEPT !.errors = @ + 1])
    /\ Mishap
    /\ UNCHANGED <<journal, durable, boot, outages, edits>>

SaveStatus ==
    /\ boot = "save"
    /\ \/ Put(StatusKey, migration.status) /\ Smooth
       \/ UNCHANGED journal /\ Mishap
    /\ boot' = "run"
    /\ UNCHANGED <<durable, migration, outages, edits>>

FinishMigration ==
    /\ boot = "run" /\ migration.todo = {}
    /\ \/ Put(StatusKey, [migration.status EXCEPT !.running = FALSE]) /\ Smooth
       \/ UNCHANGED journal /\ Mishap
    /\ boot' = "serve"
    /\ UNCHANGED <<durable, migration, outages, edits>>

-----------------------------------------------------------------------------
(* What goes on beside it and after it.                                    *)

SyncJournal ==
    /\ boot # "off" /\ durable < Len(journal)
    /\ durable' = Len(journal)
    /\ UNCHANGED <<journal, boot, migration, outages, mishaps, edits>>

\* A refresh finds a torrent at a debrid, or the user deletes an entry.
Edit(h) ==
    /\ boot = "serve" /\ edits < MaxEdits
    /\ edits' = edits + 1
    /\ Put(h, IF Stored(h) THEN Absent
              ELSE [debrids |-> {CacheDir[i].debrid : i \in CachedFor(h)}, files |-> {},
                    active |-> CacheDir[First(CachedFor(h))].debrid, meta |-> TRUE])
    /\ UNCHANGED <<durable, boot, migration, outages, mishaps>>

Off == boot' = "off" /\ migration' = [loaded |-> {}, todo |-> {}, status |-> Absent]

\* Manager.Stop and Reset: the store is closed and opened again.
RestartManager ==
    /\ boot = "serve" /\ outages < MaxCrashes
    /\ outages' = outages + 1
    /\ durable' = Len(journal)
    /\ Off
    /\ UNCHANGED <<journal, mishaps, edits>>

CrashStart ==
    /\ boot # "off" /\ outages < MaxCrashes
    /\ outages' = outages + 1
    /\ \E n \in durable .. Len(journal) : journal' = SubSeq(journal, 1, n) /\ durable' = n
    /\ Off
    /\ UNCHANGED <<mishaps, edits>>

MigrationNext ==
    \/ OpenStore \/ DecideMigration \/ StartMigration \/ StartFails \/ SaveStatus \/ FinishMigration
    \/ \E h \in OldEntries : ResaveEntry(h)
    \/ \E h \in CachedHashes : SkipStored(h) \/ MigrateTorrent(h) \/ MigrateFails(h) \/ Edit(h)
    \/ SyncJournal \/ RestartManager \/ CrashStart

MigrationSpec == MigrationInit /\ [][MigrationNext]_migrationVars

-----------------------------------------------------------------------------
(* Properties *)

MigrationTypeOK ==
    /\ boot \in {"off", "meta", "load", "run", "save", "serve"}
    /\ durable \in 0 .. Len(journal)
    /\ migration.loaded \subseteq DOMAIN CacheDir /\ migration.todo \subseteq CachedHashes \cup OldEntries
    /\ \A i \in DOMAIN journal : journal[i].key \in {StatusKey} \cup CachedHashes \cup OldEntries

\* Once the program serves, however often it was stopped half-way and whatever
\* the log lost, all that was cached was brought in, with each debrid whose
\* file had an id, and each entry has its metadata: unless something failed.
StartIsComplete ==
    boot = "serve" /\ mishaps = 0 =>
        /\ \A h \in CachedHashes : \E i \in DOMAIN journal : journal[i].key = h
        /\ \A h \in CachedHashes \cup OldEntries : Stored(h) =>
              /\ Newest(journal, h).meta
              /\ h \notin OldEntries =>
                    {CacheDir[i].debrid : i \in {j \in CachedFor(h) : CacheDir[j].id}} \subseteq Newest(journal, h).debrids

\* Refuted by TLC.  What could not be read or written is tried again at the next
\* start: one torrent that came in is enough for the migration to be over.
FailedIsTriedAgain ==
    boot = "serve" /\ outages > 0 /\ mishaps = 1 /\ edits = 0
        => \A h \in CachedHashes : Stored(h)

\* Refuted by TLC.  The debrid an entry is served from is one that has it: a
\* base without an id is not among the providers.
ActiveIsPlaced == \A i \in DOMAIN journal :
    journal[i].key \in CachedHashes \ OldEntries /\ journal[i].value # Absent
        => journal[i].value.active \in journal[i].value.debrids

\* Refuted by TLC.  A file is in its entry once: the base has it by its path,
\* the others by its name.
OneKeyAFile == \A i \in DOMAIN journal :
    journal[i].key # StatusKey /\ journal[i].value # Absent
        => \A n \in DOMAIN PathOf :
              ~(PathOf[n] # n /\ {n, PathOf[n]} \subseteq journal[i].value.files)

\* Refuted by TLC.  An entry that was deleted is not brought in again: when the
\* last status could not be saved the next start does it all once more.
NotRevived == \A i, j, k \in DOMAIN journal :
    /\ i < j /\ j < k
    /\ journal[i].key = journal[j].key /\ journal[j].key = journal[k].key
    /\ journal[i].value # Absent /\ journal[j].value = Absent
    => journal[k].value = Absent \/ edits > 1
===============================================================================
