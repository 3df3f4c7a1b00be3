-------------------------------- MODULE NzbFiles --------------------------------
(***************************************************************************)
(* What pkg/usenet keeps of an NZB on disk: the file itself, which is      *)
(* named by the name of the request, the markers beside it, and the        *)
(* metadata, which are named by the id; and the entry that pkg/manager     *)
(* makes for it.  They are written one after the other by the imports, the *)
(* workers, the scan of the directory and the deletions.  What an entry    *)
(* does is in QueueProcessor; here it is there or not.                     *)
(***************************************************************************)
EXTENDS Integers, Sequences, FiniteSets, SequencesExt

CONSTANTS
    Names,          \* of NZB files
    MaxIds,         \* ids that are made for a name
    Imports,        \* goroutines in AddNewNZB
    NzbWorkers, Scans, Deletions,
    MaxMishaps,    \* bound on failed writes and restarts
    NoId

Ids  == Names \X (1 .. MaxIds)
Path(i) == i[1]
Jobs == Imports \cup NzbWorkers \cup Scans \cup Deletions

ASSUME NzbFilesAssumption ==
    /\ MaxIds \in Nat \ {0} /\ MaxMishaps \in Nat /\ NoId \notin Ids
    /\ Imports \cap (NzbWorkers \cup Scans \cup Deletions) = {}
    /\ NzbWorkers \cap (Scans \cup Deletions) = {} /\ Scans \cap Deletions = {}

Markers == {"processing", "processed", "failed"}

VARIABLES
    file,       \* the names of which there is a file
    marks,      \* <<n, m>>: the file of n has marker m
    meta,       \* the status of the metadata
    entries,    \* the ids of which there is an entry, in the queue or the store
    jobs,       \* nzbQueue
    used,       \* ids that were made
    step,       \* what each goroutine does next, and to which id
    orphans,    \* ids whose deletion was cut short
    troubles

nzbVars == <<file, marks, meta, entries, jobs, used, step, orphans, troubles>>

Rests == [pc |-> "idle", id |-> NoId, todo |-> {}, made |-> {}]

NzbInit ==
    /\ file = {} /\ marks = {} /\ entries = {} /\ jobs = <<>> /\ used = {} /\ orphans = {}
    /\ meta = [i \in Ids |-> "none"]
    /\ step = [g \in Jobs |-> Rests]
    /\ troubles = 0

StepAt(g, pc) == step[g].pc = pc
IdOf(g)       == step[g].id
Steps(g, pc)  == step' = [step EXCEPT ![g].pc = pc]
Stops(g)      == step' = [step EXCEPT ![g] = Rests]
Marks(i, m)   == marks' = marks \cup {<<Path(i), m>>}
Unmarks(i, M) == marks' = marks \ ({Path(i)} \X M)
Trouble       == troubles < MaxMishaps /\ troubles' = troubles + 1
NewIds(n)     == {i \in Ids : Path(i) = n /\ i \notin used}

-----------------------------------------------------------------------------
(* AddNewNZB *)

\* Parse has parsed the content, given it an id and saved it by its name.
Save(g, n) ==
    /\ StepAt(g, "idle")
    /\ \E i \in NewIds(n) :
          /\ step' = [step EXCEPT ![g] = [Rests EXCEPT !.pc = "mark", !.id = i]]
          /\ used' = used \cup {i}
    /\ file' = file \cup {n}
    /\ UNCHANGED <<marks, meta, entries, jobs, orphans, troubles>>

Mark(g) ==
    /\ StepAt(g, "mark")
    /\ Marks(IdOf(g), "processing")
    /\ Steps(g, "store")
    /\ UNCHANGED <<file, meta, entries, jobs, used, orphans, troubles>>

\* Mutant: the metadata are left to the worker.
Parsed_Later(i) == meta

Parsed(i) == [meta EXCEPT ![i] = "parsing"]

Store(g) ==
    /\ StepAt(g, "store")
    /\ meta' = Parsed(IdOf(g))
    /\ Steps(g, "queue")
    /\ UNCHANGED <<file, marks, entries, jobs, used, orphans, troubles>>

Enqueue(g) ==
    /\ StepAt(g, "queue")
    /\ entries' = entries \cup {IdOf(g)}
    /\ Steps(g, "push")
    /\ UNCHANGED <<file, marks, meta, jobs, used, orphans, troubles>>

Push(g) ==
    /\ StepAt(g, "push")
    /\ jobs' = Append(jobs, IdOf(g))
    /\ Stops(g)
    /\ UNCHANGED <<file, marks, meta, entries, used, orphans, troubles>>

\* A write fails: the import ends with what it has left so far.
ImportFails(g) ==
    /\ g \in Imports /\ step[g].pc \in {"mark", "store", "queue"}
    /\ Trouble
    /\ Stops(g)
    /\ UNCHANGED <<file, marks, meta, entries, jobs, used, orphans>>

-----------------------------------------------------------------------------
(* nzbWorker: Process, and markAsCompleted or markAsFailed *)

TakeJob(g) ==
    /\ StepAt(g, "idle") /\ jobs # <<>>
    /\ \E pc \in {"complete", "fail"} :
          step' = [step EXCEPT ![g] = [Rests EXCEPT !.pc = pc, !.id = Head(jobs)]]
    /\ jobs' = Tail(jobs)
    /\ UNCHANGED <<file, marks, meta, entries, used, orphans, troubles>>

\* The metadata are written whatever has become of them.
Completes(g) ==
    /\ StepAt(g, "complete")
    /\ meta' = [meta EXCEPT ![IdOf(g)] = "completed"]
    /\ Steps(g, "processed")
    /\ UNCHANGED <<file, marks, entries, jobs, used, orphans, troubles>>

MarkProcessed(g) ==
    /\ StepAt(g, "processed")
    /\ Marks(IdOf(g), "processed")
    /\ Steps(g, "unmark")
    /\ UNCHANGED <<file, meta, entries, jobs, used, orphans, troubles>>

Unmark(g) ==
    /\ StepAt(g, "unmark")
    /\ Unmarks(IdOf(g), {"processing"})
    /\ IF g \in Scans
       THEN step' = [step EXCEPT ![g].pc = "scan", ![g].id = NoId, ![g].made = @ \cup {IdOf(g)}]
       ELSE Stops(g)
    /\ UNCHANGED <<file, meta, entries, jobs, used, orphans, troubles>>

Fail(g) ==
    /\ StepAt(g, "fail")
    /\ meta' = [meta EXCEPT ![IdOf(g)] = "failed"]
    /\ Steps(g, "unmarkFailed")
    /\ UNCHANGED <<file, marks, entries, jobs, used, orphans, troubles>>

UnmarkFailed(g) ==
    /\ StepAt(g, "unmarkFailed")
    /\ Unmarks(IdOf(g), {"processing"})
    /\ Steps(g, "remove")
    /\ UNCHANGED <<file, meta, entries, jobs, used, orphans, troubles>>

RemoveFile(g) ==
    /\ StepAt(g, "remove")
    /\ file' = file \ {Path(IdOf(g))}
    /\ Stops(g)
    /\ UNCHANGED <<marks, meta, entries, jobs, used, orphans, troubles>>

-----------------------------------------------------------------------------
(* ProcessNewNZBs and syncNZBs; the user may put files in the directory. *)

Drop(n) ==
    /\ n \notin file
    /\ file' = file \cup {n}
    /\ UNCHANGED <<marks, meta, entries, jobs, used, step, orphans, troubles>>

Unmarked == {n \in file : \A m \in Markers : <<n, m>> \notin marks}

Scan(g) ==
    /\ StepAt(g, "idle") /\ Unmarked # {}
    /\ step' = [step EXCEPT ![g] = [Rests EXCEPT !.pc = "scan", !.todo = Unmarked]]
    /\ UNCHANGED <<file, marks, meta, entries, jobs, used, orphans, troubles>>

\* processNZBFile: it is parsed and processed in one go.
ScanFile(g) ==
    /\ StepAt(g, "scan")
    /\ \E n \in step[g].todo :
          /\ n \in file
          /\ \E i \in NewIds(n) :
                /\ step' = [step EXCEPT ![g].pc = "complete", ![g].id = i, ![g].todo = @ \ {n}]
                /\ used' = used \cup {i}
    /\ UNCHANGED <<file, marks, meta, entries, jobs, orphans, troubles>>

\* The file cannot be read, or it is no good.
ScanFails(g) ==
    /\ StepAt(g, "scan")
    /\ \E n \in step[g].todo :
          /\ step' = [step EXCEPT ![g].todo = @ \ {n}]
          /\ marks' = marks \cup {<<n, "failed">>}
    /\ UNCHANGED <<file, meta, entries, jobs, used, orphans, troubles>>

\* When all files are done, each new NZB gets its entry.
Sync(g) ==
    /\ StepAt(g, "scan") /\ step[g].todo = {}
    /\ entries' = entries \cup step[g].made
    /\ Stops(g)
    /\ UNCHANGED <<file, marks, meta, jobs, used, orphans, troubles>>

-----------------------------------------------------------------------------
(* Deletion of an entry: DeleteQueued cleans up and deletes the row,       *)
(* DeleteEntry deletes it while another goroutine cleans up.               *)

DeleteFirst(g, i) ==
    /\ StepAt(g, "idle") /\ i \in entries
    /\ entries' = entries \ {i}
    /\ step' = [step EXCEPT ![g] = [Rests EXCEPT !.pc = "file", !.id = i]]
    /\ UNCHANGED <<file, marks, meta, jobs, used, orphans, troubles>>

DeleteLast(g, i) ==
    /\ StepAt(g, "idle") /\ i \in entries
    /\ step' = [step EXCEPT ![g] = [Rests EXCEPT !.pc = "file", !.id = i]]
    /\ UNCHANGED <<file, marks, meta, entries, jobs, used, orphans, troubles>>

\* Usenet.Delete; without metadata there is nothing to clean up.  The
\* file is removed by its name, whoever has written it.
DeleteFile(g) ==
    /\ StepAt(g, "file")
    /\ IF meta[IdOf(g)] = "none"
       THEN Steps(g, "row") /\ UNCHANGED file
       ELSE Steps(g, "markers") /\ file' = file \ {Path(IdOf(g))}
    /\ UNCHANGED <<marks, meta, entries, jobs, used, orphans, troubles>>

DeleteMarkers(g) ==
    /\ StepAt(g, "markers")
    /\ Unmarks(IdOf(g), {"processed", "failed"})
    /\ Steps(g, "meta")
    /\ UNCHANGED <<file, meta, entries, jobs, used, orphans, troubles>>

DeleteMeta(g) ==
    /\ StepAt(g, "meta")
    /\ meta' = [meta EXCEPT ![IdOf(g)] = "none"]
    /\ Steps(g, "row")
    /\ UNCHANGED <<file, marks, entries, jobs, used, orphans, troubles>>

DeleteRow(g) ==
    /\ StepAt(g, "row")
    /\ entries' = entries \ {IdOf(g)}
    /\ Stops(g)
    /\ UNCHANGED <<file, marks, meta, jobs, used, orphans, troubles>>

-----------------------------------------------------------------------------
\* The process ends and starts again.  The jobs are in memory only.
Deleting == {IdOf(g) : g \in {d \in Deletions : ~StepAt(d, "idle")}}

Restart ==
    /\ Trouble
    /\ jobs' = <<>>
    /\ step' = [g \in Jobs |-> Rests]
    /\ orphans' = orphans \cup Deleting
    /\ UNCHANGED <<file, marks, meta, entries, used>>

NzbNext ==
    \/ \E g \in Imports, n \in Names : Save(g, n)
    \/ \E g \in Imports : Mark(g) \/ Store(g) \/ Enqueue(g) \/ Push(g) \/ ImportFails(g)
    \/ \E g \in NzbWorkers : TakeJob(g) \/ Fail(g) \/ UnmarkFailed(g) \/ RemoveFile(g)
    \/ \E g \in NzbWorkers \cup Scans : Completes(g) \/ MarkProcessed(g) \/ Unmark(g)
    \/ \E n \in Names : Drop(n)
    \/ \E g \in Scans : Scan(g) \/ ScanFile(g) \/ ScanFails(g) \/ Sync(g)
    \/ \E g \in Deletions, i \in Ids : DeleteFirst(g, i) \/ DeleteLast(g, i)
    \/ \E g \in Deletions : DeleteFile(g) \/ DeleteMarkers(g) \/ DeleteMeta(g) \/ DeleteRow(g)
    \/ Restart

NzbSpec == NzbInit /\ [][NzbNext]_nzbVars

-----------------------------------------------------------------------------
NzbTypeOK ==
    /\ file \subseteq Names /\ marks \subseteq Names \X Markers
    /\ meta \in [Ids -> {"none", "parsing", "completed", "failed"}]
    /\ entries \subseteq Ids /\ used \subseteq Ids /\ ToSet(jobs) \subseteq used /\ troubles \in 0 .. MaxMishaps
    /\ \A g \in Jobs : IdOf(g) \in used \cup {NoId} /\ step[g].todo \subseteq Names /\ step[g].made \subseteq used

\* What an entry streams is in its metadata: they are there as long as the
\* entry is, whatever fails, restarts or is imported under the same name, but
\* for a deletion that has begun or was cut short.
EntryHasMeta == \A i \in entries : meta[i] # "none" \/ i \in Deleting \cup orphans

\* Refuted by TLC.  A file is made into one entry: the scan takes one that an
\* import has saved and not marked yet.
OneEntryAFile ==
    \A i, j \in entries : Path(i) = Path(j) /\ meta[i] = "completed" /\ meta[j] = "completed" => i = j

\* Refuted by TLC.  Metadata without an entry are those of an import or a scan
\* under way: the worker stores those of an entry that was deleted meanwhile.
MetaHasEntry ==
    troubles = 0 =>
        \A i \in Ids : meta[i] # "none" =>
            i \in entries \cup ToSet(jobs) \cup UNION {{IdOf(g)} \cup step[g].made : g \in Jobs}

\* Refuted by TLC.  A file that nobody is at is one that the scan will take
\* or has taken: the marker of an import that failed or
\* that a restart ended stays for ever.
MarkedIsAttended ==
    \A n \in file : <<n, "processing">> \in marks =>
        \/ \E i \in ToSet(jobs) : Path(i) = n
        \/ \E g \in Jobs : IdOf(g) # NoId /\ Path(IdOf(g)) = n
=============================================================================
