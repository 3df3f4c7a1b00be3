------------------------------- MODULE Downloads -------------------------------
(***************************************************************************)
(* pkg/manager/downloader.go and multiseason.go: what is done with the     *)
(* files of an entry once its provider has them.  One goroutine works      *)
(* through a pack: it downloads the files, links or points to them, or     *)
(* splits the pack into an entry for each season and does that for each.   *)
(* The transfers of all packs share a few slots.                           *)
(*                                                                         *)
(* QueueProcessor has the life of a row up to here and takes this for one  *)
(* step; here the row is only what the downloader writes.  Contents, sizes *)
(* and the speed are left out.  A cancelled context is a shutdown.         *)
(***************************************************************************)
EXTENDS Integers, Sequences, FiniteSets

CONSTANTS
    Packs,          \* entries whose torrent or NZB is complete at the provider
    PackFiles,      \* the files of each, GetActiveFiles
    Kinds,          \* what each pack may be: its action, "native" for a download from
                    \* Usenet itself and "other" for none that is known
    SeasonNames,    \* seasons the name of a file may give: -1 none, 0 specials
    SeasonPaths,    \* the same for the directories of its path
    MaxDownloads,   \* Downloader.maxDownloads, for each pack
    GlobalMax,      \* globalMaxDownloads
    MaxAttempts,    \* maxDownloadAttempts
    MaxDeletions    \* bound: deletions by the front end

Files   == UNION {PackFiles[p] : p \in Packs}
PackOf(f) == CHOOSE p \in Packs : f \in PackFiles[p]
Seasons == (SeasonNames \cup UNION {{path[i] : i \in DOMAIN path} : path \in SeasonPaths}) \ {-1, 0}

ASSUME DownloadsAssumption ==
    /\ \A p, q \in Packs : p # q => PackFiles[p] \cap PackFiles[q] = {}
    /\ SeasonNames \subseteq Int /\ SeasonPaths \subseteq Seq(Int)
    /\ MaxDownloads \in Nat /\ GlobalMax \in Nat \ {0} /\ MaxAttempts \in Nat \ {0}

VARIABLES
    pack,       \* its kind, whether its title claims several seasons, SkipMultiSeason
    named,      \* what the name and the path of a file say of its season
    at,         \* the goroutine of each pack: pc, the season it is at, the seasons left
    row,        \* Queue: the row of each pack (season 0) and of its seasons
    file,       \* the transfer of each file: pc and attempts
    disk,       \* what the download folder has of it: "no", "part", "whole", "link"
    mount,      \* what the mount shows of it: "no", "listed", "ready"
    slots,      \* free room in globalDownloadSem
    cancelled,  \* the context of the manager is
    deleted     \* rows the front end has deleted

fetchVars == <<pack, named, at, row, file, disk, mount, slots, cancelled, deleted>>

Job(p)      == <<p, at[p].season>>
AtPc(p, pc) == at[p].pc = pc

(* multiseason.go: the season of a file is what its name says, or else the *)
(* first thing its path says, or else the first known season in the path.  *)

FirstSaid(path) == LET said == {i \in DOMAIN path : path[i] # -1}
                   IN  IF said = {} THEN 0 ELSE path[CHOOSE i \in said : \A j \in said : i <= j]

SeasonOf(f) == IF named[f].name > 0 THEN named[f].name ELSE FirstSaid(named[f].path)

Known(files) == {SeasonOf(f) : f \in files} \ {0}

Inferred(f, known) ==
    LET ok == {i \in DOMAIN named[f].path : named[f].path[i] \in known}
    IN  IF ok = {} THEN 0 ELSE named[f].path[CHOOSE i \in ok : \A j \in ok : i <= j]

Group(files, n) ==
    LET known == Known(files)
    IN  {f \in files : \/ SeasonOf(f) = n
                       \/ /\ SeasonOf(f) = 0
                          /\ \/ Inferred(f, known) = n
                             \/ Inferred(f, known) = 0 /\ known = {n}}

IsMultiSeason(p) == Cardinality(Known(PackFiles[p])) > 1 \/ pack[p].title

\* Only where links are made; the *arr looks for a download under its own hash.
IsSplit(p) == pack[p].kind \notin {"download", "native"} /\ ~pack[p].skip /\ IsMultiSeason(p)

\* What the job at hand is about.
JobFiles(p) == IF at[p].season = 0 THEN PackFiles[p] ELSE Group(PackFiles[p], at[p].season)

FetchInit ==
    /\ pack \in [Packs -> [kind : UNION {Kinds[p] : p \in Packs}, title : BOOLEAN, skip : BOOLEAN]]
    /\ \A p \in Packs : pack[p].kind \in Kinds[p] /\ (pack[p].kind # "symlink" => ~pack[p].title /\ ~pack[p].skip)
    /\ named \in [Files -> [name : SeasonNames, path : SeasonPaths]]
    /\ \A f \in Files : pack[PackOf(f)].kind = "symlink" \/ named[f] = [name |-> -1, path |-> <<>>]
    /\ at = [p \in Packs |-> [pc |-> "idle", season |-> 0, left |-> {}]]
    /\ row = [p \in Packs |-> [n \in Seasons \cup {0} |-> "no"]]
    /\ file = [f \in Files |-> [pc |-> "no", tries |-> 0]]
    /\ disk = [f \in Files |-> "no"] /\ mount = [f \in Files |-> "no"]
    /\ slots = GlobalMax /\ cancelled = FALSE /\ deleted = {}

(* Once the context is cancelled the store may have been closed, and what  *)
(* is written is lost.                                                     *)
SetRow(p, n, s) ==
    \/ row' = [row EXCEPT ![p][n] = s]
    \/ cancelled /\ UNCHANGED row

Goto(p, pc) == at' = [at EXCEPT ![p].pc = pc]

\* The job is done, one way or the other: the goroutine is over, or takes the
\* next season.
Leave(p) == Goto(p, IF at[p].season = 0 THEN "over" ELSE "split")

Complete(p) == SetRow(p, at[p].season, "completed") /\ Leave(p)
Fail(p)     == SetRow(p, at[p].season, "error") /\ Leave(p)

\* download.  A pack that is split is not what its action is carried out on.
Download(p) ==
    /\ AtPc(p, "idle")
    /\ SetRow(p, 0, "downloading")
    /\ IF IsSplit(p)
       THEN at' = [at EXCEPT ![p] = [pc |-> "split", season |-> 0, left |-> Known(PackFiles[p])]]
       ELSE Goto(p, "process")
    /\ UNCHANGED <<pack, named, file, disk, mount, slots, cancelled, deleted>>

\* The loop over the seasons; one whose row cannot be added is skipped.  Its row
\* does not say that it is being downloaded.
NextSeason(p) ==
    /\ AtPc(p, "split") /\ at[p].left # {}
    /\ \E n \in at[p].left :
          LET left == at[p].left \ {n}
          IN  \/ /\ row' = [row EXCEPT ![p][n] = "added"]
                 /\ at' = [at EXCEPT ![p] = [pc |-> "process", season |-> n, left |-> left]]
              \/ /\ UNCHANGED row
                 /\ at' = [at EXCEPT ![p] = [pc |-> "split", season |-> n, left |-> left]]
    /\ UNCHANGED <<pack, named, file, disk, mount, slots, cancelled, deleted>>

SplitDone(p) ==
    /\ AtPc(p, "split") /\ at[p].left = {}
    /\ SetRow(p, 0, "completed")
    /\ at' = [at EXCEPT ![p] = [pc |-> "over", season |-> 0, left |-> {}]]
    /\ UNCHANGED <<pack, named, file, disk, mount, slots, cancelled, deleted>>

(* process: by the action of the entry.  MkdirAll may fail in all but one. *)
ProcessFails(p) ==
    /\ AtPc(p, "process") /\ pack[p].kind # "none"
    /\ Fail(p)
    /\ UNCHANGED <<pack, named, file, disk, mount, slots, cancelled, deleted>>

ProcessNone(p) ==
    /\ AtPc(p, "process") /\ pack[p].kind = "none"
    /\ SetRow(p, at[p].season, "no")
    /\ Leave(p)
    /\ UNCHANGED <<pack, named, file, disk, mount, slots, cancelled, deleted>>

ProcessStrm(p) ==
    /\ AtPc(p, "process") /\ pack[p].kind = "strm"
    /\ disk' = [f \in Files |-> IF f \in JobFiles(p) THEN "link" ELSE disk[f]]
    /\ Complete(p)
    /\ UNCHANGED <<pack, named, file, mount, slots, cancelled, deleted>>

ProcessSymlink(p) ==
    /\ AtPc(p, "process") /\ pack[p].kind = "symlink"
    /\ Goto(p, "mount")
    /\ UNCHANGED <<pack, named, row, file, disk, mount, slots, cancelled, deleted>>

\* createSymlinksWhenMountFilesAppear: a scan links what it finds.
Scan(p) ==
    /\ AtPc(p, "mount")
    /\ LET found == {f \in JobFiles(p) : mount[f] # "no"}
       IN  /\ disk' = [f \in Files |-> IF f \in found THEN "link" ELSE disk[f]]
           /\ IF found = JobFiles(p) THEN SetRow(p, at[p].season, "downloading") /\ Goto(p, "ready")
                                     ELSE \E f \in found : disk[f] = "no" /\ UNCHANGED <<row, at>>
    /\ UNCHANGED <<pack, named, file, mount, slots, cancelled, deleted>>

\* waitForSymlinkFilesReady, and the probing, which fails nothing.
Ready(p) ==
    /\ AtPc(p, "ready")
    /\ \A f \in JobFiles(p) : mount[f] = "ready"
    /\ Complete(p)
    /\ UNCHANGED <<pack, named, file, disk, mount, slots, cancelled, deleted>>

\* The deadline of either wait, a symlink that cannot be made, a shutdown.
WaitFails(p) ==
    /\ at[p].pc \in {"mount", "ready"}
    /\ Fail(p)
    /\ UNCHANGED <<pack, named, file, disk, mount, slots, cancelled, deleted>>

(* processTorrentDownload asks for all links before it starts a transfer   *)
(* and leaves out the files that get none.                                 *)
GetLinks(p) ==
    /\ AtPc(p, "process") /\ pack[p].kind \in {"download", "other"}
    /\ \E linked \in SUBSET JobFiles(p) :
          /\ file' = [f \in Files |-> IF f \in linked THEN [pc |-> "queued", tries |-> 0]
                                      ELSE IF f \in JobFiles(p) THEN [pc |-> "unlinked", tries |-> 0]
                                      ELSE file[f]]
          /\ IF linked = {} THEN Fail(p) ELSE Goto(p, "fetch") /\ UNCHANGED row
    /\ UNCHANGED <<pack, named, disk, mount, slots, cancelled, deleted>>

\* processUsenetDownload, which needs no links.
StartUsenet(p) ==
    /\ AtPc(p, "process") /\ pack[p].kind = "native"
    /\ file' = [f \in Files |-> IF f \in JobFiles(p) THEN [pc |-> "queued", tries |-> 0] ELSE file[f]]
    /\ SetRow(p, at[p].season, "downloading") /\ Goto(p, "fetch")
    /\ UNCHANGED <<pack, named, disk, mount, slots, cancelled, deleted>>

Busy(p) == {f \in JobFiles(p) : file[f].pc \in {"transfer", "backoff"}}

TakeSlot(f) ==
    LET p == PackOf(f)
    IN  /\ file[f].pc = "queued" /\ slots > 0
        /\ MaxDownloads > 0 => Cardinality(Busy(p)) < MaxDownloads
        /\ file' = [file EXCEPT ![f].pc = "transfer"]
        /\ slots' = slots - 1
        /\ disk' = [disk EXCEPT ![f] = IF pack[p].kind = "native" THEN "part" ELSE disk[f]]
        /\ UNCHANGED <<pack, named, at, row, mount, cancelled, deleted>>

\* A goroutine that waits for a slot when the context ends.
SlotGivenUp(f) ==
    /\ cancelled /\ file[f].pc = "queued"
    /\ file' = [file EXCEPT ![f].pc = "failed"]
    /\ UNCHANGED <<pack, named, at, row, disk, mount, slots, cancelled, deleted>>

EndTransfer(f, pc) ==
    /\ file' = [file EXCEPT ![f].pc = pc]
    /\ slots' = slots + 1

\* localDownloader, Usenet.Download.
Downloaded(f) ==
    /\ file[f].pc = "transfer"
    /\ disk' = [disk EXCEPT ![f] = "whole"]
    /\ EndTransfer(f, "done")
    /\ UNCHANGED <<pack, named, at, row, mount, cancelled, deleted>>

LastAttempt(f) == pack[PackOf(f)].kind = "native" \/ file[f].tries + 1 >= MaxAttempts

\* An attempt fails, or the watchdog cancels one that does not advance.  The
\* slot is kept until the next one.
AttemptFails(f) ==
    /\ file[f].pc = "transfer" /\ ~LastAttempt(f)
    /\ disk' = [disk EXCEPT ![f] = "part"]
    /\ file' = [file EXCEPT ![f].pc = "backoff"]
    /\ UNCHANGED <<pack, named, at, row, mount, slots, cancelled, deleted>>

TransferFails_Forgets(f) ==
    /\ file[f].pc = "transfer"
    /\ disk' = [disk EXCEPT ![f] = "no"]
    /\ file' = [file EXCEPT ![f].pc = "failed"]
    /\ UNCHANGED <<pack, named, at, row, mount, slots, cancelled, deleted>>

\* The last one fails, or the disk is full: what there is is removed.
TransferFails(f) ==
    /\ file[f].pc = "transfer"
    /\ disk' = [disk EXCEPT ![f] = "no"]
    /\ EndTransfer(f, "failed")
    /\ UNCHANGED <<pack, named, at, row, mount, cancelled, deleted>>

\* The backoff is over, and the link was asked for again, in vain or not.
Reattempt(f) ==
    /\ file[f].pc = "backoff"
    /\ file' = [file EXCEPT ![f] = [pc |-> "transfer", tries |-> @.tries + 1]]
    /\ UNCHANGED <<pack, named, at, row, disk, mount, slots, cancelled, deleted>>

\* The context ends in the backoff: what there is stays.
BackoffGivenUp(f) ==
    /\ cancelled /\ file[f].pc = "backoff"
    /\ EndTransfer(f, "failed")
    /\ UNCHANGED <<pack, named, at, row, disk, mount, cancelled, deleted>>

\* pool.Wait, which waits for all and returns the first error.
Join_First(p) ==
    /\ AtPc(p, "fetch")
    /\ \E f \in JobFiles(p) : file[f].pc \in {"done", "failed"}
    /\ IF \E f \in JobFiles(p) : file[f].pc = "failed" THEN Fail(p) ELSE Complete(p)
    /\ UNCHANGED <<pack, named, file, disk, mount, slots, cancelled, deleted>>

Join(p) ==
    /\ AtPc(p, "fetch")
    /\ \A f \in JobFiles(p) : file[f].pc \in {"done", "failed", "unlinked"}
    /\ IF \E f \in JobFiles(p) : file[f].pc = "failed" THEN Fail(p) ELSE Complete(p)
    /\ UNCHANGED <<pack, named, file, disk, mount, slots, cancelled, deleted>>

-----------------------------------------------------------------------------
(* Around the downloader: the mount shows a file and then serves it, the   *)
(* program is told to end, a row and its folder are deleted.  When nobody  *)
(* is looking or all is over these change nothing that matters here.       *)

Appears(f) ==
    /\ at[PackOf(f)].pc \in {"mount", "ready"} /\ f \in JobFiles(PackOf(f))
    /\ \E m \in {"listed", "ready"} : m # mount[f] /\ mount[f] # "ready" /\ mount' = [mount EXCEPT ![f] = m]
    /\ UNCHANGED <<pack, named, at, row, file, disk, slots, cancelled, deleted>>

Shutdown ==
    /\ ~cancelled /\ cancelled' = TRUE
    /\ \E p \in Packs : ~AtPc(p, "over")
    /\ UNCHANGED <<pack, named, at, row, file, disk, mount, slots, deleted>>

DeleteRow(p) ==
    /\ Cardinality(deleted) < MaxDeletions /\ ~AtPc(p, "over")
    /\ \E n \in DOMAIN row[p] :
          /\ row[p][n] # "no"
          /\ row' = [row EXCEPT ![p][n] = "no"]
          /\ deleted' = deleted \cup {<<p, n>>}
          /\ disk' = [f \in Files |-> IF f \in (IF n = 0 THEN PackFiles[p] ELSE Group(PackFiles[p], n))
                                      THEN "no" ELSE disk[f]]
    /\ UNCHANGED <<pack, named, at, file, mount, slots, cancelled>>

PackStep(p) ==
    \/ Download(p) \/ NextSeason(p) \/ SplitDone(p)
    \/ ProcessFails(p) \/ ProcessNone(p) \/ ProcessStrm(p) \/ ProcessSymlink(p)
    \/ Scan(p) \/ Ready(p) \/ WaitFails(p) \/ GetLinks(p) \/ StartUsenet(p) \/ Join(p)

TransferStep(f) ==
    \/ SlotGivenUp(f) \/ Downloaded(f) \/ AttemptFails(f) \/ TransferFails(f)
    \/ Reattempt(f) \/ BackoffGivenUp(f)

FetchStep ==
    \/ \E p \in Packs : PackStep(p)
    \/ \E f \in Files : TakeSlot(f) \/ TransferStep(f)

FetchNext ==
    \/ FetchStep
    \/ \E f \in Files : Appears(f)
    \/ \E p \in Packs : DeleteRow(p)
    \/ Shutdown

(* Some goroutine that can go on does: a transfer ends or is cancelled for *)
(* not advancing, a wait has a deadline.  No more is needed, for each of   *)
(* them has only so many steps to make.                                    *)
FetchFairness == WF_fetchVars(FetchStep)

FetchSpec     == FetchInit /\ [][FetchNext]_fetchVars
FairFetchSpec == FetchSpec /\ FetchFairness

-----------------------------------------------------------------------------
(* Properties *)

FetchTypeOK ==
    /\ \A p \in Packs :
          /\ at[p].pc \in {"idle", "split", "process", "mount", "ready", "fetch", "over"}
          /\ at[p].season \in Seasons \cup {0} /\ at[p].left \subseteq Seasons
    /\ row \in [Packs -> [Seasons \cup {0} -> {"no", "added", "downloading", "completed", "error"}]]
    /\ file \in [Files -> [pc : {"no", "unlinked", "queued", "transfer", "backoff", "done", "failed"},
                           tries : 0 .. MaxAttempts - 1]]
    /\ disk \in [Files -> {"no", "part", "whole", "link"}] /\ mount \in [Files -> {"no", "listed", "ready"}]
    /\ slots \in 0 .. GlobalMax /\ cancelled \in BOOLEAN

\* The files a completed row stands for: those of the season, or of the pack
\* unless it was split.
Stands(p, n) == IF n # 0 THEN Group(PackFiles[p], n)
                ELSE IF IsSplit(p) THEN {} ELSE PackFiles[p]

\* downloader.go:680-683: what "can be mistaken for a complete file" is not left
\* behind.  A row that says completed has all its files in the folder, but the
\* ones without a link, however transfers failed, were repeated or overtook
\* each other; and a transfer that failed on its own leaves no part of it.
CompletedIsThere ==
    /\ \A p \in Packs : \A n \in DOMAIN row[p] :
          row[p][n] = "completed" /\ deleted = {} =>
              \A f \in Stands(p, n) : disk[f] \in {"whole", "link"} \/ file[f].pc = "unlinked"
    /\ \A f \in Files : file[f].pc = "failed" /\ ~cancelled => disk[f] = "no"

\* downloader.go:49-54: no transfer holds a slot for ever, and none waits for one
\* for ever: a pack that is begun comes to an end.
DownloadEnds == \A p \in Packs : ~AtPc(p, "idle") ~> AtPc(p, "over")

\* Refuted by TLC.  A completed row has all of its files: one without a link is
\* left out, and the row completes without it.
CompletedIsWhole ==
    \A p \in Packs : row[p][0] = "completed" /\ deleted = {} => \A f \in Stands(p, 0) : disk[f] \in {"whole", "link"}

\* Refuted by TLC.  A pack that is split is whole: a file of no season is in
\* none of the groups, and a pack whose title alone claims seasons has no group.
SplitIsWhole ==
    \A p \in Packs : row[p][0] = "completed" /\ deleted = {} /\ IsSplit(p) =>
        PackFiles[p] = UNION {Group(PackFiles[p], n) : n \in Known(PackFiles[p])}

\* Refuted by TLC.  download's first comment, of the seasons: as long as the
\* goroutine is at one its row keeps the scheduler away.
SeasonsAreClaimed ==
    \A p \in Packs : at[p].season # 0 /\ AtPc(p, "mount") => row[p][at[p].season] # "added"

\* Refuted by TLC.  A row that was deleted stays so: the goroutine writes it back.
DeletedStays == \A j \in deleted : row[j[1]][j[2]] = "no"

\* Refuted by TLC.  A shutdown is not an error of the entry.
ShutdownIsNoError == \A p \in Packs : cancelled /\ row[p][0] = "error" => ~AtPc(p, "over")
===============================================================================
