# A TLA+ model of hoardarr

hoardarr (a fork of decypharr, Go) stands between media managers ("arrs") and
debrid or usenet providers. It accepts torrents and NZBs through the APIs of
qBittorrent and SABnzbd, submits them to providers, follows them until they can
be read, keeps one entry for each in a log-structured store, and serves the
files over WebDAV, as links, as symlinks or as downloads. A repair service
probes what it holds and replaces what is broken.

The modules here are translated from the Go source. The prose of the repository
is used only where a run compares the program with what is said about it. Paths
below are relative to `src/`.

Many statements that one would like to hold do not. Three of them contradict
what a comment of the code says and have a run of their own that expects the
violation. The others are definitions whose comment begins with "Refuted by TLC"
or "Refuted": named as an INVARIANT or a PROPERTY in the cfg of their module's run,
in place of the others, they give the counterexample. They are listed with each
module below; they are limits of the program that a maintainer should know,
not mistakes of the model.

## 1. Inventory

| Part | State | Operations | Hard behaviours | Modules |
|---|---|---|---|---|
| Hybrid store `pkg/storage/hybrid` | append-only log and its sync frontier, index with secondary index and sorted-keys memo, LRU cache, two tickers | Put, Get, Delete, ForEach, Compact, Sync, Close, New | a Get that fills the cache after giving up its lock; compaction against everything; crash and replay; rename; versions | `HybridStore`, `DurableMap` |
| Storage layer `pkg/storage` | five hybrid stores (entries, queue, items, repair state, repair runs) | CRUD of each; the items derived from entries; dirty marks | read-modify-write without a lock over two stores; iteration while others delete | in the modules of its users |
| Import queue `pkg/manager/queue.go`, `processor.go`, slot tracker | a slice of requests with its capacity, slots of each debrid | PushRequest, PopRequest, ReQueue, SendToDebrid, Submit, CheckStatus | a resliced slice; the copies at several debrids of which one is kept; a full debrid | `ImportQueue` |
| Queue processor `processor.go`, `workers.go` | claims of hashes in process, `IsDownloading`, State and Status of queued entries | AddNewTorrent, the ticker, processQueuedTorrent/NZB, processAction, markAsError, completeEntry | a snapshot used after a claim; overlapping ticks; a crash in the middle; an action that fails half way | `QueueProcessor` |
| Downloader `downloader.go`, `multiseason.go` | transfers, slots of a pack and of all packs, rows of the seasons | processDownload, processSymlink, processStrm, processMultiSeason, retries | slots held by dead transfers, a shutdown, deletions under way | `Downloads` |
| Torrent refresh `torrent.go`, switcher, fixer | entries with their placements, items, jobs of switches | per-debrid refresh with batch writer, purge, SwitchTorrent, MoveTorrent, deletion | refreshes of several debrids and switches writing the same entry from what they read before | `TorrentEntries` |
| Link service `manager/link`, accounts `debrid/account` | validated links, single flight, disabled accounts, re-insertions | GetLink, refetch, handleBadLink, FixTorrent, Clear | concurrent callers, recursion with a bound, accounts that run out meanwhile | `LinkService` |
| Entry cache and mount tree `cache.go`, `entry.go`, `custom_folders.go` | cached listings | listing, Refresh, AddOrUpdate, DeleteEntry | a listing computed before a change and stored after it | `EntryTree` |
| Provider clients `pkg/debrid/providers` | tokens, pages, CheckFile's memo of torbox | SubmitMagnet, CheckStatus, GetTorrents, download links, CheckFile | paging through a list that changes | `DebridListing`, `ImportQueue` |
| NNTP client `internal/nntp` | per-provider semaphore, stack of idle connections, checked-out set, closed flag | ExecuteWithFailover, getAnyAvailableConnection, raceForConnection, put, release, reaper, Close | slots never lost nor doubled, failover and retry, cancellation, shutdown | `NntpPool`, `NntpFailover` |
| Article checks: CheckFile, BatchStat, the repair bank | chunks, results, tokens | sampling, pipelined STAT over providers | several workers, lost connections, shared backbones, cancelled contexts | `ArticleChecks` |
| Segment reader `pkg/usenet/fs/reader` | state, pin count and on-disk flag of each segment, promises in flight, prefetch queue | ReadAt, Fetch, prefetch, evict, Close | eviction against pins, one fetch per segment, failures, waiting | `SegmentReader` |
| Usenet engine `pkg/usenet` | NZB and metadata files with markers, shared readers, download of a file | Parse, Process, the directory scan, Stream, clean-up, Download | clean-up against use; files written one after the other; segments out of order | `NzbFiles`, `UsenetReaders`, `SegmentDownload` |
| NZB and archive parsers `pkg/usenet/parser` | none between calls | grouping, order of volumes, sizes of articles, ranges of stored files | off-by-one of ranges, volumes that are missing or of another size | `FileLayout` |
| Streams `stream.go`, `webdav/file.go`, `internal/crypto` | active streams | Range header, requests to debrids, retries, decryption | ranges at boundaries; a stream that is taken up again | `FileStreams` |
| Repair `repair.go`, `repair_sweep.go` | active run, records of runs, health records, dirty marks, heal cache | sweep, recheck, fix, clear, stop | overlapping runs, orphans after a crash, cancellation | `RepairSweep` |
| Migrations `storage.go`, `migrator.go` | status in the store, version of the entries | MigrateMetadata, the import of the old JSON cache | crashes between two writes; a start after a start that failed | `StoreMigration` |
| Job queue `jobqueue.go`; rate limiting and HTTP retries | a heap of jobs; token buckets | | | no module |
| Front ends `pkg/server`, arr client `pkg/arr`, notifications, configuration, statistics | sessions, configuration | HTTP handlers | wording and formats | no module |

How they interact: the front ends call the manager with import requests; the
manager calls provider clients and writes queue entries; tickers (30 s for
slots, the refresh interval for queued entries, per-provider intervals for
torrents) run in goroutines of their own and share the stores; readers call the
link service (debrid) or the segment reader (usenet), which calls the NNTP
client; repair calls the same paths to probe; everything persistent goes
through the hybrid store.

What makes each part correct, in one line: the store loses nothing that was
flushed and never serves what was overwritten; no queued entry is processed
twice at a time and none is stuck; every copy that was made at a debrid for a
request is that of an entry or is deleted; a pack that is completed has its files;
the store comes to agree with the lists of the debrids; a request for a link is
answered; a listing catches up with the store; the pool neither exceeds nor loses
connections and its callers finish; what is called missing is missing
everywhere; a reader returns the bytes of the file or an error, and returns; a
file that is used is not closed; the bytes served are those posted, and those asked for;
a run of repair ends in a final state, also after a crash; a migration that ended
has brought in everything.

### How the modules are put together

`NntpFailover` extends `NntpPool` and moves its hands by the pool's operations.
`HybridStore` is shown to implement `DurableMap`. `NntpFailover`, `HybridStore`,
`QueueProcessor` and `SegmentReader` have runs of their own. The other modules
have variables of their own and meet others through one step: what one
module does in detail is a single nondeterministic step in another
(`QueueProcessor` takes a download for one step, `Downloads` has the download;
`DebridListing` has the list that `TorrentEntries` takes for a snapshot;
`SegmentDownload` and `ArticleChecks` take a fetch of an article for one answer,
`NntpFailover` has the fetch).

Modules that share no state are put side by side by `Manager`, `Services` and
`Imports`, which the `MC_` modules of these names give their constants: a variable
`part` is chosen at the start and only the actions of that part are taken, so
that the state space of the run is the sum of those of its parts, not their
product. The variables of the others keep their initial values. Fairness is that
of the parts. This is a way to run several specifications with one cfg and not a
claim about how they interleave; that every behaviour of the three is one of each
of its parts is proved (`ManagerParts`, `PartsStep`, `ImportsParts`), and what is proved of a part holds there.

## 2. The hybrid store

`HybridStore.tla` models pkg/storage/hybrid, `DurableMap.tla` what it promises.

| Module | Code | Correspondence |
|---|---|---|
| `HybridStore` | store.go, log.go, index.go, cache.go | `log` is the open file as a sequence of records, `synced` how many of them survive a crash, `hdr` the version in its header, `named` whether it still has its name; `index`, `byCategory`, `sorted` and `dirty` are the in-memory index; `items` and `order` the LRU cache. Put, Delete, Sync and Close run under the write lock and are single actions; Get is `GetHit`, or `GetMiss` and `Fill`, because it gives its lock up in between; Compact is a step per record, a swap and a rename, and recovery a step per record, so that a crash can fall between any two |
| `DurableMap` | the package comment, Put/Get/Delete | a map and its states since the last flush: a restart may return to any of them |
| `MC_HybridStore` | | files found at startup, writes, sizes of values |
| `HybridStoreProofs` | | theorems |

A record is (key, value, category, version) or a tombstone; offsets are
positions in the sequence. Record sizes are a fixed part and a value part, all
that the compaction decision reads. `Faults` switches on what a crash or a
platform may do: "torn" records, "swap" (dying or failing between the removal of
the old file and the rename of the new one), "old" (a file of an older version
that is not upgraded). A crash may happen in every state and keeps a prefix of
the file that holds at least what was synced.

| Run | Question | Outcome |
|---|---|---|
| `store_core` | does the index always equal what a replay of the log would rebuild, and does the store implement `DurableMap`? One reader, crashes, compaction at every point, files of version 2 upgraded | holds |
| `store_serial` | with every fault on, when no write falls between the two halves of a Get, do the index, its memo and the cache stay consistent? Two readers | holds |
| `store_stale` | is the cache coherent without that restriction? | violated: a Get caches the value that a Put overwrote in the meantime |

Two keys and two values are enough to overwrite, delete, reorder and evict
(`CacheSize` 1); three records (`MaxLog`) let a compaction follow writes and
precede others. No liveness is stated: nothing in the store waits.

The faults break the promise, each in its way, when they are switched on in
`HybridStore_core.cfg`: with `Faults = {"swap"}` `ImplementsDurableMap` is
refuted, because between Remove and Rename there is no file of that name; with
`Faults = {"torn"}`, because records appended behind a torn one are not found by the next
replay (`InitLogs <- EmptyFile` and `Versions = {3}` are enough for the two); with
`Faults = {"old"}`, because a file of version 2 whose upgrade did not happen is
appended to in the new format.

`HybridStoreProofs`, for every set of keys, values and categories, every bound
and every set of faults unless said otherwise: `TypeCorrect`;
`CategoriesCorrect` (the secondary index equals the categories of the primary
one); `SortMemoCorrect` (a memo that is used is the sorted key sequence);
`SerialCacheCoherent` (coherence under `SerialSpec`, where no write falls into a
Get); `IndexReplaysLog` under `NoDamage`, an assumption on `Faults` that
excludes what harms a file. The last rests on an invariant of compaction and of
recovery: what has been copied is the replay of the new log restricted to the keys
already visited, and what has been recovered is the replay of the records already
scanned.

`StoreIsDurableMap` is the refinement: every step of the store is one of `DurableMap`
or a stutter of it, under `NoFaults`, which excludes the three faults above and nothing
else, crashes at any point least of all. What the map contains is the value of the last record of each
key; its history is what the prefixes of the log that a crash may leave contain, from the last sync on. The
proof rests on the invariants already there (memory, replay) and on two more: a put in a log
carries a value, and the file keeps its name. Put and Delete are writes of the map, Sync and the swap of a
compaction flushes, Close and a crash stops, the end of a recovery a start; every other step is a
stutter. The type invariant is proved, and so is not among the runs.

Left out: statistics, the buffer pool, ForEach's reading of one key after the
other, and what a compaction does after one whose rename failed.

## 3. The NNTP client

| Module | Code | Correspondence |
|---|---|---|
| `NntpPool` | client.go: ProviderPool, getOrCreateFromPool, put, release, reaper, Close | `stack` is the LIFO of idle connections, `slots` the length of the semaphore channel, `open` and `spoiled` what the sockets are; a *hand* (`at`, `prov`, `conn`) is a local variable of some goroutine that may hold a slot and a connection. A hand takes a slot, pops or dials, checks, holds, pushes, and releases the slot last, each its own step; the reaper and Close work pool by pool |
| `NntpFailover` | ExecuteWithFailover, getAnyAvailableConnection, raceForConnection, getPreferredProviderConnection, batchStatOnProvider | `call` has the local variables of each call, `race` those of each race. A call scans the providers without blocking, then races one goroutine per provider, drains the losers in the background, runs its operation with retries, may swap the connection for one of the provider it had first, and excludes a provider on failure, with its backbone when the article was not found |
| `MC_NntpFailover` | | two providers with one connection each, sharing a backbone |
| `NntpPoolProofs`, `NntpFailoverProofs` | | theorems |

`NntpFailover` extends `NntpPool`: its actions move hands by the operations of
the pool, and `UsesPool` states that they never do otherwise; by it what holds
of the pool holds of the client. `Faults` switches on deadlines, undecodable
bodies, panics of the operation, Close and the reaper.

| Run | Question | Outcome |
|---|---|---|
| `failover_core` | two calls competing for two connections, with the reaper: is every slot accounted for, every connection in one place, and everything given back when a call has returned? | holds |
| `failover_faults` | one call and one BatchStat worker with Close, deadlines, panics and undecodable bodies: connection limits, ownership, conformance to the pool, and does the call return? | holds |

One connection per provider makes every slot contended; two providers are the
least with something to fail over to; retries are off in the runs. Fairness: every goroutine
that can go on does, and every context has a deadline (`Deadline` is weakly
fair), as in the callers of the code. Without the deadline a call may wait for a slot for ever.

Refuted by TLC: `NoSlotLeak` when deadlines pass (`Faults = {"deadline"}` in
`NntpFailover_core.cfg`: a race that ends between a racer's send and the drain
leaves a connection in the channel for good);
`NoCrossWait` (two callers with retries each wait, a connection in hand, for
the other's provider; set `Retries = 1` in `NntpFailover_core.cfg`), `CleanReuse` (a
connection with unread bytes goes back to the stack; `Faults = {"decode"}`),
`NotFoundFromThere` (after a swap of connections the wrong provider is excluded;
`Retries = 1` and `Backbone <- NoBackbone`),
`ClosedLeavesNothingOpen` (a connection put back while Close passes stays open; `Faults = {"close"}`).

Proved, for any providers, limits, goroutines and connections:
`PoolTypeCorrect`, `PoolSlotsAccounted` (tokens in the semaphore equal the hands
that hold one, so that none is released twice), `PoolConnBound` (open and
dialling connections of a provider never exceed its limit), `ClientUsesPool`
(every step of the client is a step of the pool), and from the two
`ClientConnBound`. The bound is not inductive: `NntpPoolProofs` strengthens it with what the
stack and the hands hold together, since `put` pushes before it releases.
From the same invariant come `PoolOneOwner` (an open connection is on the stack once or in
one hand) with `ClientOneOwner` for the client, and `PoolStackHasRoom` (the cap of the stack,
of which the code says that it should not matter, does not).

`NothingLeaksInTime` is `NoSlotLeak` with `"deadline"` not in `Faults`, that is, for contexts that do not end
before the call; with deadlines it is refuted. Its invariant, `HoldsInv`,
says for each place in ExecuteWithFailover which hands may have something: the one it scans with, the
connection in use, the preferred one beside it, and in a race those of the racers at work, of the reports in
the channel and of the winner. Reports are of different racers, and each still has its connection. Everything
else is empty or on its way back to the pool. `NamesAssumption` keeps the names of hands and of providers apart.
`CallReturns` is liveness and model-checked. The type invariant is proved and in no run.

Left out: TLS, login and the NNTP dialogue; SpeedTest, which dials without a slot;
the contents of BatchStat's answers.

## 4. The segment reader

`SegmentReader` models reader.go, fetcher.go, cache.go of pkg/usenet/fs/reader.
`st`, `onDisk`, `pins`, `error` are the atomics of each segment, `used` the disk
count, `prom` the promises in flight, `queue` the prefetch channel, `act` the local
variables of every reader and prefetch worker, `ev` those of the evictor, `stage`
the steps of Close. Every load, store and compare-and-swap that another goroutine
can separate from the next is a step. Readers pin, hint, fetch, wait, copy and unpin; workers
take hints and fetch; Fetch is the same code for both.

| Run | Question | Outcome |
|---|---|---|
| `reader_core` | does a segment have one download, are pins and the disk count exact, and does every Fetch return, with missing articles, timeouts and Close at any point | holds |
| `reader_hang` | does every read return, when nothing fails? | violated: the evictor's check of the pin and its swap are apart, and a read in between waits for a download that nobody makes |

Two segments of which one fits on disk make reader, worker and evictor contend;
one slot makes downloads queue; a prefetch queue of one fills up. Fairness:
goroutines run, a slot is granted to one that waits again and again (the
semaphore is a FIFO channel), an article is delivered, refused or out of time.
Two readers are not checked together with a worker (the state space is out of reach of a
quick run).

Proved, for any segments, readers, workers, slots and faults: `ReaderTypes`,
`DownloadsOnce` (`OneDownload`), `PinsBelongToReads` (`PinsAreReads`) and `DiskIsCounted`
(`DiskCounted`). The first needs that whoever is past the claim of a segment owns its promise, and
that a segment is in the state "fetching" only while somebody fetches it (`OwnersAgree`, `FetchesAgree`).
The last counts the segments in the state "disk", with the one the evictor
has marked and not yet dropped. `FetchReturns` is liveness.

Left out: the stream position; decryption is in `FileStreams`, the pool of
readers in `UsenetReaders`. Segments are the unit of length.

## 5. The queue processor

`QueueProcessor` models what happens to an import from its acceptance to the end of its
download: AddNewTorrent and processNewTorrent, AddNewNZB (native, or at a debrid provider), the
tick, processQueuedTorrent/NZB/DebridUsenet, the NZB workers, processAction,
the downloader's marks, deletion, a restart, a main store that fails.
`queue` is the queue store row by row, of which the model keeps State,
IsDownloading and whether there is a provider; `work` the goroutines, each with its
own copy of the row, because every write of the code is of a whole row;
`claims` is processingEntries; `todo` what a tick listed; `meta` and `jobs` the
NZB metadata and the queue of the workers; `added` the hashes that were added to
the main store (later removal there is left out). `Gos` bounds how many goroutines run at a time. `outages`
counts failed writes of the main store and restarts, up to `MaxOutages`.

| Run | Question | Outcome |
|---|---|---|
| `qp_core` | does each claim belong to one goroutine at work; is every row that says "downloading" attended while there is no outage; is a row completed only after its entry was added; does every row settle? | holds |

Two hashes cover the three kinds of entry, since an NZB may go either way; two
goroutines and a ticker with a list of its own are enough for stale copies,
overlapping imports of one hash and deletions under way. Fairness: the scheduler
ticks, goroutines run on, downloads end, a worker takes a job, and a provider that
is asked again and again has the content some day (without it a torrent is polled for ever,
as in the program).

`NotReselected` (a hash whose action is under way is out of the ticker's reach) is
refuted by TLC: the claim is given back before the started goroutine has written
IsDownloading (`Hashes = {h1}`, `NoAction = {}`, `NzbWorkers = 0` and
`MaxOutages = 0` give a short trace).

What an outage leaves is not repaired: with `outages = 0` taken out of `Attended`, TLC
finds rows that say IsDownloading for ever after a failed AddOrUpdate or a
restart, and native NZBs whose job is lost. That is why the property has the condition.

Proved in `QueueProcessorProofs`, for any hashes, goroutines, tickers and
outages: `TypeCorrect`; `ClaimsStayHeld`, inductive together with the types;
`CompletedIsAdded`, by `AddInv`: no copy of a row says "done" while it can still be written, and
whoever is past the merge has added its entry; and `AllAttended`. `Attended` follows from `AttendInv`:
a copy of a row says what its goroutine may have read, and while there was no outage a row
that is downloading has the goroutine its flags speak of (`RowsHeld`), and metadata that are being parsed
have a worker or a job (`JobsHeld`). `Settles` is model-checked only.

Left out: the choice of a provider (in `ImportQueue`), what a download does (in
`Downloads`), notifications, edits of tags and categories (which write back rows they read earlier).

## 6. Repair, refresh and migration

| Module | Code | Correspondence |
|---|---|---|
| `RepairSweep` | repair.go, repair_sweep.go, storage/repair.go | `health` and `runs` are the stores of health records and of runs, `active`, `cancelRun` and `cancelled` the fields of Repair and its contexts; a *job* is the goroutine of a run (sweep, media recheck, fix, clear) or of the recheck of an entry, with what it has read. Selection, each probe, the heal and the save of its result, the deletion at an arr, the search and the deletion of entries are steps; so are the three halves of StopRun and the two of ApplyConfig. A restart runs reconcileOrphans |
| `TorrentEntries` | torrent.go, switcher.go, fixer.go, storage/entry.go | `remote` is what each debrid lists, `entries` and `item` two of the stores, `sync` a refresh per debrid with the entries it has read, `switch` the goroutines of executeMigration, `purge` and `cut` removals half-way. An entry is written as its item and then itself, each a step |
| `StoreMigration` | storage.go (MigrateMetadata), migrator.go | `journal` is the log of the store, `durable` how much of it is synced, `migration` the local variables of a start and the status it keeps in the store. A crash falls anywhere, and loses what is not synced |

| Run | Question | Outcome |
|---|---|---|
| `manager_core` | one run at a time; a run that ended is in a final state, and every run ends; the store comes to agree with the lists; a start that ends has brought in all that was cached, through crashes | holds |
| `torrents_lost` | is a torrent that nobody took away at some debrid? | violated: a placement that a refresh wrote back is taken for the torrent itself, and the switch back deletes the only copy |

Bounds: one entry of one file and two runs, with a recheck of one entry beside
them, which is what it takes for two goroutines to write the same record; one
event from outside (a stop, a new configuration, a restart, a mark, a request of the
user, a file that is lost) at any point. Two debrids, one torrent, one
switch and two changes: a refresh of one debrid writes back what it read before
the switch or the refresh of the other wrote. Three files of the old cache, two of
one torrent of which the first has no id, and one that cannot be read; an old entry; two
crashes, one failed operation, one edit of a user.

Fairness: the goroutines run on (each job and each step of the administration), the
refresh of each debrid is scheduled again and again, as its ticker does. `Converges` excludes
a debrid with an empty list, which the code takes for an error.

Refuted by TLC, all with the constants of `Manager_core.cfg`: `DeletedWereSought` (an
entry is deleted though the search for one of its files failed),
`DirtySurvives` (a probe that read the files before a mark writes over it),
`CancelSticks` (progress of a run is saved over a cancelled state, until it ends);
`ItemsFollow` (the items of a folder stay without a file of an entry that was
written back); `FailedIsTriedAgain` (one torrent that came in is enough for the
migration to be over), `ActiveIsPlaced`, `OneKeyAFile` (what the merge
of several files makes), `NotRevived` (an entry that the user deleted is brought in again
when the status could not be saved).

Proved in `ManagerProofs`: `RepairTypes`, `OneRunAlways` and `EndedStaysFinal`, for any entries, files,
arrs, runs and jobs. `OneRun` follows from `SweepInv`: a run at work is the active one, or cancelled, or the
one that StopRun has taken out and is about to cancel; `EndedIsFinal` from the same, as only the
goroutine of a run, or the start after it, writes its record after the claim. `MigrationTypes` and
`StartCompletes`, for any old cache, entries, crashes and losses: in the log a status that says
"over" stands behind an entry of every cached hash (`OverMeansAll`), and each entry that is new has its debrids and metadata
from the first (`WholeEntries`). Both are true of every prefix of a log of which they are true, hence after a crash that keeps one. `MigrationAssumption` says that
the cache is a list, the old entries are finitely many, and no hash is the key of the status.

Of `TorrentEntries`: `TorrentInvariant`, its types with what the tasks of a refresh still plan, and `TorrentTypes`.
`StoreFollows` is `Converges` from its hypotheses, `RefreshesConverge` the same in the form of the run: if
from some time on nobody but the refresh of a debrid changes the placements there (`Undisturbed`: the switches,
the deletions and the list itself have come to rest) and its list is fetched again and again (`Asked`), the
store agrees with the list for good. The argument is a round: a refresh that starts then plans, torrent by
torrent, what the entry lacks, and its tasks write that (`Round`); when the next one starts the entries agree,
and from there on no refresh has anything to do (`Settled`). The two hypotheses are what the fairness of the refresh and
the bounds on changes give on the instance, where TLC checks the whole. `ManagerTypes` joins the types of the three parts.

The comment of migrator.go says that the migration is started in the background; it
runs in the foreground, with the mutex held, before the manager serves. The model
has what the code does. Nothing calls Migrator.Stop.

Left out: the queries of the arrs and the matching of their file names, the
selection of one file of several, statistics.

## 7. Links, listings and downloads

| Module | Code | Correspondence |
|---|---|---|
| `LinkService` | manager/link/service.go, debrid/account, FixTorrent of fixer.go | a *flight* is the goroutine of a key in the single-flight group with the stack of fetchLink and fetchAndValidate, which call each other; `links`, `disabled` and `current` belong to the accounts, `validated` is the cache of the service, `inFlight`, `cooling`, `failed` and `result` are the fixer's. Looking a link up, asking an account, the HEAD request, disabling, re-fetching, and each step of a re-insertion are steps |
| `EntryTree` | cache.go, entry.go, custom_folders.go, mount.go | `meta`, `owner` and `removed` are the stores; `cache` what is listed and `filling` what was computed and not yet stored, because the single flight computes without the lock |
| `Downloads` | downloader.go, multiseason.go | `at` is the goroutine of a pack, `file` each transfer with its attempts, `slots` the semaphore of all packs, `row` the rows of a pack and its seasons, `disk` what is in the folder |

| Run | Question | Outcome |
|---|---|---|
| `services_core` | does every GetLink return, and is no request for a re-insertion left behind; do the listings catch up with the store; has a completed row its files, and does every pack that is begun end? | holds |

Bounds: two callers, of whom one asks for either of two files; two debrids, of
which one has two accounts, one of which may run out of quota; one re-insertion; one
trouble from outside. Two entries of one folder, two directories that somebody
reads, three writes. A pack of two files, which may be of any kind and have or
lack seasons in names and paths, beside a native one of one file, one slot for both, two
attempts. The second pack takes part only where there are transfers, and for symlinks
the season of one file is fixed (both in `MC_Services`): they add nothing there but states.

Fairness: a flight goes on, a listing that was computed is stored, and the scheduled refresh of the
mount comes again and again; a download goes on, and a transfer
comes to an end, since the code's watchdog cancels one that stands still and retries are
counted.

Refuted by TLC, with `Services_core.cfg` unless said otherwise: `RetryableRetried`
(an answer of the cache is returned as retryable without a request),
`OneReinsertion` (two keys of an entry pass the look-up of the cooldown together);
`GetLinkReturns` when every account may run out (`Spendable <- MCSpendAll`: fetchAndValidate swaps
accounts for ever); `ProviderFoldersCatchUp` (`Shown = {p1, show}`: the folders of the
debrids are not dropped); `CompletedIsWhole`, `SplitIsWhole`
(without the conjunct of `Init` that fixes the season of `a1`), `SeasonsAreClaimed`, `DeletedStays`,
`ShutdownIsNoError`, each with a comment that says what happens instead.

Proved in `ServicesProofs`, for any callers, files, accounts and packs:

* `LinkTypes`: types, with what they need to be preserved: a caller that waits has a flight
  under way, the stack of a flight fits its place, re-insertions stay within their bound;
* `RepairsMove` (`InFlightMoves`): a request in `inFlight` is that of a flight that is moving the entry;
* `FetchTypes`: types, with the slots: those that are free and the transfers that hold one
  are together as many as there are;
* `CompletedHasFiles` (`CompletedIsThere`): the files of the job at hand are apart from those that completed
  rows stand for, because the groups of a pack by season are disjoint, and a transfer that is counted as done
  has its file. `DownloadsAssumption` says what names and paths may tell of seasons.

* `TreeTypes`: the types of stores and listings, among them that a removed file is one of the store; `ServicesTypes`
  joins the three;
* `ListingsDoCatchUp` (`ListingsCatchUp`): once the stores change no more, what a directory lists is what they
  say. Its hypotheses are `TreeFairness` with the enabling conditions written out (`StoresListing`: a listing that was
  computed is stored; `RunsRefresh`: the scheduled refresh comes when there is something to drop), because the provers do
  not evaluate ENABLED. A stale listing may be stored once more, the next refresh drops it, and each one computed after the
  last change is right.

Left out: the wall-clock expiry of an account, paths and sizes, resumption within one
transfer; the removal of a partial file is taken to succeed.

## 8. Imports and Usenet

| Module | Code | Correspondence |
|---|---|---|
| `ImportQueue` | queue.go, processor.go (SendToDebrid), manager.go (slot tracker), SubmitMagnet, CheckStatus and DeleteTorrent of the five clients | `queue` and `room` are the slice and what is left of its capacity, `copies` the torrents that exist at debrids, with who is responsible for each: a goroutine (`go`), a deletion in the background, the entry (`kept`), nobody (`strays`) |
| `DebridListing` | the listing functions and CheckFile of the five clients | `remote` is the list at the debrid, newest first, `fetch` the page and offset a client is at, `due` what an honest list would have |
| `NzbFiles` | usenet.go (Parse, Process, scan, Delete), processor.go, workers.go | files, markers and metadata on disk, the queue of jobs, and `step`, the next write of each goroutine |
| `FileLayout` | pkg/usenet/parser, offsets of fs/reader/cache.go | `upload` is what was posted and what the NZB says of it; three stages (sizes, headers, assembly) make the files; `Served` finds a byte as the reader does. The reference is what was posted, byte by byte |
| `ArticleChecks` | usenet.go (CheckFile), client.go (BatchStat), repair_bank.go | `check` has the chunks that are left and the results, `worker` the goroutines of BatchStat: tokens, providers asked so far, what was not found where |
| `UsenetReaders` | usenet.go (Stream, the cleanup ticker, Close) | one key of `Usenet.fs`: entries with their count, the streams between look-up, count, open, read and release, the ticker between its look and its drop |
| `SegmentDownload` | download.go | fetchers, the channel and the goroutine that writes |
| `FileStreams` | manager/stream.go, webdav/file.go, internal/crypto | ranges as intervals of positions, requests with their retries, the answer's declared range and what is sent |

| Run | Question | Outcome |
|---|---|---|
| `imports_core` | is every copy at a debrid somebody's; is a list complete that reports no error; has an entry its metadata; are bytes served as posted; is what is called missing missing everywhere; is the count of a reader that of its users; is a file written in order and whole; is what is sent what was asked for and declared? | holds |

Bounds: two requests over two debrids of any kind of client, one of which is
open to one request only, one caller and one tracker, a queue of capacity three, one
failure. Lists of three in pages of two, with two changes. One NZB name with two
ids (so that it is imported again), an import, a worker, a scan and a deletion at once, one
mishap. Three volumes in articles of two bytes, in which a file starts behind another,
spans volumes and ends in one byte, and one article that is missing. Four
segments of which three are sampled in chunks of two; three providers of which two share a
backbone. Two streams and two entries of a key. Four segments and two fetchers. Two requests
with eleven Range headers, which cover each boundary, for four kinds of files.
No liveness is stated here.

`FileLayout` rests on assumptions: a header of a RAR volume is one byte, RAR5 is laid
out as the older format is, data are not taken for a header, a group of plain files is
one file; where the files lie in a 7z is external; the scan of a RAR in a 7z gets a first chunk
that is the whole volume; the estimate of an article's size is off by `Skew`;
`UsualSize` 9 stands for 750 KB. Encrypted headers are left out.

Refuted by TLC with `Imports_core.cfg` unless said otherwise, each with a comment
at its definition: in `ImportQueue` `FullMeansFull` (room is lost by each pop
that reslices), `AcceptedNotLost`, `FilesOfItsOwn` (the files of a debrid that failed stay),
`NothingLeftBehind`; in `DebridListing` `ListingTrue`, `PlacedStays` (an
offset moves with each removal, and the refresh deletes what it did not see), `BrokenIsGone`;
in `NzbFiles` `OneEntryAFile`, `MetaHasEntry`, `MarkedIsAttended`; in
`ArticleChecks` `FineIsComplete`; in `UsenetReaders` `ReadsAreOpen`,
`CountsArePositive`; in `SegmentDownload` `PendingIsBounded` (`Length = 6`); in `FileLayout`
`ZipAsPosted`, `RarIn7zAsPosted`, `WholeOrNothing`, `GapsAreNoticed`; in `FileStreams` `ActiveIsListed`,
`WholeIsWhole`, `MembersAreServed` (a file further inside of an archive is served whole: its range is
shifted to its place in the archive and then cut off at its own size, or refused), and `ServedAsAsked` itself with
`RangeIgnored = TRUE` (a server that answers a retry with the whole file). `MembersAreServed` came out of the
proof of `ServedAsAsked`, whose last part did not go through for such files; it is now
restricted to the others, and one file of the run lies at position 1 of its archive.

Proved in `ImportsProofs`, for every value of the constants:

* `WrittenInOrderAlways`: what Usenet.Download has written is the file from its
  beginning, and it returns without an error only when it is whole. The invariant
  says what the variables hold between them: every segment that was started is being
  fetched, on its way, pending or written, and only an error lets one be lost.
* `UsersAreCountedAlways`: while nobody takes an entry that is being
  closed (that this happens is `ReadsAreOpen`), the count of an entry is that of its users. The
  invariant adds where the users and the ticker can be: an entry that is used is the mapped
  one, the ticker is only at one that is not used.
* `MissingIsMissingAlways`: a check says "missing" only when a segment is at no
  provider. The invariant follows a worker through its providers: of a segment that is open,
  without an error, each provider asked so far, or one of its backbone, has said that it does
  not have it.
* `EntryKeepsMeta` (`EntryHasMeta`): what an import, a worker or a scan has made and not yet entered is its
  own, its metadata are there, and no deletion is at it (`OwnersOK`, `StoredOK`); the
  four kinds of goroutines are different ones (`NzbFilesAssumption`).
* `CopiesStayOwned` (`CopiesOwned`): from the answer of the debrid on until it is added, deleted or lost, a copy is
  the one in hand of its goroutine.
* `ListingsComplete` (`ListingComplete`): while a client pages without trouble, the due torrents at the
  places up to its offset have been read (`ReadSoFar`); additions in front only move what is due
  behind the offset. The list is finite and without repeats.
* `AllServedAsAsked` (`ServedAsAsked`, without `RangeIgnored`): a range fits its file, what was sent is the run of
  positions from its start, and the read of an encrypted file is widened to blocks and cut back to what was
  asked. `StreamAssumption` gives the types of shows and headers, sizes of blocks and buffers that are
  positive, and encrypted files in whole blocks, which is what the archives have (external).

The types of all eight parts are theorems too, and `ImportsTypes` joins them. What they need says something of the
program here and there: the queue never holds more than the capacity that is left of its slice, which each pop that
reslices makes smaller; the tokens of the repair bank that are free and those the workers hold are together as
many as there were; a walk over the headers of a volume, one header at a time, never leaves the volume.
`LayoutTypeCorrect` states the last for any volumes, articles and errors of the estimate.

`FileLayout` and `ArticleChecks` select, sort and cut lists by operators of their own (`SortedBy`, `ByNumber`, `Sums`),
each with the lemmas that say what it returns, because what the library's return is beyond the provers.

Left out: the length of an article against what the NZB says of it (Download takes a short one for
whole), the wire format of STAT, PreCache, the methods of WebDAV other than GET.

## 9. What is proved and what is not

Forty-nine theorems, in eight proof modules; `PROJECT.json` lists them with the property each
states. Every safety property of a passing run is among them but `ServedAsPosted`. They rest on the named assumptions of the modules on their
constants, on the library's facts about finite sets, sequences and functions, and on these
hypotheses, which the theorems name: `NoDamage` and `NoFaults` (the store), `OutOfTimeNever` (the NNTP client),
`~RangeIgnored` (streams). What they exclude are the faults by which sections 2, 3 and 8 have
properties refuted.

Two liveness properties are theorems as well, `ListingsCatchUp` and `StoreConverges`, from hypotheses that say what
happens again and again. That weak fairness gives these hypotheses takes ENABLED, which the prover does not evaluate; TLC
checks the two from the fairness itself.

Model-checked only:

* the other liveness properties, `CallReturns`, `FetchReturns`, `Settles`, `RunsEnd`, `GetLinkReturns` and `DownloadEnds`:
  each is an argument over many steps of many goroutines that descends in a measure, where every step needs ENABLED;
* `ServedAsPosted` of `FileLayout`: it composes a search by halves, cuts of ranges and sums over volumes and articles.
  It is no theorem of the code for every posting: it needs volumes of one size but the last, members inside them and
  numbers or sizes that tell which volume is last. It stays with the postings TLC enumerates, and its proof under
  these hypotheses is left undone.

## 10. Not modelled

* `NewJobQueue` (jobqueue.go) has no caller.
* Rate limiters and HTTP retries: wall-clock rates, of which an untimed model sees nothing.
* HTTP handlers, the clients of the arrs, notifications, configuration,
  statistics: their effect on the stores is in the actions above, the rest is wording and formats.
* Formats: yEnc, the bytes of archive headers, NZB XML, protobuf.
* TLS, login and the dialogue of NNTP.

## 11. Plan

1. Larger instances: two readers together with a worker in `SegmentReader`; two torrents that share a folder in `TorrentEntries`.
2. Composition: `ImportQueue` with the acceptance of `QueueProcessor`, whose row it creates;
   `DebridListing` as the source of the lists of `TorrentEntries`, where `ListingComplete` would be the
   assumption `StoreFollows` rests on.
3. Proofs: which connections a race with a deadline leaves behind, as a theorem that bounds what leaks.
