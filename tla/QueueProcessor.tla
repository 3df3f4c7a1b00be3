----------------------------- MODULE QueueProcessor -----------------------------
(***************************************************************************)
(* pkg/manager: what happens to an import between its acceptance and the   *)
(* end of its download.  Every entry is a row of the queue store; every    *)
(* goroutine works on a copy of its own and writes the whole row back.     *)
(* A ticker lists the rows, claims the hash of each that it has to look at *)
(* and starts a goroutine for it; the goroutine asks the provider, and     *)
(* once the content is there it gives the claim back and starts            *)
(* processAction, which adds the entry to the main store and downloads it. *)
(*                                                                         *)
(* Three kinds of entries: torrents, usenet downloads that a debrid        *)
(* provider makes ("usenet"), and NZBs of the native engine ("nzb"), which *)
(* wait in a queue of jobs for a worker.                                   *)
(***************************************************************************)
EXTENDS Integers, Sequences, FiniteSets

CONSTANTS
    Hashes,         \* info hashes
    Torrents,       \* those of torrents; the others are NZBs
    NoAction,       \* those with DownloadActionNone
    Gos,            \* goroutines; as many as may run at a time
    Tickers,        \* processQueuedEntries, scheduled and initial calls
    NzbWorkers,     \* Usenet.MaxConcurrentNZB
    MaxOutages,     \* failed writes of the main store and restarts, together
    Faults,         \* which of "error" and "delete" may happen
    None

ASSUME QueueAssumption ==
    /\ Torrents \subseteq Hashes /\ NoAction \subseteq Hashes
    /\ IsFiniteSet(Gos) /\ NzbWorkers \in Nat /\ MaxOutages \in Nat

VARIABLES
    queue,      \* the queue store: the row of each hash
    added,      \* the hashes whose entry was added to the main store
    claims,     \* Manager.processingEntries
    todo,       \* what each ticker listed and has not looked at yet
    work,       \* goroutines: program counter, hash, copy of the row, claim held
    meta,       \* the status of the NZB metadata; "remote": at a debrid provider
    jobs,       \* Manager.nzbQueue
    outages

vars == <<queue, added, claims, todo, work, meta, jobs, outages>>

Row == [state : {"downloading", "done", "error"}, dl : BOOLEAN, prov : BOOLEAN]

\* State "downloading", not IsDownloading, ActiveProvider set or not.
Accepted(placed) == [state |-> "downloading", dl |-> FALSE, prov |-> placed]

Unused == [pc |-> "none", h |-> None, e |-> None, claimed |-> FALSE]

Init ==
    /\ queue = [h \in Hashes |-> None] /\ added = {} /\ claims = {}
    /\ todo = [t \in Tickers |-> {}]
    /\ work = [g \in Gos |-> Unused]
    /\ meta = [h \in Hashes |-> "none"] /\ jobs = <<>>
    /\ outages = 0

Free(g)   == work[g] = Unused
At(g, pc) == work[g].pc = pc
HashOf(g) == work[g].h

Starts(g, pc, h, e, c) == work' = [work EXCEPT ![g] = [pc |-> pc, h |-> h, e |-> e, claimed |-> c]]

\* q.Update(entry): the whole row, whatever is there now.
Update(h, e) == queue' = [queue EXCEPT ![h] = e]

\* The row is written, and the goroutine goes on with it.
Writes(g, e, pc) ==
    /\ Update(HashOf(g), e)
    /\ work' = [work EXCEPT ![g].e = e, ![g].pc = pc]
    /\ UNCHANGED claims

\* The deferred processingEntries.Delete.
Released(g) == claims' = IF work[g].claimed THEN claims \ {HashOf(g)} ELSE claims

Ends(g) == work' = [work EXCEPT ![g] = Unused] /\ Released(g)

\* The last write of a goroutine.
EndsWith(g, e) == Update(HashOf(g), e) /\ Ends(g)

\* go processAction(entry), and the claim is given back.
StartsAction(g, e) ==
    /\ Update(HashOf(g), e)
    /\ work' = [work EXCEPT ![g].pc = "action", ![g].e = e, ![g].claimed = FALSE]
    /\ Released(g)

MarkAsError(e)     == [e EXCEPT !.state = "error", !.dl = FALSE]
MarkAsCompleted(e) == [e EXCEPT !.state = "done", !.dl = FALSE]
InFlight(e)        == [e EXCEPT !.dl = TRUE]

others == <<added, todo, meta, jobs, outages>>

-----------------------------------------------------------------------------
(* Acceptance *)

\* AddNewTorrent, after SendToDebrid: also over a row that is there.
AddTorrent(g, h) ==
    /\ h \in Torrents /\ Free(g)
    /\ Update(h, Accepted(FALSE))
    /\ Starts(g, "new", h, Accepted(FALSE), FALSE)
    /\ UNCHANGED <<claims, others>>

\* addNZBToDebrid; the hash is made from the id of the download.
AddUsenet(h) ==
    /\ h \notin Torrents /\ meta[h] = "none"
    /\ Update(h, Accepted(TRUE))
    /\ meta' = [meta EXCEPT ![h] = "remote"]
    /\ UNCHANGED <<claims, work, added, todo, jobs, outages>>

\* AddNewNZB, native: metadata, row and job.
AddNZB(h) ==
    /\ h \notin Torrents /\ meta[h] = "none"
    /\ meta' = [meta EXCEPT ![h] = "parsing"]
    /\ Update(h, Accepted(TRUE))
    /\ jobs' = Append(jobs, h)
    /\ UNCHANGED <<claims, work, added, todo, outages>>

\* processNewTorrent: one Update, ...
NewUpdate(g) ==
    /\ At(g, "new")
    /\ Writes(g, work[g].e, "place")
    /\ UNCHANGED others

\* ... then the provider is recorded: it has the content already, ...
Placed(g)  == [work[g].e EXCEPT !.prov = TRUE]

NewReady(g) ==
    /\ At(g, "place")
    /\ StartsAction(g, Placed(g))
    /\ UNCHANGED others

\* ... or not yet.
NewWaits(g) ==
    /\ At(g, "place")
    /\ EndsWith(g, Placed(g))
    /\ UNCHANGED others

-----------------------------------------------------------------------------
(* processQueuedEntries *)

Listed == {[h |-> h, e |-> queue[h]] :
             h \in {x \in Hashes : queue[x] # None /\ queue[x].state = "downloading"}}

TickList(t) ==
    /\ todo[t] = {} /\ Listed # {}
    /\ todo' = [todo EXCEPT ![t] = Listed]
    /\ UNCHANGED <<queue, claims, work, added, meta, jobs, outages>>

\* The NZB of a debrid provider is told from its ActiveProvider.
Looks(h) == CASE h \in Torrents -> "poll" [] meta[h] = "remote" -> "ask" [] OTHER -> "look"

TickTake_NoCheck(t, x) ==
    /\ todo' = [todo EXCEPT ![t] = @ \ {x}]
    /\ IF x.e.dl \/ (x.h \in Torrents /\ ~x.e.prov)
       THEN UNCHANGED <<claims, work>>
       ELSE \E g \in Gos : /\ Free(g) /\ claims' = claims \cup {x.h}
                           /\ Starts(g, Looks(x.h), x.h, x.e, TRUE)
    /\ UNCHANGED <<queue, added, meta, jobs, outages>>

TickTake_KeepsClaim(t, x) ==
    /\ todo' = [todo EXCEPT ![t] = @ \ {x}]
    /\ IF x.e.dl \/ x.h \in claims THEN UNCHANGED <<claims, work>>
       ELSE /\ claims' = claims \cup {x.h}
            /\ IF x.h \in Torrents /\ ~x.e.prov THEN UNCHANGED work
               ELSE \E g \in Gos : Free(g) /\ Starts(g, Looks(x.h), x.h, x.e, TRUE)
    /\ UNCHANGED <<queue, added, meta, jobs, outages>>

\* One entry of the list, as it was when the list was made.  LoadOrStore skips
\* a hash that is claimed; the claim of a torrent without a provider is given
\* back at once.
TickTake(t, x) ==
    /\ todo' = [todo EXCEPT ![t] = @ \ {x}]
    /\ IF x.e.dl \/ x.h \in claims \/ (x.h \in Torrents /\ ~x.e.prov)
       THEN UNCHANGED <<claims, work>>
       ELSE \E g \in Gos : /\ Free(g) /\ claims' = claims \cup {x.h}
                           /\ Starts(g, Looks(x.h), x.h, x.e, TRUE)
    /\ UNCHANGED <<queue, added, meta, jobs, outages>>

\* processQueuedTorrent: CheckStatus fails, ...
PollFails(g) ==
    /\ At(g, "poll") /\ "error" \in Faults
    /\ EndsWith(g, MarkAsError(work[g].e))
    /\ UNCHANGED others

\* ... the provider is still at it, ...
PollWaits(g) ==
    /\ At(g, "poll")
    /\ EndsWith(g, work[g].e)
    /\ UNCHANGED others

\* ... or has it.
PollDone(g) ==
    /\ At(g, "poll")
    /\ StartsAction(g, work[g].e)
    /\ UNCHANGED others

\* processQueuedDebridUsenet: goes on in processNewTorrent, with the claim.
Ask(g) ==
    /\ At(g, "ask")
    /\ \/ "error" \in Faults /\ EndsWith(g, MarkAsError(work[g].e))
       \/ work' = [work EXCEPT ![g].pc = "new"] /\ UNCHANGED <<queue, claims>>
    /\ UNCHANGED others

\* processQueuedNZB
LookNzb(g) ==
    /\ At(g, "look")
    /\ CASE meta[HashOf(g)] = "parsing" -> Ends(g) /\ UNCHANGED queue
         [] meta[HashOf(g)] = "done"    -> work' = [work EXCEPT ![g].pc = "finish"] /\ UNCHANGED <<queue, claims>>
         [] OTHER                       -> EndsWith(g, MarkAsError(work[g].e))
    /\ UNCHANGED others

\* processNZB, called by the ticker's goroutine or by a worker.  One without
\* files is an error.
FinishNzb(g) ==
    /\ At(g, "finish")
    /\ \/ StartsAction(g, work[g].e)
       \/ "error" \in Faults /\ EndsWith(g, MarkAsError(work[g].e))
    /\ UNCHANGED others

-----------------------------------------------------------------------------
(* nzbWorker *)

Processing == {g \in Gos : work[g].pc \in {"process", "finish", "fail"} /\ ~work[g].claimed}

WorkerPop(g) ==
    /\ Free(g) /\ jobs # <<>> /\ Cardinality(Processing) < NzbWorkers
    /\ Starts(g, "process", Head(jobs), Accepted(TRUE), FALSE)
    /\ jobs' = Tail(jobs)
    /\ UNCHANGED <<queue, claims, added, todo, meta, outages>>

\* Usenet.Process writes the metadata first; the row follows.
Process(g) ==
    /\ At(g, "process")
    /\ \/ meta' = [meta EXCEPT ![HashOf(g)] = "done"] /\ work' = [work EXCEPT ![g].pc = "finish"]
       \/ /\ "error" \in Faults
          /\ meta' = [meta EXCEPT ![HashOf(g)] = "failed"] /\ work' = [work EXCEPT ![g].pc = "fail"]
    /\ UNCHANGED <<queue, claims, added, todo, jobs, outages>>

WorkerFails(g) ==
    /\ At(g, "fail")
    /\ EndsWith(g, MarkAsError(work[g].e))
    /\ UNCHANGED others

-----------------------------------------------------------------------------
(* processAction and the downloader *)

Action(g) ==
    /\ At(g, "action")
    /\ Writes(g, InFlight(work[g].e), "merge")
    /\ UNCHANGED others

Merge_Skipped(g) ==
    /\ At(g, "merge")
    /\ work' = [work EXCEPT ![g].pc = "begin"]
    /\ UNCHANGED <<queue, claims, others>>

\* AddOrUpdate in the main store ...
Merge(g) ==
    /\ At(g, "merge")
    /\ added' = added \cup {HashOf(g)}
    /\ work' = [work EXCEPT ![g].pc = "begin"]
    /\ UNCHANGED <<queue, claims, todo, meta, jobs, outages>>

\* ... and its error return.
MergeFails(g) ==
    /\ At(g, "merge") /\ outages < MaxOutages
    /\ outages' = outages + 1
    /\ Ends(g)
    /\ UNCHANGED <<queue, added, todo, meta, jobs>>

Begin(g) ==
    /\ At(g, "begin")
    /\ Writes(g, InFlight(work[g].e), "download")
    /\ UNCHANGED others

\* The progress of the download, every few seconds.
Progress(g) ==
    /\ At(g, "download")
    /\ Update(HashOf(g), work[g].e)
    /\ UNCHANGED <<work, claims, others>>

DownloadFails_Returns(g) ==
    /\ At(g, "download") /\ "error" \in Faults
    /\ Ends(g)
    /\ UNCHANGED <<queue, others>>

DownloadFails(g) ==
    /\ At(g, "download") /\ "error" \in Faults
    /\ EndsWith(g, MarkAsError(work[g].e))
    /\ UNCHANGED others

Complete(g) ==
    /\ At(g, "download")
    /\ IF HashOf(g) \in NoAction
       THEN Writes(g, MarkAsCompleted(work[g].e), "drop")
       ELSE EndsWith(g, MarkAsCompleted(work[g].e))
    /\ UNCHANGED others

\* DownloadActionNone removes its row.
Drop(g) ==
    /\ At(g, "drop")
    /\ EndsWith(g, None)
    /\ UNCHANGED others

-----------------------------------------------------------------------------
(* The front ends, stalled entries, restarts *)

\* Removed from the queue, while goroutines may be at work on copies of the row.
Delete(h) ==
    /\ "delete" \in Faults /\ queue[h] # None
    /\ Update(h, None)
    /\ UNCHANGED <<claims, work, others>>

\* Only the stores are kept.
Restart ==
    /\ outages < MaxOutages
    /\ outages' = outages + 1
    /\ claims' = {} /\ todo' = [t \in Tickers |-> {}] /\ work' = [g \in Gos |-> Unused]
    /\ jobs' = <<>>
    /\ UNCHANGED <<queue, added, meta>>

-----------------------------------------------------------------------------

Run(g) ==
    \/ NewUpdate(g) \/ NewReady(g) \/ NewWaits(g) \/ PollFails(g) \/ PollWaits(g) \/ PollDone(g)
    \/ Ask(g) \/ LookNzb(g) \/ FinishNzb(g) \/ Process(g) \/ WorkerFails(g)
    \/ Action(g) \/ Merge(g) \/ MergeFails(g) \/ Begin(g)
    \/ DownloadFails(g) \/ Complete(g) \/ Drop(g)

Tick(t) == TickList(t) \/ \E x \in todo[t] : TickTake(t, x)

Next ==
    \/ \E h \in Hashes : AddUsenet(h) \/ AddNZB(h) \/ \E g \in Gos : AddTorrent(g, h)
    \/ \E t \in Tickers : Tick(t)
    \/ \E g \in Gos : Run(g) \/ Progress(g) \/ WorkerPop(g)
    \/ \E h \in Hashes : Delete(h)
    \/ Restart

Spec == Init /\ [][Next]_vars

\* The tickers tick, goroutines and workers run, a download ends, and a provider
\* that is asked about a hash again and again has its content some day.
Fairness ==
    /\ \A t \in Tickers : SF_vars(Tick(t))
    /\ \A g \in Gos : WF_vars(Run(g))
    /\ SF_vars(\E g \in Gos : WorkerPop(g))
    /\ \A h \in Hashes : SF_vars(\E g \in Gos : HashOf(g) = h /\ (PollDone(g) \/ NewReady(g)))

FairSpec == Spec /\ Fairness

-----------------------------------------------------------------------------
(* Properties *)

Claiming == {"poll", "ask", "look", "new", "place", "finish"}
Busy     == {"merge", "begin", "download"}
Pcs      == Claiming \cup Busy \cup {"process", "fail", "action", "drop"}

\* Types of the processor's variables; the claim is not held during an action.
TypeOK ==
    /\ queue \in [Hashes -> Row \cup {None}]
    /\ added \subseteq Hashes /\ claims \subseteq Hashes
    /\ todo \in [Tickers -> SUBSET [h : Hashes, e : Row]]
    /\ work \in [Gos -> {Unused} \cup [pc : Pcs, h : Hashes, e : Row, claimed : BOOLEAN]]
    /\ \A g \in Gos : work[g].claimed => work[g].pc \in Claiming
    /\ meta \in [Hashes -> {"none", "remote", "parsing", "done", "failed"}]
    /\ jobs \in Seq(Hashes)
    /\ outages \in 0 .. MaxOutages

On(h, pcs) == {g \in Gos : HashOf(g) = h /\ work[g].pc \in pcs}

\* manager.go:79-82: while a hash is claimed exactly one goroutine of the ticker is
\* at it, so that none is looked at twice at a time and none is left claimed.
ClaimsHeld ==
    /\ \A g \in Gos : work[g].claimed => HashOf(g) \in claims
    /\ \A g, o \in Gos : work[g].claimed /\ work[o].claimed /\ HashOf(g) = HashOf(o) => g = o
    /\ \A h \in claims : \E g \in Gos : work[g].claimed /\ HashOf(g) = h

\* processor.go:317-320: nothing is left "stuck forever".  As long as the process
\* runs and the main store takes what it is given, a row that says it is being
\* downloaded, has no provider or waits for its NZB has a goroutine or a job.
Attended ==
    outages = 0 =>
    \A h \in Hashes : queue[h] # None /\ queue[h].state = "downloading" =>
        /\ queue[h].dl => On(h, Busy) # {}
        /\ ~queue[h].prov => On(h, {"new", "place"}) # {}
        /\ meta[h] = "parsing" => On(h, {"process"}) # {} \/ \E i \in DOMAIN jobs : jobs[i] = h

\* A row says it is completed only when its entry was added to the main store,
\* which is what serves the files and what another import of the hash merges with.
CompletedAdded == \A h \in Hashes : queue[h] # None /\ queue[h].state = "done" => h \in added

\* A row does not say "downloading" for ever.
Settles == \A h \in Hashes :
    (queue[h] # None /\ queue[h].state = "downloading")
        ~> (queue[h] = None \/ queue[h].state # "downloading" \/ outages > 0)

\* Refuted by TLC.  processor.go:294-297: a tick does not "re-select this hash" once its action is
\* under way, so that no second pool of downloads writes the same files.
NotReselected ==
    [][\A h \in claims' \ claims : On(h, {"action"} \cup Busy) = {}]_vars
===============================================================================
